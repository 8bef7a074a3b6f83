------------------------------ MODULE Demotion ------------------------------
(***************************************************************************)
(* What a demotion does to the client sessions of a pod: RoleWatcher       *)
(* composed with Supervisor, and the set of processes that hold a session  *)
(* opened while the instance was the primary (external: pg_doorman         *)
(* migrates its clients to the successor of a binary upgrade, and keeps    *)
(* the ones in a transaction until it exits).                              *)
(*                                                                         *)
(* The shutdown path is left out (no Cancel), orphans reparent to the      *)
(* wrapper and a sweep kills what it finds.  The role may change any number*)
(* of times between two polls.                                             *)
(*  - Overlap: a demotion may meet a handover.                             *)
(***************************************************************************)
EXTENDS Integers, FiniteSets

CONSTANTS Pids, NoPid, WaitDelays, SuccessorTimeout, HandoverMax, MaxAge
CONSTANT Overlap
CONSTANT MaxUpgrades  \* bound on the binary upgrades of a behaviour

ASSUME SupervisorAssumption ==
    /\ NoPid \notin Pids
    /\ WaitDelays \subseteq Nat /\ SuccessorTimeout \in Nat
    /\ MaxAge \in Nat /\ \A d \in WaitDelays : d + SuccessorTimeout < MaxAge
    /\ HandoverMax \in Nat
ASSUME BoundAssumption == MaxUpgrades \in Nat

VARIABLES pc, subreaper, ctxDone, cmd, adoptedPid, upgradeRequested,
          upgradeAge, termed, proc, heir
VARIABLES roleFile, lastRole
VARIABLES
    sessions,  \* the processes with sessions from a time as primary
    unseen,    \* those whose time as primary ended before a poll saw it
    upgrades   \* how many upgrades were requested

S == INSTANCE Supervisor WITH MaxStrays <- 0
R == INSTANCE RoleWatcher

supervisor == <<pc, subreaper, ctxDone, cmd, adoptedPid, upgradeRequested,
                upgradeAge, termed, proc, heir>>
roles == <<roleFile, lastRole>>
clients == <<sessions, unseen>>
vars == <<supervisor, roles, clients, upgrades>>

Init ==
    /\ S!Init
    /\ subreaper = TRUE
    /\ R!Init
    /\ sessions = {}
    /\ unseen = {}
    /\ upgrades = 0

\* No handover is pending or under way.
NoHandover == heir = NoPid /\ (upgradeRequested => upgradeAge > HandoverMax)

-----------------------------------------------------------------------------

\* A client opens a session through the Service of the primary.
Connect(p) ==
    /\ roleFile = "primary"
    /\ proc[p] \in {"serving", "upgrading"}
    /\ p \notin sessions
    /\ sessions' = sessions \cup {p}
    /\ UNCHANGED <<supervisor, roles, unseen, upgrades>>

\* A time as the primary that no poll has seen ends unseen.
SetRole(r) ==
    /\ r # roleFile
    /\ ~Overlap => NoHandover
    /\ R!SetRole(r)
    /\ unseen' = IF roleFile = "primary" /\ lastRole # "primary"
                 THEN sessions ELSE unseen
    /\ UNCHANGED <<supervisor, sessions, upgrades>>

\* A poll that sees the primary has seen what all sessions are from.
CheckRole ==
    /\ R!CheckRole
    /\ unseen' = IF roleFile = "primary" THEN {} ELSE unseen
    /\ UNCHANGED <<supervisor, sessions, upgrades>>

\* SIGTERM reaches the supervised pid; its sessions end with the process.
CheckDemoted ==
    R!CheckDemoted /\ S!Restart /\ UNCHANGED <<clients, upgrades>>

CheckDemotedFails ==
    /\ R!CheckDemotedFails
    /\ ~S!CanSignal
    /\ UNCHANGED <<supervisor, clients, upgrades>>

\* The BinaryWatcher triggers an upgrade.
Upgrade ==
    /\ upgrades < MaxUpgrades
    /\ ~Overlap => /\ roleFile = lastRole
                   /\ roleFile = "primary" \/ sessions \subseteq unseen
    /\ S!Upgrade
    /\ upgrades' = upgrades + 1
    /\ UNCHANGED <<roles, clients>>

\* The successor takes over the clients of the old process.
SpawnSuccessor(p, q) ==
    /\ S!SpawnSuccessor(p, q)
    /\ sessions' = IF p \in sessions THEN sessions \cup {q} ELSE sessions
    /\ unseen' = IF p \in unseen THEN unseen \cup {q} ELSE unseen
    /\ UNCHANGED <<roles, upgrades>>

RunStep ==
    \/ \E p \in Pids : S!Start(p)
    \/ S!StartFail \/ S!DelayOver \/ S!WaitReturns
    \/ S!ExitedUpgrade \/ S!ExitedCrash
    \/ \E q \in S!LivePids : S!AdoptSuccessor(q)
    \/ S!SearchFails \/ S!SweepStrays({}) \/ S!Resync

EndHandover(p) ==
    \/ S!AbortUpgrade(p)
    \/ S!AbortHandover(p)
    \/ proc[p] = "handover" /\ S!Exit(p)

\* Sessions end with their process.
DropDead ==
    /\ sessions' = sessions \cap S!LivePids'
    /\ unseen' = unseen \cap S!LivePids'
    /\ UNCHANGED <<roles, upgrades>>

Next ==
    \/ RunStep /\ DropDead
    \/ \E p \in Pids : (EndHandover(p) \/ S!Exit(p)) /\ DropDead
    \/ \E p, q \in Pids : SpawnSuccessor(p, q)
    \/ S!Tick /\ UNCHANGED <<roles, clients, upgrades>>
    \/ Upgrade
    \/ \E p \in Pids : Connect(p)
    \/ \E r \in {"primary", "replica"} : SetRole(r)
    \/ CheckRole \/ CheckDemoted \/ CheckDemotedFails

Spec == Init /\ [][Next]_vars

\* The goroutines run, a fork that is tried again and again succeeds, and
\* pg_doorman ends a drain and a handover.
Fairness ==
    /\ WF_vars(RunStep /\ DropDead)
    /\ SF_vars(\E p \in Pids : S!Start(p) /\ DropDead)
    /\ WF_vars(CheckRole \/ CheckDemoted \/ CheckDemotedFails)
    /\ \A p \in Pids :
          /\ WF_vars(EndHandover(p) /\ DropDead)
          /\ WF_vars(proc[p] = "draining" /\ S!Exit(p) /\ DropDead)

FairSpec == Spec /\ Fairness

-----------------------------------------------------------------------------
(* Properties.                                                             *)

\* Every variable has its type, and only live processes hold sessions.
TypeOK ==
    /\ S!TypeOK
    /\ R!TypeOK
    /\ sessions \subseteq S!LivePids
    /\ unseen \subseteq sessions
    /\ upgrades \in 0..MaxUpgrades

\* Once check() has dealt with a demotion, every process that still holds a
\* session from the time as the primary is on its way out: none was missed
\* by the SIGTERM, and none takes the sessions over.  The exception is a time
\* as the primary that began and ended between two polls, or before the first
\* one: for check() there was no demotion.
DrainsOnceDemoted ==
    roleFile = "replica" /\ lastRole = "replica" =>
        \A p \in sessions \ unseen : proc[p] = "draining"

\* "when an instance is demoted, the wrapper gracefully restarts pg_doorman
\* on that pod to drop long-lived client sessions": an instance that stays
\* demoted ends up with no session from a time as the primary that a poll
\* has seen, however often the role changed before.
DemotionDropsSessions ==
    roleFile = "replica" ~> sessions \subseteq unseen \/ roleFile # "replica"

=============================================================================
