--------------------------- MODULE DemotionProofs ---------------------------
(***************************************************************************)
(* Proofs about Demotion, for any set of pids and whether or not demotions *)
(* meet handovers.  As in ConfigDeliveryProofs, the results about the      *)
(* supervisor carry over to the composition.                               *)
(***************************************************************************)
EXTENDS Demotion, TLAPS

SP == INSTANCE SupervisorProofs WITH MaxStrays <- 0

\* S and SP instantiate the same Supervisor.
LEMMA SameSupervisor ==
    /\ S!Init <=> SP!Init
    /\ [S!Next]_(S!vars) <=> [SP!Next]_(SP!vars)
<1>1. S!Init <=> SP!Init
  BY Zenon DEF S!Init, SP!Init
<1>3. S!LivePids = SP!LivePids /\ S!Strays = SP!Strays
  BY Zenon DEF S!LivePids, SP!LivePids, S!Live, SP!Live, S!LiveStates,
               SP!LiveStates, S!Strays, SP!Strays
<1>4. \A missed : S!SweepStrays(missed) <=> SP!SweepStrays(missed)
  <2> TAKE missed
  <2> QED
    BY <1>3, Zenon
       DEF S!SweepStrays, SP!SweepStrays, S!setup, SP!setup, S!request,
           SP!request, S!Cardinality, SP!Cardinality
<1>5. \A q : S!AdoptSuccessor(q) <=> SP!AdoptSuccessor(q)
  BY <1>3, Zenon DEF S!AdoptSuccessor, SP!AdoptSuccessor, S!setup, SP!setup,
                     S!request, SP!request, S!Live, SP!Live, S!LiveStates,
                     SP!LiveStates
<1>2. [S!Next]_(S!vars) <=> [SP!Next]_(SP!vars)
  BY <1>3, <1>4, <1>5, Zenon
     DEF S!Init, SP!Init, S!Next, SP!Next, S!vars, SP!vars, S!RunStep,
         SP!RunStep, S!EnvStep, SP!EnvStep, S!Start, SP!Start, S!StartFail,
         SP!StartFail, S!StartCancelled, SP!StartCancelled, S!DelayOver,
         SP!DelayOver, S!DelayCancelled, SP!DelayCancelled, S!WaitReturns,
         SP!WaitReturns, S!WaitGivesUp, SP!WaitGivesUp, S!ExitedCancelled,
         SP!ExitedCancelled, S!ExitedUpgrade, SP!ExitedUpgrade,
         S!ExitedCrash, SP!ExitedCrash, S!SearchFails, SP!SearchFails,
         S!Resync, SP!Resync, S!Cancel, SP!Cancel, S!Terminate, SP!Terminate,
         S!KillTimer, SP!KillTimer, S!Restart, SP!Restart, S!Reload,
         SP!Reload, S!Upgrade, SP!Upgrade, S!SpawnSuccessor,
         SP!SpawnSuccessor, S!AbortUpgrade, SP!AbortUpgrade, S!AbortHandover,
         SP!AbortHandover, S!Exit, SP!Exit, S!Tick, SP!Tick, S!Terminated,
         SP!Terminated, S!setup, SP!setup, S!request, SP!request,
         S!HandoverUnderWay, SP!HandoverUnderWay, S!LiveStates,
         SP!LiveStates, S!ProcStates, SP!ProcStates, S!Live, SP!Live,
         S!HandoverWindow, SP!HandoverWindow, S!pidLocked, SP!pidLocked,
         S!CanSignal, SP!CanSignal, S!UpgradeRequestFresh,
         SP!UpgradeRequestFresh, S!ExitsAsZombie, SP!ExitsAsZombie, S!Dead,
         SP!Dead
<1> QED
  BY <1>1, <1>2

LEMMA SameTypes == S!TypeOK <=> SP!TypeOK
  BY Zenon DEF S!TypeOK, SP!TypeOK, S!ProcStates, SP!ProcStates,
               S!LiveStates, SP!LiveStates, S!pidLocked, SP!pidLocked

\* The role watcher calls Restart or leaves the supervisor alone, and clients
\* do not concern it.
LEMMA SupervisorStep == [Next]_vars => [S!Next]_(S!vars)
<1> SUFFICES ASSUME [Next]_vars PROVE [S!Next]_(S!vars)
  OBVIOUS
<1> USE DEF supervisor, S!vars
<1>1. CASE RunStep
  <2>1. ASSUME S!SweepStrays({}) PROVE S!Next
    BY <2>1, Zenon DEF S!Next, S!RunStep
  <2>2. ASSUME NEW q \in S!LivePids, S!AdoptSuccessor(q) PROVE S!Next
    BY <2>2, Zenon DEF S!LivePids, S!Next, S!RunStep
  <2> QED
    BY <1>1, <2>1, <2>2, Zenon DEF RunStep, S!Next, S!RunStep
<1>2. ASSUME NEW p \in Pids, EndHandover(p) \/ S!Exit(p) PROVE S!Next
  BY <1>2, Zenon DEF EndHandover, S!Next, S!EnvStep
<1>3. ASSUME NEW p \in Pids, NEW q \in Pids, SpawnSuccessor(p, q)
      PROVE  S!Next
  BY <1>3, Zenon DEF SpawnSuccessor, S!Next, S!EnvStep
<1>4. CASE S!Tick
  BY <1>4, Zenon DEF S!Next, S!EnvStep
<1>5. CASE Upgrade \/ CheckDemoted
  BY <1>5, Zenon DEF Upgrade, CheckDemoted, S!Next
<1>6. CASE UNCHANGED supervisor
  BY <1>6, Zenon
<1>7. ASSUME \/ \E p \in Pids : Connect(p)
             \/ \E r \in {"primary", "replica"} : SetRole(r)
             \/ CheckRole \/ CheckDemotedFails
      PROVE  UNCHANGED supervisor
  BY <1>7, Zenon DEF Connect, SetRole, CheckRole, CheckDemotedFails
<1>8. CASE UNCHANGED vars
  BY <1>8, Zenon DEF vars
<1> QED
  BY <1>1, <1>2, <1>3, <1>4, <1>5, <1>6, <1>7, <1>8, Zenon DEF Next

\* Demotions take the supervisor nowhere it would not go by itself: every
\* behaviour of the composition is one of Supervisor.
THEOREM DemotionSupervises == Spec => S!Spec
<1>1. Init => S!Init
  BY Zenon DEF Init
<1> QED
  BY <1>1, SupervisorStep, PTL DEF Spec, S!Spec

-----------------------------------------------------------------------------

\* TypeOK holds initially.
LEMMA TypeInit == Init => TypeOK
<1> SUFFICES ASSUME Init PROVE TypeOK
  OBVIOUS
<1>1. S!TypeOK
  BY SupervisorAssumption, SP!TypeInit, SameSupervisor, SameTypes DEF Init
<1>2. R!TypeOK
  BY Zenon DEF Init, R!Init, R!TypeOK, R!Roles
<1>3. sessions = {} /\ unseen = {} /\ upgrades = 0
  BY Zenon DEF Init
<1> QED
  BY <1>1, <1>2, <1>3, BoundAssumption DEF TypeOK

\* Every step preserves it.
LEMMA TypeNext == TypeOK /\ [Next]_vars => TypeOK'
<1> SUFFICES ASSUME TypeOK, [Next]_vars PROVE TypeOK'
  OBVIOUS
<1>s. S!TypeOK'
  <2>1. SP!TypeOK'
    BY SupervisorAssumption, SP!TypeNext, SupervisorStep, SameSupervisor,
       SameTypes DEF TypeOK
  <2> QED
    BY <2>1, SameTypes, PTL
<1>d. ASSUME DropDead PROVE TypeOK'
  BY <1>d, <1>s DEF DropDead, TypeOK, R!TypeOK, roles, clients
<1>u. ASSUME UNCHANGED sessions, unseen' \subseteq sessions,
             S!LivePids \subseteq S!LivePids',
             R!TypeOK', upgrades' \in 0..MaxUpgrades
      PROVE  TypeOK'
  BY <1>u, <1>s DEF TypeOK
<1>l. ASSUME \/ S!Restart \/ S!Upgrade \/ S!Tick \/ UNCHANGED supervisor
      PROVE  S!LivePids' = S!LivePids
  BY <1>l, SupervisorAssumption
     DEF TypeOK, S!TypeOK, S!Restart, S!Upgrade, S!Tick, supervisor,
         S!LivePids, S!Live, S!LiveStates, S!ProcStates, S!pidLocked
<1>1. CASE RunStep /\ DropDead
  BY <1>1, <1>d
<1>2. ASSUME NEW p \in Pids, DropDead PROVE TypeOK'
  BY <1>2, <1>d
<1>3. ASSUME NEW p \in Pids, NEW q \in Pids, SpawnSuccessor(p, q)
      PROVE  TypeOK'
  <2>1. S!LivePids' = S!LivePids \cup {q}
    BY <1>3, SupervisorAssumption
       DEF SpawnSuccessor, TypeOK, S!TypeOK, S!SpawnSuccessor, S!LivePids,
           S!Live, S!LiveStates, S!ProcStates
  <2> QED
    BY <1>3, <2>1, <1>s DEF SpawnSuccessor, TypeOK, R!TypeOK, roles, clients
<1>4. CASE S!Tick /\ UNCHANGED <<roles, clients, upgrades>>
  BY <1>4, <1>u, <1>l DEF TypeOK, R!TypeOK, roles, clients
<1>5. CASE Upgrade
  <2>1. upgrades' \in 0..MaxUpgrades
    BY <1>5, BoundAssumption DEF Upgrade, TypeOK
  <2> QED
    BY <1>5, <2>1, <1>u, <1>l DEF Upgrade, TypeOK, R!TypeOK, roles, clients
<1>6. ASSUME NEW p \in Pids, Connect(p) PROVE TypeOK'
  <2>1. S!LivePids' = S!LivePids /\ p \in S!LivePids
    BY <1>6, <1>l DEF Connect, S!LivePids, S!Live, S!LiveStates
  <2> QED
    BY <1>6, <2>1, <1>s DEF Connect, TypeOK, R!TypeOK, roles, clients
<1>7. ASSUME NEW r \in {"primary", "replica"}, SetRole(r) PROVE TypeOK'
  BY <1>7, <1>u, <1>l DEF SetRole, R!SetRole, TypeOK, R!TypeOK, R!Roles
<1>8. CASE CheckRole \/ CheckDemoted \/ CheckDemotedFails
  BY <1>8, <1>u, <1>l
     DEF CheckRole, CheckDemoted, CheckDemotedFails, R!CheckRole,
         R!CheckDemoted, R!CheckDemotedFails, TypeOK, R!TypeOK, R!Roles,
         clients
<1>9. CASE UNCHANGED vars
  BY <1>9, <1>u, <1>l DEF vars, TypeOK, R!TypeOK, roles, clients
<1> QED
  BY <1>1, <1>2, <1>3, <1>4, <1>5, <1>6, <1>7, <1>8, <1>9 DEF Next

\* TypeOK is an invariant: no session is held by a process that is gone.
THEOREM TypeCorrect == Spec => []TypeOK
  BY TypeInit, TypeNext, PTL DEF Spec

-----------------------------------------------------------------------------
(***************************************************************************)
(* DrainsOnceDemoted is not inductive: it says nothing of the time between *)
(* the demotion and the poll that sees it.  While that lasts no handover   *)
(* may be pending, or the SIGTERM would go to a process whose sessions are *)
(* moving elsewhere; the inductive invariant of the supervisor then leaves *)
(* the process that gets it as the only one alive.                         *)
(***************************************************************************)

\* A demotion the watcher has yet to see meets no handover.
PendingAlone ==
    roleFile = "replica" /\ lastRole = "primary" => NoHandover

\* Before the first poll nothing is left of a time as the primary but what no
\* poll has seen, and the role stays set once it is.
NoneBefore ==
    /\ lastRole = "" /\ roleFile # "primary" => sessions \subseteq unseen
    /\ roleFile = "" => lastRole = ""

DemotionInv ==
    /\ SP!IInv /\ subreaper
    /\ TypeOK
    /\ PendingAlone /\ NoneBefore /\ DrainsOnceDemoted

\* Without a handover the pid that gets the SIGTERM is the only live one.
LEMMA OnlyOneLive ==
  ASSUME DemotionInv, NoHandover
  PROVE  /\ \A p \in Pids : proc[p] \in S!LiveStates => p = S!pidLocked
         /\ \A p \in Pids : proc[p] \notin {"upgrading", "handover"}
  BY SupervisorAssumption
     DEF DemotionInv, NoHandover, SP!IInv, SP!TypeOK, SP!NoneLive,
         SP!WatchedLive, SP!HeirAlone, SP!UpgradingWatched, S!LiveStates,
         S!pidLocked, SP!LiveStates, SP!pidLocked

\* Every step preserves the invariant.
LEMMA DemotionInvNext ==
  ASSUME S!HandoverFits, ~Overlap, DemotionInv, [Next]_vars
  PROVE  DemotionInv'
<1>s. SP!IInv' /\ TypeOK'
  <2>1. SP!HandoverFits
    BY DEF S!HandoverFits, SP!HandoverFits, S!HandoverWindow,
           SP!HandoverWindow
  <2> QED
    BY <2>1, SupervisorAssumption, SP!IInvNext, SupervisorStep, SameSupervisor,
       TypeNext DEF DemotionInv
<1> USE DEF PendingAlone, NoneBefore, DrainsOnceDemoted, NoHandover
<1> DEFINE Rest == subreaper' /\ PendingAlone' /\ NoneBefore'
                     /\ DrainsOnceDemoted'
<1>q. Rest => DemotionInv'
  BY <1>s DEF DemotionInv
<1>t. /\ DOMAIN proc = Pids /\ sessions \subseteq Pids
      /\ \A p \in sessions : proc[p] \notin {"free", "zombie"}
      /\ upgradeAge \in Nat
  <2>1. S!TypeOK /\ sessions \subseteq S!LivePids
    BY DEF DemotionInv, TypeOK
  <2> QED
    BY <2>1, SupervisorAssumption
       DEF S!TypeOK, S!LivePids, S!Live, S!LiveStates
<1>1. CASE RunStep /\ DropDead
  <2>1. /\ subreaper' = subreaper
        /\ NoHandover => NoHandover'
    BY <1>1, <1>t DEF RunStep, S!Start, S!StartFail, S!DelayOver, S!WaitReturns,
                S!ExitedUpgrade, S!ExitedCrash, S!AdoptSuccessor,
                S!SearchFails, S!SweepStrays, S!Resync, S!setup, S!request,
                S!LivePids, S!Live
  <2>2. \A p \in sessions : proc'[p] \in {proc[p], "free"}
    BY <1>1, <1>t DEF RunStep, S!Start, S!StartFail, S!DelayOver,
                S!WaitReturns, S!ExitedUpgrade, S!ExitedCrash,
                S!AdoptSuccessor, S!SearchFails, S!SweepStrays, S!Resync,
                S!LivePids, S!Live
  <2>3. \A p \in sessions' : p \in sessions /\ proc'[p] # "free"
    BY <1>1 DEF DropDead, S!LivePids, S!Live, S!LiveStates
  <2> QED
    BY <1>1, <2>1, <2>2, <2>3, <1>q DEF DropDead, roles, clients, DemotionInv
<1>2. ASSUME NEW p \in Pids, EndHandover(p) \/ S!Exit(p), DropDead
      PROVE  DemotionInv'
  <2>1. /\ subreaper' = subreaper
        /\ NoHandover => NoHandover'
    BY <1>2 DEF EndHandover, S!AbortUpgrade, S!AbortHandover, S!Exit,
                S!setup, S!request
  <2>2. \A q \in sessions : proc[q] = "draining" =>
            proc'[q] \in {"draining", "free", "zombie"}
    BY <1>2, <1>t DEF EndHandover, S!AbortUpgrade, S!AbortHandover, S!Exit,
                S!Dead
  <2>3. \A q \in sessions' : q \in sessions /\ proc'[q] \notin {"free", "zombie"}
    BY <1>2 DEF DropDead, S!LivePids, S!Live, S!LiveStates
  <2> QED
    BY <1>2, <2>1, <2>2, <2>3, <1>q DEF DropDead, roles, clients, DemotionInv
<1>3. ASSUME NEW p \in Pids, NEW q \in Pids, SpawnSuccessor(p, q)
      PROVE  DemotionInv'
  <2>1. ~NoHandover
    BY <1>3, OnlyOneLive DEF SpawnSuccessor, S!SpawnSuccessor
  <2> QED
    BY <1>3, <2>1, <1>t, <1>q
       DEF SpawnSuccessor, S!SpawnSuccessor, roles, clients, DemotionInv, S!setup
<1>4. CASE S!Tick /\ UNCHANGED <<roles, clients, upgrades>>
  <2>1. NoHandover => NoHandover'
    BY <1>4, <1>t, SupervisorAssumption DEF S!Tick
  <2> QED
    BY <1>4, <2>1, <1>q DEF S!Tick, roles, clients, DemotionInv, S!setup
<1>5. CASE Upgrade
  BY <1>5, <1>t, <1>q DEF Upgrade, S!Upgrade, roles, clients, DemotionInv, S!setup
<1>6. ASSUME NEW p \in Pids, Connect(p) PROVE DemotionInv'
  BY <1>6, <1>q DEF Connect, supervisor, roles, clients, DemotionInv
<1>7. ASSUME NEW r \in {"primary", "replica"}, SetRole(r) PROVE DemotionInv'
  <2>1. /\ UNCHANGED <<supervisor, lastRole, sessions>> /\ roleFile' = r
        /\ NoHandover /\ roleFile # r
        /\ unseen' = IF roleFile = "primary" /\ lastRole # "primary"
                     THEN sessions ELSE unseen
    BY <1>7 DEF SetRole, R!SetRole
  <2>2. roleFile \in {"", "primary", "replica"}
    BY DEF DemotionInv, TypeOK, R!TypeOK, R!Roles
  <2>3. /\ subreaper /\ PendingAlone /\ NoneBefore /\ DrainsOnceDemoted
    BY DEF DemotionInv
  <2>4. DrainsOnceDemoted' /\ NoneBefore'
    BY <2>1, <2>2, <2>3 DEF supervisor
  <2>5. subreaper' /\ PendingAlone'
    BY <2>1, <2>3, Zenon DEF supervisor
  <2> QED
    BY <2>4, <2>5, <1>q
<1>8. CASE CheckRole
  BY <1>8, <1>q DEF CheckRole, R!CheckRole, R!RoleChanged, R!Demoted,
                    supervisor, clients, DemotionInv, TypeOK, R!TypeOK, R!Roles
<1>9. CASE CheckDemoted
  <2>1. /\ roleFile' = roleFile /\ lastRole' = roleFile /\ lastRole = "primary"
        /\ sessions' = sessions /\ roleFile \in {"replica"}
    BY <1>9 DEF CheckDemoted, clients, R!CheckDemoted, R!RoleChanged, R!Demoted,
                DemotionInv, TypeOK, R!TypeOK, R!Roles
  <2>2. \A p \in sessions : p = S!pidLocked /\ p \in Pids /\ S!Live(p)
    BY <2>1, OnlyOneLive DEF DemotionInv, TypeOK, S!LivePids, S!Live
  <2>3. \A p \in sessions : proc'[p] = "draining"
    BY <1>9, <2>2, <1>t DEF CheckDemoted, S!Restart
  <2> QED
    BY <1>9, <2>1, <2>3, <1>q
       DEF CheckDemoted, S!Restart, S!setup, DemotionInv
<1>10. CASE CheckDemotedFails
  BY <1>10, <1>q DEF CheckDemotedFails, R!CheckDemotedFails, R!RoleChanged,
                     R!Demoted, supervisor, clients, DemotionInv
<1>11. CASE UNCHANGED vars
  BY <1>11, <1>q DEF vars, supervisor, roles, clients, DemotionInv
<1> QED
  BY <1>1, <1>2, <1>3, <1>4, <1>5, <1>6, <1>7, <1>8, <1>9, <1>10, <1>11 DEF Next

\* Where demotions and handovers do not meet, and a handover fits the window,
\* every process with sessions from a time as the primary that a poll has seen
\* is draining once the watcher has dealt with the demotion, however fast the
\* role changes.
THEOREM DemotionDrains ==
  S!HandoverFits /\ ~Overlap => (Spec => []DrainsOnceDemoted)
<1> SUFFICES ASSUME S!HandoverFits, ~Overlap
             PROVE  Spec => []DrainsOnceDemoted
  OBVIOUS
<1>1. Init => DemotionInv
  <2> SUFFICES ASSUME Init PROVE DemotionInv
    OBVIOUS
  <2>1. SP!IInv
    BY SupervisorAssumption, SP!IInvInit, SameSupervisor DEF Init
  <2>2. subreaper /\ lastRole = "" /\ sessions = {} /\ unseen = {}
    BY Zenon DEF Init, R!Init
  <2> QED
    BY <2>1, <2>2, TypeInit
       DEF DemotionInv, PendingAlone, NoneBefore, DrainsOnceDemoted
<1>2. DemotionInv /\ [Next]_vars => DemotionInv'
  BY DemotionInvNext
<1>3. DemotionInv => DrainsOnceDemoted
  BY DEF DemotionInv
<1> QED
  BY <1>1, <1>2, <1>3, PTL DEF Spec

=============================================================================
