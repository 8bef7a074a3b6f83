--------------------------- MODULE ConfigDelivery ---------------------------
(***************************************************************************)
(* How a config reaches the running pooler: FileWatcher composed with      *)
(* Supervisor, and what each pg_doorman process has made of the runtime    *)
(* config (external, from how process.go and filewatcher.go use it):       *)
(*  - a started process reads the runtime config, and its non-reloadable   *)
(*    fields stay what they were then;                                     *)
(*  - SIGHUP makes it read the file again, some time later;                *)
(*  - a successor starts from the config its predecessor held or from the  *)
(*    file: the code's comments promise no more than the former.           *)
(*                                                                         *)
(* The shutdown path is left out (no Cancel), orphans reparent to the      *)
(* wrapper and a sweep kills what it finds.  Two switches bound what the   *)
(* outside world does:                                                     *)
(*  - Republish: the controller may render an earlier config again;        *)
(*  - Overlap: a change of non-reloadable fields may meet a handover.      *)
(***************************************************************************)
EXTENDS Integers, FiniteSets

CONSTANTS Pids, NoPid, WaitDelays, SuccessorTimeout, HandoverMax, MaxAge
CONSTANTS Configs, Parsable, Fixed
CONSTANTS
    Accepted,     \* the configs pg_doorman --test-config accepts
    NoConfig,     \* a pid with no process
    MaxUpgrades,  \* bound on the binary upgrades of a behaviour
    Republish,
    Overlap

ASSUME ConfigAssumption == Parsable \cup Accepted \subseteq Configs
ASSUME SupervisorAssumption ==
    /\ NoPid \notin Pids
    /\ WaitDelays \subseteq Nat /\ SuccessorTimeout \in Nat
    /\ MaxAge \in Nat /\ \A d \in WaitDelays : d + SuccessorTimeout < MaxAge
    /\ HandoverMax \in Nat
ASSUME BoundAssumption == MaxUpgrades \in Nat

VARIABLES pc, subreaper, ctxDone, cmd, adoptedPid, upgradeRequested,
          upgradeAge, termed, proc, heir
VARIABLES source, runtimeCfg, lastApplied, configStale, fpc, data,
          needsRestart
VARIABLES
    boot,      \* the config each process started with
    loaded,    \* the config it last read
    hup,       \* the processes with a SIGHUP pending
    upgrades   \* how many upgrades were requested

S == INSTANCE Supervisor WITH MaxStrays <- 0
F == INSTANCE FileWatcher

supervisor == <<pc, subreaper, ctxDone, cmd, adoptedPid, upgradeRequested,
                upgradeAge, termed, proc, heir>>
watcher == <<source, runtimeCfg, lastApplied, configStale, fpc, data,
             needsRestart>>
pooler == <<boot, loaded, hup>>
vars == <<supervisor, watcher, pooler, upgrades>>

\* The first config parses: against one that does not, check() would take
\* every later change for a reloadable one.
Init ==
    /\ S!Init
    /\ subreaper = TRUE
    /\ F!Init
    /\ source \in Accepted \cap Parsable
    /\ boot = [p \in Pids |-> NoConfig]
    /\ loaded = [p \in Pids |-> NoConfig]
    /\ hup = {}
    /\ upgrades = 0

-----------------------------------------------------------------------------
(* What supervisor steps do to the processes' configs.                     *)

\* The configs of the processes that died are forgotten.
ForgetDead ==
    /\ boot' = [p \in Pids |-> IF p \in S!LivePids' THEN boot[p] ELSE NoConfig]
    /\ loaded' = [p \in Pids |->
                     IF p \in S!LivePids' THEN loaded[p] ELSE NoConfig]
    /\ hup' = hup \cap S!LivePids'

\* Process p starts from config c.
StartsFrom(p, c) ==
    /\ boot' = [boot EXCEPT ![p] = c]
    /\ loaded' = [loaded EXCEPT ![p] = c]
    /\ hup' = hup \ {p}

\* SIGHUP to the supervised process; a zombie takes it without effect.
SendHup ==
    /\ hup' = hup \cup ({S!pidLocked} \cap S!LivePids)
    /\ UNCHANGED <<boot, loaded>>

Start(p) == S!Start(p) /\ StartsFrom(p, runtimeCfg)

SpawnSuccessor(p, q) ==
    /\ S!SpawnSuccessor(p, q)
    /\ \E c \in {loaded[p], runtimeCfg} : StartsFrom(q, c)

\* Mutant: the adopted successor is not told to read the config again.
ResyncSkipped == S!Resync /\ UNCHANGED pooler

\* The Reload after an adoption; its failure is ignored.
Resync ==
    /\ S!Resync
    /\ IF S!CanSignal THEN SendHup ELSE UNCHANGED pooler

OtherRunStep ==
    /\ \/ S!StartFail \/ S!DelayOver \/ S!WaitReturns
       \/ S!ExitedUpgrade \/ S!ExitedCrash
       \/ \E q \in S!LivePids : S!AdoptSuccessor(q)
       \/ S!SearchFails \/ S!SweepStrays({})
    /\ ForgetDead

\* pg_doorman handles a SIGHUP: the file on disk is one it accepts.
ReloadConfig(p) ==
    /\ p \in hup
    /\ loaded' = [loaded EXCEPT ![p] = runtimeCfg]
    /\ hup' = hup \ {p}
    /\ UNCHANGED <<boot, supervisor>>

Exit(p) == S!Exit(p) /\ ForgetDead

EndHandover(p) ==
    /\ \/ S!AbortUpgrade(p)
       \/ S!AbortHandover(p)
       \/ proc[p] = "handover" /\ S!Exit(p)
    /\ ForgetDead

\* The non-reloadable fields of the mounted config are in force.
FixedInForce ==
    /\ source = lastApplied
    /\ fpc = "idle"
    /\ \A p \in S!LivePids : Fixed[boot[p]] = Fixed[source]

\* The BinaryWatcher triggers an upgrade.
Upgrade ==
    /\ upgrades < MaxUpgrades
    /\ ~Overlap => FixedInForce \/ \A c \in Configs : Fixed[c] = Fixed[source]
    /\ S!Upgrade
    /\ upgrades' = upgrades + 1
    /\ UNCHANGED <<watcher, pooler>>

-----------------------------------------------------------------------------
(* The watcher's steps.                                                    *)

Publish(c) ==
    /\ c # source
    /\ ~Republish => c > source
    /\ ~Overlap /\ Fixed[c] # Fixed[source] =>
           heir = NoPid /\ (upgradeRequested => upgradeAge > HandoverMax)
    /\ F!Publish(c)

\* Mutant: the candidate is not tested.
TestPassesAny == F!TestPasses

\* The binary on disk accepts the candidate.
TestPasses == data \in Accepted /\ F!TestPasses

\* check() signals pg_doorman, by Restart or Reload as it decided.
Signal ==
    /\ F!SignalSucceeds
    /\ IF needsRestart
       THEN S!Restart /\ UNCHANGED pooler
       ELSE S!Reload /\ SendHup

\* The pid the supervisor remembers is gone (ESRCH).
SignalFails ==
    /\ F!SignalFails
    /\ ~S!CanSignal
    /\ UNCHANGED <<supervisor, pooler>>

Check == F!CheckInvalid \/ F!CheckChanged

WatcherStep ==
    \/ Check /\ UNCHANGED <<supervisor, pooler>>
    \/ TestPasses /\ UNCHANGED <<supervisor, pooler>>
    \/ F!MaterializeFails /\ UNCHANGED <<supervisor, pooler>>
    \/ F!Rename /\ UNCHANGED <<supervisor, pooler>>
    \/ Signal
    \/ SignalFails

-----------------------------------------------------------------------------

RunStep ==
    \/ \E p \in Pids : Start(p)
    \/ Resync
    \/ OtherRunStep

PoolerStep ==
    \/ \E p, q \in Pids : SpawnSuccessor(p, q)
    \/ \E p \in Pids : EndHandover(p) \/ Exit(p) \/ ReloadConfig(p)

Next ==
    \/ RunStep /\ UNCHANGED <<watcher, upgrades>>
    \/ PoolerStep /\ UNCHANGED <<watcher, upgrades>>
    \/ S!Tick /\ UNCHANGED <<watcher, pooler, upgrades>>
    \/ Upgrade
    \/ WatcherStep /\ UNCHANGED upgrades
    \/ \E c \in Configs : Publish(c) /\ UNCHANGED <<supervisor, pooler, upgrades>>

Spec == Init /\ [][Next]_vars

Rest == UNCHANGED <<watcher, upgrades>>

\* The goroutines run; a fork and a test that are tried again and again
\* succeed; pg_doorman ends a drain and a handover and handles its signals.
Fairness ==
    /\ WF_vars(RunStep /\ Rest)
    /\ SF_vars(\E p \in Pids : Start(p) /\ Rest)
    /\ WF_vars(WatcherStep /\ UNCHANGED upgrades)
    /\ SF_vars(TestPasses /\ UNCHANGED <<supervisor, pooler, upgrades>>)
    /\ SF_vars(F!Rename /\ UNCHANGED <<supervisor, pooler, upgrades>>)
    /\ \A p \in Pids :
          /\ WF_vars(ReloadConfig(p) /\ Rest)
          /\ WF_vars(EndHandover(p) /\ Rest)
          /\ WF_vars(proc[p] = "draining" /\ Exit(p) /\ Rest)

FairSpec == Spec /\ Fairness

-----------------------------------------------------------------------------
(* Properties.                                                             *)

\* Every variable has its type, and only live processes hold a config.
TypeOK ==
    /\ S!TypeOK
    /\ F!TypeOK
    /\ {boot, loaded} \subseteq [Pids -> Configs \cup {NoConfig}]
    /\ \A p \in Pids : IF p \in S!LivePids
                       THEN {boot[p], loaded[p]} \subseteq Configs
                       ELSE boot[p] = NoConfig /\ loaded[p] = NoConfig
    /\ hup \subseteq S!LivePids
    /\ upgrades \in 0..MaxUpgrades

\* materialize: "a rejected file on disk would crash-loop any later restart".
\* The runtime config, and so whatever any process was started from or read,
\* is one the binary accepted.
RuntimeAccepted ==
    /\ runtimeCfg \in Accepted
    /\ \A p \in S!LivePids : {boot[p], loaded[p]} \subseteq Accepted

\* The supervised pooler runs config c, non-reloadable fields included.
Runs(c) ==
    /\ pc = "wait"
    /\ S!Live(S!pidLocked)
    /\ loaded[S!pidLocked] = c
    /\ Fixed[boot[S!pidLocked]] = Fixed[c]

\* A valid config that stays mounted reaches the supervised pooler, whatever
\* crashes, restarts and handovers its delivery meets, and every process that
\* takes over later.
Delivered ==
    \A c \in Accepted \cap Parsable : <>[](source = c) => []<>Runs(c)

\* "ConfigStale is 1 while the mounted rendered config differs from the
\* applied one": once the mounted config stops changing the gauge is right.
GaugeSettles ==
    \A c \in Configs :
        <>[](source = c) => <>[](configStale <=> source # lastApplied)

=============================================================================
