------------------------ MODULE ConfigDeliveryProofs ------------------------
(***************************************************************************)
(* Proofs about ConfigDelivery, for any set of pids and configs.  Every    *)
(* step of the composition is a step of the supervisor or leaves it alone, *)
(* so that what SupervisorProofs shows of the supervisor carries over.     *)
(***************************************************************************)
EXTENDS ConfigDelivery, TLAPS

SP == INSTANCE SupervisorProofs WITH MaxStrays <- 0

-----------------------------------------------------------------------------
(* The supervisor inside the composition.                                  *)

\* S and SP instantiate the same Supervisor.
LEMMA SameSupervisor ==
    /\ S!Init <=> SP!Init
    /\ [S!Next]_(S!vars) <=> [SP!Next]_(SP!vars)
<1>1. S!Init <=> SP!Init
  BY Zenon DEF S!Init, SP!Init
<1>3. S!LivePids = SP!LivePids /\ S!Strays = SP!Strays
  BY Zenon DEF S!LivePids, SP!LivePids, S!Live, SP!Live, S!LiveStates,
               SP!LiveStates, S!Strays, SP!Strays
<1>4. \A missed : S!SweepStrays(missed) <=> SP!SweepStrays(missed)
  <2> TAKE missed
  <2> QED
    BY <1>3, Zenon
       DEF S!SweepStrays, SP!SweepStrays, S!setup, SP!setup, S!request,
           SP!request, S!Cardinality, SP!Cardinality
<1>5. \A q : S!AdoptSuccessor(q) <=> SP!AdoptSuccessor(q)
  BY <1>3, Zenon DEF S!AdoptSuccessor, SP!AdoptSuccessor, S!setup, SP!setup,
                     S!request, SP!request, S!Live, SP!Live, S!LiveStates,
                     SP!LiveStates
<1>2. [S!Next]_(S!vars) <=> [SP!Next]_(SP!vars)
  BY <1>3, <1>4, <1>5, Zenon
     DEF S!Init, SP!Init, S!Next, SP!Next, S!vars, SP!vars, S!RunStep,
         SP!RunStep, S!EnvStep, SP!EnvStep, S!Start, SP!Start, S!StartFail,
         SP!StartFail, S!StartCancelled, SP!StartCancelled, S!DelayOver,
         SP!DelayOver, S!DelayCancelled, SP!DelayCancelled, S!WaitReturns,
         SP!WaitReturns, S!WaitGivesUp, SP!WaitGivesUp, S!ExitedCancelled,
         SP!ExitedCancelled, S!ExitedUpgrade, SP!ExitedUpgrade,
         S!ExitedCrash, SP!ExitedCrash, S!SearchFails, SP!SearchFails,
         S!Resync, SP!Resync, S!Cancel, SP!Cancel, S!Terminate, SP!Terminate,
         S!KillTimer, SP!KillTimer, S!Restart, SP!Restart, S!Reload,
         SP!Reload, S!Upgrade, SP!Upgrade, S!SpawnSuccessor,
         SP!SpawnSuccessor, S!AbortUpgrade, SP!AbortUpgrade, S!AbortHandover,
         SP!AbortHandover, S!Exit, SP!Exit, S!Tick, SP!Tick, S!Terminated,
         SP!Terminated, S!setup, SP!setup, S!request, SP!request,
         S!HandoverUnderWay, SP!HandoverUnderWay, S!LiveStates,
         SP!LiveStates, S!ProcStates, SP!ProcStates, S!Live, SP!Live,
         S!HandoverWindow, SP!HandoverWindow, S!pidLocked, SP!pidLocked,
         S!CanSignal, SP!CanSignal, S!UpgradeRequestFresh,
         SP!UpgradeRequestFresh, S!ExitsAsZombie, SP!ExitsAsZombie, S!Dead,
         SP!Dead
<1> QED
  BY <1>1, <1>2

LEMMA SameTypes == S!TypeOK <=> SP!TypeOK
  BY Zenon DEF S!TypeOK, SP!TypeOK, S!ProcStates, SP!ProcStates,
               S!LiveStates, SP!LiveStates, S!pidLocked, SP!pidLocked

\* What the watcher, the mounts and the signal handlers do is no concern of
\* the supervisor, whose own steps are taken whole.
LEMMA SupervisorStep == [Next]_vars => [S!Next]_(S!vars)
<1> SUFFICES ASSUME [Next]_vars PROVE [S!Next]_(S!vars)
  OBVIOUS
<1> USE DEF supervisor, S!vars
<1>1. CASE RunStep
  <2>1. ASSUME S!SweepStrays({}) PROVE S!Next
    BY <2>1, Zenon DEF S!Next, S!RunStep
  <2>2. ASSUME NEW q \in S!LivePids, S!AdoptSuccessor(q) PROVE S!Next
    BY <2>2, Zenon DEF S!LivePids, S!Next, S!RunStep
  <2> QED
    BY <1>1, <2>1, <2>2, Zenon
       DEF RunStep, Start, Resync, OtherRunStep, S!Next, S!RunStep
<1>2. CASE PoolerStep
  <2>1. ASSUME NEW p \in Pids, NEW q \in Pids, SpawnSuccessor(p, q)
        PROVE  S!Next
    BY <2>1, Zenon DEF SpawnSuccessor, S!Next, S!EnvStep
  <2>2. ASSUME NEW p \in Pids, EndHandover(p) \/ Exit(p)
        PROVE  S!Next
    BY <2>2, Zenon DEF EndHandover, Exit, S!Next, S!EnvStep
  <2>3. ASSUME NEW p \in Pids, ReloadConfig(p)
        PROVE  UNCHANGED S!vars
    BY <2>3, Zenon DEF ReloadConfig
  <2> QED
    BY <1>2, <2>1, <2>2, <2>3, Zenon DEF PoolerStep
<1>3. CASE S!Tick
  BY <1>3, Zenon DEF S!Next, S!EnvStep
<1>4. CASE Upgrade
  BY <1>4, Zenon DEF Upgrade, S!Next
<1>5. CASE WatcherStep
  <2>1. CASE Signal
    BY <2>1, Zenon DEF Signal, S!Next
  <2>2. CASE ~Signal
    BY <1>5, <2>2, Zenon DEF WatcherStep, SignalFails
  <2> QED
    BY <2>1, <2>2
<1>6. CASE UNCHANGED supervisor
  BY <1>6, Zenon
<1>7. CASE UNCHANGED vars
  BY <1>7, Zenon DEF vars
<1> QED
  BY <1>1, <1>2, <1>3, <1>4, <1>5, <1>6, <1>7, Zenon DEF Next

\* Config delivery takes the supervisor nowhere it would not go by itself:
\* every behaviour of the composition is one of Supervisor.
THEOREM DeliverySupervises == Spec => S!Spec
<1>1. Init => S!Init
  BY Zenon DEF Init
<1> QED
  BY <1>1, SupervisorStep, PTL DEF Spec, S!Spec

-----------------------------------------------------------------------------
(* Which processes a step of the supervisor brings up or takes down.       *)

LEMMA StartLive ==
  ASSUME S!TypeOK, NEW p \in Pids, S!Start(p)
  PROVE  S!LivePids' = S!LivePids \cup {p}
  BY SupervisorAssumption
     DEF S!TypeOK, S!Start, S!LivePids, S!Live, S!LiveStates, S!ProcStates

LEMMA SpawnLive ==
  ASSUME S!TypeOK, NEW p \in Pids, NEW q \in Pids, S!SpawnSuccessor(p, q)
  PROVE  S!LivePids' = S!LivePids \cup {q} /\ p \in S!LivePids
  BY SupervisorAssumption
     DEF S!TypeOK, S!SpawnSuccessor, S!LivePids, S!Live, S!LiveStates,
         S!ProcStates

LEMMA RunLive ==
  ASSUME S!TypeOK,
         \/ S!StartFail \/ S!DelayOver \/ S!WaitReturns
         \/ S!ExitedUpgrade \/ S!ExitedCrash
         \/ \E q \in S!LivePids : S!AdoptSuccessor(q)
         \/ S!SearchFails \/ S!SweepStrays({})
  PROVE  S!LivePids' \subseteq S!LivePids
  BY SupervisorAssumption
     DEF S!TypeOK, S!StartFail, S!DelayOver, S!WaitReturns, S!ExitedUpgrade,
         S!ExitedCrash, S!AdoptSuccessor, S!SearchFails, S!SweepStrays,
         S!LivePids, S!Strays, S!Live, S!LiveStates, S!ProcStates, S!pidLocked

LEMMA EndLive ==
  ASSUME S!TypeOK, NEW p \in Pids,
         S!AbortUpgrade(p) \/ S!AbortHandover(p) \/ S!Exit(p)
  PROVE  S!LivePids' \subseteq S!LivePids
  BY SupervisorAssumption
     DEF S!TypeOK, S!AbortUpgrade, S!AbortHandover, S!Exit, S!Dead,
         S!LivePids, S!Live, S!LiveStates, S!ProcStates

LEMMA SameLive ==
  ASSUME S!TypeOK,
         \/ S!Resync \/ S!Restart \/ S!Reload \/ S!Upgrade \/ S!Tick
         \/ UNCHANGED supervisor
  PROVE  S!LivePids' = S!LivePids
  BY SupervisorAssumption
     DEF S!TypeOK, S!Resync, S!Restart, S!Reload, S!Upgrade, S!Tick, S!vars,
         S!LivePids, S!Live, S!LiveStates, S!ProcStates, S!pidLocked,
         supervisor

-----------------------------------------------------------------------------
(***************************************************************************)
(* The inductive invariant.  RuntimeAccepted says nothing of the candidate *)
(* between its test and the rename, which is all that separates a rejected *)
(* file from the runtime path.                                             *)
(***************************************************************************)

\* What is about to be renamed over the runtime config passed the test.
CandidateTested == fpc = "rename" => data \in Accepted

\* Live processes, and no others, hold a config, one that was accepted.
Holdings ==
    /\ boot \in [Pids -> Configs \cup {NoConfig}]
    /\ loaded \in [Pids -> Configs \cup {NoConfig}]
    /\ \A p \in S!LivePids : boot[p] \in Accepted /\ loaded[p] \in Accepted
    /\ \A p \in Pids \ S!LivePids : boot[p] = NoConfig /\ loaded[p] = NoConfig
    /\ hup \subseteq S!LivePids

IInv ==
    /\ S!TypeOK /\ F!TypeOK /\ Holdings
    /\ runtimeCfg \in Accepted
    /\ CandidateTested
    /\ upgrades \in 0..MaxUpgrades

LEMMA LiveSubset == S!LivePids \subseteq Pids
  BY DEF S!LivePids

\* The inductive invariant holds initially.
LEMMA IInvInit == Init => IInv
<1> SUFFICES ASSUME Init PROVE IInv
  OBVIOUS
<1>1. S!TypeOK
  BY SupervisorAssumption, SP!TypeInit, SameSupervisor, SameTypes DEF Init
<1>2. F!TypeOK
  BY ConfigAssumption, Zenon DEF Init, F!Init, F!TypeOK
<1>3. S!LivePids = {}
  BY DEF Init, S!Init, S!LivePids, S!Live, S!LiveStates
<1>4. Holdings
  BY <1>3 DEF Init, Holdings
<1>5. upgrades \in 0..MaxUpgrades
  BY BoundAssumption DEF Init
<1> QED
  BY <1>1, <1>2, <1>4, <1>5 DEF IInv, Init, F!Init, CandidateTested

\* Processes that are gone take their configs and signals with them.
LEMMA ForgetDeadHolds ==
  ASSUME Holdings, ForgetDead, S!LivePids' \subseteq S!LivePids
  PROVE  Holdings'
  BY LiveSubset DEF Holdings, ForgetDead

\* A process that starts from an accepted config holds it.
LEMMA StartsFromHolds ==
  ASSUME Holdings, NEW p \in Pids, NEW c \in Accepted, StartsFrom(p, c),
         S!LivePids' = S!LivePids \cup {p}
  PROVE  Holdings'
  BY LiveSubset, ConfigAssumption DEF Holdings, StartsFrom

\* A signal changes what is pending only.
LEMMA SendHupHolds ==
  ASSUME Holdings, SendHup \/ UNCHANGED pooler, S!LivePids' = S!LivePids
  PROVE  Holdings'
  BY LiveSubset DEF Holdings, SendHup, pooler

\* Every step preserves it.
LEMMA IInvNext == IInv /\ [Next]_vars => IInv'
<1> SUFFICES ASSUME IInv, [Next]_vars PROVE IInv'
  OBVIOUS
<1>s. S!TypeOK'
  <2>1. SP!TypeOK'
    BY SupervisorAssumption, SP!TypeNext, SupervisorStep, SameSupervisor,
       SameTypes DEF IInv
  <2> QED
    BY <2>1, SameTypes, PTL
<1>w. ASSUME UNCHANGED watcher, UNCHANGED upgrades, Holdings'
      PROVE  IInv'
  BY <1>w, <1>s DEF IInv, watcher, F!TypeOK, CandidateTested
<1>1. CASE RunStep /\ UNCHANGED <<watcher, upgrades>>
  <2>1. ASSUME NEW p \in Pids, Start(p) PROVE Holdings'
    BY <2>1, StartLive, StartsFromHolds DEF Start, IInv
  <2>2. ASSUME Resync PROVE Holdings'
    BY <2>2, SameLive, SendHupHolds DEF Resync, IInv
  <2>3. ASSUME OtherRunStep PROVE Holdings'
    BY <2>3, RunLive, ForgetDeadHolds, Zenon DEF OtherRunStep, IInv
  <2> QED
    BY <1>1, <2>1, <2>2, <2>3, <1>w DEF RunStep
<1>2. CASE PoolerStep /\ UNCHANGED <<watcher, upgrades>>
  <2>1. ASSUME NEW p \in Pids, NEW q \in Pids, SpawnSuccessor(p, q)
        PROVE  Holdings'
    <3>1. S!LivePids' = S!LivePids \cup {q} /\ p \in S!LivePids
      BY <2>1, SpawnLive DEF SpawnSuccessor, IInv
    <3>2. PICK c \in {loaded[p], runtimeCfg} : StartsFrom(q, c)
      BY <2>1 DEF SpawnSuccessor
    <3>3. c \in Accepted
      BY <3>1, <3>2 DEF IInv, Holdings
    <3> QED
      BY <3>1, <3>2, <3>3, StartsFromHolds DEF IInv
  <2>2. ASSUME NEW p \in Pids, EndHandover(p) \/ Exit(p)
        PROVE  Holdings'
    BY <2>2, EndLive, ForgetDeadHolds DEF EndHandover, Exit, IInv
  <2>3. ASSUME NEW p \in Pids, ReloadConfig(p)
        PROVE  Holdings'
    <3>1. S!LivePids' = S!LivePids
      BY <2>3, SameLive DEF ReloadConfig, IInv
    <3> QED
      BY <2>3, <3>1, LiveSubset, ConfigAssumption
         DEF ReloadConfig, IInv, Holdings
  <2> QED
    BY <1>2, <2>1, <2>2, <2>3, <1>w DEF PoolerStep
<1>3. CASE S!Tick /\ UNCHANGED <<watcher, pooler, upgrades>>
  BY <1>3, SameLive, SendHupHolds, <1>w DEF IInv
<1>4. CASE Upgrade
  <2>1. Holdings'
    BY <1>4, SameLive, SendHupHolds DEF Upgrade, IInv
  <2>2. upgrades' \in 0..MaxUpgrades
    BY <1>4, BoundAssumption DEF Upgrade, IInv
  <2> QED
    BY <1>4, <2>1, <2>2, <1>s
       DEF Upgrade, IInv, watcher, F!TypeOK, CandidateTested
<1>5. CASE WatcherStep /\ UNCHANGED upgrades
  <2>1. Holdings'
    BY <1>5, SameLive, SendHupHolds DEF WatcherStep, Signal, SignalFails, IInv
  <2>2. F!TypeOK' /\ (runtimeCfg \in Accepted)' /\ CandidateTested'
    <3> USE DEF IInv, F!TypeOK, CandidateTested
    <3>1. CASE Check
      BY <3>1 DEF Check, F!CheckInvalid, F!CheckChanged,
                  F!NeedsProcessRestart
    <3>2. CASE TestPasses
      BY <3>2 DEF TestPasses, F!TestPasses
    <3>3. CASE F!MaterializeFails
      BY <3>3 DEF F!MaterializeFails
    <3>4. CASE F!Rename
      BY <3>4 DEF F!Rename
    <3>5. CASE Signal
      BY <3>5 DEF Signal, F!SignalSucceeds
    <3>6. CASE SignalFails
      BY <3>6 DEF SignalFails, F!SignalFails
    <3> QED
      BY <1>5, <3>1, <3>2, <3>3, <3>4, <3>5, <3>6 DEF WatcherStep
  <2> QED
    BY <1>5, <2>1, <2>2, <1>s DEF IInv
<1>6. ASSUME NEW c \in Configs, Publish(c),
             UNCHANGED <<supervisor, pooler, upgrades>>
      PROVE  IInv'
  <2>1. Holdings'
    BY <1>6, SameLive, SendHupHolds DEF IInv
  <2> QED
    BY <1>6, <2>1, <1>s
       DEF Publish, F!Publish, F!watcher, IInv, F!TypeOK, CandidateTested
<1>7. CASE UNCHANGED vars
  <2>1. Holdings'
    BY <1>7, SameLive, SendHupHolds DEF IInv, vars
  <2> QED
    BY <1>7, <2>1, <1>w DEF vars
<1> QED
  BY <1>1, <1>2, <1>3, <1>4, <1>5, <1>6, <1>7 DEF Next

LEMMA IInvariance == Spec => []IInv
  BY IInvInit, IInvNext, PTL DEF Spec

\* TypeOK is an invariant of config delivery.
THEOREM TypeCorrect == Spec => []TypeOK
<1>1. IInv => TypeOK
  BY ConfigAssumption, LiveSubset DEF IInv, TypeOK, Holdings
<1> QED
  BY IInvariance, <1>1, PTL

\* Whatever the controller renders and however crashes, upgrades and signals
\* interleave with check(), the runtime config and every config some process
\* started from or read are ones the binary accepted.
THEOREM OnlyAcceptedConfigs == Spec => []RuntimeAccepted
<1>1. IInv => RuntimeAccepted
  BY DEF IInv, RuntimeAccepted, Holdings
<1> QED
  BY IInvariance, <1>1, PTL

=============================================================================
