------------------------ MODULE BinaryDeliveryProofs ------------------------
(***************************************************************************)
(* Proofs about BinaryDelivery, for any sets of pids, configs and binaries *)
(* and any relation of acceptance between the latter.  The supervisor is   *)
(* taken back to its initial state by a container restart and makes its    *)
(* own steps otherwise, so that its inductive invariant carries over.      *)
(***************************************************************************)
EXTENDS BinaryDelivery, TLAPS

SP == INSTANCE SupervisorProofs WITH MaxStrays <- 0

-----------------------------------------------------------------------------
(* The supervisor inside the composition.                                  *)

\* S and SP instantiate the same Supervisor.
LEMMA SameSupervisor ==
    /\ S!Init <=> SP!Init
    /\ [S!Next]_(S!vars) <=> [SP!Next]_(SP!vars)
<1>1. S!Init <=> SP!Init
  BY Zenon DEF S!Init, SP!Init
<1>3. S!LivePids = SP!LivePids /\ S!Strays = SP!Strays
  BY Zenon DEF S!LivePids, SP!LivePids, S!Live, SP!Live, S!LiveStates,
               SP!LiveStates, S!Strays, SP!Strays
<1>4. \A missed : S!SweepStrays(missed) <=> SP!SweepStrays(missed)
  <2> TAKE missed
  <2> QED
    BY <1>3, Zenon
       DEF S!SweepStrays, SP!SweepStrays, S!setup, SP!setup, S!request,
           SP!request, S!Cardinality, SP!Cardinality
<1>5. \A q : S!AdoptSuccessor(q) <=> SP!AdoptSuccessor(q)
  BY <1>3, Zenon DEF S!AdoptSuccessor, SP!AdoptSuccessor, S!setup, SP!setup,
                     S!request, SP!request, S!Live, SP!Live, S!LiveStates,
                     SP!LiveStates
<1>2. [S!Next]_(S!vars) <=> [SP!Next]_(SP!vars)
  BY <1>3, <1>4, <1>5, Zenon
     DEF S!Init, SP!Init, S!Next, SP!Next, S!vars, SP!vars, S!RunStep,
         SP!RunStep, S!EnvStep, SP!EnvStep, S!Start, SP!Start, S!StartFail,
         SP!StartFail, S!StartCancelled, SP!StartCancelled, S!DelayOver,
         SP!DelayOver, S!DelayCancelled, SP!DelayCancelled, S!WaitReturns,
         SP!WaitReturns, S!WaitGivesUp, SP!WaitGivesUp, S!ExitedCancelled,
         SP!ExitedCancelled, S!ExitedUpgrade, SP!ExitedUpgrade,
         S!ExitedCrash, SP!ExitedCrash, S!SearchFails, SP!SearchFails,
         S!Resync, SP!Resync, S!Cancel, SP!Cancel, S!Terminate, SP!Terminate,
         S!KillTimer, SP!KillTimer, S!Restart, SP!Restart, S!Reload,
         SP!Reload, S!Upgrade, SP!Upgrade, S!SpawnSuccessor,
         SP!SpawnSuccessor, S!AbortUpgrade, SP!AbortUpgrade, S!AbortHandover,
         SP!AbortHandover, S!Exit, SP!Exit, S!Tick, SP!Tick, S!Terminated,
         SP!Terminated, S!setup, SP!setup, S!request, SP!request,
         S!HandoverUnderWay, SP!HandoverUnderWay, S!LiveStates,
         SP!LiveStates, S!ProcStates, SP!ProcStates, S!Live, SP!Live,
         S!HandoverWindow, SP!HandoverWindow, S!pidLocked, SP!pidLocked,
         S!CanSignal, SP!CanSignal, S!UpgradeRequestFresh,
         SP!UpgradeRequestFresh, S!ExitsAsZombie, SP!ExitsAsZombie, S!Dead,
         SP!Dead
<1> QED
  BY <1>1, <1>2

LEMMA SameTypes == S!TypeOK <=> SP!TypeOK
  BY Zenon DEF S!TypeOK, SP!TypeOK, S!ProcStates, SP!ProcStates,
               S!LiveStates, SP!LiveStates, S!pidLocked, SP!pidLocked

\* Nothing cancels the wrapper in this composition.
NoShutdown == subreaper = TRUE /\ ctxDone = FALSE /\ termed = FALSE

\* The steps of the running wrapper, as the supervisor sees them.
LEMMA RunningStep ==
  ASSUME Running(RunStep \/ PoolerStep \/ ConfigStep \/ ConfigSignal
                   \/ BinaryStep \/ BinarySignal)
  PROVE  [S!Next]_(S!vars) /\ UNCHANGED <<subreaper, ctxDone, termed>>
<1> USE DEF supervisor, S!vars
<1>1. CASE RunStep
  <2>3. ASSUME S!SweepStrays({}) PROVE S!Next
    BY <2>3, Zenon DEF S!Next, S!RunStep
  <2>4. ASSUME NEW q \in S!LivePids, S!AdoptSuccessor(q) PROVE S!Next
    BY <2>4, Zenon DEF S!LivePids, S!Next, S!RunStep
  <2>1. S!Next
    BY <1>1, <2>3, <2>4, Zenon DEF RunStep, S!Next, S!RunStep
  <2>2. UNCHANGED <<subreaper, ctxDone, termed>>
    BY <1>1, Zenon
       DEF RunStep, S!Start, S!StartFail, S!DelayOver, S!WaitReturns,
           S!ExitedUpgrade, S!ExitedCrash, S!AdoptSuccessor, S!SearchFails,
           S!SweepStrays, S!Resync, S!setup
  <2> QED
    BY <2>1, <2>2
<1>2. CASE PoolerStep
  <2>1. S!Next
    BY <1>2, Zenon DEF PoolerStep, S!Next
  <2>2. UNCHANGED <<subreaper, ctxDone, termed>>
    BY <1>2, Zenon
       DEF PoolerStep, S!EnvStep, S!SpawnSuccessor, S!AbortUpgrade,
           S!AbortHandover, S!Exit, S!Tick, S!setup
  <2> QED
    BY <2>1, <2>2
<1>3. CASE S!Restart \/ S!Reload \/ S!Upgrade
  <2>1. S!Next
    BY <1>3, Zenon DEF S!Next
  <2>2. UNCHANGED <<subreaper, ctxDone, termed>>
    BY <1>3, Zenon DEF S!Restart, S!Reload, S!Upgrade, S!setup
  <2> QED
    BY <2>1, <2>2
<1>4. CASE UNCHANGED supervisor
  BY <1>4, Zenon
<1> QED
  BY <1>1, <1>2, <1>3, <1>4, Zenon
     DEF Running, ConfigStep, ConfigSignal, BinaryStep, BinarySignal

\* The wrapper's startup and the mounts do not touch the supervisor.
LEMMA OutsideStep ==
  ASSUME StartupStep \/ Publish \/ UNCHANGED vars
  PROVE  UNCHANGED supervisor
  BY Zenon DEF StartupStep, Publish, vars

\* A restarted container has a supervisor in its initial state.
LEMMA RestartStep ==
  ASSUME NoShutdown, ContainerRestart
  PROVE  S!Init' /\ NoShutdown'
<1>1. S!Init'
  BY Zenon DEF NoShutdown, ContainerRestart, S!Init
<1>2. NoShutdown'
  BY Zenon DEF NoShutdown, ContainerRestart
<1> QED
  BY <1>1, <1>2

-----------------------------------------------------------------------------
(* Types.                                                                  *)

LEMMA SupervisorInitTypes == S!Init => S!TypeOK
  BY SupervisorAssumption, SP!TypeInit, SameSupervisor, SameTypes

\* TypeOK holds initially.
LEMMA TypeInit == Init => TypeOK
<1> SUFFICES ASSUME Init PROVE TypeOK
  OBVIOUS
<1>1. S!TypeOK
  BY SupervisorInitTypes DEF Init
<1>2. F!TypeOK
  BY Zenon DEF Init, F!Init, F!TypeOK, F!ValidateConfigBytes
<1>3. B!TypeOK
  BY ImageAssumption, Zenon DEF Init, B!TypeOK, B!Specs
<1>4. exec = [p \in Pids |-> NilSpec] /\ left = {} /\ spc = "binary"
        /\ seed = NilSpec
  BY Zenon DEF Init
<1>5. outdated = {} /\ unsignalled = NilSpec /\ overlooked = FALSE /\ mounts = 0
  BY Zenon DEF Init
<1>6. overlooked \in BOOLEAN
  BY <1>5, Zenon
<1>7. HistoryTypeOK
  BY <1>5, <1>6, BoundAssumption DEF HistoryTypeOK
<1> QED
  BY <1>1, <1>2, <1>3, <1>4, <1>7 DEF TypeOK

\* The supervisor keeps its types.
LEMMA SupervisorTypes ==
  ASSUME NoShutdown, S!TypeOK, [Next]_vars
  PROVE  S!TypeOK' /\ NoShutdown'
<1>1. CASE ContainerRestart
  <2>1. S!Init' /\ NoShutdown'
    BY <1>1, RestartStep
  <2> QED
    BY <2>1, SupervisorInitTypes, PTL
<1>2. CASE [S!Next]_(S!vars) /\ UNCHANGED <<subreaper, ctxDone, termed>>
  <2>1. SP!TypeOK'
    BY <1>2, SupervisorAssumption, SP!TypeNext, SameSupervisor, SameTypes
  <2>2. NoShutdown'
    BY <1>2, Zenon DEF NoShutdown
  <2> QED
    BY <2>1, <2>2, SameTypes, PTL
<1>3. CASE UNCHANGED supervisor
  BY <1>2, <1>3, Zenon DEF supervisor, S!vars
<1> QED
  BY <1>1, <1>2, <1>3, RunningStep, OutsideStep, Zenon DEF Next

\* The steps of the config watcher keep its types.
LEMMA ConfigTypes ==
  ASSUME F!TypeOK,
         \/ F!CheckInvalid \/ F!CheckChanged \/ F!TestPasses
         \/ F!MaterializeFails \/ F!Rename
         \/ F!SignalSucceeds \/ F!SignalFails
         \/ \E c \in Configs : F!Publish(c)
         \/ UNCHANGED configs
  PROVE  F!TypeOK'
<1> USE DEF F!TypeOK, F!ValidateConfigBytes
<1>1. CASE F!CheckInvalid
  BY <1>1 DEF F!CheckInvalid
<1>2. CASE F!CheckChanged
  BY <1>2 DEF F!CheckChanged, F!NeedsProcessRestart
<1>3. CASE F!TestPasses \/ F!MaterializeFails \/ F!Rename \/ F!SignalFails
  BY <1>3 DEF F!TestPasses, F!MaterializeFails, F!Rename, F!SignalFails
<1>4. CASE F!SignalSucceeds
  BY <1>4 DEF F!SignalSucceeds
<1>5. ASSUME NEW c \in Configs, F!Publish(c) PROVE F!TypeOK'
  BY <1>5 DEF F!Publish, F!watcher
<1>6. CASE UNCHANGED configs
  BY <1>6 DEF configs
<1> QED
  BY <1>1, <1>2, <1>3, <1>4, <1>5, <1>6

\* And so do those of the binary watcher.
LEMMA BinaryTypes ==
  ASSUME B!TypeOK,
         \/ B!CheckNoDigest \/ B!CheckInstalled \/ B!CheckDeferred
         \/ B!CheckChanged \/ B!Downloads \/ B!TestPasses \/ B!CheckFails
         \/ B!Swap \/ B!UpgradeSucceeds \/ B!UpgradeFails
         \/ \E s \in B!Specs : B!PublishSpec(s)
         \/ UNCHANGED binaries
  PROVE  B!TypeOK'
<1> USE DEF B!TypeOK, B!Specs
<1>1. CASE B!CheckNoDigest
  BY <1>1 DEF B!CheckNoDigest
<1>2. CASE B!CheckInstalled \/ B!CheckDeferred \/ B!CheckChanged
  BY <1>2 DEF B!CheckInstalled, B!CheckDeferred, B!CheckChanged, B!SpecChanged
<1>3. CASE B!Downloads \/ B!TestPasses \/ B!CheckFails \/ B!Swap
  BY <1>3 DEF B!Downloads, B!TestPasses, B!CheckFails, B!Swap
<1>4. CASE B!UpgradeSucceeds \/ B!UpgradeFails
  BY <1>4 DEF B!UpgradeSucceeds, B!UpgradeFails
<1>5. ASSUME NEW s \in B!Specs, B!PublishSpec(s) PROVE B!TypeOK'
  BY <1>5 DEF B!PublishSpec
<1>6. CASE UNCHANGED binaries
  BY <1>6 DEF binaries
<1> QED
  BY <1>1, <1>2, <1>3, <1>4, <1>5, <1>6

\* What runs after a step of the wrapper was started from some binary, and
\* only what runs can have been passed by.
LEMMA PoolerTypes ==
  ASSUME TypeOK, S!TypeOK', NEW A, Running(A)
  PROVE  /\ exec' \in [Pids -> Bins \cup {NilSpec}]
         /\ left' \subseteq {p \in Pids : S!Live(p)'}
  BY DEF TypeOK, S!TypeOK, B!TypeOK, Running, Executes, S!Live, S!LiveStates,
         S!ProcStates

\* Startup keeps the types of the files, the watchers and its own state.
LEMMA StartupTypes ==
  ASSUME TypeOK, StartupStep
  PROVE  /\ F!TypeOK' /\ B!TypeOK'
         /\ spc' \in {"binary", "config", "retry", "run"}
         /\ seed' \in B!Specs \cup {NilSpec}
<1> USE ImageAssumption
    DEF TypeOK, F!TypeOK, F!ValidateConfigBytes, B!TypeOK, B!Specs,
        StartupStep, M!config
<1>1. CASE M!EnsureFromImage
  BY <1>1 DEF M!EnsureFromImage
<1>2. CASE M!EnsureLocal
  BY <1>2 DEF M!EnsureLocal
<1>3. CASE M!EnsureDownload
  BY <1>3 DEF M!EnsureDownload
<1>4. CASE M!EnsureFallback
  BY <1>4 DEF M!EnsureFallback
<1>5. CASE M!ApplyInitial
  BY <1>5 DEF M!ApplyInitial
<1>6. CASE M!Revert
  BY <1>6 DEF M!Revert
<1>7. CASE M!GiveUp
  BY <1>7 DEF M!GiveUp
<1> QED
  BY <1>1, <1>2, <1>3, <1>4, <1>5, <1>6, <1>7

\* Every step keeps the types of the history.
LEMMA HistoryTypes ==
  ASSUME TypeOK, [Next]_vars
  PROVE  HistoryTypeOK'
<1> USE DEF HistoryTypeOK
<1>t. HistoryTypeOK /\ runtimeBin \in Bins
  BY Zenon DEF TypeOK, B!TypeOK
<1>1. CASE StartupStep \/ UNCHANGED vars
  <2>1. UNCHANGED <<history, mounts>>
    BY <1>1, Zenon DEF StartupStep, vars
  <2> QED
    BY <1>t, <2>1, Zenon DEF history
<1>2. CASE ContainerRestart
  BY <1>t, <1>2, Zenon DEF ContainerRestart
<1>3. CASE Publish
  <2>1. overlooked' \in BOOLEAN
    BY <1>3, <1>t, Zenon DEF Publish
  <2>2. mounts' \in 0..MaxMounts
    BY <1>3, <1>t, BoundAssumption DEF Publish
  <2> QED
    BY <1>3, <1>t, <2>1, <2>2, Zenon DEF Publish
<1>4. CASE Running(RunStep \/ PoolerStep \/ ConfigStep \/ ConfigSignal
                     \/ BinaryStep \/ BinarySignal)
  <2>1. outdated' \subseteq {"config", "binary", "pair"}
    BY <1>4, Zenon DEF Running
  <2>2. unsignalled' \in Bins \cup {NilSpec}
    BY <1>4, <1>t, Zenon DEF Running, Unsignalled
  <2>3. overlooked' \in BOOLEAN /\ mounts' = mounts
    BY <1>4, Zenon DEF Running
  <2> QED
    BY <1>t, <2>1, <2>2, <2>3, Zenon
<1> QED
  BY <1>1, <1>2, <1>3, <1>4, Zenon DEF Next

LEMMA TypeNext == NoShutdown /\ TypeOK /\ [Next]_vars => TypeOK' /\ NoShutdown'
<1> SUFFICES ASSUME NoShutdown, TypeOK, [Next]_vars
             PROVE  TypeOK' /\ NoShutdown'
  OBVIOUS
<1>s. S!TypeOK' /\ NoShutdown'
  BY SupervisorTypes DEF TypeOK
<1>h. HistoryTypeOK'
  BY HistoryTypes
<1>l. ASSUME UNCHANGED supervisor, UNCHANGED poolers
      PROVE  /\ exec' \in [Pids -> Bins \cup {NilSpec}]
             /\ left' \subseteq {p \in Pids : S!Live(p)'}
  BY <1>l DEF TypeOK, S!Live, supervisor, poolers
<1>1. CASE StartupStep
  <2>1. UNCHANGED supervisor /\ UNCHANGED poolers
    BY <1>1, Zenon DEF StartupStep
  <2> QED
    BY <1>s, <1>h, <1>1, <1>l, <2>1, StartupTypes DEF TypeOK
<1>2. CASE ContainerRestart
  <2>1. F!TypeOK'
    BY <1>2 DEF ContainerRestart, TypeOK, F!TypeOK, F!ValidateConfigBytes
  <2>2. B!TypeOK'
    BY <1>2 DEF ContainerRestart, TypeOK, B!TypeOK
  <2> QED
    BY <1>s, <1>h, <1>2, <2>1, <2>2 DEF ContainerRestart, TypeOK
<1>3. CASE Publish
  <2>1. UNCHANGED supervisor /\ UNCHANGED poolers /\ UNCHANGED main
    BY <1>3, Zenon DEF Publish
  <2>2. F!TypeOK' /\ B!TypeOK'
    BY <1>3, ConfigTypes, BinaryTypes, Zenon DEF Publish, TypeOK
  <2> QED
    BY <1>s, <1>h, <1>l, <2>1, <2>2 DEF TypeOK, main
<1>4. CASE Running(RunStep \/ PoolerStep \/ ConfigStep \/ ConfigSignal
                     \/ BinaryStep \/ BinarySignal)
  <2>1. /\ exec' \in [Pids -> Bins \cup {NilSpec}]
        /\ left' \subseteq {p \in Pids : S!Live(p)'}
    BY <1>s, <1>4, PoolerTypes
  <2>2. UNCHANGED main
    BY <1>4, Zenon DEF Running, RunStep, PoolerStep, ConfigStep, ConfigSignal,
                       BinaryStep, BinarySignal
  <2>3. F!TypeOK'
    BY <1>4, ConfigTypes, Zenon
       DEF Running, RunStep, PoolerStep, ConfigStep, ConfigSignal, BinaryStep,
           BinarySignal, TypeOK
  <2>4. B!TypeOK'
    BY <1>4, BinaryTypes, Zenon
       DEF Running, RunStep, PoolerStep, ConfigStep, ConfigSignal, BinaryStep,
           BinarySignal, BinaryCheck, BinaryTest, TypeOK
  <2> QED
    BY <1>s, <1>h, <2>1, <2>2, <2>3, <2>4 DEF TypeOK, main
<1>5. CASE UNCHANGED vars
  <2>1. UNCHANGED supervisor /\ UNCHANGED poolers /\ UNCHANGED main
          /\ UNCHANGED configs /\ UNCHANGED binaries
    BY <1>5, Zenon DEF vars
  <2>2. F!TypeOK' /\ B!TypeOK'
    BY <2>1, ConfigTypes, BinaryTypes DEF TypeOK
  <2> QED
    BY <1>s, <1>h, <1>l, <2>1, <2>2 DEF TypeOK, main
<1> QED
  BY <1>1, <1>2, <1>3, <1>4, <1>5, Zenon DEF Next

LEMMA Typing == Spec => [](NoShutdown /\ TypeOK)
<1>1. Init => NoShutdown
  BY Zenon DEF Init, S!Init, NoShutdown
<1> QED
  BY <1>1, TypeInit, TypeNext, PTL DEF Spec

\* TypeOK is an invariant of binary delivery: check() never downloads or
\* installs what an absent, unparsable or foreign spec says.
THEOREM TypeCorrect == Spec => []TypeOK
  BY Typing, PTL

-----------------------------------------------------------------------------
(***************************************************************************)
(* TestedPair is not inductive: each watcher tests its candidate against   *)
(* what the other one has on disk, and renames it later.  What is inductive*)
(* speaks of the candidates too: a verdict is true of the files on disk as *)
(* long as no rename has overtaken it.                                     *)
(***************************************************************************)

CandidatesTested ==
    spc = "run" =>
        /\ fpc = "rename" => Accepts(runtimeBin, data) \/ "config" \in outdated
        /\ bpc = "swap" => Accepts(wanted, runtimeCfg) \/ "binary" \in outdated

WatchersIdle == spc # "run" => fpc = "idle" /\ bpc = "idle"

PairInv == TestedPair /\ CandidatesTested /\ WatchersIdle

\* What a step of the running wrapper makes of the verdicts.
LEMMA VerdictStep ==
  ASSUME NEW A, Running(A)
  PROVE  /\ fpc' = "rename" /\ ("config" \in outdated \/ runtimeBin' # runtimeBin)
              => "config" \in outdated'
         /\ bpc' = "swap" /\ ("binary" \in outdated \/ runtimeCfg' # runtimeCfg)
              => "binary" \in outdated'
         /\ runtimeCfg' # runtimeCfg /\ "config" \in outdated => "pair" \in outdated'
         /\ runtimeBin' # runtimeBin /\ "binary" \in outdated => "pair" \in outdated'
         /\ UNCHANGED <<runtimeCfg, runtimeBin>> /\ "pair" \in outdated
              => "pair" \in outdated'
  BY Zenon DEF Running, Outdated

\* Every step preserves it, however the steps of the watchers interleave.
LEMMA PairInvNext ==
  ASSUME PairInv, [Next]_vars
  PROVE  PairInv'
<1> USE DEF PairInv, TestedPair, AcceptedPair, CandidatesTested, WatchersIdle,
            configs, binaries, main
<1>1. CASE StartupStep
  <2>1. UNCHANGED <<fpc, bpc, data, wanted>> /\ spc # "run"
    BY <1>1, Zenon DEF StartupStep, M!EnsureFromImage, M!EnsureLocal,
       M!EnsureDownload, M!EnsureFallback, M!ApplyInitial, M!Revert, M!GiveUp
  <2>2. spc' = "run" => Accepts(runtimeBin', runtimeCfg')
    BY <1>1 DEF StartupStep, M!EnsureFromImage, M!EnsureLocal,
       M!EnsureDownload, M!EnsureFallback, M!ApplyInitial, M!Revert, M!GiveUp
  <2> QED
    BY <2>1, <2>2
<1>2. CASE ContainerRestart
  BY <1>2 DEF ContainerRestart
<1>3. CASE Publish
  BY <1>3 DEF Publish, F!Publish, B!PublishSpec, F!watcher
<1>4. CASE UNCHANGED vars
  BY <1>4 DEF vars, history
<1>5. ASSUME NEW A, Running(A),
             \/ RunStep \/ PoolerStep \/ ConfigStep \/ ConfigSignal
             \/ BinaryStep \/ BinarySignal
      PROVE  PairInv'
  <2>v. /\ fpc' = "rename" /\ ("config" \in outdated \/ runtimeBin' # runtimeBin)
             => "config" \in outdated'
        /\ bpc' = "swap" /\ ("binary" \in outdated \/ runtimeCfg' # runtimeCfg)
             => "binary" \in outdated'
        /\ runtimeCfg' # runtimeCfg /\ "config" \in outdated => "pair" \in outdated'
        /\ runtimeBin' # runtimeBin /\ "binary" \in outdated => "pair" \in outdated'
        /\ UNCHANGED <<runtimeCfg, runtimeBin>> /\ "pair" \in outdated
             => "pair" \in outdated'
    BY <1>5, VerdictStep, Zenon
  <2>r. spc = "run"
    BY <1>5, Zenon DEF Running
  <2>1. CASE RunStep \/ PoolerStep
    <3>1. UNCHANGED <<configs, binaries, main>>
      BY <2>1, Zenon DEF RunStep, PoolerStep
    <3> QED
      BY <3>1, <2>v, <2>r
  <2>2. CASE ConfigStep
    BY <2>2, <2>v, <2>r
       DEF ConfigStep, F!CheckInvalid, F!CheckChanged, F!TestPasses,
           F!MaterializeFails, F!Rename
  <2>3. CASE ConfigSignal
    BY <2>3, <2>v, <2>r DEF ConfigSignal, F!SignalSucceeds, F!SignalFails
  <2>4. CASE BinaryStep
    BY <2>4, <2>v, <2>r
       DEF BinaryStep, BinaryCheck, BinaryTest, B!CheckNoDigest,
           B!CheckInstalled, B!CheckDeferred, B!CheckChanged, B!SpecChanged,
           B!Downloads, B!TestPasses, B!CheckFails, B!Swap
  <2>5. CASE BinarySignal
    BY <2>5, <2>v, <2>r DEF BinarySignal, B!UpgradeSucceeds, B!UpgradeFails
  <2> QED
    BY <1>5, <2>1, <2>2, <2>3, <2>4, <2>5, Zenon
<1> QED
  BY <1>1, <1>2, <1>3, <1>4, <1>5, Zenon DEF Next, Running

\* Through failed downloads, reverts to the image's binary, container restarts
\* and any interleaving of the two watchers, the pair on disk was tested as a
\* pair, or the last rename acted on a verdict that had been overtaken.
THEOREM TestedTogether == Spec => []TestedPair
<1>1. Init => PairInv
  <2> SUFFICES ASSUME Init PROVE PairInv
    OBVIOUS
  <2>1. spc = "binary" /\ fpc = "idle" /\ bpc = "idle"
    BY Zenon DEF Init, F!Init
  <2> QED
    BY <2>1
       DEF PairInv, TestedPair, AcceptedPair, CandidatesTested, WatchersIdle
<1>2. PairInv /\ [Next]_vars => PairInv'
  BY PairInvNext
<1>3. PairInv => TestedPair
  BY DEF PairInv
<1> QED
  BY <1>1, <1>2, <1>3, PTL DEF Spec

-----------------------------------------------------------------------------
(***************************************************************************)
(* AppliedIsInstalled speaks of the mounted spec, which may become anything*)
(* at any moment: what is inductive speaks of lastSpec.  A check() may not *)
(* leave it at a spec whose binary it has replaced, unless the signal      *)
(* failed, and the startup may not hand over a seed whose binary it has    *)
(* reverted.                                                               *)
(***************************************************************************)

LastInstalled ==
    spc = "run" /\ bpc # "signal" /\ lastSpec \in Bins =>
        runtimeBin \in {lastSpec, unsignalled}

SwappedIsWanted == bpc = "signal" => runtimeBin = wanted

SeedInstalled == spc = "config" /\ seed \in Bins => seed = runtimeBin

Unseeded == spc # "run" => lastSpec = NilSpec /\ bpc = "idle"

InstallInv == LastInstalled /\ SwappedIsWanted /\ SeedInstalled /\ Unseeded

\* Every step preserves it.
LEMMA InstallInvNext ==
  ASSUME B!TypeOK, InstallInv, [Next]_vars
  PROVE  InstallInv'
<1> USE SpecAssumption, ImageAssumption
    DEF InstallInv, LastInstalled, SwappedIsWanted, SeedInstalled, Unseeded,
        B!TypeOK, B!Specs, binaries, main, history
<1>1. CASE StartupStep
  <2>1. UNCHANGED <<bpc, wanted, spec>> /\ spc # "run"
    BY <1>1, Zenon DEF StartupStep, M!EnsureFromImage, M!EnsureLocal,
       M!EnsureDownload, M!EnsureFallback, M!ApplyInitial, M!Revert, M!GiveUp
  <2>2. spc' = "config" /\ seed' \in Bins => seed' = runtimeBin'
    BY <1>1, <2>1 DEF StartupStep, M!EnsureFromImage, M!EnsureLocal,
       M!EnsureDownload, M!EnsureFallback, M!ApplyInitial, M!Revert, M!GiveUp
  <2>3. spc' = "run" /\ lastSpec' \in Bins => lastSpec' = runtimeBin'
    BY <1>1, <2>1 DEF StartupStep, M!EnsureFromImage, M!EnsureLocal,
       M!EnsureDownload, M!EnsureFallback, M!ApplyInitial, M!Revert, M!GiveUp
  <2>4. spc' # "run" => lastSpec' = lastSpec
    BY <1>1 DEF StartupStep
  <2> QED
    BY <2>1, <2>2, <2>3, <2>4
<1>2. CASE ContainerRestart
  BY <1>2 DEF ContainerRestart
<1>3. CASE Publish
  BY <1>3 DEF Publish, B!PublishSpec
<1>4. CASE UNCHANGED vars
  BY <1>4 DEF vars
<1>5. ASSUME NEW A, Running(A),
             \/ RunStep \/ PoolerStep \/ ConfigStep \/ ConfigSignal
             \/ BinaryStep \/ BinarySignal
      PROVE  InstallInv'
  <2>r. spc = "run" /\ unsignalled' = Unsignalled
    BY <1>5, Zenon DEF Running
  <2>1. CASE RunStep \/ PoolerStep \/ ConfigStep \/ ConfigSignal
    <3>1. UNCHANGED <<binaries, main>>
      BY <2>1, Zenon DEF RunStep, PoolerStep, ConfigStep, ConfigSignal
    <3> QED
      BY <3>1, <2>r DEF Unsignalled
  <2>2. CASE BinaryStep
    BY <2>2, <2>r
       DEF Unsignalled, BinaryStep, BinaryCheck, BinaryTest, B!CheckNoDigest,
           B!CheckInstalled, B!CheckDeferred, B!CheckChanged, B!SpecChanged,
           B!Downloads, B!TestPasses, B!CheckFails, B!Swap
  <2>3. CASE BinarySignal
    BY <2>3, <2>r
       DEF Unsignalled, BinarySignal, B!UpgradeSucceeds, B!UpgradeFails
  <2> QED
    BY <1>5, <2>1, <2>2, <2>3, Zenon
<1> QED
  BY <1>1, <1>2, <1>3, <1>4, <1>5, Zenon DEF Next, Running

\* A spec that counts as applied is the binary on disk, whichever of the
\* download, the test, the rename and the startup failed on the way and
\* whatever the plugin goes back to, or that binary is the one a failed
\* Upgrade left there.
THEOREM AppliedInstalled == Spec => []AppliedIsInstalled
<1>1. Init => InstallInv
  <2> SUFFICES ASSUME Init PROVE InstallInv
    OBVIOUS
  <2>1. spc = "binary" /\ bpc = "idle" /\ lastSpec = NilSpec
    BY Zenon DEF Init
  <2> QED
    BY <2>1, SpecAssumption
       DEF InstallInv, LastInstalled, SwappedIsWanted, SeedInstalled, Unseeded
<1>2. B!TypeOK /\ InstallInv /\ [Next]_vars => InstallInv'
  BY InstallInvNext
<1>3. InstallInv => AppliedIsInstalled
  BY DEF InstallInv, LastInstalled, AppliedIsInstalled
<1>4. TypeOK => B!TypeOK
  BY DEF TypeOK
<1> QED
  BY <1>1, <1>2, <1>3, <1>4, TypeCorrect, PTL DEF Spec

-----------------------------------------------------------------------------
(***************************************************************************)
(* The swap and the handovers.  The watcher looks for an upgrade in flight *)
(* once, before the download.  That no handover is under way at the swap   *)
(* takes the supervisor's invariant (what is under way is explained by a   *)
(* fresh request) and that only the watcher itself requests one.           *)
(***************************************************************************)

LEMMA SupervisorInitInv == S!Init => SP!IInv
  BY SupervisorAssumption, SP!IInvInit, SameSupervisor

\* The inductive invariant of the supervisor survives container restarts.
LEMMA SupervisorInv ==
  ASSUME S!HandoverFits, NoShutdown, SP!IInv, [Next]_vars
  PROVE  SP!IInv'
<1>1. CASE ContainerRestart
  <2>1. S!Init'
    BY <1>1, RestartStep
  <2> QED
    BY <2>1, SupervisorInitInv, PTL
<1>2. CASE [S!Next]_(S!vars)
  <2>1. SP!HandoverFits
    BY DEF S!HandoverFits, SP!HandoverFits, S!HandoverWindow,
           SP!HandoverWindow
  <2> QED
    BY <1>2, <2>1, SupervisorAssumption, SP!IInvNext, SameSupervisor
<1>3. CASE UNCHANGED supervisor
  BY <1>2, <1>3, Zenon DEF supervisor, S!vars
<1> QED
  BY <1>1, <1>2, <1>3, RunningStep, OutsideStep, Zenon DEF Next

\* The request, if there is one, is older than any handover takes.
Quiet == upgradeRequested => upgradeAge > HandoverMax

\* Nothing but Process.Upgrade makes a request young again.
LEMMA StaysQuiet ==
  ASSUME S!TypeOK, Quiet,
         RunStep \/ PoolerStep \/ S!Restart \/ S!Reload \/ UNCHANGED supervisor
  PROVE  Quiet'
<1> USE DEF Quiet, S!request
<1>1. CASE RunStep
  BY <1>1, Zenon
     DEF RunStep, S!Start, S!StartFail, S!DelayOver, S!WaitReturns,
         S!ExitedUpgrade, S!ExitedCrash, S!AdoptSuccessor, S!SearchFails,
         S!SweepStrays, S!Resync
<1>2. CASE PoolerStep /\ ~S!Tick
  BY <1>2, Zenon
     DEF PoolerStep, S!EnvStep, S!SpawnSuccessor, S!AbortUpgrade,
         S!AbortHandover, S!Exit
<1>3. CASE S!Tick
  BY <1>3, SupervisorAssumption DEF S!Tick, S!TypeOK
<1>4. CASE S!Restart \/ S!Reload \/ UNCHANGED supervisor
  BY <1>4, Zenon DEF S!Restart, S!Reload, S!vars, supervisor
<1> QED
  BY <1>1, <1>2, <1>3, <1>4

\* What is under way is explained by a young request.
LEMMA QuietMeansNone ==
  ASSUME SP!IInv, Quiet
  PROVE  ~S!HandoverUnderWay
  BY SupervisorAssumption
     DEF SP!IInv, SP!TypeOK, SP!UpgradingWatched, SP!HeirFresh, Quiet,
         S!HandoverUnderWay

\* A check() that works on a binary began without an upgrade in flight, and
\* none came since.
WorksStale == bpc # "idle" => Quiet

LEMMA WorksStaleNext ==
  ASSUME S!HandoverFits, S!TypeOK, WorksStale, [Next]_vars
  PROVE  WorksStale'
<1> USE DEF WorksStale
<1>1. CASE StartupStep
  BY <1>1, StaysQuiet DEF StartupStep
<1>2. CASE ContainerRestart
  BY <1>2 DEF ContainerRestart
<1>3. CASE Publish
  <2>1. UNCHANGED supervisor /\ bpc' = bpc
    BY <1>3 DEF Publish, B!PublishSpec, binaries
  <2> QED
    BY <2>1, StaysQuiet
<1>4. CASE RunStep \/ PoolerStep
  BY <1>4, StaysQuiet DEF RunStep, PoolerStep, binaries
<1>5. CASE ConfigStep \/ ConfigSignal
  <2>1. S!Restart \/ S!Reload \/ UNCHANGED supervisor
    BY <1>5, Zenon DEF ConfigStep, ConfigSignal
  <2> QED
    BY <1>5, <2>1, StaysQuiet DEF ConfigStep, ConfigSignal, binaries
<1>6. CASE BinaryStep
  <2>1. UNCHANGED <<upgradeRequested, upgradeAge>>
    BY <1>6, Zenon DEF BinaryStep, supervisor
  <2>2. ASSUME NEW delay \in WaitDelays, ~S!UpgradeRequestFresh(delay)
        PROVE  Quiet
    BY <2>2, SupervisorAssumption
       DEF S!TypeOK, S!HandoverFits, S!UpgradeRequestFresh, S!HandoverWindow,
           Quiet
  <2>3. bpc' # "idle" => Quiet
    BY <1>6, <2>2, Zenon
       DEF BinaryStep, BinaryCheck, BinaryTest, B!CheckNoDigest,
           B!CheckInstalled, B!CheckDeferred, B!CheckChanged, B!SpecChanged,
           B!Downloads, B!TestPasses, B!CheckFails, B!Swap
  <2> QED
    BY <2>1, <2>3 DEF Quiet
<1>7. CASE BinarySignal
  BY <1>7 DEF BinarySignal, B!UpgradeSucceeds, B!UpgradeFails
<1>8. CASE UNCHANGED vars
  BY <1>8, StaysQuiet DEF vars, binaries
<1> QED
  BY <1>1, <1>2, <1>3, <1>4, <1>5, <1>6, <1>7, <1>8, Zenon DEF Next, Running

\* The supervisor's invariant and the watcher's, for every behaviour.
SwapInv == NoShutdown /\ TypeOK /\ SP!IInv /\ WorksStale

LEMMA SwapInvariance ==
  ASSUME S!HandoverFits
  PROVE  Spec => []SwapInv
<1>1. Init => SP!IInv /\ WorksStale
  BY SupervisorInitInv DEF Init, WorksStale
<1>2. NoShutdown /\ TypeOK /\ SP!IInv /\ WorksStale /\ [Next]_vars
        => SP!IInv' /\ WorksStale'
  BY SupervisorInv, WorksStaleNext DEF TypeOK
<1> QED
  BY <1>1, <1>2, Typing, PTL DEF Spec, SwapInv

\* Provided that pg_doorman completes a handover within waitDelay plus the
\* search, argv[0] changes only between two handovers, although the watcher
\* looks for one only before it downloads.
THEOREM SwapsBetweenHandovers ==
  S!HandoverFits => (Spec => SwapBetweenHandovers)
<1> SUFFICES ASSUME S!HandoverFits
             PROVE  Spec => SwapBetweenHandovers
  OBVIOUS
<1>1. SwapInv /\ [Next]_vars
        => (spc = "run" /\ runtimeBin' # runtimeBin => ~S!HandoverUnderWay)
  <2> SUFFICES ASSUME SwapInv, [Next]_vars, spc = "run",
                      runtimeBin' # runtimeBin
               PROVE  ~S!HandoverUnderWay
    OBVIOUS
  <2>1. bpc = "swap"
    BY DEF Next, StartupStep, M!EnsureFromImage, M!EnsureLocal,
       M!EnsureDownload, M!EnsureFallback, M!ApplyInitial, M!Revert, M!GiveUp,
       ContainerRestart, Publish, F!Publish, B!PublishSpec, binaries, vars,
       Running, RunStep, PoolerStep, ConfigStep, ConfigSignal, BinaryStep,
       BinaryCheck, BinaryTest, BinarySignal, B!CheckNoDigest,
       B!CheckInstalled, B!CheckDeferred, B!CheckChanged, B!Downloads,
       B!TestPasses, B!CheckFails, B!Swap, B!UpgradeSucceeds, B!UpgradeFails
  <2> QED
    BY <2>1, QuietMeansNone DEF SwapInv, WorksStale
<1> QED
  BY <1>1, SwapInvariance, PTL DEF Spec, SwapBetweenHandovers
-----------------------------------------------------------------------------
(***************************************************************************)
(* Which binary the poolers run.  RunsInstalled speaks of the supervised   *)
(* pooler, and supervision moves: what is inductive speaks of all poolers, *)
(* of those a signal misses because their pid is a zombie's, and of the    *)
(* startup, which replaces argv[0] before there is any.                    *)
(***************************************************************************)

\* Only the supervised pid can be a zombie: everything else is reaped.
ZombieWatched ==
    \A p \in Pids : proc[p] = "zombie" =>
        pc \in {"wait", "adopted"} /\ p = S!pidLocked

ExecKnown == \A p \in Pids : S!Live(p) => exec[p] # NilSpec

NoneYet == spc # "run" => \A p \in Pids : ~S!Live(p)

ServesInstalled ==
    spc = "run" /\ bpc # "signal" =>
        \A p \in Pids \ left : proc[p] = "serving" => exec[p] = runtimeBin

InstalledInv == ZombieWatched /\ ExecKnown /\ NoneYet /\ ServesInstalled

LEMMA ZombieWatchedNext ==
  ASSUME NoShutdown, S!TypeOK, ZombieWatched, [S!Next]_(S!vars)
  PROVE  ZombieWatched'
<1> USE DEF NoShutdown, S!TypeOK, ZombieWatched, S!pidLocked, S!Live,
            S!LiveStates, S!ProcStates
<1>1. ASSUME NEW p \in Pids, S!Start(p) PROVE ZombieWatched'
  BY <1>1 DEF S!Start
<1>2. CASE S!StartFail \/ S!StartCancelled \/ S!DelayOver \/ S!DelayCancelled
  BY <1>2 DEF S!StartFail, S!StartCancelled, S!DelayOver, S!DelayCancelled
<1>3. CASE S!WaitReturns
  BY <1>3 DEF S!WaitReturns
<1>4. CASE S!WaitGivesUp
  BY <1>4, Zenon DEF S!WaitGivesUp
<1>5. CASE S!ExitedCancelled \/ S!ExitedUpgrade \/ S!ExitedCrash
  BY <1>5 DEF S!ExitedCancelled, S!ExitedUpgrade, S!ExitedCrash
<1>6. ASSUME NEW q \in Pids, S!AdoptSuccessor(q) PROVE ZombieWatched'
  BY <1>6 DEF S!AdoptSuccessor, S!LivePids, S!Strays
<1>7. CASE S!SearchFails \/ S!Resync \/ S!Cancel
  BY <1>7 DEF S!SearchFails, S!Resync, S!Cancel
<1>13. ASSUME NEW missed, S!SweepStrays(missed) PROVE ZombieWatched'
  BY <1>13 DEF S!SweepStrays, S!LivePids, S!Strays
<1>8. CASE S!Terminate \/ S!KillTimer
  BY <1>8 DEF S!Terminate, S!KillTimer
<1>9. CASE S!Restart \/ S!Upgrade
  BY <1>9 DEF S!Restart, S!Upgrade
<1>10. ASSUME NEW p \in Pids, NEW q \in Pids, S!SpawnSuccessor(p, q)
       PROVE  ZombieWatched'
  BY <1>10 DEF S!SpawnSuccessor
<1>11. ASSUME NEW p \in Pids,
              S!AbortUpgrade(p) \/ S!AbortHandover(p) \/ S!Exit(p)
       PROVE  ZombieWatched'
  BY <1>11
     DEF S!AbortUpgrade, S!AbortHandover, S!Exit, S!Dead, S!ExitsAsZombie
<1>12. CASE S!Tick \/ S!Terminated \/ S!Reload \/ UNCHANGED S!vars
  BY <1>12 DEF S!Tick, S!Terminated, S!Reload, S!vars
<1> QED
  BY <1>1, <1>2, <1>3, <1>4, <1>5, <1>6, <1>7, <1>8, <1>9, <1>10, <1>11,
     <1>12, <1>13, Zenon DEF S!Next, S!RunStep, S!EnvStep

\* No process goes back from its drain, and all of pg_doorman's other ways
\* back to serving are aborted upgrades.
LEMMA ServingStep ==
  ASSUME S!TypeOK, [S!Next]_(S!vars), NEW p \in Pids, proc[p] = "draining"
  PROVE  proc'[p] # "serving"
<1> USE DEF S!TypeOK, S!pidLocked, S!Live, S!LiveStates, S!ProcStates
<1>1. ASSUME NEW q \in Pids, S!Start(q) PROVE proc'[p] # "serving"
  BY <1>1 DEF S!Start
<1>2. CASE S!WaitReturns
  BY <1>2 DEF S!WaitReturns
<1>3. ASSUME NEW missed, S!SweepStrays(missed) PROVE proc'[p] # "serving"
  BY <1>3 DEF S!SweepStrays, S!LivePids, S!Strays
<1>9. ASSUME NEW q \in Pids, S!AdoptSuccessor(q) PROVE proc'[p] # "serving"
  BY <1>9 DEF S!AdoptSuccessor, S!LivePids, S!Strays
<1>4. CASE S!Terminate \/ S!KillTimer
  BY <1>4 DEF S!Terminate, S!KillTimer, S!Dead
<1>5. CASE S!Restart \/ S!Upgrade
  BY <1>5 DEF S!Restart, S!Upgrade
<1>6. ASSUME NEW r \in Pids, NEW q \in Pids, S!SpawnSuccessor(r, q)
      PROVE  proc'[p] # "serving"
  BY <1>6 DEF S!SpawnSuccessor
<1>7. ASSUME NEW q \in Pids,
             S!AbortUpgrade(q) \/ S!AbortHandover(q) \/ S!Exit(q)
      PROVE  proc'[p] # "serving"
  BY <1>7 DEF S!AbortUpgrade, S!AbortHandover, S!Exit, S!Dead
<1>8. CASE UNCHANGED proc
  BY <1>8
<1> QED
  BY <1>1, <1>2, <1>3, <1>4, <1>5, <1>6, <1>7, <1>8, <1>9, Zenon
     DEF S!Next, S!RunStep, S!EnvStep, S!vars, S!StartFail, S!StartCancelled,
         S!DelayOver, S!DelayCancelled, S!WaitGivesUp, S!ExitedCancelled,
         S!ExitedUpgrade, S!ExitedCrash, S!SearchFails, S!Resync, S!Cancel,
         S!Reload, S!Tick, S!Terminated

\* A wrapper's step knows the binary of every pooler it leaves running.
LEMMA ExecKnownNext ==
  ASSUME TypeOK, S!TypeOK', ExecKnown, NEW A, Running(A)
  PROVE  ExecKnown'
  BY SpecAssumption
     DEF TypeOK, S!TypeOK, B!TypeOK, ExecKnown, Running, Executes, S!Live,
         S!LiveStates, S!ProcStates

\* As long as the watcher is not about to signal, who serves either served
\* before, was started from the binary on disk, or gave an upgrade up.
LEMMA ServesInstalledNext ==
  ASSUME TypeOK, S!TypeOK', ExecKnown', ServesInstalled, NEW A, Running(A),
         [S!Next]_(S!vars), UNCHANGED runtimeBin, bpc # "signal"
  PROVE  ServesInstalled'
<1> SUFFICES ASSUME NEW p \in Pids, p \notin left', proc'[p] = "serving"
             PROVE  exec'[p] = runtimeBin
  BY DEF ServesInstalled
<1>1. exec'[p] # NilSpec /\ proc'[p] \notin {"free", "zombie"}
  BY DEF ExecKnown, S!Live, S!LiveStates
<1>2. p \notin left /\ proc[p] \notin {"upgrading", "handover"}
  BY <1>1 DEF Running, PassedBy
<1>3. proc[p] # "draining"
  BY ServingStep DEF TypeOK
<1>4. CASE proc[p] = "serving"
  <2>1. exec[p] = runtimeBin
    BY <1>2, <1>4 DEF ServesInstalled, Running
  <2> QED
    BY <1>1, <1>4, <2>1 DEF Running, Executes, S!Live, S!LiveStates
<1>5. CASE ~S!Live(p)
  BY <1>1, <1>5 DEF Running, Executes
<1> QED
  BY <1>2, <1>3, <1>4, <1>5 DEF S!Live, S!LiveStates

\* When the watcher signals no handover is under way: the supervised pooler
\* is the only one, and it begins one.
LEMMA SignalReachesServing ==
  ASSUME S!HandoverFits, SwapInv, ZombieWatched,
         bpc = "signal", S!Upgrade
  PROVE  \A p \in Pids : proc'[p] # "serving"
<1>1. ~S!HandoverUnderWay
  BY QuietMeansNone DEF SwapInv, WorksStale
<1>2. S!pidLocked \in Pids /\ pc \in {"wait", "adopted"}
  BY SupervisorAssumption
     DEF S!Upgrade, S!CanSignal, SwapInv, SP!IInv, SP!TypeOK,
         SP!Unsupervised, SP!StrayUnwatched, ZombieWatched, S!pidLocked,
         SP!pidLocked, SP!LiveStates, SP!ProcStates
<1>3. \A p \in Pids : proc[p] \in SP!LiveStates => p = S!pidLocked
  BY <1>1, <1>2, SupervisorAssumption
     DEF SwapInv, SP!IInv, SP!WatchedLive, S!HandoverUnderWay, S!pidLocked,
         SP!pidLocked
<1> QED
  BY <1>2, <1>3 DEF S!Upgrade, SwapInv, TypeOK, S!TypeOK, SP!LiveStates

\* Upgrade with no process to signal passes by whoever is left.
LEMMA SignalLost ==
  ASSUME TypeOK, ExecKnown', NEW A, Running(A), bpc = "signal",
         bpc' = "idle", ~S!CanSignal
  PROVE  ServesInstalled'
<1> SUFFICES ASSUME NEW p \in Pids, p \notin left', proc'[p] = "serving"
             PROVE  FALSE
  BY DEF ServesInstalled
<1>1. exec'[p] # NilSpec
  BY DEF ExecKnown, S!Live, S!LiveStates
<1> QED
  BY <1>1 DEF Running, PassedBy

\* The parts of InstalledInv that the supervisor's steps can disturb.
LEMMA RunningInstalled ==
  ASSUME S!HandoverFits, SwapInv, SwapInv', InstalledInv,
         Running(RunStep \/ PoolerStep \/ ConfigStep \/ ConfigSignal
                   \/ BinaryStep \/ BinarySignal)
  PROVE  InstalledInv'
<1> USE DEF SwapInv, InstalledInv
<1>n. [S!Next]_(S!vars)
  BY RunningStep
<1>t. S!TypeOK /\ S!TypeOK'
  BY DEF TypeOK
<1>1. ZombieWatched'
  BY <1>n, <1>t, ZombieWatchedNext
<1>2. ExecKnown'
  BY <1>t, ExecKnownNext
<1>3. spc = "run" /\ spc' = "run"
  BY Zenon DEF Running, RunStep, PoolerStep, ConfigStep, ConfigSignal,
               BinaryStep, BinarySignal, main
<1>4. NoneYet'
  BY <1>3 DEF NoneYet
<1>5. ASSUME UNCHANGED runtimeBin, bpc # "signal" PROVE ServesInstalled'
  BY <1>5, <1>n, <1>t, <1>2, ServesInstalledNext
<1>6. ASSUME bpc' = "signal" PROVE ServesInstalled'
  BY <1>6 DEF ServesInstalled
<1>7. CASE RunStep \/ PoolerStep \/ ConfigStep \/ ConfigSignal
  <2>1. UNCHANGED <<runtimeBin, bpc>>
    BY <1>7, Zenon
       DEF RunStep, PoolerStep, ConfigStep, ConfigSignal, binaries
  <2> QED
    BY <2>1, <1>1, <1>2, <1>4, <1>5, <1>6
<1>8. CASE BinaryStep
  <2>1. bpc' = "signal" \/ (UNCHANGED runtimeBin /\ bpc # "signal")
    BY <1>8
       DEF BinaryStep, BinaryCheck, BinaryTest, B!CheckNoDigest,
           B!CheckInstalled, B!CheckDeferred, B!CheckChanged, B!SpecChanged,
           B!Downloads, B!TestPasses, B!CheckFails, B!Swap
  <2> QED
    BY <2>1, <1>1, <1>2, <1>4, <1>5, <1>6
<1>9. CASE BinarySignal
  <2>1. CASE B!UpgradeSucceeds /\ S!Upgrade
    <3>1. \A p \in Pids : proc'[p] # "serving"
      BY <2>1, SignalReachesServing DEF B!UpgradeSucceeds
    <3> QED
      BY <3>1, <1>1, <1>2, <1>4 DEF ServesInstalled
  <2>2. CASE B!UpgradeFails /\ ~S!CanSignal
    <3>1. ServesInstalled'
      BY <2>2, <1>2, SignalLost DEF B!UpgradeFails
    <3> QED
      BY <3>1, <1>1, <1>2, <1>4
  <2> QED
    BY <1>9, <2>1, <2>2 DEF BinarySignal
<1> QED
  BY <1>7, <1>8, <1>9, Zenon DEF Running

LEMMA InstalledInvNext ==
  ASSUME S!HandoverFits, SwapInv, SwapInv', InstalledInv,
         [Next]_vars
  PROVE  InstalledInv'
<1> USE DEF InstalledInv
<1>k. ASSUME UNCHANGED supervisor, UNCHANGED poolers
      PROVE  ZombieWatched' /\ ExecKnown'
  BY <1>k DEF ZombieWatched, ExecKnown, supervisor, poolers, S!pidLocked,
              S!Live
<1>1. CASE StartupStep
  <2>1. UNCHANGED supervisor /\ UNCHANGED poolers
    BY <1>1, Zenon DEF StartupStep
  <2>2. spc # "run"
    BY <1>1, Zenon
       DEF StartupStep, M!EnsureFromImage, M!EnsureLocal, M!EnsureDownload,
           M!EnsureFallback, M!ApplyInitial, M!Revert, M!GiveUp
  <2>3. \A p \in Pids : ~S!Live(p) /\ proc'[p] = proc[p]
    BY <2>1, <2>2 DEF NoneYet, supervisor
  <2>4. NoneYet' /\ ServesInstalled'
    BY <2>3 DEF NoneYet, ServesInstalled, S!Live, S!LiveStates
  <2> QED
    BY <1>k, <2>1, <2>4
<1>2. CASE ContainerRestart
  <2>1. spc' = "binary" /\ \A p \in Pids : proc'[p] = "free"
    BY <1>2 DEF ContainerRestart
  <2> QED
    BY <2>1 DEF ZombieWatched, ExecKnown, NoneYet, ServesInstalled, S!Live,
                S!LiveStates
<1>3. CASE Publish \/ UNCHANGED vars
  <2>1. UNCHANGED supervisor /\ UNCHANGED poolers /\ UNCHANGED <<main, bpc>>
          /\ UNCHANGED runtimeBin
    BY <1>3 DEF Publish, B!PublishSpec, binaries, vars
  <2>2. UNCHANGED <<proc, exec, left, spc>>
    BY <2>1 DEF supervisor, poolers, main
  <2>3. NoneYet' /\ ServesInstalled'
    BY <2>1, <2>2 DEF NoneYet, ServesInstalled, S!Live
  <2> QED
    BY <1>k, <2>1, <2>3
<1> QED
  BY <1>1, <1>2, <1>3, RunningInstalled, Zenon DEF Next

\* Provided that pg_doorman completes a handover within waitDelay plus the
\* search, the supervised pooler runs the binary on disk once check() is
\* through with it, whatever crashed, restarted or was missed by the signal.
THEOREM SupervisedRunsInstalled ==
  S!HandoverFits => (Spec => []RunsInstalled)
<1> SUFFICES ASSUME S!HandoverFits
             PROVE  Spec => []RunsInstalled
  OBVIOUS
<1>1. Init => InstalledInv
  <2> SUFFICES ASSUME Init PROVE InstalledInv
    OBVIOUS
  <2>1. spc = "binary" /\ proc = [p \in Pids |-> "free"]
    BY Zenon DEF Init, S!Init
  <2> QED
    BY <2>1 DEF InstalledInv, ZombieWatched, ExecKnown, NoneYet,
                ServesInstalled, S!Live, S!LiveStates
<1>2. SwapInv /\ SwapInv' /\ InstalledInv /\ [Next]_vars => InstalledInv'
  BY InstalledInvNext
<1>3. InstalledInv => RunsInstalled
  BY DEF InstalledInv, ServesInstalled, RunsInstalled
<1> QED
  BY <1>1, <1>2, <1>3, SwapInvariance, PTL DEF Spec

=============================================================================
