-------------------------- MODULE SupervisorProofs --------------------------
(***************************************************************************)
(* Proofs about Supervisor, for any set of pids and any windows.           *)
(***************************************************************************)
EXTENDS Supervisor, TLAPS

-----------------------------------------------------------------------------
(* Type correctness.                                                       *)

\* The initial state is typed.
LEMMA TypeInit == Init => TypeOK
<1> SUFFICES ASSUME Init PROVE TypeOK
  OBVIOUS
<1>1. /\ subreaper \in BOOLEAN
      /\ ctxDone \in BOOLEAN
      /\ upgradeRequested \in BOOLEAN
      /\ termed \in BOOLEAN
  BY Zenon DEF Init
<1>2. upgradeAge \in 0..MaxAge
  BY WindowAssumption DEF Init
<1> QED
  BY <1>1, <1>2, Zenon DEF Init, TypeOK, ProcStates, LiveStates

\* Every step, including a pid-less signal and a step of pg_doorman,
\* preserves the types.
LEMMA TypeNext == TypeOK /\ [Next]_vars => TypeOK'
<1> SUFFICES ASSUME TypeOK, [Next]_vars PROVE TypeOK'
  OBVIOUS
<1> USE WindowAssumption, HandoverAssumption
    DEF TypeOK, ProcStates, LiveStates, request, setup, pidLocked
<1>1. ASSUME NEW p \in Pids, Start(p) PROVE TypeOK'
  BY <1>1 DEF Start
<1>2. CASE StartFail \/ StartCancelled \/ DelayOver \/ DelayCancelled
  BY <1>2 DEF StartFail, StartCancelled, DelayOver, DelayCancelled
<1>3. CASE WaitReturns \/ WaitGivesUp
  BY <1>3 DEF WaitReturns, WaitGivesUp
<1>4. CASE ExitedCancelled \/ ExitedUpgrade \/ ExitedCrash
  <2>1. upgradeRequested' \in BOOLEAN
    BY <1>4, Zenon DEF ExitedCancelled, ExitedUpgrade, ExitedCrash
  <2> QED
    BY <1>4, <2>1 DEF ExitedCancelled, ExitedUpgrade, ExitedCrash
<1>5. ASSUME NEW q \in Pids, AdoptSuccessor(q) PROVE TypeOK'
  BY <1>5, PidAssumption DEF AdoptSuccessor
<1>6. CASE SearchFails \/ Resync
  BY <1>6 DEF SearchFails, Resync
<1>14. ASSUME NEW missed, SweepStrays(missed) PROVE TypeOK'
  BY <1>14 DEF SweepStrays
<1>7. CASE Cancel \/ Terminate \/ KillTimer
  BY <1>7 DEF Cancel, Terminate, KillTimer, Dead
<1>8. CASE Restart
  BY <1>8 DEF Restart
<1>13. CASE Upgrade
  <2>1. upgradeRequested' \in BOOLEAN
    BY <1>13, Zenon DEF Upgrade
  <2>2. proc' \in [Pids -> ProcStates]
    BY <1>13 DEF Upgrade
  <2>3. upgradeAge' \in 0..MaxAge
    BY <1>13 DEF Upgrade
  <2> QED
    BY <1>13, <2>1, <2>2, <2>3, Zenon DEF Upgrade
<1>9. ASSUME NEW p \in Pids, NEW q \in Pids, SpawnSuccessor(p, q)
      PROVE TypeOK'
  BY <1>9 DEF SpawnSuccessor
<1>10. ASSUME NEW p \in Pids, AbortUpgrade(p) \/ AbortHandover(p) \/ Exit(p)
       PROVE TypeOK'
  BY <1>10 DEF AbortUpgrade, AbortHandover, Exit, Dead
<1>11. CASE Tick
  BY <1>11 DEF Tick
<1>12. CASE Terminated \/ Reload \/ UNCHANGED vars
  BY <1>12 DEF Terminated, Reload, vars
<1> QED
  BY <1>1, <1>2, <1>3, <1>4, <1>5, <1>6, <1>7, <1>8, <1>9, <1>10, <1>11,
     <1>12, <1>13, <1>14 DEF Next, RunStep, EnvStep

\* TypeOK is an invariant of the supervisor.
THEOREM TypeCorrect == Spec => []TypeOK
  BY TypeInit, TypeNext, PTL DEF Spec

-----------------------------------------------------------------------------
(***************************************************************************)
(* The inductive invariant.  SinglePooler is not inductive: it says        *)
(* nothing of who may hold a pid the supervisor remembers, of when a       *)
(* process can still spawn a successor, or of how old the request behind a *)
(* live successor is.  The last is what makes a crash (ExitedCrash)        *)
(* distinguishable from a handover.                                        *)
(***************************************************************************)

\* Nothing runs when a start is next.
NoneLive ==
    pc \in {"start", "delay"} => \A p \in Pids : proc[p] \notin LiveStates

\* While a process is supervised only it and its successor run.
WatchedLive ==
    pc \in {"wait", "adopted"} =>
        \A p \in Pids : proc[p] \in LiveStates => p = pidLocked \/ p = heir

\* Once it exited only the successor is left, unless a shutdown gave up.
HeirAlone ==
    \/ pc \in {"search", "sweep"}
    \/ pc \in {"exited", "done"} /\ (subreaper \/ ~ctxDone)
    => \A p \in Pids : proc[p] \in LiveStates => p = heir

HeirLive == heir # NoPid => heir \in Pids /\ proc[heir] \in LiveStates

\* A successor the wrapper has not met yet is explained by a young request.
HeirFresh ==
    pc \in {"wait", "adopted", "exited"} /\ heir # NoPid =>
        upgradeRequested /\ upgradeAge <= HandoverMax

\* Only the supervised process can be upgrading, on a young request.
UpgradingWatched ==
    \A p \in Pids : proc[p] \in {"upgrading", "handover"} =>
        /\ pc \in {"wait", "adopted"}
        /\ p = pidLocked
        /\ upgradeRequested
        /\ upgradeAge <= HandoverMax

\* A pid remembered after its process was reaped names no live pooler.
Unsupervised ==
    pc \notin {"wait", "adopted", "done"} /\ pidLocked \in Pids =>
        proc[pidLocked] \notin LiveStates

\* What the supervisor remembers is no stray.
StrayUnwatched == pidLocked \in Pids => proc[pidLocked] # "stray"

HeirOther == heir # NoPid => heir # pidLocked

AdoptedAlone == adoptedPid # NoPid => cmd = NoPid

\* A process with a successor is past spawning another one.
HeirExplained ==
    pc \in {"wait", "adopted"} /\ heir # NoPid =>
        proc[pidLocked] \notin {"serving", "upgrading"}

\* The shutdown SIGTERM ends upgrades and is sent on the way out.
TermedDrains ==
    termed =>
        /\ ctxDone
        /\ pc \in {"wait", "exited", "done"}
        /\ pc = "wait" =>
               proc[pidLocked] \notin {"serving", "upgrading", "handover"}

IInv ==
    /\ TypeOK
    /\ NoneLive /\ WatchedLive /\ HeirAlone
    /\ HeirLive /\ HeirFresh /\ UpgradingWatched
    /\ Unsupervised /\ StrayUnwatched /\ HeirOther /\ AdoptedAlone /\ HeirExplained
    /\ TermedDrains

\* The inductive invariant holds initially.
LEMMA IInvInit == Init => IInv
<1> SUFFICES ASSUME Init PROVE IInv
  OBVIOUS
<1>1. TypeOK
  BY TypeInit
<1>2. ~termed
  BY Zenon DEF Init
<1> QED
  BY <1>1, <1>2, PidAssumption
     DEF Init, IInv, NoneLive, WatchedLive, HeirAlone, HeirLive, HeirFresh,
         UpgradingWatched, Unsupervised, HeirOther, AdoptedAlone,
         HeirExplained, TermedDrains, StrayUnwatched, pidLocked, LiveStates

\* Every step preserves it, provided that a handover fits the window.
LEMMA IInvNext ==
  ASSUME HandoverFits
  PROVE  IInv /\ [Next]_vars => IInv'
<1> SUFFICES ASSUME IInv, [Next]_vars PROVE IInv'
  OBVIOUS
<1>t. TypeOK'
  BY TypeNext DEF IInv
<1> USE PidAssumption, WindowAssumption, HandoverAssumption, <1>t
    DEF IInv, TypeOK, NoneLive, WatchedLive, HeirAlone, HeirLive, HeirFresh,
        UpgradingWatched, Unsupervised, HeirOther, AdoptedAlone,
        HeirExplained, TermedDrains, StrayUnwatched, HandoverFits,
        HandoverWindow, ProcStates, LiveStates, request, setup, pidLocked,
        Live, LivePids, Strays
<1>1. ASSUME NEW p \in Pids, Start(p) PROVE IInv'
  BY <1>1 DEF Start
<1>2. CASE StartFail
  BY <1>2 DEF StartFail
<1>3. CASE StartCancelled
  BY <1>3 DEF StartCancelled
<1>4. CASE DelayOver
  BY <1>4 DEF DelayOver
<1>5. CASE DelayCancelled
  BY <1>5 DEF DelayCancelled
<1>6. CASE WaitReturns
  BY <1>6 DEF WaitReturns
<1>7. CASE WaitGivesUp
  BY <1>7 DEF WaitGivesUp
<1>8. CASE ExitedCancelled
  BY <1>8 DEF ExitedCancelled
<1>9. CASE ExitedUpgrade
  BY <1>9 DEF ExitedUpgrade, UpgradeRequestFresh
<1>10. CASE ExitedCrash
  BY <1>10 DEF ExitedCrash, UpgradeRequestFresh
<1>11. ASSUME NEW q \in Pids, AdoptSuccessor(q) PROVE IInv'
  BY <1>11 DEF AdoptSuccessor
<1>12. CASE SearchFails
  BY <1>12 DEF SearchFails
<1>13. ASSUME NEW missed, SweepStrays(missed) PROVE IInv'
  BY <1>13 DEF SweepStrays
<1>14. CASE Resync
  BY <1>14 DEF Resync
<1>15. CASE Cancel
  BY <1>15 DEF Cancel
<1>16. CASE Terminate
  BY <1>16 DEF Terminate
<1>17. CASE KillTimer
  BY <1>17 DEF KillTimer, Dead, ExitsAsZombie
<1>18. CASE Restart
  BY <1>18 DEF Restart
<1>19. CASE Upgrade
  BY <1>19 DEF Upgrade, CanSignal
<1>20. ASSUME NEW p \in Pids, NEW q \in Pids, SpawnSuccessor(p, q) PROVE IInv'
  BY <1>20 DEF SpawnSuccessor
<1>21. ASSUME NEW p \in Pids, AbortUpgrade(p) PROVE IInv'
  BY <1>21 DEF AbortUpgrade
<1>22. ASSUME NEW p \in Pids, AbortHandover(p) PROVE IInv'
  BY <1>22 DEF AbortHandover
<1>23. ASSUME NEW p \in Pids, Exit(p) PROVE IInv'
  BY <1>23 DEF Exit, Dead, ExitsAsZombie
<1>24. CASE Tick
  BY <1>24 DEF Tick, HandoverUnderWay
<1>25. CASE Terminated \/ Reload
  BY <1>25 DEF Terminated, Reload, vars
<1>26. CASE UNCHANGED vars
  BY <1>26 DEF vars
<1> QED
  BY <1>1, <1>2, <1>3, <1>4, <1>5, <1>6, <1>7, <1>8, <1>9, <1>10, <1>11, <1>12, <1>13, <1>14, <1>15, <1>16, <1>17, <1>18, <1>19, <1>20, <1>21, <1>22, <1>23, <1>24, <1>25, <1>26
     DEF Next, RunStep, EnvStep

\* Where a handover fits the window, the inductive invariant holds.
LEMMA IInvariance ==
  ASSUME HandoverFits
  PROVE  Spec => []IInv
  BY IInvInit, IInvNext, PTL DEF Spec

-----------------------------------------------------------------------------
(* What follows from it.                                                   *)

\* The "exactly one supervised pooler" invariant of killStrays holds for
\* every interleaving of restarts, upgrades, crashes and shutdown, provided
\* that pg_doorman completes a handover within waitDelay plus the search.
THEOREM OnePooler ==
  HandoverFits => (Spec => []SinglePooler)
<1> SUFFICES ASSUME HandoverFits
             PROVE  Spec => []SinglePooler
  OBVIOUS
<1>1. IInv => SinglePooler
  BY DEF IInv, NoneLive, WatchedLive, HeirAlone, SinglePooler, LivePids,
         Live
<1> QED
  BY IInvariance, <1>1, PTL

\* With a subreaper, a shutdown leaves no pooler behind other than the
\* successor of a handover it interrupted.
THEOREM ShutdownDrains ==
  HandoverFits => (Spec => []DrainedUnlessHandover)
<1> SUFFICES ASSUME HandoverFits
             PROVE  Spec => []DrainedUnlessHandover
  OBVIOUS
<1>1. IInv => DrainedUnlessHandover
  BY DEF IInv, HeirAlone, DrainedUnlessHandover, LivePids, Live
<1> QED
  BY IInvariance, <1>1, PTL

-----------------------------------------------------------------------------
(* Supervisor implements PoolerContract.                                   *)

\* The initial states are initial states of the contract.
LEMMA ContractInit == Init => Contract!Init
  BY Zenon DEF Init, Contract!Init, LivePids, Live, LiveStates, Strays

\* Every step from a state of the inductive invariant is a step of the
\* contract, or leaves its variables alone.
LEMMA ContractNext == IInv /\ [Next]_vars => [Contract!Next]_(Contract!vars)
<1> SUFFICES ASSUME IInv, [Next]_vars
             PROVE  [Contract!Next]_(Contract!vars)
  OBVIOUS
<1> DEFINE watched == IF pc \in {"wait", "adopted"} THEN pidLocked ELSE NoPid
           Stutter == /\ LivePids' = LivePids
                      /\ Strays' = Strays
                      /\ watched' = watched
                      /\ ctxDone' = ctxDone
<1>s. Stutter => [Contract!Next]_(Contract!vars)
  BY DEF Contract!vars
<1>n. ASSUME \/ \E p \in Pids : \/ Contract!Launch(p) \/ Contract!Spawn(p)
                                \/ Contract!Die(p) \/ Contract!TakeOver(p)
                                \/ Contract!Perish(p) \/ Contract!Mistake(p)
             \/ Contract!Lose \/ Contract!Abandon
             \/ Contract!Sweep \/ Contract!Stop
      PROVE  [Contract!Next]_(Contract!vars)
  BY <1>n, Zenon DEF Contract!Next
<1>d. ASSUME NEW p \in Pids, Contract!Die(p)
      PROVE  [Contract!Next]_(Contract!vars)
  BY <1>d, Zenon DEF Contract!Next
<1> USE PidAssumption
    DEF IInv, TypeOK, ProcStates, LiveStates, request, setup, pidLocked, Live,
        LivePids, Strays
<1>1. ASSUME NEW p \in Pids, Start(p)
      PROVE  [Contract!Next]_(Contract!vars)
  <2>1. LivePids = {} /\ LivePids' = {p} /\ Strays' = Strays
    BY <1>1 DEF Start, NoneLive
  <2>2. Contract!Launch(p)
    BY <1>1, <2>1 DEF Start, NoneLive, Contract!Launch
  <2> QED
    BY <2>1, <2>2, <1>n
<1>2. CASE StartFail
  <2>1. Stutter
    BY <1>2 DEF StartFail
  <2> QED
    BY <2>1, <1>s
<1>3. CASE StartCancelled
  <2>1. Stutter
    BY <1>3 DEF StartCancelled
  <2> QED
    BY <2>1, <1>s
<1>4. CASE DelayOver
  <2>1. Stutter
    BY <1>4 DEF DelayOver
  <2> QED
    BY <2>1, <1>s
<1>5. CASE DelayCancelled
  <2>1. Stutter
    BY <1>5 DEF DelayCancelled
  <2> QED
    BY <2>1, <1>s
<1>6. CASE WaitReturns
  <2>1. /\ LivePids' = LivePids /\ pidLocked \notin LivePids
        /\ Strays' = Strays
    BY <1>6 DEF WaitReturns, WatchedLive, StrayUnwatched
  <2>2. Contract!Lose
    BY <1>6, <2>1 DEF WaitReturns, WatchedLive, Contract!Lose
  <2> QED
    BY <2>1, <2>2, <1>n
<1>7. CASE WaitGivesUp
  <2>1. LivePids' = LivePids /\ Strays' = Strays /\ ctxDone
    BY <1>7 DEF WaitGivesUp, TermedDrains
  <2>2. Contract!Abandon
    BY <1>7, <2>1 DEF WaitGivesUp, TermedDrains, Contract!Abandon
  <2> QED
    BY <2>1, <2>2, <1>n
<1>8. CASE ExitedCancelled
  <2>1. Stutter
    BY <1>8 DEF ExitedCancelled
  <2> QED
    BY <2>1, <1>s
<1>9. CASE ExitedUpgrade
  <2>1. Stutter
    BY <1>9 DEF ExitedUpgrade
  <2> QED
    BY <2>1, <1>s
<1>10. CASE ExitedCrash
  <2>1. Stutter
    BY <1>10 DEF ExitedCrash
  <2> QED
    BY <2>1, <1>s
<1>11. ASSUME NEW q \in Pids, AdoptSuccessor(q)
      PROVE  [Contract!Next]_(Contract!vars)
  <2>1. CASE Live(q)
    <3>1. LivePids' = LivePids /\ LivePids = {q} /\ Strays' = Strays
      BY <1>11, <2>1 DEF AdoptSuccessor, HeirAlone
    <3>2. Contract!TakeOver(q)
      BY <1>11, <3>1 DEF AdoptSuccessor, Contract!TakeOver
    <3> QED
      BY <3>2, <1>n
  <2>2. CASE ~Live(q)
    <3>1. /\ q \in Strays /\ LivePids' = {q}
          /\ Strays' = (Strays \ {q}) \cup LivePids
      BY <1>11, <2>2 DEF AdoptSuccessor
    <3>2. Contract!Mistake(q)
      BY <1>11, <3>1 DEF AdoptSuccessor, Contract!Mistake
    <3> QED
      BY <3>2, <1>n
  <2> QED
    BY <2>1, <2>2
<1>12. CASE SearchFails
  <2>1. Stutter
    BY <1>12 DEF SearchFails
  <2> QED
    BY <2>1, <1>s
<1>13. ASSUME NEW missed, SweepStrays(missed)
       PROVE  [Contract!Next]_(Contract!vars)
  <2>1. LivePids' = {} /\ Strays' \subseteq Strays \cup LivePids
    BY <1>13 DEF SweepStrays
  <2>2. Contract!Sweep
    BY <1>13, <2>1 DEF SweepStrays, Contract!Sweep
  <2> QED
    BY <2>1, <2>2, <1>n
<1>14. CASE Resync
  <2>1. Stutter
    BY <1>14 DEF Resync
  <2> QED
    BY <2>1, <1>s
<1>15. CASE Cancel
  <2>1. LivePids' = LivePids /\ Strays' = Strays
    BY <1>15 DEF Cancel
  <2>2. Contract!Stop
    BY <1>15, <2>1 DEF Cancel, Contract!Stop
  <2> QED
    BY <2>1, <2>2, <1>n
<1>16. CASE Terminate
  <2>1. Stutter
    BY <1>16 DEF Terminate, WatchedLive
  <2> QED
    BY <2>1, <1>s
<1>17. CASE KillTimer
  <2>1. PICK p \in Pids : p = pidLocked
    BY <1>17 DEF KillTimer
  <2>2. p \in LivePids /\ LivePids' = LivePids \ {p} /\ Strays' = Strays
    BY <1>17, <2>1 DEF KillTimer, Dead
  <2>3. Contract!Die(p)
    BY <1>17, <2>2 DEF KillTimer, Contract!Die
  <2> QED
    BY <2>3, <1>d
<1>18. CASE Restart
  <2>1. Stutter
    BY <1>18 DEF Restart
  <2> QED
    BY <2>1, <1>s
<1>19. CASE Upgrade
  <2>1. Stutter
    BY <1>19 DEF Upgrade
  <2> QED
    BY <2>1, <1>s
<1>20. ASSUME NEW p \in Pids, NEW q \in Pids, SpawnSuccessor(p, q)
      PROVE  [Contract!Next]_(Contract!vars)
  <2>1. LivePids = {p} /\ LivePids' = {p, q} /\ p # q /\ Strays' = Strays
    BY <1>20 DEF SpawnSuccessor, UpgradingWatched, WatchedLive, HeirExplained
  <2>2. Contract!Spawn(q)
    BY <1>20, <2>1 DEF SpawnSuccessor, UpgradingWatched, WatchedLive, HeirExplained, Contract!Spawn
  <2> QED
    BY <2>1, <2>2, <1>n
<1>21. ASSUME NEW p \in Pids, AbortUpgrade(p)
      PROVE  [Contract!Next]_(Contract!vars)
  <2>1. Stutter
    BY <1>21 DEF AbortUpgrade
  <2> QED
    BY <2>1, <1>s
<1>22. ASSUME NEW p \in Pids, AbortHandover(p)
      PROVE  [Contract!Next]_(Contract!vars)
  <2>1. CASE heir = NoPid
    <3>1. Stutter
      BY <1>22, <2>1 DEF AbortHandover
    <3> QED
      BY <3>1, <1>s
  <2>2. CASE heir # NoPid
    <3>1. PICK h \in Pids : h = heir
      BY <2>2 DEF HeirLive
    <3>2. /\ h \in LivePids /\ LivePids' = LivePids \ {h}
          /\ Strays' = Strays /\ watched' = watched
      BY <1>22, <2>2, <3>1
         DEF AbortHandover, HeirLive, HeirOther, UpgradingWatched
    <3>3. Contract!Die(h)
      BY <1>22, <3>2 DEF AbortHandover, Contract!Die
    <3> QED
      BY <3>3, <1>d
  <2> QED
    BY <2>1, <2>2
<1>23. ASSUME NEW p \in Pids, Exit(p)
      PROVE  [Contract!Next]_(Contract!vars)
  <2>1. LivePids' = LivePids \ {p} /\ Strays' = Strays \ {p}
    BY <1>23 DEF Exit, Dead
  <2>2. CASE Live(p)
    BY <1>23, <2>1, <2>2, <1>d DEF Exit, Contract!Die
  <2>3. CASE ~Live(p)
    <3>1. Contract!Perish(p)
      BY <1>23, <2>1, <2>3 DEF Exit, Contract!Perish
    <3> QED
      BY <3>1, <1>n
  <2> QED
    BY <2>2, <2>3
<1>24. CASE Tick
  <2>1. Stutter
    BY <1>24 DEF Tick
  <2> QED
    BY <2>1, <1>s
<1>25. CASE Terminated \/ Reload \/ UNCHANGED vars
  <2>1. Stutter
    BY <1>25 DEF Terminated, Reload, vars
  <2> QED
    BY <2>1, <1>s
<1> QED
  BY <1>1, <1>2, <1>3, <1>4, <1>5, <1>6, <1>7, <1>8, <1>9, <1>10, <1>11, <1>12, <1>13, <1>14, <1>15, <1>16, <1>17, <1>18, <1>19, <1>20, <1>21, <1>22, <1>23, <1>24, <1>25
     DEF Next, RunStep, EnvStep

\* The supervisor implements the contract: under any interleaving it launches
\* a pooler only when none runs, lets only the supervised one have a
\* successor, and moves its attention only to the sole survivor.
THEOREM Refinement ==
  HandoverFits => (Spec => ImplementsContract)
<1> SUFFICES ASSUME HandoverFits
             PROVE  Spec => ImplementsContract
  OBVIOUS
<1> QED
  BY IInvariance, ContractInit, ContractNext, PTL
     DEF Spec, ImplementsContract, Contract!Spec

=============================================================================
