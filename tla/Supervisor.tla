------------------------------ MODULE Supervisor ------------------------------
(***************************************************************************)
(* The process supervisor of the sidecar (internal/wrapper/process.go and  *)
(* successor_linux.go): RunWithRestart starts pg_doorman, waits for it,    *)
(* adopts the successor a binary upgrade left behind, and restarts it with *)
(* a backoff otherwise.  Restart and Upgrade are called by the watchers'   *)
(* goroutines at any moment; Cancel is the SIGTERM the kubelet sends.      *)
(*                                                                         *)
(* pg_doorman itself is external.  It is modelled from how process.go uses *)
(* it: it may exit at any time, drains after SIGTERM, and on SIGUSR2       *)
(* spawns a successor (its own child until it exits) or aborts.            *)
(*                                                                         *)
(* Simplifications:                                                        *)
(*  - Time is counted in ticks, and only while an upgrade request is       *)
(*    pending; backoff delays and drains take any time.                    *)
(*  - fork and exec are one step.  A dead process that nobody waits for is *)
(*    "free" at once: only the supervised pid can be seen as a zombie.     *)
(*  - The pid the /proc scans exclude (oldPid, and the wrapper's own) never*)
(*    names a live pooler when they run, so the exclusion is left out.     *)
(***************************************************************************)
EXTENDS Integers, FiniteSets

CONSTANTS
    Pids,              \* process ids pg_doorman may get
    NoPid,             \* 0 and nil in the code
    WaitDelays,        \* what waitDelay() may compute, in ticks
    SuccessorTimeout,  \* successorSearchTimeout, in ticks
    HandoverMax,       \* longest time from SIGUSR2 to the exit the wrapper sees
    MaxAge,            \* bound on the age of a request: stale for any window
    MaxStrays          \* bound on the poolers a sweep fails to kill

ASSUME PidAssumption == NoPid \notin Pids
ASSUME WindowAssumption ==
    /\ WaitDelays \subseteq Nat
    /\ SuccessorTimeout \in Nat
    /\ MaxAge \in Nat
    /\ \A d \in WaitDelays : d + SuccessorTimeout < MaxAge
ASSUME HandoverAssumption == HandoverMax \in Nat
ASSUME StrayAssumption == MaxStrays \in Nat

VARIABLES
    pc,                \* where RunWithRestart is
    subreaper,         \* orphans reparent to the wrapper, set once at startup
    ctxDone,           \* the wrapper's context is cancelled
    cmd,               \* pid of Process.cmd, kept after the child is reaped
    adoptedPid,        \* Process.adoptedPid
    upgradeRequested,  \* Process.upgradeRequested
    upgradeAge,        \* ticks since Process.upgradeRequestedAt
    termed,            \* the shutdown SIGTERM was sent, its SIGKILL timer armed
    proc,              \* external: what each pid is doing
    heir               \* external: the successor of the supervised process

vars == <<pc, subreaper, ctxDone, cmd, adoptedPid, upgradeRequested,
          upgradeAge, termed, proc, heir>>

setup == <<subreaper, ctxDone>>
request == <<upgradeRequested, upgradeAge>>

-----------------------------------------------------------------------------
(* Process states.  A pooler is live from its start to its exit.  A stray  *)
(* is one that a sweep found no way to kill: it serves, unsupervised.      *)

LiveStates == {"serving", "upgrading", "handover", "draining"}
ProcStates == LiveStates \cup {"stray", "free", "zombie"}

Live(p) == p \in Pids /\ proc[p] \in LiveStates
LivePids == {p \in Pids : Live(p)}
Strays == {p \in Pids : proc[p] = "stray"}

\* The whole handover window: a request older than this is stale.  waitDelay
\* reads the runtime config at each call, so the delay may differ from one
\* look at the same request to the next.
HandoverWindow(delay) == delay + SuccessorTimeout

\* Process.pidLocked: the adopted successor, else the last started child.
pidLocked == IF adoptedPid # NoPid THEN adoptedPid ELSE cmd

\* Process.signalLocked succeeds: kill(2) finds the pid.  A zombie accepts
\* signals without effect, a reaped child's pid gives ESRCH.
CanSignal == pidLocked # NoPid /\ proc[pidLocked] # "free"

\* Process.upgradeRequestFreshLocked
UpgradeRequestFresh(delay) ==
    upgradeRequested /\ upgradeAge <= HandoverWindow(delay)

\* The supervised pid is waited for, so its exit leaves a zombie.  Without
\* a subreaper only the direct child is ours (wait4 gives ECHILD).
ExitsAsZombie(p) ==
    /\ pc \in {"wait", "adopted"}
    /\ p = pidLocked
    /\ adoptedPid # p \/ subreaper

\* The state of a pid after its process died.
Dead(p) == IF ExitsAsZombie(p) THEN "zombie" ELSE "free"

Init ==
    /\ pc = "start"
    /\ subreaper \in BOOLEAN  \* SetChildSubreaper only logs a failure
    /\ ctxDone = FALSE
    /\ cmd = NoPid
    /\ adoptedPid = NoPid
    /\ upgradeRequested = FALSE
    /\ upgradeAge = 0
    /\ termed = FALSE
    /\ proc = [p \in Pids |-> "free"]
    /\ heir = NoPid

-----------------------------------------------------------------------------
(* RunWithRestart, one action per step between two points where other      *)
(* goroutines or processes can act.                                        *)

\* Process.Start succeeds: a new direct child, adoptedPid forgotten.
Start(p) ==
    /\ pc = "start"
    /\ ~ctxDone
    /\ proc[p] = "free"
    /\ proc' = [proc EXCEPT ![p] = "serving"]
    /\ cmd' = p
    /\ adoptedPid' = NoPid
    /\ pc' = "wait"
    /\ UNCHANGED <<setup, request, termed, heir>>

\* Mutant: a failed start goes on to the wait.
StartFailWaits ==
    /\ pc = "start"
    /\ ~ctxDone
    /\ cmd' = NoPid
    /\ adoptedPid' = NoPid
    /\ pc' = "wait"
    /\ UNCHANGED <<setup, request, termed, proc, heir>>

\* Process.Start fails to fork or exec: cmd has no process, retry after the
\* backoff.
StartFail ==
    /\ pc = "start"
    /\ ~ctxDone
    /\ cmd' = NoPid
    /\ adoptedPid' = NoPid
    /\ pc' = "delay"
    /\ UNCHANGED <<setup, request, termed, proc, heir>>

\* exec.Cmd refuses to start under a cancelled context.
StartCancelled ==
    /\ pc = "start"
    /\ ctxDone
    /\ cmd' = NoPid
    /\ adoptedPid' = NoPid
    /\ pc' = "done"
    /\ UNCHANGED <<setup, request, termed, proc, heir>>

\* Both backoff selects: the timer fires, or the context is done.
DelayOver ==
    /\ pc = "delay"
    /\ pc' = "start"
    /\ UNCHANGED <<setup, cmd, adoptedPid, request, termed, proc, heir>>

DelayCancelled ==
    /\ pc = "delay"
    /\ ctxDone
    /\ pc' = "done"
    /\ UNCHANGED <<setup, cmd, adoptedPid, request, termed, proc, heir>>

\* Mutant: ECHILD for the adopted process is reported as its exit.
WaitReturnsOnEchild ==
    /\ pc = "wait"
    /\ ~Live(pidLocked) \/ (adoptedPid # NoPid /\ ~subreaper)
    /\ proc' = IF Live(pidLocked) THEN proc
               ELSE [proc EXCEPT ![pidLocked] = "free"]
    /\ adoptedPid' = NoPid
    /\ pc' = "exited"
    /\ UNCHANGED <<setup, cmd, request, termed, heir>>

\* Mutant: cancellation cuts the wait short.
WaitReturnsOnCancel ==
    /\ pc = "wait"
    /\ ~Live(pidLocked) \/ ctxDone
    /\ proc' = IF Live(pidLocked) THEN proc
               ELSE [proc EXCEPT ![pidLocked] = "free"]
    /\ adoptedPid' = NoPid
    /\ pc' = "exited"
    /\ UNCHANGED <<setup, cmd, request, termed, heir>>

\* waitCtx returns once the supervised process is gone: cmd.Wait and wait4
\* reap a zombie, waitUntilGone polls a pid that is not our child.  The
\* adopted pid is forgotten, the pid of a reaped direct child is not.
WaitReturns ==
    /\ pc = "wait"
    /\ ~Live(pidLocked)
    /\ proc' = [proc EXCEPT ![pidLocked] = "free"]
    /\ adoptedPid' = NoPid
    /\ pc' = "exited"
    /\ UNCHANGED <<setup, cmd, request, termed, heir>>

\* waitUntilGone gives up on a process that outlives its drain.
WaitGivesUp ==
    /\ pc = "wait"
    /\ ~subreaper
    /\ adoptedPid # NoPid
    /\ termed
    /\ adoptedPid' = NoPid
    /\ pc' = "exited"
    /\ UNCHANGED <<setup, cmd, request, termed, proc, heir>>

\* After the wait: shutdown wins over everything else.
ExitedCancelled ==
    /\ pc = "exited"
    /\ ctxDone
    /\ pc' = "done"
    /\ UNCHANGED <<setup, cmd, adoptedPid, request, termed, proc, heir>>

\* consumeUpgradeRequest returns true: the exit may be a handover.
ExitedUpgrade ==
    /\ pc = "exited"
    /\ ~ctxDone
    /\ \E delay \in WaitDelays : UpgradeRequestFresh(delay)
    /\ upgradeRequested' = FALSE
    /\ upgradeAge' = 0
    /\ pc' = "search"
    /\ UNCHANGED <<setup, cmd, adoptedPid, termed, proc, heir>>

\* consumeUpgradeRequest returns false: no request, or a stale one that is
\* dropped.  The exit is a crash, nothing is swept.
ExitedCrash ==
    /\ pc = "exited"
    /\ ~ctxDone
    /\ \E delay \in WaitDelays : ~UpgradeRequestFresh(delay)
    /\ upgradeRequested' = FALSE
    /\ upgradeAge' = 0
    /\ pc' = "delay"
    /\ UNCHANGED <<setup, cmd, adoptedPid, termed, proc, heir>>

\* adoptSuccessor: findSuccessorPid returned q, some process that runs the
\* pooler binary.  If that is a stray, the successor takes its place.
AdoptSuccessor(q) ==
    /\ pc = "search"
    /\ q \in LivePids \cup Strays
    /\ proc' = IF Live(q) THEN proc
               ELSE [p \in Pids |-> IF p = q THEN "serving"
                                    ELSE IF Live(p) THEN "stray" ELSE proc[p]]
    /\ cmd' = NoPid
    /\ adoptedPid' = q
    /\ heir' = NoPid
    /\ pc' = "adopted"
    /\ UNCHANGED <<setup, request, termed>>

\* Mutant: a failed handover goes straight to the restart, without the sweep.
SearchFailsNoSweep ==
    /\ pc = "search"
    /\ pc' = "delay"
    /\ UNCHANGED <<setup, cmd, adoptedPid, request, termed, proc, heir>>

\* Mutant: the search has no deadline.
SearchFailsOnCancel ==
    /\ pc = "search"
    /\ ctxDone
    /\ pc' = "sweep"
    /\ UNCHANGED <<setup, cmd, adoptedPid, request, termed, proc, heir>>

\* adoptSuccessor returns false: the deadline passed, or the context is done.
\* A scan may miss a live successor (unreadable /proc entry, empty cmdline).
SearchFails ==
    /\ pc = "search"
    /\ pc' = "sweep"
    /\ UNCHANGED <<setup, cmd, adoptedPid, request, termed, proc, heir>>

\* sweepStrays: SIGKILL every process that runs the pooler binary.  A failed
\* scan of /proc, an entry it cannot read or a failed kill is not even
\* logged: missed are the poolers it leaves alive.
SweepStrays(missed) ==
    /\ pc = "sweep"
    /\ missed \subseteq LivePids \cup Strays
    /\ Cardinality(missed) <= MaxStrays
    /\ proc' = [p \in Pids |-> IF p \in missed THEN "stray"
                               ELSE IF p \in LivePids \cup Strays THEN "free"
                               ELSE proc[p]]
    /\ heir' = NoPid
    /\ pc' = "delay"
    /\ UNCHANGED <<setup, cmd, adoptedPid, request, termed>>

\* The post-handover Reload, whose failure is only logged, and the return to
\* the wait.
Resync ==
    /\ pc = "adopted"
    /\ pc' = "wait"
    /\ UNCHANGED <<setup, cmd, adoptedPid, request, termed, proc, heir>>

-----------------------------------------------------------------------------
(* Shutdown.                                                               *)

\* signal.NotifyContext cancels the context on SIGTERM or SIGINT.
Cancel ==
    /\ ~ctxDone
    /\ ctxDone' = TRUE
    /\ UNCHANGED <<pc, subreaper, cmd, adoptedPid, request, termed, proc, heir>>

\* cmd.Cancel of the direct child, or terminateIfAdopted: SIGTERM to the
\* supervised process, then a timer of waitDelay for the SIGKILL.
Terminate ==
    /\ pc = "wait"
    /\ ctxDone
    /\ ~termed
    /\ termed' = TRUE
    /\ proc' = IF Live(pidLocked)
               THEN [proc EXCEPT ![pidLocked] = "draining"]
               ELSE proc
    /\ UNCHANGED <<pc, setup, cmd, adoptedPid, request, heir>>

\* Mutant: the adopted process gets no SIGKILL, as exec.Cmd does not know it.
KillTimerDirectOnly ==
    /\ pc = "wait"
    /\ termed
    /\ adoptedPid = NoPid
    /\ Live(pidLocked)
    /\ proc' = [proc EXCEPT ![pidLocked] = Dead(pidLocked)]
    /\ UNCHANGED <<pc, setup, cmd, adoptedPid, request, termed, heir>>

\* WaitDelay of exec.Cmd, or killAdopted from the timer: SIGKILL.
KillTimer ==
    /\ pc = "wait"
    /\ termed
    /\ Live(pidLocked)
    /\ proc' = [proc EXCEPT ![pidLocked] = Dead(pidLocked)]
    /\ UNCHANGED <<pc, setup, cmd, adoptedPid, request, termed, heir>>

-----------------------------------------------------------------------------
(* Calls from the watchers.                                                *)

\* Mutant: Restart forgets the adopted process before its exit was seen.
RestartForgets ==
    /\ pc # "done"
    /\ CanSignal
    /\ proc' = IF Live(pidLocked)
               THEN [proc EXCEPT ![pidLocked] = "draining"]
               ELSE proc
    /\ adoptedPid' = NoPid
    /\ UNCHANGED <<pc, setup, cmd, request, termed, heir>>

\* Process.Restart: SIGTERM, pg_doorman drains and exits.  A zombie takes the
\* signal without effect.
Restart ==
    /\ pc # "done"
    /\ CanSignal
    /\ proc' = IF Live(pidLocked)
               THEN [proc EXCEPT ![pidLocked] = "draining"]
               ELSE proc
    /\ UNCHANGED <<pc, setup, cmd, adoptedPid, request, termed, heir>>

\* Process.Reload: SIGHUP, which changes nothing that is modelled here.
Reload ==
    /\ pc # "done"
    /\ CanSignal
    /\ UNCHANGED vars

\* Process.Upgrade: SIGUSR2, then the request is recorded under the same
\* lock.  Its only caller does not call it while UpgradeInFlight.  A process
\* that is draining or already dead takes the signal without effect.
Upgrade ==
    /\ pc # "done"
    /\ \E delay \in WaitDelays : ~UpgradeRequestFresh(delay)
    /\ CanSignal
    /\ proc' = IF proc[pidLocked] = "serving"
               THEN [proc EXCEPT ![pidLocked] = "upgrading"]
               ELSE proc
    /\ upgradeRequested' = TRUE
    /\ upgradeAge' = 0
    /\ UNCHANGED <<pc, setup, cmd, adoptedPid, termed, heir>>

-----------------------------------------------------------------------------
(* The environment: pg_doorman and the clock.                              *)

\* pg_doorman accepted its argv[0] and spawned the successor q.
SpawnSuccessor(p, q) ==
    /\ proc[p] = "upgrading"
    /\ proc[q] = "free"
    /\ proc' = [proc EXCEPT ![p] = "handover", ![q] = "serving"]
    /\ heir' = q
    /\ UNCHANGED <<pc, setup, cmd, adoptedPid, request, termed>>

\* pg_doorman gave up before it spawned anything and goes on serving.
AbortUpgrade(p) ==
    /\ proc[p] = "upgrading"
    /\ proc' = [proc EXCEPT ![p] = "serving"]
    /\ UNCHANGED <<pc, setup, cmd, adoptedPid, request, termed, heir>>

\* The successor never became ready: pg_doorman drops it and goes on.
AbortHandover(p) ==
    /\ proc[p] = "handover"
    /\ proc' = [q \in Pids |-> IF q = p THEN "serving"
                               ELSE IF q = heir THEN "free" ELSE proc[q]]
    /\ heir' = NoPid
    /\ UNCHANGED <<pc, setup, cmd, adoptedPid, request, termed>>

\* A process exits: a crash, the end of a drain or of a handover.
Exit(p) ==
    /\ p \in LivePids \cup Strays
    /\ proc' = [proc EXCEPT ![p] = Dead(p)]
    /\ heir' = IF p = heir THEN NoPid ELSE heir
    /\ UNCHANGED <<pc, setup, cmd, adoptedPid, request, termed>>

\* A handover the wrapper has not yet looked at is under way.
HandoverUnderWay ==
    \/ \E p \in Pids : proc[p] \in {"upgrading", "handover"}
    \/ heir # NoPid /\ pc \in {"wait", "adopted", "exited"}

\* Time passes; pg_doorman completes or aborts a handover within HandoverMax,
\* and an exit is looked at as soon as the wait returns.
Tick ==
    /\ upgradeRequested
    /\ pc # "exited"
    /\ upgradeAge < MaxAge
    /\ HandoverUnderWay => upgradeAge < HandoverMax
    /\ upgradeAge' = upgradeAge + 1
    /\ UNCHANGED <<pc, setup, cmd, adoptedPid, upgradeRequested, termed,
                   proc, heir>>

\* main returned.
Terminated == pc = "done" /\ UNCHANGED vars

-----------------------------------------------------------------------------

RunStep ==
    \/ \E p \in Pids : Start(p)
    \/ StartFail \/ StartCancelled
    \/ DelayOver \/ DelayCancelled
    \/ WaitReturns \/ WaitGivesUp
    \/ ExitedCancelled \/ ExitedUpgrade \/ ExitedCrash
    \/ \E q \in Pids : AdoptSuccessor(q)
    \/ SearchFails \/ Resync
    \/ \E missed \in SUBSET (LivePids \cup Strays) : SweepStrays(missed)

EnvStep ==
    \/ \E p, q \in Pids : SpawnSuccessor(p, q)
    \/ \E p \in Pids : AbortUpgrade(p) \/ AbortHandover(p) \/ Exit(p)
    \/ Tick

Next ==
    \/ RunStep
    \/ Cancel \/ Terminate \/ KillTimer
    \/ Restart \/ Reload \/ Upgrade
    \/ EnvStep
    \/ Terminated

Spec == Init /\ [][Next]_vars

\* The supervisor goroutine and the shutdown timers run when they can, and a
\* fork that is tried again and again succeeds.
Fairness ==
    /\ WF_vars(RunStep)
    /\ WF_vars(Terminate)
    /\ WF_vars(KillTimer)
    /\ SF_vars(\E p \in Pids : Start(p))

FairSpec == Spec /\ Fairness

-----------------------------------------------------------------------------
(* Properties.                                                             *)

\* pg_doorman ends a handover within every window the wrapper may compute.
HandoverFits == \A delay \in WaitDelays : HandoverMax <= HandoverWindow(delay)

\* Every variable has its type, and RunWithRestart waits for a process only
\* when it has one: waitCtx is never called without a pid.
TypeOK ==
    /\ pc \in {"start", "delay", "wait", "exited", "search", "adopted",
               "sweep", "done"}
    /\ subreaper \in BOOLEAN
    /\ ctxDone \in BOOLEAN
    /\ cmd \in Pids \cup {NoPid}
    /\ adoptedPid \in Pids \cup {NoPid}
    /\ upgradeRequested \in BOOLEAN
    /\ upgradeAge \in 0..MaxAge
    /\ termed \in BOOLEAN
    /\ proc \in [Pids -> ProcStates]
    /\ heir \in Pids \cup {NoPid}
    /\ pc \in {"wait", "adopted"} => pidLocked \in Pids

\* The "exactly one supervised pooler" invariant killStrays speaks of: when
\* RunWithRestart is about to start pg_doorman nothing else runs the pooler
\* binary, and while it waits only the supervised process and the successor
\* that process is handing over to do.  Strays, which a sweep has looked for
\* and not killed, are the exception.  (A shutdown that gave up on a process
\* that is not our child is on its way out of the loop.)
SinglePooler ==
    /\ pc \in {"start", "delay"} => LivePids = {}
    /\ pc \in {"wait", "adopted"} => LivePids \subseteq {pidLocked, heir}
    /\ pc \in {"search", "sweep"} => LivePids \subseteq {heir}
    /\ pc = "exited" /\ (subreaper \/ ~ctxDone) => LivePids \subseteq {heir}

\* main waits "until RunWithRestart observes the process exit", so that exiting
\* kills no pooler undrained: with a subreaper only the successor of an
\* unfinished handover, which RunWithRestart does not look for once the
\* context is done, can be left behind by a shutdown (besides strays).
DrainedUnlessHandover == pc = "done" /\ subreaper => LivePids \subseteq {heir}

\* The promise of Contract: one pooler is launched at a time, a second one
\* exists only as the successor of the supervised one, supervision moves to a
\* successor only once it is the only pooler left, and what else serves was
\* left alive by a sweep.
Contract == INSTANCE PoolerContract WITH
    live <- LivePids,
    strays <- Strays,
    watched <- IF pc \in {"wait", "adopted"} THEN pidLocked ELSE NoPid,
    stopping <- ctxDone

ImplementsContract == Contract!Spec

\* Unless the wrapper is shutting down, a pooler runs again and again: no
\* order of crashes, aborted upgrades and lost successors ends supervision.
Recovers == []<>(ctxDone \/ LivePids # {})

\* A cancelled wrapper terminates, whatever pg_doorman does with SIGTERM.
Stops == ctxDone ~> pc = "done"

=============================================================================
