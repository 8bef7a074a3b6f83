--------------------------- MODULE BinaryDelivery ---------------------------
(***************************************************************************)
(* How a binary reaches the pod: BinaryWatcher composed with Startup,      *)
(* FileWatcher and Supervisor.  The two watchers test a candidate against  *)
(* what the other one has on disk, and the container may restart at any    *)
(* moment, keeping the runtime files.                                      *)
(*                                                                         *)
(* The shutdown path is left out (no Cancel), orphans reparent to the      *)
(* wrapper and a sweep kills what it finds.  The mounts may change to any  *)
(* spec and any config, earlier ones included, at any moment.              *)
(***************************************************************************)
EXTENDS Integers, FiniteSets

CONSTANTS Pids, NoPid, WaitDelays, SuccessorTimeout, HandoverMax, MaxAge
CONSTANTS Configs, Parsable, Fixed
CONSTANTS Bins, NoSpec, BadSpec, NoDigest, NilSpec, ImageBin
CONSTANT Accepts(_, _)  \* Accepts(b, c): binary b passes --test-config on c
CONSTANT MaxMounts      \* bound on the changes of the mounts in a behaviour

ASSUME ImageAssumption == Parsable \subseteq Configs /\ ImageBin \in Bins
ASSUME SpecAssumption ==
    Bins \subseteq Nat /\ {NoSpec, BadSpec, NoDigest, NilSpec} \cap Bins = {}
ASSUME SupervisorAssumption ==
    /\ NoPid \notin Pids
    /\ WaitDelays \subseteq Nat /\ SuccessorTimeout \in Nat
    /\ MaxAge \in Nat /\ \A d \in WaitDelays : d + SuccessorTimeout < MaxAge
    /\ HandoverMax \in Nat
ASSUME BoundAssumption == MaxMounts \in Nat

VARIABLES pc, subreaper, ctxDone, cmd, adoptedPid, upgradeRequested,
          upgradeAge, termed, proc, heir
VARIABLES source, runtimeCfg, lastApplied, configStale, fpc, data,
          needsRestart
VARIABLES spec, runtimeBin, lastSpec, binaryStale, bpc, wanted
VARIABLES spc, seed
VARIABLES
    exec,    \* the binary each live pooler was started from, else NilSpec
    left     \* the live poolers that runtimeBin passed by: see PassedBy
VARIABLES
    outdated,    \* the test verdicts a later rename has overtaken: see Outdated
    unsignalled, \* the binary a check() installed without a signal, else NilSpec
    overlooked   \* the mount came back to lastSpec: check() returns at once
VARIABLE mounts  \* how often the mounts have changed

S == INSTANCE Supervisor WITH MaxStrays <- 0
F == INSTANCE FileWatcher
B == INSTANCE BinaryWatcher
M == INSTANCE Startup

supervisor == <<pc, subreaper, ctxDone, cmd, adoptedPid, upgradeRequested,
                upgradeAge, termed, proc, heir>>
configs == <<source, runtimeCfg, lastApplied, configStale, fpc, data,
             needsRestart>>
binaries == <<spec, runtimeBin, lastSpec, binaryStale, bpc, wanted>>
main == <<spc, seed>>
poolers == <<exec, left>>
history == <<outdated, unsignalled, overlooked>>
vars == <<supervisor, configs, binaries, main, poolers, history, mounts>>

\* A fresh pod: the runtime directory is empty, which the startup sync never
\* observes in a way that differs from finding the image's binary there; the
\* config files count from ApplyInitial on.
Init ==
    /\ S!Init
    /\ subreaper = TRUE
    /\ F!Init
    /\ spec \in B!Specs
    /\ runtimeBin = ImageBin
    /\ lastSpec = NilSpec
    /\ binaryStale = FALSE
    /\ bpc = "idle"
    /\ wanted = ImageBin
    /\ spc = "binary"
    /\ seed = NilSpec
    /\ exec = [p \in Pids |-> NilSpec]
    /\ left = {}
    /\ outdated = {}
    /\ unsignalled = NilSpec
    /\ overlooked = FALSE
    /\ mounts = 0

-----------------------------------------------------------------------------
(* Startup and container restarts.                                         *)

\* BinaryWatcher.Seed follows ApplyInitialConfig at once.
StartupStep ==
    /\ \/ M!EnsureFromImage \/ M!EnsureLocal \/ M!EnsureDownload
       \/ M!EnsureFallback
       \/ M!ApplyInitial /\ Accepts(runtimeBin, source)
       \/ M!Revert \/ M!GiveUp
    /\ lastSpec' = IF spc' = "run" THEN seed' ELSE lastSpec
    /\ UNCHANGED <<supervisor, configStale, fpc, data, needsRestart, bpc,
                   wanted, poolers, history, mounts>>

\* The wrapper dies with everything it runs; the files stay.  lastApplied is
\* nil until ApplyInitial sets it, and nothing reads it before.
ContainerRestart ==
    /\ spc # "binary"
    /\ spc' = "binary"
    /\ pc' = "start"
    /\ cmd' = NoPid
    /\ adoptedPid' = NoPid
    /\ upgradeRequested' = FALSE
    /\ upgradeAge' = 0
    /\ proc' = [p \in Pids |-> "free"]
    /\ heir' = NoPid
    /\ lastApplied' = runtimeCfg
    /\ configStale' = FALSE
    /\ fpc' = "idle"
    /\ needsRestart' = FALSE
    /\ lastSpec' = NilSpec
    /\ binaryStale' = FALSE
    /\ bpc' = "idle"
    /\ seed' = NilSpec
    /\ exec' = [p \in Pids |-> NilSpec]
    /\ left' = {}
    /\ outdated' = {}
    /\ unsignalled' = NilSpec
    /\ overlooked' = FALSE
    /\ UNCHANGED <<subreaper, ctxDone, termed, source, runtimeCfg, data, spec,
                   runtimeBin, wanted, mounts>>

-----------------------------------------------------------------------------
(* The watchers: two goroutines that know nothing of each other.           *)

ConfigStep ==
    /\ \/ F!CheckInvalid
       \/ F!CheckChanged
       \/ F!TestPasses /\ Accepts(runtimeBin, data)
       \/ F!MaterializeFails
       \/ F!Rename
    /\ UNCHANGED <<supervisor, binaries, main>>

ConfigSignal ==
    /\ \/ /\ F!SignalSucceeds
          /\ IF needsRestart THEN S!Restart ELSE S!Reload
       \/ F!SignalFails /\ ~S!CanSignal /\ UNCHANGED supervisor
    /\ UNCHANGED <<binaries, main>>

\* Mutant: the watcher swaps the binary and sends no SIGUSR2.
BinarySignalLost ==
    /\ B!UpgradeSucceeds \/ B!UpgradeFails
    /\ UNCHANGED <<supervisor, configs, main>>

\* Mutant: the upgrade in flight is not looked at.
BinaryCheckAlways == B!CheckChanged

\* check() starts a download unless an upgrade is in flight.
BinaryCheck ==
    \/ B!CheckDeferred /\ \E delay \in WaitDelays : S!UpgradeRequestFresh(delay)
    \/ B!CheckChanged /\ \E delay \in WaitDelays : ~S!UpgradeRequestFresh(delay)

\* Mutant: the new binary is not tested against the runtime config.
BinaryTestSkipped == B!TestPasses

BinaryTest == B!TestPasses /\ Accepts(wanted, runtimeCfg)

BinaryStep ==
    /\ \/ B!CheckNoDigest
       \/ B!CheckInstalled
       \/ BinaryCheck
       \/ B!Downloads
       \/ BinaryTest
       \/ B!CheckFails
       \/ B!Swap
    /\ UNCHANGED <<supervisor, configs, main>>

BinarySignal ==
    /\ \/ B!UpgradeSucceeds /\ S!Upgrade
       \/ B!UpgradeFails /\ ~S!CanSignal /\ UNCHANGED supervisor
    /\ UNCHANGED <<configs, main>>

\* A pooler runs what the runtime path held when it was started, by the
\* supervisor or by its predecessor (external).
Executes(p) ==
    IF proc'[p] \notin S!LiveStates THEN NilSpec
    ELSE IF S!Live(p) THEN exec[p]
    ELSE runtimeBin

\* The pooler was to hand over and gives the upgrade up, or Upgrade found no
\* process to signal while p, a successor, waits to be adopted.  Either way
\* the next check() finds the binary installed and asks no more.
PassedBy(p) ==
    \/ proc[p] \in {"upgrading", "handover"} /\ proc'[p] = "serving"
    \/ bpc = "signal" /\ bpc' = "idle" /\ ~S!CanSignal

\* Each watcher tests its candidate with the file the other one has on disk
\* and renames it later.  A verdict is overtaken when that file is replaced in
\* between; the verdict on the pair on disk is that of the last rename.
Outdated(verdict) ==
    \/ /\ verdict = "config"
       /\ fpc' = "rename"
       /\ verdict \in outdated \/ runtimeBin' # runtimeBin
    \/ /\ verdict = "binary"
       /\ bpc' = "swap"
       /\ verdict \in outdated \/ runtimeCfg' # runtimeCfg
    \/ /\ verdict = "pair"
       /\ \/ runtimeCfg' # runtimeCfg /\ "config" \in outdated
          \/ runtimeBin' # runtimeBin /\ "binary" \in outdated
          \/ UNCHANGED <<runtimeCfg, runtimeBin>> /\ verdict \in outdated

\* Upgrade failed after the swap and left lastSpec where it was.
Unsignalled ==
    IF lastSpec' # lastSpec THEN NilSpec
    ELSE IF bpc = "signal" /\ bpc' = "idle" THEN runtimeBin
    ELSE unsignalled

\* A step of the running wrapper, and what it means for the poolers.
Running(A) ==
    /\ spc = "run"
    /\ A
    /\ exec' = [p \in Pids |-> Executes(p)]
    /\ left' = {p \in Pids : exec'[p] # NilSpec /\ (p \in left \/ PassedBy(p))}
    /\ outdated' = {v \in {"config", "binary", "pair"} : Outdated(v)}
    /\ unsignalled' = Unsignalled
    /\ overlooked' = (overlooked /\ lastSpec' = lastSpec)
    /\ mounts' = mounts

Publish ==
    /\ mounts < MaxMounts
    /\ mounts' = mounts + 1
    /\ \/ /\ \E c \in Configs \ {source} : F!Publish(c)
          /\ UNCHANGED <<binaries, overlooked>>
       \/ /\ \E s \in B!Specs \ {spec} : B!PublishSpec(s)
          /\ overlooked' = (spec' = lastSpec)
          /\ UNCHANGED configs
    /\ UNCHANGED <<supervisor, main, poolers, outdated, unsignalled>>

-----------------------------------------------------------------------------

RunStep ==
    /\ \/ \E p \in Pids : S!Start(p)
       \/ S!StartFail \/ S!DelayOver \/ S!WaitReturns
       \/ S!ExitedUpgrade \/ S!ExitedCrash
       \/ \E q \in S!LivePids : S!AdoptSuccessor(q)
       \/ S!SearchFails \/ S!SweepStrays({}) \/ S!Resync
    /\ UNCHANGED <<configs, binaries, main>>

PoolerStep == S!EnvStep /\ UNCHANGED <<configs, binaries, main>>

Next ==
    \/ StartupStep
    \/ Running(RunStep \/ PoolerStep \/ ConfigStep \/ ConfigSignal
                 \/ BinaryStep \/ BinarySignal)
    \/ ContainerRestart
    \/ Publish

Spec == Init /\ [][Next]_vars

\* Time passes and pg_doorman ends a handover one way or the other.
HandoverEnds ==
    /\ \/ S!Tick
       \/ \E p \in Pids : S!AbortUpgrade(p) \/ S!AbortHandover(p)
    /\ UNCHANGED <<configs, binaries, main>>

\* The goroutines run and time passes; a check() that began ends, and what is
\* tried again and again (a poll, a download, a test, a rename) succeeds in
\* the end.
Fairness ==
    /\ WF_vars(Running(RunStep))
    /\ WF_vars(Running(HandoverEnds))
    /\ WF_vars(Running(ConfigStep \/ ConfigSignal))
    /\ WF_vars(Running(BinaryStep /\ bpc # "idle"))
    /\ SF_vars(Running(BinaryStep /\ (B!CheckInstalled \/ BinaryCheck)))
    /\ SF_vars(Running(BinaryStep /\ B!Downloads))
    /\ SF_vars(Running(BinaryStep /\ BinaryTest))
    /\ SF_vars(Running(BinaryStep /\ B!Swap))
    /\ WF_vars(Running(BinarySignal))

FairSpec == Spec /\ Fairness

-----------------------------------------------------------------------------
(* Properties.                                                             *)

HistoryTypeOK ==
    /\ outdated \subseteq {"config", "binary", "pair"}
    /\ unsignalled \in Bins \cup {NilSpec}
    /\ overlooked \in BOOLEAN
    /\ mounts \in 0..MaxMounts

\* Every variable has its type; in particular check() never tries to download
\* or install what an absent, unparsable or foreign spec says.
TypeOK ==
    /\ S!TypeOK /\ F!TypeOK /\ B!TypeOK
    /\ spc \in {"binary", "config", "retry", "run"}
    /\ seed \in B!Specs \cup {NilSpec}
    /\ exec \in [Pids -> Bins \cup {NilSpec}]
    /\ left \subseteq {p \in Pids : S!Live(p)}
    /\ HistoryTypeOK

\* "a rejected file on disk would crash-loop any later restart": the binary
\* and the config on disk accept each other.
AcceptedPair == spc = "run" => Accepts(runtimeBin, runtimeCfg)

\* What the code does for AcceptedPair: through startup, fallback, revert,
\* container restarts and any interleaving of the two watchers the pair on
\* disk was tested as a pair, unless the last rename acted on a verdict that
\* the other watcher's rename had overtaken.
TestedPair == AcceptedPair \/ "pair" \in outdated

\* A spec that counts as applied is the binary on disk, whichever of the
\* download, the test, the rename and the startup failed on the way.
\* Excepted is a binary that was swapped in without a signal: the failed
\* Upgrade left lastSpec behind, and a rollback to that spec looks applied.
AppliedIsInstalled ==
    spc = "run" /\ bpc = "idle" /\ spec = lastSpec /\ spec \in Bins =>
        runtimeBin \in {spec, unsignalled}

\* Once check() is through with a swap the supervised pooler that serves runs
\* the binary on disk: it was started from it or took the handover, whatever
\* crash, restart or failed signal came in between.  Excepted are a pooler
\* that gave the upgrade up itself and one adopted after the swap, whose
\* predecessor was gone when SIGUSR2 was sent: nothing asks these again.
RunsInstalled ==
    \A p \in Pids \ left :
        spc = "run" /\ bpc # "signal" /\ p = S!pidLocked /\ proc[p] = "serving" =>
            exec[p] = runtimeBin

\* "A nil seed makes the watcher treat the mounted spec as new on its first
\* tick and retry it, instead of leaving the pod stale": a spec that stays
\* mounted, for a binary no config speaks against, ends up installed and the
\* gauge at 0, through failed downloads, tests and renames, reverts, upgrades
\* in flight and rollbacks.  Excepted is a mount that comes back to lastSpec
\* while a newer one was being worked on: the gauge may stay at 1, and so may
\* a binary that was swapped in without a signal.
BinarySettles ==
    \A b \in Bins : (\A c \in Configs : Accepts(b, c)) =>
        (<>[](spec = b /\ spc = "run") =>
            <>[](IF overlooked THEN runtimeBin \in {b, unsignalled}
                 ELSE runtimeBin = b /\ ~binaryStale))

\* "replacing argv[0] mid-migration would leave the successor executing a
\* binary nobody validated": argv[0] changes only between two handovers.
SwapBetweenHandovers ==
    [][spc = "run" /\ runtimeBin' # runtimeBin => ~S!HandoverUnderWay]_vars

=============================================================================
