# cnpg-pg-doorman: TLA+ models, model checking and proofs

cnpg-pg-doorman puts a pg_doorman connection pooler beside every PostgreSQL
instance of a CloudNativePG cluster.  This directory holds TLA+ specifications
of its core, translated from the Go code, the TLC configurations that check
them on small instances, and proofs that TLAPS checks for every value of the
constants.

## 1. Inventory

Two programs: the **plugin server** (one Deployment per Kubernetes cluster)
and the **wrapper**, PID 1 of the sidecar in every PostgreSQL pod.

| Component | State it keeps | Operations | Interacts with |
|---|---|---|---|
| Process supervisor (`wrapper/process.go`, `successor_linux.go`) | `cmd`, `adoptedPid`, `upgradeRequested`, `upgradeRequestedAt` under one mutex; the processes themselves | `RunWithRestart` (start, wait, adopt, sweep, back off), `Restart`, `Reload`, `Upgrade`, shutdown | called by all three watchers' goroutines; signals pg_doorman; scans /proc |
| Config watcher (`filewatcher.go`, `restart.go`) | `lastApplied`, the runtime config file, the `ConfigStale` gauge | `ApplyInitial`, `check`, `materialize` | reads the mounted Secret; runs the pooler binary with `--test-config`; `Process.Restart`/`Reload` |
| Binary watcher (`binarywatcher.go`) | `lastSpec`, the runtime binary, the `BinaryStale` gauge | `Seed`, `check` | reads `binary.json`; downloads; tests against the runtime config; `Process.Upgrade` |
| Role watcher (`rolewatcher.go`) | `lastRole` | `check` | reads the downward-API file; `Process.Restart` |
| Startup (`startup.go`, `binarysync.go`, `cmd/wrapper/main.go`) | the files a previous container left | `EnsureAtStartup`, `ApplyInitialConfig`, `RevertToImage` | seeds the binary watcher, precedes everything else |
| Validator (`validator.go`, `tlskey.go`) | none | `ValidateConfigBytes`, the binary's `--test-config`, key conversion | config watcher, binary watcher, controller |
| Rendering controller (`controller/renderedconfig.go`) | the rendered Secret, the generated Secrets, finalizer, status | `Reconcile`, woken by watches on PgDoormans, Clusters and referenced Secrets | leader-elected; reads an informer cache, writes to the API server |
| Reconcile hooks (`reconciler/`) | Service, legacy RBAC; deletes the rendered Secret | `Pre`, `cleanup` | called by CNPG; races the controller |
| Admission (`operator/`) | none | `MutateCluster`, `ValidateClusterCreate`, `ValidateClusterChange` | called by CNPG at any replica, one call to default, one to validate |
| Pod lifecycle hook (`lifecycle/`) | none | sidecar injection | CNPG's pod creation and evaluation, at any replica |
| Plugin configuration (`config/`) | none | `NewFromCluster`, `Validate`, `SetDefaults` | admission, both hooks, the controller |
| Credentials, config generation, object builders (`credentials/`, `configgen/`, `specs/`) | none | reference defaulting, `ResolvePasswords`, `Generate` | the controller; the Secrets users bring |
| Plugin server, delivery endpoint (`cmd/plugin`, `binaries/`) | the binaries of the image, hashed once | `loadBinarySpec`, leader election, `GET /binaries/{arch}` | every replica answers hooks and downloads, one renders |
| API types, metrics, wiring | none | | |

What is hard here:

- **Handover.** A binary upgrade is a SIGUSR2 after which pg_doorman spawns its
  own successor, migrates clients and exits.  The wrapper cannot tell that exit
  from a crash except by a flag and its age, and must find the successor in
  /proc, or kill it.  Crashes, restarts, reloads, aborts and the pod's own
  shutdown all interleave with it.
- **Four goroutines over two files and one process.**  Two watchers each test a
  candidate against the file the other one replaces; all of them signal a pid
  that may be between two processes.
- **Retry by not remembering.**  Each watcher retries a failed step by leaving
  its `last...` field alone, so what counts as applied after which failure is
  the whole protocol.
- **Restarts that keep files.**  The runtime directory outlives the container.
- **Cached reads in the controller**, with a second writer in the hooks, and
  Secrets that users, the controller and the garbage collector all write.
- **Replicas of several releases.**  Any replica answers a hook or a download
  while another one, maybe older, publishes the digest that is wanted.

What makes each component correct, in one line: the supervisor runs exactly one
supervised pooler and drains it at shutdown; a valid mounted config reaches the
running pooler and an invalid one never reaches the disk; the binary and the
config on disk are always a pair that was tested; a demoted instance loses its
sessions; the gauges tell the truth; the rendered Secret holds the current spec
of the PgDoorman its cluster uses with the passwords its Secrets have now, and
goes away with the plugin; a PgDoorman can be deleted when, and only when, no
cluster uses it; a release of the plugin and an edit of its parameters reach the
Service and every pod, and restart a pod only where they have to.

The hazards, each at its line and with the properties aimed at it, are listed in
`PROJECT.json`.

## 2. Modules

| Module | Models | Used by |
|---|---|---|
| `PoolerContract` | the abstract promise: poolers are launched one at a time, a second one exists only as the successor of the watched one or as a stray that a sweep failed to kill, supervision moves only to the one pooler left or to such a stray | `Supervisor` (refinement) |
| `Supervisor` | `process.go`, `successor_linux.go` | every composition |
| `SupervisorProofs` | theorems about `Supervisor` | |
| `FileWatcher` | `filewatcher.go`, `restart.go` | `ConfigDelivery`, `BinaryDelivery` |
| `ConfigDelivery` | config watcher + supervisor + what each process has read | `MCConfigDelivery` |
| `ConfigDeliveryProofs` | theorems about `ConfigDelivery` | |
| `RoleWatcher` | `rolewatcher.go` | `Demotion` |
| `Demotion` | role watcher + supervisor + client sessions | |
| `DemotionProofs` | theorems about `Demotion` | |
| `BinaryWatcher` | `binarywatcher.go` | `BinaryDelivery` |
| `Startup` | `startup.go`, `binarysync.go`, `main` before the goroutines start | `BinaryDelivery` |
| `BinaryDelivery` | both watchers + startup + supervisor + container restarts + the binary each pooler runs | `MCBinaryDelivery` |
| `BinaryDeliveryProofs` | theorems about `BinaryDelivery` | |
| `Credentials` | `credentials.go`, `authsecrets.go`, `secrets.go`, the passwords of `configgen.go` | `RenderController` |
| `RenderController` | `renderedconfig.go` | `RenderedSecret` |
| `ClusterHooks` | `reconciler.go`, the reference check of `validation.go` | `RenderedSecret` |
| `RenderedSecret` | controller + hooks + API server, informers, users, leader election | `MCRenderedSecret` |
| `RenderedSecretProofs` | theorems about `RenderedSecret`, `RenderController` and `Credentials` | |
| `PluginConfig` | `config.go`, `mutations.go`, `validateConfig` | `PodInjection`, `PluginRollout` |
| `PodInjection` | `lifecycle.go`, `reconcile_pod.go` | `PluginRollout` |
| `PluginRollout` | `plugin.go`, `binaries.go` + admission, lifecycle hook, `Pre`, rendering, sidecars, over replicas of several releases | `MCPluginRollout` |
| `PluginRolloutProofs` | theorems about `PluginConfig`, `PodInjection` and `PluginRollout` | |

How state and actions correspond to the code:

- **Supervisor.** `pc` is the position of the goroutine in `RunWithRestart`,
  one value per point where another goroutine or process can act: `start`,
  `wait` (in `waitCtx`), `exited` (the wait returned), `search`
  (`adoptSuccessor`), `adopted` (before the resync `Reload`), `sweep`, `delay`
  (the backoff select), `done`.  `cmd` keeps the pid of a reaped direct child,
  as `p.cmd` does, so a signal in that interval fails with ESRCH (`CanSignal`).
  `upgradeAge` is the age of `upgradeRequestedAt` in ticks, and
  `HandoverWindow(delay)` is `waitDelay() + successorTimeout`, where `delay` is
  any member of `WaitDelays` at every look at the request, since `waitDelay()`
  reads the runtime config each time.  `proc` and `heir` are the environment:
  what each process does, and which one the supervised process is handing over
  to.  `SweepStrays(missed)` is `killStrays`, which logs nothing of a process it
  cannot see or kill: those in `missed` stay alive as strays, are found by later
  searches and sweeps, and exit when they like.  `termed` says that the
  shutdown's SIGTERM was sent.
- **Watchers.** A `check()` is split at its reads, its test, its rename and its
  signal; `fpc` and `bpc` say how far it got, the locals `data`,
  `needsRestart`, `wanted` carry what it read.  Whether a candidate is accepted
  is decided in the composition, by the file the other watcher owns.
- **Role watcher.** One step: it calls nothing but `Restart`, under its mutex.
  The role changes at any pace; `unseen` are the processes whose time as the
  primary ended before a poll had seen it, for which `check()` finds no demotion.
- **Controller.** `rpc` is the position in one `Reconcile`, one value between
  its reads and each of its API calls: `read`, `checked` (the finalizer is in
  sync), `resolve` (the generated auth Secret was created), `allowed` (the
  Secrets passed `validateSecretOwnership`, and are read again to be resolved),
  `upsert` (rendered, the Secret still to be written), `rendered` (the status
  still to be written).
  `cluster`, `cr`, `secrets` and `rendered` are the objects on the server,
  `cCluster`, `cCr`, `cSecrets` and `cRendered` the leader's caches, of which the
  Secrets' shows only those with the cluster label; `name`, `obj`, `clu` and
  `desired` are the locals.  Patches have no precondition and carry the keys that
  differ from what was read, a status update needs the object that was read, and
  the API server drops an object with its last finalizer.  A failure is one
  action per cause: invalid (`Refuse`), a foreign or just created Secret in the
  way (`AuthSecretExists`), references that may not be used (`SecretNotAllowed`)
  or do not resolve (`RenderRefused`), a failed call (`RenderFails`, `Fails`).
  Another leader starts from caches of its own, each as far behind as the old
  leader's or not behind (`OtherCaches`).  `lagged` and `behind` only record, for
  the properties, that a `Reconcile` began before earlier writes to the rendered
  Secret were in the cache, and that the one under way took the admin password
  from such a cache.
- **Credentials.**  A spec is its pools, with the Secrets they reference or
  leave to the plugin; `DefaultAuthSecretRefs`, `CollectSecretNames`,
  `ResolvePasswords`, `EnsureAdminPassword` and `Generate` are operators of the
  same names.  `mapSecret` asks them which PgDoormans a Secret wakes.
- **Hooks.** `PreDisabled` deletes the Service and `CleanupSecret` the Secret,
  on a Cluster that may have changed in between.  `ValidateClusterChange` admits
  a Cluster whose PgDoorman it cannot read.  `queue` is the workqueue,
  `news` what the informers have yet to deliver; each delivery wakes what
  `SetupWithManager` says it wakes.
- **Plugin configuration and pod.**  `NewFromCluster`, `Validate`,
  `SetDefaults`, `MutateCluster`, `injectSidecar` and `lifecycleHook` are
  operators over records; a parameter that does not parse is the value `Bad`.
- **Rollout.**  `up` is the release each replica runs, `leader` the one that
  renders, `answers` what replicas with each sidecar image make of the Cluster
  (a function of the Cluster, kept so that it is computed once per edit), `pods`
  what CNPG created and what each sidecar has mounted and runs.  Two calls of the
  hook go into one pod (`CreatePod`), and one more into each evaluation.  A
  Cluster in `Unchecked` may be stored as it was written: the e2e test
  `src/test/e2e/internal/tests/pooler/pooler_specs.go:484-507` creates one with
  an invalid `poolerPort` and expects the hooks, not admission, to block it.  The
  `binary` of a pod tells the file (`disk`) from what the pooler was started from
  (`runs`), with `lastSpec` (`applied`) and `UpgradeInFlight` (`inFlight`): after
  the rename the signal may fail, and a handover ends with the successor or is
  given up.  `Usable` are the binaries that pass the config test.
- **Running binaries.**  In `BinaryDelivery`, `exec` is the binary each live
  pooler was started from, and `left` the poolers a swap passed by: see
  `RunsInstalled`.  Three more variables only record what the properties except:
  `outdated` (a test verdict that the other watcher's rename has overtaken),
  `unsignalled` (the binary a `check()` swapped in before its signal failed) and
  `overlooked` (the mount came back to `lastSpec`, so that `check()` returns at
  its first comparison).
- **Compositions** conjoin a watcher's step with the supervisor's (`Signal` is
  `F!SignalSucceeds` with `S!Restart` or `S!Reload`), and add the state that no
  component owns: what each process booted from and last read, who holds
  sessions, which files a container restart leaves.

## 3. Runs

| Run | Checks | Bounds |
|---|---|---|
| `supervisor` | `TypeOK`, `SinglePooler`, `DrainedUnlessHandover`, `ImplementsContract`, `Recovers`, `Stops` | 3 pids, delays of 1 and 2 ticks and 1 for the search, handover within 2, 1 stray |
| `supervisor_slow` (violated) | `SinglePooler` | delay 1, search 1, the handover may take 3 ticks |
| `config` | `TypeOK`, `RuntimeAccepted`, `Delivered`, `GaugeSettles` | 5 configs that only move forward, 2 pids, delays 0 and 1, 2 upgrades |
| `config_republish` (violated) | `GaugeSettles` | configs may come back, no upgrades |
| `demotion` | `TypeOK`, `DrainsOnceDemoted`, `DemotionDropsSessions` | 3 pids, delays 1 and 2, handover within 1, 2 upgrades, none during a demotion; roles change at any pace |
| `demotion_overlap` (violated) | `DemotionDropsSessions` | 3 pids, delay 1, 1 upgrade, at any moment |
| `binary` | `TypeOK`, `TestedPair`, `AppliedIsInstalled`, `RunsInstalled`, `SwapBetweenHandovers`, `BinarySettles` | 2 binaries, 2 configs, 2 pids, 3 changes of the mounts, forward or back, watchers in any order |
| `binary_overlap` (violated) | `AcceptedPair` | the same with 2 changes of the mounts |
| `rendered` | `TypeOK`, `NothingForgotten`, `StatusTrue`, `AdminPasswordStable`, `RenderedInTheEnd`, `DeletionCompletes`, `CleanupCompletes` | 2 PgDoormans, 3 versions, 2 Secrets, 2 events after a steady state |
| `rendered_finalizer` (violated) | `InUseProtected` | 1 PgDoorman, 3 events, `Overlap` |
| `rendered_lag` (violated) | `ObservedIsRendered` | 1 PgDoorman, 2 versions, 5 events |
| `rollout` | `TypeOK`, `AdmittedAsAsked`, `PortsFree`, `OfOneRelease`, `InPlaceKeepsPods`, `RolloutSettles` | 2 replicas, 1 pod, 2 architectures, 3 releases, 13 Clusters of which 2 may be stored unchecked, 2 events |

**Bounds.**  A supervised process, its successor and one more pid are enough for
the supervisor: at most two poolers live at once, and the third tells a fresh
process from either (the proofs remove this bound).  With two delays
the window may shrink and grow while a request is pending, and one tick for the
search keeps the window's two parts apart; one stray is enough to meet a
supervised process and a successor.  The compositions over the watchers use two
pids and windows of 0 or 1 ticks: a handover is then prompt or stale, nothing in
between matters to the watchers.  `Demotion` has a third pid, so that a pooler
started after a handover is neither of the two that shared the sessions.  The five
configs are one of each kind (reloadable change, unparsable, rejected by the
binary, non-reloadable change).  The two binaries are the image's, which knows
only the first config, and one that knows both: enough for a rollback that the
config speaks against, and three changes of the mounts are a new spec, a new
config and a way back.  `MaxUpgrades` only cuts off repetition.
In `RenderedSecret` a behaviour starts with one PgDoorman rendered and another
one unused, and `MaxEvents` bounds edits of PgDoormans, Clusters and Secrets,
leader changes, failing calls and `Reconcile`s that begin with an old rendered
Secret together, because each of them is what the controller has to recover from:
two are enough for any one of them to meet any
other, at every point of the `Reconcile`s, deliveries and hooks that follow the
first.  Version 1 leaves its password to the plugin, version 2 names a Secret of
its own, version 3 is in conflict.  A password is known by the number of events
before it was drawn, so two that are drawn before and after an event differ.
These runs do not check deadlock: a controller that has rendered everything has
nothing to do.  In `PluginRollout` two replicas are enough for every mixture of
two releases, and a release, a rollback and an edit are two of two events; the
releases after the first are one that only brings a binary (and drops an
architecture) and one that changes the sidecar image and whose binary for the
other architecture rejects the config; the Clusters have each kind of valid and
invalid parameters, those included that only a default makes invalid.  Deadlock is
not checked there either: a Cluster nobody validated holds the reconciliation
until somebody edits it.

**Switches.**  Two are left, and each situation they exclude where they are
FALSE is a violation run or a hazard in `PROJECT.json`.  `Overlap` lets, in
`ConfigDelivery`, a change of non-reloadable fields and, in `Demotion`, a
demotion meet a handover (`demotion_overlap`; for the config it is a hazard),
and in `RenderedSecret` a Cluster return to the plugin before the cleanup of the
time without it is over, or to a PgDoorman that is being deleted
(`rendered_finalizer`).  `Republish` lets, in `ConfigDelivery`, a config come
back (`config_republish`).  Everything else happens in the passing runs:
watchers overlap, binaries and specs go back, caches of every kind lag, and
roles flip between polls.  Where a property fails then, it names the exception
and a history variable says exactly when it applies; see below.

**Fairness.**  The supervisor goroutine, the timers and the pollers are weakly
fair: Go schedules a runnable goroutine and a ticker fires.  Actions that the
code tries again after a failure (fork, download, test, rename) are strongly
fair, as the retries are unbounded; nothing says they succeed at the first
attempt.  A `check()` that began ends.  pg_doorman is only assumed to end a
drain it was told to start and a handover one way or the other, which it bounds
by timeouts of its own; in the `supervisor` run not even that, because the
SIGKILL timers suffice.  No crash, upgrade or publication is ever fair.  In
`RenderedSecret` the worker, each informer, the garbage collector and CNPG's
calls of `Pre` are weakly fair, and a waiting request is not passed over for
ever; failures are events and thus finite in number, as "tried again until it
works" needs no more.  In `PluginRollout` the Deployment replaces and restarts
replicas, some replica is elected, CNPG calls `Pre` and creates and evaluates
pods again and again, the kubelet syncs, the wrappers poll and handovers end,
one way or the other: all weakly fair.  A lost leader's lease expires; the
election may take any time.  A download is fair as a whole, not from each
replica: that a replica of the wanted release answers in the end follows from
the completed rollout.

**What the violations show.**

1. `supervisor_slow`.  The wrapper takes an exit for a crash when the upgrade
   request is older than `waitDelay() + successorTimeout`, and then restarts
   without the sweep.  pg_doorman's readiness wait comes on top of the drain,
   and `waitDelay` silently falls back to its default for a `shutdown_timeout`
   such as `60000` or `1d`, which the CRD and the validator allow.  The result
   is the unsupervised second pooler that `killStrays` is there to prevent.
2. `config_republish`.  A config that is rejected and then reverted leaves
   `ConfigStale` at 1, as `check()` returns before it looks at the gauge.
3. `demotion_overlap`.  `Restart` during a handover is spent on the process that
   is leaving; the successor keeps the sessions.  (The same interleaving loses a
   restart for non-reloadable fields; see the hazards.)
4. `binary_overlap`.  A binary rollback and a config change, tested crosswise,
   leave a pair on disk that does not accept each other.
5. `rendered_finalizer`.  The finalizer of a deleted PgDoorman is released for a
   Cluster that was read without it and names it again by now; admission lets a
   Cluster name an object that is being deleted.
6. `rendered_lag`.  A `Reconcile` with an old PgDoorman overwrites a newer
   rendering; the retry finds the newer one in its cache of the Secret, skips the
   write and leaves the old config in place with a status that says otherwise.
   Nothing maps the rendered Secret back to a request.

**What the properties except.**  These behaviours fail what a reader might expect
and have no run of their own; each is a hazard in `PROJECT.json`, and the property
next to it says that nothing else goes wrong.

- `SinglePooler` and `PoolerContract`: a stray, which a sweep did not see or could
  not kill.
- `DrainedUnlessHandover`: the successor of an unfinished handover.  A pod deleted
  at that moment takes it down undrained, since `RunWithRestart` returns once the
  process it waits for is gone.
- `DrainsOnceDemoted`, `DemotionDropsSessions`: sessions of a time as the primary
  that began and ended between two polls (`unseen`).
- `TestedPair`: the last rename acted on a verdict the other watcher had overtaken
  (`outdated`), which is `binary_overlap`.
- `AppliedIsInstalled`, `BinarySettles`, `RolloutSettles`: a binary whose signal
  failed after the rename (`unsignalled`).  `lastSpec` stays behind the file, so
  that after a rollback the mounted spec equals `lastSpec`, `check()` returns at
  once (`overlooked`) and the pod keeps the binary it was to roll back from, or
  `BinaryStale` stays at 1 with the right one.
- `RunsInstalled`, `RolloutSettles`: the poolers in `left`.  One that gives an
  upgrade up goes on with the old binary and is not asked again, since `lastSpec`
  advanced when the signal was delivered; and one that is adopted after a swap
  whose SIGUSR2 found the predecessor gone.  The latter is possible because
  `consumeUpgradeRequest` clears the request before the search for the successor,
  so that `UpgradeInFlight` is false during it; the pod then runs the old binary
  with `BinaryStale` at 0 until the next release.
- `NothingForgotten`, `StatusTrue`, `RenderedInTheEnd`: a `Reconcile` that began
  before an earlier write to the rendered Secret was in its cache (`lagged`),
  which is `rendered_lag`.
- `AdminPasswordStable`: a `Reconcile` whose fallback was read from a cache
  without the server's password (`behind`); its second read, in `upsertSecret`,
  may see the Secret and write another password over the one in use.

Two findings are on passing runs.  `binarywatcher.go:75` returns before the gauge
is looked at, as the config watcher does, so that a spec that changes and changes
back leaves `BinaryStale` at 1 (`BinarySettles` with `overlooked`).  And
`src/README.md:269` and `src/api/v1alpha1/types.go:151` say that the wrapper
generates a random admin password for each pod, while the controller generates one
per Cluster and keeps it in the rendered Secret, as the comment at
`renderedconfig.go:353` and `AdminPasswordStable` say.

## 4. Proofs

Each theorem holds for every value of the constants: any number of pids,
configs, binaries, PgDoormans, Secrets, replicas, pods and events.  TLC checked
every inductive invariant, or the property it is for, on the run's instance
first.

| Module | Theorem | States | If |
|---|---|---|---|
| `SupervisorProofs` | `TypeCorrect` | `[]TypeOK` | |
| | `OnePooler` | `[]SinglePooler` | W |
| | `ShutdownDrains` | `[]DrainedUnlessHandover` | W |
| | `Refinement` | `Spec => Contract!Spec` | W |
| `ConfigDeliveryProofs` | `DeliverySupervises` | `Spec => S!Spec` | |
| | `TypeCorrect` | `[]TypeOK` | |
| | `OnlyAcceptedConfigs` | `[]RuntimeAccepted` | |
| `DemotionProofs` | `DemotionSupervises` | `Spec => S!Spec` | |
| | `TypeCorrect` | `[]TypeOK` | |
| | `DemotionDrains` | `[]DrainsOnceDemoted` | W, `~Overlap` |
| `BinaryDeliveryProofs` | `TypeCorrect` | `[]TypeOK` | |
| | `TestedTogether` | `[]TestedPair` | |
| | `AppliedInstalled` | `[]AppliedIsInstalled` | |
| | `SwapsBetweenHandovers` | `SwapBetweenHandovers` | W |
| | `SupervisedRunsInstalled` | `[]RunsInstalled` | W |
| `RenderedSecretProofs` | `TypeCorrect` | `[]TypeOK` | |
| | `AdminPasswordKept` | `AdminPasswordStable` | |
| | `FinalizersFollowUse` | `[]FinalizersSettled` | |
| | `NoUpdateLost` | `[]NothingForgotten` | `~Overlap` |
| | `StatusTellsTruth` | `[]StatusTrue` | `~Overlap` |
| `PluginRolloutProofs` | `DefaultingKeepsMeaning` | `MutateCluster` changes nothing for `NewFromCluster` | |
| | `HookTwice` | the hook called twice is its second call | |
| | `TypeCorrect` | `[]TypeOK` | |
| | `AdmissionKeepsMeaning` | `[]AdmittedAsAsked` | |
| | `PortsStayFree` | `[]PortsFree` | |
| | `PodsOfOneRelease` | `[]OfOneRelease` | |
| | `ReleasesKeepPods` | `InPlaceKeepsPods` | `NoPodIsNone` |

**Hypotheses.**  W is `HandoverFits`: `HandoverMax <= HandoverWindow(d)` for every
`d` in `WaitDelays`, that is, pg_doorman ends a handover within every window the
wrapper may compute.  It is needed: without it exactly the `ExitedCrash` case of
`OnePooler` fails, which is what `supervisor_slow` exhibits.  `~Overlap` is the
switch of section 3; `demotion_overlap` is the counterexample with it on, and for
`NoUpdateLost` a cleanup that deletes the Secret a returning Cluster has just got.
`NoPodIsNone` says that the value for an absent pod is no pod.

**Assumptions on the constants** are in the modules that declare them, and TLC
evaluates them in every run: the values for "nothing" (`NoPid`, `NoSecret`,
`NoCR`, `NoPassword`...) are not members of the sets they are added to; delays
and bounds are natural numbers; configs that parse or are accepted are configs,
and specs, Clusters and plugin entries have the fields of their types; the
Secrets a spec references have names in `SecretNames`; what is rendered at
first references at most the generated Secret, which is there.

**Supervisor.**  `SinglePooler` is not inductive.  That nothing lives when a
crash leads to a restart depends on the age of the request, which depends on the
successor's existence being explained by a fresh request.  The inductive
invariant `IInv` is `TypeOK` and eleven parts, among them `HeirFresh` (while a
successor exists that the supervisor has not looked for, the request is pending
and no older than `HandoverMax`), `UpgradingWatched` (only the supervised
process hands over), `HeirAlone` and `Unsupervised` (nobody else is alive in
each `pc`), and `TermedDrains` (after the shutdown SIGTERM the supervised
process no longer hands over).  `IInvNext` has one step per action and under it
one per part the action disturbs.  The refinement then follows action by
action: each is a step of the contract or leaves its three variables alone.

**Compositions over the supervisor.**  `DeliverySupervises` and
`DemotionSupervises` say that every step of a composition is a step of
`Supervisor` or leaves its variables alone; the invariants of `SupervisorProofs`
are then cited, not proved again.  `BinaryDelivery` restarts the container, so
there the supervisor's invariant is carried through the restart by hand.

- `RuntimeAccepted` needs that the candidate of a `check()` under way was
  tested (`CandidateTested`) and that every process holds an accepted config
  from its birth on (`Holdings`).
- `DrainsOnceDemoted` is the safety half of `DemotionDropsSessions`: once the
  watcher has acted on a demotion, whoever has sessions is draining.
- `TestedPair` needs that the candidate of either watcher accepts, or is accepted
  by, the other one's file as it is now, until a rename of that file overtakes the
  verdict.  No order of the two watchers is assumed.
- `AppliedIsInstalled` needs that `lastSpec`, once it is a binary, is the one on
  disk or the one there is `unsignalled`, and in which step of `check()` it may
  not be; mounts may go back and forth.
- `RunsInstalled` needs `SwapInv` (no swap during a handover, since a handover
  in flight is a fresh request) and `InstalledInv`: the binary of every live
  pooler is known, and a serving one that neither runs what is on disk nor is in
  `left` is one `check()` is still to signal.

**Rendered Secret.**  `NothingForgotten` speaks of quiescent states only; the
invariant says why every other state leads there.  `ChangesTold`: a cache that
differs from the server has the change on its way.  `ReadInv`: what the
`Reconcile` under way has read is what cache and server have, or a request for
it waits; a read Cluster that the cache has replaced has woken both PgDoormans
(which is why `mapCluster` has to be called for the old and the new object).
`FinalizerKept`, `RenderKept` and `RefusedKept`: the finalizer, the rendering
and the refusal are right, or the object waits, or it is being reconciled, or a
Secret it references is on its way.  `DesiredRight` and `WrittenRight` carry the
rendering from `Render` to the status update.  Every return without a requeue is
shown to be `Settled`; the others wake themselves.  The finalizers need no
hypothesis.  `AllowedRight` says that what passed `validateSecretOwnership` is
still allowed at the second read or that a request waits.  For the Secret,
`RenderedKnown` holds until a `Reconcile` has `lagged` (an unwritten one knows the
rendered Secret, so that a skipped write is one already done) and `~Overlap` gives
`CleanupOff` and `NoneCached` (no cleanup deletes the
Secret of a Cluster that uses the plugin).  `HoldsStays` is the lemma that a
Secret something was rendered from is visible to the informer, so that no
change of it goes unnoticed.  `AdminPasswordStable` rests on `AdminInv` alone:
what is to be written carries the server's password unless the fallback was read
`behind` it, and no one else writes another one in between.

**Plugin configuration and rollout.**  `DefaultingKeepsMeaning` and `HookTwice`
are about the operators alone: the first rests on `DefaultsAdd` (what
`SetDefaults` writes is what an absent parameter stands for), the second on
`EnsureReplaces` and `EnsurePlaces` (an entry is replaced where it stands, in a
list of any length).  `RolloutInv` adds to the type that every pod is what the
hook makes of the base pod for the Cluster it was made for at the image of some
release, and that the ports in the rendered Secret passed `Validate`.

**Only model-checked:** the liveness properties (`Recovers`, `Stops`, `Delivered`,
`GaugeSettles`, `DemotionDropsSessions`, `BinarySettles`, `RenderedInTheEnd`,
`DeletionCompletes`, `CleanupCompletes`, `RolloutSettles`), since the prover
handles neither fairness nor ENABLED.  Every invariant and every action property
of a passing run has a theorem.

## 5. Abstractions and what is left out

- pg_doorman is external: it may exit at any time, obeys SIGTERM some time
  later, and on SIGUSR2 spawns a successor or aborts.  A successor starts from
  its predecessor's config or the file; the code's comments promise no more.
- Time is counted only while an upgrade request is pending.  Backoff lengths,
  drain lengths and poll periods are arbitrary.
- A config is a number with three attributes: it parses, a binary accepts it,
  its non-reloadable fields.  A binary is its digest.
- The compositions leave out the shutdown path, a missing subreaper and strays,
  all covered by `Supervisor` alone.
- Pid reuse is not modelled, nor is the SIGKILL delay of a direct child, which
  `Start` computes once.
- The TLS key is not state: nothing in the wrapper looks at it but `materialize`
  and `ApplyInitial`, so a rotated key waits for the next config change or
  container restart.
- `RenderedSecret` has one namespace with one Cluster and PgDoormans that belong
  to it.  `Pre` reads PgDoormans from the leader's cache and acts on the Cluster
  as it is; only its cleanup may outlive a change.  The plugin's parameters and
  the binary spec are part of a version there, although they come with the
  Cluster and change no generation; `PluginRollout` has them as state, with
  `Reconcile`, `Pre` and a poll of the wrapper as one step each.  The legacy
  Role and RoleBinding, which nothing creates, are left out.  A rendered Secret
  is deleted by the cleanup and the garbage collector only; users write and
  delete the other Secrets, the generated one too.
- The ownership check and `ResolvePasswords` read the Secrets one after the
  other; each of the two is one read of the cache, and what the cache gets
  between them is modelled.
- The username in the generated Secret, which nothing reads, and the generated
  Secret that stays after a cleanup (the Cluster owns it) are no properties.
- `CollectSecretVersions` is called by nothing.  The defaults of pool fields
  (`ApplyDefaults`) and the checks of single config fields are functions of one
  spec with no state; they stand in the version of a spec and in `Parsable`.
- HTTP, TLS, YAML, PEM and the construction of Kubernetes objects beyond the
  fields named above are not modelled: a download, a render or a conversion
  succeeds with the value it should have, or fails.

## 6. Plan

Done: the wrapper's supervisor, its three watchers, its startup and the binaries
its poolers run; the rendering controller with the credentials it resolves, the
reconcile hooks and admission; the plugin's parameters, the pod lifecycle hook,
and releases of the plugin over several replicas; theorems for all safety
properties of the passing runs.  Next, in this order:

1. Lemmas that carry what is proved of `Supervisor` further: `SinglePooler` and
   the contract for the three compositions.
2. The step properties behind the liveness results that need no fairness: what a
   requeue or a retry never undoes.
3. The duration syntax the three parsers accept (CRD pattern,
   `validateDuration`, `time.ParseDuration`), against each other.
