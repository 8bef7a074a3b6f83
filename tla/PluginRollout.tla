--------------------------- MODULE PluginRollout ---------------------------
(***************************************************************************)
(* A release of the plugin on its way to the pods: the replicas of the     *)
(* plugin server (cmd/plugin/plugin.go, internal/binaries), of which any   *)
(* one answers a hook or a download and one renders the Secret, composed   *)
(* with admission, the pod lifecycle hook, the Service of the Pre hook, and*)
(* the sidecars that poll the mounted Secret.  During a rolling update, and*)
(* after a rollback, the replicas are of different releases.               *)
(*                                                                         *)
(* Kubernetes and CNPG are external: the Deployment replaces replicas, the *)
(* kubelet mounts the Secret, CNPG creates pods, evaluates them and deletes*)
(* the ones whose spec is not what the hook makes of it now.  A Reconcile, *)
(* a Pre call and a poll are one step here, with the outcomes a poll may   *)
(* have; RenderedSecret and BinaryDelivery have their inside.  A poll that *)
(* fails on its way to the rename changes nothing.  The PgDoorman exists   *)
(* throughout.                                                             *)
(***************************************************************************)
EXTENDS Integers, Sequences

CONSTANTS PluginName, Unset, Bad, None, NoImage
CONSTANTS
    Replicas,    \* the pods of the plugin server
    Pods,        \* the PostgreSQL pods
    Archs,       \* the architectures of the nodes
    Releases,    \* releases of the plugin
    Release,     \* of each: SIDECAR_IMAGE, the binaries, --binary-base-url
    ImageBin,    \* the pg_doorman each sidecar image has, by architecture
    Usable,      \* the binaries that accept the rendered configs, ImageBin's too
    Clusters,    \* what users may submit
    Unchecked,   \* the ones CNPG may store without asking the plugin
    Down, NoLeader, NoSecret, NoService, NoPod, NoBinary, NoDigest, Nothing,
    MaxEvents    \* bound on edits, releases and losses in a behaviour

VARIABLES
    cluster,  \* the Cluster, as stored
    asked,    \* and as its user wrote it
    answers,  \* what replicas with each sidecar image answer for it
    desired,  \* the release the Deployment asks for
    up,       \* the release of each replica, or Down
    leader,   \* the replica that holds the lease
    queued,   \* the leader has the PgDoorman in its queue
    secret,   \* the rendered Secret
    service,  \* the port the pooler Service targets
    pods,
    events

P == INSTANCE PluginConfig
L == INSTANCE PodInjection

ASSUME RolloutAssumption ==
    /\ 1 \in Releases /\ Down \notin Releases
    /\ NoLeader \notin Replicas
    /\ MaxEvents \in Nat
ASSUME ClusterAssumption ==
  /\ Unchecked \subseteq Clusters
  /\ \A c \in Clusters :
        /\ DOMAIN c = {"plugins", "serverTLSSecret"}
        /\ DOMAIN c.plugins \subseteq Nat
        /\ \A i \in DOMAIN c.plugins :
              DOMAIN c.plugins[i] = {"name", "enabled", "parameters"}
ASSUME BadAssumption == Bad \notin {P!DefaultPoolerPort, P!DefaultMetricsPort}

object == <<cluster, asked, answers>>
server == <<desired, up, leader, queued>>
vars == <<object, server, secret, service, pods, events>>

\* What CNPG starts from.
BasePod == [volumes |-> <<[name |-> "pgdata", source |-> "claim"]>>,
            initContainers |-> <<[name |-> "bootstrap"]>>]

Admit(c) == [c EXCEPT !.plugins = P!MutateCluster(@)]

\* How CNPG stores a Cluster (external): it asks the plugin to default and to
\* validate it, or does not consult the plugin and stores it as it is.
Stored(c, image) ==
    (Unchecked \cap {c})
        \cup {d \in {Admit(c)} :
                 P!validateConfig(P!NewFromCluster(d.plugins, image))}
Images == {v.image : v \in {Release[i] : i \in Releases}}

\* The configuration the replicas read from a stored Cluster, whether it is
\* valid, what their hook makes of a new pod, and what a second call, at a
\* replica with another image, makes of that.
Answers(c) ==
    [i \in Images |->
        LET spec == L!lifecycleHook(BasePod, c, i)
        IN  [config |-> P!NewFromCluster(c.plugins, i),
             blocked |-> L!lifecycleHookFails(c, i),
             once |-> spec,
             twice |-> [j \in Images |-> L!lifecycleHook(spec, c, j)]]]

Image(r) == Release[up[r]].image
Config(image) == answers[image].config

\* Mutant: the hook's answer differs from release to release.
EvaluationOfRelease(r) ==
    [answers[Image(r)].once EXCEPT !.volumes =
        Append(@, [name |-> "release", source |-> up[r]])]

\* The answer of one replica to TYPE_EVALUATE.
Evaluation(r) == answers[Image(r)].once

\* loadBinarySpec: nothing to publish without binaries in the image or
\* without a URL for them.
loadBinarySpec(v) ==
    IF DOMAIN Release[v].manifest = {} \/ ~Release[v].baseURL
    THEN NoBinary ELSE Release[v].manifest

\* The digest a binary spec has for an architecture.
Digest(binary, arch) ==
    IF binary = NoBinary THEN NoDigest
    ELSE IF arch \in DOMAIN binary THEN binary[arch] ELSE NoDigest

\* What GET /binaries/{arch} of this replica gives.
Serves(r, arch) ==
    IF up[r] = Down THEN NoDigest ELSE Digest(loadBinarySpec(up[r]), arch)

Running == {r \in Replicas : up[r] # Down}

Init ==
    /\ asked \in Clusters
    /\ cluster \in Stored(asked, Release[1].image)
    /\ answers = Answers(cluster)
    /\ desired = 1
    /\ up = [r \in Replicas |-> 1]
    /\ leader = NoLeader
    /\ queued = FALSE
    /\ secret = NoSecret
    /\ service = NoService
    /\ pods = [p \in Pods |-> NoPod]
    /\ events = 0

Happens == events < MaxEvents /\ events' = events + 1

-----------------------------------------------------------------------------
(* The plugin server.                                                      *)

SetRelease(v) ==
    /\ Happens
    /\ v # desired
    /\ desired' = v
    /\ UNCHANGED <<object, up, leader, queued, secret, service, pods>>

\* Mutant: the lease outlives the replica that held it.
StopKeepingLease(r) ==
    /\ up' = [up EXCEPT ![r] = Down]
    /\ UNCHANGED <<object, desired, leader, queued, secret, service,
                   pods>>

\* A replica stops.  LeaderElectionReleaseOnCancel gives the lease back; one
\* that is lost expires.
Stop(r) ==
    /\ up' = [up EXCEPT ![r] = Down]
    /\ leader' = IF leader = r THEN NoLeader ELSE leader
    /\ queued' = (queued /\ leader # r)
    /\ UNCHANGED <<object, desired, secret, service, pods>>

Replace(r) == up[r] \notin {Down, desired} /\ Stop(r) /\ UNCHANGED events

Crash(r) == up[r] # Down /\ Stop(r) /\ Happens

StartReplica(r) ==
    /\ up[r] = Down
    /\ up' = [up EXCEPT ![r] = desired]
    /\ UNCHANGED <<object, desired, leader, queued, secret, service,
                   pods, events>>

\* The controller starts on the replica that is elected, with a list of all
\* PgDoormans.
Elect(r) ==
    /\ leader = NoLeader
    /\ r \in Running
    /\ leader' = r
    /\ queued' = TRUE
    /\ UNCHANGED <<object, desired, up, secret, service, pods, events>>

\* binarySpecJSON: the key is left out unless the Cluster opted in.
binarySpecJSON(cfg) ==
    IF cfg.inPlaceUpgrades THEN loadBinarySpec(up[leader]) ELSE NoBinary

\* The leader renders what the Cluster asks for; invalid parameters end in
\* the status, without another attempt.
Render ==
    /\ queued
    /\ queued' = FALSE
    /\ LET cfg == Config(Image(leader))
       IN  secret' = IF cfg.enabled /\ P!Validate(cfg)
                     THEN [ports |-> <<cfg.poolerPort, cfg.metricsPort>>,
                           binary |-> binarySpecJSON(cfg)]
                     ELSE secret
    /\ UNCHANGED <<object, desired, up, leader, service, pods, events>>

-----------------------------------------------------------------------------
(* The Cluster and its hooks.                                              *)

\* A user submits a Cluster; mapCluster then wakes the leader for an enabled
\* plugin, whether or not its parameters are valid.
Submit(c, r) ==
    /\ Happens
    /\ r \in Running
    /\ asked' = c
    /\ cluster' \in Stored(c, Image(r)) \ {cluster}
    /\ answers' = Answers(cluster')
    /\ queued' = (queued \/ (leader # NoLeader /\ answers'[Image(r)].config.enabled))
    /\ UNCHANGED <<desired, up, leader, secret, service, pods>>

\* Pre keeps the Service, or cleans up without the plugin; parameters that do
\* not validate hold the reconciliation.
Pre(r) ==
    LET cfg == Config(Image(r))
    IN  /\ r \in Running
        /\ P!validateConfig(cfg)
        /\ service' = IF cfg.enabled THEN cfg.poolerPort ELSE NoService
        /\ secret' = IF cfg.enabled THEN secret ELSE NoSecret
        /\ UNCHANGED <<object, server, pods, events>>

\* CNPG builds a pod spec with one call of the hook and creates the pod with
\* another one, which may reach another replica.
CreatePod(p, arch, r1, r2) ==
    /\ pods[p] = NoPod
    /\ {r1, r2} \subseteq Running
    /\ \A r \in {r1, r2} : ~answers[Image(r)].blocked
    /\ pods' = [pods EXCEPT ![p] =
                   [spec |-> answers[Image(r1)].twice[Image(r2)],
                    arch |-> arch, made |-> cluster, mount |-> NoSecret,
                    ports |-> Nothing, binary |-> Nothing]]
    /\ UNCHANGED <<object, server, secret, service, events>>

\* CNPG evaluates a pod and deletes it if the hook's answer is another one.
Evaluate(p, r) ==
    /\ pods[p] # NoPod
    /\ r \in Running
    /\ ~answers[Image(r)].blocked
    /\ Evaluation(r) # pods[p].spec
    /\ pods' = [pods EXCEPT ![p] = NoPod]
    /\ UNCHANGED <<object, server, secret, service, events>>

LosePod(p) ==
    /\ Happens
    /\ pods[p] # NoPod
    /\ pods' = [pods EXCEPT ![p] = NoPod]
    /\ UNCHANGED <<object, server, secret, service>>

-----------------------------------------------------------------------------
(* The sidecars.                                                           *)

\* The sidecar container of a pod spec, which is the only one with ports.
Sidecars(spec) ==
    {spec.initContainers[i] :
        i \in {j \in DOMAIN spec.initContainers :
                  spec.initContainers[j].name = "pg-doorman"}}
SidecarImages(spec) == {c.image : c \in Sidecars(spec)}
HasSidecar(p) == pods[p] # NoPod /\ Sidecars(pods[p].spec) # {}

\* A Secret that is gone stays mounted as it was.
KubeletSync(p) ==
    /\ HasSidecar(p)
    /\ secret # NoSecret
    /\ pods[p].mount # secret
    /\ pods' = [pods EXCEPT ![p].mount = secret]
    /\ UNCHANGED <<object, server, secret, service, events>>

\* The digest the mounted spec has for this pod.
Wanted(p) == Digest(pods[p].mount.binary, pods[p].arch)

\* The wrapper starts, which the missing mount holds back: it takes the
\* image's binary unless the one it should have is there to download and
\* accepts the config.
Boot(p, r) ==
    /\ HasSidecar(p)
    /\ pods[p].mount # NoSecret
    /\ pods[p].ports = Nothing
    /\ LET image == ImageBin[CHOOSE i \in SidecarImages(pods[p].spec) : TRUE]
           got == IF /\ Serves(r, pods[p].arch) = Wanted(p)
                     /\ Wanted(p) \in Usable
                  THEN Wanted(p) ELSE image[pods[p].arch]
           seed == IF Wanted(p) \in {NoDigest, got} THEN pods[p].mount.binary
                   ELSE Nothing
       IN  pods' = [pods EXCEPT
               ![p].ports = pods[p].mount.ports,
               ![p].binary =
                   [disk |-> got,             \* the file at the runtime path
                    runs |-> got,             \* what the pooler was started from
                    applied |-> seed,         \* BinaryWatcher.lastSpec
                    inFlight |-> FALSE,       \* Process.UpgradeInFlight
                    unsignalled |-> Nothing,  \* disk, if Upgrade() failed after a swap
                    left |-> FALSE]]          \* the pooler was not handed over
    /\ UNCHANGED <<object, server, secret, service, events>>

Booted(p) == HasSidecar(p) /\ pods[p].ports # Nothing

\* The pooler that is started next runs what is on disk.
Restarted(b) == [b EXCEPT !.runs = b.disk, !.left = FALSE]

\* The config watcher applies the mounted config; the pooler port is fixed at
\* process start.
PollConfig(p) ==
    /\ Booted(p)
    /\ pods[p].ports # pods[p].mount.ports
    /\ pods' = [pods EXCEPT
            ![p].ports = pods[p].mount.ports,
            ![p].binary = IF pods[p].ports[1] # pods[p].mount.ports[1]
                          THEN Restarted(@) ELSE @]
    /\ UNCHANGED <<object, server, secret, service, events>>

-----------------------------------------------------------------------------
(* The binary watcher and the pooler.  Each step gives the new state of the*)
(* binary, from the present one, b.                                        *)

SetBinary(p, new) ==
    /\ pods' = [pods EXCEPT ![p].binary = new]
    /\ UNCHANGED <<object, server, secret, service, events>>

\* check() reads a spec other than the last one.
SpecChanged(p, b) == pods[p].mount.binary \notin {NoBinary, b.applied}

\* The spec has no digest for this architecture, or its binary is on disk.
CheckApplied(p, b) ==
    /\ SpecChanged(p, b)
    /\ Wanted(p) \in {NoDigest, b.disk}
    /\ SetBinary(p, [b EXCEPT !.applied = pods[p].mount.binary,
                              !.unsignalled = Nothing])

\* Some replica serves a binary that has the wanted digest and accepts the
\* runtime config; what does not is dropped, and a later poll asks again,
\* maybe elsewhere.
Downloads(p, r) ==
    Serves(r, pods[p].arch) = Wanted(p) /\ Wanted(p) \in Usable

\* SIGUSR2 was delivered: the spec counts as applied.
UpgradeSucceeds(p, b) ==
    SetBinary(p, [b EXCEPT !.applied = pods[p].mount.binary,
                           !.inFlight = TRUE, !.unsignalled = Nothing])

\* There is no process to signal, and lastSpec stays behind the file.  The
\* pooler is started next, or is a successor about to be adopted.
UpgradeFails(p, b) ==
    LET failed == [b EXCEPT !.unsignalled = b.disk]
    IN  \/ SetBinary(p, Restarted(failed))
        \/ SetBinary(p, [failed EXCEPT !.left = TRUE])

\* Mutant: a spec whose binary was not to be had counts as applied.
SwapOnce(p, r, b) ==
    /\ SpecChanged(p, b)
    /\ Wanted(p) \notin {NoDigest, b.disk}
    /\ ~b.inFlight
    /\ LET swapped == [b EXCEPT !.disk = Serves(r, pods[p].arch)]
       IN  IF Downloads(p, r)
           THEN UpgradeSucceeds(p, swapped) \/ UpgradeFails(p, swapped)
           ELSE SetBinary(p, [b EXCEPT !.applied = pods[p].mount.binary])

\* The rename, unless an upgrade is in flight, and the signal.
Swap(p, r, b) ==
    /\ SpecChanged(p, b)
    /\ Wanted(p) \notin {NoDigest, b.disk}
    /\ ~b.inFlight
    /\ Downloads(p, r)
    /\ LET swapped == [b EXCEPT !.disk = Serves(r, pods[p].arch)]
       IN  UpgradeSucceeds(p, swapped) \/ UpgradeFails(p, swapped)

\* The handover ends with the successor, or the pooler gives it up and is
\* not asked again (external).
HandoverEnds(p, b) ==
    /\ b.inFlight
    /\ \/ SetBinary(p, [Restarted(b) EXCEPT !.inFlight = FALSE])
       \/ SetBinary(p, [b EXCEPT !.inFlight = FALSE, !.left = TRUE])

BinaryStep(p, r) ==
    /\ Booted(p)
    /\ LET b == pods[p].binary
       IN  CheckApplied(p, b) \/ Swap(p, r, b) \/ HandoverEnds(p, b)

\* The pooler crashes or is restarted for another reason.
PoolerRestarts(p) ==
    /\ Booted(p)
    /\ pods[p].binary.runs # pods[p].binary.disk
    /\ SetBinary(p, Restarted(pods[p].binary))

-----------------------------------------------------------------------------

ServerStep(r) == Replace(r) \/ StartReplica(r) \/ Elect(r)

PodStep(p) ==
    \/ \E a \in Archs, r1, r2 \in Replicas : CreatePod(p, a, r1, r2)
    \/ \E r \in Replicas : Evaluate(p, r)
    \/ KubeletSync(p)
    \/ \E r \in Replicas : Boot(p, r)
    \/ PollConfig(p)

Next ==
    \/ \E v \in Releases : SetRelease(v)
    \/ \E r \in Replicas : Crash(r) \/ ServerStep(r) \/ Pre(r)
    \/ Render
    \/ \E c \in Clusters, r \in Replicas : Submit(c, r)
    \/ \E p \in Pods : PodStep(p) \/ PoolerRestarts(p) \/ LosePod(p)
    \/ \E p \in Pods, r \in Replicas : BinaryStep(p, r)

Spec == Init /\ [][Next]_vars

\* The Deployment completes its rollout, a leader is elected and works off
\* its queue, CNPG reconciles again and again, the kubelet syncs, the
\* wrappers poll and handovers end.
Fairness ==
    /\ \A r \in Replicas : WF_vars(ServerStep(r))
    /\ WF_vars(Render)
    /\ WF_vars(\E r \in Replicas : Pre(r))
    /\ \A p \in Pods :
          /\ WF_vars(PodStep(p))
          /\ WF_vars(\E r \in Replicas : BinaryStep(p, r))

FairSpec == Spec /\ Fairness

-----------------------------------------------------------------------------
(* Properties.                                                             *)

\* Every variable has its type, and the leader is a replica that runs.
TypeOK ==
    /\ asked \in Clusters /\ cluster \in {asked, Admit(asked)}
    /\ desired \in Releases
    /\ up \in [Replicas -> Releases \cup {Down}]
    /\ leader \in Running \cup {NoLeader}
    /\ queued \in BOOLEAN
    /\ queued => leader # NoLeader
    /\ secret # NoSecret => DOMAIN secret = {"ports", "binary"}
    /\ service \in P!PortRange \cup {NoService}
    /\ events \in 0..MaxEvents

\* SetDefaults writes out what NewFromCluster assumes: the stored Cluster
\* means what its user wrote, whichever of its entries count.
AdmittedAsAsked ==
    P!NewFromCluster(cluster.plugins, NoImage)
        = P!NewFromCluster(asked.plugins, NoImage)

\* "pg_doorman would fail to bind, the native sidecar would crash-loop and
\* the pod never gets Ready": whatever was submitted, defaulted and injected,
\* the ports a pod declares and the ones its pooler binds are free in it.
PortsFree ==
    \A p \in {q \in Pods : HasSidecar(q)} :
        \A ports \in ({c.ports : c \in Sidecars(pods[p].spec)}
                         \cup {pods[p].ports}) \ {Nothing} :
            /\ ports[1] # ports[2]
            /\ \A i \in 1..2 : P!PortFits(ports[i])

\* A pod that went through the hook twice, at replicas of two releases, is
\* what one call of one of them would have made of it: no half of each, and
\* no second sidecar.
OfOneRelease ==
    \A p \in {q \in Pods : pods[q] # NoPod} :
        \E v \in Releases :
            pods[p].spec =
                L!lifecycleHook(BasePod, pods[p].made, Release[v].image)

\* "pick up the new binary without a pod or container restart", with a
\* sidecar image that is kept stable: CNPG deletes a pod only if the Cluster
\* is another one than it was made for, or a replica names another image.
InPlaceKeepsPods ==
    [][\A p \in Pods :
          pods[p] # NoPod /\ pods'[p] = NoPod /\ events' = events =>
              \/ pods[p].made # cluster
              \/ \E r \in Running : Image(r) \notin SidecarImages(pods[p].spec)]_vars

\* The binary of a pod, for a release that has one for its architecture: it is
\* on disk if it accepts the config and runs there.  Excepted are a release
\* the plugin came back to after another one was swapped in without a signal,
\* and a pooler that was not handed over.
BinarySettled(b, spec, wanted) ==
    /\ \/ wanted \in Usable /\ b.disk = wanted
       \/ wanted \notin Usable /\ b.disk # wanted
       \/ b.applied = spec /\ b.disk = b.unsignalled
    /\ b.runs = b.disk \/ b.left

\* What the last edit and the last release ask for is in place everywhere, if
\* it is valid.
Converged ==
    LET cfg == Config(Release[desired].image)
        binary == loadBinarySpec(desired)
    IN  P!validateConfig(cfg) =>
        /\ service = IF cfg.enabled THEN cfg.poolerPort ELSE NoService
        /\ ~cfg.enabled => secret = NoSecret
        /\ \A p \in Pods :
              /\ pods[p] # NoPod
              /\ pods[p].spec = answers[Release[desired].image].once
              /\ cfg.enabled =>
                    pods[p].ports = <<cfg.poolerPort, cfg.metricsPort>>
              /\ cfg.enabled /\ cfg.inPlaceUpgrades
                     /\ Digest(binary, pods[p].arch) # NoDigest =>
                    BinarySettled(pods[p].binary, binary,
                                  Digest(binary, pods[p].arch))

\* After the last edit, release and loss the Service, the pods, the ports
\* their poolers listen on and the binaries they run become and stay what was
\* asked for, with the exceptions BinarySettled names, even though until then
\* old and new replicas answer hooks, serve downloads and get elected in any
\* order, and Clusters may come by that nobody validated.
RolloutSettles == <>[]Converged

=============================================================================
