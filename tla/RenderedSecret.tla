--------------------------- MODULE RenderedSecret ---------------------------
(***************************************************************************)
(* The life of the rendered Secret: RenderController composed with         *)
(* ClusterHooks, the API server and its informers (external), and the      *)
(* users who edit PgDoorman and Cluster objects.                           *)
(*                                                                         *)
(* Overlap: the Cluster may go back to the plugin before the cleanup of the*)
(* time without it is over and has reached the leader's cache, and to a    *)
(* PgDoorman that is being deleted.                                        *)
(***************************************************************************)
EXTENDS RenderController

CONSTANTS
    Initial,    \* the PgDoorman there is at first
    Puts,       \* Secrets users write, as pairs of a name and a content
    MaxEvents,  \* bound on edits, elections, failing calls and Reconciles
                \* that begin with an old rendered Secret, in a behaviour
    Overlap

ASSUME VersionAssumption ==
    /\ Versions \subseteq Nat \ {0} /\ 1 \in Versions
    /\ Valid \subseteq Versions
ASSUME NameAssumption ==
    /\ Initial \in Names
    /\ ({NoName, Off, NoCluster, "cluster"} \cup SecretNames) \cap Names = {}
    /\ Generated \in SecretNames /\ "cluster" \notin SecretNames
ASSUME BoundAssumption == MaxEvents \in Nat /\ 0..MaxEvents \subseteq Passwords
ASSUME PutAssumption == Puts \subseteq SecretNames \X (Secrets \cup {NoSecret})
ASSUME SpecAssumption ==
    /\ \A v \in Versions : DOMAIN Specs[v] = {"pools", "adminRef"}
    /\ \A x \in Written \cup References : x[2].secret \in SecretNames
\* What there is at first can be rendered with the generated Secret alone.
ASSUME InitialAssumption ==
    /\ 1 \in Renderable
    /\ \A r \in RefsOf(1) : r.secret = Generated /\ 1 \in Generating
ASSUME AbsentAssumption ==
    /\ NoSecret \notin Secrets \cup RenderedSecrets /\ NoCR \notin CRs
    /\ NoPassword \notin Passwords

VARIABLES service, hpc
VARIABLES
    news,     \* objects whose last change an informer has yet to deliver
    version   \* the version of the last edit of any PgDoorman
VARIABLES     \* what the properties distinguish
    lagged,   \* a Reconcile began before earlier writes to the rendered
              \* Secret were in the cache
    behind    \* the Reconcile under way took the fallback of the admin password
              \* from a cache that did not have the one of the server

H == INSTANCE ClusterHooks

hooks == <<service, hpc>>
users == <<version, events>>
history == <<lagged, behind>>
vars == <<cluster, cr, secrets, rendered, caches, worker, hooks, news, users,
          history>>

NewCR(v) ==
    [spec |-> v, deleting |-> FALSE, finalizer |-> FALSE, status |-> "none",
     at |-> 0, observed |-> 0]

\* A Cluster with a PgDoorman that is rendered, maybe just now for the first
\* time, and others it does not use.
Init ==
    /\ cluster = Initial
    /\ cr = [n \in Names |->
                IF n = Initial
                THEN [NewCR(1) EXCEPT !.finalizer = TRUE, !.status = "True",
                                      !.at = 1, !.observed = 1]
                ELSE NewCR(1)]
    /\ secrets = [s \in SecretNames |->
                     IF s = Generated /\ 1 \in Generating
                     THEN [label |-> "own", password |-> 0, owned |-> TRUE]
                     ELSE NoSecret]
    /\ rendered = [config |-> Rendering(1, secrets, 0), admin |-> 0]
    /\ cCluster = cluster
    /\ cCr = cr
    /\ cSecrets = secrets
    /\ cRendered \in {rendered, NoSecret}
    /\ queue = {} /\ WorkerIdle
    /\ service = TRUE
    /\ hpc = "idle"
    /\ news = {}
    /\ version = 1
    /\ events = 0
    /\ lagged = FALSE /\ behind = FALSE

Happens == events < MaxEvents /\ events' = events + 1

-----------------------------------------------------------------------------
(* The API server's side.                                                  *)

\* An informer delivers the newest PgDoorman, For(&PgDoorman{}) enqueues it.
SyncCr(n) ==
    /\ n \in news
    /\ news' = news \ {n}
    /\ cCr' = [cCr EXCEPT ![n] = cr[n]]
    /\ queue' = queue \cup {n}
    /\ UNCHANGED <<cCluster, cSecrets, cRendered>>

\* Mutant: only the PgDoorman the Cluster names now is enqueued.
SyncClusterNewOnly ==
    /\ "cluster" \in news
    /\ news' = news \ {"cluster"}
    /\ cCluster' = cluster
    /\ queue' = queue \cup ({cluster} \cap Names)
    /\ UNCHANGED <<cCr, cSecrets, cRendered>>

\* mapCluster, which an update calls for the old and for the new object.
SyncCluster ==
    /\ "cluster" \in news
    /\ news' = news \ {"cluster"}
    /\ cCluster' = cluster
    /\ queue' = queue \cup ({cCluster, cluster} \cap Names)
    /\ UNCHANGED <<cCr, cSecrets, cRendered>>

\* The PgDoormans with a reference to the Secret.
Referring(s, references) ==
    {n \in Names : cCr[n] # NoCR /\
        \E x \in references : x[1] = cCr[n].spec /\ x[2].secret = s}

\* Mutant: mapSecret looks at the references as they were written.
mapSecretWritten(s) == Referring(s, Written)

\* mapSecret looks at the references with the defaults, or as they were written
\* if the spec is in conflict.
mapSecret(s) == Referring(s, Written \cup References)

\* The one informer for Secrets catches up, with the rendered Secret, which no
\* PgDoorman references, and the others.
SyncSecrets ==
    /\ news \cap SecretNames # {} \/ cRendered # rendered
    /\ news' = news \ SecretNames
    /\ cSecrets' = Cached(secrets)
    /\ cRendered' = rendered
    /\ queue' = queue \cup UNION {mapSecret(s) : s \in news \cap SecretNames}
    /\ UNCHANGED <<cCluster, cCr>>

Deliver(informer) ==
    /\ informer
    /\ UNCHANGED <<cluster, cr, secrets, rendered, rpc, name, obj, clu, desired,
                   hooks, users, history>>

Sync ==
    \/ \E n \in Names : Deliver(SyncCr(n))
    \/ Deliver(SyncCluster)
    \/ Deliver(SyncSecrets)

Owned == {s \in SecretNames : secrets[s] # NoSecret /\ secrets[s].owned}

\* What the Cluster owned is collected after its deletion.
CollectGarbage ==
    /\ cluster = NoCluster
    /\ rendered # NoSecret \/ service \/ Owned # {}
    /\ rendered' = NoSecret
    /\ service' = FALSE
    /\ secrets' = [s \in SecretNames |->
                      IF s \in Owned THEN NoSecret ELSE secrets[s]]
    /\ UNCHANGED <<cluster, cr, caches, worker, hpc, users, history>>

\* The caches of another replica, some of them as far behind as the leader's.
OtherCaches(late) ==
    /\ cCluster' = IF "cluster" \in late THEN cCluster ELSE cluster
    /\ cCr' = [n \in Names |-> IF n \in late THEN cCr[n] ELSE cr[n]]
    /\ IF "secrets" \in late
       THEN UNCHANGED <<cSecrets, cRendered>>
       ELSE cSecrets' = Cached(secrets) /\ cRendered' = rendered
    /\ news' = {x \in news : x \in late \/ (x \in SecretNames /\ "secrets" \in late)}

\* Another replica becomes the leader: its caches, which run before it is
\* elected, give it everything they have.
LeaderChange ==
    /\ Happens
    /\ \E late \in SUBSET (Names \cup {"cluster", "secrets"}) : OtherCaches(late)
    /\ queue' = {n \in Names : cCr'[n] # NoCR}
    /\ rpc' = "idle"
    /\ name' = NoName
    /\ obj' = NoCR
    /\ clu' = NoCluster
    /\ desired' = NoSecret
    /\ behind' = FALSE
    /\ UNCHANGED <<cluster, cr, secrets, rendered, hooks, version, lagged>>

-----------------------------------------------------------------------------
(* Edits.                                                                  *)

\* A PgDoorman is created, or its spec is edited.
EditCR(n) ==
    /\ version + 1 \in Versions
    /\ version' = version + 1
    /\ cr' = [cr EXCEPT ![n] = IF @ = NoCR THEN NewCR(version')
                               ELSE [@ EXCEPT !.spec = version']]
    /\ UNCHANGED <<cluster, secrets>>

DeleteCR(n) ==
    /\ cr[n] # NoCR
    /\ ~cr[n].deleting
    /\ cr' = [cr EXCEPT ![n] =
                 IF @.finalizer THEN [@ EXCEPT !.deleting = TRUE] ELSE NoCR]
    /\ UNCHANGED <<cluster, secrets, version>>

\* No trace is left of an earlier time with the plugin.
CleanedUp ==
    /\ rendered = NoSecret /\ cRendered = NoSecret
    /\ ~service /\ hpc = "idle"
    /\ cluster = NoCluster => Owned = {}

\* The plugin is enabled, by a new Cluster or an old one, or its configName
\* is changed.
UsePlugin(n) ==
    /\ n # cluster
    /\ \E readable \in BOOLEAN :
          cluster # NoCluster => H!ValidateClusterChange(n, readable)
    /\ ~Overlap => /\ cluster \notin Names => CleanedUp
                   /\ cr[n] # NoCR => ~cr[n].deleting
    /\ cluster' = n
    /\ UNCHANGED <<cr, secrets, version>>

\* The plugin is disabled, or the Cluster is deleted.
LeavePlugin ==
    /\ cluster # NoCluster
    /\ cluster' \in {Off, NoCluster} \ {cluster}
    /\ UNCHANGED <<cr, secrets, version>>

\* A Secret is brought, changed, labelled or deleted, the generated one too:
\* "To rotate the password, delete the Secret: the plugin recreates it".
PutSecret(s, content) ==
    /\ secrets[s] # content
    /\ secrets' = [secrets EXCEPT ![s] = content]
    /\ UNCHANGED <<cluster, cr, version>>

Edit ==
    /\ Happens
    /\ \/ \E n \in Names : EditCR(n) \/ DeleteCR(n) \/ UsePlugin(n)
       \/ LeavePlugin
       \/ \E put \in Puts : PutSecret(put[1], put[2])
    /\ UNCHANGED <<rendered, caches, worker, hooks, history>>

-----------------------------------------------------------------------------

\* A Reconcile that begins now does not find an earlier write to the Secret.
Lags == rpc = "idle" /\ cRendered # rendered

\* Every step of Reconcile, and what the properties need to know of it.
ControllerStep ==
    /\ \/ Reconcile /\ (IF Lags THEN Happens ELSE UNCHANGED events)
       \/ (Fails \/ RenderFails) /\ Happens
    /\ UNCHANGED version
    /\ lagged' = (lagged \/ Lags)
    /\ behind' = (/\ rpc' = "upsert" /\ rendered # NoSecret
                  /\ cRendered = NoSecret \/ cRendered.admin # rendered.admin)
    /\ UNCHANGED hooks

HookStep ==
    /\ \/ (H!PreEnabled \/ H!PreDisabled \/ H!CleanupSecret) /\ UNCHANGED users
       \/ H!CleanupFails /\ Happens /\ UNCHANGED version
    /\ UNCHANGED <<cr, secrets, caches, worker, history>>

\* The informers are told of every change, be it undone by the next one.
Notify ==
    news' = news \cup {n \in Names : cr'[n] # cr[n]}
                 \cup {x \in {"cluster"} : cluster' # cluster}
                 \cup {s \in SecretNames :
                          Visible(secrets'[s]) # Visible(secrets[s])}

Next ==
    \/ (ControllerStep \/ HookStep \/ CollectGarbage \/ Edit) /\ Notify
    \/ Sync \/ LeaderChange

Spec == Init /\ [][Next]_vars

\* The worker runs and serves every request, every informer catches up, the
\* garbage is collected, and CNPG calls Pre again and again.
Fairness ==
    /\ WF_vars(ControllerStep /\ Notify)
    /\ \A n \in Names :
          SF_vars(ControllerStep /\ Begin(n) /\ Notify)
    /\ \A n \in Names : WF_vars(Deliver(SyncCr(n)))
    /\ WF_vars(Deliver(SyncCluster))
    /\ WF_vars(Deliver(SyncSecrets))
    /\ WF_vars(CollectGarbage /\ Notify)
    /\ WF_vars(HookStep /\ Notify)

FairSpec == Spec /\ Fairness

-----------------------------------------------------------------------------
(* Properties.                                                             *)

\* Every variable has its type.
TypeOK ==
    /\ WorkerTypeOK
    /\ service \in BOOLEAN
    /\ hpc \in {"idle", "cleanup"}
    /\ news \subseteq Names \cup SecretNames \cup {"cluster"}
    /\ version \in Versions \cup {0}
    /\ events \in 0..MaxEvents
    /\ {lagged, behind} \subseteq BOOLEAN

\* The Secrets the version needs can be used, or are the plugin's to create.
SecretsAllowed(v, all) == OwnSecrets(v, all) /\ Resolvable(RefsOf(v), all)
Usable(v) ==
    SecretsAllowed(v, [s \in SecretNames |->
        IF s = Generated /\ secrets[s] = NoSecret
        THEN [label |-> "own", password |-> "new", owned |-> TRUE]
        ELSE secrets[s]])

\* The config is rendered from the version v and the passwords the Secrets have
\* now, and its status says so.
IsRendered(n, v) ==
    /\ rendered # NoSecret
    /\ SecretsAllowed(v, secrets)
    /\ rendered.config = Rendering(v, secrets, rendered.admin)
    /\ cr[n] # NoCR
    /\ cr[n].status = "True"
    /\ cr[n].observed = v

\* Nothing is queued, in progress or on its way to a cache.
Quiescent ==
    /\ queue = {} /\ rpc = "idle" /\ hpc = "idle"
    /\ news = {} /\ cRendered = rendered

\* No lost update: when the controller has nothing left to do, the Secret
\* holds the spec of the PgDoorman the Cluster names, the status says so, and
\* exactly the PgDoorman in use has the finalizer.  The watches of
\* SetupWithManager and the requeues of Reconcile are all that can wake it.
\* For the Secret this takes that Reconciles found earlier writes to it in
\* the cache.
NothingForgotten ==
    Quiescent =>
        \A n \in {m \in Names : cr[m] # NoCR} :
            /\ cr[n].finalizer <=> cluster = n
            /\ cluster = n /\ cr[n].spec \in Renderable /\ ~lagged =>
                   IsRendered(n, cr[n].spec)

\* adminPasswordFallback: "a random admin password, stable across re-renders:
\* it is persisted in the rendered Secret and reused".  While the Secret
\* exists a write changes the password, or gives a config without a reference
\* another one, only where the fallback was read from a cache that did not
\* have it: what happens to the Secret, its cache and the leader after that
\* read does not matter.
AdminPasswordStable ==
    [][NoSecret \notin {rendered, rendered'} /\ ~behind =>
           /\ rendered'.admin = rendered.admin
           /\ rendered'.config # rendered.config
                 /\ Specs[rendered'.config.spec].adminRef = NoRef =>
                  rendered'.config.passwords[AdminPasswordKey]
                      = rendered.admin]_vars

\* The spec of the last edit is rendered, through conflicts, failed writes, stale
\* caches, changes of the leader and other PgDoormans used before, where
\* Reconciles found earlier writes to the Secret in the cache.
RenderedInTheEnd ==
    \A n \in Names :
        <>[](/\ cluster = n /\ cr[n] # NoCR /\ cr[n].spec \in Renderable
             /\ ~cr[n].deleting /\ Usable(cr[n].spec) /\ ~lagged)
            => <>[](cr[n] # NoCR /\ IsRendered(n, cr[n].spec))

\* "releases the finalizer only when no live Cluster references the CR
\* anymore": then it does release it.
DeletionCompletes ==
    \A n \in Names :
        <>[](cluster # n) => []<>(cr[n] = NoCR \/ ~cr[n].deleting)

\* "cleanup removes the plugin-managed resources when the plugin is
\* disabled": they stay removed, even though the controller may render once
\* more from what its cache still says.
CleanupCompletes ==
    <>[](cluster = Off) => <>[](rendered = NoSecret /\ ~service)

\* "ObservedGeneration is the last spec generation rendered into the
\* per-cluster config Secret": once nothing is left to do, a Rendered
\* condition that is True for the PgDoorman in use speaks of what is there.
ObservedIsRendered ==
    Quiescent =>
        \A n \in {cluster} \cap Names :
            cr[n] # NoCR /\ cr[n].status = "True" =>
                rendered # NoSecret /\ rendered.config.spec = cr[n].observed

\* It does, where Reconciles found earlier writes to the Secret in the cache.
StatusTrue == lagged \/ ObservedIsRendered

\* "Finalizer blocks deletion of a PgDoorman still referenced by a live
\* Cluster": one that has it does not go away while the Cluster names it.
InUseProtected ==
    [][\A n \in Names :
          cr[n] # NoCR /\ cr'[n] = NoCR /\ cr[n].finalizer => cluster # n]_vars

=============================================================================
