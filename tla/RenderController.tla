--------------------------- MODULE RenderController ---------------------------
(***************************************************************************)
(* The rendering controller of the plugin server                           *)
(* (internal/controller/renderedconfig.go): the leader reconciles PgDoorman*)
(* objects one at a time, keeps their in-use finalizer, and renders the one*)
(* the Cluster names into the Secret the pods mount.  It reads from        *)
(* informer caches, which lag, and writes to the API server, so Reconcile  *)
(* is split between its reads and each of its writes.                      *)
(*                                                                         *)
(* One namespace with one Cluster, to which every PgDoorman belongs.  The  *)
(* Cluster is what NewFromCluster makes of it: the configName of the       *)
(* enabled plugin, Off without one.  A spec is the version of its last     *)
(* edit, which also stands for its generation; the plugin's parameters and *)
(* the binary spec are part of it.  Of the Secrets it references the cache *)
(* has the ones with the cluster label, of whichever Cluster.  Any API call*)
(* may fail.                                                               *)
(***************************************************************************)
EXTENDS Credentials

CONSTANTS
    Names,       \* names of PgDoorman objects
    NoName,
    Off,         \* the Cluster does not use the plugin
    NoCluster,   \* there is no Cluster
    NoCR,        \* there is no PgDoorman of that name
    Versions,    \* versions of specs, numbered in the order of the edits
    Specs,       \* the part of each that Credentials is about
    Valid,       \* those with plugin parameters that Validate accepts
    SecretNames, \* names of Secrets a spec references
    Passwords    \* what Secrets may hold

VARIABLES
    cluster, cr, secrets, rendered,      \* the objects
    cCluster, cCr, cSecrets, cRendered,  \* the leader's caches of them
    queue,           \* the requests waiting for the worker
    rpc,             \* where Reconcile is
    name, obj, clu,  \* the request and the objects it read
    desired,         \* the Secret it is about to write
    events           \* how many acts of the environment there were

objects == <<cluster, cr, secrets, rendered>>
caches == <<cCluster, cCr, cSecrets, cRendered>>
worker == <<queue, rpc, name, obj, clu, desired>>

\* What DefaultAuthSecretRefs accepts, who needs the generated Secret, and what
\* each version references, as it is written and with the defaults.
Renderable == {v \in Valid : ~Conflicts(Specs[v])}
Generating == {v \in Versions : AuthUsers(Specs[v]) # {}}
Written == UNION {{<<v, r>> : r \in Refs(Specs[v])} : v \in Versions}
References ==
    UNION {{<<v, r>> : r \in Refs(DefaultAuthSecretRefs(Specs[v]))} :
              v \in {w \in Versions : ~Conflicts(Specs[w])}}
RefsOf(v) == {x[2] : x \in {y \in References : y[1] = v}}

\* A PgDoorman as Reconcile sees it: status and at are the Rendered condition
\* and its generation, observed is the observedGeneration.
CRs == [spec : Versions, deleting : BOOLEAN, finalizer : BOOLEAN,
        status : {"none", "True", "False"}, at : Versions \cup {0},
        observed : Versions \cup {0}]

\* The Secrets with passwords: whose label they carry, if any, and whether the
\* Cluster owns them.
Labels == {"own", "other", "none"}
Secrets == [label : Labels, password : Passwords \cup {NoPassword},
            owned : BOOLEAN]

\* A rendered Secret has a config with every password of its version, and the
\* fallback of the admin password.
KeysOf(v) == {r.key : r \in RefsOf(v)} \cup {AdminPasswordKey}
Configs ==
    UNION {[spec : {v}, passwords : [KeysOf(v) -> Passwords]] : v \in Versions}
RenderedSecrets == [config : Configs, admin : Passwords]

\* The informer is scoped by the label.
Visible(s) == IF s # NoSecret /\ s.label # "none" THEN s ELSE NoSecret
Cached(all) == [s \in SecretNames |-> Visible(all[s])]

WorkerIdle ==
    /\ rpc = "idle"
    /\ name = NoName
    /\ obj = NoCR
    /\ clu = NoCluster
    /\ desired = NoSecret

-----------------------------------------------------------------------------

\* Reconcile reads the PgDoorman and its Cluster from the caches.
Begin(n) ==
    /\ rpc = "idle"
    /\ n \in queue
    /\ queue' = queue \ {n}
    /\ IF cCr[n] = NoCR
       THEN UNCHANGED <<rpc, name, obj, clu>>
       ELSE rpc' = "read" /\ name' = n /\ obj' = cCr[n] /\ clu' = cCluster
    /\ UNCHANGED <<objects, caches, desired>>

\* Reconcile returns; again stands for an error or a RequeueAfter.
Return(again) ==
    /\ queue' = IF again THEN queue \cup {name} ELSE queue
    /\ rpc' = "idle"
    /\ name' = NoName
    /\ obj' = NoCR
    /\ clu' = NoCluster
    /\ desired' = NoSecret
    /\ UNCHANGED caches

\* One of the API calls fails.
Fails == rpc # "idle" /\ Return(TRUE) /\ UNCHANGED objects

\* Mutant: without a Cluster the object counts as referenced.
inUseUnlessRead == clu \in {name, NoCluster}

\* The Cluster that was read names this PgDoorman.
inUse == clu = name

Go(step) ==
    rpc' = step /\ UNCHANGED <<caches, queue, name, obj, clu, desired>>

\* reconcileDeletion without the finalizer, or with it while still in use.
DeletionWaits ==
    /\ rpc = "read"
    /\ obj.deleting
    /\ obj.finalizer => inUse
    /\ Return(obj.finalizer)
    /\ UNCHANGED objects

\* reconcileDeletion releases the finalizer: the merge patch has no
\* precondition, and the object goes with its last finalizer.
Release ==
    /\ rpc = "read"
    /\ obj.deleting
    /\ obj.finalizer
    /\ ~inUse
    /\ IF cr[name] = NoCR
       THEN Return(TRUE) /\ UNCHANGED cr
       ELSE /\ Return(FALSE)
            /\ cr' = [cr EXCEPT ![name] =
                         IF @.deleting THEN NoCR ELSE [@ EXCEPT !.finalizer = FALSE]]
    /\ UNCHANGED <<cluster, secrets, rendered>>

\* ensureFinalizer patches the object; the API server refuses a new finalizer
\* on one that is being deleted.
EnsureFinalizer ==
    /\ rpc = "read"
    /\ ~obj.deleting
    /\ obj.finalizer # inUse
    /\ IF cr[name] = NoCR \/ (inUse /\ cr[name].deleting)
       THEN Return(TRUE) /\ UNCHANGED cr
       ELSE /\ cr' = [cr EXCEPT ![name] =
                         IF @.deleting THEN NoCR ELSE [@ EXCEPT !.finalizer = inUse]]
            /\ obj' = [cr[name] EXCEPT !.finalizer = inUse]
            /\ rpc' = "checked"
            /\ UNCHANGED <<caches, queue, name, clu, desired>>
    /\ UNCHANGED <<cluster, secrets, rendered>>

\* ensureFinalizer is done, or has nothing to do.
Checked ==
    \/ rpc = "checked"
    \/ rpc = "read" /\ ~obj.deleting /\ obj.finalizer = inUse

\* No Cluster yet, or one that does not use this object.
NotUsed ==
    /\ Checked
    /\ ~inUse
    /\ Return(clu = NoCluster)
    /\ UNCHANGED objects

\* setRendered: nothing to write, an update, or a conflict with an object
\* that is newer than the one that was read.
SetRendered(status, observed, again) ==
    LET new == [obj EXCEPT !.status = status, !.at = obj.spec,
                           !.observed = observed]
    IN  /\ IF new = obj /\ observed = obj.spec
           THEN Return(again) /\ UNCHANGED cr
           ELSE IF cr[name] = obj
                THEN Return(again) /\ cr' = [cr EXCEPT ![name] = new]
                ELSE Return(TRUE) /\ UNCHANGED cr
        /\ UNCHANGED <<cluster, secrets, rendered>>

\* An invalid spec waits for an edit, anything else is tried again.
StatusFailed == SetRendered("False", obj.observed, obj.spec \in Renderable)

\* The plugin parameters or the spec are invalid.
Refuse ==
    /\ Checked
    /\ inUse
    /\ obj.spec \notin Renderable
    /\ StatusFailed

\* A password is known by the number of acts of the environment before it was
\* drawn: those drawn before and after one of them differ.
randomPassword == events

\* There is something to render, and ensureGeneratedAuthSecret has or has not
\* to create the Secret: no pool needs it, or the cache has one of that name.
ToRender == Checked /\ inUse /\ obj.spec \in Renderable
AuthSecretInPlace ==
    obj.spec \in Generating => cSecrets[Generated] # NoSecret

CreateAuthSecret ==
    /\ ToRender
    /\ ~AuthSecretInPlace
    /\ secrets[Generated] = NoSecret
    /\ secrets' = [secrets EXCEPT ![Generated] =
                      [label |-> "own", password |-> randomPassword,
                       owned |-> TRUE]]
    /\ Go("resolve")
    /\ UNCHANGED <<cluster, cr, rendered>>

\* A Secret the cache does not show is in the way, without the label or just
\* created; it is left alone.
AuthSecretExists ==
    /\ ToRender
    /\ ~AuthSecretInPlace
    /\ secrets[Generated] # NoSecret
    /\ StatusFailed

\* The Secrets are read by validateSecretOwnership, and then again.
Resolving == rpc = "resolve" \/ (ToRender /\ AuthSecretInPlace)

OwnSecrets(v, all) ==
    \A r \in RefsOf(v) : /\ all[r.secret] # NoSecret
                         /\ all[r.secret].label = "own"

ValidateSecretOwnership ==
    /\ Resolving
    /\ OwnSecrets(obj.spec, cSecrets)
    /\ Go("allowed")
    /\ UNCHANGED objects

\* A referenced Secret is missing, as far as the cache knows, or carries
\* another Cluster's label.
SecretNotAllowed ==
    /\ Resolving
    /\ ~OwnSecrets(obj.spec, cSecrets)
    /\ StatusFailed

\* What is rendered from a version with these Secrets and this fallback.
Rendering(v, all, admin) ==
    Generate(v, EnsureAdminPassword(ResolvePasswords(RefsOf(v), all), admin))

RenderWith(fallback) ==
    /\ rpc = "allowed"
    /\ Resolvable(RefsOf(obj.spec), cSecrets)
    /\ desired' = [config |-> Rendering(obj.spec, cSecrets, fallback),
                   admin |-> fallback]
    /\ rpc' = "upsert"
    /\ UNCHANGED <<objects, caches, queue, name, obj, clu>>

\* Mutant: the admin password is not looked up but drawn anew.
RenderAnew == RenderWith(randomPassword)

\* Mutant: without a rendered Secret there is no admin password.
RenderWithout ==
    RenderWith(IF cRendered = NoSecret THEN NoPassword ELSE cRendered.admin)

\* render: ResolvePasswords reads the Secrets, adminPasswordFallback the
\* rendered one.
Render ==
    RenderWith(IF cRendered = NoSecret THEN randomPassword ELSE cRendered.admin)

\* A referenced Secret lacks the key, or has gone since it was validated.
RenderRefused ==
    /\ rpc = "allowed"
    /\ ~Resolvable(RefsOf(obj.spec), cSecrets)
    /\ StatusFailed

\* One of these calls fails.
RenderFails ==
    /\ ToRender \/ rpc \in {"resolve", "allowed"}
    /\ StatusFailed

\* upsertSecret reads the rendered Secret again and finds none.
UpsertCreate ==
    /\ rpc = "upsert"
    /\ cRendered = NoSecret
    /\ IF rendered = NoSecret
       THEN rendered' = desired /\ Go("rendered")
       ELSE Return(TRUE) /\ UNCHANGED rendered
    /\ UNCHANGED <<cluster, cr, secrets>>

\* Mutant: a Secret with the same fallback counts as up to date.
UpsertUnchangedAdmin ==
    /\ rpc = "upsert"
    /\ cRendered # NoSecret
    /\ cRendered.admin = desired.admin
    /\ Go("rendered")
    /\ UNCHANGED objects

UpsertUnchanged ==
    /\ rpc = "upsert"
    /\ cRendered = desired
    /\ Go("rendered")
    /\ UNCHANGED objects

\* The merge patch carries the keys that differ from what was read.
UpsertPatch ==
    /\ rpc = "upsert"
    /\ cRendered \notin {NoSecret, desired}
    /\ IF rendered = NoSecret
       THEN Return(TRUE) /\ UNCHANGED rendered
       ELSE /\ rendered' = [k \in {"config", "admin"} |->
                  IF desired[k] = cRendered[k] THEN rendered[k] ELSE desired[k]]
            /\ Go("rendered")
    /\ UNCHANGED <<cluster, cr, secrets>>

StatusRendered ==
    /\ rpc = "rendered"
    /\ SetRendered("True", obj.spec, FALSE)

Reconcile ==
    \/ \E n \in Names : Begin(n)
    \/ DeletionWaits \/ Release \/ EnsureFinalizer \/ NotUsed \/ Refuse
    \/ CreateAuthSecret \/ AuthSecretExists
    \/ ValidateSecretOwnership \/ SecretNotAllowed \/ Render \/ RenderRefused
    \/ UpsertCreate \/ UpsertUnchanged \/ UpsertPatch \/ StatusRendered

\* Every object, cache and local variable has its type.
WorkerTypeOK ==
    /\ {cluster, cCluster, clu} \subseteq Names \cup {Off, NoCluster}
    /\ {cr, cCr} \subseteq [Names -> CRs \cup {NoCR}]
    /\ {secrets, cSecrets} \subseteq [SecretNames -> Secrets \cup {NoSecret}]
    /\ {rendered, cRendered, desired} \subseteq RenderedSecrets \cup {NoSecret}
    /\ queue \subseteq Names
    /\ rpc \in {"idle", "read", "checked", "resolve", "allowed", "upsert",
               "rendered"}
    /\ name \in Names \cup {NoName}
    /\ rpc = "idle" <=> name = NoName
    /\ name \in Names => obj \in CRs

=============================================================================
