------------------------ MODULE RenderedSecretProofs ------------------------
(***************************************************************************)
(* Theorems about RenderedSecret, for any PgDoormans, versions of specs,   *)
(* Secrets and numbers of events.                                          *)
(***************************************************************************)
EXTENDS RenderedSecret, TLAPS

(***************************************************************************)
(* What a version references, and what is rendered from it.                *)
(***************************************************************************)
LEMMA RefsAreNames ==
  ASSUME NEW v, NEW r \in RefsOf(v)
  PROVE  r.secret \in SecretNames
  BY SpecAssumption DEF RefsOf

\* Two states of the Secrets that differ in none the version references.
Agree(v, all, others) == \A r \in RefsOf(v) : all[r.secret] = others[r.secret]

LEMMA ResolveAgrees ==
  ASSUME NEW refs, NEW all, NEW others,
         \A r \in refs : all[r.secret] = others[r.secret]
  PROVE  ResolvePasswords(refs, all) = ResolvePasswords(refs, others)
<1>1. ASSUME NEW k \in {r.key : r \in refs}
      PROVE  all[(CHOOSE r \in refs : r.key = k).secret]
               = others[(CHOOSE r \in refs : r.key = k).secret]
  <2>1. \E r \in refs : r.key = k
    OBVIOUS
  <2>2. (CHOOSE r \in refs : r.key = k) \in refs
    BY <2>1
  <2> QED
    BY <2>2
<1> QED
  BY <1>1 DEF ResolvePasswords

LEMMA RenderingAgrees ==
  ASSUME NEW v, NEW all, NEW others, Agree(v, all, others)
  PROVE  /\ SecretsAllowed(v, all) <=> SecretsAllowed(v, others)
         /\ \A a : Rendering(v, all, a) = Rendering(v, others, a)
<1>1. SecretsAllowed(v, all) <=> SecretsAllowed(v, others)
  BY DEF Agree, SecretsAllowed, OwnSecrets, Resolvable, CollectSecretNames
<1>2. ResolvePasswords(RefsOf(v), all) = ResolvePasswords(RefsOf(v), others)
  BY ResolveAgrees DEF Agree
<1> QED
  BY <1>1, <1>2 DEF Rendering

LEMMA ResolveTyped ==
  ASSUME NEW v \in Versions,
         NEW all \in [SecretNames -> Secrets \cup {NoSecret}],
         Resolvable(RefsOf(v), all)
  PROVE  ResolvePasswords(RefsOf(v), all) \in
             [{r.key : r \in RefsOf(v)} -> Passwords]
<1>1. ASSUME NEW k \in {r.key : r \in RefsOf(v)}
      PROVE  all[(CHOOSE r \in RefsOf(v) : r.key = k).secret].password
               \in Passwords
  <2> DEFINE c == CHOOSE r \in RefsOf(v) : r.key = k
  <2>1. c \in RefsOf(v)
    BY <1>1
  <2> HIDE DEF c
  <2>2. c.secret \in SecretNames
    BY <2>1, RefsAreNames
  <2>3. /\ all[c.secret] # NoSecret
        /\ all[c.secret].password # NoPassword
    BY <2>1 DEF Resolvable, CollectSecretNames
  <2>4. all[c.secret].password \in Passwords
    BY <2>2, <2>3 DEF Secrets
  <2> QED
    BY <2>4 DEF c
<1> QED
  BY <1>1 DEF ResolvePasswords

LEMMA RenderingTyped ==
  ASSUME NEW v \in Versions,
         NEW all \in [SecretNames -> Secrets \cup {NoSecret}],
         Resolvable(RefsOf(v), all), NEW a \in Passwords
  PROVE  [config |-> Rendering(v, all, a), admin |-> a] \in RenderedSecrets
<1> DEFINE p == EnsureAdminPassword(ResolvePasswords(RefsOf(v), all), a)
<1>1. p \in [KeysOf(v) -> Passwords]
  BY ResolveTyped DEF EnsureAdminPassword, KeysOf
<1> HIDE DEF p
<1>2. [spec |-> v, passwords |-> p] \in Configs
  BY <1>1 DEF Configs
<1> QED
  BY <1>2 DEF RenderedSecrets, Rendering, Generate, p

\* The admin password of a spec that references none is the fallback.
LEMMA AdminFallback ==
  ASSUME NEW v \in Versions, Specs[v].adminRef = NoRef, NEW all, NEW a
  PROVE  Rendering(v, all, a).passwords[AdminPasswordKey] = a
<1>1. ASSUME NEW r \in RefsOf(v) PROVE r.key # AdminPasswordKey
  <2> DEFINE s == DefaultAuthSecretRefs(Specs[v])
  <2>1. r \in Refs(s)
    BY DEF RefsOf, References
  <2>2. s.adminRef = NoRef
    BY SpecAssumption DEF DefaultAuthSecretRefs
  <2> HIDE DEF s
  <2>3. \E p, k, u : r.key = PasswordKey(p, k, u)
    BY <2>1, <2>2 DEF Refs
  <2> QED
    BY <2>3 DEF PasswordKey, AdminPasswordKey
<1>2. AdminPasswordKey \notin DOMAIN ResolvePasswords(RefsOf(v), all)
  BY <1>1 DEF ResolvePasswords
<1> QED
  BY <1>2 DEF Rendering, Generate, EnsureAdminPassword
-----------------------------------------------------------------------------
(***************************************************************************)
(* Types.                                                                  *)
(***************************************************************************)
LEMMA CRTyped ==
  ASSUME NEW c \in CRs
  PROVE  /\ \A b \in BOOLEAN : [c EXCEPT !.finalizer = b] \in CRs
         /\ [c EXCEPT !.deleting = TRUE] \in CRs
         /\ \A v \in Versions : [c EXCEPT !.spec = v] \in CRs
         /\ \A s \in {"True", "False"}, v \in Versions \cup {0} :
               [c EXCEPT !.status = s, !.at = c.spec, !.observed = v] \in CRs
         /\ c.spec \in Versions /\ c.observed \in Versions \cup {0}
  BY DEF CRs

LEMMA NewCRTyped ==
  ASSUME NEW v \in Versions
  PROVE  NewCR(v) \in CRs
  BY DEF NewCR, CRs
CRMap == [Names -> CRs \cup {NoCR}]
SecretMap == [SecretNames -> Secrets \cup {NoSecret}]
MaybeRendered == RenderedSecrets \cup {NoSecret}
ClusterValues == Names \cup {Off, NoCluster}
StepNames ==
  {"idle", "read", "checked", "resolve", "allowed", "upsert", "rendered"}

(***************************************************************************)
(* TypeOK by the owners of the variables.  What is about to be written     *)
(* is a Secret, which the type of desired alone does not say.              *)
(***************************************************************************)
ServerTyped ==
  /\ cluster \in ClusterValues /\ cr \in CRMap
  /\ secrets \in SecretMap /\ rendered \in MaybeRendered
CachesTyped ==
  /\ cCluster \in ClusterValues /\ cCr \in CRMap
  /\ cSecrets \in SecretMap /\ cRendered \in MaybeRendered
WorkerTyped ==
  /\ queue \subseteq Names
  /\ rpc \in StepNames
  /\ name \in Names \cup {NoName}
  /\ rpc = "idle" <=> name = NoName
  /\ name \in Names => obj \in CRs
  /\ clu \in ClusterValues
  /\ desired \in MaybeRendered
  /\ rpc = "upsert" => desired \in RenderedSecrets
RestTyped ==
  /\ service \in BOOLEAN /\ hpc \in {"idle", "cleanup"}
  /\ version \in Versions \cup {0} /\ events \in 0..MaxEvents
NewsTyped == news \subseteq Names \cup SecretNames \cup {"cluster"}
HistoryTyped == lagged \in BOOLEAN /\ behind \in BOOLEAN

TypeInv ==
  /\ ServerTyped /\ CachesTyped /\ WorkerTyped /\ RestTyped /\ NewsTyped
  /\ HistoryTyped

LEMMA TypeInvTypes == TypeInv => TypeOK
  BY DEF TypeInv, ServerTyped, CachesTyped, WorkerTyped, RestTyped, NewsTyped,
         HistoryTyped, TypeOK, WorkerTypeOK, CRMap, SecretMap, MaybeRendered, ClusterValues,
         StepNames

\* A Reconcile under way is about a PgDoorman it has read.
LEMMA Busy ==
  ASSUME WorkerTyped, rpc # "idle"
  PROVE  name \in Names /\ obj \in CRs
  BY DEF WorkerTyped

\* What a Reconcile that returns leaves in its variables.
LEMMA ReturnTyped ==
  ASSUME WorkerTyped, rpc # "idle", NEW again, Return(again)
  PROVE  WorkerTyped' /\ UNCHANGED caches
<1>1. queue' \subseteq Names
  BY Busy DEF Return, WorkerTyped
<1> QED
  BY <1>1, NameAssumption DEF Return, WorkerTyped, ClusterValues, MaybeRendered,
     StepNames

LEMMA SetRenderedTyped ==
  ASSUME WorkerTyped, ServerTyped, rpc # "idle",
         NEW status \in {"True", "False"}, NEW observed \in Versions \cup {0},
         NEW again, SetRendered(status, observed, again)
  PROVE  ServerTyped' /\ WorkerTyped' /\ UNCHANGED caches
<1>1. WorkerTyped' /\ UNCHANGED caches
  BY ReturnTyped DEF SetRendered
<1>2. cr' \in CRMap
  <2> DEFINE new == [obj EXCEPT !.status = status, !.at = obj.spec,
                                !.observed = observed]
  <2>1. new \in CRs
    BY Busy, CRTyped
  <2>2. cr' \in {cr, [cr EXCEPT ![name] = new]}
    BY DEF SetRendered
  <2> HIDE DEF new
  <2> QED
    BY <2>1, <2>2 DEF ServerTyped, CRMap
<1> QED
  BY <1>1, <1>2 DEF SetRendered, ServerTyped
LEMMA StatusFailedTyped ==
  ASSUME WorkerTyped, ServerTyped, rpc # "idle", StatusFailed
  PROVE  ServerTyped' /\ WorkerTyped' /\ UNCHANGED caches
<1>1. obj.observed \in Versions \cup {0}
  BY Busy, CRTyped
<1> QED
  BY <1>1, SetRenderedTyped DEF StatusFailed

LEMMA ReconcileTyped ==
  ASSUME TypeInv, Reconcile \/ Fails \/ RenderFails
  PROVE  ServerTyped' /\ WorkerTyped' /\ UNCHANGED caches
<1> USE DEF TypeInv
<1>b. Checked \/ Resolving => rpc # "idle"
  BY DEF Checked, Resolving, ToRender
<1>1. ASSUME NEW n \in Names, Begin(n) PROVE ServerTyped' /\ WorkerTyped'
  <2>1. ServerTyped'
    BY <1>1 DEF Begin, objects, ServerTyped
  <2>2. CASE cCr[n] = NoCR
    BY <1>1, <2>1, <2>2 DEF Begin, WorkerTyped, CachesTyped
  <2>3. CASE cCr[n] # NoCR
    BY <1>1, <2>1, <2>3, NameAssumption
       DEF Begin, WorkerTyped, CachesTyped, CRMap, StepNames
  <2> QED
    BY <2>1, <2>2, <2>3
<1>2. CASE Fails \/ DeletionWaits \/ NotUsed
  <2>1. WorkerTyped' /\ UNCHANGED caches
    BY <1>2, <1>b, ReturnTyped DEF Fails, DeletionWaits, NotUsed
  <2> QED
    BY <1>2, <2>1 DEF Fails, DeletionWaits, NotUsed, objects, ServerTyped
<1>3. CASE Release
  <2>1. WorkerTyped' /\ UNCHANGED caches
    BY <1>3, ReturnTyped DEF Release
  <2>2. cr' \in CRMap
    BY <1>3, CRTyped, Busy DEF Release, ServerTyped, CRMap
  <2> QED
    BY <1>3, <2>1, <2>2 DEF Release, ServerTyped
<1>4. CASE EnsureFinalizer
  <2>1. CASE cr[name] = NoCR \/ (inUse /\ cr[name].deleting)
    BY <1>4, <2>1, ReturnTyped DEF EnsureFinalizer, ServerTyped
  <2>2. CASE ~(cr[name] = NoCR \/ (inUse /\ cr[name].deleting))
    <3>1. name \in Names /\ cr[name] \in CRs /\ inUse \in BOOLEAN
      BY <1>4, <2>2, Busy DEF EnsureFinalizer, ServerTyped, CRMap, inUse
    <3>2. [cr[name] EXCEPT !.finalizer = inUse] \in CRs
      BY <3>1, CRTyped
    <3>3. cr' \in CRMap /\ obj' \in CRs
      BY <1>4, <2>2, <3>1, <3>2 DEF EnsureFinalizer, ServerTyped, CRMap
    <3> QED
      BY <1>4, <2>2, <3>1, <3>3, NameAssumption
         DEF EnsureFinalizer, ServerTyped, WorkerTyped, StepNames, caches
  <2> QED
    BY <2>1, <2>2
<1>5. CASE \/ Refuse \/ AuthSecretExists \/ SecretNotAllowed
           \/ RenderRefused \/ RenderFails
  BY <1>5, <1>b, StatusFailedTyped
     DEF Refuse, AuthSecretExists, SecretNotAllowed, RenderRefused, RenderFails,
         ToRender
<1>6. CASE CreateAuthSecret
  <2>1. secrets' \in SecretMap
    BY <1>6, BoundAssumption, NameAssumption
       DEF CreateAuthSecret, ServerTyped, RestTyped, SecretMap, Secrets, Labels,
           randomPassword
  <2>2. WorkerTyped' /\ UNCHANGED caches
    BY <1>6, <1>b, Busy, NameAssumption
       DEF CreateAuthSecret, ToRender, Go, WorkerTyped, StepNames, caches
  <2> QED
    BY <1>6, <2>1, <2>2 DEF CreateAuthSecret, ServerTyped
<1>7. CASE Render
  <2> DEFINE a == IF cRendered = NoSecret THEN randomPassword ELSE cRendered.admin
  <2>1. a \in Passwords
    BY BoundAssumption
       DEF CachesTyped, RestTyped, MaybeRendered, RenderedSecrets, randomPassword
  <2>2. name \in Names /\ obj.spec \in Versions
    BY <1>7, <1>b, Busy, CRTyped DEF Render, RenderWith
  <2>3. RenderWith(a)
    BY <1>7 DEF Render
  <2> HIDE DEF a
  <2>4. desired' \in RenderedSecrets
    BY <2>1, <2>2, <2>3, RenderingTyped DEF RenderWith, CachesTyped, SecretMap
  <2> QED
    BY <2>2, <2>3, <2>4, NameAssumption
       DEF RenderWith, WorkerTyped, ServerTyped, MaybeRendered, StepNames,
           objects, caches
<1>8. CASE UpsertCreate \/ UpsertUnchanged \/ UpsertPatch
  <2>1. rpc = "upsert" /\ desired \in RenderedSecrets
    BY <1>8 DEF UpsertCreate, UpsertUnchanged, UpsertPatch, WorkerTyped
  <2>2. WorkerTyped' /\ UNCHANGED caches
    <3>1. CASE Go("rendered")
      BY <2>1, <3>1, NameAssumption DEF Go, WorkerTyped, StepNames, caches
    <3>2. CASE Return(TRUE)
      BY <2>1, <3>2, ReturnTyped
    <3> QED
      BY <1>8, <3>1, <3>2 DEF UpsertCreate, UpsertUnchanged, UpsertPatch
  <2>3. rendered' \in MaybeRendered
    <3>1. CASE UpsertCreate \/ UpsertUnchanged
      BY <2>1, <3>1 DEF UpsertCreate, UpsertUnchanged, ServerTyped, MaybeRendered,
         objects
    <3>2. CASE UpsertPatch
      BY <2>1, <3>2 DEF UpsertPatch, ServerTyped, MaybeRendered, RenderedSecrets
    <3> QED
      BY <1>8, <3>1, <3>2
  <2> QED
    BY <1>8, <2>2, <2>3
       DEF UpsertCreate, UpsertUnchanged, UpsertPatch, ServerTyped, objects
<1>9. CASE StatusRendered
  BY <1>9, Busy, CRTyped, SetRenderedTyped DEF StatusRendered
<1>10. CASE ValidateSecretOwnership
  BY <1>10, <1>b, Busy, NameAssumption
     DEF ValidateSecretOwnership, Go, WorkerTyped, ServerTyped, StepNames, caches,
         objects
<1> QED
  BY <1>1, <1>2, <1>3, <1>4, <1>5, <1>6, <1>7, <1>8, <1>9, <1>10
     DEF Reconcile, Begin
LEMMA SyncTyped ==
  ASSUME TypeInv, Sync
  PROVE  TypeInv'
<1> USE DEF TypeInv
<1>0. /\ ServerTyped' /\ RestTyped'
      /\ UNCHANGED <<secrets, rendered, rpc, name, obj, clu, desired>>
  BY DEF Sync, Deliver, hooks, users, ServerTyped, RestTyped
<1>h. HistoryTyped'
  BY Zenon DEF Sync, Deliver, history, HistoryTyped
<1>1. ASSUME NEW n \in Names, SyncCr(n)
      PROVE  CachesTyped' /\ NewsTyped' /\ queue' \subseteq Names
  BY <1>1 DEF SyncCr, CachesTyped, NewsTyped, ServerTyped, WorkerTyped, CRMap
<1>2. CASE SyncCluster
  BY <1>0, <1>h, <1>2
     DEF SyncCluster, CachesTyped, NewsTyped, ServerTyped, WorkerTyped
<1>3. CASE SyncSecrets
  <2>1. cSecrets' \in SecretMap
    BY <1>3 DEF SyncSecrets, Cached, Visible, ServerTyped, SecretMap
  <2>2. UNION {mapSecret(s) : s \in news \cap SecretNames} \subseteq Names
    BY DEF mapSecret, Referring
  <2>3. queue' \subseteq Names /\ NewsTyped'
    BY <1>3, <2>2 DEF SyncSecrets, WorkerTyped, NewsTyped
  <2> QED
    BY <1>0, <1>h, <1>3, <2>1, <2>3
       DEF SyncSecrets, CachesTyped, ServerTyped, WorkerTyped
<1> QED
  BY <1>0, <1>h, <1>1, <1>2, <1>3 DEF Sync, Deliver, WorkerTyped

LEMMA LeaderTyped ==
  ASSUME TypeInv, LeaderChange
  PROVE  TypeInv'
<1> USE DEF TypeInv
<1>1. PICK late \in SUBSET (Names \cup {"cluster", "secrets"}) : OtherCaches(late)
  BY DEF LeaderChange
<1>2. UNCHANGED <<cluster, cr, secrets, rendered>>
  BY DEF LeaderChange
<1>3. Cached(secrets) \in SecretMap
  BY DEF Cached, Visible, ServerTyped, SecretMap
<1>4. cCr' \in CRMap
  BY <1>1 DEF OtherCaches, CachesTyped, ServerTyped, CRMap
<1>5. CachesTyped' /\ ServerTyped'
  BY <1>1, <1>2, <1>3, <1>4 DEF OtherCaches, CachesTyped, ServerTyped
<1>6. NewsTyped'
  BY <1>1 DEF OtherCaches, NewsTyped
<1>7. WorkerTyped'
  BY NameAssumption
     DEF LeaderChange, WorkerTyped, StepNames, ClusterValues, MaybeRendered
<1>8. RestTyped'
  BY BoundAssumption DEF LeaderChange, Happens, RestTyped, hooks
<1>9. HistoryTyped'
  BY Zenon DEF LeaderChange, HistoryTyped
<1> QED
  BY <1>5, <1>6, <1>7, <1>8, <1>9

LEMMA EditTyped ==
  ASSUME TypeInv, Edit
  PROVE  ServerTyped' /\ RestTyped' /\ UNCHANGED <<rendered, caches, worker, hooks>>
<1> USE DEF TypeInv
<1>0. UNCHANGED <<rendered, caches, worker, hooks>> /\ events' \in 0..MaxEvents
  BY BoundAssumption DEF Edit, Happens, RestTyped
<1>1. ASSUME NEW n \in Names, EditCR(n)
      PROVE  UNCHANGED <<cluster, secrets>> /\ cr' \in CRMap /\ version' \in Versions
  <2>1. version' \in Versions /\ UNCHANGED <<cluster, secrets>>
    BY <1>1 DEF EditCR
  <2>2. CASE cr[n] = NoCR
    BY <1>1, <2>1, <2>2, NewCRTyped DEF EditCR, ServerTyped, CRMap
  <2>3. CASE cr[n] # NoCR
    <3>1. [cr[n] EXCEPT !.spec = version'] \in CRs
      BY <2>1, <2>3, CRTyped DEF ServerTyped, CRMap
    <3> QED
      BY <1>1, <2>1, <2>3, <3>1 DEF EditCR, ServerTyped, CRMap
  <2> QED
    BY <2>1, <2>2, <2>3
<1>2. ASSUME NEW n \in Names, DeleteCR(n)
      PROVE  UNCHANGED <<cluster, secrets, version>> /\ cr' \in CRMap
  <2>1. [cr[n] EXCEPT !.deleting = TRUE] \in CRs
    BY <1>2, CRTyped DEF DeleteCR, ServerTyped, CRMap
  <2> QED
    BY <1>2, <2>1 DEF DeleteCR, ServerTyped, CRMap
<1>3. ASSUME NEW n \in Names, UsePlugin(n)
      PROVE  UNCHANGED <<cr, secrets, version>> /\ cluster' \in ClusterValues
  BY <1>3 DEF UsePlugin, ClusterValues
<1>4. CASE LeavePlugin
  BY <1>0, <1>4 DEF LeavePlugin, ServerTyped, RestTyped, ClusterValues, hooks
<1>5. ASSUME NEW put \in Puts, PutSecret(put[1], put[2])
      PROVE  UNCHANGED <<cluster, cr, version>> /\ secrets' \in SecretMap
  <2>1. put[1] \in SecretNames /\ put[2] \in Secrets \cup {NoSecret}
    BY PutAssumption
  <2> QED
    BY <1>5, <2>1 DEF PutSecret, ServerTyped, SecretMap
<1> QED
  BY <1>0, <1>1, <1>2, <1>3, <1>4, <1>5 DEF Edit, ServerTyped, RestTyped, hooks

LEMMA TypeInvNext ==
  ASSUME TypeInv, [Next]_vars
  PROVE  TypeInv'
<1> USE DEF TypeInv
<1>n. Notify => NewsTyped'
  BY DEF Notify, NewsTyped
<1>h. HookStep \/ CollectGarbage \/ Edit \/ UNCHANGED vars => HistoryTyped'
  BY Zenon DEF HookStep, CollectGarbage, Edit, vars, history, HistoryTyped
<1>1. CASE ControllerStep /\ Notify
  <2>1. ServerTyped' /\ WorkerTyped' /\ CachesTyped'
    BY <1>1, ReconcileTyped DEF ControllerStep, caches, CachesTyped
  <2>2. events' = events \/ Happens
    BY <1>1 DEF ControllerStep
  <2>3. RestTyped'
    BY <1>1, <2>2, BoundAssumption DEF ControllerStep, Happens, RestTyped, hooks
  <2>4. HistoryTyped'
    BY <1>1, Zenon DEF ControllerStep, HistoryTyped
  <2> QED
    BY <1>1, <1>n, <2>1, <2>3, <2>4
<1>2. CASE HookStep /\ Notify
  <2>1. ServerTyped'
    BY <1>2 DEF HookStep, H!PreEnabled, H!PreDisabled, H!CleanupSecret,
       H!CleanupFails, ServerTyped, MaybeRendered
  <2>2. RestTyped'
    <3>1. /\ version' = version /\ hpc' \in {"idle", "cleanup"}
          /\ service' \in {service, TRUE, FALSE}
      BY <1>2, Zenon DEF HookStep, H!PreEnabled, H!PreDisabled, H!CleanupSecret,
         H!CleanupFails, H!EnsureService, users
    <3>2. events' = events \/ Happens
      BY <1>2, Zenon DEF HookStep, users
    <3>3. events' \in 0..MaxEvents
      BY <3>2, BoundAssumption DEF Happens, RestTyped
    <3> QED
      BY <3>1, <3>3, Zenon DEF RestTyped
  <2> QED
    BY <1>2, <1>n, <1>h, <2>1, <2>2
       DEF HookStep, WorkerTyped, CachesTyped, caches, worker
<1>3. CASE CollectGarbage /\ Notify
  <2>1. secrets' \in SecretMap
    BY <1>3 DEF CollectGarbage, ServerTyped, SecretMap
  <2> QED
    BY <1>3, <1>n, <1>h, <2>1
       DEF CollectGarbage, ServerTyped, RestTyped, WorkerTyped, CachesTyped,
           MaybeRendered, caches, worker, users
<1>4. CASE Edit /\ Notify
  BY <1>4, <1>n, <1>h, EditTyped DEF WorkerTyped, CachesTyped, caches, worker
<1>5. CASE Sync
  BY <1>5, SyncTyped
<1>6. CASE LeaderChange
  BY <1>6, LeaderTyped
<1>7. CASE UNCHANGED vars
  BY <1>7, <1>h DEF vars, ServerTyped, RestTyped, WorkerTyped, CachesTyped, NewsTyped,
     caches, worker, hooks, users
<1> QED
  BY <1>1, <1>2, <1>3, <1>4, <1>5, <1>6, <1>7, Zenon DEF Next
\* The Secret and the config there are at first.
LEMMA FirstRendering ==
  ASSUME Init
  PROVE  /\ secrets \in SecretMap
         /\ \A s \in SecretNames : Visible(secrets[s]) = secrets[s]
         /\ SecretsAllowed(1, secrets)
         /\ rendered \in RenderedSecrets
<1>1. 0 \in Passwords
  BY BoundAssumption
<1>2. [label |-> "own", password |-> 0, owned |-> TRUE] \in Secrets
  BY <1>1 DEF Secrets, Labels
<1>3. /\ secrets \in SecretMap
      /\ \A s \in SecretNames : Visible(secrets[s]) = secrets[s]
  BY <1>2 DEF Init, SecretMap, Visible
<1>4. ASSUME NEW r \in RefsOf(1)
      PROVE  secrets[r.secret] # NoSecret /\ secrets[r.secret].label = "own"
               /\ secrets[r.secret].password = 0
  BY <1>2, InitialAssumption, AbsentAssumption, NameAssumption DEF Init
<1>5. 0 # NoPassword
  BY <1>1, AbsentAssumption
<1>6. SecretsAllowed(1, secrets)
  BY <1>4, <1>5 DEF SecretsAllowed, OwnSecrets, Resolvable, CollectSecretNames
<1> QED
  BY <1>1, <1>3, <1>6, VersionAssumption, RenderingTyped
     DEF Init, SecretMap, SecretsAllowed

LEMMA TypeInvInit == Init => TypeInv
<1> SUFFICES ASSUME Init PROVE TypeInv
  OBVIOUS
<1>1. cr \in CRMap
  <2>1. [NewCR(1) EXCEPT !.finalizer = TRUE, !.status = "True",
                         !.at = 1, !.observed = 1] \in CRs
    BY VersionAssumption DEF NewCR, CRs
  <2>2. NewCR(1) \in CRs
    BY VersionAssumption, NewCRTyped
  <2> QED
    BY <2>1, <2>2 DEF Init, CRMap
<1>2. service \in BOOLEAN /\ HistoryTyped
  BY Zenon DEF Init, HistoryTyped
<1>3. /\ cluster \in ClusterValues
      /\ hpc = "idle" /\ version = 1 /\ events \in 0..MaxEvents /\ news = {}
      /\ cCluster = cluster /\ cCr = cr /\ cSecrets = secrets
      /\ cRendered \in {rendered, NoSecret}
      /\ queue = {} /\ WorkerIdle
  BY NameAssumption, BoundAssumption DEF Init, ClusterValues
<1>4. ServerTyped /\ CachesTyped /\ NewsTyped
  BY <1>1, <1>3, FirstRendering
     DEF ServerTyped, CachesTyped, NewsTyped, MaybeRendered
<1>5. WorkerTyped
  BY <1>3, NameAssumption
     DEF WorkerTyped, WorkerIdle, ClusterValues, MaybeRendered, StepNames
<1>6. RestTyped
  BY <1>2, <1>3, VersionAssumption, Zenon DEF RestTyped
<1> QED
  BY <1>2, <1>4, <1>5, <1>6 DEF TypeInv

LEMMA Typing == Spec => []TypeInv
  BY TypeInvInit, TypeInvNext, PTL DEF Spec

\* TypeOK is an invariant: in particular every rendered Secret, on the server,
\* in the cache or about to be written, has a password under every key its
\* version references, and an admin password.
THEOREM TypeCorrect == Spec => []TypeOK
  BY Typing, TypeInvTypes, PTL
-----------------------------------------------------------------------------
(***************************************************************************)
(* The admin password.  A Reconcile is about to write a config with the    *)
(* fallback it has read, which is the one of the server unless the cache   *)
(* was behind.                                                             *)
(***************************************************************************)
AdminServed(r) ==
  Specs[r.config.spec].adminRef = NoRef =>
      r.config.passwords[AdminPasswordKey] = r.admin

AdminInv ==
  /\ rpc = "upsert" /\ rendered # NoSecret /\ ~behind =>
         desired.admin = rendered.admin
  /\ rpc = "upsert" => AdminServed(desired)

\* How the steps of Reconcile treat the rendered Secret.
LEMMA RenderedCases ==
  ASSUME TypeInv, Reconcile \/ Fails \/ RenderFails
  PROVE  \/ /\ UNCHANGED rendered
            /\ \/ rpc = "idle" /\ rpc' \in {"idle", "read"}
               \/ rpc' = "idle"
               \/ rpc \in {"read", "checked"} /\ rpc' \in {"checked", "resolve"}
         \/ ValidateSecretOwnership
         \/ Render
         \/ rpc' = "rendered" /\ (UpsertCreate \/ UpsertUnchanged \/ UpsertPatch)
<1>1. ASSUME NEW n \in Names, Begin(n)
      PROVE  UNCHANGED rendered /\ rpc = "idle" /\ rpc' \in {"idle", "read"}
  BY <1>1 DEF Begin, objects
<1>2. CASE Fails \/ DeletionWaits \/ NotUsed \/ Release
  BY <1>2 DEF Fails, DeletionWaits, NotUsed, Release, Return, objects
<1>3. CASE EnsureFinalizer \/ CreateAuthSecret
  BY <1>3 DEF EnsureFinalizer, CreateAuthSecret, ToRender, Checked, Return, Go
<1>4. CASE \/ Refuse \/ AuthSecretExists \/ SecretNotAllowed
           \/ RenderRefused \/ RenderFails \/ StatusRendered
  BY <1>4 DEF Refuse, AuthSecretExists, SecretNotAllowed, RenderRefused,
     RenderFails, StatusRendered, StatusFailed, SetRendered, Return
<1>5. CASE UpsertCreate \/ UpsertUnchanged \/ UpsertPatch
  BY <1>5 DEF UpsertCreate, UpsertUnchanged, UpsertPatch, Return, Go, objects
<1> QED
  BY <1>1, <1>2, <1>3, <1>4, <1>5 DEF Reconcile

\* ValidateSecretOwnership only goes on.
LEMMA AllowedKeeps ==
  ASSUME TypeInv, ValidateSecretOwnership
  PROVE  /\ UNCHANGED <<objects, caches, queue, name, obj, clu, desired>>
         /\ rpc' = "allowed" /\ rpc \in {"read", "checked", "resolve"}
         /\ OwnSecrets(obj.spec, cSecrets)
  BY DEF ValidateSecretOwnership, Resolving, ToRender, Checked, Go

\* The cache had another admin password than the server, or none.
FallbackOld ==
  rendered # NoSecret /\ (cRendered = NoSecret \/ cRendered.admin # rendered.admin)

\* What Render is about to write.
LEMMA RenderServes ==
  ASSUME TypeInv, Render
  PROVE  /\ rpc = "allowed" /\ rpc' = "upsert"
         /\ UNCHANGED <<objects, caches, queue, name, obj, clu>>
         /\ Resolvable(RefsOf(obj.spec), cSecrets)
         /\ \E a : desired' = [config |-> Rendering(obj.spec, cSecrets, a),
                               admin |-> a]
         /\ AdminServed(desired')
         /\ rendered # NoSecret /\ ~FallbackOld => desired'.admin = rendered.admin
<1> DEFINE a == IF cRendered = NoSecret THEN randomPassword ELSE cRendered.admin
<1>1. /\ rpc = "allowed" /\ rpc' = "upsert"
      /\ UNCHANGED <<objects, caches, queue, name, obj, clu>>
      /\ Resolvable(RefsOf(obj.spec), cSecrets)
      /\ desired' = [config |-> Rendering(obj.spec, cSecrets, a), admin |-> a]
  BY DEF Render, RenderWith
<1>2. obj.spec \in Versions
  BY <1>1, Busy, CRTyped DEF TypeInv
<1>3. rendered # NoSecret /\ ~FallbackOld => a = rendered.admin
  BY DEF FallbackOld
<1> HIDE DEF a
<1>4. desired'.config.spec = obj.spec /\ desired'.admin = a
  BY <1>1 DEF Rendering, Generate
<1>5. AdminServed(desired')
  BY <1>1, <1>2, <1>4, AdminFallback DEF AdminServed
<1> QED
  BY <1>1, <1>3, <1>4, <1>5

\* An upsert that goes on found nothing to write, creates the Secret, or takes
\* some of its parts from what is desired.
LEMMA UpsertParts ==
  ASSUME TypeInv, rpc' = "rendered",
         UpsertCreate \/ UpsertUnchanged \/ UpsertPatch
  PROVE  /\ rpc = "upsert" /\ desired \in RenderedSecrets
         /\ UNCHANGED <<cluster, cr, secrets, queue, name, obj, clu>>
         /\ \/ rendered' = rendered /\ cRendered = desired
            \/ rendered = NoSecret /\ rendered' = desired
            \/ /\ rendered # NoSecret /\ rendered' # NoSecret
               /\ cRendered # NoSecret
               /\ rendered'.admin \in {desired.admin, rendered.admin}
               /\ rendered'.config \in {desired.config, rendered.config}
               /\ cRendered = rendered => rendered' = desired
<1>1. rpc = "upsert" /\ desired \in RenderedSecrets
  BY DEF UpsertCreate, UpsertUnchanged, UpsertPatch, TypeInv, WorkerTyped
<1>2. CASE UpsertCreate
  BY <1>1, <1>2 DEF UpsertCreate, Go, Return
<1>3. CASE UpsertUnchanged
  BY <1>1, <1>3 DEF UpsertUnchanged, Go, objects
<1>4. CASE UpsertPatch
  <2>1. /\ rendered # NoSecret /\ cRendered # NoSecret
        /\ UNCHANGED <<cluster, cr, secrets, queue, name, obj, clu>>
        /\ rendered' = [k \in {"config", "admin"} |->
                  IF desired[k] = cRendered[k] THEN rendered[k] ELSE desired[k]]
    BY <1>4 DEF UpsertPatch, Go, Return
  <2>2. rendered \in RenderedSecrets
    BY <2>1 DEF TypeInv, ServerTyped, MaybeRendered
  <2>3. /\ rendered'.admin \in {desired.admin, rendered.admin}
        /\ rendered'.config \in {desired.config, rendered.config}
    BY <2>1
  <2>4. rendered' \in RenderedSecrets
    BY <1>1, <2>1, <2>2 DEF RenderedSecrets
  <2>5. cRendered = rendered => rendered' = desired
    BY <1>1, <2>1, <2>2 DEF RenderedSecrets
  <2> QED
    BY <1>1, <2>1, <2>3, <2>4, <2>5, AbsentAssumption
<1> QED
  BY <1>1, <1>2, <1>3, <1>4

\* What no step of the hooks, the users, the informers and the replicas does.
LEMMA OthersKeepRendered ==
  ASSUME HookStep \/ CollectGarbage \/ Edit \/ Sync \/ UNCHANGED vars
  PROVE  /\ rendered' \in {rendered, NoSecret} /\ rpc' = rpc
         /\ desired' = desired /\ UNCHANGED history
         /\ cRendered' \in {cRendered, rendered}
<1>1. CASE HookStep \/ CollectGarbage \/ Edit \/ UNCHANGED vars
  BY <1>1 DEF HookStep, CollectGarbage, Edit, vars, H!PreEnabled, H!PreDisabled,
     H!CleanupSecret, H!CleanupFails, caches, worker
<1>2. CASE Sync
  BY <1>2 DEF Sync, Deliver, SyncCr, SyncCluster, SyncSecrets
<1> QED
  BY <1>1, <1>2

LEMMA AdminInvNext ==
  ASSUME TypeInv, AdminInv, [Next]_vars
  PROVE  AdminInv'
<1>1. CASE ControllerStep
  <2>1. CASE rpc' # "upsert"
    BY <2>1 DEF AdminInv
  <2>2. CASE rpc' = "upsert"
    <3>1. Render
      BY <1>1, <2>2, RenderedCases, AllowedKeeps DEF ControllerStep
    <3>2. ~behind' => ~FallbackOld
      BY <1>1, <2>2, Zenon DEF ControllerStep, FallbackOld
    <3>3. /\ rendered' = rendered /\ AdminServed(desired')
          /\ rendered # NoSecret /\ ~FallbackOld => desired'.admin = rendered.admin
      BY <3>1, RenderServes DEF objects
    <3> QED
      BY <3>2, <3>3 DEF AdminInv, AdminServed
  <2> QED
    BY <2>1, <2>2
<1>2. CASE HookStep \/ CollectGarbage \/ Edit \/ Sync \/ UNCHANGED vars
  <2>1. /\ rendered' \in {rendered, NoSecret} /\ rpc' = rpc
        /\ desired' = desired /\ behind' = behind
    BY <1>2, OthersKeepRendered DEF history
  <2> QED
    BY <2>1 DEF AdminInv, AdminServed
<1>3. CASE LeaderChange
  BY <1>3 DEF LeaderChange, AdminInv
<1> QED
  BY <1>1, <1>2, <1>3, Zenon DEF Next

LEMMA AdminInvInit == Init => AdminInv
  BY DEF Init, WorkerIdle, AdminInv

\* The admin password survives every re-render of a Reconcile that read it while
\* the rendered Secret exists, and is the one in the config it writes for a
\* spec without a reference to one, whichever PgDoorman, version or leader
\* renders it, and whatever becomes of the Secret and of its cache meanwhile.
THEOREM AdminPasswordKept == Spec => AdminPasswordStable
<1> DEFINE Stays == NoSecret \notin {rendered, rendered'} /\ ~behind =>
             /\ rendered'.admin = rendered.admin
             /\ rendered'.config # rendered.config
                   /\ Specs[rendered'.config.spec].adminRef = NoRef =>
                    rendered'.config.passwords[AdminPasswordKey]
                        = rendered.admin
<1>1. TypeInv /\ AdminInv /\ [Next]_vars => AdminInv'
  BY AdminInvNext
<1>2. ASSUME TypeInv, AdminInv, [Next]_vars PROVE [Stays]_vars
  <2>1. CASE rendered' = rendered
    BY <2>1
  <2>2. CASE rendered' # rendered /\ ControllerStep
    <3>1. CASE rendered # NoSecret /\ rendered' # NoSecret /\ ~behind
      <4>1. rpc' = "rendered" /\ (UpsertCreate \/ UpsertUnchanged \/ UpsertPatch)
        BY <1>2, <2>2, RenderedCases, AllowedKeeps, RenderServes
           DEF ControllerStep, objects
      <4>2. /\ rpc = "upsert"
            /\ rendered'.admin \in {desired.admin, rendered.admin}
            /\ rendered'.config \in {desired.config, rendered.config}
        BY <1>2, <2>2, <3>1, <4>1, UpsertParts
      <4>3. desired.admin = rendered.admin /\ AdminServed(desired)
        BY <1>2, <3>1, <4>2 DEF AdminInv
      <4> QED
        BY <4>2, <4>3 DEF AdminServed
    <3> QED
      BY <3>1
  <2>3. CASE rendered' # rendered /\ ~ControllerStep
    <3>1. rendered' \in {rendered, NoSecret}
      BY <1>2, <2>3, OthersKeepRendered DEF Next, LeaderChange
    <3> QED
      BY <2>3, <3>1
  <2> QED
    BY <2>1, <2>2, <2>3
<1> QED
  BY <1>1, <1>2, AdminInvInit, Typing, PTL DEF Spec, AdminPasswordStable
-----------------------------------------------------------------------------
(***************************************************************************)
(* Nothing is forgotten, first part: the finalizers.  What a cache does    *)
(* not show is on its way to it; what a Reconcile works with is what the   *)
(* cache and the server have, or a request for it waits.                   *)
(***************************************************************************)
Waits(n) == n \in queue \/ n \in news

ChangesTold ==
  /\ \A m \in Names : cCr[m] # cr[m] => m \in news
  /\ cCluster # cluster => "cluster" \in news
  /\ \A s \in SecretNames : cSecrets[s] # Visible(secrets[s]) => s \in news

ClusterRead ==
  rpc # "idle" =>
    \/ clu = cCluster
    \/ \A m \in Names : m = clu \/ m = cCluster => m \in queue
ObjectRead == rpc # "idle" => obj = cr[name] \/ Waits(name)
FinalizerRead ==
  rpc \in {"checked", "resolve", "allowed", "upsert", "rendered"} =>
    obj.finalizer = (clu = name)
RenderRead ==
  rpc \in {"resolve", "allowed", "upsert", "rendered"} =>
    obj.spec \in Renderable /\ clu = name
ReadInv == ClusterRead /\ ObjectRead /\ FinalizerRead /\ RenderRead

\* The API server keeps no deleted object without a finalizer.
Held == \A n \in Names : cr[n] # NoCR /\ cr[n].deleting => cr[n].finalizer

FinalizerKept ==
  \A m \in Names :
    cr[m] # NoCR =>
      \/ cr[m].finalizer = (cCluster = m)
      \/ Waits(m) \/ name = m

FinalizerInv == ChangesTold /\ ReadInv /\ Held /\ FinalizerKept

LEMMA Told ==
  ASSUME Notify
  PROVE  /\ \A x \in news : x \in news'
         /\ \A m \in Names : cr'[m] # cr[m] => m \in news'
         /\ cluster' # cluster => "cluster" \in news'
         /\ \A s \in SecretNames :
               Visible(secrets'[s]) # Visible(secrets[s]) => s \in news'
  BY DEF Notify

LEMMA ToldServer ==
  ASSUME ChangesTold, Notify, UNCHANGED caches
  PROVE  ChangesTold'
<1>1. \A m \in Names : cCr'[m] # cr'[m] => m \in news'
  BY Told DEF ChangesTold, caches
<1>2. cCluster' # cluster' => "cluster" \in news'
  BY Told DEF ChangesTold, caches
<1>3. ASSUME NEW s \in SecretNames
      PROVE  cSecrets'[s] # Visible(secrets'[s]) => s \in news'
  BY Told DEF ChangesTold, caches
<1> QED
  BY <1>1, <1>2, <1>3 DEF ChangesTold, Visible

LEMMA ToldSync ==
  ASSUME TypeInv, ChangesTold, Sync \/ LeaderChange
  PROVE  ChangesTold'
<1>n. /\ \A n \in Names : n \notin SecretNames /\ n # "cluster"
      /\ "cluster" \notin SecretNames
  BY NameAssumption
<1>1. ASSUME NEW n \in Names, Deliver(SyncCr(n)) PROVE ChangesTold'
  <2>1. /\ news' = news \ {n} /\ cCr' = [cCr EXCEPT ![n] = cr[n]]
        /\ UNCHANGED <<cCluster, cSecrets, cluster, cr, secrets>>
    BY <1>1 DEF Deliver, SyncCr
  <2>2. cCr \in [Names -> CRs \cup {NoCR}]
    BY DEF TypeInv, CachesTyped, CRMap
  <2> QED
    BY <1>n, <2>1, <2>2 DEF ChangesTold, Visible
<1>2. CASE Deliver(SyncCluster)
  BY <1>2, <1>n DEF Deliver, SyncCluster, ChangesTold, Visible
<1>3. CASE Deliver(SyncSecrets)
  BY <1>3, <1>n DEF Deliver, SyncSecrets, Cached, ChangesTold, Visible
<1>4. CASE LeaderChange
  <2>1. PICK late \in SUBSET (Names \cup {"cluster", "secrets"}) : OtherCaches(late)
    BY <1>4 DEF LeaderChange
  <2>2. UNCHANGED <<cluster, cr, secrets>>
    BY <1>4 DEF LeaderChange
  <2>3. \A m \in Names : cCr'[m] # cr'[m] => m \in news'
    BY <2>1, <2>2 DEF OtherCaches, ChangesTold
  <2>4. cCluster' # cluster' => "cluster" \in news'
    BY <2>1, <2>2 DEF OtherCaches, ChangesTold
  <2>5. ASSUME NEW x \in SecretNames, cSecrets'[x] # Visible(secrets[x])
        PROVE  x \in news'
    <3>1. "secrets" \in late
      BY <2>1, <2>5 DEF OtherCaches, Cached
    <3> QED
      BY <2>1, <2>5, <3>1 DEF OtherCaches, ChangesTold
  <2> QED
    BY <2>2, <2>3, <2>4, <2>5 DEF ChangesTold, Visible
<1> QED
  BY <1>1, <1>2, <1>3, <1>4 DEF Sync

\* A new leader has a request for every PgDoorman, or will have one.
LEMMA LeaderKeeps ==
  ASSUME TypeInv, ChangesTold, LeaderChange
  PROVE  /\ UNCHANGED <<cluster, cr, secrets, rendered>> /\ UNCHANGED hooks
         /\ rpc' = "idle" /\ name' = NoName
         /\ cRendered' \in {cRendered, rendered}
         /\ \A m \in Names : cr[m] # NoCR => Waits(m)'
<1>1. PICK late \in SUBSET (Names \cup {"cluster", "secrets"}) : OtherCaches(late)
  BY DEF LeaderChange
<1>2. /\ UNCHANGED <<cluster, cr, secrets, rendered>> /\ UNCHANGED hooks
      /\ rpc' = "idle" /\ name' = NoName
      /\ queue' = {m \in Names : cCr'[m] # NoCR}
  BY DEF LeaderChange
<1>3. cRendered' \in {cRendered, rendered}
  BY <1>1 DEF OtherCaches
<1>4. ASSUME NEW m \in Names, cr[m] # NoCR PROVE Waits(m)'
  <2>1. CASE cCr'[m] # NoCR
    BY <1>2, <2>1 DEF Waits
  <2>2. CASE cCr'[m] = NoCR
    <3>1. m \in late /\ cCr[m] # cr[m]
      BY <1>1, <1>4, <2>2 DEF OtherCaches
    <3> QED
      BY <1>1, <3>1 DEF OtherCaches, ChangesTold, Waits
  <2> QED
    BY <2>1, <2>2
<1> QED
  BY <1>2, <1>3, <1>4
(***************************************************************************)
(* The steps of Reconcile: it begins, goes on with what it has read,       *)
(* patches the finalizer, or returns.  Where it returns without a request  *)
(* for more, what it was there for is settled.                             *)
(***************************************************************************)
Onward ==
  /\ rpc # "idle" /\ rpc' \in {"resolve", "allowed", "upsert", "rendered"}
  /\ UNCHANGED <<cluster, cr, queue, name, obj, clu>>
  /\ obj.finalizer = (clu = name) /\ obj.spec \in Renderable /\ clu = name

Patched ==
  /\ rpc = "read" /\ rpc' = "checked"
  /\ cr[name] # NoCR
  /\ cr' = [cr EXCEPT ![name] = IF @.deleting THEN NoCR
                                ELSE [@ EXCEPT !.finalizer = (clu = name)]]
  /\ obj' = [cr[name] EXCEPT !.finalizer = (clu = name)]
  /\ UNCHANGED <<cluster, queue, name, clu, secrets, rendered>>

Settled ==
  \/ obj.deleting /\ ~obj.finalizer
  \/ clu # name /\ obj.finalizer = FALSE
  \/ /\ clu = name /\ obj.finalizer = TRUE
     /\ \/ obj.spec \notin Renderable /\ obj.status = "False"
        \/ rpc = "rendered" /\ obj.status = "True" /\ obj.observed = obj.spec

Returned ==
  /\ rpc # "idle" /\ rpc' = "idle" /\ name' = NoName
  /\ queue \subseteq queue'
  /\ UNCHANGED <<cluster, secrets, rendered>>
  /\ \A m \in Names : m # name => cr'[m] = cr[m]
  /\ \/ name \in queue' \/ cr'[name] # cr[name] \/ obj # cr[name]
     \/ Settled

LEMMA SetRenderedReturns ==
  ASSUME TypeInv, rpc # "idle", NEW status, NEW observed, NEW again,
         SetRendered(status, observed, again),
         ~again /\ obj.status = status /\ obj.observed = observed => Settled
  PROVE  Returned
<1> DEFINE new == [obj EXCEPT !.status = status, !.at = obj.spec,
                              !.observed = observed]
<1>1. /\ queue \subseteq queue' /\ rpc' = "idle" /\ name' = NoName
      /\ UNCHANGED <<cluster, secrets, rendered>>
  BY DEF SetRendered, Return
<1>2. new = obj => obj.status = status /\ obj.observed = observed
  BY Busy DEF TypeInv, CRs
<1>3. /\ cr' = cr \/ cr' = [cr EXCEPT ![name] = new]
      /\ name \in queue' \/ ~again
      /\ \/ name \in queue' \/ new = obj
         \/ cr[name] = obj /\ cr' = [cr EXCEPT ![name] = new]
  BY DEF SetRendered, Return
<1> HIDE DEF new
<1>4. name \in Names /\ cr \in [Names -> CRs \cup {NoCR}]
  BY Busy DEF TypeInv, ServerTyped, CRMap
<1>5. \A m \in Names : m # name => cr'[m] = cr[m]
  BY <1>3, <1>4
<1>6. name \in queue' \/ cr'[name] # cr[name] \/ Settled
  BY <1>2, <1>3, <1>4
<1> QED
  BY <1>1, <1>5, <1>6 DEF Returned
LEMMA ReconcileCases ==
  ASSUME TypeInv, FinalizerRead, RenderRead, Reconcile \/ Fails \/ RenderFails
  PROVE  \/ \E n \in Names : Begin(n)
         \/ Onward \/ Patched \/ Returned
<1>b. Checked \/ Resolving => rpc # "idle"
  BY DEF Checked, Resolving, ToRender
<1>t. WorkerTyped /\ ServerTyped
  BY DEF TypeInv
<1>c. ASSUME Checked PROVE obj.finalizer = (clu = name)
  BY <1>c DEF Checked, FinalizerRead, inUse
<1>r. ASSUME Resolving \/ ToRender
      PROVE  obj.spec \in Renderable /\ clu = name /\ obj.finalizer = (clu = name)
  BY <1>r, <1>c DEF Resolving, ToRender, FinalizerRead, RenderRead, inUse
<1>1. CASE Fails
  BY <1>1 DEF Fails, Return, Returned, objects
<1>2. CASE DeletionWaits
  BY <1>2 DEF DeletionWaits, Return, Returned, Settled, objects
<1>3. CASE NotUsed
  BY <1>3, <1>b, <1>c DEF NotUsed, Return, Returned, Settled, objects, inUse
<1>4. CASE Release
  <2>1. name \in Names /\ cr \in [Names -> CRs \cup {NoCR}] /\ obj \in CRs
    BY <1>4, <1>t, Busy DEF Release, ServerTyped, CRMap
  <2>2. \A m \in Names : m # name => cr'[m] = cr[m]
    BY <1>4, <2>1 DEF Release
  <2>3. CASE cr[name] = NoCR
    BY <1>4, <2>2, <2>3 DEF Release, Return, Returned
  <2>4. CASE cr[name] # NoCR
    <3>1. cr[name] \in CRs
      BY <2>1, <2>4
    <3>2. \/ cr'[name] = NoCR
          \/ cr'[name] = [cr[name] EXCEPT !.finalizer = FALSE]
      BY <1>4, <2>1, <2>4 DEF Release
    <3>3. [cr[name] EXCEPT !.finalizer = FALSE].finalizer = FALSE
      BY <3>1 DEF CRs
    <3>4. cr'[name] # cr[name] \/ obj # cr[name]
      BY <1>4, <2>4, <3>2, <3>3 DEF Release
    <3> QED
      BY <1>4, <2>2, <2>4, <3>4 DEF Release, Return, Returned
  <2> QED
    BY <2>3, <2>4
<1>5. CASE EnsureFinalizer
  <2>1. CASE cr[name] = NoCR \/ (inUse /\ cr[name].deleting)
    BY <1>5, <2>1 DEF EnsureFinalizer, Return, Returned
  <2>2. CASE ~(cr[name] = NoCR \/ (inUse /\ cr[name].deleting))
    BY <1>5, <2>2 DEF EnsureFinalizer, Patched, inUse
  <2> QED
    BY <2>1, <2>2
<1>6. CASE Refuse
  <2>1. rpc # "idle" /\ (obj.status = "False" => Settled)
    BY <1>6, <1>b, <1>c DEF Refuse, Settled, inUse
  <2> QED
    BY <1>6, <2>1, SetRenderedReturns DEF Refuse, StatusFailed
<1>7. CASE AuthSecretExists \/ SecretNotAllowed \/ RenderRefused \/ RenderFails
  <2>1. rpc # "idle" /\ obj.spec \in Renderable
    BY <1>7, <1>b, <1>r DEF AuthSecretExists, SecretNotAllowed, RenderRefused,
       RenderFails, ToRender, RenderRead
  <2> QED
    BY <1>7, <2>1, SetRenderedReturns
       DEF AuthSecretExists, SecretNotAllowed, RenderRefused, RenderFails, StatusFailed
<1>8. CASE CreateAuthSecret \/ ValidateSecretOwnership \/ Render
  <2>1. CASE CreateAuthSecret \/ ValidateSecretOwnership
    BY <2>1, <1>b, <1>r
       DEF CreateAuthSecret, ValidateSecretOwnership, ToRender, Go, Onward, objects
  <2>2. CASE Render
    BY <2>2 DEF Render, RenderWith, FinalizerRead, RenderRead, Onward, objects
  <2> QED
    BY <1>8, <2>1, <2>2
<1>9. CASE UpsertCreate \/ UpsertUnchanged \/ UpsertPatch
  <2>1. rpc = "upsert" /\ (Go("rendered") \/ Return(TRUE)) /\ UNCHANGED <<cluster, cr, secrets>>
          /\ (Return(TRUE) => UNCHANGED rendered)
    BY <1>9 DEF UpsertCreate, UpsertUnchanged, UpsertPatch, objects, Return, Go
  <2>2. CASE Go("rendered")
    BY <2>1, <2>2 DEF Go, Onward, FinalizerRead, RenderRead
  <2>3. CASE Return(TRUE)
    BY <2>1, <2>3 DEF Return, Returned
  <2> QED
    BY <2>1, <2>2, <2>3
<1>10. CASE StatusRendered
  <2>1. obj.status = "True" /\ obj.observed = obj.spec => Settled
    BY <1>10 DEF StatusRendered, FinalizerRead, RenderRead, Settled
  <2> QED
    BY <1>10, <2>1, SetRenderedReturns DEF StatusRendered
<1> QED
  BY <1>1, <1>2, <1>3, <1>4, <1>5, <1>6, <1>7, <1>8, <1>9, <1>10 DEF Reconcile
\* Steps of the hooks, the users and the garbage collector.
ServerStep == Notify /\ UNCHANGED <<caches, worker>>

LEMMA ServerSteps ==
  ASSUME (HookStep \/ CollectGarbage \/ Edit) /\ Notify
  PROVE  ServerStep
  BY DEF HookStep, CollectGarbage, Edit, ServerStep

\* A delivery turns what it delivers into requests.
LEMMA SyncKeeps ==
  ASSUME Sync
  PROVE  /\ UNCHANGED <<cluster, cr, secrets, rendered, rpc, name, obj, clu, desired>>
         /\ UNCHANGED hooks
         /\ \A m \in queue : m \in queue'
         /\ \A m \in Names : m \in news => m \in news' \/ m \in queue'
         /\ \/ cCluster' = cCluster
            \/ \A m \in Names : m = cCluster \/ m = cCluster' => m \in queue'
<1>0. /\ UNCHANGED <<cluster, cr, secrets, rendered, rpc, name, obj, clu, desired>>
      /\ UNCHANGED hooks
  BY DEF Sync, Deliver
<1>n. \A n \in Names : n \notin SecretNames /\ n # "cluster"
  BY NameAssumption
<1>1. ASSUME NEW n \in Names, SyncCr(n)
      PROVE  /\ \A m \in queue : m \in queue'
             /\ \A m \in Names : m \in news => m \in news' \/ m \in queue'
             /\ cCluster' = cCluster
  BY <1>1 DEF SyncCr
<1>2. CASE SyncCluster
  BY <1>0, <1>2, <1>n DEF SyncCluster
<1>3. CASE SyncSecrets
  BY <1>0, <1>3, <1>n DEF SyncSecrets
<1> QED
  BY <1>0, <1>1, <1>2, <1>3 DEF Sync, Deliver

LEMMA ReadInvNext ==
  ASSUME TypeInv, FinalizerInv, [Next]_vars
  PROVE  ReadInv'
<1> USE DEF FinalizerInv, ReadInv
<1>1. CASE ControllerStep /\ Notify
  <2>0. /\ Reconcile \/ Fails \/ RenderFails
        /\ UNCHANGED caches
    BY <1>1, ReconcileTyped DEF ControllerStep
  <2>1. ASSUME NEW n \in Names, Begin(n) PROVE ReadInv'
    <3>1. CASE cCr[n] = NoCR
      BY <2>1, <3>1 DEF Begin, ClusterRead, ObjectRead, FinalizerRead, RenderRead
    <3>2. CASE cCr[n] # NoCR
      BY <1>1, <2>1, <3>2, Told DEF Begin, ClusterRead, ObjectRead, FinalizerRead,
         RenderRead, ChangesTold, Waits, objects, caches
    <3> QED
      BY <3>1, <3>2
  <2>2. CASE Onward
    <3>1. ClusterRead'
      BY <2>0, <2>2 DEF Onward, ClusterRead, caches
    <3>2. ObjectRead'
      BY <1>1, <2>2, Told DEF Onward, ObjectRead, Waits
    <3> QED
      BY <2>2, <3>1, <3>2 DEF Onward, FinalizerRead, RenderRead
  <2>3. CASE Patched
    <3>0. name \in Names /\ cr[name] \in CRs /\ cr \in [Names -> CRs \cup {NoCR}]
      BY <2>3, Busy DEF Patched, TypeInv, ServerTyped, CRMap
    <3>1. ClusterRead'
      BY <2>0, <2>3 DEF Patched, ClusterRead, caches
    <3>2. obj' = cr'[name] \/ cr'[name] # cr[name]
      BY <2>3, <3>0 DEF Patched
    <3>3. ObjectRead'
      BY <1>1, <2>3, <3>0, <3>2, Told DEF Patched, ObjectRead, Waits
    <3>4. obj'.finalizer = (clu' = name')
      BY <2>3, <3>0 DEF Patched, CRs
    <3> QED
      BY <2>3, <3>1, <3>3, <3>4 DEF Patched, FinalizerRead, RenderRead
  <2>4. CASE Returned
    BY <2>4 DEF Returned, ClusterRead, ObjectRead, FinalizerRead, RenderRead
  <2> QED
    BY <2>0, <2>1, <2>2, <2>3, <2>4, ReconcileCases
<1>2. CASE ServerStep
  <2>1. rpc # "idle" => name \in Names
    BY Busy DEF TypeInv
  <2>2. ObjectRead'
    BY <1>2, <2>1, Told DEF ServerStep, ObjectRead, Waits, worker
  <2> QED
    BY <1>2, <2>2 DEF ServerStep, ClusterRead, FinalizerRead, RenderRead, caches, worker
<1>3. CASE Sync
  <2>0. UNCHANGED <<cr, rpc, name, obj, clu>>
    BY <1>3, SyncKeeps
  <2>1. /\ \A m \in queue : m \in queue'
        /\ \A m \in Names : m \in news => m \in news' \/ m \in queue'
        /\ \/ cCluster' = cCluster
           \/ \A m \in Names : m = cCluster \/ m = cCluster' => m \in queue'
    BY <1>3, SyncKeeps
  <2>2. rpc # "idle" => name \in Names
    BY Busy DEF TypeInv
  <2>3. ObjectRead'
    BY <2>0, <2>1, <2>2 DEF ObjectRead, Waits
  <2>4. ClusterRead'
    BY <2>0, <2>1 DEF ClusterRead
  <2> QED
    BY <2>0, <2>3, <2>4 DEF FinalizerRead, RenderRead
<1>4. CASE LeaderChange
  BY <1>4 DEF LeaderChange, ClusterRead, ObjectRead, FinalizerRead, RenderRead
<1>5. CASE UNCHANGED vars
  BY <1>5 DEF vars, caches, worker, ClusterRead, ObjectRead, FinalizerRead,
     RenderRead, Waits
<1> QED
  BY <1>1, <1>2, <1>3, <1>4, <1>5, ServerSteps, Zenon DEF Next
LEMMA HeldNext ==
  ASSUME TypeInv, FinalizerInv, [Next]_vars
  PROVE  Held'
<1> USE DEF FinalizerInv, ReadInv
<1>t. cr \in [Names -> CRs \cup {NoCR}]
  BY DEF TypeInv, ServerTyped, CRMap
<1> DEFINE Kept(m) == cr'[m] # NoCR /\ cr'[m].deleting => cr'[m].finalizer
<1>0. ASSUME NEW n \in Names, \A m \in Names : m # n => cr'[m] = cr[m], Kept(n)
      PROVE  Held'
  BY <1>0 DEF Held
<1>u. ASSUME cr' = cr PROVE Held'
  BY <1>u DEF Held
<1>1. CASE Reconcile \/ Fails \/ RenderFails
  <2>s. ASSUME NEW status, NEW observed, NEW again, rpc # "idle",
               SetRendered(status, observed, again)
        PROVE  Held'
    <3> DEFINE new == [obj EXCEPT !.status = status, !.at = obj.spec,
                                  !.observed = observed]
    <3>1. \/ cr' = cr
          \/ cr[name] = obj /\ cr' = [cr EXCEPT ![name] = new]
      BY <2>s DEF SetRendered
    <3>2. name \in Names /\ obj \in CRs /\ obj # NoCR
      BY <2>s, Busy, AbsentAssumption DEF TypeInv
    <3>3. new.deleting = obj.deleting /\ new.finalizer = obj.finalizer
      BY <3>2 DEF CRs
    <3> HIDE DEF new
    <3>4. CASE cr[name] = obj /\ cr' = [cr EXCEPT ![name] = new]
      <4>1. obj.deleting => obj.finalizer
        BY <3>2, <3>4 DEF Held
      <4>2. Kept(name)
        BY <1>t, <3>2, <3>3, <3>4, <4>1
      <4> QED
        BY <1>0, <1>t, <3>2, <3>4, <4>2
    <3> QED
      BY <1>u, <3>1, <3>4
  <2>b. Checked \/ Resolving \/ ToRender => rpc # "idle"
    BY DEF Checked, Resolving, ToRender
  <2>1. CASE \/ Refuse \/ AuthSecretExists \/ SecretNotAllowed
             \/ RenderRefused \/ RenderFails \/ StatusRendered
    BY <2>1, <2>b, <2>s DEF Refuse, AuthSecretExists, SecretNotAllowed,
       RenderRefused, RenderFails, StatusRendered, StatusFailed
  <2>2. CASE Release \/ EnsureFinalizer
    <3>1. /\ name \in Names
          /\ \/ cr' = cr
             \/ /\ cr[name] # NoCR
                /\ \E b : cr' = [cr EXCEPT ![name] =
                       IF @.deleting THEN NoCR ELSE [@ EXCEPT !.finalizer = b]]
      BY <2>2, Busy DEF Release, EnsureFinalizer, TypeInv
    <3>2. CASE cr' # cr
      <4>1. PICK b : cr' = [cr EXCEPT ![name] =
                       IF @.deleting THEN NoCR ELSE [@ EXCEPT !.finalizer = b]]
        BY <3>1, <3>2
      <4>2. cr[name] \in CRs
        BY <1>t, <3>1, <3>2
      <4>3. [cr[name] EXCEPT !.finalizer = b].deleting = cr[name].deleting
        BY <4>2 DEF CRs
      <4>4. Kept(name)
        BY <1>t, <3>1, <4>1, <4>3
      <4> QED
        BY <1>0, <1>t, <3>1, <4>1, <4>4
    <3> QED
      BY <1>u, <3>2
  <2>3. CASE cr' = cr
    BY <1>u, <2>3
  <2> QED
    BY <1>1, <2>1, <2>2, <2>3
       DEF Reconcile, Begin, Fails, DeletionWaits, NotUsed, CreateAuthSecret,
           ValidateSecretOwnership, Render, RenderWith, UpsertCreate, UpsertUnchanged, UpsertPatch, objects
<1>2. ASSUME NEW n \in Names, EditCR(n) PROVE Held'
  <2>1. CASE cr[n] = NoCR
    <3>1. cr' = [cr EXCEPT ![n] = NewCR(version')] /\ ~NewCR(version').deleting
      BY <1>2, <2>1 DEF EditCR, NewCR
    <3> QED
      BY <1>0, <1>t, <3>1
  <2>2. CASE cr[n] # NoCR
    <3>1. cr[n] \in CRs
      BY <1>t, <2>2
    <3>2. cr' = [cr EXCEPT ![n] = [cr[n] EXCEPT !.spec = version']]
      BY <1>2, <2>2 DEF EditCR
    <3>3. /\ [cr[n] EXCEPT !.spec = version'].deleting = cr[n].deleting
          /\ [cr[n] EXCEPT !.spec = version'].finalizer = cr[n].finalizer
      BY <3>1 DEF CRs
    <3>4. Kept(n)
      BY <1>t, <2>2, <3>2, <3>3 DEF Held
    <3> QED
      BY <1>0, <1>t, <3>2, <3>4
  <2> QED
    BY <2>1, <2>2
<1>3. ASSUME NEW n \in Names, DeleteCR(n) PROVE Held'
  <2>1. cr[n] \in CRs
    BY <1>3, <1>t DEF DeleteCR
  <2>2. [cr[n] EXCEPT !.deleting = TRUE].finalizer = cr[n].finalizer
    BY <2>1 DEF CRs
  <2>3. Kept(n) /\ \A m \in Names : m # n => cr'[m] = cr[m]
    BY <1>3, <1>t, <2>2 DEF DeleteCR
  <2> QED
    BY <1>0, <2>3
<1> QED
  BY <1>1, <1>2, <1>3, <1>u, SyncKeeps
     DEF Next, ControllerStep, HookStep, CollectGarbage, Edit, UsePlugin, LeavePlugin,
         PutSecret, LeaderChange, vars
LEMMA FinalizerKeptNext ==
  ASSUME TypeInv, FinalizerInv, [Next]_vars
  PROVE  FinalizerKept'
<1> USE DEF FinalizerInv, ReadInv
<1> SUFFICES ASSUME NEW m \in Names, cr'[m] # NoCR
             PROVE  \/ cr'[m].finalizer = (cCluster' = m)
                    \/ Waits(m)' \/ name' = m
  BY DEF FinalizerKept, Waits
<1>1. CASE ControllerStep /\ Notify
  <2>0. /\ Reconcile \/ Fails \/ RenderFails
        /\ UNCHANGED caches
    BY <1>1, ReconcileTyped DEF ControllerStep
  <2>n. /\ m \in news => m \in news'
        /\ cr'[m] # cr[m] => m \in news'
    BY <1>1, Told
  <2>1. ASSUME NEW n \in Names, Begin(n)
        PROVE  cr'[m].finalizer = (cCluster' = m) \/ Waits(m)' \/ name' = m
    <3>1. cr' = cr /\ cCluster' = cCluster /\ queue' = queue \ {n} /\ name = NoName
      BY <2>0, <2>1 DEF Begin, objects, caches, TypeInv, WorkerTyped
    <3>2. name # m
      BY <3>1, NameAssumption
    <3>3. CASE m # n
      BY <2>n, <3>1, <3>2, <3>3 DEF FinalizerKept, Waits
    <3>4. CASE m = n
      BY <2>1, <2>n, <3>1, <3>4 DEF Begin, ChangesTold, Waits
    <3> QED
      BY <3>3, <3>4
  <2>2. CASE Onward
    BY <2>0, <2>2, <2>n DEF Onward, FinalizerKept, Waits, caches
  <2>3. CASE Patched
    BY <2>0, <2>3, <2>n DEF Patched, FinalizerKept, Waits, caches
  <2>4. CASE Returned
    <3>1. Waits(m) => Waits(m)'
      BY <2>4, <2>n DEF Returned, Waits
    <3>2. CASE m # name
      BY <2>0, <2>4, <3>1, <3>2 DEF Returned, FinalizerKept, caches
    <3>3. CASE /\ m = name /\ Settled
               /\ obj = cr[name] /\ cr'[name] = cr[name]
      <4>1. ~(obj.deleting /\ ~obj.finalizer)
        BY <3>3 DEF Held
      <4>2. CASE clu = cCluster
        BY <2>0, <3>3, <4>1, <4>2 DEF Settled, caches
      <4>3. CASE m = cCluster \/ m = clu => m \in queue
        BY <2>0, <3>1, <3>3, <4>1, <4>3 DEF Settled, caches, Waits
      <4> QED
        BY <2>4, <4>2, <4>3 DEF ClusterRead, Returned
    <3> QED
      BY <2>4, <2>n, <3>1, <3>2, <3>3 DEF Returned, ObjectRead, Waits
  <2> QED
    BY <2>0, <2>1, <2>2, <2>3, <2>4, ReconcileCases
<1>2. CASE ServerStep
  BY <1>2, Told DEF ServerStep, FinalizerKept, Waits, caches, worker
<1>3. CASE Sync
  <2>1. /\ UNCHANGED <<cr, name>> /\ (Waits(m) => Waits(m)')
        /\ cCluster' = cCluster \/ (m = cCluster \/ m = cCluster' => m \in queue')
    BY <1>3, SyncKeeps DEF Waits
  <2> QED
    BY <2>1 DEF FinalizerKept, Waits
<1>4. CASE LeaderChange
  BY <1>4, LeaderKeeps
<1>5. CASE UNCHANGED vars
  BY <1>5 DEF vars, caches, worker, FinalizerKept, Waits
<1> QED
  BY <1>1, <1>2, <1>3, <1>4, <1>5, ServerSteps, Zenon DEF Next

LEMMA FinalizerInvNext ==
  ASSUME TypeInv, FinalizerInv, [Next]_vars
  PROVE  FinalizerInv'
<1>1. ChangesTold'
  <2>1. CASE ControllerStep /\ Notify
    BY <2>1, ReconcileTyped, ToldServer DEF ControllerStep, FinalizerInv
  <2>2. CASE ServerStep
    BY <2>2, ToldServer DEF ServerStep, FinalizerInv
  <2>3. CASE Sync \/ LeaderChange
    BY <2>3, ToldSync DEF FinalizerInv
  <2>4. CASE UNCHANGED vars
    BY <2>4 DEF vars, caches, FinalizerInv, ChangesTold, Visible
  <2> QED
    BY <2>1, <2>2, <2>3, <2>4, ServerSteps, Zenon DEF Next
<1> QED
  BY <1>1, ReadInvNext, HeldNext, FinalizerKeptNext DEF FinalizerInv

LEMMA FinalizerInvInit == Init => FinalizerInv
<1> SUFFICES ASSUME Init PROVE FinalizerInv
  OBVIOUS
<1>1. ChangesTold
  BY FirstRendering DEF Init, ChangesTold
<1>2. ReadInv
  BY DEF Init, WorkerIdle, ReadInv, ClusterRead, ObjectRead, FinalizerRead, RenderRead
<1>3. ASSUME NEW n \in Names
      PROVE  cr[n].finalizer = (n = Initial) /\ cr[n].deleting = FALSE
  BY <1>3 DEF Init, NewCR
<1>4. cCluster = Initial
  BY DEF Init
<1> QED
  BY <1>1, <1>2, <1>3, <1>4 DEF FinalizerInv, Held, FinalizerKept

\* The part of NothingForgotten that needs no assumption.
FinalizersSettled ==
  Quiescent =>
    \A n \in {m \in Names : cr[m] # NoCR} : cr[n].finalizer <=> cluster = n

LEMMA QuiescentFinalizers ==
  ASSUME TypeInv, FinalizerInv
  PROVE  FinalizersSettled
<1> SUFFICES ASSUME Quiescent, NEW n \in Names, cr[n] # NoCR
             PROVE  cr[n].finalizer <=> cluster = n
  BY DEF FinalizersSettled
<1>1. queue = {} /\ news = {} /\ name # n
  BY NameAssumption DEF Quiescent, TypeInv, WorkerTyped
<1>2. cCluster = cluster
  BY <1>1 DEF FinalizerInv, ChangesTold
<1>3. cr[n].finalizer = (cluster = n)
  BY <1>1, <1>2 DEF FinalizerInv, FinalizerKept, Waits
<1> QED
  BY <1>3

\* When the controller has nothing left to do, exactly the PgDoorman the
\* Cluster names has the finalizer, however caches lagged, patches met
\* concurrent edits, calls failed and leaders changed, and even where the
\* Cluster returns before a cleanup is over.
THEOREM FinalizersFollowUse == Spec => []FinalizersSettled
<1>1. TypeInv /\ FinalizerInv /\ [Next]_vars => FinalizerInv'
  BY FinalizerInvNext
<1>2. TypeInv /\ FinalizerInv => FinalizersSettled
  BY QuiescentFinalizers
<1> QED
  BY <1>1, <1>2, FinalizerInvInit, Typing, PTL DEF Spec
-----------------------------------------------------------------------------
(***************************************************************************)
(* Nothing is forgotten, second part: the rendered Secret.  The rendering  *)
(* of the PgDoorman in use is there, a Reconcile is about to write it, or  *)
(* something waits that will bring one: a request, or the delivery of the  *)
(* object or of a Secret it references.  This takes that no Reconcile began*)
(* before earlier writes to the Secret were in the cache: one that has not *)
(* written yet then knows the rendered Secret, if there is one.            *)
(***************************************************************************)
Unwritten == {"read", "checked", "resolve", "allowed", "upsert"}
RenderedKnown ==
  ~lagged /\ rpc \in Unwritten /\ rendered # NoSecret => cRendered = rendered

HoldsIn(all, r, v) ==
  /\ r # NoSecret
  /\ SecretsAllowed(v, all)
  /\ r.config = Rendering(v, all, r.admin)
SecretNews(v) == \E q \in RefsOf(v) : q.secret \in news

\* Cleanup works only where no Cluster uses the plugin, and a Cluster that
\* uses it finds no trace of an earlier rendered Secret.
CleanupOff == hpc = "cleanup" => cluster \notin Names
NoneCached == cluster \in Names /\ rendered = NoSecret => cRendered = NoSecret

\* A Secret the worker has found allowed is still so, or its change wakes it.
AllowedRight ==
  rpc = "allowed" =>
    \/ OwnSecrets(obj.spec, cSecrets)
    \/ SecretNews(obj.spec) \/ Waits(name)
DesiredRight ==
  rpc = "upsert" =>
    \/ HoldsIn(secrets, desired, obj.spec)
    \/ SecretNews(obj.spec) \/ Waits(name)
WrittenRight ==
  rpc = "rendered" /\ ~lagged =>
    \/ HoldsIn(secrets, rendered, obj.spec)
    \/ SecretNews(obj.spec) \/ Waits(name)
    \/ cluster # name \/ "cluster" \in news
RenderKept ==
  \A n \in Names :
    cluster = n /\ "cluster" \notin news /\ cr[n] # NoCR
        /\ cr[n].spec \in Renderable /\ ~lagged =>
      \/ IsRendered(n, cr[n].spec)
      \/ Waits(n) \/ name = n \/ SecretNews(cr[n].spec)

RenderInv ==
  /\ RenderedKnown /\ CleanupOff /\ NoneCached
  /\ AllowedRight /\ DesiredRight /\ WrittenRight /\ RenderKept

\* Who began before an earlier write was in the cache is not forgotten.
LEMMA LaggedStays ==
  ASSUME TypeInv, [Next]_vars, ~lagged'
  PROVE  ~lagged /\ (ControllerStep => ~Lags)
<1>1. CASE ControllerStep
  BY <1>1, Zenon DEF ControllerStep
<1>2. CASE ~ControllerStep
  <2>1. UNCHANGED lagged
    BY <1>2, OthersKeepRendered DEF Next, LeaderChange, history
  <2> QED
    BY <1>2, <2>1
<1> QED
  BY <1>1, <1>2

LEMMA RenderedKnownNext ==
  ASSUME TypeInv, ChangesTold, RenderedKnown, [Next]_vars
  PROVE  RenderedKnown'
<1> SUFFICES ASSUME ~lagged', rpc' \in Unwritten, rendered' # NoSecret
             PROVE  cRendered' = rendered'
  BY DEF RenderedKnown
<1>0. ~lagged
  BY LaggedStays
<1>1. CASE ControllerStep
  <2>0. (Reconcile \/ Fails \/ RenderFails) /\ cRendered' = cRendered
    BY <1>1, ReconcileTyped DEF ControllerStep, caches
  <2>1. CASE UNCHANGED rendered /\ rpc = "idle"
    BY <1>1, <2>0, <2>1, LaggedStays DEF Lags
  <2>2. CASE UNCHANGED rendered /\ rpc \in Unwritten
    BY <1>0, <2>0, <2>2 DEF RenderedKnown
  <2> QED
    BY <2>0, <2>1, <2>2, RenderedCases, AllowedKeeps, RenderServes
       DEF Unwritten, objects
<1>2. CASE HookStep \/ CollectGarbage \/ Edit \/ Sync \/ UNCHANGED vars
  BY <1>0, <1>2, OthersKeepRendered DEF RenderedKnown
<1>3. CASE LeaderChange
  BY <1>3, LeaderKeeps DEF Unwritten
<1> QED
  BY <1>1, <1>2, <1>3, Zenon DEF Next

\* What a version was rendered with is visible to the informer, so no change
\* of it goes unnoticed.
LEMMA HoldsStays ==
  ASSUME NEW all, NEW others, NEW r, NEW v, HoldsIn(all, r, v),
         \A q \in RefsOf(v) : Visible(others[q.secret]) = Visible(all[q.secret])
  PROVE  HoldsIn(others, r, v)
<1>1. Agree(v, all, others)
  <2> SUFFICES ASSUME NEW q \in RefsOf(v) PROVE all[q.secret] = others[q.secret]
    BY DEF Agree
  <2>1. all[q.secret] # NoSecret /\ all[q.secret].label = "own"
    BY DEF HoldsIn, SecretsAllowed, OwnSecrets
  <2> QED
    BY <2>1 DEF Visible
<1> QED
  BY <1>1, RenderingAgrees DEF HoldsIn

LEMMA HoldsTold ==
  ASSUME Notify, NEW r, NEW v, HoldsIn(secrets, r, v)
  PROVE  \/ HoldsIn(secrets', r, v)
         \/ \E q \in RefsOf(v) : q.secret \in news'
  BY HoldsStays, RefsAreNames, Told

\* mapSecret wakes the PgDoormans that reference a Secret.
LEMMA SecretNewsSync ==
  ASSUME TypeInv, ChangesTold, Sync, NEW n \in Names, cr[n] # NoCR,
         SecretNews(cr[n].spec)
  PROVE  SecretNews(cr[n].spec)' \/ Waits(n)'
<1> DEFINE v == cr[n].spec
<1>v. v' = v
  BY SyncKeeps
<1>1. CASE n \in news
  BY <1>1, SyncKeeps DEF Waits
<1>2. CASE n \notin news
  <2>1. cCr[n] = cr[n]
    BY <1>2 DEF ChangesTold
  <2>2. PICK q \in RefsOf(v) : q.secret \in news
    BY DEF SecretNews
  <2>3. q.secret \in SecretNames /\ q.secret \notin Names /\ q.secret # "cluster"
    BY <2>2, RefsAreNames, NameAssumption
  <2>4. CASE \E m \in Names : SyncCr(m)
    BY <1>v, <2>2, <2>3, <2>4 DEF SyncCr, SecretNews
  <2>5. CASE SyncCluster
    BY <1>v, <2>2, <2>3, <2>5 DEF SyncCluster, SecretNews
  <2>6. CASE SyncSecrets
    <3>1. \E x \in References : x[1] = v /\ x[2] = q
      BY <2>2 DEF RefsOf
    <3>2. n \in mapSecret(q.secret)
      BY <2>1, <3>1 DEF mapSecret, Referring
    <3>3. n \in queue'
      BY <2>2, <2>3, <2>6, <3>2 DEF SyncSecrets
    <3> QED
      BY <3>3 DEF Waits
  <2> QED
    BY <2>4, <2>5, <2>6 DEF Sync, Deliver
<1> QED
  BY <1>1, <1>2

\* A delivery of the Cluster wakes the PgDoorman it names.
LEMMA ClusterNewsSync ==
  ASSUME Sync, "cluster" \in news, cluster \in Names
  PROVE  "cluster" \in news' \/ cluster \in queue'
<1>1. CASE \E m \in Names : SyncCr(m)
  BY <1>1, NameAssumption DEF SyncCr
<1>2. CASE SyncCluster
  BY <1>2 DEF SyncCluster
<1>3. CASE SyncSecrets
  BY <1>3, NameAssumption DEF SyncSecrets
<1> QED
  BY <1>1, <1>2, <1>3 DEF Sync, Deliver
\* While the Cluster uses the plugin, only Reconcile writes the Secret.
LEMMA ServerKeepsRendered ==
  ASSUME CleanupOff, (HookStep \/ CollectGarbage \/ Edit) /\ Notify, cluster \in Names
  PROVE  rendered' = rendered
<1>1. CASE HookStep
  BY <1>1 DEF HookStep, CleanupOff, H!PreEnabled, H!PreDisabled, H!CleanupSecret,
     H!CleanupFails
<1>2. CASE CollectGarbage
  BY <1>2, NameAssumption DEF CollectGarbage
<1>3. CASE Edit
  BY <1>3 DEF Edit
<1> QED
  BY <1>1, <1>2, <1>3

\* Without Overlap the plugin is enabled only once no trace is left.
LEMMA EnabledClean ==
  ASSUME ~Overlap, Edit, cluster' # cluster, cluster' \in Names
  PROVE  cluster \in Names \/ CleanedUp
<1>1. \E n \in Names : UsePlugin(n)
  BY NameAssumption DEF Edit, EditCR, DeleteCR, LeavePlugin, PutSecret
<1> QED
  BY <1>1 DEF UsePlugin

LEMMA ControllerKeepsCluster ==
  ASSUME ControllerStep
  PROVE  cluster' = cluster
  BY DEF ControllerStep, Reconcile, Begin, Fails, DeletionWaits, Release,
     EnsureFinalizer, NotUsed, Refuse, CreateAuthSecret, AuthSecretExists,
     ValidateSecretOwnership, SecretNotAllowed, Render, RenderWith, RenderRefused, RenderFails, UpsertCreate, UpsertUnchanged,
     UpsertPatch, StatusRendered, StatusFailed, SetRendered, objects

LEMMA CleanupOffNext ==
  ASSUME ~Overlap, TypeInv, CleanupOff, [Next]_vars
  PROVE  CleanupOff'
<1>1. CASE HookStep
  <2>1. cluster' = cluster /\ (hpc' = "cleanup" => cluster = Off)
    BY <1>1 DEF HookStep, H!PreEnabled, H!PreDisabled, H!CleanupSecret,
       H!CleanupFails, CleanupOff
  <2> QED
    BY <2>1, NameAssumption DEF CleanupOff
<1>2. CASE Edit
  <2>1. hpc' = hpc
    BY <1>2 DEF Edit, hooks
  <2> QED
    BY <1>2, <2>1, EnabledClean DEF CleanupOff, CleanedUp
<1>3. CASE ControllerStep
  BY <1>3, ControllerKeepsCluster DEF ControllerStep, hooks, CleanupOff
<1>4. CASE CollectGarbage \/ Sync \/ LeaderChange \/ UNCHANGED vars
  BY <1>4, SyncKeeps DEF CollectGarbage, LeaderChange, vars, hooks, CleanupOff
<1> QED
  BY <1>1, <1>2, <1>3, <1>4, Zenon DEF Next
LEMMA NoneCachedNext ==
  ASSUME ~Overlap, TypeInv, ChangesTold, CleanupOff, NoneCached, [Next]_vars
  PROVE  NoneCached'
<1>1. CASE ControllerStep
  <2>1. /\ Reconcile \/ Fails \/ RenderFails
        /\ cRendered' = cRendered /\ cluster' = cluster
    BY <1>1, ReconcileTyped, ControllerKeepsCluster DEF ControllerStep, caches
  <2>2. rendered' = NoSecret => rendered = NoSecret
    <3>1. CASE /\ rpc' = "rendered"
               /\ UpsertCreate \/ UpsertUnchanged \/ UpsertPatch
      BY <3>1, UpsertParts, AbsentAssumption
    <3> QED
      BY <2>1, <3>1, RenderedCases, AllowedKeeps, RenderServes DEF objects
  <2> QED
    BY <2>1, <2>2 DEF NoneCached
<1>2. CASE (HookStep \/ CollectGarbage \/ Edit) /\ Notify
  <2>1. cRendered' = cRendered
    BY <1>2, ServerSteps DEF ServerStep, caches
  <2>2. CASE cluster \in Names
    BY <1>2, <2>1, <2>2, ServerKeepsRendered DEF NoneCached
  <2>3. CASE cluster \notin Names /\ cluster' \in Names
    <3>1. Edit
      BY <1>2, <2>3 DEF HookStep, CollectGarbage, H!PreEnabled, H!PreDisabled,
         H!CleanupSecret, H!CleanupFails
    <3>2. CleanedUp
      BY <2>3, <3>1, EnabledClean
    <3> QED
      BY <2>1, <3>2 DEF CleanedUp, NoneCached
  <2> QED
    BY <2>2, <2>3 DEF NoneCached
<1>3. CASE Sync
  BY <1>3 DEF Sync, Deliver, SyncCr, SyncCluster, SyncSecrets, NoneCached
<1>4. CASE LeaderChange
  BY <1>4, LeaderKeeps DEF NoneCached
<1>5. CASE UNCHANGED vars
  BY <1>5 DEF vars, caches, NoneCached
<1> QED
  BY <1>1, <1>2, <1>3, <1>4, <1>5, Zenon DEF Next

LEMMA AllowedRightNext ==
  ASSUME TypeInv, FinalizerInv, AllowedRight, [Next]_vars
  PROVE  AllowedRight'
<1> USE DEF FinalizerInv, ReadInv
<1> SUFFICES ASSUME rpc' = "allowed"
             PROVE  \/ OwnSecrets(obj'.spec, cSecrets')
                    \/ SecretNews(obj.spec)' \/ Waits(name)'
  BY DEF AllowedRight, SecretNews, OwnSecrets, Waits
<1>1. CASE ControllerStep
  <2>1. ValidateSecretOwnership
    BY <1>1, RenderedCases, RenderServes DEF ControllerStep
  <2> QED
    BY <2>1, AllowedKeeps DEF caches
<1>2. CASE ServerStep
  <2>1. UNCHANGED <<rpc, name, obj, queue, cSecrets>>
    BY <1>2 DEF ServerStep, worker, caches
  <2>2. SecretNews(obj.spec) => SecretNews(obj.spec)'
    BY <1>2, <2>1, Told DEF ServerStep, SecretNews
  <2>3. Waits(name) => Waits(name)'
    BY <1>2, <2>1, Told DEF ServerStep, Waits
  <2> QED
    BY <2>1, <2>2, <2>3 DEF AllowedRight
<1>3. CASE Sync
  <2>1. UNCHANGED <<cr, secrets, rpc, name, obj>>
    BY <1>3, SyncKeeps
  <2>2. name \in Names /\ obj \in CRs /\ obj # NoCR
    BY <2>1, Busy, AbsentAssumption DEF TypeInv
  <2>3. Waits(name) => Waits(name)'
    BY <1>3, <2>1, <2>2, SyncKeeps DEF Waits
  <2>4. CASE SecretNews(obj.spec) /\ obj = cr[name]
    <3>1. SecretNews(cr[name].spec)' \/ Waits(name)'
      BY <1>3, <2>1, <2>2, <2>4, SecretNewsSync DEF SecretNews, Waits
    <3> QED
      BY <2>1, <2>4, <3>1 DEF SecretNews
  <2>5. CASE ~SecretNews(obj.spec) /\ OwnSecrets(obj.spec, cSecrets)
    <3>1. ASSUME NEW q \in RefsOf(obj.spec)
          PROVE  cSecrets'[q.secret] = cSecrets[q.secret]
      <4>1. q.secret \in SecretNames /\ q.secret \notin news
        BY <2>5, RefsAreNames DEF SecretNews
      <4>2. cSecrets[q.secret] = Visible(secrets[q.secret])
        BY <4>1 DEF ChangesTold
      <4> QED
        BY <1>3, <4>1, <4>2
           DEF Sync, Deliver, SyncCr, SyncCluster, SyncSecrets, Cached
    <3> QED
      BY <2>1, <2>5, <3>1 DEF OwnSecrets
  <2> QED
    BY <2>1, <2>3, <2>4, <2>5 DEF AllowedRight, ObjectRead
<1>4. CASE LeaderChange
  BY <1>4 DEF LeaderChange
<1>5. CASE UNCHANGED vars
  BY <1>5 DEF vars, caches, worker, AllowedRight, SecretNews, Waits
<1> QED
  BY <1>1, <1>2, <1>3, <1>4, <1>5, ServerSteps, Zenon DEF Next

LEMMA DesiredRightNext ==
  ASSUME TypeInv, FinalizerInv, AllowedRight, DesiredRight, [Next]_vars
  PROVE  DesiredRight'
<1> USE DEF FinalizerInv, ReadInv
<1> SUFFICES ASSUME rpc' = "upsert"
             PROVE  \/ HoldsIn(secrets', desired', obj'.spec)
                    \/ SecretNews(obj.spec)' \/ Waits(name)'
  BY DEF DesiredRight, SecretNews, HoldsIn, Waits
<1>1. CASE ControllerStep /\ Notify
  <2>1. Render
    BY <1>1, RenderedCases, AllowedKeeps DEF ControllerStep
  <2> DEFINE v == obj.spec
  <2>2. /\ rpc = "allowed" /\ Resolvable(RefsOf(v), cSecrets)
        /\ UNCHANGED <<secrets, queue, name, obj>>
    BY <2>1, RenderServes DEF objects
  <2>3. PICK a : desired' = [config |-> Rendering(v, cSecrets, a), admin |-> a]
    BY <2>1, RenderServes
  <2>4. desired' # NoSecret
    BY <1>1, ReconcileTyped, AbsentAssumption DEF ControllerStep, WorkerTyped
  <2>5. CASE SecretNews(v) \/ Waits(name)
    BY <1>1, <2>2, <2>5, Told DEF SecretNews, Waits
  <2>6. CASE ~SecretNews(v) /\ OwnSecrets(v, cSecrets)
    <3>1. SecretsAllowed(v, cSecrets)
      BY <2>2, <2>6 DEF SecretsAllowed
    <3>2. Agree(v, cSecrets, secrets)
      <4> SUFFICES ASSUME NEW q \in RefsOf(v)
                   PROVE  cSecrets[q.secret] = secrets[q.secret]
        BY DEF Agree
      <4>1. cSecrets[q.secret] = Visible(secrets[q.secret])
        BY <2>6, RefsAreNames DEF SecretNews, ChangesTold
      <4>2. cSecrets[q.secret] # NoSecret
        BY <2>6 DEF OwnSecrets
      <4> QED
        BY <4>1, <4>2 DEF Visible
    <3>3. SecretsAllowed(v, secrets) /\ Rendering(v, cSecrets, a) = Rendering(v, secrets, a)
      BY <3>1, <3>2, RenderingAgrees
    <3> QED
      BY <2>2, <2>3, <2>4, <3>3 DEF HoldsIn
  <2> QED
    BY <2>2, <2>5, <2>6 DEF AllowedRight
<1>2. CASE ServerStep
  <2>1. UNCHANGED <<rpc, name, obj, desired, queue>>
    BY <1>2 DEF ServerStep, worker
  <2>2. SecretNews(obj.spec) => SecretNews(obj.spec)'
    BY <1>2, <2>1, Told DEF ServerStep, SecretNews
  <2>3. Waits(name) => Waits(name)'
    BY <1>2, <2>1, Told DEF ServerStep, Waits
  <2>4. HoldsIn(secrets, desired, obj.spec) =>
            HoldsIn(secrets', desired, obj.spec) \/ SecretNews(obj.spec)'
    BY <1>2, <2>1, HoldsTold DEF ServerStep, SecretNews
  <2> QED
    BY <2>1, <2>2, <2>3, <2>4 DEF DesiredRight
<1>3. CASE Sync
  <2>1. UNCHANGED <<cr, secrets, rpc, name, obj, desired>>
    BY <1>3, SyncKeeps
  <2>2. name \in Names /\ obj \in CRs /\ obj # NoCR
    BY <2>1, Busy, AbsentAssumption DEF TypeInv
  <2>3. Waits(name) => Waits(name)'
    BY <1>3, <2>1, <2>2, SyncKeeps DEF Waits
  <2>4. CASE SecretNews(obj.spec) /\ obj = cr[name]
    <3>1. SecretNews(cr[name].spec)' \/ Waits(name)'
      BY <1>3, <2>1, <2>2, <2>4, SecretNewsSync DEF SecretNews, Waits
    <3> QED
      BY <2>1, <2>4, <3>1 DEF SecretNews
  <2> QED
    BY <2>1, <2>3, <2>4 DEF DesiredRight, ObjectRead
<1>4. CASE LeaderChange
  BY <1>4 DEF LeaderChange
<1>5. CASE UNCHANGED vars
  BY <1>5 DEF vars, worker, DesiredRight, SecretNews, Waits
<1> QED
  BY <1>1, <1>2, <1>3, <1>4, <1>5, ServerSteps, Zenon DEF Next
LEMMA WrittenRightNext ==
  ASSUME TypeInv, FinalizerInv, RenderInv, [Next]_vars
  PROVE  WrittenRight'
<1> USE DEF FinalizerInv, ReadInv, RenderInv
<1> SUFFICES ASSUME rpc' = "rendered", ~lagged', cluster' = name',
                    "cluster" \notin news'
             PROVE  \/ HoldsIn(secrets', rendered', obj'.spec)
                    \/ SecretNews(obj.spec)' \/ Waits(name)'
  BY DEF WrittenRight, SecretNews, HoldsIn, Waits
<1>0. ~lagged
  BY LaggedStays
<1>1. CASE ControllerStep /\ Notify
  <2>1. UpsertCreate \/ UpsertUnchanged \/ UpsertPatch
    BY <1>1, RenderedCases, AllowedKeeps, RenderServes DEF ControllerStep
  <2>2. /\ rpc = "upsert" /\ desired \in RenderedSecrets
        /\ UNCHANGED <<cluster, secrets, queue, name, obj>>
    BY <2>1, UpsertParts
  <2>3. name \in Names /\ cluster \in Names
    BY <2>2, Busy DEF TypeInv
  <2>4. rendered # NoSecret => cRendered = rendered
    BY <1>0, <2>2 DEF RenderedKnown, Unwritten
  <2>5. rendered' = desired
    BY <2>1, <2>2, <2>3, <2>4, UpsertParts, AbsentAssumption DEF NoneCached
  <2>6. SecretNews(obj.spec) => SecretNews(obj.spec)'
    BY <1>1, <2>2, Told DEF SecretNews
  <2>7. Waits(name) => Waits(name)'
    BY <1>1, <2>2, Told DEF Waits
  <2> QED
    BY <2>2, <2>5, <2>6, <2>7 DEF DesiredRight
<1>2. CASE (HookStep \/ CollectGarbage \/ Edit) /\ Notify
  <2>0. ServerStep
    BY <1>2, ServerSteps
  <2>1. UNCHANGED <<rpc, name, obj, queue>>
    BY <2>0 DEF ServerStep, worker
  <2>2. SecretNews(obj.spec) => SecretNews(obj.spec)'
    BY <2>0, <2>1, Told DEF ServerStep, SecretNews
  <2>3. Waits(name) => Waits(name)'
    BY <2>0, <2>1, Told DEF ServerStep, Waits
  <2>4. cluster' = cluster /\ "cluster" \notin news
    BY <2>0, Told DEF ServerStep
  <2>5. name \in Names /\ rendered' = rendered
    BY <1>2, <2>1, <2>4, Busy, ServerKeepsRendered DEF TypeInv
  <2>6. HoldsIn(secrets, rendered, obj.spec) =>
            HoldsIn(secrets', rendered, obj.spec) \/ SecretNews(obj.spec)'
    BY <1>2, <2>1, HoldsTold DEF SecretNews
  <2> QED
    BY <1>0, <2>1, <2>2, <2>3, <2>4, <2>5, <2>6 DEF WrittenRight
<1>3. CASE Sync
  <2>1. UNCHANGED <<cluster, cr, secrets, rendered, rpc, name, obj>>
    BY <1>3, SyncKeeps
  <2>2. name \in Names /\ obj \in CRs /\ obj # NoCR
    BY <2>1, Busy, AbsentAssumption DEF TypeInv
  <2>3. Waits(name) => Waits(name)'
    BY <1>3, <2>1, <2>2, SyncKeeps DEF Waits
  <2>4. CASE SecretNews(obj.spec) /\ obj = cr[name]
    <3>1. SecretNews(cr[name].spec)' \/ Waits(name)'
      BY <1>3, <2>1, <2>2, <2>4, SecretNewsSync DEF SecretNews, Waits
    <3> QED
      BY <2>1, <2>4, <3>1 DEF SecretNews
  <2>5. "cluster" \in news => Waits(name)'
    BY <1>3, <2>1, <2>2, ClusterNewsSync DEF Waits
  <2> QED
    BY <1>0, <2>1, <2>3, <2>4, <2>5 DEF WrittenRight, ObjectRead
<1>4. CASE LeaderChange
  BY <1>4 DEF LeaderChange
<1>5. CASE UNCHANGED vars
  BY <1>0, <1>5 DEF vars, worker, WrittenRight, SecretNews, Waits
<1> QED
  BY <1>1, <1>2, <1>3, <1>4, <1>5, Zenon DEF Next

LEMMA RenderKeptNext ==
  ASSUME TypeInv, FinalizerInv, RenderInv, [Next]_vars
  PROVE  RenderKept'
<1> USE DEF FinalizerInv, ReadInv, RenderInv
<1> SUFFICES ASSUME NEW n \in Names, cluster' = n, "cluster" \notin news',
                    cr'[n] # NoCR, cr'[n].spec \in Renderable, ~lagged'
             PROVE  \/ IsRendered(n, cr[n].spec)'
                    \/ Waits(n)' \/ name' = n \/ SecretNews(cr[n].spec)'
  BY DEF RenderKept, SecretNews, IsRendered, Waits
<1>0. ~lagged
  BY LaggedStays
<1>1. CASE ControllerStep /\ Notify
  <2>0. /\ Reconcile \/ Fails \/ RenderFails
        /\ UNCHANGED caches
        /\ cluster = n /\ "cluster" \notin news /\ cCluster = n
    BY <1>1, ReconcileTyped, ControllerKeepsCluster, Told
       DEF ControllerStep, ChangesTold
  <2>1. CASE cr'[n] # cr[n]
    BY <1>1, <2>1, Told DEF Waits
  <2>2. CASE cr'[n] = cr[n]
    <3>0. /\ SecretNews(cr[n].spec) => SecretNews(cr[n].spec)'
          /\ n \in news => Waits(n)'
      BY <1>1, <2>2, Told DEF SecretNews, Waits
    <3>1. \/ IsRendered(n, cr[n].spec)
          \/ Waits(n) \/ name = n \/ SecretNews(cr[n].spec)
      BY <1>0, <2>0, <2>2 DEF RenderKept
    <3>s. UNCHANGED <<secrets, rendered>> =>
            (IsRendered(n, cr[n].spec) => IsRendered(n, cr[n].spec)')
      BY <2>2 DEF IsRendered
    <3>2. ASSUME NEW m \in Names, Begin(m)
          PROVE  \/ IsRendered(n, cr[n].spec)'
                 \/ Waits(n)' \/ name' = n \/ SecretNews(cr[n].spec)'
      <4>1. /\ UNCHANGED <<secrets, rendered>> /\ queue' = queue \ {m}
            /\ name = NoName
        BY <3>2 DEF Begin, objects, TypeInv, WorkerTyped
      <4>2. CASE m # n
        BY <3>0, <3>1, <3>s, <4>1, <4>2, NameAssumption DEF Waits
      <4>3. CASE m = n
        BY <2>2, <3>0, <3>2, <4>1, <4>3 DEF Begin, ChangesTold
      <4> QED
        BY <4>2, <4>3
    <3>3. CASE Onward
      <4>1. CASE name = n
        BY <3>3, <4>1 DEF Onward
      <4>2. CASE name # n
        BY <2>0, <3>3, <4>2 DEF Onward, ClusterRead, Waits
      <4> QED
        BY <4>1, <4>2
    <3>4. CASE Patched
      BY <3>0, <3>1, <3>s, <3>4 DEF Patched, Waits
    <3>5. CASE Returned
      <4>1. Waits(n) => Waits(n)'
        BY <3>0, <3>5 DEF Returned, Waits
      <4>2. CASE name # n
        BY <3>0, <3>1, <3>s, <3>5, <4>1, <4>2 DEF Returned
      <4>3. CASE name = n /\ obj = cr[n] /\ Settled
        <5>1. ~(obj.deleting /\ ~obj.finalizer)
          BY <2>2, <4>3 DEF Held
        <5>2. CASE clu # name
          BY <2>0, <3>5, <4>1, <4>3, <5>2 DEF Returned, ClusterRead, Waits
        <5>3. CASE rpc = "rendered" /\ obj.status = "True" /\ obj.observed = obj.spec
          <6>1. HoldsIn(secrets, rendered, cr[n].spec) => IsRendered(n, cr[n].spec)
            BY <2>2, <4>3, <5>3 DEF HoldsIn, IsRendered
          <6> QED
            BY <1>0, <2>0, <3>0, <3>s, <3>5, <4>1, <4>3, <5>3, <6>1
               DEF Returned, WrittenRight
        <5> QED
          BY <2>2, <4>3, <5>1, <5>2, <5>3 DEF Settled
      <4> QED
        BY <2>2, <3>5, <4>1, <4>2, <4>3 DEF Returned, ObjectRead, Waits
    <3> QED
      BY <2>0, <3>2, <3>3, <3>4, <3>5, ReconcileCases
  <2> QED
    BY <2>1, <2>2
<1>2. CASE (HookStep \/ CollectGarbage \/ Edit) /\ Notify
  <2>0. ServerStep
    BY <1>2, ServerSteps
  <2>1. UNCHANGED <<name, queue>> /\ cluster = n /\ "cluster" \notin news
    BY <2>0, Told DEF ServerStep, worker
  <2>2. CASE cr'[n] # cr[n]
    BY <1>2, <2>2, Told DEF Waits
  <2>3. CASE cr'[n] = cr[n]
    <3>1. \/ IsRendered(n, cr[n].spec)
          \/ Waits(n) \/ name = n \/ SecretNews(cr[n].spec)
      BY <1>0, <2>1, <2>3 DEF RenderKept
    <3>2. SecretNews(cr[n].spec) => SecretNews(cr[n].spec)'
      BY <1>2, <2>3, Told DEF SecretNews
    <3>3. Waits(n) => Waits(n)'
      BY <1>2, <2>1, Told DEF Waits
    <3>4. rendered' = rendered
      BY <1>2, <2>1, ServerKeepsRendered
    <3>5. HoldsIn(secrets, rendered, cr[n].spec) =>
            \/ HoldsIn(secrets', rendered, cr[n].spec)
            \/ SecretNews(cr[n].spec)'
      BY <1>2, <2>3, HoldsTold DEF SecretNews
    <3>6. CASE IsRendered(n, cr[n].spec)
      BY <2>3, <3>4, <3>5, <3>6 DEF IsRendered, HoldsIn
    <3> QED
      BY <2>1, <3>1, <3>2, <3>3, <3>6
  <2> QED
    BY <2>2, <2>3
<1>3. CASE Sync
  <2>1. UNCHANGED <<cluster, cr, secrets, rendered, name>>
    BY <1>3, SyncKeeps
  <2>2. Waits(n) => Waits(n)'
    BY <1>3, SyncKeeps DEF Waits
  <2>3. CASE "cluster" \in news
    BY <1>3, <2>1, <2>3, ClusterNewsSync DEF Waits
  <2>4. CASE "cluster" \notin news
    <3>1. \/ IsRendered(n, cr[n].spec)
          \/ Waits(n) \/ name = n \/ SecretNews(cr[n].spec)
      BY <1>0, <2>1, <2>4 DEF RenderKept
    <3>2. IsRendered(n, cr[n].spec) => IsRendered(n, cr[n].spec)'
      BY <2>1 DEF IsRendered
    <3>3. CASE SecretNews(cr[n].spec)
      BY <1>3, <2>1, <3>3, SecretNewsSync
    <3> QED
      BY <2>1, <2>2, <3>1, <3>2, <3>3
  <2> QED
    BY <2>3, <2>4
<1>4. CASE LeaderChange
  BY <1>4, LeaderKeeps
<1>5. CASE UNCHANGED vars
  BY <1>0, <1>5 DEF vars, worker, RenderKept, IsRendered, SecretNews, Waits
<1> QED
  BY <1>1, <1>2, <1>3, <1>4, <1>5, Zenon DEF Next
\* What cannot be rendered is refused, or something waits.
RefusedKept ==
  \A n \in Names :
    cluster = n /\ "cluster" \notin news /\ cr[n] # NoCR
        /\ cr[n].spec \notin Renderable =>
      cr[n].status = "False" \/ Waits(n) \/ name = n

LEMMA RefusedKeptNext ==
  ASSUME TypeInv, FinalizerInv, RefusedKept, [Next]_vars
  PROVE  RefusedKept'
<1> USE DEF FinalizerInv, ReadInv
<1> SUFFICES ASSUME NEW n \in Names, cluster' = n, "cluster" \notin news',
                    cr'[n] # NoCR, cr'[n].spec \notin Renderable
             PROVE  cr'[n].status = "False" \/ Waits(n)' \/ name' = n
  BY DEF RefusedKept, Waits
<1>1. CASE ControllerStep /\ Notify
  <2>0. /\ Reconcile \/ Fails \/ RenderFails
        /\ UNCHANGED caches
        /\ cluster = n /\ "cluster" \notin news /\ cCluster = n
    BY <1>1, ReconcileTyped, ControllerKeepsCluster, Told
       DEF ControllerStep, ChangesTold
  <2>1. CASE cr'[n] # cr[n]
    BY <1>1, <2>1, Told DEF Waits
  <2>2. CASE cr'[n] = cr[n]
    <3>0. n \in news => n \in news'
      BY <1>1, Told
    <3>1. cr[n].status = "False" \/ Waits(n) \/ name = n
      BY <2>0, <2>2 DEF RefusedKept
    <3>2. ASSUME NEW m \in Names, Begin(m)
          PROVE  cr'[n].status = "False" \/ Waits(n)' \/ name' = n
      <4>1. queue' = queue \ {m} /\ name = NoName
        BY <3>2 DEF Begin, TypeInv, WorkerTyped
      <4>2. CASE m # n
        BY <2>2, <3>0, <3>1, <4>1, <4>2, NameAssumption DEF Waits
      <4>3. CASE m = n
        BY <2>2, <3>0, <3>2, <4>3 DEF Begin, ChangesTold, Waits
      <4> QED
        BY <4>2, <4>3
    <3>3. CASE Onward \/ Patched
      BY <2>2, <3>0, <3>1, <3>3 DEF Onward, Patched, Waits
    <3>4. CASE Returned
      <4>1. Waits(n) => Waits(n)'
        BY <3>0, <3>4 DEF Returned, Waits
      <4>2. CASE name # n
        BY <2>2, <3>1, <4>1, <4>2
      <4>3. CASE name = n /\ obj = cr[n] /\ Settled
        <5>1. ~(obj.deleting /\ ~obj.finalizer)
          BY <2>2, <4>3 DEF Held
        <5>2. CASE clu # name
          BY <2>0, <3>4, <4>1, <4>3, <5>2 DEF Returned, ClusterRead, Waits
        <5> QED
          BY <2>2, <4>3, <5>1, <5>2 DEF Settled, RenderRead
      <4> QED
        BY <2>2, <3>4, <4>1, <4>2, <4>3 DEF Returned, ObjectRead, Waits
    <3> QED
      BY <2>0, <3>2, <3>3, <3>4, ReconcileCases
  <2> QED
    BY <2>1, <2>2
<1>2. CASE ServerStep
  BY <1>2, Told DEF ServerStep, RefusedKept, Waits, worker
<1>3. CASE Sync
  <2>1. UNCHANGED <<cluster, cr, name>> /\ (Waits(n) => Waits(n)')
    BY <1>3, SyncKeeps DEF Waits
  <2>2. "cluster" \in news => Waits(n)'
    BY <1>3, <2>1, ClusterNewsSync DEF Waits
  <2> QED
    BY <2>1, <2>2 DEF RefusedKept
<1>4. CASE LeaderChange
  BY <1>4, LeaderKeeps
<1>5. CASE UNCHANGED vars
  BY <1>5 DEF vars, worker, RefusedKept, Waits
<1> QED
  BY <1>1, <1>2, <1>3, <1>4, <1>5, ServerSteps, Zenon DEF Next

LEMMA RenderInvInit == Init => RenderInv
<1> SUFFICES ASSUME Init PROVE RenderInv
  OBVIOUS
<1>1. rendered # NoSecret
  BY FirstRendering, AbsentAssumption
<1>2. /\ cr[Initial].spec = 1 /\ cr[Initial].status = "True"
      /\ cr[Initial].observed = 1 /\ cr[Initial] \in CRs
  BY NameAssumption, VersionAssumption DEF Init, NewCR, CRs
<1>3. IsRendered(Initial, cr[Initial].spec)
  <2>1. rendered.admin = 0 /\ rendered.config = Rendering(1, secrets, 0)
    BY DEF Init
  <2> QED
    BY <1>1, <1>2, <2>1, FirstRendering, AbsentAssumption DEF IsRendered
<1>4. RenderKept
  BY <1>3 DEF Init, RenderKept
<1>5. CleanupOff /\ NoneCached
  BY <1>1 DEF Init, CleanupOff, NoneCached
<1>6. RenderedKnown /\ AllowedRight /\ DesiredRight /\ WrittenRight
  BY DEF Init, WorkerIdle, RenderedKnown, Unwritten, AllowedRight, DesiredRight,
     WrittenRight
<1> QED
  BY <1>4, <1>5, <1>6 DEF RenderInv

LEMMA RenderInvNext ==
  ASSUME ~Overlap, TypeInv, FinalizerInv, RenderInv, [Next]_vars
  PROVE  RenderInv'
<1>1. RenderedKnown' /\ CleanupOff' /\ NoneCached'
  BY RenderedKnownNext, CleanupOffNext, NoneCachedNext DEF RenderInv, FinalizerInv
<1>2. AllowedRight' /\ DesiredRight' /\ WrittenRight' /\ RenderKept'
  BY AllowedRightNext, DesiredRightNext, WrittenRightNext, RenderKeptNext
     DEF RenderInv
<1> QED
  BY <1>1, <1>2 DEF RenderInv

\* All parts together.
UpdateInv == TypeInv /\ FinalizerInv /\ RenderInv /\ RefusedKept

LEMMA UpdateInvariance ==
  ASSUME ~Overlap
  PROVE  Spec => []UpdateInv
<1>1. Init => RefusedKept
  <2>1. ASSUME Init, NEW n \in Names PROVE cr[n].spec = 1
    BY <2>1 DEF Init, NewCR
  <2> QED
    BY <2>1, InitialAssumption DEF RefusedKept
<1>2. UpdateInv /\ [Next]_vars => UpdateInv'
  <2> SUFFICES ASSUME UpdateInv, [Next]_vars PROVE UpdateInv'
    OBVIOUS
  <2> USE DEF UpdateInv
  <2>1. TypeInv' /\ FinalizerInv'
    BY TypeInvNext, FinalizerInvNext
  <2>2. RenderInv' /\ RefusedKept'
    BY RenderInvNext, RefusedKeptNext
  <2> QED
    BY <2>1, <2>2
<1> QED
  BY <1>1, <1>2, TypeInvInit, FinalizerInvInit, RenderInvInit, PTL
     DEF Spec, UpdateInv

\* Where a Cluster returns to the plugin only after a cleanup, no update is
\* lost: once nothing is queued, in progress or on its way to a cache, the
\* finalizers are right, and unless some Reconcile began before an earlier
\* write to the Secret was in the cache, the Secret holds the spec of the
\* PgDoorman in use with the passwords its Secrets have now and the status says
\* so, for any number of PgDoormans, edits, failures and changes of the leader.
THEOREM NoUpdateLost == ~Overlap => (Spec => []NothingForgotten)
<1> SUFFICES ASSUME ~Overlap PROVE Spec => []NothingForgotten
  OBVIOUS
<1>1. UpdateInv => NothingForgotten
  <2> SUFFICES ASSUME UpdateInv, Quiescent, NEW n \in Names, cr[n] # NoCR
               PROVE  /\ cr[n].finalizer <=> cluster = n
                      /\ cluster = n /\ cr[n].spec \in Renderable /\ ~lagged =>
                             IsRendered(n, cr[n].spec)
    BY DEF NothingForgotten
  <2> USE DEF UpdateInv
  <2>1. cr[n].finalizer <=> cluster = n
    BY QuiescentFinalizers DEF FinalizersSettled
  <2>2. queue = {} /\ news = {} /\ name # n
    BY NameAssumption DEF Quiescent, TypeInv, WorkerTyped
  <2>3. cluster = n /\ cr[n].spec \in Renderable /\ ~lagged =>
            IsRendered(n, cr[n].spec)
    BY <2>2 DEF RenderInv, RenderKept, Waits, SecretNews
  <2> QED
    BY <2>1, <2>3
<1> QED
  BY <1>1, UpdateInvariance, PTL

\* Under the same conditions a Rendered condition that is True and stays speaks
\* of the Secret that is there, for a spec that was edited into one that is
\* refused too: the status of such a spec does not stay True.
THEOREM StatusTellsTruth == ~Overlap => (Spec => []StatusTrue)
<1> SUFFICES ASSUME ~Overlap PROVE Spec => []StatusTrue
  OBVIOUS
<1>1. UpdateInv => StatusTrue
  <2> SUFFICES ASSUME UpdateInv, ~lagged, Quiescent, NEW n \in Names, n = cluster,
                      cr[n] # NoCR, cr[n].status = "True"
               PROVE  rendered # NoSecret /\ rendered.config.spec = cr[n].observed
    BY DEF StatusTrue, ObservedIsRendered
  <2> USE DEF UpdateInv
  <2>1. queue = {} /\ news = {} /\ name # n
    BY NameAssumption DEF Quiescent, TypeInv, WorkerTyped
  <2>2. cr[n].spec \in Renderable
    BY <2>1 DEF RefusedKept, Waits
  <2>3. IsRendered(n, cr[n].spec)
    BY <2>1, <2>2 DEF RenderInv, RenderKept, Waits, SecretNews
  <2> QED
    BY <2>3 DEF IsRendered, Rendering, Generate
<1> QED
  BY <1>1, UpdateInvariance, PTL

=============================================================================
