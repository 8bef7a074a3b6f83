---------------------------- MODULE ClusterHooks ----------------------------
(***************************************************************************)
(* The hooks CNPG calls for a Cluster: Pre and its cleanup                 *)
(* (internal/reconciler/reconciler.go), and the admission of a changed     *)
(* Cluster (internal/operator/validation.go).  CNPG calls Pre again and    *)
(* again; a call works on the Cluster it was given, so cleanup may go on   *)
(* after the Cluster changed.  The legacy Role and RoleBinding are left    *)
(* out: nothing creates them any more.                                     *)
(***************************************************************************)
CONSTANTS Names, Off, NoCR, NoSecret

VARIABLES cluster, rendered, cr, cCr  \* as in RenderController
VARIABLES
    service,  \* the pooler Service exists
    hpc       \* where Pre is

\* ensureService: get, then create or patch.  A failure is a Pre not called.
EnsureService == service' = TRUE

\* Pre finds the PgDoorman and keeps the Service.  Without one it changes nothing;
\* a Cluster that is being created is then held back.
PreEnabled ==
    /\ hpc = "idle"
    /\ cluster \in Names
    /\ cCr[cluster] # NoCR
    /\ EnsureService
    /\ UNCHANGED <<cluster, rendered, hpc>>

\* Mutant: cleanup returns on the first object it does not find.
PreDisabledStops ==
    /\ hpc = "idle"
    /\ cluster = Off
    /\ service' = FALSE
    /\ hpc' = IF service THEN "cleanup" ELSE "idle"
    /\ UNCHANGED <<cluster, rendered>>

\* Pre finds the plugin disabled: cleanup deletes the Service ...
PreDisabled ==
    /\ hpc = "idle"
    /\ cluster = Off
    /\ service' = FALSE
    /\ hpc' = "cleanup"
    /\ UNCHANGED <<cluster, rendered>>

\* ... and then the rendered Secret ...
CleanupSecret ==
    /\ hpc = "cleanup"
    /\ rendered' = NoSecret
    /\ hpc' = "idle"
    /\ UNCHANGED <<cluster, service>>

\* ... unless a delete fails, and with it the call.
CleanupFails ==
    /\ hpc = "cleanup"
    /\ hpc' = "idle"
    /\ UNCHANGED <<cluster, rendered, service>>

\* validateClusterChange: the PgDoorman exists, as far as the replica that is
\* asked knows; a read that fails admits the Cluster.
ValidateClusterChange(n, readable) ==
    readable => cr[n] # NoCR \/ cCr[n] # NoCR

=============================================================================
