----------------------------- MODULE RoleWatcher -----------------------------
(***************************************************************************)
(* The role watcher of the sidecar (internal/wrapper/rolewatcher.go): it   *)
(* polls the downward-API file with the instance role and restarts the     *)
(* pooler when the instance was demoted.  check() is one step: it holds no *)
(* state but lastRole and makes one call, Process.Restart.                 *)
(***************************************************************************)

VARIABLES
    roleFile,  \* the mounted role, "" while the label is unset
    lastRole   \* RoleWatcher.lastRole

Roles == {"", "primary", "replica"}

Init == roleFile \in Roles /\ lastRole = ""

\* CNPG relabels the pod (external).
SetRole(r) == roleFile' = r /\ UNCHANGED lastRole

\* check() has something to look at.
RoleChanged == roleFile # "" /\ roleFile # lastRole

Demoted == lastRole = "primary" /\ roleFile # "primary"

\* Mutant: lastRole is assigned before it is compared, so no change is a
\* demotion.
CheckRoleNeverDemoted ==
    /\ RoleChanged
    /\ lastRole' = roleFile
    /\ UNCHANGED roleFile

\* check() sees a new role that is not a demotion.
CheckRole ==
    /\ RoleChanged
    /\ ~Demoted
    /\ lastRole' = roleFile
    /\ UNCHANGED roleFile

\* check() sees a demotion and Restart returns nil.
CheckDemoted ==
    /\ RoleChanged
    /\ Demoted
    /\ lastRole' = roleFile
    /\ UNCHANGED roleFile

\* Restart returns an error: the demotion is to be seen again.
CheckDemotedFails ==
    /\ RoleChanged
    /\ Demoted
    /\ lastRole' = "primary"
    /\ UNCHANGED roleFile

\* check() only ever remembers a role it read from the file.
TypeOK == roleFile \in Roles /\ lastRole \in Roles

=============================================================================
