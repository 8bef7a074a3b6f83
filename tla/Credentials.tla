---------------------------- MODULE Credentials ----------------------------
(***************************************************************************)
(* The passwords of a PgDoorman spec: which Secrets it references          *)
(* (internal/specs), what they resolve to (internal/credentials), and the  *)
(* config that is generated with them (internal/configgen).                *)
(*                                                                         *)
(* A spec is its pools and the Secret of its admin password.  A pool has an*)
(* auth query, or NoAuth, with its user and the Secret of that user, and   *)
(* the Secrets of its static users by their names.  A referenced Secret    *)
(* without the referenced key has NoPassword.                              *)
(***************************************************************************)
EXTENDS Integers, FiniteSets

CONSTANTS
    Generated,  \* GeneratedAuthSecretName of the Cluster
    NoRef,
    NoAuth,
    NoSecret,
    NoPassword

\* The pools that leave the Secret of their auth user to the plugin, and the
\* users it would have to be for.
Omitting(spec) ==
    {p \in DOMAIN spec.pools : /\ spec.pools[p].authQuery # NoAuth
                               /\ spec.pools[p].authQuery.ref = NoRef}
AuthUsers(spec) == {spec.pools[p].authQuery.user : p \in Omitting(spec)}

\* DefaultAuthSecretRefs gives an error: there is one username in a Secret.
Conflicts(spec) == Cardinality(AuthUsers(spec)) > 1

DefaultAuthSecretRefs(spec) ==
    [spec EXCEPT !.pools =
        [p \in DOMAIN spec.pools |->
            IF p \in Omitting(spec)
            THEN [spec.pools[p] EXCEPT !.authQuery.ref = Generated]
            ELSE spec.pools[p]]]

PasswordKey(pool, kind, user) == <<pool, kind, user>>
AdminPasswordKey == <<"_admin", "password">>

\* Every reference of a spec, with the key its value is kept under.
Refs(spec) ==
    {[key |-> PasswordKey(p, "auth_query", spec.pools[p].authQuery.user),
      secret |-> spec.pools[p].authQuery.ref] :
        p \in {q \in DOMAIN spec.pools : spec.pools[q].authQuery # NoAuth}
                  \ Omitting(spec)}
    \cup UNION {{[key |-> PasswordKey(p, "user", u),
                  secret |-> spec.pools[p].users[u]] :
                    u \in DOMAIN spec.pools[p].users} : p \in DOMAIN spec.pools}
    \cup {[key |-> AdminPasswordKey, secret |-> spec.adminRef] :
             x \in {spec.adminRef} \ {NoRef}}

CollectSecretNames(refs) == {r.secret : r \in refs}

\* ResolvePasswords succeeds, and with what.
Resolvable(refs, secrets) ==
    \A s \in CollectSecretNames(refs) :
        secrets[s] # NoSecret /\ secrets[s].password # NoPassword

ResolvePasswords(refs, secrets) ==
    [k \in {r.key : r \in refs} |->
        secrets[(CHOOSE r \in refs : r.key = k).secret].password]

\* The fallback serves a spec without an admin Secret.
EnsureAdminPassword(passwords, fallback) ==
    [k \in DOMAIN passwords \cup {AdminPasswordKey} |->
        IF k \in DOMAIN passwords THEN passwords[k] ELSE fallback]

\* Generate puts the passwords into the config of a version of the spec.
Generate(version, passwords) == [spec |-> version, passwords |-> passwords]

=============================================================================
