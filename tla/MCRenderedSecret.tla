-------------------------- MODULE MCRenderedSecret --------------------------
(* Version 1 leaves the Secret of its auth user to the plugin, version 2   *)
(* names a Secret of its own, version 3 has two auth users without one.    *)
EXTENDS RenderedSecret

Pool(auth, static) == [authQuery |-> auth, users |-> static]
Auth(user, ref) == [user |-> user, ref |-> ref]
MCPasswords == 0..MaxEvents
NoUsers == [u \in {} |-> NoRef]

Plain == [pools |-> [db |-> Pool(NoAuth, NoUsers)], adminRef |-> NoRef]
PlainSpecs == [v \in Versions |-> Plain]

MCSpecs == <<
    [pools |-> [db |-> Pool(Auth("u", NoRef), NoUsers),
                db2 |-> Pool(Auth("u", NoRef), NoUsers)],
     adminRef |-> NoRef],
    [pools |-> [db |-> Pool(Auth("u", "own"), [app |-> "own"])],
     adminRef |-> "own"],
    [pools |-> [db |-> Pool(Auth("u", NoRef), NoUsers),
                db2 |-> Pool(Auth("w", NoRef), NoUsers)],
     adminRef |-> NoRef]>>

Secret(label, password) ==
    [label |-> label, password |-> password, owned |-> FALSE]

\* The generated Secret is deleted, or another one takes its place, with and
\* without the label; the other one is brought, with either label.
MCPuts == {<<"auth", NoSecret>>, <<"auth", Secret("own", 2)>>,
           <<"auth", Secret("none", 2)>>,
           <<"own", Secret("own", 2)>>, <<"own", Secret("other", 2)>>}

=============================================================================
