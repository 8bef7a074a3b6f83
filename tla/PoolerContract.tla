--------------------------- MODULE PoolerContract ---------------------------
(***************************************************************************)
(* What the supervisor promises about the poolers of one pod, whatever the *)
(* watchers, crashes and upgrades do: Supervisor implements this.          *)
(***************************************************************************)
CONSTANTS Pids, NoPid

VARIABLES
    live,      \* the poolers that run and that the supervisor accounts for
    strays,    \* the poolers that run although a sweep was to kill them
    watched,   \* the one the supervisor waits for, or NoPid
    stopping   \* the wrapper is shutting down

vars == <<live, strays, watched, stopping>>

Init == live = {} /\ strays = {} /\ watched = NoPid /\ stopping = FALSE

\* A pooler is started only when none runs, and never during a shutdown.
Launch(p) ==
    /\ live = {}
    /\ watched = NoPid
    /\ ~stopping
    /\ live' = {p}
    /\ watched' = p
    /\ UNCHANGED <<strays, stopping>>

\* Only the watched pooler, when it is alone, gets a successor.
Spawn(q) ==
    /\ live = {watched}
    /\ q # watched
    /\ live' = {watched, q}
    /\ UNCHANGED <<strays, watched, stopping>>

Die(p) ==
    /\ p \in live
    /\ live' = live \ {p}
    /\ UNCHANGED <<strays, watched, stopping>>

Perish(p) ==
    /\ p \in strays
    /\ strays' = strays \ {p}
    /\ UNCHANGED <<live, watched, stopping>>

\* The supervisor stops watching a pooler only when it is dead ...
Lose ==
    /\ watched # NoPid
    /\ watched \notin live
    /\ watched' = NoPid
    /\ UNCHANGED <<live, strays, stopping>>

\* ... or when a shutdown gave up on it.
Abandon ==
    /\ stopping
    /\ watched # NoPid
    /\ watched' = NoPid
    /\ UNCHANGED <<live, strays, stopping>>

\* A successor is taken over when it is the only pooler left.
TakeOver(q) ==
    /\ watched = NoPid
    /\ live = {q}
    /\ watched' = q
    /\ UNCHANGED <<live, strays, stopping>>

\* A stray may be taken for the successor, which then is a stray itself.
Mistake(q) ==
    /\ watched = NoPid
    /\ q \in strays
    /\ watched' = q
    /\ live' = {q}
    /\ strays' = (strays \ {q}) \cup live
    /\ UNCHANGED stopping

\* Poolers are killed in bulk only while none is watched.
Sweep ==
    /\ watched = NoPid
    /\ live' = {}
    /\ strays' \subseteq strays \cup live
    /\ UNCHANGED <<watched, stopping>>

Stop == ~stopping /\ stopping' = TRUE /\ UNCHANGED <<live, strays, watched>>

Next ==
    \/ \E p \in Pids : Launch(p) \/ Spawn(p) \/ Die(p) \/ TakeOver(p)
                     \/ Perish(p) \/ Mistake(p)
    \/ Lose \/ Abandon \/ Sweep \/ Stop

Spec == Init /\ [][Next]_vars

=============================================================================
