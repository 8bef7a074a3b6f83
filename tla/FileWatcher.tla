----------------------------- MODULE FileWatcher -----------------------------
(***************************************************************************)
(* The config watcher of the sidecar (internal/wrapper/filewatcher.go):    *)
(* it polls the rendered config mounted from the Secret, has the pg_doorman*)
(* binary test a candidate, renames it over the runtime config and signals *)
(* pg_doorman.  Its steps interleave with the supervisor's and the other   *)
(* watchers', so check() is split where one of them can act: after the     *)
(* read, after the test, after the rename.                                 *)
(*                                                                         *)
(* A config is a number; what matters of its bytes is whether the Go       *)
(* validator parses it and the fields pg_doorman fixes at process start.   *)
(* A failed read of the source is a poll that does nothing.  The TLS key   *)
(* conversion is one of the ways materialize fails; the key is not kept.   *)
(***************************************************************************)
EXTENDS Integers

CONSTANTS
    Configs,   \* the configs the controller may render
    Parsable,  \* those ValidateConfigBytes accepts
    Fixed      \* their non-reloadable fields (worker_threads, port, ...)

VARIABLES
    source,        \* the mounted file
    runtimeCfg,    \* the file pg_doorman reads
    lastApplied,   \* FileWatcher.lastApplied
    configStale,   \* the ConfigStale gauge
    fpc,           \* where check() is
    data,          \* the bytes this check() read
    needsRestart   \* its decision between Restart and Reload

watcher == <<lastApplied, configStale, fpc, data, needsRestart>>
vars == <<source, runtimeCfg, watcher>>

\* ValidateConfigBytes returns no error.
ValidateConfigBytes(c) == c \in Parsable

\* NeedsProcessRestart, against what was applied last if that parses.
NeedsProcessRestart(c) ==
    ValidateConfigBytes(lastApplied) /\ Fixed[lastApplied] # Fixed[c]

\* ApplyInitial has materialized the first config before pg_doorman starts.
\* The binary tested it; ValidateConfigBytes did not see it.
Init ==
    /\ source \in Configs
    /\ runtimeCfg = source
    /\ lastApplied = source
    /\ configStale = FALSE
    /\ fpc = "idle"
    /\ data = source
    /\ needsRestart = FALSE

\* The controller's update reaches the mounted volume (external).
Publish(c) ==
    /\ source' = c
    /\ UNCHANGED <<runtimeCfg, watcher>>

\* check() reads a changed config that does not parse.
CheckInvalid ==
    /\ fpc = "idle"
    /\ source # lastApplied
    /\ ~ValidateConfigBytes(source)
    /\ configStale' = TRUE
    /\ UNCHANGED <<source, runtimeCfg, lastApplied, fpc, data, needsRestart>>

\* Mutant: check() goes on with a config that did not parse.
CheckChangedUnparsed ==
    /\ fpc = "idle"
    /\ source # lastApplied
    /\ configStale' = TRUE
    /\ data' = source
    /\ needsRestart' = NeedsProcessRestart(source)
    /\ fpc' = "test"
    /\ UNCHANGED <<source, runtimeCfg, lastApplied>>

\* check() reads a changed config and decides how to apply it.
CheckChanged ==
    /\ fpc = "idle"
    /\ source # lastApplied
    /\ ValidateConfigBytes(source)
    /\ configStale' = TRUE
    /\ data' = source
    /\ needsRestart' = NeedsProcessRestart(source)
    /\ fpc' = "test"
    /\ UNCHANGED <<source, runtimeCfg, lastApplied>>

\* materialize: the key is converted, the candidate written and accepted.
\* Whether the binary accepts it is decided by who composes this module.
TestPasses ==
    /\ fpc = "test"
    /\ fpc' = "rename"
    /\ UNCHANGED <<source, runtimeCfg, lastApplied, configStale, data,
                   needsRestart>>

\* materialize fails at any of its steps: the runtime config is kept.
MaterializeFails ==
    /\ fpc \in {"test", "rename"}
    /\ fpc' = "idle"
    /\ UNCHANGED <<source, runtimeCfg, lastApplied, configStale, data,
                   needsRestart>>

\* The atomic rename at the end of materialize.
Rename ==
    /\ fpc = "rename"
    /\ runtimeCfg' = data
    /\ fpc' = "signal"
    /\ UNCHANGED <<source, lastApplied, configStale, data, needsRestart>>

\* Mutant: the gauge is not cleared.
SignalSucceedsStillStale ==
    /\ fpc = "signal"
    /\ lastApplied' = data
    /\ fpc' = "idle"
    /\ UNCHANGED <<source, runtimeCfg, configStale, data, needsRestart>>

\* Process.Restart or Process.Reload returned nil: the config is applied.
SignalSucceeds ==
    /\ fpc = "signal"
    /\ lastApplied' = data
    /\ configStale' = FALSE
    /\ fpc' = "idle"
    /\ UNCHANGED <<source, runtimeCfg, data, needsRestart>>

\* It returned an error: lastApplied is kept, so the next poll tries again.
SignalFails ==
    /\ fpc = "signal"
    /\ fpc' = "idle"
    /\ UNCHANGED <<source, runtimeCfg, lastApplied, configStale, data,
                   needsRestart>>

\* Every variable of check() and the files it works on has its type, and
\* check() works on a config that ValidateConfigBytes accepted.
TypeOK ==
    /\ {source, runtimeCfg, lastApplied, data} \subseteq Configs
    /\ configStale \in BOOLEAN
    /\ needsRestart \in BOOLEAN
    /\ fpc \in {"idle", "test", "rename", "signal"}
    /\ fpc # "idle" => ValidateConfigBytes(data)

=============================================================================
