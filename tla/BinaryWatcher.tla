---------------------------- MODULE BinaryWatcher ----------------------------
(***************************************************************************)
(* The binary watcher of the sidecar (internal/wrapper/binarywatcher.go):  *)
(* it polls the mounted binary.json and, on a new digest, downloads the    *)
(* binary, tests it against the runtime config, renames it over the        *)
(* runtime binary and asks the supervisor for an upgrade.  check() is      *)
(* split where the supervisor, the config watcher or the mount can act in  *)
(* between.                                                                *)
(*                                                                         *)
(* A spec is the digest it carries for this architecture, and a binary is  *)
(* its digest.  An absent or unparsable spec makes check() do nothing.     *)
(***************************************************************************)
EXTENDS Integers

CONSTANTS
    Bins,      \* the binaries the plugin may deliver, the image's included
    NoSpec,    \* no binary.json is mounted
    BadSpec,   \* ParseBinarySpec rejects it
    NoDigest,  \* it has no digest for this architecture
    NilSpec    \* lastSpec before any spec was applied

VARIABLES
    spec,         \* the mounted binary.json
    runtimeBin,   \* the binary at the runtime path
    lastSpec,     \* BinaryWatcher.lastSpec
    binaryStale,  \* the BinaryStale gauge
    bpc,          \* where check() is
    wanted        \* the spec this check() read

Specs == Bins \cup {NoSpec, BadSpec, NoDigest}

\* Mutant: an absent or unparsable spec is not told from a usable one.
SpecChangedUnparsed == bpc = "idle" /\ spec # lastSpec

\* The mounted spec asks for a binary that was not applied yet.
SpecChanged == bpc = "idle" /\ spec \in Bins /\ spec # lastSpec

\* The controller's update reaches the mounted volume (external).
PublishSpec(s) ==
    /\ spec' = s
    /\ UNCHANGED <<runtimeBin, lastSpec, binaryStale, bpc, wanted>>

\* check() reads a spec without a digest for this architecture.
CheckNoDigest ==
    /\ bpc = "idle"
    /\ spec = NoDigest
    /\ spec # lastSpec
    /\ lastSpec' = spec
    /\ UNCHANGED <<spec, runtimeBin, binaryStale, bpc, wanted>>

\* The desired binary is installed already.
CheckInstalled ==
    /\ SpecChanged
    /\ runtimeBin = spec
    /\ lastSpec' = spec
    /\ binaryStale' = FALSE
    /\ UNCHANGED <<spec, runtimeBin, bpc, wanted>>

\* An upgrade is in flight: the swap waits for a later poll.
CheckDeferred ==
    /\ SpecChanged
    /\ runtimeBin # spec
    /\ binaryStale' = TRUE
    /\ UNCHANGED <<spec, runtimeBin, lastSpec, bpc, wanted>>

\* No upgrade is in flight: the download starts.
CheckChanged ==
    /\ SpecChanged
    /\ runtimeBin # spec
    /\ binaryStale' = TRUE
    /\ wanted' = spec
    /\ bpc' = "download"
    /\ UNCHANGED <<spec, runtimeBin, lastSpec>>

\* Download: what arrives has the wanted digest.
Downloads ==
    /\ bpc = "download"
    /\ bpc' = "test"
    /\ UNCHANGED <<spec, runtimeBin, lastSpec, binaryStale, wanted>>

\* The new binary accepts the runtime config; whether it does is decided by
\* who composes this module.
TestPasses ==
    /\ bpc = "test"
    /\ bpc' = "swap"
    /\ UNCHANGED <<spec, runtimeBin, lastSpec, binaryStale, wanted>>

\* Mutant: a spec counts as applied even though the attempt failed.
CheckFailsForGood ==
    /\ bpc \in {"download", "test", "swap"}
    /\ lastSpec' = wanted
    /\ bpc' = "idle"
    /\ UNCHANGED <<spec, runtimeBin, binaryStale, wanted>>

\* A failed download, test or rename: the current binary is kept.
CheckFails ==
    /\ bpc \in {"download", "test", "swap"}
    /\ bpc' = "idle"
    /\ UNCHANGED <<spec, runtimeBin, lastSpec, binaryStale, wanted>>

\* The atomic rename over argv[0], before the handover signal.
Swap ==
    /\ bpc = "swap"
    /\ runtimeBin' = wanted
    /\ bpc' = "signal"
    /\ UNCHANGED <<spec, lastSpec, binaryStale, wanted>>

\* Process.Upgrade returned nil.
UpgradeSucceeds ==
    /\ bpc = "signal"
    /\ lastSpec' = wanted
    /\ binaryStale' = FALSE
    /\ bpc' = "idle"
    /\ UNCHANGED <<spec, runtimeBin, wanted>>

\* It returned an error: the next poll finds the binary installed.
UpgradeFails ==
    /\ bpc = "signal"
    /\ bpc' = "idle"
    /\ UNCHANGED <<spec, runtimeBin, lastSpec, binaryStale, wanted>>

\* check() only ever downloads and installs a digest of this architecture.
TypeOK ==
    /\ spec \in Specs
    /\ runtimeBin \in Bins
    /\ lastSpec \in Specs \cup {NilSpec}
    /\ binaryStale \in BOOLEAN
    /\ bpc \in {"idle", "download", "test", "swap", "signal"}
    /\ wanted \in Bins

=============================================================================
