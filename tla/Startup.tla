------------------------------ MODULE Startup ------------------------------
(***************************************************************************)
(* What main does before it starts pg_doorman (cmd/wrapper/main.go,        *)
(* startup.go, binarysync.go): EnsureAtStartup installs a binary, then     *)
(* ApplyInitialConfig materializes the mounted config, falling back to the *)
(* image's binary.  The runtime directory outlives the container, so a     *)
(* restart of it finds the files of its predecessor.  Nothing else runs    *)
(* meanwhile; only the mounts can change between two steps.  An error of   *)
(* EnsureAtStartup exits main where it started, and is left out.           *)
(***************************************************************************)
EXTENDS Integers

CONSTANTS Bins, NoSpec, BadSpec, NoDigest, NilSpec
CONSTANT ImageBin  \* the binary baked into the sidecar image

VARIABLES spec, runtimeBin, binaryStale  \* as in BinaryWatcher
VARIABLES source, runtimeCfg, lastApplied  \* as in FileWatcher
VARIABLES
    spc,   \* where main is
    seed   \* what EnsureAtStartup returned for BinaryWatcher.Seed

config == <<source, runtimeCfg, lastApplied>>

\* No usable digest: the image's binary.  An absent file gives no seed.
EnsureFromImage ==
    /\ spc = "binary"
    /\ spec \notin Bins
    /\ runtimeBin' = ImageBin
    /\ seed' = IF spec = NoSpec THEN NilSpec ELSE spec
    /\ spc' = "config"
    /\ UNCHANGED <<spec, binaryStale, config>>

\* The desired binary is installed already, or it is the image's.
EnsureLocal ==
    /\ spc = "binary"
    /\ spec \in {runtimeBin, ImageBin}
    /\ runtimeBin' = spec
    /\ seed' = spec
    /\ spc' = "config"
    /\ UNCHANGED <<spec, binaryStale, config>>

EnsureDownload ==
    /\ spc = "binary"
    /\ spec \in Bins \ {runtimeBin, ImageBin}
    /\ runtimeBin' = spec
    /\ binaryStale' = FALSE
    /\ seed' = spec
    /\ spc' = "config"
    /\ UNCHANGED <<spec, config>>

\* Mutant: the fallback to the image's binary is seeded as if it had worked.
EnsureFallbackSeeded ==
    /\ spc = "binary"
    /\ spec \in Bins \ {runtimeBin, ImageBin}
    /\ runtimeBin' = ImageBin
    /\ binaryStale' = TRUE
    /\ seed' = spec
    /\ spc' = "config"
    /\ UNCHANGED <<spec, config>>

\* The download failed: the image's binary, and no seed.
EnsureFallback ==
    /\ spc = "binary"
    /\ spec \in Bins \ {runtimeBin, ImageBin}
    /\ runtimeBin' = ImageBin
    /\ binaryStale' = TRUE
    /\ seed' = NilSpec
    /\ spc' = "config"
    /\ UNCHANGED <<spec, config>>

\* ApplyInitial: the binary on disk accepts the mounted config.
ApplyInitial ==
    /\ spc \in {"config", "retry"}
    /\ runtimeCfg' = source
    /\ lastApplied' = source
    /\ seed' = IF spc = "retry" THEN NilSpec ELSE seed
    /\ spc' = "run"
    /\ UNCHANGED <<spec, runtimeBin, binaryStale, source>>

\* It failed, whatever the reason: RevertToImage changes the binary, and the
\* config is retried.
Revert ==
    /\ spc = "config"
    /\ runtimeBin # ImageBin
    /\ runtimeBin' = ImageBin
    /\ binaryStale' = TRUE
    /\ spc' = "retry"
    /\ UNCHANGED <<spec, seed, config>>

\* Nothing is left to revert to, or reverting failed: main exits and the
\* kubelet restarts the container, with fresh metrics.
GiveUp ==
    /\ spc \in {"config", "retry"}
    /\ binaryStale' = FALSE
    /\ spc' = "binary"
    /\ UNCHANGED <<spec, runtimeBin, seed, config>>

=============================================================================
