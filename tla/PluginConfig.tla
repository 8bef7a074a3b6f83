---------------------------- MODULE PluginConfig ----------------------------
(***************************************************************************)
(* The plugin's parameters in a Cluster (internal/config/config.go) and    *)
(* their admission (internal/operator): NewFromCluster reads them, Validate*)
(* judges them, and MutateCluster writes the default ports into the object *)
(* before either is asked.                                                 *)
(*                                                                         *)
(* The parameters of a plugin entry are a function over the names that are *)
(* given.  A value that does not parse is Bad; a quantity is a number of   *)
(* millicores or MiB, and None is "none" or "".                            *)
(***************************************************************************)
EXTENDS Integers, Sequences

CONSTANTS
    PluginName,  \* this plugin's name, among those of other plugins
    Unset,       \* spec.plugins[].enabled is nil
    Bad,
    None,
    NoImage      \* SIDECAR_IMAGE is not set

DefaultPoolerPort == 6432
DefaultMetricsPort == 9127
WrapperHealthPort == 8081

\* PostgreSQL, the instance manager, its exporter and the wrapper.
ReservedPorts == {5432, 8000, 9187, WrapperHealthPort}

LogLevels == {"", "error", "warn", "info", "debug", "trace"}

\* The sidecar's resources and their defaults.
ResourceDefaults ==
    [sidecarCpuRequest |-> 100, sidecarMemoryRequest |-> 128,
     sidecarCpuLimit |-> None, sidecarMemoryLimit |-> 512]

ParsedParams ==
    {"poolerPort", "metricsPort", "inPlaceUpgrades"} \cup DOMAIN ResourceDefaults

NoParams == [k \in {} |-> None]

Given(params, k, default) == IF k \in DOMAIN params THEN params[k] ELSE default

\* A value that does not parse leaves the field alone.
Parsed(params, k, default) ==
    LET v == Given(params, k, default)
    IN  IF v = Bad THEN default ELSE v

\* setResource: without a default, or with one that is turned off or does not
\* parse, the entry stays unset.
setResource(params, k) ==
    LET v == Given(params, k, ResourceDefaults[k])
    IN  IF v = Bad THEN None ELSE v

\* The entries NewFromCluster considers; it uses the first of them.
Considered(plugins) ==
    {i \in DOMAIN plugins : plugins[i].name = PluginName
                              /\ plugins[i].enabled # FALSE}

First(S) == CHOOSE i \in S : \A j \in S : i <= j

NewFromCluster(plugins, image) ==
    LET own == Considered(plugins)
        params == IF own = {} THEN NoParams
                  ELSE plugins[First(own)].parameters
    IN  [enabled |-> own # {},
         poolerPort |-> Parsed(params, "poolerPort", DefaultPoolerPort),
         metricsPort |-> Parsed(params, "metricsPort", DefaultMetricsPort),
         configName |-> Given(params, "configName", ""),
         sidecarImage |-> image,
         logLevel |-> Given(params, "logLevel", "info"),
         inPlaceUpgrades |-> Parsed(params, "inPlaceUpgrades", FALSE),
         resources |-> [k \in DOMAIN ResourceDefaults |->
                           IF own = {} THEN None ELSE setResource(params, k)],
         parseErrors |-> {k \in ParsedParams \cap DOMAIN params :
                             params[k] = Bad}]

\* The ports Validate lets through.
PortRange == 1..65535

PortFits(port) == port \in PortRange /\ port \notin ReservedPorts

RequestWithin(request, limit) ==
    None \notin {request, limit} => request <= limit

\* Mutant: only the pooler port is compared with the ports of the pod.
ValidatePoolerPort(cfg) ==
    /\ cfg.parseErrors = {}
    /\ cfg.configName # ""
    /\ PortFits(cfg.poolerPort)
    /\ cfg.metricsPort \in PortRange
    /\ cfg.sidecarImage # NoImage
    /\ cfg.poolerPort # cfg.metricsPort
    /\ cfg.logLevel \in LogLevels
    /\ RequestWithin(cfg.resources.sidecarCpuRequest,
                     cfg.resources.sidecarCpuLimit)
    /\ RequestWithin(cfg.resources.sidecarMemoryRequest,
                     cfg.resources.sidecarMemoryLimit)

Validate(cfg) ==
    /\ cfg.parseErrors = {}
    /\ cfg.configName # ""
    /\ PortFits(cfg.poolerPort)
    /\ PortFits(cfg.metricsPort)
    /\ cfg.sidecarImage # NoImage
    /\ cfg.poolerPort # cfg.metricsPort
    /\ cfg.logLevel \in LogLevels
    /\ RequestWithin(cfg.resources.sidecarCpuRequest,
                     cfg.resources.sidecarCpuLimit)
    /\ RequestWithin(cfg.resources.sidecarMemoryRequest,
                     cfg.resources.sidecarMemoryLimit)

\* validateConfig: a Cluster without the plugin is none of its business.
validateConfig(cfg) == cfg.enabled => Validate(cfg)

\* Mutant: both ports are written when one is missing.
SetDefaultsBoth(params) ==
    LET ports == [poolerPort |-> DefaultPoolerPort,
                  metricsPort |-> DefaultMetricsPort]
    IN  IF DOMAIN ports \subseteq DOMAIN params THEN params
        ELSE [k \in DOMAIN params \cup DOMAIN ports |->
                 IF k \in DOMAIN ports THEN ports[k] ELSE params[k]]

SetDefaults(params) ==
    LET ports == [poolerPort |-> DefaultPoolerPort,
                  metricsPort |-> DefaultMetricsPort]
    IN  [k \in DOMAIN params \cup DOMAIN ports |->
            IF k \in DOMAIN params THEN params[k] ELSE ports[k]]

\* MutateCluster: every entry of this plugin, the disabled ones too.
MutateCluster(plugins) ==
    [i \in DOMAIN plugins |->
        IF plugins[i].name = PluginName
        THEN [plugins[i] EXCEPT !.parameters = SetDefaults(@)]
        ELSE plugins[i]]

=============================================================================
