---------------------------- MODULE PodInjection ----------------------------
(***************************************************************************)
(* The pod lifecycle hook (internal/lifecycle): what it makes of a pod     *)
(* spec.  CNPG calls it to create a pod and to evaluate one, and may hand  *)
(* it a spec that went through it before.                                  *)
(*                                                                         *)
(* A pod spec is its lists of volumes and init containers, each entry with *)
(* a name that is unique in its list.  What is the same in every sidecar   *)
(* (mounts, probe, environment, security context) is left out.             *)
(***************************************************************************)
EXTENDS Integers, Sequences

CONSTANTS PluginName, Unset, Bad, None, NoImage

P == INSTANCE PluginConfig

hasNamed(list, n) == \E i \in DOMAIN list : list[i].name = n

\* Mutant: the entry is appended even though the list has one of its name.
ensureByAppending(list, item) == Append(list, item)

\* ensureVolume, and the loop over the init containers: an entry of the same
\* name is replaced where it stands.
ensure(list, item) ==
    LET same == {i \in DOMAIN list : list[i].name = item.name}
    IN  IF same = {} THEN Append(list, item)
        ELSE [list EXCEPT ![P!First(same)] = item]

\* An empty spec.certificates.serverTLSSecret means the CNPG convention.
serverTLSSecretName(cluster) ==
    IF cluster.serverTLSSecret # "" THEN cluster.serverTLSSecret ELSE "server"

\* The volumes in the order injectSidecar adds them: scratch is only added,
\* the others replace what has their name.
injectVolumes(volumes, cluster) ==
    LET scratch == [name |-> "scratch", source |-> "memory"]
        tls == [name |-> "tls", source |-> serverTLSSecretName(cluster)]
        podInfo == [name |-> "podinfo", source |-> "role"]
        config == [name |-> "config", source |-> "doorman-config"]
        start == IF hasNamed(volumes, "scratch") THEN volumes
                 ELSE Append(volumes, scratch)
    IN  ensure(ensure(ensure(start, tls), podInfo), config)

sidecar(cfg) ==
    [name |-> "pg-doorman", image |-> cfg.sidecarImage,
     ports |-> <<cfg.poolerPort, cfg.metricsPort>>,
     logLevel |-> cfg.logLevel, resources |-> cfg.resources]

injectSidecar(spec, cfg, cluster) ==
    [volumes |-> injectVolumes(spec.volumes, cluster),
     initContainers |-> ensure(spec.initContainers, sidecar(cfg))]

\* The hook refuses parameters that do not validate, which blocks the pod.
lifecycleHookFails(cluster, image) ==
    ~P!validateConfig(P!NewFromCluster(cluster.plugins, image))

lifecycleHook(spec, cluster, image) ==
    LET cfg == P!NewFromCluster(cluster.plugins, image)
    IN  IF cfg.enabled THEN injectSidecar(spec, cfg, cluster) ELSE spec

=============================================================================
