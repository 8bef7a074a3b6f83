-------------------------- MODULE MCPluginRollout --------------------------
(* Release 2 brings new binaries with the sidecar image of release 1, but  *)
(* none for arm64; release 3 also changes the image, and its binary 4 for  *)
(* arm64 rejects what is rendered.                                         *)
EXTENDS PluginRollout

MCRelease == <<
    [image |-> "s1", manifest |-> [a \in {"amd64", "arm64"} |-> 1],
     baseURL |-> TRUE],
    [image |-> "s1", manifest |-> [a \in {"amd64"} |-> 2], baseURL |-> TRUE],
    [image |-> "s3", manifest |-> [amd64 |-> 3, arm64 |-> 4],
     baseURL |-> TRUE]>>

MCImageBin == [s1 |-> [a \in {"amd64", "arm64"} |-> 1],
               s3 |-> [a \in {"amd64", "arm64"} |-> 3]]

Entry(enabled, params) ==
    [name |-> PluginName, enabled |-> enabled, parameters |-> params]
Other == [name |-> "other", enabled |-> TRUE, parameters |-> P!NoParams]
Cluster(plugins, tls) == [plugins |-> plugins, serverTLSSecret |-> tls]

\* Valid ones, then entries that only their defaults make invalid or
\* whose order decides, then ones that are invalid by themselves.
MCClusters == {
    Cluster(<<Entry(FALSE, [configName |-> "a", poolerPort |-> Bad]), Other,
              Entry(TRUE, [configName |-> "a", inPlaceUpgrades |-> TRUE,
                           poolerPort |-> 7000]),
              Entry(TRUE, [configName |-> "b"])>>, "tls"),
    Cluster(<<Entry(Unset, [configName |-> "a", metricsPort |-> 6433,
                            sidecarMemoryRequest |-> 600,
                            sidecarMemoryLimit |-> None])>>, ""),
    Cluster(<<Other>>, ""),
    Cluster(<<Entry(TRUE, [configName |-> "a", poolerPort |-> 9127])>>, ""),
    Cluster(<<Entry(TRUE, [configName |-> "a", metricsPort |-> 6432])>>, ""),
    Cluster(<<Entry(TRUE, [configName |-> "a", metricsPort |-> 8081])>>, ""),
    Cluster(<<Entry(TRUE, [configName |-> "a", poolerPort |-> 5432])>>, ""),
    Cluster(<<Entry(TRUE, [configName |-> "a", poolerPort |-> 0])>>, ""),
    Cluster(<<Entry(TRUE, [configName |-> "a", metricsPort |-> 65536])>>, ""),
    Cluster(<<Entry(TRUE, [configName |-> "a",
                           sidecarMemoryRequest |-> 600])>>, ""),
    Cluster(<<Entry(TRUE, [configName |-> "a", logLevel |-> "verbose"])>>, ""),
    Cluster(<<Entry(TRUE, [configName |-> "a", inPlaceUpgrades |-> Bad])>>, ""),
    Cluster(<<Entry(Unset, P!NoParams)>>, "")}

\* Of these, one that its defaults make invalid and one whose entries decide;
\* the plugin validates the others with the same operator.
MCUnchecked == {c \in MCClusters :
    LET params == c.plugins[1].parameters
    IN  "poolerPort" \in DOMAIN params /\ params.poolerPort \in {Bad, 9127}}

=============================================================================
