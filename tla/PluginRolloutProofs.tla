------------------------ MODULE PluginRolloutProofs ------------------------
(***************************************************************************)
(* Proofs about PluginRollout and the functions it is built from, for any  *)
(* releases, replicas, pods and Clusters.                                  *)
(***************************************************************************)
EXTENDS PluginRollout, WellFoundedInduction, TLAPS

-----------------------------------------------------------------------------
(* Reading and defaulting the parameters.                                  *)

\* Lists are searched from the front: the first of some positions is one.
LEMMA FirstIn ==
  ASSUME NEW T \in SUBSET Nat, T # {}
  PROVE  /\ P!First(T) \in T
         /\ \A j \in T : P!First(T) <= j
<1> DEFINE Less == {ss \in Nat \X Nat : ss[1] < ss[2]}
<1>1. \E x \in T : \A y \in T : <<y, x>> \notin OpToRel(<, Nat)
  BY NatLessThanWellFounded, WFMin
<1>2. OpToRel(<, Nat) = Less
  BY Zenon DEF OpToRel
<1>3. PICK x \in T : \A y \in T : <<y, x>> \notin Less
  BY <1>1, <1>2, Zenon
<1>4. ASSUME NEW y \in T PROVE x <= y
  <2>1. x \in Nat /\ y \in Nat
    OBVIOUS
  <2>2. y < x => <<y, x>> \in Less
    BY <2>1
  <2> QED
    BY <1>3, <2>1, <2>2
<1> QED
  BY <1>4 DEF P!First

\* The nested instance searches the same way.
LEMMA SameFirst == \A T : L!P!First(T) = P!First(T)
  BY DEF P!First, L!P!First

\* SetDefaults adds the ports that are not given and changes nothing else.
LEMMA DefaultsAdd ==
  ASSUME NEW params
  PROVE  /\ DOMAIN P!SetDefaults(params)
              = DOMAIN params \cup {"poolerPort", "metricsPort"}
         /\ \A k \in DOMAIN params : P!SetDefaults(params)[k] = params[k]
         /\ "poolerPort" \notin DOMAIN params
              => P!SetDefaults(params)["poolerPort"] = P!DefaultPoolerPort
         /\ "metricsPort" \notin DOMAIN params
              => P!SetDefaults(params)["metricsPort"] = P!DefaultMetricsPort
  BY DEF P!SetDefaults

\* What NewFromCluster makes of the parameters of one entry.
LEMMA DefaultsMeanTheSame ==
  ASSUME NEW params
  PROVE  LET d == P!SetDefaults(params)
         IN  /\ P!Parsed(d, "poolerPort", P!DefaultPoolerPort)
                  = P!Parsed(params, "poolerPort", P!DefaultPoolerPort)
             /\ P!Parsed(d, "metricsPort", P!DefaultMetricsPort)
                  = P!Parsed(params, "metricsPort", P!DefaultMetricsPort)
             /\ \A k, e : k \notin {"poolerPort", "metricsPort"} =>
                   P!Given(d, k, e) = P!Given(params, k, e)
             /\ {k \in P!ParsedParams \cap DOMAIN d : d[k] = Bad}
                  = {k \in P!ParsedParams \cap DOMAIN params : params[k] = Bad}
<1> DEFINE d == P!SetDefaults(params)
<1>0. /\ DOMAIN d = DOMAIN params \cup {"poolerPort", "metricsPort"}
      /\ \A k \in DOMAIN params : d[k] = params[k]
      /\ "poolerPort" \notin DOMAIN params
           => d["poolerPort"] = P!DefaultPoolerPort
      /\ "metricsPort" \notin DOMAIN params
           => d["metricsPort"] = P!DefaultMetricsPort
  BY DefaultsAdd
<1> HIDE DEF d
<1>1. P!Parsed(d, "poolerPort", P!DefaultPoolerPort)
        = P!Parsed(params, "poolerPort", P!DefaultPoolerPort)
  BY <1>0 DEF P!Parsed, P!Given
<1>2. P!Parsed(d, "metricsPort", P!DefaultMetricsPort)
        = P!Parsed(params, "metricsPort", P!DefaultMetricsPort)
  BY <1>0 DEF P!Parsed, P!Given
<1>3. \A k, e : k \notin {"poolerPort", "metricsPort"} =>
          P!Given(d, k, e) = P!Given(params, k, e)
  BY <1>0 DEF P!Given
<1>4. {k \in P!ParsedParams \cap DOMAIN d : d[k] = Bad}
        = {k \in P!ParsedParams \cap DOMAIN params : params[k] = Bad}
  BY <1>0, BadAssumption DEF P!ParsedParams
<1> QED
  BY <1>1, <1>2, <1>3, <1>4 DEF d

\* A list of plugin entries, as far as the functions look at it.
IsPlugins(plugins) ==
    /\ DOMAIN plugins \subseteq Nat
    /\ \A i \in DOMAIN plugins :
          DOMAIN plugins[i] = {"name", "enabled", "parameters"}

\* MutateCluster leaves alone which entries there are and which of them count.
LEMMA MutateKeepsEntries ==
  ASSUME NEW plugins, IsPlugins(plugins)
  PROVE  LET m == P!MutateCluster(plugins)
         IN  /\ DOMAIN m = DOMAIN plugins
             /\ P!Considered(m) = P!Considered(plugins)
             /\ \A i \in P!Considered(plugins) :
                   m[i].parameters = P!SetDefaults(plugins[i].parameters)
<1> DEFINE m == P!MutateCluster(plugins)
<1>1. DOMAIN m = DOMAIN plugins
  BY DEF P!MutateCluster
<1>2. ASSUME NEW i \in DOMAIN plugins
      PROVE  /\ m[i].name = plugins[i].name
             /\ m[i].enabled = plugins[i].enabled
             /\ plugins[i].name = PluginName =>
                   m[i].parameters = P!SetDefaults(plugins[i].parameters)
  BY DEF P!MutateCluster, IsPlugins
<1> HIDE DEF m
<1>3. P!Considered(m) = P!Considered(plugins)
  BY <1>1, <1>2 DEF P!Considered
<1> QED
  BY <1>1, <1>2, <1>3 DEF P!Considered, m

\* Whatever a user wrote, for every image and whichever entries count, the
\* defaulted Cluster means the same to NewFromCluster: SetDefaults writes out
\* what an absent port stands for and hides no error of another parameter.
THEOREM DefaultingKeepsMeaning ==
  ASSUME NEW plugins, IsPlugins(plugins), NEW image
  PROVE  P!NewFromCluster(P!MutateCluster(plugins), image)
           = P!NewFromCluster(plugins, image)
<1> DEFINE m == P!MutateCluster(plugins)
           own == P!Considered(plugins)
           params == IF own = {} THEN P!NoParams
                     ELSE plugins[P!First(own)].parameters
           d == IF own = {} THEN P!NoParams ELSE m[P!First(own)].parameters
<1>1. P!Considered(m) = own
  BY MutateKeepsEntries
<1>2. own # {} => P!First(own) \in own
  <2>1. own \in SUBSET Nat
    BY DEF P!Considered, IsPlugins
  <2> QED
    BY <2>1, FirstIn
<1>3. own # {} => d = P!SetDefaults(params)
  BY <1>2, MutateKeepsEntries
<1>4. /\ P!Parsed(d, "poolerPort", P!DefaultPoolerPort)
           = P!Parsed(params, "poolerPort", P!DefaultPoolerPort)
      /\ P!Parsed(d, "metricsPort", P!DefaultMetricsPort)
           = P!Parsed(params, "metricsPort", P!DefaultMetricsPort)
      /\ \A k, e : k \notin {"poolerPort", "metricsPort"} =>
            P!Given(d, k, e) = P!Given(params, k, e)
      /\ {k \in P!ParsedParams \cap DOMAIN d : d[k] = Bad}
           = {k \in P!ParsedParams \cap DOMAIN params : params[k] = Bad}
  <2>1. CASE own = {}
    <3>1. d = params
      BY <2>1
    <3> HIDE DEF d, params
    <3> QED
      BY <3>1
  <2>2. CASE own # {}
    <3>1. d = P!SetDefaults(params)
      BY <1>3, <2>2
    <3> HIDE DEF d, params
    <3> QED
      BY <3>1, DefaultsMeanTheSame
  <2> QED
    BY <2>1, <2>2
<1> HIDE DEF d, params, own
<1>5. P!Parsed(d, "inPlaceUpgrades", FALSE)
        = P!Parsed(params, "inPlaceUpgrades", FALSE)
  BY <1>4 DEF P!Parsed
<1>6. \A k \in DOMAIN P!ResourceDefaults :
          P!setResource(d, k) = P!setResource(params, k)
  BY <1>4 DEF P!setResource, P!ResourceDefaults
<1>7. /\ P!Given(d, "configName", "") = P!Given(params, "configName", "")
      /\ P!Given(d, "logLevel", "info") = P!Given(params, "logLevel", "info")
  BY <1>4
<1>8. [k \in DOMAIN P!ResourceDefaults |->
          IF own = {} THEN None ELSE P!setResource(d, k)]
        = [k \in DOMAIN P!ResourceDefaults |->
              IF own = {} THEN None ELSE P!setResource(params, k)]
  BY <1>6
<1> QED
  BY <1>1, <1>4, <1>5, <1>7, <1>8, Zenon DEF P!NewFromCluster, d, params, own

-----------------------------------------------------------------------------
(***************************************************************************)
(* The lists of a pod spec.  An entry is in place in a list if it is the   *)
(* first of its name: this is what ensure brings about, what adding other  *)
(* names keeps, and what makes a second ensure change nothing.             *)
(***************************************************************************)

Named(list, n) == {i \in DOMAIN list : list[i].name = n}

InPlace(list, item) ==
    /\ Named(list, item.name) # {}
    /\ list[P!First(Named(list, item.name))] = item

Appended(e, list, item) ==
    /\ Len(e) = Len(list) + 1
    /\ e[Len(list) + 1] = item
    /\ \A i \in 1..Len(list) : e[i] = list[i]

ReplacedAt(k, e, list, item) ==
    /\ Len(e) = Len(list)
    /\ \A i \in 1..Len(list) : e[i] = IF i = k THEN item ELSE list[i]

\* ensure, by its two cases.
LEMMA EnsureCases ==
  ASSUME NEW E, NEW list \in Seq(E), NEW item \in E
  PROVE  LET e == L!ensure(list, item)
             same == Named(list, item.name)
         IN  /\ e \in Seq(E)
             /\ same = {} => Appended(e, list, item)
             /\ same # {} =>
                   /\ P!First(same) \in same
                   /\ ReplacedAt(P!First(same), e, list, item)
<1> DEFINE e == L!ensure(list, item)
           same == Named(list, item.name)
           k == P!First(same)
<1>1. same \in SUBSET Nat /\ same \subseteq 1..Len(list)
  BY DEF Named
<1>2. e = IF same = {} THEN Append(list, item) ELSE [list EXCEPT ![k] = item]
  BY SameFirst, Zenon DEF L!ensure, Named
<1>3. CASE same = {}
  <2>1. e = Append(list, item)
    BY <1>2, <1>3
  <2> QED
    BY <1>3, <2>1 DEF Appended
<1>4. CASE same # {}
  <2>1. k \in same
    BY <1>1, <1>4, FirstIn
  <2>2. e = [list EXCEPT ![k] = item]
    BY <1>2, <1>4
  <2> HIDE DEF same, k, e
  <2>3. e \in Seq(E) /\ Len(e) = Len(list)
    BY <1>1, <2>1, <2>2
  <2>4. \A i \in 1..Len(list) : e[i] = IF i = k THEN item ELSE list[i]
    BY <1>1, <2>1, <2>2
  <2> QED
    BY <1>4, <2>1, <2>3, <2>4 DEF same, k, e, ReplacedAt
<1> QED
  BY <1>3, <1>4

\* The positions of a name after ensure.
LEMMA EnsureNames ==
  ASSUME NEW E, NEW list \in Seq(E), NEW item \in E, NEW n
  PROVE  LET e == L!ensure(list, item)
         IN  /\ n # item.name \/ Named(list, n) # {}
                  => Named(e, n) = Named(list, n)
             /\ n = item.name /\ Named(list, n) = {}
                  => Named(e, n) = {Len(list) + 1}
<1> DEFINE e == L!ensure(list, item)
           same == Named(list, item.name)
<1>0. e \in Seq(E)
  BY EnsureCases
<1>1. CASE same = {}
  <2>1. Appended(e, list, item)
    BY <1>1, EnsureCases
  <2> HIDE DEF e
  <2> QED
    BY <1>0, <1>1, <2>1 DEF Named, Appended, e
<1>2. CASE same # {}
  <2>1. P!First(same) \in same /\ ReplacedAt(P!First(same), e, list, item)
    BY <1>2, EnsureCases
  <2> HIDE DEF e
  <2> QED
    BY <1>0, <1>2, <2>1 DEF Named, ReplacedAt, e
<1> QED
  BY <1>1, <1>2

\* The only position of a set is its first.
LEMMA FirstOfOne == ASSUME NEW n \in Nat PROVE P!First({n}) = n
  BY FirstIn

\* ensure puts its entry in place ...
LEMMA EnsurePlaces ==
  ASSUME NEW E, NEW list \in Seq(E), NEW item \in E
  PROVE  InPlace(L!ensure(list, item), item)
<1> DEFINE e == L!ensure(list, item)
           same == Named(list, item.name)
<1>1. CASE same = {}
  <2>1. Named(e, item.name) = {Len(list) + 1}
    BY <1>1, EnsureNames
  <2>2. Appended(e, list, item)
    BY <1>1, EnsureCases
  <2>3. P!First({Len(list) + 1}) = Len(list) + 1
    BY FirstOfOne
  <2> QED
    BY <2>1, <2>2, <2>3 DEF InPlace, Appended
<1>2. CASE same # {}
  <2>1. Named(e, item.name) = same
    BY <1>2, EnsureNames
  <2>2. P!First(same) \in same /\ ReplacedAt(P!First(same), e, list, item)
    BY <1>2, EnsureCases
  <2>3. e[P!First(same)] = item
    BY <2>2 DEF Named, ReplacedAt
  <2> QED
    BY <1>2, <2>1, <2>3 DEF InPlace
<1> QED
  BY <1>1, <1>2

\* ... and leaves one of another name there.
LEMMA EnsureKeeps ==
  ASSUME NEW E, NEW list \in Seq(E), NEW item \in E, NEW other \in E,
         other.name # item.name, InPlace(list, other)
  PROVE  InPlace(L!ensure(list, item), other)
<1> DEFINE e == L!ensure(list, item)
           k == P!First(Named(list, other.name))
<1>1. Named(e, other.name) = Named(list, other.name)
  BY EnsureNames
<1>2. k \in Named(list, other.name)
  <2>1. Named(list, other.name) \in SUBSET Nat
    BY DEF Named
  <2> QED
    BY <2>1, FirstIn DEF InPlace
<1>3. k \in 1..Len(list) /\ k \notin Named(list, item.name)
  BY <1>2 DEF Named
<1>4. e[k] = list[k]
  <2>1. \/ Appended(e, list, item)
        \/ \E j \in Named(list, item.name) : ReplacedAt(j, e, list, item)
    BY EnsureCases
  <2> QED
    BY <1>3, <2>1 DEF Appended, ReplacedAt
<1> QED
  BY <1>1, <1>4 DEF InPlace

\* Sequences are their entries.
LEMMA SameEntries ==
  ASSUME NEW E, NEW s \in Seq(E), NEW t \in Seq(E), Len(s) = Len(t),
         \A i \in 1..Len(s) : s[i] = t[i]
  PROVE  s = t
  OBVIOUS

\* An entry that is in place is not touched.
LEMMA EnsureAgain ==
  ASSUME NEW E, NEW list \in Seq(E), NEW item \in E, InPlace(list, item)
  PROVE  L!ensure(list, item) = list
<1> DEFINE e == L!ensure(list, item)
           same == Named(list, item.name)
<1>1. same # {} /\ list[P!First(same)] = item
  BY DEF InPlace
<1>2. e \in Seq(E) /\ ReplacedAt(P!First(same), e, list, item)
  BY <1>1, EnsureCases
<1> HIDE DEF e
<1>3. Len(e) = Len(list) /\ \A i \in 1..Len(e) : e[i] = list[i]
  BY <1>1, <1>2 DEF ReplacedAt
<1> QED
  BY <1>2, <1>3, SameEntries DEF e

\* Of two entries with one name the later one stays, where the earlier stood.
LEMMA EnsureReplaces ==
  ASSUME NEW E, NEW list \in Seq(E), NEW item \in E, NEW other \in E,
         other.name = item.name
  PROVE  L!ensure(L!ensure(list, other), item) = L!ensure(list, item)
<1> DEFINE e == L!ensure(list, other)
           f == L!ensure(list, item)
           g == L!ensure(e, item)
           same == Named(list, item.name)
           k == P!First(same)
<1>1. e \in Seq(E) /\ f \in Seq(E)
  BY EnsureCases
<1>2. g \in Seq(E)
  BY <1>1, EnsureCases
<1>s. same = Named(list, other.name)
  OBVIOUS
<1>3. CASE same = {}
  <2>1. Appended(e, list, other)
    BY <1>3, <1>s, EnsureCases
  <2>2. Appended(f, list, item)
    BY <1>3, EnsureCases
  <2>3. Named(e, other.name) = {Len(list) + 1}
    BY <1>3, <1>s, EnsureNames
  <2>4. P!First(Named(e, item.name)) = Len(list) + 1
    BY <2>3, FirstOfOne
  <2> HIDE DEF e, f, same
  <2>5. Named(e, item.name) # {}
    BY <2>3
  <2>6. ReplacedAt(P!First(Named(e, item.name)), g, e, item)
    BY <1>1, <2>5, EnsureCases
  <2> HIDE DEF g
  <2>7. Len(g) = Len(f) /\ \A i \in 1..Len(g) : g[i] = f[i]
    BY <1>1, <2>1, <2>2, <2>4, <2>6 DEF Appended, ReplacedAt
  <2> QED
    BY <1>1, <1>2, <2>7, SameEntries DEF e, f, g
<1>4. CASE same # {}
  <2>1. ReplacedAt(P!First(Named(list, other.name)), e, list, other)
    BY <1>4, <1>s, EnsureCases
  <2>2. ReplacedAt(k, f, list, item)
    BY <1>4, EnsureCases
  <2>3. Named(e, other.name) = Named(list, other.name)
    BY <1>4, <1>s, EnsureNames
  <2>4. Named(e, item.name) # {}
    BY <1>4, <2>3
  <2> HIDE DEF e, f
  <2>5. ReplacedAt(P!First(Named(e, item.name)), g, e, item)
    BY <1>1, <2>4, EnsureCases
  <2>6. P!First(Named(e, item.name)) = k
    BY <2>3
  <2> HIDE DEF g, k, same
  <2>7. ReplacedAt(k, e, list, other)
    BY <2>1, <1>s DEF k
  <2>8. Len(g) = Len(f) /\ \A i \in 1..Len(g) : g[i] = f[i]
    BY <1>1, <2>2, <2>5, <2>6, <2>7 DEF ReplacedAt
  <2> QED
    BY <1>1, <1>2, <2>8, SameEntries DEF e, f, g
<1> QED
  BY <1>3, <1>4

\* The volumes are in place after one call: a second one changes nothing.
LEMMA VolumesTwice ==
  ASSUME NEW V, NEW volumes \in Seq(V), NEW c
  PROVE  L!injectVolumes(L!injectVolumes(volumes, c), c)
           = L!injectVolumes(volumes, c)
<1> DEFINE scratch == [name |-> "scratch", source |-> "memory"]
           tls == [name |-> "tls", source |-> L!serverTLSSecretName(c)]
           podInfo == [name |-> "podinfo", source |-> "role"]
           config == [name |-> "config", source |-> "doorman-config"]
           E == V \cup {scratch, tls, podInfo, config}
           start == IF L!hasNamed(volumes, "scratch") THEN volumes
                    ELSE Append(volumes, scratch)
           w1 == L!ensure(start, tls)
           w2 == L!ensure(w1, podInfo)
           w3 == L!ensure(w2, config)
<1>1. volumes \in Seq(E) /\ start \in Seq(E)
  OBVIOUS
<1>2. tls \in E /\ podInfo \in E /\ config \in E
  OBVIOUS
<1>3. tls.name = "tls" /\ podInfo.name = "podinfo" /\ config.name = "config"
  OBVIOUS
<1>4. Named(start, "scratch") # {}
  <2>1. CASE L!hasNamed(volumes, "scratch")
    BY <2>1 DEF Named, L!hasNamed
  <2>2. CASE ~L!hasNamed(volumes, "scratch")
    <3>1. /\ Len(volumes) + 1 \in DOMAIN start
          /\ start[Len(volumes) + 1] = scratch
      BY <1>1, <2>2
    <3>2. scratch.name = "scratch"
      OBVIOUS
    <3> QED
      BY <3>1, <3>2, Zenon DEF Named
  <2> QED
    BY <2>1, <2>2
<1>5. L!injectVolumes(volumes, c) = w3
  BY Zenon DEF L!injectVolumes
<1>6. ASSUME NEW list, L!hasNamed(list, "scratch")
      PROVE  L!injectVolumes(list, c)
               = L!ensure(L!ensure(L!ensure(list, tls), podInfo), config)
  BY <1>6, Zenon DEF L!injectVolumes
<1> HIDE DEF tls, podInfo, config, E, start
<1>7. /\ w1 \in Seq(E)
      /\ InPlace(w1, tls)
      /\ Named(w1, "scratch") # {}
  <2>1. w1 \in Seq(E)
    BY <1>1, <1>2, EnsureCases
  <2>2. InPlace(w1, tls)
    BY <1>1, <1>2, EnsurePlaces
  <2>3. Named(w1, "scratch") = Named(start, "scratch")
    BY <1>1, <1>2, <1>3, EnsureNames
  <2> QED
    BY <1>4, <2>1, <2>2, <2>3
<1> HIDE DEF w1
<1>8. /\ w2 \in Seq(E)
      /\ InPlace(w2, tls)
      /\ InPlace(w2, podInfo)
      /\ Named(w2, "scratch") # {}
  <2>1. w2 \in Seq(E)
    BY <1>2, <1>7, EnsureCases
  <2>2. InPlace(w2, podInfo)
    BY <1>2, <1>7, EnsurePlaces
  <2>3. InPlace(w2, tls)
    BY <1>2, <1>3, <1>7, EnsureKeeps
  <2>4. Named(w2, "scratch") = Named(w1, "scratch")
    BY <1>2, <1>3, <1>7, EnsureNames
  <2> QED
    BY <1>7, <2>1, <2>2, <2>3, <2>4
<1> HIDE DEF w2
<1>9. /\ w3 \in Seq(E)
      /\ InPlace(w3, tls)
      /\ InPlace(w3, podInfo)
      /\ InPlace(w3, config)
      /\ Named(w3, "scratch") # {}
  <2>1. w3 \in Seq(E)
    BY <1>2, <1>8, EnsureCases
  <2>2. InPlace(w3, config)
    BY <1>2, <1>8, EnsurePlaces
  <2>3. InPlace(w3, tls) /\ InPlace(w3, podInfo)
    BY <1>2, <1>3, <1>8, EnsureKeeps
  <2>4. Named(w3, "scratch") = Named(w2, "scratch")
    BY <1>2, <1>3, <1>8, EnsureNames
  <2> QED
    BY <1>8, <2>1, <2>2, <2>3, <2>4
<1> HIDE DEF w3
<1>10. L!hasNamed(w3, "scratch")
  BY <1>9 DEF Named, L!hasNamed
<1>11. /\ L!ensure(w3, tls) = w3
       /\ L!ensure(w3, podInfo) = w3
       /\ L!ensure(w3, config) = w3
  BY <1>2, <1>9, EnsureAgain
<1> QED
  BY <1>5, <1>6, <1>10, <1>11

\* Only the image tells the configurations of two replicas apart.
LEMMA SameEnabled ==
  \A plugins, i, j : L!P!NewFromCluster(plugins, i).enabled
                       = L!P!NewFromCluster(plugins, j).enabled
  BY DEF L!P!NewFromCluster

\* Whatever pod spec CNPG hands in, and even if the two calls are answered by
\* replicas with different images, the hook called twice makes of it what its
\* second call alone would have made: entries are replaced where they stand,
\* none is added twice and none of the first call survives.
THEOREM HookTwice ==
  ASSUME NEW V, NEW C,
         NEW spec \in [volumes : Seq(V), initContainers : Seq(C)],
         NEW c, NEW i, NEW j
  PROVE  L!lifecycleHook(L!lifecycleHook(spec, c, i), c, j)
           = L!lifecycleHook(spec, c, j)
<1> DEFINE cfg(image) == L!P!NewFromCluster(c.plugins, image)
           once == L!injectSidecar(spec, cfg(i), c)
<1>1. CASE ~cfg(i).enabled
  <2>1. ~cfg(j).enabled
    BY <1>1, SameEnabled
  <2> QED
    BY <1>1, <2>1, Zenon DEF L!lifecycleHook
<1>2. CASE cfg(i).enabled
  <2>1. cfg(j).enabled
    BY <1>2, SameEnabled
  <2>2. /\ L!lifecycleHook(spec, c, i) = once
        /\ L!lifecycleHook(spec, c, j) = L!injectSidecar(spec, cfg(j), c)
        /\ L!lifecycleHook(once, c, j) = L!injectSidecar(once, cfg(j), c)
    BY <1>2, <2>1, Zenon DEF L!lifecycleHook
  <2>3. /\ once.volumes = L!injectVolumes(spec.volumes, c)
        /\ once.initContainers
             = L!ensure(spec.initContainers, L!sidecar(cfg(i)))
    BY DEF L!injectSidecar
  <2>4. L!injectVolumes(once.volumes, c) = L!injectVolumes(spec.volumes, c)
    BY <2>3, VolumesTwice
  <2>5. L!ensure(once.initContainers, L!sidecar(cfg(j)))
          = L!ensure(spec.initContainers, L!sidecar(cfg(j)))
    <3> DEFINE E == C \cup {L!sidecar(cfg(i)), L!sidecar(cfg(j))}
    <3>1. L!sidecar(cfg(i)).name = L!sidecar(cfg(j)).name
      BY DEF L!sidecar
    <3>2. spec.initContainers \in Seq(E)
      OBVIOUS
    <3>3. L!sidecar(cfg(i)) \in E /\ L!sidecar(cfg(j)) \in E
      OBVIOUS
    <3> HIDE DEF E, cfg
    <3> QED
      BY <2>3, <3>1, <3>2, <3>3, EnsureReplaces
  <2>6. L!injectSidecar(once, cfg(j), c) = L!injectSidecar(spec, cfg(j), c)
    BY <2>4, <2>5, Zenon DEF L!injectSidecar
  <2> QED
    BY <2>2, <2>6, Zenon
<1> QED
  BY <1>1, <1>2

-----------------------------------------------------------------------------
(* Types.                                                                  *)

\* A Cluster is stored as it was given or as admission makes it.
LEMMA StoredAsGiven ==
  ASSUME NEW c, NEW image
  PROVE  Stored(c, image) \subseteq {c, Admit(c)}
  BY Zenon DEF Stored

\* TypeOK holds initially.
LEMMA TypeInit == Init => TypeOK
<1> SUFFICES ASSUME Init PROVE TypeOK
  OBVIOUS
<1>1. queued = FALSE /\ secret = NoSecret /\ service = NoService
  BY Zenon DEF Init
<1>2. /\ up \in [Replicas -> Releases \cup {Down}]
      /\ leader = NoLeader /\ desired \in Releases /\ events \in 0..MaxEvents
  BY RolloutAssumption DEF Init
<1>3. asked \in Clusters /\ cluster \in {asked, Admit(asked)}
  BY StoredAsGiven, Zenon DEF Init
<1> QED
  BY <1>1, <1>2, <1>3, Zenon DEF Init, TypeOK

\* What the binary watcher and the pooler do is to a binary of a pod that is
\* there.
LEMMA BinarySteps ==
  ASSUME NEW p \in Pods, NEW r,
         BinaryStep(p, r) \/ PoolerRestarts(p)
  PROVE  HasSidecar(p) /\ \E new : SetBinary(p, new)
<1>1. CASE PoolerRestarts(p)
  BY <1>1, Zenon DEF PoolerRestarts, Booted
<1>2. CASE BinaryStep(p, r)
  <2> DEFINE b == pods[p].binary
  <2>1. HasSidecar(p)
    BY <1>2, Zenon DEF BinaryStep, Booted
  <2>2. CheckApplied(p, b) \/ Swap(p, r, b) \/ HandoverEnds(p, b)
    BY <1>2, Zenon DEF BinaryStep
  <2> HIDE DEF b
  <2> QED
    BY <2>1, <2>2, Zenon
       DEF CheckApplied, Swap, HandoverEnds, UpgradeSucceeds, UpgradeFails
<1> QED
  BY <1>1, <1>2

\* What happens is counted, up to the bound.
LEMMA EventsNext ==
  ASSUME events \in 0..MaxEvents, Happens \/ UNCHANGED events
  PROVE  events' \in 0..MaxEvents
  BY RolloutAssumption DEF Happens

\* Whatever replicas come and go, the lease is with one that runs.
LEMMA TypeNext == TypeOK /\ [Next]_vars => TypeOK'
<1> SUFFICES ASSUME TypeOK, [Next]_vars PROVE TypeOK'
  OBVIOUS
<1> USE DEF TypeOK, object, server
<1>1. ASSUME NEW v \in Releases, SetRelease(v) PROVE TypeOK'
  BY <1>1, EventsNext DEF SetRelease, Running
<1>2. ASSUME NEW r \in Replicas, Stop(r), Happens \/ UNCHANGED events
      PROVE  TypeOK'
  <2>1. /\ up' \in [Replicas -> Releases \cup {Down}]
        /\ leader' \in Running' \cup {NoLeader}
    BY <1>2 DEF Stop, Running
  <2>2. queued' \in BOOLEAN /\ (queued' => leader' # NoLeader)
    BY <1>2 DEF Stop
  <2>3. events' \in 0..MaxEvents
    BY <1>2, EventsNext
  <2> QED
    BY <1>2, <2>1, <2>2, <2>3, Zenon DEF Stop
<1>3. ASSUME NEW r \in Replicas, StartReplica(r) PROVE TypeOK'
  BY <1>3, RolloutAssumption DEF StartReplica, Running
<1>4. ASSUME NEW r \in Replicas, Elect(r) PROVE TypeOK'
  BY <1>4, RolloutAssumption DEF Elect, Running
<1>5. ASSUME NEW r \in Replicas, Pre(r) PROVE TypeOK'
  <2>1. secret' # NoSecret => secret' = secret
    BY <1>5, Zenon DEF Pre
  <2>2. service' \in P!PortRange \cup {NoService}
    BY <1>5, Zenon DEF Pre, P!validateConfig, P!Validate, P!PortFits
  <2> QED
    BY <1>5, <2>1, <2>2 DEF Pre, Running
<1>6. CASE Render
  <2>1. secret' # NoSecret => DOMAIN secret' = {"ports", "binary"}
    BY <1>6 DEF Render
  <2> QED
    BY <1>6, <2>1 DEF Render, Running
<1>7. ASSUME NEW c \in Clusters, NEW r \in Replicas, Submit(c, r)
      PROVE  TypeOK'
  <2>1. queued' \in BOOLEAN /\ (queued' => leader' # NoLeader)
    BY <1>7 DEF Submit
  <2>2. events' \in 0..MaxEvents
    BY <1>7, EventsNext DEF Submit
  <2>3. leader' \in Running' \cup {NoLeader}
    BY <1>7 DEF Submit, Running
  <2>4. asked' \in Clusters /\ cluster' \in {asked', Admit(asked')}
    BY <1>7, StoredAsGiven, Zenon DEF Submit
  <2> QED
    BY <1>7, <2>1, <2>2, <2>3, <2>4, Zenon DEF Submit
<1>8. CASE UNCHANGED <<object, server, secret, service>>
             /\ (Happens \/ UNCHANGED events)
  BY <1>8, EventsNext DEF Running
<1>9. ASSUME NEW p \in Pods,
             \/ PodStep(p) \/ LosePod(p) \/ \E new : SetBinary(p, new)
      PROVE  TypeOK'
  <2>1. UNCHANGED <<object, server, secret, service>>
          /\ (Happens \/ UNCHANGED events)
    BY <1>9, Zenon
       DEF PodStep, CreatePod, Evaluate, KubeletSync, Boot, PollConfig,
           LosePod, SetBinary
  <2> QED
    BY <1>8, <2>1
<1>10. CASE UNCHANGED vars
  BY <1>8, <1>10, Zenon DEF vars
<1>11. ASSUME NEW p \in Pods, NEW r,
              BinaryStep(p, r) \/ PoolerRestarts(p)
       PROVE  TypeOK'
  BY <1>9, <1>11, BinarySteps
<1> QED
  BY <1>1, <1>2, <1>3, <1>4, <1>5, <1>6, <1>7, <1>9, <1>10, <1>11, Zenon
     DEF Next, Crash, ServerStep, Replace

\* TypeOK is an invariant of a rollout: in particular the lease is never held
\* by a replica that is gone, and nothing but a valid port becomes a Service.
THEOREM TypeCorrect == Spec => []TypeOK
  BY TypeInit, TypeNext, PTL DEF Spec

\* The stored Cluster always means what its user wrote.
THEOREM AdmissionKeepsMeaning == Spec => []AdmittedAsAsked
<1>1. TypeOK => AdmittedAsAsked
  <2> SUFFICES ASSUME TypeOK PROVE AdmittedAsAsked
    OBVIOUS
  <2>1. asked \in Clusters /\ (cluster = asked \/ cluster = Admit(asked))
    BY Zenon DEF TypeOK
  <2>2. CASE cluster = asked
    BY <2>2, Zenon DEF AdmittedAsAsked
  <2>3. CASE cluster = Admit(asked)
    <3>1. cluster.plugins = P!MutateCluster(asked.plugins)
      BY <2>1, <2>3, ClusterAssumption DEF Admit
    <3>2. IsPlugins(asked.plugins)
      BY <2>1, ClusterAssumption DEF IsPlugins
    <3> QED
      BY <3>1, <3>2, DefaultingKeepsMeaning, Zenon DEF AdmittedAsAsked
  <2> QED
    BY <2>1, <2>2, <2>3
<1> QED
  BY <1>1, TypeCorrect, PTL

-----------------------------------------------------------------------------
(***************************************************************************)
(* The pods.  The properties speak of what a pod is made of and binds; the *)
(* invariant adds where that comes from: the answers the replicas give for *)
(* the stored Cluster, the   rendered Secret and the one a pod has mounted.*)
(***************************************************************************)

Fits(ports) == ports[1] # ports[2] /\ \A i \in 1..2 : P!PortFits(ports[i])

PodFields == {"spec", "arch", "made", "mount", "ports", "binary"}

\* A pod is what one call of the hook makes of its Cluster, for an image
\* that call does not refuse.
MadeRight(spec, made) ==
    \E i \in Images : /\ spec = L!lifecycleHook(BasePod, made, i)
                      /\ ~L!lifecycleHookFails(made, i)

PodRight(pod) ==
    /\ DOMAIN pod = PodFields
    /\ MadeRight(pod.spec, pod.made)
    /\ pod.mount # NoSecret => Fits(pod.mount.ports)
    /\ pod.ports # Nothing => pod.mount # NoSecret /\ Fits(pod.ports)

PodsRight ==
    /\ DOMAIN pods = Pods
    /\ \A p \in Pods : pods[p] # NoPod => PodRight(pods[p])

RolloutInv ==
    /\ TypeOK
    /\ answers = Answers(cluster)
    /\ secret # NoSecret => Fits(secret.ports)
    /\ PodsRight

\* The nested instance reads and judges the parameters the same way.
LEMMA SameConfig ==
  /\ \A plugins, i : L!P!NewFromCluster(plugins, i)
                       = P!NewFromCluster(plugins, i)
  /\ \A cfg : L!P!validateConfig(cfg) <=> P!validateConfig(cfg)
<1>1. /\ L!P!DefaultPoolerPort = P!DefaultPoolerPort
      /\ L!P!DefaultMetricsPort = P!DefaultMetricsPort
      /\ L!P!ResourceDefaults = P!ResourceDefaults
      /\ L!P!NoParams = P!NoParams
      /\ L!P!LogLevels = P!LogLevels
  <2>1. /\ L!P!DefaultPoolerPort = P!DefaultPoolerPort
        /\ L!P!DefaultMetricsPort = P!DefaultMetricsPort
    BY DEF L!P!DefaultPoolerPort, P!DefaultPoolerPort,
           L!P!DefaultMetricsPort, P!DefaultMetricsPort
  <2>2. L!P!ResourceDefaults = P!ResourceDefaults
    BY Zenon DEF L!P!ResourceDefaults, P!ResourceDefaults
  <2>3. L!P!NoParams = P!NoParams
    BY Zenon DEF L!P!NoParams, P!NoParams
  <2>4. L!P!LogLevels = P!LogLevels
    BY Zenon DEF L!P!LogLevels, P!LogLevels
  <2> QED
    BY <2>1, <2>2, <2>3, <2>4, Zenon
<1>2. L!P!ParsedParams = P!ParsedParams
  BY <1>1, Zenon DEF L!P!ParsedParams, P!ParsedParams
<1>3. L!P!ReservedPorts = P!ReservedPorts /\ L!P!PortRange = P!PortRange
  BY DEF L!P!ReservedPorts, P!ReservedPorts, L!P!WrapperHealthPort,
         P!WrapperHealthPort, L!P!PortRange, P!PortRange
<1>4. ASSUME NEW params, NEW k, NEW e
      PROVE  /\ L!P!Given(params, k, e) = P!Given(params, k, e)
             /\ L!P!Parsed(params, k, e) = P!Parsed(params, k, e)
             /\ L!P!setResource(params, k) = P!setResource(params, k)
  BY <1>1, Zenon
     DEF L!P!Given, P!Given, L!P!Parsed, P!Parsed, L!P!setResource,
         P!setResource
<1>5. ASSUME NEW plugins PROVE L!P!Considered(plugins) = P!Considered(plugins)
  BY Zenon DEF L!P!Considered, P!Considered
<1>6. ASSUME NEW plugins, NEW i
      PROVE  L!P!NewFromCluster(plugins, i) = P!NewFromCluster(plugins, i)
  <2> DEFINE own == P!Considered(plugins)
             params == IF own = {} THEN P!NoParams
                       ELSE plugins[P!First(own)].parameters
  <2>1. [k \in DOMAIN P!ResourceDefaults |->
            IF own = {} THEN None ELSE L!P!setResource(params, k)]
          = [k \in DOMAIN P!ResourceDefaults |->
                IF own = {} THEN None ELSE P!setResource(params, k)]
    BY <1>4, Zenon
  <2> QED
    BY <1>1, <1>2, <1>4, <1>5, <2>1, SameFirst, Zenon
       DEF L!P!NewFromCluster, P!NewFromCluster
<1>7. ASSUME NEW cfg
      PROVE  L!P!validateConfig(cfg) <=> P!validateConfig(cfg)
  BY <1>1, <1>3, Zenon
     DEF L!P!validateConfig, P!validateConfig, L!P!Validate, P!Validate,
         L!P!PortFits, P!PortFits, L!P!RequestWithin, P!RequestWithin
<1> QED
  BY <1>6, <1>7

\* The ports of a configuration that validates are free in the pod.
LEMMA ValidFits ==
  ASSUME NEW cfg, P!Validate(cfg)
  PROVE  Fits(<<cfg.poolerPort, cfg.metricsPort>>)
<1>1. /\ P!PortFits(cfg.poolerPort) /\ P!PortFits(cfg.metricsPort)
      /\ cfg.poolerPort # cfg.metricsPort
  BY Zenon DEF P!Validate
<1> QED
  BY <1>1 DEF Fits

\* A pod spec of one call has one sidecar, of the asked image, or none.
LEMMA HookSidecars ==
  ASSUME NEW c, NEW image
  PROVE  LET cfg == P!NewFromCluster(c.plugins, image)
         IN  Sidecars(L!lifecycleHook(BasePod, c, image))
               = IF cfg.enabled THEN {L!sidecar(cfg)} ELSE {}
<1> DEFINE cfg == P!NewFromCluster(c.plugins, image)
           hook == L!lifecycleHook(BasePod, c, image)
           base == <<[name |-> "bootstrap"]>>
<1>1. L!P!NewFromCluster(c.plugins, image) = cfg
  BY SameConfig
<1>2. BasePod.initContainers = base
  BY DEF BasePod
<1>3. Named(base, "pg-doorman") = {}
  BY DEF Named
<1>4. CASE ~cfg.enabled
  <2>1. hook.initContainers = base
    BY <1>1, <1>2, <1>4, Zenon DEF L!lifecycleHook
  <2> HIDE DEF hook, cfg
  <2>2. Sidecars(hook) = {}
    BY <2>1 DEF Sidecars
  <2> QED
    BY <1>4, <2>2, Zenon DEF hook, cfg
<1>5. CASE cfg.enabled
  <2> DEFINE item == L!sidecar(cfg)
             E == {[name |-> "bootstrap"], item}
             list == L!ensure(base, item)
  <2>1. hook = L!injectSidecar(BasePod, cfg, c)
    BY <1>1, <1>5, Zenon DEF L!lifecycleHook
  <2>2. hook.initContainers = list
    BY <1>2, <2>1 DEF L!injectSidecar
  <2>3. item.name = "pg-doorman"
    BY DEF L!sidecar
  <2> HIDE DEF item, cfg, hook
  <2>4. base \in Seq(E) /\ item \in E
    OBVIOUS
  <2>5. list \in Seq(E) /\ Appended(list, base, item)
    BY <1>3, <2>3, <2>4, EnsureCases
  <2> HIDE DEF list, E
  <2>6. /\ DOMAIN list = 1..2 /\ list[2] = item
        /\ list[1].name = "bootstrap"
    BY <2>5 DEF Appended
  <2>7. Sidecars(hook) = {item}
    BY <2>2, <2>3, <2>6 DEF Sidecars
  <2> QED
    BY <1>5, <2>7 DEF hook, item, cfg
<1> QED
  BY <1>4, <1>5

\* The answers, with the two calls of a creation reduced to the last one.
LEMMA AnswersMean ==
  ASSUME NEW c, NEW i \in Images, NEW j \in Images
  PROVE  /\ Answers(c)[i].config = P!NewFromCluster(c.plugins, i)
         /\ Answers(c)[i].blocked = L!lifecycleHookFails(c, i)
         /\ Answers(c)[i].once = L!lifecycleHook(BasePod, c, i)
         /\ Answers(c)[i].twice[j] = L!lifecycleHook(BasePod, c, j)
<1> DEFINE once == L!lifecycleHook(BasePod, c, i)
<1>1. Answers(c)[i] =
          [config |-> P!NewFromCluster(c.plugins, i),
           blocked |-> L!lifecycleHookFails(c, i),
           once |-> once,
           twice |-> [k \in Images |-> L!lifecycleHook(once, c, k)]]
  BY Zenon DEF Answers
<1>2. BasePod \in [volumes : Seq({[name |-> "pgdata", source |-> "claim"]}),
                   initContainers : Seq({[name |-> "bootstrap"]})]
  BY DEF BasePod
<1>3. L!lifecycleHook(once, c, j) = L!lifecycleHook(BasePod, c, j)
  BY <1>2, HookTwice
<1> HIDE DEF once
<1> QED
  BY <1>1, <1>3 DEF once

\* The image of a replica that runs is one of a release.
LEMMA RunningImage ==
  ASSUME TypeOK, NEW r \in Running
  PROVE  Image(r) \in Images /\ up[r] \in Releases
<1>1. up[r] \in Releases
  BY DEF TypeOK, Running
<1> QED
  BY <1>1 DEF Image, Images

\* One pod is replaced by another, or by none.
LEMMA OnePodNext ==
  ASSUME PodsRight, NEW p \in Pods, NEW pod,
         pods' = [pods EXCEPT ![p] = pod], pod = NoPod \/ PodRight(pod)
  PROVE  PodsRight'
  BY DEF PodsRight

\* Every step of a pod preserves the invariant.
LEMMA PodsRightNext ==
  ASSUME RolloutInv, NEW p \in Pods,
         \/ PodStep(p) \/ LosePod(p)
         \/ HasSidecar(p) /\ \E new : SetBinary(p, new)
  PROVE  PodsRight'
<1>0. PodsRight /\ TypeOK /\ answers = Answers(cluster)
        /\ (secret # NoSecret => Fits(secret.ports))
  BY DEF RolloutInv
<1>p. ASSUME pods[p] # NoPod PROVE PodRight(pods[p])
  BY <1>0, <1>p DEF PodsRight
<1>f. PodFields = {"spec", "arch", "made", "mount", "ports", "binary"}
  BY DEF PodFields
<1>1. ASSUME NEW a \in Archs, NEW r1 \in Replicas, NEW r2 \in Replicas,
             CreatePod(p, a, r1, r2)
      PROVE  PodsRight'
  <2> DEFINE pod == [spec |-> answers[Image(r1)].twice[Image(r2)],
                     arch |-> a, made |-> cluster, mount |-> NoSecret,
                     ports |-> Nothing, binary |-> Nothing]
  <2>1. Image(r1) \in Images /\ Image(r2) \in Images
    BY <1>0, <1>1, RunningImage DEF CreatePod
  <2>2. ~L!lifecycleHookFails(cluster, Image(r2))
    <3>1. ~answers[Image(r2)].blocked
      BY <1>1, Zenon DEF CreatePod
    <3> QED
      BY <1>0, <2>1, <3>1, AnswersMean
  <2>3. answers[Image(r1)].twice[Image(r2)]
          = L!lifecycleHook(BasePod, cluster, Image(r2))
    BY <1>0, <2>1, AnswersMean
  <2>4. MadeRight(pod.spec, pod.made)
    BY <2>1, <2>2, <2>3 DEF MadeRight
  <2>5. PodRight(pod)
    BY <2>4, <1>f DEF PodRight
  <2>6. pods' = [pods EXCEPT ![p] = pod]
    BY <1>1, Zenon DEF CreatePod
  <2> QED
    BY <1>0, <2>5, <2>6, OnePodNext
<1>2. ASSUME pods' = [pods EXCEPT ![p] = NoPod] PROVE PodsRight'
  BY <1>0, <1>2, OnePodNext
<1>3. CASE KubeletSync(p)
  <2> DEFINE new == [pods[p] EXCEPT !.mount = secret]
  <2>1. pods[p] # NoPod /\ secret # NoSecret
    BY <1>3, Zenon DEF KubeletSync, HasSidecar
  <2>2. PodRight(pods[p]) /\ DOMAIN pods[p] = PodFields
    BY <2>1, <1>p DEF PodRight
  <2>3. PodRight(new)
    BY <2>1, <2>2, <1>0, <1>f DEF PodRight
  <2>4. pods' = [pods EXCEPT ![p] = new]
    BY <1>3, Zenon DEF KubeletSync
  <2> QED
    BY <1>0, <2>3, <2>4, OnePodNext
<1>4. ASSUME NEW new,
             pods[p] # NoPod, pods[p].mount # NoSecret,
             pods' = [pods EXCEPT ![p].ports = pods[p].mount.ports,
                                  ![p].binary = new]
      PROVE  PodsRight'
  <2> DEFINE pod == [pods[p] EXCEPT !.ports = pods[p].mount.ports,
                                    !.binary = new]
  <2>1. PodRight(pods[p]) /\ DOMAIN pods[p] = PodFields
    BY <1>4, <1>p DEF PodRight
  <2>2. PodRight(pod)
    BY <1>4, <2>1, <1>f DEF PodRight
  <2>3. pods' = [pods EXCEPT ![p] = pod]
    BY <1>4, <1>0 DEF PodsRight
  <2> QED
    BY <1>0, <2>2, <2>3, OnePodNext
<1>5. ASSUME NEW r \in Replicas, Boot(p, r) PROVE PodsRight'
  <2>1. pods[p] # NoPod /\ pods[p].mount # NoSecret
    BY <1>5, Zenon DEF Boot, HasSidecar
  <2>2. \E new : pods' = [pods EXCEPT ![p].ports = pods[p].mount.ports,
                                      ![p].binary = new]
    BY <1>5, Zenon DEF Boot
  <2> QED
    BY <1>4, <2>1, <2>2
<1>6. CASE PollConfig(p)
  <2>1. pods[p] # NoPod /\ pods[p].ports # Nothing
    BY <1>6, Zenon DEF PollConfig, Booted, HasSidecar
  <2>2. PodRight(pods[p])
    BY <2>1, <1>p
  <2>3. pods[p].mount # NoSecret
    BY <2>1, <2>2 DEF PodRight
  <2>4. \E new : pods' = [pods EXCEPT ![p].ports = pods[p].mount.ports,
                                      ![p].binary = new]
    BY <1>6 DEF PollConfig
  <2> QED
    BY <1>4, <2>1, <2>3, <2>4
<1>7. ASSUME NEW new, HasSidecar(p), SetBinary(p, new) PROVE PodsRight'
  <2> DEFINE pod == [pods[p] EXCEPT !.binary = new]
  <2>1. pods[p] # NoPod /\ pods' = [pods EXCEPT ![p].binary = new]
    BY <1>7, Zenon DEF SetBinary, HasSidecar
  <2>2. PodRight(pods[p]) /\ DOMAIN pods[p] = PodFields
    BY <2>1, <1>p DEF PodRight
  <2>3. PodRight(pod)
    BY <2>2, <1>f DEF PodRight
  <2>4. pods' = [pods EXCEPT ![p] = pod]
    BY <2>1, <1>0 DEF PodsRight
  <2> QED
    BY <1>0, <2>3, <2>4, OnePodNext
<1> QED
  BY <1>1, <1>2, <1>3, <1>4, <1>5, <1>6, <1>7, Zenon
     DEF PodStep, Evaluate, LosePod

\* The Secret has ports of a Cluster that validates.
LEMMA SecretFitsNext ==
  ASSUME secret # NoSecret => Fits(secret.ports), Render
  PROVE  secret' # NoSecret => Fits(secret'.ports)
<1> DEFINE cfg == Config(Image(leader))
<1>1. CASE secret' = secret
  BY <1>1
<1>2. CASE /\ P!Validate(cfg)
           /\ secret' = [ports |-> <<cfg.poolerPort, cfg.metricsPort>>,
                         binary |-> binarySpecJSON(cfg)]
  <2>1. Fits(<<cfg.poolerPort, cfg.metricsPort>>)
    BY <1>2, ValidFits
  <2>2. secret'.ports = <<cfg.poolerPort, cfg.metricsPort>>
    BY <1>2
  <2> QED
    BY <2>1, <2>2, Zenon
<1> QED
  BY <1>1, <1>2, Zenon DEF Render

LEMMA RolloutInvNext == RolloutInv /\ [Next]_vars => RolloutInv'
<1> SUFFICES ASSUME RolloutInv, [Next]_vars PROVE RolloutInv'
  OBVIOUS
<1>t. TypeOK'
  BY TypeNext DEF RolloutInv
<1>0. PodsRight /\ answers = Answers(cluster)
        /\ (secret # NoSecret => Fits(secret.ports))
  BY DEF RolloutInv
<1>k. ASSUME UNCHANGED pods PROVE PodsRight'
  BY <1>0, <1>k DEF PodsRight
<1> USE DEF object, server
<1>1. ASSUME NEW p \in Pods,
             \/ PodStep(p) \/ LosePod(p)
             \/ HasSidecar(p) /\ \E new : SetBinary(p, new)
      PROVE  RolloutInv'
  <2>1. UNCHANGED <<answers, cluster, secret>>
    BY <1>1, Zenon
       DEF PodStep, CreatePod, Evaluate, KubeletSync, Boot, PollConfig,
           LosePod, SetBinary
  <2>2. PodsRight'
    BY <1>1, PodsRightNext
  <2> QED
    BY <1>t, <1>0, <2>1, <2>2 DEF RolloutInv
<1>2. CASE Render
  <2>1. UNCHANGED <<answers, cluster, pods>>
    BY <1>2, Zenon DEF Render
  <2>2. secret' # NoSecret => Fits(secret'.ports)
    BY <1>0, <1>2, SecretFitsNext
  <2> QED
    BY <1>t, <1>0, <1>k, <2>1, <2>2 DEF RolloutInv
<1>3. ASSUME NEW r \in Replicas, Pre(r) PROVE RolloutInv'
  <2>1. UNCHANGED <<answers, cluster, pods>> /\ secret' \in {secret, NoSecret}
    BY <1>3, Zenon DEF Pre
  <2> QED
    BY <1>t, <1>0, <1>k, <2>1 DEF RolloutInv
<1>4. ASSUME NEW c \in Clusters, NEW r \in Replicas, Submit(c, r)
      PROVE  RolloutInv'
  <2>1. answers' = Answers(cluster') /\ UNCHANGED <<pods, secret>>
    BY <1>4, Zenon DEF Submit
  <2> QED
    BY <1>t, <1>0, <1>k, <2>1 DEF RolloutInv
<1>5. CASE UNCHANGED <<answers, cluster, pods, secret>>
  BY <1>t, <1>0, <1>k, <1>5 DEF RolloutInv
<1>6. ASSUME NEW p \in Pods, NEW r,
             BinaryStep(p, r) \/ PoolerRestarts(p)
      PROVE  RolloutInv'
  BY <1>1, <1>6, BinarySteps
<1> QED
  BY <1>1, <1>2, <1>3, <1>4, <1>5, <1>6, Zenon
     DEF Next, SetRelease, Crash, ServerStep, Replace, Stop, StartReplica,
         Elect, vars

LEMMA RolloutInvariance == Spec => []RolloutInv
<1>1. Init => RolloutInv
  <2> SUFFICES ASSUME Init PROVE RolloutInv
    OBVIOUS
  <2>1. TypeOK
    BY TypeInit
  <2>2. answers = Answers(cluster) /\ secret = NoSecret
    BY Zenon DEF Init
  <2>3. PodsRight
    BY DEF Init, PodsRight
  <2> QED
    BY <2>1, <2>2, <2>3 DEF RolloutInv
<1> QED
  BY <1>1, RolloutInvNext, PTL DEF Spec

\* Whatever is submitted, defaulted, validated by one replica, injected by
\* others and rendered by the leader, the ports a pod declares and the ones
\* its pooler binds are distinct and free in it.
THEOREM PortsStayFree == Spec => []PortsFree
<1>1. RolloutInv => PortsFree
  <2> SUFFICES ASSUME RolloutInv, NEW p \in Pods, HasSidecar(p),
                      NEW ports \in ({c.ports : c \in Sidecars(pods[p].spec)}
                                       \cup {pods[p].ports}) \ {Nothing}
               PROVE  Fits(ports)
    BY Zenon DEF PortsFree, Fits
  <2>1. PodRight(pods[p])
    BY Zenon DEF RolloutInv, PodsRight, HasSidecar
  <2>2. CASE ports = pods[p].ports
    BY <2>1, <2>2 DEF PodRight
  <2>3. CASE \E c \in Sidecars(pods[p].spec) : ports = c.ports
    <3> DEFINE made == pods[p].made
    <3>1. PICK i \in Images :
              /\ pods[p].spec = L!lifecycleHook(BasePod, made, i)
              /\ ~L!lifecycleHookFails(made, i)
      BY <2>1, Zenon DEF PodRight, MadeRight
    <3> DEFINE cfg == P!NewFromCluster(made.plugins, i)
    <3>2. Sidecars(pods[p].spec)
            = IF cfg.enabled THEN {L!sidecar(cfg)} ELSE {}
      BY <3>1, HookSidecars, Zenon
    <3>3. cfg.enabled /\ ports = L!sidecar(cfg).ports
      BY <2>3, <3>2, Zenon
    <3>4. P!validateConfig(cfg)
      BY <3>1, SameConfig, Zenon DEF L!lifecycleHookFails
    <3>5. P!Validate(cfg)
      BY <3>3, <3>4, Zenon DEF P!validateConfig
    <3>6. L!sidecar(cfg).ports = <<cfg.poolerPort, cfg.metricsPort>>
      BY DEF L!sidecar
    <3> QED
      BY <3>3, <3>5, <3>6, ValidFits, Zenon
  <2> QED
    BY <2>2, <2>3
<1> QED
  BY <1>1, RolloutInvariance, PTL

\* A pod whose two hook calls were answered by replicas of two releases is
\* of one release.
THEOREM PodsOfOneRelease == Spec => []OfOneRelease
<1>1. RolloutInv => OfOneRelease
  <2> SUFFICES ASSUME RolloutInv, NEW p \in Pods, pods[p] # NoPod
               PROVE  \E v \in Releases :
                          pods[p].spec = L!lifecycleHook(BasePod, pods[p].made,
                                                         Release[v].image)
    BY Zenon DEF OfOneRelease
  <2>1. PICK i \in Images :
            pods[p].spec = L!lifecycleHook(BasePod, pods[p].made, i)
    BY Zenon DEF RolloutInv, PodsRight, PodRight, MadeRight
  <2>2. PICK v \in Releases : i = Release[v].image
    BY DEF Images
  <2> QED
    BY <2>1, <2>2, Zenon
<1> QED
  BY <1>1, RolloutInvariance, PTL

\* NoPod stands for the absence of a pod and is none itself.
NoPodIsNone == \A pod : DOMAIN pod = PodFields => pod # NoPod

\* A pod that is evaluated and found to be another one than the hook makes
\* was made for another Cluster, or for another image than the replica's.
LEMMA EvaluateDeletes ==
  ASSUME RolloutInv, NEW p \in Pods, NEW r \in Replicas, Evaluate(p, r),
         pods[p].made = cluster
  PROVE  r \in Running /\ Image(r) \notin SidecarImages(pods[p].spec)
<1>1. r \in Running /\ pods[p] # NoPod /\ Evaluation(r) # pods[p].spec
  BY Zenon DEF Evaluate
<1>2. PICK i \in Images : pods[p].spec = L!lifecycleHook(BasePod, cluster, i)
  BY <1>1, Zenon DEF RolloutInv, PodsRight, PodRight, MadeRight
<1>3. Image(r) \in Images
  BY <1>1, RunningImage DEF RolloutInv
<1>4. Evaluation(r) = L!lifecycleHook(BasePod, cluster, Image(r))
  BY <1>3, AnswersMean DEF RolloutInv, Evaluation
<1>5. Image(r) # i
  BY <1>1, <1>2, <1>4, Zenon
<1>6. SidecarImages(pods[p].spec) \subseteq {i}
  <2> DEFINE cfg == P!NewFromCluster(cluster.plugins, i)
  <2>1. Sidecars(pods[p].spec) = IF cfg.enabled THEN {L!sidecar(cfg)} ELSE {}
    BY <1>2, HookSidecars, Zenon
  <2>2. L!sidecar(cfg).image = cfg.sidecarImage
    BY DEF L!sidecar
  <2>3. cfg.sidecarImage = i
    BY DEF P!NewFromCluster
  <2> HIDE DEF cfg
  <2> QED
    BY <2>1, <2>2, <2>3 DEF SidecarImages
<1> QED
  BY <1>1, <1>5, <1>6

\* CNPG deletes a pod, other than by losing it, only if the Cluster is
\* another one than it was made for or a replica that runs names another
\* image: a release with the same image never costs a pod, however the calls
\* are spread over the replicas of a rolling update.
THEOREM ReleasesKeepPods == NoPodIsNone => (Spec => InPlaceKeepsPods)
<1> SUFFICES ASSUME NoPodIsNone PROVE Spec => InPlaceKeepsPods
  OBVIOUS
<1> DEFINE Kept(p) ==
               pods[p] # NoPod /\ pods'[p] = NoPod /\ events' = events =>
                   \/ pods[p].made # cluster
                   \/ \E r \in Running :
                          Image(r) \notin SidecarImages(pods[p].spec)
<1>1. RolloutInv /\ [Next]_vars => \A p \in Pods : Kept(p)
  <2> SUFFICES ASSUME RolloutInv, [Next]_vars, NEW p \in Pods,
                      pods[p] # NoPod, pods'[p] = NoPod, events' = events,
                      pods[p].made = cluster
               PROVE  \E r \in Running :
                          Image(r) \notin SidecarImages(pods[p].spec)
    BY Zenon
  <2>0. /\ DOMAIN pods = Pods /\ DOMAIN pods[p] = PodFields
        /\ events \in 0..MaxEvents
    BY DEF RolloutInv, PodsRight, PodRight, TypeOK
  <2>1. ~UNCHANGED pods
    BY Zenon
  <2>2. ~Happens
    BY <2>0, RolloutAssumption DEF Happens
  <2>3. PICK q \in Pods : PodStep(q) \/ \E new : SetBinary(q, new)
    BY <2>1, <2>2, BinarySteps, Zenon
       DEF Next, SetRelease, Crash, ServerStep, Replace, Stop, StartReplica,
           Elect, Render, Submit, Pre, LosePod, vars
  <2>4. ASSUME NEW pod, pods' = [pods EXCEPT ![q] = pod]
        PROVE  q = p /\ pod = NoPod
    BY <2>0, <2>4
  <2>5. CASE \E r \in Replicas : Evaluate(q, r)
    <3>1. PICK r \in Replicas : Evaluate(q, r)
      BY <2>5
    <3>2. q = p
      BY <2>4, <3>1, Zenon DEF Evaluate
    <3> QED
      BY <3>1, <3>2, EvaluateDeletes
  <2>6. CASE \E a \in Archs, r1, r2 \in Replicas : CreatePod(q, a, r1, r2)
    <3>1. pods[q] = NoPod /\ \E pod : pods' = [pods EXCEPT ![q] = pod]
      BY <2>6, Zenon DEF CreatePod
    <3> QED
      BY <2>4, <3>1
  <2>7. CASE KubeletSync(q)
    <3>1. pods' = [pods EXCEPT ![q] = [pods[q] EXCEPT !.mount = secret]]
      BY <2>7, Zenon DEF KubeletSync
    <3>2. q = p /\ [pods[p] EXCEPT !.mount = secret] = NoPod
      BY <2>4, <3>1, Zenon
    <3> QED
      BY <2>0, <3>2 DEF NoPodIsNone
  <2>8. ASSUME NEW r, Boot(q, r) \/ PollConfig(q) PROVE FALSE
    <3>1. PICK new : pods' = [pods EXCEPT ![q].ports = pods[q].mount.ports,
                                          ![q].binary = new]
      BY <2>8 DEF Boot, PollConfig
    <3>2. DOMAIN pods'[p] = PodFields
      BY <2>0, <3>1
    <3> QED
      BY <3>2 DEF NoPodIsNone
  <2>9. ASSUME NEW new, SetBinary(q, new) PROVE FALSE
    <3>1. pods' = [pods EXCEPT ![q].binary = new]
      BY <2>9, Zenon DEF SetBinary
    <3>2. DOMAIN pods'[p] = PodFields
      BY <2>0, <3>1
    <3> QED
      BY <3>2 DEF NoPodIsNone
  <2> QED
    BY <2>3, <2>5, <2>6, <2>7, <2>8, <2>9, Zenon DEF PodStep
<1> QED
  BY <1>1, RolloutInvariance, PTL DEF Spec, InPlaceKeepsPods

=============================================================================
