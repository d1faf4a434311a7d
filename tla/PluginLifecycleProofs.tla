------------------------- MODULE PluginLifecycleProofs ----------------------
(***************************************************************************)
(* Proofs about PluginLifecycle, for any number of calls and plugins.      *)
(***************************************************************************)
EXTENDS PluginLifecycle, TLAPS, SequenceTheorems

-----------------------------------------------------------------------------
(* The inductive invariant                                                 *)

On(l, p) == life[<<l, p>>] = "on"
NoneOn == \A l \in Loads, p \in Plugins : ~On(l, p)
Early == {"make", "manage", "publish", "start"}

\* What each place of a call takes for granted.
Places ==
    /\ \A l \in Loads, p \in Plugins : pluginAt[l][p] = "found" => found[l][p] \in Instances
    /\ \A d \in Downs : downAt[d] \in {"items", "next", "unload", "clear"} => downOf[d] \in Loads
    /\ \A l \in Loads : loadAt[l] \in {"new"} \cup Early => managerOf[l] = NoLoad

\* A call that loads is alone: what it has made is what is global.
Alone ==
    /\ \A l, k \in LoadsUnderWay : l = k
    /\ LoadsUnderWay # {} => DownsUnderWay = {}
    /\ \A l \in Loads :
          /\ loadAt[l] \in Early => cache = Nothing /\ NoneOn
          /\ loadAt[l] = "make" => registry = NoLoad /\ manager = NoLoad
          /\ loadAt[l] \in {"manage", "publish", "start", "loading"} => registry = l
          /\ loadAt[l] \in {"publish", "start", "loading"} => fills[l] = l
          /\ loadAt[l] \in {"start", "loading"} => manager = l
          /\ loadAt[l] = "loading" => managerOf[l] = l

\* Without a registry, whatever was loaded is unloaded, and the manager and the
\* cache are gone but for a shutdown that is about to clear them.
Reset ==
    (registry = NoLoad /\ LoadsUnderWay = {}) =>
        /\ NoneOn
        /\ \/ manager = NoLoad /\ cache = Nothing
           \/ \E d \in Downs : downAt[d] \in {"manager", "cache"}

\* An initialised plugin is on its way into the manager's dictionary or in it.
Held ==
    \A l \in Loads, p \in Plugins : On(l, p) =>
        \/ loadAt[l] = "loading" /\ pluginAt[l][p] \in {"entry", "store"}
        \/ manager = l /\ \E j \in DOMAIN loaded[l] : loaded[l][j] = <<l, p>>

\* A manager holds instances of its own call.
Own ==
    /\ \A l \in Loads : \A j \in DOMAIN loaded[l] : loaded[l][j][1] = l
    /\ \A d \in Downs : downAt[d] = "unload" => unloading[d] \in Instances /\ unloading[d][1] = downOf[d]

\* A shutdown has unloaded what lies behind it in the dictionary, unless
\* another one has cleared that meanwhile.
Behind(d) ==
    \/ loaded[downOf[d]] = <<>>
    \/ /\ Len(loaded[downOf[d]]) = size[d] /\ pos[d] <= size[d]
       /\ downAt[d] = "unload" => pos[d] > 0 /\ unloading[d] = loaded[downOf[d]][pos[d]]
       /\ \A j \in 1 .. pos[d] :
             \/ life[loaded[downOf[d]][j]] = "off"
             \/ downAt[d] = "unload" /\ j = pos[d]

Shutting ==
    \A d \in Downs :
        /\ downAt[d] \in {"items", "next", "unload", "clear"} => manager \in {downOf[d], NoLoad}
        /\ downAt[d] \in {"next", "unload"} => Behind(d)
        /\ downAt[d] \in {"new", "read", "items"} => pos[d] = 0
        /\ downAt[d] = "clear" =>
              \A j \in DOMAIN loaded[downOf[d]] : life[loaded[downOf[d]][j]] = "off"
        /\ downAt[d] \in {"registry", "manager", "cache"} => NoneOn
        /\ downAt[d] \in {"manager", "cache"} => registry = NoLoad
        /\ downAt[d] = "cache" => manager = NoLoad

\* Some shutdown will reset the registry r.
Doomed(r) ==
    \E d \in Downs :
        \/ downAt[d] = "registry"
        \/ downAt[d] = "clear" /\ downOf[d] = r
        \/ downAt[d] \in {"next", "unload"} /\ downOf[d] = r /\ Len(loaded[r]) = size[d]

\* An iteration that will find its dictionary changed leaves the registry to
\* the shutdown that has changed it.
Left ==
    \A d \in Downs :
        (downAt[d] \in {"next", "unload"} /\ registry = downOf[d] /\ Len(loaded[registry]) # size[d]) =>
            \E e \in Downs : downAt[e] = "registry"

\* The plugins of the registry that is global.
Filled ==
    \A l \in Loads : (registry = l /\ managerOf[l] = l /\ loadAt[l] \in {"loading", "return", "got", "raised"}) =>
        \A p \in Plugins :
            /\ pluginAt[l][p] \in {"queued", "hook", "entry", "store", "keep", "in", "failed"}
            /\ loadAt[l] # "loading" => pluginAt[l][p] \in {"in", "failed"}
            /\ pluginAt[l][p] \in {"entry", "store"} => On(l, p)
            /\ pluginAt[l][p] \in {"store", "keep", "in"} => exposed[l][p] = <<l, p>>
            /\ pluginAt[l][p] \in {"keep", "in"} => On(l, p) \/ Doomed(l)
            /\ (loadAt[l] = "loading" /\ cache[p] # NoInstance) => pluginAt[l][p] = "in"

CalmInv == Alone /\ Reset /\ Held /\ Own /\ Shutting /\ Left /\ Filled

PlugInv == PlugTypeOK /\ Places /\ (calm => CalmInv)
-----------------------------------------------------------------------------
(* Types                                                                   *)

\* Storing an instance keeps a dictionary one of instances, replaces only the
\* entry of its plugin, and leaves it in.
LEMMA StoredIn ==
    ASSUME NEW s \in Seq(Instances), NEW p \in Plugins, NEW i \in Instances
    PROVE  /\ Stored(s, p, i) \in Seq(Instances)
           /\ \E j \in DOMAIN Stored(s, p, i) : Stored(s, p, i)[j] = i
           /\ \A j \in DOMAIN s : s[j][2] # p =>
                 j \in DOMAIN Stored(s, p, i) /\ Stored(s, p, i)[j] = s[j]
           /\ \A j \in DOMAIN Stored(s, p, i) :
                 Stored(s, p, i)[j] = i \/ (j \in DOMAIN s /\ Stored(s, p, i)[j] = s[j])
  <1>1. Len(s) \in Nat /\ DOMAIN s = 1 .. Len(s) /\ \A j \in DOMAIN s : s[j] \in Instances
    OBVIOUS
  <1>2. CASE \E k \in DOMAIN s : s[k][2] = p
    <2> DEFINE t == [k \in DOMAIN s |-> IF s[k][2] = p THEN i ELSE s[k]]
    <2>1. Stored(s, p, i) = t
      BY <1>2 DEF Stored
    <2>2. \A k \in 1 .. Len(s) : t[k] \in Instances
      BY <1>1
    <2>3. t \in Seq(Instances)
      <3>1. t = [k \in 1 .. Len(s) |-> t[k]]
        BY <1>1
      <3> HIDE DEF t
      <3> QED  BY <1>1, <2>2, <3>1, IsASeq
    <2> QED  BY <1>1, <1>2, <2>1, <2>3
  <1>3. CASE ~\E k \in DOMAIN s : s[k][2] = p
    <2>1. Stored(s, p, i) = Append(s, i)
      BY <1>3 DEF Stored
    <2>2. /\ Append(s, i) \in Seq(Instances)
          /\ DOMAIN Append(s, i) = 1 .. Len(s) + 1
          /\ \A j \in 1 .. Len(s) : Append(s, i)[j] = s[j]
          /\ Append(s, i)[Len(s) + 1] = i
      BY <1>1
    <2> QED  BY <1>1, <2>1, <2>2
  <1> QED  BY <1>2, <1>3

LEMMA PlugInitially == PlugInit => PlugTypeOK /\ Places
  BY DEF PlugInit, PlugTypeOK, Places, Early, Nothing

LEMMA PlugTypeStep == PlugTypeOK /\ Places /\ [PlugNext]_plugVars => PlugTypeOK' /\ Places'
  <1> SUFFICES ASSUME PlugTypeOK, Places, [PlugNext]_plugVars PROVE PlugTypeOK' /\ Places'
    OBVIOUS
  <1> USE PluginAssumption
      DEF PlugTypeOK, Places, Early, globalVars, objectVars, loadVars, downVars
  <1>1. ASSUME NEW l \in Loads, LoadStep(l) PROVE PlugTypeOK' /\ Places'
    <2> USE DEF Load
    <2>1. CASE FindRegistry(l) \/ FindNone(l) \/ NoManager(l) \/ LoadEnds(l) \/ ReturnRegistry(l)
      <3>1. PICK to \in {"make", "return", "got", "raised"} :
                /\ loadAt' = [loadAt EXCEPT ![l] = to]
                /\ to = "make" => loadAt[l] = "new"
        BY <2>1 DEF FindRegistry, FindNone, NoManager, LoadEnds, ReturnRegistry
      <3>2. /\ UNCHANGED <<globalVars, objectVars, managerOf, pluginAt, found, downVars>>
            /\ calm' \in BOOLEAN
        BY <2>1 DEF FindRegistry, FindNone, NoManager, LoadEnds, ReturnRegistry
      <3> QED  BY <3>1, <3>2
    <2>2. CASE MakeRegistry(l)
      BY <2>2 DEF MakeRegistry
    <2>5. CASE MakeManager(l)
      BY <2>5 DEF MakeManager
    <2>6. CASE PublishManager(l)
      BY <2>6 DEF PublishManager
    <2>3. CASE StartLoading(l)
      BY <2>3 DEF StartLoading
    <2>4. CASE LoadRaises(l)
      BY <2>4 DEF LoadRaises
    <2> QED  BY <1>1, <2>1, <2>2, <2>3, <2>4, <2>5, <2>6 DEF LoadStep
  <1>2. ASSUME NEW l \in Loads, NEW p \in Plugins, PluginStep(l, p) PROVE PlugTypeOK' /\ Places'
    <2> USE DEF Plugin
    <2>0. <<l, p>> \in Instances /\ <<l, p>>[2] = p
      BY DEF Instances
    <2>1. CASE CacheHit(l, p)
      <3>1. cache[p] \in Instances
        BY <2>1 DEF CacheHit
      <3>2. pluginAt' \in [Loads -> [Plugins -> {"none", "queued", "found", "hook", "entry", "store", "keep",
                                               "in", "hit", "failed"}]]
        BY <2>1 DEF CacheHit
      <3>3. Places'
        BY <2>1, <3>1 DEF CacheHit
      <3> QED  BY <2>1, <3>1, <3>2, <3>3 DEF CacheHit
    <2>2. CASE UseCached(l, p)
      <3>2. loaded' \in [Loads -> Seq(Instances)]
        <4>1. CASE managerOf[l] \notin Loads
          BY <2>2, <4>1 DEF UseCached
        <4>2. CASE managerOf[l] \in Loads
          <5>1. Stored(loaded[managerOf[l]], p, found[l][p]) \in Seq(Instances)
            BY <2>2, <4>2, StoredIn DEF UseCached
          <5> QED  BY <2>2, <4>2, <5>1 DEF UseCached
        <4> QED  BY <4>1, <4>2
      <3>3. /\ found' \in [Loads -> [Plugins -> Instances \cup {NoInstance}]]
            /\ pluginAt' \in [Loads -> [Plugins -> {"none", "queued", "found", "hook", "entry", "store",
                                                    "keep", "in", "hit", "failed"}]]
        BY <2>2 DEF UseCached
      <3>4. Places'
        BY <2>2 DEF UseCached
      <3> QED  BY <2>2, <3>2, <3>3, <3>4 DEF UseCached
    <2>3. CASE CallOnLoad(l, p) \/ PluginFails(l, p) \/ Initialised(l, p) \/ ExposeFails(l, p)
      <3>1. PICK to \in {"hook", "failed", "entry"} : pluginAt' = [pluginAt EXCEPT ![l][p] = to]
        BY <2>3 DEF CallOnLoad, PluginFails, Initialised, ExposeFails
      <3>2. /\ UNCHANGED <<globalVars, exposed, loaded, fills, loadAt, managerOf, found, downVars, calm>>
            /\ life' = life \/ \E now \in {"on", "orphan"} : life' = [life EXCEPT ![<<l, p>>] = now]
        BY <2>3 DEF CallOnLoad, PluginFails, Initialised, ExposeFails
      <3>3. life' \in [Instances -> {"none", "on", "off", "orphan"}]
        BY <3>2
      <3>4. pluginAt' \in [Loads -> [Plugins -> {"none", "queued", "found", "hook", "entry", "store", "keep",
                                               "in", "hit", "failed"}]]
        BY <3>1
      <3>5. Places'
        BY <3>1, <3>2
      <3> QED  BY <3>2, <3>3, <3>4, <3>5
    <2>5. CASE Expose(l, p)
      BY <2>0, <2>5 DEF Expose
    <2>6. CASE Store(l, p)
      <3>1. loaded' \in [Loads -> Seq(Instances)]
        <4>1. CASE managerOf[l] \notin Loads
          BY <2>6, <4>1 DEF Store
        <4>2. CASE managerOf[l] \in Loads
          <5>1. Stored(loaded[managerOf[l]], p, <<l, p>>) \in Seq(Instances)
            BY <2>0, <4>2, StoredIn
          <5> QED  BY <2>6, <4>2, <5>1 DEF Store
        <4> QED  BY <4>1, <4>2
      <3>2. pluginAt' \in [Loads -> [Plugins -> {"none", "queued", "found", "hook", "entry", "store", "keep",
                                               "in", "hit", "failed"}]]
        BY <2>6 DEF Store
      <3>3. Places'
        BY <2>6 DEF Store
      <3> QED  BY <2>6, <3>1, <3>2, <3>3 DEF Store
    <2>7. CASE Keep(l, p)
      BY <2>0, <2>7 DEF Keep
    <2> QED  BY <1>2, <2>1, <2>2, <2>3, <2>5, <2>6, <2>7 DEF PluginStep
  <1>3. ASSUME NEW d \in Downs, DownStep(d) PROVE PlugTypeOK' /\ Places'
    <2> USE DEF Down
    <2>1. CASE DownBegins(d)
      BY <2>1 DEF DownBegins
    <2>7. CASE ReadManager(d)
      BY <2>7 DEF ReadManager
    <2>2. CASE Iterate(d)
      BY <2>2 DEF Iterate
    <2>3. CASE DownRaises(d)
      BY <2>3 DEF DownRaises, Iterated
    <2>8. CASE DownEnds(d)
      BY <2>8 DEF DownEnds, Iterated
    <2>4. CASE CallOnUnload(d)
      <3>1. loaded[downOf[d]] \in Seq(Instances) /\ pos[d] + 1 \in 1 .. Len(loaded[downOf[d]])
        BY <2>4 DEF CallOnUnload, Changed
      <3>2. loaded[downOf[d]][pos[d] + 1] \in Instances
        BY <3>1
      <3> QED  BY <2>4, <3>2 DEF CallOnUnload
    <2>5. CASE Unloaded(d)
      BY <2>5 DEF Unloaded
    <2>6. CASE ClearLoaded(d)
      <3>1. <<>> \in Seq(Instances)
        OBVIOUS
      <3> QED  BY <2>6, <3>1 DEF ClearLoaded
    <2>9. CASE ResetRegistry(d) \/ ResetManager(d)
      BY <2>9 DEF ResetRegistry, ResetManager
    <2>10. CASE ClearCache(d)
      BY <2>10 DEF ClearCache, Nothing
    <2> QED  BY <1>3, <2>1, <2>2, <2>3, <2>4, <2>5, <2>6, <2>7, <2>8, <2>9, <2>10 DEF DownStep
  <1>4. CASE UNCHANGED plugVars
    BY <1>4 DEF plugVars
  <1> QED  BY <1>1, <1>2, <1>3, <1>4 DEF PlugNext

\* PlugTypeOK: every variable keeps its type, whatever the calls do.
THEOREM PluginTyping == PlugSpec => []PlugTypeOK
  BY PlugInitially, PlugTypeStep, PTL DEF PlugSpec

-----------------------------------------------------------------------------
(* The calm                                                                *)

LEMMA CalmInitially == PlugInit => CalmInv
  <1> SUFFICES ASSUME PlugInit PROVE CalmInv
    OBVIOUS
  <1>1. NoneOn /\ LoadsUnderWay = {} /\ DownsUnderWay = {}
    BY DEF PlugInit, NoneOn, On, Instances, LoadsUnderWay, DownsUnderWay
  <1>2. Alone /\ Reset /\ Held /\ Shutting /\ Left
    BY <1>1 DEF PlugInit, Alone, Early, Reset, Held, NoneOn, Shutting, Left
  <1>3. Own /\ Filled
    BY PluginAssumption DEF PlugInit, Own, Filled
  <1> QED  BY <1>2, <1>3 DEF CalmInv

\* While a call loads, nothing is under way but itself.
LEMMA LoadingAlone ==
    ASSUME CalmInv, NEW l \in Loads, l \in LoadsUnderWay
    PROVE  /\ LoadsUnderWay = {l} /\ DownsUnderWay = {}
           /\ \A d \in Downs : downAt[d] \in {"new", "done", "raised"}
           /\ \A k \in Loads \ {l} : loadAt[k] \notin Early \cup {"loading"}
  BY DEF CalmInv, Alone, LoadsUnderWay, DownsUnderWay, Early

\* The parts of the invariant that are about shutdowns hold while there is none.
LEMMA NoShutdown ==
    ASSUME CalmInv, \A d \in Downs : downAt[d] \in {"new", "done", "raised"},
           UNCHANGED <<downAt, pos, unloading>>
    PROVE  Shutting' /\ Left'
  BY DEF CalmInv, Shutting, Left

LEMMA LoadKeeps ==
    ASSUME PlugTypeOK, Places, calm, CalmInv, NEW l \in Loads, LoadStep(l), calm'
    PROVE  CalmInv'
  <1> USE PluginAssumption DEF Load, globalVars, objectVars, loadVars, downVars
  <1>1. CASE FindNone(l)
    <2>1. /\ loadAt[l] = "new" /\ loadAt' = [loadAt EXCEPT ![l] = "make"]
          /\ LoadsUnderWay = {} /\ DownsUnderWay = {} /\ registry = NoLoad
          /\ UNCHANGED <<globalVars, objectVars, managerOf, pluginAt, found, downVars>>
      BY <1>1 DEF FindNone
    <2>2. \A d \in Downs : downAt[d] \in {"new", "done", "raised"}
      BY <2>1 DEF DownsUnderWay, PlugTypeOK
    <2>3. NoneOn /\ manager = NoLoad /\ cache = Nothing
      BY <2>1, <2>2 DEF CalmInv, Reset
    <2>4. LoadsUnderWay' = {l} /\ DownsUnderWay' = {}
      BY <2>1 DEF LoadsUnderWay, DownsUnderWay, PlugTypeOK
    <2>5. NoneOn' /\ Nothing' = Nothing
      BY <2>1, <2>3 DEF NoneOn, On, Nothing
    <2>6. Alone'
      BY <2>1, <2>3, <2>4, <2>5 DEF Alone, Early, LoadsUnderWay, PlugTypeOK
    <2>7. Reset' /\ Held'
      BY <2>4, <2>5 DEF Reset, Held, NoneOn
    <2>8. Own' /\ Filled'
      BY <2>1 DEF CalmInv, Own, Filled
    <2> QED  BY <2>1, <2>2, <2>6, <2>7, <2>8, NoShutdown DEF CalmInv
  <1>2. CASE FindRegistry(l) \/ ReturnRegistry(l)
    <2>1. /\ \/ loadAt[l] = "new" /\ loadAt' = [loadAt EXCEPT ![l] = "return"]
             \/ loadAt[l] = "return" /\ loadAt' = [loadAt EXCEPT ![l] = "got"]
          /\ UNCHANGED <<globalVars, objectVars, managerOf, pluginAt, found, downVars, calm>>
      BY <1>2 DEF FindRegistry, ReturnRegistry
    <2>2. LoadsUnderWay' = LoadsUnderWay /\ DownsUnderWay' = DownsUnderWay
      BY <2>1 DEF LoadsUnderWay, DownsUnderWay, PlugTypeOK
    <2>3. (\A k \in Loads, p \in Plugins : On(k, p)' = On(k, p)) /\ NoneOn' = NoneOn /\ Nothing' = Nothing
      BY <2>1 DEF NoneOn, On, Nothing
    <2>4. Alone' /\ Reset'
      <3>1. \A k \in Loads : \/ loadAt'[k] = loadAt[k]
                            \/ loadAt'[k] \in {"return", "got"}
        BY <2>1 DEF PlugTypeOK
      <3>2. Alone /\ Reset
        BY DEF CalmInv
      <3>3. Alone'
        BY <2>1, <2>2, <2>3, <3>1, <3>2 DEF Alone, Early
      <3>4. Reset'
        BY <2>1, <2>2, <2>3, <3>2 DEF Reset
      <3> QED  BY <3>3, <3>4
    <2>5. Held' /\ Own'
      <3>1. \A k \in Loads : loadAt[k] = "loading" => loadAt'[k] = "loading"
        BY <2>1 DEF PlugTypeOK
      <3>2. Held /\ Own
        BY DEF CalmInv
      <3>3. Held'
        BY <2>1, <2>3, <3>1, <3>2 DEF Held
      <3>4. Own'
        BY <2>1, <3>2 DEF Own
      <3> QED  BY <3>3, <3>4
    <2>6. Shutting' /\ Left'
      BY <2>1, <2>3 DEF CalmInv, Shutting, Left, Behind
    <2>7. Filled'
      <3>1. \A k \in Loads : Doomed(k)' = Doomed(k)
        BY <2>1 DEF Doomed
      <3>2. (registry = l /\ managerOf[l] = l) => loadAt[l] # "new"
        BY DEF Places
      <3> QED  BY <2>1, <2>3, <3>1, <3>2 DEF CalmInv, Filled, PlugTypeOK
    <2> QED  BY <2>4, <2>5, <2>6, <2>7 DEF CalmInv
  <1>3. CASE MakeRegistry(l) \/ MakeManager(l) \/ PublishManager(l)
    <2>0. /\ loadAt[l] \in {"make", "manage", "publish"} /\ l \in LoadsUnderWay
          /\ loadAt' = [loadAt EXCEPT ![l] = IF @ = "make" THEN "manage" ELSE
                                             IF @ = "manage" THEN "publish" ELSE "start"]
          /\ UNCHANGED <<cache, exposed, loaded, life, managerOf, pluginAt, found, downVars, calm>>
          /\ registry' = IF loadAt[l] = "make" THEN l ELSE registry
          /\ fills' = IF loadAt[l] = "manage" THEN [fills EXCEPT ![l] = registry] ELSE fills
          /\ manager' = IF loadAt[l] = "publish" THEN l ELSE manager
      BY <1>3 DEF MakeRegistry, MakeManager, PublishManager, LoadsUnderWay, PlugTypeOK
    <2>1. /\ DownsUnderWay = {} /\ \A d \in Downs : downAt[d] \in {"new", "done", "raised"}
          /\ \A k \in Loads \ {l} : loadAt[k] \notin Early \cup {"loading"}
          /\ LoadsUnderWay = {l}
      BY <2>0, LoadingAlone
    <2>2. LoadsUnderWay' = {l} /\ DownsUnderWay' = {}
      BY <2>0, <2>1 DEF LoadsUnderWay, DownsUnderWay, PlugTypeOK
    <2>3. NoneOn /\ NoneOn' /\ cache = Nothing /\ cache' = Nothing'
      <3>1. NoneOn /\ cache = Nothing
        BY <2>0 DEF CalmInv, Alone, Early
      <3> QED  BY <2>0, <3>1 DEF NoneOn, On, Nothing
    <2>4. Alone'
      <3>1. /\ loadAt[l] = "make" => registry = NoLoad /\ manager = NoLoad
            /\ loadAt[l] \in {"manage", "publish"} => registry = l
            /\ loadAt[l] = "publish" => fills[l] = l
        BY DEF CalmInv, Alone
      <3>2. \A k \in Loads \ {l} : loadAt'[k] \notin Early \cup {"loading"}
        BY <2>0, <2>1 DEF PlugTypeOK
      <3>3. fills \in [Loads -> Loads \cup {NoLoad}]
        BY DEF PlugTypeOK
      <3>4. loadAt'[l] = IF loadAt[l] = "make" THEN "manage" ELSE
                         IF loadAt[l] = "manage" THEN "publish" ELSE "start"
        BY <2>0 DEF PlugTypeOK
      <3> QED  BY <2>0, <2>2, <2>3, <3>1, <3>2, <3>3, <3>4 DEF Alone, Early
    <2>5. Reset' /\ Held'
      BY <2>2, <2>3 DEF Reset, Held, NoneOn
    <2>6. Own' /\ Filled'
      <3>1. managerOf[l] # l
        BY <2>0 DEF Places, Early
      <3>2. registry' \in {registry, l}
        BY <2>0
      <3>3. Own'
        BY <2>0 DEF CalmInv, Own
      <3>4. registry' # l => registry' = registry
        BY <3>2
      <3>5. ASSUME NEW k \in Loads, registry' = k, managerOf'[k] = k PROVE FALSE
        <4>1. k = l
          BY <2>0, <3>4, <3>5, PluginAssumption DEF CalmInv, Alone
        <4> QED  BY <2>0, <3>1, <3>5, <4>1
      <3> QED  BY <3>3, <3>5 DEF Filled
    <2> QED  BY <2>0, <2>1, <2>4, <2>5, <2>6, NoShutdown DEF CalmInv
  <1>4. CASE StartLoading(l)
    <2>0. /\ loadAt[l] = "start" /\ l \in LoadsUnderWay
          /\ loadAt' = [loadAt EXCEPT ![l] = "loading"]
          /\ managerOf' = [managerOf EXCEPT ![l] = manager]
          /\ pluginAt' = [pluginAt EXCEPT ![l] = [p \in Plugins |-> "queued"]]
          /\ UNCHANGED <<globalVars, objectVars, found, downVars, calm>>
      BY <1>4 DEF StartLoading, LoadsUnderWay, PlugTypeOK
    <2>1. /\ DownsUnderWay = {} /\ \A d \in Downs : downAt[d] \in {"new", "done", "raised"}
          /\ \A k \in Loads \ {l} : loadAt[k] \notin Early \cup {"loading"}
          /\ LoadsUnderWay = {l}
      BY <2>0, LoadingAlone
    <2>2. LoadsUnderWay' = {l} /\ DownsUnderWay' = {}
      BY <2>0, <2>1 DEF LoadsUnderWay, DownsUnderWay, PlugTypeOK
    <2>3. NoneOn' /\ cache' = Nothing /\ cache = Nothing /\ registry = l /\ manager = l /\ fills[l] = l
      <3>1. NoneOn /\ cache = Nothing /\ registry = l /\ manager = l /\ fills[l] = l
        BY <2>0 DEF CalmInv, Alone, Early
      <3> QED  BY <2>0, <3>1 DEF NoneOn, On
    <2>4. Alone'
      BY <2>0, <2>1, <2>2, <2>3 DEF Alone, Early, PlugTypeOK
    <2>5. Reset' /\ Held' /\ Own'
      BY <2>0, <2>2, <2>3 DEF Reset, Held, NoneOn, CalmInv, Own
    <2>6. Filled'
      BY <2>0, <2>3 DEF Filled, Nothing, PlugTypeOK
    <2> QED  BY <2>0, <2>1, <2>4, <2>5, <2>6, NoShutdown DEF CalmInv
  <1>5. CASE NoManager(l)
    <2>1. loadAt[l] = "start" /\ manager = NoLoad
      BY <1>5 DEF NoManager
    <2> QED  BY <2>1 DEF CalmInv, Alone
  <1>6. CASE LoadRaises(l) \/ LoadEnds(l)
    <2>0. /\ loadAt[l] = "loading" /\ l \in LoadsUnderWay
          /\ \/ loadAt' = [loadAt EXCEPT ![l] = "raised"]
             \/ loadAt' = [loadAt EXCEPT ![l] = "return"]
          /\ UNCHANGED <<globalVars, objectVars, managerOf, found, downVars, calm>>
          /\ \A p \in Plugins : pluginAt[l][p] \notin {"entry", "store", "keep"}
          /\ \A p \in Plugins : pluginAt'[l][p] = pluginAt[l][p] \/ pluginAt'[l][p] = "failed"
          /\ \A p \in Plugins : pluginAt'[l][p] \in {"in", "hit", "failed"}
          /\ \A k \in Loads \ {l} : pluginAt'[k] = pluginAt[k]
      <3>1. CASE LoadRaises(l)
        BY <3>1 DEF LoadRaises, Busy, LoadsUnderWay, PlugTypeOK
      <3>2. CASE LoadEnds(l)
        BY <3>2 DEF LoadEnds, LoadsUnderWay, PlugTypeOK
      <3> QED  BY <1>6, <3>1, <3>2
    <2>1. /\ DownsUnderWay = {} /\ \A d \in Downs : downAt[d] \in {"new", "done", "raised"}
          /\ \A k \in Loads \ {l} : loadAt[k] \notin Early \cup {"loading"}
          /\ LoadsUnderWay = {l}
      BY <2>0, LoadingAlone
    <2>2. LoadsUnderWay' = {} /\ DownsUnderWay' = {}
      BY <2>0, <2>1 DEF LoadsUnderWay, DownsUnderWay, PlugTypeOK
    <2>3. \A k \in Loads, p \in Plugins : On(k, p)' = On(k, p)
      BY <2>0 DEF On
    <2>4. registry = l /\ managerOf[l] = l
      BY <2>0 DEF CalmInv, Alone
    <2>5. Alone'
      <3>1. loadAt'[l] \in {"return", "raised"} /\ \A k \in Loads \ {l} : loadAt'[k] = loadAt[k]
        BY <2>0 DEF PlugTypeOK
      <3>2. \A k \in Loads : loadAt'[k] \notin Early \cup {"loading"}
        BY <2>1, <3>1 DEF Early
      <3> QED  BY <2>2, <3>2 DEF Alone, Early
    <2>6. Reset' /\ Held' /\ Own'
      <3>1. Reset'
        BY <2>0, <2>4, PluginAssumption DEF Reset
      <3>2. Held'
        <4>1. \A k \in Loads, p \in Plugins : On(k, p) =>
                 manager = k /\ \E j \in DOMAIN loaded[k] : loaded[k][j] = <<k, p>>
          BY <2>0, <2>1 DEF CalmInv, Held
        <4> QED  BY <2>0, <2>3, <4>1 DEF Held
      <3>3. Own'
        BY <2>0 DEF CalmInv, Own
      <3> QED  BY <3>1, <3>2, <3>3
    <2>7. Filled'
      <3>1. ~Doomed(l)
        BY <2>1 DEF Doomed
      <3>2. \A p \in Plugins :
               /\ pluginAt[l][p] \in {"queued", "hook", "entry", "store", "keep", "in", "failed"}
               /\ pluginAt[l][p] = "in" => exposed[l][p] = <<l, p>> /\ On(l, p)
        BY <2>0, <2>4, <3>1 DEF CalmInv, Filled
      <3>3. loadAt'[l] \in {"return", "raised"}
        BY <2>0 DEF PlugTypeOK
      <3>4. ASSUME NEW k \in Loads, registry' = k PROVE k = l
        BY <2>0, <2>4, <3>4
      <3> QED  BY <2>0, <2>3, <3>2, <3>3, <3>4 DEF Filled
    <2> QED  BY <2>0, <2>1, <2>5, <2>6, <2>7, NoShutdown DEF CalmInv
  <1> QED  BY <1>1, <1>2, <1>3, <1>4, <1>5, <1>6 DEF LoadStep

LEMMA HeldStays ==
    ASSUME Held, UNCHANGED <<loaded, manager, loadAt>>,
           \A k \in Loads, q \in Plugins : On(k, q)' =>
               \/ loadAt[k] = "loading" /\ pluginAt'[k][q] \in {"entry", "store"}
               \/ On(k, q) /\ pluginAt[k][q] \notin {"entry", "store"}
               \/ On(k, q) /\ pluginAt'[k][q] = pluginAt[k][q]
    PROVE  Held'
  BY DEF Held

LEMMA PluginKeeps ==
    ASSUME PlugTypeOK, Places, calm, CalmInv, NEW l \in Loads, NEW p \in Plugins, PluginStep(l, p)
    PROVE  CalmInv'
  <1> USE PluginAssumption DEF globalVars, objectVars, loadVars, downVars
  <1>0. /\ loadAt[l] = "loading" /\ l \in LoadsUnderWay
        /\ UNCHANGED <<registry, manager, fills, loadAt, managerOf, downVars, calm>>
    BY DEF PluginStep, CacheHit, UseCached, CallOnLoad, Initialised, PluginFails, Expose, ExposeFails,
           Store, Keep, Plugin, LoadsUnderWay
  <1>1. /\ DownsUnderWay = {} /\ \A d \in Downs : downAt[d] \in {"new", "done", "raised"}
        /\ \A k \in Loads \ {l} : loadAt[k] \notin Early \cup {"loading"}
        /\ LoadsUnderWay = {l}
    BY <1>0, LoadingAlone
  <1>2. registry = l /\ manager = l /\ managerOf[l] = l /\ fills[l] = l
    BY <1>0 DEF CalmInv, Alone
  <1>3. ~Doomed(l)
    BY <1>1 DEF Doomed
  <1>4. Alone'
    <2>1. LoadsUnderWay' = {l} /\ DownsUnderWay' = {}
      BY <1>0, <1>1 DEF LoadsUnderWay, DownsUnderWay
    <2>2. \A k \in Loads : loadAt'[k] \notin Early
      BY <1>0, <1>1 DEF Early
    <2> QED  BY <1>0, <1>1, <1>2, <2>1, <2>2 DEF Alone, Early
  <1>5. Reset' /\ Shutting' /\ Left'
    <2>1. Reset'
      BY <1>0, <1>2 DEF Reset
    <2> QED  BY <1>0, <1>1, <2>1, NoShutdown
  <1>6. \A q \in Plugins :
           /\ pluginAt[l][q] \in {"queued", "hook", "entry", "store", "keep", "in", "failed"}
           /\ pluginAt[l][q] \in {"entry", "store"} => On(l, q)
           /\ pluginAt[l][q] \in {"store", "keep", "in"} => exposed[l][q] = <<l, q>>
           /\ pluginAt[l][q] \in {"keep", "in"} => On(l, q)
           /\ cache[q] # NoInstance => pluginAt[l][q] = "in"
    BY <1>0, <1>2, <1>3 DEF CalmInv, Filled
  <1>7. Held' /\ Own' /\ Filled'
    <2> DEFINE Fine ==
           \A q \in Plugins :
              /\ pluginAt'[l][q] \in {"queued", "hook", "entry", "store", "keep", "in", "failed"}
              /\ pluginAt'[l][q] \in {"entry", "store"} => On(l, q)'
              /\ pluginAt'[l][q] \in {"store", "keep", "in"} => exposed'[l][q] = <<l, q>>
              /\ pluginAt'[l][q] \in {"keep", "in"} => On(l, q)'
              /\ cache'[q] # NoInstance => pluginAt'[l][q] = "in"
    <2>0. SUFFICES Held' /\ Own' /\ Fine
      <3>1. ASSUME Fine PROVE Filled'
        <4>1. loadAt'[l] = "loading" /\ registry' = l
          BY <1>0, <1>2
        <4> QED  BY <3>1, <4>1 DEF Filled
      <3> QED  BY <3>1
    <2>1. CASE CallOnLoad(l, p) \/ PluginFails(l, p)
      <3>1. /\ UNCHANGED <<cache, objectVars>>
            /\ \E to \in {"hook", "failed"} : pluginAt' = [pluginAt EXCEPT ![l][p] = to]
            /\ pluginAt[l][p] \in {"queued", "hook"}
        BY <2>1 DEF CallOnLoad, PluginFails, Plugin
      <3>2. \A k \in Loads, q \in Plugins : On(k, q)' = On(k, q)
        BY <3>1 DEF On
      <3>3. Held'
        BY <1>0, <3>1, <3>2, HeldStays DEF CalmInv, PlugTypeOK
      <3>4. Own'
        BY <1>0, <3>1 DEF CalmInv, Own
      <3>5. Fine
        BY <1>6, <3>1, <3>2 DEF PlugTypeOK
      <3> QED  BY <3>3, <3>4, <3>5
    <2>2. CASE CacheHit(l, p) \/ UseCached(l, p)
      BY <1>6, <2>2 DEF CacheHit, UseCached, Plugin
    <2>3. CASE Initialised(l, p) \/ ExposeFails(l, p)
      <3>1. /\ UNCHANGED <<cache, exposed, loaded>>
            /\ \/ /\ pluginAt[l][p] = "hook" /\ life' = [life EXCEPT ![<<l, p>>] = "on"]
                  /\ pluginAt' = [pluginAt EXCEPT ![l][p] = "entry"]
               \/ /\ pluginAt[l][p] = "entry" /\ life' = [life EXCEPT ![<<l, p>>] = "orphan"]
                  /\ pluginAt' = [pluginAt EXCEPT ![l][p] = "failed"]
        BY <2>3 DEF Initialised, ExposeFails, Plugin
      <3>2. /\ \A k \in Loads, q \in Plugins : <<k, q>> # <<l, p>> => On(k, q)' = On(k, q)
            /\ On(l, p)' <=> pluginAt[l][p] = "hook"
        BY <3>1 DEF On, Instances, PlugTypeOK
      <3>3. Held'
        <4>1. \A q \in Plugins \ {p} : pluginAt'[l][q] = pluginAt[l][q]
          BY <3>1 DEF PlugTypeOK
        <4>2. \A k \in Loads \ {l} : pluginAt'[k] = pluginAt[k]
          BY <3>1 DEF PlugTypeOK
        <4>3. On(l, p)' => loadAt[l] = "loading" /\ pluginAt'[l][p] \in {"entry", "store"}
          BY <1>0, <3>1, <3>2 DEF PlugTypeOK
        <4>4. ASSUME NEW k \in Loads, NEW q \in Plugins, On(k, q)'
              PROVE  \/ loadAt[k] = "loading" /\ pluginAt'[k][q] \in {"entry", "store"}
                     \/ On(k, q) /\ pluginAt'[k][q] = pluginAt[k][q]
          <5>1. CASE k = l /\ q = p
            BY <4>3, <4>4, <5>1
          <5>2. CASE ~(k = l /\ q = p)
            BY <3>2, <4>1, <4>2, <4>4, <5>2
          <5> QED  BY <5>1, <5>2
        <4>5. Held
          BY DEF CalmInv
        <4> QED  BY <1>0, <3>1, <4>4, <4>5, HeldStays
      <3>4. Own'
        BY <1>0, <3>1 DEF CalmInv, Own
      <3>5. Fine
        BY <1>6, <3>1, <3>2 DEF PlugTypeOK
      <3> QED  BY <3>3, <3>4, <3>5
    <2>4. CASE Expose(l, p)
      <3>1. /\ UNCHANGED <<cache, life, loaded>>
            /\ pluginAt[l][p] = "entry" /\ pluginAt' = [pluginAt EXCEPT ![l][p] = "store"]
            /\ exposed' = [exposed EXCEPT ![l][p] = <<l, p>>]
        BY <1>2, <2>4 DEF Expose, Plugin
      <3>2. \A k \in Loads, q \in Plugins : On(k, q)' = On(k, q)
        BY <3>1 DEF On
      <3>3. Held'
        BY <1>0, <3>1, <3>2, HeldStays DEF CalmInv, PlugTypeOK
      <3>4. Own'
        BY <1>0, <3>1 DEF CalmInv, Own
      <3>5. Fine
        BY <1>6, <3>1, <3>2 DEF PlugTypeOK
      <3> QED  BY <3>3, <3>4, <3>5
    <2>5. CASE Store(l, p)
      <3>1. /\ UNCHANGED <<cache, life, exposed>>
            /\ pluginAt[l][p] = "store" /\ pluginAt' = [pluginAt EXCEPT ![l][p] = "keep"]
            /\ loaded' = [loaded EXCEPT ![l] = Stored(@, p, <<l, p>>)]
        BY <1>2, <2>5 DEF Store, Plugin
      <3>2. \A k \in Loads, q \in Plugins : On(k, q)' = On(k, q)
        BY <3>1 DEF On
      <3>3. /\ loaded'[l] = Stored(loaded[l], p, <<l, p>>) /\ loaded[l] \in Seq(Instances)
            /\ <<l, p>> \in Instances
            /\ \A k \in Loads \ {l} : loaded'[k] = loaded[k]
        BY <3>1 DEF PlugTypeOK, Instances
      <3>4. /\ \E j \in DOMAIN loaded'[l] : loaded'[l][j] = <<l, p>>
            /\ \A j \in DOMAIN loaded[l] : loaded[l][j][2] # p =>
                  j \in DOMAIN loaded'[l] /\ loaded'[l][j] = loaded[l][j]
            /\ \A j \in DOMAIN loaded'[l] :
                  loaded'[l][j] = <<l, p>> \/ (j \in DOMAIN loaded[l] /\ loaded'[l][j] = loaded[l][j])
        <4> DEFINE s == loaded[l]
                   i == <<l, p>>
                   t == Stored(s, p, i)
        <4>0. s \in Seq(Instances) /\ i \in Instances
          BY <3>3
        <4> HIDE DEF s, i
        <4>1. /\ \E j \in DOMAIN t : t[j] = i
              /\ \A j \in DOMAIN s : s[j][2] # p => j \in DOMAIN t /\ t[j] = s[j]
              /\ \A j \in DOMAIN t : t[j] = i \/ (j \in DOMAIN s /\ t[j] = s[j])
          BY <4>0, StoredIn
        <4>2. loaded'[l] = t
          BY <3>3 DEF s, i
        <4> HIDE DEF t
        <4> QED  BY <4>1, <4>2 DEF s, i
      <3>5. Held'
        <4> SUFFICES ASSUME NEW k \in Loads, NEW q \in Plugins, On(k, q)
                     PROVE  \/ loadAt[k] = "loading" /\ pluginAt'[k][q] \in {"entry", "store"}
                            \/ manager = k /\ \E j \in DOMAIN loaded'[k] : loaded'[k][j] = <<k, q>>
          BY <1>0, <3>2 DEF Held
        <4>1. CASE k = l /\ q = p
          BY <1>2, <3>4, <4>1
        <4>2. CASE k = l /\ q # p
          <5>1. \/ pluginAt[l][q] \in {"entry", "store"}
                \/ \E j \in DOMAIN loaded[l] : loaded[l][j] = <<l, q>>
            BY <4>2 DEF CalmInv, Held
          <5>2. pluginAt'[l][q] = pluginAt[l][q]
            BY <3>1, <4>2 DEF PlugTypeOK
          <5> QED  BY <1>0, <1>2, <3>4, <4>2, <5>1, <5>2
        <4>3. CASE k # l
          BY <1>0, <1>1, <1>2, <4>3 DEF CalmInv, Held
        <4> QED  BY <4>1, <4>2, <4>3
      <3>6. Own'
        BY <1>0, <3>3, <3>4 DEF CalmInv, Own
      <3>7. Fine
        BY <1>6, <3>1, <3>2 DEF PlugTypeOK
      <3> QED  BY <3>5, <3>6, <3>7
    <2>6. CASE Keep(l, p)
      <3>1. /\ UNCHANGED <<life, exposed, loaded>>
            /\ pluginAt[l][p] = "keep" /\ pluginAt' = [pluginAt EXCEPT ![l][p] = "in"]
            /\ cache' = [cache EXCEPT ![p] = <<l, p>>]
        BY <2>6 DEF Keep, Plugin
      <3>2. \A k \in Loads, q \in Plugins : On(k, q)' = On(k, q)
        BY <3>1 DEF On
      <3>3. Held'
        BY <1>0, <3>1, <3>2, HeldStays DEF CalmInv, PlugTypeOK
      <3>4. Own'
        BY <1>0, <3>1 DEF CalmInv, Own
      <3>5. Fine
        BY <1>6, <3>1, <3>2 DEF PlugTypeOK
      <3> QED  BY <3>3, <3>4, <3>5
    <2> QED  BY <2>1, <2>2, <2>3, <2>4, <2>5, <2>6 DEF PluginStep
  <1> QED  BY <1>4, <1>5, <1>7 DEF CalmInv

\* A step of a shutdown before it clears anything, and without an unload.
LEMMA LookingKeeps ==
    ASSUME PlugTypeOK, Places, CalmInv, NEW d \in Downs, LoadsUnderWay = {},
           UNCHANGED <<globalVars, objectVars, loadVars>>,
           \/ DownBegins(d) \/ ReadManager(d) \/ Iterate(d) \/ DownRaises(d) \/ CallOnUnload(d) \/ DownEnds(d)
    PROVE  CalmInv'
  <1> USE DEF globalVars, objectVars, loadVars, downVars
  <1>1. /\ \A k \in Loads, q \in Plugins : On(k, q)' = On(k, q)
        /\ NoneOn' <=> NoneOn
        /\ LoadsUnderWay' = {} /\ Nothing' = Nothing
    BY DEF On, NoneOn, LoadsUnderWay, Nothing
  <1>2. \E to \in {"registry", "read", "items", "raised", "next", "unload", "clear"} :
           downAt' = [downAt EXCEPT ![d] = to]
    BY DEF DownBegins, ReadManager, Iterate, DownRaises, CallOnUnload, DownEnds, Down
  <1>3. /\ downAt[d] \in {"new", "read", "items", "next"}
        /\ \A e \in Downs \ {d} : /\ downAt'[e] = downAt[e] /\ downOf'[e] = downOf[e]
                                 /\ size'[e] = size[e] /\ pos'[e] = pos[e]
                                 /\ unloading'[e] = unloading[e]
    BY DEF DownBegins, ReadManager, Iterate, DownRaises, CallOnUnload, DownEnds, Down, Iterated,
           PlugTypeOK
  <1>4. Alone'
    <2>1. \A l \in Loads : loadAt[l] \notin Early \cup {"loading"}
      BY DEF LoadsUnderWay, Early
    <2> QED  BY <1>1, <2>1 DEF Alone, Early
  <1>5. Reset'
    <2>1. \A e \in Downs : downAt[e] \in {"manager", "cache"} => downAt'[e] = downAt[e]
      BY <1>3
    <2> QED  BY <1>1, <2>1 DEF CalmInv, Reset
  <1>6. Held'
    BY <1>1, HeldStays DEF CalmInv
  <1>7. \A r \in Loads : Doomed(r) => Doomed(r)'
    <2> SUFFICES ASSUME NEW r \in Loads, NEW e \in Downs,
                        \/ downAt[e] = "registry"
                        \/ downAt[e] = "clear" /\ downOf[e] = r
                        \/ downAt[e] \in {"next", "unload"} /\ downOf[e] = r /\ Len(loaded[r]) = size[e]
                 PROVE  \/ downAt'[e] = "registry"
                        \/ downAt'[e] = "clear" /\ downOf'[e] = r
                        \/ downAt'[e] \in {"next", "unload"} /\ downOf'[e] = r /\ Len(loaded[r]) = size'[e]
      BY DEF Doomed
    <2>1. CASE e # d
      BY <1>3, <2>1
    <2>2. CASE e = d
      <3>1. downAt[d] = "next" /\ downOf[d] = r /\ Len(loaded[r]) = size[d]
        BY <1>3, <2>2
      <3>2. \/ downAt'[d] = "clear" /\ downOf' = downOf
            \/ downAt'[d] = "unload" /\ downOf' = downOf /\ size' = size
        BY <3>1 DEF DownBegins, ReadManager, Iterate, DownRaises, CallOnUnload, DownEnds, Down, Changed,
                    PlugTypeOK
      <3> QED  BY <2>2, <3>1, <3>2
    <2> QED  BY <2>1, <2>2
  <1>8. Filled'
    BY <1>1, <1>7 DEF CalmInv, Filled
  <1>9. Left'
    <2> SUFFICES ASSUME NEW e \in Downs, downAt'[e] \in {"next", "unload"}, registry = downOf'[e],
                        Len(loaded[registry]) # size'[e]
                 PROVE  \E c \in Downs : downAt'[c] = "registry"
      BY DEF Left
    <2>1. CASE e # d \/ CallOnUnload(d)
      <3>1. /\ downAt[e] \in {"next", "unload"} /\ registry = downOf[e]
            /\ Len(loaded[registry]) # size[e]
        BY <1>3, <2>1 DEF CallOnUnload, Down
      <3>2. PICK c \in Downs : downAt[c] = "registry"
        BY <3>1 DEF CalmInv, Left
      <3>3. downAt'[c] = "registry"
        BY <1>3, <3>2
      <3> QED  BY <3>3
    <2>2. CASE e = d /\ ~CallOnUnload(d)
      <3>1. Iterate(d)
        BY <2>2 DEF DownBegins, ReadManager, DownRaises, DownEnds, Down, PlugTypeOK
      <3>2. size'[d] = Len(loaded[downOf[d]]) /\ downOf' = downOf
        BY <3>1 DEF Iterate, PlugTypeOK
      <3> QED  BY <2>2, <3>2
    <2> QED  BY <2>1, <2>2
  <1>10. Own'
    <2>1. \A l \in Loads : \A j \in DOMAIN loaded[l] : loaded[l][j][1] = l
      BY DEF CalmInv, Own
    <2>2. ASSUME NEW e \in Downs, downAt'[e] = "unload"
          PROVE  unloading'[e] \in Instances /\ unloading'[e][1] = downOf'[e]
      <3>1. CASE e # d
        BY <1>3, <2>2, <3>1 DEF CalmInv, Own
      <3>2. CASE e = d
        <4>1. CallOnUnload(d)
          BY <2>2, <3>2 DEF DownBegins, ReadManager, Iterate, DownRaises, DownEnds, Down, PlugTypeOK
        <4>2. /\ downOf[d] \in Loads /\ downOf' = downOf
              /\ loaded[downOf[d]] \in Seq(Instances)
              /\ pos[d] + 1 \in 1 .. Len(loaded[downOf[d]])
              /\ unloading'[d] = loaded[downOf[d]][pos[d] + 1]
          BY <4>1 DEF CallOnUnload, Down, Changed, Places, PlugTypeOK
        <4>3. pos[d] + 1 \in DOMAIN loaded[downOf[d]] /\ unloading'[d] \in Instances
          BY <4>2
        <4> QED  BY <2>1, <3>2, <4>2, <4>3
      <3> QED  BY <3>1, <3>2
    <2> QED  BY <2>1, <2>2 DEF Own
  <1>11. Shutting'
    <2> DEFINE Fine(e) ==
           /\ downAt[e] \in {"items", "next", "unload", "clear"} => manager \in {downOf[e], NoLoad}
           /\ downAt[e] \in {"next", "unload"} => Behind(e)
           /\ downAt[e] \in {"new", "read", "items"} => pos[e] = 0
           /\ downAt[e] = "clear" =>
                 \A j \in DOMAIN loaded[downOf[e]] : life[loaded[downOf[e]][j]] = "off"
           /\ downAt[e] \in {"registry", "manager", "cache"} => NoneOn
           /\ downAt[e] \in {"manager", "cache"} => registry = NoLoad
           /\ downAt[e] = "cache" => manager = NoLoad
    <2>0. Shutting <=> \A e \in Downs : Fine(e)
      BY DEF Shutting
    <2>1. SUFFICES ASSUME NEW e \in Downs PROVE Fine(e)'
      BY DEF Shutting
    <2>2. Fine(e) /\ Fine(d)
      BY <2>0 DEF CalmInv
    <2>3. CASE e # d
      <3>1. Behind(e)' <=> Behind(e)
        BY <1>3, <2>3 DEF Behind
      <3> HIDE DEF Behind
      <3> QED  BY <1>1, <1>3, <2>2, <2>3, <3>1
    <2>4. CASE e = d /\ DownBegins(d)
      <3>1. downAt'[d] = "registry" => NoneOn
        <4>1. downAt'[d] = "registry" => manager = NoLoad
          BY <2>4 DEF DownBegins, Down, PlugTypeOK
        <4>2. manager = NoLoad => NoneOn
          BY PluginAssumption DEF CalmInv, Held, LoadsUnderWay, NoneOn
        <4> QED  BY <4>1, <4>2
      <3>2. downAt'[d] \in {"read", "registry"} /\ pos' = pos /\ downAt[d] = "new"
        BY <2>4 DEF DownBegins, Down, PlugTypeOK
      <3> QED  BY <1>1, <2>2, <2>4, <3>1, <3>2
    <2>5. CASE e = d /\ ReadManager(d)
      <3>1. downAt'[d] \in {"items", "raised"} /\ pos' = pos /\ downAt[d] = "read" /\ downOf'[d] = manager
        BY <2>5 DEF ReadManager, Down, PlugTypeOK
      <3> QED  BY <2>2, <2>5, <3>1
    <2>6. CASE e = d /\ Iterate(d)
      <3>1. /\ downAt'[d] = "next" /\ pos' = pos /\ downOf' = downOf /\ downAt[d] = "items"
            /\ size'[d] = Len(loaded[downOf[d]])
        BY <2>6 DEF Iterate, Down, PlugTypeOK
      <3>2. pos'[d] = 0 /\ size'[d] \in Nat
        BY <2>2, <3>1 DEF PlugTypeOK, Places
      <3>3. Behind(d)'
        BY <3>1, <3>2 DEF Behind
      <3> QED  BY <2>2, <2>6, <3>1, <3>3
    <2>7. CASE e = d /\ DownRaises(d)
      <3>1. downAt'[d] = "raised"
        BY <2>7 DEF DownRaises, Down, PlugTypeOK
      <3> QED  BY <2>7, <3>1
    <2>8. CASE e = d /\ CallOnUnload(d)
      <3>1. /\ downAt'[d] = "unload" /\ downOf' = downOf /\ size' = size /\ downAt[d] = "next"
            /\ pos'[d] = pos[d] + 1 /\ unloading'[d] = loaded[downOf[d]][pos[d] + 1]
            /\ pos[d] < size[d] /\ Len(loaded[downOf[d]]) = size[d]
            /\ size[d] \in Nat /\ pos[d] \in Nat
        BY <2>8 DEF CallOnUnload, Down, Changed, PlugTypeOK
      <3>2. Behind(d)
        BY <2>2, <3>1
      <3>3. \A j \in 1 .. pos[d] : life[loaded[downOf[d]][j]] = "off"
        BY <3>1, <3>2 DEF Behind
      <3>4. Behind(d)'
        BY <3>1, <3>3 DEF Behind
      <3> QED  BY <2>2, <2>8, <3>1, <3>4
    <2>9. CASE e = d /\ DownEnds(d)
      <3>1. /\ downAt'[d] = "clear" /\ downOf' = downOf /\ downAt[d] = "next"
            /\ pos[d] = Len(loaded[downOf[d]]) /\ pos[d] \in Nat
            /\ loaded[downOf[d]] \in Seq(Instances)
        BY <2>9 DEF DownEnds, Down, Changed, PlugTypeOK, Places
      <3>2. Behind(d)
        BY <2>2, <3>1
      <3>3. \A j \in DOMAIN loaded[downOf[d]] : life[loaded[downOf[d]][j]] = "off"
        <4>1. DOMAIN loaded[downOf[d]] = 1 .. pos[d]
          BY <3>1
        <4>2. loaded[downOf[d]] = <<>> => pos[d] = 0
          BY <3>1
        <4>3. \A j \in 1 .. pos[d] : life[loaded[downOf[d]][j]] = "off"
          BY <3>1, <3>2, <4>2 DEF Behind
        <4> QED  BY <4>1, <4>3
      <3> QED  BY <2>2, <2>9, <3>1, <3>3
    <2> QED  BY <2>3, <2>4, <2>5, <2>6, <2>7, <2>8, <2>9
  <1> QED  BY <1>4, <1>5, <1>6, <1>8, <1>9, <1>10, <1>11 DEF CalmInv

LEMMA UnloadedKeeps ==
    ASSUME PlugTypeOK, Places, CalmInv, NEW d \in Downs, LoadsUnderWay = {}, Unloaded(d)
    PROVE  CalmInv'
  <1> USE DEF globalVars, objectVars, loadVars, downVars
  <1>0. /\ downAt[d] = "unload" /\ downAt' = [downAt EXCEPT ![d] = "next"]
        /\ life' = [life EXCEPT ![unloading[d]] = "off"]
        /\ unloading' = [unloading EXCEPT ![d] = NoInstance]
        /\ UNCHANGED <<globalVars, exposed, loaded, fills, loadVars, downOf, size, pos>>
        /\ unloading[d] \in Instances /\ unloading[d][1] = downOf[d] /\ downOf[d] \in Loads
    BY DEF Unloaded, Down, CalmInv, Own, Places
  <1>1. /\ \A k \in Loads, q \in Plugins : On(k, q)' => On(k, q)
        /\ \A k \in Loads, q \in Plugins : <<k, q>> # unloading[d] => On(k, q)' = On(k, q)
        /\ NoneOn => NoneOn'
        /\ LoadsUnderWay' = {} /\ Nothing' = Nothing
        /\ \A i \in Instances : life[i] = "off" => life'[i] = "off"
    <2>1. \A k \in Loads, q \in Plugins : <<k, q>> \in Instances
      BY DEF Instances
    <2>2. /\ \A i \in Instances : life'[i] = "on" => life[i] = "on"
          /\ \A i \in Instances \ {unloading[d]} : life'[i] = life[i]
          /\ \A i \in Instances : life[i] = "off" => life'[i] = "off"
      BY <1>0 DEF PlugTypeOK
    <2> QED  BY <1>0, <2>1, <2>2 DEF On, NoneOn, LoadsUnderWay, Nothing
  <1>2. \A l \in Loads : loadAt[l] \notin Early \cup {"loading"}
    BY DEF LoadsUnderWay, Early
  <1>3. Alone'
    BY <1>0, <1>1, <1>2 DEF Alone, Early
  <1>4. \A e \in Downs : downAt[e] \in {"registry", "manager", "cache", "clear"} => downAt'[e] = downAt[e]
    BY <1>0 DEF PlugTypeOK
  <1>5. Reset'
    BY <1>0, <1>1, <1>4 DEF CalmInv, Reset
  <1>6. Held'
    BY <1>0, <1>1, HeldStays DEF CalmInv
  <1>7. Own'
    BY <1>0 DEF CalmInv, Own, PlugTypeOK
  <1>8. Left'
    <2>1. \A e \in Downs : downAt'[e] \in {"next", "unload"} => downAt[e] \in {"next", "unload"}
      BY <1>0 DEF PlugTypeOK
    <2> QED  BY <1>0, <1>4, <2>1 DEF CalmInv, Left
  <1>9. \A r \in Loads : Doomed(r) => Doomed(r)'
    <2>1. \A e \in Downs : downAt[e] \in {"next", "unload"} => downAt'[e] \in {"next", "unload"}
      BY <1>0 DEF PlugTypeOK
    <2> QED  BY <1>0, <1>4, <2>1 DEF Doomed
  <1>10. registry = downOf[d] => Doomed(registry)
    BY <1>0 DEF CalmInv, Left, Doomed
  <1>11. Filled'
    <2> SUFFICES ASSUME NEW l \in Loads, registry = l, managerOf[l] = l,
                        loadAt[l] \in {"return", "got", "raised"}, NEW p \in Plugins
                 PROVE  /\ pluginAt[l][p] \in {"queued", "hook", "entry", "store", "keep", "in", "failed"}
                        /\ loadAt[l] # "loading" => pluginAt[l][p] \in {"in", "failed"}
                        /\ pluginAt[l][p] \in {"entry", "store"} => On(l, p)'
                        /\ pluginAt[l][p] \in {"store", "keep", "in"} => exposed[l][p] = <<l, p>>
                        /\ pluginAt[l][p] \in {"keep", "in"} => On(l, p)' \/ Doomed(l)'
      BY <1>0, <1>2 DEF Filled
    <2>1. /\ pluginAt[l][p] \in {"queued", "hook", "entry", "store", "keep", "in", "failed"}
          /\ loadAt[l] # "loading" => pluginAt[l][p] \in {"in", "failed"}
          /\ pluginAt[l][p] \in {"entry", "store"} => On(l, p)
          /\ pluginAt[l][p] \in {"store", "keep", "in"} => exposed[l][p] = <<l, p>>
          /\ pluginAt[l][p] \in {"keep", "in"} => On(l, p) \/ Doomed(l)
      BY DEF CalmInv, Filled
    <2>2. CASE unloading[d] # <<l, p>>
      BY <1>1, <1>9, <2>1, <2>2
    <2>3. CASE unloading[d] = <<l, p>>
      <3>1. downOf[d] = l
        BY <1>0, <2>3
      <3>2. Doomed(l)'
        BY <1>9, <1>10, <3>1
      <3>3. pluginAt[l][p] \notin {"entry", "store"}
        BY <1>2, <2>1 DEF CalmInv, Filled
      <3> QED  BY <2>1, <3>2, <3>3
    <2> QED  BY <2>2, <2>3
  <1>12. Shutting'
    <2>1. ASSUME NEW e \in Downs, downAt'[e] \in {"next", "unload"} PROVE Behind(e)'
      <3>1. downAt[e] \in {"next", "unload"} /\ (e # d => downAt'[e] = downAt[e] /\ unloading'[e] = unloading[e])
        BY <1>0, <2>1 DEF PlugTypeOK
      <3>2. Behind(e)
        BY <3>1 DEF CalmInv, Shutting
      <3>3. CASE loaded[downOf[e]] = <<>>
        BY <1>0, <3>3 DEF Behind
      <3>4. CASE loaded[downOf[e]] # <<>>
        <4>1. /\ Len(loaded[downOf[e]]) = size[e] /\ pos[e] <= size[e]
              /\ downAt[e] = "unload" => pos[e] > 0 /\ unloading[e] = loaded[downOf[e]][pos[e]]
              /\ \A j \in 1 .. pos[e] : \/ life[loaded[downOf[e]][j]] = "off"
                                        \/ downAt[e] = "unload" /\ j = pos[e]
          BY <3>2, <3>4, Zenon DEF Behind
        <4>2. downOf[e] \in Loads /\ loaded[downOf[e]] \in Seq(Instances) /\ pos[e] \in Nat /\ size[e] \in Nat
          BY <3>1 DEF Places, PlugTypeOK
        <4>3. \A j \in 1 .. pos[e] : loaded[downOf[e]][j] \in Instances
          BY <4>1, <4>2
        <4>4. \A j \in 1 .. pos[e] : \/ life'[loaded[downOf[e]][j]] = "off"
                                     \/ downAt'[e] = "unload" /\ j = pos[e]
          <5>1. CASE e # d
            BY <1>1, <3>1, <4>1, <4>3, <5>1
          <5>2. CASE e = d
            <6>1. life'[unloading[d]] = "off"
              BY <1>0 DEF PlugTypeOK
            <6> QED  BY <1>0, <1>1, <4>1, <4>3, <5>2, <6>1
          <5> QED  BY <5>1, <5>2
        <4>5. downAt'[e] = "unload" => e # d
          BY <1>0 DEF PlugTypeOK
        <4> QED  BY <1>0, <3>1, <4>1, <4>4, <4>5 DEF Behind
      <3> QED  BY <3>3, <3>4
    <2>2. ASSUME NEW e \in Downs, downAt'[e] = "clear"
          PROVE  \A j \in DOMAIN loaded[downOf[e]] : life'[loaded[downOf[e]][j]] = "off"
      <3>1. downAt[e] = "clear" /\ downOf[e] \in Loads /\ loaded[downOf[e]] \in Seq(Instances)
        BY <1>0, <2>2 DEF Places, PlugTypeOK
      <3>2. \A j \in DOMAIN loaded[downOf[e]] : life[loaded[downOf[e]][j]] = "off" /\ loaded[downOf[e]][j] \in Instances
        BY <3>1 DEF CalmInv, Shutting
      <3> QED  BY <1>1, <3>2
    <2>3. \A e \in Downs : downAt'[e] = downAt[e] \/ (downAt[e] = "unload" /\ downAt'[e] = "next")
      BY <1>0 DEF PlugTypeOK
    <2>4. Shutting
      BY DEF CalmInv
    <2> HIDE DEF Behind
    <2> QED  BY <1>0, <1>1, <2>1, <2>2, <2>3, <2>4 DEF Shutting
  <1> QED  BY <1>3, <1>5, <1>6, <1>7, <1>8, <1>11, <1>12 DEF CalmInv

\* Clearing the dictionary, the two globals and the cache disturbs nothing: all
\* that was loaded is unloaded by then.
LEMMA ClearingKeeps ==
    ASSUME PlugTypeOK, Places, CalmInv, NEW d \in Downs, LoadsUnderWay = {},
           ClearLoaded(d) \/ ResetRegistry(d) \/ ResetManager(d) \/ ClearCache(d)
    PROVE  CalmInv'
  <1> USE PluginAssumption DEF globalVars, objectVars, loadVars, downVars
  <1>1. /\ UNCHANGED <<exposed, fills, life, loadVars, downOf, size, pos, unloading>>
        /\ \A e \in Downs \ {d} : downAt'[e] = downAt[e]
        /\ LoadsUnderWay' = {} /\ Nothing' = Nothing
        /\ NoneOn' = NoneOn
        /\ \A l \in Loads : loadAt[l] \notin Early \cup {"loading"}
    BY DEF ClearLoaded, ResetRegistry, ResetManager, ClearCache, Down, PlugTypeOK, LoadsUnderWay, NoneOn,
           On, Nothing, Early
  <1>2. NoneOn
    <2>1. CASE ClearLoaded(d)
      <3> SUFFICES ASSUME NEW l \in Loads, NEW p \in Plugins, On(l, p) PROVE FALSE
        BY DEF NoneOn
      <3>1. downAt[d] = "clear" /\ downOf[d] \in Loads
        BY <2>1 DEF ClearLoaded, Down, Places
      <3>2. manager = l /\ \E j \in DOMAIN loaded[l] : loaded[l][j] = <<l, p>>
        BY <1>1 DEF CalmInv, Held
      <3>3. downOf[d] = l
        BY <3>1, <3>2 DEF CalmInv, Shutting
      <3> QED  BY <3>1, <3>2, <3>3 DEF CalmInv, Shutting, On
    <2>2. CASE ResetRegistry(d) \/ ResetManager(d) \/ ClearCache(d)
      BY <2>2 DEF ResetRegistry, ResetManager, ClearCache, Down, CalmInv, Shutting
    <2> QED  BY <2>1, <2>2
  <1>3. Alone' /\ Held'
    BY <1>1, <1>2 DEF Alone, Early, Held, NoneOn
  <1>4. Own'
    <2>1. ClearLoaded(d) => \A l \in Loads : \A j \in DOMAIN loaded'[l] : j \in DOMAIN loaded[l] /\ loaded'[l][j] = loaded[l][j]
      BY DEF ClearLoaded, PlugTypeOK
    <2>2. ~ClearLoaded(d) => loaded' = loaded
      BY DEF ResetRegistry, ResetManager, ClearCache
    <2>3. downAt'[d] # "unload"
      BY DEF ClearLoaded, ResetRegistry, ResetManager, ClearCache, Down, PlugTypeOK
    <2> QED  BY <1>1, <2>1, <2>2, <2>3 DEF CalmInv, Own
  <1>5. CASE ClearLoaded(d)
    <2>1. /\ downAt'[d] = "registry" /\ downAt[d] = "clear" /\ UNCHANGED globalVars
          /\ \A l \in Loads : loaded'[l] = IF l = downOf[d] THEN <<>> ELSE loaded[l]
      BY <1>5 DEF ClearLoaded, Down, PlugTypeOK
    <2>2. Reset'
      BY <1>1, <1>2, <2>1 DEF CalmInv, Reset
    <2>3. Left' /\ \A r \in Loads : Doomed(r)'
      BY <2>1 DEF Left, Doomed
    <2>4. Filled'
      BY <1>1, <2>1, <2>3 DEF CalmInv, Filled
    <2>5. Shutting'
      <3>1. ASSUME NEW e \in Downs, downAt'[e] \in {"next", "unload"} PROVE Behind(e)'
        <4>1. downAt[e] = downAt'[e] /\ downOf[e] \in Loads /\ Behind(e)
          BY <1>1, <2>1, <3>1 DEF Places, CalmInv, Shutting
        <4> QED  BY <1>1, <2>1, <4>1 DEF Behind
      <3>2. ASSUME NEW e \in Downs, downAt'[e] = "clear"
            PROVE  \A j \in DOMAIN loaded'[downOf[e]] : life[loaded'[downOf[e]][j]] = "off"
        <4>1. downAt[e] = "clear" /\ downOf[e] \in Loads
          BY <1>1, <2>1, <3>2 DEF Places
        <4> QED  BY <2>1, <4>1 DEF CalmInv, Shutting
      <3>3. Shutting
        BY DEF CalmInv
      <3> HIDE DEF Behind
      <3> QED  BY <1>1, <1>2, <2>1, <3>1, <3>2, <3>3 DEF Shutting
    <2> QED  BY <1>3, <1>4, <2>2, <2>3, <2>4, <2>5 DEF CalmInv
  <1>6. CASE ResetRegistry(d) \/ ResetManager(d) \/ ClearCache(d)
    <2>1. /\ loaded' = loaded /\ registry' = NoLoad
          /\ downAt'[d] \in {"manager", "cache", "done"}
          /\ downAt'[d] = "cache" => manager' = NoLoad
          /\ downAt'[d] = "done" => manager' = NoLoad /\ cache' = Nothing
          /\ manager' \in {manager, NoLoad}
      BY <1>6 DEF ResetRegistry, ResetManager, ClearCache, Down, CalmInv, Shutting, PlugTypeOK
    <2>2. Reset'
      BY <1>1, <1>2, <2>1 DEF Reset
    <2>3. Left' /\ Filled'
      BY <1>1, <2>1 DEF Left, Filled, Places
    <2>4. Shutting'
      <3>1. ASSUME NEW e \in Downs, downAt'[e] \in {"next", "unload"} PROVE Behind(e)'
        BY <1>1, <2>1, <3>1 DEF CalmInv, Shutting, Behind
      <3>2. Shutting
        BY DEF CalmInv
      <3> HIDE DEF Behind
      <3> QED  BY <1>1, <1>2, <2>1, <3>1, <3>2 DEF Shutting
    <2> QED  BY <1>3, <1>4, <2>2, <2>3, <2>4 DEF CalmInv
  <1> QED  BY <1>5, <1>6

LEMMA PlugInvStep == PlugInv /\ [PlugNext]_plugVars => PlugInv'
  <1> SUFFICES ASSUME PlugInv, [PlugNext]_plugVars, calm' PROVE CalmInv'
    BY PlugTypeStep DEF PlugInv
  <1>1. ASSUME NEW l \in Loads, LoadStep(l) PROVE CalmInv'
    <2>1. calm
      BY <1>1 DEF LoadStep, FindRegistry, FindNone, MakeRegistry, MakeManager, PublishManager, StartLoading,
                  NoManager, LoadRaises, LoadEnds, ReturnRegistry
    <2> QED  BY <1>1, <2>1, LoadKeeps DEF PlugInv
  <1>2. ASSUME NEW l \in Loads, NEW p \in Plugins, PluginStep(l, p) PROVE CalmInv'
    <2>1. calm
      BY <1>2 DEF PluginStep, CacheHit, UseCached, CallOnLoad, Initialised, PluginFails, Expose, ExposeFails,
                  Store, Keep
    <2> QED  BY <1>2, <2>1, PluginKeeps DEF PlugInv
  <1>3. ASSUME NEW d \in Downs, DownStep(d) PROVE CalmInv'
    <2>1. calm
      BY <1>3 DEF DownStep, DownBegins, ReadManager, Iterate, DownRaises, CallOnUnload, Unloaded, DownEnds,
                  ClearLoaded, ResetRegistry, ResetManager, ClearCache
    <2>2. LoadsUnderWay = {}
      <3>1. CASE DownBegins(d)
        BY <3>1 DEF DownBegins
      <3>2. CASE ~DownBegins(d)
        <4>1. d \in DownsUnderWay
          BY <1>3, <3>2 DEF DownStep, ReadManager, Iterate, DownRaises, CallOnUnload, Unloaded, DownEnds,
                            ClearLoaded, ResetRegistry, ResetManager, ClearCache, Down, DownsUnderWay
        <4> QED  BY <2>1, <4>1 DEF PlugInv, CalmInv, Alone
      <3> QED  BY <3>1, <3>2
    <2>3. PlugTypeOK /\ Places /\ CalmInv
      BY <2>1 DEF PlugInv
    <2>4. CASE Unloaded(d)
      BY <2>2, <2>3, <2>4, UnloadedKeeps
    <2>5. CASE ClearLoaded(d) \/ ResetRegistry(d) \/ ResetManager(d) \/ ClearCache(d)
      BY <2>2, <2>3, <2>5, ClearingKeeps
    <2>6. CASE \/ DownBegins(d) \/ ReadManager(d) \/ Iterate(d) \/ DownRaises(d) \/ CallOnUnload(d)
               \/ DownEnds(d)
      <3>1. UNCHANGED <<globalVars, objectVars, loadVars>>
        BY <2>6 DEF DownBegins, ReadManager, Iterate, DownRaises, CallOnUnload, DownEnds
      <3> QED  BY <2>2, <2>3, <2>6, <3>1, LookingKeeps
    <2> QED  BY <1>3, <2>4, <2>5, <2>6 DEF DownStep
  <1>4. CASE UNCHANGED plugVars
    <2> USE DEF plugVars, globalVars, objectVars, loadVars, downVars
    <2>1. calm /\ CalmInv
      BY <1>4 DEF PlugInv
    <2>2. /\ LoadsUnderWay' = LoadsUnderWay /\ DownsUnderWay' = DownsUnderWay /\ Nothing' = Nothing
          /\ NoneOn' = NoneOn
      BY <1>4 DEF LoadsUnderWay, DownsUnderWay, Nothing, NoneOn, On
    <2>3. Alone' /\ Reset' /\ Own' /\ Left'
      BY <1>4, <2>1, <2>2 DEF CalmInv, Alone, Early, Reset, Own, Left
    <2>6. Held'
      BY <1>4, <2>1 DEF CalmInv, Held, On
    <2>4. Shutting'
      BY <1>4, <2>1, <2>2 DEF CalmInv, Shutting, Behind
    <2>5. Filled'
      BY <1>4, <2>1 DEF CalmInv, Filled, On, Doomed
    <2> QED  BY <2>3, <2>4, <2>5, <2>6 DEF CalmInv
  <1> QED  BY <1>1, <1>2, <1>3, <1>4 DEF PlugNext

\* PluginsAccounted: in a calm, no plugin that was initialised outlives its
\* registry without on_unload, and the registry of a finished load exposes
\* every plugin that did not fail, initialised and not yet unloaded.
THEOREM PluginsStayAccounted == PlugSpec => []PluginsAccounted
  <1>1. PlugInit => PlugInv
    BY PlugInitially, CalmInitially DEF PlugInv
  <1>2. PlugInv => PluginsAccounted
    <2> SUFFICES ASSUME PlugInv, calm PROVE PluginsAccounted
      BY DEF PluginsAccounted
    <2>1. ASSUME registry = NoLoad, LoadsUnderWay = {}, NEW i \in Instances PROVE life[i] # "on"
      <3>1. PICK l \in Loads, p \in Plugins : i = <<l, p>>
        BY DEF Instances
      <3> QED  BY <2>1, <3>1 DEF PlugInv, CalmInv, Reset, NoneOn, On
    <2>2. ASSUME NEW l \in Loads, registry = l, managerOf[l] = l, loadAt[l] = "got", DownsUnderWay = {},
                 NEW p \in Plugins, pluginAt[l][p] # "failed"
          PROVE  ~Unexposed(l, p)
      <3>1. ~Doomed(l)
        BY <2>2 DEF DownsUnderWay, Doomed
      <3>2. pluginAt[l][p] = "in"
        BY <2>2 DEF PlugInv, CalmInv, Filled
      <3> QED  BY <2>2, <3>1, <3>2 DEF PlugInv, CalmInv, Filled, Unexposed, On
    <2> QED  BY <2>1, <2>2 DEF PluginsAccounted
  <1> QED  BY <1>1, <1>2, PlugInvStep, PTL DEF PlugSpec
=============================================================================
