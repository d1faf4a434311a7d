---------------------------- MODULE PluginLifecycle -------------------------
(***************************************************************************)
(* plugin/global_registry.py, lifecycle.py and cache.py: agents are built  *)
(* in threads of their own and share one plugin registry, which the first  *)
(* of them fills; shutdown_plugins takes it down again.                    *)
(*                                                                         *)
(* Each call runs in a thread with a loop of its own, and nothing here     *)
(* takes a lock: a step is one access to a variable that other threads     *)
(* share.  The plugins of one call are tasks of one loop and take turns at *)
(* awaits.  A registry and its manager are named after the load_plugins    *)
(* call that made them, an instance after that call and its plugin.        *)
(***************************************************************************)
EXTENDS Naturals, Sequences, FiniteSets

CONSTANTS Loads,     \* calls of load_plugins
          Downs,     \* calls of shutdown_plugins
          Plugins,   \* what discovery finds
          Guessed,   \* those whose name the cache lookup guesses from the path
          NoLoad, NoInstance

ASSUME PluginAssumption ==
    /\ Guessed \subseteq Plugins
    /\ NoLoad \notin Loads
    /\ NoInstance \notin Loads \X Plugins

VARIABLES
    registry,   \* _global_registry
    manager,    \* _global_lifecycle_manager
    cache,      \* _plugin_cache
    exposed,    \* the instance whose tools a registry exposes, of each plugin
    loaded,     \* loaded_plugins of each manager, in the order of the dictionary
    fills,      \* the registry that each manager was made for
    loadAt,     \* where each load_plugins call stands
    managerOf,  \* the manager whose load_all it runs
    pluginAt,   \* where its plugins stand
    found,      \* what they have found in the cache
    life,       \* of each instance
    downAt,     \* where each shutdown_plugins call stands
    downOf,     \* the manager it shuts down
    size,       \* the size of the dictionary when its iteration began
    pos,        \* how far the iteration has come
    unloading,  \* the instance whose on_unload it awaits
    calm        \* history: nothing was loaded beside a load or a shutdown

globalVars == <<registry, manager, cache>>
objectVars == <<exposed, loaded, fills, life>>
loadVars == <<loadAt, managerOf, pluginAt, found>>
downVars == <<downAt, downOf, size, pos, unloading>>
plugVars == <<globalVars, objectVars, loadVars, downVars, calm>>

Instances == Loads \X Plugins
LoadsUnderWay == {l \in Loads : loadAt[l] \in {"make", "manage", "publish", "start", "loading"}}
DownsUnderWay == {d \in Downs : downAt[d] \notin {"new", "done", "raised"}}

PlugTypeOK ==
    /\ registry \in Loads \cup {NoLoad} /\ manager \in Loads \cup {NoLoad}
    /\ cache \in [Plugins -> Instances \cup {NoInstance}]
    /\ exposed \in [Loads -> [Plugins -> Instances \cup {NoInstance}]]
    /\ loaded \in [Loads -> Seq(Instances)]
    /\ fills \in [Loads -> Loads \cup {NoLoad}]
    /\ loadAt \in [Loads -> {"new", "make", "manage", "publish", "start", "loading",
                             "return", "got", "raised"}]
    /\ managerOf \in [Loads -> Loads \cup {NoLoad}]
    /\ pluginAt \in [Loads -> [Plugins -> {"none", "queued", "found", "hook", "entry", "store", "keep",
                                           "in", "hit", "failed"}]]
    /\ found \in [Loads -> [Plugins -> Instances \cup {NoInstance}]]
    /\ life \in [Instances -> {"none", "on", "off", "orphan"}]
    /\ downAt \in [Downs -> {"new", "read", "items", "next", "unload", "clear", "registry", "manager",
                             "cache", "done", "raised"}]
    /\ downOf \in [Downs -> Loads \cup {NoLoad}]
    /\ size \in [Downs -> Nat] /\ pos \in [Downs -> Nat]
    /\ unloading \in [Downs -> Instances \cup {NoInstance}]
    /\ calm \in BOOLEAN

Nothing == [p \in Plugins |-> NoInstance]

PlugInit ==
    /\ registry = NoLoad /\ manager = NoLoad
    /\ cache = Nothing
    /\ exposed = [l \in Loads |-> Nothing]
    /\ loaded = [l \in Loads |-> <<>>]
    /\ fills = [l \in Loads |-> NoLoad]
    /\ loadAt = [l \in Loads |-> "new"]
    /\ managerOf = [l \in Loads |-> NoLoad]
    /\ pluginAt = [l \in Loads |-> [p \in Plugins |-> "none"]]
    /\ found = [l \in Loads |-> Nothing]
    /\ life = [i \in Instances |-> "none"]
    /\ downAt = [d \in Downs |-> "new"]
    /\ downOf = [d \in Downs |-> NoLoad]
    /\ size = [d \in Downs |-> 0] /\ pos = [d \in Downs |-> 0]
    /\ unloading = [d \in Downs |-> NoInstance]
    /\ calm = TRUE
-----------------------------------------------------------------------------
(* load_plugins                                                            *)

Load(l, from, to) == loadAt[l] = from /\ loadAt' = [loadAt EXCEPT ![l] = to]

\* A registry is found and will be returned, however little is in it.
FindRegistry(l) ==
    /\ registry # NoLoad
    /\ Load(l, "new", "return")
    /\ UNCHANGED <<globalVars, objectVars, managerOf, pluginAt, found, downVars, calm>>

FindNone(l) ==
    /\ registry = NoLoad
    /\ Load(l, "new", "make")
    /\ calm' = (calm /\ LoadsUnderWay = {} /\ DownsUnderWay = {})
    /\ UNCHANGED <<globalVars, objectVars, managerOf, pluginAt, found, downVars>>

\* The registry is everybody's before anything has been loaded into it.
MakeRegistry(l) ==
    /\ Load(l, "make", "manage")
    /\ registry' = l
    /\ UNCHANGED <<manager, cache, objectVars, managerOf, pluginAt, found, downVars, calm>>

\* The manager is made for whichever registry is the global one by now.
MakeManager(l) ==
    /\ Load(l, "manage", "publish")
    /\ fills' = [fills EXCEPT ![l] = registry]
    /\ UNCHANGED <<globalVars, exposed, loaded, life, managerOf, pluginAt, found, downVars, calm>>

PublishManager(l) ==
    /\ Load(l, "publish", "start")
    /\ manager' = l
    /\ UNCHANGED <<registry, cache, objectVars, managerOf, pluginAt, found, downVars, calm>>

\* load_all of the global manager, if there still is one.
StartLoading(l) ==
    /\ manager # NoLoad
    /\ Load(l, "start", "loading")
    /\ managerOf' = [managerOf EXCEPT ![l] = manager]
    /\ pluginAt' = [pluginAt EXCEPT ![l] = [p \in Plugins |-> "queued"]]
    /\ UNCHANGED <<globalVars, objectVars, found, downVars, calm>>

NoManager(l) ==
    /\ manager = NoLoad
    /\ Load(l, "start", "raised")
    /\ UNCHANGED <<globalVars, objectVars, managerOf, pluginAt, found, downVars, calm>>

\* A task of the call is between two awaits.
Busy(l) == \E p \in Plugins : pluginAt[l][p] \in {"found", "entry", "store", "keep"}

Plugin(l, p, from, to) ==
    /\ loadAt[l] = "loading"
    /\ pluginAt[l][p] = from
    /\ pluginAt' = [pluginAt EXCEPT ![l][p] = to]
    /\ UNCHANGED <<loadAt, managerOf>>

\* The cache is asked under the guessed name.
CacheHit(l, p) ==
    /\ ~Busy(l) /\ p \in Guessed /\ cache[p] # NoInstance
    /\ Plugin(l, p, "queued", "found")
    /\ found' = [found EXCEPT ![l][p] = cache[p]]
    /\ UNCHANGED <<globalVars, objectVars, downVars, calm>>

CacheMiss(p) == p \notin Guessed \/ cache[p] = NoInstance

\* loaded_plugins[name] = instance: a new name goes to the end.
Stored(s, p, i) ==
    IF \E k \in DOMAIN s : s[k][2] = p THEN [k \in DOMAIN s |-> IF s[k][2] = p THEN i ELSE s[k]]
                                       ELSE Append(s, i)

\* An instance from the cache, of this registry or of an earlier one, is
\* neither initialised nor registered.
UseCached(l, p) ==
    /\ Plugin(l, p, "found", "hit")
    /\ loaded' = [loaded EXCEPT ![managerOf[l]] = Stored(@, p, found[l][p])]
    /\ found' = [found EXCEPT ![l][p] = NoInstance]
    /\ UNCHANGED <<globalVars, exposed, fills, life, downVars, calm>>

\* It is loaded, and on_load awaited (a plugin without the hook goes on at once).
CallOnLoad(l, p) ==
    /\ ~Busy(l) /\ CacheMiss(p)
    /\ Plugin(l, p, "queued", "hook")
    /\ UNCHANGED <<globalVars, objectVars, found, downVars, calm>>

\* on_load has returned.
Initialised(l, p) ==
    /\ ~Busy(l)
    /\ Plugin(l, p, "hook", "entry")
    /\ life' = [life EXCEPT ![<<l, p>>] = "on"]
    /\ UNCHANGED <<globalVars, exposed, loaded, fills, found, downVars, calm>>

\* The module does not load or on_load raises.
PluginFails(l, p) ==
    /\ ~Busy(l)
    /\ Plugin(l, p, "hook", "failed") \/ (CacheMiss(p) /\ Plugin(l, p, "queued", "failed"))
    /\ UNCHANGED <<globalVars, objectVars, found, downVars, calm>>

\* Its tools and subagents are entered in the registry of the manager.
Expose(l, p) ==
    /\ Plugin(l, p, "entry", "store")
    /\ fills[managerOf[l]] # NoLoad
    /\ exposed' = [exposed EXCEPT ![fills[managerOf[l]]][p] = <<l, p>>]
    /\ UNCHANGED <<globalVars, loaded, fills, life, found, downVars, calm>>

\* get_tools or get_subagents raises, or the manager was made for no registry:
\* the plugin is initialised and nobody knows of it.
ExposeFails(l, p) ==
    /\ Plugin(l, p, "entry", "failed")
    /\ life' = [life EXCEPT ![<<l, p>>] = "orphan"]
    /\ UNCHANGED <<globalVars, exposed, loaded, fills, found, downVars, calm>>

Store(l, p) ==
    /\ Plugin(l, p, "store", "keep")
    /\ loaded' = [loaded EXCEPT ![managerOf[l]] = Stored(@, p, <<l, p>>)]
    /\ UNCHANGED <<globalVars, exposed, fills, life, found, downVars, calm>>

Keep(l, p) ==
    /\ Plugin(l, p, "keep", "in")
    /\ cache' = [cache EXCEPT ![p] = <<l, p>>]
    /\ UNCHANGED <<registry, manager, objectVars, found, downVars, calm>>

\* Discovery raises or the call is cancelled; the registry stays published.
LoadRaises(l) ==
    /\ ~Busy(l)
    /\ Load(l, "loading", "raised")
    /\ pluginAt' = [pluginAt EXCEPT ![l] = [p \in Plugins |->
                       IF @[p] \in {"in", "hit"} THEN @[p] ELSE "failed"]]
    /\ UNCHANGED <<globalVars, objectVars, managerOf, found, downVars, calm>>

\* Every plugin is settled.  The log line asks the global registry, which may
\* be gone.
LoadEnds(l) ==
    /\ \A p \in Plugins : pluginAt[l][p] \in {"in", "hit", "failed"}
    /\ \/ registry # NoLoad /\ Load(l, "loading", "return")
       \/ registry = NoLoad /\ Load(l, "loading", "raised")
    /\ UNCHANGED <<globalVars, objectVars, managerOf, pluginAt, found, downVars, calm>>

\* What is returned is what the global variable is by now.
ReturnRegistry(l) ==
    /\ Load(l, "return", "got")
    /\ UNCHANGED <<globalVars, objectVars, managerOf, pluginAt, found, downVars, calm>>
-----------------------------------------------------------------------------
(* shutdown_plugins                                                        *)

Down(d, from, to) == downAt[d] = from /\ downAt' = [downAt EXCEPT ![d] = to]

DownBegins(d) ==
    /\ \/ manager # NoLoad /\ Down(d, "new", "read")
       \/ manager = NoLoad /\ Down(d, "new", "registry")
    /\ calm' = (calm /\ LoadsUnderWay = {})
    /\ UNCHANGED <<globalVars, objectVars, loadVars, downOf, size, pos, unloading>>

\* The global variable is read a second time.
ReadManager(d) ==
    /\ \/ manager # NoLoad /\ Down(d, "read", "items")
       \/ manager = NoLoad /\ Down(d, "read", "raised")
    /\ downOf' = [downOf EXCEPT ![d] = manager]
    /\ UNCHANGED <<globalVars, objectVars, loadVars, size, pos, unloading, calm>>

\* The dictionary itself is iterated over, by position.
Iterate(d) ==
    /\ Down(d, "items", "next")
    /\ size' = [size EXCEPT ![d] = Len(loaded[downOf[d]])]
    /\ UNCHANGED <<globalVars, objectVars, loadVars, downOf, pos, unloading, calm>>

Changed(d) == Len(loaded[downOf[d]]) # size[d]

\* The iterator is gone.
Iterated(d) == size' = [size EXCEPT ![d] = 0] /\ pos' = [pos EXCEPT ![d] = 0]

\* It has grown or shrunk: the iteration raises and so does shutdown_plugins.
DownRaises(d) ==
    /\ Down(d, "next", "raised")
    /\ Changed(d)
    /\ Iterated(d)
    /\ UNCHANGED <<globalVars, objectVars, loadVars, downOf, unloading, calm>>

CallOnUnload(d) ==
    /\ Down(d, "next", "unload")
    /\ ~Changed(d) /\ pos[d] < size[d]
    /\ pos' = [pos EXCEPT ![d] = @ + 1]
    /\ unloading' = [unloading EXCEPT ![d] = loaded[downOf[d]][pos[d] + 1]]
    /\ UNCHANGED <<globalVars, objectVars, loadVars, downOf, size, calm>>

\* on_unload returns, raises or is cancelled: the iteration goes on.
Unloaded(d) ==
    /\ Down(d, "unload", "next")
    /\ life' = [life EXCEPT ![unloading[d]] = "off"]
    /\ unloading' = [unloading EXCEPT ![d] = NoInstance]
    /\ UNCHANGED <<globalVars, exposed, loaded, fills, loadVars, downOf, size, pos, calm>>

DownEnds(d) ==
    /\ Down(d, "next", "clear")
    /\ ~Changed(d) /\ pos[d] = size[d]
    /\ Iterated(d)
    /\ UNCHANGED <<globalVars, objectVars, loadVars, downOf, unloading, calm>>

ClearLoaded(d) ==
    /\ Down(d, "clear", "registry")
    /\ loaded' = [loaded EXCEPT ![downOf[d]] = <<>>]
    /\ UNCHANGED <<globalVars, exposed, fills, life, loadVars, downOf, size, pos, unloading, calm>>

ResetRegistry(d) ==
    /\ Down(d, "registry", "manager")
    /\ registry' = NoLoad
    /\ UNCHANGED <<manager, cache, objectVars, loadVars, downOf, size, pos, unloading, calm>>

ResetManager(d) ==
    /\ Down(d, "manager", "cache")
    /\ manager' = NoLoad
    /\ UNCHANGED <<registry, cache, objectVars, loadVars, downOf, size, pos, unloading, calm>>

\* Mutant of ClearCache: the instances of the registry stay in the cache.
ClearCacheNot(d) ==
    /\ Down(d, "cache", "done")
    /\ UNCHANGED <<globalVars, objectVars, loadVars, downOf, size, pos, unloading, calm>>

ClearCache(d) ==
    /\ Down(d, "cache", "done")
    /\ cache' = Nothing
    /\ UNCHANGED <<registry, manager, objectVars, loadVars, downOf, size, pos, unloading, calm>>

LoadStep(l) ==
    \/ FindRegistry(l) \/ FindNone(l) \/ MakeRegistry(l) \/ MakeManager(l) \/ PublishManager(l)
    \/ StartLoading(l) \/ NoManager(l) \/ LoadRaises(l) \/ LoadEnds(l)
    \/ ReturnRegistry(l)

PluginStep(l, p) ==
    \/ CacheHit(l, p) \/ UseCached(l, p) \/ CallOnLoad(l, p) \/ Initialised(l, p) \/ PluginFails(l, p)
    \/ Expose(l, p) \/ ExposeFails(l, p) \/ Store(l, p) \/ Keep(l, p)

DownStep(d) ==
    \/ DownBegins(d) \/ ReadManager(d) \/ Iterate(d) \/ DownRaises(d) \/ CallOnUnload(d) \/ Unloaded(d)
    \/ DownEnds(d) \/ ClearLoaded(d) \/ ResetRegistry(d) \/ ResetManager(d) \/ ClearCache(d)

PlugNext == \/ \E l \in Loads : LoadStep(l) \/ \E p \in Plugins : PluginStep(l, p)
            \/ \E d \in Downs : DownStep(d)

PlugSpec == PlugInit /\ [][PlugNext]_plugVars
-----------------------------------------------------------------------------
(* Properties *)

\* PluginsAccounted: as long as no call begins to load beside another one or
\* beside a shutdown (calls that only find a registry, and shutdowns that
\* overlap, may come at any time), no plugin that on_load has initialised
\* outlives its registry without on_unload, and the registry of a finished
\* load, also of one after a shutdown, exposes every plugin that did not fail,
\* initialised by this load and not yet unloaded.
Unexposed(l, p) == \/ exposed[l][p] # <<l, p>>
                   \/ life[<<l, p>>] # "on"

PluginsAccounted ==
    calm =>
        /\ (registry = NoLoad /\ LoadsUnderWay = {}) => \A i \in Instances : life[i] # "on"
        /\ \A l \in Loads :
              (registry = l /\ managerOf[l] = l /\ loadAt[l] = "got" /\ DownsUnderWay = {}) =>
                  \A p \in Plugins : pluginAt[l][p] # "failed" => ~Unexposed(l, p)

\* ReturnsLoaded: what load_plugins returns is an "Initialized PluginRegistry
\* with all loaded plugins", not one that is still being filled.
ReturnsLoaded == \A l \in Loads : loadAt[l] = "return" => registry \notin LoadsUnderWay
=============================================================================
