---------------------------- MODULE PluginStart ----------------------------
(***************************************************************************)
(* Lilu plugins from plugin_start.cpp: kern_start under Lilu's access      *)
(* lock, the one IOService of a plugin, kern_stop; and what plugins do     *)
(* with the inline code of Lilu's headers: they register callbacks or      *)
(* panic, keep an evector, and, when the kext they asked for is loaded,    *)
(* solve its symbols and route a virtual function.                         *)
(***************************************************************************)
EXTENDS Evector, SymbolSolver

CONSTANTS
  Plugins,        \* the plugins, each a kext with its own statics
  Incompatible,   \* those built for an API version Lilu does not accept
  Matched,        \* those IOKit finds a provider for
  Keepers,        \* those that keep elements in an evector of their own
  Elem,           \* the elements of such an evector
  MULs,           \* the growth factors they use
  Forced,         \* those that call solveMultiple with force
  NumRequests,    \* symbols in a plugin's array of requests
  Found,          \* the answers of the exported solveSymbol, 0 among them
  Images,         \* the places the kext is loaded at
  NoImage,        \* the kext is not loaded
  Nobody,         \* nobody holds the lock
  Original,       \* the function the kext put into its virtual table
  NoOrg,          \* in place of an original: the plugin passes no orgFunc
  Replacing       \* those that may route without orgFunc, to replace the function

ASSUME PluginAssumption ==
  /\ {Nobody, Original, NoOrg, Junk} \cap Plugins = {}
  /\ Nobody \notin {Original, NoOrg} /\ Original # NoOrg
  /\ Junk \notin Elem
  /\ Keepers \subseteq Plugins /\ Replacing \subseteq Plugins
  /\ MULs \subseteq Nat \ {0}
  /\ NumRequests \in Nat
  /\ Found \subseteq Address /\ 0 \in Found
  /\ Images \subseteq [start : Address, size : Address]
  /\ NoImage \notin Images

VARIABLES
  access,         \* holder of LiluAPI::access
  requestsOver,   \* LiluAPI::apiRequestsOver
  callbacks,      \* LiluAPI::kextLoadedCallbacks: an evector of plugins
  panic,          \* why the kernel panicked, or "none"
  pc,             \* where a plugin is between its load and its unload
  startSuccess,   \* the plugin's startSuccess
  self,           \* what its selfInstance points to
  service,        \* its IOService
  store,          \* its evector
  deleted,        \* the elements its deleter got
  image,          \* where the kext is
  next,           \* index of the next callback to tell of the loaded kext
  addr,           \* the addresses a plugin's requests stored
  solved,         \* solveMultiple returned true for the kext as it is loaded
  code,           \* KernelPatcher::code
  slot,           \* the routed entry of the kext's virtual table
  org             \* the original function a plugin keeps

apiVars == <<access, requestsOver, callbacks>>
pluginVars == <<pc, startSuccess>>
serviceVars == <<self, service>>
storeVars == <<store, deleted>>
kextVars == <<image, next, addr, solved, code, slot, org>>
vars == <<apiVars, panic, pluginVars, serviceVars, storeVars, kextVars>>

Requests == 1..NumRequests

Init ==
  /\ access = Nobody /\ requestsOver = FALSE /\ callbacks = EmptyVector
  /\ panic = "none"
  /\ pc = [p \in Plugins |-> "absent"]
  /\ startSuccess = [p \in Plugins |-> FALSE]
  /\ self = [p \in Plugins |-> "null"]
  /\ service = [p \in Plugins |-> "none"]
  /\ store = [p \in Plugins |-> EmptyVector]
  /\ deleted = [p \in Plugins |-> {}]
  /\ image = NoImage /\ next = 0
  /\ addr = [p \in Plugins |-> [r \in Requests |-> 0]]
  /\ solved = [p \in Plugins |-> FALSE]
  /\ code = "NoError"
  /\ slot = Original
  /\ \E R \in SUBSET Replacing : org = [p \in Plugins |-> IF p \in R THEN NoOrg ELSE Nobody]

-----------------------------------------------------------------------------
(* kern_start.  Its debug arguments only decide about logging.             *)

\* The kext is loaded and its kern_start called.
Load(p) ==
  /\ pc[p] = "absent"
  /\ pc' = [pc EXCEPT ![p] = "request"]
  /\ UNCHANGED <<apiVars, panic, startSuccess, serviceVars, storeVars, kextVars>>

\* requestAccess waits for the lock, unless it rejects the version first.
RequestAccess(p) ==
  /\ pc[p] = "request"
  /\ \/ /\ p \in Incompatible
        /\ pc' = [pc EXCEPT ![p] = "loaded"]
        /\ UNCHANGED access
     \/ /\ p \notin Incompatible /\ access = Nobody
        /\ access' = p
        /\ pc' = [pc EXCEPT ![p] = "decide"]
  /\ UNCHANGED <<requestsOver, callbacks, panic, startSuccess, serviceVars, storeVars, kextVars>>

\* Mutant: the lock is released before pluginStart runs.
ShouldLoadUnlocked(p) ==
  /\ pc[p] = "decide"
  /\ \/ /\ ~requestsOver
        /\ startSuccess' = [startSuccess EXCEPT ![p] = TRUE]
        /\ pc' = [pc EXCEPT ![p] = "start"]
        /\ access' = Nobody
     \/ /\ pc' = [pc EXCEPT ![p] = "release"]
        /\ UNCHANGED <<startSuccess, access>>
  /\ UNCHANGED <<requestsOver, callbacks, panic, serviceVars, storeVars, kextVars>>

\* shouldLoad refuses for reasons of its own, and always when it is too late.
ShouldLoad(p) ==
  /\ pc[p] = "decide"
  /\ \/ /\ ~requestsOver
        /\ startSuccess' = [startSuccess EXCEPT ![p] = TRUE]
        /\ pc' = [pc EXCEPT ![p] = "start"]
     \/ /\ pc' = [pc EXCEPT ![p] = "release"]
        /\ UNCHANGED startSuccess
  /\ UNCHANGED <<apiVars, panic, serviceVars, storeVars, kextVars>>

\* pluginStart calls onKextLoadForce, once.
Register(p) ==
  /\ pc[p] = "start"
  /\ \A i \in 1..callbacks.cnt : callbacks.mem[i] # p
  /\ \/ /\ requestsOver
        /\ panic' = "TooLate"
        /\ UNCHANGED callbacks
     \/ /\ ~requestsOver
        /\ \E ok \in BOOLEAN :
             /\ callbacks' = PushBack(callbacks, 1, p, ok)
             /\ panic' = IF Refuses(callbacks, ok) THEN "MemoryError" ELSE panic
  /\ UNCHANGED <<access, requestsOver, pluginVars, serviceVars, storeVars, kextVars>>

PluginStarted(p) ==
  /\ pc[p] = "start"
  /\ pc' = [pc EXCEPT ![p] = "release"]
  /\ UNCHANGED <<apiVars, panic, startSuccess, serviceVars, storeVars, kextVars>>

\* Mutant: a refused plugin keeps the lock.
ReleaseAccessRefused(p) ==
  /\ pc[p] = "release"
  /\ access' = IF startSuccess[p] THEN Nobody ELSE access
  /\ pc' = [pc EXCEPT ![p] = "loaded"]
  /\ UNCHANGED <<requestsOver, callbacks, panic, startSuccess, serviceVars, storeVars, kextVars>>

\* releaseAccess, and kern_start returns KERN_SUCCESS.
ReleaseAccess(p) ==
  /\ pc[p] = "release"
  /\ access' = Nobody
  /\ pc' = [pc EXCEPT ![p] = "loaded"]
  /\ UNCHANGED <<requestsOver, callbacks, panic, startSuccess, serviceVars, storeVars, kextVars>>

-----------------------------------------------------------------------------
(* A plugin and its evector, while pluginStart runs.                       *)

\* The caller keeps an element that push_back refuses.
Push(p) ==
  /\ pc[p] = "start" /\ p \in Keepers
  /\ \E e \in Elem, mul \in MULs, ok \in BOOLEAN :
       /\ e \notin deleted[p] /\ \A i \in 1..store[p].cnt : store[p].mem[i] # e
       /\ store' = [store EXCEPT ![p] = PushBack(store[p], mul, e, ok)]
  /\ UNCHANGED <<apiVars, panic, pluginVars, serviceVars, deleted, kextVars>>

EraseElement(p) ==
  /\ pc[p] = "start"
  /\ \E index \in 0..LastId(store[p]), free \in BOOLEAN :
       /\ deleted' = [deleted EXCEPT ![p] = deleted[p] \cup {Get(store[p], index)}]
       /\ store' = [store EXCEPT ![p] = Erase(store[p], index, free)]
  /\ UNCHANGED <<apiVars, panic, pluginVars, serviceVars, kextVars>>

DeinitStore(p) ==
  /\ pc[p] = "start" /\ p \in Keepers
  /\ deleted' = [deleted EXCEPT ![p] =
                   deleted[p] \cup {Get(store[p], i) : i \in 0..LastId(store[p])}]
  /\ store' = [store EXCEPT ![p] = Deinit(store[p])]
  /\ UNCHANGED <<apiVars, panic, pluginVars, serviceVars, kextVars>>

-----------------------------------------------------------------------------
(* The IOService.  IOKit makes one instance at a time and frees it when    *)
(* probe or start turns it down.                                           *)

Probe(p) ==
  /\ pc[p] = "loaded" /\ p \in Matched /\ service[p] = "none"
  /\ self' = [self EXCEPT ![p] = IF startSuccess[p] THEN "instance" ELSE "freed"]
  /\ service' = [service EXCEPT ![p] = IF startSuccess[p] THEN "probed" ELSE "none"]
  /\ UNCHANGED <<apiVars, panic, pluginVars, storeVars, kextVars>>

\* IOService::start may fail; then selfInstance stays as it is.
Start(p) ==
  /\ service[p] = "probed"
  /\ \E parent \in BOOLEAN :
       LET started == parent /\ startSuccess[p]
       IN  /\ self' = [self EXCEPT ![p] = IF started THEN "instance" ELSE "freed"]
           /\ service' = [service EXCEPT ![p] = IF started THEN "running" ELSE "none"]
  /\ UNCHANGED <<apiVars, panic, pluginVars, storeVars, kextVars>>

Stop(p) ==
  /\ service[p] = "running"
  /\ self' = [self EXCEPT ![p] = "null"]
  /\ service' = [service EXCEPT ![p] = "none"]
  /\ UNCHANGED <<apiVars, panic, pluginVars, storeVars, kextVars>>

\* Mutant: kern_stop always agrees.
MayStopAlways(p) == p \in Plugins

\* Mutant: kern_stop's two answers are swapped.
MayStopSwapped(p) == startSuccess[p]

\* What kern_stop returns.
MayStop(p) == ~startSuccess[p]

\* IOKit unloads a kext without instances, if its kern_stop agrees.
Unload(p) ==
  /\ pc[p] = "loaded" /\ service[p] = "none"
  /\ MayStop(p)
  /\ pc' = [pc EXCEPT ![p] = "gone"]
  /\ UNCHANGED <<apiVars, panic, startSuccess, serviceVars, storeVars, kextVars>>

-----------------------------------------------------------------------------
(* Lilu after the plugins registered, and the kext they wait for.          *)

\* finaliseRequests: no more plugins are taken.
FinaliseRequests ==
  /\ access = Nobody /\ ~requestsOver
  /\ requestsOver' = TRUE
  /\ UNCHANGED <<access, callbacks, panic, pluginVars, serviceVars, storeVars, kextVars>>

KextLoaded ==
  /\ requestsOver /\ image = NoImage
  /\ image' \in Images /\ next' = 0
  /\ UNCHANGED <<apiVars, panic, pluginVars, serviceVars, storeVars,
                 addr, solved, code, slot, org>>

\* The callback of a plugin solves its symbols in the kext it is told of.
KextCallback ==
  /\ image # NoImage /\ next < callbacks.cnt
  /\ next' = next + 1
  /\ \E found \in [Requests -> Found], crash \in BOOLEAN :
       LET p == Get(callbacks, next)
           force == p \in Forced
       IN  /\ addr' = [addr EXCEPT ![p] =
                         Stored(addr[p], found, image.start, image.size, force, crash)]
           /\ solved' = [solved EXCEPT ![p] =
                           Returned(found, image.start, image.size, force, crash)]
           /\ code' = CodeAfter(code, found, image.start, image.size, force, crash)
           /\ panic' = IF Crashes(found, image.start, image.size, force, crash)
                       THEN "InvalidSymbolFound" ELSE panic
  /\ UNCHANGED <<apiVars, pluginVars, serviceVars, storeVars, image, slot, org>>

Functions == Plugins \cup {Original, Nobody, NoOrg}

\* C has the table's entry and, with a plugin's function, the original it calls.
ClosedUnderCalls(C) == slot \in C /\ \A p \in C \cap Plugins : org[p] \in C

\* The functions a call through the virtual table passes.
Passed == {f \in Functions : \A C \in SUBSET Functions : ClosedUnderCalls(C) => f \in C}

\* if (orgFunc) *orgFunc = vt[off]; vt[off] = func;
Replace(p) ==
  /\ org' = IF org[p] = NoOrg THEN org ELSE [org EXCEPT ![p] = slot]
  /\ slot' = p

\* Mutant: the check for a second replacement is missing.
RouteVirtualAgain(p) ==
  /\ image # NoImage /\ solved[p]
  /\ Replace(p)
  /\ UNCHANGED <<apiVars, panic, pluginVars, serviceVars, storeVars,
                 image, next, addr, solved, code>>

\* routeVirtual, for an object of the kext's class.  It replaces nothing when the plugin's
\* own function is in the entry; another plugin's route over it goes unnoticed.
RouteVirtual(p) ==
  /\ image # NoImage /\ solved[p]
  /\ IF slot = p THEN UNCHANGED <<slot, org>> ELSE Replace(p)
  /\ UNCHANGED <<apiVars, panic, pluginVars, serviceVars, storeVars,
                 image, next, addr, solved, code>>

\* The kext is unloaded, to be loaded again somewhere else (KextInfo::Reloadable).  Its
\* virtual table goes with it, and nothing is solved any more; what the plugins stored stays.
KextUnloaded ==
  /\ image # NoImage /\ next = callbacks.cnt
  /\ image' = NoImage /\ next' = 0
  /\ slot' = Original
  /\ solved' = [p \in Plugins |-> FALSE]
  /\ UNCHANGED <<apiVars, panic, pluginVars, serviceVars, storeVars, addr, code, org>>

-----------------------------------------------------------------------------

\* A step of kern_start, which its thread takes sooner or later.
KernStart(p) ==
  RequestAccess(p) \/ ShouldLoad(p) \/ PluginStarted(p) \/ ReleaseAccess(p)

Plugin(p) ==
  \/ Load(p) \/ KernStart(p) \/ Register(p)
  \/ Push(p) \/ EraseElement(p) \/ DeinitStore(p)
  \/ Probe(p) \/ Start(p) \/ Stop(p) \/ Unload(p)
  \/ RouteVirtual(p)

Lilu == FinaliseRequests \/ KextLoaded \/ KextCallback \/ KextUnloaded

\* A panic stops the machine.
Next == panic = "none" /\ ((\E p \in Plugins : Plugin(p)) \/ Lilu)

Spec == Init /\ [][Next]_vars

\* Every thread in kern_start goes on, and IOKit unloads what does not want to stay.
Fairness ==
  \A p \in Plugins :
    /\ WF_vars(panic = "none" /\ KernStart(p))
    /\ WF_vars(panic = "none" /\ Unload(p))

FairSpec == Spec /\ Fairness

-----------------------------------------------------------------------------

TypeOK ==
  /\ access \in Plugins \cup {Nobody} /\ requestsOver \in BOOLEAN
  /\ callbacks \in Vectors(Plugins)
  /\ panic \in {"none", "TooLate", "MemoryError", "InvalidSymbolFound"}
  /\ pc \in [Plugins -> {"absent", "request", "decide", "start", "release", "loaded", "gone"}]
  /\ startSuccess \in [Plugins -> BOOLEAN]
  /\ self \in [Plugins -> {"null", "instance", "freed"}]
  /\ service \in [Plugins -> {"none", "probed", "running"}]
  /\ store \in [Plugins -> Vectors(Elem)] /\ deleted \in [Plugins -> SUBSET Elem]
  /\ image \in Images \cup {NoImage} /\ next \in Nat
  /\ addr \in [Plugins -> [Requests -> Address]] /\ solved \in [Plugins -> BOOLEAN]
  /\ code \in {"NoError", "InvalidSymbolFound"}
  /\ slot \in Plugins \cup {Original} /\ org \in [Plugins -> Functions]

\* A callback Lilu will call belongs to a plugin that is loaded and will stay: kern_stop
\* refuses to stop whoever got as far as registering (plugin_start.cpp:96).
CallbacksLive ==
  \A i \in 1..callbacks.cnt :
    LET p == callbacks.mem[i]
    IN  p \in Plugins /\ startSuccess[p] /\ pc[p] \in {"start", "release", "loaded"}

\* A plugin that Lilu let start never panics because it is too late to register: the lock
\* is held from shouldLoad to the end of pluginStart, and finaliseRequests needs it too.
NeverTooLate == panic # "TooLate"

\* No evector writes or reads past its block, whatever allocation failed, and a plugin
\* that is unloaded leaves none behind that deinit had to free.
StorageSound ==
  /\ WithinBlock(callbacks)
  /\ \A p \in Plugins :
       WithinBlock(store[p]) /\ (pc[p] = "gone" => store[p] = EmptyVector)

InImage(a) == image # NoImage /\ image.start <= a /\ a < image.start + image.size

\* After a solveMultiple that returned true without force, every address of the plugin is
\* in the kext as it is loaded now, and none is left from an earlier load.
SolvedUnlessForced ==
  \A p \in Plugins \ Forced : solved[p] => \A r \in Requests : InImage(addr[p][r])

\* solveMultiple leaves no error code behind, forced or not, unless it panicked.
ErrorsCleared == code # "NoError" => panic = "InvalidSymbolFound"

\* "orgFunc: pointer to store the original function", and "Do not try to replace twice!"
\* (kern_patcher.hpp:426 and 443): a call through the routed entry ends, in the kext's own
\* function or in a plugin that replaces it; no plugins keep only each other as originals.
RoutesReachOriginal == ~ \E C \in SUBSET (Plugins \cup {Nobody}) : ClosedUnderCalls(C)

\* p routes again, while a call reaches its function by way of another plugin's.
ReplacesTwice(p) == p \in Passed /\ slot # p /\ slot' = p

\* Plugins that route in any order, also over each other's routes and in load after load,
\* lose the way to the original only by the one sequence that line 444 does not see.
RoutesBreakOnlyTwice ==
  [][RoutesReachOriginal /\ ~RoutesReachOriginal' => \E p \in Plugins : ReplacesTwice(p)]_<<slot, org>>

\* An address variable is written only with an address in the kext that is loaded.
StoresOnlyImageAddresses ==
  [][\A p \in Plugins, r \in Requests :
       addr'[p][r] # addr[p][r] => InImage(addr'[p][r])]_vars

\* The plugin that keeps an evector.
Keeper == CHOOSE p \in Keepers : TRUE

\* Its evector as the sequence it stands for.
Abstract == INSTANCE HeldSequence WITH items <- Items(store[Keeper]), deleted <- deleted[Keeper]

\* Whatever is pushed, erased, freed or refused for want of memory: the elements are the
\* ones pushed and not yet deleted, in order, and none is deleted twice (kern_util.hpp:868-938).
ImplementsHeldSequence == Abstract!Spec

\* kern_start of every plugin returns: the access lock is always released.
LoadReturns ==
  \A p \in Plugins : pc[p] = "request" ~> (pc[p] \in {"loaded", "gone"} \/ panic # "none")

\* A plugin that reported success but does not start is unloaded (plugin_start.cpp:88-89).
RefusedUnloaded ==
  \A p \in Plugins :
    (pc[p] = "loaded" /\ ~startSuccess[p]) ~> (pc[p] = "gone" \/ panic # "none")
=============================================================================
