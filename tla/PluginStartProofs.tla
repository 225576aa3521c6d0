------------------------- MODULE PluginStartProofs -------------------------
(***************************************************************************)
(* The safety properties of PluginStart, for every set of plugins and      *)
(* elements, every image and every answer of the symbol lookup.            *)
(***************************************************************************)
EXTENDS PluginStart, EvectorProofs, WellFoundedInduction

Labels == {"absent", "request", "decide", "start", "release", "loaded", "gone"}

-----------------------------------------------------------------------------
(* kern_start and the access lock.                                         *)

\* The lock is held by the plugin whose kern_start is past requestAccess, and nobody else.
AccessHeld == \A p \in Plugins : pc[p] \in {"decide", "start", "release"} <=> access = p

\* What the place in kern_start says of startSuccess and of Lilu.
StartKnown ==
  \A p \in Plugins :
    /\ pc[p] = "start" => startSuccess[p] /\ ~requestsOver
    /\ pc[p] \in {"absent", "request", "decide", "gone"} => ~startSuccess[p]

ApiInv ==
  /\ access \in Plugins \cup {Nobody} /\ requestsOver \in BOOLEAN
  /\ pc \in [Plugins -> Labels] /\ startSuccess \in [Plugins -> BOOLEAN]
  /\ AccessHeld /\ StartKnown

\* kern_start, kern_stop and finaliseRequests keep the lock with its holder.
LEMMA ApiInvStep == ApiInv /\ [Next]_vars => ApiInv'
<1> SUFFICES ASSUME ApiInv, [Next]_vars
             PROVE  ApiInv'
  OBVIOUS
<1> USE PluginAssumption DEF ApiInv, AccessHeld, StartKnown, Labels
<1>1. ASSUME NEW p \in Plugins, Load(p)
      PROVE  ApiInv'
  BY <1>1 DEF Load, apiVars
<1>2. ASSUME NEW p \in Plugins, RequestAccess(p)
      PROVE  ApiInv'
  BY <1>2 DEF RequestAccess
<1>3. ASSUME NEW p \in Plugins, ShouldLoad(p)
      PROVE  ApiInv'
  BY <1>3 DEF ShouldLoad, apiVars
<1>4. ASSUME NEW p \in Plugins, PluginStarted(p)
      PROVE  ApiInv'
  BY <1>4 DEF PluginStarted, apiVars
<1>5. ASSUME NEW p \in Plugins, ReleaseAccess(p)
      PROVE  ApiInv'
  BY <1>5 DEF ReleaseAccess
<1>6. ASSUME NEW p \in Plugins, Unload(p)
      PROVE  ApiInv'
  BY <1>6 DEF Unload, MayStop, apiVars
<1>7. CASE FinaliseRequests
  BY <1>7 DEF FinaliseRequests, pluginVars
<1>8. ASSUME UNCHANGED <<access, requestsOver, pluginVars>>
      PROVE  ApiInv'
  BY <1>8 DEF pluginVars
<1>9. ASSUME NEW p \in Plugins,
             Register(p) \/ Push(p) \/ EraseElement(p) \/ DeinitStore(p)
               \/ Probe(p) \/ Start(p) \/ Stop(p) \/ RouteVirtual(p)
      PROVE  UNCHANGED <<access, requestsOver, pluginVars>>
  BY <1>9 DEF Register, Push, EraseElement, DeinitStore, Probe, Start, Stop, RouteVirtual, apiVars
<1>10. ASSUME KextLoaded \/ KextCallback \/ KextUnloaded
       PROVE  UNCHANGED <<access, requestsOver, pluginVars>>
  BY <1>10 DEF KextLoaded, KextCallback, KextUnloaded, apiVars
<1>11. CASE UNCHANGED vars
  BY <1>8, <1>11 DEF vars, apiVars
<1>12. QED
  BY <1>1, <1>2, <1>3, <1>4, <1>5, <1>6, <1>7, <1>8, <1>9, <1>10, <1>11
     DEF Next, Plugin, KernStart, Lilu

-----------------------------------------------------------------------------
(* The callbacks, and the panics of registering one.                       *)

RegisteredInv ==
  /\ Sound(callbacks, Plugins) /\ CallbacksLive
  /\ panic \in {"none", "MemoryError", "InvalidSymbolFound"}

\* Which callbacks there are changes in Register only, and a plugin that registered has
\* nowhere to go but to the end of its kern_start.
LEMMA RegisteredInvStep == ApiInv /\ RegisteredInv /\ [Next]_vars => RegisteredInv'
<1> SUFFICES ASSUME ApiInv, RegisteredInv, [Next]_vars
             PROVE  RegisteredInv'
  OBVIOUS
<1>1. ASSUME NEW p \in Plugins, Register(p)
      PROVE  RegisteredInv'
  <2>1. pc[p] = "start" /\ startSuccess[p] /\ ~requestsOver
    BY <1>1 DEF Register, ApiInv, StartKnown
  <2>2. PICK ok \in BOOLEAN :
          /\ callbacks' = PushBack(callbacks, 1, p, ok)
          /\ panic' = IF Refuses(callbacks, ok) THEN "MemoryError" ELSE panic
    BY <1>1, <2>1 DEF Register
  <2>3. pc' = pc /\ startSuccess' = startSuccess
    BY <1>1 DEF Register, pluginVars
  <2>4. /\ Sound(callbacks, Plugins)
        /\ panic' \in {"none", "MemoryError", "InvalidSymbolFound"}
    BY <2>2 DEF RegisteredInv
  <2>5. /\ Sound(callbacks', Plugins)
        /\ Items(callbacks') = IF Refuses(callbacks, ok) THEN Items(callbacks)
                               ELSE Append(Items(callbacks), p)
    <3>1. 1 \in Nat \ {0}
      OBVIOUS
    <3>2. QED
      BY <2>2, <2>4, <3>1, PushBackAppends
  <2>6. \A i \in 1..callbacks'.cnt :
          callbacks'.mem[i] = p \/ \E j \in 1..callbacks.cnt : callbacks'.mem[i] = callbacks.mem[j]
    <3>1. /\ Items(callbacks) \in Seq(Plugins) /\ Len(Items(callbacks)) = callbacks.cnt
          /\ \A i \in 1..callbacks.cnt : Items(callbacks)[i] = callbacks.mem[i]
      BY <2>4, ItemsOfSound
    <3>2. /\ Items(callbacks') \in Seq(Plugins) /\ Len(Items(callbacks')) = callbacks'.cnt
          /\ \A i \in 1..callbacks'.cnt : Items(callbacks')[i] = callbacks'.mem[i]
      BY <2>5, ItemsOfSound
    <3>3. CASE Refuses(callbacks, ok)
      BY <2>5, <3>1, <3>2, <3>3
    <3>4. CASE ~Refuses(callbacks, ok)
      <4>1. Items(callbacks') = Append(Items(callbacks), p)
        BY <2>5, <3>4
      <4>2. /\ Len(Append(Items(callbacks), p)) = Len(Items(callbacks)) + 1
            /\ \A i \in 1..Len(Items(callbacks)) :
                 Append(Items(callbacks), p)[i] = Items(callbacks)[i]
            /\ Append(Items(callbacks), p)[Len(Items(callbacks)) + 1] = p
        BY <3>1, AppendProperties
      <4>3. callbacks'.cnt = callbacks.cnt + 1 /\ callbacks.cnt \in Nat
        BY <3>1, <3>2, <4>1, <4>2, LenProperties
      <4>4. QED
        BY <3>1, <3>2, <4>1, <4>2, <4>3
    <3>5. QED
      BY <3>3, <3>4
  <2>7. CallbacksLive'
    BY <2>1, <2>3, <2>6 DEF RegisteredInv, CallbacksLive
  <2>8. QED
    BY <2>4, <2>5, <2>7 DEF RegisteredInv
<1>2. ASSUME callbacks' = callbacks,
             \A p \in Plugins :
               startSuccess[p] /\ pc[p] \in {"start", "release", "loaded"} =>
                 startSuccess'[p] /\ pc'[p] \in {"start", "release", "loaded"}
      PROVE  Sound(callbacks', Plugins) /\ CallbacksLive'
  BY <1>2 DEF RegisteredInv, CallbacksLive
<1>3. ASSUME NEW p \in Plugins, Load(p) \/ KernStart(p) \/ Unload(p)
      PROVE  RegisteredInv'
  <2>1. callbacks' = callbacks /\ panic' = panic
    BY <1>3 DEF Load, KernStart, RequestAccess, ShouldLoad, PluginStarted, ReleaseAccess,
                Unload, apiVars
  <2>2. \A q \in Plugins :
          startSuccess[q] /\ pc[q] \in {"start", "release", "loaded"} =>
            startSuccess'[q] /\ pc'[q] \in {"start", "release", "loaded"}
    BY <1>3 DEF ApiInv, Load, KernStart, RequestAccess, ShouldLoad, PluginStarted,
                ReleaseAccess, Unload, MayStop
  <2>3. QED
    BY <1>2, <2>1, <2>2 DEF RegisteredInv
<1>4. ASSUME NEW p \in Plugins,
             Push(p) \/ EraseElement(p) \/ DeinitStore(p)
               \/ Probe(p) \/ Start(p) \/ Stop(p) \/ RouteVirtual(p)
      PROVE  RegisteredInv'
  <2>1. callbacks' = callbacks /\ panic' = panic /\ pc' = pc /\ startSuccess' = startSuccess
    BY <1>4 DEF Push, EraseElement, DeinitStore, Probe, Start, Stop, RouteVirtual,
                apiVars, pluginVars
  <2>2. QED
    BY <1>2, <2>1 DEF RegisteredInv
<1>5. ASSUME Lilu \/ UNCHANGED vars
      PROVE  RegisteredInv'
  <2>1. callbacks' = callbacks /\ pc' = pc /\ startSuccess' = startSuccess
    BY <1>5 DEF Lilu, FinaliseRequests, KextLoaded, KextCallback, KextUnloaded,
                vars, apiVars, pluginVars
  <2>2. panic' \in {panic, "InvalidSymbolFound"}
    BY <1>5 DEF Lilu, FinaliseRequests, KextLoaded, KextCallback, KextUnloaded, vars
  <2>3. QED
    BY <1>2, <2>1, <2>2 DEF RegisteredInv
<1>6. QED
  BY <1>1, <1>3, <1>4, <1>5 DEF Next, Plugin

-----------------------------------------------------------------------------
(* The plugins' own evectors.                                              *)

StoreInv ==
  /\ store \in [Plugins -> Vectors(Elem)] /\ deleted \in [Plugins -> SUBSET Elem]
  /\ \A p \in Plugins : Sound(store[p], Elem)
  /\ \A p \in Plugins : ~startSuccess[p] => store[p] = EmptyVector

\* A sound vector in place of p's keeps the invariant, while p's pluginStart runs.
LEMMA StoreReplaced ==
  ASSUME StoreInv, NEW p \in Plugins, NEW v, Sound(v, Elem), NEW gone \in SUBSET Elem,
         startSuccess[p], startSuccess' = startSuccess,
         store' = [store EXCEPT ![p] = v], deleted' = [deleted EXCEPT ![p] = gone]
  PROVE  StoreInv'
<1>1. v \in Vectors(Elem)
  BY DEF Sound
<1>2. \A q \in Plugins : store'[q] = IF q = p THEN v ELSE store[q]
  BY DEF StoreInv
<1>3. store' \in [Plugins -> Vectors(Elem)] /\ deleted' \in [Plugins -> SUBSET Elem]
  BY <1>1 DEF StoreInv
<1>4. QED
  BY <1>2, <1>3 DEF StoreInv

\* Only pluginStart changes an evector, and it runs with startSuccess set.
LEMMA StoreInvStep == ApiInv /\ StoreInv /\ [Next]_vars => StoreInv'
<1> SUFFICES ASSUME ApiInv, StoreInv, [Next]_vars
             PROVE  StoreInv'
  OBVIOUS
<1>1. ASSUME NEW p \in Plugins, Push(p)
      PROVE  StoreInv'
  <2>1. PICK e \in Elem, mul \in MULs, ok \in BOOLEAN :
          store' = [store EXCEPT ![p] = PushBack(store[p], mul, e, ok)]
    BY <1>1 DEF Push
  <2>2. Sound(PushBack(store[p], mul, e, ok), Elem)
    BY PluginAssumption, PushBackAppends DEF StoreInv
  <2>3. startSuccess[p] /\ startSuccess' = startSuccess /\ deleted' = deleted
    BY <1>1 DEF Push, pluginVars, ApiInv, StartKnown
  <2>4. deleted[p] \in SUBSET Elem /\ deleted' = [deleted EXCEPT ![p] = deleted[p]]
    BY <2>3 DEF StoreInv
  <2>5. QED
    BY <2>1, <2>2, <2>3, <2>4, StoreReplaced
<1>2. ASSUME NEW p \in Plugins, EraseElement(p)
      PROVE  StoreInv'
  <2>1. PICK index \in 0..LastId(store[p]), free \in BOOLEAN :
          /\ deleted' = [deleted EXCEPT ![p] = deleted[p] \cup {Get(store[p], index)}]
          /\ store' = [store EXCEPT ![p] = Erase(store[p], index, free)]
    BY <1>2 DEF EraseElement
  <2>2. Sound(Erase(store[p], index, free), Elem)
    BY EraseRemoves DEF StoreInv
  <2>3. deleted[p] \cup {Get(store[p], index)} \in SUBSET Elem
    BY GetIsItem DEF StoreInv
  <2>4. startSuccess[p] /\ startSuccess' = startSuccess
    BY <1>2 DEF EraseElement, pluginVars, ApiInv, StartKnown
  <2>5. QED
    BY <2>1, <2>2, <2>3, <2>4, StoreReplaced
<1>3. ASSUME NEW p \in Plugins, DeinitStore(p)
      PROVE  StoreInv'
  <2>1. /\ deleted' = [deleted EXCEPT ![p] =
                         deleted[p] \cup {Get(store[p], i) : i \in 0..LastId(store[p])}]
        /\ store' = [store EXCEPT ![p] = Deinit(store[p])]
    BY <1>3 DEF DeinitStore
  <2>2. Sound(Deinit(store[p]), Elem)
    BY DeinitEmpties DEF StoreInv
  <2>3. deleted[p] \cup {Get(store[p], i) : i \in 0..LastId(store[p])} \in SUBSET Elem
    <3>1. \A i \in 0..LastId(store[p]) : Get(store[p], i) \in Elem
      BY GetIsItem DEF StoreInv
    <3>2. QED
      BY <3>1 DEF StoreInv
  <2>4. startSuccess[p] /\ startSuccess' = startSuccess
    BY <1>3 DEF DeinitStore, pluginVars, ApiInv, StartKnown
  <2>5. QED
    BY <2>1, <2>2, <2>3, <2>4, StoreReplaced
<1>4. ASSUME store' = store, deleted' = deleted,
             \A p \in Plugins : ~startSuccess'[p] => ~startSuccess[p]
      PROVE  StoreInv'
  BY <1>4 DEF StoreInv
<1>5. ASSUME NEW p \in Plugins,
             Load(p) \/ KernStart(p) \/ Register(p) \/ Probe(p) \/ Start(p) \/ Stop(p)
               \/ Unload(p) \/ RouteVirtual(p)
      PROVE  StoreInv'
  <2>1. store' = store /\ deleted' = deleted
    BY <1>5 DEF Load, KernStart, RequestAccess, ShouldLoad, PluginStarted, ReleaseAccess,
                Register, Probe, Start, Stop, Unload, RouteVirtual, storeVars
  <2>2. \A q \in Plugins : ~startSuccess'[q] => ~startSuccess[q]
    BY <1>5 DEF Load, KernStart, RequestAccess, ShouldLoad, PluginStarted, ReleaseAccess,
                Register, Probe, Start, Stop, Unload, RouteVirtual, pluginVars, ApiInv
  <2>3. QED
    BY <1>4, <2>1, <2>2
<1>6. ASSUME Lilu \/ UNCHANGED vars
      PROVE  StoreInv'
  <2>1. store' = store /\ deleted' = deleted /\ startSuccess' = startSuccess
    BY <1>6 DEF Lilu, FinaliseRequests, KextLoaded, KextCallback, KextUnloaded,
                vars, storeVars, pluginVars
  <2>2. QED
    BY <1>4, <2>1
<1>7. QED
  BY <1>1, <1>2, <1>3, <1>5, <1>6 DEF Next, Plugin

-----------------------------------------------------------------------------
(* The kext, its symbols and its routed function.                          *)

KextInv ==
  /\ image \in Images \cup {NoImage} /\ next \in Nat
  /\ addr \in [Plugins -> [Requests -> Address]] /\ solved \in [Plugins -> BOOLEAN]
  /\ slot \in Plugins \cup {Original} /\ org \in [Plugins -> Functions]
  /\ code \in {"NoError", "InvalidSymbolFound"} /\ ErrorsCleared
  /\ \A p \in Plugins : solved[p] => image # NoImage
  /\ SolvedUnlessForced

\* An address that passes the range check is in the image, also where start + size wraps.
LEMMA InRangeInImage ==
  ASSUME NEW i \in Images, NEW a \in Address, InRange(a, i.start, i.size)
  PROVE  i.start <= a /\ a < i.start + i.size
<1>1. i.start \in Int /\ i.size \in Int /\ a \in Int /\ AddressSpace \in Int /\ AddressSpace > 0
  <2>1. i.start \in Address /\ i.size \in Address
    BY PluginAssumption
  <2>2. AddressSpace \in Nat \ {0}
    BY AddressSpaceAssumption
  <2>3. \A b \in Address : b \in Int
    BY <2>2 DEF Address
  <2>4. QED
    BY <2>1, <2>2, <2>3
<1>2. ASSUME NEW m \in Int, NEW n \in Int
      PROVE  Plus(m, n) \in Int /\ Plus(m, n) <= m + n
  BY <1>1 DEF Plus
<1>3. Plus(i.start, i.size) \in Int /\ Plus(i.start, i.size) <= i.start + i.size
  BY <1>1, <1>2
<1>4. QED
  BY <1>1, <1>3 DEF InRange

\* solveMultiple stores answers that passed the check and leaves every other address alone.
LEMMA StoredAddresses ==
  ASSUME NEW i \in Images, NEW old \in [Requests -> Address], NEW found \in [Requests -> Found],
         NEW force \in BOOLEAN, NEW crash \in BOOLEAN
  PROVE  /\ Stored(old, found, i.start, i.size, force, crash) \in [Requests -> Address]
         /\ \A r \in Requests :
              LET a == Stored(old, found, i.start, i.size, force, crash)[r]
              IN  a = old[r] \/ InRange(a, i.start, i.size)
         /\ Returned(found, i.start, i.size, force, crash) /\ ~force =>
              \A r \in Requests :
                InRange(Stored(old, found, i.start, i.size, force, crash)[r], i.start, i.size)
<1> DEFINE s == Stored(old, found, i.start, i.size, force, crash)
<1>1. \A r \in Requests : found[r] \in Address
  BY PluginAssumption
<1>2. \A r \in Requests :
        s[r] = IF r \in Reached(found, i.start, i.size, force, crash)
                        \ Failed(found, i.start, i.size)
               THEN found[r] ELSE old[r]
  BY DEF Stored
<1>3. s \in [Requests -> Address]
  BY <1>1 DEF Stored
<1>4. \A r \in Requests :
        r \notin Failed(found, i.start, i.size) => InRange(found[r], i.start, i.size)
  BY DEF Failed
<1>5. ASSUME Returned(found, i.start, i.size, force, crash), ~force, NEW r \in Requests
      PROVE  InRange(s[r], i.start, i.size)
  <2>1. Failed(found, i.start, i.size) = {}
    BY <1>5 DEF Returned, Stops
  <2>2. r \in Reached(found, i.start, i.size, force, crash)
    BY <2>1 DEF Reached, Stops
  <2>3. s[r] = found[r]
    BY <1>2, <2>1, <2>2
  <2>4. QED
    BY <1>4, <2>1, <2>3
<1> HIDE DEF s
<1>6. \A r \in Requests : s[r] = old[r] \/ InRange(s[r], i.start, i.size)
  BY <1>2, <1>4
<1>7. QED
  BY <1>3, <1>5, <1>6 DEF s

\* The error code after a solveMultiple that met none before is an address out of range,
\* and then the kernel has panicked.
LEMMA CodeAfterwards ==
  ASSUME NEW found, NEW start, NEW size, NEW force, NEW crash
  PROVE  /\ CodeAfter("NoError", found, start, size, force, crash)
              \in {"NoError", "InvalidSymbolFound"}
         /\ CodeAfter("NoError", found, start, size, force, crash) # "NoError" =>
              Crashes(found, start, size, force, crash)
BY DEF CodeAfter

\* The answers of one callback: typed, in the image, and no error code left behind.
LEMMA CallbackKeeps ==
  ASSUME ApiInv, RegisteredInv, KextInv, panic = "none", KextCallback
  PROVE  /\ KextInv'
         /\ \A p \in Plugins, r \in Requests : addr'[p][r] # addr[p][r] => InImage(addr'[p][r])
<1>1. PICK found \in [Requests -> Found], crash \in BOOLEAN :
        LET p == Get(callbacks, next)
            force == p \in Forced
        IN  /\ addr' = [addr EXCEPT ![p] =
                          Stored(addr[p], found, image.start, image.size, force, crash)]
            /\ solved' = [solved EXCEPT ![p] =
                            Returned(found, image.start, image.size, force, crash)]
            /\ code' = CodeAfter(code, found, image.start, image.size, force, crash)
            /\ panic' = IF Crashes(found, image.start, image.size, force, crash)
                        THEN "InvalidSymbolFound" ELSE panic
  BY DEF KextCallback
<1> DEFINE p == Get(callbacks, next)
           force == p \in Forced
           s == Stored(addr[p], found, image.start, image.size, force, crash)
<1>2. p \in Plugins
  <2>1. next \in 0..LastId(callbacks)
    <3>1. next \in Nat /\ next < callbacks.cnt /\ callbacks.cnt \in Nat
      BY DEF KextCallback, KextInv, RegisteredInv, Sound, Vectors
    <3>2. QED
      BY <3>1 DEF LastId
  <2>2. QED
    BY <2>1, GetIsItem DEF RegisteredInv
<1>3. image \in Images /\ image # NoImage /\ image' = image /\ next' = next + 1
      /\ slot' = slot /\ org' = org
  BY DEF KextCallback, KextInv
<1>4. addr[p] \in [Requests -> Address] /\ force \in BOOLEAN
  BY <1>2 DEF KextInv
<1>5. /\ s \in [Requests -> Address]
      /\ \A r \in Requests : s[r] = addr[p][r] \/ InRange(s[r], image.start, image.size)
      /\ Returned(found, image.start, image.size, force, crash) /\ ~force =>
           \A r \in Requests : InRange(s[r], image.start, image.size)
  <2>1. ASSUME NEW old \in [Requests -> Address], NEW f \in BOOLEAN
        PROVE  LET a == Stored(old, found, image.start, image.size, f, crash)
               IN  /\ a \in [Requests -> Address]
                   /\ \A r \in Requests : a[r] = old[r] \/ InRange(a[r], image.start, image.size)
                   /\ Returned(found, image.start, image.size, f, crash) /\ ~f =>
                        \A r \in Requests : InRange(a[r], image.start, image.size)
    BY <1>3, StoredAddresses
  <2> HIDE DEF p, force
  <2>2. QED
    BY <1>4, <2>1
<1>6. /\ addr' = [addr EXCEPT ![p] = s]
      /\ solved' = [solved EXCEPT ![p] = Returned(found, image.start, image.size, force, crash)]
  BY <1>1
<1>7. code = "NoError"
  BY DEF KextInv, ErrorsCleared
<1>8. code' \in {"NoError", "InvalidSymbolFound"} /\ ErrorsCleared'
  BY <1>1, <1>7, CodeAfterwards DEF ErrorsCleared
<1>9. Returned(found, image.start, image.size, force, crash) \in BOOLEAN
  BY <1>4 DEF Returned
<1> HIDE DEF p, force, s
<1>10. \A q \in Plugins : addr'[q] = (IF q = p THEN s ELSE addr[q])
  BY <1>2, <1>6 DEF KextInv
<1>11. \A q \in Plugins :
         solved'[q] = IF q = p THEN Returned(found, image.start, image.size, force, crash)
                      ELSE solved[q]
  BY <1>2, <1>6 DEF KextInv
<1>12. addr' \in [Plugins -> [Requests -> Address]] /\ solved' \in [Plugins -> BOOLEAN]
  BY <1>2, <1>5, <1>6, <1>9 DEF KextInv
<1>13. \A a \in Address : InRange(a, image.start, image.size) => InImage(a)
  BY <1>3, InRangeInImage DEF InImage
<1>14. \A q \in Plugins, r \in Requests : addr'[q][r] # addr[q][r] => InImage(addr'[q][r])
  BY <1>5, <1>10, <1>13
<1>15. SolvedUnlessForced'
  <2> SUFFICES ASSUME NEW q \in Plugins \ Forced, solved'[q], NEW r \in Requests
               PROVE  InImage(addr[q][r])'
    BY DEF SolvedUnlessForced
  <2>1. InImage(addr'[q][r]) => InImage(addr[q][r])'
    BY <1>3 DEF InImage
  <2>2. CASE q = p
    BY <2>1, <2>2, <1>5, <1>10, <1>11, <1>13 DEF force
  <2>3. CASE q # p
    BY <2>1, <2>3, <1>10, <1>11 DEF KextInv, SolvedUnlessForced
  <2>4. QED
    BY <2>2, <2>3
<1>16. next' \in Nat
  BY <1>3 DEF KextInv
<1>17. QED
  BY <1>3, <1>8, <1>12, <1>14, <1>15, <1>16 DEF KextInv

\* The kext's place and table, what was solved in it, and the error code.
LEMMA KextInvStep == ApiInv /\ RegisteredInv /\ KextInv /\ [Next]_vars => KextInv'
<1> SUFFICES ASSUME ApiInv, RegisteredInv, KextInv, [Next]_vars
             PROVE  KextInv'
  OBVIOUS
<1>1. CASE Next /\ KextCallback
  BY <1>1, CallbackKeeps DEF Next
<1>2. CASE Next /\ KextLoaded
  <2>1. /\ image = NoImage /\ image' \in Images /\ next' = 0 /\ panic' = panic
        /\ UNCHANGED <<addr, solved, code, slot, org>>
    BY <1>2 DEF KextLoaded
  <2>2. \A p \in Plugins : ~solved'[p]
    BY <2>1 DEF KextInv
  <2>3. ErrorsCleared' /\ SolvedUnlessForced'
    BY <2>1, <2>2 DEF KextInv, ErrorsCleared, SolvedUnlessForced
  <2>4. QED
    BY <2>1, <2>2, <2>3 DEF KextInv
<1>3. CASE Next /\ KextUnloaded
  <2>1. /\ image' = NoImage /\ next' = 0 /\ slot' = Original /\ panic' = panic
        /\ solved' = [p \in Plugins |-> FALSE] /\ UNCHANGED <<addr, code, org>>
    BY <1>3 DEF KextUnloaded
  <2>2. \A p \in Plugins : ~solved'[p]
    BY <2>1
  <2>3. ErrorsCleared' /\ SolvedUnlessForced'
    BY <2>1, <2>2 DEF KextInv, ErrorsCleared, SolvedUnlessForced
  <2>4. solved' \in [Plugins -> BOOLEAN]
    BY <2>1
  <2>5. QED
    BY <2>1, <2>2, <2>3, <2>4 DEF KextInv
<1>4. ASSUME NEW p \in Plugins, RouteVirtual(p)
      PROVE  KextInv'
  <2>1. UNCHANGED <<image, next, addr, solved, code, panic>>
    BY <1>4 DEF RouteVirtual
  <2>2. slot' \in Plugins \cup {Original} /\ org' \in [Plugins -> Functions]
    BY <1>4 DEF RouteVirtual, Replace, KextInv, Functions
  <2>3. ErrorsCleared' /\ SolvedUnlessForced'
    BY <2>1 DEF KextInv, ErrorsCleared, SolvedUnlessForced, InImage
  <2>4. QED
    BY <2>1, <2>2, <2>3 DEF KextInv
<1>5. ASSUME UNCHANGED kextVars, code = "NoError" \/ panic' = panic
      PROVE  KextInv'
  <2>1. ErrorsCleared' /\ SolvedUnlessForced'
    BY <1>5 DEF kextVars, KextInv, ErrorsCleared, SolvedUnlessForced, InImage
  <2>2. QED
    BY <1>5, <2>1 DEF kextVars, KextInv
<1>6. ASSUME panic = "none", NEW p \in Plugins, Plugin(p)
      PROVE  KextInv'
  <2>1. code = "NoError"
    BY <1>6 DEF KextInv, ErrorsCleared
  <2>2. RouteVirtual(p) \/ UNCHANGED kextVars
    BY <1>6 DEF Plugin, KernStart, Load, RequestAccess, ShouldLoad, Register, PluginStarted,
                ReleaseAccess, Push, EraseElement, DeinitStore, Probe, Start, Stop, Unload
  <2>3. QED
    BY <1>4, <1>5, <2>1, <2>2
<1>7. CASE FinaliseRequests \/ UNCHANGED vars
  BY <1>5, <1>7 DEF FinaliseRequests, vars
<1>8. QED
  BY <1>1, <1>2, <1>3, <1>6, <1>7 DEF Next, Lilu

-----------------------------------------------------------------------------
(* The IOService.                                                          *)

ServiceInv ==
  /\ self \in [Plugins -> {"null", "instance", "freed"}]
  /\ service \in [Plugins -> {"none", "probed", "running"}]

\* probe, start and stop keep the instance and selfInstance typed.
LEMMA ServiceInvStep == ServiceInv /\ [Next]_vars => ServiceInv'
<1> SUFFICES ASSUME ServiceInv, [Next]_vars
             PROVE  ServiceInv'
  OBVIOUS
<1>1. ASSUME NEW p \in Plugins, Probe(p) \/ Start(p) \/ Stop(p)
      PROVE  ServiceInv'
  BY <1>1 DEF Probe, Start, Stop, ServiceInv
<1>2. ASSUME UNCHANGED serviceVars
      PROVE  ServiceInv'
  BY <1>2 DEF serviceVars, ServiceInv
<1>3. ASSUME NEW p \in Plugins,
             Load(p) \/ KernStart(p) \/ Register(p) \/ Push(p) \/ EraseElement(p)
               \/ DeinitStore(p) \/ Unload(p) \/ RouteVirtual(p)
      PROVE  UNCHANGED serviceVars
  BY <1>3 DEF Load, KernStart, RequestAccess, ShouldLoad, PluginStarted, ReleaseAccess,
              Register, Push, EraseElement, DeinitStore, Unload, RouteVirtual
<1>4. ASSUME Lilu \/ UNCHANGED vars
      PROVE  UNCHANGED serviceVars
  BY <1>4 DEF Lilu, FinaliseRequests, KextLoaded, KextCallback, KextUnloaded, vars
<1>5. QED
  BY <1>1, <1>2, <1>3, <1>4 DEF Next, Plugin

-----------------------------------------------------------------------------
(* The theorems.                                                           *)

PluginInv == ApiInv /\ RegisteredInv /\ StoreInv /\ KextInv /\ ServiceInv

\* Every part holds at the start and is kept; kern_start's part keeps the others sound.
LEMMA PluginInvHolds == Spec => []PluginInv
<1>1. Init => PluginInv
  <2> SUFFICES ASSUME Init
               PROVE  PluginInv
    OBVIOUS
  <2>1. ApiInv
    BY PluginAssumption DEF Init, ApiInv, AccessHeld, StartKnown, Labels
  <2>2. Sound(callbacks, Plugins) /\ callbacks.cnt = 0
    BY EmptyIsSound DEF Init, EmptyVector
  <2>3. RegisteredInv
    BY <2>2 DEF Init, RegisteredInv, CallbacksLive
  <2>4. \A p \in Plugins : store[p] = EmptyVector
    BY DEF Init
  <2>5. Sound(EmptyVector, Elem) /\ EmptyVector \in Vectors(Elem)
    BY EmptyIsSound DEF Sound
  <2>6. StoreInv
    BY <2>4, <2>5 DEF Init, StoreInv
  <2>7. 0 \in Address
    BY PluginAssumption
  <2>8. KextInv
    <3>1. org \in [Plugins -> {NoOrg, Nobody}]
      <4>1. PICK R \in SUBSET Replacing :
              org = [p \in Plugins |-> IF p \in R THEN NoOrg ELSE Nobody]
        BY DEF Init
      <4>2. QED
        BY <4>1
    <3>2. org \in [Plugins -> Functions]
      BY <3>1 DEF Functions
    <3>3. QED
      BY <2>7, <3>2 DEF Init, KextInv, ErrorsCleared, SolvedUnlessForced
  <2>9. ServiceInv
    BY DEF Init, ServiceInv
  <2>10. QED
    BY <2>1, <2>3, <2>6, <2>8, <2>9 DEF PluginInv
<1>2. PluginInv /\ [Next]_vars => PluginInv'
  BY ApiInvStep, RegisteredInvStep, StoreInvStep, KextInvStep, ServiceInvStep DEF PluginInv
<1>3. QED
  BY <1>1, <1>2, PTL DEF Spec

\* Every variable keeps its type: no callback, element, address or error code appears that
\* the code did not put there.
THEOREM PluginTypeCorrect == Spec => []TypeOK
<1>1. PluginInv => TypeOK
  <2> SUFFICES ASSUME PluginInv
               PROVE  TypeOK
    OBVIOUS
  <2>1. callbacks \in Vectors(Plugins) /\ panic \in {"none", "TooLate", "MemoryError", "InvalidSymbolFound"}
    BY DEF PluginInv, RegisteredInv, Sound
  <2>2. QED
    BY <2>1 DEF PluginInv, ApiInv, StoreInv, KextInv, ServiceInv, TypeOK, Labels
<1>2. QED
  BY <1>1, PluginInvHolds, PTL

\* Whoever Lilu will call back is loaded and can no longer be unloaded.
THEOREM CallbacksStayLive == Spec => []CallbacksLive
<1>1. PluginInv => CallbacksLive
  BY DEF PluginInv, RegisteredInv
<1>2. QED
  BY <1>1, PluginInvHolds, PTL

\* A plugin that was let start never registers too late.
THEOREM StartedNeverTooLate == Spec => []NeverTooLate
<1>1. PluginInv => NeverTooLate
  BY DEF PluginInv, RegisteredInv, NeverTooLate
<1>2. QED
  BY <1>1, PluginInvHolds, PTL

\* Whatever allocations fail, every evector is inside its block.
THEOREM StorageStaysSound == Spec => []StorageSound
<1>1. PluginInv => StorageSound
  <2> SUFFICES ASSUME PluginInv
               PROVE  StorageSound
    OBVIOUS
  <2>1. WithinBlock(callbacks)
    BY DEF PluginInv, RegisteredInv, Sound
  <2>2. \A p \in Plugins : WithinBlock(store[p])
    BY DEF PluginInv, StoreInv, Sound
  <2>3. \A p \in Plugins : pc[p] = "gone" => store[p] = EmptyVector
    BY DEF PluginInv, ApiInv, StartKnown, StoreInv
  <2>4. QED
    BY <2>1, <2>2, <2>3 DEF StorageSound
<1>2. QED
  BY <1>1, PluginInvHolds, PTL

\* Without force, what solveMultiple reported as solved is in the kext as it is loaded now.
THEOREM UnforcedIsSolved == Spec => []SolvedUnlessForced
<1>1. PluginInv => SolvedUnlessForced
  BY DEF PluginInv, KextInv
<1>2. QED
  BY <1>1, PluginInvHolds, PTL

\* No error code survives a solveMultiple that did not panic.
THEOREM ErrorsAreCleared == Spec => []ErrorsCleared
<1>1. PluginInv => ErrorsCleared
  BY DEF PluginInv, KextInv
<1>2. QED
  BY <1>1, PluginInvHolds, PTL

\* Nothing but an address in the loaded kext is ever stored for a request.
THEOREM OnlyImageAddressesStored == Spec => StoresOnlyImageAddresses
<1> DEFINE A == \A p \in Plugins, r \in Requests : addr'[p][r] # addr[p][r] => InImage(addr'[p][r])
<1>1. PluginInv /\ [Next]_vars => [A]_vars
  <2> SUFFICES ASSUME PluginInv, Next
               PROVE  A
    OBVIOUS
  <2>1. CASE KextCallback
    BY <2>1, CallbackKeeps DEF PluginInv, Next
  <2>2. ASSUME addr' = addr
        PROVE  A
    BY <2>2
  <2>3. ASSUME NEW p \in Plugins, Plugin(p)
        PROVE  addr' = addr
    BY <2>3 DEF Plugin, KernStart, Load, RequestAccess, ShouldLoad, Register, PluginStarted,
                ReleaseAccess, Push, EraseElement, DeinitStore, Probe, Start, Stop, Unload,
                RouteVirtual, kextVars
  <2>4. CASE FinaliseRequests \/ KextLoaded \/ KextUnloaded
    BY <2>2, <2>4 DEF FinaliseRequests, KextLoaded, KextUnloaded, kextVars
  <2>5. QED
    BY <2>1, <2>2, <2>3, <2>4 DEF Next, Lilu
<1>2. QED
  BY <1>1, PluginInvHolds, PTL DEF Spec, StoresOnlyImageAddresses

-----------------------------------------------------------------------------
(* The routed function.                                                    *)

\* A plugin that is not on the way from the table puts itself in front of that way and
\* leaves it as it is: what is closed afterwards, less what is behind the plugin's old
\* route, was closed before.
LEMMA RouteKeepsWay ==
  ASSUME RoutesReachOriginal, KextInv, NEW p \in Plugins, RouteVirtual(p), ~ReplacesTwice(p)
  PROVE  RoutesReachOriginal'
<1>1. CASE slot = p
  <2>1. slot' = slot /\ org' = org
    BY <1>1 DEF RouteVirtual
  <2>2. QED
    BY <2>1 DEF RoutesReachOriginal, ClosedUnderCalls
<1>2. CASE slot # p
  <2>1. /\ org' = IF org[p] = NoOrg THEN org ELSE [org EXCEPT ![p] = slot]
        /\ slot' = p /\ p \notin Passed
    BY <1>2 DEF RouteVirtual, Replace, ReplacesTwice
  <2>2. PICK D \in SUBSET Functions : ClosedUnderCalls(D) /\ p \notin D
    BY <2>1 DEF Passed, Functions
  <2>3. SUFFICES ASSUME NEW C \in SUBSET (Plugins \cup {Nobody}), ClosedUnderCalls(C)'
                 PROVE  FALSE
    BY DEF RoutesReachOriginal
  <2>4. p \in C /\ \A q \in C \cap Plugins : org'[q] \in C
    BY <2>1, <2>3 DEF ClosedUnderCalls
  <2>5. org[p] # NoOrg
    BY <2>1, <2>4, PluginAssumption
  <2>6. \A q \in Plugins : org'[q] = IF q = p THEN slot ELSE org[q]
    BY <2>1, <2>5 DEF KextInv
  <2>7. slot \in C \cap D
    BY <2>2, <2>4, <2>6 DEF ClosedUnderCalls
  <2>8. \A q \in (C \cap D) \cap Plugins : org[q] \in C \cap D
    BY <2>2, <2>4, <2>6 DEF ClosedUnderCalls
  <2>9. QED
    BY <2>7, <2>8 DEF RoutesReachOriginal, ClosedUnderCalls
<1>3. QED
  BY <1>1, <1>2

\* However often plugins route the function, in whatever order and over however many loads
\* of the kext, a call through the table goes on to reach its end, unless a plugin whose
\* function a call already passes routes again from under another one's route.
THEOREM RoutesLostOnlyTwice == Spec => RoutesBreakOnlyTwice
<1>1. PluginInv /\ [Next]_vars =>
        [RoutesReachOriginal /\ ~RoutesReachOriginal' => \E p \in Plugins : ReplacesTwice(p)]_<<slot, org>>
  <2> SUFFICES ASSUME PluginInv, [Next]_vars, RoutesReachOriginal,
                      \A p \in Plugins : ~ReplacesTwice(p)
               PROVE  RoutesReachOriginal'
    OBVIOUS
  <2>1. ASSUME NEW p \in Plugins, RouteVirtual(p)
        PROVE  RoutesReachOriginal'
    BY <2>1, RouteKeepsWay DEF PluginInv
  <2>2. CASE KextUnloaded
    <3>1. slot' = Original
      BY <2>2 DEF KextUnloaded
    <3>2. \A C \in SUBSET (Plugins \cup {Nobody}) : ~ClosedUnderCalls(C)'
      BY <3>1, PluginAssumption DEF ClosedUnderCalls
    <3>3. QED
      BY <3>2 DEF RoutesReachOriginal
  <2>3. ASSUME slot' = slot, org' = org
        PROVE  RoutesReachOriginal'
    BY <2>3 DEF RoutesReachOriginal, ClosedUnderCalls
  <2>4. ASSUME NEW p \in Plugins, Plugin(p)
        PROVE  RouteVirtual(p) \/ (slot' = slot /\ org' = org)
    BY <2>4 DEF Plugin, KernStart, Load, RequestAccess, ShouldLoad, Register, PluginStarted,
                ReleaseAccess, Push, EraseElement, DeinitStore, Probe, Start, Stop, Unload, kextVars
  <2>5. CASE FinaliseRequests \/ KextLoaded \/ KextCallback \/ UNCHANGED vars
    BY <2>3, <2>5 DEF FinaliseRequests, KextLoaded, KextCallback, vars, kextVars
  <2>6. QED
    BY <2>1, <2>2, <2>3, <2>4, <2>5 DEF Next, Lilu
<1>2. QED
  BY <1>1, PluginInvHolds, PTL DEF Spec, RoutesBreakOnlyTwice

-----------------------------------------------------------------------------
(* Progress, the safety half of LoadReturns and RefusedUnloaded.                      *)

\* The guards of KernStart(p).
CanStart(p) ==
  \/ pc[p] = "request" /\ (p \in Incompatible \/ access = Nobody)
  \/ pc[p] \in {"decide", "start", "release"}

\* A kern_start that cannot go on waits for one that can.
NoDeadlock ==
  \A p \in Plugins : pc[p] = "request" /\ ~CanStart(p) =>
    access \in Plugins \ {p} /\ CanStart(access)

\* How far the plugin still is from having been loaded and unloaded.
Left(label) ==
  CASE label = "absent" -> 6
    [] label = "request" -> 5
    [] label = "decide" -> 4
    [] label = "start" -> 3
    [] label = "release" -> 2
    [] label = "loaded" -> 1
    [] OTHER -> 0

\* Each step of a plugin's own kern_start brings it nearer to its end, and nothing, not
\* even a second load, brings it back in front of the lock.
Forward ==
  \A p \in Plugins :
    /\ KernStart(p) => Left(pc'[p]) < Left(pc[p])
    /\ Left(pc'[p]) <= Left(pc[p])

\* A plugin that was refused has no instance, so nothing keeps it from being unloaded.
RefusedIsFree == \A p \in Plugins : ~startSuccess[p] => service[p] = "none" /\ MayStop(p)

\* It stays as it is until it goes.
RefusedWaits ==
  \A p \in Plugins : pc[p] = "loaded" /\ ~startSuccess[p] =>
    IF Unload(p) THEN pc'[p] = "gone" ELSE pc'[p] = "loaded" /\ ~startSuccess'[p]

\* The places in the order in which a plugin passes them.
LEMMA FewerLeft ==
  ASSUME NEW a, NEW b,
         \/ a = "absent" /\ b = "request"
         \/ a = "request" /\ b \in {"decide", "loaded"}
         \/ a = "decide" /\ b \in {"start", "release"}
         \/ a = "start" /\ b = "release"
         \/ a = "release" /\ b = "loaded"
         \/ a = "loaded" /\ b = "gone"
  PROVE  Left(b) < Left(a)
<1>1. ASSUME NEW c
      PROVE  /\ c = "absent" => Left(c) = 6
             /\ c = "request" => Left(c) = 5
             /\ c = "decide" => Left(c) = 4
             /\ c = "start" => Left(c) = 3
             /\ c = "release" => Left(c) = 2
             /\ c = "loaded" => Left(c) = 1
             /\ c = "gone" => Left(c) = 0
  BY DEF Left
<1>2. QED
  BY <1>1

\* What a step does to the place of a plugin.
LEMMA Places ==
  ASSUME ApiInv, [Next]_vars, NEW p \in Plugins
  PROVE  \/ pc[p] = "absent" /\ pc'[p] = "request"
         \/ pc[p] = "request" /\ pc'[p] \in {"decide", "loaded"}
         \/ pc[p] = "decide" /\ pc'[p] \in {"start", "release"}
         \/ pc[p] = "start" /\ pc'[p] = "release"
         \/ pc[p] = "release" /\ pc'[p] = "loaded"
         \/ pc[p] = "loaded" /\ pc'[p] = "gone"
         \/ pc'[p] = pc[p] /\ ~KernStart(p) /\ ~Unload(p)
<1>1. DOMAIN pc = Plugins
  BY DEF ApiInv
<1>2. CASE KernStart(p) \/ Load(p) \/ Unload(p)
  BY <1>1, <1>2 DEF KernStart, Load, RequestAccess, ShouldLoad, PluginStarted, ReleaseAccess,
                    Unload
<1>3. CASE ~(KernStart(p) \/ Load(p) \/ Unload(p))
  <2>1. ASSUME NEW q \in Plugins, Plugin(q)
        PROVE  pc'[p] = pc[p]
    <3>1. CASE KernStart(q) \/ Load(q) \/ Unload(q)
      <4>1. q # p
        BY <1>3, <3>1
      <4>2. QED
        BY <1>1, <3>1, <4>1 DEF KernStart, Load, RequestAccess, ShouldLoad, PluginStarted,
                                ReleaseAccess, Unload
    <3>2. CASE ~(KernStart(q) \/ Load(q) \/ Unload(q))
      BY <2>1, <3>2 DEF Plugin, Register, Push, EraseElement, DeinitStore, Probe, Start, Stop,
                        RouteVirtual, pluginVars
    <3>3. QED
      BY <3>1, <3>2
  <2>2. ASSUME Lilu \/ UNCHANGED vars
        PROVE  pc'[p] = pc[p]
    BY <2>2 DEF Lilu, FinaliseRequests, KextLoaded, KextCallback, KextUnloaded, vars, pluginVars
  <2>3. QED
    BY <1>3, <2>1, <2>2 DEF Next
<1>4. QED
  BY <1>2, <1>3

\* Whoever waits for the access lock waits for a plugin that holds it and goes on.
THEOREM AccessNeverDeadlocks == Spec => []NoDeadlock
<1>1. PluginInv => NoDeadlock
  <2> SUFFICES ASSUME PluginInv, NEW p \in Plugins, pc[p] = "request", ~CanStart(p)
               PROVE  access \in Plugins \ {p} /\ CanStart(access)
    BY DEF NoDeadlock
  <2>1. access \in Plugins
    BY DEF PluginInv, ApiInv, CanStart
  <2>2. pc[access] \in {"decide", "start", "release"}
    BY <2>1 DEF PluginInv, ApiInv, AccessHeld
  <2>3. QED
    BY <2>1, <2>2 DEF CanStart
<1>2. QED
  BY <1>1, PluginInvHolds, PTL

\* kern_start takes at most four steps of its thread, and a plugin takes the lock at most
\* once: that is why weak fairness is enough for LoadReturns.
THEOREM StartsOnlyAdvance == Spec => [][Forward]_vars
<1>1. PluginInv /\ [Next]_vars => [Forward]_vars
  <2> SUFFICES ASSUME PluginInv, [Next]_vars, NEW p \in Plugins
               PROVE  /\ KernStart(p) => Left(pc'[p]) < Left(pc[p])
                      /\ Left(pc'[p]) <= Left(pc[p])
    BY DEF Forward
  <2>1. ASSUME NEW label \in Labels
        PROVE  Left(label) \in Int
    BY <2>1 DEF Left, Labels
  <2>2. Left(pc[p]) \in Int /\ Left(pc'[p]) \in Int
    <3>1. ApiInv'
      BY ApiInvStep DEF PluginInv
    <3>2. pc[p] \in Labels /\ pc'[p] \in Labels
      BY <3>1 DEF PluginInv, ApiInv
    <3>3. QED
      BY <2>1, <3>2
  <2>3. Left(pc'[p]) < Left(pc[p]) \/ (pc'[p] = pc[p] /\ ~KernStart(p))
    BY Places, FewerLeft DEF PluginInv
  <2>4. QED
    BY <2>2, <2>3
<1>2. QED
  BY <1>1, PluginInvHolds, PTL DEF Spec

\* A plugin that reported success without starting can be unloaded at any time, and stays
\* so until it is: no probe of IOKit can give it an instance that holds it.
THEOREM RefusedCanAlwaysGo == Spec => []RefusedIsFree /\ [][RefusedWaits]_vars
<1>1. Init => RefusedIsFree
  BY DEF Init, RefusedIsFree, MayStop
<1>2. PluginInv /\ RefusedIsFree /\ [Next]_vars => RefusedIsFree'
  <2> SUFFICES ASSUME PluginInv, RefusedIsFree, [Next]_vars, NEW p \in Plugins
               PROVE  ~startSuccess'[p] => service'[p] = "none" /\ ~startSuccess'[p]
    BY DEF RefusedIsFree, MayStop
  <2>1. startSuccess[p] => startSuccess'[p]
    BY DEF PluginInv, ApiInv, Next, Plugin, KernStart, Lilu, Load, RequestAccess, ShouldLoad,
           PluginStarted, ReleaseAccess, Register, Push, EraseElement, DeinitStore, Probe, Start,
           Stop, Unload, RouteVirtual, FinaliseRequests, KextLoaded, KextCallback, KextUnloaded,
           pluginVars, vars
  <2>2. ~startSuccess[p] => service[p] = "none"
    BY DEF RefusedIsFree
  <2>3. service'[p] = service[p] \/ service'[p] = "none" \/ startSuccess[p]
    <3>1. ASSUME NEW q \in Plugins, Probe(q) \/ Start(q) \/ Stop(q)
          PROVE  service'[p] = service[p] \/ service'[p] = "none" \/ startSuccess[p]
      BY <3>1 DEF Probe, Start, Stop, PluginInv, ServiceInv
    <3>2. ASSUME ~(\E q \in Plugins : Probe(q) \/ Start(q) \/ Stop(q))
          PROVE  service' = service
      BY <3>2 DEF Next, Plugin, KernStart, Lilu, Load, RequestAccess, ShouldLoad,
           PluginStarted, ReleaseAccess, Register, Push, EraseElement, DeinitStore,
           Unload, RouteVirtual, FinaliseRequests, KextLoaded, KextCallback, KextUnloaded,
           serviceVars, vars
    <3>3. QED
      BY <3>1, <3>2
  <2>4. QED
    BY <2>1, <2>2, <2>3
<1>3. PluginInv /\ [Next]_vars => [RefusedWaits]_vars
  <2> SUFFICES ASSUME PluginInv, [Next]_vars, NEW p \in Plugins, pc[p] = "loaded", ~startSuccess[p]
               PROVE  IF Unload(p) THEN pc'[p] = "gone" ELSE pc'[p] = "loaded" /\ ~startSuccess'[p]
    BY DEF RefusedWaits
  <2>1. CASE Unload(p)
    BY <2>1 DEF Unload, PluginInv, ApiInv
  <2>2. CASE ~Unload(p)
    <3>1. pc'[p] = "loaded"
      <4>1. CASE pc'[p] = "gone"
        BY <2>2, <4>1 DEF PluginInv, ApiInv, Next, Plugin, KernStart, Lilu, Load, RequestAccess,
           ShouldLoad, PluginStarted, ReleaseAccess, Register, Push, EraseElement, DeinitStore,
           Probe, Start, Stop, Unload, RouteVirtual, FinaliseRequests, KextLoaded, KextCallback,
           KextUnloaded, pluginVars, vars
      <4>2. QED
        BY <4>1, Places DEF PluginInv
    <3>2. ~startSuccess'[p]
      BY DEF PluginInv, ApiInv, Next, Plugin, KernStart, Lilu, Load, RequestAccess, ShouldLoad,
           PluginStarted, ReleaseAccess, Register, Push, EraseElement, DeinitStore, Probe, Start,
           Stop, Unload, RouteVirtual, FinaliseRequests, KextLoaded, KextCallback, KextUnloaded,
           pluginVars, vars
    <3>3. QED
      BY <2>2, <3>1, <3>2
  <2>3. QED
    BY <2>1, <2>2
<1>4. QED
  BY <1>1, <1>2, <1>3, PluginInvHolds, PTL DEF Spec

-----------------------------------------------------------------------------
(* The refinement of HeldSequence.                                         *)

\* What a sequence holds, and its removal of an element, as the instance names them.
LEMMA AbstractNames ==
  /\ \A s, k : Abstract!RemoveAt(s, k) = RemoveAt(s, k)
  /\ Abstract!Held = {Items(store[Keeper])[i] : i \in DOMAIN Items(store[Keeper])}
BY DEF Abstract!RemoveAt, RemoveAt, Abstract!Held, Abstract!Range

\* The elements of a sound vector, as the sequence and as the block has them.
LEMMA ItemsAreCells ==
  ASSUME NEW S, NEW v, Sound(v, S)
  PROVE  /\ DOMAIN Items(v) = 1..v.cnt
         /\ \A i \in 1..v.cnt : Items(v)[i] = v.mem[i]
         /\ \A i \in DOMAIN Items(v) : i - 1 \in 0..LastId(v) /\ Get(v, i - 1) = Items(v)[i]
         /\ \A i \in 0..LastId(v) : i + 1 \in DOMAIN Items(v) /\ Get(v, i) = Items(v)[i + 1]
<1>1. v.cnt \in Nat
  BY DEF Sound, Vectors
<1>2. /\ DOMAIN Items(v) = 1..v.cnt
      /\ \A i \in 1..v.cnt : Items(v)[i] = v.mem[i]
  BY ItemsOfSound, LenProperties
<1>3. \A i \in 1..v.cnt : i - 1 \in 0..(v.cnt - 1) /\ (i - 1) + 1 = i
  BY <1>1
<1>4. \A i \in 0..(v.cnt - 1) : i + 1 \in 1..v.cnt
  BY <1>1
<1>5. QED
  BY <1>2, <1>3, <1>4 DEF Get, LastId

\* A push_back that is not refused is an append; erase and deinit hand what they remove to
\* the deleter.
THEOREM KeeperHoldsSequence == Keepers # {} => (Spec => ImplementsHeldSequence)
<1> SUFFICES ASSUME Keepers # {}
             PROVE  Spec => ImplementsHeldSequence
  OBVIOUS
<1>1. Keeper \in Plugins
  BY PluginAssumption DEF Keeper
<1>2. Init => Abstract!Init
  BY <1>1, EmptyIsSound DEF Init, Abstract!Init
<1>3. PluginInv /\ [Next]_vars =>
        [Abstract!Next]_<<Items(store[Keeper]), deleted[Keeper]>>
  <2> SUFFICES ASSUME PluginInv, [Next]_vars
               PROVE  Abstract!Next \/ UNCHANGED <<Items(store[Keeper]), deleted[Keeper]>>
    OBVIOUS
  <2>1. \A p \in Plugins : Sound(store[p], Elem)
    BY DEF PluginInv, StoreInv
  <2>2. /\ DOMAIN store = Plugins /\ DOMAIN deleted = Plugins
        /\ store = [p \in Plugins |-> store[p]] /\ deleted = [p \in Plugins |-> deleted[p]]
    BY DEF PluginInv, StoreInv
  <2>3. ASSUME NEW p \in Plugins, Push(p), p = Keeper
        PROVE  Abstract!Add \/ UNCHANGED <<Items(store[Keeper]), deleted[Keeper]>>
    <3>1. PICK e \in Elem, mul \in MULs, ok \in BOOLEAN :
            /\ e \notin deleted[p] /\ \A i \in 1..store[p].cnt : store[p].mem[i] # e
            /\ store' = [store EXCEPT ![p] = PushBack(store[p], mul, e, ok)]
      BY <2>3 DEF Push
    <3>2. Items(PushBack(store[p], mul, e, ok)) =
            IF Refuses(store[p], ok) THEN Items(store[p]) ELSE Append(Items(store[p]), e)
      <4>1. Sound(store[p], Elem) /\ mul \in Nat \ {0}
        BY <2>1, PluginAssumption
      <4>2. ASSUME NEW v, Sound(v, Elem)
            PROVE  Items(PushBack(v, mul, e, ok)) =
                     IF Refuses(v, ok) THEN Items(v) ELSE Append(Items(v), e)
        BY <4>1, <4>2, PushBackAppends
      <4>3. QED
        BY <4>1, <4>2
    <3>3. Items(store'[p]) = Items(PushBack(store[p], mul, e, ok)) /\ deleted' = deleted
      BY <2>2, <2>3, <3>1 DEF Push
    <3>4. e \in Elem \ (Abstract!Held \cup deleted[p])
      BY <2>1, <2>3, <3>1, ItemsAreCells, AbstractNames
    <3>5. QED
      BY <2>3, <3>2, <3>3, <3>4 DEF Abstract!Add
  <2>4. ASSUME NEW p \in Plugins, EraseElement(p), p = Keeper
        PROVE  Abstract!Drop
    <3>1. PICK index \in 0..LastId(store[p]), free \in BOOLEAN :
            /\ deleted' = [deleted EXCEPT ![p] = deleted[p] \cup {Get(store[p], index)}]
            /\ store' = [store EXCEPT ![p] = Erase(store[p], index, free)]
      BY <2>4 DEF EraseElement
    <3>2. Items(Erase(store[p], index, free)) = RemoveAt(Items(store[p]), index + 1)
      BY <2>1, EraseRemoves
    <3>3. Get(store[p], index) = Items(store[p])[index + 1]
          /\ index + 1 \in DOMAIN Items(store[p])
      BY <2>1, GetIsItem, ItemsOfSound, LenProperties
    <3>4. /\ Items(store'[p]) = Abstract!RemoveAt(Items(store[p]), index + 1)
          /\ deleted'[p] = deleted[p] \cup {Items(store[p])[index + 1]}
      BY <2>2, <3>1, <3>2, <3>3, AbstractNames
    <3>5. QED
      BY <2>4, <3>3, <3>4 DEF Abstract!Drop
  <2>5. ASSUME NEW p \in Plugins, DeinitStore(p), p = Keeper
        PROVE  Abstract!Clear
    <3>1. /\ deleted'[p] = deleted[p] \cup {Get(store[p], i) : i \in 0..LastId(store[p])}
          /\ store'[p] = Deinit(store[p])
      BY <2>2, <2>5 DEF DeinitStore
    <3>2. Items(Deinit(store[p])) = <<>>
      BY <2>1, DeinitEmpties
    <3>3. Abstract!Held = {Get(store[p], i) : i \in 0..LastId(store[p])}
      <4>1. ASSUME NEW v, Sound(v, Elem)
            PROVE  {Items(v)[i] : i \in DOMAIN Items(v)} = {Get(v, i) : i \in 0..LastId(v)}
        <5>1. /\ \A i \in DOMAIN Items(v) : i - 1 \in 0..LastId(v) /\ Get(v, i - 1) = Items(v)[i]
              /\ \A i \in 0..LastId(v) : i + 1 \in DOMAIN Items(v) /\ Get(v, i) = Items(v)[i + 1]
          BY <4>1, ItemsAreCells
        <5>2. QED
          BY <5>1
      <4>2. QED
        BY <2>1, <2>5, <4>1, AbstractNames
    <3>4. QED
      BY <2>5, <3>1, <3>2, <3>3 DEF Abstract!Clear
  <2>6. ASSUME store'[Keeper] = store[Keeper], deleted'[Keeper] = deleted[Keeper]
        PROVE  UNCHANGED <<Items(store[Keeper]), deleted[Keeper]>>
    BY <2>6
  <2>7. ASSUME NEW p \in Plugins, p # Keeper, Push(p) \/ EraseElement(p) \/ DeinitStore(p)
        PROVE  store'[Keeper] = store[Keeper] /\ deleted'[Keeper] = deleted[Keeper]
    BY <1>1, <2>2, <2>7 DEF Push, EraseElement, DeinitStore
  <2>8. ASSUME NEW p \in Plugins,
               Load(p) \/ KernStart(p) \/ Register(p) \/ Probe(p) \/ Start(p) \/ Stop(p)
                 \/ Unload(p) \/ RouteVirtual(p)
        PROVE  store' = store /\ deleted' = deleted
    BY <2>8 DEF Load, KernStart, RequestAccess, ShouldLoad, PluginStarted, ReleaseAccess,
                Register, Probe, Start, Stop, Unload, RouteVirtual, storeVars
  <2>9. ASSUME Lilu \/ UNCHANGED vars
        PROVE  store' = store /\ deleted' = deleted
    BY <2>9 DEF Lilu, FinaliseRequests, KextLoaded, KextCallback, KextUnloaded, vars, storeVars
  <2>10. QED
    BY <2>3, <2>4, <2>5, <2>6, <2>7, <2>8, <2>9 DEF Next, Plugin, Abstract!Next
<1>4. QED
  BY <1>2, <1>3, PluginInvHolds, PTL DEF Spec, ImplementsHeldSequence, Abstract!Spec

-----------------------------------------------------------------------------
(* No element is kept twice, and none that was deleted is kept.            *)

\* A sequence without repetition and without anything of D.
Once(s, D) ==
  /\ \A i, j \in 1..Len(s) : s[i] = s[j] => i = j
  /\ \A i \in 1..Len(s) : s[i] \notin D

\* Erase and deinit call the deleter on every element, so one that is there twice, or is
\* there after it was deleted, would be deleted again.
HeldOnce == \A p \in Plugins : Once(Items(store[p]), deleted[p])

\* A new element at the end repeats nothing.
LEMMA OnceAppended ==
  ASSUME NEW s \in Seq(Elem), NEW D, Once(s, D), NEW e \in Elem,
         e \notin D, \A i \in 1..Len(s) : s[i] # e
  PROVE  Once(Append(s, e), D)
<1>1. /\ Len(s) \in Nat /\ Len(Append(s, e)) = Len(s) + 1
      /\ \A i \in 1..Len(s) : Append(s, e)[i] = s[i]
      /\ Append(s, e)[Len(s) + 1] = e
  BY AppendProperties, LenProperties
<1>2. \A i \in 1..(Len(s) + 1) : i \in 1..Len(s) \/ i = Len(s) + 1
  BY <1>1
<1>3. QED
  BY <1>1, <1>2 DEF Once

\* An element that is removed is not among those that stay.
LEMMA OnceRemoved ==
  ASSUME NEW s \in Seq(Elem), NEW D, Once(s, D), NEW k \in 1..Len(s)
  PROVE  Once(RemoveAt(s, k), D \cup {s[k]})
<1> DEFINE r == RemoveAt(s, k)
           at(i) == IF i < k THEN i ELSE i + 1
<1>1. /\ Len(s) \in Nat /\ Len(r) = Len(s) - 1
      /\ \A i \in 1..(Len(s) - 1) : r[i] = IF i < k THEN s[i] ELSE s[i + 1]
  BY RemoveAtCloses, LenProperties
<1> HIDE DEF r
<1>2. \A i \in 1..Len(r) : at(i) \in 1..Len(s) /\ at(i) # k /\ r[i] = s[at(i)]
  BY <1>1
<1>3. \A i, j \in 1..Len(r) : at(i) = at(j) => i = j
  BY <1>1
<1> HIDE DEF at
<1>4. \A i \in 1..Len(r) : r[i] \notin D \cup {s[k]}
  BY <1>2 DEF Once
<1>5. \A i, j \in 1..Len(r) : r[i] = r[j] => i = j
  BY <1>2, <1>3 DEF Once
<1>6. QED
  BY <1>4, <1>5 DEF Once, r

\* The plugin pushes only elements that are new, and what erase and deinit delete is gone.
LEMMA HeldOnceStep == StoreInv /\ HeldOnce /\ [Next]_vars => HeldOnce'
<1> SUFFICES ASSUME StoreInv, HeldOnce, [Next]_vars
             PROVE  HeldOnce'
  OBVIOUS
<1>1. /\ \A p \in Plugins : Sound(store[p], Elem) /\ Once(Items(store[p]), deleted[p])
      /\ DOMAIN store = Plugins /\ DOMAIN deleted = Plugins
      /\ \A p \in Plugins : Items(store[p]) \in Seq(Elem)
                            /\ Len(Items(store[p])) = store[p].cnt
                            /\ \A i \in 1..store[p].cnt : Items(store[p])[i] = store[p].mem[i]
  BY ItemsOfSound DEF StoreInv, HeldOnce
<1>2. ASSUME NEW p \in Plugins, Once(Items(store'[p]), deleted'[p]),
             \A q \in Plugins : q # p => store'[q] = store[q] /\ deleted'[q] = deleted[q]
      PROVE  HeldOnce'
  <2>1. \A q \in Plugins : Once(Items(store'[q]), deleted'[q])
    BY <1>1, <1>2
  <2>2. QED
    BY <2>1 DEF HeldOnce
<1>3. ASSUME NEW p \in Plugins, Push(p)
      PROVE  HeldOnce'
  <2>1. PICK e \in Elem, mul \in MULs, ok \in BOOLEAN :
          /\ e \notin deleted[p] /\ \A i \in 1..store[p].cnt : store[p].mem[i] # e
          /\ store' = [store EXCEPT ![p] = PushBack(store[p], mul, e, ok)]
    BY <1>3 DEF Push
  <2>2. Items(PushBack(store[p], mul, e, ok)) =
          IF Refuses(store[p], ok) THEN Items(store[p]) ELSE Append(Items(store[p]), e)
    BY <1>1, PluginAssumption, PushBackAppends
  <2>3. Once(Append(Items(store[p]), e), deleted[p])
    BY <1>1, <2>1, OnceAppended
  <2>4. store'[p] = PushBack(store[p], mul, e, ok) /\ deleted' = deleted
    BY <1>1, <1>3, <2>1 DEF Push
  <2>5. Once(Items(store'[p]), deleted'[p])
    BY <1>1, <2>2, <2>3, <2>4
  <2>6. QED
    BY <1>1, <1>2, <2>1, <2>4, <2>5
<1>4. ASSUME NEW p \in Plugins, EraseElement(p)
      PROVE  HeldOnce'
  <2>1. PICK index \in 0..LastId(store[p]), free \in BOOLEAN :
          /\ deleted' = [deleted EXCEPT ![p] = deleted[p] \cup {Get(store[p], index)}]
          /\ store' = [store EXCEPT ![p] = Erase(store[p], index, free)]
    BY <1>4 DEF EraseElement
  <2>2. Items(Erase(store[p], index, free)) = RemoveAt(Items(store[p]), index + 1)
    BY <1>1, EraseRemoves
  <2>3. index + 1 \in 1..Len(Items(store[p]))
        /\ Get(store[p], index) = Items(store[p])[index + 1]
    BY <1>1, ItemsAreCells
  <2>4. Once(RemoveAt(Items(store[p]), index + 1),
             deleted[p] \cup {Items(store[p])[index + 1]})
    BY <1>1, <2>3, OnceRemoved
  <2>5. Once(Items(store'[p]), deleted'[p])
    BY <1>1, <2>1, <2>2, <2>3, <2>4
  <2>6. QED
    BY <1>1, <1>2, <2>1, <2>5
<1>5. ASSUME NEW p \in Plugins, DeinitStore(p)
      PROVE  HeldOnce'
  <2>1. Items(Deinit(store[p])) = <<>>
    BY <1>1, DeinitEmpties
  <2>2. store'[p] = Deinit(store[p])
    BY <1>1, <1>5 DEF DeinitStore
  <2>3. Once(Items(store'[p]), deleted'[p])
    BY <2>1, <2>2 DEF Once
  <2>4. QED
    BY <1>1, <1>2, <1>5, <2>3 DEF DeinitStore
<1>6. ASSUME store' = store, deleted' = deleted
      PROVE  HeldOnce'
  BY <1>6 DEF HeldOnce
<1>7. ASSUME NEW p \in Plugins,
             Load(p) \/ KernStart(p) \/ Register(p) \/ Probe(p) \/ Start(p) \/ Stop(p)
               \/ Unload(p) \/ RouteVirtual(p)
      PROVE  HeldOnce'
  BY <1>6, <1>7 DEF Load, KernStart, RequestAccess, ShouldLoad, PluginStarted, ReleaseAccess,
                Register, Probe, Start, Stop, Unload, RouteVirtual, storeVars
<1>8. ASSUME Lilu \/ UNCHANGED vars
      PROVE  HeldOnce'
  BY <1>6, <1>8 DEF Lilu, FinaliseRequests, KextLoaded, KextCallback, KextUnloaded,
                    vars, storeVars
<1>9. QED
  BY <1>3, <1>4, <1>5, <1>7, <1>8 DEF Next, Plugin

\* No element of a plugin's evector is there twice, and none that the deleter got is still
\* there: whatever is pushed, erased, freed and refused, each element is deleted at most once.
THEOREM ElementsHeldOnce == Spec => []HeldOnce
<1>1. Init => HeldOnce
  BY EmptyIsSound DEF Init, HeldOnce, Once
<1>2. PluginInv /\ HeldOnce /\ [Next]_vars => HeldOnce'
  BY HeldOnceStep DEF PluginInv
<1>3. QED
  BY <1>1, <1>2, PluginInvHolds, PTL DEF Spec

-----------------------------------------------------------------------------
(* The loop of solveMultiple comes to what KextCallback takes as its       *)
(* result, for every number of requests.  A run of n iterations is a       *)
(* function on 0..n; what holds at its start and is kept by an iteration   *)
(* holds in all of it, or there would be a first place where it does not.  *)

\* The function as it runs through n iterations.
Runs(run, n, old, old_code, found, start, size, force, crash) ==
  /\ run[0] = Entered(old, old_code)
  /\ \A k \in 1..n :
       /\ run[k - 1].out = "loop"
       /\ run[k] = Iteration(run[k - 1], found, start, size, force, crash)

\* Where the loop is after k iterations, and what it has done: the requests before index
\* are stored or, as failures that do not end it, cleared.
LoopInv(s, k, old, old_code, found, start, size, force, crash) ==
  LET failed == Failed(found, start, size)
      stops == Stops(found, start, size, force, crash)
      cleared == IF \E j \in failed : j < s.index THEN "NoError" ELSE old_code
  IN  /\ s = [index |-> s.index, addr |-> s.addr, code |-> s.code, out |-> s.out]
      /\ s.index \in 1..(NumRequests + 1)
      /\ s.addr = [i \in Requests |-> IF i < s.index /\ i \notin failed THEN found[i] ELSE old[i]]
      /\ \A j \in stops : j >= s.index
      /\ \/ s.out = "loop" /\ s.code = cleared /\ s.index = k + 1
         \/ s.out = "true" /\ s.code = cleared /\ s.index = NumRequests + 1 /\ k = s.index
         \/ s.out = "false" /\ s.code = "NoError" /\ s.index \in stops /\ k = s.index
            /\ ~(crash /\ found[s.index] # 0)
         \/ s.out = "panic" /\ s.code = "InvalidSymbolFound" /\ s.index \in stops /\ k = s.index
            /\ crash /\ found[s.index] # 0

\* One iteration keeps it.
LEMMA LoopInvStep ==
  ASSUME NEW found, DOMAIN found = Requests, NEW old, NEW old_code, NEW start, NEW size,
         NEW force \in BOOLEAN, NEW crash \in BOOLEAN, NEW k \in Nat, NEW s,
         LoopInv(s, k, old, old_code, found, start, size, force, crash), s.out = "loop"
  PROVE  LoopInv(Iteration(s, found, start, size, force, crash), k + 1,
                 old, old_code, found, start, size, force, crash)
<1> DEFINE failed == Failed(found, start, size)
           stops == Stops(found, start, size, force, crash)
           i == s.index
           t == Iteration(s, found, start, size, force, crash)
           cleared(m) == IF \E j \in failed : j < m THEN "NoError" ELSE old_code
           stored(m) == [r \in Requests |-> IF r < m /\ r \notin failed THEN found[r] ELSE old[r]]
<1>1. /\ NumRequests \in Nat /\ Requests = 1..NumRequests /\ failed \subseteq Requests
      /\ stops = {j \in failed : ~force \/ (crash /\ found[j] # 0)}
  BY PluginAssumption DEF Requests, Failed, Stops
<1>2. /\ s = [index |-> i, addr |-> s.addr, code |-> s.code, out |-> s.out]
      /\ i \in 1..(NumRequests + 1) /\ i = k + 1
      /\ s.addr = stored(i) /\ s.code = cleared(i)
      /\ \A j \in stops : j >= i
  BY DEF LoopInv
<1> HIDE DEF failed, stops
<1>3. \A m \in Requests : cleared(m + 1) = IF m \in failed THEN "NoError" ELSE cleared(m)
  <2> SUFFICES ASSUME NEW m \in Requests
               PROVE  (\E j \in failed : j < m + 1) <=> m \in failed \/ \E j \in failed : j < m
    OBVIOUS
  <2>1. \A j \in failed : j < m + 1 <=> j = m \/ j < m
    BY <1>1
  <2>2. m < m + 1
    BY <1>1
  <2>3. QED
    BY <2>1, <2>2
<1>4. ASSUME t = [index |-> t.index, addr |-> t.addr, code |-> t.code, out |-> t.out],
             t.index \in 1..(NumRequests + 1), t.addr = stored(t.index),
             \A j \in stops : j >= t.index,
             \/ t.out = "loop" /\ t.code = cleared(t.index) /\ t.index = (k + 1) + 1
             \/ t.out = "true" /\ t.code = cleared(t.index) /\ t.index = NumRequests + 1
                /\ k + 1 = t.index
             \/ t.out = "false" /\ t.code = "NoError" /\ t.index \in stops /\ k + 1 = t.index
                /\ ~(crash /\ found[t.index] # 0)
             \/ t.out = "panic" /\ t.code = "InvalidSymbolFound" /\ t.index \in stops
                /\ k + 1 = t.index /\ crash /\ found[t.index] # 0
      PROVE  LoopInv(t, k + 1, old, old_code, found, start, size, force, crash)
  <2> HIDE DEF t
  <2>1. QED
    BY <1>4 DEF LoopInv, failed, stops
<1>5. CASE i \notin Requests
  <2>1. t = [s EXCEPT !.out = "true"]
    BY <1>1, <1>5 DEF Iteration, failed
  <2>2. t = [index |-> i, addr |-> stored(i), code |-> cleared(i), out |-> "true"]
    BY <1>2, <2>1
  <2>3. i = NumRequests + 1
    BY <1>1, <1>2, <1>5
  <2> HIDE DEF t, stored, cleared
  <2>4. /\ t.index = i /\ t.addr = stored(i) /\ t.code = cleared(i) /\ t.out = "true"
        /\ t = [index |-> t.index, addr |-> t.addr, code |-> t.code, out |-> t.out]
    BY <2>2
  <2>5. LoopInv(t, k + 1, old, old_code, found, start, size, force, crash)
    BY <1>1, <1>2, <1>4, <2>2, <2>3, <2>4
  <2>6. QED
    BY <2>5 DEF t
<1>6. CASE i \in Requests \ failed
  <2>1. t = [s EXCEPT !.addr = [s.addr EXCEPT ![i] = found[i]], !.index = i + 1]
    BY <1>6 DEF Iteration, failed
  <2>2. [s.addr EXCEPT ![i] = found[i]] = stored(i + 1)
    <3>1. \A r \in Requests : r < i + 1 <=> r < i \/ r = i
      BY <1>1, <1>2
    <3>2. i < i + 1
      BY <1>1, <1>2
    <3>3. QED
      BY <1>2, <1>6, <3>1, <3>2
  <2>3. t = [index |-> i + 1, addr |-> stored(i + 1), code |-> cleared(i + 1), out |-> "loop"]
    <3>1. cleared(i + 1) = cleared(i)
      BY <1>3, <1>6
    <3> HIDE DEF t, cleared, stored
    <3>2. QED
      BY <1>2, <2>1, <2>2, <3>1 DEF t
  <2>4. /\ i + 1 \in 1..(NumRequests + 1) /\ i + 1 = (k + 1) + 1
        /\ \A j \in stops : j >= i + 1
    BY <1>1, <1>2, <1>6
  <2> HIDE DEF t, stored, cleared
  <2>5. /\ t.index = i + 1 /\ t.addr = stored(i + 1) /\ t.code = cleared(i + 1) /\ t.out = "loop"
        /\ t = [index |-> t.index, addr |-> t.addr, code |-> t.code, out |-> t.out]
    BY <2>3
  <2>6. LoopInv(t, k + 1, old, old_code, found, start, size, force, crash)
    BY <1>1, <1>2, <1>4, <2>3, <2>4, <2>5
  <2>7. QED
    BY <2>6 DEF t
<1>7. CASE i \in failed /\ crash /\ found[i] # 0
  <2>1. t = [s EXCEPT !.code = "InvalidSymbolFound", !.out = "panic"]
    BY <1>1, <1>7 DEF Iteration, failed
  <2>2. t = [index |-> i, addr |-> stored(i), code |-> "InvalidSymbolFound", out |-> "panic"]
    BY <1>2, <2>1
  <2>3. i \in stops
    BY <1>1, <1>7
  <2> HIDE DEF t, stored, cleared
  <2>4. /\ t.index = i /\ t.addr = stored(i) /\ t.code = "InvalidSymbolFound" /\ t.out = "panic"
        /\ t = [index |-> t.index, addr |-> t.addr, code |-> t.code, out |-> t.out]
    BY <2>2
  <2>5. LoopInv(t, k + 1, old, old_code, found, start, size, force, crash)
    BY <1>1, <1>2, <1>4, <1>7, <2>2, <2>3, <2>4
  <2>6. QED
    BY <2>5 DEF t
<1>8. CASE i \in failed /\ ~(crash /\ found[i] # 0)
  <2>1. t = [s EXCEPT !.code = "NoError", !.index = IF force THEN i + 1 ELSE i,
                      !.out = IF force THEN "loop" ELSE "false"]
    BY <1>1, <1>8 DEF Iteration, failed
  <2>2. CASE force
    <3>1. stored(i + 1) = stored(i)
      <4>1. \A r \in Requests : r < i + 1 /\ r \notin failed <=> r < i /\ r \notin failed
        BY <1>1, <1>2, <1>8
      <4>2. QED
        BY <4>1
    <3>2. cleared(i + 1) = "NoError"
      BY <1>1, <1>3, <1>8
    <3>3. t = [index |-> i + 1, addr |-> stored(i + 1), code |-> cleared(i + 1), out |-> "loop"]
      <4> HIDE DEF t, cleared, stored
      <4>1. QED
        BY <1>2, <2>1, <2>2, <3>1, <3>2
    <3>4. i \notin stops
      BY <1>1, <1>8, <2>2
    <3>5. /\ i + 1 \in 1..(NumRequests + 1) /\ i + 1 = (k + 1) + 1
          /\ \A j \in stops : j >= i + 1
      BY <1>1, <1>2, <1>8, <3>4
    <3> HIDE DEF t, stored, cleared
    <3>6. /\ t.index = i + 1 /\ t.addr = stored(i + 1) /\ t.code = cleared(i + 1) /\ t.out = "loop"
          /\ t = [index |-> t.index, addr |-> t.addr, code |-> t.code, out |-> t.out]
      BY <3>3
    <3>7. LoopInv(t, k + 1, old, old_code, found, start, size, force, crash)
      BY <1>1, <1>2, <1>4, <3>3, <3>5, <3>6
    <3>8. QED
      BY <3>7 DEF t
  <2>3. CASE ~force
    <3>1. t = [index |-> i, addr |-> stored(i), code |-> "NoError", out |-> "false"]
      BY <1>2, <2>1, <2>3
    <3>2. i \in stops
      BY <1>1, <1>8, <2>3
    <3> HIDE DEF t, stored, cleared
    <3>3. /\ t.index = i /\ t.addr = stored(i) /\ t.code = "NoError" /\ t.out = "false"
          /\ t = [index |-> t.index, addr |-> t.addr, code |-> t.code, out |-> t.out]
      BY <3>1
    <3>4. LoopInv(t, k + 1, old, old_code, found, start, size, force, crash)
      BY <1>1, <1>2, <1>4, <1>8, <3>1, <3>2, <3>3
    <3>5. QED
      BY <3>4 DEF t
  <2>4. QED
    BY <2>2, <2>3
<1>9. QED
  BY <1>1, <1>5, <1>6, <1>7, <1>8

\* A set of natural numbers that is not empty has a least one.
LEMMA LeastOne ==
  ASSUME NEW T, T \subseteq Nat, T # {}
  PROVE  \E x \in T : \A y \in T : ~(y < x)
<1>1. PICK x \in T : \A y \in T : ~(<<y, x>> \in OpToRel(<, Nat))
  BY NatLessThanWellFounded, WFMin
<1>2. \A y \in T : <<y, x>> \in OpToRel(<, Nat) <=> y < x
  BY DEF OpToRel
<1>3. QED
  BY <1>1, <1>2

\* So it holds after every number of iterations.
LEMMA LoopInvRuns ==
  ASSUME NEW found, DOMAIN found = Requests, NEW old, old = [r \in Requests |-> old[r]],
         NEW old_code, NEW start, NEW size,
         NEW force \in BOOLEAN, NEW crash \in BOOLEAN, NEW n \in Nat, NEW run,
         Runs(run, n, old, old_code, found, start, size, force, crash)
  PROVE  \A k \in 0..n : LoopInv(run[k], k, old, old_code, found, start, size, force, crash)
<1> DEFINE Bad == {k \in 0..n :
                     ~LoopInv(run[k], k, old, old_code, found, start, size, force, crash)}
<1>1. /\ NumRequests \in Nat /\ Requests = 1..NumRequests
      /\ Failed(found, start, size) \subseteq Requests
      /\ Stops(found, start, size, force, crash) \subseteq Requests
  BY PluginAssumption DEF Requests, Failed, Stops
<1>2. LoopInv(run[0], 0, old, old_code, found, start, size, force, crash)
  <2>1. run[0] = [index |-> 1, addr |-> old, code |-> old_code, out |-> "loop"]
    BY DEF Runs, Entered
  <2>2. /\ \A j \in Requests : ~(j < 1) /\ j >= 1
        /\ 1 \in 1..(NumRequests + 1)
    BY <1>1
  <2>3. old = [r \in Requests |-> IF r < 1 /\ r \notin Failed(found, start, size)
                                  THEN found[r] ELSE old[r]]
    BY <2>2
  <2>4. /\ \A j \in Failed(found, start, size) : ~(j < 1)
        /\ \A j \in Stops(found, start, size, force, crash) : j >= 1
    BY <1>1, <2>2
  <2>5. /\ run[0].index = 1 /\ run[0].addr = old /\ run[0].code = old_code /\ run[0].out = "loop"
        /\ run[0] = [index |-> run[0].index, addr |-> run[0].addr,
                     code |-> run[0].code, out |-> run[0].out]
    BY <2>1
  <2>6. QED
    BY <2>2, <2>3, <2>4, <2>5 DEF LoopInv
<1>3. ASSUME Bad # {}
      PROVE  FALSE
  <2>1. PICK m \in Bad : \A y \in Bad : ~(y < m)
    <3>1. Bad \subseteq Nat
      OBVIOUS
    <3> HIDE DEF Bad
    <3>2. QED
      BY <1>3, <3>1, LeastOne
  <2>2. m \in 0..n /\ m # 0
    BY <1>2, <2>1
  <2>3. m - 1 \in 0..n /\ m - 1 \in Nat /\ m - 1 < m /\ (m - 1) + 1 = m /\ m \in 1..n
    BY <2>2
  <2>4. LoopInv(run[m - 1], m - 1, old, old_code, found, start, size, force, crash)
    BY <2>1, <2>3
  <2>5. /\ run[m - 1].out = "loop"
        /\ run[m] = Iteration(run[m - 1], found, start, size, force, crash)
    BY <2>3 DEF Runs
  <2>6. LoopInv(run[m], m, old, old_code, found, start, size, force, crash)
    BY <2>3, <2>4, <2>5, LoopInvStep
  <2>7. QED
    BY <2>1, <2>6
<1>4. QED
  BY <1>3

\* However many requests there are, solveMultiple ends after at most one iteration more, and
\* when it does the addresses, the error code, the answer and the panic are the ones
\* KextCallback takes (kern_patcher.hpp:263-275).
THEOREM SolveMultipleComesTo ==
  ASSUME NEW found, DOMAIN found = Requests, NEW old, old = [r \in Requests |-> old[r]],
         NEW old_code, NEW start, NEW size,
         NEW force \in BOOLEAN, NEW crash \in BOOLEAN, NEW n \in Nat, NEW run,
         Runs(run, n, old, old_code, found, start, size, force, crash)
  PROVE  /\ n <= NumRequests + 1
         /\ n = NumRequests + 1 => run[n].out # "loop"
         /\ run[n].out # "loop" =>
              /\ run[n].addr = Stored(old, found, start, size, force, crash)
              /\ run[n].code = CodeAfter(old_code, found, start, size, force, crash)
              /\ run[n].out = "true" <=> Returned(found, start, size, force, crash)
              /\ run[n].out = "panic" <=> Crashes(found, start, size, force, crash)
              /\ run[n].out \in {"true", "false", "panic"}
<1> DEFINE s == run[n]
           failed == Failed(found, start, size)
           stops == Stops(found, start, size, force, crash)
           reached == Reached(found, start, size, force, crash)
<1>1. /\ NumRequests \in Nat /\ Requests = 1..NumRequests /\ failed \subseteq Requests
      /\ stops = {j \in failed : ~force \/ (crash /\ found[j] # 0)}
      /\ reached = {i \in Requests : \A j \in stops : i <= j}
  BY PluginAssumption DEF Requests, Failed, Stops, Reached
<1>2. LoopInv(s, n, old, old_code, found, start, size, force, crash)
  BY LoopInvRuns
<1> HIDE DEF s
<1>3. /\ s.index \in 1..(NumRequests + 1)
      /\ s.addr = [i \in Requests |-> IF i < s.index /\ i \notin failed THEN found[i] ELSE old[i]]
      /\ \A j \in stops : j >= s.index
  BY <1>2 DEF LoopInv
<1>4. \/ s.out = "loop" /\ s.index = n + 1
      \/ /\ s.out = "true" /\ s.index = NumRequests + 1 /\ n = s.index
         /\ s.code = IF \E j \in failed : j < s.index THEN "NoError" ELSE old_code
      \/ /\ s.out = "false" /\ s.index \in stops /\ n = s.index
         /\ s.code = "NoError" /\ ~(crash /\ found[s.index] # 0)
      \/ /\ s.out = "panic" /\ s.index \in stops /\ n = s.index
         /\ s.code = "InvalidSymbolFound" /\ crash /\ found[s.index] # 0
  BY <1>2 DEF LoopInv
<1> HIDE DEF failed, stops, reached
<1>5. CASE s.out = "loop"
  BY <1>1, <1>3, <1>4, <1>5 DEF s
<1>6. CASE s.out = "true"
  <2>1. stops = {} /\ reached = Requests /\ \A j \in Requests : j < s.index
    BY <1>1, <1>3, <1>4, <1>6
  <2>2. n <= NumRequests + 1
    BY <1>1, <1>4, <1>6
  <2>3. s.addr = Stored(old, found, start, size, force, crash)
    <3>1. \A i \in Requests : i \in reached \ failed <=> i < s.index /\ i \notin failed
      BY <2>1
    <3>2. QED
      BY <1>3, <3>1 DEF Stored, reached, failed
  <2>4. ~Crashes(found, start, size, force, crash)
    BY <1>1, <2>1 DEF Crashes, failed
  <2>5. s.code = CodeAfter(old_code, found, start, size, force, crash)
    <3>1. (\E j \in failed : j < s.index) <=> reached \cap failed # {}
      BY <1>1, <2>1
    <3>2. QED
      BY <1>4, <1>6, <2>4, <3>1 DEF CodeAfter, reached, failed
  <2>6. QED
    BY <1>6, <2>1, <2>2, <2>3, <2>4, <2>5 DEF s, Returned, stops
<1>7. CASE s.out \in {"false", "panic"}
  <2>1. s.index \in stops /\ s.index \in failed /\ s.index \in Requests /\ n = s.index
    BY <1>1, <1>4, <1>7
  <2>2. \A i \in Requests : i \in reached <=> i <= s.index
    BY <1>1, <1>3, <2>1
  <2>3. n <= NumRequests + 1 /\ n # NumRequests + 1
    BY <1>1, <2>1
  <2>4. s.addr = Stored(old, found, start, size, force, crash)
    <3>1. \A i \in Requests : i \in reached \ failed <=> i < s.index /\ i \notin failed
      <4>1. \A i \in Requests : i <= s.index <=> i < s.index \/ i = s.index
        BY <1>1, <2>1
      <4>2. QED
        BY <2>1, <2>2, <4>1
    <3>2. QED
      BY <1>3, <3>1 DEF Stored, reached, failed
  <2>5. s.index \in reached \cap failed /\ stops # {}
    BY <1>1, <2>1, <2>2
  <2>6. Crashes(found, start, size, force, crash) <=> s.out = "panic"
    <3>1. CASE s.out = "panic"
      BY <1>4, <2>5, <3>1 DEF Crashes, reached, failed
    <3>2. CASE s.out = "false"
      <4>1. ASSUME crash, NEW i \in reached \cap failed, found[i] # 0
            PROVE  FALSE
        <5>1. i \in stops /\ i <= s.index /\ i >= s.index
          BY <1>1, <1>3, <2>2, <4>1
        <5>2. i = s.index
          BY <1>1, <2>1, <4>1, <5>1
        <5>3. QED
          BY <1>4, <3>2, <4>1, <5>2
      <4>2. QED
        BY <3>2, <4>1 DEF Crashes, reached, failed
    <3>3. QED
      BY <1>7, <3>1, <3>2
  <2>7. s.code = CodeAfter(old_code, found, start, size, force, crash)
    BY <1>4, <1>7, <2>5, <2>6 DEF CodeAfter, reached, failed
  <2>8. QED
    BY <1>7, <2>3, <2>4, <2>5, <2>6, <2>7 DEF s, Returned, stops
<1>8. QED
  BY <1>4, <1>5, <1>6, <1>7
=============================================================================
