# Verification of the ThinkPad X1 Yoga Gen 5 configuration

This directory holds TLA+ specifications of the program code in this repository, the TLC
runs that check them on small instances, and proofs that TLAPS checks for every instance.
The repository is an EFI folder: most of it is data (property lists), binaries (the kexts)
and documentation. The code it carries as source is of three kinds: ACPI tables written in
ASL, the C++ headers of Lilu that every plugin compiles in, and the VirtualSMC SDK headers.

Paths below are relative to `src/`. `K` stands for `EFI/OC/Kexts`.

## 1. Inventory

| Component | Source | State | Operations | Status |
| --- | --- | --- | --- | --- |
| ThreadLocal | `K/Lilu.kext/.../Headers/kern_util.hpp` 665-757 | N slots: atomic owner, plain value | set, get, erase, deinit | modelled, proved |
| CircularBuffer | `kern_util.hpp` 954-1148 | storage, size, two indices, count, recursive lock | withCapacity, safeDeleter, init, deinit, push, pop, isEmpty, isFull, getCount | modelled, proved |
| PNLF backlight | `EFI/OC/ACPI/SSDT-ALL.dsl` 308-565 | PWM registers LEVX, LEVL, LEVW, GRAN; `_UID` | `_INI`, INI1 | modelled, proved |
| EC access | `SSDT-ALL.dsl` 691-742 | the controller's RAM, the method mutexes and objects | RE1B, WE1B, RECB, WECB | modelled, proved |
| BATC | `K/SMCBatteryManager.kext/.../SSDT-BATC.dsl` | none of its own, reads BAT0 and BAT1 | `_INI`, `_STA`, `_BIF`, `_BIX`, `_BST` | modelled, proved |
| evector | `kern_util.hpp` 764-945 | pointer, count, reserved | reserve, push_back, erase, deinit, last, `[]` | modelled, proved |
| Symbol solving, routing | `kern_patcher.hpp` 195-300, 430-450 | error code, solved addresses, a vtable | solveSymbol, solveMultiple, routeVirtual | modelled, proved |
| Plugin start and stop | `K/Lilu.kext/.../Library/plugin_start.cpp` | startSuccess, selfInstance, API access, callbacks | kern_start, probe, start, stop, kern_stop | modelled, proved |
| OS gate, HPET, IRQs | `SSDT-ALL.dsl`, `config.plist` | none | `\_INI`, `_STA`, `_CRS` | not modelled |
| Thunderbolt tree | `SSDT-TB.dsl` | none | `_STA`, `_RMV`, DTGP | not modelled |
| Other Lilu headers | `kern_user.hpp`, `kern_mach.hpp`, `kern_rtc.hpp`, ... | in the binaries | declarations | not modelled |
| VirtualSMC SDK | `K/VirtualSMC.kext/.../VirtualSMCSDK` | in the binary | declarations, byte-order wrappers | not modelled |
| Capstone, HDE | `Headers/capstone`, `hde*.h` | - | - | third party |
| Configuration, kexts, docs | `config.plist`, `*.kext`, `docs/` | - | - | data |

How they interact. The kernel's threads share a ThreadLocal or a CircularBuffer of a plugin
through memory alone. A plugin's kern_start enters Lilu under Lilu's access lock and
registers callbacks, which Lilu keeps in an evector and calls when a kext is loaded; the
callback solves symbols in that kext and routes its functions, and IOKit meanwhile probes,
starts, stops and unloads the plugin. macOS evaluates the ACPI methods: the brightness
driver reads what PNLF's `_INI` left in the registers and picks a panel profile by `_UID`;
the battery driver evaluates BATC, which calls the firmware's BAT0 and BAT1, and these read
the controller, through RECB when their fields are wide. The interpreter runs one method at
a time until the method blocks, which every access to the embedded controller does.

What is hard, per component, and what makes it correct:

- **ThreadLocal** has no lock. Its scans are not snapshots, its value array is not atomic, and
  deinit runs over both arrays. Correct: every thread sees a private map; a slot has one
  owner; only the owner gives it up; a new owner never meets an old value.
- **CircularBuffer** takes a recursive lock twice and changes three counters in separate
  statements; creation can fail at each of three allocations. Correct: a bounded FIFO queue, a
  balanced lock, counters that agree whenever it is free, no leak.
- **PNLF** writes registers of a lit panel one after the other and rescales a level with
  integer division. Correct: the duty cycle never exceeds the period, the relative brightness
  is kept, the profile belongs to the period.
- **EC access** interleaves at each byte, with the firmware and other threads, and a byte
  method that is not serialized may fail half way. Correct: balanced mutexes, no byte outside
  the own field, no made-up byte, failure only on a real collision, progress.
- **BATC** reads two batteries by four calls, between which a battery may come or go, and
  validates them separately per method. Correct: answers no battery contradicts, methods that
  agree with each other.
- **evector** grows by realloc, which may fail, and frees its block on some erases only.
  Correct: a sequence that owns its elements and deletes each once; no access past the block.
- **Symbol solving** leaves results of an earlier load in place and reports failure by its
  result alone. Correct: true without force means that every address is in the kext as it is
  loaded now; no error code is left; a routed call gets to the original function.
- **Plugin start** reports success whatever happened and leaves it to kern_stop to tell
  whether the plugin may go. Correct: whoever may be called back stays loaded; who was refused
  goes; the access lock comes back; nobody who was told to load comes too late to register.

`PROJECT.json` lists the hazards one by one, at their lines, with the properties that cover
each.

## 2. Modules

| Module | Models | Composed with |
| --- | --- | --- |
| `ThreadMap` | abstract: a private value per thread, calls take effect in one step | implemented by `ThreadLocal` |
| `ThreadLocal` | the slots; a step is one atomic access or one access of a value | |
| `ThreadLocalProofs` | theorems about `ThreadLocal` | |
| `BoundedQueue` | abstract: a FIFO queue of limited capacity | implemented by `CircularBuffer` |
| `CircularBuffer` | creation, destruction and calls; a step is one lock operation or one access of the fields | |
| `CircularBufferProofs` | theorems about `CircularBuffer` | |
| `Brightness` | PNLF; a step is one register write or one decision of `_INI` | |
| `BrightnessProofs` | theorems about `Brightness` | |
| `EcAccess` | the four EC methods, the interpreter's mutexes, the firmware | |
| `BatteryCombine` | BATC; a step is one call into a battery's method | |
| `EcAccessProofs`, `BatteryCombineProofs` | theorems about these two | |
| `HeldSequence` | abstract: a sequence that owns its elements | implemented by `PluginStart`'s evectors |
| `Evector` | evector_base: operators on a vector | used by `PluginStart` |
| `EvectorProofs` | what each operation does to the sequence | used by `PluginStartProofs` |
| `SymbolSolver` | the inline part of KernelPatcher: operators on an array of requests | used by `PluginStart` |
| `PluginStart` | plugins, Lilu's access lock and callbacks, IOKit, a kext that comes and goes | extends `Evector`, `SymbolSolver` |
| `PluginStartProofs` | theorems about the three together | |
| `ThreadLocalCrowdingProofs` | when a set is refused | |
| `MC...` | instances for TLC, their history variables and the properties that need one | |

### ThreadLocal

`threads` and `values` are the two arrays. `pc`, `idx` and `arg` are the place, the loop
variable and the argument of a thread's call; `gotPtr` is the slot whose address `get` gave
out, which the caller goes on using. `SetOwn`, `SetNull`, `SetInsert` are the two loops of
`set` and its store; `GetScan` the loop of `get`; `EraseScan`, `EraseClear`, `EraseRelease`
the loop, the store and the compare-exchange of `erase`; `DeinitOwner` and `DeinitValue` the
two stores per slot of `deinit`. `Deref` is the caller reading through the pointer of `get`
(external: no caller has source here). `DeinitAlone` is the owner's contract. The class does
not state it, so the teardown run checks what is left without it. The accesses are
acquire/release and each slot's value is reached after its owner word, so sequential
consistency loses nothing while deinit keeps out. A weak compare-exchange is not used, so a
failed one means that the slot was taken.

### CircularBuffer

`life` is how far creation or destruction has come, `heap` which allocations exist, `owner`
and `depth` the `IORecursiveLock`. `push` and `pop` run the same steps (`Enter`, the nested
`TestEnter`, `Test`, `TestLeave`, then `Transfer`, `Advance`, `CountStep`, `Leave`), which
share their actions and differ in which index and which test. `Sizes` includes 0: the
constructor helper accepts it, and push and pop then always refuse. `Reuse` says whether an
embedded buffer is initialised again after deinit. `init` sets storage and size and may then
fail to get its lock; its owner may try again. An index's increment
and its wrap at the capacity are two assignments in the code and one step (`Advance`), under
the lock that all readers of the index take. Between `init` and `deinit` the model
assumes what the interface needs: the owner does not destroy the buffer while a call is in
progress. Nothing in the code checks it.

### Brightness

`LEVX` is kept as its two halves. `RMCF` is the optional configuration object; a setting
that does not exist has the default that `_INI` gives it. `Detect` is the choice of the
family and of the period, `Prepare` is INI1, `Measure` reads the old period and level and
rescales, `SetPeriod`, `SetLevel` and `SetBoth` are the stores, `Label` picks `_UID`. What
the firmware leaves is any period and any level; the code does not check that the level is
within the period, and what is said about brightness holds for firmware that keeps it so
(`LevelsWithinPeriod`, as the values of the instance do). A `SetBoth` whose product does not
fit a half register would spill into the period; it is modelled as any period, and
`RegistersFit` shows that it does not happen with such firmware. A period that reads as zero
makes the code write neither register (lines 429 and 524), and `ProfileMatchesPeriod` and
`BrightnessKept` leave it out.

### EcAccess

`owner` is the mutex of each serialized method, `inside` the implicit objects of RE1B and
WE1B, which exist while the method runs. What happens when a second thread enters while they
exist depends on the interpreter: one makes it wait from then on, another fails the call.
`Policies` holds both, and a behaviour keeps the one it starts with. An address past the RAM
fails the access. `Firmware` changes any byte at any moment.

### BatteryCombine

`slot` is what the two slots hold, `NoCell` for none, and `present` what `_STA` has returned:
`StaFirst` and `StaSecond` are its two calls, and `_INI` (`Initialise`) runs once it has
reported the device. `Read` is the call of a battery's
`_BIF`, `_BIX` or `_BST`, `Check` the call of its `_STA` and the validity checks, `Return`
the merge. The merge rules are tables (`BifRules`, `BixRules`, `BstRules`) from field to
operation. `Unknown` stands for 0xFFFFFFFF and `Ones` for the interpreter's integer of that
name, which is the same number with 32-bit integers and a larger one with 64-bit integers.

### Evector and HeldSequence

A vector is a record: `mem` is the block as a sequence of cells, `cnt` the elements in use,
`rsvd` what the code believes there is room for. `Reserve`, `PushBack`, `Erase`, `Deinit`,
`Get` and `LastId` are the methods, as operators from a vector to the next, because nobody
shares one without a lock. Whether an allocation succeeds is an argument. A cell that
realloc added holds `Junk`, and one behind the last element holds what was left in it, so
that an operation that forgets to move or to count is seen. `Items` is the sequence a vector
stands for. The deleter is the action that calls the operation (`deleted` in `PluginStart`).

### SymbolSolver

`found` is what the exported `solveSymbol` answers for each request, 0 for none. `InRange`
is the range check with the wrapping sum of line 212, `Failed` the requests that get null,
`Stops` the failures that end `solveMultiple` (any without force, with it one that panics),
`Reached` the requests its loop comes to, and `Stored`, `Returned`, `CodeAfter` and
`Crashes` what it leaves: the address variables, its result, the error code and a panic.
Lines 263-274 are a loop, and `Iteration` is one turn of it. The actions of `PluginStart`
use the four operators, which say in one step what the loop comes to; that they do is
`SolveMultipleComesTo`, and `UnforcedIsSolved` and its companions prove from them what a
caller may rely on.

### PluginStart

Every plugin has its own statics (`startSuccess`, `self` for `selfInstance`), so these are
functions of the plugin; `access`, `requestsOver` and `callbacks` belong to Lilu. `pc` is
where the plugin is between the load and the unload of its kext. `RequestAccess`,
`ShouldLoad`, `PluginStarted` and `ReleaseAccess` are `kern_start` step by step; between
them `Register`, `Push`, `EraseElement` and `DeinitStore` are what `pluginStart` may do.
`Probe`, `Start` and `Stop` are the three methods of the IOService, `Unload` IOKit's call of
`kern_stop`. `KextCallback` is Lilu telling the next plugin of the loaded kext, with the
plugin's `solveMultiple`; `RouteVirtual` follows when that one returned true, with the code's
own test: nothing happens while the plugin's function is the entry (line 444), and else it
is put there, over whatever is (`Replace`). `NoOrg` marks a plugin that passes no `orgFunc`
and so replaces the function for good; any of `Replacing` may. A kext may be
unloaded and be loaded elsewhere (`KextInfo::Reloadable`). `slot` is the entry of the
vtable, `org` what each plugin keeps as the original; `Passed` is what a call through the
entry goes through, as the least set that holds the entry and the original of each of its
members (`ClosedUnderCalls`), so that it can be reasoned about without following the chain.

Taken from how the code uses it, as the bodies are in binaries: the access lock is one
mutex, which `finaliseRequests` takes too; `shouldLoad` refuses when requests are over and
may refuse for reasons of its own; registering fails late or without memory, which
`onKextLoadForce` makes a panic (`kern_api.hpp:181`); IOKit has one instance of a plugin at
a time, frees it when `probe` or `start` fails, and unloads a kext that has none if its
`kern_stop` agrees. A panic stops the machine. One obligation of plugins is assumed: a plugin
empties its evector only with its own operations. Of the build options, the model has the
default: with `LILU_CUSTOM_KMOD_INIT` `startSuccess` begins as true and with
`LILU_CUSTOM_IOKIT_INIT` the plugin brings its own IOService.

## 3. Runs

| Run | Question | Bounds | Result |
| --- | --- | --- | --- |
| `threadlocal` | Is a ThreadLocal a private map, whoever else calls? | 3 threads, 2 slots, 2 values, symmetry | holds |
| `threadlocal_teardown` | What is left when deinit interrupts calls? | 2 threads, 2 slots, 1 value | unique owners, no eviction, termination |
| `circular_buffer` | Is the ring a bounded queue that never blocks or leaks? | 2 threads, capacities 0-2, 2 elements | holds |
| `circular_buffer_reuse` | Is a buffer empty after a second init? | 1 thread, 1 element | violated |
| `brightness` | Is the panel safe and its brightness kept, on every family? | one id per family, all BKLT bits, 5 LMAX, 3 FBTP, periods and levels at the edges | holds |
| `ec_access` | Do byte-wise field accesses stay apart? | 2 threads, 3 bytes, 7 calls, both interpreters | holds |
| `battery` | Does the combined battery make sense, with 32-bit integers? | 6 kinds of battery, 2 slots | holds |
| `battery_unknown` | Are its capacities real with 64-bit integers? | 4 kinds, one of unknown charge | violated |
| `battery_charging` | Is charging reported whatever the states are? | states 1, 2, 3 and 6 | violated |
| `battery_full` | Is the charge within the full capacity for all that `_BIF` may reject? | 3 kinds, one of unknown full capacity | violated |
| `plugin_start` | Do plugins start, register, keep, solve, route and go as they should? | 3 plugins, 2 elements, growth 1 and 2, 2 requests, 3 images, 8 addresses | holds |
| `plugin_start_routes` | Does a call through a routed entry always end? | 2 plugins | violated |

Why the bounds are enough. Two slots and three threads are the least with a full map and a
thread that is refused; N = 2 has a slot that a scan has passed and one still before it.
Capacity 2 with two elements has a ring that is empty, partly full, full, and that wraps;
capacity 0 is the boundary of the modulo. Three bytes hold two overlapping fields of two
bytes and a field that runs over the end; a field of 12 bits is one that ends inside a byte.
A slot changes between at most two readings during one call (`MaxHeld`), which is a battery
pulled or inserted between any two of the four calls. The batteries of the passing run report
each of the states 0 to 5, a charge of zero, an unknown charge, and an unknown full capacity
beside a known charge, so `_BIF` rejects batteries that `_BST` counts and the other way
round. The battery numbers are small, with
1023 for 0xFFFFFFFF: only sums, halves and equality with the special values matter. The
three plugins are one with an evector, one with a provider that solves with force, and one
that was built for an API version that Lilu does not accept; the second may route without
keeping the original. Two elements make a vector that
grows twice, shrinks in the middle and empties. The three images touch: one begins where
another ends, and one ends where the address space does, so that start plus size wraps to 0;
`Found` has the address just past an image. `Focus` keeps the evector and the kext apart: a
kext is only loaded in behaviours in which nobody has kept elements, since nothing that
happens then looks at the vectors. The passing runs visit between 137 thousand
(`brightness`) and 1.2 million (`threadlocal`) distinct states, each in less than two minutes.
The brightness run has periods on both sides of each target, equal to it, zero and one.

Fairness. `FairSpec` of ThreadLocal, of the buffer and of the EC has weak fairness of each
thread's own steps: the kernel schedules a thread that can run, and the interpreter goes on
with a method it has begun. Calls themselves are never fair: a thread may stop calling. The
lock is not assumed fair, so `SomeCallReturns` is about the group of threads and not about
each one. `CallsReturn` of ThreadLocal is per thread, because no loop there retries. In
`PluginStart` the thread of each `kern_start` goes on, and IOKit unloads a kext that has no
instance and agrees: `plugin_start.cpp:88` relies on it. The lock needs no strong fairness
there, because a plugin holds it once in its life.

## 4. Disagreements found

- **Second init of an embedded buffer** (`circular_buffer_reuse`): `init` does not reset
  `indexr`, `indexw`, `count`, and `deinit` does not either. The comment at
  `kern_util.hpp:989` says it initialises the buffer.
- **Unknown capacity with 64-bit integers** (`battery_unknown`): `SSDT-BATC.dsl:334` compares
  with `Ones`, which is not 0xFFFFFFFF there.
- **Charging not reported** (`battery_charging`): `SSDT-BATC.dsl:356` promises charging if one
  battery charges, but 1 comes before 3 in the chain of comparisons and 6 is in no branch.
  `ChargingReported` of the passing run says that these two cases are all.
- **Charge beyond the full capacity** (`battery_full`): `_BIF` leaves out a battery that does
  not know its last full charge capacity (line 101), `_BST` counts it. What does hold is
  `FullCoversCharge`: with batteries that `_BIF` accepts the two never disagree, though they
  check different fields.
- **A second route under another one** (`plugin_start_routes`): `kern_patcher.hpp:443` says not
  to replace twice, but line 444 sees only the entry itself. A plugin that routes again after
  another one did gets the other's function as its original, whose original it is itself.
  What does hold is `RoutesBreakOnlyTwice`: nothing else breaks the way to the original, and
  neither a reload of the kext nor a plugin that replaces the function for good does.

Three more were met and have no run of their own. Each is read off a line or two:

- `docs/acpi.md:38` says that the UHD 620 with id 0x9B3E is detected; it is in none of the
  three lists of PNLF's `_INI` (402-419, 449-475, 487-510) and takes the branch of an unknown
  device, which the brightness run includes.
- `kern_patcher.hpp:261` promises false if a symbol cannot be solved; with `force` the loop
  goes on (270) and the answer is true (273). `SolvedUnlessForced` leaves these plugins out.
- `kern_patcher.hpp:238` says that a request's address is null when its symbol is not found,
  but the variable is left alone (line 268), so after a reload it keeps the address of the
  earlier load. What does hold is `SolvedUnlessForced`: whoever looks at the result of the
  load in question never uses one.

## 5. Proofs

`ThreadLocalProofs`, for all `Threads`, `Values` and every `N > 0`: `TypeCorrect`;
`SlotsAreUnique`, which is not inductive alone: a thread that claims a slot must be known to
own none, so `UniqueInv` adds what its search has established so far (`SearchedInVain`),
which no other thread can undo since each stores only its own identity; `AccessIsOwn` and
`FreeSlotsAreEmpty` from the inductive `AccessInv`, which adds to them that the caller's
pointer is gone before its slot is, that a slot about to be released is empty already and
that deinit runs alone; `NobodyEvicts`, for deinit at any time.

`CircularBufferProofs`, for all threads, elements and capacities: `LockIsBalanced` and
`BufferNeverLeaks` from `PassageInv`, which says nothing of the ring: what a call does with
the lock depends on its place and its method alone (`Passage`), so these hold for a buffer
that is initialised again with stale indices too. With `~Reuse`, `BufferTypeCorrect` and
`CountersAlwaysAgree` from the inductive invariant `BufferInv`. Its parts cannot be proved
one by one: pop reads inside the
storage because its test still holds, the test still holds because the lock keeps the others
out, and the lock exists because the buffer is live. `RingInv` states how the counters
relate while a thread is half way through, in a linear form (`Agree`) of the modulo that the
code computes.

`BrightnessProofs`, for every set of devices and settings, and under the hypothesis
`LevelsWithinPeriod` of each theorem (no level of the firmware's is above its period, which
the code relies on and does not check): `RegistersFit` and `DutyStaysWithinPeriod` from
`BrightnessInv`, which adds to them what the place in `_INI` says of the registers
(`Writing`). `ScaleFits` is the only nonlinear step: a level within its period is rescaled to
a level within the new period.

`ProfileIsOfPeriod` adds to it that the label is the profile of the period chosen and that
the registers hold that period by then (`Labelled`); `BrightnessStays` that the relative
level is, at every store, either the old one or the one rescaled to the new period
(`KeptInv`).

Refinements. `SlotsImplementMap`: with deinit kept out of the calls and no caller that
stores the empty value (`CallersKeepContract`), `ThreadLocal` implements `ThreadMap`.
`MapInv` adds to uniqueness and access that an owned slot holds a value, but for a set that
has not stored yet and an erase that has emptied already. Then every step has an
`OwnEffect`: one operation on the caller's binding, or nothing; and a claim finds room
because the owners of N slots would be N threads. `BufferImplementsQueue`: with `~Reuse`,
`CircularBuffer` implements `BoundedQueue`. `ViewInv` says which cells the queue is
(`QueueView`, the modulo in linear form) and what a thread half way through a transfer holds
(`Holding`); the queue changes at the step that changes `count`. `KeeperHoldsSequence`: a
plugin's evector implements `HeldSequence`.

`ThreadLocalCrowdingProofs` proves `RefusedUnderCrowding`, for deinit at any time too. The
argument is not obvious: an owner that a scan has met may free its slot, claim one further
on, and be met twice. `CrowdInv` says that a scan at slot i has i - 1 rivals that own no
slot before it. A thread that claims slot k before the scan, and has been met, has itself
scanned since it was, and left k - 1 rivals behind slot k (`CrowdWhenClaimed`); these are
rivals of the first scan too, since they owned a slot while it ran (`Later`), and at most
(k - i) of them own a slot from i to k.

`EcAccessProofs`, for every size of RAM, every set of calls and both interpreters:
`EcTypeCorrect`, `NothingStaysLocked`, `WritesStayInField`, `FailureIsCollision` from
`EcInv`, which ties the place of a thread to the mutex it holds, its index to its field, and
the shared buffer of WECB to the argument of its holder. `RepliesAreReal` adds that every
byte a call has moved was in RAM since the call began (`Moved`). From the same invariant,
for the other direction, `WritesAreWhole`: a write that returns ok has put every byte of its
argument in place, although all calls of WECB share one buffer. `WaitingNeverFails`: under an
interpreter that lets the second entry wait, a call fails only past the end of the RAM.

`BatteryCombineProofs`, for all batteries and changes: `BatteryTypeCorrect`,
`BixAgreesWithBif` and `ChargingIsReported`, which is about every charging battery in the
cases the branches cover; the property names the two that they do not. Two more need
something of the batteries, which the theorems state as hypotheses: `RemainingIsReal` that
`Ones` is the unknown value and that sums of capacities stay below it (`CapacitiesFit`, which
the `battery_unknown` run shows to be needed), and `ChargeStaysWithinFull` that a battery
whose data `_BIF` accepts holds no more than its full capacity (`ChargeWithinFull`); of the
others, which `_BIF` rejects, nothing is assumed. The proof of the latter is that `_BST`
counts no battery that `_BIF` leaves out, so its sum has fewer terms, each one smaller. Their
invariant `HistoryInv` says that each package and each status read is that of a cell the slot
held during the call. The same invariant gives `LoneBatteryPassed`: a machine with one
battery is told what that battery reports and nothing else.
`BatteriesInterchange` is about the merge alone: it names the fields that do not depend on
which battery is in which slot; the others are those the code takes from BAT0 first.

`EvectorProofs`, for every vector that is `Sound`: `PushBackAppends`, `EraseRemoves`,
`DeinitEmpties`, whether allocations succeed or not. `PluginStartProofs`, for all plugins,
images, answers and numbers of requests: `PluginTypeCorrect`, `CallbacksStayLive`,
`StartedNeverTooLate`, `StorageStaysSound`, `UnforcedIsSolved`, `ErrorsAreCleared`,
`OnlyImageAddressesStored`, `RoutesLostOnlyTwice`, `ElementsHeldOnce` and the refinement
above. `PluginInv` has a part for each concern: who holds the lock and what that says of
`startSuccess` (`ApiInv`), what is registered, what is kept, what is solved, and the service.
That nobody comes too late rests on the first: between `ShouldLoad` and the end of
`pluginStart` the plugin holds the lock that `finaliseRequests` needs.

`RoutesLostOnlyTwice` needs no induction along the chain, because `Passed` is a least set. A
plugin that is not on the way when it routes puts itself in front of the old entry. If the
way were lost, some set closed after the step would miss the original; its intersection with
a set that was closed before and did not have the plugin would have been such a set already
(`RouteKeepsWay`). So the way is lost only by a plugin that is on it, and whose function is
not the entry. `ElementsHeldOnce` says
that an element is in an evector at most once and never after its deleter was called;
together with the refinement, no element is deleted twice.

`SolveMultipleComesTo` relates the loop of `solveMultiple` to the operators the actions use.
A run is a sequence of states from `Entered` by `Iteration`; `LoopInv` says what the first
index - 1 requests have left, and holds at every state of a run because a first state without
it would have a predecessor with it (`LeastOne`, the well-foundedness of the naturals used
for one set, as an induction over an operator is out of reach). The proof is what showed that
a panic with force ends the loop as well: `Stops` is what it needs.

Progress. Liveness is beyond the prover, but what it rests on is proved: a thread in a call
is never held up for good, and its own steps only bring it nearer to the end. ENABLED is out
of reach too, so the guards are spelled out as `CanStep` and `CanStart`. `CallsAreBounded` and
`CallsAreWaitFree`: a call of `ThreadLocal` can always go on and takes at most 2N + 1 steps,
with deinit at any time. `LockNeverDeadlocks` and `CallsOnlyAdvance`: whoever waits for the
buffer's lock waits for a thread that can go on, and a call takes at most eight steps, with
`Reuse` or without. `MethodsNeverDeadlock` and `MethodsOnlyAdvance`: a chain of waiting EC
methods has at most two links, since the byte methods are entered last. `AccessNeverDeadlocks`
and `StartsOnlyAdvance`: the same of `kern_start` and Lilu's lock, which a plugin takes once.
`RefusedCanAlwaysGo`: a refused plugin can be unloaded at any time and stays so until it is.
What TLC adds is the step from there to `<>` under the fairness of section 3.

The assumptions are the `ASSUME`s of the component modules: sets of numbers are sets of
numbers, `NoThread` is no thread, `Word` is at least 2^16, a call of RE1B or WE1B concerns
one byte, images lie in the address space.

Model-checked only: what is under fairness, `CallsReturn`, `SomeCallReturns` (of the buffer
and of the EC), `LoadReturns` and `RefusedUnloaded`. The violations are TLC's as well. Of the
refinement of `ThreadLocal` nothing is proved without the contract of deinit, and of the
ring's contents nothing with `Reuse`: there the properties fail.

## 6. Not modelled

Taken from how the code uses them: `IORecursiveLock`, `kern_os_malloc` and realloc, the ACPI
interpreter, the embedded controller's firmware, BAT0 and BAT1, IOKit, the exported part of
Lilu's API. Left out:

- **Code whose source is not here.** The kexts are binaries, and most of their headers only
  declare: user patcher, Mach-O, disassembler, RTC, NVRAM, CPU, device information, and the
  key store of the VirtualSMC SDK. Eight thousand lines of the headers are Capstone's and
  HDE's, nearly all enumerations of instruction sets, and the larger part of the six thousand
  lines of Lilu's own is declarations, constants and comments.
- **Gates on `_OSI("Darwin")`**, the Thunderbolt tree, RHUB, HKEY, SBUS, PLUG: constant
  answers to one question. What the renames and the IRQ patches of `config.plist` do depends
  on the machine's DSDT.
- **Stateless helpers**: bit and byte-order arithmetic, string search, `Buffer`, time
  conversion.
- **What only callers could break**: a thread that ends without `erase`, a buffer destroyed in
  use, an element of a vector pushed into the same vector, an erase of the last element of an
  empty vector. The hazards list says of each why no property covers it, or what it assumes.
- Debug arguments, logging, names of batteries, tables of constants.

There is no persistent state in this code, so no crash recovery; a panic is the end of every
behaviour of `PluginStart`. `getTimeLeftNs` and the other time helpers are pure.
