# memsafe: specifications, model checking and proofs

memsafe is a header-only C++ library (`include/memsafe/`) of types that make
memory errors detectable: a generational slot map, single-threaded and
thread-safe owners with borrow guards, a reference-counted `Arc`, a `Mutex`, an
arena (`Scope`), a configurable reaction to violations and the preprocessor
logic that adapts all this to a compiler. This directory holds
TLA+ models of all of them, the TLC configurations that check the models on
small instances, and proofs checked by TLAPS. The source under `src/` is the
reference for every definition; `PROJECT.json` maps each one to the lines it
models, lists the runs, the hazards each property is for, and for each property
a mutation of the code that the property detects.

    tlc -workers 2 -config MCSlotMap.cfg MCSlotMap     # one run
    tlapm SlotMapOwnershipProof.tla                    # one proof module of eight

## 1. The system

| Component | State | Operations | Modules |
|---|---|---|---|
| `SlotMap`, `Slot`, `Handle` (handle.hpp) | `free_head_` (index and ABA counter packed in one atomic word), per record `next_free`, `generation_`, `occupied`, storage; `live_count_`, `capacity_` | constructor, `allocate`, `get`, `deallocate`, destructor, `size` | SlotMap, HandlePool, SlotMapPool; SlotMapProof, SlotMapOwnershipProof, SlotMapPoolProof |
| `SyncOwner`, `SyncRef`, `SyncMutRef`, `sync_borrow_ctrl` (sync.hpp) | one atomic word per control block: shared count or mutable token; `ctrl_` of owners and guards | `borrow`, `borrow_mut`, copy, move and end of guards, move and end of owners, dereferences | SyncBorrow, ReadersWriter, SyncBorrowRW; SyncBorrowProof |
| `Arc`, `arc_ctrl` (sync.hpp) | atomic `strong_count_`, `ctrl_` of every Arc | construct, copy, move, both assignments, `reset`, end, dereferences | Arc; ArcProof |
| `Owner`, `Ref`, `MutRef`, `borrow_ctrl` (owner.hpp) | `shared_borrows_`, `mutable_borrowed_`, `ctrl_` of owners, `ctrl_` and release hook of guards | construction, move and end of owners, `borrow`, `borrow_mut`, copy, move and end of guards, dereferences | GuardedBorrow, ReadersWriter, GuardedBorrowRW; GuardedBorrowProof |
| `Mutex` (sync.hpp) | `std::mutex`, a second ledger `borrow_state_`, the block's own ledger | `lock`, the release hook of the `MutRef` it returns | GuardedBorrow, ReadersWriter, GuardedBorrowRW; GuardedBorrowProof |
| `Scope` (scope.hpp) | `entries_`, the destruction ledger | `create`, destructor | Scope; ScopeProof |
| violation policy (violation.hpp) | atomic handler and logging-hook slots; the policy, fixed at compile time | setters, `report_violation` | Violation, Program; ProgramProof |
| configuration (config.hpp, backend.hpp, the `#if`s of violation.hpp, the includes of all headers, memsafe.hpp) | the macro table of a translation unit, include guards, instantiated traits | `#include` and `#define` in any order, `#error`, trait instantiation | Configuration, Program; ProgramProof |

**How the parts interact.** The preprocessor decides once per
translation unit which code there is: Configuration computes the macros, and
Program runs Violation under the policy they select. Every component reports
through `report_violation()`. Module Violation shows what a report can do to its caller
in each build: under THROW it throws; under HANDLER it throws or returns, as the
handler does; otherwise the process ends. The other modules take that as the
constant `Responses \subseteq {"throw", "return"}` and explore both; a process
that ends has no further steps to check. A `Mutex` hands out a `MutRef`, the class that
`Owner::borrow_mut()` returns too, with a hook that clears both ledgers and
unlocks; moves and assignments mix the two kinds, so one module models both. The
control blocks of `Arc` and `SyncOwner` are independent. Constructors and
destructors of payloads are user code that runs inside library calls and may
call back into the library.

**What is hard.** Lock-free loops on packed or counting words (stale loads,
weak CAS failures, ABA, counters that wrap); calls made of several steps that
other threads see half done; assignments that hold the old and the new borrow,
or release and acquire in an order that matters when destructors run in
between; refusals that throw or return at every point; exceptions of payload
constructors and destructors; callbacks that replace the slots they are called
from; and headers that must come to one configuration whatever the order in
which a program includes them, on compilers that claim to be others. The full
list, with the line at which each bites, is under "hazards" in
`PROJECT.json`.

**What makes each part correct.**
- SlotMap: a slot has one owner at any time (free list, one call, or one live
  handle); no slot leaks from the list; a handle is issued once, retired once,
  and refused from then on; payloads are constructed and destroyed exactly once;
  `size()` is the number of live payloads; every call returns.
- SyncBorrow: the word equals the borrows that exist; a writer excludes
  everyone; a request is refused only because of a borrow that exists at the
  instant of the decision.
- Arc: the count equals the references that exist; a block is destroyed by the
  last one and by nobody else, once nobody owns it, and always in the end.
- Owner and Mutex: ledgers equal the live guards; an unlocked mutex has clear
  ledgers; a guard of a mutex holds its lock; each lock is given back.
- Scope: each object that lives is in the ledger once; it outlives the objects
  that may use it; the end of the scope releases everything.
- Violation policy: only the policy ends a report; a handler that is called was
  installed.
- Configuration: all headers of a unit are compiled under the same switches;
  compatibility mode and the user's back end win over detection; no attribute
  is emitted that the compiler does not know; a payload trait accepts only types
  that deserve it.

## 2. Modules

Each module has one action per atomic access of the code, or per operation
where no other thread can see the steps in between. Local registers of a call
are per-thread variables; what a caller may pass is drawn from what it can
have. Atomics are sequentially consistent in the models: the code uses acquire
and release on single words, and the effects of weaker orders between different
words are outside the models.

### SlotMap

`pc[t]` names the next access of thread t. `AllocateCall` loads the head;
`PopReadNext` loads `next_free` of the observed head; `PopSwing` is the
successful CAS, `PopRetry` the failed one (which reloads); `PopClear`,
`Construct`/`ConstructThrows`, `ReadGeneration`, `Publish`, `CountUp` finish
`allocate()`. `GetCall` and `DeallocateCall` are `checked_index()` (null, range
and generation), `GetCheckOccupied` and `FreeCheckOccupied` the second check,
`Bump` the generation CAS that retires a handle, `ClearOccupied`, `Destroy`
(returning or throwing), `CountDown`, then `PushLoad`, `PushLink`, `PushSwing`,
`PushRetry`. Capacity,
the width of both counters, throwing constructors and destructors, spurious
failures and the release-check macro are constants. A payload whose constructor
or destructor calls back into the map needs nothing new: another thread may run
the nested call at that point.

The destructor of the map is `TeardownBegins` and the loop of
`destroy_live_slots()`: `SkipSlot`, or `SweepSlot`, which ends the payload at
`position` and runs its destructor, then `SweepReturns` or `SweepThrows`, and
`TeardownEnds`. While a destructor runs (`teardown = "destructor"`) it may make
the calls of `TeardownCalls` on the map that is being destroyed, each with all
its steps, before the loop goes on; the contract of `~SlotMap()` excludes other
threads, not these calls.

`HandlePool` is what the map promises: slots pass between the pool, a caller
and a live handle; allocation fails only when the pool is empty at some instant;
a call accepts a handle only if it is live at some instant of the call.
`SlotMapPool` gives the mapping; each abstract operation takes effect at one
CAS or load of the code. A payload that `~SlotMap()` ends is the pool's
`Discard`: its handle is out but refused. What a caller does with the pointer of an accepted
`get()` later is not part of the promise.

### SyncBorrow

`word` is `borrow_state_`, `ctrl` and `owns` the pointers of guards and owners
(`Absent`: no object). A borrow or copy loads (`Borrow`, `Copy`), then swings
(`ShareSwing`, `ShareRetry`); an assignment then releases its old block by its
own loop (`UnshareLoad`, `UnshareSwing`, `UnshareRetry`). The mutable side is a
single strong CAS or store (`BorrowMut`, `DropMut`, `MoveMut`). The contract
that guards themselves are not shared without synchronization is `Unused` and
`Readable`; that an owner outlives its borrows is `Unreferenced`. Release checks are on: without
them the code keeps no ledger. `require_control()` on an empty owner continues
after a handler that returned with a null control block; the model takes the
outcome in which the guard is empty. `ReadRef`, `UseMut`
and `UseOwner` are the dereferences, which report a null access; `UseOwner` does
not look at the ledger, as the code does not.

`ReadersWriter` is the abstract lock: requests are granted or refused in one
step by the borrows that exist. `SyncBorrowRW` maps its counts to the guards and
assignments under way, never to the words, so the refinement says that the words
decide each request correctly.

### Arc

`work[t]` is the sequence of steps the thread still has to take: retain (load
and CAS), release, run the destructor of the payload, free, store a pointer,
take the source's pointer. The last release puts the release of the payload's
own Arc, if it contains one (`Home`), in front of what is left, as the nested
destructor does. A payload contains at most one Arc (`HomeAssumption`), so blocks form
chains and cycles; payloads with several (trees) are not covered. A dereference is two steps, so that other threads can release
references while the payload is in use. `Routes` lists the Arc objects a thread can reach, through
local Arcs and the payloads they keep alive.

### GuardedBorrow

An `Owner` and its borrows are single-threaded, so a call on them is one step:
`Construct`, `MoveOwner`, `DropOwner`, `Borrow`, `BorrowMut`, `CopyRef`,
`MoveRef`, `DropRef`, `MoveMut`, `DropMut`, and the dereferences `ReadRef`,
`UseMut`, `UseOwner`. `Lock`, `Acquire`, `Record`, `Arm` are `Mutex::lock()`;
`ClearFlag`, `ClearToken`, `Unlock` the release hook. The branches of `Record` and `Arm` for a
ledger that is taken although the mutex was free are modelled and never reached, since
a `lock()` is never refused (`ImplementsReadersWriter`), so nothing after them is exercised. `Release` picks by the
guard's kind. `Blocks` are addresses of control blocks: one that has ended may be
constructed again, with a fresh ledger. `Unborrowed` is the contract of the two
operations that end a payload: its borrows have ended before. The destructor's
contract only forbids to *use* them afterwards, but the destructor of a `Ref`
writes to the ledger, so a program must end them; nothing checks that at run
time. Programs lock mutexes in increasing order and unlock on the locking
thread, which `std::mutex` requires.

`GuardedBorrowRW` shows that Owners and Mutexes keep the promise of
`ReadersWriter` too. Readers and writers are counted from the guards; the borrow
of a mutex-backed guard ends when its hook has cleared the flag. No thread can be
refused at a mutex it has locked, which is the hard part: a guard that two ledgers, a hook and a
lock represent must end as one.

### Scope

`stack` is the call stack: `create()` frames, whose constructor runs (`create`)
or whose destructor runs after `push_back` failed (`unwind`), and the
`destroy_all` loop. `Create` may happen wherever user code runs, so constructors
and destructors nest. `known[o]` remembers the objects recorded before o's
constructor ended, whose pointers o may keep.

### Violation

`reports[t]` is the stack of reports in progress, since hooks and handlers may
report again; a report is at `log` (hook slot not loaded), `logging` (hook
runs), `dispatch` (handler slot not loaded) or `handling`. Setters run in the
program and in callbacks of any thread. The build's policy is chosen in `Init`
and never changes. The payload and how it is printed are left out.

### Configuration and Program

`macros` is the table of macros defined so far. `UserDefine` and `UserInclude`
take the directives of the unit's source in any order, so the behaviours of a
unit are all its include orders. `IncludeGuard` pushes the headers a header
includes; `HeaderText` applies its text, a function from table to table, composed
of one operator per macro (`HasConcepts`, `Autodetect`, `Owned`, ...). `seen`
remembers the table each header was read under: that is the code the header
got. An annotation macro expands to the attribute it emits. A unit may define any
macro but those the language reserves to the compiler (`Reserved`); between includes it does so under
an `#ifndef`, so a macro that a header has set is not redefined behind its back.
`DetailHasSourceLocation` is the second probe, in violation.hpp, which keeps a value
the build predefines; the `#undef`s at the end of that header drop it. `Rejects` are the two
`#error`s. The four payload traits are actions: a class template is
instantiated once per unit, so a trait that is asked while its type is incomplete
keeps that answer, and the traits built on it inherit it. Such an answer is false and may
go stale or differ from another trait's; `TraitAnswersSound` allows that, and forbids
a type that is accepted undeservedly. `MEMSAFE_NODISCARD`
and the `enable_if` aliases, which do not depend on the configuration, are
left out.

`Program` runs Violation with the policy that the macros of the unit select, so
the policy is what the configuration made of the build's wish, and no longer a
free choice.

## 3. Runs

| Run | Instance | Shows |
|---|---|---|
| `slotmap` | 2 threads, 3 calls each, 2 slots | `ExclusiveOwnership`, `FreeListIntact`, `PayloadLifetimes`, `LiveCountExact`, `StaleHandleRejected`, `RetiredOnce`, `HandlesUnique`, `ImplementsPool`; constructors and destructors throw, CASes fail spuriously, a capacity is refused, and the destructors that `~SlotMap()` runs call all three operations |
| `slotmap_live` | 2 threads, 2 calls each, 2 slots, 3 generations; destructors do not throw, and those `~SlotMap()` runs do not allocate | `TypeOK` with a generation that wraps and skips 0; `CallsReturn` with checks off; `TeardownEndsLifetimes` |
| `slotmap_foreign` | 1 thread, one handle of another map | violation: `ForeignHandleRejected` |
| `slotmap_teardown_reentry` | 1 thread, destructors that `~SlotMap()` runs allocate | violation: `TeardownEndsLifetimes` |
| `sync` | 2 threads, 3 calls each, 2 owners, 3 SyncRefs, 2 SyncMutRefs, at most 2 readers | `WriterExcludesAll`, `LedgerExact`, `ImplementsReadersWriter`; violations throw and return |
| `sync_live` | 2 threads, 3 calls each, 1 owner | `CallsReturn` |
| `arc` | 2 threads, 3 calls each, 2 local Arcs, 2 blocks with an Arc inside, count limit 2 | `CountExact`, `DestroyedUnowned`, `AccessesAlive`, `OperationsReturn`, `AbandonedAreFreed` |
| `arc_move` | 1 thread, moves out of the target's payload | violation: `MoveTakesLivePointer` |
| `guards` | 2 threads, 4 calls in all, 2 Owners, 2 control blocks, 2 mutexes, 2 Refs, 2 MutRefs | `OwnerLedgerExact`, `GuardHoldsLock`, `PlainFlagIsGuarded`, `LocksReturn`, `ImplementsReadersWriter` |
| `scope` | 6 objects, nesting to 4 | `DependenciesOutlive`, `LedgerExact`, `EndReleasesAll` |
| `scope_reentry` | 3 objects, destructors create during ~Scope | violation: `EndReleasesAll` |
| `program` | 5326 translation units; in those that run, 2 threads, 3 calls each, 2 handlers, 2 hooks | `HeadersAgree`, `SelectorsAuthoritative`, `BackendAuthoritative`, `AnnotationsSupported`, `TraitAnswersSound`; `PolicyDecides`, `CallsInstalledHandler` |

**Bounds.** `MaxCalls` caps the operations each thread starts (in `guards`, those
that all threads start, not counting the destruction of guards), `MaxDepth` the
nesting of callbacks. Two threads with three calls each are enough for the
interleavings the loops are exposed to: on two slots they run a pop that sleeps
while the other thread pops, pops and pushes (the ABA pattern), two
deallocations of one handle, and a reuse of the slot while a stale call is in
flight. Two slots are the fewest with a free list that has a link. Counter
widths of 16 leave no room to wrap in three calls; the wrap is the subject of
`slotmap_live`. The shared limit of two borrows and the Arc limit of two are
reached, so the refusals at the limit happen. Two blocks that contain an Arc
each give chains and cycles of owners. Cycles leak by the nature of reference
counting; in the model their members own each other, so `AbandonedAreFreed`
does not ask for them. Two Owners and two blocks are the fewest in which an owner
is moved over another one and a block is used again; four calls construct,
borrow, copy and assign, or let one thread move a lock over another while a
second thread waits.

The units of `program` come in five families (`MCProgram`): every combination
of the feature selectors on nine toolchains, and of the compatibility switch with violation.hpp's
internal selector; every
selection of at most two back ends with every attribute known, none, or all but
one; five headers and four definitions in all orders; nine kinds of payload
type with the four traits in all orders; and one unit per policy whose program
runs. The families vary what the macros of one group read; no `#if`
reads macros of two groups.

**Symmetry** over threads, owners, blocks, guards, objects and functions is used
in the runs that check no liveness, where the modules treat these sets alike.
Slots and mutexes are ordered and are not symmetric.

**Fairness.** A thread inside a call keeps running (weak fairness of its steps),
and a weak CAS that keeps being tried with the right expected word does not
fail spuriously for ever (strong fairness of the successful swing; the standard
allows spurious failures, and an implementation in which they never end would
make the loop useless). Nothing is assumed of threads between calls, with one
exception: `LocksReturn` also assumes that guards go out of scope, since
`lock()` waits for them. These loops are lock-free and not wait-free: the bound
on calls also bounds how often others can win against a thread. With it,
`CallsReturn` says that a loop whose competitors have stopped ends; it is
broken, for instance, by a retry that does not reload.

**Stopping.** Every specification has an explicit stuttering step (`Finished`,
`Stopped`) for programs that stop between calls; deadlock is checked in every
run, so a thread stuck inside a call is an error.

## 4. Disagreements between the code and its documentation

1. **Arc move assignment out of the target's payload** (`arc_move`, sync.hpp:1915,
   a bug). `operator=(Arc&&)` releases the old block before it reads
   `other.ctrl_`. In `head = std::move(head->next)` with one owner of `head`, the
   release destroys `other`, which is then read and written. AddressSanitizer
   reports a heap-use-after-free for the C++ program that does this. The copy
   assignment acquires first and is not affected; the `arc` run excludes only
   this use (`MovesOutOfTarget = FALSE`).
2. **Handles of another map** (`slotmap_foreign`, handle.hpp:1731). A handle
   carries no map identity, so one of another map is accepted when index and
   generation agree, although the contracts call passing it a violation.
3. **Creating in a Scope that is being destroyed** (`scope_reentry`,
   scope.hpp:433). A payload destructor that calls `create()` on its own scope
   adds an entry behind the loop, which is cleared without being destroyed. The
   contract of the destructor says that all created objects are destroyed.
   LeakSanitizer reports the leak for the C++ program that does this. A reader
   may hold that "destruction requires exclusive access" excludes it.
4. **Allocating in a SlotMap that is being destroyed** (`slotmap_teardown_reentry`,
   handle.hpp:1785). The same, in `destroy_live_slots()`: a payload destructor that calls
   `allocate()` may get a free slot the loop has passed, and the payload it
   constructs there is never destroyed. The precondition (1086) excludes only
   other threads; "destruction does not reuse slots" (1775) is what fails.

The models show more mismatches that have no run of their own:

- The setters say that a handler must remain callable until it is replaced or
  cleared (violation.hpp:708), but a report that has loaded the slot calls its
  handler after that; it must remain callable until reports in flight have
  ended.
- A destructor that throws in `~SlotMap()` leaves the sweep (handle.hpp:1788); later
  payloads are never destroyed, although the contract says that all are
  (handle.hpp:871, 1773). `SweepThrows` models it, and `TeardownEndsLifetimes` is checked
  and proved for destructors that do not throw.
- The probe of violation.hpp keeps a predefined `MEMSAFE_DETAIL_HAS_SOURCE_LOCATION`
  (violation.hpp:189), so with `MEMSAFE_CXX17_COMPAT` the header still declares and uses the
  `std::source_location` overloads (and does not compile unless the program has
  included `<source_location>`), although violation.hpp:152, 929 and 1283 exclude it and config.hpp
  undefines its own selector for that reason (201-208). `SelectorsAuthoritative` says
  exactly when.
- config.hpp speaks of a common selector instead of local probes
  (config.hpp:39-41), but violation.hpp probes `<source_location>` again and does
  not read an overridden `MEMSAFE_LANG_VERSION` (violation.hpp:174-191). The two
  agree only without the override, and without the predefined internal selector;
  `SelectorsAuthoritative` says so.
- `violation_kind::owner_destroyed_while_borrowed` (violation.hpp:223) is never
  reported.
- `borrow()` on an empty owner, when the handler returns, goes on with a
  reference to a null control block (owner.hpp:1347, sync.hpp:1700), which is
  undefined. The models follow the outcome in which the guard is empty; a build
  that drops the null test crashes instead.
- Units of one program that define `MEMSAFE_ON_VIOLATION` or
  `MEMSAFE_RELEASE_CHECKS` differently compile inline functions of one name
  differently, and the linker keeps one of them. The models are about programs
  whose units agree.

## 5. Proofs

Every safety property that a passing run checks is a theorem, and so are both
refinements of `ReadersWriter` and the one of `HandlePool`. The theorems hold for
all values of the constants that satisfy the assumptions of the modules: any
number of threads, objects and calls, any counter width and limit, payloads that
throw or not. TLC checks every assumption on every run.

| Theorem | Module | States | Hypotheses |
|---|---|---|---|
| `TypeCorrect` | SlotMapProof | `TypeOK`, wrapping counters included | none |
| `OwnershipIsExclusive`, `FreeListIsIntact` | SlotMapOwnershipProof | `ExclusiveOwnership`, `FreeListIntact` | S |
| `HandlesAreRetiredOnce`, `HandlesAreUnique`, `StaleHandlesAreRejected` | SlotMapOwnershipProof | `RetiredOnce`, `HandlesUnique`, `StaleHandleRejected` | S |
| `PayloadsLiveWithTheirHandles`, `LiveCountIsExact` | SlotMapOwnershipProof | `PayloadLifetimes`, `LiveCountExact` | S |
| `TeardownEndsEveryLifetime` | SlotMapOwnershipProof | `TeardownEndsLifetimes` | S, `~DestructorMayThrow`, `"allocate" \notin TeardownCalls` |
| `SlotMapImplementsPool` | SlotMapPoolProof | `ImplementsPool` | S |
| `TypeCorrect`, `LedgerIsExact`, `WriterExcludesAllOthers` | SyncBorrowProof | `TypeOK`, `LedgerExact`, `WriterExcludesAll` | none |
| `SyncBorrowImplementsReadersWriter` | SyncBorrowProof | `ImplementsReadersWriter` | none |
| `TypeCorrect`, `OwnerLedgerIsExact`, `GuardsHoldTheirLock`, `PlainFlagIsGuardedByLock` | GuardedBorrowProof | `TypeOK`, `OwnerLedgerExact`, `GuardHoldsLock`, `PlainFlagIsGuarded` | none |
| `GuardedBorrowImplementsReadersWriter` | GuardedBorrowProof | `ImplementsReadersWriter` | none |
| `TypeCorrect` | ScopeProof | `TypeOK` | none |
| `DependenciesOutliveObjects`, `LedgerIsExact`, `EndReleasesEverything` | ScopeProof | `DependenciesOutlive`, `LedgerExact`, `EndReleasesAll` | `~CreateInTeardown` |
| `TypeCorrect`, `CountIsExact`, `DestroyedBlocksAreUnowned`, `AccessesAreAlive` | ArcProof | `TypeOK`, `CountExact`, `DestroyedUnowned`, `AccessesAlive` | `~MovesOutOfTarget` |
| `HeadersAreCompiledAlike`, `CompatibilityModeWins`, `SelectionIsTheBackend`, `AnnotationsAreSupported` | ProgramProof | `HeadersAgree`, `SelectorsAuthoritative`, `BackendAuthoritative`, `AnnotationsSupported` | none |
| `TraitAnswersAreSound` | ProgramProof | `TraitAnswersSound` | none |
| `ReportsCallInstalledHandlers`, `RequestedPolicyDecides` | ProgramProof | `CallsInstalledHandler`, `PolicyDecides` | none |

**The hypotheses** exclude what the code cannot bear.
- S is `ForeignHandles = {}` and executions of `BoundedSpec == Spec /\ []BelowWidth`.
  `BelowWidth` says that no generation and no ABA counter is at its last value.
  Both counters of the code have 32 bits and wrap; a pop that sleeps through
  exactly 2^32 updates can be deceived, and a slot reused 2^32 - 1 times issues an
  old handle again. Neither can be excluded by the code. Foreign handles do break
  the properties (section 4, 2).
- `~DestructorMayThrow`, `"allocate" \notin TeardownCalls`, `~CreateInTeardown` and
  `~MovesOutOfTarget` exclude what section 4 says of destructors that throw, and its
  disagreements 4, 3 and 1, and nothing else; nested `get()` and `deallocate()` in the destructors that
  `~SlotMap()` runs are included. `SelectorsAuthoritative` excepts the predefined internal selector in its own
  statement.
- `UnitsAssumption`, for ProgramProof: a unit includes headers of memsafe only (others
  define no macro of the models) and defines no macro the language reserves to
  the compiler. The unit may define the library's own macros in any order.

### The inductive invariants

**SlotMap.** `ExclusiveOwnership` and `FreeListIntact` are not inductive:
nothing in them says what a thread that has loaded the head and the link may
conclude when its CAS succeeds. `Inv` adds
- `HandleHistory`: retired handles were issued, and a handle of a slot has a
  generation no greater than the slot's current one, smaller once retired;
- `Knowledge`: what each `pc` label implies about the handle a thread works on
  (it carries the slot's generation while it is published; it was issued before,
  while it is checked) and about the link it has written before a push;
- `Observations`: the ABA counter never runs ahead of the head's, and a head
  word a thread observed that is still the head word has the same link, which is
  the ABA argument itself: if index and counter are unchanged then no pop or push
  has taken effect since the load, so the link the thread loaded is
  still right.

Each step is then one of five moves (quiet, pop, issue, retire, push), with a
lemma about each: what it does to ownership and what to the list. For a pop the
list loses its first element, for a push it gains one, and the witness of the
existential in `FreeListIntact` is given explicitly. `StaleHandleRejected` needs
`StaleCallsEnd` as well: a call that begins with a retired handle is refused by its
first check, since the slot's generation has moved past it for good.
Two more invariants stand on `Inv`. `Lifetimes` says in which state the slot of each owner
is: full while a live handle names it, empty in the free list, and in between as far
as the owning call has come (`InHand`). `Counted` says that `live_count_` is the
number of live handles and of retirements not yet accounted for. `SweptBehind` is the argument for
the destruction: no slot the loop has passed holds a payload, because the calls its
destructors make fill none.

SlotMapPoolProof maps each of the five moves to the step of `HandlePool` with
that name. A failed allocation and a refused handle are decided where the code
reads the fact that refuses them; every other step is a stutter.

**SyncBorrow.** `Ledger` equates the word of each block with the guards that point to it
and the acquisitions that have swung but not stored their pointer, or released
their pointer but not the word. It becomes inductive with `CallsWellFormed`: what a
call's fields hold at each label, and `Undisturbed`, that no two calls work on one
guard, except that several may copy from it. Every step has one of five effects (a block
gains or loses a reader or a writer, or all keep what they have), and the
simulation reads the step of `ReadersWriter` off the effect.

**GuardedBorrow.** A mutex, its guard, the token and the plain flag change one after
the other, so none of the properties holds between two of the steps. `Stage` says
how far the thread that owns the mutex has come, and `MutexFits` what the token,
the flag and the guards are at each stage; the plain flag is written by the
owner only because every stage that writes it is one of an owner. `BlockFits` is the
ledger of an Owner, whose operations take one step.

**Scope.** `FramesFit` and `Sweeps` describe the call stack. `Nested` gives each
object under construction one frame; `Ordered` says that an object's dependencies are before it
in the ledger; `Swept` says of each entry behind the loop that it is destroyed, and
of each one ahead that it is not. Since `destroy_all()` goes backwards, an object
dies before what it depends on. A destructor that creates during the sweep breaks `Swept`.

**Arc.** References are counted by place: an Arc object, the release a thread is
about to make, the pointer it is about to store. `Ledger` says that a block with
a place is live and that the count of a live block is the number of its places.
The rest says that places do not overlap: `OperationsFit` (releases first, a
store last), `Exclusive` (what one thread writes, no other uses), `FreesFit` (one
thread frees a block), `MembersFit` (the Arc in a payload exists as long as the payload) and
`Pinned`: while an operation uses an Arc inside a payload, a local Arc keeps the
payload alive and the operation does not write that local before. `Pinned` is
what `a = std::move(a->next)` breaks.

**Configuration and Program.** `IncludeOrder` ranks the headers, so that the text
of a header is read behind every header it needs, whatever the source includes
first; `Tables` says what the text of each header that was read has left in the macro
table and that no later text or definition changes it (`Changes`), and that an
`#error` has one of its two causes (`Rejected`); `TraitsKnown`
relates the answers of the four traits, asked early or late, to the type.
`ReportsKnown` types the stacks of reports: a report that waits to be dispatched
has noted the handler that is installed, and one that handles took one of those.

**Only model-checked**: the liveness properties (`CallsReturn` of SlotMap and
SyncBorrow, `OperationsReturn`, `AbandonedAreFreed`, `LocksReturn`), since liveness under fairness and
`ENABLED` are out of the prover's reach. So is induction over data, such as the length of a list; the
proofs avoid it by invariants that quantify over positions. No module declares a
RECURSIVE operator.

## 6. Plan

Done: every component modelled; every safety property of a passing run, and
the three refinements, proved.

Left:
1. What the excluded programs still keep: which of Arc's invariants survive
   `MovesOutOfTarget`, and which of SlotMap's survive foreign handles.
2. The order of locks: a wait among mutexes is never circular, as an invariant
   with a proof. It would give the safety half of `LocksReturn`.
3. Abstract specifications of Arc (a set of owners per block) and of Scope (a
   stack of objects), with their refinement proofs.

## 7. Not modelled

- The Python test runner and cleaner: process and file I/O around cmake and
  ctest, with no state of the library.
- Examples, tests and the vendored Relacy checker: clients of the library, read
  for how it is used.
- `Slot::bump_generation()`, which the map does not call, and observers that only
  read (`has_value`, `size`, `capacity`, `strong_count`).
- The contents of payloads, of violation records and of what the logging hook
  prints.
- Memory orders weaker than sequential consistency between different words.
- An unguarded redefinition of a library macro between two includes, and payloads
  with several Arcs.
- Programs that break a contract the code does not check: a guard shared by two
  threads without synchronization, an owner that ends before its borrows, a
  mutex locked twice by one thread.
