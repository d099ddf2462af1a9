# A TLA+ model of Heap Oracle

Heap Oracle runs a program with a hook library preloaded, takes an event for
every call of the allocator out of it through a ring in shared memory, and
rebuilds from the events alone what the heap of the program looks like: which
chunks are live, in which glibc bin the freed ones are, and which calls were
misuse (double free, free of an unknown block, realloc of a freed one).

This directory models the parts of it that are hard to test, checks them with
TLC on small instances and proves some of the results with TLAPS for every value
of the constants. Line numbers refer to the files below `src/`.

## 1. Inventory

| Component | Where | State | Operations | Interacts with |
|---|---|---|---|---|
| Bin arithmetic | `src/state.rs` 404-436 | none | `glibc_chunk_size`, `tcache_index`, `fastbin_index` | called by the shadow heap |
| Shadow heap | `src/state.rs` | `HeapOracle`: chunk table, tcache and fastbin lists, `bin_index`, counters, alerts, next index | `apply_event` and what it calls | fed by the reader thread, read under the lock by the window and the final report |
| Ring | `hook/src/ringbuf.c`, `heap_oracle_hook.h`, `src/ipc.rs` | header (head, tail, dropped) and slots in shared memory; `push_lock` in each process | `ho_ring_push`, `read_batch`, `stats` | written by all threads of the target and its children, read by one thread |
| Shared memory object | `src/ipc.rs` 177-295, `hook/src/platform/*.c` | the named object, its mapping on either side | `create`, `validate`, `drop`; `ho_platform_open_writer`, `ho_platform_close_writer`, `ho_ring_bind` | made by the monitor, opened by name by the hook |
| Hook | `hook/src/hook.c` | init gate, resolved functions, trace and filter flags, guard of each thread, `ho_platform` | six wrappers, `ho_try_enable_trace`, `ho_publish`, constructor, destructor, `__libc_start_main` | calls the real allocator, pushes into the ring |
| Monitor runtime | `src/main.rs` | `RuntimeStats`, `stop`, the threads' locals | `run`, `run_target_mode`, `run_monitor_mode`, reader thread, `wait_for_child`, `drain_after_exit`, `spawn_target` | owns the ring through the reader, starts and waits for the target |
| Command line | `src/main.rs` 529-700 | none | `parse_args`, `next_string`, `default_hook_library_path`, `generate_shm_name` | decides mode, name of the ring and library |
| Window | `src/ui.rs` | none that matters | draws; raises `stop` when dropped | reads the oracle with `try_read` |
| Printing, build | `src/main.rs`, `build.rs`, `build.py`, CMake | none | | |

What is hard here, and what makes each component correct:

* **Ring.** Producers race for slots, the reader races with them, the counters
  wrap, the target can die or fork anywhere. Correct: a bounded queue; an event
  is delivered once, whole and in order, or counted as dropped, and no lock is lost.
* **Shadow heap.** Four tables that say the same thing in different ways are
  updated by differences over many paths. Correct: they always agree, and a
  verdict depends only on the history of the addresses an event names.
* **Shared memory object.** It has a name, made without `O_EXCL`: monitors that
  run side by side, a monitor that was killed, and a target that opens it while
  it is being made all meet there. Correct: a monitor shows the events of its own
  target and of no other, a target finds a complete ring, no name stays behind.
* **Hook.** A library that is entered before it is initialised, by several
  threads, and by itself. Correct: one initialiser, no call of the hook's own
  published, no call waiting for itself, every call of the program served and
  published exactly once.
* **Monitor.** Two threads and a child that only share atomics. Correct: an
  orderly end, nothing published missed, a summary that counts what was applied.
* **All together.** The order in which threads and processes publish must not
  make the oracle accuse a correct program, and what is lost must not spread.
  This is where the design is most fragile.

The hazards, each at its line and with the properties that cover it, are in
`PROJECT.json`.

## 2. Modules

| Module | Models | Uses |
|---|---|---|
| `GlibcBins` | bin arithmetic, over a word of any size | |
| `ShadowHeap` | abstract: what the oracle promises, one automaton per address | |
| `HeapOracle` | `src/state.rs`: one action per kind of event | `GlibcBins`, `ShadowHeap` |
| `LossyQueue` | abstract: what the ring promises, a bounded queue | |
| `RingBuffer` | `ho_ring_push` and `read_batch`, access by access | `LossyQueue` |
| `CommandLine` | `parse_args`: from arguments to options, as operators | |
| `SharedRing` | the named object between monitors and targets: creation, takeover, binding, end | `CommandLine` |
| `Hook` | `hook.c`, opening and closing of the ring | |
| `Monitor` | threads of `main.rs` and the end of a session | |
| `Pipeline` | real heaps, wrappers, queue and oracle composed | `LossyQueue`, `HeapOracle` |
| `MCHeapOracle`, `MCSharedRing`, `MCPipeline` | symmetry sets and sets of inputs for TLC | |
| `GlibcBinsProofs`, `SequenceLemmas`, `HeapOracleProofs`, `RingBufferProofs`, `MonitorProofs`, `HookProofs`, `SharedRingProofs`, `PipelineProofs` | theorems | |

The layers meet at the abstract specifications. `RingBuffer` is shown to
implement `LossyQueue`, so `Pipeline` composes the wrappers with `LossyQueue`,
and `Monitor`, for which only the number of events matters, with counters.
`HeapOracle` is shown to implement `ShadowHeap`; `Pipeline` uses `HeapOracle`
itself, since it is a function of the events. `SharedRing` has what comes before
and after: which object the two sides of a `RingBuffer` are talking through.

### How state and actions correspond to the code

* `HeapOracle`: `oracle` is the Rust struct, `result` the returned
  `ApplyResult`. Each method is an operator from struct to struct with the name
  of the method in camel case; `Alloc`, `Free`, `Realloc`, `Invalid` are calls
  of `apply_event`. `HashMap`s are total functions with a value for "no entry".
  Stacks, timestamps and the chunk size in the result are left out.
* `RingBuffer`: one action per access to shared memory; `thread[t]` has the
  place of thread `t` in `ho_ring_push` and its locals, `reader` the locals of
  `read_batch`. The copy of an event is two actions, with a half-written slot in
  between, and a copy over another copy leaves a torn slot. `Spawn` is a child
  that execs (its own handle, a free lock), `Fork` one that goes on with a copy
  of the handle, the lock's value included; `Kill` stops a process at any place.
  Memory is sequentially consistent: the code's acquire and release accesses
  order what the properties depend on. `begun`, `sent`, `delivered`, `heirs` are
  history variables; `sent` grows with each store of `head`, so with two processes
  it may run ahead of the ring, whose `head` both may store.
* `CommandLine`: `Parse` is `parse_args`, a fold of `Read`, one turn of its
  loops, over the arguments. A name is a record of "has its slash" and the rest.
* `SharedRing`: `session[s]` is a monitor, `target[s]` its target, `objects` the
  shared memory objects and `linked` the names in the file system. `Open`,
  `Truncate`, `Clear`, `WriteField` and `Validate` are the system calls and
  writes of `SharedRing::map`; the header is written in two parts that reach
  memory in any order. `OpenWriter`, `BindLength`, `BindCheck`, `BindCapacity`
  are the accesses of the hook, the capacity read twice as in `ho_ring_bind`.
  The reader takes an event (`Take`) or takes note that there is none (`Look`),
  before or after the end of the target; the test of `stop` that ends it (`Drop`)
  comes later and uses that note, as in `src/main.rs` 232-239. Kills, failed
  system calls, failed launches and a `println!` of the reader that panics
  (`ReaderPanics`) are actions. `disturbed`
  records which monitors shared their name or their object with somebody, or had
  it mapped by their target before it was ready.
* `Hook`: a call is a frame on its thread's stack, the second frame being a call
  the hook makes itself inside `dlsym` or `backtrace`. `lib.resolved` counts the
  members of `ho_hooks` set so far, in the order of `ho_resolve_symbols`. A push
  is two actions, so that exit can come in between. The ring always has room. A
  frame remembers the phase of the process in which the call began, and the
  history `log` has it beside the phase of the publication.
* `Monitor`: the place of the main thread and of the reader, with one action per
  access to an atomic or to the ring. The drain's sleeps have no duration: any
  number of steps of others fits in one, or none. After `Join` the main thread
  prints the heap and writes the summary (`Report`); a `println!` may panic there
  too, and then there is no summary (`ReportPanics`).
* `Pipeline`: a call has two steps, the real one and the publication, in the
  order `Steps` gives for each wrapper. The program frees and reallocates only
  what it holds; it may free one block once too often, and its process is
  aborted then. `blurred` collects the addresses for which the events are not
  enough: a block from before the tracing, an event that was dropped, an address
  two processes use, one that a `realloc` had given back and not yet published
  when another thread obtained it, a block that `realloc(p, 0)` returned.

## 3. Runs

Bounds are named constants, set in the `.cfg` of the run. State counts are
distinct states.

| Run | Question | Bounds, and why they do |
|---|---|---|
| `oracle` | Do the tables of the shadow heap agree after any sequence of events? Does it implement the automata? | Three addresses, sizes 0 and 200 (a fastbin size; one that only the tcache or a small bin takes), tcache limit 1 and alert limit 2 so that both are hit, six events: enough to fill a bin, reuse, misuse and overflow the alerts. 103,239 states. |
| `ring` | Is the ring of one process a bounded queue? | Two threads, two slots, a word of four values, batches of one, five pushes: the ring fills, drops, wraps (both slots and counters), and a batch is cut by its limit. The word is small so that the arithmetic is checked where it wraps; counters of 64 bits do not get there. 107,012 states. |
| `ring_processes` | Who has the lock, with a child? | Two processes of two threads, one slot, three pushes: fork with the lock held, spawn, and death at every place. 982,476 states. |
| `shared_ring` | Whose ring, whose events, whose name? | Two monitors, each started with any of seven command lines (run and monitor, generated name, given name with and without slash, arguments that start nothing), two events per target: side by side, one after the other, after a kill at any step. 3,239,010 states. |
| `hook_init` | Is the initialisation right under a race, and does every call return? | Two threads, three calls, nested calls included. 228,828 states. |
| `monitor` | How does a session end? | Four events, ring of two, batches of one, a drain of four looks of which two quiet ones end it, in all four modes. 53,503 states. |
| `pipeline` | What does the oracle say of a program against what its heaps are? | Two threads in one process or in two, two addresses, none or one of them held from before, both kinds of `realloc(p, 0)`, sizes 0 and 200, four calls, a ring of two that may be full. 936,197 states. |

Counters that only grow (`begun`, `calls`, `total_events`, what a monitor has
taken) are bounded by `MaxEvents`, `MaxCalls` and `MaxTaken` in the guards.
Deadlock checking is off where the system may stop: a target that has made its
calls, a session that has ended.

What the properties say is in the comment above each of them. The ones that took
the most thought:

* `NoOverwrite`, `DeliveredInOrder` and `RefinesLossyQueue` for the ring;
  `Accounted` says that nothing is lost silently: `head` counts the events
  published, and these, `dropped` and the pushes under way are all the pushes
  begun. It is about one process. With two, both may load the same `head`, write
  the same slot and store the same `head`, and one event is gone without a trace;
* `LockHasHolder` says who can hold `push_lock`, and that a child forked while
  its parent held it never gets in;
* `BinsMirrorState`, `BinIndexAgrees`, `BinHoldsOneSize`, `CountsMatch` relate
  the tables of the shadow heap; `LifeCycle` and `AlertsAreJustified` say what a
  single event may do; `RefinesShadowHeap` says that it all comes down to
  independent automata;
* `OwnEvents`: a monitor shows the events of its own target, whole and in
  order. With a generated name this holds whatever other monitors do, killed
  ones included; with a given name it needs that nobody else uses it, and TLC
  shows what happens otherwise as soon as the condition is taken out (a second
  monitor clears the ring under the first one's target). All of them are shown
  by a reader that found the ring empty once more after the end of the target;
  one that found it empty before, and `stop` raised when it came to test it,
  ends without the last. `RunFindsRing` has the
  same condition, and a second one: the name has its slash, see `shm_name`;
* `NoLeftover`: only a kill, or the exit after a failed launch, which runs no
  destructors, leaves a name in the file system;
* `OneEventPerCall` and `InnerCallsSilent` for the hook. `OneEventPerCall` is
  checked for Linux: with `Platform = "macos"` and `MainOnly` it does not hold,
  because only the Linux wrapper of `__libc_start_main` sets `ho_main_entered`,
  and `--main-only` then suppresses every event;
* `OneInitialiser`: a thread past the test of `ho_trace_enabled` has the filter
  set and the ring bound, which depends on the order in which the initialisation
  sets them; the mutant enables the trace before the ring is opened;
* `MainOnlySilent`: with `--main-only` nothing is published before main, and
  nothing later of what the thread that runs main called before it. What another
  thread has under way when main begins is published: `ho_publish` tests
  `ho_main_entered` after the real call;
* `OwedAreServed`, `CallsReturn`: the loser of the gate goes on without waiting.
  It has to: a call made by the initialisation itself loses the gate on its own
  thread, and would wait for itself. The price is the run `hook_loser`;
* `NothingMissed`: a reader that has looked at the ring once after the end of
  the target leaves nothing behind. It is conditional, and has to be: a reader
  that read an empty ring just before the target's last events, and is held up
  throughout the drain, ends without them (`src/main.rs` 232-239). `SharedRing`
  has the same behaviour, and `OwnEvents` the same condition;
* `SummaryCountsApplied` is about a summary that is written. When the reader
  panics on a closed output, the main thread usually does too, and none is;
* `AlarmsNeedBlur`, `MisuseReported`, `OracleMatchesHeap` for the whole: with
  the exact list of what blurs an address, the oracle accuses no correct
  program, misses no double free, and takes for allocated what is. Every entry
  of the list is needed.

### Runs that show a disagreement

| Run | What TLC finds |
|---|---|
| `ring_two_handles` | `push_lock` is per process, the ring is not: two processes write one slot. The comments promise safety for many producers. |
| `hook_loser` | While one thread initialises, `posix_memalign` of another fails with ENOSYS; the comment says its hook call is a no-op. |
| `hook_exit` | `ho_dtor` unmaps and clears `ho_platform` under a thread that is pushing; the comment on the gate says there are no concurrent writes to it. |
| `pipeline_race` | realloc publishes after the old block is gone; a thread that gets the block meanwhile has its correct `free` reported as a double free. |
| `shm_name` | `run --shm-name demo` makes `/demo`, and hands `demo` to the target, whose hook refuses a name without a slash: nothing is traced. The usage text offers any name. |

### Fairness

`RingBuffer`: weak fairness of the reader's loop and of every thread that is
past the lock. The reader is a loop that never blocks, and a thread inside
`ho_ring_push` only runs straight-line code. There is no fairness for taking the
lock: it is a spin on compare-and-swap, and nothing makes one thread win. No
thread has to allocate, fork or die. `Hook`: weak fairness of every thread that
is in a call, whose code is straight-line too; no thread has to begin a call,
and main does not have to start or to end. `Monitor`: weak fairness of the main
thread, the waiter and the reader; nobody has to close the window, the target
does not have to exit, nothing has to fail. `SessionEnds` is therefore about a
target that has exited. A window closed over a busy target waits for the reader
to find the ring empty once, which nothing guarantees; the bound on events would
hide that, so it is not claimed.

## 4. Proofs

| Theorem | Module | For every |
|---|---|---|
| `ChunkLeastFit`, `ChunkWord`, `IndexesInBounds`, `TcacheIsExact`, `ChunkIsMonotone` | `GlibcBinsProofs` | word size of at least six bits, request |
| `TypeCorrect`, `BinsAlwaysMirror`, `BinIndexAlwaysAgrees`, `TcacheAlwaysBounded`, `CountsAlwaysMatch`, `BinsHoldOneSize`, `MisuseIsExplained` | `HeapOracleProofs` | finite set of addresses, sizes, tcache and alert limits, number of events |
| `ChunksLiveInOrder`, `AlertsJustified` (action properties), `Refinement` (`Spec => RefinesShadowHeap`) | `HeapOracleProofs` | the same |
| `RingTypes`, `LockIsHeldForSomeone` | `RingBufferProofs` | finite set of processes, number of threads, capacity, batch limit, word size, number of events |
| `EveryEventAccounted`, `SlotsNeverOverwritten`, `EventsInOrder`, `RingIsLossyQueue` (`Spec => RefinesLossyQueue`) | `RingBufferProofs` | the same, with one process |
| `MonitorTypes`, `SummaryIsExact`, `NothingIsMissed`, `NameFollowsTheReader` | `MonitorProofs` | mode, number of events, capacity, batch limit, length of the drain |
| `HookTypes`, `InnerCallsAreSilent`, `OneThreadInitialises`, `OwedCallsAreServed`, `MainOnlyIsSilent`, `EventsMatchCalls` | `HookProofs` | set of threads, platform, filter, number of calls; the last one with `MainOnly` on Linux only |
| `SharedRingTypes`, `NoNameLeft`, `RunsFindTheRing`, `EventsAreOwn` | `SharedRingProofs` | set of monitors and of command lines, number of events |
| `PipelineTypes`, `AlarmsAreBlurred`, `OracleAgrees`, `MisusesReported` | `PipelineProofs` | set of threads, of processes, of addresses and of sizes, older blocks, capacity, tcache and alert limits, number of calls |

Assumptions: those named in the modules (`UsizeMaxAssumption`,
`HeapOracleAssumption`, `RingAssumption`, `HookAssumption`, `MonitorAssumption`,
`SharedRingAssumption`, `PipelineAssumption`), which TLC evaluates in every run
of them. They are types of the constants (`Null` is no address, capacities are
positive), but for `SharedRingAssumption`, which adds that no name on a command
line is one that `generate_shm_name` makes for another monitor. Some theorems
have a hypothesis of their own. `OneProcess` is the condition of the run `ring`:
with a second process that has its own lock the four properties are false:
`ring_two_handles` shows two writers of one slot, and the rest follows.
`MainIsSeen`, for `EventsMatchCalls`, is that `--main-only` is used on Linux: on
macOS nothing sets `ho_main_entered`. `MisusesReported` says `MisuseReported`
while the alert list is shorter than `AlertCap`: a full list drops its oldest
alert, and the report with it. In the run `pipeline` there are too few calls for
that.

The argument for the shadow heap: none of the properties is inductive alone. A
bin list is only known to lose an address because `bin_index` names the bin that
has it; a counter only stays a natural number because the chunk it is
decremented for was counted; the tcache only keeps its bound because nothing but
`classify_free_bin` leads to `push_bin`. The inductive invariant `Inv` is their
conjunction, `Good(oracle, Null)`: types, agreement of lists, `bin_index` and
chunk states, agreement of counters, the bound. In the middle of a call it does
not hold for the address the call is about, so `Good(o, a)` exempts `a` from the
agreement of lists; each private method has a lemma from `Good` to `Good` with
the exemption it needs, and each arm of `apply_free` and `apply_realloc` a
predicate for its effect on chunk states. The refinement follows from the
effects: `CallRefines` maps each to an action of `ShadowHeap`.

`SequenceLemmas` has what `RemoveFirst` and `Append` do to the elements of a
sequence without repetitions.

The argument for the ring: `LockHasHolder` only counts the threads inside
`ho_ring_push`, and a release would break it if a second one could be there. The
inductive `LockInv` adds that two threads inside are of different processes, that
a thread inside has the lock of a process that is no heir, that an heir's lock
stays taken, and that nothing has happened in a process not yet started, which is
what a fork needs: an heir is born with a taken lock and nobody inside. `TypeOK`
needs `EventInHand`: a thread that is pushing has an event.

With one process the lock serialises the pushes, and the order of the ring can be
told. `OrderInv` adds to `LockInv` that the thread inside has the current head in
its hand and has room for it (`HeadInHand`), that the slots between tail and head
hold the last elements of `sent`, whole (`SlotsHoldSent`), that what the reader has
delivered is the front of `sent` (`DeliveredSent`) and that its batch is what
follows (`BatchIsSent`). Counters are words, slots are found modulo the capacity,
and two positions less than a capacity apart never share a slot: this is where
the capacity has to divide the word. `Accounted` has two parts: `HeadCounts`, that
`head` is the length of `sent` modulo the word, follows from the head in the hand
of the thread that stores it, and `Balance` is inductive by itself once the threads
under way are known to be finitely many. The refinement maps the queue to the part of
`sent` that is not delivered: the store of `head` is the push, the store of
`tail` the take, and everything else a stutter.

The additions for the shadow heap: `BinHoldsOneSize` needs `SizesMatch` and that
indexes of chunks are used once (`IndexesUsed`), which `LifeCycle` rests on too.
`Told(o, r, alert)` is what a call does to the alert list, one predicate for all
arms, from which `AlertsAreJustified` and the newest-alert argument of
`AlertsExplain` follow.

The argument for the monitor: where the reader is in its loop tells by how much
the oracle and the count of consumed events are behind the tail it has stored
(`BatchCounted`); `FreshLook` says what a reader knows that began a batch after
the end of the target; `SessionOrder` which places of main thread, reader and
target go together: in a run nothing raises `stop` before the target has exited,
only `stop` ends the reader, and only the end of the reader drops the ring and
lets the main thread write a summary.

The argument for the hook: a thread is in one call and at most one more from
inside it (`Stacked`), its guard is 1 exactly while the outer one is past the
gate or initialising (`Guarded`), and one thread initialises. What a frame may
have seen is tied to what is set: `lib.trace` comes last, after the symbols, the
ring and the filter (`LibrarySet`, `Traces`). `Numbered` gives each call one
frame and one event, not before its place in the wrapper; `Paid` says that what
is owed is published once the frame is behind that place.

The argument for the shared object: who knows an object, the file system, a
monitor or a target, knows it by one name (`OneName`): an object comes to be with
a name, and is only reached through it. A monitor that was not disturbed is then
alone with its object (`Alone`, `OthersFaithful`): any other user of the object
would use its name. With a generated name it is undisturbed for good, since no
other monitor comes by the name (`GeneratedUndisturbed`). For an undisturbed
monitor the properties are those of one monitor and one target (`Faithful`). One
part of them, `AllShown`, says of a reader whose last look was after the end of the
target that it has taken all of `sent`: the ring was empty, and nothing is pushed
any more.
Trying to prove `RunFindsRing` corrected the model: with `disturbed` only about
monitors that share an *object*, TLC's run with two monitors passed and the proof
did not go through. With three there is a counterexample: one monitor loses its
name to a second one that ends, a third makes a new object under the same name,
and the first takes that name back from it when it ends. `disturbed` is about
names since.

The argument for the whole, in `PipelineProofs`. The oracle is behind the heap by
the events in the ring and by the calls not yet published, and which of the two is
ahead differs: `free` publishes first, the others last. `Told` ties them address
by address. The history `h` starts with what the oracle thinks of the address
(unknown, live or gone) and has what it will think after each event of the ring;
wherever an event releases the address, `h` has it live there; and `h` ends with
live exactly when the block is `Expected`: it is live and no call that obtained it
or will free it stands between its two steps, or a `realloc` has given it back and
not said so. So an event that is applied finds the oracle with the right belief,
which is `AlarmsNeedBlur`, and with an empty ring and idle threads nothing is left
of the history but its start, which is `OracleMatchesHeap`. `Told` needs that a
live block has one owner, the process or one of its calls (`Owned`), and that an
address which is not blurred has been of one process only and is not obtained
again before the `realloc` that gave it back has published (`Sharp`): these are
what each entry in the list of `blurred` is for. After a misuse `Told` is lost, and
`Betrayed` says where the second release of the block is: in the ring, at a place
where `h` has it gone, or in a call still to be published, or already in an alert.
Of `HeapOracle` the proofs use what each event makes the oracle think of each
address, and which alert it adds (`Learns`). TLC checked `Owned`, `Sharp`, `Told`
and `Betrayed` on the instance of `pipeline` before they were proved.

Only model-checked: the ring of several processes beyond `RingTypes` and
`LockIsHeldForSomeone`, which hold there. Out of reach of the provers, and left
to TLC for good: liveness under fairness (`LockReleased`, `EventuallyDelivered`,
`CallsReturn`, `SessionEnds`, `EventsReachOracle`), ENABLED, and induction over
data, so also what the fold in `CommandLine` computes: `SharedRingProofs` takes
the outcomes of `Parse` as they are.

## 5. Not modelled

* Windows: nothing is interposed there.
* Drawing and printing: they read what the other modules are about and decide
  nothing, but that a `println!` may panic, which is modelled. The build.
* In `Monitor`, children that outlive the target. In `SharedRing`, a full ring
  and wrapping counters, which `RingBuffer` has; one event is read at a time.
* `SharedRing::map` with `create = false`: nothing calls it.
* `unwrap_or(default_hook_library_path()?)` (`src/main.rs` 591) evaluates its
  argument first: `run --hook-lib P` is refused when there is no default library.
  `CommandLine` has it so (`Complete`); no property is about it.
* Contents of stacks and timestamps: nothing is decided on them.
* The real allocator beyond what a program may rely on, and weak memory.

## 6. Plan

Done: `GlibcBins`, `HeapOracle`, `ShadowHeap`, `RingBuffer`, `LossyQueue`, `Hook`,
`Monitor`, `CommandLine`, `SharedRing`, and `Pipeline` with several processes,
drops and both kinds of `realloc(p, 0)`; the proofs of section 4, which cover
every safety property of the passing runs.

Left: children that outlive the target, in `Monitor`; more of the ring of several
processes (what the reader of a ring with stale locks still gets).
