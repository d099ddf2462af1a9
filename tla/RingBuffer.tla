----------------------------- MODULE RingBuffer -----------------------------
(***************************************************************************)
(* The ring in shared memory: hook/src/ringbuf.c on the side of the target *)
(* and SharedRing::read_batch of src/ipc.rs on the side of the monitor.    *)
(*                                                                         *)
(* Producers are the threads of the processes that carry the hook.  The    *)
(* header (head, tail, dropped) and the slots are shared by all of them    *)
(* and by the reader; push_lock lives in each process.  One action per     *)
(* access to shared memory; the copy of an event into its slot is two      *)
(* actions, with Partial in between, so that whoever looks at a slot in    *)
(* the middle of a write sees it.  Interleavings are sequentially          *)
(* consistent: the code orders what matters with acquire and release.      *)
(*                                                                         *)
(* An event is its serial number: the fields carry no control here.        *)
(***************************************************************************)
EXTENDS Integers, FiniteSets, SequencesExt

CONSTANTS
  Process,        (* processes that load the hook library                  *)
  Root,           (* the one the monitor launches                          *)
  ThreadCount,    (* threads per process                                   *)
  Cap,            (* hdr->capacity, 4096 in the program                    *)
  BatchLimit,     (* READER_BATCH_SIZE, the limit of read_batch            *)
  Word,           (* number of values of a uint64_t                        *)
  MaxEvents       (* bound on the pushes begun                             *)

ASSUME RingAssumption ==
  /\ Root \in Process
  /\ IsFiniteSet(Process)
  /\ ThreadCount \in Nat
  /\ Cap \in Nat \ {0}
  /\ BatchLimit \in Nat \ {0}
  /\ Word \in Nat /\ Word > Cap
  /\ MaxEvents \in Nat

(* Positions only carry over a wrap of the counters because the capacity   *)
(* divides 2^64.                                                           *)
ASSUME CapDividesWord == Word % Cap = 0

Thread == Process \X (1 .. ThreadCount)

ProcOf(t) == t[1]

VARIABLES
  ring,                   (* ho_ring_header: its counters                  *)
  slot,                   (* the events array                              *)
  lock,                   (* ho_ring.push_lock of each process             *)
  status,                 (* of each process                               *)
  thread,                 (* of each thread: its place in ho_ring_push and *)
                          (* the locals head and event                     *)
  reader,                 (* the locals of read_batch                      *)
  begun,                  (* history: pushes begun                         *)
  heirs,                  (* history: processes forked while the lock of   *)
                          (* their parent was held                         *)
  sent,                   (* history: events in the order head was stored  *)
  delivered               (* history: events read_batch returned           *)

history == <<begun, heirs, sent, delivered>>
vars    == <<ring, slot, lock, status, thread, reader, history>>

-----------------------------------------------------------------------------
(* uint64_t arithmetic *)

(* Mutant: the counter does not wrap where the word does. *)
IncrementNoWrap(n) == n + 1

Increment(n) == IF n = Word - 1 THEN 0 ELSE n + 1

(* The difference as a u64: huge, not negative, when a < b. *)
Distance(a, b) == IF a >= b THEN a - b ELSE a - b + Word

SlotOf(n) == n % Cap

-----------------------------------------------------------------------------
(* Slots *)

Empty      == [kind |-> "empty",   of |-> 0]
Whole(e)   == [kind |-> "whole",   of |-> e]
Partial(e) == [kind |-> "partial", of |-> e]
Torn       == [kind |-> "torn",    of |-> 0]

Event   == 1 .. MaxEvents
Content == {Whole(e) : e \in Event} \cup {Partial(e) : e \in Event} \cup {Empty, Torn}

-----------------------------------------------------------------------------
(* ho_ring_push *)

At(t, place) == status[ProcOf(t)] = "running" /\ thread[t].at = place

Goes(t, from, to) == At(t, from) /\ thread' = [thread EXCEPT ![t].at = to]

BeginPush(t) ==
  /\ At(t, "idle") /\ begun < MaxEvents
  /\ begun' = begun + 1
  /\ thread' = [thread EXCEPT ![t].at = "acquire", ![t].event = begun + 1]
  /\ UNCHANGED <<ring, slot, lock, status, reader, heirs, sent, delivered>>

(* Mutant: whatever the compare-and-swap answers, the loop ends. *)
ReadsFreeAlways(p) == TRUE

ReadsFree(p) == ~ lock[p]

(* ring_lock_acquire: the spin is the wait for the guard. *)
Acquire(t) ==
  /\ Goes(t, "acquire", "head") /\ ReadsFree(ProcOf(t))
  /\ lock' = [lock EXCEPT ![ProcOf(t)] = TRUE]
  /\ UNCHANGED <<ring, slot, status, reader, history>>

LoadHead(t) ==
  /\ At(t, "head")
  /\ thread' = [thread EXCEPT ![t].at = "room", ![t].head = ring.head]
  /\ UNCHANGED <<ring, slot, lock, status, reader, history>>

(* Mutant: one event more than there are slots. *)
FullOffByOne(head) == Distance(head, ring.tail) > Cap

Full(head) == Distance(head, ring.tail) >= Cap

LoadTail(t) ==
  /\ Goes(t, "room", IF Full(thread[t].head) THEN "drop" ELSE "write")
  /\ UNCHANGED <<ring, slot, lock, status, reader, history>>

(* Mutant: `return` stands where `goto out` does. *)
AfterDropReturns == "idle"

AfterDrop == "release"

(* Mutant: an event is refused without being counted. *)
CountedNot(n) == n

Counted(n) == n + 1

Drop(t) ==
  /\ Goes(t, "drop", AfterDrop)
  /\ ring' = [ring EXCEPT !.dropped = Counted(@)]
  /\ UNCHANGED <<slot, lock, status, reader, history>>

(* The threads in the middle of a copy into slot i; a copy that overlaps    *)
(* another one leaves a mixture.                                           *)
Copying(i) == {t \in Thread : At(t, "copy") /\ SlotOf(thread[t].head) = i}

BeginWrite(t) ==
  /\ Goes(t, "write", "copy")
  /\ LET i == SlotOf(thread[t].head)
     IN  slot' = [slot EXCEPT ![i] = IF Copying(i) = {} THEN Partial(thread[t].event)
                                                        ELSE Torn]
  /\ UNCHANGED <<ring, lock, status, reader, history>>

EndWrite(t) ==
  /\ Goes(t, "copy", "publish")
  /\ slot' = [slot EXCEPT ![SlotOf(thread[t].head)] =
                IF @ = Partial(thread[t].event) THEN Whole(thread[t].event) ELSE Torn]
  /\ UNCHANGED <<ring, lock, status, reader, history>>

StoreHead(t) ==
  /\ Goes(t, "publish", "release")
  /\ ring' = [ring EXCEPT !.head = Increment(thread[t].head)]
  /\ sent' = Append(sent, Whole(thread[t].event))
  /\ UNCHANGED <<slot, lock, status, reader, begun, heirs, delivered>>

Release(t) ==
  /\ Goes(t, "release", "idle")
  /\ lock' = [lock EXCEPT ![ProcOf(t)] = FALSE]
  /\ UNCHANGED <<ring, slot, status, reader, history>>

Step(t) ==
  \/ LoadHead(t) \/ LoadTail(t) \/ Drop(t)
  \/ BeginWrite(t) \/ EndWrite(t) \/ StoreHead(t) \/ Release(t)

-----------------------------------------------------------------------------
(* Processes.  A child of the target inherits LD_PRELOAD and the name of   *)
(* the ring: after an exec it binds its own handle, with a free lock; a    *)
(* forked child that does not exec goes on with a copy of its parent's     *)
(* handle, the value of the lock included, and the mapping is MAP_SHARED.  *)

Starts(q, held) ==
  /\ status[q] = "unborn"
  /\ status' = [status EXCEPT ![q] = "running"]
  /\ lock' = [lock EXCEPT ![q] = held]
  /\ UNCHANGED <<ring, slot, thread, reader, begun, sent, delivered>>

Spawn(q) ==
  /\ \E p \in Process : status[p] = "running"
  /\ Starts(q, FALSE)
  /\ UNCHANGED heirs

Fork(t, q) ==
  /\ At(t, "idle")
  /\ Starts(q, lock[ProcOf(t)])
  /\ heirs' = IF lock[ProcOf(t)] THEN heirs \cup {q} ELSE heirs

(* A signal or an exit ends a process anywhere; its threads stay where     *)
(* they are in ho_ring_push, for good.                                     *)
Kill(p) ==
  /\ status[p] = "running"
  /\ status' = [status EXCEPT ![p] = "dead"]
  /\ UNCHANGED <<ring, slot, lock, thread, reader, history>>

-----------------------------------------------------------------------------
(* SharedRing::read_batch, called in a loop by one thread. *)

BeginRead ==
  /\ ~ reader.reading
  /\ reader' = [reading |-> TRUE, head |-> ring.head, tail |-> ring.tail, out |-> << >>]
  /\ UNCHANGED <<ring, slot, lock, status, thread, history>>

More == reader.tail # reader.head /\ Len(reader.out) < BatchLimit

ReadSlot ==
  /\ reader.reading /\ More
  /\ reader' = [reader EXCEPT !.out = Append(@, slot[SlotOf(reader.tail)]),
                              !.tail = Increment(@)]
  /\ UNCHANGED <<ring, slot, lock, status, thread, history>>

(* Mutant: a batch cut short by the limit skips the rest. *)
BatchEndSkips == reader.head

BatchEnd == reader.tail

EndRead ==
  /\ reader.reading /\ ~ More
  /\ reader' = [reader EXCEPT !.reading = FALSE, !.out = << >>]
  /\ ring' = [ring EXCEPT !.tail = BatchEnd]
  /\ delivered' = delivered \o reader.out
  /\ UNCHANGED <<slot, lock, status, thread, begun, heirs, sent>>

-----------------------------------------------------------------------------
Init ==
  /\ ring = [head |-> 0, tail |-> 0, dropped |-> 0]
  /\ slot = [i \in 0 .. Cap - 1 |-> Empty]
  /\ lock = [p \in Process |-> FALSE]
  /\ status = [p \in Process |-> IF p = Root THEN "running" ELSE "unborn"]
  /\ thread = [t \in Thread |-> [at |-> "idle", head |-> 0, event |-> 0]]
  /\ reader = [reading |-> FALSE, head |-> 0, tail |-> 0, out |-> << >>]
  /\ begun = 0 /\ heirs = {} /\ sent = << >> /\ delivered = << >>

Read == BeginRead \/ ReadSlot \/ EndRead

Next ==
  \/ \E t \in Thread : BeginPush(t) \/ Acquire(t) \/ Step(t)
  \/ \E q \in Process : Spawn(q) \/ (\E t \in Thread : Fork(t, q)) \/ Kill(q)
  \/ Read

(* The monitor's thread keeps calling read_batch, and the system schedules *)
(* every thread that can run; nothing makes a thread allocate, win the     *)
(* race for the lock, start a process or die.                              *)
Fairness ==
  /\ WF_vars(Read)
  /\ \A t \in Thread : WF_vars(Step(t))

Spec     == Init /\ [][Next]_vars
FairSpec == Spec /\ Fairness

-----------------------------------------------------------------------------
(* Invariants *)

Place == {"idle", "acquire", "head", "room", "drop", "write", "copy", "publish",
          "release"}

TypeOK ==
  /\ ring \in [head : 0 .. Word - 1, tail : 0 .. Word - 1, dropped : Nat]
  /\ slot \in [0 .. Cap - 1 -> Content]
  /\ lock \in [Process -> BOOLEAN]
  /\ status \in [Process -> {"unborn", "running", "dead"}]
  /\ thread \in [Thread -> [at : Place, head : 0 .. Word - 1, event : 0 .. MaxEvents]]
  /\ reader \in [reading : BOOLEAN, head : 0 .. Word - 1, tail : 0 .. Word - 1,
                 out : Seq(Content)]
  /\ begun \in 0 .. MaxEvents
  /\ heirs \subseteq Process
  /\ sent \in Seq(Content) /\ delivered \in Seq(Content)

Pending == Distance(ring.head, ring.tail)

Inside(t)  == thread[t].at \in Place \ {"idle", "acquire"}
MidPush(t) == thread[t].at \in Place \ {"idle", "release"}

(* push_lock does its job among the threads of one process, and it is held *)
(* only for a thread that is inside ho_ring_push, which will release it.   *)
(* The one exception is a child forked while its parent held the lock.     *)
LockHasHolder ==
  \A p \in Process :
    LET holders == {t \in Thread : ProcOf(t) = p /\ Inside(t)}
    IN  /\ Cardinality(holders) <= 1
        /\ p \in heirs => lock[p] /\ holders = {}
        /\ p \notin heirs => (lock[p] <=> holders # {})

(* Two producers never write the same slot at the same time, and none      *)
(* writes a slot that the reader has not given back yet: the claim of the  *)
(* comment in ho_ring_push and of "MPSC safety" in ho_ring.                *)
NoOverwrite ==
  \A t \in Thread : At(t, "copy") =>
    /\ Copying(SlotOf(thread[t].head)) = {t}
    /\ \A k \in 0 .. Pending - 1 : SlotOf(thread[t].head) # SlotOf(ring.tail + k)

(* What the reader returns is what was published: each event once, whole,  *)
(* and in the order of publication.                                        *)
DeliveredInOrder == IsPrefix(delivered \o reader.out, sent)

(* In one process nothing is lost silently, and the header shows it: head  *)
(* counts the events published, and every push begun was published, was    *)
(* counted in `dropped`, or is still under way (or died on its way).  With *)
(* a lock in each of two processes both may store the same head, and one   *)
(* of the two events is gone without a trace.                              *)
Accounted ==
  /\ ring.head = Len(sent) % Word
  /\ Len(sent) + ring.dropped + Cardinality({t \in Thread : MidPush(t)}) = begun

-----------------------------------------------------------------------------
(* Temporal properties *)

(* No producer is held up by a lost lock: a process whose lock is taken    *)
(* gets it back, unless it dies first.                                     *)
LockReleased == \A p \in Process : lock[p] ~> (~ lock[p] \/ status[p] = "dead")

(* Whatever is published is delivered in the end, also when its producer   *)
(* died right after.                                                       *)
EventuallyDelivered ==
  \A n \in 1 .. MaxEvents : (Len(sent) >= n) ~> (Len(delivered) >= n)

-----------------------------------------------------------------------------
(* Refinement: the queue is what lies between tail and head. *)

Lossy == INSTANCE LossyQueue WITH
           queue <- [i \in 1 .. Pending |-> slot[SlotOf(ring.tail + i - 1)]],
           Event <- Content

(* Locks, partial writes, crashes and wrapped counters hidden, the ring of *)
(* one process is a bounded queue.                                         *)
RefinesLossyQueue == Lossy!Spec
=============================================================================
