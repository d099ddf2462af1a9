-------------------------- MODULE RingBufferProofs --------------------------
(***************************************************************************)
(* TLAPS proofs about RingBuffer, for every number of processes and        *)
(* threads, every capacity, batch limit and word size.                     *)
(***************************************************************************)
EXTENDS RingBuffer, FiniteSetTheorems, SequenceTheorems, TLAPS

ThreadType == [at : Place, head : 0 .. Word - 1, event : 0 .. MaxEvents]

(* A thread that is pushing has an event to push. *)
EventInHand == \A t \in Thread : thread[t].at # "idle" => thread[t].event \in Event

TypeInv == TypeOK /\ EventInHand

-----------------------------------------------------------------------------
(* Arithmetic and the slots                                                *)

LEMMA IncrementType ==
  ASSUME NEW n \in 0 .. Word - 1
  PROVE  Increment(n) \in 0 .. Word - 1
BY RingAssumption DEF Increment

LEMMA SlotInRing ==
  ASSUME NEW n \in 0 .. Word - 1
  PROVE  SlotOf(n) \in 0 .. Cap - 1
BY RingAssumption DEF SlotOf

LEMMA ContentType ==
  /\ Empty \in Content /\ Torn \in Content
  /\ \A e \in Event : Whole(e) \in Content /\ Partial(e) \in Content
BY DEF Content

LEMMA ThreadProc == \A t \in Thread : ProcOf(t) \in Process
BY DEF Thread, ProcOf

(* Where a step leaves the locals head and event alone, what is known of   *)
(* them stays.                                                             *)
LEMMA GoesKeepsType ==
  ASSUME TypeInv, NEW t \in Thread, NEW from \in Place \ {"idle"}, NEW to \in Place,
         Goes(t, from, to)
  PROVE  /\ thread' \in [Thread -> ThreadType]
         /\ EventInHand'
         /\ thread[t] \in ThreadType /\ thread[t].event \in Event
<1>1. thread \in [Thread -> ThreadType]
  BY DEF TypeInv, TypeOK, ThreadType
<1>2. thread' = [thread EXCEPT ![t].at = to] /\ thread[t].at = from
  BY DEF Goes, At
<1>3. thread' \in [Thread -> ThreadType]
  BY <1>1, <1>2 DEF ThreadType
<1>4. EventInHand'
  BY <1>1, <1>2 DEF TypeInv, EventInHand, ThreadType
<1> QED BY <1>1, <1>2, <1>3, <1>4 DEF TypeInv, EventInHand

-----------------------------------------------------------------------------
(* Type correctness                                                        *)

LEMMA InitTypeInv == Init => TypeInv
<1> SUFFICES ASSUME Init PROVE TypeInv
  OBVIOUS
<1> USE RingAssumption DEF Init
<1>1. ring \in [head : 0 .. Word - 1, tail : 0 .. Word - 1, dropped : Nat]
  OBVIOUS
<1>2. slot \in [0 .. Cap - 1 -> Content]
  BY ContentType
<1>3. /\ lock \in [Process -> BOOLEAN]
      /\ status \in [Process -> {"unborn", "running", "dead"}]
  OBVIOUS
<1>4. thread \in [Thread -> [at : Place, head : 0 .. Word - 1, event : 0 .. MaxEvents]]
  BY DEF Place
<1>5. reader \in [reading : BOOLEAN, head : 0 .. Word - 1, tail : 0 .. Word - 1,
                  out : Seq(Content)]
  OBVIOUS
<1>6. /\ begun \in 0 .. MaxEvents /\ heirs \subseteq Process
      /\ sent \in Seq(Content) /\ delivered \in Seq(Content)
  OBVIOUS
<1>7. EventInHand
  BY DEF EventInHand
<1> QED BY <1>1, <1>2, <1>3, <1>4, <1>5, <1>6, <1>7 DEF TypeInv, TypeOK

LEMMA BeginPushTypeInv ==
  ASSUME TypeInv, NEW t \in Thread, BeginPush(t)
  PROVE  TypeInv'
<1>1. begun' \in 0 .. MaxEvents /\ begun + 1 \in Event
  <2>1. begun \in 0 .. MaxEvents /\ begun < MaxEvents /\ begun' = begun + 1
    BY DEF TypeInv, TypeOK, BeginPush
  <2> QED BY <2>1, RingAssumption DEF Event
<1>2. thread' \in [Thread -> ThreadType]
  <2>1. thread \in [Thread -> ThreadType] /\ "acquire" \in Place
    BY DEF TypeInv, TypeOK, ThreadType, Place
  <2>2. begun + 1 \in 0 .. MaxEvents
    BY <1>1, RingAssumption DEF Event
  <2>3. thread' = [thread EXCEPT ![t].at = "acquire", ![t].event = begun + 1]
    BY DEF BeginPush
  <2> QED BY <2>1, <2>2, <2>3 DEF ThreadType
<1>3. EventInHand'
  BY <1>1 DEF TypeInv, TypeOK, EventInHand, BeginPush
<1> QED BY <1>1, <1>2, <1>3 DEF TypeInv, TypeOK, BeginPush, ThreadType

LEMMA StepTypeInv ==
  ASSUME TypeInv, NEW t \in Thread, Acquire(t) \/ Step(t)
  PROVE  TypeInv'
<1> USE DEF history
<1>1. CASE Acquire(t)
  <2>1. thread' \in [Thread -> ThreadType] /\ EventInHand'
    BY <1>1, GoesKeepsType DEF Acquire, Place
  <2> QED BY <1>1, <2>1 DEF Acquire, TypeInv, TypeOK, ThreadType
<1>2. CASE LoadHead(t)
  <2>0. thread \in [Thread -> ThreadType] /\ ring.head \in 0 .. Word - 1
    BY DEF TypeInv, TypeOK, ThreadType
  <2>1. thread' \in [Thread -> ThreadType]
    BY <1>2, <2>0 DEF LoadHead, ThreadType, Place
  <2>2. EventInHand'
    BY <1>2 DEF LoadHead, At, TypeInv, TypeOK, EventInHand
  <2> QED BY <1>2, <2>1, <2>2 DEF LoadHead, TypeInv, TypeOK, ThreadType
<1>3. CASE LoadTail(t)
  <2>1. thread' \in [Thread -> ThreadType] /\ EventInHand'
    BY <1>3, GoesKeepsType DEF LoadTail, Place
  <2> QED BY <1>3, <2>1 DEF LoadTail, TypeInv, TypeOK, ThreadType
<1>4. CASE Drop(t)
  <2>1. thread' \in [Thread -> ThreadType] /\ EventInHand'
    BY <1>4, GoesKeepsType DEF Drop, AfterDrop, Place
  <2>2. ring' \in [head : 0 .. Word - 1, tail : 0 .. Word - 1, dropped : Nat]
    <3>1. ring \in [head : 0 .. Word - 1, tail : 0 .. Word - 1, dropped : Nat]
      BY DEF TypeInv, TypeOK
    <3>2. ring' = [ring EXCEPT !.dropped = ring.dropped + 1]
      BY <1>4 DEF Drop, Counted
    <3> QED BY <3>1, <3>2
  <2> QED BY <1>4, <2>1, <2>2 DEF Drop, TypeInv, TypeOK, ThreadType
<1>5. CASE BeginWrite(t)
  <2>1. /\ thread' \in [Thread -> ThreadType] /\ EventInHand'
        /\ thread[t].event \in Event
    BY <1>5, GoesKeepsType DEF BeginWrite, Place
  <2>2. slot' \in [0 .. Cap - 1 -> Content]
    BY <1>5, <2>1, ContentType DEF BeginWrite, TypeInv, TypeOK
  <2> QED BY <1>5, <2>1, <2>2 DEF BeginWrite, TypeInv, TypeOK, ThreadType
<1>6. CASE EndWrite(t)
  <2>1. /\ thread' \in [Thread -> ThreadType] /\ EventInHand'
        /\ thread[t].event \in Event
    BY <1>6, GoesKeepsType DEF EndWrite, Place
  <2>2. slot' \in [0 .. Cap - 1 -> Content]
    BY <1>6, <2>1, ContentType DEF EndWrite, TypeInv, TypeOK
  <2> QED BY <1>6, <2>1, <2>2 DEF EndWrite, TypeInv, TypeOK, ThreadType
<1>7. CASE StoreHead(t)
  <2>1. /\ thread' \in [Thread -> ThreadType] /\ EventInHand'
        /\ thread[t] \in ThreadType /\ thread[t].event \in Event
    BY <1>7, GoesKeepsType DEF StoreHead, Place
  <2>2. Increment(thread[t].head) \in 0 .. Word - 1
    BY <2>1, IncrementType DEF ThreadType
  <2>3. sent' \in Seq(Content)
    BY <1>7, <2>1, ContentType DEF StoreHead, TypeInv, TypeOK
  <2> QED BY <1>7, <2>1, <2>2, <2>3 DEF StoreHead, TypeInv, TypeOK, ThreadType
<1>8. CASE Release(t)
  <2>1. thread' \in [Thread -> ThreadType] /\ EventInHand'
    BY <1>8, GoesKeepsType DEF Release, Place
  <2> QED BY <1>8, <2>1 DEF Release, TypeInv, TypeOK, ThreadType
<1> QED BY <1>1, <1>2, <1>3, <1>4, <1>5, <1>6, <1>7, <1>8 DEF Step

LEMMA ProcessTypeInv ==
  ASSUME TypeInv, NEW q \in Process,
         Spawn(q) \/ (\E t \in Thread : Fork(t, q)) \/ Kill(q)
  PROVE  TypeInv'
<1>1. CASE Spawn(q)
  BY <1>1 DEF Spawn, Starts, TypeInv, TypeOK, EventInHand
<1>2. ASSUME NEW t \in Thread, Fork(t, q) PROVE TypeInv'
  BY <1>2, ThreadProc DEF Fork, Starts, TypeInv, TypeOK, EventInHand
<1>3. CASE Kill(q)
  BY <1>3 DEF Kill, history, TypeInv, TypeOK, EventInHand
<1> QED BY <1>1, <1>2, <1>3

LEMMA ReadTypeInv ==
  ASSUME TypeInv, Read
  PROVE  TypeInv'
<1>1. CASE BeginRead
  <2>1. reader' \in [reading : BOOLEAN, head : 0 .. Word - 1, tail : 0 .. Word - 1,
                     out : Seq(Content)]
    BY <1>1 DEF BeginRead, TypeInv, TypeOK
  <2> QED BY <1>1, <2>1 DEF BeginRead, history, TypeInv, TypeOK, EventInHand
<1>2. CASE ReadSlot
  <2>1. slot[SlotOf(reader.tail)] \in Content /\ Increment(reader.tail) \in 0 .. Word - 1
    BY SlotInRing, IncrementType DEF TypeInv, TypeOK
  <2>2. Append(reader.out, slot[SlotOf(reader.tail)]) \in Seq(Content)
    BY <2>1 DEF TypeInv, TypeOK
  <2>3. reader' \in [reading : BOOLEAN, head : 0 .. Word - 1, tail : 0 .. Word - 1,
                     out : Seq(Content)]
    <3>1. reader \in [reading : BOOLEAN, head : 0 .. Word - 1, tail : 0 .. Word - 1,
                      out : Seq(Content)]
      BY DEF TypeInv, TypeOK
    <3>2. reader' = [reader EXCEPT
                       !.out  = Append(reader.out, slot[SlotOf(reader.tail)]),
                       !.tail = Increment(reader.tail)]
      BY <1>2 DEF ReadSlot
    <3> QED BY <2>1, <2>2, <3>1, <3>2
  <2> QED BY <1>2, <2>3 DEF ReadSlot, history, TypeInv, TypeOK, EventInHand
<1>3. CASE EndRead
  <2>1. reader' \in [reading : BOOLEAN, head : 0 .. Word - 1, tail : 0 .. Word - 1,
                     out : Seq(Content)]
    <3>1. << >> \in Seq(Content)
      OBVIOUS
    <3>2. /\ reader \in [reading : BOOLEAN, head : 0 .. Word - 1, tail : 0 .. Word - 1,
                         out : Seq(Content)]
          /\ reader' = [reader EXCEPT !.reading = FALSE, !.out = << >>]
      BY <1>3 DEF EndRead, TypeInv, TypeOK
    <3> QED BY <3>1, <3>2
  <2>2. delivered' \in Seq(Content)
    BY <1>3 DEF EndRead, TypeInv, TypeOK
  <2>3. ring' \in [head : 0 .. Word - 1, tail : 0 .. Word - 1, dropped : Nat]
    BY <1>3 DEF EndRead, BatchEnd, TypeInv, TypeOK
  <2> QED BY <1>3, <2>1, <2>2, <2>3 DEF EndRead, TypeInv, TypeOK, EventInHand
<1> QED BY <1>1, <1>2, <1>3 DEF Read

LEMMA NextTypeInv == TypeInv /\ [Next]_vars => TypeInv'
<1> SUFFICES ASSUME TypeInv, [Next]_vars PROVE TypeInv'
  OBVIOUS
<1>1. ASSUME NEW t \in Thread, BeginPush(t) \/ Acquire(t) \/ Step(t) PROVE TypeInv'
  BY <1>1, BeginPushTypeInv, StepTypeInv
<1>2. ASSUME NEW q \in Process,
             Spawn(q) \/ (\E t \in Thread : Fork(t, q)) \/ Kill(q)
      PROVE  TypeInv'
  BY <1>2, ProcessTypeInv
<1>3. CASE Read
  BY <1>3, ReadTypeInv
<1>4. CASE UNCHANGED vars
  BY <1>4 DEF vars, history, TypeInv, TypeOK, EventInHand
<1> QED BY <1>1, <1>2, <1>3, <1>4 DEF Next

LEMMA TypeInvAlways == Spec => []TypeInv
BY InitTypeInv, NextTypeInv, PTL DEF Spec

(* The counters stay in their word, the slots and the batches hold events  *)
(* that were pushed: the types of ringbuf.c and of read_batch in ipc.rs.   *)
THEOREM RingTypes == Spec => []TypeOK
<1>1. TypeInv => TypeOK
  BY DEF TypeInv
<1> QED BY <1>1, TypeInvAlways, PTL

-----------------------------------------------------------------------------
(* push_lock                                                               *)

(* What LockHasHolder needs to be inductive: which thread the lock is held *)
(* for, and that nothing has happened yet in a process that does not exist.*)
OneInside ==
  \A t, u \in Thread : ProcOf(t) = ProcOf(u) /\ Inside(t) /\ Inside(u) => t = u

InsideHolds == \A t \in Thread : Inside(t) => lock[ProcOf(t)] /\ ProcOf(t) \notin heirs

HeirsLocked == \A p \in heirs : lock[p]

HeldForSome ==
  \A p \in Process :
    lock[p] /\ p \notin heirs => \E t \in Thread : ProcOf(t) = p /\ Inside(t)

UnbornUntouched ==
  \A p \in Process : status[p] = "unborn" =>
    /\ ~ lock[p] /\ p \notin heirs
    /\ \A t \in Thread : ProcOf(t) = p => thread[t].at = "idle"

LockInv ==
  OneInside /\ InsideHolds /\ HeirsLocked /\ HeldForSome /\ UnbornUntouched

(* A step that moves no thread across the lock and leaves the lock, the    *)
(* processes and the heirs alone keeps all of it.                          *)
LEMMA SameInside ==
  ASSUME TypeInv, LockInv,
         \A u \in Thread : Inside(u)' <=> Inside(u),
         \A u \in Thread : thread'[u] = thread[u] \/ status[ProcOf(u)] = "running",
         UNCHANGED <<lock, status, heirs>>
  PROVE  LockInv'
<1>1. OneInside' /\ InsideHolds' /\ HeirsLocked' /\ HeldForSome'
  BY DEF LockInv, OneInside, InsideHolds, HeirsLocked, HeldForSome
<1>2. UnbornUntouched'
  BY DEF LockInv, UnbornUntouched
<1> QED BY <1>1, <1>2 DEF LockInv

LEMMA InitLockInv == Init => LockInv
BY RingAssumption, ThreadProc
   DEF Init, LockInv, OneInside, InsideHolds, HeirsLocked, HeldForSome,
       UnbornUntouched, Inside

(* Every step of ho_ring_push but the two on the lock.                     *)
LEMMA PushLockInv ==
  ASSUME TypeInv, LockInv, NEW t \in Thread,
         \/ BeginPush(t) \/ LoadHead(t) \/ LoadTail(t) \/ Drop(t)
         \/ BeginWrite(t) \/ EndWrite(t) \/ StoreHead(t)
  PROVE  LockInv'
<1>1. /\ UNCHANGED <<lock, status, heirs>>
      /\ status[ProcOf(t)] = "running"
      /\ \A u \in Thread \ {t} : thread'[u] = thread[u]
  BY DEF BeginPush, LoadHead, LoadTail, Drop, BeginWrite, EndWrite, StoreHead, Goes, At,
         history, TypeInv, TypeOK
<1>2. Inside(t)' <=> Inside(t)
  BY DEF BeginPush, LoadHead, LoadTail, Drop, AfterDrop, BeginWrite, EndWrite, StoreHead,
         Goes, At, Inside, Place, TypeInv, TypeOK
<1>3. \A u \in Thread : Inside(u)' <=> Inside(u)
  BY <1>1, <1>2 DEF Inside
<1> QED BY <1>1, <1>3, SameInside

LEMMA AcquireLockInv ==
  ASSUME TypeInv, LockInv, NEW t \in Thread, Acquire(t)
  PROVE  LockInv'
<1> DEFINE p == ProcOf(t)
<1>1. /\ p \in Process /\ ~ lock[p] /\ status[p] = "running"
      /\ lock' = [lock EXCEPT ![p] = TRUE] /\ UNCHANGED <<status, heirs>>
      /\ thread' = [thread EXCEPT ![t].at = "head"]
  BY ThreadProc DEF Acquire, Goes, At, ReadsFree, history
<1>2. lock'[p] /\ \A q \in Process \ {p} : lock'[q] = lock[q]
  BY <1>1 DEF TypeInv, TypeOK
<1>3. /\ Inside(t)'
      /\ \A u \in Thread \ {t} : thread'[u] = thread[u] /\ (Inside(u)' <=> Inside(u))
  BY <1>1 DEF Inside, Place, TypeInv, TypeOK
<1>4. p \notin heirs /\ \A u \in Thread : ProcOf(u) = p => ~ Inside(u)
  BY <1>1 DEF LockInv, HeirsLocked, InsideHolds
<1>5. OneInside'
  BY <1>3, <1>4 DEF LockInv, OneInside
<1>6. InsideHolds'
  BY <1>1, <1>2, <1>3, <1>4, ThreadProc DEF LockInv, InsideHolds
<1>7. HeirsLocked'
  BY <1>1, <1>2 DEF LockInv, HeirsLocked, TypeInv, TypeOK
<1>8. HeldForSome'
  BY <1>1, <1>2, <1>3 DEF LockInv, HeldForSome
<1>9. UnbornUntouched'
  BY <1>1, <1>2, <1>3 DEF LockInv, UnbornUntouched
<1> QED BY <1>5, <1>6, <1>7, <1>8, <1>9 DEF LockInv

LEMMA ReleaseLockInv ==
  ASSUME TypeInv, LockInv, NEW t \in Thread, Release(t)
  PROVE  LockInv'
<1> DEFINE p == ProcOf(t)
<1>1. /\ p \in Process /\ status[p] = "running" /\ Inside(t)
      /\ lock' = [lock EXCEPT ![p] = FALSE] /\ UNCHANGED <<status, heirs>>
      /\ thread' = [thread EXCEPT ![t].at = "idle"]
  BY ThreadProc DEF Release, Goes, At, Inside, Place, history
<1>2. ~ lock'[p] /\ \A q \in Process \ {p} : lock'[q] = lock[q]
  BY <1>1 DEF TypeInv, TypeOK
<1>3. /\ ~ Inside(t)'
      /\ \A u \in Thread \ {t} : thread'[u] = thread[u] /\ (Inside(u)' <=> Inside(u))
  BY <1>1 DEF Inside, Place, TypeInv, TypeOK
<1>4. p \notin heirs /\ \A u \in Thread \ {t} : ProcOf(u) = p => ~ Inside(u)
  BY <1>1 DEF LockInv, OneInside, InsideHolds
<1>5. OneInside'
  BY <1>3 DEF LockInv, OneInside
<1>6. InsideHolds'
  BY <1>1, <1>2, <1>3, <1>4, ThreadProc DEF LockInv, InsideHolds
<1>7. HeirsLocked'
  BY <1>1, <1>2, <1>4 DEF LockInv, HeirsLocked, TypeInv, TypeOK
<1>8. HeldForSome'
  BY <1>1, <1>2, <1>3 DEF LockInv, HeldForSome
<1>9. UnbornUntouched'
  BY <1>1, <1>2, <1>3 DEF LockInv, UnbornUntouched
<1> QED BY <1>5, <1>6, <1>7, <1>8, <1>9 DEF LockInv

(* A new process starts with a free lock, or as an heir with a taken one;  *)
(* none of its threads is in ho_ring_push either way.                      *)
LEMMA StartsLockInv ==
  ASSUME TypeInv, LockInv, NEW q \in Process, NEW held \in BOOLEAN, Starts(q, held),
         heirs' = IF held THEN heirs \cup {q} ELSE heirs
  PROVE  LockInv'
<1>1. /\ status[q] = "unborn" /\ status' = [status EXCEPT ![q] = "running"]
      /\ lock' = [lock EXCEPT ![q] = held] /\ thread' = thread
  BY DEF Starts
<1>2. /\ lock'[q] = held /\ status'[q] = "running"
      /\ \A p \in Process \ {q} : lock'[p] = lock[p] /\ status'[p] = status[p]
  BY <1>1 DEF TypeInv, TypeOK
<1>3. \A u \in Thread : (Inside(u)' <=> Inside(u)) /\ (ProcOf(u) = q => ~ Inside(u))
  BY <1>1 DEF LockInv, UnbornUntouched, Inside
<1>4. OneInside'
  BY <1>3 DEF LockInv, OneInside
<1>5. InsideHolds'
  BY <1>2, <1>3, ThreadProc DEF LockInv, InsideHolds
<1>6. HeirsLocked'
  <2>1. q \notin heirs /\ heirs \subseteq Process
    BY <1>1 DEF LockInv, UnbornUntouched, TypeInv, TypeOK
  <2>2. \A p \in heirs : lock'[p]
    BY <1>2, <2>1 DEF LockInv, HeirsLocked
  <2>3. CASE held
    BY <1>2, <2>2, <2>3 DEF HeirsLocked
  <2>4. CASE ~ held
    BY <2>2, <2>4 DEF HeirsLocked
  <2> QED BY <2>3, <2>4
<1>7. HeldForSome'
  BY <1>2, <1>3 DEF LockInv, HeldForSome
<1>8. UnbornUntouched'
  BY <1>1, <1>2 DEF LockInv, UnbornUntouched
<1> QED BY <1>4, <1>5, <1>6, <1>7, <1>8 DEF LockInv

LEMMA ProcessLockInv ==
  ASSUME TypeInv, LockInv, NEW q \in Process,
         Spawn(q) \/ (\E t \in Thread : Fork(t, q)) \/ Kill(q)
  PROVE  LockInv'
<1>1. CASE Spawn(q)
  BY <1>1, StartsLockInv DEF Spawn
<1>2. ASSUME NEW t \in Thread, Fork(t, q) PROVE LockInv'
  <2>1. lock[ProcOf(t)] \in BOOLEAN
    BY ThreadProc DEF TypeInv, TypeOK
  <2> QED BY <1>2, <2>1, StartsLockInv DEF Fork
<1>3. CASE Kill(q)
  <2>1. /\ UNCHANGED <<lock, thread, heirs>>
        /\ \A p \in Process : status'[p] = "unborn" => status[p] = "unborn"
    BY <1>3 DEF Kill, history, TypeInv, TypeOK
  <2>2. OneInside' /\ InsideHolds' /\ HeirsLocked' /\ HeldForSome'
    BY <2>1 DEF LockInv, OneInside, InsideHolds, HeirsLocked, HeldForSome, Inside
  <2>3. UnbornUntouched'
    BY <2>1 DEF LockInv, UnbornUntouched
  <2> QED BY <2>2, <2>3 DEF LockInv
<1> QED BY <1>1, <1>2, <1>3

LEMMA NextLockInv == TypeInv /\ LockInv /\ [Next]_vars => LockInv'
<1> SUFFICES ASSUME TypeInv, LockInv, [Next]_vars PROVE LockInv'
  OBVIOUS
<1>1. ASSUME NEW t \in Thread, BeginPush(t) \/ Acquire(t) \/ Step(t) PROVE LockInv'
  BY <1>1, PushLockInv, AcquireLockInv, ReleaseLockInv DEF Step
<1>2. ASSUME NEW q \in Process,
             Spawn(q) \/ (\E t \in Thread : Fork(t, q)) \/ Kill(q)
      PROVE  LockInv'
  BY <1>2, ProcessLockInv
<1>3. CASE Read \/ UNCHANGED vars
  <2>1. UNCHANGED <<lock, status, thread, heirs>>
    BY <1>3 DEF Read, BeginRead, ReadSlot, EndRead, vars, history
  <2> QED BY <2>1, SameInside DEF Inside
<1> QED BY <1>1, <1>2, <1>3 DEF Next

LEMMA LockInvHolds == TypeInv /\ LockInv => LockHasHolder
<1> SUFFICES ASSUME TypeInv, LockInv, NEW p \in Process
             PROVE  LET holders == {t \in Thread : ProcOf(t) = p /\ Inside(t)}
                    IN  /\ Cardinality(holders) <= 1
                        /\ p \in heirs => lock[p] /\ holders = {}
                        /\ p \notin heirs => (lock[p] <=> holders # {})
  BY DEF LockHasHolder
<1> DEFINE holders == {t \in Thread : ProcOf(t) = p /\ Inside(t)}
<1>1. Cardinality(holders) <= 1
  <2>1. CASE holders = {}
    BY <2>1, FS_EmptySet
  <2>2. ASSUME NEW t \in holders PROVE holders = {t}
    BY DEF LockInv, OneInside
  <2>3. CASE holders # {}
    <3>1. PICK t \in holders : TRUE
      BY <2>3
    <3>2. Cardinality({t}) = 1
      BY FS_Singleton
    <3> QED BY <2>2, <3>1, <3>2
  <2> QED BY <2>1, <2>3
<1>2. p \in heirs => lock[p] /\ holders = {}
  BY DEF LockInv, HeirsLocked, InsideHolds
<1>3. p \notin heirs => (lock[p] <=> holders # {})
  BY DEF LockInv, HeldForSome, InsideHolds
<1> QED BY <1>1, <1>2, <1>3

(* push_lock excludes the threads of a process from each other, and it is  *)
(* held only for a thread inside ho_ring_push, except in a child forked    *)
(* while its parent held it: there nobody will ever release it.            *)
THEOREM LockIsHeldForSomeone == Spec => []LockHasHolder
<1>1. Spec => []TypeInv
  BY TypeInvAlways
<1>2. Spec => []LockInv
  BY <1>1, InitLockInv, NextLockInv, PTL DEF Spec
<1> QED BY <1>1, <1>2, LockInvHolds, PTL

-----------------------------------------------------------------------------
(* The pushes begun                                                        *)

Pushing == {t \in Thread : MidPush(t)}

LEMMA PushingFinite == IsFiniteSet(Pushing) /\ Cardinality(Pushing) \in Nat
<1>1. IsFiniteSet(Thread)
  <2>1. IsFiniteSet(1 .. ThreadCount)
    BY RingAssumption, FS_Interval
  <2> QED BY <2>1, RingAssumption, FS_Product DEF Thread
<1>2. Pushing \in SUBSET Thread
  BY DEF Pushing
<1> QED BY <1>1, <1>2, FS_Subset, FS_CardinalityType

(* Every push begun is in the history of published events, was dropped, or *)
(* is under way: in any number of processes.                               *)
Balance == Len(sent) + ring.dropped + Cardinality(Pushing) = begun

LEMMA InitBalance == Init => Balance
<1> SUFFICES ASSUME Init PROVE Balance
  OBVIOUS
<1>1. Pushing = {}
  BY DEF Init, Pushing, MidPush
<1>2. Cardinality(Pushing) = 0
  BY <1>1, FS_EmptySet
<1> QED BY <1>2 DEF Init, Balance, Pushing

LEMMA NextBalance == TypeInv /\ Balance /\ [Next]_vars => Balance'
<1> SUFFICES ASSUME TypeInv, Balance, [Next]_vars PROVE Balance'
  OBVIOUS
<1> DEFINE sum == Len(sent) + ring.dropped + Cardinality(Pushing)
<1>0. /\ sum = begun /\ Len(sent) \in Nat /\ ring.dropped \in Nat /\ begun \in Nat
      /\ (sum' = begun' => Balance')
  BY RingAssumption DEF Balance, Pushing, TypeInv, TypeOK
<1>1. ASSUME NEW t \in Thread, BeginPush(t) PROVE Balance'
  <2>1. t \notin Pushing /\ Pushing' = Pushing \cup {t}
    BY <1>1 DEF BeginPush, At, Pushing, MidPush, Place, TypeInv, TypeOK
  <2>2. Cardinality(Pushing') = Cardinality(Pushing) + 1
    BY <2>1, PushingFinite, FS_AddElement
  <2>3. begun' = begun + 1 /\ UNCHANGED <<sent, ring>>
    BY <1>1 DEF BeginPush
  <2> QED BY <1>0, <2>2, <2>3, PushingFinite
<1>2. ASSUME NEW t \in Thread, Drop(t) \/ StoreHead(t) PROVE Balance'
  <2>0. thread \in [Thread -> ThreadType]
    BY DEF TypeInv, TypeOK, ThreadType
  <2>1. t \in Pushing /\ Pushing' = Pushing \ {t}
    BY <1>2, <2>0 DEF Drop, AfterDrop, StoreHead, Goes, At, Pushing, MidPush, ThreadType
  <2>2. Cardinality(Pushing') = Cardinality(Pushing) - 1
    BY <2>1, PushingFinite, FS_RemoveElement
  <2>3. /\ begun' = begun
        /\ Len(sent') + ring.dropped' = Len(sent) + ring.dropped + 1
    <3>1. CASE Drop(t)
      BY <1>0, <3>1 DEF Drop, Counted, history, TypeInv, TypeOK
    <3>2. CASE StoreHead(t)
      BY <1>0, <3>2 DEF StoreHead, TypeInv, TypeOK
    <3> QED BY <1>2, <3>1, <3>2
  <2> QED BY <1>0, <2>2, <2>3, PushingFinite
<1>3. ASSUME NEW t \in Thread,
             \/ Acquire(t) \/ LoadHead(t) \/ LoadTail(t)
             \/ BeginWrite(t) \/ EndWrite(t) \/ Release(t)
      PROVE  Balance'
  <2>1. /\ \A u \in Thread \ {t} : thread'[u] = thread[u]
        /\ MidPush(t)' <=> MidPush(t)
    <3> USE DEF Goes, At, MidPush, Place, TypeInv, TypeOK
    <3>1. CASE Acquire(t) \/ LoadHead(t) \/ LoadTail(t)
      BY <3>1 DEF Acquire, LoadHead, LoadTail
    <3>2. CASE BeginWrite(t) \/ EndWrite(t) \/ Release(t)
      BY <3>2 DEF BeginWrite, EndWrite, Release
    <3> QED BY <1>3, <3>1, <3>2
  <2>2. Pushing' = Pushing
    BY <2>1 DEF Pushing, MidPush
  <2>3. UNCHANGED <<begun, sent, ring>>
    BY <1>3 DEF Acquire, LoadHead, LoadTail, BeginWrite, EndWrite, Release, history
  <2> QED BY <1>0, <2>2, <2>3
<1>4. ASSUME NEW q \in Process,
             Spawn(q) \/ (\E t \in Thread : Fork(t, q)) \/ Kill(q)
      PROVE  Balance'
  <2>1. UNCHANGED <<thread, begun, sent, ring>>
    BY <1>4 DEF Spawn, Fork, Starts, Kill, history
  <2> QED BY <2>1 DEF Balance, Pushing, MidPush
<1>5. CASE Read \/ UNCHANGED vars
  <2>1. /\ UNCHANGED <<thread, begun, sent>> /\ ring'.dropped = ring.dropped
    BY <1>5 DEF Read, BeginRead, ReadSlot, EndRead, vars, history, TypeInv, TypeOK
  <2> QED BY <2>1 DEF Balance, Pushing, MidPush
<1> QED BY <1>1, <1>2, <1>3, <1>4, <1>5 DEF Next, Step

-----------------------------------------------------------------------------
(* Positions: counters modulo the word, slots modulo the capacity          *)

LEMMA RemainderUnique ==
  ASSUME NEW m \in Nat \ {0}, NEW q \in Int, NEW r \in 0 .. m - 1
  PROVE  (q * m + r) % m = r
OBVIOUS

LEMMA Division ==
  ASSUME NEW m \in Nat \ {0}, NEW n \in Int
  PROVE  /\ n \div m \in Int /\ n % m \in 0 .. m - 1
         /\ n = (n \div m) * m + (n % m)
OBVIOUS

(* A wrapped counter names the slot it would name unwrapped.               *)
LEMMA SlotAcrossWrap ==
  ASSUME NEW n \in Int
  PROVE  SlotOf(n - Word) = SlotOf(n)
<1> DEFINE a == n \div Cap
           b == Word \div Cap
           r == n % Cap
<1>1. Cap \in Nat \ {0} /\ Word \in Int /\ Word % Cap = 0
  BY RingAssumption, CapDividesWord
<1>2. /\ a \in Int /\ b \in Int /\ r \in 0 .. Cap - 1
      /\ n = a * Cap + r /\ Word = b * Cap + 0
  BY <1>1, Division
<1> HIDE DEF a, b, r
<1>3. n - Word = (a - b) * Cap + r
  BY <1>1, <1>2
<1>4. ((a - b) * Cap + r) % Cap = r
  <2>1. a - b \in Int
    BY <1>2
  <2> QED BY <2>1, <1>1, <1>2, RemainderUnique
<1> QED BY <1>3, <1>4 DEF SlotOf, r

(* Positions less than the capacity apart are in different slots.          *)
LEMMA SlotsDistinct ==
  ASSUME NEW i \in Int, NEW j \in Int, i < j, j - i < Cap
  PROVE  SlotOf(i) # SlotOf(j)
<1> SUFFICES ASSUME i % Cap = j % Cap PROVE FALSE
  BY DEF SlotOf
<1> DEFINE a == i \div Cap
           b == j \div Cap
<1>1. Cap \in Nat \ {0}
  BY RingAssumption
<1>2. a \in Int /\ b \in Int /\ j - i = b * Cap - a * Cap
  BY <1>1, Division
<1> HIDE DEF a, b
<1>3. j - i = (b - a) * Cap
  BY <1>1, <1>2
<1>4. CASE b - a <= 0
  <2>1. (b - a) * Cap <= 0
    BY <1>1, <1>2, <1>4
  <2> QED BY <2>1, <1>3
<1>5. CASE b - a >= 1
  <2>1. (b - a) * Cap >= Cap
    BY <1>1, <1>2, <1>5
  <2> QED BY <2>1, <1>1, <1>3
<1> QED BY <1>2, <1>4, <1>5

LEMMA DistanceFacts ==
  ASSUME NEW a \in 0 .. Word - 1, NEW b \in 0 .. Word - 1
  PROVE  /\ Distance(a, b) \in 0 .. Word - 1
         /\ Distance(a, b) = 0 <=> a = b
         /\ Distance(a, b) < Word - 1 => Distance(Increment(a), b) = Distance(a, b) + 1
BY RingAssumption DEF Distance, Increment

LEMMA DistanceSplit ==
  ASSUME NEW a \in 0 .. Word - 1, NEW b \in 0 .. Word - 1, NEW c \in 0 .. Word - 1,
         Distance(b, c) <= Distance(a, c)
  PROVE  /\ Distance(a, b) = Distance(a, c) - Distance(b, c)
         /\ Distance(b, c) = Distance(a, c) => a = b
BY RingAssumption DEF Distance

(* A position is as many slots after another one as their distance says.   *)
LEMMA SlotAtDistance ==
  ASSUME NEW a \in 0 .. Word - 1, NEW b \in 0 .. Word - 1, NEW k \in Int
  PROVE  SlotOf(a + k) = SlotOf(b + Distance(a, b) + k)
<1>1. CASE a >= b
  BY <1>1 DEF Distance
<1>2. CASE a < b
  <2>1. b + Distance(a, b) + k = (a + k) + Word
    BY <1>2, RingAssumption DEF Distance
  <2>2. SlotOf(((a + k) + Word) - Word) = SlotOf((a + k) + Word)
    BY RingAssumption, SlotAcrossWrap
  <2>3. ((a + k) + Word) - Word = a + k
    BY RingAssumption
  <2> QED BY <2>1, <2>2, <2>3
<1> QED BY <1>1, <1>2

-----------------------------------------------------------------------------
(* The order of events, in one process                                     *)
(*                                                                         *)
(* push_lock is the lock of a process, so what follows is about a target   *)
(* without others that share its ring.                                     *)

OneProcess == Process = {Root}

(* Nobody else publishes between LoadHead and StoreHead, and there is room *)
(* once LoadTail found some: the reader only makes more.                   *)
HeadInHand ==
  \A t \in Thread :
    /\ thread[t].at \in {"room", "drop", "write", "copy", "publish"} =>
         thread[t].head = ring.head
    /\ thread[t].at \in {"write", "copy", "publish"} => Pending < Cap
    /\ thread[t].at = "copy" =>
         slot[SlotOf(thread[t].head)] = Partial(thread[t].event)
    /\ thread[t].at = "publish" =>
         slot[SlotOf(thread[t].head)] = Whole(thread[t].event)

(* The slots from tail to head hold what was published and not delivered.  *)
SlotsHoldSent ==
  /\ Pending <= Cap
  /\ Len(sent) = Len(delivered) + Pending
  /\ \A k \in 0 .. Pending - 1 : slot[SlotOf(ring.tail + k)] = sent[Len(delivered) + k + 1]

DeliveredSent == \A k \in 1 .. Len(delivered) : delivered[k] = sent[k]

(* The batch so far is what lies between ring.tail and reader.tail, and    *)
(* reader.head was the head when the batch began.                          *)
BatchIsSent ==
  IF reader.reading
  THEN /\ Distance(reader.tail, ring.tail) = Len(reader.out)
       /\ Len(reader.out) <= Distance(reader.head, ring.tail)
       /\ Distance(reader.head, ring.tail) <= Pending
       /\ Len(reader.out) <= BatchLimit
       /\ \A k \in 1 .. Len(reader.out) : reader.out[k] = sent[Len(delivered) + k]
  ELSE reader.out = << >>

OrderInv == HeadInHand /\ SlotsHoldSent /\ DeliveredSent /\ BatchIsSent

(* Two threads are never both past the lock.                               *)
LEMMA AloneInside ==
  ASSUME LockInv, OneProcess, NEW t \in Thread, NEW u \in Thread, Inside(t), Inside(u)
  PROVE  t = u
BY ThreadProc DEF LockInv, OneInside, OneProcess

LEMMA PendingType == TypeInv => Pending \in 0 .. Word - 1
BY DistanceFacts DEF TypeInv, TypeOK, Pending

(* What ho_ring_push calls full.                                           *)
LEMMA RoomTest == TypeInv /\ ~ Full(ring.head) => Pending < Cap
<1>1. TypeInv => Pending \in Int /\ Cap \in Int
  BY PendingType, RingAssumption
<1> QED BY <1>1 DEF Full, Pending

LEMMA SlotType ==
  ASSUME NEW n \in Int
  PROVE  SlotOf(n) \in 0 .. Cap - 1
BY Division, RingAssumption DEF SlotOf

LEMMA InitOrderInv == Init => OrderInv
<1> SUFFICES ASSUME Init PROVE OrderInv
  OBVIOUS
<1>1. Pending = 0
  BY DEF Init, Pending, Distance
<1>2. HeadInHand
  BY DEF Init, HeadInHand
<1>3. SlotsHoldSent
  BY <1>1, RingAssumption DEF Init, SlotsHoldSent
<1>4. DeliveredSent /\ BatchIsSent
  BY DEF Init, DeliveredSent, BatchIsSent
<1> QED BY <1>2, <1>3, <1>4 DEF OrderInv

(* Steps that write neither slots nor counters nor histories.              *)
LEMMA SameOrder ==
  ASSUME TypeInv, OrderInv, HeadInHand',
         ring'.head = ring.head, ring'.tail = ring.tail,
         UNCHANGED <<slot, sent, delivered, reader>>
  PROVE  OrderInv'
<1>1. Pending' = Pending
  BY DEF Pending
<1>2. SlotsHoldSent' /\ DeliveredSent' /\ BatchIsSent'
  BY <1>1 DEF OrderInv, SlotsHoldSent, DeliveredSent, BatchIsSent
<1> QED BY <1>2 DEF OrderInv

LEMMA ThreadOrderInv ==
  ASSUME TypeInv, OrderInv, NEW t \in Thread,
         BeginPush(t) \/ Acquire(t) \/ LoadHead(t) \/ LoadTail(t) \/ Drop(t) \/ Release(t)
  PROVE  OrderInv'
<1>1. /\ ring'.head = ring.head /\ ring'.tail = ring.tail
      /\ UNCHANGED <<slot, sent, delivered, reader>>
      /\ \A u \in Thread \ {t} : thread'[u] = thread[u]
  BY DEF BeginPush, Acquire, LoadHead, LoadTail, Drop, Release, Goes, At, history,
         TypeInv, TypeOK
<1>2. Pending' = Pending
  BY <1>1 DEF Pending
<1>3. /\ thread'[t].at \in {"room", "drop", "write", "copy", "publish"} =>
           thread'[t].head = ring.head
      /\ thread'[t].at \in {"write", "copy", "publish"} => Pending < Cap
      /\ thread'[t].at \notin {"copy", "publish"}
  <2> USE DEF TypeInv, TypeOK, OrderInv, HeadInHand
  <2>1. CASE BeginPush(t) \/ Acquire(t) \/ Release(t)
    BY <2>1 DEF BeginPush, Acquire, Release, Goes, At
  <2>2. CASE LoadHead(t)
    BY <2>2 DEF LoadHead, At
  <2>3. CASE LoadTail(t)
    <3>1. /\ thread[t].at = "room" /\ thread[t].head = ring.head
          /\ thread'[t] = [thread[t] EXCEPT
                             !.at = IF Full(ring.head) THEN "drop" ELSE "write"]
      BY <2>3 DEF LoadTail, Goes, At
    <3>2. ~ Full(ring.head) => Pending < Cap
      BY RoomTest
    <3>3. thread[t] \in ThreadType
      BY DEF ThreadType
    <3>4. CASE Full(ring.head)
      BY <3>1, <3>3, <3>4 DEF ThreadType
    <3>5. CASE ~ Full(ring.head)
      BY <3>1, <3>2, <3>3, <3>5 DEF ThreadType
    <3> QED BY <3>4, <3>5
  <2>4. CASE Drop(t)
    BY <2>4 DEF Drop, AfterDrop, Goes, At
  <2> QED BY <2>1, <2>2, <2>3, <2>4
<1>4. HeadInHand'
  BY <1>1, <1>2, <1>3 DEF OrderInv, HeadInHand
<1> QED BY <1>1, <1>4, SameOrder

(* A slot from tail to head is not the slot of the thread past the room    *)
(* test.                                                                   *)
LEMMA HeadSlotIsFree ==
  ASSUME TypeInv, OrderInv, NEW t \in Thread,
         thread[t].at \in {"write", "copy", "publish"}, NEW k \in 0 .. Pending - 1
  PROVE  SlotOf(thread[t].head) # SlotOf(ring.tail + k)
<1>1. /\ thread[t].head = ring.head /\ Pending < Cap
      /\ ring.head \in 0 .. Word - 1 /\ ring.tail \in 0 .. Word - 1
      /\ Pending \in 0 .. Word - 1
  BY PendingType DEF OrderInv, HeadInHand, TypeInv, TypeOK
<1>2. SlotOf(ring.head + 0) = SlotOf(ring.tail + Pending + 0)
  BY <1>1, SlotAtDistance DEF Pending
<1>3. /\ ring.tail + k \in Int /\ ring.tail + Pending \in Int
      /\ ring.tail + k < ring.tail + Pending
      /\ (ring.tail + Pending) - (ring.tail + k) < Cap
  BY <1>1, RingAssumption
<1>4. SlotOf(ring.tail + k) # SlotOf(ring.tail + Pending)
  BY <1>3, SlotsDistinct
<1>5. ring.head + 0 = ring.head /\ ring.tail + Pending + 0 = ring.tail + Pending
  BY <1>1
<1> QED BY <1>1, <1>2, <1>4, <1>5

(* A copy into the slot of the head, begun or ended.                       *)
LEMMA WriteOrderInv ==
  ASSUME TypeInv, LockInv, OneProcess, OrderInv, NEW t \in Thread,
         BeginWrite(t) \/ EndWrite(t)
  PROVE  OrderInv'
<1> DEFINE i == SlotOf(thread[t].head)
<1>1. /\ thread[t].at \in {"write", "copy"} /\ thread[t] \in ThreadType
      /\ thread' = [thread EXCEPT ![t].at = IF thread[t].at = "write" THEN "copy"
                                            ELSE "publish"]
      /\ UNCHANGED <<ring, sent, delivered, reader>>
  BY DEF BeginWrite, EndWrite, Goes, At, history, TypeInv, TypeOK, ThreadType
<1>2. i \in 0 .. Cap - 1
  BY <1>1, SlotInRing DEF ThreadType
<1>3. \A u \in Thread \ {t} : ~ Inside(u) /\ thread'[u] = thread[u]
  <2>1. Inside(t)
    BY <1>1 DEF Inside, Place
  <2> QED BY <1>1, <2>1, AloneInside DEF TypeInv, TypeOK
<1>4. /\ \A j \in 0 .. Cap - 1 : j # i => slot'[j] = slot[j]
      /\ thread[t].at = "write" => slot'[i] = Partial(thread[t].event)
      /\ thread[t].at = "copy" => slot'[i] = Whole(thread[t].event)
  <2>1. CASE BeginWrite(t)
    <3>1. Copying(i) = {}
      <4>1. \A u \in Thread : thread[u].at # "copy"
        BY <1>3, <2>1 DEF BeginWrite, Goes, At, Inside, Place
      <4> QED BY <4>1 DEF Copying, At
    <3>2. slot' = [slot EXCEPT ![i] = Partial(thread[t].event)]
      BY <2>1, <3>1 DEF BeginWrite
    <3> QED BY <1>2, <2>1, <3>2 DEF BeginWrite, Goes, At, TypeInv, TypeOK
  <2>2. CASE EndWrite(t)
    <3>1. slot[i] = Partial(thread[t].event)
      BY <2>2 DEF EndWrite, Goes, At, OrderInv, HeadInHand
    <3>2. slot' = [slot EXCEPT ![i] = Whole(thread[t].event)]
      BY <1>2, <2>2, <3>1 DEF EndWrite, TypeInv, TypeOK
    <3> QED BY <1>2, <2>2, <3>2 DEF EndWrite, Goes, At, TypeInv, TypeOK
  <2> QED BY <2>1, <2>2
<1>5. Pending' = Pending
  BY <1>1 DEF Pending
<1>6. HeadInHand'
  <2> SUFFICES ASSUME NEW u \in Thread
               PROVE  /\ thread'[u].at \in {"room", "drop", "write", "copy", "publish"} =>
                           thread'[u].head = ring'.head
                      /\ thread'[u].at \in {"write", "copy", "publish"} => Pending' < Cap
                      /\ thread'[u].at = "copy" =>
                           slot'[SlotOf(thread'[u].head)] = Partial(thread'[u].event)
                      /\ thread'[u].at = "publish" =>
                           slot'[SlotOf(thread'[u].head)] = Whole(thread'[u].event)
    BY DEF HeadInHand
  <2>1. CASE u = t
    <3>1. /\ thread'[t].head = thread[t].head /\ thread'[t].event = thread[t].event
          /\ thread[t].at = "write" => thread'[t].at = "copy"
          /\ thread[t].at = "copy" => thread'[t].at = "publish"
      BY <1>1 DEF TypeInv, TypeOK
    <3>2. thread[t].head = ring.head /\ Pending < Cap
      BY <1>1 DEF OrderInv, HeadInHand
    <3> QED BY <1>1, <1>4, <1>5, <2>1, <3>1, <3>2
  <2>2. CASE u # t
    <3>1. thread'[u] = thread[u] /\ ~ Inside(u)
      BY <1>3, <2>2
    <3>2. thread[u].at \notin {"room", "drop", "write", "copy", "publish"}
      BY <3>1 DEF Inside, Place
    <3> QED BY <3>1, <3>2
  <2> QED BY <2>1, <2>2
<1>7. SlotsHoldSent'
  <2>1. ASSUME NEW k \in 0 .. Pending - 1
        PROVE  slot'[SlotOf(ring.tail + k)] = sent[Len(delivered) + k + 1]
    <3>1. SlotOf(ring.tail + k) # i
      BY <1>1, HeadSlotIsFree
    <3>2. SlotOf(ring.tail + k) \in 0 .. Cap - 1
      <4>1. ring.tail + k \in Int
        <5>1. ring.tail \in Int
          BY DEF TypeInv, TypeOK
        <5> QED BY <5>1, PendingType
      <4> QED BY <4>1, SlotType
    <3> QED BY <1>4, <3>1, <3>2 DEF OrderInv, SlotsHoldSent
  <2> QED BY <1>1, <1>5, <2>1 DEF OrderInv, SlotsHoldSent
<1>8. DeliveredSent' /\ BatchIsSent'
  BY <1>1, <1>5 DEF OrderInv, DeliveredSent, BatchIsSent
<1> QED BY <1>6, <1>7, <1>8 DEF OrderInv

(* The event whose slot is whole becomes the last of those published.      *)
LEMMA StoreHeadOrderInv ==
  ASSUME TypeInv, LockInv, OneProcess, OrderInv, NEW t \in Thread, StoreHead(t)
  PROVE  /\ OrderInv'
         /\ Pending < Cap /\ Pending' = Pending + 1
         /\ slot[SlotOf(ring.tail + Pending)] = Whole(thread[t].event)
<1> DEFINE e == Whole(thread[t].event)
<1>1. /\ thread[t].at = "publish" /\ thread' = [thread EXCEPT ![t].at = "release"]
      /\ ring' = [ring EXCEPT !.head = Increment(ring.head)]
      /\ sent' = Append(sent, e)
      /\ UNCHANGED <<slot, delivered, reader>>
      /\ Pending < Cap /\ slot[SlotOf(ring.head)] = e
  BY DEF StoreHead, Goes, At, OrderInv, HeadInHand
<1>2. /\ ring \in [head : 0 .. Word - 1, tail : 0 .. Word - 1, dropped : Nat]
      /\ Pending \in 0 .. Word - 1 /\ Len(delivered) \in Nat /\ sent \in Seq(Content)
      /\ Len(sent) \in Nat /\ delivered \in Seq(Content) /\ e \in Content
      /\ Len(sent) = Len(delivered) + Pending
  <2>1. /\ ring \in [head : 0 .. Word - 1, tail : 0 .. Word - 1, dropped : Nat]
        /\ sent \in Seq(Content) /\ delivered \in Seq(Content)
    BY DEF TypeInv, TypeOK
  <2>2. e \in Content
    BY <1>1, ContentType DEF TypeInv, EventInHand
  <2>3. Len(sent) = Len(delivered) + Pending
    BY DEF OrderInv, SlotsHoldSent
  <2> QED BY <2>1, <2>2, <2>3, PendingType, LenProperties
<1>3. ring'.head = Increment(ring.head) /\ ring'.tail = ring.tail
  BY <1>1, <1>2
<1>4. Pending' = Pending + 1
  <2>1. ring.head \in 0 .. Word - 1 /\ ring.tail \in 0 .. Word - 1
    BY <1>2
  <2>2. Distance(ring.head, ring.tail) < Word - 1
    BY <1>1, <1>2, RingAssumption DEF Pending
  <2> QED BY <1>3, <2>1, <2>2, DistanceFacts DEF Pending
<1>5. slot[SlotOf(ring.tail + Pending)] = e
  <2>1. SlotOf(ring.head + 0) = SlotOf(ring.tail + Pending + 0)
    BY <1>2, SlotAtDistance DEF Pending
  <2> QED BY <1>1, <1>2, <2>1
<1>6. /\ Len(sent') = Len(sent) + 1 /\ sent'[Len(sent) + 1] = e
      /\ \A k \in 1 .. Len(sent) : sent'[k] = sent[k]
  BY <1>1, <1>2, AppendProperties
<1>7. HeadInHand'
  <2>1. \A u \in Thread \ {t} : ~ Inside(u) /\ thread'[u] = thread[u]
    <3>1. Inside(t)
      BY <1>1 DEF Inside, Place
    <3> QED BY <1>1, <3>1, AloneInside DEF TypeInv, TypeOK
  <2>2. thread'[t].at = "release"
    BY <1>1 DEF TypeInv, TypeOK
  <2>3. \A u \in Thread : thread'[u].at \notin {"room", "drop", "write", "copy", "publish"}
    BY <2>1, <2>2 DEF Inside, Place
  <2> QED BY <2>3 DEF HeadInHand
<1>8. SlotsHoldSent'
  <2>1. ASSUME NEW k \in 0 .. Pending
        PROVE  slot[SlotOf(ring.tail + k)] = sent'[Len(delivered) + k + 1]
    <3>1. CASE k = Pending
      BY <1>2, <1>5, <1>6, <3>1
    <3>2. CASE k < Pending
      <4>1. k \in 0 .. Pending - 1 /\ Len(delivered) + k + 1 \in 1 .. Len(sent)
        BY <1>2, <3>2
      <4> QED BY <4>1, <1>6 DEF OrderInv, SlotsHoldSent
    <3> QED BY <1>2, <3>1, <3>2
  <2>2. Pending' <= Cap
    <3>1. Pending \in Nat /\ Pending < Cap
      BY <1>1, <1>2
    <3> QED BY <3>1, <1>4, RingAssumption
  <2>3. Len(sent') = Len(delivered') + Pending'
    BY <1>1, <1>2, <1>4, <1>6
  <2>4. ASSUME NEW k \in 0 .. Pending' - 1 PROVE k \in 0 .. Pending
    BY <1>2, <1>4
  <2> QED BY <1>1, <1>3, <2>1, <2>2, <2>3, <2>4 DEF SlotsHoldSent
<1>9. DeliveredSent'
  <2>1. \A k \in 1 .. Len(delivered) : k \in 1 .. Len(sent)
    BY <1>2
  <2> QED BY <1>1, <1>6, <2>1 DEF OrderInv, DeliveredSent
<1>10. BatchIsSent'
  <2>1. CASE ~ reader.reading
    BY <1>1, <2>1 DEF OrderInv, BatchIsSent
  <2>2. CASE reader.reading
    <3>1. /\ Distance(reader.tail, ring.tail) = Len(reader.out)
          /\ Len(reader.out) <= Distance(reader.head, ring.tail)
          /\ Distance(reader.head, ring.tail) <= Pending
          /\ Len(reader.out) <= BatchLimit
          /\ \A k \in 1 .. Len(reader.out) : reader.out[k] = sent[Len(delivered) + k]
      BY <2>2 DEF OrderInv, BatchIsSent
    <3>2. Distance(reader.head, ring.tail) \in 0 .. Word - 1 /\ Len(reader.out) \in Nat
      <4>1. reader.head \in 0 .. Word - 1 /\ reader.out \in Seq(Content)
        BY DEF TypeInv, TypeOK
      <4>2. ring.tail \in 0 .. Word - 1
        BY <1>2
      <4> QED BY <4>1, <4>2, DistanceFacts, LenProperties
    <3>3. \A k \in 1 .. Len(reader.out) : Len(delivered) + k \in 1 .. Len(sent)
      BY <1>2, <3>1, <3>2
    <3>4. \A k \in 1 .. Len(reader.out) : reader.out[k] = sent'[Len(delivered) + k]
      BY <1>6, <3>1, <3>3
    <3>5. Distance(reader.head, ring.tail) <= Pending'
      BY <1>2, <1>4, <3>1, <3>2
    <3> QED BY <1>1, <1>3, <2>2, <3>1, <3>4, <3>5 DEF BatchIsSent
  <2> QED BY <2>1, <2>2
<1> QED BY <1>1, <1>4, <1>5, <1>7, <1>8, <1>9, <1>10 DEF OrderInv

(* The reader's side.                                                      *)
LEMMA BeginReadOrderInv ==
  ASSUME TypeInv, OrderInv, BeginRead
  PROVE  OrderInv'
<1>1. /\ UNCHANGED <<ring, slot, thread, sent, delivered>>
      /\ reader' = [reading |-> TRUE, head |-> ring.head, tail |-> ring.tail, out |-> << >>]
  BY DEF BeginRead, history
<1>2. Pending' = Pending
  BY <1>1 DEF Pending
<1>3. HeadInHand' /\ SlotsHoldSent' /\ DeliveredSent'
  BY <1>1, <1>2 DEF OrderInv, HeadInHand, SlotsHoldSent, DeliveredSent
<1>4. BatchIsSent'
  <2>1. /\ ring.tail \in 0 .. Word - 1 /\ Pending \in 0 .. Word - 1
        /\ BatchLimit \in Nat
    BY PendingType, RingAssumption DEF TypeInv, TypeOK
  <2>2. Distance(ring.tail, ring.tail) = 0
    BY <2>1, DistanceFacts
  <2> QED BY <1>1, <1>2, <2>1, <2>2 DEF BatchIsSent, Pending
<1> QED BY <1>3, <1>4 DEF OrderInv

LEMMA ReadSlotOrderInv ==
  ASSUME TypeInv, OrderInv, ReadSlot
  PROVE  OrderInv'
<1> DEFINE n == Len(reader.out)
           next == slot[SlotOf(reader.tail)]
<1>1. /\ reader.reading /\ reader.tail # reader.head /\ n < BatchLimit
      /\ UNCHANGED <<ring, slot, thread, sent, delivered>>
      /\ reader' = [reader EXCEPT !.out = Append(reader.out, next),
                                  !.tail = Increment(reader.tail)]
  BY DEF ReadSlot, More, history
<1>2. /\ reader.head \in 0 .. Word - 1 /\ reader.tail \in 0 .. Word - 1
      /\ ring.head \in 0 .. Word - 1 /\ ring.tail \in 0 .. Word - 1
      /\ reader.out \in Seq(Content) /\ n \in Nat /\ Len(delivered) \in Nat
      /\ Pending \in 0 .. Word - 1
      /\ reader \in [reading : BOOLEAN, head : 0 .. Word - 1, tail : 0 .. Word - 1,
                     out : Seq(Content)]
  BY PendingType DEF TypeInv, TypeOK
<1>3. next \in Content
  BY <1>2, SlotInRing DEF TypeInv, TypeOK
<1>4. /\ Distance(reader.tail, ring.tail) = n
      /\ n <= Distance(reader.head, ring.tail)
      /\ Distance(reader.head, ring.tail) <= Pending
      /\ \A k \in 1 .. n : reader.out[k] = sent[Len(delivered) + k]
  BY <1>1 DEF OrderInv, BatchIsSent
<1>5. n < Distance(reader.head, ring.tail)
      /\ Distance(reader.head, ring.tail) \in 0 .. Word - 1
  <2>1. Distance(reader.head, ring.tail) \in 0 .. Word - 1
    BY <1>2, DistanceFacts
  <2>2. n # Distance(reader.head, ring.tail)
    BY <1>1, <1>2, <1>4, DistanceSplit
  <2> QED BY <1>2, <1>4, <2>1, <2>2
<1>6. next = sent[Len(delivered) + n + 1]
  <2>1. SlotOf(reader.tail + 0) = SlotOf(ring.tail + Distance(reader.tail, ring.tail) + 0)
    <3>1. 0 \in Int
      OBVIOUS
    <3> QED BY <1>2, <3>1, SlotAtDistance
  <2>2. n \in 0 .. Pending - 1
    BY <1>2, <1>4, <1>5
  <2>3. reader.tail + 0 = reader.tail /\ ring.tail + n + 0 = ring.tail + n
    BY <1>2
  <2> QED BY <1>4, <2>1, <2>2, <2>3 DEF OrderInv, SlotsHoldSent
<1>7. Distance(Increment(reader.tail), ring.tail) = n + 1
  <2>1. Distance(reader.tail, ring.tail) < Word - 1
    BY <1>2, <1>4, <1>5, RingAssumption
  <2>2. Distance(Increment(reader.tail), ring.tail) = Distance(reader.tail, ring.tail) + 1
    BY <1>2, <2>1, DistanceFacts
  <2> QED BY <1>4, <2>2
<1> DEFINE out == Append(reader.out, next)
           tail == Increment(reader.tail)
<1>8. /\ Len(out) = n + 1 /\ out[n + 1] = next
      /\ \A k \in 1 .. n : out[k] = reader.out[k]
  BY <1>2, <1>3, AppendProperties
<1>9. /\ reader'.reading = reader.reading /\ reader'.head = reader.head
      /\ reader'.tail = tail /\ reader'.out = out
  BY <1>1, <1>2
<1> HIDE DEF out, tail
<1>10. \A k \in 1 .. Len(out) : out[k] = sent[Len(delivered) + k]
  <2> SUFFICES ASSUME NEW k \in 1 .. n + 1 PROVE out[k] = sent[Len(delivered) + k]
    BY <1>8
  <2>0. n \in Nat /\ Len(delivered) \in Nat
    BY <1>2
  <2>1. CASE k = n + 1
    BY <2>0, <1>6, <1>8, <2>1
  <2>2. CASE k < n + 1
    BY <2>0, <1>4, <1>8, <2>2
  <2> QED BY <2>0, <2>1, <2>2
<1>11. Len(out) <= Distance(reader.head, ring.tail) /\ Len(out) <= BatchLimit
  BY <1>1, <1>2, <1>5, <1>8, RingAssumption
<1>12. Pending' = Pending
  BY <1>1 DEF Pending
<1>13. BatchIsSent'
  BY <1>1, <1>4, <1>7, <1>8, <1>9, <1>10, <1>11, <1>12 DEF BatchIsSent, tail
<1>14. HeadInHand' /\ SlotsHoldSent' /\ DeliveredSent'
  BY <1>1, <1>12 DEF OrderInv, HeadInHand, SlotsHoldSent, DeliveredSent
<1> QED BY <1>13, <1>14 DEF OrderInv

(* The batch leaves the ring from its tail.                                *)
LEMMA EndReadOrderInv ==
  ASSUME TypeInv, OrderInv, EndRead
  PROVE  /\ OrderInv'
         /\ Len(reader.out) <= Pending /\ Len(reader.out) <= BatchLimit
         /\ Pending' = Pending - Len(reader.out)
         /\ ring'.tail = reader.tail
         /\ Distance(reader.tail, ring.tail) = Len(reader.out)
<1> DEFINE n == Len(reader.out)
<1>1. /\ reader.reading /\ UNCHANGED <<slot, thread, sent>>
      /\ reader' = [reader EXCEPT !.reading = FALSE, !.out = << >>]
      /\ ring' = [ring EXCEPT !.tail = reader.tail]
      /\ delivered' = delivered \o reader.out
  BY DEF EndRead, BatchEnd
<1>2. /\ reader.head \in 0 .. Word - 1 /\ reader.tail \in 0 .. Word - 1
      /\ ring.head \in 0 .. Word - 1 /\ ring.tail \in 0 .. Word - 1
      /\ reader.out \in Seq(Content) /\ n \in Nat
      /\ delivered \in Seq(Content) /\ Len(delivered) \in Nat
      /\ Pending \in 0 .. Word - 1
      /\ ring'.tail = reader.tail /\ ring'.head = ring.head
      /\ ~ reader'.reading /\ reader'.out = << >>
  BY <1>1, PendingType DEF TypeInv, TypeOK
<1>3. /\ Distance(reader.tail, ring.tail) = n
      /\ n <= Distance(reader.head, ring.tail)
      /\ Distance(reader.head, ring.tail) <= Pending /\ n <= BatchLimit
      /\ \A k \in 1 .. n : reader.out[k] = sent[Len(delivered) + k]
  BY <1>1 DEF OrderInv, BatchIsSent
<1>4. n <= Pending
  <2>1. Distance(reader.head, ring.tail) \in 0 .. Word - 1
    BY <1>2, DistanceFacts
  <2> QED BY <1>2, <1>3, <2>1
<1>5. Pending' = Pending - n
  BY <1>2, <1>3, <1>4, DistanceSplit DEF Pending
<1>6. /\ Len(delivered') = Len(delivered) + n
      /\ \A k \in 1 .. Len(delivered) + n :
           delivered'[k] = IF k <= Len(delivered) THEN delivered[k]
                           ELSE reader.out[k - Len(delivered)]
  BY <1>1, <1>2, ConcatProperties
<1>7. DeliveredSent'
  <2> SUFFICES ASSUME NEW k \in 1 .. Len(delivered) + n PROVE delivered'[k] = sent[k]
    BY <1>1, <1>6 DEF DeliveredSent
  <2>1. CASE k <= Len(delivered)
    <3>1. k \in 1 .. Len(delivered)
      BY <1>2, <2>1
    <3> QED BY <1>6, <2>1, <3>1 DEF OrderInv, DeliveredSent
  <2>2. CASE k > Len(delivered)
    <3>1. k - Len(delivered) \in 1 .. n /\ Len(delivered) + (k - Len(delivered)) = k
      BY <1>2, <2>2
    <3>2. delivered'[k] = reader.out[k - Len(delivered)]
      BY <1>2, <1>6, <2>2
    <3> QED BY <1>3, <3>1, <3>2
  <2> QED BY <1>2, <2>1, <2>2
<1>8. SlotsHoldSent'
  <2>1. ASSUME NEW k \in 0 .. Pending' - 1
        PROVE  slot[SlotOf(reader.tail + k)] = sent[Len(delivered) + n + k + 1]
    <3>1. SlotOf(reader.tail + k) = SlotOf(ring.tail + n + k)
      <4>1. k \in Int
        BY <1>2, <1>5
      <4>2. SlotOf(reader.tail + k) = SlotOf(ring.tail + Distance(reader.tail, ring.tail) + k)
        BY <1>2, <4>1, SlotAtDistance
      <4> QED BY <1>3, <4>2
    <3>2. n + k \in 0 .. Pending - 1 /\ ring.tail + (n + k) = ring.tail + n + k
          /\ Len(delivered) + (n + k) + 1 = Len(delivered) + n + k + 1
      BY <1>2, <1>4, <1>5
    <3>3. slot[SlotOf(ring.tail + (n + k))] = sent[Len(delivered) + (n + k) + 1]
      BY <3>2 DEF OrderInv, SlotsHoldSent
    <3> QED BY <3>1, <3>2, <3>3
  <2>2. Pending <= Cap /\ Len(sent) = Len(delivered) + Pending
    BY DEF OrderInv, SlotsHoldSent
  <2>3. Pending' <= Cap /\ Len(sent) = Len(delivered') + Pending'
    <3>1. Cap \in Nat /\ Pending \in Nat
      BY <1>2, RingAssumption
    <3>2. Pending' <= Cap
      BY <1>2, <1>4, <1>5, <2>2, <3>1
    <3>3. Len(delivered') + Pending' = (Len(delivered) + n) + (Pending - n)
      BY <1>5, <1>6
    <3> QED BY <1>2, <2>2, <3>1, <3>2, <3>3
  <2> QED BY <1>1, <1>2, <1>6, <2>1, <2>3 DEF SlotsHoldSent
<1>9. HeadInHand'
  <2>1. Pending < Cap => Pending' < Cap
    BY <1>2, <1>4, <1>5, RingAssumption
  <2> QED BY <1>1, <1>2, <2>1 DEF OrderInv, HeadInHand
<1>10. BatchIsSent'
  BY <1>2 DEF BatchIsSent
<1> QED BY <1>2, <1>3, <1>4, <1>5, <1>7, <1>8, <1>9, <1>10 DEF OrderInv

LEMMA NextOrderInv ==
  ASSUME TypeInv, LockInv, OneProcess, OrderInv, [Next]_vars
  PROVE  OrderInv'
<1>1. ASSUME NEW t \in Thread, BeginPush(t) \/ Acquire(t) \/ Step(t) PROVE OrderInv'
  BY <1>1, ThreadOrderInv, WriteOrderInv, StoreHeadOrderInv DEF Step
<1>2. ASSUME NEW q \in Process,
             Spawn(q) \/ (\E t \in Thread : Fork(t, q)) \/ Kill(q)
      PROVE  OrderInv'
  <2>1. UNCHANGED <<ring, slot, thread, reader, sent, delivered>>
    BY <1>2 DEF Spawn, Fork, Starts, Kill, history
  <2>2. HeadInHand'
    BY <2>1 DEF OrderInv, HeadInHand, Pending
  <2> QED BY <2>1, <2>2, SameOrder
<1>3. CASE Read
  BY <1>3, BeginReadOrderInv, ReadSlotOrderInv, EndReadOrderInv DEF Read
<1>4. CASE UNCHANGED vars
  <2>1. HeadInHand'
    BY <1>4 DEF vars, history, OrderInv, HeadInHand, Pending
  <2> QED BY <1>4, <2>1, SameOrder DEF vars, history
<1> QED BY <1>1, <1>2, <1>3, <1>4 DEF Next

LEMMA OrderAlways ==
  ASSUME OneProcess
  PROVE  Spec => [](TypeInv /\ LockInv /\ OrderInv)
<1>1. Spec => []TypeInv
  BY TypeInvAlways
<1>2. Spec => []LockInv
  BY <1>1, InitLockInv, NextLockInv, PTL DEF Spec
<1>3. TypeInv /\ LockInv /\ OrderInv /\ [Next]_vars => OrderInv'
  BY NextOrderInv
<1> QED BY <1>1, <1>2, <1>3, InitOrderInv, PTL DEF Spec

(* Two threads never write the same slot at the same time, and none writes *)
(* a slot that the reader has not given back: what ho_ring_push relies on  *)
(* when it copies the event between its room test and its store of head.   *)
THEOREM SlotsNeverOverwritten ==
  ASSUME OneProcess
  PROVE  Spec => []NoOverwrite
<1>1. TypeInv /\ LockInv /\ OrderInv => NoOverwrite
  <2> SUFFICES ASSUME TypeInv, LockInv, OrderInv, NEW t \in Thread, At(t, "copy")
               PROVE  /\ Copying(SlotOf(thread[t].head)) = {t}
                      /\ \A k \in 0 .. Pending - 1 :
                           SlotOf(thread[t].head) # SlotOf(ring.tail + k)
    BY DEF NoOverwrite
  <2>1. \A u \in Thread : At(u, "copy") => u = t
    BY AloneInside DEF At, Inside, Place
  <2>2. Copying(SlotOf(thread[t].head)) = {t}
    BY <2>1 DEF Copying
  <2>3. \A k \in 0 .. Pending - 1 : SlotOf(thread[t].head) # SlotOf(ring.tail + k)
    BY HeadSlotIsFree DEF At
  <2> QED BY <2>2, <2>3
<1> QED BY <1>1, OrderAlways, PTL

(* What read_batch has returned, and what it is about to return, is what   *)
(* was published: each event once, whole and in order.                     *)
THEOREM EventsInOrder ==
  ASSUME OneProcess
  PROVE  Spec => []DeliveredInOrder
<1>1. TypeInv /\ OrderInv => DeliveredInOrder
  <2> SUFFICES ASSUME TypeInv, OrderInv PROVE DeliveredInOrder
    OBVIOUS
  <2> DEFINE d == Len(delivered)
             n == Len(reader.out)
             all == delivered \o reader.out
  <2>1. /\ delivered \in Seq(Content) /\ reader.out \in Seq(Content)
        /\ sent \in Seq(Content)
        /\ d \in Nat /\ n \in Nat /\ Len(sent) \in Nat
        /\ Pending \in Nat /\ Len(sent) = d + Pending
    BY PendingType DEF TypeInv, TypeOK, OrderInv, SlotsHoldSent
  <2>2. n <= Pending /\ \A k \in 1 .. n : reader.out[k] = sent[d + k]
    <3>1. CASE reader.reading
      <4>1. Distance(reader.head, ring.tail) \in 0 .. Word - 1
        BY DistanceFacts DEF TypeInv, TypeOK
      <4> QED BY <2>1, <3>1, <4>1 DEF OrderInv, BatchIsSent
    <3>2. CASE ~ reader.reading
      BY <2>1, <3>2 DEF OrderInv, BatchIsSent
    <3> QED BY <3>1, <3>2
  <2>3. /\ all \in Seq(Content) /\ Len(all) = d + n
        /\ \A k \in 1 .. d + n : all[k] = IF k <= d THEN delivered[k] ELSE reader.out[k - d]
    BY <2>1, ConcatProperties
  <2> HIDE DEF all
  <2>4. ASSUME NEW k \in 1 .. Len(all) PROVE all[k] = sent[k]
    <3>1. CASE k <= d
      <4>1. k \in 1 .. d /\ k \in 1 .. d + n
        BY <2>1, <2>3, <3>1
      <4>2. delivered[k] = sent[k]
        BY <4>1 DEF OrderInv, DeliveredSent
      <4>3. all[k] = delivered[k]
        BY <2>3, <3>1, <4>1
      <4> QED BY <4>2, <4>3
    <3>2. CASE k > d
      <4>1. k - d \in 1 .. n /\ d + (k - d) = k
        BY <2>1, <2>3, <3>2
      <4>2. all[k] = reader.out[k - d]
        BY <2>1, <2>3, <3>2
      <4> QED BY <2>2, <4>1, <4>2
    <3> QED BY <2>1, <2>3, <3>1, <3>2
  <2>5. Len(all) \in 0 .. Len(sent)
    BY <2>1, <2>2, <2>3
  <2>6. SubSeq(all, 1, Len(all)) = SubSeq(sent, 1, Len(all))
    <3>1. \A k \in 1 .. Len(all) : all[k] \in Content /\ sent[k] \in Content
      BY <2>1, <2>3, <2>5, ElementOfSeq
    <3> DEFINE p == SubSeq(all, 1, Len(all))
               q == SubSeq(sent, 1, Len(all))
    <3>2. /\ p \in Seq(Content) /\ q \in Seq(Content)
          /\ Len(p) = Len(all) /\ Len(q) = Len(all)
          /\ \A k \in 1 .. Len(all) : p[k] = all[k] /\ q[k] = sent[k]
      <4>1. /\ p \in Seq(Content) /\ Len(p) = IF 1 <= Len(all) THEN Len(all) - 1 + 1 ELSE 0
            /\ \A k \in 1 .. Len(all) - 1 + 1 : p[k] = all[1 + k - 1]
        BY <2>5, <3>1, SubSeqProperties
      <4>2. /\ q \in Seq(Content) /\ Len(q) = IF 1 <= Len(all) THEN Len(all) - 1 + 1 ELSE 0
            /\ \A k \in 1 .. Len(all) - 1 + 1 : q[k] = sent[1 + k - 1]
        BY <2>5, <3>1, SubSeqProperties
      <4> HIDE DEF p, q
      <4> QED BY <2>5, <4>1, <4>2
    <3> HIDE DEF p, q
    <3>3. p = q
      BY <2>4, <3>2, SeqEqual
    <3> QED BY <3>3 DEF p, q
  <2> QED BY <2>5, <2>6 DEF DeliveredInOrder, IsPrefix, all
<1> QED BY <1>1, OrderAlways, PTL

(* The head is the number of events published, modulo the word.            *)
HeadCounts == ring.head = Len(sent) % Word

LEMMA IncrementMod ==
  ASSUME NEW n \in Nat
  PROVE  Increment(n % Word) = (n + 1) % Word
<1> DEFINE q == n \div Word
           r == n % Word
<1>1. Word \in Nat \ {0}
  BY RingAssumption
<1>2. q \in Int /\ r \in 0 .. Word - 1 /\ n = q * Word + r
  BY <1>1, Division
<1> HIDE DEF q, r
<1>3. CASE r = Word - 1
  <2>1. n + 1 = (q + 1) * Word + 0
    BY <1>1, <1>2, <1>3
  <2>2. q + 1 \in Int /\ 0 \in 0 .. Word - 1
    BY <1>1, <1>2
  <2>3. ((q + 1) * Word + 0) % Word = 0
    BY <1>1, <2>2, RemainderUnique
  <2>4. Increment(r) = 0
    BY <1>3 DEF Increment
  <2> QED BY <2>1, <2>3, <2>4 DEF r
<1>4. CASE r # Word - 1
  <2>1. n + 1 = q * Word + (r + 1) /\ r + 1 \in 0 .. Word - 1
    BY <1>1, <1>2, <1>4
  <2>2. (q * Word + (r + 1)) % Word = r + 1
    BY <1>1, <1>2, <2>1, RemainderUnique
  <2>3. Increment(r) = r + 1
    BY <1>4 DEF Increment
  <2> QED BY <2>1, <2>2, <2>3 DEF r
<1> QED BY <1>3, <1>4

LEMMA InitHeadCounts == Init => HeadCounts
<1> SUFFICES ASSUME Init PROVE HeadCounts
  OBVIOUS
<1>1. ring.head = 0 /\ Len(sent) = 0
  BY DEF Init
<1>2. 0 % Word = 0
  BY RingAssumption
<1> QED BY <1>1, <1>2 DEF HeadCounts

(* Only StoreHead moves the head, and the thread that does has the head in *)
(* hand that everybody sees.                                               *)
LEMMA NextHeadCounts ==
  ASSUME TypeInv, OrderInv, HeadCounts, [Next]_vars
  PROVE  HeadCounts'
<1>1. ASSUME NEW t \in Thread, StoreHead(t) PROVE HeadCounts'
  <2>1. ring'.head = Increment(ring.head)
    BY <1>1 DEF StoreHead, Goes, At, OrderInv, HeadInHand, TypeInv, TypeOK
  <2>2. Len(sent') = Len(sent) + 1 /\ Len(sent) \in Nat
    BY <1>1 DEF StoreHead, TypeInv, TypeOK
  <2> QED BY <2>1, <2>2, IncrementMod DEF HeadCounts
<1>2. ASSUME NEW t \in Thread,
             \/ BeginPush(t) \/ Acquire(t) \/ LoadHead(t) \/ LoadTail(t) \/ Drop(t)
             \/ BeginWrite(t) \/ EndWrite(t) \/ Release(t)
      PROVE  HeadCounts'
  <2>1. ring'.head = ring.head /\ sent' = sent
    BY <1>2 DEF BeginPush, Acquire, LoadHead, LoadTail, Drop, BeginWrite, EndWrite,
                Release, history, TypeInv, TypeOK
  <2> QED BY <2>1 DEF HeadCounts
<1>3. ASSUME NEW q \in Process,
             Spawn(q) \/ (\E t \in Thread : Fork(t, q)) \/ Kill(q)
      PROVE  HeadCounts'
  BY <1>3 DEF Spawn, Fork, Starts, Kill, history, HeadCounts
<1>4. CASE Read \/ UNCHANGED vars
  <2>1. ring'.head = ring.head /\ sent' = sent
    BY <1>4 DEF Read, BeginRead, ReadSlot, EndRead, vars, history, TypeInv, TypeOK
  <2> QED BY <2>1 DEF HeadCounts
<1> QED BY <1>1, <1>2, <1>3, <1>4 DEF Next, Step

(* Nothing is lost silently: whatever ho_ring_push was called with has     *)
(* moved the head, was counted in `dropped`, or is still under way.        *)
THEOREM EveryEventAccounted ==
  ASSUME OneProcess
  PROVE  Spec => []Accounted
<1>1. Spec => [](TypeInv /\ LockInv /\ OrderInv)
  BY OrderAlways
<1>2. TypeInv /\ LockInv /\ OrderInv /\ HeadCounts /\ [Next]_vars => HeadCounts'
  BY NextHeadCounts
<1>3. HeadCounts /\ Balance => Accounted
  BY DEF HeadCounts, Balance, Pushing, Accounted
<1> QED BY <1>1, <1>2, <1>3, InitHeadCounts, InitBalance, NextBalance, PTL DEF Spec

-----------------------------------------------------------------------------
(* The ring of one process is a lossy queue                                *)

Queue == [i \in 1 .. Pending |-> slot[SlotOf(ring.tail + i - 1)]]

LEMMA QueueType ==
  ASSUME TypeInv
  PROVE  /\ Queue \in Seq(Content) /\ Len(Queue) = Pending /\ Pending \in Nat
         /\ \A i \in 1 .. Pending : Queue[i] = slot[SlotOf(ring.tail + i - 1)]
<1>1. Pending \in Nat
  BY PendingType
<1>2. ASSUME NEW i \in 1 .. Pending PROVE slot[SlotOf(ring.tail + i - 1)] \in Content
  <2>1. ring.tail + i - 1 \in Int
    BY <1>1 DEF TypeInv, TypeOK
  <2> QED BY <2>1, SlotType DEF TypeInv, TypeOK
<1>3. Queue \in [1 .. Pending -> Content]
  BY <1>2 DEF Queue
<1>4. Queue \in Seq(Content) /\ Len(Queue) = Pending
  BY <1>1, <1>3
<1> QED BY <1>1, <1>4 DEF Queue

LEMMA QueueTypeNext ==
  ASSUME TypeInv'
  PROVE  /\ Queue' \in Seq(Content) /\ Len(Queue') = Pending' /\ Pending' \in Nat
         /\ \A i \in 1 .. Pending' : Queue'[i] = slot'[SlotOf(ring'.tail + i - 1)]
<1>1. Pending' \in Nat
  <2>1. ring'.head \in 0 .. Word - 1 /\ ring'.tail \in 0 .. Word - 1
    BY DEF TypeInv, TypeOK
  <2> QED BY <2>1, RingAssumption DEF Pending, Distance
<1>2. ASSUME NEW i \in 1 .. Pending' PROVE slot'[SlotOf(ring'.tail + i - 1)] \in Content
  <2>1. ring'.tail + i - 1 \in Int
    BY <1>1 DEF TypeInv, TypeOK
  <2> QED BY <2>1, SlotType DEF TypeInv, TypeOK
<1>3. Queue' \in [1 .. Pending' -> Content]
  BY <1>2 DEF Queue
<1>4. Queue' \in Seq(Content) /\ Len(Queue') = Pending'
  BY <1>1, <1>3
<1> QED BY <1>1, <1>4 DEF Queue

LEMMA PushRefines ==
  ASSUME TypeInv, LockInv, OneProcess, OrderInv, TypeInv', NEW t \in Thread, StoreHead(t)
  PROVE  Lossy!Push(Whole(thread[t].event)) /\ Whole(thread[t].event) \in Content
<1> DEFINE e == Whole(thread[t].event)
<1>1. /\ Pending < Cap /\ Pending' = Pending + 1
      /\ slot[SlotOf(ring.tail + Pending)] = e
      /\ UNCHANGED <<slot, delivered>> /\ ring'.tail = ring.tail
  BY StoreHeadOrderInv DEF StoreHead, TypeInv, TypeOK
<1>2. e \in Content
  BY ContentType DEF StoreHead, Goes, At, TypeInv, EventInHand
<1> HIDE DEF e
<1>3. /\ Queue \in Seq(Content) /\ Len(Queue) = Pending /\ Pending \in Nat
      /\ \A i \in 1 .. Pending : Queue[i] = slot[SlotOf(ring.tail + i - 1)]
  BY QueueType
<1>4. /\ Queue' \in Seq(Content) /\ Len(Queue') = Pending'
      /\ \A i \in 1 .. Pending' : Queue'[i] = slot'[SlotOf(ring'.tail + i - 1)]
  BY QueueTypeNext
<1>5. /\ Append(Queue, e) \in Seq(Content) /\ Len(Append(Queue, e)) = Pending + 1
      /\ \A i \in 1 .. Pending : Append(Queue, e)[i] = Queue[i]
      /\ Append(Queue, e)[Pending + 1] = e
  BY <1>2, <1>3, AppendProperties
<1>6. ASSUME NEW i \in 1 .. Pending + 1 PROVE Queue'[i] = Append(Queue, e)[i]
  <2>1. Queue'[i] = slot[SlotOf(ring.tail + i - 1)]
    BY <1>1, <1>4
  <2>2. CASE i = Pending + 1
    <3>1. ring.tail + i - 1 = ring.tail + Pending
      BY <1>3, <2>2 DEF TypeInv, TypeOK
    <3> QED BY <1>1, <1>5, <2>1, <2>2, <3>1
  <2>3. CASE i # Pending + 1
    BY <1>3, <1>5, <2>1, <2>3
  <2> QED BY <2>2, <2>3
<1>7. Queue' = Append(Queue, e)
  BY <1>1, <1>4, <1>5, <1>6, SeqEqual
<1>8. Len(Queue) < Cap
  BY <1>1, <1>3
<1> QED BY <1>1, <1>2, <1>7, <1>8 DEF Lossy!Push, Queue, e

LEMMA TakeRefines ==
  ASSUME TypeInv, OrderInv, TypeInv', EndRead
  PROVE  IF reader.out = << >>
         THEN Queue' = Queue /\ delivered' = delivered
         ELSE Len(reader.out) \in 1 .. BatchLimit /\ Lossy!Take(Len(reader.out))
<1> DEFINE n == Len(reader.out)
<1>1. /\ n <= Pending /\ n <= BatchLimit /\ Pending' = Pending - n
      /\ ring'.tail = reader.tail /\ Distance(reader.tail, ring.tail) = n
      /\ slot' = slot /\ delivered' = delivered \o reader.out
  BY EndReadOrderInv DEF EndRead
<1>2. /\ reader.tail \in 0 .. Word - 1 /\ ring.tail \in 0 .. Word - 1
      /\ reader.out \in Seq(Content) /\ n \in Nat /\ delivered \in Seq(Content)
  BY DEF TypeInv, TypeOK
<1>3. /\ Queue \in Seq(Content) /\ Len(Queue) = Pending /\ Pending \in Nat
      /\ \A i \in 1 .. Pending : Queue[i] = slot[SlotOf(ring.tail + i - 1)]
  BY QueueType
<1>4. /\ Queue' \in Seq(Content) /\ Len(Queue') = Pending'
      /\ \A i \in 1 .. Pending' : Queue'[i] = slot'[SlotOf(ring'.tail + i - 1)]
  BY QueueTypeNext
<1>5. ASSUME NEW i \in 1 .. Pending - n PROVE Queue'[i] = Queue[n + i]
  <2>1. Queue'[i] = slot[SlotOf(reader.tail + i - 1)]
    BY <1>1, <1>4
  <2>2. SlotOf(reader.tail + (i - 1)) = SlotOf(ring.tail + Distance(reader.tail, ring.tail) + (i - 1))
    <3>1. i - 1 \in Int
      BY <1>3
    <3> QED BY <1>2, <3>1, SlotAtDistance
  <2>3. /\ n + i \in 1 .. Pending
        /\ reader.tail + (i - 1) = reader.tail + i - 1
        /\ ring.tail + n + (i - 1) = ring.tail + (n + i) - 1
    <3>1. /\ n \in Nat /\ i \in Int /\ 1 <= i /\ i <= Pending - n
          /\ Pending \in Nat /\ reader.tail \in Int /\ ring.tail \in Int
      BY <1>2, <1>3
    <3> HIDE DEF n
    <3> QED BY <3>1
  <2>4. Queue[n + i] = slot[SlotOf(ring.tail + (n + i) - 1)]
    BY <1>3, <2>3
  <2> QED BY <1>1, <2>1, <2>2, <2>3, <2>4
<1> HIDE DEF n
<1>6. CASE reader.out = << >>
  <2>1. n = 0
    BY <1>6 DEF n
  <2>2. Queue' = Queue
    <3>1. Len(Queue') = Len(Queue) /\ Pending' = Pending /\ Pending - n = Pending
      BY <1>1, <1>3, <1>4, <2>1
    <3>2. ASSUME NEW i \in 1 .. Pending PROVE Queue'[i] = Queue[i]
      <4>1. n + i = i
        BY <1>3, <2>1
      <4> QED BY <1>5, <3>1, <4>1
    <3> QED BY <1>3, <1>4, <3>1, <3>2, SeqEqual
  <2> QED BY <1>1, <1>2, <1>6, <2>2, ConcatEmptySeq
<1>7. CASE reader.out # << >>
  <2>1. n \in 1 .. BatchLimit
    BY <1>1, <1>2, <1>7, EmptySeq, RingAssumption DEF n
  <2> DEFINE rest == SubSeq(Queue, n + 1, Len(Queue))
             batch == SubSeq(Queue, 1, n)
  <2>2. rest = Queue'
    <3>1. \A i \in n + 1 .. Len(Queue) : Queue[i] \in Content
      BY <1>2, <1>3, ElementOfSeq
    <3>2. /\ rest \in Seq(Content)
          /\ Len(rest) = IF n + 1 <= Len(Queue) THEN Len(Queue) - (n + 1) + 1 ELSE 0
          /\ \A i \in 1 .. Len(Queue) - (n + 1) + 1 : rest[i] = Queue[(n + 1) + i - 1]
      BY <1>2, <1>3, <3>1, SubSeqProperties
    <3> HIDE DEF rest
    <3>3. Len(rest) = Pending - n
      BY <1>1, <1>2, <1>3, <3>2
    <3>4. ASSUME NEW i \in 1 .. Pending - n PROVE rest[i] = Queue[n + i]
      <4>1. i \in 1 .. Len(Queue) - (n + 1) + 1 /\ (n + 1) + i - 1 = n + i
        BY <1>1, <1>2, <1>3
      <4> QED BY <3>2, <4>1
    <3>5. Len(rest) = Len(Queue') /\ \A i \in 1 .. Len(rest) : rest[i] = Queue'[i]
      BY <1>1, <1>4, <1>5, <3>3, <3>4
    <3> QED BY <1>4, <3>2, <3>5, SeqEqual
  <2>3. batch = reader.out
    <3>1. \A i \in 1 .. n : Queue[i] \in Content
      BY <1>1, <1>2, <1>3, ElementOfSeq
    <3>2. /\ batch \in Seq(Content) /\ Len(batch) = IF 1 <= n THEN n - 1 + 1 ELSE 0
          /\ \A i \in 1 .. n - 1 + 1 : batch[i] = Queue[1 + i - 1]
      BY <1>2, <3>1, SubSeqProperties
    <3> HIDE DEF batch
    <3>3. Len(batch) = n /\ \A i \in 1 .. n : batch[i] = Queue[i]
      BY <2>1, <1>2, <3>2
    <3>4. ASSUME NEW i \in 1 .. n PROVE Queue[i] = reader.out[i]
      <4>1. reader.reading
        BY DEF EndRead
      <4>2. reader.out[i] = sent[Len(delivered) + i]
        BY <4>1 DEF OrderInv, BatchIsSent, n
      <4>3. i - 1 \in 0 .. Pending - 1 /\ i \in 1 .. Pending
        BY <1>1, <1>2, <1>3
      <4>4. slot[SlotOf(ring.tail + (i - 1))] = sent[Len(delivered) + (i - 1) + 1]
        BY <4>3 DEF OrderInv, SlotsHoldSent
      <4>5. /\ ring.tail + (i - 1) = ring.tail + i - 1
            /\ Len(delivered) + (i - 1) + 1 = Len(delivered) + i
        BY <1>2
      <4> QED BY <1>3, <4>2, <4>3, <4>4, <4>5
    <3> QED BY <1>2, <3>2, <3>3, <3>4, SeqEqual DEF n
  <2>4. n <= Len(Queue)
    BY <1>1, <1>3
  <2> QED BY <1>1, <1>7, <2>1, <2>2, <2>3, <2>4 DEF Lossy!Take, Queue, n
<1> QED BY <1>6, <1>7

(* Slots are only written outside the queue.                               *)
LEMMA OtherStepsKeepQueue ==
  ASSUME TypeInv, LockInv, OneProcess, OrderInv, TypeInv',
         \/ \E t \in Thread :
              \/ BeginPush(t) \/ Acquire(t) \/ LoadHead(t) \/ LoadTail(t) \/ Drop(t)
              \/ BeginWrite(t) \/ EndWrite(t) \/ Release(t)
         \/ \E q \in Process : Spawn(q) \/ (\E t \in Thread : Fork(t, q)) \/ Kill(q)
         \/ BeginRead \/ ReadSlot \/ UNCHANGED vars
  PROVE  Queue' = Queue /\ delivered' = delivered
<1>1. /\ ring'.head = ring.head /\ ring'.tail = ring.tail /\ delivered' = delivered
  <2>1. ASSUME NEW t \in Thread,
               \/ BeginPush(t) \/ Acquire(t) \/ LoadHead(t) \/ LoadTail(t) \/ Drop(t)
               \/ BeginWrite(t) \/ EndWrite(t) \/ Release(t)
        PROVE  ring'.head = ring.head /\ ring'.tail = ring.tail /\ delivered' = delivered
    BY <2>1 DEF BeginPush, Acquire, LoadHead, LoadTail, Drop, BeginWrite, EndWrite, Release,
                history, TypeInv, TypeOK
  <2>2. ASSUME NEW q \in Process,
               Spawn(q) \/ (\E t \in Thread : Fork(t, q)) \/ Kill(q)
        PROVE  ring' = ring /\ delivered' = delivered
    BY <2>2 DEF Spawn, Fork, Starts, Kill, history
  <2>3. CASE BeginRead \/ ReadSlot \/ UNCHANGED vars
    BY <2>3 DEF BeginRead, ReadSlot, vars, history
  <2> QED BY <2>1, <2>2, <2>3
<1>2. Pending' = Pending
  BY <1>1 DEF Pending
<1>3. ASSUME NEW k \in 0 .. Pending - 1
      PROVE  slot'[SlotOf(ring.tail + k)] = slot[SlotOf(ring.tail + k)]
  <2>1. ASSUME NEW t \in Thread, BeginWrite(t) \/ EndWrite(t)
        PROVE  slot'[SlotOf(ring.tail + k)] = slot[SlotOf(ring.tail + k)]
    <3>0. slot \in [0 .. Cap - 1 -> Content]
      BY DEF TypeInv, TypeOK
    <3>1. SlotOf(thread[t].head) # SlotOf(ring.tail + k)
      BY <2>1, HeadSlotIsFree DEF BeginWrite, EndWrite, Goes, At
    <3>2. SlotOf(ring.tail + k) \in 0 .. Cap - 1
      <4>1. ring.tail + k \in Int
        <5>1. ring.tail \in Int
          BY DEF TypeInv, TypeOK
        <5> QED BY <5>1, PendingType
      <4> QED BY <4>1, SlotType
    <3> QED BY <2>1, <3>0, <3>1, <3>2 DEF BeginWrite, EndWrite
  <2>2. \/ slot' = slot
        \/ \E t \in Thread : BeginWrite(t) \/ EndWrite(t)
    BY DEF BeginPush, Acquire, LoadHead, LoadTail, Drop, Release, Spawn, Fork, Starts, Kill,
           BeginRead, ReadSlot, vars, history
  <2> QED BY <2>1, <2>2
<1>4. /\ Queue \in Seq(Content) /\ Len(Queue) = Pending /\ Pending \in Nat
      /\ \A i \in 1 .. Pending : Queue[i] = slot[SlotOf(ring.tail + i - 1)]
  BY QueueType
<1>5. /\ Queue' \in Seq(Content) /\ Len(Queue') = Pending'
      /\ \A i \in 1 .. Pending' : Queue'[i] = slot'[SlotOf(ring'.tail + i - 1)]
  BY QueueTypeNext
<1>6. ASSUME NEW i \in 1 .. Pending PROVE Queue'[i] = Queue[i]
  <2>1. i - 1 \in 0 .. Pending - 1 /\ ring.tail + (i - 1) = ring.tail + i - 1
    BY <1>4 DEF TypeInv, TypeOK
  <2>2. slot'[SlotOf(ring.tail + i - 1)] = slot[SlotOf(ring.tail + i - 1)]
    BY <1>3, <2>1
  <2> QED BY <1>1, <1>2, <1>4, <1>5, <2>2
<1>7. Queue' = Queue
  BY <1>2, <1>4, <1>5, <1>6, SeqEqual
<1> QED BY <1>1, <1>7

(* With locks, partial writes, crashes and wrapped counters hidden, the    *)
(* ring of a process is a bounded queue that loses whole events only when  *)
(* it is full: the form in which Pipeline uses it.                         *)
THEOREM RingIsLossyQueue ==
  ASSUME OneProcess
  PROVE  Spec => RefinesLossyQueue
<1>1. Init => Lossy!Init
  <2> SUFFICES ASSUME Init PROVE Lossy!Init
    OBVIOUS
  <2>1. TypeInv /\ Pending = 0
    BY InitTypeInv DEF Init, Pending, Distance
  <2>2. Queue \in Seq(Content) /\ Len(Queue) = 0
    BY <2>1, QueueType
  <2>3. Queue = << >>
    BY <2>2, EmptySeq
  <2> QED BY <2>3 DEF Lossy!Init, Init, Queue
<1>2. TypeInv /\ TypeInv' /\ LockInv /\ OrderInv /\ [Next]_vars => [Lossy!Next]_(Lossy!vars)
  <2> SUFFICES ASSUME TypeInv, TypeInv', LockInv, OrderInv, [Next]_vars
               PROVE  [Lossy!Next]_(Lossy!vars)
    OBVIOUS
  <2>1. ASSUME NEW t \in Thread, StoreHead(t) PROVE Lossy!Next
    BY <2>1, PushRefines DEF Lossy!Next
  <2>2. CASE EndRead
    <3>1. CASE reader.out = << >>
      BY <2>2, <3>1, TakeRefines DEF Lossy!vars, Queue
    <3>2. CASE reader.out # << >>
      BY <2>2, <3>2, TakeRefines DEF Lossy!Next
    <3> QED BY <3>1, <3>2
  <2>3. CASE Queue' = Queue /\ delivered' = delivered
    BY <2>3 DEF Lossy!vars, Queue
  <2> QED BY <2>1, <2>2, <2>3, OtherStepsKeepQueue DEF Next, Step, Read
<1> QED BY <1>1, <1>2, OrderAlways, PTL DEF Spec, RefinesLossyQueue, Lossy!Spec
=============================================================================
