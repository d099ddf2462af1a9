------------------------------ MODULE Pipeline ------------------------------
(***************************************************************************)
(* From the heaps of the target to the alerts of the monitor: threads call *)
(* the real allocator through the wrappers of hook.c, the wrappers publish *)
(* what happened into the ring (LossyQueue, which RingBuffer implements),  *)
(* and the reader applies each event to the shadow heap (HeapOracle).      *)
(*                                                                         *)
(* The real call and its publication are two steps, in the order each      *)
(* wrapper has them, and other threads run in between.  Tracing is on and  *)
(* the ring bound: Hook has what comes before and after.  The target may   *)
(* have started others: their events go into the same ring, and addresses  *)
(* of different processes coincide.                                        *)
(*                                                                         *)
(* The program frees and reallocates only what it holds; it may make one   *)
(* mistake, to free a block once too often, and the allocator aborts it.   *)
(***************************************************************************)
EXTENDS Integers, FiniteSets, Sequences

CONSTANTS
  Thread, Process,
  Priors,           (* the sets of blocks obtained before tracing was on   *)
  EmptyRealloc,     (* what realloc(p, 0) gives: "null" (glibc), "block"   *)
                    (* (macOS: a block of the minimal size)                *)
  Cap,              (* of the ring                                         *)
  UsizeMax, Addr, Null, Size, TcacheFillCount, AlertCap,   (* the oracle's *)
  MaxCalls          (* bound on the calls                                  *)

ASSUME PipelineAssumption ==
  /\ Null \notin Addr
  /\ Priors \subseteq SUBSET Addr
  /\ EmptyRealloc \subseteq {"null", "block"}
  /\ Cap \in Nat \ {0} /\ AlertCap \in Nat \ {0}
  /\ MaxCalls \in Nat

VARIABLES
  proc,             (* the process of each thread                          *)
  heap,             (* of each process: its blocks are "fresh", "live",    *)
                    (* or "free"                                           *)
  held,             (* addresses each process has, and may free            *)
  call,             (* of each thread, with the steps still to do          *)
  calls,            (* history: calls begun                                *)
  misused,          (* history: addresses freed once too often             *)
  aborted,          (* processes the allocator has aborted                 *)
  blurred,          (* history: addresses the events are not enough for    *)
  queue, delivered, (* the ring                                            *)
  oracle, result    (* the monitor                                         *)

(* The fields of ho_event the oracle looks at.                             *)
Event == [kind : {"alloc", "free", "realloc"}, addr : Addr \cup {Null},
          aux_addr : Addr \cup {Null}, size : Size \cup {0}]

Ring   == INSTANCE LossyQueue WITH BatchLimit <- 1
Oracle == INSTANCE HeapOracle WITH MaxEvents <- MaxCalls

program == <<heap, held, call, calls, misused, aborted>>
ring    == <<queue, delivered>>
monitor == <<oracle, result>>
vars    == <<proc, program, blurred, ring, monitor>>

-----------------------------------------------------------------------------
(* A call: the operation, the address and size passed, the address         *)
(* returned, and its steps.                                                *)

(* Mutant: free publishes after the real call, as the others do.           *)
StepsFreeLate(op) == <<"real", "publish">>

Steps(op) == IF op = "free" THEN <<"publish", "real">> ELSE <<"real", "publish">>

NewCall(op, from, size) ==
  [op |-> op, from |-> from, size |-> size, to |-> Null, todo |-> Steps(op)]

NoCall == [op |-> "none", from |-> Null, size |-> 0, to |-> Null, todo |-> << >>]

Idle(t) == call[t] = NoCall /\ proc[t] \notin aborted

(* Mutant: the old address of a realloc is not passed on. *)
AddressesNewOnly(c) == IF c.op = "free" THEN <<c.from, Null>> ELSE <<c.to, Null>>

(* addr and aux_addr of the event *)
Addresses(c) == IF c.op = "free" THEN <<c.from, Null>> ELSE <<c.to, c.from>>

EventOf(c) == [kind |-> IF c.op = "malloc" THEN "alloc" ELSE c.op,
               addr |-> Addresses(c)[1], aux_addr |-> Addresses(c)[2], size |-> c.size]

(* What the program holds by the call when it returns: a realloc that      *)
(* fails leaves it the old block.                                          *)
Gain(c) ==
  IF c.to # Null                         THEN {c.to}
  ELSE IF c.op = "realloc" /\ c.size # 0 THEN {c.from} \ {Null}
  ELSE {}

At(t, step) ==
  proc[t] \notin aborted /\ call[t].todo # << >> /\ Head(call[t].todo) = step

(* Call c of thread t has done its first step.                             *)
StepDone(t, c) ==
  IF Len(c.todo) = 1
  THEN /\ call' = [call EXCEPT ![t] = NoCall]
       /\ held' = [held EXCEPT ![proc[t]] = @ \cup Gain(c)]
  ELSE /\ call' = [call EXCEPT ![t] = [c EXCEPT !.todo = Tail(@)]]
       /\ UNCHANGED held

-----------------------------------------------------------------------------
(* The program *)

Begin(t, c) ==
  /\ Idle(t) /\ calls < MaxCalls
  /\ calls' = calls + 1
  /\ call' = [call EXCEPT ![t] = c]
  /\ held' = [held EXCEPT ![proc[t]] = @ \ {c.from}]
  /\ UNCHANGED <<proc, heap, misused, aborted, blurred, ring, monitor>>

(* To the allocator malloc(0) is like any other.                           *)
BeginMalloc(t) == \E size \in Size \ {0} : Begin(t, NewCall("malloc", Null, size))

BeginFree(t) == \E a \in held[proc[t]] : Begin(t, NewCall("free", a, 0))

BeginRealloc(t) ==
  \E a \in held[proc[t]] \cup {Null}, size \in Size :
    (a = Null => size # 0) /\ Begin(t, NewCall("realloc", a, size))

-----------------------------------------------------------------------------
(* The real allocator *)

(* Thread t obtains an address that another process has used, or that a    *)
(* realloc of another thread has given back but not yet published.         *)
Ambiguous(t, a) ==
  \/ \E p \in Process \ {proc[t]} : heap[p][a] # "fresh"
  \/ \E u \in Thread \ {t} : call[u].op = "realloc" /\ call[u].from = a

(* The call gives back the blocks in `from` and obtains a, or Null.        *)
RealStep(t, from, a) ==
  /\ a # Null => heap[proc[t]][a] # "live"
  /\ heap' = [heap EXCEPT ![proc[t]] = [b \in Addr |-> IF b = a THEN "live"
                                                       ELSE IF b \in from THEN "free"
                                                       ELSE @[b]]]
  /\ StepDone(t, [call[t] EXCEPT !.to = a])
  /\ UNCHANGED <<proc, calls, misused, aborted, ring, monitor>>

Notice(t, a) == blurred' = IF Ambiguous(t, a) THEN blurred \cup {a} ELSE blurred

(* malloc, and realloc(NULL, n).                                           *)
RealMalloc(t) ==
  /\ At(t, "real") /\ call[t].op # "free" /\ call[t].from = Null
  /\ \E a \in Addr : RealStep(t, {}, a) /\ Notice(t, a)

RealFree(t) ==
  /\ At(t, "real") /\ call[t].op = "free" /\ call[t].from \notin misused
  /\ RealStep(t, {call[t].from}, Null)
  /\ UNCHANGED blurred

RealAbort(t) ==
  /\ At(t, "real") /\ call[t].op = "free" /\ call[t].from \in misused
  /\ aborted' = aborted \cup {proc[t]}
  /\ UNCHANGED <<proc, heap, held, call, calls, misused, blurred, ring, monitor>>

Resizing(t) == At(t, "real") /\ call[t].op = "realloc" /\ call[t].from # Null

Move(t) ==
  /\ Resizing(t) /\ call[t].size # 0
  /\ \E a \in Addr : RealStep(t, {call[t].from}, a) /\ Notice(t, a)

StayInPlace(t) ==
  /\ Resizing(t) /\ call[t].size # 0
  /\ StepDone(t, [call[t] EXCEPT !.to = call[t].from])
  /\ UNCHANGED <<proc, heap, calls, misused, aborted, blurred, ring, monitor>>

(* No memory: malloc gives NULL, realloc gives NULL and keeps the block.   *)
AllocationFails(t) ==
  /\ At(t, "real") /\ call[t].op # "free"
  /\ call[t].from # Null => call[t].size # 0
  /\ RealStep(t, {}, Null)
  /\ UNCHANGED blurred

(* realloc(p, 0); a block it gives on macOS is not in the event's account. *)
Empty(t) ==
  /\ Resizing(t) /\ call[t].size = 0
  /\ \/ "null" \in EmptyRealloc /\ RealStep(t, {call[t].from}, Null) /\ UNCHANGED blurred
     \/ /\ "block" \in EmptyRealloc
        /\ \E a \in Addr : RealStep(t, {call[t].from}, a) /\ blurred' = blurred \cup {a}

-----------------------------------------------------------------------------
(* The ring *)

Dropped(e) == {e.addr, e.aux_addr} \ {Null}

(* Mutant: the ring is never found full. *)
SendUnbounded(e) == queue' = Append(queue, e) /\ UNCHANGED <<blurred, delivered>>

Send(e) ==
  \/ Ring!Push(e) /\ UNCHANGED blurred
  \/ Len(queue) >= Cap /\ blurred' = blurred \cup Dropped(e) /\ UNCHANGED ring

Publish(t) ==
  /\ At(t, "publish")
  /\ Send(EventOf(call[t]))
  /\ StepDone(t, call[t])
  /\ UNCHANGED <<proc, heap, calls, misused, aborted, monitor>>

(* The mistake: free of an address that was freed already and that nobody  *)
(* has obtained since.                                                     *)
Misuse(t, a) ==
  LET c == NewCall("free", a, 0)
  IN  /\ Idle(t) /\ calls < MaxCalls /\ misused = {}
      /\ heap[proc[t]][a] = "free"
      /\ calls' = calls + 1
      /\ misused' = {a}
      /\ Send(EventOf(c))
      /\ call' = [call EXCEPT ![t] = [c EXCEPT !.todo = Tail(@)]]
      /\ UNCHANGED <<proc, heap, held, aborted, monitor>>

(* The reader; it applies a batch event by event, in the order of the ring.*)
ApplyEvent(e) ==
  \/ e.kind = "alloc"   /\ Oracle!Alloc(e.addr, e.size)
  \/ e.kind = "free"    /\ Oracle!Free(e.addr)
  \/ e.kind = "realloc" /\ Oracle!Realloc(e.aux_addr, e.addr, e.size)

Deliver ==
  /\ queue # << >>
  /\ Ring!Take(1)
  /\ ApplyEvent(Head(queue))
  /\ UNCHANGED <<proc, program, blurred>>

-----------------------------------------------------------------------------
Init ==
  /\ proc \in [Thread -> Process]
  /\ blurred \in Priors
  /\ heap = [p \in Process |-> [a \in Addr |-> IF a \in blurred THEN "live" ELSE "fresh"]]
  /\ held = [p \in Process |-> blurred]
  /\ call = [t \in Thread |-> NoCall]
  /\ calls = 0 /\ misused = {} /\ aborted = {}
  /\ Ring!Init
  /\ Oracle!Init

Next ==
  \/ \E t \in Thread : BeginMalloc(t) \/ BeginFree(t) \/ BeginRealloc(t)
  \/ \E t \in Thread : RealMalloc(t) \/ RealFree(t) \/ RealAbort(t)
                       \/ Move(t) \/ StayInPlace(t) \/ AllocationFails(t) \/ Empty(t)
  \/ \E t \in Thread : Publish(t) \/ \E a \in Addr : Misuse(t, a)
  \/ Deliver

Spec == Init /\ [][Next]_vars

-----------------------------------------------------------------------------
(* Invariants *)

TypeOK ==
  /\ proc \in [Thread -> Process]
  /\ heap \in [Process -> [Addr -> {"fresh", "live", "free"}]]
  /\ \A p \in Process : held[p] \subseteq {a \in Addr : heap[p][a] = "live"}
  /\ calls \in 0 .. MaxCalls
  /\ misused \subseteq Addr /\ aborted \subseteq Process /\ blurred \subseteq Addr
  /\ Len(queue) <= Cap /\ \A i \in DOMAIN queue : queue[i] \in Event

(* A program that frees and reallocates only what it holds raises no       *)
(* alert, in any interleaving, but about a blurred address: a block from   *)
(* before the tracing, one whose event was dropped, one that a realloc     *)
(* gave back before it was published and another thread obtained, one that *)
(* two processes use, or one that realloc(p, 0) returned.  What is wrong   *)
(* about one address never spreads to another.                             *)
AlarmsNeedBlur ==
  misused = {} => \A i \in DOMAIN oracle.alerts : oracle.alerts[i].addr \in blurred

(* A block freed once too often is reported, also when the program was     *)
(* aborted right after, as soon as every release of it is published (when  *)
(* a realloc that released it comes second, it is the realloc that is      *)
(* blamed).                                                                *)
MisuseReported ==
  queue = << >> =>
    \A a \in misused \ blurred :
      \/ \E t \in Thread : call[t].op = "realloc" /\ call[t].from = a
      \/ \E i \in DOMAIN oracle.alerts :
           oracle.alerts[i] \in [addr : {a}, reason : {"double-free", "realloc-after-free"}]

(* When the threads are outside the wrappers and the oracle has caught up, *)
(* it takes for allocated exactly the blocks that are, but for the blurred.*)
OracleMatchesHeap ==
  (queue = << >> /\ misused = {} /\ \A t \in Thread : Idle(t))
    => \A a \in Addr \ blurred :
         oracle.chunks[a].state.tag = "allocated"
           <=> \E p \in Process : heap[p][a] = "live"

(* ringbuf.c:83: "The hook can be called from multiple threads             *)
(* simultaneously"; what they publish makes sense together.                *)
NoFalseAlarm == misused = {} => oracle.alerts = << >>
=============================================================================
