--------------------------- MODULE MonitorProofs ---------------------------
(***************************************************************************)
(* TLAPS proofs about Monitor, for every capacity, batch limit, length of  *)
(* the drain and set of modes.                                             *)
(***************************************************************************)
EXTENDS Monitor, TLAPS

(* TypeOK, in parts that a step either leaves alone or changes.            *)
MainType ==
  [at : {"spawn", "wait", "window", "watch", "drain_consumed", "drain_pending", "stop",
         "join", "report", "done", "failed", "killed"},
   tries : 0 .. DrainTries, stable : 0 .. DrainStable, last : Nat, consumed : Nat]

RingType == {r \in [head : 0 .. MaxEvents, tail : 0 .. MaxEvents, dropped : 0 .. MaxEvents] :
               r.tail <= r.head}

StatsType == [consumed : Nat, pending : 0 .. Cap, dropped : Nat, exited : BOOLEAN]

ReaderType(most) ==
  [at : {"head", "copy", "stats", "update", "decide", "apply", "consume", "print", "ended",
         "panicked", "killed"},
   head : 0 .. most, count : 0 .. BatchLimit, pending : 0 .. Cap, dropped : Nat,
   fresh : BOOLEAN]

SummaryType == {NoSummary} \cup [consumed : Nat, dropped : Nat]

Typed ==
  /\ mode \in Modes /\ main \in MainType
  /\ waiter \in {"none", "waiting"} /\ target \in {"none", "running", "exited"}
  /\ ring \in RingType /\ linked \in BOOLEAN /\ stop \in BOOLEAN
  /\ stats \in StatsType /\ reader \in ReaderType(ring.head)
  /\ applied \in 0 .. ring.tail /\ summary \in SummaryType

(* The loop of drain_after_exit stays within its bounds.                   *)
DrainBounded ==
  /\ main.at \in {"spawn", "wait"} => main.tries = 0 /\ main.stable = 0
  /\ main.at \in {"drain_consumed", "drain_pending"} =>
       main.tries < DrainTries /\ main.stable < DrainStable

(* The ring is never over-full, and the head a batch began with is ahead   *)
(* of the tail.                                                            *)
BacklogFits ==
  /\ ring.head - ring.tail <= Cap
  /\ reader.at = "copy" => ring.tail <= reader.head

(* Where the reader is in its loop tells by how much the oracle and the    *)
(* count of consumed events are behind the tail it has stored.             *)
BatchCounted ==
  /\ reader.at \in {"head", "copy", "decide", "print", "ended", "panicked"} =>
       applied = ring.tail /\ stats.consumed = applied
  /\ reader.at \in {"stats", "update", "apply"} =>
       applied + reader.count = ring.tail /\ stats.consumed = applied
  /\ reader.at = "consume" =>
       applied = ring.tail /\ stats.consumed + reader.count = applied

(* A batch begun after the end of the target sees the last of the ring.    *)
FreshLook ==
  /\ reader.fresh => target = "exited"
  /\ reader.fresh /\ reader.at \in {"update", "decide"} =>
       /\ reader.pending = ring.head - ring.tail
       /\ reader.dropped = ring.dropped
  /\ reader.fresh /\ reader.at \in {"decide", "ended"} => stats.dropped = ring.dropped
  /\ reader.fresh /\ reader.at = "ended" => ring.head = ring.tail

(* The order in which a session winds up: in a run nothing raises `stop`   *)
(* before the target has exited, only `stop` ends the reader, only the end *)
(* of the reader drops the ring and lets the main thread write a summary.  *)
SessionOrder ==
  /\ linked <=> reader.at \notin {"ended", "panicked"}
  /\ reader.at = "ended" => stop
  /\ main.at \in {"report", "done"} => reader.at \in {"ended", "panicked"}
  /\ main.at = "spawn" => target = "none" /\ mode \in {"run", "run_ui"}
  /\ main.at = "window" => mode # "run"
  /\ mode = "run" /\ (stop \/ main.at \in {"drain_consumed", "drain_pending", "stop", "join"})
       => target = "exited"
  /\ summary # NoSummary =>
       reader.at \in {"ended", "panicked"} /\ summary.consumed = stats.consumed

Counts == Typed /\ DrainBounded /\ BacklogFits /\ BatchCounted
Inv    == Counts /\ FreshLook /\ SessionOrder

-----------------------------------------------------------------------------
LEMMA TypedIsTypeOK == Typed => TypeOK
<1> SUFFICES ASSUME Typed PROVE TypeOK
  OBVIOUS
<1>1. ring \in [head : 0 .. MaxEvents, tail : 0 .. ring.head, dropped : 0 .. MaxEvents]
  BY MonitorAssumption DEF Typed, RingType
<1> QED BY <1>1 DEF Typed, TypeOK, MainType, StatsType, ReaderType, SummaryType

LEMMA MinOfTwo ==
  ASSUME NEW a \in Int, NEW b \in Int
  PROVE  Min({a, b}) = IF a <= b THEN a ELSE b
BY DEF Min

LEMMA InitInv == Init => Inv
<1> SUFFICES ASSUME Init PROVE Inv
  OBVIOUS
<1> USE MonitorAssumption DEF Init
<1>1. Typed
  <2>1. main \in MainType
    <3>1. main.at \in {"spawn", "watch", "window"}
      OBVIOUS
    <3>2. main = [at |-> main.at, tries |-> 0, stable |-> 0, last |-> 0, consumed |-> 0]
      OBVIOUS
    <3> QED BY <3>1, <3>2 DEF MainType
  <2>2. ring \in RingType /\ stats \in StatsType /\ reader \in ReaderType(ring.head)
    BY DEF RingType, StatsType, ReaderType
  <2>3. summary \in SummaryType /\ applied \in 0 .. ring.tail
    BY DEF SummaryType
  <2> QED BY <2>1, <2>2, <2>3 DEF Typed
<1>2. DrainBounded /\ BacklogFits /\ BatchCounted
  BY DEF DrainBounded, BacklogFits, BatchCounted
<1>3. FreshLook /\ SessionOrder
  BY DEF FreshLook, SessionOrder
<1> QED BY <1>1, <1>2, <1>3 DEF Inv, Counts

-----------------------------------------------------------------------------
(* Types and counts                                                        *)

(* The main thread, the waiter and the target at its start and its end     *)
(* leave the ring and the reader alone, and all but `exited` in stats.     *)
LEMMA ElsewhereCounts ==
  ASSUME Counts, UNCHANGED readerSide, mode' = mode, main' \in MainType,
         waiter' \in {"none", "waiting"}, target' \in {"none", "running", "exited"},
         stop' \in BOOLEAN, summary' \in SummaryType,
         stats' = stats \/ stats' = [stats EXCEPT !.exited = TRUE],
         DrainBounded'
  PROVE  Counts'
<1>1. stats' \in StatsType /\ stats'.consumed = stats.consumed
  BY DEF Counts, Typed, StatsType
<1>2. Typed'
  BY <1>1 DEF Counts, Typed, readerSide
<1>3. BacklogFits' /\ BatchCounted'
  BY <1>1 DEF Counts, BacklogFits, BatchCounted, readerSide
<1> QED BY <1>2, <1>3 DEF Counts

LEMMA EnvironmentCounts ==
  ASSUME Counts, Environment
  PROVE  Counts'
<1> USE MonitorAssumption DEF mainSide
<1>1. CASE Produce
  <2>1. /\ ring' \in RingType /\ ring'.tail = ring.tail /\ ring'.head >= ring.head
        /\ ring'.head - ring'.tail <= Cap
    BY <1>1 DEF Produce, Counts, Typed, BacklogFits, RingType
  <2>2. reader' = reader /\ reader \in ReaderType(ring'.head)
    BY <1>1, <2>1 DEF Produce, Counts, Typed, ReaderType, RingType
  <2>3. Typed'
    BY <1>1, <2>1, <2>2 DEF Produce, Counts, Typed
  <2>4. DrainBounded' /\ BacklogFits' /\ BatchCounted'
    BY <1>1, <2>1, <2>2 DEF Produce, Counts, DrainBounded, BacklogFits, BatchCounted
  <2> QED BY <2>3, <2>4 DEF Counts
<1>2. CASE TargetExits \/ UserStartsTarget
  <2>1. DrainBounded'
    BY <1>2 DEF TargetExits, UserStartsTarget, Counts, DrainBounded
  <2> QED BY <1>2, <2>1, ElsewhereCounts DEF TargetExits, UserStartsTarget, Counts, Typed
<1> QED BY <1>1, <1>2 DEF Environment

LEMMA MainCounts ==
  ASSUME Counts, MainStep \/ RaiseStop("window") \/ WaiterWaits
  PROVE  Counts'
<1>1. /\ UNCHANGED readerSide /\ mode' = mode
      /\ waiter' \in {"none", "waiting"} /\ target' \in {"none", "running", "exited"}
      /\ stop' \in BOOLEAN
      /\ stats' = stats \/ stats' = [stats EXCEPT !.exited = TRUE]
  BY DEF MainStep, SpawnTarget, WaitForChild, DrainLoadConsumed, DrainLoadPending, RaiseStop,
         Join, Report, WaiterWaits, MarkTargetExit, Counts, Typed
<1>2. summary' \in SummaryType
  <2>1. CASE Report
    BY <2>1 DEF Report, Counts, Typed, StatsType, SummaryType
  <2>2. CASE ~ Report
    BY <2>2 DEF MainStep, SpawnTarget, WaitForChild, DrainLoadConsumed, DrainLoadPending,
                RaiseStop, Join, WaiterWaits, Counts, Typed
  <2> QED BY <2>1, <2>2
<1>3. main' \in MainType /\ DrainBounded'
  <2> USE MonitorAssumption DEF Counts, Typed, DrainBounded
  <2>1. stats.consumed \in Nat
    BY DEF StatsType
  <2>2. CASE SpawnTarget \/ RaiseStop("stop") \/ RaiseStop("window") \/ Join \/ Report
    BY <2>2 DEF SpawnTarget, RaiseStop, Join, Report, MainGoes, MainType
  <2>3. CASE WaitForChild
    <3>1. main' = [at |-> "drain_consumed", tries |-> main.tries, stable |-> main.stable,
                   last |-> stats.consumed, consumed |-> main.consumed]
      BY <2>3 DEF WaitForChild, MainType
    <3>2. main.tries = 0 /\ main.stable = 0 /\ main.consumed \in Nat
      BY <2>3 DEF WaitForChild, MainType
    <3>3. main' \in MainType
      BY <2>1, <3>1, <3>2 DEF MainType
    <3>4. DrainBounded'
      BY <3>1, <3>2
    <3> QED BY <3>3, <3>4
  <2>4. CASE DrainLoadConsumed
    <3>1. main' = [at |-> "drain_pending", tries |-> main.tries, stable |-> main.stable,
                   last |-> main.last, consumed |-> stats.consumed]
      BY <2>4 DEF DrainLoadConsumed, MainType
    <3> QED BY <2>1, <2>4, <3>1 DEF DrainLoadConsumed, MainType
  <2>5. CASE DrainLoadPending
    <3> DEFINE idle   == stats.pending = 0 /\ main.consumed = main.last
               stable == IF idle THEN main.stable + 1 ELSE 0
               over   == stable >= DrainStable \/ LastLook(main.tries)
               place  == IF over THEN "stop" ELSE "drain_consumed"
    <3>1. /\ main.at = "drain_pending" /\ main.last \in Nat /\ main.consumed \in Nat
          /\ main.tries \in 0 .. DrainTries - 1 /\ main.stable \in 0 .. DrainStable - 1
      BY <2>5 DEF DrainLoadPending, MainType
    <3>2. main' = [at |-> place, tries |-> main.tries + 1, stable |-> stable,
                   last |-> main.consumed, consumed |-> main.consumed]
      BY <2>5 DEF DrainLoadPending, MainType
    <3>3. stable \in 0 .. DrainStable
      BY <3>1
    <3> HIDE DEF stable
    <3>4. ~ over => stable < DrainStable /\ main.tries + 1 < DrainTries
      BY <3>1, <3>3 DEF LastLook
    <3>5. over => place = "stop"
      OBVIOUS
    <3>6. ~ over => place = "drain_consumed"
      OBVIOUS
    <3> HIDE DEF over, place
    <3> QED BY <3>1, <3>2, <3>3, <3>4, <3>5, <3>6 DEF MainType
  <2>6. CASE WaiterWaits
    BY <2>6 DEF WaiterWaits
  <2> QED BY <2>2, <2>3, <2>4, <2>5, <2>6 DEF MainStep
<1> QED BY <1>1, <1>2, <1>3, ElsewhereCounts

(* The reader does not touch the main thread's variables.                  *)
LEMMA ReaderDoesCounts ==
  ASSUME Counts, NEW from, NEW r, ReaderDoes(from, r), linked' \in BOOLEAN,
         ring' \in RingType, ring'.head = ring.head, stats' \in StatsType,
         r \in ReaderType(ring.head), applied' \in 0 .. ring'.tail
  PROVE  Typed' /\ DrainBounded'
BY DEF Counts, Typed, ReaderDoes, mainSide, DrainBounded

LEMMA ReaderCounts ==
  ASSUME Counts, ReaderStep \/ PrintPanics
  PROVE  Counts'
<1>1. /\ ring \in RingType /\ stats \in StatsType /\ reader \in ReaderType(ring.head)
      /\ applied \in 0 .. ring.tail /\ linked \in BOOLEAN
      /\ ring.head \in Nat /\ ring.tail \in Nat /\ ring.tail <= ring.head
      /\ BacklogFits /\ BatchCounted
  BY MonitorAssumption DEF Counts, Typed, RingType
<1>2. CASE LoadHead
  <2> DEFINE r == [ReaderAt("copy") EXCEPT !.head = ring.head, !.fresh = (target = "exited")]
  <2>1. r \in ReaderType(ring.head) /\ r.at = "copy" /\ r.head = ring.head
    <3>1. (target = "exited") \in BOOLEAN
      OBVIOUS
    <3> DEFINE late == target = "exited"
               q == ReaderAt("copy")
               p == [q EXCEPT !.head = ring.head]
    <3>2. q \in ReaderType(ring.head) /\ q.at = "copy"
      BY <1>1 DEF ReaderAt, ReaderType
    <3>3. r = [p EXCEPT !.fresh = late]
      OBVIOUS
    <3> HIDE DEF r, q
    <3>4. p \in ReaderType(ring.head) /\ p.at = "copy" /\ p.head = ring.head
      BY <1>1, <3>2 DEF ReaderType
    <3> HIDE DEF p, late
    <3>5. late \in BOOLEAN
      BY <3>1 DEF late
    <3> QED BY <3>3, <3>4, <3>5 DEF ReaderType
  <2>2. ReaderDoes("head", r) /\ UNCHANGED <<stats, ring, linked, applied>>
    BY <1>2 DEF LoadHead
  <2> HIDE DEF r
  <2>3. Typed' /\ DrainBounded'
    BY <1>1, <2>1, <2>2, ReaderDoesCounts
  <2>4. BacklogFits' /\ BatchCounted'
    BY <1>1, <2>1, <2>2 DEF ReaderDoes, BacklogFits, BatchCounted
  <2> QED BY <2>3, <2>4 DEF Counts
<1>3. CASE StoreTail
  <2> DEFINE n == Min({reader.head - ring.tail, BatchLimit})
             r == [ReaderAt("stats") EXCEPT !.count = n]
  <2>1. /\ ReaderDoes("copy", r) /\ ring' = [ring EXCEPT !.tail = ring.tail + n]
        /\ UNCHANGED <<stats, linked, applied>>
    BY <1>3 DEF StoreTail, BatchEnd
  <2>2. /\ reader.at = "copy" /\ reader.head \in 0 .. ring.head
        /\ ring.tail <= reader.head
    BY <1>1, <2>1 DEF ReaderDoes, BacklogFits, ReaderType
  <2>3. /\ n \in 0 .. BatchLimit /\ ring.tail + n <= ring.head
    <3>1. reader.head - ring.tail \in Int /\ BatchLimit \in Int
      BY <1>1, <2>2, MonitorAssumption
    <3>2. n = IF reader.head - ring.tail <= BatchLimit THEN reader.head - ring.tail
                                                       ELSE BatchLimit
      BY <3>1, MinOfTwo
    <3> HIDE DEF n
    <3> QED BY <1>1, <2>2, <3>2, MonitorAssumption
  <2> HIDE DEF n
  <2>4. r \in ReaderType(ring.head) /\ r.at = "stats" /\ r.count = n
    BY <1>1, <2>3 DEF ReaderAt, ReaderType
  <2>5. /\ ring' \in RingType /\ ring'.head = ring.head /\ ring'.tail = ring.tail + n
        /\ applied \in 0 .. ring'.tail /\ ring'.head - ring'.tail <= Cap
    BY <1>1, <2>1, <2>3, MonitorAssumption DEF RingType, BacklogFits
  <2> HIDE DEF r
  <2>6. Typed' /\ DrainBounded'
    BY <1>1, <2>1, <2>4, <2>5, ReaderDoesCounts
  <2>7. BacklogFits' /\ BatchCounted'
    BY <1>1, <2>1, <2>2, <2>4, <2>5 DEF ReaderDoes, BacklogFits, BatchCounted
  <2> QED BY <2>6, <2>7 DEF Counts
<1>4. CASE LoadStats
  <2> DEFINE r == [ReaderAt("update") EXCEPT !.pending = ring.head - ring.tail,
                                             !.dropped = ring.dropped]
  <2>1. /\ r \in ReaderType(ring.head) /\ r.at = "update" /\ r.count = reader.count
    <3>1. ring.head - ring.tail \in 0 .. Cap /\ ring.dropped \in Nat
      BY <1>1, MonitorAssumption DEF BacklogFits, RingType
    <3> QED BY <1>1, <3>1 DEF ReaderAt, ReaderType
  <2>2. ReaderDoes("stats", r) /\ UNCHANGED <<stats, ring, linked, applied>>
    BY <1>4 DEF LoadStats
  <2> HIDE DEF r
  <2>3. Typed' /\ DrainBounded'
    BY <1>1, <2>1, <2>2, ReaderDoesCounts
  <2>4. BacklogFits' /\ BatchCounted'
    BY <1>1, <2>1, <2>2 DEF ReaderDoes, BacklogFits, BatchCounted
  <2> QED BY <2>3, <2>4 DEF Counts
<1>5. ASSUME NEW from, NEW place, ReaderDoes(from, ReaderAt(place)),
             place \in {"head", "decide", "apply", "consume", "print", "ended", "panicked"},
             linked' \in BOOLEAN, ring' = ring, stats' \in StatsType,
             applied' \in 0 .. ring.tail, BatchCounted'
      PROVE  Counts'
  <2>1. /\ ReaderAt(place) \in ReaderType(ring.head) /\ ReaderAt(place).at # "copy"
    BY <1>1, <1>5 DEF ReaderAt, ReaderType
  <2>2. Typed' /\ DrainBounded'
    BY <1>1, <1>5, <2>1, ReaderDoesCounts
  <2>3. BacklogFits'
    BY <1>1, <1>5, <2>1 DEF ReaderDoes, BacklogFits
  <2> QED BY <1>5, <2>2, <2>3 DEF Counts
<1>6. CASE UpdateRing
  <2>1. stats' \in StatsType /\ stats'.consumed = stats.consumed
    BY <1>1, <1>6 DEF UpdateRing, ReaderDoes, ReaderType, StatsType
  <2>2. BatchCounted'
    BY <1>1, <1>6, <2>1 DEF UpdateRing, ReaderDoes, ReaderAt, NothingToApply, BatchCounted,
                            ReaderType
  <2> QED BY <1>1, <1>5, <1>6, <2>1, <2>2 DEF UpdateRing
<1>7. CASE GoOn \/ End \/ PrintLines \/ PrintPanics
  <2>1. /\ linked' \in BOOLEAN /\ UNCHANGED <<ring, stats, applied>>
    BY <1>1, <1>7 DEF GoOn, End, PrintLines, PrintPanics, DropRing
  <2>2. BatchCounted'
    BY <1>1, <1>7, <2>1 DEF GoOn, End, PrintLines, PrintPanics, ReaderDoes, ReaderAt,
                            BatchCounted, ReaderType
  <2> QED BY <1>1, <1>5, <1>7, <2>1, <2>2 DEF GoOn, End, PrintLines, PrintPanics
<1>8. CASE Apply
  <2>1. applied' \in 0 .. ring.tail
    BY <1>1, <1>8 DEF Apply, ReaderDoes, BatchCounted, ReaderType
  <2>2. BatchCounted'
    BY <1>1, <1>8 DEF Apply, ReaderDoes, ReaderAt, BatchCounted, ReaderType
  <2> QED BY <1>1, <1>5, <1>8, <2>1, <2>2 DEF Apply
<1>9. CASE AddConsumed
  <2>1. stats' \in StatsType /\ stats'.consumed = stats.consumed + reader.count
    BY <1>1, <1>9, MonitorAssumption DEF AddConsumed, ReaderDoes, ReaderType, StatsType
  <2>2. BatchCounted'
    BY <1>1, <1>9, <2>1 DEF AddConsumed, ReaderDoes, ReaderAt, BatchCounted, ReaderType
  <2> QED BY <1>1, <1>5, <1>9, <2>1, <2>2 DEF AddConsumed
<1> QED BY <1>2, <1>3, <1>4, <1>6, <1>7, <1>8, <1>9 DEF ReaderStep

LEMMA EndingCounts ==
  ASSUME Counts, NEW how \in {"failed", "killed"}, ProcessEnds(how)
  PROVE  Counts'
<1>1. main' \in MainType /\ DrainBounded'
  BY DEF ProcessEnds, MainGoes, Counts, Typed, MainType, DrainBounded
<1>2. reader' \in ReaderType(ring.head) /\ reader'.at \in {"ended", "panicked", "killed"}
  BY DEF ProcessEnds, Counts, Typed, ReaderType
<1>3. Typed'
  BY <1>1, <1>2 DEF ProcessEnds, Counts, Typed
<1>4. BacklogFits' /\ BatchCounted'
  BY <1>2 DEF ProcessEnds, Counts, Typed, ReaderType, BacklogFits, BatchCounted
<1> QED BY <1>1, <1>3, <1>4 DEF Counts


LEMMA NextCounts == Counts /\ [Next]_vars => Counts'
<1>1. ASSUME Counts, Failure PROVE Counts'
  BY <1>1, EndingCounts, ReaderCounts
     DEF Failure, SpawnFails, WaitFails, NoWindow, Killed, ReportPanics
<1>2. ASSUME Counts, UNCHANGED vars PROVE Counts'
  BY <1>2 DEF vars, mainSide, readerSide, Counts, Typed, DrainBounded, BacklogFits, BatchCounted
<1> QED BY <1>1, <1>2, EnvironmentCounts, MainCounts, ReaderCounts DEF Next

LEMMA CountsAlways == Spec => []Counts
<1>1. Spec => Init /\ [][Next]_vars
  BY DEF Spec
<1>2. Init => Counts
  BY InitInv DEF Inv
<1> QED BY <1>1, <1>2, NextCounts, PTL

(* Every variable keeps its type: in particular the loop of                *)
(* drain_after_exit is over in time, and no counter of RuntimeStats gets   *)
(* ahead of the ring's.                                                    *)
THEOREM MonitorTypes == Spec => []TypeOK
<1>1. Counts => TypeOK
  BY TypedIsTypeOK DEF Counts
<1> QED BY <1>1, CountsAlways, PTL

-----------------------------------------------------------------------------
(* The end of a session                                                    *)

LEMMA FreshNext ==
  ASSUME Counts, FreshLook, SessionOrder, Next
  PROVE  FreshLook'
<1>1. /\ ring \in RingType /\ reader \in ReaderType(ring.head) /\ stats \in StatsType
      /\ ring.head \in Nat /\ ring.tail \in Nat
  BY MonitorAssumption DEF Counts, Typed, RingType
<1> USE DEF FreshLook, mainSide, readerSide
<1>2. CASE Environment
  BY <1>1, <1>2 DEF Environment, Produce, TargetExits, UserStartsTarget
<1>3. CASE MainStep \/ RaiseStop("window") \/ WaiterWaits
  <2>1. UNCHANGED readerSide /\ stats'.dropped = stats.dropped
    BY <1>1, <1>3 DEF MainStep, SpawnTarget, WaitForChild, DrainLoadConsumed, DrainLoadPending,
                      RaiseStop, Join, Report, WaiterWaits, MarkTargetExit, StatsType
  <2>2. reader.fresh => target' = target
    BY <1>3 DEF MainStep, SpawnTarget, WaitForChild, DrainLoadConsumed, DrainLoadPending,
                RaiseStop, Join, Report, WaiterWaits, SessionOrder
  <2> QED BY <2>1, <2>2
<1>4. CASE ReaderStep \/ PrintPanics
  <2> USE <1>1 DEF ReaderDoes, ReaderAt, ReaderType, StatsType
  <2>1. CASE LoadHead
    <3>1. reader'.at = "copy" /\ (reader'.fresh <=> target = "exited") /\ target' = target
      BY <2>1 DEF LoadHead
    <3> QED BY <3>1
  <2>2. CASE StoreTail
    <3>1. reader'.at = "stats" /\ reader'.fresh = reader.fresh /\ target' = target
      BY <2>2 DEF StoreTail
    <3> QED BY <3>1
  <2>3. CASE LoadStats
    BY <2>3 DEF LoadStats
  <2>4. CASE UpdateRing
    BY <2>4 DEF UpdateRing
  <2>5. CASE GoOn
    BY <2>5 DEF GoOn
  <2>6. CASE End
    BY <2>6 DEF End, MayEnd
  <2>7. CASE Apply \/ AddConsumed
    BY <2>7 DEF Apply, AddConsumed
  <2>8. CASE PrintLines \/ PrintPanics
    BY <2>8 DEF PrintLines, PrintPanics
  <2> QED BY <1>4, <2>1, <2>2, <2>3, <2>4, <2>5, <2>6, <2>7, <2>8 DEF ReaderStep
<1>5. ASSUME NEW how \in {"failed", "killed"}, ProcessEnds(how) PROVE FreshLook'
  BY <1>1, <1>5 DEF ProcessEnds, ReaderType
<1> QED BY <1>2, <1>3, <1>4, <1>5
       DEF Next, Failure, SpawnFails, WaitFails, NoWindow, Killed, ReportPanics

LEMMA SessionNext ==
  ASSUME Counts, SessionOrder, Next
  PROVE  SessionOrder'
<1>1. /\ main \in MainType /\ reader \in ReaderType(ring.head) /\ stats \in StatsType
      /\ NoSummary.consumed \notin Nat
  BY DEF Counts, Typed, NoSummary
<1> USE <1>1 DEF SessionOrder, mainSide, readerSide, MainGoes, MainType
<1>2. CASE Environment
  BY <1>2 DEF Environment, Produce, TargetExits, UserStartsTarget
<1>3. CASE SpawnTarget
  BY <1>3 DEF SpawnTarget
<1>4. CASE WaitForChild
  BY <1>4 DEF WaitForChild, MarkTargetExit, StatsType
<1>5. CASE DrainLoadConsumed \/ DrainLoadPending
  <2>1. /\ main.at \in {"drain_consumed", "drain_pending"}
        /\ main'.at \in {"drain_consumed", "drain_pending", "stop"}
        /\ UNCHANGED <<mode, target, stats, summary, stop, reader, linked>>
    BY <1>5 DEF DrainLoadConsumed, DrainLoadPending
  <2>2. mode = "run" => target = "exited"
    BY <2>1
  <2> QED BY <2>1, <2>2
<1>6. CASE RaiseStop("stop") \/ RaiseStop("window")
  <2>1. /\ main.at \in {"stop", "window"} /\ main'.at = "join" /\ stop' = TRUE
        /\ UNCHANGED <<mode, target, stats, summary, reader, linked>>
    BY <1>6 DEF RaiseStop
  <2>2. CASE main.at = "stop"
    <3>1. mode = "run" => target = "exited"
      BY <2>2
    <3> QED BY <2>1, <2>2, <3>1
  <2>3. CASE main.at = "window"
    <3>1. mode # "run"
      BY <2>3
    <3> QED BY <2>1, <2>3, <3>1
  <2> QED BY <2>1, <2>2, <2>3
<1>7. CASE Join \/ Report
  BY <1>7 DEF Join, Report, ReaderGone
<1>8. CASE WaiterWaits
  BY <1>8 DEF WaiterWaits, MarkTargetExit, StatsType
<1>9. CASE ReaderStep \/ PrintPanics
  <2> USE DEF ReaderDoes, ReaderAt, ReaderType
  <2>1. CASE LoadHead \/ StoreTail \/ LoadStats
    <3>1. /\ reader.at \in {"head", "copy", "stats"}
          /\ reader'.at \in {"copy", "stats", "update"}
          /\ UNCHANGED <<mode, target, stats, summary, main, stop, linked>>
      BY <2>1 DEF LoadHead, StoreTail, LoadStats
    <3> QED BY <3>1
  <2>2. CASE UpdateRing
    BY <2>2 DEF UpdateRing, StatsType
  <2>3. CASE GoOn \/ Apply \/ PrintLines
    BY <2>3 DEF GoOn, Apply, PrintLines
  <2>4. CASE End
    BY <2>4 DEF End, MayEnd, DropRing
  <2>5. CASE AddConsumed
    BY <2>5 DEF AddConsumed
  <2>6. CASE PrintPanics
    BY <2>6 DEF PrintPanics, DropRing
  <2> QED BY <1>9, <2>1, <2>2, <2>3, <2>4, <2>5, <2>6 DEF ReaderStep
<1>10. CASE SpawnFails \/ WaitFails \/ NoWindow \/ Killed \/ ReportPanics
  BY <1>10 DEF SpawnFails, WaitFails, NoWindow, Killed, ReportPanics, ProcessEnds, ReaderType,
               Over
<1> QED BY <1>2, <1>3, <1>4, <1>5, <1>6, <1>7, <1>8, <1>9, <1>10 DEF Next, MainStep, Failure

LEMMA NextInv == Inv /\ [Next]_vars => Inv'
<1>1. ASSUME Inv, Next PROVE Inv'
  <2>1. Counts' /\ FreshLook' /\ SessionOrder'
    BY <1>1, NextCounts, FreshNext, SessionNext DEF Inv
  <2> QED BY <2>1 DEF Inv
<1>2. ASSUME Inv, UNCHANGED vars PROVE Inv'
  <2>1. Counts'
    BY <1>2, NextCounts DEF Inv
  <2>2. FreshLook' /\ SessionOrder'
    BY <1>2 DEF Inv, vars, mainSide, readerSide, FreshLook, SessionOrder
  <2> QED BY <2>1, <2>2 DEF Inv
<1> QED BY <1>1, <1>2

LEMMA InvAlways == Spec => []Inv
<1>1. Spec => Init /\ [][Next]_vars
  BY DEF Spec
<1> QED BY <1>1, InitInv, NextInv, PTL

(* The summary of an orderly session counts what the oracle was given, and *)
(* that is all the reader took from the ring.                              *)
THEOREM SummaryIsExact == Spec => []SummaryCountsApplied
<1>1. Inv => SummaryCountsApplied
  BY DEF Inv, Counts, BatchCounted, SessionOrder, SummaryCountsApplied
<1> QED BY <1>1, InvAlways, PTL

(* A reader that began a batch after the end of the target has applied     *)
(* every event and shown every drop by the time it ends.                   *)
THEOREM NothingIsMissed == Spec => []NothingMissed
<1>1. Inv => NothingMissed
  BY DEF Inv, Counts, BatchCounted, FreshLook, NothingMissed
<1> QED BY <1>1, InvAlways, PTL

(* The ring keeps its name while the reader serves it, and only so long.   *)
THEOREM NameFollowsTheReader == Spec => []NameFollowsReader
<1>1. Inv => NameFollowsReader
  BY DEF Inv, SessionOrder, NameFollowsReader
<1> QED BY <1>1, InvAlways, PTL
=============================================================================
