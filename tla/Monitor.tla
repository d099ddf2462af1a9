------------------------------- MODULE Monitor -------------------------------
(***************************************************************************)
(* The threads of the monitor and how a session ends: run,                 *)
(* run_target_mode, run_monitor_mode, spawn_reader_thread, wait_for_child  *)
(* and drain_after_exit of src/main.rs.                                    *)
(*                                                                         *)
(* The reader thread moves events from the ring to the oracle and mirrors  *)
(* the ring's counters in RuntimeStats; the main thread waits for the      *)
(* target (or for the window to be closed), drains, raises `stop` and      *)
(* joins the reader.  The two share only the atomics of RuntimeStats and   *)
(* `stop`: one action per access to them, or to the ring.                  *)
(*                                                                         *)
(* The ring is what RingBuffer shows it to be for one process: the events  *)
(* between tail and head.  Only their number matters here.                 *)
(***************************************************************************)
EXTENDS Integers, FiniteSetsExt

CONSTANTS
  Cap,            (* HO_RING_CAPACITY                                      *)
  BatchLimit,     (* READER_BATCH_SIZE                                     *)
  DrainTries,     (* 50 looks in drain_after_exit, at most                 *)
  DrainStable,    (* 3 quiet ones in a row end it                          *)
  Modes,          (* "run" and "monitor" are the two modes with --no-ui,   *)
                  (* "run_ui" and "monitor_ui" the same with the window    *)
  MaxEvents       (* bound on the events of the target                     *)

ASSUME MonitorAssumption ==
  /\ Cap \in Nat \ {0} /\ BatchLimit \in Nat \ {0}
  /\ DrainTries \in Nat \ {0} /\ DrainStable \in Nat \ {0}
  /\ Modes \subseteq {"run", "run_ui", "monitor", "monitor_ui"}
  /\ MaxEvents \in Nat

VARIABLES
  mode,
  target,           (* the process that is traced                          *)
  ring,             (* its counters: head, tail, dropped                   *)
  linked,           (* the ring has a name in the file system              *)
  stop,             (* the AtomicBool                                      *)
  stats,            (* RuntimeStats                                        *)
  main,             (* the main thread: where it is, and the locals of     *)
                    (* drain_after_exit.  In "monitor" it is at "watch",   *)
                    (* the loop `while !stop`, for good: nothing else      *)
                    (* raises stop there                                   *)
  waiter,           (* the thread that waits for the child when the main   *)
                    (* thread runs the window                              *)
  summary,          (* what print_summary wrote                            *)
  reader,           (* the reader thread: where it is, head and count of   *)
                    (* its batch, and the ring_stats it has seen; fresh is *)
                    (* history: it began the batch after the target's end  *)
  applied           (* events given to the oracle                          *)

mainSide   == <<main, waiter, summary, stop>>
readerSide == <<reader, ring, linked, applied>>
vars       == <<mode, target, stats, mainSide, readerSide>>

NoSummary == [consumed |-> -1, dropped |-> -1]

Over == main.at \in {"done", "failed", "killed"}

-----------------------------------------------------------------------------
(* The target *)

Produce ==
  /\ target = "running" /\ ring.head + ring.dropped < MaxEvents
  /\ ring' = IF ring.head - ring.tail >= Cap THEN [ring EXCEPT !.dropped = @ + 1]
                                             ELSE [ring EXCEPT !.head = @ + 1]
  /\ UNCHANGED <<mode, target, stats, mainSide, reader, linked, applied>>

TargetExits ==
  /\ target = "running"
  /\ target' = "exited"
  /\ UNCHANGED <<mode, stats, mainSide, readerSide>>

(* Under `monitor` the user starts the target, with the name of the ring   *)
(* in its environment, while the ring is there.                            *)
UserStartsTarget ==
  /\ mode \in {"monitor", "monitor_ui"} /\ target = "none" /\ linked
  /\ target' = "running"
  /\ UNCHANGED <<mode, stats, mainSide, readerSide>>

-----------------------------------------------------------------------------
(* The main thread *)

MainGoes(place) == main' = [main EXCEPT !.at = place]

(* The process ends, the reader with it, and no destructor runs.           *)
ProcessEnds(how) ==
  /\ MainGoes(how)
  /\ reader' = IF reader.at \in {"ended", "panicked"} THEN reader
               ELSE [reader EXCEPT !.at = "killed"]
  /\ UNCHANGED <<mode, target, stats, waiter, summary, stop, ring, linked, applied>>

(* `run` has made the ring and started the reader before this. *)
SpawnTarget ==
  /\ main.at = "spawn"
  /\ target' = "running"
  /\ IF mode = "run" THEN MainGoes("wait") /\ UNCHANGED waiter
     ELSE MainGoes("window") /\ waiter' = "waiting"
  /\ UNCHANGED <<mode, stats, summary, stop, readerSide>>

(* An error that reaches main ends the process.                            *)
SpawnFails == main.at = "spawn" /\ ProcessEnds("failed")
WaitFails  == main.at = "wait"  /\ ProcessEnds("failed")

(* A build without the window: the target runs on, the monitor is over.    *)
NoWindow == main.at = "window" /\ ProcessEnds("failed")

(* Ctrl-C, or any signal: nothing handles it. *)
Killed == ~ Over /\ ProcessEnds("killed")

(* wait_for_child *)
MarkTargetExit == stats' = [stats EXCEPT !.exited = TRUE]

WaitForChild ==
  /\ main.at = "wait" /\ target = "exited"
  /\ MarkTargetExit
  /\ main' = [main EXCEPT !.at = "drain_consumed", !.last = stats.consumed]
  /\ UNCHANGED <<mode, target, waiter, summary, stop, readerSide>>

WaiterWaits ==
  /\ waiter = "waiting" /\ target = "exited" /\ ~ Over
  /\ MarkTargetExit
  /\ waiter' = "none"
  /\ UNCHANGED <<mode, target, main, summary, stop, readerSide>>

(* One turn of drain_after_exit: snapshot loads consumed, then pending.    *)
DrainLoadConsumed ==
  /\ main.at = "drain_consumed"
  /\ main' = [main EXCEPT !.at = "drain_pending", !.consumed = stats.consumed]
  /\ UNCHANGED <<mode, target, stats, waiter, summary, stop, readerSide>>

(* Mutant: one look more than the loop has. *)
LastLookLate(tries) == tries = DrainTries

LastLook(tries) == tries + 1 = DrainTries

DrainLoadPending ==
  LET idle   == stats.pending = 0 /\ main.consumed = main.last
      stable == IF idle THEN main.stable + 1 ELSE 0
      over   == stable >= DrainStable \/ LastLook(main.tries)
  IN  /\ main.at = "drain_pending"
      /\ main' = [main EXCEPT !.at = IF over THEN "stop" ELSE "drain_consumed",
                              !.stable = stable, !.tries = @ + 1, !.last = main.consumed]
      /\ UNCHANGED <<mode, target, stats, waiter, summary, stop, readerSide>>

(* After the drain; or the window is closed, and OracleApp dropped.        *)
RaiseStop(place) ==
  /\ main.at = place
  /\ stop' = TRUE
  /\ MainGoes("join")
  /\ UNCHANGED <<mode, target, stats, waiter, summary, readerSide>>

(* Mutant: the reader is not waited for.                                   *)
ReaderGoneAssumed == TRUE

(* reader.join returns also when the thread panicked.                      *)
ReaderGone == reader.at \in {"ended", "panicked"}

Join ==
  /\ main.at = "join" /\ ReaderGone
  /\ MainGoes(IF mode = "run" THEN "report" ELSE "done")
  /\ UNCHANGED <<mode, target, stats, waiter, summary, stop, readerSide>>

(* print_heap_state, and print_summary.                                    *)
Report ==
  /\ main.at = "report"
  /\ summary' = [consumed |-> stats.consumed, dropped |-> stats.dropped]
  /\ MainGoes("done")
  /\ UNCHANGED <<mode, target, stats, waiter, stop, readerSide>>

(* println! in print_heap_state panics as it does in the reader: there is  *)
(* no summary then.  It need not when the reader's has: a failure to write *)
(* may pass (a full disk), and for no chunks at all nothing is printed.    *)
ReportPanics == main.at = "report" /\ ProcessEnds("failed")

-----------------------------------------------------------------------------
(* The reader thread *)

(* A step that touches the reader's own variables.                        *)
ReaderDoes(from, r) ==
  /\ reader.at = from
  /\ reader' = r
  /\ UNCHANGED <<mode, target, mainSide>>

ReaderAt(place) == [reader EXCEPT !.at = place]

LoadHead ==
  /\ ReaderDoes("head", [ReaderAt("copy") EXCEPT !.head = ring.head,
                                                 !.fresh = (target = "exited")])
  /\ UNCHANGED <<stats, ring, linked, applied>>

(* Mutant: a batch cut short by the limit skips the rest. *)
BatchEndSkips(n) == reader.head

BatchEnd(n) == ring.tail + n

StoreTail ==
  LET n == Min({reader.head - ring.tail, BatchLimit})
  IN  /\ ReaderDoes("copy", [ReaderAt("stats") EXCEPT !.count = n])
      /\ ring' = [ring EXCEPT !.tail = BatchEnd(n)]
      /\ UNCHANGED <<stats, linked, applied>>

(* SharedRing::stats *)
LoadStats ==
  /\ ReaderDoes("stats", [ReaderAt("update") EXCEPT !.pending = ring.head - ring.tail,
                                                    !.dropped = ring.dropped])
  /\ UNCHANGED <<stats, ring, linked, applied>>

(* Mutant: `stop` is looked at before the batch is. *)
NothingToApplyOrStop == reader.count = 0 \/ stop

NothingToApply == reader.count = 0

UpdateRing ==
  /\ ReaderDoes("update", ReaderAt(IF NothingToApply THEN "decide" ELSE "apply"))
  /\ stats' = [stats EXCEPT !.pending = reader.pending, !.dropped = reader.dropped]
  /\ UNCHANGED <<ring, linked, applied>>

(* An empty batch: the thread sleeps, or it ends.                          *)
(* Mutant: it goes on when events were dropped.                            *)
MayEndUnlessDropped == stop /\ reader.pending = 0 /\ reader.dropped = 0

MayEnd == stop /\ reader.pending = 0

GoOn ==
  /\ ~ MayEnd /\ ReaderDoes("decide", ReaderAt("head"))
  /\ UNCHANGED <<stats, ring, linked, applied>>

(* Mutant: the ring outlives the thread that owns it. *)
DropRingNot == UNCHANGED linked

(* The thread is over and drops the ring it owns.                          *)
DropRing == linked' = FALSE

End ==
  /\ MayEnd /\ ReaderDoes("decide", ReaderAt("ended")) /\ DropRing
  /\ UNCHANGED <<stats, ring, applied>>

Apply ==
  /\ ReaderDoes("apply", ReaderAt("consume"))
  /\ applied' = applied + reader.count
  /\ UNCHANGED <<stats, ring, linked>>

AddConsumed ==
  /\ ReaderDoes("consume", ReaderAt(IF mode \in {"run", "monitor"} THEN "print" ELSE "head"))
  /\ stats' = [stats EXCEPT !.consumed = @ + reader.count]
  /\ UNCHANGED <<ring, linked, applied>>

PrintLines ==
  /\ ReaderDoes("print", ReaderAt("head"))
  /\ UNCHANGED <<stats, ring, linked, applied>>

(* println! panics when its output is closed; unwinding drops the ring.    *)
PrintPanics ==
  /\ ReaderDoes("print", ReaderAt("panicked")) /\ DropRing
  /\ UNCHANGED <<stats, ring, applied>>

-----------------------------------------------------------------------------
(* `run` makes the ring and starts the reader before anything else.        *)
Init ==
  /\ mode \in Modes
  /\ main = [at |-> CASE mode \in {"run", "run_ui"} -> "spawn"
                     [] mode = "monitor"           -> "watch"
                     [] mode = "monitor_ui"        -> "window",
             tries |-> 0, stable |-> 0, last |-> 0, consumed |-> 0]
  /\ waiter = "none" /\ target = "none" /\ summary = NoSummary
  /\ ring = [head |-> 0, tail |-> 0, dropped |-> 0]
  /\ linked = TRUE /\ stop = FALSE
  /\ stats = [consumed |-> 0, pending |-> 0, dropped |-> 0, exited |-> FALSE]
  /\ reader = [at |-> "head", head |-> 0, count |-> 0, pending |-> 0, dropped |-> 0,
               fresh |-> FALSE]
  /\ applied = 0

Environment == Produce \/ TargetExits \/ UserStartsTarget

MainStep ==
  \/ SpawnTarget \/ WaitForChild
  \/ DrainLoadConsumed \/ DrainLoadPending \/ RaiseStop("stop")
  \/ Join \/ Report

ReaderStep ==
  \/ LoadHead \/ StoreTail \/ LoadStats \/ UpdateRing \/ GoOn \/ End
  \/ Apply \/ AddConsumed \/ PrintLines

Failure ==
  SpawnFails \/ WaitFails \/ NoWindow \/ Killed \/ PrintPanics \/ ReportPanics

Next ==
  \/ Environment \/ RaiseStop("window")
  \/ MainStep \/ WaiterWaits \/ ReaderStep \/ Failure

(* The threads of the monitor are scheduled, and every sleep ends.         *)
(* Nothing obliges the target to allocate or to exit, the user to close    *)
(* the window, or anything to fail.                                        *)
Fairness == WF_vars(MainStep) /\ WF_vars(ReaderStep) /\ WF_vars(WaiterWaits)

Spec == Init /\ [][Next]_vars /\ Fairness

-----------------------------------------------------------------------------
(* Invariants *)

TypeOK ==
  /\ mode \in Modes
  /\ main \in [at : {"spawn", "wait", "window", "watch", "drain_consumed",
                     "drain_pending", "stop", "join", "report", "done", "failed", "killed"},
               tries : 0 .. DrainTries, stable : 0 .. DrainStable, last : Nat,
               consumed : Nat]
  /\ waiter \in {"none", "waiting"}
  /\ target \in {"none", "running", "exited"}
  /\ ring \in [head : 0 .. MaxEvents, tail : 0 .. ring.head, dropped : 0 .. MaxEvents]
  /\ linked \in BOOLEAN /\ stop \in BOOLEAN
  /\ stats \in [consumed : Nat, pending : 0 .. Cap, dropped : Nat, exited : BOOLEAN]
  /\ reader \in [at : {"head", "copy", "stats", "update", "decide", "apply", "consume",
                       "print", "ended", "panicked", "killed"},
                 head : 0 .. ring.head, count : 0 .. BatchLimit, pending : 0 .. Cap,
                 dropped : Nat, fresh : BOOLEAN]
  /\ applied \in 0 .. ring.tail
  /\ summary = NoSummary \/ summary \in [consumed : Nat, dropped : Nat]

(* A summary that is written counts exactly the events that the reader     *)
(* took from the ring and the oracle was given, whatever the timing of     *)
(* `stop` and of the last batch, and whether the reader ended or panicked. *)
SummaryCountsApplied ==
  (summary # NoSummary) => summary.consumed = ring.tail /\ applied = ring.tail

(* Nothing that the target published, and no count of what was dropped, is *)
(* missed by a reader that looked at the ring once more after the end of   *)
(* the target.  (The drain gives it the time to; what makes it look before *)
(* it ends is the order of its tests.)                                     *)
NothingMissed ==
  (reader.at = "ended" /\ reader.fresh)
    => applied = ring.head /\ stats.consumed = ring.head /\ stats.dropped = ring.dropped

(* The ring has its name, by which processes of the target open it, for as *)
(* long as the reader serves it, and no longer once the monitor has ended  *)
(* by itself.  A run does not take it from a living target unless the      *)
(* reader panicked.                                                        *)
NameFollowsReader ==
  /\ main.at = "done" => ~ linked
  /\ reader.at \notin {"ended", "panicked", "killed"} => linked
  /\ (mode = "run" /\ target = "running" /\ ~ linked) => reader.at = "panicked"

-----------------------------------------------------------------------------
(* Liveness *)

(* A session whose target has exited ends: after the drain of a run, or    *)
(* after the window was closed, the reader finds the ring empty and the    *)
(* join returns.                                                           *)
SessionEnds ==
  /\ (mode = "run" /\ target = "exited") ~> Over
  /\ (stop /\ target = "exited") ~> Over

(* Every event in the ring reaches the oracle unless the reader is gone.   *)
EventsReachOracle ==
  \A n \in 1 .. MaxEvents :
    (ring.head >= n) ~> (applied >= n \/ reader.at \in {"ended", "panicked", "killed"})
=============================================================================
