----------------------------- MODULE HeapOracle -----------------------------
(***************************************************************************)
(* The shadow heap of src/state.rs: what the monitor believes about every  *)
(* address it has heard of, rebuilt from the events of the target alone.   *)
(*                                                                         *)
(* `oracle` is the struct HeapOracle and `result` what the last call of    *)
(* apply_event returned.  The struct has one owner (the reader thread), so *)
(* each method is an operator from the struct, and each action is a whole  *)
(* call of apply_event.  Abstracted: stacks, timestamps, the chunk_size    *)
(* of the result.  The maps `chunks` and `bin_index` are total functions   *)
(* with a value for "no entry".                                            *)
(***************************************************************************)
EXTENDS GlibcBins, FiniteSets, SequencesExt

CONSTANTS
  Addr,              (* the addresses the target's heap hands out          *)
  Null,              (* address 0                                          *)
  Size,              (* the request sizes of the target                    *)
  TcacheFillCount,   (* TCACHE_FILL_COUNT, 7 in the program                *)
  AlertCap,          (* alerts kept by raise_alert, 128 in the program     *)
  MaxEvents          (* bound on the events applied                        *)

ASSUME HeapOracleAssumption ==
  /\ Null \notin Addr
  /\ IsFiniteSet(Addr)
  /\ Size \subseteq Usize
  /\ TcacheFillCount \in Nat
  /\ AlertCap \in Nat \ {0}
  /\ MaxEvents \in Nat

VARIABLES oracle, result

vars == <<oracle, result>>

-----------------------------------------------------------------------------
(* BinType, BinLocation, UafReason, ChunkState, ChunkRecord *)

Tcache(idx)   == [kind |-> "tcache",   idx |-> idx]
Fastbin(idx)  == [kind |-> "fastbin",  idx |-> idx]
Smallbin(idx) == [kind |-> "smallbin", idx |-> idx]
Largebin      == [kind |-> "largebin",    idx |-> 0]
Reallocated   == [kind |-> "reallocated", idx |-> 0]
NoBin         == [kind |-> "none",        idx |-> 0]

BinType ==
  [kind : {"tcache", "fastbin", "smallbin", "largebin", "reallocated"},
   idx  : 0 .. TcacheBins - 1]

(* The bins that have a list of their own. *)
BinLocation == {Tcache(i)  : i \in 0 .. TcacheBins - 1}
          \cup {Fastbin(i) : i \in 0 .. FastbinBins - 1}

UafReason == {"double-free", "invalid-free", "realloc-after-free"}

Absent      == [tag |-> "absent",    bin |-> NoBin, reason |-> "none"]
Allocated   == [tag |-> "allocated", bin |-> NoBin, reason |-> "none"]
Freed(bin)  == [tag |-> "freed",     bin |-> bin,   reason |-> "none"]
Uaf(reason) == [tag |-> "uaf",       bin |-> NoBin, reason |-> reason]

Tag == {"allocated", "freed", "uaf"}

ChunkState == {Absent, Allocated} \cup {Freed(bin)  : bin \in BinType}
                                  \cup {Uaf(reason) : reason \in UafReason}

NoChunk == [index |-> 0, size |-> 0, state |-> Absent, generation |-> 0]

ChunkRecord ==
  [index : Nat, size : Usize, state : ChunkState, generation : Nat]

Alert   == [addr : Addr, reason : UafReason]
NoAlert == [addr |-> Null, reason |-> "none"]

(* ApplyResult::default() *)
NoResult == [alert |-> NoAlert, bin |-> NoBin, chunk_index |-> -1]

NewOracle ==
  [chunks       |-> [a \in Addr |-> NoChunk],
   bins         |-> [loc \in BinLocation |-> << >>],
   bin_index    |-> [a \in Addr |-> NoBin],
   counts       |-> [t \in Tag |-> 0],
   alerts       |-> << >>,
   next_index   |-> 0,
   total_events |-> 0]

Known(o, a) == o.chunks[a].state # Absent

-----------------------------------------------------------------------------
(* The private methods *)

(* Mutant: the entry of bin_index is read, not removed. *)
RemoveFromBinsKeepsIndex(o, a) ==
  LET loc == o.bin_index[a]
  IN  IF loc = NoBin THEN o
      ELSE [o EXCEPT !.bins[loc] = RemoveFirst(@, a)]

RemoveFromBins(o, a) ==
  LET loc == o.bin_index[a]
  IN  IF loc = NoBin THEN o
      ELSE [o EXCEPT !.bin_index[a] = NoBin,
                     !.bins[loc]    = RemoveFirst(@, a)]

(* Mutants: one of the two updates is missing. *)
CountStateChangeNewOnly(o, old, new) ==
  [o EXCEPT !.counts[new.tag] = @ + 1]

CountStateChangeOldOnly(o, old, new) ==
  [o EXCEPT !.counts = [t \in Tag |-> IF t = old.tag THEN @[t] - 1 ELSE @[t]]]

CountStateChange(o, old, new) ==
  [o EXCEPT !.counts =
     [t \in Tag |-> @[t] - (IF t = old.tag THEN 1 ELSE 0)
                         + (IF t = new.tag THEN 1 ELSE 0)]]

(* Mutant: a full list drops the new alert. *)
RaiseAlertKeepsOldest(o, a, reason) ==
  IF Len(o.alerts) = AlertCap THEN o
  ELSE [o EXCEPT !.alerts = Append(@, [addr |-> a, reason |-> reason])]

RaiseAlert(o, a, reason) ==
  LET all  == Append(o.alerts, [addr |-> a, reason |-> reason])
      from == IF Len(all) > AlertCap THEN Len(all) - AlertCap + 1 ELSE 1
  IN  [o EXCEPT !.alerts = SubSeq(all, from, Len(all))]

(* Mutant: one chunk too many in the tcache. *)
ClassifyFreeBinNoFill(o, size) ==
  LET chunk == ChunkSize(size)
      idx   == SizeIndex(chunk)
  IN  IF HasTcache(chunk) /\ Len(o.bins[Tcache(idx)]) <= TcacheFillCount
        THEN Tcache(idx)
      ELSE IF HasFastbin(chunk)  THEN Fastbin(idx)
      ELSE IF chunk <= SmallMax  THEN Smallbin(idx)
      ELSE Largebin

ClassifyFreeBin(o, size) ==
  LET chunk == ChunkSize(size)
      idx   == SizeIndex(chunk)
  IN  IF HasTcache(chunk) /\ Len(o.bins[Tcache(idx)]) < TcacheFillCount
        THEN Tcache(idx)
      ELSE IF HasFastbin(chunk)  THEN Fastbin(idx)
      ELSE IF chunk <= SmallMax  THEN Smallbin(idx)
      ELSE Largebin

PushBin(o, a, bin) ==
  IF bin \in BinLocation
  THEN [o EXCEPT !.bins[bin] = Append(@, a), !.bin_index[a] = bin]
  ELSE o

(* count_state_change, then the record's new state: the code does the two  *)
(* together in every arm that keeps the record.                            *)
ChangeState(o, a, new) ==
  [CountStateChange(o, o.chunks[a].state, new) EXCEPT !.chunks[a].state = new]

(* count_state_change, then chunks.insert of a record with the next index. *)
InsertRecord(o, a, size, new, generation) ==
  [CountStateChange(o, o.chunks[a].state, new) EXCEPT
     !.chunks[a]  = [index |-> o.next_index, size |-> size,
                     state |-> new, generation |-> generation],
     !.next_index = @ + 1]

-----------------------------------------------------------------------------
(* apply_alloc, apply_free, apply_realloc: the struct and the result after *)
(* the call.                                                               *)

Outcome(o, r) == [oracle |-> o, result |-> r]

(* Mutant: a reused address is left in the bin it was freed into. *)
ApplyAllocKeepsBin(o, a, size) ==
  IF a = Null THEN Outcome(o, NoResult)
  ELSE LET generation == IF Known(o, a) THEN o.chunks[a].generation + 1 ELSE 0
       IN  Outcome(InsertRecord(o, a, size, Allocated, generation),
                   [NoResult EXCEPT !.chunk_index = o.next_index])

ApplyAlloc(o, a, size) ==
  IF a = Null THEN Outcome(o, NoResult)
  ELSE LET clean == RemoveFromBins(o, a)
           generation == IF Known(o, a) THEN o.chunks[a].generation + 1 ELSE 0
       IN  Outcome(InsertRecord(clean, a, size, Allocated, generation),
                   [NoResult EXCEPT !.chunk_index = o.next_index])

(* Mutant: the record of a freed block is thrown away. *)
FreeLiveForgets(o, a) ==
  LET bin == ClassifyFreeBin(o, o.chunks[a].size)
  IN  Outcome([PushBin(o, a, bin) EXCEPT !.chunks[a] = NoChunk],
              [NoResult EXCEPT !.bin = bin,
                               !.chunk_index = o.chunks[a].index])

FreeLive(o, a) ==
  LET bin == ClassifyFreeBin(o, o.chunks[a].size)
  IN  Outcome(PushBin(ChangeState(o, a, Freed(bin)), a, bin),
              [NoResult EXCEPT !.bin = bin,
                               !.chunk_index = o.chunks[a].index])

FreeAgain(o, a) ==
  Outcome(ChangeState(RaiseAlert(o, a, "double-free"), a, Uaf("double-free")),
          [NoResult EXCEPT !.alert = [addr |-> a, reason |-> "double-free"],
                           !.chunk_index = o.chunks[a].index])

FreeUnknown(o, a) ==
  Outcome(InsertRecord(RaiseAlert(o, a, "invalid-free"),
                       a, 0, Uaf("invalid-free"), 0),
          [NoResult EXCEPT !.alert = [addr |-> a, reason |-> "invalid-free"],
                           !.chunk_index = o.next_index])

(* Mutant: a misused chunk is treated as one never heard of. *)
ApplyFreeForgetsMisuse(o, a) ==
  IF a = Null THEN Outcome(o, NoResult)
  ELSE LET clean == RemoveFromBins(o, a)
       IN  CASE o.chunks[a].state.tag = "freed" -> FreeAgain(clean, a)
             [] o.chunks[a].state = Allocated   -> FreeLive(clean, a)
             [] OTHER                           -> FreeUnknown(clean, a)

ApplyFree(o, a) ==
  IF a = Null THEN Outcome(o, NoResult)
  ELSE LET clean == RemoveFromBins(o, a)
       IN  IF ~ Known(o, a)                    THEN FreeUnknown(clean, a)
           ELSE IF o.chunks[a].state = Allocated THEN FreeLive(clean, a)
           ELSE FreeAgain(clean, a)

(* The arms of apply_realloc over the state of the old address. *)
ReleaseOld(o, a) ==
  IF ~ Known(o, a)
    THEN o
  ELSE IF o.chunks[a].state = Allocated
    THEN ChangeState(o, a, Freed(Reallocated))
  ELSE ChangeState(RaiseAlert(o, a, "realloc-after-free"),
                   a, Uaf("realloc-after-free"))

ReallocAlert(o, a) ==
  IF Known(o, a) /\ o.chunks[a].state # Allocated
  THEN [addr |-> a, reason |-> "realloc-after-free"]
  ELSE NoAlert

(* Mutants: the old address stays in its bin; the alert of the old address *)
(* is overwritten by the outcome of apply_alloc.                           *)
MovedKeepsBin(o, old, new, size) ==
  LET alloc == ApplyAlloc(ReleaseOld(o, old), new, size)
  IN  Outcome(alloc.oracle,
              [alloc.result EXCEPT !.alert = ReallocAlert(o, old)])

MovedLosesAlert(o, old, new, size) ==
  ApplyAlloc(ReleaseOld(RemoveFromBins(o, old), old), new, size)

(* apply_realloc past its early returns. *)
Moved(o, old, new, size) ==
  LET released == ReleaseOld(RemoveFromBins(o, old), old)
      alloc    == ApplyAlloc(released, new, size)
  IN  Outcome(alloc.oracle,
              [alloc.result EXCEPT !.alert = ReallocAlert(o, old)])

(* Mutant: a failed realloc still releases the block. *)
ApplyReallocIgnoresFailure(o, old, new, size) ==
  IF old = Null    THEN ApplyAlloc(o, new, size)
  ELSE IF size = 0 THEN ApplyFree(o, old)
  ELSE Moved(o, old, new, size)

ApplyRealloc(o, old, new, size) ==
  IF old = Null      THEN ApplyAlloc(o, new, size)
  ELSE IF size = 0   THEN ApplyFree(o, old)
  ELSE IF new = Null THEN Outcome(o, NoResult)
  ELSE Moved(o, old, new, size)

-----------------------------------------------------------------------------
(* apply_event, one action per kind of event.  Alloc stands for malloc,    *)
(* calloc and the aligned allocations, which share one arm; an address is  *)
(* Null when the target's call failed or freed nothing.                    *)

AddrOrNull == Addr \cup {Null}

Applied(outcome) ==
  /\ oracle.total_events < MaxEvents
  /\ oracle' = [outcome.oracle EXCEPT !.total_events = @ + 1]
  /\ result' = outcome.result

Alloc(a, size) == Applied(ApplyAlloc(oracle, a, size))

Free(a) == Applied(ApplyFree(oracle, a))

Realloc(old, new, size) == Applied(ApplyRealloc(oracle, old, new, size))

Invalid == Applied(Outcome(oracle, NoResult))

Init == oracle = NewOracle /\ result = NoResult

Next ==
  \/ \E a \in AddrOrNull, size \in Size : Alloc(a, size)
  \/ \E a \in AddrOrNull : Free(a)
  \/ \E old, new \in AddrOrNull, size \in Size : Realloc(old, new, size)
  \/ Invalid

Spec == Init /\ [][Next]_vars

-----------------------------------------------------------------------------
(* Invariants *)

TypeOK ==
  /\ oracle.chunks \in [Addr -> ChunkRecord]
  /\ oracle.bins \in [BinLocation -> Seq(Addr)]
  /\ oracle.bin_index \in [Addr -> BinLocation \cup {NoBin}]
  /\ oracle.counts \in [Tag -> Nat]
  /\ oracle.alerts \in Seq(Alert)
  /\ oracle.next_index \in Nat
  /\ oracle.total_events \in Nat
  /\ result.alert \in Alert \cup {NoAlert}

(* An address is in the list of a bin exactly when its chunk was freed     *)
(* into that bin, and once only: what print_heap_state shows under a bin   *)
(* (main.rs:440-470) is what the chunk table says.  No path may leave a    *)
(* reused, misused or reallocated address behind in a bin.                 *)
BinsMirrorState ==
  \A loc \in BinLocation :
    /\ \A a \in Addr : a \in ToSet(oracle.bins[loc])
                         <=> oracle.chunks[a].state = Freed(loc)
    /\ IsInjective(oracle.bins[loc])

(* bin_index, the shortcut remove_from_bins relies on, points at the bin   *)
(* that really lists the address, and names no bin for an unlisted one.    *)
BinIndexAgrees ==
  \A a \in Addr :
    IF oracle.bin_index[a] = NoBin
    THEN \A loc \in BinLocation : a \notin ToSet(oracle.bins[loc])
    ELSE a \in ToSet(oracle.bins[oracle.bin_index[a]])

(* No tcache bin ever holds more than TCACHE_FILL_COUNT chunks, although   *)
(* the test in classify_free_bin and the push are two calls.               *)
TcacheBounded ==
  \A i \in 0 .. TcacheBins - 1 : Len(oracle.bins[Tcache(i)]) <= TcacheFillCount

(* The incremental counters of count_state_change are the numbers of       *)
(* chunks in each state, so summary() tells the truth and the subtraction  *)
(* on usize never underflows.                                              *)
CountsMatch ==
  \A t \in Tag :
    oracle.counts[t] = Cardinality({a \in Addr : oracle.chunks[a].state.tag = t})

(* A bin lists chunks of one size, the size print_heap_state derives from  *)
(* the bin's index: a chunk keeps its size for as long as it is listed.    *)
BinHoldsOneSize ==
  \A loc \in BinLocation : \A a \in ToSet(oracle.bins[loc]) :
    ChunkSize(oracle.chunks[a].size) = (loc.idx + 2) * 16

(* The alert list explains every misused chunk: the newest entry about it  *)
(* gives the reason the chunk table shows, and an entry is missing only    *)
(* once the list is full and older ones were dropped.                      *)
AlertsExplainUaf ==
  LET About(a) == {i \in DOMAIN oracle.alerts : oracle.alerts[i].addr = a}
      Newest(a) == CHOOSE i \in About(a) : \A j \in About(a) : j <= i
  IN  \A a \in Addr : oracle.chunks[a].state.tag = "uaf" =>
        IF About(a) = {} THEN Len(oracle.alerts) = AlertCap
        ELSE oracle.chunks[a].state = Uaf(oracle.alerts[Newest(a)].reason)

-----------------------------------------------------------------------------
(* Action properties *)

Rank(state) == CASE state.tag = "absent"    -> 0
                 [] state.tag = "allocated" -> 1
                 [] state.tag = "freed"     -> 2
                 [] state.tag = "uaf"       -> 3

(* Within one life, named by the chunk index, a chunk only moves from      *)
(* allocated to freed to misused and keeps its size; a new life of a known *)
(* address is an allocation with a fresh index and the next generation.    *)
LifeCycle ==
  [][\A a \in Addr :
       LET old == oracle.chunks[a]
           new == oracle'.chunks[a]
       IN  IF ~ Known(oracle, a) \/ new.index = old.index
           THEN /\ Rank(new.state) >= Rank(old.state)
                /\ Known(oracle, a) => /\ new.generation = old.generation
                                       /\ new.size = old.size
           ELSE /\ new.state = Allocated
                /\ new.generation = old.generation + 1
                /\ new.index >= oracle.next_index]_vars

(* A call raises the alert it returns and no other: an event of the target *)
(* leads to at most one new entry, at the end of the list, and the chunk   *)
(* it blames was freed or unknown before the event, never allocated.       *)
AlertsAreJustified ==
  [][IF result'.alert = NoAlert
     THEN oracle'.alerts = oracle.alerts
     ELSE /\ oracle'.alerts # << >>
          /\ Last(oracle'.alerts) = result'.alert
          /\ Front(oracle'.alerts) \in
               {oracle.alerts, IF oracle.alerts = << >> THEN << >>
                               ELSE Tail(oracle.alerts)}
          /\ oracle.chunks[result'.alert.addr].state # Allocated]_vars

-----------------------------------------------------------------------------
(* Refinement: the automaton of an address, read off the chunk table, and  *)
(* the verdict of the last call.                                           *)

StatusOf(o, a) ==
  LET tag == o.chunks[a].state.tag
  IN  CASE tag = "absent"    -> "unknown"
        [] tag = "allocated" -> "live"
        [] tag = "freed"     -> "dead"
        [] tag = "uaf"       -> "misused"

VerdictOf(r) == IF r.alert = NoAlert THEN "fine" ELSE r.alert.reason

Shadow == INSTANCE ShadowHeap WITH
            status  <- [a \in Addr |-> StatusOf(oracle, a)],
            verdict <- VerdictOf(result)

(* Every call of apply_event is a step of the per-address automata: bins,  *)
(* counters and the bounded alert list never change a verdict.             *)
RefinesShadowHeap == Shadow!Spec
=============================================================================
