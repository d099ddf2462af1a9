--------------------------- MODULE PipelineProofs ---------------------------
(***************************************************************************)
(* Proofs about Pipeline: what the alerts and the shadow heap of the       *)
(* monitor have to do with the heaps of the target.                        *)
(*                                                                         *)
(* The inductive invariant is Inv, at the end.  Base has the types, the    *)
(* steps each call has left, who owns each live block, that an address     *)
(* that is not blurred has one owner, and the shape of the oracle.  Told   *)
(* says that the events of the ring make sense to the oracle, address by   *)
(* address: h, the history of what it will believe of the address after    *)
(* each event, ends with what the heap, and the calls not yet published,   *)
(* say of it.  Betrayed says where the second release of a misused block   *)
(* is, when no alert reports it yet.                                       *)
(***************************************************************************)
EXTENDS Pipeline, SequenceTheorems, TLAPS

-----------------------------------------------------------------------------
(* What an event does to the oracle                                        *)

Blocks == Addr \cup {Null}

(* What the proofs need to know of the struct of the oracle.               *)
IsChunk(c) ==
  /\ c = [index |-> c.index, size |-> c.size, state |-> c.state, generation |-> c.generation]
  /\ \/ c.state = Oracle!Absent
     \/ c.state = Oracle!Allocated
     \/ c.state.tag \in {"freed", "uaf"}

Alarm == [addr : Addr, reason : Oracle!UafReason]

IsOracle(o) ==
  /\ o = [chunks |-> o.chunks, bins |-> o.bins, bin_index |-> o.bin_index,
          counts |-> o.counts, alerts |-> o.alerts, next_index |-> o.next_index,
          total_events |-> o.total_events]
  /\ DOMAIN o.chunks = Addr
  /\ \A a \in Addr : IsChunk(o.chunks[a])
  /\ o.alerts \in Seq(Alarm) /\ Len(o.alerts) <= AlertCap

(* The chunks of q are those of o but for the state of a, and its alerts   *)
(* those of o.                                                             *)
OnlyState(o, q, a, state) ==
  /\ IsOracle(q)
  /\ q.chunks[a].state = state
  /\ \A b \in Addr \ {a} : q.chunks[b].state = o.chunks[b].state

Same(o, q) ==
  /\ IsOracle(q)
  /\ q.chunks = o.chunks
  /\ q.alerts = o.alerts

(* One alert more, about a; of a full list the oldest is dropped.          *)
OneMore(s, t, a, reason) ==
  /\ t \in Seq(Alarm) /\ Len(t) <= AlertCap
  /\ Len(s) < AlertCap => t = Append(s, [addr |-> a, reason |-> reason])
  /\ Len(s) = AlertCap => Len(t) = AlertCap
  /\ \A i \in 1 .. Len(t) : t[i].addr = a \/ \E j \in 1 .. Len(s) : t[i] = s[j]

LEMMA RemoveFromBinsSame ==
  ASSUME NEW o, IsOracle(o), NEW a
  PROVE  Same(o, Oracle!RemoveFromBins(o, a))
<1> DEFINE r   == Oracle!RemoveFromBins(o, a)
           loc == o.bin_index[a]
<1>1. CASE loc = Oracle!NoBin
  BY <1>1 DEF Oracle!RemoveFromBins, Same
<1>2. CASE loc # Oracle!NoBin
  <2>1. r = [o EXCEPT !.bin_index[a] = Oracle!NoBin, !.bins[loc] = Oracle!RemoveFirst(@, a)]
    BY <1>2 DEF Oracle!RemoveFromBins
  <2> HIDE DEF r, loc
  <2>2. /\ r.chunks = o.chunks /\ r.alerts = o.alerts
        /\ r = [chunks |-> r.chunks, bins |-> r.bins, bin_index |-> r.bin_index,
          counts |-> r.counts, alerts |-> r.alerts, next_index |-> r.next_index,
          total_events |-> r.total_events]
    BY <2>1 DEF IsOracle
  <2>3. Same(o, r)
    BY <2>2 DEF IsOracle, Same
  <2> QED BY <2>3 DEF r
<1> QED BY <1>1, <1>2

LEMMA PushBinSame ==
  ASSUME NEW o, IsOracle(o), NEW a, NEW bin
  PROVE  Same(o, Oracle!PushBin(o, a, bin))
<1> DEFINE r == Oracle!PushBin(o, a, bin)
<1>1. CASE bin \notin Oracle!BinLocation
  BY <1>1 DEF Oracle!PushBin, Same
<1>2. CASE bin \in Oracle!BinLocation
  <2>1. r = [o EXCEPT !.bins[bin] = Append(@, a), !.bin_index[a] = bin]
    BY <1>2 DEF Oracle!PushBin
  <2> HIDE DEF r
  <2>2. /\ r.chunks = o.chunks /\ r.alerts = o.alerts
        /\ r = [chunks |-> r.chunks, bins |-> r.bins, bin_index |-> r.bin_index,
          counts |-> r.counts, alerts |-> r.alerts, next_index |-> r.next_index,
          total_events |-> r.total_events]
    BY <2>1 DEF IsOracle
  <2>3. Same(o, r)
    BY <2>2 DEF IsOracle, Same
  <2> QED BY <2>3 DEF r
<1> QED BY <1>1, <1>2

LEMMA CountsSame ==
  ASSUME NEW o, IsOracle(o), NEW old, NEW new
  PROVE  Same(o, Oracle!CountStateChange(o, old, new))
<1> DEFINE r == Oracle!CountStateChange(o, old, new)
           counts == [t \in Oracle!Tag |-> o.counts[t] - (IF t = old.tag THEN 1 ELSE 0)
                                                + (IF t = new.tag THEN 1 ELSE 0)]
<1>1. r = [o EXCEPT !.counts = counts]
  BY DEF IsOracle, Oracle!CountStateChange
<1> HIDE DEF r, counts
<1>2. /\ r.chunks = o.chunks /\ r.alerts = o.alerts
      /\ r = [chunks |-> r.chunks, bins |-> r.bins, bin_index |-> r.bin_index,
              counts |-> r.counts, alerts |-> r.alerts, next_index |-> r.next_index,
              total_events |-> r.total_events]
  BY <1>1 DEF IsOracle
<1>3. Same(o, r)
  BY <1>2 DEF IsOracle, Same
<1> QED BY <1>3 DEF r

LEMMA StateChanges ==
  ASSUME NEW o, IsOracle(o), NEW a \in Addr, NEW new,
         new = Oracle!Allocated \/ new.tag \in {"freed", "uaf"}
  PROVE  /\ OnlyState(o, Oracle!ChangeState(o, a, new), a, new)
         /\ Oracle!ChangeState(o, a, new).alerts = o.alerts
<1> DEFINE c == Oracle!CountStateChange(o, o.chunks[a].state, new)
           r == Oracle!ChangeState(o, a, new)
<1>1. Same(o, c)
  BY CountsSame
<1>2. r = [c EXCEPT !.chunks[a].state = new]
  BY DEF Oracle!ChangeState
<1> HIDE DEF c, r
<1>3. IsOracle(c) /\ c.chunks = o.chunks /\ c.alerts = o.alerts
  BY <1>1 DEF Same
<1>4. r = [c EXCEPT !.chunks = [c.chunks EXCEPT ![a].state = new]]
  BY <1>2
<1>5. /\ r.chunks = [c.chunks EXCEPT ![a].state = new] /\ r.alerts = o.alerts
      /\ r = [chunks |-> r.chunks, bins |-> r.bins, bin_index |-> r.bin_index,
              counts |-> r.counts, alerts |-> r.alerts, next_index |-> r.next_index,
              total_events |-> r.total_events]
  BY <1>4, <1>3 DEF IsOracle
<1>6. /\ DOMAIN r.chunks = Addr
      /\ \A b \in Addr \ {a} : r.chunks[b] = c.chunks[b]
      /\ r.chunks[a] = [c.chunks[a] EXCEPT !.state = new]
  BY <1>5, <1>3 DEF IsOracle
<1>7. IsChunk(r.chunks[a]) /\ r.chunks[a].state = new
  BY <1>6, <1>3 DEF IsOracle, IsChunk
<1>8. IsOracle(r)
  BY <1>5, <1>6, <1>7, <1>3 DEF IsOracle
<1>9. OnlyState(o, r, a, new)
  BY <1>3, <1>6, <1>7, <1>8 DEF OnlyState
<1> QED BY <1>5, <1>9 DEF r

LEMMA RecordsInsert ==
  ASSUME NEW o, IsOracle(o), NEW a \in Addr, NEW size, NEW new, NEW generation,
         new = Oracle!Allocated \/ new.tag \in {"freed", "uaf"}
  PROVE  /\ OnlyState(o, Oracle!InsertRecord(o, a, size, new, generation), a, new)
         /\ Oracle!InsertRecord(o, a, size, new, generation).alerts = o.alerts
<1> DEFINE c == Oracle!CountStateChange(o, o.chunks[a].state, new)
           r == Oracle!InsertRecord(o, a, size, new, generation)
           k == [index |-> o.next_index, size |-> size, state |-> new,
                 generation |-> generation]
<1>1. Same(o, c)
  BY CountsSame
<1>2. r = [c EXCEPT !.chunks[a] = k, !.next_index = @ + 1]
  BY DEF Oracle!InsertRecord
<1>3. k.state = new /\ IsChunk(k)
  BY DEF IsChunk
<1> HIDE DEF c, r, k
<1>4. IsOracle(c) /\ c.chunks = o.chunks /\ c.alerts = o.alerts
  BY <1>1 DEF Same
<1>5. /\ r.chunks = [c.chunks EXCEPT ![a] = k] /\ r.alerts = o.alerts
      /\ r = [chunks |-> r.chunks, bins |-> r.bins, bin_index |-> r.bin_index,
              counts |-> r.counts, alerts |-> r.alerts, next_index |-> r.next_index,
              total_events |-> r.total_events]
  BY <1>2, <1>4 DEF IsOracle
<1>6. /\ DOMAIN r.chunks = Addr
      /\ \A b \in Addr \ {a} : r.chunks[b] = c.chunks[b]
      /\ r.chunks[a] = k
  BY <1>5, <1>4 DEF IsOracle
<1>8. IsOracle(r)
  BY <1>5, <1>6, <1>3, <1>4 DEF IsOracle
<1>9. OnlyState(o, r, a, new)
  BY <1>3, <1>4, <1>6, <1>8 DEF OnlyState
<1> QED BY <1>5, <1>9 DEF r

LEMMA RaisesOne ==
  ASSUME NEW o, IsOracle(o), NEW a \in Addr, NEW reason \in Oracle!UafReason
  PROVE  /\ IsOracle(Oracle!RaiseAlert(o, a, reason))
         /\ Oracle!RaiseAlert(o, a, reason).chunks = o.chunks
         /\ OneMore(o.alerts, Oracle!RaiseAlert(o, a, reason).alerts, a, reason)
<1> DEFINE new  == [addr |-> a, reason |-> reason]
           all  == Append(o.alerts, new)
           from == IF Len(all) > AlertCap THEN Len(all) - AlertCap + 1 ELSE 1
           kept == SubSeq(all, from, Len(all))
           r    == Oracle!RaiseAlert(o, a, reason)
<1>1. r = [o EXCEPT !.alerts = kept]
  BY DEF Oracle!RaiseAlert
<1>2. o.alerts \in Seq(Alarm) /\ Len(o.alerts) <= AlertCap /\ new \in Alarm
  BY DEF IsOracle, Alarm
<1>3. new.addr = a
  OBVIOUS
<1> HIDE DEF new
<1>4. /\ all \in Seq(Alarm) /\ Len(all) = Len(o.alerts) + 1
      /\ all[Len(all)] = new
      /\ \A i \in 1 .. Len(o.alerts) : all[i] = o.alerts[i]
      /\ Len(o.alerts) \in Nat
  BY <1>2, AppendProperties, LenProperties
<1> HIDE DEF all
<1>5. AlertCap \in Nat \ {0}
  BY PipelineAssumption
<1>6. from \in Nat /\ 1 <= from /\ from <= Len(all) + 1 /\ Len(all) - from + 1 <= AlertCap
  BY <1>2, <1>4, <1>5
<1>7. (Len(o.alerts) < AlertCap => from = 1) /\ (Len(o.alerts) = AlertCap => from = 2)
  BY <1>2, <1>4, <1>5
<1>8. /\ kept \in Seq(Alarm)
      /\ Len(kept) = Len(all) - from + 1
      /\ \A i \in 1 .. Len(kept) : kept[i] = all[from + i - 1]
  <2> HIDE DEF from
  <2>1. from \in 1 .. Len(all) + 1 /\ Len(all) \in 0 .. Len(all)
    BY <1>6, <1>4
  <2>2. /\ Len(kept) = IF from <= Len(all) THEN Len(all) - from + 1 ELSE 0
        /\ \A i \in 1 .. Len(all) - from + 1 : kept[i] = all[from + i - 1]
        /\ kept \in Seq(Alarm)
    BY <1>4, <2>1, SubSeqProperties
  <2> QED BY <2>2, <1>6, <1>4
<1>9. Len(o.alerts) < AlertCap => kept = all
  <2> SUFFICES ASSUME Len(o.alerts) < AlertCap PROVE kept = all
    OBVIOUS
  <2>1. from = 1 /\ Len(kept) = Len(all)
    BY <1>7, <1>8, <1>4
  <2>2. \A i \in 1 .. Len(kept) : kept[i] = all[i]
    BY <2>1, <1>8, <1>4
  <2> HIDE DEF kept, from
  <2> QED BY <2>1, <2>2, <1>4, <1>8, SeqEqual
<1>10. Len(kept) <= AlertCap
  BY <1>6, <1>8
<1>11. Len(o.alerts) = AlertCap => Len(kept) = AlertCap
  BY <1>7, <1>8, <1>4, <1>5
<1>12. ASSUME NEW i \in 1 .. Len(kept)
       PROVE kept[i].addr = a \/ \E j \in 1 .. Len(o.alerts) : kept[i] = o.alerts[j]
  <2> HIDE DEF kept, from
  <2>0. /\ Len(kept) = Len(all) - from + 1 /\ kept[i] = all[from + i - 1]
        /\ from \in Nat /\ 1 <= from /\ Len(all) \in Nat
        /\ Len(all) = Len(o.alerts) + 1 /\ Len(o.alerts) \in Nat
    BY <1>8, <1>6, <1>4
  <2>1. kept[i] = all[from + i - 1] /\ from + i - 1 \in 1 .. Len(all)
    BY <2>0
  <2>2. CASE from + i - 1 = Len(all)
    BY <2>1, <2>2, <1>3, <1>4
  <2>3. CASE from + i - 1 # Len(all)
    <3>1. from + i - 1 \in 1 .. Len(o.alerts)
      BY <2>0, <2>1, <2>3
    <3> QED BY <3>1, <2>1, <1>4
  <2> QED BY <2>2, <2>3
<1> HIDE DEF kept, from
<1>13. OneMore(o.alerts, kept, a, reason)
  BY <1>8, <1>9, <1>10, <1>11, <1>12 DEF OneMore, all, new
<1>14. /\ r.chunks = o.chunks /\ r.alerts = kept
       /\ r = [chunks |-> r.chunks, bins |-> r.bins, bin_index |-> r.bin_index,
              counts |-> r.counts, alerts |-> r.alerts, next_index |-> r.next_index,
              total_events |-> r.total_events]
  BY <1>1 DEF IsOracle
<1> HIDE DEF r
<1>15. IsOracle(r)
  BY <1>14, <1>8, <1>10 DEF IsOracle
<1> QED BY <1>13, <1>14, <1>15 DEF r

-----------------------------------------------------------------------------
Thinks(o, a) ==
  CASE o.chunks[a].state.tag = "absent"    -> "unknown"
    [] o.chunks[a].state.tag = "allocated" -> "live"
    [] OTHER                               -> "gone"

Rethinks(o, q, a, belief) ==
  /\ IsOracle(q)
  /\ Thinks(q, a) = belief
  /\ \A b \in Addr \ {a} : Thinks(q, b) = Thinks(o, b)

LEMMA Thoughts ==
  ASSUME NEW o, IsOracle(o), NEW a \in Addr
  PROVE  /\ Thinks(o, a) \in {"unknown", "live", "gone"}
         /\ Thinks(o, a) = "unknown" <=> ~ Oracle!Known(o, a)
         /\ Thinks(o, a) = "live" <=> o.chunks[a].state = Oracle!Allocated
<1> DEFINE s == o.chunks[a].state
<1>1. s = Oracle!Absent \/ s = Oracle!Allocated \/ s.tag \in {"freed", "uaf"}
  BY DEF IsOracle, IsChunk
<1> QED BY <1>1 DEF Thinks, Oracle!Known, Oracle!Absent, Oracle!Allocated

LEMMA StatesThought ==
  ASSUME NEW o, NEW q, NEW a \in Addr, NEW new, OnlyState(o, q, a, new)
  PROVE  /\ new = Oracle!Allocated => Rethinks(o, q, a, "live")
         /\ new.tag \in {"freed", "uaf"} => Rethinks(o, q, a, "gone")
  BY DEF OnlyState, Rethinks, Thinks, Oracle!Allocated

LEMMA AllocSays ==
  ASSUME NEW o, IsOracle(o), NEW a \in Addr, NEW size
  PROVE  /\ Rethinks(o, Oracle!ApplyAlloc(o, a, size).oracle, a, "live")
         /\ Oracle!ApplyAlloc(o, a, size).oracle.alerts = o.alerts
<1> DEFINE clean == Oracle!RemoveFromBins(o, a)
           generation == IF Oracle!Known(o, a) THEN o.chunks[a].generation + 1 ELSE 0
           q == Oracle!InsertRecord(clean, a, size, Oracle!Allocated, generation)
<1>1. Oracle!ApplyAlloc(o, a, size).oracle = q
  BY PipelineAssumption DEF Oracle!ApplyAlloc, Oracle!Outcome
<1>2. IsOracle(clean) /\ clean.chunks = o.chunks /\ clean.alerts = o.alerts
  BY RemoveFromBinsSame DEF Same
<1> HIDE DEF clean, generation
<1>3. OnlyState(clean, q, a, Oracle!Allocated) /\ q.alerts = clean.alerts
  BY <1>2, RecordsInsert
<1> HIDE DEF q
<1>4. OnlyState(o, q, a, Oracle!Allocated) /\ q.alerts = o.alerts
  BY <1>2, <1>3 DEF OnlyState
<1> QED BY <1>1, <1>4, StatesThought

LEMMA FreeSays ==
  ASSUME NEW o, IsOracle(o), NEW a \in Addr
  PROVE  LET q == Oracle!ApplyFree(o, a).oracle
         IN  /\ Rethinks(o, q, a, "gone")
             /\ Thinks(o, a) = "live" => q.alerts = o.alerts
             /\ Thinks(o, a) = "gone" => OneMore(o.alerts, q.alerts, a, "double-free")
             /\ Thinks(o, a) = "unknown" => OneMore(o.alerts, q.alerts, a, "invalid-free")
<1> DEFINE clean == Oracle!RemoveFromBins(o, a)
           q == Oracle!ApplyFree(o, a).oracle
<1>1. IsOracle(clean) /\ clean.chunks = o.chunks /\ clean.alerts = o.alerts
  BY RemoveFromBinsSame DEF Same
<1>2. \A reason \in Oracle!UafReason : Oracle!Uaf(reason).tag \in {"freed", "uaf"}
  BY DEF Oracle!Uaf
<1>3. {"double-free", "invalid-free"} \subseteq Oracle!UafReason
  BY DEF Oracle!UafReason
<1>4. CASE ~ Oracle!Known(o, a)
  <2> DEFINE raised == Oracle!RaiseAlert(clean, a, "invalid-free")
             u == Oracle!Uaf("invalid-free")
  <2>1. q = Oracle!InsertRecord(raised, a, 0, u, 0)
    BY <1>4, PipelineAssumption DEF Oracle!ApplyFree, Oracle!Outcome, Oracle!FreeUnknown
  <2>2. /\ IsOracle(raised) /\ raised.chunks = clean.chunks
        /\ OneMore(clean.alerts, raised.alerts, a, "invalid-free")
    BY <1>1, <1>3, RaisesOne
  <2>3. u.tag \in {"freed", "uaf"}
    BY <1>2, <1>3
  <2> HIDE DEF raised, u, q, clean
  <2>4. OnlyState(raised, q, a, u) /\ q.alerts = raised.alerts
    BY <2>1, <2>2, <2>3, RecordsInsert
  <2>5. OnlyState(o, q, a, u) /\ OneMore(o.alerts, q.alerts, a, "invalid-free")
    BY <1>1, <2>2, <2>4 DEF OnlyState
  <2>6. Thinks(o, a) = "unknown"
    BY <1>4, Thoughts
  <2> QED BY <2>3, <2>5, <2>6, StatesThought DEF q
<1>5. CASE Oracle!Known(o, a) /\ o.chunks[a].state = Oracle!Allocated
  <2> DEFINE bin == Oracle!ClassifyFreeBin(clean, clean.chunks[a].size)
             freed == Oracle!Freed(bin)
             c == Oracle!ChangeState(clean, a, freed)
  <2>1. q = Oracle!PushBin(c, a, bin)
    BY <1>5, PipelineAssumption DEF Oracle!ApplyFree, Oracle!Outcome, Oracle!FreeLive
  <2>2. freed.tag \in {"freed", "uaf"}
    BY DEF Oracle!Freed
  <2> HIDE DEF bin, freed, clean
  <2>3. OnlyState(clean, c, a, freed) /\ c.alerts = clean.alerts
    BY <1>1, <2>2, StateChanges
  <2> HIDE DEF c
  <2>4. IsOracle(q) /\ q.chunks = c.chunks /\ q.alerts = c.alerts
    BY <2>1, <2>3, PushBinSame DEF OnlyState, Same
  <2> HIDE DEF q
  <2>5. OnlyState(o, q, a, freed) /\ q.alerts = o.alerts
    BY <1>1, <2>3, <2>4 DEF OnlyState
  <2>6. Thinks(o, a) = "live"
    BY <1>5, Thoughts
  <2> QED BY <2>2, <2>5, <2>6, StatesThought DEF q
<1>6. CASE Oracle!Known(o, a) /\ o.chunks[a].state # Oracle!Allocated
  <2> DEFINE raised == Oracle!RaiseAlert(clean, a, "double-free")
             u == Oracle!Uaf("double-free")
  <2>1. q = Oracle!ChangeState(raised, a, u)
    BY <1>6, PipelineAssumption DEF Oracle!ApplyFree, Oracle!Outcome, Oracle!FreeAgain
  <2>2. /\ IsOracle(raised) /\ raised.chunks = clean.chunks
        /\ OneMore(clean.alerts, raised.alerts, a, "double-free")
    BY <1>1, <1>3, RaisesOne
  <2>3. u.tag \in {"freed", "uaf"}
    BY <1>2, <1>3
  <2> HIDE DEF raised, u, q, clean
  <2>4. OnlyState(raised, q, a, u) /\ q.alerts = raised.alerts
    BY <2>1, <2>2, <2>3, StateChanges
  <2>5. OnlyState(o, q, a, u) /\ OneMore(o.alerts, q.alerts, a, "double-free")
    BY <1>1, <2>2, <2>4 DEF OnlyState
  <2>6. Thinks(o, a) = "gone"
    BY <1>6, Thoughts
  <2> QED BY <2>3, <2>5, <2>6, StatesThought DEF q
<1> QED BY <1>4, <1>5, <1>6

LEMMA ReleaseSays ==
  ASSUME NEW o, IsOracle(o), NEW a \in Addr
  PROVE  LET q == Oracle!ReleaseOld(o, a)
         IN  /\ Thinks(o, a) = "unknown" => q = o
             /\ Thinks(o, a) # "unknown" => Rethinks(o, q, a, "gone")
             /\ Thinks(o, a) = "live" => q.alerts = o.alerts
             /\ Thinks(o, a) = "gone" =>
                  OneMore(o.alerts, q.alerts, a, "realloc-after-free")
<1> DEFINE q == Oracle!ReleaseOld(o, a)
<1>1. CASE Thinks(o, a) = "unknown"
  BY <1>1, Thoughts DEF Oracle!ReleaseOld
<1>2. CASE Thinks(o, a) = "live"
  <2> DEFINE freed == Oracle!Freed(Oracle!Reallocated)
  <2>1. q = Oracle!ChangeState(o, a, freed)
    BY <1>2, Thoughts DEF Oracle!ReleaseOld
  <2>2. freed.tag \in {"freed", "uaf"}
    BY DEF Oracle!Freed
  <2> HIDE DEF q, freed
  <2>3. OnlyState(o, q, a, freed) /\ q.alerts = o.alerts
    BY <2>1, <2>2, StateChanges
  <2> QED BY <1>2, <2>2, <2>3, StatesThought DEF q
<1>3. CASE Thinks(o, a) = "gone"
  <2> DEFINE raised == Oracle!RaiseAlert(o, a, "realloc-after-free")
             u == Oracle!Uaf("realloc-after-free")
  <2>1. q = Oracle!ChangeState(raised, a, u)
    BY <1>3, Thoughts DEF Oracle!ReleaseOld
  <2>2. /\ IsOracle(raised) /\ raised.chunks = o.chunks
        /\ OneMore(o.alerts, raised.alerts, a, "realloc-after-free")
    BY RaisesOne DEF Oracle!UafReason
  <2>3. u.tag \in {"freed", "uaf"}
    BY DEF Oracle!Uaf
  <2> HIDE DEF raised, u, q
  <2>4. OnlyState(raised, q, a, u) /\ q.alerts = raised.alerts
    BY <2>1, <2>2, <2>3, StateChanges
  <2>5. OnlyState(o, q, a, u) /\ OneMore(o.alerts, q.alerts, a, "realloc-after-free")
    BY <2>2, <2>4 DEF OnlyState
  <2> QED BY <1>3, <2>3, <2>5, StatesThought DEF q
<1> QED BY <1>1, <1>2, <1>3, Thoughts

-----------------------------------------------------------------------------
(* What an event says of an address, and what the oracle makes of it.      *)
Frees(e, a) == \/ e.kind = "free" /\ e.addr = a
               \/ e.kind = "realloc" /\ e.aux_addr = a /\ e.size = 0

Moves(e, a) == e.kind = "realloc" /\ e.aux_addr = a /\ e.size # 0 /\ e.addr # Null

Releases(e, a) == Frees(e, a) \/ Moves(e, a)

Obtains(e, a) == /\ e.addr = a
                 /\ \/ e.kind = "alloc"
                    \/ e.kind = "realloc" /\ (e.aux_addr = Null \/ e.size # 0)

After(belief, e, a) ==
  IF Obtains(e, a) THEN "live"
  ELSE IF Frees(e, a) \/ (Moves(e, a) /\ belief # "unknown") THEN "gone"
  ELSE belief

Quiet(o, q, e) ==
  /\ q.alerts = o.alerts
  /\ \A a \in Addr : Releases(e, a) => Thinks(o, a) # "gone"

Raises(o, q, e) ==
  \E a \in Addr, reason \in Oracle!UafReason :
    /\ Releases(e, a) /\ Thinks(o, a) # "live"
    /\ Thinks(o, a) = "gone" => reason \in {"double-free", "realloc-after-free"}
    /\ OneMore(o.alerts, q.alerts, a, reason)

Learns(o, q, e) ==
  /\ IsOracle(q)
  /\ \A a \in Addr : Thinks(q, a) = After(Thinks(o, a), e, a)
  /\ Quiet(o, q, e) \/ Raises(o, q, e)

Outcome(o, e) ==
  IF e.kind = "alloc" THEN Oracle!ApplyAlloc(o, e.addr, e.size).oracle
  ELSE IF e.kind = "free" THEN Oracle!ApplyFree(o, e.addr).oracle
  ELSE Oracle!ApplyRealloc(o, e.aux_addr, e.addr, e.size).oracle

LEMMA ReleasesOne ==
  ASSUME NEW e \in Event, NEW a, NEW b, Releases(e, a), Releases(e, b)
  PROVE  a = b
BY DEF Event, Releases, Frees, Moves

(* apply_alloc, as the arm of its own and as the realloc of NULL.          *)
LEMMA AllocLearns ==
  ASSUME NEW o, IsOracle(o), NEW e \in Event, \A a \in Addr : ~ Releases(e, a),
         \A a \in Addr : Obtains(e, a) <=> a = e.addr
  PROVE  Learns(o, Oracle!ApplyAlloc(o, e.addr, e.size).oracle, e)
<1> DEFINE q == Oracle!ApplyAlloc(o, e.addr, e.size).oracle
<1>1. CASE e.addr = Null
  <2>1. q = o
    BY <1>1 DEF Oracle!ApplyAlloc, Oracle!Outcome
  <2>2. \A a \in Addr : ~ Obtains(e, a)
    BY <1>1, PipelineAssumption
  <2> HIDE DEF q
  <2>3. \A a \in Addr : Thinks(q, a) = After(Thinks(o, a), e, a)
    BY <2>1, <2>2 DEF After, Releases
  <2> QED BY <2>1, <2>3 DEF Learns, Quiet, q
<1>2. CASE e.addr # Null
  <2>1. e.addr \in Addr
    BY <1>2 DEF Event
  <2>2. Rethinks(o, q, e.addr, "live") /\ q.alerts = o.alerts
    BY <2>1, AllocSays
  <2> HIDE DEF q
  <2>3. \A a \in Addr : Thinks(q, a) = After(Thinks(o, a), e, a)
    BY <2>2 DEF After, Releases, Rethinks
  <2> QED BY <2>2, <2>3 DEF Learns, Quiet, Rethinks, q
<1> QED BY <1>1, <1>2

(* apply_free, as the arm of its own and as realloc(p, 0).                 *)
LEMMA FreeLearns ==
  ASSUME NEW o, IsOracle(o), NEW e \in Event, NEW f \in Blocks,
         \A a \in Addr : Frees(e, a) <=> a = f,
         \A a \in Addr : ~ Obtains(e, a) /\ ~ Moves(e, a)
  PROVE  Learns(o, Oracle!ApplyFree(o, f).oracle, e)
<1> DEFINE q == Oracle!ApplyFree(o, f).oracle
<1>1. CASE f = Null
  <2>1. q = o
    BY <1>1 DEF Oracle!ApplyFree, Oracle!Outcome
  <2>2. \A a \in Addr : ~ Frees(e, a)
    BY <1>1, PipelineAssumption
  <2> HIDE DEF q
  <2>3. \A a \in Addr : Thinks(q, a) = After(Thinks(o, a), e, a)
    BY <2>1, <2>2 DEF After
  <2> QED BY <2>1, <2>2, <2>3 DEF Learns, Quiet, Releases, q
<1>2. CASE f # Null
  <2>1. f \in Addr
    BY <1>2 DEF Blocks
  <2>2. /\ Rethinks(o, q, f, "gone")
        /\ Thinks(o, f) = "live" => q.alerts = o.alerts
        /\ Thinks(o, f) = "gone" => OneMore(o.alerts, q.alerts, f, "double-free")
        /\ Thinks(o, f) = "unknown" => OneMore(o.alerts, q.alerts, f, "invalid-free")
    BY <2>1, FreeSays
  <2> HIDE DEF q
  <2>3. \A a \in Addr : Thinks(q, a) = After(Thinks(o, a), e, a)
    BY <2>2 DEF After, Rethinks
  <2>4. Thinks(o, f) \in {"unknown", "live", "gone"}
    BY <2>1, Thoughts
  <2>5. Quiet(o, q, e) \/ Raises(o, q, e)
    <3>1. CASE Thinks(o, f) = "live"
      BY <3>1, <2>2 DEF Quiet, Releases
    <3>2. CASE Thinks(o, f) # "live"
      BY <3>2, <2>1, <2>2, <2>4 DEF Raises, Releases, Oracle!UafReason
    <3> QED BY <3>1, <3>2
  <2> QED BY <2>2, <2>3, <2>5 DEF Learns, Rethinks, q
<1> QED BY <1>1, <1>2

(* apply_realloc past its early returns.                                   *)
LEMMA MovedLearns ==
  ASSUME NEW o, IsOracle(o), NEW e \in Event, e.kind = "realloc",
         e.aux_addr \in Addr, e.addr \in Addr, e.size # 0
  PROVE  Learns(o, Oracle!Moved(o, e.aux_addr, e.addr, e.size).oracle, e)
<1> DEFINE f == e.aux_addr
           clean    == Oracle!RemoveFromBins(o, f)
           released == Oracle!ReleaseOld(clean, f)
           q == Oracle!ApplyAlloc(released, e.addr, e.size).oracle
<1>1. Oracle!Moved(o, e.aux_addr, e.addr, e.size).oracle = q
  BY DEF Oracle!Moved, Oracle!Outcome
<1>2. IsOracle(clean) /\ clean.alerts = o.alerts /\ \A a \in Addr : Thinks(clean, a) = Thinks(o, a)
  BY RemoveFromBinsSame DEF Same, Thinks
<1> HIDE DEF clean
<1>3. /\ Thinks(clean, f) = "unknown" => released = clean
      /\ Thinks(clean, f) # "unknown" => Rethinks(clean, released, f, "gone")
      /\ Thinks(clean, f) = "live" => released.alerts = clean.alerts
      /\ Thinks(clean, f) = "gone" =>
           OneMore(clean.alerts, released.alerts, f, "realloc-after-free")
  BY <1>2, ReleaseSays
<1>4. Thinks(o, f) \in {"unknown", "live", "gone"}
  BY Thoughts
<1>5. /\ IsOracle(released)
      /\ \A a \in Addr \ {f} : Thinks(released, a) = Thinks(o, a)
      /\ Thinks(o, f) = "unknown" => Thinks(released, f) = "unknown"
      /\ Thinks(o, f) # "unknown" => Thinks(released, f) = "gone"
  BY <1>2, <1>3 DEF Rethinks
<1> HIDE DEF released
<1>6. Rethinks(released, q, e.addr, "live") /\ q.alerts = released.alerts
  BY <1>5, AllocSays
<1> HIDE DEF q
<1>7. \A a \in Addr : Moves(e, a) <=> a = f
  BY PipelineAssumption DEF Moves
<1>8. \A a \in Addr : /\ Obtains(e, a) <=> a = e.addr
                      /\ ~ Frees(e, a)
  BY DEF Obtains, Frees
<1>9. ASSUME NEW a \in Addr PROVE Thinks(q, a) = After(Thinks(o, a), e, a)
  BY <1>5, <1>6, <1>7, <1>8 DEF After, Rethinks
<1>10. Quiet(o, q, e) \/ Raises(o, q, e)
  <2>1. CASE Thinks(o, f) # "gone"
    <3>1. q.alerts = o.alerts
      BY <2>1, <1>2, <1>3, <1>4, <1>6
    <3> QED BY <2>1, <3>1, <1>7, <1>8 DEF Quiet, Releases
  <2>2. CASE Thinks(o, f) = "gone"
    <3>1. OneMore(o.alerts, q.alerts, f, "realloc-after-free")
      BY <2>2, <1>2, <1>3, <1>6
    <3>2. Releases(e, f) /\ "realloc-after-free" \in Oracle!UafReason
      BY <1>7 DEF Releases, Oracle!UafReason
    <3> QED BY <2>2, <3>1, <3>2 DEF Raises
  <2> QED BY <2>1, <2>2
<1> QED BY <1>1, <1>6, <1>9, <1>10 DEF Learns, Rethinks

(* apply_event, whatever the event.                                        *)
LEMMA EventLearns ==
  ASSUME NEW o, IsOracle(o), NEW e \in Event
  PROVE  Learns(o, Outcome(o, e), e)
<1>1. e.kind \in {"alloc", "free", "realloc"} /\ e.addr \in Blocks /\ e.aux_addr \in Blocks
  BY DEF Event, Blocks
<1> USE DEF Releases, Frees, Moves, Obtains
<1>2. CASE e.kind = "alloc"
  BY <1>2, AllocLearns DEF Outcome
<1>3. CASE e.kind = "free"
  BY <1>1, <1>3, FreeLearns DEF Outcome
<1>4. CASE e.kind = "realloc" /\ e.aux_addr = Null
  <2>1. Outcome(o, e) = Oracle!ApplyAlloc(o, e.addr, e.size).oracle
    BY <1>4 DEF Outcome, Oracle!ApplyRealloc
  <2>2. \A a \in Addr : ~ Releases(e, a) /\ (Obtains(e, a) <=> a = e.addr)
    BY <1>4, PipelineAssumption
  <2> QED BY <2>1, <2>2, AllocLearns
<1>5. CASE e.kind = "realloc" /\ e.aux_addr # Null /\ e.size = 0
  <2>1. Outcome(o, e) = Oracle!ApplyFree(o, e.aux_addr).oracle
    BY <1>5 DEF Outcome, Oracle!ApplyRealloc
  <2>2. \A a \in Addr : ~ Obtains(e, a) /\ ~ Moves(e, a) /\ (Frees(e, a) <=> a = e.aux_addr)
    BY <1>5
  <2> QED BY <1>1, <2>1, <2>2, FreeLearns
<1>6. CASE e.kind = "realloc" /\ e.aux_addr # Null /\ e.size # 0 /\ e.addr = Null
  <2>1. Outcome(o, e) = o
    BY <1>6 DEF Outcome, Oracle!ApplyRealloc, Oracle!Outcome
  <2>2. \A a \in Addr : ~ Obtains(e, a) /\ ~ Releases(e, a)
    BY <1>6, PipelineAssumption
  <2> QED BY <2>1, <2>2 DEF Learns, Quiet, After
<1>7. CASE e.kind = "realloc" /\ e.aux_addr # Null /\ e.size # 0 /\ e.addr # Null
  <2>1. Outcome(o, e) = Oracle!Moved(o, e.aux_addr, e.addr, e.size).oracle
    BY <1>7 DEF Outcome, Oracle!ApplyRealloc
  <2>2. e.aux_addr \in Addr /\ e.addr \in Addr
    BY <1>1, <1>7 DEF Blocks
  <2> QED BY <1>7, <2>1, <2>2, MovedLearns
<1> QED BY <1>1, <1>2, <1>3, <1>4, <1>5, <1>6, <1>7

(* Deliver: the first event of the ring is taken off it and applied.       *)
LEMMA DeliverLearns ==
  ASSUME IsOracle(oracle), queue \in Seq(Event), Deliver
  PROVE  /\ queue # << >> /\ queue' = Tail(queue)
         /\ Learns(oracle, oracle', Head(queue))
         /\ UNCHANGED <<proc, heap, held, call, calls, misused, aborted, blurred>>
<1> DEFINE e == Head(queue)
           q == Outcome(oracle, e)
<1>1. queue # << >> /\ ApplyEvent(e) /\ Ring!Take(1)
  BY DEF Deliver
<1>2. e \in Event
  BY <1>1, HeadTailProperties
<1>3. Learns(oracle, q, e)
  BY <1>2, EventLearns
<1>4. oracle' = [q EXCEPT !.total_events = @ + 1]
  BY <1>1 DEF ApplyEvent, Oracle!Alloc, Oracle!Free, Oracle!Realloc, Oracle!Applied, Outcome
<1> HIDE DEF q, e
<1>5. IsOracle(q)
  BY <1>3 DEF Learns
<1>6. /\ oracle'.chunks = q.chunks /\ oracle'.alerts = q.alerts
      /\ oracle' = [chunks |-> oracle'.chunks, bins |-> oracle'.bins,
                    bin_index |-> oracle'.bin_index, counts |-> oracle'.counts,
                    alerts |-> oracle'.alerts, next_index |-> oracle'.next_index,
                    total_events |-> oracle'.total_events]
  BY <1>4, <1>5 DEF IsOracle
<1>7. IsOracle(oracle') /\ \A a \in Addr : Thinks(oracle', a) = Thinks(q, a)
  BY <1>5, <1>6 DEF IsOracle, Thinks
<1>8. Learns(oracle, oracle', e)
  BY <1>3, <1>6, <1>7 DEF Learns, Quiet, Raises
<1>9. queue' = Tail(queue)
  BY <1>1 DEF Ring!Take
<1> QED BY <1>1, <1>8, <1>9 DEF e, Deliver, program

-----------------------------------------------------------------------------
(* Types *)

CallType ==
  [op : {"none", "malloc", "free", "realloc"}, from : Blocks, size : Size \cup {0}, to : Blocks,
   todo : {<< >>, <<"real", "publish">>, <<"publish", "real">>, <<"real">>, <<"publish">>}]

Typed ==
  /\ proc \in [Thread -> Process]
  /\ heap \in [Process -> [Addr -> {"fresh", "live", "free"}]]
  /\ held \in [Process -> SUBSET Addr]
  /\ call \in [Thread -> CallType]
  /\ calls \in 0 .. MaxCalls
  /\ misused \subseteq Addr /\ aborted \subseteq Process /\ blurred \subseteq Addr
  /\ queue \in Seq(Event) /\ Len(queue) <= Cap

(* What a call is at each of its places.                                   *)
Fits(c) ==
  \/ c = NoCall
  \/ /\ c.op = "malloc" /\ c.from = Null /\ c.size # 0
     /\ c.todo = <<"real", "publish">> \/ c.todo = <<"publish">>
  \/ /\ c.op = "free" /\ c.from # Null
     /\ c.todo \in {<<"publish", "real">>, <<"real">>}
  \/ /\ c.op = "realloc" /\ (c.from = Null => c.size # 0)
     /\ c.todo = <<"real", "publish">> \/ (c.todo = <<"publish">> /\ (c.size = 0 => c.to # c.from))

Fitting == \A t \in Thread : Fits(call[t])

-----------------------------------------------------------------------------
(* Whose a block is *)

LiveIn(h, p) == {a \in Addr : h[p][a] = "live"}

(* The blocks that are in the hands of a call, for it to give back or to   *)
(* return; `wrong` is misused.                                             *)
Owns(c, wrong) ==
  IF c.todo = << >> THEN {}
  ELSE IF c.todo = <<"publish">> THEN Gain(c)
  ELSE IF c.op = "free" /\ c.from \in wrong THEN {}
  ELSE {c.from} \ {Null}

Owned ==
  /\ \A p \in Process : held[p] \subseteq LiveIn(heap, p)
  /\ \A t \in Thread : Owns(call[t], misused) \subseteq LiveIn(heap, proc[t]) \ held[proc[t]]
  /\ \A t, u \in Thread :
       t # u /\ proc[t] = proc[u] => Owns(call[t], misused) \cap Owns(call[u], misused) = {}

-----------------------------------------------------------------------------
(* Between the real call and its event *)

(* Obtained and not yet published; given back and not yet published;       *)
(* published and not yet given back.                                       *)
Gained(c, a)    == c.todo = <<"publish">> /\ c.to = a /\ c.from # a
GivenBack(c, a) == /\ c.todo = <<"publish">> /\ c.op = "realloc" /\ c.from = a /\ c.to # a
                   /\ c.to # Null \/ c.size = 0
Announced(c, a) == c.todo = <<"real">> /\ c.op = "free" /\ c.from = a

Somewhere(h, a) == \E p \in Process : h[p][a] = "live"

(* An address that is not blurred is of one process, and of nobody from    *)
(* the time a realloc has given it back until that is published.           *)
SharpAt(a) ==
  /\ \A p, q \in Process : heap[p][a] # "fresh" /\ heap[q][a] # "fresh" => p = q
  /\ \A t \in Thread : GivenBack(call[t], a) =>
       /\ ~ Somewhere(heap, a)
       /\ \A u \in Thread \ {t} : ~ GivenBack(call[u], a)
  /\ \A t \in Thread : Gained(call[t], a) /\ call[t].from # Null => call[t].size # 0

Sharp == \A a \in Addr \ blurred : SharpAt(a)

-----------------------------------------------------------------------------
(* The steps, by what they do to a call and its blocks.                    *)

Turns(t, c) == call' = [call EXCEPT ![t] = c]

Starts(t, c) ==
  /\ call[t] = NoCall /\ c \in CallType /\ Fits(c)
  /\ c.todo \in {<<"real", "publish">>, <<"publish", "real">>}
  /\ {c.from} \ {Null} \subseteq held[proc[t]]
  /\ Turns(t, c)
  /\ held' = [held EXCEPT ![proc[t]] = @ \ {c.from}]
  /\ calls' \in 0 .. MaxCalls
  /\ UNCHANGED <<proc, heap, misused, aborted, blurred, queue, oracle>>

(* The allocator takes back the blocks in lost and hands out b, or Null.   *)
Answers(t, lost, b, c) ==
  /\ call[t].todo = <<"real", "publish">> /\ call[t].op \in {"malloc", "realloc"}
  /\ c \in CallType /\ Fits(c) /\ c.todo = <<"publish">>
  /\ c.op = call[t].op /\ c.from = call[t].from /\ c.size = call[t].size
  /\ lost \subseteq {c.from} \ {Null} /\ (b = Null \/ b # c.from)
  /\ b # Null => heap[proc[t]][b] # "live"
  /\ Gain(c) = ({b, c.from} \ lost) \ {Null}
  /\ \A a \in Addr : /\ GivenBack(c, a) <=> a \in lost
                     /\ Gained(c, a) <=> a = b
  /\ b # Null => \/ b \in blurred'
                 \/ ~ Ambiguous(t, b) /\ (c.from # Null => c.size # 0)
  /\ blurred \subseteq blurred' /\ blurred' \subseteq Addr
  /\ Turns(t, c)
  /\ heap' = [heap EXCEPT ![proc[t]] = [a \in Addr |-> IF a = b THEN "live"
                                                       ELSE IF a \in lost THEN "free"
                                                       ELSE @[a]]]
  /\ UNCHANGED <<proc, held, calls, misused, aborted, queue, oracle>>

(* The same, told from the call before: realloc answers to, in place or    *)
(* somewhere else.                                                         *)
Gives(t, to, lost, b) ==
  LET k == call[t]
  IN  /\ to \in Blocks /\ b \in Blocks /\ lost \subseteq {k.from} \ {Null}
      /\ \/ /\ to = b /\ (to = Null \/ to # k.from)
            /\ lost = {} => k.from = Null \/ (b = Null /\ k.size # 0)
            /\ lost = {k.from} => b # Null \/ k.size = 0
         \/ to = k.from /\ k.from # Null /\ b = Null /\ lost = {} /\ k.size # 0
      /\ StepDone(t, [k EXCEPT !.to = to])
      /\ b # Null => heap[proc[t]][b] # "live"
      /\ b # Null => \/ b \in blurred'
                     \/ ~ Ambiguous(t, b) /\ (k.from # Null => k.size # 0)
      /\ blurred \subseteq blurred' /\ blurred' \subseteq Addr
      /\ heap' = [heap EXCEPT ![proc[t]] = [a \in Addr |-> IF a = b THEN "live"
                                                           ELSE IF a \in lost THEN "free"
                                                           ELSE @[a]]]
      /\ UNCHANGED <<proc, calls, misused, aborted, queue, oracle>>

GivesUp(t, f) ==
  /\ f \in Addr \ misused
  /\ call[t].todo = <<"real">> /\ call[t].op = "free" /\ call[t].from = f
  /\ Turns(t, NoCall)
  /\ heap' = [heap EXCEPT ![proc[t]] = [a \in Addr |-> IF a = f THEN "free" ELSE @[a]]]
  /\ UNCHANGED <<proc, held, calls, misused, aborted, blurred, queue, oracle>>

Sends(e) ==
  \/ queue' = Append(queue, e) /\ Len(queue) < Cap /\ blurred' = blurred
  \/ queue' = queue /\ blurred' = blurred \cup ({e.addr, e.aux_addr} \ {Null})

(* The last step of malloc and of realloc; the first of free.              *)
Returns(t) ==
  /\ call[t].todo = <<"publish">>
  /\ Turns(t, NoCall)
  /\ held' = [held EXCEPT ![proc[t]] = @ \cup Gain(call[t])]
  /\ Sends(EventOf(call[t]))
  /\ UNCHANGED <<proc, heap, calls, misused, aborted, oracle>>

Announces(t, c) ==
  /\ call[t].todo = <<"publish", "real">> /\ call[t].op = "free" /\ call[t].from # Null
  /\ c \in CallType /\ Fits(c) /\ c.todo = <<"real">>
  /\ c.op = "free" /\ c.from = call[t].from
  /\ Turns(t, c)
  /\ Sends(EventOf(call[t]))
  /\ UNCHANGED <<proc, heap, held, calls, misused, aborted, oracle>>

Mistakes(t, a, c) ==
  /\ call[t] = NoCall /\ misused = {} /\ misused' = {a}
  /\ heap[proc[t]][a] = "free"
  /\ c \in CallType /\ Fits(c) /\ c.todo = <<"real">> /\ c.op = "free" /\ c.from = a
  /\ Turns(t, c)
  /\ \E e \in Event : Sends(e) /\ e.kind = "free" /\ e.addr = a /\ e.aux_addr = Null
  /\ calls' \in 0 .. MaxCalls
  /\ UNCHANGED <<proc, heap, held, aborted, oracle>>

-----------------------------------------------------------------------------
LEMMA TodoSteps ==
  /\ Head(<<"real", "publish">>) = "real" /\ Tail(<<"real", "publish">>) = <<"publish">>
  /\ Head(<<"publish", "real">>) = "publish" /\ Tail(<<"publish", "real">>) = <<"real">>
  /\ Head(<<"real">>) = "real" /\ Head(<<"publish">>) = "publish"
  /\ Len(<<"real", "publish">>) = 2 /\ Len(<<"publish", "real">>) = 2
  /\ Len(<<"real">>) = 1 /\ Len(<<"publish">>) = 1
OBVIOUS

LEMMA TodoDiffer ==
  /\ << >> # <<"real">> /\ << >> # <<"publish">>
  /\ << >> # <<"real", "publish">> /\ << >> # <<"publish", "real">>
  /\ <<"real">> # <<"publish">> /\ <<"real", "publish">> # <<"publish", "real">>
  /\ <<"real", "publish">> # <<"real">> /\ <<"real", "publish">> # <<"publish">>
  /\ <<"publish", "real">> # <<"real">> /\ <<"publish", "real">> # <<"publish">>
OBVIOUS

LEMMA NoCallType == NoCall \in CallType /\ Fits(NoCall)
BY DEF NoCall, CallType, Blocks, Fits

LEMMA BeginStarts ==
  ASSUME Typed, NEW t \in Thread, BeginMalloc(t) \/ BeginFree(t) \/ BeginRealloc(t)
  PROVE  \E c : Starts(t, c)
<1>1. ASSUME NEW op \in {"malloc", "free", "realloc"}, NEW from \in Blocks,
             NEW size \in Size \cup {0}, Begin(t, NewCall(op, from, size)),
             from # Null => from \in held[proc[t]],
             op = "malloc" => from = Null /\ size # 0, op = "free" => from # Null,
             op = "realloc" /\ from = Null => size # 0
      PROVE  \E c : Starts(t, c)
  <2> DEFINE c == NewCall(op, from, size)
  <2>1. /\ c.op = op /\ c.from = from /\ c.size = size /\ c \in CallType
        /\ c.todo = IF op = "free" THEN <<"publish", "real">> ELSE <<"real", "publish">>
    BY DEF NewCall, Steps, CallType, Blocks
  <2>2. call[t] = NoCall /\ Turns(t, c) /\ held' = [held EXCEPT ![proc[t]] = @ \ {c.from}]
        /\ calls < MaxCalls /\ calls' = calls + 1
        /\ UNCHANGED <<proc, heap, misused, aborted, blurred, queue, oracle>>
    BY <1>1 DEF Begin, Idle, Turns, ring, monitor
  <2> HIDE DEF c
  <2>3. calls' \in 0 .. MaxCalls
    BY <2>2, PipelineAssumption DEF Typed
  <2>4. Fits(c) /\ c.todo \in {<<"real", "publish">>, <<"publish", "real">>}
    BY <1>1, <2>1 DEF Fits
  <2>5. Starts(t, c)
    BY <1>1, <2>1, <2>2, <2>3, <2>4 DEF Starts
  <2> QED BY <2>5
<1>2. \A a \in held[proc[t]] : a \in Addr /\ a # Null
  BY PipelineAssumption DEF Typed
<1>3. CASE BeginMalloc(t)
  BY <1>1, <1>3 DEF BeginMalloc, Blocks
<1>4. CASE BeginFree(t)
  BY <1>1, <1>2, <1>4 DEF BeginFree, Blocks
<1>5. CASE BeginRealloc(t)
  <2>1. PICK a \in held[proc[t]] \cup {Null}, size \in Size :
          (a = Null => size # 0) /\ Begin(t, NewCall("realloc", a, size))
    BY <1>5 DEF BeginRealloc
  <2>2. a \in Blocks
    BY <1>2 DEF Blocks
  <2> QED BY <1>1, <1>2, <2>1, <2>2
<1> QED BY <1>3, <1>4, <1>5

(* A real call that is not a free.                                         *)
LEMMA RealAnswers ==
  ASSUME Typed, Fitting, Owned, NEW t \in Thread,
         RealMalloc(t) \/ Move(t) \/ StayInPlace(t) \/ AllocationFails(t) \/ Empty(t)
  PROVE  \E lost, b, c : Answers(t, lost, b, c)
<1> DEFINE k == call[t]
<1>1. At(t, "real") /\ k.op # "free"
  BY DEF RealMalloc, Move, StayInPlace, AllocationFails, Empty, Resizing
<1>2. k \in CallType /\ Fits(k) /\ k.todo # << >> /\ Head(k.todo) = "real"
  BY <1>1 DEF Typed, Fitting, At
<1>3. k.todo = <<"real", "publish">> /\ k.op \in {"malloc", "realloc"}
  BY <1>1, <1>2, TodoSteps DEF Fits, NoCall
<1>4. /\ k.op = "malloc" => k.from = Null /\ k.size # 0
      /\ k.op = "realloc" /\ k.from = Null => k.size # 0
      /\ k.from \in Blocks
  BY <1>2, <1>3, TodoDiffer DEF Fits, NoCall, CallType
<1>5. k.from # Null => heap[proc[t]][k.from] = "live"
  <2>1. Owns(k, misused) = {k.from} \ {Null}
    BY <1>3, TodoDiffer DEF Owns
  <2> QED BY <2>1 DEF Owned, LiveIn
<1>6. proc[t] \in Process /\ heap[proc[t]] \in [Addr -> {"fresh", "live", "free"}]
  BY DEF Typed
<1>7. ASSUME NEW to, NEW lost, NEW b, Gives(t, to, lost, b)
      PROVE  \E l, d, c : Answers(t, l, d, c)
  <2> USE <1>7 DEF Gives
  <2> DEFINE c0 == [k EXCEPT !.to = to]
             c  == [c0 EXCEPT !.todo = Tail(c0.todo)]
  <2>1. /\ c0 \in CallType /\ c0.todo = <<"real", "publish">> /\ c0.op = k.op
        /\ c0.from = k.from /\ c0.size = k.size /\ c0.to = to
    BY <1>2, <1>3 DEF CallType
  <2>2. Turns(t, c) /\ held' = held
    BY <1>7, <2>1, TodoSteps DEF StepDone, Turns
  <2> HIDE DEF c0
  <2>3. Tail(c0.todo) = <<"publish">>
    BY <2>1, TodoSteps
  <2>4. /\ c \in CallType /\ c.todo = <<"publish">> /\ c.op = k.op
        /\ c.from = k.from /\ c.size = k.size /\ c.to = to
    BY <2>1, <2>3 DEF CallType
  <2>a. /\ to \in Blocks /\ b \in Blocks /\ lost \subseteq {k.from} \ {Null}
        /\ \/ /\ to = b /\ (to = Null \/ to # k.from)
              /\ lost = {} => k.from = Null \/ (b = Null /\ k.size # 0)
              /\ lost = {k.from} => b # Null \/ k.size = 0
           \/ to = k.from /\ k.from # Null /\ b = Null /\ lost = {} /\ k.size # 0
    OBVIOUS
  <2> HIDE <1>7 DEF Gives
  <2> HIDE DEF c, k
  <2>5. Fits(c)
    BY <1>3, <1>4, <2>a, <2>4 DEF Fits
  <2>6. lost = {} \/ (lost = {k.from} /\ k.from # Null)
    BY <2>a
  <2>7. Gain(c) = ({b, c.from} \ lost) \ {Null}
    <3>1. CASE to = k.from /\ k.from # Null
      BY <2>a, <2>4, <3>1 DEF Gain
    <3>2. CASE to = b /\ b # Null /\ to # k.from
      BY <2>a, <2>4, <2>6, <3>2 DEF Gain
    <3>3. CASE to = b /\ b = Null
      BY <1>3, <1>4, <2>a, <2>4, <2>6, <3>3 DEF Gain
    <3> QED BY <2>a, <3>1, <3>2, <3>3
  <2>8. ASSUME NEW a \in Addr
        PROVE  (GivenBack(c, a) <=> a \in lost) /\ (Gained(c, a) <=> a = b)
    <3>1. a # Null
      BY PipelineAssumption
    <3>2. Gained(c, a) <=> a = b
      BY <2>a, <2>4, <3>1 DEF Gained
    <3>3. GivenBack(c, a) <=> a \in lost
      BY <1>3, <1>4, <2>a, <2>4, <2>6, <3>1 DEF GivenBack
    <3> QED BY <3>2, <3>3
  <2>9. b = Null \/ b # c.from
    BY <2>a, <2>4
  <2>10. Answers(t, lost, b, c)
    BY <1>3, <1>7, <2>2, <2>4, <2>5, <2>7, <2>8, <2>9, <2>a DEF Answers, Gives, k
  <2> QED BY <2>10
<1> HIDE DEF k
<1>8. Null \in Blocks /\ Addr \subseteq Blocks /\ Null \notin Addr /\ blurred \subseteq Addr
  BY PipelineAssumption DEF Blocks, Typed
<1>9. \A a \in Addr : Notice(t, a) =>
        /\ a \in blurred' \/ ~ Ambiguous(t, a)
        /\ blurred \subseteq blurred' /\ blurred' \subseteq Addr
  BY <1>8 DEF Notice
<1>10. ASSUME NEW from, NEW a, RealStep(t, from, a)
       PROVE  /\ StepDone(t, [k EXCEPT !.to = a])
              /\ a # Null => heap[proc[t]][a] # "live"
              /\ heap' = [heap EXCEPT ![proc[t]] = [b \in Addr |-> IF b = a THEN "live"
                                                               ELSE IF b \in from THEN "free"
                                                               ELSE @[b]]]
              /\ UNCHANGED <<proc, calls, misused, aborted, queue, oracle>>
  BY <1>10 DEF RealStep, k, ring, monitor
<1>11. CASE RealMalloc(t)
  <2>1. PICK a \in Addr : RealStep(t, {}, a) /\ Notice(t, a)
    BY <1>11 DEF RealMalloc
  <2>2. k.from = Null
    BY <1>11 DEF RealMalloc, k
  <2>3. Gives(t, a, {}, a)
    BY <1>8, <1>9, <1>10, <2>1, <2>2 DEF Gives, k
  <2> QED BY <1>7, <2>3
<1>12. CASE Move(t)
  <2>1. PICK a \in Addr : RealStep(t, {k.from}, a) /\ Notice(t, a)
    BY <1>12 DEF Move, k
  <2>2. k.from # Null /\ k.size # 0
    BY <1>12 DEF Move, Resizing, k
  <2>3. heap[proc[t]][a] # "live" /\ a # k.from
    BY <1>5, <1>8, <1>10, <2>1, <2>2
  <2>4. Gives(t, a, {k.from}, a)
    BY <1>8, <1>9, <1>10, <2>1, <2>2, <2>3 DEF Gives, k
  <2> QED BY <1>7, <2>4
<1>13. CASE StayInPlace(t)
  <2>1. k.from # Null /\ k.size # 0 /\ StepDone(t, [k EXCEPT !.to = k.from])
        /\ UNCHANGED <<proc, heap, calls, misused, aborted, blurred, queue, oracle>>
    BY <1>13 DEF StayInPlace, Resizing, k, ring, monitor
  <2>2. heap = [heap EXCEPT ![proc[t]] = [a \in Addr |-> IF a = Null THEN "live"
                                                         ELSE IF a \in {} THEN "free"
                                                         ELSE @[a]]]
    <3>1. heap[proc[t]] = [a \in Addr |-> IF a = Null THEN "live"
                                          ELSE IF a \in {} THEN "free"
                                          ELSE heap[proc[t]][a]]
      BY <1>6, <1>8
    <3> QED BY <1>6, <3>1 DEF Typed
  <2>3. Gives(t, k.from, {}, Null)
    BY <1>4, <1>8, <2>1, <2>2 DEF Gives, k
  <2> QED BY <1>7, <2>3
<1>14. CASE AllocationFails(t)
  <2>1. RealStep(t, {}, Null) /\ blurred' = blurred /\ (k.from # Null => k.size # 0)
    BY <1>14 DEF AllocationFails, k
  <2>2. Gives(t, Null, {}, Null)
    BY <1>8, <1>10, <2>1 DEF Gives, k
  <2> QED BY <1>7, <2>2
<1>15. CASE Empty(t)
  <2>1. k.from # Null /\ k.size = 0
    BY <1>15 DEF Empty, Resizing, k
  <2>2. ASSUME RealStep(t, {k.from}, Null), blurred' = blurred
        PROVE  Gives(t, Null, {k.from}, Null)
    BY <1>8, <1>10, <2>1, <2>2 DEF Gives, k
  <2>3. ASSUME NEW a \in Addr, RealStep(t, {k.from}, a), blurred' = blurred \cup {a}
        PROVE  Gives(t, a, {k.from}, a)
    <3>1. heap[proc[t]][a] # "live" /\ a # k.from
      BY <1>5, <1>8, <1>10, <2>1, <2>3
    <3>2. a \in blurred' /\ blurred \subseteq blurred' /\ blurred' \subseteq Addr
      BY <1>8, <2>3
    <3> QED BY <1>8, <1>10, <2>1, <2>3, <3>1, <3>2 DEF Gives, k
  <2> QED BY <1>7, <1>15, <2>2, <2>3 DEF Empty, k
<1> QED BY <1>11, <1>12, <1>13, <1>14, <1>15

LEMMA FreeGivesUp ==
  ASSUME Typed, Fitting, NEW t \in Thread, RealFree(t)
  PROVE  \E f : GivesUp(t, f)
<1> DEFINE k == call[t]
           c == [k EXCEPT !.to = Null]
<1>1. /\ At(t, "real") /\ k.op = "free" /\ k.from \notin misused
      /\ RealStep(t, {k.from}, Null) /\ blurred' = blurred
  BY DEF RealFree
<1>2. k \in CallType /\ Fits(k) /\ k.todo # << >> /\ Head(k.todo) = "real"
  BY <1>1 DEF Typed, Fitting, At
<1>3. k.todo = <<"real">> /\ k.from # Null
  BY <1>1, <1>2, TodoSteps DEF Fits, NoCall
<1>4. k.from \in Addr \ misused
  BY <1>1, <1>2, <1>3 DEF CallType, Blocks
<1>5. c.todo = <<"real">> /\ c.to = Null /\ c.op = "free" /\ c.from = k.from
  BY <1>1, <1>2, <1>3 DEF CallType
<1>6. /\ StepDone(t, c)
      /\ heap' = [heap EXCEPT ![proc[t]] = [b \in Addr |-> IF b = Null THEN "live"
                                                           ELSE IF b \in {k.from} THEN "free"
                                                           ELSE @[b]]]
      /\ UNCHANGED <<proc, calls, misused, aborted, blurred, queue, oracle>>
  BY <1>1 DEF RealStep, ring, monitor
<1> HIDE DEF c, k
<1>7. Gain(c) = {}
  BY <1>5 DEF Gain
<1>8. /\ Turns(t, NoCall)
      /\ held' = [held EXCEPT ![proc[t]] = @ \cup {}]
  BY <1>5, <1>6, <1>7, TodoSteps DEF StepDone, Turns
<1>9. held' = held
  <2>1. held[proc[t]] \cup {} = held[proc[t]]
    OBVIOUS
  <2> QED BY <1>8, <2>1 DEF Typed
<1>10. heap' = [heap EXCEPT ![proc[t]] = [b \in Addr |-> IF b = k.from THEN "free" ELSE @[b]]]
  <2>1. \A b \in Addr : b # Null /\ (b \in {k.from} <=> b = k.from)
    BY PipelineAssumption
  <2>2. [b \in Addr |-> IF b = Null THEN "live"
                        ELSE IF b \in {k.from} THEN "free" ELSE heap[proc[t]][b]]
        = [b \in Addr |-> IF b = k.from THEN "free" ELSE heap[proc[t]][b]]
    BY <2>1
  <2> QED BY <1>6, <2>2
<1>11. GivesUp(t, k.from)
  BY <1>1, <1>3, <1>4, <1>6, <1>8, <1>9, <1>10 DEF GivesUp, k
<1> QED BY <1>11

LEMMA EventOfCall ==
  ASSUME NEW c \in CallType, c.op # "none"
  PROVE  /\ EventOf(c) \in Event /\ EventOf(c).size = c.size
         /\ c.op = "malloc"  => /\ EventOf(c).kind = "alloc"   /\ EventOf(c).addr = c.to
                                /\ EventOf(c).aux_addr = c.from
         /\ c.op = "free"    => /\ EventOf(c).kind = "free"    /\ EventOf(c).addr = c.from
                                /\ EventOf(c).aux_addr = Null
         /\ c.op = "realloc" => /\ EventOf(c).kind = "realloc" /\ EventOf(c).addr = c.to
                                /\ EventOf(c).aux_addr = c.from
<1>1. Addresses(c) = IF c.op = "free" THEN <<c.from, Null>> ELSE <<c.to, c.from>>
  BY DEF Addresses
<1>2. /\ c.op = "free" => Addresses(c)[1] = c.from /\ Addresses(c)[2] = Null
      /\ c.op # "free" => Addresses(c)[1] = c.to /\ Addresses(c)[2] = c.from
  BY <1>1
<1>3. c.op \in {"malloc", "free", "realloc"} /\ c.from \in Blocks /\ c.to \in Blocks
      /\ c.size \in Size \cup {0}
  BY DEF CallType
<1> QED BY <1>2, <1>3 DEF EventOf, Event, Blocks

LEMMA SendSends ==
  ASSUME Typed, NEW e \in Event, Send(e)
  PROVE  Sends(e)
BY DEF Send, Sends, Ring!Push, Dropped, ring

LEMMA PublishTurns ==
  ASSUME Typed, Fitting, NEW t \in Thread, Publish(t)
  PROVE  Returns(t) \/ \E c : Announces(t, c)
<1> DEFINE k == call[t]
           c == [k EXCEPT !.todo = Tail(k.todo)]
<1>1. /\ At(t, "publish") /\ Send(EventOf(k)) /\ StepDone(t, k)
      /\ UNCHANGED <<proc, heap, calls, misused, aborted, oracle>>
  BY DEF Publish, monitor
<1>2. k \in CallType /\ Fits(k) /\ k.todo # << >> /\ Head(k.todo) = "publish"
  BY <1>1 DEF Typed, Fitting, At
<1>3. k.op # "none"
  BY <1>2 DEF Fits, NoCall
<1>4. Sends(EventOf(k))
  BY <1>1, <1>2, <1>3, EventOfCall, SendSends
<1>5. k.todo = <<"publish">> \/ (k.todo = <<"publish", "real">> /\ k.op = "free" /\ k.from # Null)
  BY <1>2, TodoSteps DEF Fits, NoCall
<1>6. CASE k.todo = <<"publish">>
  <2>1. Turns(t, NoCall) /\ held' = [held EXCEPT ![proc[t]] = @ \cup Gain(k)]
    BY <1>1, <1>6, TodoSteps DEF StepDone, Turns
  <2> QED BY <1>1, <1>4, <1>6, <2>1 DEF Returns
<1>7. CASE k.todo = <<"publish", "real">> /\ k.op = "free" /\ k.from # Null
  <2>1. Turns(t, c) /\ held' = held
    BY <1>1, <1>7, TodoSteps DEF StepDone, Turns
  <2>2. Tail(k.todo) = <<"real">>
    BY <1>7, TodoSteps
  <2>3. /\ c \in CallType /\ c.todo = <<"real">> /\ c.op = k.op /\ c.from = k.from
    BY <1>2, <2>2 DEF CallType
  <2> HIDE DEF c
  <2>4. Fits(c)
    BY <1>7, <2>3 DEF Fits
  <2>5. Announces(t, c)
    BY <1>1, <1>4, <1>7, <2>1, <2>3, <2>4 DEF Announces
  <2> QED BY <2>5
<1> QED BY <1>5, <1>6, <1>7

LEMMA MisuseMistakes ==
  ASSUME Typed, NEW t \in Thread, NEW a \in Addr, Misuse(t, a)
  PROVE  \E c : Mistakes(t, a, c)
<1> DEFINE k == NewCall("free", a, 0)
           c == [k EXCEPT !.todo = Tail(k.todo)]
<1>1. /\ call[t] = NoCall /\ calls < MaxCalls /\ misused = {} /\ misused' = {a}
      /\ heap[proc[t]][a] = "free" /\ calls' = calls + 1 /\ Send(EventOf(k)) /\ Turns(t, c)
      /\ UNCHANGED <<proc, heap, held, aborted, oracle>>
  BY DEF Misuse, Idle, Turns, monitor
<1>2. /\ k \in CallType /\ k.op = "free" /\ k.from = a /\ k.todo = <<"publish", "real">>
  BY DEF NewCall, Steps, CallType, Blocks
<1> HIDE DEF k
<1>3. Tail(k.todo) = <<"real">>
  BY <1>2, TodoSteps
<1>4. c \in CallType /\ c.op = "free" /\ c.from = a /\ c.todo = <<"real">>
  BY <1>2, <1>3 DEF CallType
<1> HIDE DEF c
<1>5. Fits(c)
  BY <1>4, PipelineAssumption DEF Fits
<1>6. /\ EventOf(k) \in Event /\ EventOf(k).kind = "free" /\ EventOf(k).addr = a
      /\ EventOf(k).aux_addr = Null
  BY <1>2, EventOfCall
<1>7. Sends(EventOf(k))
  BY <1>1, <1>6, SendSends
<1>8. calls' \in 0 .. MaxCalls
  BY <1>1, PipelineAssumption DEF Typed
<1>9. Mistakes(t, a, c)
  BY <1>1, <1>4, <1>5, <1>6, <1>7, <1>8 DEF Mistakes
<1> QED BY <1>9

(* Every step is one of these.                                             *)
LEMMA StepCases ==
  ASSUME Typed, Fitting, Owned, Next
  PROVE  \/ \E t \in Thread : \E c : Starts(t, c) \/ Announces(t, c)
         \/ \E t \in Thread : \E lost, b, c : Answers(t, lost, b, c)
         \/ \E t \in Thread : \E f : GivesUp(t, f)
         \/ \E t \in Thread : Returns(t) \/ RealAbort(t)
         \/ \E t \in Thread, a \in Addr : \E c : Mistakes(t, a, c)
         \/ Deliver
<1>1. ASSUME NEW t \in Thread, BeginMalloc(t) \/ BeginFree(t) \/ BeginRealloc(t)
      PROVE  \E c : Starts(t, c)
  BY <1>1, BeginStarts
<1>2. ASSUME NEW t \in Thread,
             RealMalloc(t) \/ Move(t) \/ StayInPlace(t) \/ AllocationFails(t) \/ Empty(t)
      PROVE  \E lost, b, c : Answers(t, lost, b, c)
  BY <1>2, RealAnswers
<1>3. ASSUME NEW t \in Thread, RealFree(t) PROVE \E f : GivesUp(t, f)
  BY <1>3, FreeGivesUp
<1>4. ASSUME NEW t \in Thread, Publish(t) PROVE Returns(t) \/ \E c : Announces(t, c)
  BY <1>4, PublishTurns
<1>5. ASSUME NEW t \in Thread, NEW a \in Addr, Misuse(t, a) PROVE \E c : Mistakes(t, a, c)
  BY <1>5, MisuseMistakes
<1> QED BY <1>1, <1>2, <1>3, <1>4, <1>5 DEF Next

-----------------------------------------------------------------------------
(* Types, places and owners: the induction                                 *)

LEMMA CallTurns ==
  ASSUME Typed, Fitting, NEW t \in Thread, NEW c, Turns(t, c), c \in CallType, Fits(c)
  PROVE  /\ call' \in [Thread -> CallType] /\ Fitting'
         /\ call'[t] = c
         /\ \A u \in Thread \ {t} : call'[u] = call[u]
<1>1. /\ call' \in [Thread -> CallType] /\ call'[t] = c
      /\ \A u \in Thread \ {t} : call'[u] = call[u]
  BY DEF Typed, Turns
<1>2. Fitting'
  BY <1>1 DEF Fitting
<1> QED BY <1>1, <1>2

LEMMA SendsTyped ==
  ASSUME Typed, NEW e \in Event, Sends(e)
  PROVE  /\ queue' \in Seq(Event) /\ Len(queue') <= Cap
         /\ blurred' \subseteq Addr /\ blurred \subseteq blurred'
<1>1. CASE queue' = Append(queue, e) /\ Len(queue) < Cap /\ blurred' = blurred
  <2>1. Len(queue') = Len(queue) + 1 /\ queue' \in Seq(Event) /\ Len(queue) \in Nat
    BY <1>1, AppendProperties, LenProperties DEF Typed
  <2> QED BY <1>1, <2>1, PipelineAssumption DEF Typed
<1>2. CASE queue' = queue /\ blurred' = blurred \cup ({e.addr, e.aux_addr} \ {Null})
  BY <1>2 DEF Typed, Event
<1> QED BY <1>1, <1>2 DEF Sends

(* What the thread and the program hold changes hands between them, or was *)
(* nobody's.                                                               *)
LEMMA OwnersChange ==
  ASSUME Typed, Owned, NEW t \in Thread, NEW c, proc' = proc,
         call'[t] = c, \A u \in Thread \ {t} : call'[u] = call[u],
         \A u \in Thread \ {t} : Owns(call[u], misused') \subseteq Owns(call[u], misused),
         \A p \in Process \ {proc[t]} : held'[p] = held[p] /\ LiveIn(heap', p) = LiveIn(heap, p),
         held'[proc[t]] \subseteq LiveIn(heap', proc[t]),
         Owns(c, misused') \subseteq LiveIn(heap', proc[t]) \ held'[proc[t]],
         held'[proc[t]] \cup Owns(c, misused')
           \subseteq held[proc[t]] \cup Owns(call[t], misused) \cup (Addr \ LiveIn(heap, proc[t])),
         LiveIn(heap, proc[t]) \ (held[proc[t]] \cup Owns(call[t], misused)) \subseteq LiveIn(heap', proc[t])
  PROVE  Owned'
<1>1. ASSUME NEW p \in Process PROVE held'[p] \subseteq LiveIn(heap', p)
  BY DEF Owned
<1>2. ASSUME NEW u \in Thread
      PROVE  Owns(call'[u], misused') \subseteq LiveIn(heap', proc'[u]) \ held'[proc'[u]]
  <2>1. CASE u = t
    BY <2>1
  <2>2. CASE u # t /\ proc[u] # proc[t]
    BY <2>2 DEF Owned, Typed
  <2>3. CASE u # t /\ proc[u] = proc[t]
    <3>1. /\ Owns(call[u], misused) \subseteq LiveIn(heap, proc[t]) \ held[proc[t]]
          /\ Owns(call[u], misused) \cap Owns(call[t], misused) = {}
      BY <2>3 DEF Owned
    <3> QED BY <2>3, <3>1
  <2> QED BY <2>1, <2>2, <2>3
<1>3. ASSUME NEW u \in Thread, NEW v \in Thread, u # v, proc[u] = proc[v]
      PROVE  Owns(call'[u], misused') \cap Owns(call'[v], misused') = {}
  <2>1. Owns(call[u], misused) \cap Owns(call[v], misused) = {}
    BY <1>3 DEF Owned
  <2>2. ASSUME NEW w \in Thread \ {t}, proc[w] = proc[t]
        PROVE  Owns(c, misused') \cap Owns(call'[w], misused') = {}
    <3>1. /\ Owns(call[w], misused) \subseteq LiveIn(heap, proc[t]) \ held[proc[t]]
          /\ Owns(call[w], misused) \cap Owns(call[t], misused) = {}
      BY <2>2 DEF Owned
    <3> QED BY <3>1
  <2>3. CASE u # t /\ v # t
    BY <2>1, <2>3
  <2>4. CASE u = t
    BY <1>3, <2>2, <2>4
  <2>5. CASE v = t
    BY <1>3, <2>2, <2>5
  <2> QED BY <2>3, <2>4, <2>5
<1> QED BY <1>1, <1>2, <1>3 DEF Owned

LEMMA LiveStays ==
  ASSUME heap' = heap
  PROVE  \A p : LiveIn(heap', p) = LiveIn(heap, p)
BY DEF LiveIn

LEMMA OwnedOf ==
  ASSUME Typed, Owned, NEW t \in Thread
  PROVE  /\ proc[t] \in Process /\ held[proc[t]] \subseteq LiveIn(heap, proc[t])
         /\ held[proc[t]] \subseteq Addr
         /\ Owns(call[t], misused) \subseteq LiveIn(heap, proc[t]) \ held[proc[t]]
BY DEF Typed, Owned

Sound == Typed /\ Fitting /\ Owned

LEMMA StartsSound ==
  ASSUME Sound, NEW t \in Thread, NEW c, Starts(t, c)
  PROVE  Sound'
<1> USE DEF Sound
<1>1. /\ call' \in [Thread -> CallType] /\ Fitting' /\ call'[t] = c
      /\ \A u \in Thread \ {t} : call'[u] = call[u]
  BY CallTurns DEF Starts
<1>2. /\ held' \in [Process -> SUBSET Addr] /\ held'[proc[t]] = held[proc[t]] \ {c.from}
      /\ \A p \in Process \ {proc[t]} : held'[p] = held[p]
  BY DEF Starts, Typed
<1>3. Typed'
  BY <1>1, <1>2 DEF Starts, Typed
<1>4. Owns(c, misused) \subseteq {c.from} \ {Null} /\ Owns(call[t], misused) = {}
  <2>1. Owns(c, misused) \subseteq {c.from} \ {Null}
    BY TodoDiffer DEF Starts, Owns
  <2>2. Owns(NoCall, misused) = {}
    BY DEF Owns, NoCall
  <2> QED BY <2>1, <2>2 DEF Starts
<1>5. Owned'
  <2>1. proc' = proc /\ misused' = misused /\ \A p : LiveIn(heap', p) = LiveIn(heap, p)
    BY LiveStays DEF Starts
  <2>2. {c.from} \ {Null} \subseteq held[proc[t]]
    BY DEF Starts
  <2>3. held[proc[t]] \subseteq LiveIn(heap, proc[t])
    BY OwnedOf
  <2> QED BY <1>1, <1>2, <1>4, <2>1, <2>2, <2>3, OwnersChange
<1> QED BY <1>1, <1>3, <1>5

LEMMA AnswersHeap ==
  ASSUME Typed, NEW t \in Thread, NEW lost, NEW b, NEW c, Answers(t, lost, b, c)
  PROVE  /\ heap' \in [Process -> [Addr -> {"fresh", "live", "free"}]]
         /\ \A a \in Addr : heap'[proc[t]][a] = IF a = b THEN "live"
                                                ELSE IF a \in lost THEN "free"
                                                ELSE heap[proc[t]][a]
         /\ \A p \in Process \ {proc[t]} : heap'[p] = heap[p]
<1> DEFINE h == [a \in Addr |-> IF a = b THEN "live"
                                ELSE IF a \in lost THEN "free" ELSE heap[proc[t]][a]]
<1>1. heap' = [heap EXCEPT ![proc[t]] = h] /\ proc[t] \in Process
  BY DEF Answers, Typed
<1>2. h \in [Addr -> {"fresh", "live", "free"}]
  BY DEF Typed
<1>3. \A a \in Addr : h[a] = IF a = b THEN "live"
                             ELSE IF a \in lost THEN "free" ELSE heap[proc[t]][a]
  OBVIOUS
<1> HIDE DEF h
<1> QED BY <1>1, <1>2, <1>3 DEF Typed

LEMMA AnswersSound ==
  ASSUME Sound, NEW t \in Thread, NEW lost, NEW b, NEW c, Answers(t, lost, b, c)
  PROVE  Sound'
<1> USE DEF Sound
<1>1. /\ call' \in [Thread -> CallType] /\ Fitting' /\ call'[t] = c
      /\ \A u \in Thread \ {t} : call'[u] = call[u]
  BY CallTurns DEF Answers
<1>2. /\ heap' \in [Process -> [Addr -> {"fresh", "live", "free"}]]
      /\ \A a \in Addr : heap'[proc[t]][a] = IF a = b THEN "live"
                                             ELSE IF a \in lost THEN "free"
                                             ELSE heap[proc[t]][a]
      /\ \A p \in Process \ {proc[t]} : heap'[p] = heap[p]
  BY AnswersHeap
<1>3. Typed'
  BY <1>1, <1>2 DEF Answers, Typed
<1>4. Owns(call[t], misused) = {c.from} \ {Null}
  BY TodoDiffer DEF Answers, Owns
<1>5. Owns(c, misused) = ({b, c.from} \ lost) \ {Null}
  BY TodoDiffer DEF Answers, Owns
<1>6. Owned'
  <2>1. proc' = proc /\ misused' = misused /\ held' = held
    BY DEF Answers
  <2>2. \A p \in Process \ {proc[t]} : LiveIn(heap', p) = LiveIn(heap, p)
    BY <1>2 DEF LiveIn
  <2>3. LiveIn(heap', proc[t]) = (LiveIn(heap, proc[t]) \ lost) \cup ({b} \cap Addr)
    BY <1>2 DEF LiveIn
  <2>4. lost \subseteq {c.from} \ {Null} /\ (b # Null => heap[proc[t]][b] # "live")
    BY DEF Answers
  <2>5. b \notin LiveIn(heap, proc[t])
    BY <2>4, PipelineAssumption DEF LiveIn
  <2>6. held[proc[t]] \subseteq LiveIn(heap, proc[t])
        /\ {c.from} \ {Null} \subseteq LiveIn(heap, proc[t]) \ held[proc[t]]
    BY <1>4, OwnedOf
  <2>7. b # Null => b \in Addr
    <3>1. Gain(c) \subseteq Blocks
      BY DEF Gain, Answers, CallType
    <3>2. b # c.from \/ b = Null
      BY DEF Answers
    <3>3. b # Null => b \in Gain(c)
      BY <2>4, <3>2 DEF Answers
    <3> QED BY <3>1, <3>3 DEF Blocks
  <2>8. Owns(c, misused) \subseteq LiveIn(heap', proc[t]) \ held[proc[t]]
    BY <1>5, <2>3, <2>4, <2>5, <2>6, <2>7
  <2>9. held[proc[t]] \subseteq LiveIn(heap', proc[t])
    BY <2>3, <2>4, <2>6
  <2>10. held[proc[t]] \cup Owns(c, misused)
           \subseteq held[proc[t]] \cup Owns(call[t], misused) \cup (Addr \ LiveIn(heap, proc[t]))
    BY <1>4, <1>5, <2>5, <2>7
  <2>11. LiveIn(heap, proc[t]) \ (held[proc[t]] \cup Owns(call[t], misused)) \subseteq LiveIn(heap', proc[t])
    BY <1>4, <2>3, <2>4
  <2> QED BY <1>1, <2>1, <2>2, <2>8, <2>9, <2>10, <2>11, OwnersChange
<1> QED BY <1>1, <1>3, <1>6

LEMMA GivesUpHeap ==
  ASSUME Typed, NEW t \in Thread, NEW f, GivesUp(t, f)
  PROVE  /\ heap' \in [Process -> [Addr -> {"fresh", "live", "free"}]]
         /\ \A a \in Addr : heap'[proc[t]][a] = IF a = f THEN "free" ELSE heap[proc[t]][a]
         /\ \A p \in Process \ {proc[t]} : heap'[p] = heap[p]
<1> DEFINE h == [a \in Addr |-> IF a = f THEN "free" ELSE heap[proc[t]][a]]
<1>1. heap' = [heap EXCEPT ![proc[t]] = h] /\ proc[t] \in Process
  BY DEF GivesUp, Typed
<1>2. h \in [Addr -> {"fresh", "live", "free"}]
  BY DEF Typed
<1>3. \A a \in Addr : h[a] = IF a = f THEN "free" ELSE heap[proc[t]][a]
  OBVIOUS
<1> HIDE DEF h
<1> QED BY <1>1, <1>2, <1>3 DEF Typed

LEMMA NoCallOwns == \A wrong : Owns(NoCall, wrong) = {}
BY DEF Owns, NoCall

LEMMA GivesUpSound ==
  ASSUME Sound, NEW t \in Thread, NEW f, GivesUp(t, f)
  PROVE  Sound'
<1> USE DEF Sound
<1>1. /\ call' \in [Thread -> CallType] /\ Fitting' /\ call'[t] = NoCall
      /\ \A u \in Thread \ {t} : call'[u] = call[u]
  BY CallTurns, NoCallType DEF GivesUp
<1>2. /\ heap' \in [Process -> [Addr -> {"fresh", "live", "free"}]]
      /\ \A a \in Addr : heap'[proc[t]][a] = IF a = f THEN "free" ELSE heap[proc[t]][a]
      /\ \A p \in Process \ {proc[t]} : heap'[p] = heap[p]
  BY GivesUpHeap
<1>3. Typed'
  BY <1>1, <1>2 DEF GivesUp, Typed
<1>4. Owns(call[t], misused) = {f}
  BY TodoDiffer, PipelineAssumption DEF GivesUp, Owns
<1>5. Owned'
  <2>1. proc' = proc /\ misused' = misused /\ held' = held
    BY DEF GivesUp
  <2>2. \A p \in Process \ {proc[t]} : LiveIn(heap', p) = LiveIn(heap, p)
    BY <1>2 DEF LiveIn
  <2>3. LiveIn(heap', proc[t]) = LiveIn(heap, proc[t]) \ {f}
    BY <1>2 DEF LiveIn
  <2>4. held[proc[t]] \subseteq LiveIn(heap, proc[t]) /\ {f} \subseteq LiveIn(heap, proc[t]) \ held[proc[t]]
    BY <1>4, OwnedOf
  <2> QED BY <1>1, <1>4, <2>1, <2>2, <2>3, <2>4, NoCallOwns, OwnersChange
<1> QED BY <1>1, <1>3, <1>5

LEMMA ReturnsSound ==
  ASSUME Sound, NEW t \in Thread, Returns(t)
  PROVE  Sound'
<1> USE DEF Sound
<1>1. /\ call' \in [Thread -> CallType] /\ Fitting' /\ call'[t] = NoCall
      /\ \A u \in Thread \ {t} : call'[u] = call[u]
  BY CallTurns, NoCallType DEF Returns
<1>2. call[t] \in CallType /\ call[t].op # "none" /\ proc[t] \in Process
  <2>1. call[t] \in CallType /\ proc[t] \in Process
    BY DEF Typed
  <2>2. Fits(call[t]) /\ call[t].todo = <<"publish">>
    BY DEF Fitting, Returns
  <2>3. call[t] # NoCall
    <3>1. NoCall.todo = << >>
      BY DEF NoCall
    <3> QED BY <2>2, <3>1, TodoDiffer
  <2> QED BY <2>1, <2>2, <2>3 DEF Fits
<1>3. /\ queue' \in Seq(Event) /\ Len(queue') <= Cap
      /\ blurred' \subseteq Addr /\ blurred \subseteq blurred'
  BY <1>2, EventOfCall, SendsTyped DEF Returns
<1>4. Owns(call[t], misused) = Gain(call[t])
  BY TodoDiffer DEF Returns, Owns
<1>5. Gain(call[t]) \subseteq LiveIn(heap, proc[t]) /\ held[proc[t]] \subseteq LiveIn(heap, proc[t])
  BY <1>4, OwnedOf
<1>6. /\ held' \in [Process -> SUBSET Addr]
      /\ held'[proc[t]] = held[proc[t]] \cup Gain(call[t])
      /\ \A p \in Process \ {proc[t]} : held'[p] = held[p]
  <2>1. Gain(call[t]) \in SUBSET Addr
    BY <1>5 DEF LiveIn
  <2>2. held' = [held EXCEPT ![proc[t]] = held[proc[t]] \cup Gain(call[t])]
    BY DEF Returns
  <2> QED BY <1>2, <2>1, <2>2 DEF Typed
<1>7. Typed'
  BY <1>1, <1>3, <1>6 DEF Returns, Typed
<1>8. Owned'
  <2>1. proc' = proc /\ misused' = misused /\ \A p : LiveIn(heap', p) = LiveIn(heap, p)
    BY LiveStays DEF Returns
  <2> QED BY <1>1, <1>4, <1>5, <1>6, <2>1, NoCallOwns, OwnersChange
<1> QED BY <1>1, <1>7, <1>8

LEMMA AnnouncesSound ==
  ASSUME Sound, NEW t \in Thread, NEW c, Announces(t, c)
  PROVE  Sound'
<1> USE DEF Sound
<1>1. /\ call' \in [Thread -> CallType] /\ Fitting' /\ call'[t] = c
      /\ \A u \in Thread \ {t} : call'[u] = call[u]
  BY CallTurns DEF Announces
<1>2. call[t] \in CallType /\ call[t].op = "free"
  BY DEF Typed, Announces
<1>3. /\ queue' \in Seq(Event) /\ Len(queue') <= Cap
      /\ blurred' \subseteq Addr /\ blurred \subseteq blurred'
  BY <1>2, EventOfCall, SendsTyped DEF Announces
<1>4. Typed'
  BY <1>1, <1>3 DEF Announces, Typed
<1>5. Owns(c, misused) = Owns(call[t], misused)
  BY TodoDiffer DEF Announces, Owns
<1>6. Owned'
  <2>1. /\ proc' = proc /\ misused' = misused /\ held' = held
        /\ \A p : LiveIn(heap', p) = LiveIn(heap, p)
    BY LiveStays DEF Announces
  <2>2. /\ held[proc[t]] \subseteq LiveIn(heap, proc[t])
        /\ Owns(call[t], misused) \subseteq LiveIn(heap, proc[t]) \ held[proc[t]]
    BY OwnedOf
  <2> QED BY <1>1, <1>5, <2>1, <2>2, OwnersChange
<1> QED BY <1>1, <1>4, <1>6

LEMMA MistakesSound ==
  ASSUME Sound, NEW t \in Thread, NEW a \in Addr, NEW c, Mistakes(t, a, c)
  PROVE  Sound'
<1> USE DEF Sound
<1>1. /\ call' \in [Thread -> CallType] /\ Fitting' /\ call'[t] = c
      /\ \A u \in Thread \ {t} : call'[u] = call[u]
  BY CallTurns DEF Mistakes
<1>2. PICK e \in Event : Sends(e)
  BY DEF Mistakes
<1>3. /\ queue' \in Seq(Event) /\ Len(queue') <= Cap
      /\ blurred' \subseteq Addr /\ blurred \subseteq blurred'
  BY <1>2, SendsTyped
<1>4. Typed'
  BY <1>1, <1>3 DEF Mistakes, Typed
<1>5. Owns(c, misused') = {} /\ Owns(call[t], misused) = {}
  BY TodoDiffer DEF Mistakes, Owns, NoCall
<1>6. \A k : Owns(k, misused') \subseteq Owns(k, misused)
  BY DEF Mistakes, Owns
<1>7. Owned'
  <2>1. /\ proc' = proc /\ held' = held /\ \A p : LiveIn(heap', p) = LiveIn(heap, p)
    BY LiveStays DEF Mistakes
  <2>2. held[proc[t]] \subseteq LiveIn(heap, proc[t])
    BY OwnedOf
  <2> QED BY <1>1, <1>5, <1>6, <2>1, <2>2, OwnersChange
<1> QED BY <1>1, <1>4, <1>7

(* A step of the reader, of an aborted process, or none.                   *)
LEMMA QuietSound ==
  ASSUME Sound, UNCHANGED <<proc, heap, held, call, calls, misused, blurred>>,
         aborted' \subseteq Process, queue' \in Seq(Event), Len(queue') <= Cap
  PROVE  Sound'
<1> USE DEF Sound
<1>1. Typed' /\ Fitting'
  BY DEF Typed, Fitting
<1>2. \A p : LiveIn(heap', p) = LiveIn(heap, p)
  BY LiveStays
<1>3. Owned'
  BY <1>2 DEF Owned
<1> QED BY <1>1, <1>3

LEMMA AbortQuiet ==
  ASSUME Typed, NEW t \in Thread, RealAbort(t)
  PROVE  /\ aborted' \subseteq Process
         /\ UNCHANGED <<proc, heap, held, call, calls, misused, blurred, queue, oracle>>
         /\ misused # {}
BY DEF RealAbort, Typed, ring, monitor

-----------------------------------------------------------------------------
(* An address that is not blurred has one owner                            *)

LEMMA OneOwner ==
  ASSUME Sound, NEW a \in Addr, SharpAt(a), NEW t \in Thread, a \in Owns(call[t], misused)
  PROVE  /\ heap[proc[t]][a] = "live" /\ Somewhere(heap, a)
         /\ \A u \in Thread \ {t} : a \notin Owns(call[u], misused)
         /\ \A u \in Thread : ~ GivenBack(call[u], a)
<1>1. proc[t] \in Process /\ heap[proc[t]][a] = "live"
  BY DEF Sound, Typed, Owned, LiveIn
<1>2. Somewhere(heap, a)
  BY <1>1 DEF Somewhere
<1>3. \A u \in Thread : ~ GivenBack(call[u], a)
  BY <1>2 DEF SharpAt
<1>4. ASSUME NEW u \in Thread \ {t}, a \in Owns(call[u], misused) PROVE FALSE
  <2>1. proc[u] \in Process /\ heap[proc[u]][a] = "live"
    BY <1>4 DEF Sound, Typed, Owned, LiveIn
  <2>2. proc[u] = proc[t]
    BY <1>1, <2>1 DEF SharpAt
  <2>3. Owns(call[t], misused) \cap Owns(call[u], misused) = {}
    BY <2>2 DEF Sound, Owned
  <2> QED BY <1>4, <2>3
<1> QED BY <1>1, <1>2, <1>3, <1>4

LEMMA GainedIsOwned ==
  ASSUME NEW c, NEW a \in Addr, Gained(c, a)
  PROVE  \A wrong : a \in Owns(c, wrong)
BY TodoDiffer, PipelineAssumption DEF Gained, Owns, Gain

LEMMA AnnouncedIsOwned ==
  ASSUME NEW c, NEW a \in Addr, Announced(c, a)
  PROVE  \A wrong : a \notin wrong => a \in Owns(c, wrong)
BY TodoDiffer, PipelineAssumption DEF Announced, Owns

(* The call of t has no part in what is between heap and events.           *)
Neutral(c) == c.todo # <<"publish">>

LEMMA NeutralHasNone ==
  ASSUME NEW c, Neutral(c)
  PROVE  \A a : ~ Gained(c, a) /\ ~ GivenBack(c, a)
BY DEF Neutral, Gained, GivenBack

LEMMA SharpKeeps ==
  ASSUME Sharp, NEW t \in Thread, Neutral(call'[t]),
         \A u \in Thread \ {t} : call'[u] = call[u], blurred \subseteq blurred',
         \A a \in Addr, p \in Process :
           /\ heap'[p][a] # "fresh" => heap[p][a] # "fresh"
           /\ heap'[p][a] = "live" => heap[p][a] = "live"
  PROVE  Sharp'
<1> SUFFICES ASSUME NEW a \in Addr \ blurred' PROVE SharpAt(a)'
  BY DEF Sharp
<1>1. SharpAt(a)
  BY DEF Sharp
<1>2. ~ Gained(call'[t], a) /\ ~ GivenBack(call'[t], a)
  BY NeutralHasNone
<1>3. ~ Somewhere(heap, a) => ~ Somewhere(heap', a)
  BY DEF Somewhere
<1>4. \A p, q \in Process : heap'[p][a] # "fresh" /\ heap'[q][a] # "fresh" => p = q
  BY <1>1 DEF SharpAt
<1>5. ASSUME NEW u \in Thread, GivenBack(call'[u], a)
      PROVE  ~ Somewhere(heap', a) /\ \A v \in Thread \ {u} : ~ GivenBack(call'[v], a)
  <2>1. u # t /\ GivenBack(call[u], a)
    BY <1>2, <1>5
  <2>2. ~ Somewhere(heap, a) /\ \A v \in Thread \ {u} : ~ GivenBack(call[v], a)
    BY <1>1, <2>1 DEF SharpAt
  <2> QED BY <1>2, <1>3, <2>1, <2>2
<1>6. \A u \in Thread : Gained(call'[u], a) /\ call'[u].from # Null => call'[u].size # 0
  BY <1>1, <1>2 DEF SharpAt
<1> QED BY <1>4, <1>5, <1>6 DEF SharpAt

LEMMA CallChanges ==
  ASSUME Sound, NEW t \in Thread, NEW c, Turns(t, c)
  PROVE  call'[t] = c /\ \A u \in Thread \ {t} : call'[u] = call[u]
BY DEF Turns, Sound, Typed

LEMMA NoCallNeutral == Neutral(NoCall) /\ NoCall.todo = << >>
BY TodoDiffer DEF Neutral, NoCall

LEMMA OthersSharp ==
  ASSUME Sound, Sharp, NEW t \in Thread,
         \/ \E c : Starts(t, c) \/ Announces(t, c)
         \/ \E f : GivesUp(t, f)
         \/ Returns(t)
         \/ \E a \in Addr : \E c : Mistakes(t, a, c)
  PROVE  Sharp'
<1> DEFINE NoNewUse == \A a \in Addr, p \in Process :
                     /\ heap'[p][a] # "fresh" => heap[p][a] # "fresh"
                     /\ heap'[p][a] = "live" => heap[p][a] = "live"
           Rest == \A u \in Thread \ {t} : call'[u] = call[u]
<1>1. ASSUME NEW c, Starts(t, c)
      PROVE  Neutral(call'[t]) /\ Rest /\ blurred \subseteq blurred' /\ NoNewUse
  BY <1>1, CallChanges, TodoDiffer DEF Starts, Neutral
<1>2. ASSUME NEW c, Announces(t, c)
      PROVE  Neutral(call'[t]) /\ Rest /\ blurred \subseteq blurred' /\ NoNewUse
  BY <1>2, CallChanges, TodoDiffer DEF Announces, Sends, Neutral
<1>3. ASSUME NEW f, GivesUp(t, f)
      PROVE  Neutral(call'[t]) /\ Rest /\ blurred \subseteq blurred' /\ NoNewUse
  <2>1. Neutral(call'[t]) /\ Rest /\ blurred \subseteq blurred'
    BY <1>3, CallChanges, NoCallNeutral DEF GivesUp
  <2>2. /\ \A a \in Addr : heap'[proc[t]][a] = IF a = f THEN "free" ELSE heap[proc[t]][a]
        /\ \A p \in Process \ {proc[t]} : heap'[p] = heap[p]
    BY <1>3, GivesUpHeap DEF Sound
  <2>3. Owns(call[t], misused) = {f} /\ f \in Addr
    BY <1>3, TodoDiffer, PipelineAssumption DEF GivesUp, Owns
  <2>4. heap[proc[t]][f] = "live"
    BY <2>3 DEF Sound, Owned, LiveIn
  <2>5. NoNewUse
    BY <2>2, <2>4
  <2> QED BY <2>1, <2>5
<1>4. ASSUME Returns(t)
      PROVE  Neutral(call'[t]) /\ Rest /\ blurred \subseteq blurred' /\ NoNewUse
  BY <1>4, CallChanges, NoCallNeutral DEF Returns, Sends
<1>5. ASSUME NEW a \in Addr, NEW c, Mistakes(t, a, c)
      PROVE  Neutral(call'[t]) /\ Rest /\ blurred \subseteq blurred' /\ NoNewUse
  BY <1>5, CallChanges, TodoDiffer DEF Mistakes, Sends, Neutral
<1> QED BY <1>1, <1>2, <1>3, <1>4, <1>5, SharpKeeps

LEMMA AnswersSharp ==
  ASSUME Sound, Sharp, NEW t \in Thread, NEW lost, NEW b, NEW c, Answers(t, lost, b, c)
  PROVE  Sharp'
<1> SUFFICES ASSUME NEW a \in Addr \ blurred' PROVE SharpAt(a)'
  BY DEF Sharp
<1>1. a \in Addr \ blurred /\ SharpAt(a) /\ proc[t] \in Process
  BY DEF Sharp, Answers, Sound, Typed
<1>2. call'[t] = c /\ \A u \in Thread \ {t} : call'[u] = call[u]
  BY CallChanges DEF Answers
<1>3. /\ heap'[proc[t]][a] = IF a = b THEN "live"
                             ELSE IF a \in lost THEN "free" ELSE heap[proc[t]][a]
      /\ \A p \in Process \ {proc[t]} : heap'[p] = heap[p]
  BY <1>1, AnswersHeap DEF Sound
<1>4. (GivenBack(c, a) <=> a \in lost) /\ (Gained(c, a) <=> a = b)
  BY DEF Answers
<1>5. ~ GivenBack(call[t], a) /\ ~ Gained(call[t], a)
  BY TodoDiffer, NeutralHasNone DEF Answers, Neutral
<1>6. Owns(call[t], misused) = {c.from} \ {Null} /\ lost \subseteq {c.from} \ {Null}
  BY TodoDiffer DEF Answers, Owns
<1>7. CASE a = b
  <2>1. /\ ~ Ambiguous(t, a) /\ (c.from # Null => c.size # 0)
        /\ heap[proc[t]][a] # "live"
    BY <1>7, PipelineAssumption DEF Answers
  <2>2. /\ \A p \in Process \ {proc[t]} : heap[p][a] = "fresh"
        /\ \A u \in Thread \ {t} : ~ GivenBack(call[u], a)
    BY <2>1 DEF Ambiguous, GivenBack
  <2>3. a \notin lost
    BY <1>7, PipelineAssumption DEF Answers
  <2>4. \A u \in Thread : ~ GivenBack(call'[u], a)
    BY <1>2, <1>4, <2>2, <2>3
  <2>5. \A p, q \in Process : heap'[p][a] # "fresh" /\ heap'[q][a] # "fresh" => p = q
    BY <1>3, <2>2
  <2>6. \A u \in Thread : Gained(call'[u], a) /\ call'[u].from # Null => call'[u].size # 0
    BY <1>1, <1>2, <2>1 DEF SharpAt
  <2> QED BY <2>4, <2>5, <2>6 DEF SharpAt
<1>8. CASE a # b /\ a \in lost
  <2>1. /\ heap[proc[t]][a] = "live"
        /\ \A u \in Thread : ~ GivenBack(call[u], a)
    BY <1>1, <1>6, <1>8, OneOwner
  <2>2. \A p \in Process \ {proc[t]} : heap[p][a] = "fresh"
    BY <1>1, <2>1 DEF SharpAt
  <2>3. ~ Somewhere(heap', a)
    BY <1>3, <1>8, <2>2 DEF Somewhere
  <2>4. \A p, q \in Process : heap'[p][a] # "fresh" /\ heap'[q][a] # "fresh" => p = q
    BY <1>3, <2>2
  <2>5. \A u \in Thread : Gained(call'[u], a) /\ call'[u].from # Null => call'[u].size # 0
    BY <1>1, <1>2, <1>4, <1>8 DEF SharpAt
  <2>6. \A u \in Thread \ {t} : ~ GivenBack(call'[u], a)
    BY <1>2, <2>1
  <2> QED BY <2>3, <2>4, <2>5, <2>6 DEF SharpAt
<1>9. CASE a # b /\ a \notin lost
  <2>1. \A p \in Process : heap'[p][a] = heap[p][a]
    BY <1>3, <1>9
  <2>2. \A u \in Thread : /\ GivenBack(call'[u], a) <=> GivenBack(call[u], a)
                          /\ Gained(call'[u], a) => u # t
    BY <1>2, <1>4, <1>5, <1>9
  <2>3. Somewhere(heap', a) <=> Somewhere(heap, a)
    BY <2>1 DEF Somewhere
  <2>4. \A p, q \in Process : heap'[p][a] # "fresh" /\ heap'[q][a] # "fresh" => p = q
    BY <1>1, <2>1 DEF SharpAt
  <2>5. \A u \in Thread : Gained(call'[u], a) /\ call'[u].from # Null => call'[u].size # 0
    BY <1>1, <1>2, <2>2 DEF SharpAt
  <2>6. ASSUME NEW u \in Thread, GivenBack(call'[u], a)
        PROVE  ~ Somewhere(heap', a) /\ \A v \in Thread \ {u} : ~ GivenBack(call'[v], a)
    BY <1>1, <2>2, <2>3, <2>6 DEF SharpAt
  <2> QED BY <2>4, <2>5, <2>6 DEF SharpAt
<1> QED BY <1>7, <1>8, <1>9

LEMMA StillSharp ==
  ASSUME Sharp, UNCHANGED <<heap, call, blurred>>
  PROVE  Sharp'
<1>1. ASSUME NEW a \in Addr PROVE SharpAt(a)' <=> SharpAt(a)
  BY DEF SharpAt
<1> QED BY <1>1 DEF Sharp

-----------------------------------------------------------------------------
Base == Sound /\ Sharp /\ IsOracle(oracle)

LEMMA InitBase == Init => Base
<1> SUFFICES ASSUME Init PROVE Base
  OBVIOUS
<1>1. blurred \subseteq Addr
  BY PipelineAssumption DEF Init
<1>2. /\ proc \in [Thread -> Process] /\ held = [p \in Process |-> blurred]
      /\ heap = [p \in Process |-> [a \in Addr |-> IF a \in blurred THEN "live" ELSE "fresh"]]
      /\ call = [t \in Thread |-> NoCall] /\ calls = 0 /\ misused = {} /\ aborted = {}
      /\ queue = << >>
  BY DEF Init, Ring!Init
<1>3. heap \in [Process -> [Addr -> {"fresh", "live", "free"}]]
  BY <1>2
<1>4. queue \in Seq(Event) /\ Len(queue) <= Cap
  BY <1>2, PipelineAssumption
<1>5. call \in [Thread -> CallType] /\ Fitting
  BY <1>2, NoCallType DEF Fitting
<1>6. Typed
  BY <1>1, <1>2, <1>3, <1>4, <1>5, PipelineAssumption DEF Typed
<1>7. Owned
  <2>1. \A t \in Thread : Owns(call[t], misused) = {}
    BY <1>2, NoCallOwns
  <2>2. \A p \in Process : held[p] \subseteq LiveIn(heap, p)
    BY <1>1, <1>2 DEF LiveIn
  <2> QED BY <2>1, <2>2 DEF Owned
<1>8. Sharp
  <2> SUFFICES ASSUME NEW a \in Addr \ blurred PROVE SharpAt(a)
    BY DEF Sharp
  <2>1. \A p \in Process : heap[p][a] = "fresh"
    BY <1>2
  <2>2. \A t \in Thread : ~ GivenBack(call[t], a) /\ ~ Gained(call[t], a)
    BY <1>2, NoCallNeutral, NeutralHasNone
  <2> QED BY <2>1, <2>2 DEF SharpAt
<1>9. IsOracle(oracle)
  <2>1. oracle = Oracle!NewOracle
    BY DEF Init, Oracle!Init
  <2>2. IsChunk(Oracle!NoChunk)
    BY DEF IsChunk, Oracle!NoChunk
  <2>3. /\ oracle = [chunks |-> oracle.chunks, bins |-> oracle.bins,
                     bin_index |-> oracle.bin_index, counts |-> oracle.counts,
                     alerts |-> oracle.alerts, next_index |-> oracle.next_index,
                     total_events |-> oracle.total_events]
        /\ oracle.chunks = [a \in Addr |-> Oracle!NoChunk] /\ oracle.alerts = << >>
    BY <2>1 DEF Oracle!NewOracle
  <2> QED BY <2>2, <2>3, PipelineAssumption DEF IsOracle
<1> QED BY <1>5, <1>6, <1>7, <1>8, <1>9 DEF Base, Sound

LEMMA DeliverTyped ==
  ASSUME Typed, IsOracle(oracle), Deliver
  PROVE  /\ queue' \in Seq(Event) /\ Len(queue') = Len(queue) - 1 /\ Len(queue') <= Cap
         /\ Len(queue) \in Nat \ {0}
         /\ \A i \in 1 .. Len(queue') : queue'[i] = queue[i + 1]
         /\ queue[1] \in Event /\ Learns(oracle, oracle', queue[1])
         /\ UNCHANGED <<proc, heap, held, call, calls, misused, aborted, blurred>>
<1>1. queue \in Seq(Event) /\ Len(queue) <= Cap
  BY DEF Typed
<1>2. /\ queue # << >> /\ queue' = Tail(queue) /\ Learns(oracle, oracle', Head(queue))
      /\ UNCHANGED <<proc, heap, held, call, calls, misused, aborted, blurred>>
  BY <1>1, DeliverLearns
<1>3. Head(queue) = queue[1]
  OBVIOUS
<1>4. /\ Tail(queue) \in Seq(Event) /\ Len(Tail(queue)) = Len(queue) - 1
      /\ \A i \in 1 .. Len(Tail(queue)) : Tail(queue)[i] = queue[i + 1]
      /\ Len(queue) \in Nat \ {0} /\ queue[1] \in Event
  BY <1>1, <1>2, HeadTailProperties, LenProperties, EmptySeq
<1>5. Len(queue) - 1 <= Cap
  BY <1>1, <1>4, PipelineAssumption
<1> QED BY <1>2, <1>3, <1>4, <1>5

LEMMA NextBase == Base /\ [Next]_vars => Base'
<1> SUFFICES ASSUME Base, [Next]_vars PROVE Base'
  OBVIOUS
<1>0. Typed /\ Fitting /\ Owned /\ Sound /\ Sharp /\ IsOracle(oracle)
  BY DEF Base, Sound
<1>1. ASSUME NEW t \in Thread, \E c : Starts(t, c) \/ Announces(t, c) PROVE Base'
  BY <1>0, <1>1, StartsSound, AnnouncesSound, OthersSharp DEF Base, Starts, Announces
<1>2. ASSUME NEW t \in Thread, \E lost, b, c : Answers(t, lost, b, c) PROVE Base'
  <2>1. PICK lost, b, c : Answers(t, lost, b, c)
    BY <1>2
  <2>2. Sound' /\ Sharp'
    BY <1>0, <2>1, AnswersSound, AnswersSharp
  <2>3. oracle' = oracle
    BY <2>1 DEF Answers
  <2> QED BY <1>0, <2>2, <2>3 DEF Base
<1>3. ASSUME NEW t \in Thread, \E f : GivesUp(t, f) PROVE Base'
  BY <1>0, <1>3, GivesUpSound, OthersSharp DEF Base, GivesUp
<1>4. ASSUME NEW t \in Thread, Returns(t) PROVE Base'
  BY <1>0, <1>4, ReturnsSound, OthersSharp DEF Base, Returns
<1>5. ASSUME NEW t \in Thread, NEW a \in Addr, \E c : Mistakes(t, a, c) PROVE Base'
  BY <1>0, <1>5, MistakesSound, OthersSharp DEF Base, Mistakes
<1>6. ASSUME NEW t \in Thread, RealAbort(t) PROVE Base'
  <2>1. queue \in Seq(Event) /\ Len(queue) <= Cap
    BY <1>0 DEF Typed
  <2> QED BY <1>0, <1>6, <2>1, AbortQuiet, QuietSound, StillSharp DEF Base
<1>7. CASE Deliver
  <2>1. aborted \subseteq Process
    BY <1>0 DEF Typed
  <2> QED BY <1>0, <1>7, <2>1, DeliverTyped, QuietSound, StillSharp DEF Base, Learns
<1>8. CASE UNCHANGED vars
  <2>1. UNCHANGED <<proc, heap, held, call, calls, misused, aborted, blurred, queue, oracle>>
    BY <1>8 DEF vars, program, ring, monitor
  <2>2. aborted \subseteq Process /\ queue \in Seq(Event) /\ Len(queue) <= Cap
    BY <1>0 DEF Typed
  <2> QED BY <1>0, <2>1, <2>2, QuietSound, StillSharp DEF Base
<1> QED BY <1>0, <1>1, <1>2, <1>3, <1>4, <1>5, <1>6, <1>7, <1>8, StepCases

-----------------------------------------------------------------------------
(* What the oracle will think of an address when it has applied the events *)
(* of the ring: the history h has what it thinks after each of them.       *)

Belief == {"unknown", "live", "gone"}

Foresees(h, a) ==
  /\ h \in [0 .. Len(queue) -> Belief]
  /\ h[0] = Thinks(oracle, a)
  /\ \A i \in 1 .. Len(queue) : h[i] = After(h[i - 1], queue[i], a)

(* The block is one, and the program has it or is about to say it has not. *)
Expected(a) ==
  \/ /\ Somewhere(heap, a)
     /\ \A t \in Thread : ~ Gained(call[t], a) /\ ~ Announced(call[t], a)
  \/ \E t \in Thread : GivenBack(call[t], a)

Heard(a) ==
  \/ \E p \in Process : heap[p][a] = "free"
  \/ \E t \in Thread : Announced(call[t], a)

(* The events of the ring make sense to the oracle.                        *)
Tells(a, h) ==
  /\ Foresees(h, a)
  /\ \A i \in 1 .. Len(queue) : Releases(queue[i], a) => h[i - 1] = "live"
  /\ Expected(a) <=> h[Len(queue)] = "live"
  /\ Heard(a) => h[Len(queue)] # "unknown"

Told == misused = {} => \A a \in Addr \ blurred : \E h : Tells(a, h)

-----------------------------------------------------------------------------
(* The ring, from the side of one address                                  *)

(* An event e is published as the expectation changes.                     *)
Says(e, a) ==
  /\ Releases(e, a) => Expected(a)
  /\ Obtains(e, a) => Expected(a)'
  /\ Releases(e, a) /\ ~ Obtains(e, a) => ~ Expected(a)'
  /\ ~ Releases(e, a) /\ ~ Obtains(e, a) => (Expected(a)' <=> Expected(a))
  /\ Heard(a)' => Heard(a) \/ Releases(e, a)

LEMMA AfterBelief ==
  ASSUME NEW belief \in Belief, NEW e, NEW a
  PROVE  After(belief, e, a) \in Belief
BY DEF After, Belief

LEMMA KeptTold ==
  ASSUME NEW a, NEW h, Tells(a, h), queue' = queue, oracle' = oracle,
         Expected(a)' <=> Expected(a), Heard(a)' => Heard(a) \/ Expected(a)
  PROVE  Tells(a, h)'
<1>1. Foresees(h, a)'
  BY DEF Tells, Foresees
<1>2. \A i \in 1 .. Len(queue') : Releases(queue'[i], a) => h[i - 1] = "live"
  BY DEF Tells
<1>3. Expected(a)' <=> h[Len(queue')] = "live"
  BY DEF Tells
<1>4. Heard(a)' => h[Len(queue')] # "unknown"
  BY DEF Tells
<1> QED BY <1>1, <1>2, <1>3, <1>4 DEF Tells

(* The history goes on.                                                    *)
Longer(h, e, a) ==
  [i \in 0 .. Len(queue) + 1 |-> IF i <= Len(queue) THEN h[i]
                                 ELSE After(h[Len(queue)], e, a)]

LEMMA HistoryGrows ==
  ASSUME queue \in Seq(Event), NEW e \in Event, NEW a, NEW h, Foresees(h, a),
         queue' = Append(queue, e), oracle' = oracle
  PROVE  /\ Len(queue') = Len(queue) + 1 /\ Len(queue) \in Nat
         /\ \A i \in 1 .. Len(queue) : queue'[i] = queue[i]
         /\ queue'[Len(queue) + 1] = e
         /\ \E g : /\ Foresees(g, a)'
                  /\ \A i \in 0 .. Len(queue) : g[i] = h[i]
                  /\ g[Len(queue) + 1] = After(h[Len(queue)], e, a)
<1> DEFINE n == Len(queue)
<1>0. PICK g : g = Longer(h, e, a)
  OBVIOUS
<1>1. /\ Len(queue') = n + 1 /\ n \in Nat /\ queue'[n + 1] = e
      /\ \A i \in 1 .. n : queue'[i] = queue[i]
  BY AppendProperties, LenProperties
<1>2. /\ h \in [0 .. n -> Belief] /\ h[0] = Thinks(oracle, a)
      /\ \A i \in 1 .. n : h[i] = After(h[i - 1], queue[i], a)
  BY DEF Foresees
<1>3. /\ DOMAIN g = 0 .. n + 1 /\ g = [i \in 0 .. n + 1 |-> g[i]]
      /\ \A i \in 0 .. n : g[i] = h[i]
      /\ g[n + 1] = After(h[n], e, a)
  BY <1>0, <1>1 DEF Longer
<1> HIDE DEF n
<1>4. After(h[n], e, a) \in Belief
  BY <1>1, <1>2, AfterBelief
<1>5. \A i \in 0 .. n + 1 : g[i] \in Belief
  <2> SUFFICES ASSUME NEW i \in 0 .. n + 1 PROVE g[i] \in Belief
    OBVIOUS
  <2>1. i \in 0 .. n \/ i = n + 1
    BY <1>1
  <2> QED BY <2>1, <1>2, <1>3, <1>4
<1>6. g \in [0 .. n + 1 -> Belief]
  BY <1>3, <1>5
<1>7. g[0] = Thinks(oracle, a)
  <2>1. 0 \in 0 .. n
    BY <1>1
  <2> QED BY <2>1, <1>2, <1>3
<1>8. ASSUME NEW i \in 1 .. n + 1 PROVE g[i] = After(g[i - 1], queue'[i], a)
  <2>1. CASE i = n + 1
    <3>1. i - 1 = n /\ n \in 0 .. n
      BY <1>1, <2>1
    <3>2. g[n] = h[n]
      BY <1>3, <3>1
    <3> QED BY <2>1, <3>1, <3>2, <1>1, <1>3
  <2>2. CASE i # n + 1
    <3>1. i \in 1 .. n /\ i \in 0 .. n /\ i - 1 \in 0 .. n
      BY <1>1, <2>2
    <3>2. g[i] = h[i] /\ g[i - 1] = h[i - 1] /\ queue'[i] = queue[i]
      BY <1>1, <1>3, <3>1
    <3> QED BY <1>2, <3>1, <3>2
  <2> QED BY <2>1, <2>2
<1>9. Foresees(g, a)'
  BY <1>1, <1>6, <1>7, <1>8 DEF Foresees
<1> QED BY <1>1, <1>3, <1>9 DEF n

LEMMA SentTold ==
  ASSUME queue \in Seq(Event), NEW e \in Event, NEW a, NEW h, Tells(a, h),
         queue' = Append(queue, e), oracle' = oracle, Says(e, a)
  PROVE  \E g : Tells(a, g)'
<1> DEFINE n == Len(queue)
<1>0. Foresees(h, a)
  BY DEF Tells
<1>1a. PICK g : /\ Foresees(g, a)'
               /\ \A i \in 0 .. n : g[i] = h[i]
               /\ g[n + 1] = After(h[n], e, a)
  BY <1>0, HistoryGrows
<1>1. /\ Foresees(g, a)' /\ Len(queue') = n + 1 /\ n \in Nat
      /\ \A i \in 1 .. n : queue'[i] = queue[i]
      /\ queue'[n + 1] = e
      /\ \A i \in 0 .. n : g[i] = h[i]
      /\ g[n + 1] = After(h[n], e, a)
  BY <1>0, <1>1a, HistoryGrows
<1>2. /\ Expected(a) <=> h[n] = "live"
      /\ Heard(a) => h[n] # "unknown"
      /\ \A i \in 1 .. n : Releases(queue[i], a) => h[i - 1] = "live"
  BY DEF Tells
<1> HIDE DEF n
<1>3. ASSUME NEW i \in 1 .. n + 1, Releases(queue'[i], a) PROVE g[i - 1] = "live"
  <2>1. CASE i = n + 1
    <3>1. i - 1 = n /\ n \in 0 .. n /\ queue'[i] = e
      BY <1>1, <2>1
    <3> QED BY <3>1, <1>1, <1>2, <1>3 DEF Says
  <2>2. CASE i # n + 1
    <3>1. i \in 1 .. n /\ i - 1 \in 0 .. n
      BY <1>1, <2>2
    <3> QED BY <3>1, <1>1, <1>2, <1>3
  <2> QED BY <2>1, <2>2
<1>4. Expected(a)' <=> g[n + 1] = "live"
  BY <1>1, <1>2 DEF Says, After, Releases
<1>5. Heard(a)' => g[n + 1] # "unknown"
  BY <1>1, <1>2 DEF Says, After, Releases
<1>6. Tells(a, g)'
  BY <1>1, <1>3, <1>4, <1>5 DEF Tells
<1> QED BY <1>6

(* The history loses its first event.                                      *)
Shorter(h) == [i \in 0 .. Len(queue) - 1 |-> h[i + 1]]

LEMMA HistoryShrinks ==
  ASSUME Typed, IsOracle(oracle), Deliver, NEW a \in Addr, NEW h, Foresees(h, a)
  PROVE  /\ Len(queue') = Len(queue) - 1 /\ Len(queue) \in Nat \ {0}
         /\ \A i \in 1 .. Len(queue) - 1 : queue'[i] = queue[i + 1]
         /\ \E g : /\ Foresees(g, a)'
                  /\ \A i \in 0 .. Len(queue) - 1 : g[i] = h[i + 1]
<1> DEFINE n == Len(queue)
<1>0. PICK g : g = Shorter(h)
  OBVIOUS
<1>1. /\ Len(queue') = n - 1 /\ n \in Nat \ {0}
      /\ \A i \in 1 .. n - 1 : queue'[i] = queue[i + 1]
      /\ Learns(oracle, oracle', queue[1])
  BY DeliverTyped
<1>2. /\ h \in [0 .. n -> Belief] /\ h[0] = Thinks(oracle, a)
      /\ \A i \in 1 .. n : h[i] = After(h[i - 1], queue[i], a)
  BY DEF Foresees
<1>3. g = [i \in 0 .. n - 1 |-> g[i]] /\ \A i \in 0 .. n - 1 : g[i] = h[i + 1]
  BY <1>0 DEF Shorter
<1> HIDE DEF n
<1>4. \A i \in 0 .. n - 1 : i + 1 \in 0 .. n /\ i + 1 \in 1 .. n
  BY <1>1
<1>5. g \in [0 .. n - 1 -> Belief]
  BY <1>2, <1>3, <1>4
<1>6. g[0] = Thinks(oracle', a)
  <2>1. g[0] = h[1] /\ 1 \in 1 .. n /\ 1 - 1 = 0
    BY <1>1, <1>3
  <2>2. h[1] = After(h[0], queue[1], a)
    BY <1>2, <2>1
  <2> QED BY <1>1, <1>2, <2>1, <2>2 DEF Learns
<1>7. ASSUME NEW i \in 1 .. n - 1 PROVE g[i] = After(g[i - 1], queue'[i], a)
  <2>1. /\ i \in 0 .. n - 1 /\ i - 1 \in 0 .. n - 1 /\ i + 1 \in 1 .. n
        /\ (i - 1) + 1 = i /\ (i + 1) - 1 = i
    BY <1>1
  <2>2. g[i] = h[i + 1] /\ g[i - 1] = h[i] /\ queue'[i] = queue[i + 1]
    BY <1>1, <1>3, <2>1
  <2>3. h[i + 1] = After(h[i], queue[i + 1], a)
    BY <1>2, <2>1
  <2> QED BY <2>2, <2>3
<1>8. Foresees(g, a)'
  BY <1>1, <1>5, <1>6, <1>7 DEF Foresees
<1> QED BY <1>1, <1>3, <1>8 DEF n

LEMMA ExpectedUnchanged ==
  ASSUME UNCHANGED <<heap, call>>, NEW a
  PROVE  (Expected(a)' <=> Expected(a)) /\ (Heard(a)' <=> Heard(a))
BY DEF Expected, Heard

LEMMA DeliveredTold ==
  ASSUME Typed, IsOracle(oracle), Deliver, NEW a \in Addr, NEW h, Tells(a, h)
  PROVE  \E g : Tells(a, g)'
<1> DEFINE n == Len(queue)
<1>0. Foresees(h, a)
  BY DEF Tells
<1>1a. PICK g : Foresees(g, a)' /\ \A i \in 0 .. n - 1 : g[i] = h[i + 1]
  BY <1>0, HistoryShrinks
<1>1. /\ Foresees(g, a)' /\ Len(queue') = n - 1 /\ n \in Nat \ {0}
      /\ \A i \in 1 .. n - 1 : queue'[i] = queue[i + 1]
      /\ \A i \in 0 .. n - 1 : g[i] = h[i + 1]
  BY <1>0, <1>1a, HistoryShrinks
<1>2. /\ Expected(a) <=> h[n] = "live"
      /\ Heard(a) => h[n] # "unknown"
      /\ \A i \in 1 .. n : Releases(queue[i], a) => h[i - 1] = "live"
  BY DEF Tells
<1>3. (Expected(a)' <=> Expected(a)) /\ (Heard(a)' <=> Heard(a))
  BY DeliverTyped, ExpectedUnchanged
<1> HIDE DEF n
<1>4. ASSUME NEW i \in 1 .. n - 1, Releases(queue'[i], a) PROVE g[i - 1] = "live"
  <2>1. /\ i - 1 \in 0 .. n - 1 /\ i + 1 \in 1 .. n /\ (i - 1) + 1 = i /\ (i + 1) - 1 = i
    BY <1>1
  <2> QED BY <2>1, <1>1, <1>2, <1>4
<1>5. g[n - 1] = h[n]
  <2>1. n - 1 \in 0 .. n - 1 /\ (n - 1) + 1 = n
    BY <1>1
  <2> QED BY <2>1, <1>1
<1>6. Tells(a, g)'
  BY <1>1, <1>2, <1>3, <1>4, <1>5 DEF Tells
<1> QED BY <1>6

-----------------------------------------------------------------------------
(* The program, from the side of one address                               *)

LEMMA TouchesNothing ==
  ASSUME NEW a, NEW t \in Thread, \A u \in Thread \ {t} : call'[u] = call[u],
         \A p \in Process : heap'[p][a] = heap[p][a],
         Gained(call'[t], a) <=> Gained(call[t], a),
         GivenBack(call'[t], a) <=> GivenBack(call[t], a),
         Announced(call'[t], a) <=> Announced(call[t], a)
  PROVE  (Expected(a)' <=> Expected(a)) /\ (Heard(a)' <=> Heard(a))
<1>1. \A u \in Thread : /\ Gained(call'[u], a) <=> Gained(call[u], a)
                        /\ GivenBack(call'[u], a) <=> GivenBack(call[u], a)
                        /\ Announced(call'[u], a) <=> Announced(call[u], a)
  OBVIOUS
<1>2. Somewhere(heap', a) <=> Somewhere(heap, a)
  BY DEF Somewhere
<1>3. (\E p \in Process : heap'[p][a] = "free") <=> (\E p \in Process : heap[p][a] = "free")
  OBVIOUS
<1> QED BY <1>1, <1>2, <1>3 DEF Expected, Heard

(* A block in the hands of a call that has not announced its end is        *)
(* expected; it is not, when it has.                                       *)
LEMMA OwnedIsExpected ==
  ASSUME Sound, misused = {}, NEW a \in Addr, SharpAt(a), NEW t \in Thread,
         a \in Owns(call[t], misused)
  PROVE  /\ Expected(a) <=> ~ Gained(call[t], a) /\ ~ Announced(call[t], a)
         /\ \A u \in Thread \ {t} : ~ Gained(call[u], a) /\ ~ Announced(call[u], a)
<1>1. /\ Somewhere(heap, a)
      /\ \A u \in Thread \ {t} : a \notin Owns(call[u], misused)
      /\ \A u \in Thread : ~ GivenBack(call[u], a)
  BY OneOwner
<1>2. \A u \in Thread \ {t} : ~ Gained(call[u], a) /\ ~ Announced(call[u], a)
  BY <1>1, GainedIsOwned, AnnouncedIsOwned
<1> QED BY <1>1, <1>2 DEF Expected

LEMMA StartsExpected ==
  ASSUME Sound, NEW a, NEW t \in Thread, NEW c, Starts(t, c)
  PROVE  (Expected(a)' <=> Expected(a)) /\ (Heard(a)' <=> Heard(a))
<1>1. call'[t] = c /\ \A u \in Thread \ {t} : call'[u] = call[u]
  BY CallChanges DEF Starts
<1>2. call[t].todo = << >> /\ c.todo \in {<<"real", "publish">>, <<"publish", "real">>}
  BY NoCallNeutral DEF Starts
<1>3. /\ ~ Gained(c, a) /\ ~ GivenBack(c, a) /\ ~ Announced(c, a)
      /\ ~ Gained(call[t], a) /\ ~ GivenBack(call[t], a) /\ ~ Announced(call[t], a)
  BY <1>2, TodoDiffer DEF Gained, GivenBack, Announced
<1>4. \A p \in Process : heap'[p][a] = heap[p][a]
  BY DEF Starts
<1> QED BY <1>1, <1>3, <1>4, TouchesNothing

LEMMA AnswersExpected ==
  ASSUME Sound, misused = {}, NEW a \in Addr, SharpAt(a), a \notin blurred',
         NEW t \in Thread, NEW lost, NEW b, NEW c, Answers(t, lost, b, c)
  PROVE  (Expected(a)' <=> Expected(a)) /\ (Heard(a)' => Heard(a) \/ Expected(a))
<1>1. call'[t] = c /\ \A u \in Thread \ {t} : call'[u] = call[u]
  BY CallChanges DEF Answers
<1>2. /\ heap'[proc[t]][a] = IF a = b THEN "live"
                             ELSE IF a \in lost THEN "free" ELSE heap[proc[t]][a]
      /\ \A p \in Process \ {proc[t]} : heap'[p] = heap[p]
      /\ proc[t] \in Process
  BY AnswersHeap DEF Sound, Typed
<1>3. (GivenBack(c, a) <=> a \in lost) /\ (Gained(c, a) <=> a = b)
  BY DEF Answers
<1>4. ~ Announced(c, a) /\ ~ Announced(call[t], a)
  BY TodoDiffer DEF Answers, Announced
<1>5. ~ GivenBack(call[t], a) /\ ~ Gained(call[t], a)
  BY TodoDiffer, NeutralHasNone DEF Answers, Neutral
<1>6. Owns(call[t], misused) = {c.from} \ {Null} /\ lost \subseteq {c.from} \ {Null}
  BY TodoDiffer DEF Answers, Owns
<1>7. CASE a = b
  <2>1. ~ Ambiguous(t, a) /\ heap[proc[t]][a] # "live"
    BY <1>7, PipelineAssumption DEF Answers
  <2>2. /\ \A p \in Process \ {proc[t]} : heap[p][a] = "fresh"
        /\ \A u \in Thread \ {t} : ~ GivenBack(call[u], a)
    BY <2>1 DEF Ambiguous, GivenBack
  <2>3. a \notin lost
    BY <1>7, PipelineAssumption DEF Answers
  <2>4. ~ Expected(a)
    BY <1>5, <2>1, <2>2 DEF Expected, Somewhere
  <2>5. \A u \in Thread : ~ GivenBack(call'[u], a)
    BY <1>1, <1>3, <2>2, <2>3
  <2>6. ~ Expected(a)'
    BY <1>1, <1>3, <1>7, <2>5 DEF Expected
  <2>7. \A p \in Process : heap'[p][a] # "free"
    BY <1>2, <1>7, <2>2
  <2>8. Heard(a)' => Heard(a)
    BY <1>1, <1>4, <2>7 DEF Heard
  <2> QED BY <2>4, <2>6, <2>8
<1>8. CASE a # b /\ a \in lost
  <2>1. a \in Owns(call[t], misused)
    BY <1>6, <1>8
  <2>2. Expected(a)
    BY <1>4, <1>5, <2>1, OwnedIsExpected
  <2>3. GivenBack(call'[t], a)
    BY <1>1, <1>3, <1>8
  <2>4. Expected(a)'
    BY <2>3 DEF Expected
  <2> QED BY <2>2, <2>4
<1>9. CASE a # b /\ a \notin lost
  <2>1. \A p \in Process : heap'[p][a] = heap[p][a]
    BY <1>2, <1>9
  <2>2. (Expected(a)' <=> Expected(a)) /\ (Heard(a)' <=> Heard(a))
    BY <1>1, <1>3, <1>4, <1>5, <1>9, <2>1, TouchesNothing
  <2> QED BY <2>2
<1> QED BY <1>7, <1>8, <1>9

LEMMA GivesUpExpected ==
  ASSUME Sound, misused = {}, NEW a \in Addr, SharpAt(a),
         NEW t \in Thread, NEW f, GivesUp(t, f)
  PROVE  (Expected(a)' <=> Expected(a)) /\ (Heard(a)' => Heard(a))
<1>1. call'[t] = NoCall /\ \A u \in Thread \ {t} : call'[u] = call[u]
  BY CallChanges DEF GivesUp
<1>2. /\ heap'[proc[t]][a] = IF a = f THEN "free" ELSE heap[proc[t]][a]
      /\ \A p \in Process \ {proc[t]} : heap'[p] = heap[p]
      /\ proc[t] \in Process
  BY GivesUpHeap DEF Sound, Typed
<1>3. /\ ~ Gained(NoCall, a) /\ ~ GivenBack(NoCall, a) /\ ~ Announced(NoCall, a)
      /\ ~ Gained(call[t], a) /\ ~ GivenBack(call[t], a)
      /\ (Announced(call[t], a) <=> a = f)
  BY NoCallNeutral, TodoDiffer DEF Gained, GivenBack, Announced, GivesUp
<1>4. CASE a = f
  <2>1. a \in Owns(call[t], misused)
    BY <1>4, TodoDiffer, PipelineAssumption DEF GivesUp, Owns
  <2>2. ~ Expected(a)
    BY <1>3, <1>4, <2>1, OwnedIsExpected
  <2>3. heap[proc[t]][a] = "live" /\ \A u \in Thread : ~ GivenBack(call[u], a)
    BY <2>1, OneOwner
  <2>4. \A p \in Process \ {proc[t]} : heap[p][a] = "fresh"
    BY <1>2, <2>3 DEF SharpAt
  <2>5. ~ Somewhere(heap', a) /\ \A u \in Thread : ~ GivenBack(call'[u], a)
    BY <1>1, <1>2, <1>3, <1>4, <2>3, <2>4 DEF Somewhere
  <2>6. ~ Expected(a)'
    BY <2>5 DEF Expected
  <2>7. Heard(a)
    BY <1>3, <1>4 DEF Heard
  <2> QED BY <2>2, <2>6, <2>7
<1>5. CASE a # f
  <2>1. \A p \in Process : heap'[p][a] = heap[p][a]
    BY <1>2, <1>5
  <2> QED BY <1>1, <1>3, <1>5, <2>1, TouchesNothing
<1> QED BY <1>4, <1>5

(* The events of the three operations                                      *)
LEMMA EventSays ==
  ASSUME NEW c \in CallType, c.op # "none", NEW a \in Addr
  PROVE  LET e == EventOf(c)
         IN  /\ Frees(e, a) <=> \/ c.op = "free" /\ c.from = a
                                \/ c.op = "realloc" /\ c.from = a /\ c.size = 0
             /\ Moves(e, a) <=> c.op = "realloc" /\ c.from = a /\ c.size # 0 /\ c.to # Null
             /\ Obtains(e, a) <=> /\ c.to = a
                                  /\ \/ c.op = "malloc"
                                     \/ c.op = "realloc" /\ (c.from = Null \/ c.size # 0)
<1> DEFINE e == EventOf(c)
<1>1. /\ e.size = c.size /\ c.op \in {"malloc", "free", "realloc"}
      /\ c.op = "malloc"  => e.kind = "alloc" /\ e.addr = c.to /\ e.aux_addr = c.from
      /\ c.op = "free"    => e.kind = "free" /\ e.addr = c.from /\ e.aux_addr = Null
      /\ c.op = "realloc" => e.kind = "realloc" /\ e.addr = c.to /\ e.aux_addr = c.from
  BY EventOfCall DEF CallType
<1> HIDE DEF e
<1>5. /\ Frees(e, a) <=> \/ c.op = "free" /\ c.from = a
                         \/ c.op = "realloc" /\ c.from = a /\ c.size = 0
      /\ Moves(e, a) <=> c.op = "realloc" /\ c.from = a /\ c.size # 0 /\ c.to # Null
      /\ Obtains(e, a) <=> /\ c.to = a
                           /\ \/ c.op = "malloc"
                              \/ c.op = "realloc" /\ (c.from = Null \/ c.size # 0)
  <2>1. \/ c.op = "malloc" \/ c.op = "free" \/ c.op = "realloc"
    BY <1>1
  <2>2. CASE c.op = "malloc"
    BY <2>2, <1>1 DEF Frees, Moves, Obtains
  <2>3. CASE c.op = "free"
    BY <2>3, <1>1 DEF Frees, Moves, Obtains
  <2>4. CASE c.op = "realloc"
    BY <2>4, <1>1 DEF Frees, Moves, Obtains
  <2> QED BY <2>1, <2>2, <2>3, <2>4
<1> QED BY <1>5 DEF e

LEMMA AnnouncesSays ==
  ASSUME Sound, misused = {}, NEW a \in Addr, SharpAt(a),
         NEW t \in Thread, NEW c, Announces(t, c)
  PROVE  Says(EventOf(call[t]), a)
<1> DEFINE e == EventOf(call[t])
<1>1. call'[t] = c /\ \A u \in Thread \ {t} : call'[u] = call[u]
  BY CallChanges DEF Announces
<1>2. call[t] \in CallType /\ call[t].op = "free"
  BY DEF Announces, Sound, Typed
<1>3. (Frees(e, a) <=> a = call[t].from) /\ ~ Moves(e, a) /\ ~ Obtains(e, a)
  BY <1>2, EventSays
<1>4. /\ ~ Gained(c, a) /\ ~ GivenBack(c, a) /\ (Announced(c, a) <=> a = call[t].from)
      /\ ~ Gained(call[t], a) /\ ~ GivenBack(call[t], a) /\ ~ Announced(call[t], a)
  BY TodoDiffer DEF Gained, GivenBack, Announced, Announces
<1>5. heap' = heap
  BY DEF Announces
<1> HIDE DEF e
<1>6. CASE a = call[t].from
  <2>1. a \in Owns(call[t], misused)
    BY <1>6, TodoDiffer, PipelineAssumption DEF Announces, Owns
  <2>2. Expected(a)
    BY <1>4, <2>1, OwnedIsExpected
  <2>3. \A u \in Thread : ~ GivenBack(call[u], a)
    BY <2>1, OneOwner
  <2>4. \A u \in Thread : ~ GivenBack(call'[u], a)
    BY <1>1, <1>4, <2>3
  <2>5. Announced(call'[t], a)
    BY <1>1, <1>4, <1>6
  <2>6. ~ Expected(a)'
    BY <2>4, <2>5 DEF Expected
  <2> QED BY <1>3, <1>6, <2>2, <2>6 DEF Says, Releases, e
<1>7. CASE a # call[t].from
  <2>1. (Expected(a)' <=> Expected(a)) /\ (Heard(a)' <=> Heard(a))
    BY <1>1, <1>4, <1>5, <1>7, TouchesNothing
  <2> QED BY <1>3, <1>7, <2>1 DEF Says, Releases, e
<1> QED BY <1>6, <1>7

LEMMA ReturnsSays ==
  ASSUME Sound, misused = {}, NEW a \in Addr, SharpAt(a), NEW t \in Thread, Returns(t)
  PROVE  Says(EventOf(call[t]), a)
<1> DEFINE k == call[t]
           e == EventOf(k)
<1>1. call'[t] = NoCall /\ \A u \in Thread \ {t} : call'[u] = call[u]
  BY CallChanges DEF Returns
<1>2. /\ k \in CallType /\ k.todo = <<"publish">> /\ k.op \in {"malloc", "realloc"}
      /\ k.op = "malloc" => k.from = Null
      /\ k.op = "realloc" => (k.from = Null => k.size # 0) /\ (k.size = 0 => k.to # k.from)
  <2>1. k \in CallType /\ Fits(k) /\ k.todo = <<"publish">>
    BY DEF Returns, Sound, Typed, Fitting
  <2>2. k # NoCall
    BY <2>1, NoCallNeutral, TodoDiffer
  <2> HIDE DEF k
  <2> QED BY <2>1, <2>2, TodoDiffer DEF Fits
<1>3. /\ Frees(e, a) <=> k.op = "realloc" /\ k.from = a /\ k.size = 0
      /\ Moves(e, a) <=> k.op = "realloc" /\ k.from = a /\ k.size # 0 /\ k.to # Null
      /\ Obtains(e, a) <=> /\ k.to = a
                           /\ k.op = "malloc" \/ k.from = Null \/ k.size # 0
  BY <1>2, EventSays
<1>4. /\ ~ Gained(NoCall, a) /\ ~ GivenBack(NoCall, a) /\ ~ Announced(NoCall, a)
      /\ ~ Announced(k, a)
  BY <1>2, NoCallNeutral, TodoDiffer DEF Gained, GivenBack, Announced
<1>5. heap' = heap
  BY DEF Returns
<1>6. a # Null
  BY PipelineAssumption
<1>7. Owns(k, misused) = Gain(k)
  BY <1>2, TodoDiffer DEF Owns
<1>8. \A u \in Thread : ~ Announced(call[u], a) \/ u # t
  BY <1>4
<1>9. Heard(a)' => Heard(a)
  BY <1>1, <1>4, <1>5 DEF Heard
<1>10. k.to = a /\ k.from # a => Gained(k, a)
  BY <1>2 DEF Gained
<1> HIDE DEF e
<1>11. CASE k.to = a
  (* Obtained, or kept in place. *)
  <2>1. a \in Gain(k)
    BY <1>6, <1>11 DEF Gain
  <2>2. /\ \A u \in Thread \ {t} : ~ Gained(call[u], a) /\ ~ Announced(call[u], a)
        /\ Expected(a) <=> ~ Gained(k, a) /\ ~ Announced(k, a)
        /\ Somewhere(heap, a)
    BY <1>7, <2>1, OwnedIsExpected, OneOwner
  <2>3. Expected(a)'
    <3>1. Somewhere(heap', a)
      BY <1>5, <2>2
    <3>2. \A u \in Thread : ~ Gained(call'[u], a) /\ ~ Announced(call'[u], a)
      BY <1>1, <1>4, <2>2
    <3> QED BY <3>1, <3>2 DEF Expected
  <2>4. Obtains(e, a)
    <3>1. k.from = a => k.size # 0
      BY <1>2, <1>6, <1>11
    <3>2. k.from # a /\ k.op = "realloc" /\ k.from # Null => k.size # 0
      BY <1>10, <1>11 DEF SharpAt
    <3> QED BY <1>2, <1>3, <1>11, <3>1, <3>2
  <2>5. Releases(e, a) => Expected(a)
    <3>1. Releases(e, a) => k.from = a
      BY <1>3 DEF Releases
    <3>2. k.from = a => ~ Gained(k, a)
      BY DEF Gained
    <3> QED BY <1>4, <2>2, <3>1, <3>2
  <2> QED BY <1>9, <2>3, <2>4, <2>5 DEF Says, e
<1>12. CASE k.to # a /\ GivenBack(k, a)
  (* Given back to the allocator, by a move or by realloc(p, 0). *)
  <2>1. /\ ~ Somewhere(heap, a)
        /\ \A u \in Thread \ {t} : ~ GivenBack(call[u], a)
    BY <1>12 DEF SharpAt
  <2>2. Expected(a)
    BY <1>12 DEF Expected
  <2>3. ~ Somewhere(heap', a) /\ \A u \in Thread : ~ GivenBack(call'[u], a)
    BY <1>1, <1>4, <1>5, <2>1
  <2>4. ~ Expected(a)'
    BY <2>3 DEF Expected
  <2>5. Releases(e, a)
    BY <1>3, <1>12 DEF GivenBack, Releases
  <2>6. ~ Obtains(e, a)
    BY <1>3, <1>12
  <2> QED BY <1>9, <2>2, <2>4, <2>5, <2>6 DEF Says, e
<1>13. CASE k.to # a /\ ~ GivenBack(k, a)
  <2>1. ~ Gained(k, a)
    BY <1>13 DEF Gained
  <2>2. (Expected(a)' <=> Expected(a)) /\ (Heard(a)' <=> Heard(a))
    BY <1>1, <1>4, <1>5, <1>13, <2>1, TouchesNothing
  <2>3. ~ Releases(e, a) /\ ~ Obtains(e, a)
    BY <1>2, <1>3, <1>13 DEF GivenBack, Releases
  <2> QED BY <2>2, <2>3 DEF Says, e
<1> QED BY <1>11, <1>12, <1>13

-----------------------------------------------------------------------------
(* Told is inductive                                                       *)

LEMMA SendKeepsTold ==
  ASSUME Typed, NEW a \in Addr, a \notin blurred', NEW h, Tells(a, h),
         NEW e \in Event, Sends(e), oracle' = oracle, Says(e, a)
  PROVE  \E g : Tells(a, g)'
<1>1. CASE queue' = Append(queue, e)
  BY <1>1, SentTold DEF Typed
<1>2. CASE queue' = queue /\ blurred' = blurred \cup ({e.addr, e.aux_addr} \ {Null})
  <2>1. a # e.addr /\ a # e.aux_addr
    BY <1>2, PipelineAssumption
  <2>2. ~ Releases(e, a) /\ ~ Obtains(e, a)
    BY <2>1 DEF Releases, Frees, Moves, Obtains
  <2>3. (Expected(a)' <=> Expected(a)) /\ (Heard(a)' => Heard(a))
    BY <2>2 DEF Says
  <2>4. Tells(a, h)'
    BY <1>2, <2>3, KeptTold
  <2> QED BY <2>4
<1> QED BY <1>1, <1>2 DEF Sends

LEMMA EventsOfCalls ==
  ASSUME Sound, NEW t \in Thread, Returns(t) \/ \E c : Announces(t, c)
  PROVE  EventOf(call[t]) \in Event /\ call[t] \in CallType /\ call[t].op # "none"
<1>1. call[t] \in CallType /\ Fits(call[t]) /\ call[t].todo # << >>
  BY TodoDiffer DEF Returns, Announces, Sound, Typed, Fitting
<1>2. call[t].op # "none"
  BY <1>1, NoCallNeutral DEF Fits
<1> QED BY <1>1, <1>2, EventOfCall

LEMMA StepTold ==
  ASSUME Base, misused = {}, Next, misused' = {},
         NEW a \in Addr, a \notin blurred', NEW h, Tells(a, h), SharpAt(a)
  PROVE  \E g : Tells(a, g)'
<1> USE DEF Base
<1>1. ASSUME NEW t \in Thread, NEW c, Starts(t, c) PROVE \E g : Tells(a, g)'
  <2>1. queue' = queue /\ oracle' = oracle
    BY <1>1 DEF Starts
  <2>2. Tells(a, h)'
    BY <1>1, <2>1, StartsExpected, KeptTold
  <2> QED BY <2>2
<1>2. ASSUME NEW t \in Thread, NEW lost, NEW b, NEW c, Answers(t, lost, b, c)
      PROVE  \E g : Tells(a, g)'
  <2>1. queue' = queue /\ oracle' = oracle
    BY <1>2 DEF Answers
  <2>2. Tells(a, h)'
    BY <1>2, <2>1, AnswersExpected, KeptTold
  <2> QED BY <2>2
<1>3. ASSUME NEW t \in Thread, NEW f, GivesUp(t, f) PROVE \E g : Tells(a, g)'
  <2>1. queue' = queue /\ oracle' = oracle
    BY <1>3 DEF GivesUp
  <2>2. Tells(a, h)'
    BY <1>3, <2>1, GivesUpExpected, KeptTold
  <2> QED BY <2>2
<1>4. ASSUME NEW t \in Thread, NEW c, Announces(t, c) PROVE \E g : Tells(a, g)'
  <2>1. Sends(EventOf(call[t])) /\ oracle' = oracle
    BY <1>4 DEF Announces
  <2>2. Says(EventOf(call[t]), a)
    BY <1>4, AnnouncesSays
  <2> QED BY <1>4, <2>1, <2>2, EventsOfCalls, SendKeepsTold DEF Sound
<1>5. ASSUME NEW t \in Thread, Returns(t) PROVE \E g : Tells(a, g)'
  <2>1. Sends(EventOf(call[t])) /\ oracle' = oracle
    BY <1>5 DEF Returns
  <2>2. Says(EventOf(call[t]), a)
    BY <1>5, ReturnsSays
  <2> QED BY <1>5, <2>1, <2>2, EventsOfCalls, SendKeepsTold DEF Sound
<1>6. ASSUME NEW t \in Thread PROVE ~ RealAbort(t)
  BY AbortQuiet DEF Sound
<1>7. ASSUME NEW t \in Thread, NEW d, NEW c PROVE ~ Mistakes(t, d, c)
  BY DEF Mistakes
<1>8. CASE Deliver
  BY <1>8, DeliveredTold DEF Sound
<1>9. Sound
  OBVIOUS
<1> QED BY <1>1, <1>2, <1>3, <1>4, <1>5, <1>6, <1>7, <1>8, <1>9, StepCases DEF Sound

(* Misuses and blurred addresses are never forgotten.                      *)
LEMMA NeverForgets ==
  ASSUME Base, [Next]_vars
  PROVE  blurred \subseteq blurred' /\ (misused' = {} => misused = {})
<1> USE DEF Base
<1>1. ASSUME NEW e, Sends(e) PROVE blurred \subseteq blurred'
  BY <1>1 DEF Sends
<1>2. CASE Next
  <2>1. ASSUME NEW t \in Thread, NEW c, Starts(t, c) \/ Announces(t, c)
        PROVE  blurred \subseteq blurred' /\ misused' = misused
    BY <1>1, <2>1 DEF Starts, Announces
  <2>2. ASSUME NEW t \in Thread, NEW lost, NEW b, NEW c, Answers(t, lost, b, c)
        PROVE  blurred \subseteq blurred' /\ misused' = misused
    BY <2>2 DEF Answers
  <2>3. ASSUME NEW t \in Thread, NEW f, GivesUp(t, f)
        PROVE  blurred \subseteq blurred' /\ misused' = misused
    BY <2>3 DEF GivesUp
  <2>4. ASSUME NEW t \in Thread, Returns(t) \/ RealAbort(t)
        PROVE  blurred \subseteq blurred' /\ misused' = misused
    BY <1>1, <2>4, AbortQuiet DEF Returns, Sound
  <2>5. ASSUME NEW t \in Thread, NEW a \in Addr, NEW c, Mistakes(t, a, c)
        PROVE  blurred \subseteq blurred' /\ misused' = {a}
    BY <1>1, <2>5 DEF Mistakes
  <2>6. CASE Deliver
    BY <2>6, DeliverTyped DEF Sound
  <2>7. Sound
    OBVIOUS
  <2> QED BY <1>2, <2>1, <2>2, <2>3, <2>4, <2>5, <2>6, <2>7, StepCases DEF Sound
<1>3. CASE vars' = vars
  BY <1>3 DEF vars, program
<1> QED BY <1>2, <1>3

LEMMA NextTold == Base /\ Told /\ [Next]_vars => Told'
<1> SUFFICES ASSUME Base, Told, [Next]_vars, misused' = {}, NEW a \in Addr, a \notin blurred'
             PROVE  \E h : Tells(a, h)'
  BY DEF Told
<1>1. misused = {} /\ a \notin blurred
  BY NeverForgets
<1>2. SharpAt(a)
  BY <1>1 DEF Base, Sharp
<1>3. PICK h : Tells(a, h)
  BY <1>1 DEF Told
<1>4. CASE Next
  BY <1>1, <1>2, <1>3, <1>4, StepTold
<1>5. CASE vars' = vars
  <2>1. UNCHANGED <<heap, call, queue, oracle>>
    BY <1>5 DEF vars, program, ring, monitor
  <2>2. Tells(a, h)'
    BY <1>3, <2>1, ExpectedUnchanged, KeptTold
  <2> QED BY <2>2
<1> QED BY <1>4, <1>5

LEMMA InitTold == Init => Told
<1> SUFFICES ASSUME Init, NEW a \in Addr, a \notin blurred
             PROVE  \E h : Tells(a, h)
  BY DEF Told
<1> DEFINE h == [i \in 0 .. 0 |-> "unknown"]
<1>1. queue = << >> /\ Len(queue) = 0 /\ 0 .. Len(queue) = 0 .. 0
      /\ (\A i \in 1 .. Len(queue) : FALSE)
  BY DEF Init, Ring!Init
<1>2. /\ \A p \in Process : heap[p][a] = "fresh"
      /\ \A t \in Thread : call[t] = NoCall
  BY DEF Init
<1>3. \A t \in Thread : ~ Gained(call[t], a) /\ ~ GivenBack(call[t], a) /\ ~ Announced(call[t], a)
  BY <1>2, NoCallNeutral, TodoDiffer DEF Gained, GivenBack, Announced
<1>4. ~ Expected(a) /\ ~ Heard(a)
  BY <1>2, <1>3 DEF Expected, Heard, Somewhere
<1>5. Thinks(oracle, a) = "unknown"
  BY DEF Init, Oracle!Init, Oracle!NewOracle, Oracle!NoChunk, Oracle!Absent, Thinks
<1>6. Foresees(h, a)
  BY <1>1, <1>5 DEF Foresees, Belief
<1>7. Tells(a, h)
  BY <1>1, <1>4, <1>6 DEF Tells
<1> QED BY <1>7

-----------------------------------------------------------------------------
(* The alerts                                                              *)

(* Only the reader changes the oracle.                                     *)
LEMMA OracleStays ==
  ASSUME Base, [Next]_vars, ~ Deliver
  PROVE  oracle' = oracle
<1> USE DEF Base
<1>1. CASE Next
  <2>1. ASSUME NEW t \in Thread, NEW c, Starts(t, c) \/ Announces(t, c)
        PROVE  oracle' = oracle
    BY <2>1 DEF Starts, Announces
  <2>2. ASSUME NEW t \in Thread, NEW lost, NEW b, NEW c, Answers(t, lost, b, c)
        PROVE  oracle' = oracle
    BY <2>2 DEF Answers
  <2>3. ASSUME NEW t \in Thread, NEW f, GivesUp(t, f) PROVE oracle' = oracle
    BY <2>3 DEF GivesUp
  <2>4. ASSUME NEW t \in Thread, Returns(t) \/ RealAbort(t) PROVE oracle' = oracle
    BY <2>4, AbortQuiet DEF Returns, Sound
  <2>5. ASSUME NEW t \in Thread, NEW a \in Addr, NEW c, Mistakes(t, a, c)
        PROVE  oracle' = oracle
    BY <2>5 DEF Mistakes
  <2>6. Sound
    OBVIOUS
  <2> QED BY <1>1, <2>1, <2>2, <2>3, <2>4, <2>5, <2>6, StepCases DEF Sound
<1>2. CASE vars' = vars
  BY <1>2 DEF vars, monitor
<1> QED BY <1>1, <1>2

LEMMA AlertsList ==
  ASSUME IsOracle(oracle)
  PROVE  /\ DOMAIN oracle.alerts = 1 .. Len(oracle.alerts)
         /\ Len(oracle.alerts) \in Nat /\ Len(oracle.alerts) <= AlertCap
         /\ oracle.alerts \in Seq(Alarm)
         /\ Len(oracle.alerts) = AlertCap \/ Len(oracle.alerts) < AlertCap
<1>1. /\ Len(oracle.alerts) \in Nat /\ Len(oracle.alerts) <= AlertCap
      /\ oracle.alerts \in Seq(Alarm) /\ DOMAIN oracle.alerts = 1 .. Len(oracle.alerts)
  BY DEF IsOracle
<1>2. AlertCap \in Nat
  BY PipelineAssumption
<1> QED BY <1>1, <1>2

LEMMA NextAlarms == Base /\ Told /\ AlarmsNeedBlur /\ [Next]_vars => AlarmsNeedBlur'
<1> SUFFICES ASSUME Base, Told, AlarmsNeedBlur, [Next]_vars, misused' = {},
                    NEW i \in DOMAIN oracle'.alerts
             PROVE  oracle'.alerts[i].addr \in blurred'
  BY DEF AlarmsNeedBlur
<1>1. misused = {} /\ blurred \subseteq blurred'
  BY NeverForgets
<1>2. \A j \in DOMAIN oracle.alerts : oracle.alerts[j].addr \in blurred
  BY <1>1 DEF AlarmsNeedBlur
<1>3. CASE ~ Deliver
  BY <1>1, <1>2, <1>3, OracleStays
<1>4. CASE Deliver
  <2>1. /\ Learns(oracle, oracle', queue[1]) /\ IsOracle(oracle')
        /\ Len(queue) \in Nat \ {0}
    BY <1>4, DeliverTyped DEF Base, Sound, Learns
  <2>2. CASE Quiet(oracle, oracle', queue[1])
    BY <1>1, <1>2, <2>2 DEF Quiet
  <2>3. CASE Raises(oracle, oracle', queue[1])
    <3>1. PICK a \in Addr, reason \in Oracle!UafReason :
            /\ Releases(queue[1], a) /\ Thinks(oracle, a) # "live"
            /\ OneMore(oracle.alerts, oracle'.alerts, a, reason)
      BY <2>3 DEF Raises
    <3>2. a \in blurred
      <4> SUFFICES ASSUME a \notin blurred PROVE FALSE
        OBVIOUS
      <4>1. PICK h : Tells(a, h)
        BY <1>1 DEF Told
      <4>2. 1 \in 1 .. Len(queue) /\ 1 - 1 = 0
        BY <2>1
      <4>3. h[0] = "live" /\ h[0] = Thinks(oracle, a)
        BY <3>1, <4>1, <4>2 DEF Tells, Foresees
      <4> QED BY <3>1, <4>3
    <3>3. DOMAIN oracle'.alerts = 1 .. Len(oracle'.alerts)
      BY <2>1 DEF IsOracle
    <3>4. DOMAIN oracle.alerts = 1 .. Len(oracle.alerts)
      BY AlertsList DEF Base
    <3>5. \/ oracle'.alerts[i].addr = a
          \/ \E j \in 1 .. Len(oracle.alerts) : oracle'.alerts[i] = oracle.alerts[j]
      BY <3>1, <3>3 DEF OneMore
    <3> QED BY <1>1, <1>2, <3>2, <3>4, <3>5
  <2> QED BY <2>1, <2>2, <2>3 DEF Learns
<1> QED BY <1>3, <1>4

LEMMA InitAlarms == Init => AlarmsNeedBlur
BY DEF Init, Oracle!Init, Oracle!NewOracle, AlarmsNeedBlur

-----------------------------------------------------------------------------
(* A quiet moment                                                          *)

LEMMA AgreesWhenQuiet == Base /\ Told => OracleMatchesHeap
<1> SUFFICES ASSUME Base, Told, queue = << >>, misused = {}, \A t \in Thread : Idle(t),
                    NEW a \in Addr, a \notin blurred
             PROVE  oracle.chunks[a].state.tag = "allocated"
                      <=> \E p \in Process : heap[p][a] = "live"
  BY DEF OracleMatchesHeap
<1>1. PICK h : Tells(a, h)
  BY DEF Told
<1>2. \A t \in Thread : ~ Gained(call[t], a) /\ ~ GivenBack(call[t], a) /\ ~ Announced(call[t], a)
  BY NoCallNeutral, TodoDiffer DEF Idle, Gained, GivenBack, Announced
<1>3. Expected(a) <=> Somewhere(heap, a)
  BY <1>2 DEF Expected
<1>4. Len(queue) = 0
  OBVIOUS
<1>5. Expected(a) <=> Thinks(oracle, a) = "live"
  BY <1>1, <1>4 DEF Tells, Foresees
<1>6. Thinks(oracle, a) = "live" <=> oracle.chunks[a].state.tag = "allocated"
  <2>1. Thinks(oracle, a) = "live" <=> oracle.chunks[a].state = Oracle!Allocated
    BY Thoughts DEF Base
  <2>2. IsChunk(oracle.chunks[a])
    BY DEF Base, IsOracle
  <2> QED BY <2>1, <2>2 DEF IsChunk, Oracle!Absent, Oracle!Allocated
<1> QED BY <1>3, <1>5, <1>6 DEF Somewhere

-----------------------------------------------------------------------------
(* The misuse                                                              *)

Full == Len(oracle.alerts) = AlertCap

Reported(a) ==
  \E i \in DOMAIN oracle.alerts :
    oracle.alerts[i] \in [addr : {a}, reason : {"double-free", "realloc-after-free"}]

(* The release that comes second is in the ring, or still to be published. *)
Betrays(a, h) ==
  /\ Foresees(h, a)
  /\ \/ \E i \in 1 .. Len(queue) : Releases(queue[i], a) /\ h[i - 1] = "gone"
     \/ h[Len(queue)] = "gone" /\ \E t \in Thread : GivenBack(call[t], a)

(* A misuse is reported, or will be; or the list is full, and an alert     *)
(* that is older may have left it.                                         *)
Betrayed ==
  \A a \in misused \ blurred : Full \/ Reported(a) \/ \E h : Betrays(a, h)

LEMMA KeptBetrayed ==
  ASSUME NEW a, NEW h, Betrays(a, h), queue' = queue, oracle' = oracle,
         \A t \in Thread : GivenBack(call[t], a) => GivenBack(call'[t], a)
  PROVE  Betrays(a, h)'
<1>1. Foresees(h, a)'
  BY DEF Betrays, Foresees
<1>2. (\E t \in Thread : GivenBack(call[t], a)) => \E t \in Thread : GivenBack(call'[t], a)
  OBVIOUS
<1> QED BY <1>1, <1>2 DEF Betrays

LEMMA SentBetrayed ==
  ASSUME Typed, NEW a \in Addr, a \notin blurred', NEW h, Betrays(a, h),
         NEW e \in Event, Sends(e), oracle' = oracle,
         \A t \in Thread : GivenBack(call[t], a) =>
           /\ GivenBack(call'[t], a) \/ Releases(e, a)
           /\ ~ Obtains(e, a)
  PROVE  \E g : Betrays(a, g)'
<1> DEFINE n == Len(queue)
<1>0. Foresees(h, a)
  BY DEF Betrays
<1>1. CASE queue' = Append(queue, e)
  <2>1. PICK g : /\ Foresees(g, a)'
                 /\ \A i \in 0 .. n : g[i] = h[i]
                 /\ g[n + 1] = After(h[n], e, a)
    BY <1>0, <1>1, HistoryGrows DEF Typed
  <2>2. /\ Len(queue') = n + 1 /\ n \in Nat /\ queue'[n + 1] = e
        /\ \A i \in 1 .. n : queue'[i] = queue[i]
    BY <1>0, <1>1, HistoryGrows DEF Typed
  <2>3. \/ \E i \in 1 .. n : Releases(queue[i], a) /\ h[i - 1] = "gone"
        \/ h[n] = "gone" /\ \E t \in Thread : GivenBack(call[t], a)
    BY DEF Betrays
  <2> HIDE DEF n
  <2>4. \/ \E i \in 1 .. n + 1 : Releases(queue'[i], a) /\ g[i - 1] = "gone"
        \/ g[n + 1] = "gone" /\ \E t \in Thread : GivenBack(call'[t], a)
    <3>1. CASE \E i \in 1 .. n : Releases(queue[i], a) /\ h[i - 1] = "gone"
      <4>1. PICK i \in 1 .. n : Releases(queue[i], a) /\ h[i - 1] = "gone"
        BY <3>1
      <4>2. i \in 1 .. n + 1 /\ i - 1 \in 0 .. n
        BY <2>2
      <4> QED BY <2>1, <2>2, <4>1, <4>2
    <3>2. ASSUME h[n] = "gone", NEW t \in Thread, GivenBack(call[t], a)
          PROVE  \/ \E i \in 1 .. n + 1 : Releases(queue'[i], a) /\ g[i - 1] = "gone"
                 \/ g[n + 1] = "gone" /\ GivenBack(call'[t], a)
      <4>1. n + 1 \in 1 .. n + 1 /\ (n + 1) - 1 = n /\ n \in 0 .. n
        BY <2>2
      <4>2. CASE Releases(e, a)
        BY <2>1, <2>2, <3>2, <4>1, <4>2
      <4>3. CASE ~ Releases(e, a)
        <5>1. GivenBack(call'[t], a) /\ ~ Obtains(e, a)
          BY <3>2, <4>3
        <5>2. g[n + 1] = "gone"
          BY <2>1, <3>2, <4>3, <5>1 DEF After, Releases
        <5> QED BY <5>1, <5>2
      <4> QED BY <4>2, <4>3
    <3> QED BY <2>3, <3>1, <3>2
  <2>5. Betrays(a, g)'
    BY <2>1, <2>2, <2>4 DEF Betrays
  <2> QED BY <2>5
<1>2. CASE queue' = queue /\ blurred' = blurred \cup ({e.addr, e.aux_addr} \ {Null})
  <2>1. a # e.addr /\ a # e.aux_addr
    BY <1>2, PipelineAssumption
  <2>2. ~ Releases(e, a)
    BY <2>1 DEF Releases, Frees, Moves
  <2>3. Betrays(a, h)'
    BY <1>2, <2>2, KeptBetrayed
  <2> QED BY <2>3
<1> QED BY <1>1, <1>2 DEF Sends

LEMMA DeliveredBetrayed ==
  ASSUME Typed, IsOracle(oracle), Deliver, NEW a \in Addr, NEW h, Betrays(a, h)
  PROVE  Full' \/ Reported(a)' \/ \E g : Betrays(a, g)'
<1> DEFINE n == Len(queue)
<1>0. Foresees(h, a)
  BY DEF Betrays
<1>1. PICK g : Foresees(g, a)' /\ \A i \in 0 .. n - 1 : g[i] = h[i + 1]
  BY <1>0, HistoryShrinks
<1>2. /\ Len(queue') = n - 1 /\ n \in Nat \ {0}
      /\ \A i \in 1 .. n - 1 : queue'[i] = queue[i + 1]
  BY <1>0, HistoryShrinks
<1>3. queue[1] \in Event /\ Learns(oracle, oracle', queue[1]) /\ call' = call
  BY DeliverTyped
<1>4. h[0] = Thinks(oracle, a)
  BY DEF Betrays, Foresees
<1>5. \/ \E i \in 1 .. n : Releases(queue[i], a) /\ h[i - 1] = "gone"
      \/ h[n] = "gone" /\ \E t \in Thread : GivenBack(call[t], a)
  BY DEF Betrays
<1> HIDE DEF n
<1>6. ASSUME Releases(queue[1], a), h[0] = "gone"
      PROVE  Full' \/ Reported(a)'
  <2>1. Raises(oracle, oracle', queue[1])
    BY <1>3, <1>4, <1>6 DEF Learns, Quiet
  <2>2. PICK b \in Addr, reason \in Oracle!UafReason :
          /\ Releases(queue[1], b)
          /\ Thinks(oracle, b) = "gone" => reason \in {"double-free", "realloc-after-free"}
          /\ OneMore(oracle.alerts, oracle'.alerts, b, reason)
    BY <2>1 DEF Raises
  <2>3. a = b
    BY <1>3, <1>6, <2>2, ReleasesOne
  <2>4. reason \in {"double-free", "realloc-after-free"}
    BY <1>4, <1>6, <2>2, <2>3
  <2> DEFINE s == oracle.alerts
             t == oracle'.alerts
             x == [addr |-> a, reason |-> reason]
  <2>5. OneMore(s, t, a, reason) /\ s \in Seq(Alarm) /\ Len(s) <= AlertCap /\ Len(s) \in Nat
    BY <2>2, <2>3, AlertsList
  <2>6. x \in Alarm /\ x \in [addr : {a}, reason : {"double-free", "realloc-after-free"}]
    BY <2>4 DEF Alarm
  <2> HIDE DEF s, t
  <2>7. CASE Len(s) = AlertCap
    <3>1. Len(t) = AlertCap
      BY <2>5, <2>7 DEF OneMore
    <3> QED BY <3>1 DEF t, Full
  <2>8. CASE Len(s) < AlertCap
    <3>1. t = Append(s, x)
      BY <2>5, <2>8 DEF OneMore
    <3>2. Len(s) + 1 \in DOMAIN t /\ t[Len(s) + 1] = x
      BY <2>5, <2>6, <3>1, AppendProperties, LenProperties
    <3> QED BY <2>6, <3>2 DEF t, Reported
  <2>9. Len(s) = AlertCap \/ Len(s) < AlertCap
    BY AlertsList DEF s
  <2> QED BY <2>7, <2>8, <2>9
<1>7. ASSUME NEW i \in 2 .. n, Releases(queue[i], a), h[i - 1] = "gone"
      PROVE  Betrays(a, g)'
  <2>1. i - 1 \in 1 .. n - 1 /\ (i - 1) - 1 \in 0 .. n - 1
        /\ (i - 1) + 1 = i /\ ((i - 1) - 1) + 1 = i - 1
    BY <1>2
  <2>2. queue'[i - 1] = queue[i] /\ g[(i - 1) - 1] = h[i - 1]
    BY <1>1, <1>2, <2>1
  <2>3. \E j \in 1 .. Len(queue') : Releases(queue'[j], a) /\ g[j - 1] = "gone"
    BY <1>2, <1>7, <2>1, <2>2
  <2> QED BY <1>1, <2>3 DEF Betrays
<1>8. ASSUME h[n] = "gone", NEW t \in Thread, GivenBack(call[t], a)
      PROVE  Betrays(a, g)'
  <2>1. n - 1 \in 0 .. n - 1 /\ (n - 1) + 1 = n
    BY <1>2
  <2>2. g[Len(queue')] = "gone" /\ GivenBack(call'[t], a)
    BY <1>1, <1>2, <1>3, <1>8, <2>1
  <2> QED BY <1>1, <2>2 DEF Betrays
<1>9. ASSUME NEW i \in 1 .. n, Releases(queue[i], a), h[i - 1] = "gone"
      PROVE  Full' \/ Reported(a)' \/ Betrays(a, g)'
  <2>1. i = 1 \/ i \in 2 .. n
    BY <1>2
  <2> QED BY <1>6, <1>7, <1>9, <2>1
<1> QED BY <1>5, <1>8, <1>9

(* An alert leaves the list only when it is full.                          *)
LEMMA DeliveredReported ==
  ASSUME Typed, IsOracle(oracle), Deliver, NEW a, Full \/ Reported(a)
  PROVE  Full' \/ Reported(a)'
<1> DEFINE s == oracle.alerts
           t == oracle'.alerts
<1>1. /\ Learns(oracle, oracle', queue[1])
      /\ s \in Seq(Alarm) /\ Len(s) <= AlertCap /\ Len(s) \in Nat /\ DOMAIN s = 1 .. Len(s)
  BY DeliverTyped, AlertsList
<1>2. CASE t = s
  BY <1>2 DEF Full, Reported
<1>3. ASSUME NEW b \in Addr, NEW reason \in Oracle!UafReason, OneMore(s, t, b, reason)
      PROVE  Full' \/ Reported(a)'
  <2> DEFINE x == [addr |-> b, reason |-> reason]
  <2>1. x \in Alarm
    BY DEF Alarm
  <2>2. Len(s) = AlertCap \/ \E i \in DOMAIN s :
          s[i] \in [addr : {a}, reason : {"double-free", "realloc-after-free"}]
    BY DEF Full, Reported
  <2> HIDE DEF s, t, x
  <2>3. CASE Len(s) = AlertCap
    <3>1. Len(t) = AlertCap
      BY <1>3, <2>3 DEF OneMore
    <3> QED BY <3>1 DEF t, Full
  <2>4. CASE Len(s) < AlertCap
    <3>1. t = Append(s, x)
      BY <1>3, <2>4 DEF OneMore, x
    <3>2. Len(s) # AlertCap
      BY <2>4, PipelineAssumption
    <3>3. PICK i \in DOMAIN s :
            s[i] \in [addr : {a}, reason : {"double-free", "realloc-after-free"}]
      BY <2>2, <3>2, Zenon
    <3>4. i \in DOMAIN t /\ t[i] = s[i]
      BY <1>1, <2>1, <3>1, <3>3, AppendProperties, LenProperties
    <3>5. \E j \in DOMAIN t :
            t[j] \in [addr : {a}, reason : {"double-free", "realloc-after-free"}]
      BY <3>3, <3>4, Zenon
    <3> QED BY <3>5 DEF t, Reported
  <2>5. Len(s) = AlertCap \/ Len(s) < AlertCap
    BY AlertsList DEF s
  <2> QED BY <2>3, <2>4, <2>5
<1> QED BY <1>1, <1>2, <1>3 DEF Learns, Quiet, Raises

(* A step that sends no event and publishes no call leaves what is still   *)
(* to be published as it is.                                               *)
LEMMA OthersBetrayed ==
  ASSUME Typed, NEW a, NEW h, Betrays(a, h), NEW t \in Thread,
         ~ GivenBack(call[t], a), \A u \in Thread \ {t} : call'[u] = call[u],
         queue' = queue, oracle' = oracle
  PROVE  Betrays(a, h)'
<1>1. \A u \in Thread : GivenBack(call[u], a) => GivenBack(call'[u], a)
  OBVIOUS
<1> QED BY <1>1, KeptBetrayed

LEMMA StepBetrayed ==
  ASSUME Base, Next, NEW a \in Addr, a \notin blurred', SharpAt(a),
         misused' = misused, NEW h, Betrays(a, h)
  PROVE  Full' \/ Reported(a)' \/ \E g : Betrays(a, g)'
<1>0. Sound /\ Typed
  BY DEF Base, Sound
<1>1. ASSUME NEW t \in Thread, NEW c, Starts(t, c) PROVE \E g : Betrays(a, g)'
  <2>1. ~ GivenBack(call[t], a) /\ queue' = queue /\ oracle' = oracle
    BY <1>1, NoCallNeutral, TodoDiffer DEF Starts, GivenBack
  <2>2. \A u \in Thread \ {t} : call'[u] = call[u]
    BY <1>0, <1>1, CallChanges DEF Starts
  <2>3. Betrays(a, h)'
    BY <1>0, <2>1, <2>2, OthersBetrayed
  <2> QED BY <2>3
<1>2. ASSUME NEW t \in Thread, NEW lost, NEW b, NEW c, Answers(t, lost, b, c)
      PROVE  \E g : Betrays(a, g)'
  <2>1. ~ GivenBack(call[t], a) /\ queue' = queue /\ oracle' = oracle
    BY <1>2, TodoDiffer DEF Answers, GivenBack
  <2>2. \A u \in Thread \ {t} : call'[u] = call[u]
    BY <1>0, <1>2, CallChanges DEF Answers
  <2>3. Betrays(a, h)'
    BY <1>0, <2>1, <2>2, OthersBetrayed
  <2> QED BY <2>3
<1>3. ASSUME NEW t \in Thread, NEW f, GivesUp(t, f) PROVE \E g : Betrays(a, g)'
  <2>1. ~ GivenBack(call[t], a) /\ queue' = queue /\ oracle' = oracle
    BY <1>3, TodoDiffer DEF GivesUp, GivenBack
  <2>2. \A u \in Thread \ {t} : call'[u] = call[u]
    BY <1>0, <1>3, CallChanges DEF GivesUp
  <2>3. Betrays(a, h)'
    BY <1>0, <2>1, <2>2, OthersBetrayed
  <2> QED BY <2>3
<1>4. ASSUME NEW t \in Thread, NEW c, Announces(t, c) PROVE \E g : Betrays(a, g)'
  <2> DEFINE k == call[t]
             e == EventOf(k)
  <2>1. /\ k.todo = <<"publish", "real">> /\ k.op = "free"
        /\ Sends(e) /\ oracle' = oracle
    BY <1>4 DEF Announces
  <2>2. e \in Event /\ k \in CallType /\ k.op # "none"
    BY <1>0, <1>4, EventsOfCalls
  <2>3. \A u \in Thread \ {t} : call'[u] = call[u]
    BY <1>0, <1>4, CallChanges DEF Announces
  <2>4. ~ GivenBack(k, a)
    BY <2>1, TodoDiffer DEF GivenBack
  <2>5. ~ Obtains(e, a)
    BY <2>1, <2>2, EventSays
  <2> HIDE DEF e
  <2>6. \A u \in Thread : GivenBack(call[u], a) =>
          (GivenBack(call'[u], a) \/ Releases(e, a)) /\ ~ Obtains(e, a)
    BY <2>3, <2>4, <2>5
  <2> QED BY <1>0, <2>1, <2>2, <2>6, SentBetrayed
<1>5. ASSUME NEW t \in Thread, Returns(t) PROVE \E g : Betrays(a, g)'
  <2> DEFINE k == call[t]
             e == EventOf(k)
  <2>1. k.todo = <<"publish">> /\ Sends(e) /\ oracle' = oracle
    BY <1>5 DEF Returns
  <2>2. e \in Event /\ k \in CallType /\ k.op # "none"
    BY <1>0, <1>5, EventsOfCalls
  <2>3. \A u \in Thread \ {t} : call'[u] = call[u]
    BY <1>0, <1>5, CallChanges DEF Returns
  <2>4. GivenBack(k, a) => Releases(e, a)
    BY <2>2, EventSays DEF GivenBack, Releases
  <2>5. ASSUME NEW u \in Thread, GivenBack(call[u], a) PROVE ~ Obtains(e, a)
    <3>1. Obtains(e, a) => a \in Gain(k)
      BY <2>2, EventSays, PipelineAssumption DEF Gain
    <3>2. Owns(k, misused) = Gain(k)
      BY <2>1, TodoDiffer DEF Owns
    <3> QED BY <1>0, <2>5, <3>1, <3>2, OneOwner
  <2> HIDE DEF e
  <2>6. \A u \in Thread : GivenBack(call[u], a) =>
          (GivenBack(call'[u], a) \/ Releases(e, a)) /\ ~ Obtains(e, a)
    BY <2>3, <2>4, <2>5
  <2> QED BY <1>0, <2>1, <2>2, <2>6, SentBetrayed
<1>6. ASSUME NEW t \in Thread, RealAbort(t) PROVE \E g : Betrays(a, g)'
  <2>1. UNCHANGED <<call, queue, oracle>>
    BY <1>0, <1>6, AbortQuiet
  <2>2. Betrays(a, h)'
    BY <2>1, KeptBetrayed
  <2> QED BY <2>2
<1>7. ASSUME NEW t \in Thread, NEW d, NEW c PROVE ~ Mistakes(t, d, c)
  BY DEF Mistakes
<1>8. CASE Deliver
  BY <1>0, <1>8, DeliveredBetrayed DEF Base
<1> QED BY <1>0, <1>1, <1>2, <1>3, <1>4, <1>5, <1>6, <1>7, <1>8, StepCases DEF Base, Sound

(* The block freed once too often was taken for freed, by the reader or by *)
(* the one who publishes last.                                             *)
LEMMA MistakeBetrayed ==
  ASSUME Base, Told, NEW t \in Thread, NEW a \in Addr, NEW c, Mistakes(t, a, c),
         a \notin blurred'
  PROVE  \E g : Betrays(a, g)'
<1>0. Sound /\ Typed
  BY DEF Base, Sound
<1>1. /\ call[t] = NoCall /\ misused = {} /\ heap[proc[t]][a] = "free"
      /\ heap' = heap /\ oracle' = oracle
  BY DEF Mistakes
<1>2. PICK e \in Event : Sends(e) /\ e.kind = "free" /\ e.addr = a /\ e.aux_addr = Null
  BY DEF Mistakes
<1>3. a \notin blurred /\ a # Null
  BY <1>2, PipelineAssumption DEF Sends
<1>4. queue' = Append(queue, e)
  BY <1>2, <1>3 DEF Sends
<1>5. PICK h : Tells(a, h)
  BY <1>1, <1>3 DEF Told
<1>6. SharpAt(a) /\ proc[t] \in Process
  BY <1>0, <1>3 DEF Base, Sharp, Typed
<1> DEFINE n == Len(queue)
<1>7. Foresees(h, a) /\ (Expected(a) <=> h[n] = "live") /\ (Heard(a) => h[n] # "unknown")
  BY <1>5 DEF Tells
<1>8. PICK g : /\ Foresees(g, a)'
               /\ \A i \in 0 .. n : g[i] = h[i]
               /\ g[n + 1] = After(h[n], e, a)
  BY <1>0, <1>4, <1>1, <1>7, HistoryGrows DEF Typed
<1>9. Len(queue') = n + 1 /\ n \in Nat /\ queue'[n + 1] = e
  BY <1>0, <1>4, <1>1, <1>7, HistoryGrows DEF Typed
<1>10. h[n] \in {"live", "gone"}
  <2>1. Heard(a)
    BY <1>1, <1>6 DEF Heard
  <2>2. n \in 0 .. n /\ h \in [0 .. n -> Belief]
    BY <1>7, <1>9 DEF Foresees
  <2> QED BY <1>7, <2>1, <2>2 DEF Belief
<1>11. Frees(e, a) /\ Releases(e, a) /\ ~ Obtains(e, a)
  BY <1>2 DEF Frees, Releases, Obtains
<1> HIDE DEF n
<1>12. CASE h[n] = "gone"
  <2>1. n + 1 \in 1 .. n + 1 /\ (n + 1) - 1 = n /\ n \in 0 .. n
    BY <1>9
  <2>2. \E i \in 1 .. Len(queue') : Releases(queue'[i], a) /\ g[i - 1] = "gone"
    BY <1>8, <1>9, <1>11, <1>12, <2>1
  <2>3. Betrays(a, g)'
    BY <1>8, <2>2 DEF Betrays
  <2> QED BY <2>3
<1>13. CASE h[n] = "live"
  <2>1. ~ Somewhere(heap, a)
    BY <1>1, <1>6 DEF SharpAt, Somewhere
  <2>2. PICK u \in Thread : GivenBack(call[u], a)
    BY <1>7, <1>13, <2>1 DEF Expected
  <2>3. u # t
    BY <1>1, <2>2, NoCallNeutral, TodoDiffer DEF GivenBack
  <2>4. call'[u] = call[u]
    BY <1>0, <2>3, CallChanges DEF Mistakes
  <2>5. g[Len(queue')] = "gone"
    BY <1>8, <1>9, <1>11 DEF After
  <2>6. Betrays(a, g)'
    BY <1>8, <2>2, <2>4, <2>5 DEF Betrays
  <2> QED BY <2>6
<1> QED BY <1>10, <1>12, <1>13

LEMMA NextBetrayed == Base /\ Told /\ Betrayed /\ [Next]_vars => Betrayed'
<1> SUFFICES ASSUME Base, Told, Betrayed, [Next]_vars,
                    NEW a \in misused', a \notin blurred'
             PROVE  Full' \/ Reported(a)' \/ \E g : Betrays(a, g)'
  BY DEF Betrayed
<1>0. Sound /\ Typed /\ IsOracle(oracle)
  BY DEF Base, Sound
<1>1. a \in Addr /\ a \notin blurred
  BY NextBase, NeverForgets DEF Base, Sound, Typed
<1>2. SharpAt(a)
  BY <1>1 DEF Base, Sharp
<1>3. CASE misused' = misused /\ Next
  <2>1. Full \/ Reported(a) \/ \E h : Betrays(a, h)
    BY <1>1, <1>3 DEF Betrayed
  <2>2. CASE Full \/ Reported(a)
    <3>1. CASE Deliver
      BY <1>0, <2>2, <3>1, DeliveredReported
    <3>2. CASE ~ Deliver
      BY <2>2, <3>2, OracleStays DEF Full, Reported
    <3> QED BY <3>1, <3>2
  <2>3. CASE \E h : Betrays(a, h)
    BY <1>1, <1>2, <1>3, <2>3, StepBetrayed
  <2> QED BY <2>1, <2>2, <2>3
<1>4. CASE \E t \in Thread, d \in Addr : \E c : Mistakes(t, d, c)
  <2>1. PICK t \in Thread, d \in Addr : \E c : Mistakes(t, d, c)
    BY <1>4
  <2>2. PICK c : Mistakes(t, d, c)
    BY <2>1
  <2>3. a = d
    BY <2>2 DEF Mistakes
  <2> QED BY <1>1, <2>2, <2>3, MistakeBetrayed
<1>5. CASE vars' = vars
  <2>1. UNCHANGED <<call, misused, blurred, queue, oracle>>
    BY <1>5 DEF vars, program, ring, monitor
  <2>2. Full \/ Reported(a) \/ \E h : Betrays(a, h)
    BY <1>1, <2>1 DEF Betrayed
  <2>3. CASE Full \/ Reported(a)
    BY <2>1, <2>3 DEF Full, Reported
  <2>4. ASSUME NEW h, Betrays(a, h) PROVE Betrays(a, h)'
    BY <2>1, <2>4, KeptBetrayed
  <2> QED BY <2>2, <2>3, <2>4
<1>6. misused' = misused \/ vars' = vars \/ \E t \in Thread, d \in Addr : \E c : Mistakes(t, d, c)
  <2>1. ASSUME NEW t \in Thread, NEW c, Starts(t, c) \/ Announces(t, c)
        PROVE  misused' = misused
    BY <2>1 DEF Starts, Announces
  <2>2. ASSUME NEW t \in Thread, NEW lost, NEW b, NEW c, Answers(t, lost, b, c)
        PROVE  misused' = misused
    BY <2>2 DEF Answers
  <2>3. ASSUME NEW t \in Thread, NEW f, GivesUp(t, f) PROVE misused' = misused
    BY <2>3 DEF GivesUp
  <2>4. ASSUME NEW t \in Thread, Returns(t) \/ RealAbort(t) PROVE misused' = misused
    BY <1>0, <2>4, AbortQuiet DEF Returns
  <2>5. CASE Deliver
    BY <1>0, <2>5, DeliverTyped
  <2> QED BY <1>0, <2>1, <2>2, <2>3, <2>4, <2>5, StepCases DEF Sound
<1> QED BY <1>3, <1>4, <1>5, <1>6

-----------------------------------------------------------------------------
(* The invariant, and what follows from it                                 *)

Inv == Base /\ Told /\ AlarmsNeedBlur /\ Betrayed

LEMMA InitInv == Init => Inv
<1>1. Init => Betrayed
  BY DEF Init, Betrayed
<1> QED BY <1>1, InitBase, InitTold, InitAlarms DEF Inv

LEMMA NextInv == Inv /\ [Next]_vars => Inv'
BY NextBase, NextTold, NextAlarms, NextBetrayed DEF Inv

LEMMA InvImplies ==
  Inv => /\ TypeOK /\ OracleMatchesHeap
         /\ Len(oracle.alerts) < AlertCap => MisuseReported
<1> SUFFICES ASSUME Inv
             PROVE  /\ TypeOK /\ OracleMatchesHeap
                    /\ Len(oracle.alerts) < AlertCap => MisuseReported
  OBVIOUS
<1>1. TypeOK
  <2>1. \A i \in DOMAIN queue : queue[i] \in Event
    BY DEF Inv, Base, Sound, Typed
  <2> QED BY <2>1 DEF Inv, Base, Sound, Typed, Owned, LiveIn, TypeOK
<1>2. OracleMatchesHeap
  BY AgreesWhenQuiet DEF Inv
<1>3. ASSUME Len(oracle.alerts) < AlertCap, queue = << >>,
             NEW a \in misused, a \notin blurred
      PROVE  Reported(a) \/ \E t \in Thread : call[t].op = "realloc" /\ call[t].from = a
  <2>1. ~ Full
    BY <1>3, AlertsList DEF Inv, Base, Full
  <2>2. ASSUME NEW h, Betrays(a, h)
        PROVE  \E t \in Thread : call[t].op = "realloc" /\ call[t].from = a
    <3>1. ~ \E i \in 1 .. Len(queue) : TRUE
      BY <1>3
    <3> QED BY <2>2, <3>1 DEF Betrays, GivenBack
  <2> QED BY <1>3, <2>1, <2>2 DEF Inv, Betrayed
<1> QED BY <1>1, <1>2, <1>3 DEF MisuseReported, Reported

LEMMA SpecInv == Spec => []Inv
<1>1. Spec => Init /\ [][Next]_vars
  BY DEF Spec
<1> QED BY <1>1, InitInv, NextInv, PTL

(* Every variable of the program and the ring has its type; what a process *)
(* holds and may free is live on its own heap, also after moves, failed    *)
(* reallocs and mistakes of other threads.                                 *)
THEOREM PipelineTypes == Spec => []TypeOK
BY SpecInv, InvImplies, PTL

(* A program that releases only what it holds raises no alert but about a  *)
(* blurred address, whatever its threads and processes interleave between  *)
(* a real call and its publication (hook.c), and however late the monitor  *)
(* reads the ring.                                                         *)
THEOREM AlarmsAreBlurred == Spec => []AlarmsNeedBlur
BY SpecInv, PTL DEF Inv

(* When nothing is on its way the shadow heap has for allocated exactly the*)
(* live blocks of the processes.                                           *)
THEOREM OracleAgrees == Spec => []OracleMatchesHeap
BY SpecInv, InvImplies, PTL

(* As long as the list of alerts is not full, a block freed once too       *)
(* often is reported as a double free, or as a realloc after free, once    *)
(* every release of it is published and read.                              *)
THEOREM MisusesReported ==
  Spec => [](Len(oracle.alerts) < AlertCap => MisuseReported)
BY SpecInv, InvImplies, PTL
=============================================================================
