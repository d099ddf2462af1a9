-------------------------- MODULE HeapOracleProofs --------------------------
(***************************************************************************)
(* TLAPS proofs about HeapOracle, for every set of addresses, every size   *)
(* set, fill count and alert bound.                                        *)
(***************************************************************************)
EXTENDS HeapOracle, GlibcBinsProofs, SequenceLemmas, FiniteSetTheorems

OracleType ==
  [chunks       : [Addr -> ChunkRecord],
   bins         : [BinLocation -> Seq(Addr)],
   bin_index    : [Addr -> BinLocation \cup {NoBin}],
   counts       : [Tag -> Nat],
   alerts       : Seq(Alert),
   next_index   : Nat,
   total_events : Nat]

(* The bins and bin_index show the freed chunks, except that `out` has     *)
(* been taken off the lists already: the state between remove_from_bins    *)
(* and the end of a call.  `out` is Null between calls.                    *)
Shows(o, out, a, loc) == a # out /\ o.chunks[a].state = Freed(loc)

BinsAgree(o, out) ==
  \A loc \in BinLocation :
    /\ IsInjective(o.bins[loc])
    /\ \A a \in Addr : /\ a \in ToSet(o.bins[loc]) <=> Shows(o, out, a, loc)
                       /\ o.bin_index[a] = loc     <=> Shows(o, out, a, loc)

InState(o, t) == {a \in Addr : o.chunks[a].state.tag = t}

CountsAgree(o) == \A t \in Tag : o.counts[t] = Cardinality(InState(o, t))

TcacheFits(o) ==
  \A i \in 0 .. TcacheBins - 1 : Len(o.bins[Tcache(i)]) <= TcacheFillCount

Good(o, out) ==
  o \in OracleType /\ BinsAgree(o, out) /\ CountsAgree(o) /\ TcacheFits(o)

-----------------------------------------------------------------------------
(* The enums are what their names say: distinct constructors, distinct     *)
(* values.                                                                 *)
LEMMA Bins ==
  /\ BinLocation \subseteq BinType
  /\ NoBin \notin BinType
  /\ \A i \in 0 .. TcacheBins - 1 : Tcache(i) \in BinLocation
  /\ Reallocated \in BinType /\ Reallocated \notin BinLocation
<1> USE DEF BinLocation, BinType, Tcache, Fastbin, TcacheBins, FastbinBins
<1>1. ASSUME NEW loc \in BinLocation PROVE loc \in BinType
  <2>1. CASE \E i \in 0 .. TcacheBins - 1 : loc = Tcache(i)
    BY <2>1
  <2>2. CASE \E i \in 0 .. FastbinBins - 1 : loc = Fastbin(i)
    <3>1. PICK i \in 0 .. FastbinBins - 1 : loc = Fastbin(i)
      BY <2>2
    <3>2. i \in 0 .. TcacheBins - 1
      OBVIOUS
    <3> QED BY <3>1, <3>2
  <2> QED BY <2>1, <2>2
<1>2. NoBin \notin BinType
  BY DEF NoBin
<1>3. \A i \in 0 .. TcacheBins - 1 : Tcache(i) \in BinLocation
  OBVIOUS
<1>4. Reallocated \in BinType
  BY DEF Reallocated
<1>5. Reallocated \notin BinLocation
  BY DEF Reallocated
<1> QED BY <1>1, <1>2, <1>3, <1>4, <1>5

(* The constructors of ChunkState build distinct states, each with its own *)
(* tag.                                                                    *)
LEMMA States ==
  /\ \A b \in BinType : /\ Freed(b) \in ChunkState
                        /\ Freed(b).tag = "freed"
                        /\ \A c \in BinType : Freed(b) = Freed(c) => b = c
  /\ \A r \in UafReason : Uaf(r) \in ChunkState /\ Uaf(r).tag = "uaf"
  /\ Allocated \in ChunkState /\ Allocated.tag = "allocated"
  /\ Absent \in ChunkState /\ Absent.tag = "absent"
  /\ \A s \in ChunkState : s # Absent => s.tag \in Tag
<1> USE DEF Freed, Uaf, Allocated, Absent, ChunkState
<1>1. ASSUME NEW b \in BinType
      PROVE  /\ Freed(b) \in ChunkState /\ Freed(b).tag = "freed"
             /\ \A c \in BinType : Freed(b) = Freed(c) => b = c
  <2>1. \A c \in BinType : Freed(c).bin = c
    OBVIOUS
  <2> QED BY <2>1
<1>2. \A r \in UafReason : Uaf(r) \in ChunkState /\ Uaf(r).tag = "uaf"
  OBVIOUS
<1>3. /\ Allocated \in ChunkState /\ Allocated.tag = "allocated"
      /\ Absent \in ChunkState /\ Absent.tag = "absent"
  OBVIOUS
<1>4. \A s \in ChunkState : s # Absent => s.tag \in Tag
  BY DEF Tag
<1> QED BY <1>1, <1>2, <1>3, <1>4

(* remove_from_bins takes the address out of its list, if it is on one,    *)
(* and touches nothing else.                                               *)
LEMMA RemoveFromBinsGood ==
  ASSUME NEW o, Good(o, Null), NEW a \in Addr
  PROVE  /\ Good(RemoveFromBins(o, a), a)
         /\ RemoveFromBins(o, a).chunks = o.chunks
         /\ RemoveFromBins(o, a).next_index = o.next_index
<1> DEFINE r   == RemoveFromBins(o, a)
           loc == o.bin_index[a]
<1>1. o \in OracleType /\ BinsAgree(o, Null) /\ a # Null
  BY HeapOracleAssumption DEF Good
<1>2. CASE loc = NoBin
  <2>1. r = o
    BY <1>2 DEF RemoveFromBins
  <2>2. ASSUME NEW l \in BinLocation PROVE o.chunks[a].state # Freed(l)
    BY <1>1, <1>2, Bins DEF BinsAgree, Shows
  <2>3. BinsAgree(o, a)
    BY <1>1, <2>2, HeapOracleAssumption DEF BinsAgree, Shows
  <2> QED BY <2>1, <2>3 DEF Good
<1>3. CASE loc # NoBin
  <2>1. /\ r.bins = [o.bins EXCEPT ![loc] = RemoveFirst(o.bins[loc], a)]
        /\ r.bin_index = [o.bin_index EXCEPT ![a] = NoBin]
        /\ r.chunks = o.chunks /\ r.next_index = o.next_index
        /\ r.counts = o.counts /\ r.alerts = o.alerts
        /\ r.total_events = o.total_events
        /\ r = [o EXCEPT !.bins = r.bins, !.bin_index = r.bin_index]
    BY <1>1, <1>3 DEF RemoveFromBins, OracleType
  <2>2. loc \in BinLocation /\ o.bins[loc] \in Seq(Addr)
    BY <1>1, <1>3 DEF OracleType
  <2>3. IsInjective(o.bins[loc])
    BY <1>1, <2>2 DEF BinsAgree
  <2>4. /\ RemoveFirst(o.bins[loc], a) \in Seq(Addr)
        /\ Len(RemoveFirst(o.bins[loc], a)) <= Len(o.bins[loc])
        /\ IsInjective(RemoveFirst(o.bins[loc], a))
        /\ ToSet(RemoveFirst(o.bins[loc], a)) = ToSet(o.bins[loc]) \ {a}
    BY <2>2, <2>3, RemoveFirstElements
  <2>5. r \in OracleType
    <3>1. /\ r.bins \in [BinLocation -> Seq(Addr)]
          /\ r.bin_index \in [Addr -> BinLocation \cup {NoBin}]
      BY <1>1, <2>1, <2>2, <2>4 DEF OracleType
    <3> QED BY <1>1, <2>1, <3>1 DEF OracleType
  <2>6. o.chunks[a].state = Freed(loc)
    BY <1>1, <2>2 DEF BinsAgree, Shows
  <2>7. BinsAgree(r, a)
    <3> SUFFICES ASSUME NEW l \in BinLocation
                 PROVE /\ IsInjective(r.bins[l])
                       /\ \A b \in Addr :
                            /\ b \in ToSet(r.bins[l]) <=> Shows(r, a, b, l)
                            /\ r.bin_index[b] = l     <=> Shows(r, a, b, l)
      BY DEF BinsAgree
    <3>1. /\ IsInjective(o.bins[l])
          /\ \A b \in Addr :
               /\ b \in ToSet(o.bins[l]) <=> Shows(o, Null, b, l)
               /\ o.bin_index[b] = l     <=> Shows(o, Null, b, l)
      BY <1>1 DEF BinsAgree
    <3>2. o.chunks[a].state = Freed(l) => l = loc
      BY <2>2, <2>6, Bins, States
    <3>3. r.bins[l] = IF l = loc THEN RemoveFirst(o.bins[loc], a) ELSE o.bins[l]
      BY <1>1, <2>1 DEF OracleType
    <3>4. IsInjective(r.bins[l])
      BY <3>1, <3>3, <2>4
    <3>5. ASSUME NEW b \in Addr PROVE b \in ToSet(r.bins[l]) <=> Shows(r, a, b, l)
      BY <3>1, <3>2, <3>3, <2>1, <2>4, HeapOracleAssumption DEF Shows
    <3>6. ASSUME NEW b \in Addr PROVE r.bin_index[b] = l <=> Shows(r, a, b, l)
      BY <3>1, <2>1, <1>1, Bins, HeapOracleAssumption DEF Shows, OracleType
    <3> QED BY <3>4, <3>5, <3>6
  <2>8. CountsAgree(r)
    BY <2>1 DEF Good, CountsAgree, InState
  <2>9. TcacheFits(r)
    <3> SUFFICES ASSUME NEW i \in 0 .. TcacheBins - 1
                 PROVE Len(r.bins[Tcache(i)]) <= TcacheFillCount
      BY DEF TcacheFits
    <3>1. Len(o.bins[Tcache(i)]) <= TcacheFillCount /\ Tcache(i) \in BinLocation
      BY Bins DEF Good, TcacheFits
    <3>2. CASE Tcache(i) = loc
      <4>1. /\ Len(o.bins[loc]) \in Nat
            /\ Len(RemoveFirst(o.bins[loc], a)) \in Nat
        BY <2>2, <2>4, LenProperties
      <4>2. r.bins[loc] = RemoveFirst(o.bins[loc], a)
        BY <1>1, <2>1, <2>2 DEF OracleType
      <4> QED BY <3>1, <3>2, <4>1, <4>2, <2>4, HeapOracleAssumption
    <3>3. CASE Tcache(i) # loc
      BY <3>1, <3>3, <1>1, <2>1 DEF OracleType
    <3> QED BY <3>2, <3>3
  <2> QED BY <2>1, <2>5, <2>7, <2>8, <2>9 DEF Good
<1> QED BY <1>2, <1>3

(* count_state_change keeps the counters equal to the sizes of the sets    *)
(* they stand for; a subtraction only happens for a chunk that is counted. *)
LEMMA CountsFollow ==
  ASSUME NEW o \in OracleType, CountsAgree(o), NEW a \in Addr,
         NEW new \in ChunkState, new # Absent, NEW t \in Tag
  PROVE  /\ CountStateChange(o, o.chunks[a].state, new).counts[t] \in Nat
         /\ CountStateChange(o, o.chunks[a].state, new).counts[t] =
              Cardinality({b \in Addr :
                 IF b = a THEN new.tag = t ELSE o.chunks[b].state.tag = t})
<1> DEFINE old == o.chunks[a].state
           c   == CountStateChange(o, old, new).counts[t]
           S   == InState(o, t)
           S2  == {b \in Addr : IF b = a THEN new.tag = t
                                ELSE o.chunks[b].state.tag = t}
<1>1. c = o.counts[t] - (IF t = old.tag THEN 1 ELSE 0)
                      + (IF t = new.tag THEN 1 ELSE 0)
  BY DEF CountStateChange, OracleType
<1>2. o.counts[t] = Cardinality(S) /\ o.counts[t] \in Nat
  BY DEF CountsAgree, OracleType
<1>3. IsFiniteSet(S)
  <2>1. S \subseteq Addr
    BY DEF InState
  <2> QED BY <2>1, FS_Subset, HeapOracleAssumption
<1>4. a \in S <=> t = old.tag
  BY DEF InState
<1> SUFFICES c \in Nat /\ c = Cardinality(S2)
  OBVIOUS
<1> HIDE DEF c, S, S2
<1>5. CASE t = old.tag /\ t = new.tag
  <2>1. S2 = S
    BY <1>5 DEF InState, S, S2
  <2> QED BY <2>1, <1>1, <1>2, <1>5
<1>6. CASE t = old.tag /\ t # new.tag
  <2>1. S2 = S \ {a}
    BY <1>6 DEF InState, S, S2
  <2>2. Cardinality(S \ {a}) = Cardinality(S) - 1 /\ Cardinality(S \ {a}) \in Nat
    <3>1. IsFiniteSet(S \ {a})
      BY <1>3, FS_Subset
    <3>2. Cardinality(S \ {a}) = Cardinality(S) - 1
      BY <1>3, <1>4, <1>6, FS_RemoveElement
    <3> QED BY <3>1, <3>2, FS_CardinalityType
  <2>3. c = Cardinality(S) - 1
    BY <1>1, <1>2, <1>6
  <2> QED BY <2>1, <2>2, <2>3
<1>7. CASE t # old.tag /\ t = new.tag
  <2>1. S2 = S \cup {a}
    BY <1>7 DEF InState, S, S2
  <2>2. Cardinality(S \cup {a}) = Cardinality(S) + 1
    BY <1>3, <1>4, <1>7, FS_AddElement
  <2>3. c = Cardinality(S) + 1
    BY <1>1, <1>2, <1>7
  <2> QED BY <2>1, <2>2, <2>3, <1>2
<1>8. CASE t # old.tag /\ t # new.tag
  <2>1. S2 = S
    BY <1>8 DEF InState, S, S2
  <2> QED BY <2>1, <1>1, <1>2, <1>8
<1> QED BY <1>5, <1>6, <1>7, <1>8

(* A record replaced together with its count keeps the struct good, as     *)
(* long as its address is off the bins.                                    *)
WithRecord(o, a, rec, n) ==
  [CountStateChange(o, o.chunks[a].state, rec.state) EXCEPT
     !.chunks[a] = rec, !.next_index = n]

(* A record replaced together with its count leaves the struct good.       *)
LEMMA RecordGood ==
  ASSUME NEW o, NEW a \in Addr, Good(o, a),
         NEW rec \in ChunkRecord, rec.state # Absent, NEW n \in Nat
  PROVE  /\ Good(WithRecord(o, a, rec, n), a)
         /\ WithRecord(o, a, rec, n).chunks = [o.chunks EXCEPT ![a] = rec]
         /\ WithRecord(o, a, rec, n).bins = o.bins
<1> DEFINE r == WithRecord(o, a, rec, n)
           counts == CountStateChange(o, o.chunks[a].state, rec.state).counts
<1>1. /\ o \in OracleType /\ BinsAgree(o, a) /\ CountsAgree(o) /\ TcacheFits(o)
      /\ rec.state \in ChunkState
  BY DEF Good, ChunkRecord
<1>2. /\ r.chunks = [o.chunks EXCEPT ![a] = rec]
      /\ r.counts = counts
      /\ r.bins = o.bins /\ r.bin_index = o.bin_index /\ r.alerts = o.alerts
      /\ r.next_index = n /\ r.total_events = o.total_events
      /\ r = [o EXCEPT !.chunks = r.chunks, !.counts = counts, !.next_index = n]
  BY <1>1 DEF WithRecord, CountStateChange, OracleType
<1>3. ASSUME NEW t \in Tag
      PROVE  /\ counts[t] \in Nat
             /\ counts[t] = Cardinality({b \in Addr :
                   IF b = a THEN rec.state.tag = t ELSE o.chunks[b].state.tag = t})
  BY <1>1, CountsFollow
<1>4. counts \in [Tag -> Nat]
  <2>1. counts = [t \in Tag |-> counts[t]]
    BY <1>1 DEF CountStateChange, OracleType
  <2> QED BY <2>1, <1>3
<1> HIDE DEF counts, r
<1>5. r \in OracleType
  <2>1. r.chunks \in [Addr -> ChunkRecord]
    BY <1>1, <1>2, <1>4 DEF OracleType
  <2> QED BY <1>1, <1>2, <1>4, <2>1 DEF OracleType
<1>6. CountsAgree(r)
  <2> SUFFICES ASSUME NEW t \in Tag PROVE r.counts[t] = Cardinality(InState(r, t))
    BY DEF CountsAgree
  <2>1. InState(r, t) = {b \in Addr :
           IF b = a THEN rec.state.tag = t ELSE o.chunks[b].state.tag = t}
    BY <1>1, <1>2 DEF InState, OracleType
  <2> QED BY <2>1, <1>2, <1>3
<1>7. BinsAgree(r, a)
  BY <1>1, <1>2 DEF BinsAgree, Shows, OracleType
<1>8. TcacheFits(r)
  BY <1>1, <1>2 DEF TcacheFits
<1> QED BY <1>2, <1>5, <1>6, <1>7, <1>8 DEF Good, r

(* A state assigned after count_state_change leaves the struct good.       *)
LEMMA ChangeStateGood ==
  ASSUME NEW o, NEW a \in Addr, Good(o, a),
         NEW new \in ChunkState, new # Absent
  PROVE  /\ Good(ChangeState(o, a, new), a)
         /\ ChangeState(o, a, new).chunks = [o.chunks EXCEPT ![a].state = new]
         /\ ChangeState(o, a, new).bins = o.bins
<1> DEFINE rec == [o.chunks[a] EXCEPT !.state = new]
           r == WithRecord(o, a, rec, o.next_index)
<1>1. o \in OracleType
  BY DEF Good
<1>2. rec \in ChunkRecord /\ rec.state = new /\ o.next_index \in Nat
  BY <1>1 DEF OracleType, ChunkRecord
<1>3. ChangeState(o, a, new) = r
  BY <1>1, <1>2 DEF ChangeState, WithRecord, CountStateChange, OracleType
<1>4. [o.chunks EXCEPT ![a].state = new] = [o.chunks EXCEPT ![a] = rec]
  BY <1>1 DEF OracleType
<1> HIDE DEF rec
<1>5. /\ Good(r, a) /\ r.bins = o.bins
      /\ r.chunks = [o.chunks EXCEPT ![a] = rec]
  BY <1>2, RecordGood
<1> QED BY <1>3, <1>4, <1>5

(* chunks.insert after count_state_change leaves the struct good.          *)
LEMMA InsertRecordGood ==
  ASSUME NEW o, NEW a \in Addr, Good(o, a), NEW size \in Usize,
         NEW new \in ChunkState, new # Absent, NEW generation \in Nat
  PROVE  /\ Good(InsertRecord(o, a, size, new, generation), a)
         /\ InsertRecord(o, a, size, new, generation).chunks =
              [o.chunks EXCEPT ![a] =
                 [index |-> o.next_index, size |-> size,
                  state |-> new, generation |-> generation]]
<1> DEFINE rec == [index |-> o.next_index, size |-> size,
                   state |-> new, generation |-> generation]
           r == WithRecord(o, a, rec, o.next_index + 1)
<1>1. o \in OracleType
  BY DEF Good
<1>2. /\ rec \in ChunkRecord /\ rec.state = new
      /\ o.next_index + 1 \in Nat
  BY <1>1 DEF OracleType, ChunkRecord
<1>3. InsertRecord(o, a, size, new, generation) = r
  BY <1>1, <1>2 DEF InsertRecord, WithRecord, CountStateChange, OracleType
<1> HIDE DEF rec
<1>4. Good(r, a) /\ r.chunks = [o.chunks EXCEPT ![a] = rec]
  BY <1>2, RecordGood
<1> QED BY <1>3, <1>4 DEF rec

(* Once the state of `out` is not one that a bin shows, the exception can  *)
(* be dropped.                                                             *)
LEMMA Settle ==
  ASSUME NEW o, NEW a \in Addr, Good(o, a),
         \A loc \in BinLocation : o.chunks[a].state # Freed(loc)
  PROVE  Good(o, Null)
<1>1. BinsAgree(o, Null)
  BY HeapOracleAssumption DEF Good, BinsAgree, Shows
<1> QED BY <1>1 DEF Good

(* raise_alert touches the alert list only. *)
LEMMA RaiseAlertGood ==
  ASSUME NEW o, NEW a \in Addr, NEW out, Good(o, out), NEW reason \in UafReason
  PROVE  /\ Good(RaiseAlert(o, a, reason), out)
         /\ RaiseAlert(o, a, reason).chunks = o.chunks
         /\ RaiseAlert(o, a, reason).next_index = o.next_index
<1> DEFINE all  == Append(o.alerts, [addr |-> a, reason |-> reason])
           from == IF Len(all) > AlertCap THEN Len(all) - AlertCap + 1 ELSE 1
           kept == SubSeq(all, from, Len(all))
           r    == RaiseAlert(o, a, reason)
<1>1. o \in OracleType
  BY DEF Good
<1>2. o.alerts \in Seq(Alert) /\ [addr |-> a, reason |-> reason] \in Alert
  BY <1>1 DEF OracleType, Alert
<1>3. all \in Seq(Alert)
  BY <1>2, AppendProperties
<1>4. r = [o EXCEPT !.alerts = kept]
  BY DEF RaiseAlert
<1> HIDE DEF all
<1>5. Len(all) \in Nat /\ \A i \in 1 .. Len(all) : all[i] \in Alert
  BY <1>3, LenProperties, ElementOfSeq
<1>6. from \in Nat /\ from >= 1
  BY <1>5, HeapOracleAssumption
<1> HIDE DEF from
<1>7. kept \in Seq(Alert)
  <2>1. \A i \in from .. Len(all) : all[i] \in Alert
    BY <1>5, <1>6
  <2>2. from \in Int /\ Len(all) \in Int
    BY <1>5, <1>6
  <2> QED BY <2>1, <2>2, SubSeqProperties
<1> HIDE DEF kept, r
<1>8. /\ r.chunks = o.chunks /\ r.bins = o.bins /\ r.bin_index = o.bin_index
      /\ r.counts = o.counts /\ r.next_index = o.next_index
      /\ r \in OracleType
  BY <1>1, <1>4, <1>7 DEF OracleType
<1>9. BinsAgree(r, out) /\ CountsAgree(r) /\ TcacheFits(r)
  BY <1>8 DEF Good, BinsAgree, Shows, CountsAgree, InState, TcacheFits
<1> QED BY <1>8, <1>9 DEF Good, r

-----------------------------------------------------------------------------
(* classify_free_bin names an existing bin, and a tcache bin only when it  *)
(* has room.                                                               *)
LEMMA ClassifyGood ==
  ASSUME NEW o \in OracleType, NEW size \in Usize
  PROVE  LET bin == ClassifyFreeBin(o, size)
         IN  /\ bin \in BinType
             /\ bin.kind = "tcache" => Len(o.bins[bin]) < TcacheFillCount
<1> DEFINE chunk == ChunkSize(size)
           idx   == SizeIndex(chunk)
           bin   == ClassifyFreeBin(o, size)
<1>1. /\ HasTcache(chunk) => idx \in 0 .. 63
      /\ HasFastbin(chunk) => idx \in 0 .. 9
      /\ (idx + 2) * 16 = chunk /\ chunk \in Nat /\ chunk >= 32
  BY IndexesInBounds, ChunkWord, UsizeMaxAssumption
     DEF IndexInBounds, ChunkIsWord, TcacheBins, FastbinBins, MinChunk
<1>2. bin = IF HasTcache(chunk) /\ Len(o.bins[Tcache(idx)]) < TcacheFillCount
              THEN Tcache(idx)
            ELSE IF HasFastbin(chunk)  THEN Fastbin(idx)
            ELSE IF chunk <= SmallMax  THEN Smallbin(idx)
            ELSE Largebin
  BY DEF ClassifyFreeBin
<1>3. chunk <= SmallMax => idx \in 0 .. 63
  BY <1>1, UsizeMaxAssumption DEF SmallMax, SizeIndex, MinChunk
<1> HIDE DEF chunk, idx, bin
<1>4. \A i \in 0 .. 63 : Tcache(i) \in BinType /\ Fastbin(i) \in BinType
                          /\ Smallbin(i) \in BinType
  BY DEF Tcache, Fastbin, Smallbin, BinType, TcacheBins
<1>5. Largebin \in BinType
  BY DEF Largebin, BinType, TcacheBins
<1>6. /\ Fastbin(idx).kind # "tcache" /\ Smallbin(idx).kind # "tcache"
      /\ Largebin.kind # "tcache"
  BY DEF Fastbin, Smallbin, Largebin
<1>7. \A i \in 0 .. 9 : i \in 0 .. 63
  OBVIOUS
<1> QED BY <1>1, <1>2, <1>3, <1>4, <1>5, <1>6, <1>7 DEF bin

(* push_bin lists the freed chunk, if its bin has a list, and so completes *)
(* the call.                                                               *)
LEMMA PushBinGood ==
  ASSUME NEW o, NEW a \in Addr, Good(o, a), NEW bin \in BinType,
         o.chunks[a].state = Freed(bin),
         bin.kind = "tcache" => Len(o.bins[bin]) < TcacheFillCount
  PROVE  Good(PushBin(o, a, bin), Null) /\ PushBin(o, a, bin).chunks = o.chunks
<1> DEFINE r == PushBin(o, a, bin)
<1>1. o \in OracleType /\ BinsAgree(o, a) /\ a # Null
  BY HeapOracleAssumption DEF Good
<1>2. CASE bin \notin BinLocation
  <2>1. r = o
    BY <1>2 DEF PushBin
  <2>2. \A loc \in BinLocation : o.chunks[a].state # Freed(loc)
    BY <1>2, Bins, States
  <2> QED BY <2>1, <2>2, Settle
<1>3. CASE bin \in BinLocation
  <2>1. /\ r.bins = [o.bins EXCEPT ![bin] = Append(o.bins[bin], a)]
        /\ r.bin_index = [o.bin_index EXCEPT ![a] = bin]
        /\ r.chunks = o.chunks /\ r.next_index = o.next_index
        /\ r.counts = o.counts /\ r.alerts = o.alerts
        /\ r.total_events = o.total_events
        /\ r = [o EXCEPT !.bins = r.bins, !.bin_index = r.bin_index]
    BY <1>1, <1>3 DEF PushBin, OracleType
  <2>2. /\ o.bins[bin] \in Seq(Addr) /\ IsInjective(o.bins[bin])
        /\ a \notin ToSet(o.bins[bin])
    BY <1>1, <1>3 DEF OracleType, BinsAgree, Shows
  <2>3. /\ Append(o.bins[bin], a) \in Seq(Addr)
        /\ Len(Append(o.bins[bin], a)) = Len(o.bins[bin]) + 1
        /\ IsInjective(Append(o.bins[bin], a))
        /\ ToSet(Append(o.bins[bin], a)) = ToSet(o.bins[bin]) \cup {a}
    BY <2>2, AppendElements
  <2> HIDE DEF r
  <2>4. r \in OracleType
    <3>1. /\ r.bins \in [BinLocation -> Seq(Addr)]
          /\ r.bin_index \in [Addr -> BinLocation \cup {NoBin}]
      BY <1>1, <1>3, <2>1, <2>3 DEF OracleType
    <3> QED BY <1>1, <2>1, <3>1 DEF OracleType
  <2>5. BinsAgree(r, Null)
    <3> SUFFICES ASSUME NEW l \in BinLocation
                 PROVE /\ IsInjective(r.bins[l])
                       /\ \A b \in Addr :
                            /\ b \in ToSet(r.bins[l]) <=> Shows(r, Null, b, l)
                            /\ r.bin_index[b] = l     <=> Shows(r, Null, b, l)
      BY DEF BinsAgree
    <3>1. /\ IsInjective(o.bins[l])
          /\ \A b \in Addr :
               /\ b \in ToSet(o.bins[l]) <=> Shows(o, a, b, l)
               /\ o.bin_index[b] = l     <=> Shows(o, a, b, l)
      BY <1>1 DEF BinsAgree
    <3>2. Shows(r, Null, a, l) <=> l = bin
      BY <1>3, <2>1, Bins, States, HeapOracleAssumption DEF Shows
    <3>3. \A b \in Addr : b # a => (Shows(r, Null, b, l) <=> Shows(o, a, b, l))
      BY <2>1, HeapOracleAssumption DEF Shows
    <3>4. ~ Shows(o, a, a, l)
      BY DEF Shows
    <3>5. r.bins[l] = IF l = bin THEN Append(o.bins[bin], a) ELSE o.bins[l]
      BY <1>1, <2>1 DEF OracleType
    <3>6. \A b \in Addr : r.bin_index[b] = IF b = a THEN bin ELSE o.bin_index[b]
      BY <1>1, <2>1 DEF OracleType
    <3> QED BY <3>1, <3>2, <3>3, <3>4, <3>5, <3>6, <2>3
  <2>6. CountsAgree(r)
    BY <2>1 DEF Good, CountsAgree, InState
  <2>7. TcacheFits(r)
    <3> SUFFICES ASSUME NEW i \in 0 .. TcacheBins - 1
                 PROVE Len(r.bins[Tcache(i)]) <= TcacheFillCount
      BY DEF TcacheFits
    <3>1. Len(o.bins[Tcache(i)]) <= TcacheFillCount /\ Tcache(i) \in BinLocation
      BY Bins DEF Good, TcacheFits
    <3>2. CASE Tcache(i) = bin
      <4>1. bin.kind = "tcache"
        BY <3>2 DEF Tcache
      <4>2. Len(o.bins[bin]) < TcacheFillCount /\ Len(o.bins[bin]) \in Nat
        BY <4>1, <2>2, LenProperties
      <4>3. r.bins[bin] = Append(o.bins[bin], a)
        BY <1>1, <1>3, <2>1 DEF OracleType
      <4> QED BY <3>2, <4>2, <4>3, <2>3, HeapOracleAssumption
    <3>3. CASE Tcache(i) # bin
      BY <3>1, <3>3, <1>1, <2>1 DEF OracleType
    <3> QED BY <3>2, <3>3
  <2> QED BY <2>1, <2>4, <2>5, <2>6, <2>7 DEF Good, r
<1> QED BY <1>2, <1>3

-----------------------------------------------------------------------------
(* Whole calls.  `Become` says which addresses end in another state.       *)

StateOf(o, a) == o.chunks[a].state

(* apply_alloc makes its address allocated, touches no other and raises no *)
(* alert.                                                                  *)
LEMMA ApplyAllocGood ==
  ASSUME NEW o, Good(o, Null), NEW a \in AddrOrNull, NEW size \in Usize
  PROVE  LET r == ApplyAlloc(o, a, size).oracle
         IN  /\ Good(r, Null)
             /\ \A b \in Addr :
                  StateOf(r, b) = IF b = a THEN Allocated ELSE StateOf(o, b)
             /\ ApplyAlloc(o, a, size).result.alert = NoAlert
<1>1. CASE a = Null
  <2>1. /\ ApplyAlloc(o, a, size).oracle = o
        /\ ApplyAlloc(o, a, size).result.alert = NoAlert
    BY <1>1 DEF ApplyAlloc, Outcome, NoResult
  <2> QED BY <2>1, <1>1, HeapOracleAssumption
<1>2. CASE a # Null
  <2> DEFINE clean == RemoveFromBins(o, a)
             generation == IF Known(o, a) THEN o.chunks[a].generation + 1 ELSE 0
             r == InsertRecord(clean, a, size, Allocated, generation)
  <2>1. a \in Addr
    BY <1>2 DEF AddrOrNull
  <2>2. /\ ApplyAlloc(o, a, size).oracle = r
        /\ ApplyAlloc(o, a, size).result.alert = NoAlert
    BY <1>2 DEF ApplyAlloc, Outcome, NoResult
  <2>3. Good(clean, a) /\ clean.chunks = o.chunks
    BY <2>1, RemoveFromBinsGood
  <2>4. generation \in Nat
    BY <2>1 DEF Good, OracleType, ChunkRecord
  <2> HIDE DEF clean, generation
  <2>5. Allocated \in ChunkState /\ Allocated # Absent
    BY States DEF Allocated, Absent
  <2>6. /\ Good(r, a)
        /\ r.chunks = [clean.chunks EXCEPT ![a] =
                         [index |-> clean.next_index, size |-> size,
                          state |-> Allocated, generation |-> generation]]
    BY <2>1, <2>3, <2>4, <2>5, InsertRecordGood
  <2> HIDE DEF r
  <2>7. o.chunks \in [Addr -> ChunkRecord]
    BY DEF Good, OracleType
  <2>8. \A b \in Addr : StateOf(r, b) = IF b = a THEN Allocated ELSE StateOf(o, b)
    BY <2>1, <2>3, <2>6, <2>7 DEF StateOf
  <2>9. \A loc \in BinLocation : r.chunks[a].state # Freed(loc)
    BY <2>1, <2>8, Bins, States DEF StateOf
  <2> QED BY <2>1, <2>2, <2>6, <2>8, <2>9, Settle
<1> QED BY <1>1, <1>2

(* The three outcomes of a free of a non-null address. *)
FreedLive(o, a, r, alert) ==
  /\ StateOf(o, a) = Allocated
  /\ \E bin \in BinType : StateOf(r, a) = Freed(bin)
  /\ alert = NoAlert

FreedAgain(o, a, r, alert) ==
  /\ StateOf(o, a) \notin {Absent, Allocated}
  /\ StateOf(r, a) = Uaf("double-free")
  /\ alert = [addr |-> a, reason |-> "double-free"]

FreedUnknown(o, a, r, alert) ==
  /\ StateOf(o, a) = Absent
  /\ StateOf(r, a) = Uaf("invalid-free")
  /\ alert = [addr |-> a, reason |-> "invalid-free"]

(* free(NULL) is ignored.                                                  *)
LEMMA ApplyFreeNull ==
  ASSUME NEW o
  PROVE  ApplyFree(o, Null).oracle = o /\ ApplyFree(o, Null).result.alert = NoAlert
  BY DEF ApplyFree, Outcome, NoResult

(* apply_free moves its address by one of its three arms and touches no    *)
(* other.                                                                  *)
LEMMA ApplyFreeGood ==
  ASSUME NEW o, Good(o, Null), NEW a \in Addr
  PROVE  LET r     == ApplyFree(o, a).oracle
             alert == ApplyFree(o, a).result.alert
         IN  /\ Good(r, Null)
             /\ \A b \in Addr \ {a} : StateOf(r, b) = StateOf(o, b)
             /\ \/ FreedLive(o, a, r, alert)
                \/ FreedAgain(o, a, r, alert)
                \/ FreedUnknown(o, a, r, alert)
<1> DEFINE clean == RemoveFromBins(o, a)
           old   == o.chunks[a].state
<1>1. /\ Good(clean, a) /\ clean.chunks = o.chunks
      /\ o.chunks \in [Addr -> ChunkRecord] /\ a # Null
      /\ clean \in OracleType
  <2>1. Good(clean, a) /\ clean.chunks = o.chunks
    BY RemoveFromBinsGood
  <2> QED BY <2>1, HeapOracleAssumption DEF Good, OracleType
<1>2. ApplyFree(o, a) = IF ~ Known(o, a)      THEN FreeUnknown(clean, a)
                        ELSE IF old = Allocated THEN FreeLive(clean, a)
                        ELSE FreeAgain(clean, a)
  BY <1>1 DEF ApplyFree
<1> HIDE DEF clean
<1>3. Known(o, a) <=> old # Absent
  BY DEF Known
<1>4. Allocated # Absent
  BY DEF Allocated, Absent
<1>5. CASE old = Allocated
  <2> DEFINE bin == ClassifyFreeBin(clean, clean.chunks[a].size)
             q   == ChangeState(clean, a, Freed(bin))
             r   == PushBin(q, a, bin)
  <2>1. /\ ApplyFree(o, a).oracle = r
        /\ ApplyFree(o, a).result.alert = NoAlert
    BY <1>2, <1>3, <1>4, <1>5 DEF FreeLive, Outcome, NoResult
  <2>2. clean.chunks[a].size \in Usize
    BY <1>1 DEF ChunkRecord
  <2>3. /\ bin \in BinType
        /\ bin.kind = "tcache" => Len(clean.bins[bin]) < TcacheFillCount
    BY <1>1, <2>2, ClassifyGood
  <2> HIDE DEF bin
  <2>4. Freed(bin) \in ChunkState /\ Freed(bin) # Absent
    BY <2>3, States
  <2>5. /\ Good(q, a) /\ q.bins = clean.bins
        /\ q.chunks = [clean.chunks EXCEPT ![a].state = Freed(bin)]
    BY <1>1, <2>4, ChangeStateGood
  <2> HIDE DEF q
  <2>6. q.chunks[a].state = Freed(bin)
    BY <1>1, <2>5 DEF ChunkRecord
  <2>7. Good(r, Null) /\ r.chunks = q.chunks
    BY <2>3, <2>5, <2>6, PushBinGood
  <2> HIDE DEF r
  <2>8. /\ \A b \in Addr \ {a} : StateOf(r, b) = StateOf(o, b)
        /\ StateOf(r, a) = Freed(bin)
    BY <1>1, <2>5, <2>6, <2>7 DEF StateOf
  <2>9. FreedLive(o, a, r, ApplyFree(o, a).result.alert)
    BY <1>5, <2>1, <2>3, <2>8 DEF FreedLive, StateOf
  <2> QED BY <2>1, <2>7, <2>8, <2>9
<1>6. CASE old \notin {Absent, Allocated}
  <2> DEFINE q == RaiseAlert(clean, a, "double-free")
             r == ChangeState(q, a, Uaf("double-free"))
  <2>1. /\ ApplyFree(o, a).oracle = r
        /\ ApplyFree(o, a).result.alert = [addr |-> a, reason |-> "double-free"]
    BY <1>2, <1>3, <1>6 DEF FreeAgain, Outcome, NoResult
  <2>2. "double-free" \in UafReason
    BY DEF UafReason
  <2>3. /\ Uaf("double-free") \in ChunkState /\ Uaf("double-free") # Absent
        /\ \A loc \in BinLocation : Uaf("double-free") # Freed(loc)
    BY <2>2, Bins, States
  <2>4. Good(q, a) /\ q.chunks = clean.chunks
    BY <1>1, <2>2, RaiseAlertGood
  <2> HIDE DEF q
  <2>5. /\ Good(r, a)
        /\ r.chunks = [q.chunks EXCEPT ![a].state = Uaf("double-free")]
    BY <2>3, <2>4, ChangeStateGood
  <2> HIDE DEF r
  <2>6. /\ \A b \in Addr \ {a} : StateOf(r, b) = StateOf(o, b)
        /\ StateOf(r, a) = Uaf("double-free")
    BY <1>1, <2>4, <2>5 DEF StateOf, ChunkRecord
  <2>7. Good(r, Null)
    BY <2>3, <2>5, <2>6, Settle DEF StateOf
  <2>8. FreedAgain(o, a, r, ApplyFree(o, a).result.alert)
    BY <1>6, <2>1, <2>6 DEF FreedAgain, StateOf
  <2> QED BY <2>1, <2>6, <2>7, <2>8
<1>7. CASE old = Absent
  <2> DEFINE q == RaiseAlert(clean, a, "invalid-free")
             r == InsertRecord(q, a, 0, Uaf("invalid-free"), 0)
  <2>1. /\ ApplyFree(o, a).oracle = r
        /\ ApplyFree(o, a).result.alert = [addr |-> a, reason |-> "invalid-free"]
    <3>1. ApplyFree(o, a) = FreeUnknown(clean, a)
      BY <1>2, <1>3, <1>7
    <3>2. /\ FreeUnknown(clean, a).oracle = r
          /\ FreeUnknown(clean, a).result.alert =
               [addr |-> a, reason |-> "invalid-free"]
      BY DEF FreeUnknown, Outcome, NoResult
    <3> QED BY <3>1, <3>2
  <2>2. "invalid-free" \in UafReason
    BY DEF UafReason
  <2>3. /\ Uaf("invalid-free") \in ChunkState /\ Uaf("invalid-free") # Absent
        /\ \A loc \in BinLocation : Uaf("invalid-free") # Freed(loc)
    BY <2>2, Bins, States
  <2>4. Good(q, a) /\ q.chunks = clean.chunks
    BY <1>1, <2>2, RaiseAlertGood
  <2> HIDE DEF q
  <2>5. 0 \in Usize /\ 0 \in Nat
    BY UsizeMaxAssumption DEF Usize
  <2>6. /\ Good(r, a)
        /\ r.chunks = [q.chunks EXCEPT ![a] =
                         [index |-> q.next_index, size |-> 0,
                          state |-> Uaf("invalid-free"), generation |-> 0]]
    BY <2>3, <2>4, <2>5, InsertRecordGood
  <2> HIDE DEF r
  <2>7. /\ \A b \in Addr \ {a} : StateOf(r, b) = StateOf(o, b)
        /\ StateOf(r, a) = Uaf("invalid-free")
    BY <1>1, <2>4, <2>6 DEF StateOf
  <2>8. Good(r, Null)
    <3>1. \A loc \in BinLocation : r.chunks[a].state # Freed(loc)
      BY <2>3, <2>7 DEF StateOf
    <3> QED BY <2>6, <3>1, Settle
  <2>9. FreedUnknown(o, a, r, ApplyFree(o, a).result.alert)
    BY <1>7, <2>1, <2>7 DEF FreedUnknown, StateOf
  <2> QED BY <2>1, <2>7, <2>8, <2>9
<1> QED BY <1>5, <1>6, <1>7

(* The three outcomes of a realloc that moves a block. *)
MovedLive(o, a, r, alert) ==
  /\ StateOf(o, a) = Allocated
  /\ StateOf(r, a) = Freed(Reallocated)
  /\ alert = NoAlert

MovedGone(o, a, r, alert) ==
  /\ StateOf(o, a) \notin {Absent, Allocated}
  /\ StateOf(r, a) = Uaf("realloc-after-free")
  /\ alert = [addr |-> a, reason |-> "realloc-after-free"]

MovedUnknown(o, a, r, alert) ==
  /\ StateOf(o, a) = Absent
  /\ StateOf(r, a) = Absent
  /\ alert = NoAlert

(* apply_realloc moves the old address by one of its arms and touches no   *)
(* other.                                                                  *)
LEMMA ReleaseOldGood ==
  ASSUME NEW o, Good(o, Null), NEW a \in Addr
  PROVE  LET r     == ReleaseOld(RemoveFromBins(o, a), a)
             alert == ReallocAlert(o, a)
         IN  /\ Good(r, Null)
             /\ \A b \in Addr \ {a} : StateOf(r, b) = StateOf(o, b)
             /\ \/ MovedLive(o, a, r, alert)
                \/ MovedGone(o, a, r, alert)
                \/ MovedUnknown(o, a, r, alert)
<1> DEFINE clean == RemoveFromBins(o, a)
           old   == o.chunks[a].state
           r     == ReleaseOld(clean, a)
<1>1. /\ Good(clean, a) /\ clean.chunks = o.chunks
      /\ o.chunks \in [Addr -> ChunkRecord]
  <2>1. Good(clean, a) /\ clean.chunks = o.chunks
    BY RemoveFromBinsGood
  <2> QED BY <2>1 DEF Good, OracleType
<1> HIDE DEF clean
<1>2. r = IF old = Absent THEN clean
          ELSE IF old = Allocated THEN ChangeState(clean, a, Freed(Reallocated))
          ELSE ChangeState(RaiseAlert(clean, a, "realloc-after-free"),
                           a, Uaf("realloc-after-free"))
  BY <1>1 DEF ReleaseOld, Known
<1> HIDE DEF r
<1>3. ReallocAlert(o, a) = IF old \notin {Absent, Allocated}
                           THEN [addr |-> a, reason |-> "realloc-after-free"]
                           ELSE NoAlert
  BY DEF ReallocAlert, Known
<1>4. Allocated # Absent
  BY DEF Allocated, Absent
<1>5. CASE old = Allocated
  <2>1. /\ Freed(Reallocated) \in ChunkState /\ Freed(Reallocated) # Absent
        /\ \A loc \in BinLocation : Freed(Reallocated) # Freed(loc)
    BY Bins, States
  <2>2. r = ChangeState(clean, a, Freed(Reallocated))
    BY <1>2, <1>4, <1>5
  <2>3. /\ Good(r, a)
        /\ r.chunks = [clean.chunks EXCEPT ![a].state = Freed(Reallocated)]
    BY <1>1, <2>1, <2>2, ChangeStateGood
  <2>4. /\ \A b \in Addr \ {a} : StateOf(r, b) = StateOf(o, b)
        /\ StateOf(r, a) = Freed(Reallocated)
    BY <1>1, <2>3 DEF StateOf, ChunkRecord
  <2>5. Good(r, Null)
    BY <2>1, <2>3, <2>4, Settle DEF StateOf
  <2>6. MovedLive(o, a, r, ReallocAlert(o, a))
    BY <1>3, <1>5, <2>4 DEF MovedLive, StateOf
  <2> QED BY <2>4, <2>5, <2>6 DEF r, clean
<1>6. CASE old \notin {Absent, Allocated}
  <2> DEFINE q == RaiseAlert(clean, a, "realloc-after-free")
             new == Uaf("realloc-after-free")
  <2>1. "realloc-after-free" \in UafReason
    BY DEF UafReason
  <2>2. /\ new \in ChunkState /\ new # Absent
        /\ \A loc \in BinLocation : new # Freed(loc)
    BY <2>1, Bins, States
  <2>3. Good(q, a) /\ q.chunks = clean.chunks
    BY <1>1, <2>1, RaiseAlertGood
  <2>4. r = ChangeState(q, a, new)
    BY <1>2, <1>6
  <2> HIDE DEF q, new
  <2>5. Good(r, a) /\ r.chunks = [q.chunks EXCEPT ![a].state = new]
    BY <2>2, <2>3, <2>4, ChangeStateGood
  <2>6. /\ \A b \in Addr \ {a} : StateOf(r, b) = StateOf(o, b)
        /\ StateOf(r, a) = new
    BY <1>1, <2>3, <2>5 DEF StateOf, ChunkRecord
  <2>7. Good(r, Null)
    BY <2>2, <2>5, <2>6, Settle DEF StateOf
  <2>8. MovedGone(o, a, r, ReallocAlert(o, a))
    BY <1>3, <1>6, <2>6 DEF MovedGone, StateOf, new
  <2> QED BY <2>6, <2>7, <2>8 DEF r, clean
<1>7. CASE old = Absent
  <2>1. r = clean
    BY <1>2, <1>7
  <2>2. \A b \in Addr : StateOf(r, b) = StateOf(o, b)
    BY <1>1, <2>1 DEF StateOf
  <2>3. \A loc \in BinLocation : r.chunks[a].state # Freed(loc)
    BY <1>7, <2>2, Bins, States DEF StateOf
  <2>4. Good(r, Null)
    BY <1>1, <2>1, <2>3, Settle
  <2>5. MovedUnknown(o, a, r, ReallocAlert(o, a))
    BY <1>3, <1>7, <2>2 DEF MovedUnknown, StateOf
  <2> QED BY <2>2, <2>4, <2>5 DEF r, clean
<1> QED BY <1>5, <1>6, <1>7

(* After the old address was released, apply_realloc allocates the new one *)
(* and keeps the alert of the old one.                                     *)
LEMMA MovedGood ==
  ASSUME NEW o, Good(o, Null), NEW old \in Addr, NEW new \in Addr,
         NEW size \in Usize
  PROVE  LET p == ReleaseOld(RemoveFromBins(o, old), old)
             m == Moved(o, old, new, size)
         IN  /\ Good(m.oracle, Null)
             /\ \A b \in Addr :
                  StateOf(m.oracle, b) = IF b = new THEN Allocated ELSE StateOf(p, b)
             /\ m.result.alert = ReallocAlert(o, old)
<1> DEFINE p == ReleaseOld(RemoveFromBins(o, old), old)
           alloc == ApplyAlloc(p, new, size)
           m == Moved(o, old, new, size)
<1>1. Good(p, Null) /\ new \in AddrOrNull
  BY ReleaseOldGood DEF AddrOrNull
<1>2. m.oracle = alloc.oracle /\ m.result = [alloc.result EXCEPT !.alert = ReallocAlert(o, old)]
  BY DEF Moved, Outcome
<1>3. m.result.alert = ReallocAlert(o, old)
  <2>1. alloc.result \in [alert : {NoAlert}, bin : {NoBin}, chunk_index : {alloc.result.chunk_index}]
    BY DEF ApplyAlloc, Outcome, NoResult
  <2> QED BY <1>2, <2>1
<1> HIDE DEF p, m
<1>4. /\ Good(alloc.oracle, Null)
      /\ \A b \in Addr :
           StateOf(alloc.oracle, b) = IF b = new THEN Allocated ELSE StateOf(p, b)
  BY <1>1, ApplyAllocGood
<1> QED BY <1>2, <1>3, <1>4 DEF p, m

-----------------------------------------------------------------------------
(* What a call does to the states of the addresses it names. *)

Obtained(o, r, a, alert) ==
  /\ \A b \in Addr : StateOf(r, b) = IF b = a THEN Allocated ELSE StateOf(o, b)
  /\ alert = NoAlert

Released(o, r, a, alert) ==
  /\ \A b \in Addr \ {a} : StateOf(r, b) = StateOf(o, b)
  /\ \/ FreedLive(o, a, r, alert)
     \/ FreedAgain(o, a, r, alert)
     \/ FreedUnknown(o, a, r, alert)

Relocated(o, r, p, q, alert) ==
  \E mid \in [Addr -> ChunkState] :
    /\ \A b \in Addr \ {p} : mid[b] = StateOf(o, b)
    /\ \A b \in Addr : StateOf(r, b) = IF b = q THEN Allocated ELSE mid[b]
    /\ \/ /\ StateOf(o, p) = Allocated
          /\ mid[p] = Freed(Reallocated)
          /\ alert = NoAlert
       \/ /\ StateOf(o, p) \notin {Absent, Allocated}
          /\ mid[p] = Uaf("realloc-after-free")
          /\ alert = [addr |-> p, reason |-> "realloc-after-free"]
       \/ /\ StateOf(o, p) = Absent
          /\ mid[p] = Absent
          /\ alert = NoAlert

Ignored(o, r, alert) ==
  (\A b \in Addr : StateOf(r, b) = StateOf(o, b)) /\ alert = NoAlert

Effect(o, r, alert) ==
  \/ Ignored(o, r, alert)
  \/ \E a \in Addr : Obtained(o, r, a, alert) \/ Released(o, r, a, alert)
  \/ \E p, q \in Addr : Relocated(o, r, p, q, alert)

Call(o, outcome) ==
  Good(outcome.oracle, Null) /\ Effect(o, outcome.oracle, outcome.result.alert)

(* An event of malloc, calloc or memalign has an effect the automata know. *)
LEMMA AllocCall ==
  ASSUME NEW o, Good(o, Null), NEW a \in AddrOrNull, NEW size \in Usize
  PROVE  Call(o, ApplyAlloc(o, a, size))
<1> DEFINE r == ApplyAlloc(o, a, size).oracle
           alert == ApplyAlloc(o, a, size).result.alert
<1>1. /\ Good(r, Null) /\ alert = NoAlert
      /\ \A b \in Addr : StateOf(r, b) = IF b = a THEN Allocated ELSE StateOf(o, b)
  BY ApplyAllocGood
<1> HIDE DEF r, alert
<1>2. CASE a = Null
  <2>1. Ignored(o, r, alert)
    BY <1>1, <1>2, HeapOracleAssumption DEF Ignored
  <2> QED BY <2>1, <1>1 DEF Call, Effect, r, alert
<1>3. CASE a # Null
  <2>1. a \in Addr /\ Obtained(o, r, a, alert)
    BY <1>1, <1>3 DEF Obtained, AddrOrNull
  <2>2. Effect(o, r, alert)
    BY <2>1 DEF Effect
  <2> QED BY <2>2, <1>1 DEF Call, r, alert
<1> QED BY <1>2, <1>3

(* So has an event of free.                                                *)
LEMMA FreeCall ==
  ASSUME NEW o, Good(o, Null), NEW a \in AddrOrNull
  PROVE  Call(o, ApplyFree(o, a))
<1> DEFINE r == ApplyFree(o, a).oracle
           alert == ApplyFree(o, a).result.alert
<1>1. CASE a = Null
  <2>1. r = o /\ alert = NoAlert
    BY <1>1, ApplyFreeNull
  <2> QED BY <2>1 DEF Call, Effect, Ignored
<1>2. CASE a # Null
  <2>1. a \in Addr
    BY <1>2 DEF AddrOrNull
  <2>2. Good(r, Null) /\ Released(o, r, a, alert)
    BY <2>1, ApplyFreeGood DEF Released
  <2> HIDE DEF r, alert
  <2>3. Effect(o, r, alert)
    BY <2>1, <2>2 DEF Effect
  <2> QED BY <2>2, <2>3 DEF Call, r, alert
<1> QED BY <1>1, <1>2

(* So has a realloc that moved its block.                                  *)
LEMMA MovedCall ==
  ASSUME NEW o, Good(o, Null), NEW old \in Addr, NEW new \in Addr,
         NEW size \in Usize
  PROVE  Call(o, Moved(o, old, new, size))
<1> DEFINE p == ReleaseOld(RemoveFromBins(o, old), old)
           r == Moved(o, old, new, size).oracle
           alert == Moved(o, old, new, size).result.alert
<1>1. /\ Good(p, Null)
      /\ \A b \in Addr \ {old} : StateOf(p, b) = StateOf(o, b)
      /\ \/ MovedLive(o, old, p, ReallocAlert(o, old))
         \/ MovedGone(o, old, p, ReallocAlert(o, old))
         \/ MovedUnknown(o, old, p, ReallocAlert(o, old))
  BY ReleaseOldGood
<1>2. /\ Good(r, Null)
      /\ \A b \in Addr : StateOf(r, b) = IF b = new THEN Allocated ELSE StateOf(p, b)
      /\ alert = ReallocAlert(o, old)
  BY MovedGood
<1> HIDE DEF p, r, alert
<1> DEFINE mid == [b \in Addr |-> StateOf(p, b)]
<1>3. mid \in [Addr -> ChunkState]
  BY <1>1 DEF Good, OracleType, ChunkRecord, StateOf
<1>4. /\ \A b \in Addr \ {old} : mid[b] = StateOf(o, b)
      /\ \A b \in Addr : StateOf(r, b) = IF b = new THEN Allocated ELSE mid[b]
      /\ mid[old] = StateOf(p, old)
  BY <1>1, <1>2
<1> HIDE DEF mid
<1>5. Relocated(o, r, old, new, alert)
  BY <1>1, <1>2, <1>3, <1>4 DEF Relocated, MovedLive, MovedGone, MovedUnknown
<1>6. Effect(o, r, alert)
  BY <1>5 DEF Effect
<1> QED BY <1>2, <1>6 DEF Call, r, alert

(* So has any event of realloc, its early returns included.                *)
LEMMA ReallocCall ==
  ASSUME NEW o, Good(o, Null), NEW old \in AddrOrNull, NEW new \in AddrOrNull,
         NEW size \in Usize
  PROVE  Call(o, ApplyRealloc(o, old, new, size))
<1>1. CASE old = Null
  BY <1>1, AllocCall DEF ApplyRealloc
<1>2. CASE old # Null /\ size = 0
  BY <1>2, FreeCall DEF ApplyRealloc
<1>3. CASE old # Null /\ size # 0 /\ new = Null
  <2>1. ApplyRealloc(o, old, new, size) = Outcome(o, NoResult)
    BY <1>3 DEF ApplyRealloc
  <2> QED BY <2>1 DEF Call, Effect, Ignored, Outcome, NoResult
<1>4. CASE old # Null /\ size # 0 /\ new # Null
  BY <1>4, MovedCall DEF ApplyRealloc, AddrOrNull
<1> QED BY <1>1, <1>2, <1>3, <1>4

-----------------------------------------------------------------------------
(* The inductive invariant.  TypeOK alone is not inductive: the counters   *)
(* only stay natural because they count something, and a bin's list only   *)
(* follows the chunk table because bin_index does.                         *)
Inv == Good(oracle, Null) /\ result.alert \in Alert \cup {NoAlert}

(* HeapOracle::new gives a good struct.                                    *)
LEMMA InitInv == Init => Inv
<1> SUFFICES ASSUME Init PROVE Inv
  OBVIOUS
<1>1. /\ oracle.chunks = [a \in Addr |-> NoChunk]
      /\ oracle.bins = [loc \in BinLocation |-> << >>]
      /\ oracle.bin_index = [a \in Addr |-> NoBin]
      /\ oracle.counts = [t \in Tag |-> 0]
      /\ oracle.alerts = << >> /\ oracle.next_index = 0
      /\ oracle.total_events = 0
      /\ oracle = NewOracle
  BY DEF Init, NewOracle
<1>2. NoChunk \in ChunkRecord /\ NoChunk.state = Absent
  BY States, UsizeMaxAssumption DEF NoChunk, ChunkRecord, Usize
<1>3. oracle \in OracleType
  <2>1. << >> \in Seq(Addr) /\ << >> \in Seq(Alert)
    BY EmptySeq
  <2> QED BY <1>1, <1>2, <2>1 DEF OracleType, NewOracle
<1>4. BinsAgree(oracle, Null)
  <2>1. \A loc \in BinLocation : Freed(loc) # Absent /\ loc # NoBin
    BY Bins, States
  <2>2. IsInjective(<< >>) /\ ToSet(<< >>) = {}
    BY DEF IsInjective, ToSet
  <2> QED BY <1>1, <1>2, <2>1, <2>2 DEF BinsAgree, Shows
<1>5. CountsAgree(oracle)
  <2> SUFFICES ASSUME NEW t \in Tag
               PROVE oracle.counts[t] = Cardinality(InState(oracle, t))
    BY DEF CountsAgree
  <2>1. Absent.tag \notin Tag
    BY DEF Absent, Tag
  <2>2. InState(oracle, t) = {}
    BY <1>1, <1>2, <2>1 DEF InState
  <2> QED BY <1>1, <2>2, FS_EmptySet
<1>6. TcacheFits(oracle)
  BY <1>1, Bins, EmptySeq, HeapOracleAssumption DEF TcacheFits
<1>7. result.alert = NoAlert
  BY DEF Init, NoResult
<1> QED BY <1>3, <1>4, <1>5, <1>6, <1>7 DEF Inv, Good

(* The counter of events changes nothing that matters. *)
LEMMA TickGood ==
  ASSUME NEW o, Good(o, Null)
  PROVE  LET r == [o EXCEPT !.total_events = @ + 1]
         IN  Good(r, Null) /\ r.chunks = o.chunks
<1> DEFINE r == [o EXCEPT !.total_events = o.total_events + 1]
<1>1. o \in OracleType
  BY DEF Good
<1> HIDE DEF r
<1>2. /\ r \in OracleType /\ r.chunks = o.chunks /\ r.bins = o.bins
      /\ r.bin_index = o.bin_index /\ r.counts = o.counts
  <2>1. o.total_events + 1 \in Nat
    BY <1>1 DEF OracleType
  <2> QED BY <1>1, <2>1 DEF OracleType, r
<1>3. BinsAgree(r, Null) /\ CountsAgree(r) /\ TcacheFits(r)
  BY <1>2 DEF Good, BinsAgree, Shows, CountsAgree, InState, TcacheFits
<1> QED BY <1>2, <1>3 DEF Good, r

(* The effect of a call is a matter of the chunk states only.              *)
LEMMA EffectOnStates ==
  ASSUME NEW o, NEW q, NEW r, NEW alert, Effect(o, q, alert),
         \A b \in Addr : StateOf(r, b) = StateOf(q, b)
  PROVE  Effect(o, r, alert)
<1>1. CASE Ignored(o, q, alert)
  <2>1. Ignored(o, r, alert)
    BY <1>1 DEF Ignored
  <2> QED BY <2>1 DEF Effect
<1>2. CASE \E a \in Addr : Obtained(o, q, a, alert) \/ Released(o, q, a, alert)
  <2>1. PICK a \in Addr : Obtained(o, q, a, alert) \/ Released(o, q, a, alert)
    BY <1>2
  <2>2. Obtained(o, q, a, alert) => Obtained(o, r, a, alert)
    BY DEF Obtained
  <2>3. Released(o, q, a, alert) => Released(o, r, a, alert)
    BY DEF Released, FreedLive, FreedAgain, FreedUnknown
  <2> QED BY <2>1, <2>2, <2>3 DEF Effect
<1>3. CASE \E a, b \in Addr : Relocated(o, q, a, b, alert)
  <2>1. PICK a \in Addr, b \in Addr : Relocated(o, q, a, b, alert)
    BY <1>3
  <2>2. Relocated(o, r, a, b, alert)
    BY <2>1 DEF Relocated
  <2> QED BY <2>2 DEF Effect
<1> QED BY <1>1, <1>2, <1>3 DEF Effect

(* apply_event, which counts the event besides, keeps the struct good.     *)
LEMMA AppliedGood ==
  ASSUME NEW outcome, Call(oracle, outcome), Applied(outcome)
  PROVE  Good(oracle', Null) /\ Effect(oracle, oracle', result'.alert)
<1>1. /\ oracle' = [outcome.oracle EXCEPT !.total_events = @ + 1]
      /\ result' = outcome.result
      /\ Good(outcome.oracle, Null)
      /\ Effect(oracle, outcome.oracle, result'.alert)
  BY DEF Applied, Call
<1>2. Good(oracle', Null) /\ oracle'.chunks = outcome.oracle.chunks
  BY <1>1, TickGood
<1>3. \A b \in Addr : StateOf(oracle', b) = StateOf(outcome.oracle, b)
  BY <1>2 DEF StateOf
<1>4. Effect(oracle, oracle', result'.alert)
  BY <1>1, <1>3, EffectOnStates
<1> QED BY <1>2, <1>4

(* So does every step.                                                     *)
LEMMA NextGood ==
  ASSUME Inv, Next
  PROVE  Good(oracle', Null) /\ Effect(oracle, oracle', result'.alert)
<1>1. Good(oracle, Null)
  BY DEF Inv
<1>2. \A size \in Size : size \in Usize
  BY HeapOracleAssumption
<1>3. ASSUME NEW a \in AddrOrNull, NEW size \in Size, Alloc(a, size)
      PROVE  Good(oracle', Null) /\ Effect(oracle, oracle', result'.alert)
  <2>1. Call(oracle, ApplyAlloc(oracle, a, size))
    BY <1>1, <1>2, AllocCall
  <2> QED BY <1>3, <2>1, AppliedGood DEF Alloc
<1>4. ASSUME NEW a \in AddrOrNull, Free(a)
      PROVE  Good(oracle', Null) /\ Effect(oracle, oracle', result'.alert)
  <2>1. Call(oracle, ApplyFree(oracle, a))
    BY <1>1, FreeCall
  <2> QED BY <1>4, <2>1, AppliedGood DEF Free
<1>5. ASSUME NEW old \in AddrOrNull, NEW new \in AddrOrNull, NEW size \in Size,
             Realloc(old, new, size)
      PROVE  Good(oracle', Null) /\ Effect(oracle, oracle', result'.alert)
  <2>1. Call(oracle, ApplyRealloc(oracle, old, new, size))
    BY <1>1, <1>2, ReallocCall
  <2> QED BY <1>5, <2>1, AppliedGood DEF Realloc
<1>6. ASSUME Invalid
      PROVE  Good(oracle', Null) /\ Effect(oracle, oracle', result'.alert)
  <2>1. Call(oracle, Outcome(oracle, NoResult))
    BY <1>1 DEF Call, Effect, Ignored, Outcome, NoResult
  <2> QED BY <1>6, <2>1, AppliedGood DEF Invalid
<1> QED BY <1>3, <1>4, <1>5, <1>6 DEF Next

(* Whatever its effect, a call returns an alert or none.                   *)
LEMMA EffectAlert ==
  ASSUME NEW o, NEW r, NEW alert, Effect(o, r, alert)
  PROVE  alert \in Alert \cup {NoAlert}
<1>1. \A a \in Addr, reason \in UafReason : [addr |-> a, reason |-> reason] \in Alert
  BY DEF Alert
<1>2. /\ "double-free" \in UafReason /\ "invalid-free" \in UafReason
      /\ "realloc-after-free" \in UafReason
  BY DEF UafReason
<1> QED BY <1>1, <1>2 DEF Effect, Ignored, Obtained, Released, Relocated,
                          FreedLive, FreedAgain, FreedUnknown

(* The invariant is inductive.                                             *)
LEMMA NextInv == Inv /\ [Next]_vars => Inv'
<1>1. ASSUME Inv, Next PROVE Inv'
  BY <1>1, NextGood, EffectAlert DEF Inv
<1>2. ASSUME Inv, UNCHANGED vars PROVE Inv'
  <2>1. oracle' = oracle /\ result' = result
    BY <1>2 DEF vars
  <2> QED BY <1>2, <2>1 DEF Inv
<1> QED BY <1>1, <1>2

(* The invariant holds throughout.                                         *)
LEMMA SpecInv == Spec => []Inv
  BY InitInv, NextInv, PTL DEF Spec

-----------------------------------------------------------------------------
(* Type correctness.  The counters being natural is the part that says     *)
(* something: the subtraction in count_state_change, on usize, can never   *)
(* underflow.                                                              *)
THEOREM TypeCorrect == Spec => []TypeOK
<1>1. Inv => TypeOK
  BY DEF Inv, Good, OracleType, TypeOK
<1> QED BY <1>1, SpecInv, PTL

(* Every bin lists exactly the chunks freed into it, each once, after any  *)
(* sequence of events and for any set of addresses and sizes.              *)
THEOREM BinsAlwaysMirror == Spec => []BinsMirrorState
<1>1. Inv => BinsMirrorState
  <2> SUFFICES ASSUME Inv, NEW loc \in BinLocation
               PROVE  /\ \A a \in Addr : a \in ToSet(oracle.bins[loc])
                                       <=> oracle.chunks[a].state = Freed(loc)
                      /\ IsInjective(oracle.bins[loc])
    BY DEF BinsMirrorState
  <2>1. BinsAgree(oracle, Null)
    BY DEF Inv, Good
  <2> QED BY <2>1, HeapOracleAssumption DEF BinsAgree, Shows
<1> QED BY <1>1, SpecInv, PTL

(* The shortcut bin_index always points at the bin that lists the address. *)
THEOREM BinIndexAlwaysAgrees == Spec => []BinIndexAgrees
<1>1. Inv => BinIndexAgrees
  <2> SUFFICES ASSUME Inv, NEW a \in Addr
               PROVE  IF oracle.bin_index[a] = NoBin
                      THEN \A loc \in BinLocation : a \notin ToSet(oracle.bins[loc])
                      ELSE a \in ToSet(oracle.bins[oracle.bin_index[a]])
    BY DEF BinIndexAgrees
  <2>1. oracle \in OracleType /\ BinsAgree(oracle, Null)
    BY DEF Inv, Good
  <2>2. oracle.bin_index[a] \in BinLocation \cup {NoBin}
    BY <2>1 DEF OracleType
  <2> QED BY <2>1, <2>2, Bins DEF BinsAgree
<1> QED BY <1>1, SpecInv, PTL

(* No tcache bin ever exceeds TCACHE_FILL_COUNT. *)
THEOREM TcacheAlwaysBounded == Spec => []TcacheBounded
<1>1. Inv => TcacheBounded
  BY DEF Inv, Good, TcacheFits, TcacheBounded
<1> QED BY <1>1, SpecInv, PTL

(* The three counters are always the number of chunks in each state, so    *)
(* summary() is exact.                                                     *)
THEOREM CountsAlwaysMatch == Spec => []CountsMatch
<1>1. Inv => CountsMatch
  BY DEF Inv, Good, CountsAgree, InState, CountsMatch
<1> QED BY <1>1, SpecInv, PTL

-----------------------------------------------------------------------------
(* Refinement of the per-address automata.                                 *)

Mapped(o) == [a \in Addr |-> StatusOf(o, a)]

(* What the refinement mapping makes of each state of a chunk.             *)
LEMMA StatusOfState ==
  ASSUME NEW o, NEW a \in Addr, StateOf(o, a) \in ChunkState
  PROVE  /\ StateOf(o, a) = Absent    => StatusOf(o, a) = "unknown"
         /\ StateOf(o, a) = Allocated => StatusOf(o, a) = "live"
         /\ StateOf(o, a).tag = "freed" => StatusOf(o, a) = "dead"
         /\ StateOf(o, a).tag = "uaf"   => StatusOf(o, a) = "misused"
         /\ StateOf(o, a) \notin {Absent, Allocated}
              => StatusOf(o, a) \in {"dead", "misused"}
<1>1. \A s \in ChunkState : s \notin {Absent, Allocated} => s.tag \in {"freed", "uaf"}
  BY DEF ChunkState, Freed, Uaf
<1> QED BY <1>1, States DEF StatusOf, StateOf

(* What it makes of each alert.                                            *)
LEMMA VerdictOfAlert ==
  ASSUME NEW r, NEW a \in Addr
  PROVE  /\ r.alert = NoAlert => VerdictOf(r) = "fine"
         /\ \A reason : r.alert = [addr |-> a, reason |-> reason]
              => VerdictOf(r) = reason
<1>1. \A reason : [addr |-> a, reason |-> reason] # NoAlert
  <2> SUFFICES ASSUME NEW reason, [addr |-> a, reason |-> reason] = NoAlert
               PROVE FALSE
    OBVIOUS
  <2>1. [addr |-> a, reason |-> reason].addr = NoAlert.addr
    OBVIOUS
  <2> QED BY <2>1, HeapOracleAssumption DEF NoAlert
<1> QED BY <1>1 DEF VerdictOf

(* One call is one step of ShadowHeap.                                     *)
LEMMA CallRefines ==
  ASSUME Inv, Next
  PROVE  Shadow!Next
<1> DEFINE s  == Mapped(oracle)
           s2 == Mapped(oracle')
           v2 == VerdictOf(result')
           alert == result'.alert
<1>1. /\ Good(oracle, Null) /\ Good(oracle', Null)
      /\ Effect(oracle, oracle', alert)
  BY NextGood DEF Inv
<1>2. \A a \in Addr : /\ StateOf(oracle, a) \in ChunkState
                       /\ StateOf(oracle', a) \in ChunkState
  BY <1>1 DEF Good, OracleType, ChunkRecord, StateOf
<1>3. \A a \in Addr : s[a] = StatusOf(oracle, a) /\ s2[a] = StatusOf(oracle', a)
  BY DEF Mapped
<1>4. \A a \in Addr : StateOf(oracle', a) = StateOf(oracle, a) => s2[a] = s[a]
  <2> SUFFICES ASSUME NEW a \in Addr, StateOf(oracle', a) = StateOf(oracle, a)
               PROVE  StatusOf(oracle', a) = StatusOf(oracle, a)
    BY <1>3
  <2> QED BY DEF StatusOf, StateOf
<1>5. /\ s = [a \in Addr |-> s[a]] /\ s2 = [a \in Addr |-> s2[a]]
  BY DEF Mapped
<1>6. /\ Shadow!Nothing <=> v2 = "fine" /\ s2 = s
      /\ \A a : Shadow!Obtain(a) <=> s2 = [s EXCEPT ![a] = "live"] /\ v2 = "fine"
      /\ \A a : Shadow!Release(a) <=>
           \/ s[a] = "live" /\ s2 = [s EXCEPT ![a] = "dead"] /\ v2 = "fine"
           \/ s[a] \in {"dead", "misused"} /\ s2 = [s EXCEPT ![a] = "misused"]
                                          /\ v2 = "double-free"
           \/ s[a] = "unknown" /\ s2 = [s EXCEPT ![a] = "misused"]
                               /\ v2 = "invalid-free"
      /\ \A p, q : Shadow!Move(p, q) <=>
           \/ s[p] = "live" /\ s2 = [s EXCEPT ![p] = "dead", ![q] = "live"]
                            /\ v2 = "fine"
           \/ s[p] \in {"dead", "misused"}
              /\ s2 = [s EXCEPT ![p] = "misused", ![q] = "live"]
              /\ v2 = "realloc-after-free"
           \/ s[p] = "unknown" /\ s2 = [s EXCEPT ![q] = "live"] /\ v2 = "fine"
  BY DEF Shadow!Nothing, Shadow!Obtain, Shadow!Release, Shadow!Move, Shadow!Gone,
         Mapped
<1> HIDE DEF s, s2, v2
<1>7. CASE Ignored(oracle, oracle', alert)
  <2>1. s2 = s
    BY <1>4, <1>5, <1>7 DEF Ignored
  <2>2. v2 = "fine"
    BY <1>7 DEF Ignored, VerdictOf, v2
  <2> QED BY <1>6, <2>1, <2>2 DEF Shadow!Next
<1>8. ASSUME NEW a \in Addr, Obtained(oracle, oracle', a, alert)
      PROVE  Shadow!Next
  <2>1. s2[a] = "live"
    BY <1>2, <1>3, <1>8, StatusOfState DEF Obtained
  <2>2. \A b \in Addr \ {a} : s2[b] = s[b]
    BY <1>4, <1>8 DEF Obtained
  <2>3. s2 = [s EXCEPT ![a] = "live"]
    BY <1>5, <2>1, <2>2
  <2>4. v2 = "fine"
    BY <1>8 DEF Obtained, VerdictOf, v2
  <2> QED BY <1>6, <2>3, <2>4 DEF Shadow!Next
<1>9. ASSUME NEW a \in Addr, Released(oracle, oracle', a, alert)
      PROVE  Shadow!Next
  <2>1. \A b \in Addr \ {a} : s2[b] = s[b]
    BY <1>4, <1>9 DEF Released
  <2>2. CASE FreedLive(oracle, a, oracle', alert)
    <3>1. s[a] = "live" /\ s2[a] = "dead"
      BY <1>2, <1>3, <2>2, States, StatusOfState DEF FreedLive
    <3>2. s2 = [s EXCEPT ![a] = "dead"]
      BY <1>5, <2>1, <3>1
    <3>3. v2 = "fine"
      BY <2>2, VerdictOfAlert DEF FreedLive, v2
    <3> QED BY <1>6, <3>1, <3>2, <3>3 DEF Shadow!Next
  <2>3. CASE FreedAgain(oracle, a, oracle', alert)
    <3>1. s[a] \in {"dead", "misused"} /\ s2[a] = "misused"
      <4>1. Uaf("double-free").tag = "uaf"
        BY States DEF UafReason
      <4> QED BY <1>2, <1>3, <2>3, <4>1, StatusOfState DEF FreedAgain
    <3>2. s2 = [s EXCEPT ![a] = "misused"]
      BY <1>5, <2>1, <3>1
    <3>3. v2 = "double-free"
      BY <2>3, VerdictOfAlert DEF FreedAgain, v2
    <3> QED BY <1>6, <3>1, <3>2, <3>3 DEF Shadow!Next
  <2>4. CASE FreedUnknown(oracle, a, oracle', alert)
    <3>1. s[a] = "unknown" /\ s2[a] = "misused"
      <4>1. Uaf("invalid-free").tag = "uaf"
        BY States DEF UafReason
      <4> QED BY <1>2, <1>3, <2>4, <4>1, StatusOfState DEF FreedUnknown
    <3>2. s2 = [s EXCEPT ![a] = "misused"]
      BY <1>5, <2>1, <3>1
    <3>3. v2 = "invalid-free"
      BY <2>4, VerdictOfAlert DEF FreedUnknown, v2
    <3> QED BY <1>6, <3>1, <3>2, <3>3 DEF Shadow!Next
  <2> QED BY <1>9, <2>2, <2>3, <2>4 DEF Released
<1>10. ASSUME NEW p \in Addr, NEW q \in Addr, Relocated(oracle, oracle', p, q, alert)
       PROVE  Shadow!Next
  <2>1. PICK mid \in [Addr -> ChunkState] :
          /\ \A b \in Addr \ {p} : mid[b] = StateOf(oracle, b)
          /\ \A b \in Addr : StateOf(oracle', b) = IF b = q THEN Allocated ELSE mid[b]
          /\ \/ /\ StateOf(oracle, p) = Allocated
                /\ mid[p] = Freed(Reallocated)
                /\ alert = NoAlert
             \/ /\ StateOf(oracle, p) \notin {Absent, Allocated}
                /\ mid[p] = Uaf("realloc-after-free")
                /\ alert = [addr |-> p, reason |-> "realloc-after-free"]
             \/ /\ StateOf(oracle, p) = Absent
                /\ mid[p] = Absent
                /\ alert = NoAlert
    BY <1>10 DEF Relocated
  <2>2. s2[q] = "live"
    BY <1>2, <1>3, <2>1, StatusOfState
  <2>3. \A b \in Addr \ {p, q} : s2[b] = s[b]
    BY <1>4, <2>1
  <2>4. p # q => StateOf(oracle', p) = mid[p]
    BY <2>1
  <2>5. CASE StateOf(oracle, p) = Allocated
    <3>1. mid[p].tag = "freed" /\ alert = NoAlert
      BY <2>1, <2>5, Bins, States DEF Allocated, Absent
    <3>2. s[p] = "live" /\ (p # q => s2[p] = "dead")
      BY <1>2, <1>3, <2>4, <2>5, <3>1, StatusOfState
    <3>3. s2 = [s EXCEPT ![p] = "dead", ![q] = "live"]
      BY <1>5, <2>2, <2>3, <3>2
    <3>4. v2 = "fine"
      BY <3>1, VerdictOfAlert DEF v2
    <3> QED BY <1>6, <3>2, <3>3, <3>4 DEF Shadow!Next
  <2>6. CASE StateOf(oracle, p) \notin {Absent, Allocated}
    <3>1. /\ mid[p].tag = "uaf"
          /\ alert = [addr |-> p, reason |-> "realloc-after-free"]
      BY <2>1, <2>6, States DEF UafReason
    <3>2. s[p] \in {"dead", "misused"} /\ (p # q => s2[p] = "misused")
      BY <1>2, <1>3, <2>4, <2>6, <3>1, StatusOfState
    <3>3. s2 = [s EXCEPT ![p] = "misused", ![q] = "live"]
      BY <1>5, <2>2, <2>3, <3>2
    <3>4. v2 = "realloc-after-free"
      BY <3>1, VerdictOfAlert DEF v2
    <3> QED BY <1>6, <3>2, <3>3, <3>4 DEF Shadow!Next
  <2>7. CASE StateOf(oracle, p) = Absent
    <3>1. mid[p] = Absent /\ alert = NoAlert
      BY <2>1, <2>7 DEF Allocated, Absent
    <3>2. s[p] = "unknown" /\ (p # q => s2[p] = s[p])
      BY <1>2, <1>3, <1>4, <2>4, <2>7, <3>1, StatusOfState
    <3>3. s2 = [s EXCEPT ![q] = "live"]
      BY <1>5, <2>2, <2>3, <3>2
    <3>4. v2 = "fine"
      BY <3>1, VerdictOfAlert DEF v2
    <3> QED BY <1>6, <3>2, <3>3, <3>4 DEF Shadow!Next
  <2> QED BY <2>5, <2>6, <2>7
<1> QED BY <1>1, <1>7, <1>8, <1>9, <1>10 DEF Effect

(* Bins, counters, indexes and the bounded alert list never change a       *)
(* verdict: HeapOracle implements the per-address automata of ShadowHeap.  *)
THEOREM Refinement == Spec => RefinesShadowHeap
<1>1. Init => Shadow!Init
  <2> SUFFICES ASSUME Init PROVE Shadow!Init
    OBVIOUS
  <2>1. \A a \in Addr : StatusOf(oracle, a) = "unknown"
    BY DEF Init, NewOracle, NoChunk, Absent, StatusOf
  <2>2. VerdictOf(result) = "fine"
    BY DEF Init, NoResult, VerdictOf
  <2> QED BY <2>1, <2>2 DEF Shadow!Init
<1>2. Inv /\ [Next]_vars => [Shadow!Next]_(Shadow!vars)
  <2>1. ASSUME Inv, Next PROVE Shadow!Next
    BY <2>1, CallRefines
  <2>2. ASSUME UNCHANGED vars PROVE UNCHANGED Shadow!vars
    BY <2>2 DEF vars, Shadow!vars, StatusOf, VerdictOf
  <2> QED BY <2>1, <2>2
<1> QED BY <1>1, <1>2, SpecInv, PTL DEF Spec, RefinesShadowHeap, Shadow!Spec

-----------------------------------------------------------------------------
(* Records and alerts, call by call                                        *)

(* The alert list after raise_alert. *)
Pushed(alerts, alert) ==
  LET all  == Append(alerts, alert)
      from == IF Len(all) > AlertCap THEN Len(all) - AlertCap + 1 ELSE 1
  IN  SubSeq(all, from, Len(all))

(* At most one alert, about an address that was not allocated.             *)
AlertTold(o, r, alert) ==
  \/ alert = NoAlert /\ r.alerts = o.alerts
  \/ /\ alert \in Alert /\ o.chunks[alert.addr].state # Allocated
     /\ r.alerts = Pushed(o.alerts, alert)

(* The size print_heap_state shows for a bin.                              *)
SizeFits(size, bin) == bin \in BinLocation => ChunkSize(size) = (bin.idx + 2) * 16

(* What may become of the record of b: nothing; freed; misused, whether it *)
(* was known or not, with the alert that says so; or a new life.           *)
Kept(old, new) == new = old

FreedOnce(old, new) ==
  /\ old.state = Allocated
  /\ \E bin \in BinType : /\ new = [old EXCEPT !.state = Freed(bin)]
                          /\ SizeFits(old.size, bin)

Misused(old, new, reason) ==
  /\ old.state \notin {Absent, Allocated}
  /\ reason \in UafReason
  /\ new = [old EXCEPT !.state = Uaf(reason)]

Blamed(o, r, old, new, reason) ==
  /\ old.state = Absent
  /\ reason \in UafReason
  /\ new.state = Uaf(reason)
  /\ new.index \in o.next_index .. r.next_index - 1

Reborn(o, r, old, new) ==
  /\ new.state = Allocated
  /\ new.index \in o.next_index .. r.next_index - 1
  /\ old.state # Absent => new.generation = old.generation + 1

RecordTold(o, r, alert, b) ==
  LET old == o.chunks[b]
      new == r.chunks[b]
  IN  \/ alert.addr # b /\ (Kept(old, new) \/ FreedOnce(old, new))
      \/ /\ alert.addr = b
         /\ Misused(old, new, alert.reason) \/ Blamed(o, r, old, new, alert.reason)
      \/ Reborn(o, r, old, new)

Told(o, r, alert) ==
  /\ r.next_index >= o.next_index
  /\ AlertTold(o, r, alert)
  /\ \A b \in Addr : RecordTold(o, r, alert, b)

(* The rest of the invariant: an index is used once, a bin lists one size, *)
(* and the newest alert about a misused chunk gives its reason.            *)
IndexesUsed(o) == \A a \in Addr : Known(o, a) => o.chunks[a].index < o.next_index

SizesMatch(o) ==
  \A a \in Addr, loc \in BinLocation :
    o.chunks[a].state = Freed(loc) => ChunkSize(o.chunks[a].size) = (loc.idx + 2) * 16

NewestAbout(alerts, a, i) ==
  /\ i \in 1 .. Len(alerts) /\ alerts[i].addr = a
  /\ \A j \in 1 .. Len(alerts) : j > i => alerts[j].addr # a

Explained(o, a) ==
  \/ /\ Len(o.alerts) = AlertCap
     /\ \A i \in 1 .. Len(o.alerts) : o.alerts[i].addr # a
  \/ \E i \in 1 .. Len(o.alerts) :
       /\ NewestAbout(o.alerts, a, i)
       /\ o.chunks[a].state = Uaf(o.alerts[i].reason)

AlertsExplain(o) ==
  /\ Len(o.alerts) <= AlertCap
  /\ \A a \in Addr : o.chunks[a].state.tag = "uaf" => Explained(o, a)

RecordInv == IndexesUsed(oracle) /\ SizesMatch(oracle) /\ AlertsExplain(oracle)

-----------------------------------------------------------------------------
(* What the private methods leave alone.                                   *)

LEMMA RemoveLeaves ==
  ASSUME NEW o \in OracleType, NEW a \in Addr
  PROVE  /\ RemoveFromBins(o, a).alerts = o.alerts
         /\ RemoveFromBins(o, a).next_index = o.next_index
         /\ RemoveFromBins(o, a).chunks = o.chunks
BY DEF RemoveFromBins, OracleType

LEMMA CountLeaves ==
  ASSUME NEW o \in OracleType, NEW old, NEW new
  PROVE  /\ CountStateChange(o, old, new).alerts = o.alerts
         /\ CountStateChange(o, old, new).next_index = o.next_index
         /\ CountStateChange(o, old, new).chunks = o.chunks
         /\ CountStateChange(o, old, new) =
              [o EXCEPT !.counts = CountStateChange(o, old, new).counts]
BY DEF CountStateChange, OracleType

LEMMA ChangeLeaves ==
  ASSUME NEW o \in OracleType, NEW a \in Addr, NEW new
  PROVE  /\ ChangeState(o, a, new).alerts = o.alerts
         /\ ChangeState(o, a, new).next_index = o.next_index
         /\ ChangeState(o, a, new).chunks = [o.chunks EXCEPT ![a].state = new]
<1>1. CountStateChange(o, o.chunks[a].state, new).chunks = o.chunks
  BY CountLeaves
<1> QED BY <1>1, CountLeaves DEF ChangeState, OracleType

LEMMA InsertLeaves ==
  ASSUME NEW o \in OracleType, NEW a \in Addr, NEW size, NEW new, NEW generation
  PROVE  /\ InsertRecord(o, a, size, new, generation).alerts = o.alerts
         /\ InsertRecord(o, a, size, new, generation).next_index = o.next_index + 1
         /\ InsertRecord(o, a, size, new, generation).chunks =
              [o.chunks EXCEPT ![a] = [index |-> o.next_index, size |-> size,
                                       state |-> new, generation |-> generation]]
<1>1. /\ CountStateChange(o, o.chunks[a].state, new).chunks = o.chunks
      /\ CountStateChange(o, o.chunks[a].state, new).alerts = o.alerts
      /\ CountStateChange(o, o.chunks[a].state, new).next_index = o.next_index
      /\ CountStateChange(o, o.chunks[a].state, new) =
           [o EXCEPT !.counts = CountStateChange(o, o.chunks[a].state, new).counts]
  BY CountLeaves
<1> DEFINE c == CountStateChange(o, o.chunks[a].state, new)
<1>2. c \in [chunks : {o.chunks}, bins : {o.bins}, bin_index : {o.bin_index},
             counts : {c.counts}, alerts : {o.alerts}, next_index : {o.next_index},
             total_events : {o.total_events}]
  BY <1>1 DEF OracleType
<1>3. InsertRecord(o, a, size, new, generation) =
        [c EXCEPT !.chunks[a] = [index |-> o.next_index, size |-> size,
                                 state |-> new, generation |-> generation],
                  !.next_index = @ + 1]
  BY DEF InsertRecord
<1> HIDE DEF c
<1> QED BY <1>2, <1>3

LEMMA PushBinLeaves ==
  ASSUME NEW o \in OracleType, NEW a \in Addr, NEW bin
  PROVE  /\ PushBin(o, a, bin).alerts = o.alerts
         /\ PushBin(o, a, bin).next_index = o.next_index
         /\ PushBin(o, a, bin).chunks = o.chunks
BY DEF PushBin, OracleType

LEMMA RaiseLeaves ==
  ASSUME NEW o \in OracleType, NEW a \in Addr, NEW reason
  PROVE  /\ RaiseAlert(o, a, reason).alerts =
              Pushed(o.alerts, [addr |-> a, reason |-> reason])
         /\ RaiseAlert(o, a, reason).next_index = o.next_index
         /\ RaiseAlert(o, a, reason).chunks = o.chunks
BY DEF RaiseAlert, Pushed, OracleType

(* classify_free_bin picks a listed bin by the size of the chunk.          *)
LEMMA ClassifySize ==
  ASSUME NEW o \in OracleType, NEW size \in Usize
  PROVE  SizeFits(size, ClassifyFreeBin(o, size))
<1> DEFINE chunk == ChunkSize(size)
           idx   == SizeIndex(chunk)
           bin   == ClassifyFreeBin(o, size)
<1>1. (idx + 2) * 16 = chunk
  BY IndexesInBounds DEF IndexInBounds
<1>2. bin \in {Tcache(idx), Fastbin(idx), Smallbin(idx), Largebin}
  BY DEF ClassifyFreeBin
<1> HIDE DEF bin, idx, chunk
<1>3. Smallbin(idx) \notin BinLocation /\ Largebin \notin BinLocation
  BY DEF Smallbin, Largebin, BinLocation, Tcache, Fastbin
<1>4. Tcache(idx).idx = idx /\ Fastbin(idx).idx = idx
  BY DEF Tcache, Fastbin
<1> QED BY <1>1, <1>2, <1>3, <1>4 DEF SizeFits, bin, chunk

LEMMA UafReasons ==
  /\ "double-free" \in UafReason /\ "invalid-free" \in UafReason
  /\ "realloc-after-free" \in UafReason
BY DEF UafReason

LEMMA NullNoAddr == \A b \in Addr : NoAlert.addr # b
BY HeapOracleAssumption DEF NoAlert

-----------------------------------------------------------------------------
(* What apply_alloc, apply_free and apply_realloc do to records and alerts *)

LEMMA AllocTold ==
  ASSUME NEW o, Good(o, Null), NEW a \in Addr, NEW size
  PROVE  LET r == ApplyAlloc(o, a, size).oracle
         IN  /\ r.next_index = o.next_index + 1
             /\ r.alerts = o.alerts
             /\ ApplyAlloc(o, a, size).result.alert = NoAlert
             /\ \A b \in Addr \ {a} : r.chunks[b] = o.chunks[b]
             /\ r.chunks[a].state = Allocated
             /\ r.chunks[a].index = o.next_index
             /\ o.chunks[a].state # Absent =>
                  r.chunks[a].generation = o.chunks[a].generation + 1
<1> DEFINE clean == RemoveFromBins(o, a)
           generation == IF Known(o, a) THEN o.chunks[a].generation + 1 ELSE 0
           r == InsertRecord(clean, a, size, Allocated, generation)
<1>1. a # Null /\ o \in OracleType
  BY HeapOracleAssumption DEF Good
<1>2. /\ ApplyAlloc(o, a, size).oracle = r
      /\ ApplyAlloc(o, a, size).result.alert = NoAlert
  BY <1>1 DEF ApplyAlloc, Outcome, NoResult
<1>3. /\ clean \in OracleType /\ clean.chunks = o.chunks
      /\ clean.alerts = o.alerts /\ clean.next_index = o.next_index
  BY <1>1, RemoveFromBinsGood, RemoveLeaves DEF Good
<1>4. o.chunks[a].state # Absent => generation = o.chunks[a].generation + 1
  BY DEF Known
<1>5. o.chunks \in [Addr -> ChunkRecord]
  BY <1>1 DEF OracleType
<1> HIDE DEF clean, generation
<1>6. /\ r.alerts = clean.alerts /\ r.next_index = clean.next_index + 1
      /\ r.chunks = [clean.chunks EXCEPT ![a] =
                       [index |-> clean.next_index, size |-> size,
                        state |-> Allocated, generation |-> generation]]
  BY <1>3, InsertLeaves
<1> HIDE DEF r
<1> QED BY <1>2, <1>3, <1>4, <1>5, <1>6

LEMMA FreeTold ==
  ASSUME NEW o, Good(o, Null), NEW a \in Addr
  PROVE  Told(o, ApplyFree(o, a).oracle, ApplyFree(o, a).result.alert)
<1> DEFINE clean == RemoveFromBins(o, a)
           old   == o.chunks[a]
           r     == ApplyFree(o, a).oracle
           alert == ApplyFree(o, a).result.alert
<1>1. /\ a # Null /\ o \in OracleType /\ clean \in OracleType
      /\ clean.chunks = o.chunks
      /\ clean.alerts = o.alerts /\ clean.next_index = o.next_index
  BY HeapOracleAssumption, RemoveFromBinsGood, RemoveLeaves DEF Good
<1>2. ApplyFree(o, a) = IF ~ Known(o, a)      THEN FreeUnknown(clean, a)
                        ELSE IF old.state = Allocated THEN FreeLive(clean, a)
                        ELSE FreeAgain(clean, a)
  BY <1>1 DEF ApplyFree
<1>3. /\ o.chunks \in [Addr -> ChunkRecord] /\ old \in ChunkRecord
      /\ o.next_index \in Nat /\ o.alerts \in Seq(Alert)
      /\ (Known(o, a) <=> old.state # Absent) /\ Allocated # Absent
  BY <1>1 DEF OracleType, Known, Allocated, Absent
<1> HIDE DEF clean
<1>4. CASE old.state = Allocated
  <2> DEFINE bin == ClassifyFreeBin(clean, clean.chunks[a].size)
             q   == ChangeState(clean, a, Freed(bin))
  <2>1. r = PushBin(q, a, bin) /\ alert = NoAlert
    BY <1>2, <1>3, <1>4 DEF FreeLive, Outcome, NoResult
  <2>2. bin \in BinType /\ SizeFits(old.size, bin)
    BY <1>1, <1>3, ClassifyGood, ClassifySize DEF ChunkRecord
  <2>3. Good(q, a)
    BY <1>1, <2>2, RemoveFromBinsGood, ChangeStateGood, States DEF clean, Absent
  <2>4. /\ q.alerts = o.alerts /\ q.next_index = o.next_index
        /\ q.chunks = [o.chunks EXCEPT ![a].state = Freed(bin)]
    BY <1>1, ChangeLeaves
  <2> HIDE DEF q, bin
  <2>5. r.alerts = o.alerts /\ r.next_index = o.next_index /\ r.chunks = q.chunks
    BY <2>1, <2>3, <2>4, PushBinLeaves DEF Good
  <2> HIDE DEF r, alert
  <2>6. ASSUME NEW b \in Addr PROVE RecordTold(o, r, alert, b)
    <3>1. alert.addr # b
      BY <2>1, NullNoAddr
    <3>2. CASE b = a
      <4>1. r.chunks[b] = [old EXCEPT !.state = Freed(bin)]
        BY <1>3, <2>4, <2>5, <3>2
      <4> QED BY <1>4, <2>2, <3>1, <3>2, <4>1 DEF RecordTold, FreedOnce
    <3>3. CASE b # a
      BY <1>3, <2>4, <2>5, <3>1, <3>3 DEF RecordTold, Kept
    <3> QED BY <3>2, <3>3
  <2> QED BY <1>3, <2>1, <2>5, <2>6 DEF Told, AlertTold, r, alert
<1>5. CASE old.state \notin {Absent, Allocated}
  <2> DEFINE q   == RaiseAlert(clean, a, "double-free")
             new == Uaf("double-free")
  <2>1. r = ChangeState(q, a, new) /\ alert = [addr |-> a, reason |-> "double-free"]
    BY <1>2, <1>3, <1>5 DEF FreeAgain, Outcome, NoResult
  <2>2. Good(q, a)
    BY RemoveFromBinsGood, RaiseAlertGood, UafReasons DEF clean
  <2>3. /\ q.alerts = Pushed(o.alerts, alert) /\ q.next_index = o.next_index
        /\ q.chunks = o.chunks
    BY <1>1, <2>1, RaiseLeaves
  <2> HIDE DEF q
  <2>4. /\ r.alerts = q.alerts /\ r.next_index = q.next_index
        /\ r.chunks = [q.chunks EXCEPT ![a].state = new]
    BY <2>1, <2>2, ChangeLeaves DEF Good
  <2> HIDE DEF r, alert
  <2>5. /\ alert \in Alert /\ alert.addr = a /\ alert.reason = "double-free"
        /\ alert.reason \in UafReason
    BY <2>1, UafReasons DEF Alert
  <2>6. ASSUME NEW b \in Addr PROVE RecordTold(o, r, alert, b)
    <3>1. CASE b = a
      <4>1. r.chunks[b] = [old EXCEPT !.state = Uaf(alert.reason)]
        BY <1>3, <2>3, <2>4, <2>5, <3>1
      <4> QED BY <1>5, <2>5, <3>1, <4>1 DEF RecordTold, Misused
    <3>2. CASE b # a
      BY <1>3, <2>3, <2>4, <2>5, <3>2 DEF RecordTold, Kept
    <3> QED BY <3>1, <3>2
  <2> QED BY <1>3, <1>5, <2>3, <2>4, <2>5, <2>6 DEF Told, AlertTold, r, alert
<1>6. CASE old.state = Absent
  <2> DEFINE q   == RaiseAlert(clean, a, "invalid-free")
             new == Uaf("invalid-free")
  <2>1. r = InsertRecord(q, a, 0, new, 0) /\ alert = [addr |-> a, reason |-> "invalid-free"]
    <3>1. ApplyFree(o, a) = FreeUnknown(clean, a)
      BY <1>2, <1>3, <1>6
    <3>2. /\ FreeUnknown(clean, a).oracle = InsertRecord(q, a, 0, new, 0)
          /\ FreeUnknown(clean, a).result.alert =
               [addr |-> a, reason |-> "invalid-free"]
      BY DEF FreeUnknown, Outcome, NoResult
    <3> QED BY <3>1, <3>2
  <2>2. Good(q, a)
    BY RemoveFromBinsGood, RaiseAlertGood, UafReasons DEF clean
  <2>3. /\ q.alerts = Pushed(o.alerts, alert) /\ q.next_index = o.next_index
        /\ q.chunks = o.chunks
    BY <1>1, <2>1, RaiseLeaves
  <2> HIDE DEF q
  <2>4. /\ r.alerts = q.alerts /\ r.next_index = q.next_index + 1
        /\ r.chunks = [q.chunks EXCEPT ![a] = [index |-> q.next_index, size |-> 0,
                                               state |-> new, generation |-> 0]]
    BY <2>1, <2>2, InsertLeaves DEF Good
  <2> HIDE DEF r, alert
  <2>5. /\ alert \in Alert /\ alert.addr = a /\ alert.reason = "invalid-free"
        /\ alert.reason \in UafReason
    BY <2>1, UafReasons DEF Alert
  <2>6. ASSUME NEW b \in Addr PROVE RecordTold(o, r, alert, b)
    <3>1. CASE b = a
      <4>1. r.chunks[b].state = Uaf(alert.reason) /\ r.chunks[b].index = o.next_index
        BY <1>3, <2>3, <2>4, <2>5, <3>1
      <4>2. o.next_index \in o.next_index .. r.next_index - 1
        BY <1>3, <2>3, <2>4
      <4> QED BY <1>6, <2>5, <3>1, <4>1, <4>2 DEF RecordTold, Blamed
    <3>2. CASE b # a
      BY <1>3, <2>3, <2>4, <2>5, <3>2 DEF RecordTold, Kept
    <3> QED BY <3>1, <3>2
  <2>7. r.next_index >= o.next_index
    BY <1>3, <2>3, <2>4
  <2> QED BY <1>3, <1>6, <2>3, <2>4, <2>5, <2>6, <2>7 DEF Told, AlertTold, r, alert
<1> QED BY <1>4, <1>5, <1>6

(* A block that realloc gave up: freed without a list, or misused.         *)
LEMMA ReleaseTold ==
  ASSUME NEW o, Good(o, Null), NEW a \in Addr
  PROVE  LET r == ReleaseOld(RemoveFromBins(o, a), a)
         IN  Told(o, r, ReallocAlert(o, a)) /\ r.next_index = o.next_index
<1> DEFINE clean == RemoveFromBins(o, a)
           old   == o.chunks[a]
           r     == ReleaseOld(clean, a)
           alert == ReallocAlert(o, a)
<1>1. /\ o \in OracleType /\ clean \in OracleType
      /\ clean.chunks = o.chunks
      /\ clean.alerts = o.alerts /\ clean.next_index = o.next_index
  BY RemoveFromBinsGood, RemoveLeaves DEF Good
<1>2. r = IF old.state = Absent THEN clean
          ELSE IF old.state = Allocated THEN ChangeState(clean, a, Freed(Reallocated))
          ELSE ChangeState(RaiseAlert(clean, a, "realloc-after-free"),
                           a, Uaf("realloc-after-free"))
  BY <1>1 DEF ReleaseOld, Known
<1>3. /\ o.chunks \in [Addr -> ChunkRecord] /\ old \in ChunkRecord
      /\ o.next_index \in Nat /\ Allocated # Absent
  BY <1>1 DEF OracleType, Allocated, Absent
<1>4. alert = IF old.state \notin {Absent, Allocated}
              THEN [addr |-> a, reason |-> "realloc-after-free"]
              ELSE NoAlert
  BY DEF ReallocAlert, Known
<1>5. Good(clean, a)
  BY RemoveFromBinsGood
<1> HIDE DEF clean, r, alert
<1>6. CASE old.state = Allocated
  <2>1. r = ChangeState(clean, a, Freed(Reallocated)) /\ alert = NoAlert
    BY <1>2, <1>3, <1>4, <1>6
  <2>2. /\ r.alerts = o.alerts /\ r.next_index = o.next_index
        /\ r.chunks = [o.chunks EXCEPT ![a].state = Freed(Reallocated)]
    BY <1>1, <2>1, ChangeLeaves
  <2>3. Reallocated \in BinType /\ SizeFits(old.size, Reallocated)
    BY Bins DEF SizeFits
  <2>4. ASSUME NEW b \in Addr PROVE RecordTold(o, r, alert, b)
    <3>1. alert.addr # b
      BY <2>1, NullNoAddr
    <3>2. CASE b = a
      <4>1. r.chunks[b] = [old EXCEPT !.state = Freed(Reallocated)]
        BY <1>3, <2>2, <3>2
      <4> QED BY <1>6, <2>3, <3>1, <3>2, <4>1 DEF RecordTold, FreedOnce
    <3>3. CASE b # a
      BY <1>3, <2>2, <3>1, <3>3 DEF RecordTold, Kept
    <3> QED BY <3>2, <3>3
  <2> QED BY <1>3, <2>1, <2>2, <2>4 DEF Told, AlertTold, r, alert, clean
<1>7. CASE old.state \notin {Absent, Allocated}
  <2> DEFINE q   == RaiseAlert(clean, a, "realloc-after-free")
             new == Uaf("realloc-after-free")
  <2>1. /\ r = ChangeState(q, a, new)
        /\ alert = [addr |-> a, reason |-> "realloc-after-free"]
    BY <1>2, <1>3, <1>4, <1>7
  <2>2. Good(q, a)
    BY <1>5, RaiseAlertGood, UafReasons
  <2>3. /\ q.alerts = Pushed(o.alerts, alert) /\ q.next_index = o.next_index
        /\ q.chunks = o.chunks
    BY <1>1, <2>1, RaiseLeaves
  <2> HIDE DEF q
  <2>4. /\ r.alerts = q.alerts /\ r.next_index = q.next_index
        /\ r.chunks = [q.chunks EXCEPT ![a].state = new]
    BY <2>1, <2>2, ChangeLeaves DEF Good
  <2>5. /\ alert \in Alert /\ alert.addr = a /\ alert.reason = "realloc-after-free"
        /\ alert.reason \in UafReason
    BY <2>1, UafReasons DEF Alert
  <2>6. ASSUME NEW b \in Addr PROVE RecordTold(o, r, alert, b)
    <3>1. CASE b = a
      <4>1. r.chunks[b] = [old EXCEPT !.state = Uaf(alert.reason)]
        BY <1>3, <2>3, <2>4, <2>5, <3>1
      <4> QED BY <1>7, <2>5, <3>1, <4>1 DEF RecordTold, Misused
    <3>2. CASE b # a
      BY <1>3, <2>3, <2>4, <2>5, <3>2 DEF RecordTold, Kept
    <3> QED BY <3>1, <3>2
  <2> QED BY <1>3, <1>7, <2>3, <2>4, <2>5, <2>6 DEF Told, AlertTold, r, alert, clean
<1>8. CASE old.state = Absent
  <2>1. r = clean /\ alert = NoAlert
    BY <1>2, <1>4, <1>8
  <2>2. \A b \in Addr : RecordTold(o, r, alert, b)
    BY <1>1, <2>1, NullNoAddr DEF RecordTold, Kept
  <2> QED BY <1>1, <1>3, <2>1, <2>2 DEF Told, AlertTold, r, alert, clean
<1> QED BY <1>6, <1>7, <1>8

(* Then the new block is recorded, and the alert of the old one kept.      *)
LEMMA MovedTold ==
  ASSUME NEW o, Good(o, Null), NEW old \in Addr, NEW new \in Addr, NEW size
  PROVE  Told(o, Moved(o, old, new, size).oracle, Moved(o, old, new, size).result.alert)
<1> DEFINE p == ReleaseOld(RemoveFromBins(o, old), old)
           alloc == ApplyAlloc(p, new, size)
           m == alloc.oracle
           alert == ReallocAlert(o, old)
<1>1. /\ Moved(o, old, new, size).oracle = m
      /\ Moved(o, old, new, size).result.alert = alert
  <2>1. /\ Moved(o, old, new, size).oracle = m
        /\ Moved(o, old, new, size).result = [alloc.result EXCEPT !.alert = alert]
    BY DEF Moved, Outcome
  <2>2. alloc.result \in [alert : {NoAlert}, bin : {NoBin}, chunk_index : {alloc.result.chunk_index}]
    BY DEF ApplyAlloc, Outcome, NoResult
  <2> QED BY <2>1, <2>2
<1>2. Good(p, Null) /\ Told(o, p, alert) /\ p.next_index = o.next_index
  BY ReleaseTold, ReleaseOldGood
<1> HIDE DEF p, alert
<1>3. /\ m.next_index = p.next_index + 1 /\ m.alerts = p.alerts
      /\ \A b \in Addr \ {new} : m.chunks[b] = p.chunks[b]
      /\ m.chunks[new].state = Allocated /\ m.chunks[new].index = p.next_index
      /\ p.chunks[new].state # Absent =>
           m.chunks[new].generation = p.chunks[new].generation + 1
  BY <1>2, AllocTold
<1> HIDE DEF m
<1>4. o.next_index \in Nat /\ o.chunks \in [Addr -> ChunkRecord]
  BY DEF Good, OracleType
<1>5. /\ o.next_index .. p.next_index - 1 = {}
      /\ o.next_index \in o.next_index .. m.next_index - 1
      /\ m.next_index >= o.next_index
  BY <1>2, <1>3, <1>4
<1>6. ASSUME NEW b \in Addr
      PROVE  \/ alert.addr # b /\ Kept(o.chunks[b], p.chunks[b])
             \/ alert.addr # b /\ FreedOnce(o.chunks[b], p.chunks[b])
             \/ alert.addr = b /\ Misused(o.chunks[b], p.chunks[b], alert.reason)
  BY <1>2, <1>5 DEF Told, RecordTold, Blamed, Reborn
<1>7. ASSUME NEW b \in Addr PROVE RecordTold(o, m, alert, b)
  <2>1. CASE b # new
    <3>1. m.chunks[b] = p.chunks[b]
      BY <1>3, <2>1
    <3> QED BY <1>6, <3>1 DEF RecordTold
  <2>2. CASE b = new
    <3>1. o.chunks[b].state # Absent => /\ p.chunks[b].generation = o.chunks[b].generation
                                        /\ p.chunks[b].state # Absent
      <4>1. o.chunks[b] \in ChunkRecord
        BY <1>4
      <4>2. CASE Kept(o.chunks[b], p.chunks[b])
        BY <4>2 DEF Kept
      <4>3. CASE FreedOnce(o.chunks[b], p.chunks[b])
        <5>1. PICK bin \in BinType : p.chunks[b] = [o.chunks[b] EXCEPT !.state = Freed(bin)]
          BY <4>3 DEF FreedOnce
        <5>2. Freed(bin) # Absent
          BY States
        <5> QED BY <4>1, <5>1, <5>2 DEF ChunkRecord
      <4>4. CASE Misused(o.chunks[b], p.chunks[b], alert.reason)
        <5>1. /\ p.chunks[b] = [o.chunks[b] EXCEPT !.state = Uaf(alert.reason)]
              /\ alert.reason \in UafReason
          BY <4>4 DEF Misused
        <5>2. Uaf(alert.reason) # Absent
          BY <5>1, States
        <5> QED BY <4>1, <5>1, <5>2 DEF ChunkRecord
      <4> QED BY <1>6, <4>2, <4>3, <4>4
    <3>2. Reborn(o, m, o.chunks[b], m.chunks[b])
      BY <1>2, <1>3, <1>5, <2>2, <3>1 DEF Reborn
    <3> QED BY <3>2 DEF RecordTold
  <2> QED BY <2>1, <2>2
<1>8. AlertTold(o, m, alert)
  BY <1>2, <1>3 DEF Told, AlertTold
<1> QED BY <1>1, <1>5, <1>7, <1>8 DEF Told

LEMMA IgnoredTold ==
  ASSUME NEW o, Good(o, Null)
  PROVE  Told(o, o, NoAlert)
<1>1. o.next_index \in Nat
  BY DEF Good, OracleType
<1>2. \A b \in Addr : RecordTold(o, o, NoAlert, b)
  BY NullNoAddr DEF RecordTold, Kept
<1> QED BY <1>1, <1>2 DEF Told, AlertTold

LEMMA AllocCallTold ==
  ASSUME NEW o, Good(o, Null), NEW a \in AddrOrNull, NEW size
  PROVE  Told(o, ApplyAlloc(o, a, size).oracle, ApplyAlloc(o, a, size).result.alert)
<1>1. CASE a = Null
  <2>1. /\ ApplyAlloc(o, a, size).oracle = o
        /\ ApplyAlloc(o, a, size).result.alert = NoAlert
    BY <1>1 DEF ApplyAlloc, Outcome, NoResult
  <2> QED BY <2>1, IgnoredTold
<1>2. CASE a # Null
  <2> DEFINE r == ApplyAlloc(o, a, size).oracle
             alert == ApplyAlloc(o, a, size).result.alert
  <2>1. a \in Addr /\ o.next_index \in Nat
    BY <1>2 DEF AddrOrNull, Good, OracleType
  <2>2. /\ r.next_index = o.next_index + 1
        /\ r.alerts = o.alerts /\ alert = NoAlert
        /\ \A b \in Addr \ {a} : r.chunks[b] = o.chunks[b]
        /\ r.chunks[a].state = Allocated
        /\ r.chunks[a].index = o.next_index
        /\ o.chunks[a].state # Absent =>
             r.chunks[a].generation = o.chunks[a].generation + 1
    BY <2>1, AllocTold
  <2> HIDE DEF r, alert
  <2>3. /\ o.next_index \in o.next_index .. r.next_index - 1
        /\ r.next_index >= o.next_index
    BY <2>1, <2>2
  <2>4. ASSUME NEW b \in Addr PROVE RecordTold(o, r, alert, b)
    <3>1. CASE b = a
      BY <2>2, <2>3, <3>1 DEF RecordTold, Reborn
    <3>2. CASE b # a
      BY <2>2, <3>2, NullNoAddr DEF RecordTold, Kept
    <3> QED BY <3>1, <3>2
  <2> QED BY <2>2, <2>3, <2>4 DEF Told, AlertTold, r, alert
<1> QED BY <1>1, <1>2

LEMMA FreeCallTold ==
  ASSUME NEW o, Good(o, Null), NEW a \in AddrOrNull
  PROVE  Told(o, ApplyFree(o, a).oracle, ApplyFree(o, a).result.alert)
<1>1. CASE a = Null
  BY <1>1, ApplyFreeNull, IgnoredTold
<1>2. CASE a # Null
  BY <1>2, FreeTold DEF AddrOrNull
<1> QED BY <1>1, <1>2

LEMMA ReallocCallTold ==
  ASSUME NEW o, Good(o, Null), NEW old \in AddrOrNull, NEW new \in AddrOrNull, NEW size
  PROVE  Told(o, ApplyRealloc(o, old, new, size).oracle,
                 ApplyRealloc(o, old, new, size).result.alert)
<1>1. CASE old = Null
  BY <1>1, AllocCallTold DEF ApplyRealloc
<1>2. CASE old # Null /\ size = 0
  BY <1>2, FreeCallTold DEF ApplyRealloc
<1>3. CASE old # Null /\ size # 0 /\ new = Null
  <2>1. /\ ApplyRealloc(o, old, new, size).oracle = o
        /\ ApplyRealloc(o, old, new, size).result.alert = NoAlert
    BY <1>3 DEF ApplyRealloc, Outcome, NoResult
  <2> QED BY <2>1, IgnoredTold
<1>4. CASE old # Null /\ size # 0 /\ new # Null
  BY <1>4, MovedTold DEF ApplyRealloc, AddrOrNull
<1> QED BY <1>1, <1>2, <1>3, <1>4

(* Counting the event besides changes neither.                             *)
LEMMA AppliedTold ==
  ASSUME NEW outcome, Applied(outcome), Good(outcome.oracle, Null),
         Told(oracle, outcome.oracle, outcome.result.alert)
  PROVE  Told(oracle, oracle', result'.alert)
<1> DEFINE r == outcome.oracle
<1>1. r \in OracleType /\ oracle' = [r EXCEPT !.total_events = @ + 1] /\ result' = outcome.result
  BY DEF Applied, Good
<1>2. /\ oracle'.chunks = r.chunks /\ oracle'.alerts = r.alerts
      /\ oracle'.next_index = r.next_index
  BY <1>1 DEF OracleType
<1> HIDE DEF r
<1>3. Told(oracle, r, result'.alert)
  BY <1>1 DEF r
<1> QED BY <1>2, <1>3 DEF Told, AlertTold, RecordTold, Reborn, Blamed

LEMMA NextTold ==
  ASSUME Inv, Next
  PROVE  Told(oracle, oracle', result'.alert)
<1>1. Good(oracle, Null) /\ \A size \in Size : size \in Usize
  BY HeapOracleAssumption DEF Inv
<1>2. ASSUME NEW a \in AddrOrNull, NEW size \in Size, Alloc(a, size)
      PROVE  Told(oracle, oracle', result'.alert)
  <2>1. Good(ApplyAlloc(oracle, a, size).oracle, Null)
    BY <1>1, AllocCall DEF Call
  <2> QED BY <1>1, <1>2, <2>1, AllocCallTold, AppliedTold DEF Alloc
<1>3. ASSUME NEW a \in AddrOrNull, Free(a)
      PROVE  Told(oracle, oracle', result'.alert)
  <2>1. Good(ApplyFree(oracle, a).oracle, Null)
    BY <1>1, FreeCall DEF Call
  <2> QED BY <1>1, <1>3, <2>1, FreeCallTold, AppliedTold DEF Free
<1>4. ASSUME NEW old \in AddrOrNull, NEW new \in AddrOrNull, NEW size \in Size,
             Realloc(old, new, size)
      PROVE  Told(oracle, oracle', result'.alert)
  <2>1. Good(ApplyRealloc(oracle, old, new, size).oracle, Null)
    BY <1>1, ReallocCall DEF Call
  <2> QED BY <1>1, <1>4, <2>1, ReallocCallTold, AppliedTold DEF Realloc
<1>5. ASSUME Invalid PROVE Told(oracle, oracle', result'.alert)
  <2>1. /\ Outcome(oracle, NoResult).oracle = oracle
        /\ Outcome(oracle, NoResult).result.alert = NoAlert
    BY DEF Outcome, NoResult
  <2> QED BY <1>1, <1>5, <2>1, IgnoredTold, AppliedTold DEF Invalid
<1> QED BY <1>2, <1>3, <1>4, <1>5 DEF Next

-----------------------------------------------------------------------------
(* The alert list                                                          *)

LEMMA PushedFacts ==
  ASSUME NEW s \in Seq(Alert), Len(s) <= AlertCap, NEW x \in Alert
  PROVE  /\ Pushed(s, x) \in Seq(Alert)
         /\ Len(s) < AlertCap => /\ Len(Pushed(s, x)) = Len(s) + 1
                                 /\ \A i \in 1 .. Len(s) : Pushed(s, x)[i] = s[i]
         /\ Len(s) = AlertCap => /\ Len(Pushed(s, x)) = AlertCap
                                 /\ \A i \in 1 .. AlertCap - 1 : Pushed(s, x)[i] = s[i + 1]
         /\ Len(Pushed(s, x)) \in 1 .. AlertCap
         /\ Pushed(s, x)[Len(Pushed(s, x))] = x
<1> DEFINE all  == Append(s, x)
           from == IF Len(all) > AlertCap THEN Len(all) - AlertCap + 1 ELSE 1
           p    == SubSeq(all, from, Len(all))
<1>1. /\ all \in Seq(Alert) /\ Len(all) = Len(s) + 1 /\ Len(s) \in Nat
      /\ \A i \in 1 .. Len(s) : all[i] = s[i]
      /\ all[Len(s) + 1] = x
  BY AppendProperties
<1>2. Pushed(s, x) = p
  BY DEF Pushed
<1> HIDE DEF all
<1>3. from = IF Len(s) = AlertCap THEN 2 ELSE 1
  BY <1>1, HeapOracleAssumption
<1> HIDE DEF from
<1>4. \A i \in from .. Len(all) : all[i] \in Alert
  <2>1. \A i \in 1 .. Len(all) : all[i] \in Alert
    BY <1>1, ElementOfSeq
  <2> QED BY <1>1, <1>3, <2>1
<1>5. /\ p \in Seq(Alert)
      /\ Len(p) = IF from <= Len(all) THEN Len(all) - from + 1 ELSE 0
      /\ \A i \in 1 .. Len(all) - from + 1 : p[i] = all[from + i - 1]
  <2>1. from \in Int /\ Len(all) \in Int
    BY <1>1, <1>3
  <2> QED BY <1>1, <1>4, <2>1, SubSeqProperties
<1> HIDE DEF p
<1>6. CASE Len(s) < AlertCap
  <2>1. from = 1 /\ Len(p) = Len(s) + 1
    BY <1>1, <1>3, <1>5, <1>6
  <2>2. ASSUME NEW i \in 1 .. Len(s) + 1 PROVE p[i] = all[i]
    <3>1. i \in 1 .. Len(all) - from + 1 /\ from + i - 1 = i
      BY <1>1, <2>1
    <3> QED BY <1>5, <3>1
  <2>3. Len(p) \in 1 .. AlertCap /\ Len(s) # AlertCap
    BY <1>1, <1>6, <2>1, HeapOracleAssumption
  <2>4. Len(s) + 1 \in 1 .. Len(s) + 1 /\ \A i \in 1 .. Len(s) : i \in 1 .. Len(s) + 1
    BY <1>1
  <2> QED BY <1>1, <1>2, <1>5, <2>1, <2>2, <2>3, <2>4
<1>7. CASE Len(s) = AlertCap
  <2>1. from = 2 /\ Len(p) = AlertCap
    BY <1>1, <1>3, <1>5, <1>7, HeapOracleAssumption
  <2>2. ASSUME NEW i \in 1 .. AlertCap PROVE p[i] = all[i + 1]
    <3>1. i \in 1 .. Len(all) - from + 1 /\ from + i - 1 = i + 1
      BY <1>1, <1>7, <2>1
    <3> QED BY <1>5, <3>1
  <2>3. Len(p) \in 1 .. AlertCap /\ ~ (Len(s) < AlertCap)
    BY <1>7, <2>1, HeapOracleAssumption
  <2>4. ASSUME NEW i \in 1 .. AlertCap - 1 PROVE p[i] = s[i + 1]
    <3>1. i \in 1 .. AlertCap /\ i + 1 \in 1 .. Len(s)
      BY <1>7, HeapOracleAssumption
    <3> QED BY <1>1, <2>2, <3>1
  <2> QED BY <1>1, <1>2, <1>5, <1>7, <2>1, <2>2, <2>3, <2>4
<1> QED BY <1>1, <1>6, <1>7, HeapOracleAssumption

(* Every misused chunk stays explained.                                    *)
LEMMA ToldExplains ==
  ASSUME NEW o \in OracleType, NEW r \in OracleType, NEW alert,
         Told(o, r, alert), AlertsExplain(o)
  PROVE  AlertsExplain(r)
<1>1. /\ o.alerts \in Seq(Alert) /\ Len(o.alerts) \in Nat /\ Len(o.alerts) <= AlertCap
      /\ \A a \in Addr : o.chunks[a].state.tag = "uaf" => Explained(o, a)
  BY DEF OracleType, AlertsExplain, Explained
<1>2. CASE alert = NoAlert /\ r.alerts = o.alerts
  <2>1. ASSUME NEW a \in Addr, r.chunks[a].state.tag = "uaf" PROVE Explained(r, a)
    <3>1. alert.addr # a
      BY <1>2, NullNoAddr
    <3>2. RecordTold(o, r, alert, a)
      BY DEF Told
    <3>3. ~ FreedOnce(o.chunks[a], r.chunks[a])
      <4> SUFFICES ASSUME FreedOnce(o.chunks[a], r.chunks[a]) PROVE FALSE
        OBVIOUS
      <4>1. PICK bin \in BinType : r.chunks[a] = [o.chunks[a] EXCEPT !.state = Freed(bin)]
        BY DEF FreedOnce
      <4>2. r.chunks[a].state = Freed(bin)
        BY <4>1 DEF OracleType, ChunkRecord
      <4> QED BY <2>1, <4>2, States
    <3>4. ~ Reborn(o, r, o.chunks[a], r.chunks[a])
      BY <2>1, States DEF Reborn
    <3>5. r.chunks[a] = o.chunks[a]
      BY <3>1, <3>2, <3>3, <3>4 DEF RecordTold, Kept
    <3> QED BY <1>1, <1>2, <2>1, <3>5 DEF Explained
  <2> QED BY <1>1, <1>2, <2>1 DEF AlertsExplain, Explained
<1>3. CASE alert \in Alert /\ r.alerts = Pushed(o.alerts, alert)
  <2> DEFINE s == o.alerts
             p == r.alerts
  <2>1. /\ p \in Seq(Alert)
        /\ Len(s) < AlertCap => /\ Len(p) = Len(s) + 1
                                /\ \A i \in 1 .. Len(s) : p[i] = s[i]
        /\ Len(s) = AlertCap => /\ Len(p) = AlertCap
                                /\ \A i \in 1 .. AlertCap - 1 : p[i] = s[i + 1]
        /\ Len(p) \in 1 .. AlertCap
        /\ p[Len(p)] = alert
    <3>1. alert \in Alert /\ p = Pushed(s, alert)
      BY <1>3
    <3> HIDE DEF s, p
    <3>2. s \in Seq(Alert) /\ Len(s) <= AlertCap
      BY <1>1 DEF s
    <3> QED BY <3>1, <3>2, PushedFacts
  <2>2. ASSUME NEW a \in Addr, r.chunks[a].state.tag = "uaf" PROVE Explained(r, a)
    <3>1. RecordTold(o, r, alert, a)
      BY DEF Told
    <3>2. /\ ~ FreedOnce(o.chunks[a], r.chunks[a])
          /\ ~ Reborn(o, r, o.chunks[a], r.chunks[a])
      <4>1. ASSUME FreedOnce(o.chunks[a], r.chunks[a]) PROVE FALSE
        <5>1. PICK bin \in BinType : r.chunks[a] = [o.chunks[a] EXCEPT !.state = Freed(bin)]
          BY <4>1 DEF FreedOnce
        <5>2. r.chunks[a].state = Freed(bin)
          BY <5>1 DEF OracleType, ChunkRecord
        <5> QED BY <2>2, <5>2, States
      <4>2. ASSUME Reborn(o, r, o.chunks[a], r.chunks[a]) PROVE FALSE
        BY <2>2, <4>2, States DEF Reborn
      <4> QED BY <4>1, <4>2
    <3>3. CASE alert.addr = a
      <4>1. r.chunks[a].state = Uaf(alert.reason)
        <5>1. CASE Misused(o.chunks[a], r.chunks[a], alert.reason)
          BY <5>1 DEF Misused, OracleType, ChunkRecord
        <5>2. CASE Blamed(o, r, o.chunks[a], r.chunks[a], alert.reason)
          BY <5>2 DEF Blamed
        <5> QED BY <3>1, <3>2, <3>3, <5>1, <5>2 DEF RecordTold
      <4>2. Len(p) \in 1 .. Len(p) /\ \A j \in 1 .. Len(p) : ~ (j > Len(p))
        BY <2>1
      <4>3. NewestAbout(p, a, Len(p))
        BY <2>1, <3>3, <4>2 DEF NewestAbout
      <4> QED BY <2>1, <4>1, <4>2, <4>3 DEF Explained
    <3>4. CASE alert.addr # a
      <4>1. r.chunks[a] = o.chunks[a]
        BY <3>1, <3>2, <3>4 DEF RecordTold, Kept
      <4>2. Explained(o, a)
        BY <1>1, <2>2, <4>1
      <4>3. CASE Len(s) < AlertCap
        <5>1. PICK i \in 1 .. Len(s) : /\ NewestAbout(s, a, i)
                                       /\ o.chunks[a].state = Uaf(s[i].reason)
          BY <1>1, <4>2, <4>3, HeapOracleAssumption DEF Explained
        <5>2. i \in 1 .. Len(p) /\ p[i] = s[i]
          BY <1>1, <2>1, <4>3, <5>1
        <5>3. ASSUME NEW j \in 1 .. Len(p), j > i PROVE p[j].addr # a
          <6>1. CASE j = Len(p)
            BY <2>1, <3>4, <6>1
          <6>2. CASE j # Len(p)
            <7>1. j \in 1 .. Len(s)
              BY <1>1, <2>1, <4>3, <6>2
            <7> QED BY <2>1, <4>3, <5>1, <5>3, <7>1 DEF NewestAbout
          <6> QED BY <6>1, <6>2
        <5>4. NewestAbout(p, a, i)
          BY <5>1, <5>2, <5>3 DEF NewestAbout
        <5> QED BY <4>1, <5>1, <5>2, <5>4 DEF Explained
      <4>4. CASE Len(s) = AlertCap /\ \E i \in 2 .. Len(s) : s[i].addr = a
        <5>1. PICK k \in 2 .. Len(s) : s[k].addr = a
          BY <4>4
        <5>2. PICK i \in 1 .. Len(s) : /\ NewestAbout(s, a, i)
                                       /\ o.chunks[a].state = Uaf(s[i].reason)
          <6>1. k \in 1 .. Len(s)
            BY <1>1, <5>1
          <6> QED BY <4>2, <5>1, <6>1 DEF Explained
        <5>3. i >= k
          <6>1. k \in 1 .. Len(s) /\ (k > i \/ i >= k)
            BY <1>1, <5>1, <5>2
          <6> QED BY <5>1, <5>2, <6>1 DEF NewestAbout
        <5>4. i - 1 \in 1 .. Len(p) /\ p[i - 1] = s[i]
          <6>1. i - 1 \in 1 .. AlertCap - 1 /\ (i - 1) + 1 = i /\ i - 1 \in 1 .. Len(p)
            BY <1>1, <2>1, <4>4, <5>1, <5>2, <5>3, HeapOracleAssumption
          <6>2. p[i - 1] = s[(i - 1) + 1]
            BY <2>1, <4>4, <6>1
          <6> QED BY <6>1, <6>2
        <5>5. ASSUME NEW j \in 1 .. Len(p), j > i - 1 PROVE p[j].addr # a
          <6>1. CASE j = Len(p)
            BY <2>1, <3>4, <6>1
          <6>2. CASE j # Len(p)
            <7>1. /\ j \in 1 .. AlertCap - 1 /\ j + 1 \in 1 .. Len(s) /\ j + 1 > i
              BY <1>1, <2>1, <4>4, <5>2, <5>5, <6>2, HeapOracleAssumption
            <7>2. p[j] = s[j + 1]
              BY <2>1, <4>4, <7>1
            <7> QED BY <5>2, <7>1, <7>2 DEF NewestAbout
          <6> QED BY <6>1, <6>2
        <5>6. NewestAbout(p, a, i - 1)
          BY <5>2, <5>4, <5>5 DEF NewestAbout
        <5> QED BY <4>1, <5>2, <5>4, <5>6 DEF Explained
      <4>5. CASE Len(s) = AlertCap /\ \A i \in 2 .. Len(s) : s[i].addr # a
        <5>1. ASSUME NEW j \in 1 .. Len(p) PROVE p[j].addr # a
          <6>1. CASE j = Len(p)
            BY <2>1, <3>4, <6>1
          <6>2. CASE j # Len(p)
            <7>1. j \in 1 .. AlertCap - 1 /\ j + 1 \in 2 .. Len(s)
              BY <1>1, <2>1, <4>5, <6>2, HeapOracleAssumption
            <7>2. p[j] = s[j + 1]
              BY <2>1, <4>5, <7>1
            <7> QED BY <4>5, <7>1, <7>2
          <6> QED BY <6>1, <6>2
        <5> QED BY <2>1, <4>5, <5>1 DEF Explained
      <4>6. Len(s) < AlertCap \/ Len(s) = AlertCap
        BY <1>1, HeapOracleAssumption
      <4> QED BY <4>3, <4>4, <4>5, <4>6
    <3> QED BY <3>3, <3>4
  <2>3. Len(p) <= AlertCap
    BY <2>1, HeapOracleAssumption
  <2> QED BY <2>2, <2>3 DEF AlertsExplain, Explained
<1> QED BY <1>2, <1>3 DEF Told, AlertTold

(* Indexes are fresh and bins keep one size.                               *)
LEMMA ToldIndexes ==
  ASSUME NEW o \in OracleType, NEW r \in OracleType, NEW alert,
         Told(o, r, alert), IndexesUsed(o)
  PROVE  IndexesUsed(r)
<1> SUFFICES ASSUME NEW a \in Addr, r.chunks[a].state # Absent
             PROVE  r.chunks[a].index < r.next_index
  BY DEF IndexesUsed, Known
<1>1. /\ o.next_index \in Nat /\ r.next_index \in Nat /\ r.next_index >= o.next_index
      /\ o.chunks[a] \in ChunkRecord /\ o.chunks[a].index \in Nat
      /\ o.chunks[a].state # Absent => o.chunks[a].index < o.next_index
      /\ RecordTold(o, r, alert, a) /\ Allocated # Absent
  BY DEF OracleType, Told, IndexesUsed, Known, ChunkRecord, Allocated, Absent
<1>2. CASE r.chunks[a].index \in o.next_index .. r.next_index - 1
  BY <1>1, <1>2
<1>3. CASE r.chunks[a].index = o.chunks[a].index /\ o.chunks[a].state # Absent
  BY <1>1, <1>3
<1>4. \/ r.chunks[a].index \in o.next_index .. r.next_index - 1
      \/ r.chunks[a].index = o.chunks[a].index /\ o.chunks[a].state # Absent
  BY <1>1 DEF RecordTold, Kept, FreedOnce, Misused, Blamed, Reborn, ChunkRecord
<1> QED BY <1>2, <1>3, <1>4

LEMMA ToldSizes ==
  ASSUME NEW o \in OracleType, NEW r \in OracleType, NEW alert,
         Told(o, r, alert), SizesMatch(o)
  PROVE  SizesMatch(r)
<1> SUFFICES ASSUME NEW a \in Addr, NEW loc \in BinLocation,
                    r.chunks[a].state = Freed(loc)
             PROVE  ChunkSize(r.chunks[a].size) = (loc.idx + 2) * 16
  BY DEF SizesMatch
<1> DEFINE old == o.chunks[a]
           new == r.chunks[a]
<1>1. old \in ChunkRecord /\ RecordTold(o, r, alert, a)
  BY DEF OracleType, Told
<1>2. loc \in BinType /\ new.state.tag = "freed"
  BY Bins, States
<1>3. CASE Kept(old, new)
  BY <1>3 DEF Kept, SizesMatch
<1>4. CASE FreedOnce(old, new)
  <2>1. PICK bin \in BinType : /\ new = [old EXCEPT !.state = Freed(bin)]
                               /\ SizeFits(old.size, bin)
    BY <1>4 DEF FreedOnce
  <2>2. new.state = Freed(bin) /\ new.size = old.size
    BY <1>1, <2>1 DEF ChunkRecord
  <2>3. bin = loc
    BY <1>2, <2>2, States
  <2> QED BY <2>1, <2>2, <2>3 DEF SizeFits
<1>5. ~ Misused(old, new, alert.reason)
  <2>1. Misused(old, new, alert.reason) =>
          new.state = Uaf(alert.reason) /\ alert.reason \in UafReason
    BY <1>1 DEF Misused, ChunkRecord
  <2> QED BY <1>2, <2>1, States
<1>6. ~ Blamed(o, r, old, new, alert.reason) /\ ~ Reborn(o, r, old, new)
  BY <1>2, States DEF Blamed, Reborn
<1> QED BY <1>1, <1>3, <1>4, <1>5, <1>6 DEF RecordTold

-----------------------------------------------------------------------------
(* The theorems about records and alerts                                   *)

LEMMA InitRecordInv == Init => RecordInv
<1> SUFFICES ASSUME Init PROVE RecordInv
  OBVIOUS
<1>1. /\ \A a \in Addr : oracle.chunks[a].state = Absent
      /\ oracle.alerts = << >>
  BY DEF Init, NewOracle, NoChunk
<1>2. Len(oracle.alerts) <= AlertCap
  BY <1>1, EmptySeq, HeapOracleAssumption
<1>3. /\ \A loc \in BinLocation : Freed(loc) # Absent
      /\ Absent.tag # "uaf"
  BY Bins, States
<1> QED BY <1>1, <1>2, <1>3 DEF RecordInv, IndexesUsed, Known, SizesMatch, AlertsExplain

LEMMA NextRecordInv == Inv /\ Inv' /\ RecordInv /\ [Next]_vars => RecordInv'
<1>1. ASSUME Inv, Inv', RecordInv, Next PROVE RecordInv'
  <2>1. Told(oracle, oracle', result'.alert)
    BY <1>1, NextTold
  <2>2. oracle \in OracleType /\ oracle' \in OracleType
    BY <1>1 DEF Inv, Good
  <2>3. IndexesUsed(oracle) /\ SizesMatch(oracle) /\ AlertsExplain(oracle)
    BY <1>1 DEF RecordInv
  <2>4. IndexesUsed(oracle') /\ SizesMatch(oracle') /\ AlertsExplain(oracle')
    BY <2>1, <2>2, <2>3, ToldIndexes, ToldSizes, ToldExplains
  <2> QED BY <2>4 DEF RecordInv
<1>2. ASSUME RecordInv, UNCHANGED vars PROVE RecordInv'
  <2>1. oracle' = oracle
    BY <1>2 DEF vars
  <2> QED BY <1>2, <2>1 DEF RecordInv
<1> QED BY <1>1, <1>2

LEMMA RecordInvAlways == Spec => []RecordInv
  BY SpecInv, InitRecordInv, NextRecordInv, PTL DEF Spec

(* A bin lists chunks of one size: the one print_heap_state prints for it. *)
THEOREM BinsHoldOneSize == Spec => []BinHoldsOneSize
<1>1. Inv /\ RecordInv => BinHoldsOneSize
  <2> SUFFICES ASSUME Inv, RecordInv, NEW loc \in BinLocation,
                      NEW a \in ToSet(oracle.bins[loc])
               PROVE  ChunkSize(oracle.chunks[a].size) = (loc.idx + 2) * 16
    BY DEF BinHoldsOneSize
  <2>1. oracle \in OracleType /\ BinsAgree(oracle, Null)
    BY DEF Inv, Good
  <2>2. a \in Addr
    BY <2>1 DEF OracleType, ToSet
  <2>3. oracle.chunks[a].state = Freed(loc)
    BY <2>1, <2>2 DEF BinsAgree, Shows
  <2> QED BY <2>2, <2>3 DEF RecordInv, SizesMatch
<1> QED BY <1>1, SpecInv, RecordInvAlways, PTL

(* The newest alert about a misused chunk gives the reason the table has.  *)
THEOREM MisuseIsExplained == Spec => []AlertsExplainUaf
<1>1. Inv /\ RecordInv => AlertsExplainUaf
  <2> SUFFICES ASSUME Inv, RecordInv PROVE AlertsExplainUaf
    OBVIOUS
  <2> DEFINE s == oracle.alerts
             About(a) == {i \in DOMAIN s : s[i].addr = a}
             Newest(a) == CHOOSE i \in About(a) : \A j \in About(a) : j <= i
  <2>1. s \in Seq(Alert) /\ DOMAIN s = 1 .. Len(s) /\ Len(s) \in Nat
    BY LenProperties DEF Inv, Good, OracleType
  <2>2. ASSUME NEW a \in Addr, oracle.chunks[a].state.tag = "uaf"
        PROVE  IF About(a) = {} THEN Len(s) = AlertCap
               ELSE oracle.chunks[a].state = Uaf(s[Newest(a)].reason)
    <3>1. CASE Len(s) = AlertCap /\ \A i \in 1 .. Len(s) : s[i].addr # a
      <4>1. About(a) = {}
        BY <2>1, <3>1
      <4> QED BY <3>1, <4>1
    <3>2. CASE \E i \in 1 .. Len(s) : /\ NewestAbout(s, a, i)
                                      /\ oracle.chunks[a].state = Uaf(s[i].reason)
      <4>1. PICK i \in 1 .. Len(s) : /\ NewestAbout(s, a, i)
                                     /\ oracle.chunks[a].state = Uaf(s[i].reason)
        BY <3>2
      <4>2. i \in About(a)
        BY <2>1, <4>1 DEF NewestAbout
      <4>3. \A j \in About(a) : j <= i
        BY <2>1, <4>1 DEF NewestAbout
      <4>4. \A k \in About(a) : (\A j \in About(a) : j <= k) => k = i
        BY <2>1, <4>2, <4>3
      <4>5. Newest(a) = i
        <5> HIDE DEF About
        <5> QED BY <4>2, <4>3, <4>4
      <4> QED BY <4>1, <4>2, <4>5
    <3> QED BY <2>2, <3>1, <3>2 DEF RecordInv, AlertsExplain, Explained
  <2> QED BY <2>2 DEF AlertsExplainUaf
<1> QED BY <1>1, SpecInv, RecordInvAlways, PTL

(* Within a life a chunk only moves from allocated to freed to misused.    *)
THEOREM ChunksLiveInOrder == Spec => LifeCycle
<1> DEFINE Lives(a) ==
      LET old == oracle.chunks[a]
          new == oracle'.chunks[a]
      IN  IF ~ Known(oracle, a) \/ new.index = old.index
          THEN /\ Rank(new.state) >= Rank(old.state)
               /\ Known(oracle, a) => /\ new.generation = old.generation
                                      /\ new.size = old.size
          ELSE /\ new.state = Allocated
               /\ new.generation = old.generation + 1
               /\ new.index >= oracle.next_index
<1>1. ASSUME Inv, Inv', RecordInv, Next, NEW a \in Addr PROVE Lives(a)
  <2> DEFINE old == oracle.chunks[a]
             new == oracle'.chunks[a]
             alert == result'.alert
  <2>1. /\ oracle.next_index \in Nat /\ oracle'.next_index \in Nat
        /\ old \in ChunkRecord /\ new \in ChunkRecord
        /\ old.state # Absent => old.index < oracle.next_index
        /\ RecordTold(oracle, oracle', alert, a)
    BY <1>1, NextTold DEF Inv, Good, OracleType, RecordInv, IndexesUsed, Known, Told
  <2>2. /\ \A s \in ChunkState : Rank(s) \in 0 .. 3
        /\ Rank(Absent) = 0 /\ Rank(Allocated) = 1
        /\ \A b \in BinType : Rank(Freed(b)) = 2
        /\ \A reason \in UafReason : Rank(Uaf(reason)) = 3
        /\ Allocated # Absent
    <3>1. ASSUME NEW s \in ChunkState PROVE Rank(s) \in 0 .. 3
      BY States DEF Rank, Tag
    <3>2. Rank(Absent) = 0 /\ Rank(Allocated) = 1
      BY States DEF Rank
    <3>3. /\ \A b \in BinType : Rank(Freed(b)) = 2
          /\ \A reason \in UafReason : Rank(Uaf(reason)) = 3
      BY States DEF Rank
    <3> QED BY <3>1, <3>2, <3>3, States
  <2>3. old.state \in ChunkState /\ new.state \in ChunkState
    BY <2>1 DEF ChunkRecord
  <2> HIDE DEF old, new, alert
  <2>4. CASE Kept(old, new)
    <3>1. Rank(new.state) >= Rank(old.state) /\ new = old
      BY <2>2, <2>3, <2>4 DEF Kept
    <3> QED BY <3>1 DEF old, new
  <2>5. CASE FreedOnce(old, new)
    <3>1. /\ new.index = old.index /\ new.size = old.size
          /\ new.generation = old.generation
          /\ old.state = Allocated /\ Rank(new.state) = 2
      BY <2>1, <2>2, <2>5 DEF FreedOnce, ChunkRecord
    <3>2. Rank(new.state) >= Rank(old.state)
      BY <2>2, <3>1
    <3> QED BY <3>1, <3>2 DEF old, new
  <2>6. CASE Misused(old, new, alert.reason)
    <3>1. /\ new.index = old.index /\ new.size = old.size
          /\ new.generation = old.generation
          /\ Rank(new.state) = 3
      BY <2>1, <2>2, <2>6 DEF Misused, ChunkRecord
    <3>2. Rank(new.state) >= Rank(old.state)
      BY <2>2, <2>3, <3>1
    <3> QED BY <3>1, <3>2 DEF old, new
  <2>7. CASE old.state = Absent
    <3>1. Rank(new.state) >= Rank(old.state)
      BY <2>2, <2>3, <2>7
    <3> QED BY <2>7, <3>1 DEF Known, old, new
  <2>8. CASE Reborn(oracle, oracle', old, new) /\ old.state # Absent
    <3>1. /\ new.state = Allocated /\ new.generation = old.generation + 1
          /\ new.index >= oracle.next_index /\ new.index # old.index
      BY <2>1, <2>8 DEF Reborn, ChunkRecord
    <3> QED BY <2>8, <3>1 DEF Known, old, new
  <2>9. \/ Kept(old, new) \/ FreedOnce(old, new) \/ Misused(old, new, alert.reason)
        \/ old.state = Absent \/ Reborn(oracle, oracle', old, new)
    BY <2>1 DEF RecordTold, Blamed, old, new, alert
  <2> HIDE DEF Lives
  <2> QED BY <2>4, <2>5, <2>6, <2>7, <2>8, <2>9
<1>2. Inv /\ Inv' /\ RecordInv /\ [Next]_vars => [\A a \in Addr : Lives(a)]_vars
  BY <1>1
<1>3. Spec => [][\A a \in Addr : Lives(a)]_vars
  BY <1>2, SpecInv, RecordInvAlways, PTL DEF Spec
<1> QED BY <1>3 DEF LifeCycle

(* An event raises the alert it returns, at the end of the list, about a   *)
(* chunk that was not allocated; or none.                                  *)
THEOREM AlertsJustified == Spec => AlertsAreJustified
<1> DEFINE Justified ==
      IF result'.alert = NoAlert
      THEN oracle'.alerts = oracle.alerts
      ELSE /\ oracle'.alerts # << >>
           /\ Last(oracle'.alerts) = result'.alert
           /\ Front(oracle'.alerts) \in
                {oracle.alerts, IF oracle.alerts = << >> THEN << >>
                                ELSE Tail(oracle.alerts)}
           /\ oracle.chunks[result'.alert.addr].state # Allocated
<1>1. ASSUME Inv, RecordInv, Next PROVE Justified
  <2> DEFINE s == oracle.alerts
             p == oracle'.alerts
             x == result'.alert
  <2>1. s \in Seq(Alert) /\ Len(s) <= AlertCap /\ Len(s) \in Nat
    BY <1>1 DEF Inv, Good, OracleType, RecordInv, AlertsExplain
  <2>2. AlertTold(oracle, oracle', x)
    BY <1>1, NextTold DEF Told
  <2>3. CASE x = NoAlert
    <3>1. x \notin Alert
      BY <2>3, NullNoAddr DEF Alert
    <3> QED BY <2>2, <2>3, <3>1 DEF AlertTold
  <2>4. CASE x # NoAlert
    <3>1. /\ x \in Alert /\ p = Pushed(s, x)
          /\ oracle.chunks[x.addr].state # Allocated
      BY <2>2, <2>4 DEF AlertTold
    <3> HIDE DEF s, p, x
    <3>2. /\ p \in Seq(Alert)
          /\ Len(s) < AlertCap => /\ Len(p) = Len(s) + 1
                                  /\ \A i \in 1 .. Len(s) : p[i] = s[i]
          /\ Len(s) = AlertCap => /\ Len(p) = AlertCap
                                  /\ \A i \in 1 .. AlertCap - 1 : p[i] = s[i + 1]
          /\ Len(p) \in 1 .. AlertCap /\ Len(p) \in Nat
          /\ p[Len(p)] = x
      <4>1. /\ Pushed(s, x) \in Seq(Alert)
            /\ Len(s) < AlertCap => /\ Len(Pushed(s, x)) = Len(s) + 1
                                    /\ \A i \in 1 .. Len(s) : Pushed(s, x)[i] = s[i]
            /\ Len(s) = AlertCap => /\ Len(Pushed(s, x)) = AlertCap
                                    /\ \A i \in 1 .. AlertCap - 1 :
                                         Pushed(s, x)[i] = s[i + 1]
            /\ Len(Pushed(s, x)) \in 1 .. AlertCap
            /\ Pushed(s, x)[Len(Pushed(s, x))] = x
        BY <2>1, <3>1, PushedFacts
      <4> QED BY <3>1, <4>1
    <3>3. p # << >> /\ Last(p) = x
      BY <3>2, EmptySeq DEF Last
    <3> DEFINE f == SubSeq(p, 1, Len(p) - 1)
    <3>4. /\ f \in Seq(Alert) /\ Len(f) = Len(p) - 1
          /\ \A i \in 1 .. Len(p) - 1 : f[i] = p[i]
      <4>1. \A i \in 1 .. Len(p) - 1 : p[i] \in Alert
        BY <3>2, ElementOfSeq
      <4>2. 1 \in Int /\ Len(p) - 1 \in Int
        BY <3>2
      <4>3. /\ f \in Seq(Alert)
            /\ Len(f) = IF 1 <= Len(p) - 1 THEN (Len(p) - 1) - 1 + 1 ELSE 0
            /\ \A i \in 1 .. (Len(p) - 1) - 1 + 1 : f[i] = p[1 + i - 1]
        BY <4>1, <4>2, SubSeqProperties
      <4> HIDE DEF f
      <4>4. Len(p) \in Nat /\ Len(p) >= 1
        BY <3>2, HeapOracleAssumption
      <4>5. Len(f) = Len(p) - 1
        <5>1. \A n \in Nat : n >= 1 => (IF 1 <= n - 1 THEN (n - 1) - 1 + 1 ELSE 0) = n - 1
          OBVIOUS
        <5>2. (IF 1 <= Len(p) - 1 THEN (Len(p) - 1) - 1 + 1 ELSE 0) = Len(p) - 1
          BY <4>4, <5>1
        <5> QED BY <4>3, <5>2
      <4>6. ASSUME NEW i \in 1 .. Len(p) - 1 PROVE f[i] = p[i]
        <5>1. i \in 1 .. (Len(p) - 1) - 1 + 1 /\ 1 + i - 1 = i
          BY <4>4
        <5> QED BY <4>3, <5>1
      <4> QED BY <4>3, <4>5, <4>6
    <3> HIDE DEF f
    <3>5. CASE Len(s) < AlertCap
      <4>1. f = s
        BY <2>1, <3>2, <3>4, <3>5, SeqEqual DEF s
      <4> QED BY <2>4, <3>1, <3>3, <4>1 DEF Front, f, s, p, x
    <3>6. CASE Len(s) = AlertCap
      <4>1. /\ s # << >> /\ Tail(s) \in Seq(Alert) /\ Len(Tail(s)) = Len(s) - 1
            /\ \A i \in 1 .. Len(s) - 1 : Tail(s)[i] = s[i + 1]
        BY <2>1, <3>6, EmptySeq, HeadTailProperties, HeapOracleAssumption DEF s
      <4>2. Len(f) = Len(Tail(s)) /\ \A i \in 1 .. Len(f) : f[i] = Tail(s)[i]
        BY <3>2, <3>4, <3>6, <4>1
      <4>3. f = Tail(s)
        BY <3>4, <4>1, <4>2, SeqEqual
      <4> QED BY <2>4, <3>1, <3>3, <4>1, <4>3 DEF Front, f, s, p, x
    <3>7. Len(s) < AlertCap \/ Len(s) = AlertCap
      BY <2>1, HeapOracleAssumption DEF s
    <3> QED BY <3>5, <3>6, <3>7
  <2> QED BY <2>3, <2>4
<1>2. Inv /\ RecordInv /\ [Next]_vars => [Justified]_vars
  BY <1>1
<1>3. Spec => [][Justified]_vars
  BY <1>2, SpecInv, RecordInvAlways, PTL DEF Spec
<1> QED BY <1>3 DEF AlertsAreJustified
=============================================================================
