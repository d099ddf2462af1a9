--------------------------- MODULE SequenceLemmas ---------------------------
(***************************************************************************)
(* What RemoveFirst and Append do to the elements of a sequence that lists *)
(* each element once, the form in which the oracle keeps its bins.         *)
(***************************************************************************)
EXTENDS SequencesExt, SequenceTheorems, TLAPS

(* Without repetitions, the first occurrence of s[k] is at k. *)
LEMMA RemoveFirstPosition ==
  ASSUME NEW S, NEW s \in Seq(S), IsInjective(s), NEW k \in 1 .. Len(s)
  PROVE  RemoveFirst(s, s[k]) = RemoveAt(s, k)
<1> DEFINE I == {i \in 1 .. Len(s) : s[i] = s[k]}
<1>1. I = {k}
  BY LenProperties DEF IsInjective
<1>2. Min(I) = k
  BY <1>1 DEF Min
<1>3. RemoveFirst(s, s[k]) = RemoveAt(s, Min(I))
  BY <1>1 DEF RemoveFirst, SelectInSeq
<1> QED
  BY <1>2, <1>3

(* RemoveAt closes the gap: later elements move down by one. *)
LEMMA RemoveAtElements ==
  ASSUME NEW S, NEW s \in Seq(S), NEW k \in 1 .. Len(s)
  PROVE  /\ RemoveAt(s, k) \in Seq(S)
         /\ Len(RemoveAt(s, k)) = Len(s) - 1
         /\ \A i \in 1 .. Len(s) - 1 :
              RemoveAt(s, k)[i] = IF i < k THEN s[i] ELSE s[i + 1]
<1> DEFINE before == SubSeq(s, 1, k - 1)
           after  == SubSeq(s, k + 1, Len(s))
<1>1. /\ Len(s) \in Nat /\ k \in Int
      /\ \A i \in 1 .. Len(s) : s[i] \in S
  BY LenProperties, ElementOfSeq
<1>2. /\ before \in Seq(S) /\ Len(before) = k - 1
      /\ \A i \in 1 .. k - 1 : before[i] = s[i]
  <2>1. \A i \in 1 .. k - 1 : s[i] \in S
    BY <1>1
  <2>2. /\ before \in Seq(S)
        /\ Len(before) = IF 1 <= k - 1 THEN (k - 1) - 1 + 1 ELSE 0
        /\ \A i \in 1 .. (k - 1) - 1 + 1 : before[i] = s[1 + i - 1]
    BY <2>1, <1>1, SubSeqProperties
  <2> QED BY <2>2, <1>1
<1>3. /\ after \in Seq(S) /\ Len(after) = Len(s) - k
      /\ \A i \in 1 .. Len(s) - k : after[i] = s[k + i]
  <2>1. \A i \in k + 1 .. Len(s) : s[i] \in S
    BY <1>1
  <2>2. /\ after \in Seq(S)
        /\ Len(after) = IF k + 1 <= Len(s) THEN Len(s) - (k + 1) + 1 ELSE 0
        /\ \A i \in 1 .. Len(s) - (k + 1) + 1 : after[i] = s[(k + 1) + i - 1]
    BY <2>1, <1>1, SubSeqProperties
  <2> QED BY <2>2, <1>1
<1>4. RemoveAt(s, k) = before \o after
  BY DEF RemoveAt
<1> HIDE DEF before, after
<1>5. /\ before \o after \in Seq(S)
      /\ Len(before \o after) = Len(before) + Len(after)
      /\ \A i \in 1 .. Len(before) + Len(after) :
           (before \o after)[i] = IF i <= Len(before) THEN before[i]
                                  ELSE after[i - Len(before)]
  BY <1>2, <1>3, ConcatProperties
<1> DEFINE joined == before \o after
<1> HIDE DEF joined
<1>6. /\ joined \in Seq(S) /\ Len(joined) = Len(s) - 1
      /\ \A i \in 1 .. Len(s) - 1 :
           joined[i] = IF i <= k - 1 THEN before[i] ELSE after[i - (k - 1)]
  BY <1>1, <1>2, <1>3, <1>5 DEF joined
<1>7. ASSUME NEW i \in 1 .. Len(s) - 1
      PROVE joined[i] = IF i < k THEN s[i] ELSE s[i + 1]
  <2>1. CASE i < k
    BY <2>1, <1>1, <1>2, <1>6
  <2>2. CASE i >= k
    <3>1. after[i - (k - 1)] = s[k + (i - (k - 1))]
      BY <2>2, <1>1, <1>3
    <3> QED BY <3>1, <2>2, <1>1, <1>6
  <2> QED BY <2>1, <2>2, <1>1
<1> QED
  BY <1>4, <1>6, <1>7 DEF joined

(* bin.remove(pos) of remove_from_bins: the element is gone, the others    *)
(* stay, and there are still no repetitions.                               *)
LEMMA RemoveFirstElements ==
  ASSUME NEW S, NEW s \in Seq(S), IsInjective(s), NEW e \in S
  PROVE  /\ RemoveFirst(s, e) \in Seq(S)
         /\ Len(RemoveFirst(s, e)) <= Len(s)
         /\ IsInjective(RemoveFirst(s, e))
         /\ ToSet(RemoveFirst(s, e)) = ToSet(s) \ {e}
<1>0. DOMAIN s = 1 .. Len(s) /\ Len(s) \in Nat
  BY LenProperties
<1>1. CASE e \notin ToSet(s)
  <2>1. RemoveFirst(s, e) = s
    BY <1>0, <1>1 DEF RemoveFirst, ToSet
  <2> QED BY <2>1, <1>0, <1>1
<1>2. CASE e \in ToSet(s)
  <2>1. PICK k \in 1 .. Len(s) : s[k] = e
    BY <1>0, <1>2 DEF ToSet
  <2> DEFINE r == RemoveAt(s, k)
  <2>2. RemoveFirst(s, e) = r
    BY <2>1, RemoveFirstPosition
  <2>3. /\ r \in Seq(S) /\ Len(r) = Len(s) - 1
        /\ \A i \in 1 .. Len(s) - 1 : r[i] = IF i < k THEN s[i] ELSE s[i + 1]
    BY RemoveAtElements
  <2>4. DOMAIN r = 1 .. Len(s) - 1
    BY <2>3, LenProperties
  <2> HIDE DEF r
  <2>5. IsInjective(r)
    <3>1. SUFFICES ASSUME NEW i \in DOMAIN r, NEW j \in DOMAIN r, r[i] = r[j]
                   PROVE  i = j
      BY DEF IsInjective
    <3> DEFINE at(n) == IF n < k THEN n ELSE n + 1
    <3>2. /\ at(i) \in DOMAIN s /\ at(j) \in DOMAIN s
          /\ s[at(i)] = s[at(j)]
      BY <1>0, <2>3, <2>4, <3>1
    <3>3. at(i) = at(j)
      BY <3>2 DEF IsInjective
    <3> QED BY <3>3, <1>0, <2>4
  <2>6. ASSUME NEW i \in DOMAIN r PROVE r[i] \in ToSet(s) /\ r[i] # e
    BY <1>0, <2>1, <2>3, <2>4 DEF IsInjective, ToSet
  <2>7. ASSUME NEW i \in DOMAIN s, s[i] # e PROVE \E j \in DOMAIN r : r[j] = s[i]
    <3>1. CASE i < k
      BY <3>1, <1>0, <2>3, <2>4
    <3>2. CASE i > k
      <4>1. i - 1 \in DOMAIN r /\ r[i - 1] = s[i]
        BY <3>2, <1>0, <2>3, <2>4
      <4> QED BY <4>1
    <3> QED BY <3>1, <3>2, <2>7, <2>1, <1>0
  <2>8. ToSet(r) = ToSet(s) \ {e}
    BY <2>6, <2>7 DEF ToSet
  <2> QED BY <1>0, <2>2, <2>3, <2>5, <2>8
<1> QED BY <1>1, <1>2

(* The push of push_bin. *)
LEMMA AppendElements ==
  ASSUME NEW S, NEW s \in Seq(S), IsInjective(s), NEW e \in S, e \notin ToSet(s)
  PROVE  /\ Append(s, e) \in Seq(S)
         /\ Len(Append(s, e)) = Len(s) + 1
         /\ IsInjective(Append(s, e))
         /\ ToSet(Append(s, e)) = ToSet(s) \cup {e}
<1> DEFINE t == Append(s, e)
<1>1. /\ t \in Seq(S) /\ Len(t) = Len(s) + 1
      /\ \A i \in 1 .. Len(s) : t[i] = s[i]
      /\ t[Len(s) + 1] = e
  BY AppendProperties
<1> HIDE DEF t
<1>2. /\ DOMAIN s = 1 .. Len(s) /\ Len(s) \in Nat
      /\ DOMAIN t = 1 .. Len(s) + 1
  BY <1>1, LenProperties
<1>3. ASSUME NEW i \in DOMAIN s PROVE s[i] # e
  BY DEF ToSet
<1>4. IsInjective(t)
  BY <1>1, <1>2, <1>3 DEF IsInjective
<1>5. ToSet(t) = ToSet(s) \cup {e}
  BY <1>1, <1>2 DEF ToSet
<1> QED BY <1>1, <1>4, <1>5 DEF t
=============================================================================
