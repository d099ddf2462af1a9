--------------------------- MODULE GlibcBinsProofs ---------------------------
(***************************************************************************)
(* The arithmetic of GlibcBins for every request size and every word size, *)
(* where TLC sweeps one small word.                                        *)
(***************************************************************************)
EXTENDS GlibcBins, TLAPS

(* AlignDown, the mask & !0xf of glibc_chunk_size, gives the multiple of   *)
(* 16 at or just below n.                                                  *)
LEMMA AlignDownFacts ==
  ASSUME NEW n \in Nat
  PROVE  /\ AlignDown(n) \in Nat /\ AlignDown(n) <= n /\ n < AlignDown(n) + 16
         /\ AlignDown(n) % 16 = 0
  BY DEF AlignDown

(* glibc_chunk_size returns the least aligned chunk that holds the request *)
(* and its header, whenever the rounded sum is representable.              *)
THEOREM ChunkLeastFit == \A size \in Usize : ChunkIsLeastFit(size)
<1> SUFFICES ASSUME NEW size \in Usize, size + 23 <= UsizeMax
             PROVE  /\ Multiple16(ChunkSize(size))
                    /\ Fits(ChunkSize(size), size)
                    /\ ~ Fits(ChunkSize(size) - 16, size)
  BY DEF ChunkIsLeastFit
<1> DEFINE up == AlignDown(size + 23)
<1>1. size \in Nat /\ size + 23 \in Nat
  BY UsizeMaxAssumption DEF Usize
<1>2. SaturatingAdd(size, 8 + 15) = size + 23
  BY <1>1, UsizeMaxAssumption DEF SaturatingAdd
<1>3. ChunkSize(size) = IF up < 32 THEN 32 ELSE up
  BY <1>2 DEF ChunkSize, MinChunk
<1>4. up \in Nat /\ up <= size + 23 /\ size + 23 < up + 16 /\ up % 16 = 0
  BY <1>1, AlignDownFacts
<1> HIDE DEF up
<1> QED BY <1>1, <1>3, <1>4 DEF Multiple16, Fits, MinChunk

(* For every request, a saturated one included, the chunk size is an       *)
(* aligned word of at least MINSIZE.                                       *)
THEOREM ChunkWord == \A size \in Usize : ChunkIsWord(size)
<1> SUFFICES ASSUME NEW size \in Usize PROVE ChunkIsWord(size)
  OBVIOUS
<1> DEFINE sum == SaturatingAdd(size, 8 + 15)
           up  == AlignDown(sum)
<1>1. sum \in Nat /\ sum <= UsizeMax
  BY UsizeMaxAssumption DEF SaturatingAdd, Usize
<1>2. ChunkSize(size) = IF up < 32 THEN 32 ELSE up
  BY DEF ChunkSize, MinChunk
<1> HIDE DEF sum
<1>3. up \in Nat /\ up <= sum /\ up % 16 = 0
  BY <1>1, AlignDownFacts
<1> HIDE DEF up
<1> QED BY <1>1, <1>2, <1>3, UsizeMaxAssumption DEF ChunkIsWord, Multiple16, MinChunk

(* tcache_index and fastbin_index never leave their arrays, and the label  *)
(* print_heap_state derives from an index is the size of its chunks.       *)
THEOREM IndexesInBounds == \A size \in Usize : IndexInBounds(size)
<1> SUFFICES ASSUME NEW size \in Usize PROVE IndexInBounds(size)
  OBVIOUS
<1> DEFINE chunk == ChunkSize(size)
<1>1. chunk \in Nat /\ chunk >= 32 /\ chunk % 16 = 0
  BY ChunkWord, UsizeMaxAssumption DEF ChunkIsWord, Multiple16, MinChunk
<1> HIDE DEF chunk
<1>2. /\ SizeIndex(chunk) \in Nat
      /\ (SizeIndex(chunk) + 2) * 16 = chunk
  BY <1>1 DEF SizeIndex, MinChunk
<1>3. HasTcache(chunk) => SizeIndex(chunk) \in 0 .. TcacheBins - 1
  BY <1>1, <1>2 DEF HasTcache, TcacheBins, TcacheMax
<1>4. HasFastbin(chunk) => SizeIndex(chunk) \in 0 .. FastbinBins - 1
  BY <1>1, <1>2 DEF HasFastbin, FastbinBins
<1> QED BY <1>2, <1>3, <1>4 DEF IndexInBounds, chunk

(* The tcache takes a request exactly when glibc's does, and a bound one   *)
(* bin too far, or too near, would show.                                   *)
THEOREM TcacheIsExact == \A size \in Usize : TcacheExact(size)
<1> SUFFICES ASSUME NEW size \in Usize, size + 23 <= UsizeMax
             PROVE  HasTcache(ChunkSize(size)) <=> size <= 1032
  BY DEF TcacheExact, TcacheBins
<1> DEFINE chunk == ChunkSize(size)
<1>1. size \in Nat
  BY UsizeMaxAssumption DEF Usize
<1>2. /\ chunk \in Nat /\ chunk % 16 = 0 /\ chunk >= size + 8 /\ chunk >= 32
      /\ ~ (chunk - 16 >= size + 8 /\ chunk - 16 >= 32)
  BY ChunkLeastFit, ChunkWord, UsizeMaxAssumption
     DEF ChunkIsLeastFit, ChunkIsWord, Fits, Multiple16, MinChunk
<1> HIDE DEF chunk
<1>3. HasTcache(chunk) <=> chunk <= 1040
  BY <1>2 DEF HasTcache, MinChunk, TcacheMax
<1>4. chunk <= 1040 <=> size <= 1032
  BY <1>1, <1>2
<1> QED BY <1>3, <1>4 DEF chunk

(* glibc_chunk_size never falls, not even where the sum saturates; with a  *)
(* wrapping addition the largest requests would get the smallest chunks.   *)
THEOREM ChunkIsMonotone ==
  \A size, more \in Usize : ChunkMonotone(size, more)
<1> SUFFICES ASSUME NEW size \in Usize, NEW more \in Usize, size <= more
             PROVE  ChunkSize(size) <= ChunkSize(more)
  BY DEF ChunkMonotone
<1> DEFINE a == SaturatingAdd(size, 8 + 15)
           b == SaturatingAdd(more, 8 + 15)
<1>1. a \in Nat /\ b \in Nat /\ a <= b
  BY UsizeMaxAssumption DEF SaturatingAdd, Usize
<1>2. /\ ChunkSize(size) = IF AlignDown(a) < 32 THEN 32 ELSE AlignDown(a)
      /\ ChunkSize(more) = IF AlignDown(b) < 32 THEN 32 ELSE AlignDown(b)
  BY DEF ChunkSize, MinChunk
<1> HIDE DEF a, b
<1>3. /\ AlignDown(a) \in Nat /\ AlignDown(a) <= a /\ AlignDown(a) % 16 = 0
      /\ AlignDown(b) \in Nat /\ b < AlignDown(b) + 16 /\ AlignDown(b) % 16 = 0
  BY <1>1, AlignDownFacts
<1>4. AlignDown(a) <= AlignDown(b)
  BY <1>1, <1>3
<1> QED BY <1>2, <1>3, <1>4
=============================================================================
