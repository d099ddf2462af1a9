----------------------------- MODULE GlibcBins -----------------------------
(***************************************************************************)
(* The size arithmetic of src/state.rs: how a request size becomes a glibc *)
(* chunk size, and which tcache bin or fastbin a chunk size belongs to.    *)
(* Machine words are the naturals up to UsizeMax, so that the saturating   *)
(* addition of glibc_chunk_size is visible.                                *)
(***************************************************************************)
EXTENDS Integers

CONSTANT UsizeMax   (* usize::MAX: 2^64 - 1 in the program *)

(* A word of at least six bits: 15 modulo 16, so that masking with !15     *)
(* leaves a representable number no smaller than the minimum chunk.        *)
ASSUME UsizeMaxAssumption ==
  UsizeMax \in Nat /\ UsizeMax >= 47 /\ UsizeMax % 16 = 15

TcacheBins  == 64
FastbinBins == 10

MinChunk   == 32      (* 0x20  *)
TcacheMax  == 1040    (* 0x410 *)
FastbinMax == 176     (* 0xb0  *)
SmallMax   == 1024    (* 0x400 *)

Usize == 0 .. UsizeMax

SaturatingAdd(a, b) == IF a + b > UsizeMax THEN UsizeMax ELSE a + b

(* n & !15usize *)
AlignDown(n) == n - (n % 16)

(* glibc_chunk_size: round size + 8 up to a multiple of 16, at least 0x20. *)
ChunkSize(size) ==
  LET aligned == AlignDown(SaturatingAdd(size, 8 + 15))
  IN  IF aligned < MinChunk THEN MinChunk ELSE aligned

(* tcache_index and fastbin_index return None outside their range. *)
HasTcache(chunk) == chunk \in MinChunk .. TcacheMax

SizeIndex(chunk) == (chunk - MinChunk) \div 16

HasFastbin(chunk) ==
  chunk \in MinChunk .. FastbinMax /\ SizeIndex(chunk) < FastbinBins

-----------------------------------------------------------------------------
(* What a request is entitled to, said without the bit arithmetic. *)

Multiple16(n) == n % 16 = 0

(* Enough room for the request and its 8-byte header. *)
Fits(n, size) == n >= size + 8 /\ n >= MinChunk

(* state.rs:404-411 quotes request2size: the chunk is the least multiple   *)
(* of 16 that holds the request and its header, as long as the rounded sum *)
(* is representable; 16 below it would be too small.                       *)
ChunkIsLeastFit(size) ==
  size + 23 <= UsizeMax =>
    /\ Multiple16(ChunkSize(size))
    /\ Fits(ChunkSize(size), size)
    /\ ~ Fits(ChunkSize(size) - 16, size)

(* Whatever the request, even one that saturates, the chunk size is an     *)
(* aligned word and never below the minimum, so `chunk_size - 0x20` in     *)
(* tcache_index cannot underflow.                                          *)
ChunkIsWord(size) ==
  /\ Multiple16(ChunkSize(size))
  /\ ChunkSize(size) \in MinChunk .. UsizeMax

(* Every index the two lookup functions return is inside its array, and    *)
(* the size print_heap_state shows for the bin, (idx + 2) * 0x10, is the   *)
(* size of the chunks that go there.                                       *)
IndexInBounds(size) ==
  LET chunk == ChunkSize(size)
      idx   == SizeIndex(chunk)
  IN  /\ HasTcache(chunk)  => idx \in 0 .. TcacheBins - 1
      /\ HasFastbin(chunk) => idx \in 0 .. FastbinBins - 1
      /\ (idx + 2) * 16 = chunk

(* glibc's tcache ends at 0x410: its 64 indices are used by exactly the    *)
(* requests of at most 1032 bytes (state.rs:419-421).                      *)
TcacheExact(size) ==
  size + 23 <= UsizeMax =>
    (HasTcache(ChunkSize(size)) <=> size <= (TcacheBins + 1) * 16 - 8)

(* A larger request never gets a smaller chunk, those near usize::MAX      *)
(* included: the saturating_add of glibc_chunk_size.                       *)
ChunkMonotone(size, more) == size <= more => ChunkSize(size) <= ChunkSize(more)
=============================================================================
