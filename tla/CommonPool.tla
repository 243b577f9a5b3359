----------------------------- MODULE CommonPool -----------------------------
(***************************************************************************)
(* The size ladder of COMMON_POOL, the class Allocator<char> of            *)
(* include/util/common_pool.h.  New(n) takes a chunk from one of eight     *)
(* singleton pools, chosen by n alone; Delete(b, n) gives b back to the    *)
(* pool chosen by the n it is passed.  Nothing records where a chunk came  *)
(* from, so the caller has to pass Delete a length that selects the pool   *)
(* New took the chunk from.                                                *)
(*                                                                         *)
(* This module holds the choice of pool and the record kept of a chunk.    *)
(***************************************************************************)
EXTENDS Naturals, Sequences

CONSTANT SizeDefault    \* size_default, 256 in the code

ASSUME SizeDefaultAssumption == SizeDefault \in Nat \ {0}

(* The chunk size of each singleton pool, in units of SizeDefault. *)
Units == <<1, 4, 8, 12, 16, 24, 32, 128>>

ChunkSize(p) == SizeDefault * Units[p]

(* The rungs of the if/else ladder that a length n does not reach. *)
Fits(n) == {p \in DOMAIN Units : n <= ChunkSize(p)}

(* The pool a length selects: the first rung it fits, else the last pool,  *)
(* which then serves it with several contiguous chunks.                    *)
PoolOf(n) ==
  IF Fits(n) = {} THEN Len(Units) ELSE CHOOSE p \in Fits(n) : \A q \in Fits(n) : p <= q

(* A chunk handed out by New(n): the length it was asked for, and the      *)
(* pools it has been given back to since, in order.                        *)
Chunk == [asked : Nat, freed : Seq(DOMAIN Units)]

New(n) == [asked |-> n, freed |-> <<>>]

(* Delete(b, n) on the chunks h. *)
Delete(h, b, n) == [h EXCEPT ![b].freed = Append(@, PoolOf(n))]
=============================================================================
