-------------------------- MODULE CommonPoolChunks --------------------------
(***************************************************************************)
(* The free lists behind COMMON_POOL (include/util/common_pool.h): which   *)
(* chunks of which singleton pool New hands out and Delete takes back, for *)
(* callers that pass Delete the length they passed New.  A request longer  *)
(* than the largest chunk gets a run of contiguous chunks of the last      *)
(* pool; New and Delete compute the length of the run differently.         *)
(*                                                                         *)
(* boost::singleton_pool is external: a pool is an array of chunks, from   *)
(* which malloc takes any free one.                                        *)
(***************************************************************************)
EXTENDS CommonPool

CONSTANTS
  Requests,    \* the lengths asked for
  MaxChunks    \* bound: chunks of a pool

VARIABLES
  free,        \* free[p]: the free list of pool p
  live,        \* the buffers handed out: [pool, first, count, asked]
  overlong     \* a buffer of several chunks has been deleted

vars == <<free, live, overlong>>

Pools == DOMAIN Units
Chunks == 1..MaxChunks
Overlong(n) == n > ChunkSize(Len(Units))
Run(first, count) == {c \in Chunks : first <= c /\ c < first + count}
Buffer(p, first, count, n) == [pool |-> p, first |-> first, count |-> count, asked |-> n]

Init ==
  /\ free = [p \in Pools |-> Chunks] /\ live = {} /\ overlong = FALSE

(* New: malloc, or ordered_malloc of a run. *)
NewChunk(n) ==
  /\ ~Overlong(n)
  /\ \E c \in free[PoolOf(n)] :
       /\ free' = [free EXCEPT ![PoolOf(n)] = @ \ {c}]
       /\ live' = live \cup {Buffer(PoolOf(n), c, 1, n)}
  /\ UNCHANGED overlong

(* Mutation of NewRun: the run is rounded down. *)
NewRunShort(n) ==
  /\ Overlong(n)
  /\ LET count == n \div (SizeDefault * 128)
     IN  \E c \in 1..(MaxChunks - count + 1) :
           /\ Run(c, count) \subseteq free[Len(Units)]
           /\ free' = [free EXCEPT ![Len(Units)] = @ \ Run(c, count)]
           /\ live' = live \cup {Buffer(Len(Units), c, count, n)}
  /\ UNCHANGED overlong

NewRun(n) ==
  /\ Overlong(n)
  /\ LET count == (n \div (SizeDefault * 128)) + 1
     IN  \E c \in 1..(MaxChunks - count + 1) :
           /\ Run(c, count) \subseteq free[Len(Units)]
           /\ free' = [free EXCEPT ![Len(Units)] = @ \ Run(c, count)]
           /\ live' = live \cup {Buffer(Len(Units), c, count, n)}
  /\ UNCHANGED overlong

(* Mutation of DeleteChunk: the ladder of Delete compares with <. *)
DeleteChunkShort(b) ==
  /\ ~Overlong(b.asked)
  /\ free' = [free EXCEPT ![PoolOf(b.asked + 1)] = @ \cup {b.first}]
  /\ live' = live \ {b}
  /\ UNCHANGED overlong

(* Delete: free, or ordered_free of a run, whose division and product are  *)
(* the other way round; what lies beyond the array is not represented.     *)
DeleteChunk(b) ==
  /\ ~Overlong(b.asked)
  /\ free' = [free EXCEPT ![PoolOf(b.asked)] = @ \cup {b.first}]
  /\ live' = live \ {b}
  /\ UNCHANGED overlong


DeleteRun(b) ==
  /\ Overlong(b.asked)
  /\ LET count == (b.asked \div SizeDefault) * 128 + 1
     IN  free' = [free EXCEPT ![Len(Units)] = @ \cup Run(b.first, count)]
  /\ live' = live \ {b}
  /\ overlong' = TRUE

(* PurgeMemory gives the memory of every pool back; the buffers must have  *)
(* been deleted (the contract of purge_memory).                            *)
PurgeMemory ==
  /\ live = {}
  /\ free' = [p \in Pools |-> Chunks] /\ overlong' = FALSE
  /\ UNCHANGED live

Next ==
  \/ \E n \in Requests : NewChunk(n) \/ NewRun(n)
  \/ \E b \in live : DeleteChunk(b) \/ DeleteRun(b)
  \/ PurgeMemory

Spec == Init /\ [][Next]_vars
-----------------------------------------------------------------------------
(* The variables have their types; a chunk is large enough for what was    *)
(* asked, and so is a run.                                                 *)
TypeOK ==
  /\ free \in [Pools -> SUBSET Chunks] /\ overlong \in BOOLEAN
  /\ \A b \in live :
       /\ b.pool \in Pools /\ b.first \in Chunks /\ b.first + b.count - 1 \in Chunks
       /\ b.asked <= b.count * ChunkSize(b.pool)

(* While no over-long buffer has been deleted, a chunk in use is in no     *)
(* free list and belongs to one buffer, so New never hands it out again.   *)
ChunkOwnedOnce ==
  ~overlong =>
    \A a, b \in live : a.pool = b.pool =>
      /\ Run(a.first, a.count) \cap free[a.pool] = {}
      /\ a # b => Run(a.first, a.count) \cap Run(b.first, b.count) = {}

(* Nothing is lost: when every buffer has been deleted, every chunk is     *)
(* free again, those of over-long buffers too.                             *)
EveryChunkBack == live = {} => free = [p \in Pools |-> Chunks]
=============================================================================
