--------------------------- MODULE PoolAllocator ---------------------------
(***************************************************************************)
(* pool_allocator.c: the pool that every object of disastrOS lives in.  A  *)
(* buffer of equal blocks is followed by an array of indices in which the  *)
(* free blocks form a linked list.  An address is its offset in bytes from *)
(* the buffer, so that addresses outside the buffer, and inside a block,   *)
(* can be released too: MessageQueue_free does both.                       *)
(***************************************************************************)
EXTENDS Integers

CONSTANTS
  size_max,    \* blocks in the pool
  item_size,   \* bytes in a block
  Offsets      \* bound: the addresses given to releaseBlock

Idx == 0..size_max - 1

ASSUME PoolAssumption ==
  /\ size_max \in Nat \ {0}
  /\ item_size \in Nat \ {0}
  /\ Offsets \subseteq Int

NullIdx     == -1
DetachedIdx == -2

VARIABLES
  free_list,   \* index -> the next free block, NullIdx, or DetachedIdx
  first_idx,   \* the first free block
  size         \* the number of free blocks

poolVars == <<free_list, first_idx, size>>

PoolInit ==
  /\ free_list = [i \in Idx |-> IF i = size_max - 1 THEN NullIdx ELSE i + 1]
  /\ first_idx = 0
  /\ size = size_max

-----------------------------------------------------------------------------
\* PoolAllocator_getBlock returns the null pointer, and changes nothing, when the
\* list is empty.
getBlock ==
  IF first_idx = NullIdx THEN UNCHANGED poolVars
  ELSE /\ first_idx' = free_list[first_idx]
       /\ free_list' = [free_list EXCEPT ![first_idx] = DetachedIdx]
       /\ size' = size - 1

\* Mutation: a free block is not told from one that is handed out.
ReleaseResult_NoDoubleFree(offset) ==
  IF offset % item_size # 0 THEN "UnalignedFree"
  ELSE IF offset \div item_size \notin Idx THEN "OutOfRange"
  ELSE "Success"

ReleaseResult(offset) ==
  IF offset % item_size # 0 THEN "UnalignedFree"
  ELSE IF offset \div item_size \notin Idx THEN "OutOfRange"
  ELSE IF free_list[offset \div item_size] # DetachedIdx THEN "DoubleFree"
  ELSE "Success"

\* PoolAllocator_releaseBlock: the block becomes the first of the list.
releaseBlock(offset) ==
  LET idx == offset \div item_size
  IN  IF ReleaseResult(offset) # "Success" THEN UNCHANGED poolVars
      ELSE /\ free_list' = [free_list EXCEPT ![idx] = first_idx]
           /\ first_idx' = idx
           /\ size' = size + 1

PoolNext == getBlock \/ \E offset \in Offsets : releaseBlock(offset)

PoolSpec == PoolInit /\ [][PoolNext]_poolVars

-----------------------------------------------------------------------------
(* Properties *)

\* s lists, from first_idx on, the free blocks in the order they are linked.
IsFreeChain(s) ==
  /\ first_idx = IF size = 0 THEN NullIdx ELSE s[1]
  /\ \A k \in 1..size : free_list[s[k]] = IF k = size THEN NullIdx ELSE s[k + 1]
  /\ \A j, k \in 1..size : s[j] = s[k] => j = k

\* The blocks reached from first_idx are `size` different ones and the others are
\* marked as handed out, whatever is released and how often: so getBlock never
\* hands out a block that somebody has, and no block is lost.
FreeListIsChain ==
  \E s \in [1..size -> Idx] :
    /\ IsFreeChain(s)
    /\ \A i \in Idx : free_list[i] = DetachedIdx <=> \A k \in 1..size : s[k] # i

=============================================================================
