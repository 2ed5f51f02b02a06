------------------------------ MODULE Storage ------------------------------
(***************************************************************************)
(* Blocks of a pool as items of lists, as the kernel uses them: messages   *)
(* in queues, PCBs in the ready, waiting and zombie lists, timers.         *)
(*                                                                         *)
(* An item is named by the index of its block.  Message_alloc, unlike the  *)
(* other _alloc functions, does not clear the links of the block it gets   *)
(* (disastrOS_message_queue.c:47), so that is how blocks are taken here.   *)
(* The callers' discipline is in the guards: they insert after an item of  *)
(* the same list, detach what the list holds, and release what they have   *)
(* detached.  Releases of other addresses happen (disastrOS_message_queue. *)
(* c:54 and :63), and an item that is in a list with others may be given   *)
(* to List_insert, which refuses it.  The only item of a list it would     *)
(* take (linked_list.c:22), and ruin that list: no caller does that.       *)
(***************************************************************************)
EXTENDS PoolAllocator, SequencesExt

CONSTANTS List

VARIABLES prev, next, head

L == INSTANCE LinkedList WITH Item <- Idx

links     == <<prev, next, head>>
storeVars == <<poolVars, links>>

Taken  == {i \in Idx : free_list[i] = DetachedIdx}
Listed == {i \in Idx : \E l \in List : L!List_find(l, i)}

-----------------------------------------------------------------------------
Alloc ==
  /\ getBlock
  /\ UNCHANGED links

\* List_insert(&list, list.last, item), List_insert(&list, 0, item), or after the
\* item that TimerList_add stopped at.
Insert(l, p, item) ==
  /\ item \in Taken
  /\ \A m \in List : L!List_find(m, item) => head[m].size > 1
  /\ p = L!Null \/ (p # item /\ L!List_find(l, p))
  /\ L!List_insert(l, p, item)
  /\ UNCHANGED poolVars

Detach(l, item) ==
  /\ L!List_find(l, item)
  /\ L!List_detach(l, item)
  /\ UNCHANGED poolVars

\* Any address but that of an item that is in a list.
Free(offset) ==
  /\ offset \notin {item_size * i : i \in Listed}
  /\ releaseBlock(offset)
  /\ UNCHANGED links

StoreInit == PoolInit /\ L!LinkInit

StoreNext ==
  \/ Alloc
  \/ \E l \in List, p \in Idx \cup {L!Null}, item \in Idx : Insert(l, p, item)
  \/ \E l \in List, item \in Idx : Detach(l, item)
  \/ \E offset \in Offsets : Free(offset)

StoreSpec == StoreInit /\ [][StoreNext]_storeVars

-----------------------------------------------------------------------------
(* Properties *)

\* Every list can be scanned in both directions, after any sequence of insertions
\* and removals at its ends and in its middle.
ListsScanBothWays == L!LinksAgree

\* A block that is not in a list has no neighbours, so that the next owner of a
\* block can put it in a list although nobody cleared its links.
UnlistedIsUnlinked ==
  \A i \in Idx \ Listed : prev[i] = L!Null /\ next[i] = L!Null

\* The free blocks in the order they will be handed out.
FreeStack ==
  LET at[k \in 1..size] == IF k = 1 THEN first_idx ELSE free_list[at[k - 1]]
  IN  at

Abstract == INSTANCE ListStore WITH
  Block <- Idx,
  InitialFree <- [k \in 1..size_max |-> k - 1],
  free  <- FreeStack,
  lists <- [l \in List |-> L!Forward(l)]

\* Pool and lists together are a stack of free blocks and sequences in which a
\* block occurs once, which is what the models of the system calls take them for.
StoreIsStackAndSequences == Abstract!Spec

=============================================================================
