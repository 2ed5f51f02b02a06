----------------------------- MODULE ListStore -----------------------------
(***************************************************************************)
(* What the other modules of this project take pools and lists for: a      *)
(* stack of free blocks, and sequences in which a block occurs once.       *)
(***************************************************************************)
EXTENDS Sequences, SequencesExt

CONSTANTS Block, List, InitialFree

VARIABLES
  free,    \* the free blocks, the next one to be handed out first
  lists    \* list -> its blocks

vars == <<free, lists>>

Listed == UNION {Range(lists[l]) : l \in List}

Take ==
  /\ free # <<>>
  /\ free' = Tail(free)
  /\ UNCHANGED lists

Give(b) ==
  /\ b \notin Range(free) \cup Listed
  /\ free' = <<b>> \o free
  /\ UNCHANGED lists

Attach(l, k, b) ==
  /\ b \notin Range(free) \cup Listed
  /\ lists' = [lists EXCEPT ![l] = InsertAt(@, k, b)]
  /\ UNCHANGED free

Detach(l, k) ==
  /\ lists' = [lists EXCEPT ![l] = RemoveAt(@, k)]
  /\ UNCHANGED free

Init ==
  /\ free = InitialFree
  /\ lists = [l \in List |-> <<>>]

Next ==
  \/ Take
  \/ \E b \in Block : Give(b)
  \/ \E l \in List : \E k \in 1..Len(lists[l]) + 1, b \in Block : Attach(l, k, b)
  \/ \E l \in List : \E k \in 1..Len(lists[l]) : Detach(l, k)

Spec == Init /\ [][Next]_vars

=============================================================================
