----------------------------- MODULE LinkedList -----------------------------
(***************************************************************************)
(* linked_list.c: intrusive, doubly linked lists.  The links are in the    *)
(* items, and an item does not know which list it is in, or whether it is  *)
(* in any: the functions trust their callers.                              *)
(***************************************************************************)
EXTENDS Integers, Sequences

CONSTANTS Item, List

Null == -1    \* the null pointer, no Item

VARIABLES
  prev, next,  \* item -> its neighbours
  head         \* list -> [first, last, size]

linkVars == <<prev, next, head>>

List_init == [first |-> Null, last |-> Null, size |-> 0]

LinkInit ==
  /\ prev = [x \in Item |-> Null]
  /\ next = [x \in Item |-> Null]
  /\ head = [l \in List |-> List_init]

\* The pointers p of some items are set: the null pointer has none to set.
Set(links, p, to) == IF p = Null THEN links ELSE [links EXCEPT ![p] = to]

\* Mutation: an item with neighbours is linked again.
IsLinked_Never(item) == FALSE

\* What List_insert can see of it: the only item of a list looks like a free one.
IsLinked(item) == next[item] # Null \/ prev[item] # Null

\* Mutation: the link back to the new item is forgotten.
Link_OneWay(l, p, item, succ) ==
  /\ prev' = [prev EXCEPT ![item] = p]
  /\ next' = Set([next EXCEPT ![item] = succ], p, item)
  /\ head' = [head EXCEPT ![l] =
       [first |-> IF p = Null THEN item ELSE @.first,
        last  |-> IF succ = Null THEN item ELSE @.last,
        size  |-> @.size + 1]]

\* item, whose links are null, goes between p and succ.
Link(l, p, item, succ) ==
  /\ prev' = Set([prev EXCEPT ![item] = p], succ, item)
  /\ next' = Set([next EXCEPT ![item] = succ], p, item)
  /\ head' = [head EXCEPT ![l] =
       [first |-> IF p = Null THEN item ELSE @.first,
        last  |-> IF succ = Null THEN item ELSE @.last,
        size  |-> @.size + 1]]

\* After p, or first when p is null.
List_insert(l, p, item) ==
  IF IsLinked(item) THEN UNCHANGED linkVars
  ELSE Link(l, p, item, IF p = Null THEN head[l].first ELSE next[p])

\* Mutation: the item keeps its links.
Unlink_KeepsLinks(l, item) ==
  /\ next' = Set(next, prev[item], next[item])
  /\ prev' = Set(prev, next[item], prev[item])
  /\ head' = [head EXCEPT ![l] =
       [first |-> IF @.first = item THEN next[item] ELSE @.first,
        last  |-> IF @.last = item THEN prev[item] ELSE @.last,
        size  |-> @.size - 1]]

\* The neighbours of item are joined, and it forgets them.
Unlink(l, item) ==
  /\ next' = [Set(next, prev[item], next[item]) EXCEPT ![item] = Null]
  /\ prev' = [Set(prev, next[item], prev[item]) EXCEPT ![item] = Null]
  /\ head' = [head EXCEPT ![l] =
       [first |-> IF @.first = item THEN next[item] ELSE @.first,
        last  |-> IF @.last = item THEN prev[item] ELSE @.last,
        size  |-> @.size - 1]]

List_detach(l, item) == Unlink(l, item)

\* The items as a scan meets them, `aux=aux->next` from the first or `aux->prev`
\* from the last.
Scan(links, start, n) ==
  LET at[k \in 1..n] == IF k = 1 THEN start ELSE links[at[k - 1]]
  IN  at
Forward(l)  == Scan(next, head[l].first, head[l].size)
Backward(l) == Scan(prev, head[l].last, head[l].size)

\* List_find scans for the item.
List_find(l, item) == \E k \in DOMAIN Forward(l) : Forward(l)[k] = item

-----------------------------------------------------------------------------
(* Properties *)

\* A list can be scanned both ways: `size` items, the first and the last have no
\* neighbour beyond, and one scan is the reverse of the other.
LinksAgree ==
  \A l \in List :
    LET n == head[l].size
    IN  /\ n \in Nat
        /\ n = 0 => head[l] = List_init
        /\ n > 0 => /\ prev[head[l].first] = Null /\ next[head[l].last] = Null
                    /\ Forward(l)[n] = head[l].last /\ Backward(l)[n] = head[l].first
        /\ \A k \in 1..n : Forward(l)[k] = Backward(l)[n + 1 - k]

=============================================================================
