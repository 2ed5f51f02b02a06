--------------------------- MODULE StorageProofs ---------------------------
(***************************************************************************)
(* Pool and lists, proved correct for every number and size of blocks, any *)
(* lists, and every set of addresses that may be released.                 *)
(*                                                                         *)
(* The arrays and pointers of Storage stand for sequences, and the         *)
(* invariant says which ones: the free blocks s, linked through free_list, *)
(* and the items of each list, linked through prev and next.  A step       *)
(* changes a pointer or two, and that is to change one sequence at one     *)
(* place.  The sequences are witnesses until it is shown that they are     *)
(* what a scan meets (FollowedIs); with that, each step is one of          *)
(* ListStore.                                                              *)
(***************************************************************************)
EXTENDS Storage, SequenceLemmas

(* The pool *)

PoolTypeOK ==
  /\ free_list \in [Idx -> Idx \cup {NullIdx, DetachedIdx}]
  /\ first_idx \in Idx \cup {NullIdx}
  /\ size \in Nat

\* The handed-out blocks are the ones that s does not list.
MarksDetached(s) ==
  \A i \in Idx : free_list[i] = DetachedIdx <=> \A k \in 1..size : s[k] # i

\* s are the free blocks, the one that getBlock returns next first.
IsStack(s) ==
  /\ PoolTypeOK
  /\ s \in Seq(Idx) /\ Len(s) = size
  /\ IsFreeChain(s) /\ MarksDetached(s)

\* The two marks are no indices of blocks.
LEMMA MarksAreNoIndices ==
  NullIdx \notin Idx /\ DetachedIdx \notin Idx /\ NullIdx # DetachedIdx
  BY PoolAssumption DEF NullIdx, DetachedIdx, Idx

\* PoolAllocator_init links the blocks in the order of their addresses.
LEMMA InitStack == PoolInit => IsStack([k \in 1..size_max |-> k - 1])
<1> SUFFICES ASSUME PoolInit PROVE IsStack([k \in 1..size_max |-> k - 1])
  OBVIOUS
<1> DEFINE s == [k \in 1..size_max |-> k - 1]
<1>1. PoolTypeOK
  BY PoolAssumption DEF PoolInit, PoolTypeOK, Idx, NullIdx, DetachedIdx
<1>2. s \in Seq(Idx) /\ Len(s) = size
  BY PoolAssumption DEF PoolInit, Idx
<1>3. IsFreeChain(s)
  <2>1. \A k \in 1..size : s[k] = k - 1 /\ s[k] \in Idx
    BY PoolAssumption DEF PoolInit, Idx
  <2>2. first_idx = IF size = 0 THEN NullIdx ELSE s[1]
    BY PoolAssumption DEF PoolInit
  <2>3. ASSUME NEW k \in 1..size
        PROVE  free_list[s[k]] = IF k = size THEN NullIdx ELSE s[k + 1]
    BY <2>1, PoolAssumption DEF PoolInit, Idx
  <2>4. \A j, k \in 1..size : s[j] = s[k] => j = k
    BY <2>1, PoolAssumption DEF PoolInit
  <2> QED
    BY <2>2, <2>3, <2>4 DEF IsFreeChain
<1>4. MarksDetached(s)
  <2> SUFFICES ASSUME NEW i \in Idx
               PROVE  free_list[i] # DetachedIdx /\ \E k \in 1..size : s[k] = i
    BY DEF MarksDetached
  <2>1. free_list[i] # DetachedIdx
    BY PoolAssumption DEF PoolInit, Idx, NullIdx, DetachedIdx
  <2>2. i + 1 \in 1..size /\ s[i + 1] = i
    BY PoolAssumption DEF PoolInit, Idx
  <2> QED
    BY <2>1, <2>2
<1> QED
  BY <1>1, <1>2, <1>3, <1>4 DEF IsStack

\* getBlock hands out the top of the stack, if there is one.
LEMMA GetBlockTakes ==
  ASSUME NEW s, IsStack(s), getBlock
  PROVE  IF s = <<>> THEN UNCHANGED poolVars ELSE IsStack(Tail(s))'
<1>1. /\ s \in Seq(Idx) /\ Len(s) = size /\ size \in Nat /\ s \in [1..size -> Idx]
      /\ s = <<>> <=> size = 0
  <2>1. s \in Seq(Idx) /\ Len(s) = size
    BY DEF IsStack
  <2> QED
    BY <2>1, LenProperties, EmptySeq
<1>2. CASE s = <<>>
  <2>1. first_idx = NullIdx
    BY <1>1, <1>2 DEF IsStack, IsFreeChain
  <2> QED
    BY <1>2, <2>1 DEF getBlock
<1>3. CASE s # <<>>
  <2> DEFINE t == Tail(s)
  <2>1. size \in Nat \ {0} /\ first_idx = s[1] /\ first_idx \in Idx
    BY <1>1, <1>3 DEF IsStack, IsFreeChain
  <2>2. /\ first_idx' = free_list[first_idx]
        /\ free_list' = [free_list EXCEPT ![first_idx] = DetachedIdx]
        /\ size' = size - 1
    BY <2>1, MarksAreNoIndices DEF getBlock
  <2>3. t \in Seq(Idx) /\ Len(t) = size' /\ \A k \in 1..size' : t[k] = s[k + 1]
    BY <1>1, <1>3, <2>2, HeadTailProperties
  <2> HIDE DEF t
  <2>4. first_idx' = IF size = 1 THEN NullIdx ELSE s[2]
    BY <2>1, <2>2 DEF IsStack, IsFreeChain
  <2>5. PoolTypeOK'
    BY <1>1, <2>1, <2>2, <2>4 DEF IsStack, PoolTypeOK
  <2>6. \A k \in 1..size' : free_list'[t[k]] = free_list[s[k + 1]]
    BY <1>1, <2>1, <2>2, <2>3 DEF IsStack, IsFreeChain, PoolTypeOK
  <2>7. IsFreeChain(t)'
    <3>1. first_idx' = IF size' = 0 THEN NullIdx ELSE t[1]
      BY <2>1, <2>2, <2>3, <2>4
    <3>2. \A k \in 1..size' : free_list'[t[k]] = IF k = size' THEN NullIdx ELSE t[k + 1]
      BY <2>1, <2>2, <2>3, <2>6 DEF IsStack, IsFreeChain
    <3>3. \A j, k \in 1..size' : t[j] = t[k] => j = k
      BY <2>1, <2>2, <2>3 DEF IsStack, IsFreeChain
    <3> QED
      BY <3>1, <3>2, <3>3 DEF IsFreeChain
  <2>8. MarksDetached(t)'
    <3> SUFFICES ASSUME NEW i \in Idx
                 PROVE  free_list'[i] = DetachedIdx <=> \A k \in 1..size' : t[k] # i
      BY DEF MarksDetached
    <3>1. CASE i = first_idx
      <4>1. free_list'[i] = DetachedIdx
        BY <3>1, <2>2 DEF IsStack, PoolTypeOK
      <4>2. \A k \in 1..size' : t[k] # i
        BY <3>1, <2>1, <2>2, <2>3 DEF IsStack, IsFreeChain
      <4> QED
        BY <4>1, <4>2
    <3>2. CASE i # first_idx
      <4>1. free_list'[i] = free_list[i]
        BY <3>2, <2>2 DEF IsStack, PoolTypeOK
      <4>2. (\A k \in 1..size' : t[k] # i) <=> \A k \in 1..size : s[k] # i
        <5>1. ASSUME \A k \in 1..size' : t[k] # i, NEW k \in 1..size PROVE s[k] # i
          <6>1. CASE k = 1
            BY <6>1, <3>2, <2>1
          <6>2. CASE k # 1
            <7>1. k - 1 \in 1..size' /\ (k - 1) + 1 = k
              BY <6>2, <2>1, <2>2
            <7>2. t[k - 1] = s[(k - 1) + 1]
              BY <7>1, <2>3
            <7> QED
              BY <7>1, <7>2, <5>1
          <6> QED
            BY <6>1, <6>2
        <5>2. ASSUME \A k \in 1..size : s[k] # i, NEW k \in 1..size' PROVE t[k] # i
          <6>1. k + 1 \in 1..size
            BY <2>1, <2>2
          <6> QED
            BY <6>1, <5>2, <2>3
        <5> QED
          BY <5>1, <5>2
      <4> QED
        BY <4>1, <4>2 DEF IsStack, MarksDetached
    <3> QED
      BY <3>1, <3>2
  <2>9. IsStack(t)'
    BY <2>3, <2>5, <2>7, <2>8 DEF IsStack
  <2> QED
    BY <1>3, <2>9 DEF t
<1> QED
  BY <1>2, <1>3

\* An address that is not the start of a block that was handed out is refused;
\* one that is becomes the top of the stack.
LEMMA ReleasePuts ==
  ASSUME NEW s, IsStack(s), NEW offset, releaseBlock(offset)
  PROVE  IF ReleaseResult(offset) = "Success"
         THEN /\ offset \div item_size \in Idx
              /\ \A k \in 1..Len(s) : s[k] # offset \div item_size
              /\ IsStack(<<offset \div item_size>> \o s)'
         ELSE UNCHANGED poolVars
<1> DEFINE idx == offset \div item_size
<1>1. CASE ReleaseResult(offset) # "Success"
  BY <1>1 DEF releaseBlock
<1>2. CASE ReleaseResult(offset) = "Success"
  <2>1. idx \in Idx /\ free_list[idx] = DetachedIdx
    BY <1>2 DEF ReleaseResult
  <2>2. /\ free_list' = [free_list EXCEPT ![idx] = first_idx]
        /\ first_idx' = idx
        /\ size' = size + 1
    BY <1>2 DEF releaseBlock
  <2>3. size \in Nat /\ s \in Seq(Idx) /\ Len(s) = size
    BY DEF IsStack, PoolTypeOK
  <2> HIDE DEF idx
  <2> DEFINE t == <<idx>> \o s
  <2>4. PoolTypeOK'
    BY <2>1, <2>2 DEF IsStack, PoolTypeOK
  <2>5. /\ t \in Seq(Idx) /\ Len(t) = size'
        /\ t[1] = idx /\ \A k \in 1..size : k + 1 \in 1..size' /\ t[k + 1] = s[k]
    <3>1. <<idx>> \in Seq(Idx) /\ Len(<<idx>>) = 1 /\ <<idx>>[1] = idx
      BY <2>1
    <3>2. /\ t \in Seq(Idx) /\ Len(t) = 1 + size
          /\ \A k \in 1..1 + size : t[k] = IF k <= 1 THEN <<idx>>[k] ELSE s[k - 1]
      <4>1. /\ t \in Seq(Idx) /\ Len(t) = Len(<<idx>>) + Len(s)
            /\ \A k \in 1..Len(<<idx>>) + Len(s) :
                 t[k] = IF k <= Len(<<idx>>) THEN <<idx>>[k] ELSE s[k - Len(<<idx>>)]
        <5>1. <<idx>> \in Seq(Idx) /\ s \in Seq(Idx)
          BY <2>3, <3>1
        <5> QED
          BY <5>1, ConcatProperties
      <4> QED
        BY <4>1, <3>1, <2>3
    <3>3. t[1] = idx
      BY <3>1, <3>2, <2>3
    <3>4. ASSUME NEW k \in 1..size PROVE k + 1 \in 1..size' /\ t[k + 1] = s[k]
      <4>1. k + 1 \in 1..1 + size /\ ~(k + 1 <= 1) /\ (k + 1) - 1 = k /\ 1 + size = size'
        BY <2>2, <2>3
      <4> QED
        BY <4>1, <3>2
    <3> QED
      BY <3>2, <3>3, <3>4, <2>2, <2>3
  <2> HIDE DEF t
  <2>6. \A k \in 1..size : s[k] # idx /\ s[k] \in Idx
    BY <2>1, <2>3, ElementOfSeq DEF IsStack, MarksDetached
  <2>7. IsFreeChain(t)'
    <3>1. first_idx' = IF size' = 0 THEN NullIdx ELSE t[1]
      BY <2>2, <2>3, <2>5
    <3>2. ASSUME NEW k \in 1..size'
          PROVE  free_list'[t[k]] = IF k = size' THEN NullIdx ELSE t[k + 1]
      <4>1. CASE k = 1
        <5>1. free_list'[t[k]] = first_idx
          BY <4>1, <2>1, <2>2, <2>5 DEF IsStack, PoolTypeOK
        <5>2. first_idx = IF size = 0 THEN NullIdx ELSE t[2]
          BY <2>3, <2>5 DEF IsStack, IsFreeChain
        <5> QED
          BY <4>1, <5>1, <5>2, <2>2, <2>3
      <4>2. CASE k # 1
        <5> PICK j \in 1..size : j = k - 1 /\ j + 1 = k
          BY <4>2, <2>2, <2>3
        <5>1. t[k] = s[j] /\ free_list'[t[k]] = free_list[s[j]]
          BY <2>2, <2>5, <2>6 DEF IsStack, PoolTypeOK
        <5>2. free_list[s[j]] = IF j = size THEN NullIdx ELSE s[j + 1]
          BY DEF IsStack, IsFreeChain
        <5>3. j # size => j + 1 \in 1..size /\ t[(j + 1) + 1] = s[j + 1]
          BY <2>3, <2>5
        <5>4. k = size' <=> j = size
          BY <2>2, <2>3
        <5> QED
          BY <5>1, <5>2, <5>3, <5>4
      <4> QED
        BY <4>1, <4>2
    <3>3. ASSUME NEW j \in 1..size', NEW k \in 1..size', t[j] = t[k] PROVE j = k
      <4>1. \A m \in 1..size' : m # 1 => \E n \in 1..size : m = n + 1 /\ t[m] = s[n]
        <5> SUFFICES ASSUME NEW m \in 1..size', m # 1
                     PROVE  \E n \in 1..size : m = n + 1 /\ t[m] = s[n]
          OBVIOUS
        <5>1. m - 1 \in 1..size /\ m = (m - 1) + 1
          BY <2>2, <2>3
        <5> QED
          BY <5>1, <2>5
      <4>2. CASE j = 1 \/ k = 1
        BY <4>1, <4>2, <3>3, <2>5, <2>6
      <4>3. CASE j # 1 /\ k # 1
        BY <4>1, <4>3, <3>3 DEF IsStack, IsFreeChain
      <4> QED
        BY <4>2, <4>3
    <3> QED
      BY <3>1, <3>2, <3>3 DEF IsFreeChain
  <2>8. MarksDetached(t)'
    <3> SUFFICES ASSUME NEW i \in Idx
                 PROVE  free_list'[i] = DetachedIdx <=> \A k \in 1..size' : t[k] # i
      BY DEF MarksDetached
    <3>1. CASE i = idx
      <4>1. free_list'[i] # DetachedIdx
        BY <3>1, <2>2, MarksAreNoIndices DEF IsStack, PoolTypeOK
      <4>2. 1 \in 1..size' /\ t[1] = i
        BY <3>1, <2>2, <2>3, <2>5
      <4> QED
        BY <4>1, <4>2
    <3>2. CASE i # idx
      <4>1. free_list'[i] = free_list[i]
        BY <3>2, <2>2 DEF IsStack, PoolTypeOK
      <4>2. (\A k \in 1..size' : t[k] # i) <=> \A k \in 1..size : s[k] # i
        <5>1. ASSUME \A k \in 1..size' : t[k] # i, NEW k \in 1..size PROVE s[k] # i
          BY <5>1, <2>5
        <5>2. ASSUME \A k \in 1..size : s[k] # i, NEW k \in 1..size' PROVE t[k] # i
          <6>1. CASE k = 1
            BY <6>1, <3>2, <2>5
          <6>2. CASE k # 1
            <7> PICK j \in 1..size : j = k - 1 /\ j + 1 = k
              BY <6>2, <2>2, <2>3
            <7> QED
              BY <5>2, <2>5
          <6> QED
            BY <6>1, <6>2
        <5> QED
          BY <5>1, <5>2
      <4> QED
        BY <4>1, <4>2 DEF IsStack, MarksDetached
    <3> QED
      BY <3>1, <3>2
  <2>9. IsStack(t)'
    BY <2>4, <2>5, <2>7, <2>8 DEF IsStack
  <2> QED
    BY <1>2, <2>1, <2>3, <2>6, <2>9 DEF idx, t
<1> QED
  BY <1>1, <1>2

LEMMA StackStays ==
  ASSUME NEW s, IsStack(s), UNCHANGED poolVars
  PROVE  IsStack(s)'
  BY DEF IsStack, poolVars, PoolTypeOK, IsFreeChain, MarksDetached

-----------------------------------------------------------------------------
(* Scans *)

\* What the recursive functions of LinkedList and FreeStack are: the places that
\* n pointers lead to, from start on.
Followed(to, start, n) ==
  CHOOSE g : g = [k \in 1..n |-> IF k = 1 THEN start ELSE to[g[k - 1]]]

LEMMA ForwardFollows ==
  ASSUME NEW l
  PROVE  /\ L!Forward(l) = Followed(next, head[l].first, head[l].size)
         /\ L!Backward(l) = Followed(prev, head[l].last, head[l].size)
  BY DEF L!Forward, L!Backward, L!Scan, Followed

LEMMA StackFollows == FreeStack = Followed(free_list, first_idx, size)
  BY DEF FreeStack, Followed

\* s begins at start and its places are linked so.
Leads(to, start, n, s) == s = [k \in 1..n |-> IF k = 1 THEN start ELSE to[s[k - 1]]]

\* Then they lead to the places in s: the first where they did not would have a
\* place before it where they do.
LEMMA FollowedIs ==
  ASSUME NEW to, NEW start, NEW n \in Nat, NEW s, Leads(to, start, n, s)
  PROVE  Followed(to, start, n) = s
<1> DEFINE f == Followed(to, start, n)
           E(g) == [k \in 1..n |-> IF k = 1 THEN start ELSE to[g[k - 1]]]
<1>1. s = E(s)
  BY DEF Leads
<1>2. f = CHOOSE g : g = E(g)
  BY DEF Followed
<1>3. f = E(f)
  BY <1>1, <1>2
<1> HIDE DEF f
<1> DEFINE I == {k \in 1..n : f[k] # s[k]}
<1>4. I = {}
  <2> SUFFICES ASSUME I # {} PROVE FALSE
    OBVIOUS
  <2>1. I \subseteq Nat
    OBVIOUS
  <2> PICK k \in I : \A j \in I : k <= j
    <3> HIDE DEF I
    <3> QED
      BY <2>1, MinIsLeast
  <2>2. k # 1
    BY <1>1, <1>3
  <2>3. k - 1 \in 1..n /\ k - 1 \notin I
    BY <2>2
  <2>4. f[k] = to[f[k - 1]] /\ s[k] = to[s[k - 1]]
    BY <1>1, <1>3, <2>2
  <2> QED
    BY <2>2, <2>3, <2>4
<1>5. f = [k \in 1..n |-> f[k]]
  BY <1>3
<1>6. s = [k \in 1..n |-> s[k]]
  BY <1>1
<1>7. f = s
  BY <1>4, <1>5, <1>6
<1> QED
  BY <1>7 DEF f

-----------------------------------------------------------------------------
(* The links of the lists *)

LinksTyped ==
  /\ prev \in [Idx -> Idx \cup {L!Null}] /\ next \in [Idx -> Idx \cup {L!Null}]
  /\ head \in [List -> [first : Idx \cup {L!Null}, last : Idx \cup {L!Null}, size : Nat]]

\* The pointers of list l and of its items, when these are s in their order.
Linked(l, s) ==
  /\ head[l] = [first |-> IF s = <<>> THEN L!Null ELSE s[1],
                last  |-> IF s = <<>> THEN L!Null ELSE s[Len(s)],
                size  |-> Len(s)]
  /\ \A k \in 1..Len(s) :
       /\ prev[s[k]] = IF k = 1 THEN L!Null ELSE s[k - 1]
       /\ next[s[k]] = IF k = Len(s) THEN L!Null ELSE s[k + 1]

Occurs(items, i) == \E l \in List : \E k \in 1..Len(items[l]) : items[l][k] = i

\* items are the items of all lists: each occurs once, and in no list is one
\* that has no neighbours only because it is alone.
AreItems(items) ==
  /\ LinksTyped
  /\ items \in [List -> Seq(Idx)]
  /\ \A l \in List : Linked(l, items[l])
  /\ \A l, m \in List : \A j \in 1..Len(items[l]), k \in 1..Len(items[m]) :
       items[l][j] = items[m][k] => l = m /\ j = k
  /\ \A i \in Idx : ~Occurs(items, i) => prev[i] = L!Null /\ next[i] = L!Null

LEMMA NullIsNoItem == L!Null \notin Idx
  BY PoolAssumption DEF L!Null, Idx

\* What a list of its own says.
LEMMA ItemsOf ==
  ASSUME NEW items, AreItems(items), NEW l \in List
  PROVE  /\ items[l] \in Seq(Idx) /\ Len(items[l]) \in Nat
         /\ items[l] \in [1..Len(items[l]) -> Idx]
         /\ items[l] = <<>> <=> Len(items[l]) = 0
         /\ head[l].first = IF Len(items[l]) = 0 THEN L!Null ELSE items[l][1]
         /\ head[l].last = IF Len(items[l]) = 0 THEN L!Null ELSE items[l][Len(items[l])]
         /\ head[l].size = Len(items[l])
<1>1. items[l] \in Seq(Idx) /\ Linked(l, items[l])
  BY DEF AreItems
<1>2. /\ Len(items[l]) \in Nat /\ items[l] \in [1..Len(items[l]) -> Idx]
      /\ items[l] = <<>> <=> Len(items[l]) = 0
  BY <1>1, LenProperties, EmptySeq
<1> QED
  BY <1>1, <1>2 DEF Linked

LEMMA LinksInit ==
  ASSUME L!LinkInit
  PROVE  AreItems([l \in List |-> <<>>])
<1>1. Len(<<>>) = 0 /\ <<>> \in Seq(Idx)
  OBVIOUS
<1> QED
  BY <1>1 DEF AreItems, Linked, Occurs, LinksTyped, L!LinkInit, L!List_init

\* The two scans, and List_find.
LEMMA ScansMeetItems ==
  ASSUME NEW items, AreItems(items), NEW l \in List
  PROVE  /\ L!Forward(l) = items[l]
         /\ L!Backward(l) = [k \in 1..Len(items[l]) |-> items[l][Len(items[l]) + 1 - k]]
         /\ \A i : L!List_find(l, i) <=> \E k \in 1..Len(items[l]) : items[l][k] = i
<1> DEFINE s == items[l]
           n == Len(s)
           r == [k \in 1..n |-> s[n + 1 - k]]
<1>1. /\ n \in Nat /\ s \in [1..n -> Idx]
      /\ head[l].first = IF n = 0 THEN L!Null ELSE s[1]
      /\ head[l].last = IF n = 0 THEN L!Null ELSE s[n]
      /\ head[l].size = n
  BY ItemsOf
<1>2. \A k \in 1..n : /\ prev[s[k]] = IF k = 1 THEN L!Null ELSE s[k - 1]
                      /\ next[s[k]] = IF k = n THEN L!Null ELSE s[k + 1]
  BY DEF AreItems, Linked
<1> HIDE DEF s, n
<1>3. L!Forward(l) = s
  <2>1. ASSUME NEW k \in 2..n PROVE s[k] = next[s[k - 1]]
    <3>1. k - 1 \in 1..n /\ k - 1 # n /\ (k - 1) + 1 = k
      BY <1>1
    <3> QED
      BY <1>2, <3>1
  <2>2. Followed(next, head[l].first, n) = s
    <3>1. Leads(next, head[l].first, n, s)
      BY <1>1, <2>1 DEF Leads
    <3> QED
      BY <1>1, <3>1, FollowedIs
  <2> QED
    BY <1>1, <2>2, ForwardFollows
<1>4. L!Backward(l) = r
  <2>1. r \in [1..n -> Idx] /\ (n # 0 => r[1] = s[n])
    BY <1>1
  <2>2. ASSUME NEW k \in 2..n PROVE r[k] = prev[r[k - 1]]
    <3> DEFINE j == n + 1 - (k - 1)
    <3>1. j \in 1..n /\ j # 1 /\ j - 1 = n + 1 - k
      BY <1>1
    <3>2. r[k] = s[j - 1] /\ r[k - 1] = s[j]
      BY <1>1, <3>1
    <3> QED
      BY <1>2, <3>1, <3>2
  <2> HIDE DEF r
  <2>3. Followed(prev, head[l].last, n) = r
    <3>1. Leads(prev, head[l].last, n, r)
      BY <1>1, <2>1, <2>2 DEF Leads
    <3> QED
      BY <1>1, <3>1, FollowedIs
  <2> QED
    BY <1>1, <2>3, ForwardFollows
<1>5. \A i : L!List_find(l, i) <=> \E k \in 1..n : s[k] = i
  BY <1>1, <1>3 DEF L!List_find
<1> QED
  BY <1>3, <1>4, <1>5 DEF s, n

\* The items after an insertion at place k of list l, or the removal of the one
\* that is there.
Inserted(items, l, k, item) == [items EXCEPT ![l] = InsertAt(@, k, item)]
Removed(items, l, k) == [items EXCEPT ![l] = RemoveAt(@, k)]

\* List_insert between two neighbours, or a null pointer and the end it stands for.
LEMMA LinkKeeps ==
  ASSUME NEW items, AreItems(items), NEW l \in List,
         NEW k \in 1..Len(items[l]) + 1, NEW item \in Idx, ~Occurs(items, item),
         L!Link(l, IF k = 1 THEN L!Null ELSE items[l][k - 1], item,
                IF k = Len(items[l]) + 1 THEN L!Null ELSE items[l][k])
  PROVE  AreItems(Inserted(items, l, k, item))'
<1> DEFINE s == items[l]
           n == Len(s)
           t == InsertAt(s, k, item)
           new == Inserted(items, l, k, item)
           p == IF k = 1 THEN L!Null ELSE s[k - 1]
           succ == IF k = n + 1 THEN L!Null ELSE s[k]
<1>0. s \in Seq(Idx) /\ k \in 1..Len(s) + 1 /\ item \in Idx
  BY ItemsOf
<1>1. /\ s \in Seq(Idx) /\ n \in Nat /\ s \in [1..n -> Idx] /\ k \in 1..n + 1
      /\ head[l].first = IF n = 0 THEN L!Null ELSE s[1]
      /\ head[l].last = IF n = 0 THEN L!Null ELSE s[n]
      /\ head[l].size = n
  BY ItemsOf
<1>2. \A j \in 1..n : /\ prev[s[j]] = IF j = 1 THEN L!Null ELSE s[j - 1]
                      /\ next[s[j]] = IF j = n THEN L!Null ELSE s[j + 1]
  BY DEF AreItems, Linked
<1>3. \A j \in 1..n : s[j] # item
  BY DEF Occurs
<1>4. \A i, j \in 1..n : s[i] = s[j] => i = j
  BY DEF AreItems
<1>5. t \in Seq(Idx) /\ HasInserted(t, s, k, item)
  BY <1>0, InsertAtElements
<1> HIDE DEF t
<1>50. /\ Len(t) = n + 1 /\ t # <<>> /\ t[k] = item
       /\ \A j \in 1..n : /\ j < k => t[j] = s[j]
                          /\ j >= k => t[j + 1] = s[j]
  <2>1. /\ Len(t) = n + 1 /\ t[k] = item
        /\ \A j \in 1..n : /\ j < k => t[j] = s[j]
                           /\ j >= k => t[j + 1] = s[j]
    BY <1>5 DEF HasInserted
  <2> QED
    BY <2>1, <1>1
<1>6. /\ prev' = L!Set([prev EXCEPT ![item] = p], succ, item)
      /\ next' = L!Set([next EXCEPT ![item] = succ], p, item)
      /\ head' = [head EXCEPT ![l] =
           [first |-> IF p = L!Null THEN item ELSE @.first,
            last  |-> IF succ = L!Null THEN item ELSE @.last,
            size  |-> @.size + 1]]
  BY DEF L!Link
<1>7. /\ p \in Idx \cup {L!Null} /\ (p = L!Null <=> k = 1) /\ p # item
      /\ succ \in Idx \cup {L!Null} /\ (succ = L!Null <=> k = n + 1) /\ succ # item
  BY <1>1, <1>3, NullIsNoItem
<1>8. LinksTyped /\ items \in [List -> Seq(Idx)]
  BY DEF AreItems
<1>9. \A i \in Idx : /\ prev'[i] = IF i = succ THEN item ELSE IF i = item THEN p ELSE prev[i]
                     /\ next'[i] = IF i = p THEN item ELSE IF i = item THEN succ ELSE next[i]
  BY <1>6, <1>7, <1>8, NullIsNoItem DEF LinksTyped, L!Set
<1>10. LinksTyped'
  <2>1. prev' \in [Idx -> Idx \cup {L!Null}] /\ next' \in [Idx -> Idx \cup {L!Null}]
    BY <1>6, <1>7, <1>8 DEF LinksTyped, L!Set
  <2>2. head'[l] = [first |-> IF p = L!Null THEN item ELSE head[l].first,
                    last  |-> IF succ = L!Null THEN item ELSE head[l].last,
                    size  |-> head[l].size + 1]
    BY <1>6, <1>8 DEF LinksTyped
  <2>3. head'[l] \in [first : Idx \cup {L!Null}, last : Idx \cup {L!Null}, size : Nat]
    BY <2>2, <1>1, <1>8 DEF LinksTyped
  <2>4. head' \in [List -> [first : Idx \cup {L!Null}, last : Idx \cup {L!Null}, size : Nat]]
    BY <2>3, <1>6, <1>8 DEF LinksTyped
  <2> QED
    BY <2>1, <2>4 DEF LinksTyped
<1>11. /\ new \in [List -> Seq(Idx)] /\ new[l] = t
       /\ \A m \in List \ {l} : new[m] = items[m]
  BY <1>5, <1>8 DEF Inserted, t
<1> HIDE DEF new
<1>12. Linked(l, new[l])'
  <2>1. head'[l] = [first |-> t[1], last |-> t[n + 1], size |-> n + 1]
    <3>1. head'[l] = [first |-> IF k = 1 THEN item ELSE head[l].first,
                      last  |-> IF k = n + 1 THEN item ELSE head[l].last,
                      size  |-> n + 1]
      BY <1>1, <1>6, <1>7, <1>8 DEF LinksTyped
    <3>2. t[1] = (IF k = 1 THEN item ELSE head[l].first)
      <4>1. k # 1 => 1 \in 1..n /\ 1 < k /\ n # 0
        BY <1>1
      <4>2. k # 1 => t[1] = s[1]
        BY <4>1, <1>50
      <4> QED
        BY <4>1, <4>2, <1>1, <1>50
    <3>3. t[n + 1] = (IF k = n + 1 THEN item ELSE head[l].last)
      BY <1>1, <1>50
    <3> QED
      BY <3>1, <3>2, <3>3
  <2>2. ASSUME NEW j \in 1..n + 1
        PROVE  /\ prev'[t[j]] = IF j = 1 THEN L!Null ELSE t[j - 1]
               /\ next'[t[j]] = IF j = n + 1 THEN L!Null ELSE t[j + 1]
    <3>1. CASE j = k
      <4>1. prev'[t[j]] = p /\ next'[t[j]] = succ
        BY <3>1, <1>50, <1>7, <1>9
      <4>2. j # 1 => j - 1 \in 1..n /\ j - 1 < k /\ t[j - 1] = s[j - 1]
        BY <3>1, <1>1, <1>50
      <4>3. j # n + 1 => j \in 1..n /\ t[j + 1] = s[j]
        BY <3>1, <1>1, <1>50
      <4> QED
        BY <4>1, <4>2, <4>3, <3>1
    <3>2. CASE j < k
      <4>1. /\ j \in 1..n /\ t[j] = s[j] /\ s[j] \in Idx /\ s[j] # succ /\ s[j] # item
            /\ j # n + 1
        <5>1. j \in 1..n /\ j # n + 1 /\ j # k
          <6>1. n \in Nat /\ k \in 1..n + 1
            BY <1>1
          <6> HIDE DEF n
          <6> QED
            BY <3>2, <6>1
        <5>2. t[j] = s[j] /\ s[j] \in Idx /\ s[j] # item
          BY <5>1, <3>2, <1>1, <1>3, <1>50
        <5>3. s[j] # succ
          BY <5>1, <5>2, <1>1, <1>4, NullIsNoItem
        <5> QED
          BY <5>1, <5>2, <5>3
      <4>2. s[j] = p <=> j = k - 1
        BY <4>1, <3>2, <1>1, <1>4, <1>7
      <4>3. prev'[t[j]] = IF j = 1 THEN L!Null ELSE s[j - 1]
        BY <4>1, <1>2, <1>9
      <4>4. j # 1 => t[j - 1] = s[j - 1]
        <5>1. j # 1 => j - 1 \in 1..n /\ j - 1 < k
          BY <4>1, <3>2, <1>1
        <5> QED
          BY <5>1, <1>50
      <4>5. next'[t[j]] = t[j + 1]
        <5>1. CASE j = k - 1
          BY <5>1, <4>1, <4>2, <1>1, <1>50, <1>9
        <5>2. CASE j # k - 1
          <6>1. j + 1 \in 1..n /\ j + 1 < k /\ j # n
            BY <5>2, <3>2, <1>1
          <6>2. t[j + 1] = s[j + 1]
            BY <6>1, <1>50
          <6>3. next'[t[j]] = next[s[j]] /\ next[s[j]] = s[j + 1]
            BY <5>2, <6>1, <4>1, <4>2, <1>2, <1>9
          <6> QED
            BY <6>2, <6>3
        <5> QED
          BY <5>1, <5>2
      <4> QED
        BY <4>1, <4>3, <4>4, <4>5
    <3>3. CASE j > k
      <4> PICK i \in 1..n : i = j - 1
        BY <3>3, <1>1
      <4>1. /\ t[j] = s[i] /\ s[i] \in Idx /\ s[i] # p /\ s[i] # item
            /\ j # 1 /\ j = i + 1 /\ i >= k
        <5>1. j = i + 1 /\ i >= k /\ j # 1
          BY <3>3, <1>1
        <5>2. t[i + 1] = s[i] /\ s[i] \in Idx /\ s[i] # item
          BY <5>1, <1>1, <1>3, <1>50
        <5>3. s[i] # p
          BY <5>1, <5>2, <1>1, <1>4, NullIsNoItem
        <5> QED
          BY <5>1, <5>2, <5>3
      <4>2. s[i] = succ <=> i = k
        <5>1. CASE k = n + 1
          BY <5>1, <4>1, <1>1, NullIsNoItem
        <5>2. CASE k # n + 1
          <6>1. k \in 1..n
            BY <5>2, <1>1
          <6> QED
            BY <5>2, <6>1, <1>4
        <5> QED
          BY <5>1, <5>2
      <4>3. next'[t[j]] = IF i = n THEN L!Null ELSE s[i + 1]
        BY <4>1, <1>2, <1>9
      <4>4. i # n => t[j + 1] = s[i + 1]
        <5>1. i # n => i + 1 \in 1..n /\ i + 1 >= k
          BY <4>1, <1>1
        <5> QED
          BY <5>1, <4>1, <1>50
      <4>5. prev'[t[j]] = t[i]
        <5>1. CASE i = k
          <6>1. s[i] = succ /\ t[i] = item
            BY <5>1, <4>2, <1>50
          <6> QED
            BY <6>1, <4>1, <1>9
        <5>2. CASE i # k
          <6>1. i - 1 \in 1..n /\ i - 1 >= k /\ i # 1 /\ (i - 1) + 1 = i
            BY <5>2, <4>1, <1>1
          <6>2. t[(i - 1) + 1] = s[i - 1]
            BY <6>1, <1>50
          <6>3. prev'[t[j]] = prev[s[i]] /\ prev[s[i]] = s[i - 1]
            BY <5>2, <6>1, <4>1, <4>2, <1>2, <1>9
          <6> QED
            BY <6>1, <6>2, <6>3
        <5> QED
          BY <5>1, <5>2
      <4>6. (i = n <=> j = n + 1) /\ j - 1 = i
        BY <4>1
      <4> QED
        BY <4>1, <4>3, <4>4, <4>5, <4>6
    <3> QED
      BY <3>1, <3>2, <3>3, <1>1
  <2> QED
    BY <2>1, <2>2, <1>50, <1>11 DEF Linked
<1>13. ASSUME NEW m \in List, m # l PROVE Linked(m, new[m])'
  <2>1. ASSUME NEW j \in 1..Len(items[m])
        PROVE  /\ items[m][j] \in Idx /\ items[m][j] # item
               /\ items[m][j] # p /\ items[m][j] # succ
    <3>1. items[m][j] \in Idx /\ items[m][j] # item
      BY ItemsOf DEF Occurs
    <3>2. \A i \in 1..n : items[m][j] # s[i]
      BY <1>13 DEF AreItems
    <3> QED
      BY <3>1, <3>2, <1>1, NullIsNoItem
  <2>2. Linked(m, items[m]) /\ head'[m] = head[m] /\ new[m] = items[m]
    BY <1>6, <1>8, <1>11, <1>13 DEF AreItems, LinksTyped
  <2>3. \A j \in 1..Len(items[m]) : /\ prev'[items[m][j]] = prev[items[m][j]]
                                    /\ next'[items[m][j]] = next[items[m][j]]
    BY <2>1, <1>9
  <2> QED
    BY <2>2, <2>3 DEF Linked
<1>14. ASSUME NEW m \in List, NEW j \in 1..Len(new[m]), ~(m = l /\ j = k)
       PROVE  \E i \in 1..Len(items[m]) :
                new[m][j] = items[m][i] /\ i = IF m = l /\ j > k THEN j - 1 ELSE j
  <2>1. CASE m = l
    <3>1. j \in 1..n + 1 /\ new[m] = t /\ j # k
      BY <2>1, <1>50, <1>11, <1>14
    <3>2. CASE j < k
      <4>1. j \in 1..n /\ t[j] = s[j] /\ ~(j > k)
        BY <3>1, <3>2, <1>1, <1>50
      <4> QED
        BY <4>1, <3>1, <2>1
    <3>3. CASE j > k
      <4>1. j - 1 \in 1..n /\ j - 1 >= k /\ (j - 1) + 1 = j
        BY <3>1, <3>3, <1>1
      <4>2. t[(j - 1) + 1] = s[j - 1]
        BY <4>1, <1>50
      <4> QED
        BY <4>1, <4>2, <3>1, <3>3, <2>1
    <3> QED
      BY <3>1, <3>2, <3>3, <1>1
  <2>2. CASE m # l
    BY <2>2, <1>11
  <2> QED
    BY <2>1, <2>2
<1>15. ASSUME NEW m \in List, NEW o \in List,
              NEW i \in 1..Len(new[m]), NEW j \in 1..Len(new[o]), new[m][i] = new[o][j]
       PROVE  m = o /\ i = j
  <2>1. \A q \in List : \A x \in 1..Len(items[q]) : items[q][x] # item
    BY DEF Occurs
  <2>2. new[l][k] = item
    BY <1>50, <1>11
  <2>3. CASE m = l /\ i = k
    <3>1. new[o][j] = item
      BY <2>2, <2>3, <1>15
    <3> QED
      BY <3>1, <2>1, <2>3, <1>14
  <2>4. CASE o = l /\ j = k
    <3>1. new[m][i] = item
      BY <2>2, <2>4, <1>15
    <3> QED
      BY <3>1, <2>1, <2>4, <1>14
  <2>5. CASE ~(m = l /\ i = k) /\ ~(o = l /\ j = k)
    <3> PICK x \in 1..Len(items[m]) : /\ new[m][i] = items[m][x]
                                      /\ x = IF m = l /\ i > k THEN i - 1 ELSE i
      BY <1>14, <2>5
    <3> PICK y \in 1..Len(items[o]) : /\ new[o][j] = items[o][y]
                                      /\ y = IF o = l /\ j > k THEN j - 1 ELSE j
      BY <1>14, <2>5
    <3>1. m = o /\ x = y
      BY <1>15 DEF AreItems
    <3>2. i \in Int /\ j \in Int /\ k \in Int
      BY <1>1
    <3>3. i = j
      BY <3>1, <3>2, <2>5
    <3> QED
      BY <3>1, <3>3
  <2> QED
    BY <2>3, <2>4, <2>5
<1>16. ASSUME NEW i \in Idx, ~Occurs(new, i) PROVE prev'[i] = L!Null /\ next'[i] = L!Null
  <2>1. i # item
    <3>1. k \in 1..Len(new[l]) /\ new[l][k] = item
      BY <1>1, <1>50, <1>11
    <3> QED
      BY <3>1, <1>16 DEF Occurs
  <2>2. ~Occurs(items, i)
    <3> SUFFICES ASSUME NEW m \in List, NEW j \in 1..Len(items[m]), items[m][j] = i
                 PROVE  \E x \in 1..Len(new[m]) : new[m][x] = i
      BY <1>16 DEF Occurs
    <3>1. CASE m # l
      BY <3>1, <1>11
    <3>2. CASE m = l /\ j < k
      <4>1. j \in 1..n + 1 /\ t[j] = s[j]
        BY <3>2, <1>1, <1>50
      <4> QED
        BY <4>1, <3>2, <1>50, <1>11
    <3>3. CASE m = l /\ ~(j < k)
      <4>1. j + 1 \in 1..n + 1 /\ t[j + 1] = s[j]
        BY <3>3, <1>1, <1>50
      <4> QED
        BY <4>1, <3>3, <1>50, <1>11
    <3> QED
      BY <3>1, <3>2, <3>3
  <2>3. i # p /\ i # succ
    BY <2>2, <1>1, NullIsNoItem DEF Occurs
  <2> QED
    BY <2>1, <2>2, <2>3, <1>9 DEF AreItems
<1>17. \A m \in List : Linked(m, new[m])'
  BY <1>12, <1>13
<1>18. AreItems(new)'
  BY <1>10, <1>11, <1>17, <1>15, <1>16 DEF AreItems, Occurs
<1> QED
  BY <1>18 DEF new

\* List_detach of the item at place k.
LEMMA UnlinkKeeps ==
  ASSUME NEW items, AreItems(items), NEW l \in List, NEW k \in 1..Len(items[l]),
         L!Unlink(l, items[l][k])
  PROVE  AreItems(Removed(items, l, k))'
<1> DEFINE s == items[l]
           n == Len(s)
           t == RemoveAt(s, k)
           new == Removed(items, l, k)
           item == s[k]
           p == IF k = 1 THEN L!Null ELSE s[k - 1]
           succ == IF k = n THEN L!Null ELSE s[k + 1]
<1>1. s \in Seq(Idx) /\ k \in 1..Len(s)
  BY ItemsOf
<1>2. /\ n \in Nat \ {0} /\ s \in [1..n -> Idx] /\ item \in Idx
      /\ head[l].first = s[1] /\ head[l].last = s[n] /\ head[l].size = n
  BY <1>1, ItemsOf
<1>3. \A j \in 1..n : /\ prev[s[j]] = IF j = 1 THEN L!Null ELSE s[j - 1]
                      /\ next[s[j]] = IF j = n THEN L!Null ELSE s[j + 1]
  BY DEF AreItems, Linked
<1>4. \A i, j \in 1..n : s[i] = s[j] => i = j
  BY DEF AreItems
<1>5. t \in Seq(Idx) /\ HasRemoved(t, s, k)
  BY <1>1, RemoveAtElements
<1> HIDE DEF t
<1>6. /\ Len(t) = n - 1 /\ (t = <<>> <=> n = 1)
      /\ \A j \in 1..n - 1 : /\ j < k => t[j] = s[j]
                             /\ j >= k => t[j] = s[j + 1]
  <2>1. /\ Len(t) = n - 1
        /\ \A j \in 1..n - 1 : /\ j < k => t[j] = s[j]
                               /\ j >= k => t[j] = s[j + 1]
    BY <1>5 DEF HasRemoved
  <2>2. t = <<>> <=> Len(t) = 0
    BY <1>5, EmptySeq
  <2>3. n - 1 = 0 <=> n = 1
    BY <1>2
  <2> QED
    BY <2>1, <2>2, <2>3
<1>7. prev[item] = p /\ next[item] = succ
  BY <1>1, <1>3
<1>8. /\ p \in Idx \cup {L!Null} /\ (p = L!Null <=> k = 1) /\ p # item
      /\ succ \in Idx \cup {L!Null} /\ (succ = L!Null <=> k = n) /\ succ # item
  BY <1>1, <1>2, <1>4, NullIsNoItem
<1>9. LinksTyped /\ items \in [List -> Seq(Idx)]
  BY DEF AreItems
<1>10. /\ next' = [L!Set(next, p, succ) EXCEPT ![item] = L!Null]
       /\ prev' = [L!Set(prev, succ, p) EXCEPT ![item] = L!Null]
       /\ head' = [head EXCEPT ![l] =
            [first |-> IF @.first = item THEN succ ELSE @.first,
             last  |-> IF @.last = item THEN p ELSE @.last,
             size  |-> @.size - 1]]
  BY <1>7 DEF L!Unlink
<1>11. \A i \in Idx :
         /\ prev'[i] = IF i = item THEN L!Null ELSE IF i = succ THEN p ELSE prev[i]
         /\ next'[i] = IF i = item THEN L!Null ELSE IF i = p THEN succ ELSE next[i]
  BY <1>8, <1>9, <1>10, NullIsNoItem DEF LinksTyped, L!Set
<1>12. head'[l] = [first |-> IF k = 1 THEN succ ELSE s[1],
                   last  |-> IF k = n THEN p ELSE s[n],
                   size  |-> n - 1]
  <2>1. (s[1] = item <=> k = 1) /\ (s[n] = item <=> k = n)
    BY <1>1, <1>2, <1>4
  <2> QED
    BY <2>1, <1>2, <1>9, <1>10 DEF LinksTyped
<1>13. LinksTyped'
  <2>1. prev' \in [Idx -> Idx \cup {L!Null}] /\ next' \in [Idx -> Idx \cup {L!Null}]
    BY <1>8, <1>9, <1>10 DEF LinksTyped, L!Set
  <2>2. head'[l] \in [first : Idx \cup {L!Null}, last : Idx \cup {L!Null}, size : Nat]
    BY <1>2, <1>8, <1>12
  <2>3. head' \in [List -> [first : Idx \cup {L!Null}, last : Idx \cup {L!Null}, size : Nat]]
    BY <2>2, <1>9, <1>10 DEF LinksTyped
  <2> QED
    BY <2>1, <2>3 DEF LinksTyped
<1>14. /\ new \in [List -> Seq(Idx)] /\ new[l] = t
       /\ \A m \in List \ {l} : new[m] = items[m]
  BY <1>5, <1>9 DEF Removed, t
<1> HIDE DEF new
\* Where the item at place j was, and where it is now.
<1>15. ASSUME NEW j \in 1..n - 1
       PROVE  \E i \in 1..n : t[j] = s[i] /\ i # k /\ i = IF j < k THEN j ELSE j + 1
  <2>1. CASE j < k
    <3>1. j \in 1..n /\ j # k
      BY <2>1, <1>1, <1>2
    <3> QED
      BY <2>1, <3>1, <1>6
  <2>2. CASE j >= k
    <3>1. j + 1 \in 1..n /\ j + 1 # k /\ ~(j < k)
      BY <2>2, <1>1, <1>2
    <3> QED
      BY <2>2, <3>1, <1>6
  <2> QED
    BY <2>1, <2>2, <1>1
<1>16. Linked(l, new[l])'
  <2>1. head'[l] = [first |-> IF t = <<>> THEN L!Null ELSE t[1],
                    last  |-> IF t = <<>> THEN L!Null ELSE t[n - 1],
                    size  |-> n - 1]
    <3>1. CASE n = 1
      BY <3>1, <1>1, <1>6, <1>8, <1>12
    <3>2. CASE n # 1
      <4>1. 1 \in 1..n - 1 /\ n - 1 \in 1..n - 1 /\ (n - 1) + 1 = n
        <5>1. n \in Nat \ {0}
          BY <1>2
        <5> HIDE DEF n
        <5> QED
          BY <3>2, <5>1
      <4>2. t[1] = IF k = 1 THEN succ ELSE s[1]
        BY <3>2, <4>1, <1>1, <1>2, <1>6
      <4>3. t[n - 1] = IF k = n THEN p ELSE s[n]
        BY <3>2, <4>1, <1>1, <1>2, <1>6
      <4> QED
        BY <3>2, <4>2, <4>3, <1>6, <1>12
    <3> QED
      BY <3>1, <3>2
  <2>2. ASSUME NEW j \in 1..n - 1
        PROVE  /\ prev'[t[j]] = IF j = 1 THEN L!Null ELSE t[j - 1]
               /\ next'[t[j]] = IF j = n - 1 THEN L!Null ELSE t[j + 1]
    <3> PICK i \in 1..n : t[j] = s[i] /\ i # k /\ i = IF j < k THEN j ELSE j + 1
      BY <1>15
    <3>1. s[i] \in Idx /\ s[i] # item /\ i \in Int /\ j \in Int /\ k \in Int
      BY <1>1, <1>2, <1>4
    <3>2. (s[i] = succ <=> i = k + 1) /\ (s[i] = p <=> i = k - 1)
      <4>1. s[i] = succ <=> i = k + 1
        <5>1. CASE k = n
          BY <5>1, <3>1, <1>2, NullIsNoItem
        <5>2. CASE k # n
          <6>1. k + 1 \in 1..n
            BY <5>2, <1>1, <1>2
          <6> QED
            BY <5>2, <6>1, <1>4
        <5> QED
          BY <5>1, <5>2
      <4>2. s[i] = p <=> i = k - 1
        <5>1. CASE k = 1
          BY <5>1, <3>1, <1>2, NullIsNoItem
        <5>2. CASE k # 1
          <6>1. k - 1 \in 1..n
            BY <5>2, <1>1, <1>2
          <6> QED
            BY <5>2, <6>1, <1>4
        <5> QED
          BY <5>1, <5>2
      <4> QED
        BY <4>1, <4>2
    <3>3. prev'[t[j]] = IF i = k + 1 THEN p ELSE IF i = 1 THEN L!Null ELSE s[i - 1]
      <4>1. prev'[s[i]] = IF s[i] = succ THEN p ELSE prev[s[i]]
        BY <3>1, <1>11
      <4> QED
        BY <4>1, <3>2, <1>3
    <3>4. next'[t[j]] = IF i = k - 1 THEN succ ELSE IF i = n THEN L!Null ELSE s[i + 1]
      <4>1. next'[s[i]] = IF s[i] = p THEN succ ELSE next[s[i]]
        BY <3>1, <1>11
      <4> QED
        BY <4>1, <3>2, <1>3
    <3>5. CASE j < k
      <4>1. i = j /\ i # k + 1
        BY <3>1, <3>5
      <4>2. j # 1 => j - 1 \in 1..n - 1 /\ j - 1 < k
        BY <3>1, <3>5
      <4>3. j # 1 => t[j - 1] = s[j - 1]
        BY <4>2, <1>6
      <4>4. CASE j = k - 1
        <5>1. j + 1 = k /\ (j = n - 1 <=> k = n)
          BY <4>4, <3>1, <1>2
        <5>2. j # n - 1 => k \in 1..n - 1 /\ t[k] = s[k + 1]
          BY <5>1, <1>1, <1>2, <1>6
        <5> QED
          BY <4>1, <4>3, <4>4, <5>1, <5>2, <3>3, <3>4
      <4>5. CASE j # k - 1
        <5>1. j + 1 \in 1..n - 1 /\ j + 1 < k /\ j # n - 1 /\ j # n
          BY <4>5, <3>1, <3>5, <1>1, <1>2
        <5>2. t[j + 1] = s[j + 1]
          BY <5>1, <1>6
        <5> QED
          BY <4>1, <4>3, <4>5, <5>1, <5>2, <3>3, <3>4
      <4> QED
        BY <4>4, <4>5
    <3>6. CASE ~(j < k)
      <4>1. i = j + 1 /\ i # k - 1 /\ i # 1 /\ i - 1 = j /\ (i = n <=> j = n - 1)
        BY <3>1, <3>6, <1>2
      <4>2. j # n - 1 => j + 1 \in 1..n - 1 /\ j + 1 >= k /\ (j + 1) + 1 = i + 1
        BY <4>1, <3>1, <3>6, <1>2
      <4>3. j # n - 1 => t[j + 1] = s[i + 1]
        BY <4>2, <1>6
      <4>4. CASE j = k
        <5>1. j # 1 => j - 1 \in 1..n - 1 /\ j - 1 < k
          BY <4>4, <3>1
        <5>2. j # 1 => t[j - 1] = s[k - 1]
          BY <4>4, <5>1, <1>6
        <5> QED
          BY <4>1, <4>3, <4>4, <5>2, <3>3, <3>4
      <4>5. CASE j # k
        <5>1. j # 1 /\ j - 1 \in 1..n - 1 /\ j - 1 >= k /\ (j - 1) + 1 = i - 1 /\ i # k + 1
          BY <4>1, <4>5, <3>1, <3>6, <1>1
        <5>2. t[j - 1] = s[i - 1]
          BY <5>1, <1>6
        <5> QED
          BY <4>1, <4>3, <5>1, <5>2, <3>3, <3>4
      <4> QED
        BY <4>4, <4>5
    <3> QED
      BY <3>5, <3>6
  <2> QED
    BY <2>1, <2>2, <1>6, <1>14 DEF Linked
<1>17. ASSUME NEW m \in List, m # l PROVE Linked(m, new[m])'
  <2>1. ASSUME NEW j \in 1..Len(items[m])
        PROVE  /\ items[m][j] \in Idx /\ items[m][j] # item
               /\ items[m][j] # p /\ items[m][j] # succ
    <3>1. items[m][j] \in Idx
      BY ItemsOf
    <3>2. \A i \in 1..n : items[m][j] # s[i]
      BY <1>17 DEF AreItems
    <3>3. k # 1 => k - 1 \in 1..n
      BY <1>1, <1>2
    <3>4. k # n => k + 1 \in 1..n
      BY <1>1, <1>2
    <3> QED
      BY <3>1, <3>2, <3>3, <3>4, <1>1, NullIsNoItem
  <2>2. Linked(m, items[m]) /\ head'[m] = head[m] /\ new[m] = items[m]
    BY <1>9, <1>10, <1>14, <1>17 DEF AreItems, LinksTyped
  <2>3. \A j \in 1..Len(items[m]) : /\ prev'[items[m][j]] = prev[items[m][j]]
                                    /\ next'[items[m][j]] = next[items[m][j]]
    BY <2>1, <1>11
  <2> QED
    BY <2>2, <2>3 DEF Linked
<1>18. ASSUME NEW m \in List, NEW j \in 1..Len(new[m])
       PROVE  \E i \in 1..Len(items[m]) :
                /\ new[m][j] = items[m][i] /\ ~(m = l /\ i = k)
                /\ i = IF m = l /\ ~(j < k) THEN j + 1 ELSE j
  <2>1. CASE m = l
    <3>1. j \in 1..n - 1 /\ new[m] = t
      BY <2>1, <1>6, <1>14
    <3> QED
      BY <2>1, <3>1, <1>15
  <2>2. CASE m # l
    BY <2>2, <1>14
  <2> QED
    BY <2>1, <2>2
<1>19. ASSUME NEW m \in List, NEW o \in List,
              NEW i \in 1..Len(new[m]), NEW j \in 1..Len(new[o]), new[m][i] = new[o][j]
       PROVE  m = o /\ i = j
  <2> PICK x \in 1..Len(items[m]) : /\ new[m][i] = items[m][x]
                                    /\ x = IF m = l /\ ~(i < k) THEN i + 1 ELSE i
    BY <1>18
  <2> PICK y \in 1..Len(items[o]) : /\ new[o][j] = items[o][y]
                                    /\ y = IF o = l /\ ~(j < k) THEN j + 1 ELSE j
    BY <1>18
  <2>1. m = o /\ x = y
    BY <1>19 DEF AreItems
  <2>2. i \in Int /\ j \in Int /\ k \in Int
    BY <1>1
  <2>3. i = j
    BY <2>1, <2>2
  <2> QED
    BY <2>1, <2>3
<1>20. ASSUME NEW i \in Idx, ~Occurs(new, i) PROVE prev'[i] = L!Null /\ next'[i] = L!Null
  <2>1. CASE i = item
    BY <2>1, <1>11
  <2>2. CASE i # item
    <3>1. ~Occurs(items, i)
      <4> SUFFICES ASSUME NEW m \in List, NEW j \in 1..Len(items[m]), items[m][j] = i
                   PROVE  \E x \in 1..Len(new[m]) : new[m][x] = i
        BY <1>20 DEF Occurs
      <4>1. CASE m # l
        BY <4>1, <1>14
      <4>2. CASE m = l /\ j < k
        <5>1. j \in 1..n - 1 /\ t[j] = s[j]
          BY <4>2, <1>1, <1>2, <1>6
        <5> QED
          BY <4>2, <5>1, <1>6, <1>14
      <4>3. CASE m = l /\ j > k
        <5>1. j - 1 \in 1..n - 1 /\ j - 1 >= k /\ (j - 1) + 1 = j
          BY <4>3, <1>1, <1>2
        <5>2. t[j - 1] = s[j]
          BY <5>1, <1>6
        <5> QED
          BY <4>3, <5>1, <5>2, <1>6, <1>14
      <4>4. m = l => j # k
        BY <2>2
      <4> QED
        BY <4>1, <4>2, <4>3, <4>4, <1>1, <1>2
    <3>2. i # p /\ i # succ
      BY <3>1, <1>1, <1>2, NullIsNoItem DEF Occurs
    <3> QED
      BY <2>2, <3>1, <3>2, <1>11 DEF AreItems
  <2> QED
    BY <2>1, <2>2
<1>21. \A m \in List : Linked(m, new[m])'
  BY <1>16, <1>17
<1>22. AreItems(new)'
  BY <1>13, <1>14, <1>21, <1>19, <1>20 DEF AreItems, Occurs
<1> QED
  BY <1>22 DEF new

LEMMA LinksStay ==
  ASSUME NEW items, AreItems(items), UNCHANGED links
  PROVE  AreItems(items)'
  BY DEF AreItems, LinksTyped, Linked, Occurs, links

\* What the callers insert is in no list, or List_insert refuses it.
LEMMA InsertMoves ==
  ASSUME NEW items, AreItems(items), NEW l \in List, NEW p \in Idx \cup {L!Null},
         NEW item \in Idx, Insert(l, p, item)
  PROVE  \/ UNCHANGED links
         \/ /\ ~Occurs(items, item) /\ free_list[item] = DetachedIdx
            /\ \E k \in 1..Len(items[l]) + 1 : AreItems(Inserted(items, l, k, item))'
<1>1. CASE L!IsLinked(item)
  BY <1>1 DEF Insert, L!List_insert, L!linkVars, links
<1>2. CASE ~L!IsLinked(item)
  <2>1. prev[item] = L!Null /\ next[item] = L!Null
    BY <1>2 DEF L!IsLinked
  <2>2. ~Occurs(items, item)
    <3> SUFFICES ASSUME NEW m \in List, NEW j \in 1..Len(items[m]), items[m][j] = item
                 PROVE  FALSE
      BY DEF Occurs
    <3> DEFINE u == items[m]
    <3>1. Linked(m, u) /\ Len(u) \in Nat /\ u \in [1..Len(u) -> Idx]
      BY ItemsOf DEF AreItems
    <3>2. Len(u) > 1
      <4>1. L!List_find(m, item)
        BY ScansMeetItems
      <4>2. head[m].size > 1
        BY <4>1 DEF Insert
      <4> QED
        BY <4>2, ItemsOf
    <3> HIDE DEF u
    <3>3. /\ prev[u[j]] = IF j = 1 THEN L!Null ELSE u[j - 1]
          /\ next[u[j]] = IF j = Len(u) THEN L!Null ELSE u[j + 1]
      BY <3>1 DEF Linked, u
    <3>4. CASE j = 1
      <4>1. next[u[j]] = u[j + 1] /\ u[j + 1] \in Idx
        BY <3>1, <3>2, <3>3, <3>4
      <4> QED
        BY <2>1, <4>1, NullIsNoItem DEF u
    <3>5. CASE j # 1
      <4>1. j - 1 \in 1..Len(u)
        BY <3>1, <3>5 DEF u
      <4>2. prev[u[j]] = u[j - 1] /\ u[j - 1] \in Idx
        BY <3>1, <3>3, <3>5, <4>1
      <4> QED
        BY <2>1, <4>2, NullIsNoItem DEF u
    <3> QED
      BY <3>4, <3>5
  <2> DEFINE s == items[l]
  <2>3. /\ Len(s) \in Nat /\ s \in [1..Len(s) -> Idx]
        /\ head[l].first = IF Len(s) = 0 THEN L!Null ELSE s[1]
    BY ItemsOf
  <2>4. L!Link(l, p, item, IF p = L!Null THEN head[l].first ELSE next[p])
    BY <1>2 DEF Insert, L!List_insert
  <2>5. \E k \in 1..Len(s) + 1 :
          /\ p = IF k = 1 THEN L!Null ELSE s[k - 1]
          /\ (IF p = L!Null THEN head[l].first ELSE next[p])
               = IF k = Len(s) + 1 THEN L!Null ELSE s[k]
    <3>1. CASE p = L!Null
      <4>1. 1 \in 1..Len(s) + 1 /\ (1 = Len(s) + 1 <=> Len(s) = 0)
        BY <2>3
      <4> QED
        BY <3>1, <4>1, <2>3
    <3>2. CASE p # L!Null
      <4> PICK j \in 1..Len(s) : s[j] = p
        BY <3>2, ScansMeetItems DEF Insert
      <4>1. next[p] = IF j = Len(s) THEN L!Null ELSE s[j + 1]
        BY DEF AreItems, Linked
      <4>2. /\ j + 1 \in 1..Len(s) + 1 /\ j + 1 # 1 /\ (j + 1) - 1 = j
            /\ (j = Len(s) <=> j + 1 = Len(s) + 1)
        BY <2>3
      <4> QED
        BY <3>2, <4>1, <4>2
    <3> QED
      BY <3>1, <3>2
  <2> PICK k \in 1..Len(s) + 1 :
        L!Link(l, IF k = 1 THEN L!Null ELSE s[k - 1], item,
               IF k = Len(s) + 1 THEN L!Null ELSE s[k])
    BY <2>4, <2>5
  <2>6. AreItems(Inserted(items, l, k, item))'
    BY <2>2, LinkKeeps
  <2>7. free_list[item] = DetachedIdx
    BY DEF Insert, Taken
  <2> QED
    BY <2>2, <2>6, <2>7
<1> QED
  BY <1>1, <1>2

LEMMA DetachMoves ==
  ASSUME NEW items, AreItems(items), NEW l \in List, NEW item \in Idx, Detach(l, item)
  PROVE  \E k \in 1..Len(items[l]) : AreItems(Removed(items, l, k))'
<1> PICK k \in 1..Len(items[l]) : items[l][k] = item
  BY ScansMeetItems DEF Detach
<1>1. L!Unlink(l, items[l][k])
  BY DEF Detach, L!List_detach
<1> QED
  BY <1>1, UnlinkKeeps

-----------------------------------------------------------------------------
(* The steps *)

StoreInv == (\E s : IsStack(s)) /\ (\E items : AreItems(items))

\* What a step makes of the sequences.
TookBlock(s) ==
  IF s = <<>> THEN IsStack(s)' ELSE IsStack(Tail(s))'
GaveBlock(s, items, b) ==
  /\ b \in Idx /\ ~Occurs(items, b)
  /\ \A k \in 1..Len(s) : s[k] # b
  /\ IsStack(<<b>> \o s)'
Attached(s, items, l, k, b) ==
  /\ k \in 1..Len(items[l]) + 1 /\ b \in Idx /\ ~Occurs(items, b)
  /\ \A j \in 1..Len(s) : s[j] # b
  /\ AreItems(Inserted(items, l, k, b))'

SequencesStep(s, items) ==
  \/ IsStack(s)' /\ AreItems(items)'
  \/ TookBlock(s) /\ AreItems(items)'
  \/ \E b : GaveBlock(s, items, b) /\ AreItems(items)'
  \/ /\ IsStack(s)'
     /\ \E l \in List : \E k, b : Attached(s, items, l, k, b)
  \/ /\ IsStack(s)'
     /\ \E l \in List : \E k \in 1..Len(items[l]) : AreItems(Removed(items, l, k))'

\* offset is the address of the block it falls in.
LEMMA AlignedOffset ==
  ASSUME NEW offset \in Int, offset % item_size = 0
  PROVE  offset = item_size * (offset \div item_size)
<1>1. item_size \in Nat \ {0}
  BY PoolAssumption
<1> QED
  BY <1>1

LEMMA StepMoves ==
  ASSUME NEW s, IsStack(s), NEW items, AreItems(items), [StoreNext]_storeVars
  PROVE  SequencesStep(s, items)
<1>1. CASE Alloc
  <2>1. AreItems(items)'
    BY <1>1, LinksStay DEF Alloc
  <2>2. TookBlock(s)
    BY <1>1, GetBlockTakes, StackStays DEF Alloc, TookBlock
  <2> QED
    BY <2>1, <2>2 DEF SequencesStep
<1>2. ASSUME NEW l \in List, NEW p \in Idx \cup {L!Null}, NEW item \in Idx,
             Insert(l, p, item)
      PROVE  SequencesStep(s, items)
  <2>1. IsStack(s)'
    BY <1>2, StackStays DEF Insert
  <2>2. CASE UNCHANGED links
    BY <2>1, <2>2, LinksStay DEF SequencesStep
  <2>3. ASSUME ~Occurs(items, item), free_list[item] = DetachedIdx,
               NEW k \in 1..Len(items[l]) + 1, AreItems(Inserted(items, l, k, item))'
        PROVE  SequencesStep(s, items)
    <3>1. \A j \in 1..Len(s) : s[j] # item
      BY <2>3 DEF IsStack, MarksDetached
    <3>2. Attached(s, items, l, k, item)
      BY <2>3, <3>1 DEF Attached
    <3> QED
      BY <2>1, <3>2 DEF SequencesStep
  <2> QED
    BY <1>2, <2>2, <2>3, InsertMoves
<1>3. ASSUME NEW l \in List, NEW item \in Idx, Detach(l, item)
      PROVE  SequencesStep(s, items)
  <2>1. IsStack(s)'
    BY <1>3, StackStays DEF Detach
  <2> QED
    BY <1>3, <2>1, DetachMoves DEF SequencesStep
<1>4. ASSUME NEW offset \in Offsets, Free(offset) PROVE SequencesStep(s, items)
  <2>1. AreItems(items)'
    BY <1>4, LinksStay DEF Free
  <2>2. CASE ReleaseResult(offset) # "Success"
    BY <1>4, <2>1, <2>2, ReleasePuts, StackStays DEF SequencesStep, Free
  <2>3. CASE ReleaseResult(offset) = "Success"
    <3> DEFINE b == offset \div item_size
    <3>1. /\ b \in Idx /\ \A k \in 1..Len(s) : s[k] # b
          /\ IsStack(<<b>> \o s)'
      BY <1>4, <2>3, ReleasePuts DEF Free
    <3>2. offset = item_size * b
      BY <2>3, AlignedOffset, PoolAssumption DEF ReleaseResult
    <3>3. ~Occurs(items, b)
      <4>1. b \notin Listed
        BY <1>4, <3>2 DEF Free
      <4> QED
        BY <3>1, <4>1, ScansMeetItems DEF Listed, Occurs
    <3>4. GaveBlock(s, items, b)
      BY <3>1, <3>3 DEF GaveBlock
    <3> QED
      BY <2>1, <3>4 DEF SequencesStep
  <2> QED
    BY <2>2, <2>3
<1>5. CASE UNCHANGED storeVars
  BY <1>5, StackStays, LinksStay DEF storeVars, SequencesStep
<1> QED
  BY <1>1, <1>2, <1>3, <1>4, <1>5 DEF StoreNext

LEMMA StoreInvHolds == StoreSpec => []StoreInv
<1>1. StoreInit => StoreInv
  BY InitStack, LinksInit DEF StoreInit, StoreInv
<1>2. StoreInv /\ [StoreNext]_storeVars => StoreInv'
  <2> SUFFICES ASSUME StoreInv, [StoreNext]_storeVars PROVE StoreInv'
    OBVIOUS
  <2> PICK s : IsStack(s)
    BY DEF StoreInv
  <2> PICK items : AreItems(items)
    BY DEF StoreInv
  <2>1. SequencesStep(s, items)
    BY StepMoves
  <2> QED
    BY <2>1 DEF SequencesStep, StoreInv, TookBlock, GaveBlock, Attached
<1> QED
  BY <1>1, <1>2, PTL DEF StoreSpec

-----------------------------------------------------------------------------
(* What a scan sees *)

\* The lists as the mapping to ListStore takes them.
Lists == [l \in List |-> L!Forward(l)]

Seen == \A s, items : IsStack(s) /\ AreItems(items) => FreeStack = s /\ Lists = items

LEMMA SequencesSeen == Seen
<1> SUFFICES ASSUME NEW s, NEW items, IsStack(s), AreItems(items)
             PROVE  FreeStack = s /\ Lists = items
  BY DEF Seen
<1>1. FreeStack = s
  <2>1. size \in Nat /\ Len(s) = size /\ s \in Seq(Idx)
    BY DEF IsStack, PoolTypeOK
  <2>2. s \in [1..size -> Idx]
    BY <2>1, LenProperties
  <2>3. s = [k \in 1..size |-> s[k]]
    BY <2>2
  <2>4. ASSUME NEW k \in 1..size
        PROVE  s[k] = IF k = 1 THEN first_idx ELSE free_list[s[k - 1]]
    <3>1. CASE k = 1
      BY <3>1, <2>1 DEF IsStack, IsFreeChain
    <3>2. CASE k # 1
      <4>1. k - 1 \in 1..size /\ k - 1 # size /\ (k - 1) + 1 = k
        BY <3>2, <2>1
      <4>2. free_list[s[k - 1]] = s[(k - 1) + 1]
        BY <4>1 DEF IsStack, IsFreeChain
      <4> QED
        BY <3>2, <4>1, <4>2
    <3> QED
      BY <3>1, <3>2
  <2>5. Leads(free_list, first_idx, size, s)
    BY <2>3, <2>4 DEF Leads
  <2>6. Followed(free_list, first_idx, size) = s
    BY <2>1, <2>5, FollowedIs
  <2> QED
    BY <2>6, StackFollows
<1>2. Lists = items
  <2>1. items = [l \in List |-> items[l]]
    BY DEF AreItems
  <2>2. \A l \in List : L!Forward(l) = items[l]
    BY ScansMeetItems
  <2> QED
    BY <2>1, <2>2 DEF Lists
<1> QED
  BY <1>1, <1>2

LEMMA SequencesSeenNext == Seen'
  BY SequencesSeen, PTL

-----------------------------------------------------------------------------
(* The theorems *)

\* PoolAllocator_getBlock and PoolAllocator_releaseBlock keep the array of indices
\* a chain of all the free blocks, whatever the size of the pool, and whatever is
\* released: no block is handed out twice or lost, although MessageQueue_free
\* releases addresses of other pools and addresses inside a block.
THEOREM PoolCorrect == StoreSpec => []FreeListIsChain
<1>1. StoreInv => FreeListIsChain
  <2> SUFFICES ASSUME NEW s, IsStack(s) PROVE FreeListIsChain
    BY DEF StoreInv
  <2>1. s \in Seq(Idx) /\ Len(s) = size
    BY DEF IsStack
  <2>2. s \in [1..size -> Idx]
    BY <2>1, LenProperties
  <2> QED
    BY <2>2 DEF IsStack, FreeListIsChain, MarksDetached
<1> QED
  BY <1>1, StoreInvHolds, PTL

\* List_insert and List_detach leave every list with the same items in both
\* directions, whatever was inserted and detached before and wherever.
THEOREM ListsCorrect == StoreSpec => []ListsScanBothWays
<1>1. StoreInv => ListsScanBothWays
  <2> SUFFICES ASSUME NEW items, AreItems(items) PROVE L!LinksAgree
    BY DEF StoreInv, ListsScanBothWays
  <2> SUFFICES ASSUME NEW l \in List
               PROVE  LET n == head[l].size
                      IN  /\ n \in Nat
                          /\ n = 0 => head[l] = L!List_init
                          /\ n > 0 => /\ prev[head[l].first] = L!Null
                                      /\ next[head[l].last] = L!Null
                                      /\ L!Forward(l)[n] = head[l].last
                                      /\ L!Backward(l)[n] = head[l].first
                          /\ \A k \in 1..n : L!Forward(l)[k] = L!Backward(l)[n + 1 - k]
    BY DEF L!LinksAgree
  <2> DEFINE s == items[l]
             n == Len(s)
  <2>1. /\ n \in Nat /\ s \in [1..n -> Idx] /\ (s = <<>> <=> n = 0)
        /\ head[l].first = IF n = 0 THEN L!Null ELSE s[1]
        /\ head[l].last = IF n = 0 THEN L!Null ELSE s[n]
        /\ head[l].size = n
    BY ItemsOf
  <2>2. Linked(l, s)
    BY DEF AreItems
  <2>3. L!Forward(l) = s /\ L!Backward(l) = [k \in 1..n |-> s[n + 1 - k]]
    BY ScansMeetItems
  <2> HIDE DEF s
  <2>4. n = 0 => head[l] = L!List_init
    BY <2>1, <2>2 DEF Linked, L!List_init
  <2>5. ASSUME n > 0
        PROVE  /\ prev[head[l].first] = L!Null /\ next[head[l].last] = L!Null
               /\ L!Forward(l)[n] = head[l].last /\ L!Backward(l)[n] = head[l].first
    <3>1. 1 \in 1..n /\ n \in 1..n /\ n + 1 - n = 1 /\ n # 0
      BY <2>1, <2>5
    <3>2. prev[s[1]] = L!Null /\ next[s[n]] = L!Null
      BY <2>2, <3>1 DEF Linked
    <3> QED
      BY <2>1, <2>3, <3>1, <3>2
  <2>6. ASSUME NEW k \in 1..n PROVE L!Forward(l)[k] = L!Backward(l)[n + 1 - k]
    <3>1. n + 1 - k \in 1..n /\ n + 1 - (n + 1 - k) = k
      BY <2>1
    <3> QED
      BY <2>3, <3>1
  <2> QED
    BY <2>1, <2>4, <2>5, <2>6
<1> QED
  BY <1>1, StoreInvHolds, PTL

\* A block that no list holds has null links, so that Message_alloc may leave
\* them as they are.
THEOREM UnlinkedCorrect == StoreSpec => []UnlistedIsUnlinked
<1>1. StoreInv => UnlistedIsUnlinked
  <2> SUFFICES ASSUME NEW items, AreItems(items), NEW i \in Idx \ Listed
               PROVE  prev[i] = L!Null /\ next[i] = L!Null
    BY DEF StoreInv, UnlistedIsUnlinked
  <2>1. ~Occurs(items, i)
    BY ScansMeetItems DEF Listed, Occurs
  <2> QED
    BY <2>1 DEF AreItems
<1> QED
  BY <1>1, StoreInvHolds, PTL

-----------------------------------------------------------------------------
(* The steps of ListStore *)

StoreStep == [Abstract!Next]_(Abstract!vars)

LEMMA TakeSeen ==
  ASSUME FreeStack # <<>>, FreeStack' = Tail(FreeStack), Lists' = Lists
  PROVE  StoreStep
<1>1. Abstract!Take
  BY DEF Abstract!Take, Lists
<1> QED
  BY <1>1 DEF StoreStep, Abstract!Next

LEMMA GiveSeen ==
  ASSUME NEW b \in Idx, b \notin Range(FreeStack),
         \A l \in List : b \notin Range(Lists[l]),
         FreeStack' = <<b>> \o FreeStack, Lists' = Lists
  PROVE  StoreStep
<1>1. b \notin Abstract!Range(FreeStack) \cup Abstract!Listed
  BY DEF Abstract!Listed, Abstract!Range, Range, Lists
<1>2. Abstract!Give(b)
  BY <1>1 DEF Abstract!Give, Lists
<1> QED
  BY <1>2 DEF StoreStep, Abstract!Next

LEMMA AttachSeen ==
  ASSUME NEW b \in Idx, b \notin Range(FreeStack),
         \A l \in List : b \notin Range(Lists[l]),
         NEW l \in List, NEW k \in 1..Len(Lists[l]) + 1,
         Lists' = Inserted(Lists, l, k, b), FreeStack' = FreeStack
  PROVE  StoreStep
<1>1. b \notin Abstract!Range(FreeStack) \cup Abstract!Listed
  BY DEF Abstract!Listed, Abstract!Range, Range, Lists
<1>2. Lists' = [Lists EXCEPT ![l] = Abstract!InsertAt(@, k, b)]
  BY DEF Inserted, InsertAt, Abstract!InsertAt
<1>3. Abstract!Attach(l, k, b)
  BY <1>1, <1>2 DEF Abstract!Attach, Lists
<1> QED
  BY <1>3 DEF StoreStep, Abstract!Next, Lists

LEMMA DetachSeen ==
  ASSUME NEW l \in List, NEW k \in 1..Len(Lists[l]),
         Lists' = Removed(Lists, l, k), FreeStack' = FreeStack
  PROVE  StoreStep
<1>1. Lists' = [Lists EXCEPT ![l] = Abstract!RemoveAt(@, k)]
  BY DEF Removed, RemoveAt, Abstract!RemoveAt
<1>2. Abstract!Detach(l, k)
  BY <1>1 DEF Abstract!Detach, Lists
<1> QED
  BY <1>2 DEF StoreStep, Abstract!Next, Lists

LEMMA StepSeen ==
  ASSUME StoreInv, [StoreNext]_storeVars
  PROVE  StoreStep
<1> PICK s : IsStack(s)
  BY DEF StoreInv
<1> PICK items : AreItems(items)
  BY DEF StoreInv
<1>1. FreeStack = s /\ Lists = items
  BY SequencesSeen DEF Seen
<1>2. \A t, new : IsStack(t)' /\ AreItems(new)' => FreeStack' = t /\ Lists' = new
  BY SequencesSeenNext DEF Seen
<1>3. ASSUME NEW b, \A k \in 1..Len(s) : s[k] # b, ~Occurs(items, b)
      PROVE  b \notin Range(s) /\ \A l \in List : b \notin Range(items[l])
  <2>1. DOMAIN s = 1..Len(s)
    BY LenProperties DEF IsStack
  <2>2. \A l \in List : DOMAIN items[l] = 1..Len(items[l])
    BY ItemsOf
  <2> QED
    BY <1>3, <2>1, <2>2 DEF Range, Occurs
<1>4. CASE IsStack(s)' /\ AreItems(items)'
  <2>1. FreeStack' = FreeStack /\ Lists' = Lists
    BY <1>1, <1>2, <1>4
  <2> QED
    BY <2>1 DEF StoreStep, Abstract!vars, Lists
<1>5. CASE TookBlock(s) /\ AreItems(items)' /\ s # <<>>
  <2>1. FreeStack' = Tail(s) /\ Lists' = items
    BY <1>2, <1>5 DEF TookBlock
  <2> QED
    BY <1>1, <1>5, <2>1, TakeSeen
<1>6. ASSUME NEW b, GaveBlock(s, items, b), AreItems(items)' PROVE StoreStep
  <2>1. FreeStack' = <<b>> \o s /\ Lists' = items
    BY <1>2, <1>6 DEF GaveBlock
  <2>2. b \in Idx /\ b \notin Range(s) /\ \A l \in List : b \notin Range(items[l])
    BY <1>3, <1>6 DEF GaveBlock
  <2> QED
    BY <1>1, <2>1, <2>2, GiveSeen
<1>7. ASSUME IsStack(s)', NEW l \in List, NEW k, NEW b, Attached(s, items, l, k, b)
      PROVE  StoreStep
  <2>1. FreeStack' = s /\ Lists' = Inserted(items, l, k, b)
    BY <1>2, <1>7 DEF Attached
  <2>2. /\ b \in Idx /\ b \notin Range(s) /\ \A m \in List : b \notin Range(items[m])
        /\ k \in 1..Len(items[l]) + 1
    BY <1>3, <1>7 DEF Attached
  <2> QED
    BY <1>1, <2>1, <2>2, AttachSeen
<1>8. ASSUME IsStack(s)', NEW l \in List, NEW k \in 1..Len(items[l]),
             AreItems(Removed(items, l, k))'
      PROVE  StoreStep
  <2>1. FreeStack' = s /\ Lists' = Removed(items, l, k)
    BY <1>2, <1>8
  <2> QED
    BY <1>1, <2>1, DetachSeen
<1>9. SequencesStep(s, items)
  BY StepMoves
<1>10. TookBlock(s) /\ s = <<>> => IsStack(s)'
  BY DEF TookBlock
<1> QED
  BY <1>4, <1>5, <1>6, <1>7, <1>8, <1>9, <1>10 DEF SequencesStep

\* The pool and the lists together are the stack of free blocks and the sequences
\* that the models of the system calls take them for: each step of the pointers
\* is one of these, at one place, and a block is never in two of them.
THEOREM StoreCorrect == StoreSpec => StoreIsStackAndSequences
<1>1. StoreInit => Abstract!Init
  <2> SUFFICES ASSUME StoreInit PROVE Abstract!Init
    OBVIOUS
  <2> DEFINE s == [k \in 1..size_max |-> k - 1]
             items == [l \in List |-> <<>>]
  <2>1. IsStack(s) /\ AreItems(items)
    BY InitStack, LinksInit DEF StoreInit
  <2>2. FreeStack = s /\ Lists = items
    BY <2>1, SequencesSeen DEF Seen
  <2> QED
    BY <2>2 DEF Abstract!Init, Lists
<1>2. StoreInv /\ [StoreNext]_storeVars => [Abstract!Next]_(Abstract!vars)
  BY StepSeen DEF StoreStep
<1> QED
  BY <1>1, <1>2, StoreInvHolds, PTL DEF StoreSpec, StoreIsStackAndSequences, Abstract!Spec

=============================================================================
