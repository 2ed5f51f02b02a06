------------------------- MODULE TestProgramsProofs -------------------------
(***************************************************************************)
(* What the two test programs rely on, proved for every number of queues,  *)
(* children and messages, every size of the pools and every place at which *)
(* the timer may strike.                                                   *)
(*                                                                         *)
(* The programs are sequences of calls, so the proofs need to know which   *)
(* call is where, and where every process is: the bookkeeping relates the  *)
(* counters and pids of the processes to each other and to the lists of    *)
(* the process manager.  Its part about pids holds until a fault, since a  *)
(* program that faults is restarted half way (SysStep has the details).    *)
(***************************************************************************)
EXTENDS TestPrograms, DisastrOSProofs

-----------------------------------------------------------------------------
(* The programs: which call is where *)

Calls ==
  {Spawn, Receive, Close(Own), Wait, Nap, Exit, Shutdown}
    \cup {Open(i, mode) : i \in Ids, mode \in {{}, {Mail!CREATE}}}
    \cup {Send(f, m) : f \in Ids \cup {Own}, m \in Msgs}
    \cup {Close(i) : i \in Ids} \cup {Unlink(i) : i \in Ids}

LEMMA NumbersTyped ==
  /\ M_blocking \in Nat \ {0} /\ N \in Nat \ {0} /\ P \in Nat \ {0} /\ M \in Nat \ {0}
  /\ P + 2 <= N /\ 0 \in Ids /\ \A i \in 0..N - 1 : i \in Ids
  /\ \A j \in 1..M_blocking : j \in 1..Len(buf[0]) /\ buf[0][j] \in Msgs
  /\ \A i \in Ids : /\ buf[i] \in Seq(Msgs) /\ IsInjective(buf[i])
                    /\ \A j \in 1..M : j \in 1..Len(buf[i]) /\ buf[i][j] \in Msgs
<1>1. /\ M_blocking \in Nat \ {0} /\ N \in Nat \ {0} /\ P \in Nat \ {0} /\ M \in Nat \ {0}
      /\ P + 2 <= N /\ 0 \in Ids /\ \A i \in 0..N - 1 : i \in Ids
  <2>1. M_blocking \in Nat \ {0} /\ N \in Nat \ {0} /\ P \in Nat \ {0} /\ M \in Nat \ {0}
    BY TestsAssumption
  <2>2. P + 2 <= N /\ \A i \in 0..N - 1 : i \in Ids
    BY TestsAssumption
  <2>3. 0 \in 0..N - 1
    BY <2>1
  <2> QED
    BY <2>1, <2>2, <2>3
<1>2. /\ \A i \in Ids : buf[i] \in Seq(Msgs) /\ IsInjective(buf[i]) /\ M <= Len(buf[i])
      /\ M_blocking <= Len(buf[0])
  BY TestsAssumption
<1>3. \A i \in Ids : Len(buf[i]) \in Nat /\ \A j \in 1..Len(buf[i]) : buf[i][j] \in Msgs
  BY <1>2, LenProperties, ElementOfSeq
<1>4. \A j \in 1..M_blocking : j \in 1..Len(buf[0]) /\ buf[0][j] \in Msgs
  BY <1>1, <1>2, <1>3
<1>5. \A i \in Ids : \A j \in 1..M : j \in 1..Len(buf[i]) /\ buf[i][j] \in Msgs
  BY <1>1, <1>2, <1>3
<1> QED
  BY <1>1, <1>2, <1>4, <1>5

\* The pieces of the programs.
LEMMA TimesIs ==
  ASSUME NEW n \in Nat, NEW c \in Calls
  PROVE  /\ Times(n, c) \in Seq(Calls) /\ Len(Times(n, c)) = n
         /\ \A k \in 1..n : Times(n, c)[k] = c
  BY DEF Times

LEMMA CallsTyped ==
  /\ \A c \in {Spawn, Receive, Close(Own), Wait, Nap, Exit, Shutdown} : c \in Calls
  /\ \A i \in Ids : /\ Open(i, {}) \in Calls /\ Open(i, {Mail!CREATE}) \in Calls
                    /\ Close(i) \in Calls /\ Unlink(i) \in Calls
                    /\ \A m \in Msgs : Send(i, m) \in Calls /\ Send(Own, m) \in Calls
  BY DEF Calls

\* What follows what in a program of which the code is put together.
LEMMA BlockingCode ==
  LET c == InitOfBlocking
      n == M_blocking
  IN  /\ Len(c) = n + 7
      /\ c[1] = Spawn /\ c[2] = Open(0, {Mail!CREATE}) /\ c[3] = Spawn
      /\ \A j \in 1..n : c[3 + j] = Send(Own, buf[0][j])
      /\ c[n + 4] = Wait /\ c[n + 5] = Close(Own) /\ c[n + 6] = Unlink(0)
      /\ c[n + 7] = Shutdown
<1> DEFINE c == InitOfBlocking
           n == M_blocking
           s == <<Spawn, Open(0, {Mail!CREATE}), Spawn>>
           t == [j \in 1..n |-> Send(Own, buf[0][j])]
           u == <<Wait, Close(Own), Unlink(0), Shutdown>>
<1>1. n \in Nat /\ 0 \in Ids /\ \A j \in 1..n : buf[0][j] \in Msgs
  BY NumbersTyped
<1>2. s \in Seq(Calls) /\ Len(s) = 3 /\ s[1] = Spawn /\ s[2] = Open(0, {Mail!CREATE}) /\ s[3] = Spawn
  BY <1>1, CallsTyped
<1>3. t \in Seq(Calls) /\ Len(t) = n /\ \A j \in 1..n : t[j] = Send(Own, buf[0][j])
  BY <1>1, CallsTyped
<1>4. /\ u \in Seq(Calls) /\ Len(u) = 4
      /\ u[1] = Wait /\ u[2] = Close(Own) /\ u[3] = Unlink(0) /\ u[4] = Shutdown
  BY <1>1, CallsTyped
<1>5. c = s \o t \o u
  BY DEF InitOfBlocking
<1> HIDE DEF s, t, u, c
<1> DEFINE v == s \o t
<1>6. /\ v \in Seq(Calls) /\ Len(v) = Len(s) + Len(t)
      /\ \A k \in 1..Len(s) : v[k] = s[k]
      /\ \A k \in 1..Len(t) : v[Len(s) + k] = t[k]
  <2>1. s \in Seq(Calls) /\ t \in Seq(Calls)
    BY <1>2, <1>3
  <2> QED
    BY <2>1, Joined
<1>7. c = v \o u
  BY <1>5
<1> HIDE DEF v
<1>8. /\ Len(c) = Len(v) + Len(u)
      /\ \A k \in 1..Len(v) : c[k] = v[k]
      /\ \A k \in 1..Len(u) : c[Len(v) + k] = u[k]
  <2>1. v \in Seq(Calls) /\ u \in Seq(Calls)
    BY <1>4, <1>6, <1>7
  <2> QED
    BY <2>1, <1>7, Joined
<1>9. Len(v) = n + 3 /\ Len(c) = n + 7
  BY <1>1, <1>2, <1>3, <1>4, <1>6, <1>8
<1>10. c[1] = s[1] /\ c[2] = s[2] /\ c[3] = s[3]
  BY <1>1, <1>2, <1>6, <1>8, <1>9
<1>11. ASSUME NEW j \in 1..n PROVE c[3 + j] = t[j]
  <2>1. 3 + j \in 1..Len(v)
    BY <1>1, <1>9
  <2>2. v[3 + j] = t[j]
    BY <1>2, <1>3, <1>6
  <2> QED
    BY <1>8, <2>1, <2>2
<1>12. c[n + 4] = u[1] /\ c[n + 5] = u[2] /\ c[n + 6] = u[3] /\ c[n + 7] = u[4]
  <2>1. \A k \in 1..4 : c[(n + 3) + k] = u[k]
    BY <1>4, <1>8, <1>9
  <2>2. (n + 3) + 1 = n + 4 /\ (n + 3) + 2 = n + 5 /\ (n + 3) + 3 = n + 6 /\ (n + 3) + 4 = n + 7
    BY <1>1
  <2> QED
    BY <2>1, <2>2
<1> QED
  BY <1>2, <1>3, <1>4, <1>9, <1>10, <1>11, <1>12 DEF c

\* The children of the two tests differ in their queue and in the number of messages.
\* The code of a child.
ChildCalls(i, n, p) ==
  <<Open(i, {})>> \o Times(n, Receive) \o <<Close(Own)>> \o Times(p + 1, Nap) \o <<Exit>>

ChildCall(i, n, p, k) ==
  IF k = 1 THEN Open(i, {})
  ELSE IF k <= n + 1 THEN Receive
  ELSE IF k = n + 2 THEN Close(Own)
  ELSE IF k <= n + p + 3 THEN Nap ELSE Exit

LEMMA ChildCode ==
  ASSUME NEW i \in Ids, NEW n \in Nat, NEW p \in Nat, NEW c, c = ChildCalls(i, n, p)
  PROVE  /\ Len(c) = n + p + 4
         /\ \A k \in 1..n + p + 4 : c[k] = ChildCall(i, n, p, k)
<1> DEFINE s == <<Open(i, {})>>
           t == Times(n, Receive)
           u == <<Close(Own)>>
           v == Times(p + 1, Nap)
           w == <<Exit>>
<1>1. /\ s \in Seq(Calls) /\ Len(s) = 1 /\ s[1] = Open(i, {})
      /\ u \in Seq(Calls) /\ Len(u) = 1 /\ u[1] = Close(Own)
      /\ w \in Seq(Calls) /\ Len(w) = 1 /\ w[1] = Exit
  BY CallsTyped
<1>2. /\ t \in Seq(Calls) /\ Len(t) = n /\ \A k \in 1..n : t[k] = Receive
      /\ v \in Seq(Calls) /\ Len(v) = p + 1 /\ \A k \in 1..p + 1 : v[k] = Nap
  <2>1. Receive \in Calls /\ Nap \in Calls
    BY CallsTyped
  <2>2. p + 1 \in Nat
    OBVIOUS
  <2> QED
    BY <2>1, <2>2, TimesIs
<1> HIDE DEF s, t, u, v, w
<1> DEFINE x == s \o t
           y == x \o u
           z == y \o v
<1>3. c = z \o w
  BY DEF ChildCalls, s, t, u, v, w
<1>4. /\ x \in Seq(Calls) /\ Len(x) = Len(s) + Len(t)
      /\ \A k \in 1..Len(s) : x[k] = s[k]
      /\ \A k \in 1..Len(t) : x[Len(s) + k] = t[k]
  <2>1. s \in Seq(Calls) /\ t \in Seq(Calls)
    BY <1>1, <1>2
  <2> QED
    BY <2>1, Joined
<1> HIDE DEF x
<1>5. /\ y \in Seq(Calls) /\ Len(y) = Len(x) + Len(u)
      /\ \A k \in 1..Len(x) : y[k] = x[k]
      /\ \A k \in 1..Len(u) : y[Len(x) + k] = u[k]
  <2>1. x \in Seq(Calls) /\ u \in Seq(Calls)
    BY <1>1, <1>4
  <2> QED
    BY <2>1, Joined
<1> HIDE DEF y
<1>6. /\ z \in Seq(Calls) /\ Len(z) = Len(y) + Len(v)
      /\ \A k \in 1..Len(y) : z[k] = y[k]
      /\ \A k \in 1..Len(v) : z[Len(y) + k] = v[k]
  <2>1. y \in Seq(Calls) /\ v \in Seq(Calls)
    BY <1>2, <1>5
  <2> QED
    BY <2>1, Joined
<1> HIDE DEF z
<1>7. /\ Len(c) = Len(z) + Len(w)
      /\ \A k \in 1..Len(z) : c[k] = z[k]
      /\ \A k \in 1..Len(w) : c[Len(z) + k] = w[k]
  <2>1. z \in Seq(Calls) /\ w \in Seq(Calls)
    BY <1>1, <1>3, <1>6
  <2>2. /\ Len(z \o w) = Len(z) + Len(w)
        /\ \A k \in 1..Len(z) : (z \o w)[k] = z[k]
        /\ \A k \in 1..Len(w) : (z \o w)[Len(z) + k] = w[k]
    BY <2>1, Joined
  <2> QED
    BY <2>2, <1>3
<1>8. Len(x) = n + 1 /\ Len(y) = n + 2 /\ Len(z) = n + p + 3 /\ Len(c) = n + p + 4
  BY <1>1, <1>2, <1>4, <1>5, <1>6, <1>7
<1>9. \A k \in 1..n + 2 : c[k] = y[k]
  BY <1>6, <1>7, <1>8
<1>10. \A k \in 1..n + 1 : c[k] = x[k]
  BY <1>5, <1>8, <1>9
<1>11. c[1] = s[1]
  BY <1>1, <1>4, <1>10
<1>12. ASSUME NEW k \in 1..n PROVE c[1 + k] = t[k]
  <2>1. 1 + k \in 1..n + 1
    OBVIOUS
  <2> QED
    BY <1>1, <1>2, <1>4, <1>10, <2>1
<1>13. c[n + 2] = u[1]
  <2>1. y[(n + 1) + 1] = u[1] /\ (n + 1) + 1 = n + 2 /\ n + 2 \in 1..n + 2
    BY <1>1, <1>5, <1>8
  <2> QED
    BY <1>9, <2>1
<1>14. ASSUME NEW k \in 1..p + 1 PROVE c[n + 2 + k] = v[k]
  <2>1. n + 2 + k \in 1..n + p + 3
    OBVIOUS
  <2>2. z[n + 2 + k] = v[k]
    BY <1>2, <1>6, <1>8
  <2> QED
    BY <1>7, <1>8, <2>1, <2>2
<1>15. c[n + p + 4] = w[1]
  <2>1. c[(n + p + 3) + 1] = w[1] /\ (n + p + 3) + 1 = n + p + 4
    BY <1>1, <1>7, <1>8
  <2> QED
    BY <2>1
<1>16. ASSUME NEW k \in 1..n + p + 4
       PROVE  c[k] = ChildCall(i, n, p, k)
  <2>1. CASE k = 1
    BY <1>1, <1>11, <2>1 DEF ChildCall
  <2>2. CASE k \in 2..n + 1
    <3>1. k - 1 \in 1..n /\ 1 + (k - 1) = k
      BY <2>2
    <3>2. c[1 + (k - 1)] = t[k - 1]
      BY <1>12, <3>1
    <3> QED
      BY <1>2, <2>2, <3>1, <3>2 DEF ChildCall
  <2>3. CASE k = n + 2
    BY <1>1, <1>13, <2>3 DEF ChildCall
  <2>4. CASE k \in n + 3..n + p + 3
    <3>1. k - n - 2 \in 1..p + 1 /\ n + 2 + (k - n - 2) = k
      BY <2>4
    <3>2. c[n + 2 + (k - n - 2)] = v[k - n - 2]
      BY <1>14, <3>1
    <3> QED
      BY <1>2, <2>4, <3>1, <3>2 DEF ChildCall
  <2>5. CASE k = n + p + 4
    BY <1>1, <1>15, <2>5 DEF ChildCall
  <2> QED
    BY <2>1, <2>2, <2>3, <2>4, <2>5
<1> QED
  BY <1>8, <1>16

LEMMA StressCode ==
  LET c == InitOfStress
      l == 1 + N * (M + 1)
  IN  /\ N * (M + 1) \in Nat
      /\ Len(c) = l + N + P + P + N + 1
      /\ c[1] = Spawn
      /\ \A i \in 0..N - 1 :
           /\ i * (M + 1) \in Nat /\ i * (M + 1) + (M + 1) <= N * (M + 1)
           /\ c[2 + i * (M + 1)] = Open(i, {Mail!CREATE})
           /\ \A j \in 1..M : c[2 + i * (M + 1) + j] = Send(i, buf[i][j])
           /\ c[l + i + 1] = Close(i)
           /\ c[l + N + P + P + i + 1] = Unlink(i)
      /\ \A p \in 1..P : c[l + N + p] = Spawn /\ c[l + N + P + p] = Wait
      /\ c[l + N + P + P + N + 1] = Shutdown
<1> DEFINE c == InitOfStress
           K == M + 1
           l == 1 + N * K
           Fill(i) == <<Open(i, {Mail!CREATE})>> \o [j \in 1..M |-> Send(i, buf[i][j])]
           rows == [k \in 1..N |-> Fill(k - 1)]
           s1 == <<Spawn>>
           s2 == FlattenSeq(rows)
           s3 == [k \in 1..N |-> Close(k - 1)]
           s4 == Times(P, Spawn)
           s5 == Times(P, Wait)
           s6 == [k \in 1..N |-> Unlink(k - 1)]
           s7 == <<Shutdown>>
<1>1. /\ N \in Nat \ {0} /\ P \in Nat /\ M \in Nat \ {0} /\ \A i \in 0..N - 1 : i \in Ids
      /\ K \in Nat \ {0} /\ N * K \in Nat
  BY NumbersTyped
<1>2. \A k \in 1..N : k - 1 \in Ids /\ k - 1 \in 0..N - 1
  BY <1>1
<1>3. ASSUME NEW i \in Ids
      PROVE  /\ Fill(i) \in Seq(Calls) /\ Len(Fill(i)) = K
             /\ Fill(i)[1] = Open(i, {Mail!CREATE})
             /\ \A j \in 1..M : Fill(i)[1 + j] = Send(i, buf[i][j])
  <2> DEFINE u == <<Open(i, {Mail!CREATE})>>
             v == [j \in 1..M |-> Send(i, buf[i][j])]
  <2>1. u \in Seq(Calls) /\ Len(u) = 1 /\ u[1] = Open(i, {Mail!CREATE})
    BY CallsTyped
  <2>2. v \in Seq(Calls) /\ Len(v) = M /\ \A j \in 1..M : v[j] = Send(i, buf[i][j])
    <3>1. \A j \in 1..M : Send(i, buf[i][j]) \in Calls
      BY NumbersTyped, CallsTyped
    <3> QED
      BY <1>1, <3>1
  <2> HIDE DEF u, v
  <2>3. /\ u \o v \in Seq(Calls) /\ Len(u \o v) = Len(u) + Len(v)
        /\ \A k \in 1..Len(u) : (u \o v)[k] = u[k]
        /\ \A k \in 1..Len(v) : (u \o v)[Len(u) + k] = v[k]
    <3>1. u \in Seq(Calls) /\ v \in Seq(Calls)
      BY <2>1, <2>2
    <3> QED
      BY <3>1, Joined
  <2>4. Fill(i) = u \o v
    BY DEF u, v
  <2> HIDE DEF Fill
  <2> QED
    BY <1>1, <2>1, <2>2, <2>3, <2>4
<1> HIDE DEF Fill
<1>4. rows \in Seq(Seq(Calls)) /\ Len(rows) = N /\ \A k \in 1..N : rows[k] = Fill(k - 1)
  BY <1>1, <1>2, <1>3
<1> HIDE DEF rows
<1>5. /\ s2 \in Seq(Calls) /\ Len(s2) = N * K
      /\ \A k \in 1..N, j \in 1..K : s2[(k - 1) * K + j] = rows[k][j]
  <2>1. \A k \in 1..N : Len(rows[k]) = K
    BY <1>2, <1>3, <1>4
  <2> HIDE DEF K, s2
  <2>2. /\ FlattenSeq(rows) \in Seq(Calls) /\ Len(FlattenSeq(rows)) = N * K
        /\ \A k \in 1..N, j \in 1..K : FlattenSeq(rows)[(k - 1) * K + j] = rows[k][j]
    <3>1. /\ N \in Nat \ {0} /\ K \in Nat \ {0}
          /\ rows \in Seq(Seq(Calls)) /\ Len(rows) = N
      BY <1>1, <1>4
    <3> QED
      BY <2>1, <3>1, FlattenRows
  <2> QED
    BY <2>2 DEF s2
<1>6. /\ s1 \in Seq(Calls) /\ Len(s1) = 1 /\ s1[1] = Spawn
      /\ s7 \in Seq(Calls) /\ Len(s7) = 1 /\ s7[1] = Shutdown
  BY CallsTyped
<1>7. /\ s3 \in Seq(Calls) /\ Len(s3) = N /\ \A k \in 1..N : s3[k] = Close(k - 1)
      /\ s6 \in Seq(Calls) /\ Len(s6) = N /\ \A k \in 1..N : s6[k] = Unlink(k - 1)
  BY <1>1, <1>2, CallsTyped
<1>8. /\ s4 \in Seq(Calls) /\ Len(s4) = P /\ \A k \in 1..P : s4[k] = Spawn
      /\ s5 \in Seq(Calls) /\ Len(s5) = P /\ \A k \in 1..P : s5[k] = Wait
  <2>1. Spawn \in Calls /\ Wait \in Calls
    BY CallsTyped
  <2> QED
    BY <1>1, <2>1, TimesIs
<1>9. c = s1 \o s2 \o s3 \o s4 \o s5 \o s6 \o s7
  BY DEF InitOfStress, rows, Fill
<1> HIDE DEF c, s1, s2, s3, s4, s5, s6, s7
<1> DEFINE u2 == s1 \o s2
           u3 == u2 \o s3
           u4 == u3 \o s4
           u5 == u4 \o s5
           u6 == u5 \o s6
           u7 == u6 \o s7
<1>10. c = u7
  BY <1>9
<1>11. /\ u2 \in Seq(Calls) /\ Len(u2) = Len(s1) + Len(s2)
       /\ \A k \in 1..Len(s1) : u2[k] = s1[k]
       /\ \A k \in 1..Len(s2) : u2[Len(s1) + k] = s2[k]
  <2>1. s1 \in Seq(Calls) /\ s2 \in Seq(Calls)
    BY <1>5, <1>6
  <2> QED
    BY <2>1, Joined
<1> HIDE DEF u2
<1>12. /\ u3 \in Seq(Calls) /\ Len(u3) = Len(u2) + Len(s3)
       /\ \A k \in 1..Len(u2) : u3[k] = u2[k]
       /\ \A k \in 1..Len(s3) : u3[Len(u2) + k] = s3[k]
  <2>1. u2 \in Seq(Calls) /\ s3 \in Seq(Calls)
    BY <1>11, <1>7
  <2> QED
    BY <2>1, Joined
<1> HIDE DEF u3
<1>13. /\ u4 \in Seq(Calls) /\ Len(u4) = Len(u3) + Len(s4)
       /\ \A k \in 1..Len(u3) : u4[k] = u3[k]
       /\ \A k \in 1..Len(s4) : u4[Len(u3) + k] = s4[k]
  <2>1. u3 \in Seq(Calls) /\ s4 \in Seq(Calls)
    BY <1>12, <1>8
  <2> QED
    BY <2>1, Joined
<1> HIDE DEF u4
<1>14. /\ u5 \in Seq(Calls) /\ Len(u5) = Len(u4) + Len(s5)
       /\ \A k \in 1..Len(u4) : u5[k] = u4[k]
       /\ \A k \in 1..Len(s5) : u5[Len(u4) + k] = s5[k]
  <2>1. u4 \in Seq(Calls) /\ s5 \in Seq(Calls)
    BY <1>13, <1>8
  <2> QED
    BY <2>1, Joined
<1> HIDE DEF u5
<1>15. /\ u6 \in Seq(Calls) /\ Len(u6) = Len(u5) + Len(s6)
       /\ \A k \in 1..Len(u5) : u6[k] = u5[k]
       /\ \A k \in 1..Len(s6) : u6[Len(u5) + k] = s6[k]
  <2>1. u5 \in Seq(Calls) /\ s6 \in Seq(Calls)
    BY <1>14, <1>7
  <2> QED
    BY <2>1, Joined
<1> HIDE DEF u6
<1>16. /\ u7 \in Seq(Calls) /\ Len(u7) = Len(u6) + Len(s7)
       /\ \A k \in 1..Len(u6) : u7[k] = u6[k]
       /\ \A k \in 1..Len(s7) : u7[Len(u6) + k] = s7[k]
  <2>1. u6 \in Seq(Calls) /\ s7 \in Seq(Calls)
    BY <1>15, <1>6
  <2> QED
    BY <2>1, Joined
<1> HIDE DEF u7
<1> DEFINE L == N * K
<1>17. /\ L \in Nat /\ Len(u2) = 1 + L /\ Len(u3) = 1 + L + N /\ Len(u4) = 1 + L + N + P
       /\ Len(u5) = 1 + L + N + P + P /\ Len(u6) = 1 + L + N + P + P + N
       /\ Len(c) = 1 + L + N + P + P + N + 1
  BY <1>1, <1>5, <1>6, <1>7, <1>8, <1>10, <1>11, <1>12, <1>13, <1>14, <1>15, <1>16
<1>18. \A i \in 0..N - 1 : i * K \in Nat /\ i * K + K <= L
  BY <1>1, RowOrder
<1>19. \A i \in 0..N - 1, j \in 1..K : s2[i * K + j] = Fill(i)[j]
  <2> SUFFICES ASSUME NEW i \in 0..N - 1, NEW j \in 1..K
               PROVE  s2[i * K + j] = Fill(i)[j]
    OBVIOUS
  <2>1. i + 1 \in 1..N /\ (i + 1) - 1 = i
    BY <1>1
  <2> HIDE DEF K
  <2> QED
    BY <1>4, <1>5, <2>1
<1> HIDE DEF K, L
<1>20. \A k \in 1..1 + L + N + P + P + N : c[k] = u6[k]
  BY <1>10, <1>16, <1>17
<1>21. \A k \in 1..1 + L + N + P + P : c[k] = u5[k]
  BY <1>1, <1>15, <1>17, <1>20
<1>22. \A k \in 1..1 + L + N + P : c[k] = u4[k]
  BY <1>1, <1>14, <1>17, <1>21
<1>23. \A k \in 1..1 + L + N : c[k] = u3[k]
  BY <1>1, <1>13, <1>17, <1>22
<1>24. \A k \in 1..1 + L : c[k] = u2[k]
  BY <1>1, <1>12, <1>17, <1>23
<1>25. c[1] = Spawn
  BY <1>6, <1>11, <1>17, <1>24
<1>26. \A k \in 1..L : c[1 + k] = s2[k]
  <2> TAKE k \in 1..L
  <2>1. 1 + k \in 1..1 + L
    BY <1>17
  <2>2. Len(s1) = 1 /\ Len(s2) = L
    BY <1>5, <1>6 DEF L
  <2>3. u2[1 + k] = s2[k]
    BY <1>11, <2>2
  <2> QED
    BY <1>24, <2>1, <2>3
<1>27. \A k \in 1..N : c[1 + L + k] = Close(k - 1)
  <2> TAKE k \in 1..N
  <2>1. 1 + L + k \in 1..1 + L + N
    BY <1>1, <1>17
  <2>2. u3[1 + L + k] = s3[k]
    BY <1>7, <1>12, <1>17
  <2> QED
    BY <1>7, <1>23, <2>1, <2>2
<1>28. \A p \in 1..P : c[1 + L + N + p] = Spawn
  <2> TAKE p \in 1..P
  <2>1. 1 + L + N + p \in 1..1 + L + N + P
    BY <1>1, <1>17
  <2>2. u4[1 + L + N + p] = s4[p]
    BY <1>8, <1>13, <1>17
  <2> QED
    BY <1>8, <1>22, <2>1, <2>2
<1>29. \A p \in 1..P : c[1 + L + N + P + p] = Wait
  <2> TAKE p \in 1..P
  <2>1. 1 + L + N + P + p \in 1..1 + L + N + P + P
    BY <1>1, <1>17
  <2>2. u5[1 + L + N + P + p] = s5[p]
    BY <1>8, <1>14, <1>17
  <2> QED
    BY <1>8, <1>21, <2>1, <2>2
<1>30. \A k \in 1..N : c[1 + L + N + P + P + k] = Unlink(k - 1)
  <2> TAKE k \in 1..N
  <2>1. 1 + L + N + P + P + k \in 1..1 + L + N + P + P + N
    BY <1>1, <1>17
  <2>2. u6[1 + L + N + P + P + k] = s6[k]
    BY <1>7, <1>15, <1>17
  <2> QED
    BY <1>7, <1>20, <2>1, <2>2
<1>31. c[1 + L + N + P + P + N + 1] = Shutdown
  BY <1>6, <1>10, <1>16, <1>17
<1>32. ASSUME NEW i \in 0..N - 1
       PROVE  /\ c[2 + i * K] = Open(i, {Mail!CREATE})
              /\ \A j \in 1..M : c[2 + i * K + j] = Send(i, buf[i][j])
              /\ c[1 + L + i + 1] = Close(i)
              /\ c[1 + L + N + P + P + i + 1] = Unlink(i)
  <2>1. i + 1 \in 1..N /\ (i + 1) - 1 = i /\ i \in Nat /\ i \in Ids
    BY <1>1
  <2>2. c[1 + L + (i + 1)] = Close(i) /\ c[1 + L + N + P + P + (i + 1)] = Unlink(i)
    BY <1>27, <1>30, <2>1
  <2>3. 1 + L + (i + 1) = 1 + L + i + 1 /\ 1 + L + N + P + P + (i + 1) = 1 + L + N + P + P + i + 1
    BY <1>1, <1>17, <2>1
  <2> DEFINE r == i * K
  <2>4. r \in Nat /\ r + K <= L /\ \A j \in 1..K : s2[r + j] = Fill(i)[j]
    BY <1>18, <1>19
  <2> HIDE DEF r
  <2>5. ASSUME NEW j \in 1..K PROVE c[1 + (r + j)] = Fill(i)[j]
    <3>1. r + j \in 1..L
      <4>1. K \in Nat /\ L \in Nat
        BY <1>1, <1>17
      <4> QED
        BY <2>4, <4>1
    <3> QED
      BY <1>26, <2>4, <3>1
  <2>6. K = M + 1
    BY DEF K
  <2>7. c[2 + r] = Open(i, {Mail!CREATE})
    <3>1. 1 \in 1..K /\ 1 + (r + 1) = 2 + r
      BY <1>1, <2>4, <2>6
    <3> QED
      BY <1>3, <2>1, <2>5, <3>1
  <2>8. ASSUME NEW j \in 1..M PROVE c[2 + r + j] = Send(i, buf[i][j])
    <3>1. 1 + j \in 1..K /\ 1 + (r + (1 + j)) = 2 + r + j
      BY <1>1, <2>4, <2>6
    <3> QED
      BY <1>3, <2>1, <2>5, <3>1
  <2> QED
    BY <2>2, <2>3, <2>7, <2>8 DEF r
<1>33. L = N * (M + 1) /\ K = M + 1
  BY DEF K, L
<1>34. N * (M + 1) \in Nat /\ Len(c) = 1 + N * (M + 1) + N + P + P + N + 1
  BY <1>17, <1>33
<1>35. \A i \in 0..N - 1 : i * (M + 1) \in Nat /\ i * (M + 1) + (M + 1) <= N * (M + 1)
  BY <1>18, <1>33
<1> QED
  BY <1>25, <1>28, <1>29, <1>31, <1>32, <1>33, <1>34, <1>35 DEF c

(* Where the calls of init are, in the test t.  Init opens, fills and closes its *)
(* queues, spawns the sleeper and one child for each that has to be received     *)
(* from, waits for the children, and unlinks the queues.                         *)
Tests == {"blocking", "stress"}

Kids(t)     == IF t = "blocking" THEN 1 ELSE P
QueueIds(t) == IF t = "blocking" THEN {0} ELSE 0..N - 1
Size(t)     == IF t = "blocking" THEN M_blocking ELSE M
Filled      == 1 + N * (M + 1)     \* stress: the last send

SpawnPos(t, p) ==
  IF p = 1 THEN 1 ELSE IF t = "blocking" THEN 3 ELSE Filled + N + (p - 1)
OpenPos(t, i)    == IF t = "blocking" THEN 2 ELSE 2 + i * (M + 1)
SendPos(t, i, j) == IF t = "blocking" THEN 3 + j ELSE 2 + i * (M + 1) + j
ClosePos(t, i)   == IF t = "blocking" THEN M_blocking + 5 ELSE Filled + i + 1
WaitPos(t, w)    == IF t = "blocking" THEN M_blocking + 3 + w ELSE Filled + N + P + w
UnlinkPos(t, i)  == IF t = "blocking" THEN M_blocking + 6 ELSE Filled + N + P + P + i + 1
Last_(t)         == IF t = "blocking" THEN M_blocking + 7 ELSE Filled + N + P + P + N + 1

LEMMA InitCode ==
  ASSUME NEW t \in Tests
  PROVE  LET c == Program[t][0] IN
         /\ Len(c) = Last_(t)
         /\ \A p \in 1..Kids(t) + 1 : c[SpawnPos(t, p)] = Spawn
         /\ \A i \in QueueIds(t) :
              /\ c[OpenPos(t, i)] = Open(i, {Mail!CREATE})
              /\ \A j \in 1..Size(t) : c[SendPos(t, i, j)] =
                   Send(IF t = "blocking" THEN Own ELSE i, buf[i][j])
              /\ c[ClosePos(t, i)] = Close(IF t = "blocking" THEN Own ELSE i)
              /\ c[UnlinkPos(t, i)] = Unlink(i)
         /\ \A w \in 1..Kids(t) : c[WaitPos(t, w)] = Wait
         /\ c[Last_(t)] = Shutdown
<1>1. Program[t][0] = IF t = "blocking" THEN InitOfBlocking ELSE InitOfStress
  BY ProcessesAssumption DEF Program, Pid, Tests
<1>2. CASE t = "blocking"
  <2>1. \A p \in 1..Kids(t) + 1 : p = 1 \/ p = 2
    BY <1>2 DEF Kids
  <2>2. \A w \in 1..Kids(t) : w = 1
    BY <1>2 DEF Kids
  <2>3. M_blocking \in Nat /\ M_blocking + 3 + 1 = M_blocking + 4
    BY NumbersTyped
  <2> QED
    BY <1>1, <1>2, <2>1, <2>2, <2>3, BlockingCode
       DEF Last_, SpawnPos, OpenPos, SendPos, ClosePos, WaitPos, UnlinkPos, QueueIds, Size
<1>3. CASE t = "stress"
  <2>1. ASSUME NEW p \in 1..Kids(t) + 1
        PROVE  InitOfStress[SpawnPos(t, p)] = Spawn
    <3>1. CASE p = 1
      BY <1>3, <3>1, StressCode DEF SpawnPos
    <3>2. CASE p # 1
      <4>1. p - 1 \in 1..P
        BY <1>3, <3>2, NumbersTyped DEF Kids
      <4> QED
        BY <1>3, <3>2, <4>1, StressCode DEF SpawnPos, Filled
    <3> QED
      BY <3>1, <3>2
  <2>2. \A w \in 1..Kids(t) : InitOfStress[WaitPos(t, w)] = Wait
    BY <1>3, StressCode DEF Kids, WaitPos, Filled
  <2>3. ASSUME NEW i \in QueueIds(t)
        PROVE  /\ InitOfStress[OpenPos(t, i)] = Open(i, {Mail!CREATE})
               /\ \A j \in 1..Size(t) : InitOfStress[SendPos(t, i, j)] = Send(i, buf[i][j])
               /\ InitOfStress[ClosePos(t, i)] = Close(i)
               /\ InitOfStress[UnlinkPos(t, i)] = Unlink(i)
    BY <1>3, StressCode DEF QueueIds, OpenPos, SendPos, Size, ClosePos, UnlinkPos, Filled
  <2>4. Len(InitOfStress) = Last_(t) /\ InitOfStress[Last_(t)] = Shutdown
    BY <1>3, StressCode DEF Last_, Filled
  <2> QED
    BY <1>1, <1>3, <2>1, <2>2, <2>3, <2>4
<1> QED
  BY <1>2, <1>3 DEF Tests

\* The numbers, and what is where.
LEMMA TestNumbers ==
  ASSUME NEW t \in Tests
  PROVE  /\ Kids(t) \in Nat \ {0} /\ Size(t) \in Nat \ {0} /\ Last_(t) \in Nat /\ Filled \in Nat
         /\ \A i \in QueueIds(t) :
              /\ i \in Nat /\ i \in Ids /\ buf[i] \in Seq(Msgs) /\ IsInjective(buf[i])
              /\ \A j \in 1..Size(t) : j \in 1..Len(buf[i]) /\ buf[i][j] \in Msgs
         /\ \A p \in 2..Kids(t) + 1 : (IF t = "blocking" THEN 0 ELSE p) \in QueueIds(t)
<1>1. N * (M + 1) \in Nat
  BY StressCode
<1>2. Filled \in Nat
  BY <1>1 DEF Filled
<1>3. CASE t = "blocking"
  BY <1>2, <1>3, NumbersTyped DEF Kids, Size, Last_, QueueIds
<1>4. CASE t = "stress"
  <2>1. Kids(t) \in Nat \ {0} /\ Size(t) \in Nat \ {0} /\ Last_(t) \in Nat
    BY <1>2, <1>4, NumbersTyped DEF Kids, Size, Last_
  <2>2. \A i \in QueueIds(t) : i \in Nat /\ i \in Ids
    BY <1>4, NumbersTyped DEF QueueIds
  <2>3. \A p \in 2..Kids(t) + 1 : p \in QueueIds(t)
    BY <1>4, NumbersTyped DEF QueueIds, Kids
  <2> QED
    BY <1>2, <1>4, <2>1, <2>2, <2>3, NumbersTyped DEF Size
<1> QED
  BY <1>3, <1>4 DEF Tests

LEMMA PositionsTyped ==
  ASSUME NEW t \in Tests
  PROVE  /\ \A p \in 1..Kids(t) + 1 : SpawnPos(t, p) \in 1..Last_(t) - 1
         /\ \A w \in 1..Kids(t) : WaitPos(t, w) \in 1..Last_(t) - 1
         /\ \A i \in QueueIds(t) :
              /\ OpenPos(t, i) \in 1..Last_(t) - 1 /\ ClosePos(t, i) \in 1..Last_(t) - 1
              /\ UnlinkPos(t, i) \in 1..Last_(t) - 1
              /\ \A j \in 1..Size(t) : SendPos(t, i, j) \in 1..Last_(t) - 1
<1>1. CASE t = "blocking"
  <2>1. M_blocking \in Nat /\ Last_(t) = M_blocking + 7 /\ Kids(t) = 1 /\ Size(t) = M_blocking
    BY <1>1, NumbersTyped DEF Kids, Size, Last_
  <2>2. \A p \in 1..2 : SpawnPos(t, p) \in {1, 3}
    BY <1>1 DEF SpawnPos
  <2>3. \A w \in 1..1 : WaitPos(t, w) = M_blocking + 4
    BY <1>1, <2>1 DEF WaitPos
  <2>4. \A i \in QueueIds(t) :
          /\ OpenPos(t, i) = 2 /\ ClosePos(t, i) = M_blocking + 5
          /\ UnlinkPos(t, i) = M_blocking + 6
          /\ \A j \in 1..M_blocking : SendPos(t, i, j) = 3 + j
    BY <1>1 DEF OpenPos, ClosePos, UnlinkPos, SendPos
  <2> QED
    BY <2>1, <2>2, <2>3, <2>4
<1>2. CASE t = "stress"
  <2>1. /\ N \in Nat /\ P \in Nat /\ M \in Nat /\ N >= 1 /\ Filled \in Nat /\ Filled >= 1
        /\ Filled = 1 + N * (M + 1)
    <3>1. N * (M + 1) \in Nat
      BY StressCode
    <3>2. Filled = 1 + N * (M + 1)
      BY DEF Filled
    <3> QED
      BY <3>1, <3>2, NumbersTyped
  <2>2. /\ \A p \in 1..Kids(t) + 1 : SpawnPos(t, p) \in 1..Last_(t) - 1
        /\ \A w \in 1..Kids(t) : WaitPos(t, w) \in 1..Last_(t) - 1
    BY <1>2, <2>1 DEF Kids, SpawnPos, WaitPos, Last_
  <2>3. ASSUME NEW i \in QueueIds(t)
        PROVE  ClosePos(t, i) \in 1..Last_(t) - 1 /\ UnlinkPos(t, i) \in 1..Last_(t) - 1
    BY <1>2, <2>1 DEF QueueIds, ClosePos, UnlinkPos, Last_
  <2>4. ASSUME NEW i \in QueueIds(t)
        PROVE  /\ OpenPos(t, i) \in 1..Last_(t) - 1
               /\ \A j \in 1..Size(t) : SendPos(t, i, j) \in 1..Last_(t) - 1
    <3>1. i * (M + 1) \in Nat /\ i * (M + 1) + (M + 1) <= N * (M + 1) /\ N * (M + 1) \in Nat
      BY <1>2, StressCode DEF QueueIds
    <3> DEFINE r == i * (M + 1)
    <3>2. r \in Nat /\ r + (M + 1) + 1 <= Filled
      BY <2>1, <3>1
    <3>3. OpenPos(t, i) = 2 + r /\ \A j \in 1..M : SendPos(t, i, j) = 2 + r + j
      BY <1>2 DEF OpenPos, SendPos
    <3> HIDE DEF r
    <3>4. Size(t) = M /\ Last_(t) - 1 = Filled + N + P + P + N
      BY <1>2, <2>1 DEF Size, Last_
    <3> QED
      BY <2>1, <3>2, <3>3, <3>4
  <2> QED
    BY <2>2, <2>3, <2>4
<1> QED
  BY <1>1, <1>2 DEF Tests

\* In which order they are made.
LEMMA Layout ==
  ASSUME NEW t \in Tests
  PROVE  /\ \A p, q \in 1..Kids(t) + 1 : p < q => SpawnPos(t, p) < SpawnPos(t, q)
         /\ \A w \in 1..Kids(t) :
              /\ WaitPos(t, w) = WaitPos(t, 1) + (w - 1)
              /\ \A p \in 1..Kids(t) + 1 : SpawnPos(t, p) < WaitPos(t, w)
              /\ \A i \in QueueIds(t) : WaitPos(t, w) < UnlinkPos(t, i)
         /\ \A i \in QueueIds(t) :
              /\ \A p \in 2..Kids(t) + 1 : OpenPos(t, i) < SpawnPos(t, p)
              /\ ClosePos(t, i) < UnlinkPos(t, i)
              /\ \A j \in 1..Size(t) : /\ OpenPos(t, i) < SendPos(t, i, j)
                                       /\ SendPos(t, i, j) < ClosePos(t, i)
              /\ \A j, k \in 1..Size(t) : j < k => SendPos(t, i, j) < SendPos(t, i, k)
         /\ t = "stress" =>
              /\ \A i \in QueueIds(t) : SpawnPos(t, 1) < OpenPos(t, i)
              /\ \A i \in QueueIds(t), p \in 2..Kids(t) + 1 : ClosePos(t, i) < SpawnPos(t, p)
              /\ \A i, h \in QueueIds(t) : OpenPos(t, i) < ClosePos(t, h)
              /\ \A i, h \in QueueIds(t) : i < h => /\ OpenPos(t, i) < OpenPos(t, h)
                                                    /\ ClosePos(t, i) < ClosePos(t, h)
<1>1. CASE t = "blocking"
  BY <1>1, NumbersTyped DEF Kids, Size, QueueIds, SpawnPos, WaitPos, OpenPos, ClosePos, UnlinkPos, SendPos
<1>2. CASE t = "stress"
  <2>1. /\ N \in Nat /\ P \in Nat /\ M \in Nat /\ N >= 1 /\ P >= 1 /\ Filled \in Nat /\ Filled >= 1
    BY NumbersTyped, TestNumbers, StressCode DEF Filled
  <2> DEFINE r(i) == i * (M + 1)
  <2>2. \A i \in QueueIds(t) : r(i) \in Nat /\ r(i) + (M + 1) + 1 <= Filled
    <3>1. \A i \in QueueIds(t) : r(i) \in Nat /\ r(i) + (M + 1) <= N * (M + 1) /\ N * (M + 1) \in Nat
      BY <1>2, StressCode DEF QueueIds
    <3>2. Filled = 1 + N * (M + 1)
      BY DEF Filled
    <3> HIDE DEF r
    <3> DEFINE L == N * (M + 1)
    <3>3. /\ \A i \in QueueIds(t) : r(i) \in Nat /\ r(i) + (M + 1) <= L /\ L \in Nat
          /\ Filled = 1 + L
      BY <3>1, <3>2
    <3> HIDE DEF L
    <3> QED
      BY <2>1, <3>3
  <2>3. \A i, h \in QueueIds(t) : i < h => r(i) < r(h)
    <3> SUFFICES ASSUME NEW i \in QueueIds(t), NEW h \in QueueIds(t), i < h
                 PROVE  i * (M + 1) < h * (M + 1)
      OBVIOUS
    <3>1. i \in Nat /\ h \in Nat /\ M + 1 \in Nat
      BY <1>2, <2>1 DEF QueueIds
    <3>2. i * (M + 1) \in Nat /\ h * (M + 1) \in Nat /\ i * (M + 1) + (M + 1) <= h * (M + 1)
      BY <3>1, RowOrder
    <3> QED
      BY <2>1, <3>2
  <2>4. \A i \in QueueIds(t) : /\ OpenPos(t, i) = 2 + r(i)
                               /\ \A j \in 1..M : SendPos(t, i, j) = 2 + r(i) + j
    BY <1>2 DEF OpenPos, SendPos
  <2> HIDE DEF r
  <2>5. \A i \in QueueIds(t) : i \in 0..N - 1
    BY <1>2 DEF QueueIds
  <2>6. /\ Kids(t) = P /\ Size(t) = M
        /\ \A p \in 1..P + 1 : SpawnPos(t, p) = IF p = 1 THEN 1 ELSE Filled + N + (p - 1)
        /\ \A w \in 1..P : WaitPos(t, w) = Filled + N + P + w
        /\ \A i : /\ ClosePos(t, i) = Filled + i + 1
                  /\ UnlinkPos(t, i) = Filled + N + P + P + i + 1
    BY <1>2 DEF Kids, Size, SpawnPos, WaitPos, ClosePos, UnlinkPos
  <2>7. \A p, q \in 1..P + 1 : p < q => SpawnPos(t, p) < SpawnPos(t, q)
    BY <2>1, <2>6
  <2>8. \A w \in 1..P : /\ WaitPos(t, w) = WaitPos(t, 1) + (w - 1)
                        /\ \A p \in 1..P + 1 : SpawnPos(t, p) < WaitPos(t, w)
                        /\ \A i \in QueueIds(t) : WaitPos(t, w) < UnlinkPos(t, i)
    BY <2>1, <2>5, <2>6
  <2>9. ASSUME NEW i \in QueueIds(t)
        PROVE  /\ \A p \in 2..P + 1 : OpenPos(t, i) < SpawnPos(t, p) /\ ClosePos(t, i) < SpawnPos(t, p)
               /\ ClosePos(t, i) < UnlinkPos(t, i) /\ SpawnPos(t, 1) < OpenPos(t, i)
               /\ \A j \in 1..M : /\ OpenPos(t, i) < SendPos(t, i, j)
                                  /\ SendPos(t, i, j) < ClosePos(t, i)
               /\ \A j, k \in 1..M : j < k => SendPos(t, i, j) < SendPos(t, i, k)
    BY <2>1, <2>2, <2>4, <2>5, <2>6
  <2>10. \A i, h \in QueueIds(t) : i < h => /\ OpenPos(t, i) < OpenPos(t, h)
                                            /\ ClosePos(t, i) < ClosePos(t, h)
    BY <2>1, <2>2, <2>3, <2>4, <2>5, <2>6
  <2>11. \A i, h \in QueueIds(t) : OpenPos(t, i) < ClosePos(t, h)
    BY <2>1, <2>2, <2>4, <2>5, <2>6
  <2> QED
    BY <2>6, <2>7, <2>8, <2>9, <2>10, <2>11
<1> QED
  BY <1>1, <1>2 DEF Tests

\* There are no others.
LEMMA NoOther ==
  ASSUME NEW t \in Tests, NEW k \in 1..Last_(t)
  PROVE  \/ \E p \in 1..Kids(t) + 1 : k = SpawnPos(t, p)
         \/ \E i \in QueueIds(t) : \/ k = OpenPos(t, i)
                                   \/ \E j \in 1..Size(t) : k = SendPos(t, i, j)
                                   \/ k = ClosePos(t, i)
                                   \/ k = UnlinkPos(t, i)
         \/ \E w \in 1..Kids(t) : k = WaitPos(t, w)
         \/ k = Last_(t)
<1>1. CASE t = "blocking"
  <2>1. /\ M_blocking \in Nat /\ Last_(t) = M_blocking + 7 /\ Size(t) = M_blocking /\ Kids(t) = 1
        /\ 0 \in QueueIds(t)
    BY <1>1, NumbersTyped DEF Last_, Size, Kids, QueueIds
  <2>2. /\ SpawnPos(t, 1) = 1 /\ SpawnPos(t, 2) = 3 /\ OpenPos(t, 0) = 2
        /\ \A j \in 1..M_blocking : SendPos(t, 0, j) = 3 + j
        /\ WaitPos(t, 1) = M_blocking + 4 /\ ClosePos(t, 0) = M_blocking + 5
        /\ UnlinkPos(t, 0) = M_blocking + 6
    BY <1>1, <2>1 DEF SpawnPos, OpenPos, SendPos, WaitPos, ClosePos, UnlinkPos
  <2>3. 1 \in 1..Kids(t) + 1 /\ 2 \in 1..Kids(t) + 1 /\ 1 \in 1..Kids(t)
    BY <2>1
  <2>4. CASE k \in 4..M_blocking + 3
    <3>1. k - 3 \in 1..Size(t) /\ k = 3 + (k - 3)
      BY <2>1, <2>4
    <3> QED
      BY <2>1, <2>2, <3>1
  <2>5. k \in 4..M_blocking + 3 \/ k \in {1, 2, 3, M_blocking + 4, M_blocking + 5, M_blocking + 6, M_blocking + 7}
    BY <2>1
  <2> QED
    BY <2>1, <2>2, <2>3, <2>4, <2>5
<1>2. CASE t = "stress"
  <2> DEFINE L == N * (M + 1)
  <2>1. /\ N \in Nat /\ P \in Nat /\ M \in Nat \ {0} /\ N >= 1 /\ P >= 1 /\ L \in Nat
        /\ Kids(t) = P /\ Size(t) = M /\ QueueIds(t) = 0..N - 1
    <3>1. L \in Nat
      BY StressCode
    <3> HIDE DEF L
    <3> QED
      BY <1>2, <3>1, NumbersTyped DEF Kids, Size, QueueIds
  <2>2. Filled = 1 + L /\ Last_(t) = Filled + N + P + P + N + 1
    BY <1>2 DEF Filled, Last_
  <2>3. CASE k \in 2..1 + L
    <3>1. k - 1 \in 1..N * (M + 1) /\ M + 1 \in Nat \ {0}
      BY <2>1, <2>3
    <3>2. PICK a \in 1..N, b \in 1..M + 1 : k - 1 = (a - 1) * (M + 1) + b
      <4> DEFINE K == M + 1
                 x == k - 1
      <4>1. x \in 1..N * K /\ K \in Nat \ {0} /\ N \in Nat
        BY <2>1, <3>1
      <4> HIDE DEF K, x
      <4>2. \E a \in 1..N : \E b \in 1..K : x = (a - 1) * K + b
        BY <4>1, RowOf
      <4> QED
        BY <4>2 DEF K, x
    <3> DEFINE i == a - 1
               r == i * (M + 1)
    <3>3. i \in QueueIds(t) /\ r \in Nat
      BY <2>1
    <3>4. OpenPos(t, i) = 2 + r /\ \A j \in 1..M : SendPos(t, i, j) = 2 + r + j
      BY <1>2 DEF OpenPos, SendPos
    <3>5. k - 1 = r + b
      BY <3>2
    <3> HIDE DEF i, r
    <3>6. CASE b = 1
      BY <3>3, <3>4, <3>5, <3>6
    <3>7. CASE b # 1
      <4>1. b - 1 \in 1..M /\ k = 2 + r + (b - 1)
        BY <2>1, <3>3, <3>5, <3>7
      <4>2. k = SendPos(t, i, b - 1)
        BY <3>4, <4>1
      <4> QED
        BY <2>1, <3>3, <4>1, <4>2
    <3> QED
      BY <3>6, <3>7
  <2> HIDE DEF L
  <2>4. CASE k = 1
    <3>1. 1 \in 1..Kids(t) + 1 /\ SpawnPos(t, 1) = 1
      BY <2>1 DEF SpawnPos
    <3> QED
      BY <2>4, <3>1
  <2>5. CASE k \in Filled + 1..Filled + N
    <3>1. k - Filled - 1 \in QueueIds(t) /\ k = Filled + (k - Filled - 1) + 1
      BY <2>1, <2>2, <2>5
    <3> QED
      BY <1>2, <3>1 DEF ClosePos
  <2>6. CASE k \in Filled + N + 1..Filled + N + P
    <3>1. k - Filled - N + 1 \in 2..Kids(t) + 1 /\ k = Filled + N + ((k - Filled - N + 1) - 1)
      BY <2>1, <2>2, <2>6
    <3>2. k = SpawnPos(t, k - Filled - N + 1)
      BY <1>2, <3>1 DEF SpawnPos
    <3>3. k - Filled - N + 1 \in 1..Kids(t) + 1
      BY <2>1, <3>1
    <3> QED
      BY <3>2, <3>3
  <2>7. CASE k \in Filled + N + P + 1..Filled + N + P + P
    <3>1. k - Filled - N - P \in 1..Kids(t) /\ k = Filled + N + P + (k - Filled - N - P)
      BY <2>1, <2>2, <2>7
    <3>2. k = WaitPos(t, k - Filled - N - P)
      BY <1>2, <3>1 DEF WaitPos
    <3> QED
      BY <3>1, <3>2
  <2>8. CASE k \in Filled + N + P + P + 1..Filled + N + P + P + N
    <3>1. /\ k - Filled - N - P - P - 1 \in QueueIds(t)
          /\ k = Filled + N + P + P + (k - Filled - N - P - P - 1) + 1
      BY <2>1, <2>2, <2>8
    <3> QED
      BY <1>2, <3>1 DEF UnlinkPos
  <2>9. \/ k = 1 \/ k \in 2..1 + L \/ k \in Filled + 1..Filled + N
        \/ k \in Filled + N + 1..Filled + N + P \/ k \in Filled + N + P + 1..Filled + N + P + P
        \/ k \in Filled + N + P + P + 1..Filled + N + P + P + N
        \/ k = Last_(t)
    BY <2>1, <2>2
  <2> QED
    BY <2>3, <2>4, <2>5, <2>6, <2>7, <2>8, <2>9
<1> QED
  BY <1>1, <1>2 DEF Tests

\* The queue of the child p.
ChildQueue(t, p) == IF t = "blocking" THEN 0 ELSE p

LEMMA ChildProgram ==
  ASSUME NEW t \in Tests, NEW p \in Pid, p \in 2..Kids(t) + 1
  PROVE  LET c == Program[t][p] IN
         /\ Len(c) = Size(t) + p + 4
         /\ \A k \in 1..Size(t) + p + 4 : c[k] = ChildCall(ChildQueue(t, p), Size(t), p, k)
<1>1. /\ p \in Nat /\ p # 0 /\ p # 1 /\ Size(t) \in Nat /\ Kids(t) \in Nat
      /\ ChildQueue(t, p) \in Ids
  BY TestNumbers DEF ChildQueue
<1>2. Program[t][p] = IF t = "blocking" THEN ChildOfBlocking(p) ELSE ChildOfStress(p)
  BY <1>1 DEF Program, Tests
<1>3. Program[t][p] = ChildCalls(ChildQueue(t, p), Size(t), p)
  BY <1>2 DEF ChildOfBlocking, ChildOfStress, ChildQueue, ChildCalls, Size, Tests
<1> QED
  BY <1>1, <1>3, ChildCode

\* Only the waits are waits: a wait that fails ends them all.
LEMMA AfterWaits ==
  ASSUME NEW t \in Tests
  PROVE  /\ WaitPos(t, 1) \in Nat /\ WaitPos(t, 1) + Kids(t) \in 1..Last_(t)
         /\ Program[t][0][WaitPos(t, 1) + Kids(t)].op # "wait"
         /\ \A k \in WaitPos(t, 1)..WaitPos(t, 1) + Kids(t) - 1 :
              Program[t][0][k].op = "wait" /\ \E w \in 1..Kids(t) : k = WaitPos(t, w)
         /\ \A i \in QueueIds(t) : WaitPos(t, 1) + Kids(t) <= UnlinkPos(t, i)
<1> DEFINE c == Program[t][0]
           k == WaitPos(t, 1) + Kids(t)
<1>1. /\ Kids(t) \in Nat \ {0} /\ Last_(t) \in Nat
      /\ \A w \in 1..Kids(t) : WaitPos(t, w) = WaitPos(t, 1) + (w - 1)
      /\ \A w \in 1..Kids(t) : WaitPos(t, w) \in 1..Last_(t) - 1
  BY TestNumbers, Layout, PositionsTyped
<1>2. /\ WaitPos(t, 1) \in Nat /\ k \in 1..Last_(t)
      /\ WaitPos(t, Kids(t)) = k - 1 /\ Kids(t) \in 1..Kids(t)
  <2>1. 1 \in 1..Kids(t) /\ Kids(t) \in 1..Kids(t)
    BY <1>1
  <2>2. WaitPos(t, 1) \in 1..Last_(t) - 1 /\ WaitPos(t, Kids(t)) \in 1..Last_(t) - 1
    BY <1>1, <2>1
  <2>3. WaitPos(t, Kids(t)) = WaitPos(t, 1) + (Kids(t) - 1)
    BY <1>1, <2>1
  <2> QED
    BY <1>1, <2>1, <2>2, <2>3
<1>3. \A j \in WaitPos(t, 1)..k - 1 : c[j].op = "wait" /\ \E w \in 1..Kids(t) : j = WaitPos(t, w)
  <2> SUFFICES ASSUME NEW j \in WaitPos(t, 1)..k - 1
               PROVE  \E w \in 1..Kids(t) : j = WaitPos(t, w) /\ c[j].op = "wait"
    OBVIOUS
  <2>1. j - WaitPos(t, 1) + 1 \in 1..Kids(t)
    BY <1>1, <1>2
  <2>2. j = WaitPos(t, j - WaitPos(t, 1) + 1)
    BY <1>1, <1>2, <2>1
  <2>3. \A w \in 1..Kids(t) : c[WaitPos(t, w)] = Wait
    BY InitCode
  <2>4. c[j] = Wait
    BY <2>1, <2>2, <2>3
  <2> QED
    BY <2>1, <2>2, <2>4 DEF Wait
<1>4. c[k].op # "wait"
  <2>1. \A w \in 1..Kids(t) : k # WaitPos(t, w)
    BY <1>1, <1>2
  <2>2. \/ \E p \in 1..Kids(t) + 1 : k = SpawnPos(t, p)
        \/ \E i \in QueueIds(t) : \/ k = OpenPos(t, i)
                                  \/ \E j \in 1..Size(t) : k = SendPos(t, i, j)
                                  \/ k = ClosePos(t, i)
                                  \/ k = UnlinkPos(t, i)
        \/ k = Last_(t)
    <3> HIDE DEF k
    <3> QED
      BY <1>2, <2>1, NoOther
  <2> HIDE DEF k
  <2>3. CASE \E p \in 1..Kids(t) + 1 : k = SpawnPos(t, p)
    <3>1. c[k] = Spawn
      BY <2>3, InitCode
    <3> QED
      BY <3>1 DEF Spawn
  <2>4. ASSUME NEW i \in QueueIds(t),
               \/ k = OpenPos(t, i)
               \/ \E j \in 1..Size(t) : k = SendPos(t, i, j)
               \/ k = ClosePos(t, i)
               \/ k = UnlinkPos(t, i)
        PROVE  c[k].op # "wait"
    <3> DEFINE f == IF t = "blocking" THEN Own ELSE i
    <3>0. /\ c[OpenPos(t, i)] = Open(i, {Mail!CREATE})
          /\ \A j \in 1..Size(t) : c[SendPos(t, i, j)] = Send(f, buf[i][j])
          /\ c[ClosePos(t, i)] = Close(f)
          /\ c[UnlinkPos(t, i)] = Unlink(i)
      BY InitCode
    <3> HIDE DEF f, c
    <3>1. \/ c[k] = Open(i, {Mail!CREATE})
          \/ \E j \in 1..Size(t) : c[k] = Send(f, buf[i][j])
          \/ c[k] = Close(f)
          \/ c[k] = Unlink(i)
      BY <2>4, <3>0
    <3>2. \A m : Send(f, m).op = "mq_send"
      BY DEF Send
    <3>3. /\ Open(i, {Mail!CREATE}).op = "mq_open" /\ Close(f).op = "mq_close"
          /\ Unlink(i).op = "mq_unlink"
      BY DEF Open, Close, Unlink
    <3> QED
      BY <3>1, <3>2, <3>3
  <2>5. CASE k = Last_(t)
    <3>1. c[k] = Shutdown
      BY <2>5, InitCode
    <3> QED
      BY <3>1 DEF Shutdown
  <2> QED
    BY <2>2, <2>3, <2>4, <2>5
<1>5. \A i \in QueueIds(t) : k <= UnlinkPos(t, i)
  BY <1>1, <1>2, Layout, PositionsTyped
<1> QED
  BY <1>2, <1>3, <1>4, <1>5

-----------------------------------------------------------------------------
(* The invariants *)

\* The process b has made its k-th call.
MadeBy(b, k) == k < pc[b] \/ (k = pc[b] /\ b \in in_call)
Made(k) == MadeBy(1, k)

Ended(b) == b \in FreePcbs \cup zombie_list

\* The calls of a child: an open, the receives, a close, the naps and the exit.
ChildClose   == Size(test) + 2
ChildLast(b) == Size(test) + pid[b] + 4

TestTyped ==
  /\ test \in Tests
  /\ pc \in [Pcb -> Nat \ {0}] /\ fd \in [Pcb -> Int] /\ in_call \subseteq Pcb
  /\ answer \in [Pcb -> Seq(Int)]
  /\ read \in [Pcb -> Seq(Msgs \cup {Mail!NoMsg})]
  /\ failed \in BOOLEAN

\* Pids are handed out in the order of init's spawns, and no block gets two.
PidsInOrder ==
  /\ init_pcb = 1 /\ pid[1] = 0
  /\ last_pid \in 1..Kids(test) + 2
  /\ \A b \in Pcb : pid[b] < last_pid
  /\ \A p \in 1..last_pid - 1 : \E b \in Pcb : pid[b] = p
  /\ \A b, c \in Pcb : pid[b] = pid[c] /\ pid[b] > 0 => b = c
  /\ \A b \in Pcb \ {1} : pid[b] = 0 => b \in FreePcbs
  /\ \A p \in 1..Kids(test) + 1 : p < last_pid <=> Made(SpawnPos(test, p))
  /\ (\E b \in FreePcbs : pid[b] > 0) => Made(WaitPos(test, 1))
  /\ (\E b \in Pcb : syscall_num[b] = "wait") => Made(WaitPos(test, 1))

\* Where the processes are in their programs.  Only a child that made its last
\* call has ended.
CountersInRange ==
  /\ pc[1] \in 1..Last_(test)
  /\ Made(Last_(test)) <=> system = "down"
  /\ \A b \in Pcb \ {1} : pid[b] < 2 => pc[b] = 1 /\ b \notin in_call
  /\ \A b \in Pcb : pid[b] = 1 => ~Ended(b)
  /\ \A b \in Pcb : pid[b] > 1 =>
       pc[b] \in 1..ChildLast(b) /\ (Ended(b) <=> MadeBy(b, ChildLast(b)))

Bookkeeping == TestTyped /\ (NeverFaults => PidsInOrder /\ CountersInRange)

-----------------------------------------------------------------------------
(* Which call a process makes *)

LEMMA InvokeIs ==
  ASSUME NEW in, in = Instr(running), Invoke
  PROVE  /\ in = Spawn => spawn
         /\ \A i, mode : in = Open(i, mode) => mq_open(i, mode)
         /\ \A f, m : in = Send(f, m) => mq_send(IF f = Own THEN fd[running] ELSE f, m)
         /\ in = Receive => mq_receive(fd[running])
         /\ \A f : in = Close(f) => mq_close(IF f = Own THEN fd[running] ELSE f)
         /\ \A i : in = Unlink(i) => mq_unlink(i)
         /\ in = Wait => wait(0)
         /\ in = Nap => sleep(naps)
         /\ in = Exit => exit
         /\ in = Shutdown => shutdown
<1>1. \/ in.op = "spawn" /\ spawn
      \/ in.op = "mq_open" /\ mq_open(in.id, in.mode)
      \/ in.op = "mq_send" /\ mq_send(Operand(running), in.msg)
      \/ in.op = "mq_receive" /\ mq_receive(fd[running])
      \/ in.op = "mq_close" /\ mq_close(Operand(running))
      \/ in.op = "mq_unlink" /\ mq_unlink(in.id)
      \/ in.op = "wait" /\ wait(0)
      \/ in.op = "sleep" /\ sleep(naps)
      \/ in.op = "exit" /\ exit
      \/ in.op = "shutdown" /\ shutdown
  BY DEF Invoke
<1>2. Operand(running) = IF in.fd = Own THEN fd[running] ELSE in.fd
  BY DEF Operand
<1>3. /\ Spawn.op = "spawn" /\ Receive.op = "mq_receive" /\ Wait.op = "wait"
      /\ Nap.op = "sleep" /\ Exit.op = "exit" /\ Shutdown.op = "shutdown"
  BY DEF Spawn, Receive, Wait, Nap, Exit, Shutdown
<1>4. ASSUME NEW i, NEW mode, in = Open(i, mode)
      PROVE  mq_open(i, mode)
  <2>1. in.op = "mq_open" /\ in.id = i /\ in.mode = mode
    BY <1>4 DEF Open
  <2> QED
    BY <1>1, <2>1
<1>5. ASSUME NEW f, NEW m, in = Send(f, m)
      PROVE  mq_send(IF f = Own THEN fd[running] ELSE f, m)
  <2>1. in.op = "mq_send" /\ in.fd = f /\ in.msg = m
    BY <1>5 DEF Send
  <2>2. mq_send(Operand(running), m)
    BY <1>1, <2>1
  <2> QED
    BY <1>2, <2>1, <2>2
<1>6. ASSUME NEW f, in = Close(f)
      PROVE  mq_close(IF f = Own THEN fd[running] ELSE f)
  <2>1. in.op = "mq_close" /\ in.fd = f
    BY <1>6 DEF Close
  <2>2. mq_close(Operand(running))
    BY <1>1, <2>1
  <2> QED
    BY <1>2, <2>1, <2>2
<1>7. ASSUME NEW i, in = Unlink(i)
      PROVE  mq_unlink(i)
  <2>1. in.op = "mq_unlink" /\ in.id = i
    BY <1>7 DEF Unlink
  <2> QED
    BY <1>1, <2>1
<1>8. in = Spawn => spawn
  BY <1>1, <1>3
<1>9. in = Receive => mq_receive(fd[running])
  BY <1>1, <1>3
<1>10. (in = Wait => wait(0)) /\ (in = Nap => sleep(naps))
  BY <1>1, <1>3
<1>11. (in = Exit => exit) /\ (in = Shutdown => shutdown)
  BY <1>1, <1>3
<1> QED
  BY <1>4, <1>5, <1>6, <1>7, <1>8, <1>9, <1>10, <1>11

\* The fd by which init names the queue i.
InitFd(i) == IF test = "blocking" THEN fd[1] ELSE i

InitCall ==
  \/ \E p \in 1..Kids(test) + 1 : pc[1] = SpawnPos(test, p) /\ spawn
  \/ \E i \in QueueIds(test) :
       \/ pc[1] = OpenPos(test, i) /\ mq_open(i, {Mail!CREATE})
       \/ \E j \in 1..Size(test) :
            pc[1] = SendPos(test, i, j) /\ mq_send(InitFd(i), buf[i][j])
       \/ pc[1] = ClosePos(test, i) /\ mq_close(InitFd(i))
       \/ pc[1] = UnlinkPos(test, i) /\ mq_unlink(i)
  \/ \E w \in 1..Kids(test) : pc[1] = WaitPos(test, w) /\ wait(0)
  \/ pc[1] = Last_(test) /\ shutdown

CallOfChild(b) ==
  \/ pc[b] = 1 /\ mq_open(QueueId(b), {})
  \/ pc[b] \in 2..Size(test) + 1 /\ mq_receive(fd[b])
  \/ pc[b] = ChildClose /\ mq_close(fd[b])
  \/ pc[b] \in ChildClose + 1..ChildLast(b) - 1 /\ sleep(naps)
  \/ pc[b] = ChildLast(b) /\ exit

\* What a process that calls is.
LEMMA Callers ==
  ASSUME SysInv, Bookkeeping, Calling
  PROVE  /\ running \in Pcb /\ running \in LivePcbs /\ system = "up" /\ NeverFaults
         /\ test \in Tests /\ TestTyped /\ PidsInOrder /\ CountersInRange
         /\ running = 1 => pid[running] = 0
         /\ running # 1 => pid[running] \in Pid /\ pid[running] \in 2..Kids(test) + 1
<1>1. /\ running \in Pcb /\ running \in LivePcbs /\ system = "up" /\ Inv
      /\ pid[running] # 1
  BY CallerFacts DEF Calling
<1>2. NeverFaults /\ TestTyped /\ PidsInOrder /\ CountersInRange /\ test \in Tests
  BY <1>1 DEF NeverFaults, Bookkeeping, TestTyped
<1>3. pid[running] \in Pid /\ pid[running] \in Nat
  <2>1. pid[running] \in Pid
    BY <1>1 DEF Inv, StateTyped
  <2> QED
    BY <2>1, ProcessesAssumption DEF Pid
<1>4. running # 1 => pid[running] # 0
  BY <1>1, <1>2 DEF PidsInOrder, LivePcbs
<1>5. pid[running] < last_pid /\ last_pid \in 1..Kids(test) + 2
  BY <1>1, <1>2 DEF PidsInOrder
<1>6. Kids(test) \in Nat
  BY <1>2, TestNumbers
<1>7. pid[running] # 0 => pid[running] \in 2..Kids(test) + 1
  <2> DEFINE p == pid[running]
  <2>1. p \in Nat /\ p # 1 /\ p < last_pid
    BY <1>1, <1>3, <1>5
  <2> HIDE DEF p
  <2>2. p # 0 => p \in 2..Kids(test) + 1
    BY <1>5, <1>6, <2>1
  <2> QED
    BY <2>2 DEF p
<1> QED
  BY <1>1, <1>2, <1>3, <1>4, <1>7 DEF PidsInOrder

LEMMA TrapCalls ==
  ASSUME SysInv, Bookkeeping, Trap
  PROVE  \/ running = 1 /\ InitCall
         \/ running # 1 /\ CallOfChild(running)
<1>1. Calling /\ Invoke
  BY DEF Trap
<1>2. /\ running \in Pcb /\ test \in Tests /\ TestTyped /\ CountersInRange
      /\ running = 1 => pid[running] = 0
      /\ running # 1 => pid[running] \in Pid /\ pid[running] \in 2..Kids(test) + 1
  BY <1>1, Callers
<1> DEFINE in == Instr(running)
<1>3. in = Program[test][pid[running]][pc[running]]
  BY DEF Instr
<1>4. /\ in = Spawn => spawn
      /\ \A i, mode : in = Open(i, mode) => mq_open(i, mode)
      /\ \A f, m : in = Send(f, m) => mq_send(IF f = Own THEN fd[running] ELSE f, m)
      /\ in = Receive => mq_receive(fd[running])
      /\ \A f : in = Close(f) => mq_close(IF f = Own THEN fd[running] ELSE f)
      /\ \A i : in = Unlink(i) => mq_unlink(i)
      /\ in = Wait => wait(0)
      /\ in = Nap => sleep(naps)
      /\ in = Exit => exit
      /\ in = Shutdown => shutdown
  BY <1>1, InvokeIs
<1> HIDE DEF in
<1>5. CASE running = 1
  <2>1. pc[1] \in 1..Last_(test) /\ in = Program[test][0][pc[1]]
    BY <1>2, <1>3, <1>5 DEF CountersInRange
  <2>2. /\ \A p \in 1..Kids(test) + 1 : pc[1] = SpawnPos(test, p) => in = Spawn
        /\ \A w \in 1..Kids(test) : pc[1] = WaitPos(test, w) => in = Wait
        /\ pc[1] = Last_(test) => in = Shutdown
    BY <1>2, <2>1, InitCode
  <2>3. \A i \in QueueIds(test) :
          /\ pc[1] = OpenPos(test, i) => in = Open(i, {Mail!CREATE})
          /\ \A j \in 1..Size(test) : pc[1] = SendPos(test, i, j) =>
               in = Send(IF test = "blocking" THEN Own ELSE i, buf[i][j])
          /\ pc[1] = ClosePos(test, i) => in = Close(IF test = "blocking" THEN Own ELSE i)
          /\ pc[1] = UnlinkPos(test, i) => in = Unlink(i)
    BY <1>2, <2>1, InitCode
  <2>4. \A i \in QueueIds(test) : i # Own
    BY <1>2, TestNumbers DEF Own
  <2>5. ASSUME NEW i \in QueueIds(test), NEW j \in 1..Size(test), pc[1] = SendPos(test, i, j)
        PROVE  mq_send(InitFd(i), buf[i][j])
    <3> DEFINE f == IF test = "blocking" THEN Own ELSE i
    <3>1. mq_send(IF f = Own THEN fd[running] ELSE f, buf[i][j])
      <4>1. in = Send(f, buf[i][j])
        BY <2>3, <2>5
      <4> HIDE DEF f
      <4> QED
        BY <1>4, <4>1
    <3>2. (IF f = Own THEN fd[running] ELSE f) = InitFd(i)
      BY <1>5, <2>4 DEF InitFd
    <3> HIDE DEF f
    <3> QED
      BY <3>1, <3>2
  <2>6. ASSUME NEW i \in QueueIds(test), pc[1] = ClosePos(test, i)
        PROVE  mq_close(InitFd(i))
    <3> DEFINE f == IF test = "blocking" THEN Own ELSE i
    <3>1. mq_close(IF f = Own THEN fd[running] ELSE f)
      <4>1. in = Close(f)
        BY <2>3, <2>6
      <4> HIDE DEF f
      <4> QED
        BY <1>4, <4>1
    <3>2. (IF f = Own THEN fd[running] ELSE f) = InitFd(i)
      BY <1>5, <2>4 DEF InitFd
    <3> HIDE DEF f
    <3> QED
      BY <3>1, <3>2
  <2>7. \/ \E p \in 1..Kids(test) + 1 : pc[1] = SpawnPos(test, p)
        \/ \E i \in QueueIds(test) : \/ pc[1] = OpenPos(test, i)
                                     \/ \E j \in 1..Size(test) : pc[1] = SendPos(test, i, j)
                                     \/ pc[1] = ClosePos(test, i)
                                     \/ pc[1] = UnlinkPos(test, i)
        \/ \E w \in 1..Kids(test) : pc[1] = WaitPos(test, w)
        \/ pc[1] = Last_(test)
    BY <1>2, <2>1, NoOther
  <2>8. InitCall
    BY <1>4, <2>2, <2>3, <2>5, <2>6, <2>7 DEF InitCall
  <2> QED
    BY <1>5, <2>8
<1>6. CASE running # 1
  <2> DEFINE b == running
             p == pid[running]
  <2>1. /\ p \in Nat /\ p \in Pid /\ p \in 2..Kids(test) + 1
        /\ pc[b] \in 1..Size(test) + p + 4 /\ Size(test) \in Nat
    <3>1. Size(test) \in Nat /\ p \in Nat /\ p > 1
      BY <1>2, <1>6, TestNumbers
    <3>2. pc[b] \in 1..ChildLast(b)
      BY <1>2, <1>6, <3>1 DEF CountersInRange
    <3> QED
      BY <1>2, <1>6, <3>1, <3>2 DEF ChildLast
  <2>2. in = ChildCall(ChildQueue(test, p), Size(test), p, pc[b])
    BY <1>2, <1>3, <2>1, ChildProgram
  <2>3. QueueId(b) = ChildQueue(test, p)
    BY DEF QueueId, ChildQueue
  <2>4. CASE pc[b] = 1
    <3>1. in = Open(QueueId(b), {})
      BY <2>2, <2>3, <2>4 DEF ChildCall
    <3> QED
      BY <1>4, <1>6, <2>4, <3>1 DEF CallOfChild
  <2>5. CASE pc[b] \in 2..Size(test) + 1
    <3>1. in = Receive
      BY <2>1, <2>2, <2>5 DEF ChildCall
    <3> QED
      BY <1>4, <1>6, <2>5, <3>1 DEF CallOfChild
  <2>6. CASE pc[b] = Size(test) + 2
    <3>1. in = Close(Own)
      BY <2>1, <2>2, <2>6 DEF ChildCall
    <3>2. mq_close(fd[b])
      BY <1>4, <3>1
    <3> QED
      BY <1>6, <2>6, <3>2 DEF CallOfChild, ChildClose
  <2>7. CASE pc[b] \in Size(test) + 3..Size(test) + p + 3
    <3>1. in = Nap
      BY <2>1, <2>2, <2>7 DEF ChildCall
    <3>2. pc[b] \in ChildClose + 1..ChildLast(b) - 1
      BY <2>1, <2>7 DEF ChildClose, ChildLast
    <3> QED
      BY <1>4, <1>6, <3>1, <3>2 DEF CallOfChild
  <2>8. CASE pc[b] = Size(test) + p + 4
    <3>1. in = Exit
      BY <2>1, <2>2, <2>8 DEF ChildCall
    <3> QED
      BY <1>4, <1>6, <2>8, <3>1 DEF CallOfChild, ChildLast
  <2>9. \/ pc[b] = 1 \/ pc[b] \in 2..Size(test) + 1 \/ pc[b] = Size(test) + 2
        \/ pc[b] \in Size(test) + 3..Size(test) + p + 3 \/ pc[b] = Size(test) + p + 4
    BY <2>1
  <2> QED
    BY <2>4, <2>5, <2>6, <2>7, <2>8, <2>9
<1> QED
  BY <1>5, <1>6

-----------------------------------------------------------------------------
(* What a call does to the processes *)

\* What the calls of init are called.
LEMMA InitOps ==
  ASSUME NEW t \in Tests
  PROVE  LET c == Program[t][0] IN
         /\ \A p \in 1..Kids(t) + 1 : c[SpawnPos(t, p)].op = "spawn"
         /\ \A i \in QueueIds(t) :
              /\ c[OpenPos(t, i)].op = "mq_open" /\ c[ClosePos(t, i)].op = "mq_close"
              /\ c[UnlinkPos(t, i)].op = "mq_unlink"
              /\ \A j \in 1..Size(t) : c[SendPos(t, i, j)].op = "mq_send"
         /\ \A w \in 1..Kids(t) : c[WaitPos(t, w)].op = "wait"
         /\ c[Last_(t)].op = "shutdown"
<1>1. /\ Spawn.op = "spawn" /\ Wait.op = "wait" /\ Shutdown.op = "shutdown"
      /\ \A i, mode : Open(i, mode).op = "mq_open"
      /\ \A f : Close(f).op = "mq_close"
      /\ \A i : Unlink(i).op = "mq_unlink"
      /\ \A f, m : Send(f, m).op = "mq_send"
  BY DEF Spawn, Wait, Shutdown, Open, Close, Unlink, Send
<1>2. \A i \in QueueIds(t) :
        /\ Program[t][0][OpenPos(t, i)].op = "mq_open"
        /\ Program[t][0][ClosePos(t, i)].op = "mq_close"
        /\ Program[t][0][UnlinkPos(t, i)].op = "mq_unlink"
        /\ \A j \in 1..Size(t) : Program[t][0][SendPos(t, i, j)].op = "mq_send"
  <2> TAKE i \in QueueIds(t)
  <2> DEFINE f == IF t = "blocking" THEN Own ELSE i
             c == Program[t][0]
  <2>1. /\ c[OpenPos(t, i)] = Open(i, {Mail!CREATE}) /\ c[ClosePos(t, i)] = Close(f)
        /\ c[UnlinkPos(t, i)] = Unlink(i)
        /\ \A j \in 1..Size(t) : c[SendPos(t, i, j)] = Send(f, buf[i][j])
    BY InitCode
  <2> HIDE DEF f, c
  <2>2. /\ c[OpenPos(t, i)].op = "mq_open" /\ c[ClosePos(t, i)].op = "mq_close"
        /\ c[UnlinkPos(t, i)].op = "mq_unlink"
        /\ \A j \in 1..Size(t) : c[SendPos(t, i, j)].op = "mq_send"
    BY <1>1, <2>1
  <2> QED
    BY <2>2 DEF c
<1> QED
  BY <1>1, <1>2, InitCode

\* A call on queues: it returns to its caller, or blocks it and stores the error in
\* the process that runs next.
MailCall ==
  \/ Replied /\ UNCHANGED system
  \/ /\ Parked
     /\ \E code \in {Mail!DSOS_MQ_FULL, Mail!DSOS_MQ_EMPTY} :
          retvalue' = [retvalue EXCEPT ![running'] = code]

LEMMA CompletesShape ==
  ASSUME SysInv, Calling, NEW num \in Syscall \ {"wait", "exit"}, Completes(num),
         UNCHANGED retvalue \/ \E code : Mail!Returns(code),
         UNCHANGED system \/ system' = "crashed", NeverFaults'
  PROVE  MailCall
<1>1. /\ Inv /\ StateTyped /\ running \in Pcb
  BY CallerFacts DEF SysInv, AlwaysInv, Inv
<1>2. \A b \in Pcb : b # running => retvalue'[b] = retvalue[b]
  BY <1>1 DEF Mail!Returns, StateTyped
<1>3. /\ Called(num, 0) /\ UNCHANGED <<running, lists, status, family, allocators>>
  BY DEF Completes
<1>4. Replied
  BY <1>1, <1>2, <1>3, AnswerShape
<1> QED
  BY <1>4 DEF MailCall, NeverFaults

LEMMA BlockShape ==
  ASSUME SysInv, Calling, NEW num \in Syscall \ {"wait", "exit"}, NEW arg,
         NEW code \in {Mail!DSOS_MQ_FULL, Mail!DSOS_MQ_EMPTY}, Block(num, arg, code),
         NeverFaults'
  PROVE  MailCall
<1>1. Inv /\ running \in Pcb
  BY CallerFacts
<1>2. ready_list # <<>>
  BY DEF Block, Crash, Stop, NeverFaults
<1>3. /\ MayBlock /\ ParkOnTimer(SLEEP) /\ Called(num, 0)
      /\ retvalue' = [retvalue EXCEPT ![running'] = code]
  BY <1>2 DEF Block, ParkCaller
<1>4. Parked
  BY <1>1, <1>3, ParkShape
<1> QED
  BY <1>3, <1>4 DEF MailCall

LEMMA MailCalls ==
  ASSUME SysInv, NeverFaults', NEW f, NEW i, NEW m, NEW mode,
         \/ mq_open(i, mode) \/ mq_close(f) \/ mq_unlink(i)
         \/ mq_send(f, m) \/ mq_receive(f)
  PROVE  MailCall
<1>1. {"mq_open", "mq_close", "mq_unlink", "mq_send", "mq_receive"}
        \subseteq Syscall \ {"wait", "exit"}
  BY DEF Syscall
<1>2. CASE mq_open(i, mode)
  <2>1. Calling /\ Completes("mq_open") /\ Mail!internal_mqOpen(i, Mail!DSOS_MQ, mode)
    BY <1>2 DEF mq_open
  <2>2. /\ UNCHANGED retvalue \/ \E code : Mail!Returns(code)
        /\ UNCHANGED system \/ system' = "crashed"
    BY <2>1 DEF Mail!internal_mqOpen, Mail!Becomes, Mail!Crash
  <2> QED
    BY <1>1, <2>1, <2>2, CompletesShape
<1>3. CASE mq_close(f)
  <2>1. Calling /\ Completes("mq_close") /\ Mail!internal_closeResource(f)
    BY <1>3 DEF mq_close
  <2>2. /\ UNCHANGED retvalue \/ \E code : Mail!Returns(code)
        /\ UNCHANGED system \/ system' = "crashed"
    BY <2>1 DEF Mail!internal_closeResource
  <2> QED
    BY <1>1, <2>1, <2>2, CompletesShape
<1>4. CASE mq_unlink(i)
  <2>1. Calling /\ Completes("mq_unlink") /\ Mail!internal_mqUnlink(i)
    BY <1>4 DEF mq_unlink
  <2>2. /\ UNCHANGED retvalue \/ \E code : Mail!Returns(code)
        /\ UNCHANGED system \/ system' = "crashed"
    BY <2>1 DEF Mail!internal_mqUnlink
  <2> QED
    BY <1>1, <2>1, <2>2, CompletesShape
<1>5. CASE mq_send(f, m)
  <2>1. CASE Mail!internal_mqSend(f, m) /\ Completes("mq_send")
    <3>1. /\ UNCHANGED retvalue \/ \E code : Mail!Returns(code)
          /\ UNCHANGED system \/ system' = "crashed"
      BY <2>1 DEF Mail!internal_mqSend, Mail!Crash
    <3> QED
      BY <1>1, <1>5, <2>1, <3>1, CompletesShape DEF mq_send
  <2>2. CASE Block("mq_send", m, Mail!DSOS_MQ_FULL)
    BY <1>1, <1>5, <2>2, BlockShape DEF mq_send
  <2> QED
    BY <1>5, <2>1, <2>2 DEF mq_send
<1>6. CASE mq_receive(f)
  <2>1. CASE Mail!internal_mqReceive(f) /\ Completes("mq_receive")
    <3>1. /\ UNCHANGED retvalue \/ \E code : Mail!Returns(code)
          /\ UNCHANGED system \/ system' = "crashed"
      BY <2>1 DEF Mail!internal_mqReceive, Mail!Crash
    <3> QED
      BY <1>1, <1>6, <2>1, <3>1, CompletesShape DEF mq_receive
  <2>2. CASE Block("mq_receive", Mail!NoMsg, Mail!DSOS_MQ_EMPTY)
    BY <1>1, <1>6, <2>2, BlockShape DEF mq_receive
  <2> QED
    BY <1>6, <2>1, <2>2 DEF mq_receive
<1> QED
  BY <1>2, <1>3, <1>4, <1>5, <1>6

\* The test programs make the calls that the proofs of the system are about.
LEMMA TrapKeeps ==
  ASSUME SysInv, Bookkeeping, Trap
  PROVE  StepKeeps
<1>1. test \in Tests
  BY DEF Bookkeeping, TestTyped
<1>2. (running = 1 /\ InitCall) \/ (running # 1 /\ CallOfChild(running))
  BY TrapCalls
<1>3. /\ 0 \in Pid /\ naps \in SleepTimes
      /\ \A i \in QueueIds(test) : /\ i \in Ids
                                   /\ \A j \in 1..Size(test) : buf[i][j] \in Msgs
  BY <1>1, TestNumbers, TestsAssumption, ProcessesAssumption DEF Pid
<1>4. CASE spawn \/ exit \/ wait(0)
  BY <1>3, <1>4, SpawnStep, ExitStep, WaitStep
<1>5. CASE sleep(naps) \/ shutdown
  <2>1. [Next]_vars /\ UNCHANGED <<syscall_arg1, mail>>
    BY <1>3, <1>5 DEF sleep, shutdown, Next
  <2>2. (MailSound /\ MP!FreeHoldNothing /\ MP!StockSuffices)'
    BY <2>1, MailFrame DEF SysInv, MailSound
  <2> QED
    BY <2>1, <2>2, ProcessKeeps DEF mail
<1>6. CASE running # 1 /\ mq_open(QueueId(running), {})
  <2>1. QueueId(running) \in Ids
    <3>1. Calling
      BY DEF Trap
    <3>2. pid[running] \in 2..Kids(test) + 1
      BY <1>6, <3>1, Callers
    <3>3. (IF test = "blocking" THEN 0 ELSE pid[running]) \in QueueIds(test)
      BY <1>1, <3>2, TestNumbers
    <3> QED
      BY <1>3, <3>3 DEF QueueId
  <2> QED
    BY <1>6, <2>1, OpenStep
<1>7. CASE InitCall
  <2>1. ASSUME NEW i \in QueueIds(test), mq_open(i, {Mail!CREATE})
        PROVE  StepKeeps
    BY <1>3, <2>1, OpenStep
  <2>2. ASSUME NEW i \in QueueIds(test), NEW j \in 1..Size(test), mq_send(InitFd(i), buf[i][j])
        PROVE  StepKeeps
    BY <1>3, <2>2, SendStep
  <2>3. ASSUME NEW i \in QueueIds(test), mq_close(InitFd(i)) \/ mq_unlink(i)
        PROVE  StepKeeps
    BY <2>3, CloseStep, UnlinkStep
  <2> QED
    BY <1>4, <1>5, <1>7, <2>1, <2>2, <2>3 DEF InitCall
<1>8. CASE running # 1 /\ CallOfChild(running)
  <2>1. mq_receive(fd[running]) => StepKeeps
    BY ReceiveStep
  <2>2. mq_close(fd[running]) => StepKeeps
    BY CloseStep
  <2> QED
    BY <1>4, <1>5, <1>6, <1>8, <2>1, <2>2 DEF CallOfChild
<1> QED
  BY <1>2, <1>7, <1>8

\* The steps of the test programs are steps of the system.
LEMMA TestKeeps ==
  ASSUME SysInv, Bookkeeping, [TestNext]_allVars
  PROVE  StepKeeps
<1>1. CASE Trap
  BY <1>1, TrapKeeps
<1>2. CASE timer
  BY <1>2, TimerStep
<1>3. CASE UNCHANGED sysVars
  BY <1>3, SysStep
<1> QED
  BY <1>1, <1>2, <1>3 DEF TestNext, Step, Return, allVars

\* What a call does to the processes, if it does not fault.
TrapOfInit ==
  \/ \E p \in 1..Kids(test) + 1 : /\ pc[1] = SpawnPos(test, p)
                                  /\ \E new \in FreePcbs : Spawned(new)
  \/ /\ \E w \in 1..Kids(test) : pc[1] = WaitPos(test, w)
     /\ \/ Refused(0) \/ Blocked(0)
        \/ \E child \in zombie_list : Reaped(0, child)
  \/ pc[1] = Last_(test) /\ Replied /\ UNCHANGED retvalue /\ system' = "down"
  \/ /\ \A p \in 1..Kids(test) + 1 : pc[1] # SpawnPos(test, p)
     /\ pc[1] # Last_(test)
     /\ MailCall

TrapOfChild(b) ==
  \/ pc[b] = ChildLast(b) /\ ((ParentAwaits(b) /\ Collected) \/ Zombied)
  \/ pc[b] # ChildLast(b) /\ (MailCall \/ (Parked /\ UNCHANGED retvalue))

LEMMA TrapKinds ==
  ASSUME SysInv, Bookkeeping, Trap, NeverFaults'
  PROVE  /\ \/ running = 1 /\ TrapOfInit
            \/ running # 1 /\ TrapOfChild(running)
         /\ system' = "down" => running = 1 /\ pc[1] = Last_(test)
<1>1. /\ test \in Tests /\ Calling /\ Inv /\ running \in Pcb /\ system = "up"
      /\ CountersInRange
      /\ running # 1 => pid[running] \in 2..Kids(test) + 1
  <2>1. Calling
    BY DEF Trap
  <2> QED
    BY <2>1, Callers, CallerFacts
<1>2. /\ \A p \in 1..Kids(test) + 1 : Program[test][0][SpawnPos(test, p)].op = "spawn"
      /\ \A i \in QueueIds(test) :
           /\ Program[test][0][OpenPos(test, i)].op = "mq_open"
           /\ Program[test][0][ClosePos(test, i)].op = "mq_close"
           /\ Program[test][0][UnlinkPos(test, i)].op = "mq_unlink"
           /\ \A j \in 1..Size(test) : Program[test][0][SendPos(test, i, j)].op = "mq_send"
      /\ Program[test][0][Last_(test)].op = "shutdown"
  BY <1>1, InitOps
<1>3. CASE running = 1 /\ InitCall
  <2> DEFINE op == Program[test][0][pc[1]].op
  <2>1. op \notin {"spawn", "shutdown"} =>
          /\ \A p \in 1..Kids(test) + 1 : pc[1] # SpawnPos(test, p)
          /\ pc[1] # Last_(test)
    BY <1>2
  <2>2. ASSUME NEW p \in 1..Kids(test) + 1, pc[1] = SpawnPos(test, p), spawn
        PROVE  TrapOfInit /\ UNCHANGED system
    <3>1. internal_spawn
      BY <2>2 DEF spawn
    <3>2. \E new \in FreePcbs : Spawned(new)
      BY <1>1, <3>1, NewProcessShape DEF internal_spawn
    <3>3. UNCHANGED system
      BY <3>2 DEF Spawned
    <3> QED
      BY <2>2, <3>2, <3>3 DEF TrapOfInit
  <2>3. ASSUME NEW w \in 1..Kids(test), pc[1] = WaitPos(test, w), wait(0)
        PROVE  TrapOfInit /\ UNCHANGED system
    <3>1. internal_wait(0) /\ 0 \in Pid
      BY <2>3, ProcessesAssumption DEF wait, Pid
    <3>2. Refused(0) \/ Blocked(0) \/ \E child \in zombie_list : Reaped(0, child)
      BY <1>1, <3>1, WaitShape
    <3>3. UNCHANGED system
      BY <3>2 DEF Refused, Blocked, Reaped
    <3> QED
      BY <2>3, <3>2, <3>3 DEF TrapOfInit
  <2>4. ASSUME pc[1] = Last_(test), shutdown
        PROVE  TrapOfInit
    <3>1. internal_shutdown
      BY <2>4 DEF shutdown
    <3>2. Replied
      BY <1>1, <3>1, ShutdownShape
    <3>3. UNCHANGED retvalue /\ system' = "down"
      BY <3>1 DEF internal_shutdown
    <3> QED
      BY <2>4, <3>2, <3>3 DEF TrapOfInit
  <2>5. ASSUME op \notin {"spawn", "shutdown"}, MailCall
        PROVE  TrapOfInit /\ UNCHANGED system
    <3>1. UNCHANGED system
      BY <2>5 DEF MailCall, Parked
    <3> QED
      BY <2>1, <2>5, <3>1 DEF TrapOfInit
  <2>6. ASSUME NEW i \in QueueIds(test),
               \/ pc[1] = OpenPos(test, i) /\ mq_open(i, {Mail!CREATE})
               \/ \E j \in 1..Size(test) :
                    pc[1] = SendPos(test, i, j) /\ mq_send(InitFd(i), buf[i][j])
               \/ pc[1] = ClosePos(test, i) /\ mq_close(InitFd(i))
               \/ pc[1] = UnlinkPos(test, i) /\ mq_unlink(i)
        PROVE  TrapOfInit /\ UNCHANGED system
    <3>1. op \notin {"spawn", "shutdown"}
      BY <1>2, <2>6
    <3>2. MailCall
      <4>1. ASSUME NEW j \in 1..Size(test), mq_send(InitFd(i), buf[i][j])
            PROVE  MailCall
        BY <4>1, MailCalls
      <4>2. ASSUME mq_open(i, {Mail!CREATE})
            PROVE  MailCall
        BY <4>2, MailCalls
      <4>3. ASSUME mq_close(InitFd(i)) \/ mq_unlink(i)
            PROVE  MailCall
        BY <4>3, MailCalls
      <4> QED
        BY <2>6, <4>1, <4>2, <4>3
    <3> HIDE DEF op
    <3> QED
      BY <2>5, <3>1, <3>2
  <2> HIDE DEF op
  <2> QED
    BY <1>1, <1>3, <2>2, <2>3, <2>4, <2>6 DEF InitCall
<1>4. CASE running # 1 /\ CallOfChild(running)
  <2>1. /\ pid[running] \in Nat /\ pid[running] > 1 /\ Size(test) \in Nat
        /\ pc[running] \in 1..ChildLast(running)
    <3>1. Size(test) \in Nat /\ Kids(test) \in Nat
      BY <1>1, TestNumbers
    <3>2. pid[running] \in Nat /\ pid[running] > 1
      BY <1>1, <1>4, <3>1
    <3> QED
      BY <1>1, <3>1, <3>2 DEF CountersInRange
  <2>2. ASSUME pc[running] = ChildLast(running), exit
        PROVE  TrapOfChild(running) /\ UNCHANGED system
    <3>1. internal_exit
      BY <2>2 DEF exit
    <3>2. (ParentAwaits(running) /\ Collected) \/ Zombied
      BY <1>1, <3>1, ExitShape
    <3>3. UNCHANGED system
      BY <3>2 DEF Collected, Zombied
    <3> QED
      BY <2>2, <3>2, <3>3 DEF TrapOfChild
  <2>3. ASSUME pc[running] # ChildLast(running), MailCall
        PROVE  TrapOfChild(running) /\ UNCHANGED system
    BY <2>3 DEF TrapOfChild, MailCall, Parked
  <2>4. ASSUME pc[running] \in ChildClose + 1..ChildLast(running) - 1, sleep(naps)
        PROVE  TrapOfChild(running) /\ UNCHANGED system
    <3>1. internal_sleep(naps) /\ naps \in SleepTimes
      BY <2>4, TestsAssumption DEF sleep
    <3>2. Parked /\ UNCHANGED retvalue
      BY <1>1, <3>1, SleepShape
    <3>3. pc[running] # ChildLast(running)
      BY <2>1, <2>4 DEF ChildClose, ChildLast
    <3> QED
      BY <3>2, <3>3 DEF TrapOfChild, Parked
  <2>5. ASSUME pc[running] <= ChildClose,
               \/ mq_open(QueueId(running), {}) \/ mq_receive(fd[running])
               \/ mq_close(fd[running])
        PROVE  TrapOfChild(running) /\ UNCHANGED system
    <3>1. pc[running] # ChildLast(running)
      BY <2>1, <2>5 DEF ChildClose, ChildLast
    <3>2. MailCall
      BY <2>5, MailCalls
    <3> QED
      BY <2>3, <3>1, <3>2
  <2>6. TrapOfChild(running) /\ UNCHANGED system
    <3>1. CASE pc[running] = 1 /\ mq_open(QueueId(running), {})
      BY <2>1, <2>5, <3>1 DEF ChildClose
    <3>2. CASE pc[running] \in 2..Size(test) + 1 /\ mq_receive(fd[running])
      BY <2>1, <2>5, <3>2 DEF ChildClose
    <3>3. CASE pc[running] = ChildClose /\ mq_close(fd[running])
      BY <2>1, <2>5, <3>3 DEF ChildClose
    <3> QED
      BY <1>4, <2>2, <2>4, <3>1, <3>2, <3>3 DEF CallOfChild
  <2> QED
    BY <1>1, <1>4, <2>6
<1> QED
  BY <1>3, <1>4, TrapCalls

-----------------------------------------------------------------------------
(* The program counters *)

\* A trap is the only step that makes a call, and the return that follows moves on.
LEMMA TrapMade ==
  ASSUME Trap, NEW b, NEW k
  PROVE  MadeBy(b, k)' <=> MadeBy(b, k) \/ (b = running /\ k = pc[b])
  BY DEF Trap, MadeBy

LEMMA SameMade ==
  ASSUME UNCHANGED <<pc, in_call>>, NEW b, NEW k
  PROVE  MadeBy(b, k)' <=> MadeBy(b, k)
  BY DEF MadeBy

\* Where a wait that fails goes on.
LEMMA GivesUp ==
  ASSUME test \in Tests, pid[1] = 0, pc[1] \in Nat, NEW ret \in Int, ret < 0,
         NEW w \in 1..Kids(test), pc[1] = WaitPos(test, w)
  PROVE  NextInstr(1, ret) = WaitPos(test, 1) + Kids(test)
<1> DEFINE c == Program[test][0]
           goal == WaitPos(test, 1) + Kids(test)
           first == WaitPos(test, 1)
           Skips(k) == /\ c[k].op # "wait"
                       /\ \A j \in pc[1]..k - 1 : c[j].op = "wait"
<1>1. /\ first \in Nat /\ Kids(test) \in Nat /\ goal \in 1..Last_(test)
      /\ c[goal].op # "wait" /\ Len(c) = Last_(test)
      /\ \A k \in first..goal - 1 : c[k].op = "wait"
      /\ pc[1] = first + (w - 1)
  BY AfterWaits, TestNumbers, InitCode, Layout
<1> HIDE DEF c, goal, first
<1>2. goal = first + Kids(test)
  BY DEF goal, first
<1>3. pc[1] \in first..goal - 1 /\ goal \in pc[1] + 1..Len(c)
  BY <1>1, <1>2
<1>4. Instr(1).op = "wait"
  BY <1>1, <1>3 DEF Instr, c
<1>5. Skips(goal)
  BY <1>1, <1>3
<1>6. ASSUME NEW k \in pc[1] + 1..Len(c), Skips(k)
      PROVE  k = goal
  <2>1. ~(k < goal)
    BY <1>1, <1>3, <1>6
  <2>2. ~(k > goal)
    BY <1>1, <1>3, <1>6
  <2> QED
    BY <1>1, <1>3, <2>1, <2>2
<1>7. (CHOOSE k \in pc[1] + 1..Len(c) : Skips(k)) = goal
  <2> HIDE DEF Skips
  <2> QED
    BY <1>3, <1>5, <1>6
<1>8. NextInstr(1, ret) = CHOOSE k \in pc[1] + 1..Len(c) : Skips(k)
  BY <1>4 DEF NextInstr, c
<1> QED
  BY <1>7, <1>8 DEF goal

\* What a program counter becomes.
LEMMA ReturnPc ==
  ASSUME SysInv, Bookkeeping, Return
  PROVE  /\ \A b \in Pcb \ {running} : pc'[b] = pc[b]
         /\ \/ pc'[running] = pc[running] + 1
            \/ /\ running = 1 /\ failed' /\ \E w \in 1..Kids(test) : pc[1] = WaitPos(test, w)
               /\ pc'[1] = WaitPos(test, 1) + Kids(test)
         /\ running = 1 => pc'[1] \in pc[1] + 1..Last_(test)
         /\ running # 1 => pc'[running] \in 1..ChildLast(running)
<1>1. Calling /\ running \in in_call
  BY DEF Return
<1>2. /\ running \in Pcb /\ running \in LivePcbs /\ system = "up" /\ Inv /\ retvalue \in [Pcb -> Int]
      /\ test \in Tests /\ TestTyped /\ PidsInOrder /\ CountersInRange
      /\ running # 1 => pid[running] \in Pid /\ pid[running] \in 2..Kids(test) + 1
  <2>1. retvalue \in [Pcb -> Int]
    BY DEF SysInv, AlwaysInv, Inv, StateTyped
  <2> QED
    BY <1>1, <2>1, Callers, CallerFacts
<1>3. /\ pc' = [pc EXCEPT ![running] = NextInstr(running, retvalue[running])]
      /\ failed' = (failed \/ (~IsVoid(Instr(running)) /\ retvalue[running] < 0))
  BY DEF Return
<1>4. /\ pc'[running] = NextInstr(running, retvalue[running])
      /\ \A b \in Pcb \ {running} : pc'[b] = pc[b]
      /\ pc[running] \in Nat \ {0} /\ retvalue[running] \in Int
  BY <1>2, <1>3 DEF TestTyped
<1>5. CASE running = 1
  <2>1. pid[1] = 0 /\ pc[1] \in 1..Last_(test) /\ Last_(test) \in Nat
    BY <1>2, TestNumbers DEF PidsInOrder, CountersInRange
  <2>2. pc[1] # Last_(test)
    BY <1>1, <1>2, <1>5 DEF CountersInRange, Made, MadeBy
  <2>3. CASE Instr(1).op = "wait" /\ retvalue[1] < 0
    <3>1. \E w \in 1..Kids(test) : pc[1] = WaitPos(test, w)
      <4>1. Program[test][0][pc[1]].op = "wait"
        BY <2>1, <2>3 DEF Instr
      <4>2. \/ \E p \in 1..Kids(test) + 1 : pc[1] = SpawnPos(test, p)
            \/ \E i \in QueueIds(test) : \/ pc[1] = OpenPos(test, i)
                                         \/ \E j \in 1..Size(test) : pc[1] = SendPos(test, i, j)
                                         \/ pc[1] = ClosePos(test, i)
                                         \/ pc[1] = UnlinkPos(test, i)
            \/ \E w \in 1..Kids(test) : pc[1] = WaitPos(test, w)
            \/ pc[1] = Last_(test)
        BY <1>2, <2>1, NoOther
      <4>3. /\ \A p \in 1..Kids(test) + 1 : Program[test][0][SpawnPos(test, p)].op = "spawn"
            /\ \A i \in QueueIds(test) :
                 /\ Program[test][0][OpenPos(test, i)].op = "mq_open"
                 /\ Program[test][0][ClosePos(test, i)].op = "mq_close"
                 /\ Program[test][0][UnlinkPos(test, i)].op = "mq_unlink"
                 /\ \A j \in 1..Size(test) : Program[test][0][SendPos(test, i, j)].op = "mq_send"
            /\ Program[test][0][Last_(test)].op = "shutdown"
        BY <1>2, InitOps
      <4> QED
        BY <4>1, <4>2, <4>3
    <3>2. NextInstr(1, retvalue[1]) = WaitPos(test, 1) + Kids(test)
      BY <1>2, <1>4, <1>5, <2>1, <2>3, <3>1, GivesUp
    <3>3. failed'
      BY <1>3, <1>5, <2>3 DEF IsVoid
    <3>4. WaitPos(test, 1) + Kids(test) \in pc[1] + 1..Last_(test)
      <4>1. PICK w \in 1..Kids(test) : pc[1] = WaitPos(test, w)
        BY <3>1
      <4>2. /\ WaitPos(test, 1) \in Nat /\ WaitPos(test, 1) + Kids(test) \in 1..Last_(test)
            /\ WaitPos(test, w) = WaitPos(test, 1) + (w - 1) /\ Kids(test) \in Nat
        BY <1>2, AfterWaits, Layout, TestNumbers
      <4> QED
        BY <4>1, <4>2
    <3> QED
      BY <1>4, <1>5, <3>1, <3>2, <3>3, <3>4
  <2>4. CASE ~(Instr(1).op = "wait" /\ retvalue[1] < 0)
    <3>1. NextInstr(1, retvalue[1]) = pc[1] + 1
      BY <2>4 DEF NextInstr
    <3> QED
      BY <1>4, <1>5, <2>1, <2>2, <3>1
  <2> QED
    BY <2>3, <2>4
<1>6. CASE running # 1
  <2> DEFINE b == running
             p == pid[running]
  <2>1. /\ p \in Nat /\ p > 1 /\ p \in Pid /\ p \in 2..Kids(test) + 1
        /\ Size(test) \in Nat /\ ChildLast(b) = Size(test) + p + 4
    <3>1. Size(test) \in Nat /\ Kids(test) \in Nat
      BY <1>2, TestNumbers
    <3> QED
      BY <1>2, <1>6, <3>1 DEF ChildLast
  <2>2. /\ pc[b] \in 1..ChildLast(b)
        /\ Ended(b) <=> MadeBy(b, ChildLast(b))
    BY <1>2, <2>1 DEF CountersInRange
  <2>3. ~Ended(b)
    BY <1>2, Apart DEF Ended, LivePcbs
  <2>4. pc[b] # ChildLast(b)
    BY <1>1, <2>2, <2>3 DEF MadeBy
  <2>5. Instr(b) = ChildCall(ChildQueue(test, p), Size(test), p, pc[b])
    BY <1>2, <2>1, <2>2, ChildProgram DEF Instr
  <2>6. Instr(b).op # "wait"
    BY <2>5 DEF ChildCall, Open, Receive, Close, Nap, Exit
  <2>7. NextInstr(b, retvalue[b]) = pc[b] + 1
    BY <2>6 DEF NextInstr
  <2> QED
    BY <1>4, <1>6, <2>1, <2>2, <2>4, <2>7
<1> QED
  BY <1>4, <1>5, <1>6

\* A return makes no call; but a wait that failed takes those that follow for made.
LEMMA ReturnMade ==
  ASSUME SysInv, Bookkeeping, Return, NEW b \in Pcb, NEW k \in Nat
  PROVE  /\ MadeBy(b, k) => MadeBy(b, k)'
         /\ MadeBy(b, k)' => \/ MadeBy(b, k)
                             \/ /\ b = 1 /\ failed' /\ running = 1
                                /\ \E w \in 1..Kids(test) : k = WaitPos(test, w)
                                /\ \E w \in 1..Kids(test) : pc[1] = WaitPos(test, w)
<1>1. /\ running \in in_call /\ in_call' = in_call \ {running} /\ Calling
  BY DEF Return
<1>2. test \in Tests /\ running \in Pcb /\ pc \in [Pcb -> Nat \ {0}]
  BY <1>1, Callers DEF TestTyped
<1>3. /\ \A c \in Pcb \ {running} : pc'[c] = pc[c]
      /\ \/ pc'[running] = pc[running] + 1
         \/ /\ running = 1 /\ failed' /\ \E w \in 1..Kids(test) : pc[1] = WaitPos(test, w)
            /\ pc'[1] = WaitPos(test, 1) + Kids(test)
      /\ running = 1 => pc'[1] \in pc[1] + 1..Last_(test)
  BY ReturnPc
<1>4. pc[b] \in Nat /\ (b \in in_call' <=> b \in in_call /\ b # running)
  BY <1>1, <1>2
<1>5. CASE b # running
  BY <1>3, <1>4, <1>5 DEF MadeBy
<1>6. CASE b = running /\ pc'[b] = pc[b] + 1
  <2>1. MadeBy(b, k) <=> k <= pc[b]
    BY <1>1, <1>4, <1>6 DEF MadeBy
  <2>2. MadeBy(b, k)' <=> k < pc'[b]
    BY <1>4, <1>6 DEF MadeBy
  <2> QED
    BY <1>4, <1>6, <2>1, <2>2
<1>7. CASE /\ b = running /\ running = 1 /\ failed'
           /\ \E w \in 1..Kids(test) : pc[1] = WaitPos(test, w)
           /\ pc'[1] = WaitPos(test, 1) + Kids(test)
  <2>1. MadeBy(b, k) <=> k <= pc[b]
    BY <1>1, <1>4, <1>7 DEF MadeBy
  <2>2. MadeBy(b, k)' <=> k < pc'[b]
    BY <1>4, <1>7 DEF MadeBy
  <2>3. /\ WaitPos(test, 1) \in Nat
        /\ \A j \in WaitPos(test, 1)..WaitPos(test, 1) + Kids(test) - 1 :
             \E w \in 1..Kids(test) : j = WaitPos(test, w)
        /\ Kids(test) \in Nat
    BY <1>2, AfterWaits, TestNumbers
  <2>4. pc[1] >= WaitPos(test, 1) /\ pc'[1] > pc[1] /\ pc'[1] \in Int
    <3>1. PICK w \in 1..Kids(test) : pc[1] = WaitPos(test, w)
      BY <1>7
    <3>2. WaitPos(test, w) = WaitPos(test, 1) + (w - 1)
      BY <1>2, Layout
    <3>3. pc[1] >= WaitPos(test, 1)
      BY <2>3, <3>1, <3>2
    <3> QED
      BY <1>3, <1>4, <1>7, <2>3, <3>3
  <2>5. ASSUME k > pc[1], k < pc'[1]
        PROVE  \E w \in 1..Kids(test) : k = WaitPos(test, w)
    <3>1. k \in WaitPos(test, 1)..WaitPos(test, 1) + Kids(test) - 1
      BY <1>4, <1>7, <2>3, <2>4, <2>5
    <3> QED
      BY <2>3, <3>1
  <2> QED
    BY <1>4, <1>7, <2>1, <2>2, <2>4, <2>5
<1> QED
  BY <1>3, <1>5, <1>6, <1>7

-----------------------------------------------------------------------------
(* Pids, counters and places *)

LEMMA TypedStep ==
  ASSUME SysInv, Bookkeeping, [TestNext]_allVars
  PROVE  TestTyped'
<1>1. /\ TestTyped /\ StepKeeps /\ running \in Pcb \cup {Null}
  BY TestKeeps DEF Bookkeeping, SysInv, AlwaysInv, Inv, StateTyped
<1>2. /\ retvalue \in [Pcb -> Int] /\ retvalue' \in [Pcb -> Int]
      /\ syscall_arg1 \in [Pcb -> Msgs \cup {Mail!NoMsg}]
  BY <1>1 DEF StepKeeps, SysInv, AlwaysInv, Inv, StateTyped, MailSound, MP!NoMsg, Mail!NoMsg
<1>3. CASE Trap
  <2>1. running \in Pcb
    BY <1>3, Callers DEF Trap
  <2>2. answer' \in [Pcb -> Seq(Int)]
    <3>1. /\ \A b \in Pcb : <<retvalue'[b]>> \in Seq(Int) /\ answer[b] \in Seq(Int)
          /\ <<>> \in Seq(Int)
      BY <1>1, <1>2 DEF TestTyped
    <3> QED
      BY <1>3, <3>1 DEF Trap
  <2> QED
    BY <1>1, <1>3, <2>1, <2>2 DEF Trap, TestTyped
<1>4. CASE Return
  <2>1. running \in Pcb /\ test \in Tests
    BY <1>4, Callers DEF Return
  <2>2. pc' \in [Pcb -> Nat \ {0}]
    <3>1. pc'[running] \in Nat \ {0}
      <4>1. pc[running] + 1 \in Nat \ {0}
        BY <1>1, <2>1 DEF TestTyped
      <4>2. running = 1 => pc'[1] \in Nat \ {0}
        BY <1>1, <1>4, <2>1, ReturnPc, TestNumbers DEF TestTyped
      <4> QED
        BY <1>4, <4>1, <4>2, ReturnPc
    <3>2. pc' = [pc EXCEPT ![running] = pc'[running]]
      <4>1. pc' = [pc EXCEPT ![running] = NextInstr(running, retvalue[running])]
        BY <1>4 DEF Return
      <4> QED
        BY <1>1, <2>1, <4>1 DEF TestTyped
    <3> QED
      BY <1>1, <3>1, <3>2 DEF TestTyped
  <2>3. fd' \in [Pcb -> Int]
    BY <1>1, <1>2, <1>4, <2>1 DEF Return, TestTyped
  <2>4. read' \in [Pcb -> Seq(Msgs \cup {Mail!NoMsg})]
    <3> DEFINE S == Msgs \cup {Mail!NoMsg}
    <3>1. /\ read \in [Pcb -> Seq(S)] /\ syscall_arg1[running] \in S
      BY <1>1, <1>2, <2>1 DEF TestTyped
    <3>2. read' = read \/ read' = [read EXCEPT ![running] = Append(@, syscall_arg1[running])]
      BY <1>4 DEF Return
    <3> HIDE DEF S
    <3>3. Append(read[running], syscall_arg1[running]) \in Seq(S)
      BY <2>1, <3>1
    <3>4. read' \in [Pcb -> Seq(S)]
      BY <3>1, <3>2, <3>3
    <3> QED
      BY <3>4 DEF S
  <2>5. failed' \in BOOLEAN /\ in_call' \subseteq Pcb /\ UNCHANGED <<test, answer>>
    BY <1>1, <1>4 DEF Return, TestTyped
  <2> QED
    BY <1>1, <2>2, <2>3, <2>4, <2>5 DEF TestTyped
<1>5. CASE UNCHANGED testVars
  BY <1>1, <1>5 DEF testVars, TestTyped
<1> QED
  BY <1>3, <1>4, <1>5 DEF TestNext, Step, allVars

\* A step that moves no process in or out of its life.
Quiet == UNCHANGED <<pid, init_pcb, last_pid, pcb_allocator, zombie_list, system>>

LEMMA QuietShapes ==
  /\ MailCall => Quiet
  /\ Parked => Quiet
  /\ Refused(0) => Quiet
  /\ Blocked(0) => Quiet
  /\ Scheduled => Quiet
  BY DEF MailCall, Parked, Refused, Blocked, Scheduled, Replied, Quiet, lists, family, allocators

\* Who is in which call.
LEMMA WaitsRecorded ==
  ASSUME \/ MailCall \/ Parked \/ Scheduled \/ Replied \/ Collected \/ Zombied
         \/ \E new \in FreePcbs : Spawned(new),
         NEW b \in Pcb, syscall_num'[b] = "wait"
  PROVE  syscall_num[b] = "wait"
  BY DEF MailCall, Parked, Scheduled, Replied, Collected, Zombied, Spawned,
         RecordedOther, Recorded, call

\* A step that leaves the processes' lives and the counters alone.
LEMMA QuietBook ==
  ASSUME PidsInOrder, CountersInRange, Quiet, UNCHANGED <<test, pc, in_call>>,
         \A b \in Pcb : syscall_num'[b] = "wait" => syscall_num[b] = "wait"
  PROVE  (PidsInOrder /\ CountersInRange)'
  BY DEF PidsInOrder, CountersInRange, Quiet, FreePcbs, Ended, ChildLast, Made, MadeBy

LEMMA SpawnBook ==
  ASSUME SysInv, Bookkeeping, Trap, running = 1,
         NEW p \in 1..Kids(test) + 1, pc[1] = SpawnPos(test, p),
         NEW new \in FreePcbs, Spawned(new)
  PROVE  (PidsInOrder /\ CountersInRange)'
<1>1. /\ test \in Tests /\ PidsInOrder /\ CountersInRange /\ Inv /\ InitStays
      /\ test' = test /\ pc' = pc /\ in_call' = in_call \cup {1} /\ 1 \notin in_call
      /\ TestTyped
  <2>1. Calling
    BY DEF Trap
  <2>2. InitStays
    BY DEF SysInv, AlwaysInv, GuardiansInv
  <2> QED
    BY <2>1, <2>2, Callers, CallerFacts DEF Trap
<1>2. /\ \A b, k : MadeBy(b, k)' <=> MadeBy(b, k) \/ (b = 1 /\ k = pc[1])
      /\ \A k : Made(k)' <=> Made(k) \/ k = pc[1]
  BY TrapMade DEF Made
<1>3. /\ Kids(test) \in Nat \ {0} /\ Size(test) \in Nat /\ Last_(test) \in Nat
      /\ \A q \in 1..Kids(test) + 1 : SpawnPos(test, q) \in 1..Last_(test) - 1
      /\ \A q, r \in 1..Kids(test) + 1 : q < r => SpawnPos(test, q) < SpawnPos(test, r)
      /\ SpawnPos(test, p) < WaitPos(test, 1)
  <2>1. Kids(test) \in Nat \ {0} /\ Size(test) \in Nat /\ Last_(test) \in Nat
    BY <1>1, TestNumbers
  <2>2. 1 \in 1..Kids(test)
    BY <2>1
  <2> QED
    BY <1>1, <2>1, <2>2, Layout, PositionsTyped
<1>4. last_pid \in Nat /\ last_pid = p
  <2>1. last_pid \in 1..Kids(test) + 2
    BY <1>1 DEF PidsInOrder
  <2>2. ~(p < last_pid)
    BY <1>1, <1>3 DEF PidsInOrder, Made, MadeBy
  <2>3. ASSUME NEW q \in 1..p - 1
        PROVE  q < last_pid
    <3>1. q \in 1..Kids(test) + 1 /\ q < p
      BY <1>3
    <3>2. SpawnPos(test, q) < pc[1]
      BY <1>3, <3>1
    <3>3. Made(SpawnPos(test, q))
      BY <3>2 DEF Made, MadeBy
    <3> QED
      BY <1>1, <3>1, <3>3 DEF PidsInOrder
  <2>4. p = 1 \/ p - 1 \in 1..p - 1
    BY <1>3
  <2> QED
    BY <1>3, <2>1, <2>2, <2>3, <2>4
<1>5. /\ new \in Pcb /\ new # 1 /\ pid[new] = 0 /\ new \notin zombie_list
      /\ new \notin in_call /\ pc[new] = 1
  <2>1. new \in Pcb /\ new \notin LivePcbs /\ new \notin zombie_list
    BY <1>1, Apart DEF LivePcbs
  <2>2. new # 1
    BY <1>1, <2>1 DEF InitStays, PidsInOrder
  <2>3. ~Made(WaitPos(test, 1))
    <3>1. WaitPos(test, 1) \in Nat
      BY <1>1, AfterWaits
    <3>2. pc[1] \in Nat /\ pc[1] < WaitPos(test, 1)
      BY <1>1, <1>3, <2>1 DEF CountersInRange
    <3> QED
      BY <3>1, <3>2 DEF Made, MadeBy
  <2>4. pid[new] \in Nat
    BY <1>1, <2>1, ProcessesAssumption DEF Inv, StateTyped, Pid
  <2>5. pid[new] = 0
    BY <1>1, <2>3, <2>4 DEF PidsInOrder
  <2> QED
    BY <1>1, <2>1, <2>2, <2>5 DEF CountersInRange
<1>6. /\ FreePcbs' = FreePcbs \ {new} /\ last_pid' = last_pid + 1
      /\ pid'[new] = p /\ \A b \in Pcb \ {new} : pid'[b] = pid[b]
      /\ UNCHANGED <<zombie_list, init_pcb, system>>
      /\ \A b \in Pcb : syscall_num'[b] = "wait" => syscall_num[b] = "wait"
  BY <1>4, <1>5, WaitsRecorded DEF Spawned
<1>7. \A b \in Pcb : Ended(b)' <=> Ended(b) /\ b # new
  BY <1>5, <1>6 DEF Ended
<1>8. PidsInOrder'
  <2>1. (init_pcb = 1 /\ pid[1] = 0)' /\ last_pid' = p + 1 /\ last_pid' \in 1..Kids(test) + 2
    <3>1. 1 \in Pcb
      BY ProcessesAssumption DEF Pcb
    <3> QED
      BY <1>1, <1>3, <1>4, <1>5, <1>6, <3>1 DEF PidsInOrder
  <2>2. \A b \in Pcb : pid[b] < p
    BY <1>1, <1>4 DEF PidsInOrder
  <2>3. \A b \in Pcb : pid[b] \in Nat
    BY <1>1, ProcessesAssumption DEF Inv, StateTyped, Pid
  <2>4. \A b \in Pcb : pid'[b] < p + 1
    BY <1>3, <1>6, <2>2, <2>3
  <2>5. ASSUME NEW q \in 1..p
        PROVE  \E b \in Pcb : pid'[b] = q
    <3>1. CASE q = p
      BY <1>5, <1>6, <3>1
    <3>2. CASE q # p
      <4>1. q \in 1..last_pid - 1 /\ q > 0
        BY <1>3, <1>4, <3>2
      <4>2. PICK b \in Pcb : pid[b] = q
        BY <1>1, <4>1 DEF PidsInOrder
      <4>3. b # new
        BY <1>5, <4>1, <4>2
      <4> QED
        BY <1>6, <4>2, <4>3
    <3> QED
      BY <3>1, <3>2
  <2>6. \A b, c \in Pcb : pid'[b] = pid'[c] /\ pid'[b] > 0 => b = c
    <3>1. \A b, c \in Pcb \ {new} : pid[b] = pid[c] /\ pid[b] > 0 => b = c
      BY <1>1 DEF PidsInOrder
    <3>2. \A b \in Pcb \ {new} : pid'[b] # p
      BY <1>6, <2>2, <2>3
    <3> QED
      BY <1>6, <3>1, <3>2
  <2>7. \A b \in Pcb \ {1} : pid'[b] = 0 => b \in FreePcbs'
    <3>1. p # 0
      BY <1>3
    <3> QED
      BY <1>1, <1>6, <3>1 DEF PidsInOrder
  <2>8. ASSUME NEW q \in 1..Kids(test) + 1
        PROVE  q < p + 1 <=> Made(SpawnPos(test, q))'
    <3>1. q < p <=> Made(SpawnPos(test, q))
      BY <1>1, <1>4 DEF PidsInOrder
    <3>2. SpawnPos(test, q) = pc[1] <=> q = p
      <4>1. SpawnPos(test, q) \in Nat /\ SpawnPos(test, p) \in Nat
        BY <1>3
      <4>2. q < p => SpawnPos(test, q) < SpawnPos(test, p)
        BY <1>3
      <4>3. p < q => SpawnPos(test, p) < SpawnPos(test, q)
        BY <1>3
      <4> QED
        BY <1>3, <4>1, <4>2, <4>3
    <3>3. q \in Nat /\ p \in Nat
      BY <1>3
    <3>4. q < p + 1 <=> q < p \/ q = p
      BY <3>3
    <3>5. Made(SpawnPos(test, q))' <=> Made(SpawnPos(test, q)) \/ SpawnPos(test, q) = pc[1]
      BY <1>1, <1>2
    <3> QED
      BY <3>1, <3>2, <3>4, <3>5
  <2>9. /\ (\E b \in FreePcbs' : pid'[b] > 0) => Made(WaitPos(test, 1))'
        /\ (\E b \in Pcb : syscall_num'[b] = "wait") => Made(WaitPos(test, 1))'
    <3>1. \A b \in FreePcbs' : b \in FreePcbs /\ b \in Pcb \ {new}
      BY <1>1, <1>6, Apart
    <3> QED
      BY <1>1, <1>2, <1>6, <3>1 DEF PidsInOrder
  <2>10. last_pid' - 1 = p
    BY <1>3, <2>1
  <2> QED
    BY <1>1, <2>1, <2>4, <2>5, <2>6, <2>7, <2>8, <2>9, <2>10 DEF PidsInOrder
<1>9. CountersInRange'
  <2>1. pc'[1] \in 1..Last_(test')
    BY <1>1 DEF CountersInRange
  <2>2. Made(Last_(test))' <=> system' = "down"
    <3>1. pc[1] # Last_(test)
      BY <1>3
    <3> QED
      BY <1>1, <1>2, <1>6, <3>1 DEF CountersInRange
  <2>3. ASSUME NEW b \in Pcb \ {1}
        PROVE  /\ pid'[b] < 2 => pc'[b] = 1 /\ b \notin in_call'
               /\ pid'[b] = 1 => ~Ended(b)'
    <3>1. CASE b = new
      BY <1>1, <1>5, <1>7, <3>1
    <3>2. CASE b # new
      BY <1>1, <1>6, <1>7, <3>2 DEF CountersInRange
    <3> QED
      BY <3>1, <3>2
  <2>4. ASSUME NEW b \in Pcb, pid'[b] > 1
        PROVE  (pc[b] \in 1..ChildLast(b) /\ (Ended(b) <=> MadeBy(b, ChildLast(b))))'
    <3>1. b # 1
      BY <1>1, <1>5, <1>6, <2>4 DEF PidsInOrder
    <3>2. ChildLast(b)' = Size(test) + pid'[b] + 4
      BY <1>1 DEF ChildLast
    <3>3. CASE b = new
      <4>1. Size(test) + p + 4 \in Nat /\ Size(test) + p + 4 > 1
        BY <1>3
      <4> QED
        BY <1>1, <1>2, <1>5, <1>6, <1>7, <3>2, <3>3, <4>1 DEF MadeBy
    <3>4. CASE b # new
      <4>1. pid[b] > 1 /\ ChildLast(b)' = ChildLast(b)
        BY <1>6, <2>4, <3>2, <3>4 DEF ChildLast
      <4>2. pc[b] \in 1..ChildLast(b) /\ (Ended(b) <=> MadeBy(b, ChildLast(b)))
        BY <1>1, <4>1 DEF CountersInRange
      <4> QED
        BY <1>1, <1>7, <3>1, <3>4, <4>1, <4>2 DEF MadeBy
    <3> QED
      BY <3>3, <3>4
  <2>5. pid'[1] # 1
    BY <1>8 DEF PidsInOrder
  <2> QED
    BY <1>1, <2>1, <2>2, <2>3, <2>4, <2>5 DEF CountersInRange
<1> QED
  BY <1>8, <1>9

\* A child that ends, collected at once by the parent that waits, or a zombie.
LEMMA ExitBook ==
  ASSUME SysInv, Bookkeeping, Trap, running # 1, pc[running] = ChildLast(running),
         (ParentAwaits(running) /\ Collected) \/ Zombied
  PROVE  (PidsInOrder /\ CountersInRange)'
<1>1. /\ test \in Tests /\ PidsInOrder /\ CountersInRange /\ Inv /\ running \in Pcb
      /\ test' = test /\ pc' = pc /\ in_call' = in_call \cup {running}
      /\ TestTyped /\ running \notin in_call
      /\ pid[running] \in 2..Kids(test) + 1 /\ Kids(test) \in Nat
  <2>1. Calling
    BY DEF Trap
  <2>2. test \in Tests
    BY DEF Bookkeeping, TestTyped
  <2> QED
    BY <2>1, <2>2, Callers, CallerFacts, TestNumbers DEF Trap
<1>2. \A b, k : MadeBy(b, k)' <=> MadeBy(b, k) \/ (b = running /\ k = pc[b])
  BY TrapMade
<1>3. /\ UNCHANGED <<pid, init_pcb, last_pid, system>>
      /\ \A b \in Pcb : Ended(b)' <=> Ended(b) \/ b = running
      /\ FreePcbs' = FreePcbs \/ (ParentAwaits(running) /\ parent[running] \in waiting_list)
  <2>1. CASE Collected
    BY <2>1 DEF Collected, Ended, Zombied
  <2>2. CASE Zombied
    BY <2>2 DEF Zombied, Ended, FreePcbs, allocators
  <2>3. Zombied => FreePcbs' = FreePcbs
    BY DEF Zombied, FreePcbs, allocators
  <2> QED
    BY <2>1, <2>2, <2>3 DEF Collected
<1>4. \A b \in Pcb : syscall_num'[b] = "wait" => syscall_num[b] = "wait"
  BY WaitsRecorded
<1>5. \A k : Made(k)' <=> Made(k)
  BY <1>2 DEF Made
<1>6. FreePcbs' # FreePcbs => Made(WaitPos(test, 1))
  <2>1. ASSUME ParentAwaits(running), parent[running] \in waiting_list
        PROVE  Made(WaitPos(test, 1))
    <3>1. parent[running] \in Pcb /\ syscall_num[parent[running]] = "wait"
      BY <1>1, <2>1 DEF ParentAwaits, Inv, StateTyped
    <3> QED
      BY <1>1, <3>1 DEF PidsInOrder
  <2> QED
    BY <1>3, <2>1
<1>7. PidsInOrder'
  <2>1. /\ (init_pcb = 1 /\ pid[1] = 0)' /\ (last_pid \in 1..Kids(test) + 2)'
        /\ (\A b \in Pcb : pid[b] < last_pid)'
        /\ (\A p \in 1..last_pid - 1 : \E b \in Pcb : pid[b] = p)'
        /\ (\A b, c \in Pcb : pid[b] = pid[c] /\ pid[b] > 0 => b = c)'
    BY <1>1, <1>3 DEF PidsInOrder
  <2>2. (\A b \in Pcb \ {1} : pid[b] = 0 => b \in FreePcbs)'
    <3>1. FreePcbs \subseteq FreePcbs'
      BY DEF Collected, Zombied, FreePcbs, allocators
    <3> QED
      BY <1>1, <1>3, <3>1 DEF PidsInOrder
  <2>3. (\A p \in 1..Kids(test) + 1 : p < last_pid <=> Made(SpawnPos(test, p)))'
    BY <1>1, <1>3, <1>5 DEF PidsInOrder
  <2>4. /\ ((\E b \in FreePcbs : pid[b] > 0) => Made(WaitPos(test, 1)))'
        /\ ((\E b \in Pcb : syscall_num[b] = "wait") => Made(WaitPos(test, 1)))'
    BY <1>1, <1>3, <1>4, <1>5, <1>6 DEF PidsInOrder
  <2> QED
    BY <2>1, <2>2, <2>3, <2>4 DEF PidsInOrder
<1>8. CountersInRange'
  <2>1. (pc[1] \in 1..Last_(test) /\ (Made(Last_(test)) <=> system = "down"))'
    BY <1>1, <1>3, <1>5 DEF CountersInRange
  <2>2. pid[running] \in Nat /\ pid[running] > 1
    BY <1>1
  <2>3. (/\ \A b \in Pcb \ {1} : pid[b] < 2 => pc[b] = 1 /\ b \notin in_call
         /\ \A b \in Pcb : pid[b] = 1 => ~Ended(b))'
    BY <1>1, <1>3, <2>2 DEF CountersInRange
  <2>4. ASSUME NEW b \in Pcb, pid'[b] > 1
        PROVE  (pc[b] \in 1..ChildLast(b) /\ (Ended(b) <=> MadeBy(b, ChildLast(b))))'
    <3>1. pid[b] > 1 /\ ChildLast(b)' = ChildLast(b)
      BY <1>1, <1>3, <2>4 DEF ChildLast
    <3>2. pc[b] \in 1..ChildLast(b) /\ (Ended(b) <=> MadeBy(b, ChildLast(b)))
      BY <1>1, <3>1 DEF CountersInRange
    <3>3. CASE b = running
      BY <1>1, <1>3, <3>1, <3>2, <3>3 DEF MadeBy
    <3>4. CASE b # running
      BY <1>1, <1>3, <3>1, <3>2, <3>4 DEF MadeBy
    <3> QED
      BY <3>3, <3>4
  <2> QED
    BY <2>1, <2>3, <2>4 DEF CountersInRange
<1> QED
  BY <1>7, <1>8

\* A wait of init.
LEMMA WaitBook ==
  ASSUME SysInv, Bookkeeping, Trap, running = 1,
         NEW w \in 1..Kids(test), pc[1] = WaitPos(test, w),
         Refused(0) \/ Blocked(0) \/ \E child \in zombie_list : Reaped(0, child)
  PROVE  (PidsInOrder /\ CountersInRange)'
<1>1. /\ test \in Tests /\ PidsInOrder /\ CountersInRange /\ Inv
      /\ test' = test /\ pc' = pc /\ in_call' = in_call \cup {1}
      /\ TestTyped /\ Kids(test) \in Nat \ {0}
  <2>1. Calling
    BY DEF Trap
  <2>2. test \in Tests
    BY DEF Bookkeeping, TestTyped
  <2> QED
    BY <2>1, <2>2, Callers, CallerFacts, TestNumbers DEF Trap
<1>2. /\ \A b, k : MadeBy(b, k)' <=> MadeBy(b, k) \/ (b = 1 /\ k = pc[1])
      /\ \A k : Made(k)' <=> Made(k) \/ k = pc[1]
  BY TrapMade DEF Made
<1>3. /\ UNCHANGED <<pid, init_pcb, last_pid, system>>
      /\ \A b \in Pcb : Ended(b)' <=> Ended(b)
      /\ FreePcbs \subseteq FreePcbs'
  BY DEF Refused, Blocked, Reaped, Ended, FreePcbs, lists, family, allocators
<1>4. Made(WaitPos(test, 1))'
  <2>1. /\ WaitPos(test, w) = WaitPos(test, 1) + (w - 1) /\ WaitPos(test, 1) \in Nat
    BY <1>1, Layout, AfterWaits
  <2>2. pc[1] \in Nat /\ WaitPos(test, 1) <= pc[1]
    BY <1>1, <2>1
  <2> QED
    BY <1>1, <2>1, <2>2 DEF Made, MadeBy
<1>5. /\ \A p \in 1..Kids(test) + 1 : pc[1] # SpawnPos(test, p)
      /\ pc[1] # Last_(test)
  BY <1>1, InitOps
<1>6. PidsInOrder'
  <2>1. /\ (init_pcb = 1 /\ pid[1] = 0)' /\ (last_pid \in 1..Kids(test) + 2)'
        /\ (\A b \in Pcb : pid[b] < last_pid)'
        /\ (\A p \in 1..last_pid - 1 : \E b \in Pcb : pid[b] = p)'
        /\ (\A b, c \in Pcb : pid[b] = pid[c] /\ pid[b] > 0 => b = c)'
        /\ (\A b \in Pcb \ {1} : pid[b] = 0 => b \in FreePcbs)'
    BY <1>1, <1>3 DEF PidsInOrder
  <2>2. (\A p \in 1..Kids(test) + 1 : p < last_pid <=> Made(SpawnPos(test, p)))'
    BY <1>1, <1>2, <1>3, <1>5 DEF PidsInOrder
  <2> QED
    BY <1>1, <1>4, <2>1, <2>2 DEF PidsInOrder
<1>7. CountersInRange'
  <2>1. (pc[1] \in 1..Last_(test) /\ (Made(Last_(test)) <=> system = "down"))'
    BY <1>1, <1>2, <1>3, <1>5 DEF CountersInRange
  <2>2. (/\ \A b \in Pcb \ {1} : pid[b] < 2 => pc[b] = 1 /\ b \notin in_call
         /\ \A b \in Pcb : pid[b] = 1 => ~Ended(b))'
    BY <1>1, <1>3 DEF CountersInRange
  <2>3. (\A b \in Pcb : pid[b] > 1 =>
          pc[b] \in 1..ChildLast(b) /\ (Ended(b) <=> MadeBy(b, ChildLast(b))))'
    <3>1. \A b \in Pcb : pid[b] > 1 => b # 1
      BY <1>1 DEF PidsInOrder
    <3> QED
      BY <1>1, <1>3, <3>1 DEF CountersInRange, ChildLast, MadeBy
  <2> QED
    BY <2>1, <2>2, <2>3 DEF CountersInRange
<1> QED
  BY <1>6, <1>7

\* The calls that move no process in or out of its life, and the shutdown.
LEMMA OtherBook ==
  ASSUME SysInv, Bookkeeping, Trap,
         UNCHANGED <<pid, init_pcb, last_pid, pcb_allocator, zombie_list>>,
         MailCall \/ Parked \/ Replied,
         running = 1 => \A p \in 1..Kids(test) + 1 : pc[1] # SpawnPos(test, p),
         running # 1 => pc[running] # ChildLast(running),
         system' = IF running = 1 /\ pc[1] = Last_(test) THEN "down" ELSE system
  PROVE  (PidsInOrder /\ CountersInRange)'
<1>1. /\ test \in Tests /\ PidsInOrder /\ CountersInRange /\ Inv /\ running \in Pcb
      /\ test' = test /\ pc' = pc /\ in_call' = in_call \cup {running}
      /\ TestTyped /\ system = "up"
      /\ running # 1 => pid[running] \in 2..Kids(test) + 1
  <2>1. Calling
    BY DEF Trap
  <2> QED
    BY <2>1, Callers, CallerFacts DEF Trap
<1>2. /\ \A b, k : MadeBy(b, k)' <=> MadeBy(b, k) \/ (b = running /\ k = pc[b])
      /\ \A k : Made(k)' <=> Made(k) \/ (running = 1 /\ k = pc[1])
  BY TrapMade DEF Made
<1>3. /\ UNCHANGED <<pid, init_pcb, last_pid>> /\ FreePcbs' = FreePcbs
      /\ \A b \in Pcb : Ended(b)' <=> Ended(b)
  BY DEF Ended, FreePcbs
<1>4. \A b \in Pcb : syscall_num'[b] = "wait" => syscall_num[b] = "wait"
  BY WaitsRecorded
<1>5. PidsInOrder'
  <2>1. /\ (init_pcb = 1 /\ pid[1] = 0)' /\ (last_pid \in 1..Kids(test) + 2)'
        /\ (\A b \in Pcb : pid[b] < last_pid)'
        /\ (\A p \in 1..last_pid - 1 : \E b \in Pcb : pid[b] = p)'
        /\ (\A b, c \in Pcb : pid[b] = pid[c] /\ pid[b] > 0 => b = c)'
        /\ (\A b \in Pcb \ {1} : pid[b] = 0 => b \in FreePcbs)'
    BY <1>1, <1>3 DEF PidsInOrder
  <2>2. (\A p \in 1..Kids(test) + 1 : p < last_pid <=> Made(SpawnPos(test, p)))'
    BY <1>1, <1>2, <1>3 DEF PidsInOrder
  <2>3. /\ ((\E b \in FreePcbs : pid[b] > 0) => Made(WaitPos(test, 1)))'
        /\ ((\E b \in Pcb : syscall_num[b] = "wait") => Made(WaitPos(test, 1)))'
    BY <1>1, <1>2, <1>3, <1>4 DEF PidsInOrder
  <2> QED
    BY <2>1, <2>2, <2>3 DEF PidsInOrder
<1>6. CountersInRange'
  <2>1. (pc[1] \in 1..Last_(test) /\ (Made(Last_(test)) <=> system = "down"))'
    BY <1>1, <1>2 DEF CountersInRange
  <2>2. (/\ \A b \in Pcb \ {1} : pid[b] < 2 => pc[b] = 1 /\ b \notin in_call
         /\ \A b \in Pcb : pid[b] = 1 => ~Ended(b))'
    <3>1. ASSUME NEW b \in Pcb \ {1}, pid[b] < 2 PROVE b # running
      <4>1. Kids(test) \in Nat
        BY <1>1, TestNumbers
      <4> QED
        BY <1>1, <3>1, <4>1
    <3> QED
      BY <1>1, <1>3, <3>1 DEF CountersInRange
  <2>3. (\A b \in Pcb : pid[b] > 1 =>
          pc[b] \in 1..ChildLast(b) /\ (Ended(b) <=> MadeBy(b, ChildLast(b))))'
    <3>1. \A b \in Pcb : pid[b] > 1 => b # 1
      BY <1>1 DEF PidsInOrder
    <3> QED
      BY <1>1, <1>3, <3>1 DEF CountersInRange, ChildLast, MadeBy
  <2> QED
    BY <2>1, <2>2, <2>3 DEF CountersInRange
<1> QED
  BY <1>5, <1>6

LEMMA TrapBook ==
  ASSUME SysInv, Bookkeeping, Trap, NeverFaults'
  PROVE  (PidsInOrder /\ CountersInRange)'
<1>1. /\ \/ running = 1 /\ TrapOfInit
         \/ running # 1 /\ TrapOfChild(running)
      /\ Calling /\ test \in Tests /\ system = "up"
  BY TrapKinds, Callers DEF Trap
<1>2. CASE running = 1 /\ TrapOfInit
  <2>1. ASSUME NEW p \in 1..Kids(test) + 1, pc[1] = SpawnPos(test, p),
               NEW new \in FreePcbs, Spawned(new)
        PROVE  (PidsInOrder /\ CountersInRange)'
    BY <1>2, <2>1, SpawnBook
  <2>2. ASSUME NEW w \in 1..Kids(test), pc[1] = WaitPos(test, w),
               Refused(0) \/ Blocked(0) \/ \E child \in zombie_list : Reaped(0, child)
        PROVE  (PidsInOrder /\ CountersInRange)'
    BY <1>2, <2>2, WaitBook
  <2>3. CASE pc[1] = Last_(test) /\ Replied /\ UNCHANGED retvalue /\ system' = "down"
    <3>1. UNCHANGED <<pid, init_pcb, last_pid, pcb_allocator, zombie_list>>
      BY <2>3 DEF Replied, lists, family, allocators
    <3>2. \A p \in 1..Kids(test) + 1 : pc[1] # SpawnPos(test, p)
      BY <1>1, <2>3, InitOps
    <3> QED
      BY <1>2, <2>3, <3>1, <3>2, OtherBook
  <2>4. CASE /\ \A p \in 1..Kids(test) + 1 : pc[1] # SpawnPos(test, p)
             /\ pc[1] # Last_(test)
             /\ MailCall
    <3>1. Quiet
      BY <2>4, QuietShapes
    <3> QED
      BY <1>2, <2>4, <3>1, OtherBook DEF Quiet
  <2> QED
    BY <1>2, <2>1, <2>2, <2>3, <2>4 DEF TrapOfInit
<1>3. CASE running # 1 /\ TrapOfChild(running)
  <2>1. CASE pc[running] = ChildLast(running)
    BY <1>3, <2>1, ExitBook DEF TrapOfChild
  <2>2. CASE pc[running] # ChildLast(running)
    <3>1. MailCall \/ Parked
      BY <1>3, <2>2 DEF TrapOfChild
    <3>2. Quiet
      BY <3>1, QuietShapes
    <3> QED
      BY <1>3, <2>2, <3>1, <3>2, OtherBook DEF Quiet
  <2> QED
    BY <2>1, <2>2
<1> QED
  BY <1>1, <1>2, <1>3

LEMMA ReturnBook ==
  ASSUME SysInv, Bookkeeping, Return
  PROVE  (PidsInOrder /\ CountersInRange)'
<1>1. /\ test \in Tests /\ PidsInOrder /\ CountersInRange /\ Inv /\ running \in Pcb
      /\ UNCHANGED <<sysVars, test>> /\ in_call' = in_call \ {running} /\ running \in in_call
      /\ TestTyped /\ system = "up"
      /\ running # 1 => pid[running] \in 2..Kids(test) + 1
  <2>1. Calling
    BY DEF Return
  <2> QED
    BY <2>1, Callers, CallerFacts DEF Return
<1>2. /\ UNCHANGED <<pid, init_pcb, last_pid, system, syscall_num>> /\ FreePcbs' = FreePcbs
      /\ \A b \in Pcb : Ended(b)' <=> Ended(b)
  BY <1>1 DEF Ended, FreePcbs, sysVars, vars, lists, family, call, allocators
<1>3. /\ \A b \in Pcb \ {running} : pc'[b] = pc[b]
      /\ running = 1 => pc'[1] \in pc[1] + 1..Last_(test)
      /\ running # 1 => pc'[running] \in 1..ChildLast(running)
  BY ReturnPc
<1>4. /\ \A k \in Nat : Made(k) => Made(k)'
      /\ \A k \in Nat : Made(k)' => Made(k) \/ \E w \in 1..Kids(test) : k = WaitPos(test, w)
      /\ \A b \in Pcb \ {1}, k \in Nat : MadeBy(b, k)' <=> MadeBy(b, k)
  <2>1. 1 \in Pcb
    BY ProcessesAssumption DEF Pcb
  <2> QED
    BY <2>1, ReturnMade DEF Made
<1>5. /\ \A p \in 1..Kids(test) + 1 : SpawnPos(test, p) \in Nat
      /\ \A p \in 1..Kids(test) + 1, w \in 1..Kids(test) : SpawnPos(test, p) # WaitPos(test, w)
      /\ \A w \in 1..Kids(test) : Last_(test) # WaitPos(test, w)
      /\ WaitPos(test, 1) \in Nat /\ Last_(test) \in Nat
  <2>1. \A p \in 1..Kids(test) + 1 : SpawnPos(test, p) \in Nat
    BY <1>1, PositionsTyped, TestNumbers
  <2> QED
    BY <1>1, <2>1, InitOps, AfterWaits, TestNumbers
<1>6. PidsInOrder'
  <2>1. /\ (init_pcb = 1 /\ pid[1] = 0)' /\ (last_pid \in 1..Kids(test) + 2)'
        /\ (\A b \in Pcb : pid[b] < last_pid)'
        /\ (\A p \in 1..last_pid - 1 : \E b \in Pcb : pid[b] = p)'
        /\ (\A b, c \in Pcb : pid[b] = pid[c] /\ pid[b] > 0 => b = c)'
        /\ (\A b \in Pcb \ {1} : pid[b] = 0 => b \in FreePcbs)'
    BY <1>1, <1>2 DEF PidsInOrder
  <2>2. ASSUME NEW p \in 1..Kids(test) + 1
        PROVE  (p < last_pid <=> Made(SpawnPos(test, p)))'
    <3>1. p < last_pid <=> Made(SpawnPos(test, p))
      BY <1>1 DEF PidsInOrder
    <3>2. Made(SpawnPos(test, p))' <=> Made(SpawnPos(test, p))
      <4> DEFINE k == SpawnPos(test, p)
      <4>1. k \in Nat /\ \A w \in 1..Kids(test) : k # WaitPos(test, w)
        BY <1>5
      <4>2. k' = k
        BY <1>1
      <4> HIDE DEF k
      <4>3. Made(k)' <=> Made(k)
        BY <1>4, <4>1, <4>2 DEF Made, MadeBy
      <4> QED
        BY <4>3 DEF k
    <3> QED
      BY <1>1, <1>2, <3>1, <3>2
  <2>3. Made(WaitPos(test, 1)) => Made(WaitPos(test, 1))'
    BY <1>1, <1>4, <1>5
  <2> QED
    BY <1>1, <1>2, <2>1, <2>2, <2>3 DEF PidsInOrder
<1>7. CountersInRange'
  <2>1. (pc[1] \in 1..Last_(test) /\ (Made(Last_(test)) <=> system = "down"))'
    <3>1. pc[1] \in 1..Last_(test) /\ ~Made(Last_(test))
      BY <1>1 DEF CountersInRange
    <3>2. pc'[1] \in 1..Last_(test)
      <4>1. 1 \in Pcb
        BY ProcessesAssumption DEF Pcb
      <4> QED
        BY <1>3, <1>5, <3>1, <4>1
    <3>3. ~Made(Last_(test))'
      BY <1>1, <1>4, <1>5, <3>1
    <3> QED
      BY <1>1, <1>2, <3>2, <3>3
  <2>2. (/\ \A b \in Pcb \ {1} : pid[b] < 2 => pc[b] = 1 /\ b \notin in_call
         /\ \A b \in Pcb : pid[b] = 1 => ~Ended(b))'
    <3>1. ASSUME NEW b \in Pcb \ {1}, pid[b] < 2 PROVE b # running
      <4>1. Kids(test) \in Nat
        BY <1>1, TestNumbers
      <4> QED
        BY <1>1, <3>1, <4>1
    <3> QED
      BY <1>1, <1>2, <1>3, <3>1 DEF CountersInRange
  <2>3. ASSUME NEW b \in Pcb, pid'[b] > 1
        PROVE  (pc[b] \in 1..ChildLast(b) /\ (Ended(b) <=> MadeBy(b, ChildLast(b))))'
    <3>1. b # 1 /\ pid[b] > 1 /\ ChildLast(b)' = ChildLast(b) /\ ChildLast(b) \in Nat
      <4>1. pid[b] \in Nat /\ Size(test) \in Nat
        BY <1>1, TestNumbers, ProcessesAssumption DEF Inv, StateTyped, Pid
      <4> QED
        BY <1>1, <1>2, <2>3, <4>1 DEF PidsInOrder, ChildLast
    <3>2. pc[b] \in 1..ChildLast(b) /\ (Ended(b) <=> MadeBy(b, ChildLast(b)))
      BY <1>1, <3>1 DEF CountersInRange
    <3>3. pc'[b] \in 1..ChildLast(b)
      BY <1>3, <3>1, <3>2
    <3>4. MadeBy(b, ChildLast(b))' <=> MadeBy(b, ChildLast(b))
      <4> DEFINE k == ChildLast(b)
      <4>1. k \in Nat /\ k' = k
        BY <3>1
      <4> HIDE DEF k
      <4>2. MadeBy(b, k)' <=> MadeBy(b, k)
        BY <1>4, <3>1, <4>1 DEF MadeBy
      <4> QED
        BY <4>2 DEF k
    <3> QED
      BY <1>2, <3>1, <3>2, <3>3, <3>4
  <2> QED
    BY <2>1, <2>2, <2>3 DEF CountersInRange
<1> QED
  BY <1>6, <1>7

LEMMA BookStep ==
  ASSUME SysInv, Bookkeeping, [TestNext]_allVars
  PROVE  Bookkeeping'
<1>1. TestTyped'
  BY TypedStep
<1>2. CASE Trap
  BY <1>1, <1>2, TrapBook DEF Bookkeeping
<1>3. CASE Return
  BY <1>1, <1>3, ReturnBook DEF Bookkeeping
<1>4. CASE (timer /\ UNCHANGED testVars) \/ UNCHANGED allVars
  <2>1. ASSUME NeverFaults'
        PROVE  (PidsInOrder /\ CountersInRange)'
    <3>1. Quiet /\ UNCHANGED syscall_num /\ NeverFaults
      <4>1. CASE timer
        <5>1. Inv /\ timerInterrupt
          BY <4>1 DEF SysInv, AlwaysInv, timer
        <5>2. Scheduled
          BY <2>1, <5>1, TimerShape
        <5>3. Quiet
          BY <5>2, QuietShapes
        <5>4. UNCHANGED syscall_num
          BY <2>1, <5>1 DEF timerInterrupt, call, Crash, Stop
        <5> QED
          BY <2>1, <5>3, <5>4 DEF Quiet, NeverFaults
      <4>2. CASE UNCHANGED allVars
        BY <2>1, <4>2
           DEF allVars, sysVars, vars, lists, family, call, allocators, Quiet, NeverFaults
      <4> QED
        BY <1>4, <4>1, <4>2
    <3>2. UNCHANGED <<test, pc, in_call>>
      BY <1>4 DEF allVars, testVars
    <3>3. PidsInOrder /\ CountersInRange
      BY <3>1 DEF Bookkeeping
    <3> QED
      BY <3>1, <3>2, <3>3, QuietBook
  <2> QED
    BY <1>1, <2>1 DEF Bookkeeping
<1> QED
  BY <1>2, <1>3, <1>4 DEF TestNext, Step

LEMMA BookInit ==
  ASSUME TestInit
  PROVE  SysInv /\ Bookkeeping
<1>1. SysInit /\ Init /\ SysInv
  BY SysInitSound DEF TestInit, SysInit
<1>2. test \in Tests /\ pc = [b \in Pcb |-> 1] /\ in_call = {} /\ 1 \in Pcb
  BY ProcessesAssumption DEF TestInit, Tests, Pcb
<1>3. TestTyped
  <2>1. <<>> \in Seq(Int) /\ <<>> \in Seq(Msgs \cup {Mail!NoMsg}) /\ Unset \in Int
    BY DEF Unset
  <2> QED
    <3>1. pc \in [Pcb -> Nat \ {0}] /\ fd \in [Pcb -> Int] /\ in_call \subseteq Pcb
      BY <1>2, <2>1 DEF TestInit
    <3>2. /\ answer \in [Pcb -> Seq(Int)] /\ failed \in BOOLEAN
          /\ read \in [Pcb -> Seq(Msgs \cup {Mail!NoMsg})]
      BY <2>1 DEF TestInit
    <3> QED
      BY <1>2, <3>1, <3>2 DEF TestTyped
<1>4. /\ Kids(test) \in Nat \ {0} /\ Last_(test) \in Nat /\ Size(test) \in Nat
      /\ \A p \in 1..Kids(test) + 1 : SpawnPos(test, p) \in 1..Last_(test) - 1
      /\ 1 \in 1..Kids(test) + 1
  <2>1. Kids(test) \in Nat \ {0}
    BY <1>2, TestNumbers
  <2> QED
    BY <1>2, <2>1, TestNumbers, PositionsTyped
<1>5. \A k \in Nat : k >= 1 => ~Made(k)
  BY <1>2 DEF Made, MadeBy
<1>6. /\ init_pcb = 1 /\ pid = [b \in Pcb |-> 0] /\ last_pid = 1 /\ system = "up"
      /\ syscall_num = [b \in Pcb |-> "none"] /\ zombie_list = {}
      /\ FreePcbs = Pcb \ {1}
  <2>1. pcb_allocator = [i \in 1..MAX_NUM_PROCESSES - 1 |-> i + 1]
    BY <1>1 DEF Init
  <2>2. ASSUME NEW b \in Pcb \ {1} PROVE b \in Range(pcb_allocator)
    <3>1. b - 1 \in 1..MAX_NUM_PROCESSES - 1 /\ (b - 1) + 1 = b
      BY ProcessesAssumption DEF Pcb
    <3> QED
      BY <2>1, <3>1 DEF Range
  <2>3. Range(pcb_allocator) \subseteq Pcb \ {1}
    BY <2>1, ProcessesAssumption DEF Range, Pcb
  <2> QED
    BY <1>1, <2>2, <2>3 DEF Init, FreePcbs
<1>7. PidsInOrder
  <2>1. \A p \in 1..Kids(test) + 1 : ~(p < last_pid) /\ ~Made(SpawnPos(test, p))
    BY <1>4, <1>5, <1>6
  <2>2. last_pid \in 1..Kids(test) + 2 /\ last_pid - 1 = 0
    BY <1>4, <1>6
  <2> QED
    BY <1>2, <1>6, <2>1, <2>2 DEF PidsInOrder
<1>8. CountersInRange
  <2>1. pc[1] \in 1..Last_(test) /\ ~Made(Last_(test))
    BY <1>2, <1>4, <1>5
  <2> QED
    BY <1>2, <1>6, <2>1 DEF CountersInRange
<1> QED
  BY <1>1, <1>3, <1>7, <1>8 DEF Bookkeeping

TestInv == SysInv /\ Bookkeeping

LEMMA TestInvHolds == TestSpec => []TestInv
<1>1. TestInit => TestInv
  BY BookInit DEF TestInv
<1>2. TestInv /\ [TestNext]_allVars => TestInv'
  BY BookStep, TestKeeps DEF TestInv, StepKeeps
<1> QED
  BY <1>1, <1>2, PTL DEF TestSpec

-----------------------------------------------------------------------------
(* Results that get lost *)

Lost == {Mail!DSOS_MQ_FULL, Mail!DSOS_MQ_EMPTY}

\* A call on queues stores nothing in another process but the error of a call that
\* blocked, also if it faults.
LEMMA MailResults ==
  ASSUME retvalue \in [Pcb -> Int], NEW b \in Pcb, b # running,
         NEW f, NEW i, NEW m, NEW mode,
         \/ mq_open(i, mode) \/ mq_close(f) \/ mq_unlink(i)
         \/ mq_send(f, m) \/ mq_receive(f)
  PROVE  retvalue'[b] = retvalue[b] \/ retvalue'[b] \in Lost
<1>1. ASSUME NEW code, Mail!Returns(code)
      PROVE  retvalue'[b] = retvalue[b]
  BY <1>1 DEF Mail!Returns
<1>2. ASSUME NEW num, NEW arg, NEW code \in Lost, Block(num, arg, code)
      PROVE  retvalue'[b] = retvalue[b] \/ retvalue'[b] \in Lost
  BY <1>2 DEF Block, Crash, Stop
<1>3. CASE mq_open(i, mode)
  <2>1. UNCHANGED retvalue \/ \E code : Mail!Returns(code)
    BY <1>3 DEF mq_open, Mail!internal_mqOpen, Mail!Becomes, Mail!Crash
  <2> QED
    BY <1>1, <2>1
<1>4. CASE mq_close(f)
  <2>1. \E code : Mail!Returns(code)
    BY <1>4 DEF mq_close, Mail!internal_closeResource
  <2> QED
    BY <1>1, <2>1
<1>5. CASE mq_unlink(i)
  <2>1. \E code : Mail!Returns(code)
    BY <1>5 DEF mq_unlink, Mail!internal_mqUnlink
  <2> QED
    BY <1>1, <2>1
<1>6. CASE mq_send(f, m)
  <2>1. CASE Mail!internal_mqSend(f, m)
    <3>1. UNCHANGED retvalue \/ \E code : Mail!Returns(code)
      BY <2>1 DEF Mail!internal_mqSend, Mail!Crash
    <3> QED
      BY <1>1, <3>1
  <2>2. CASE Block("mq_send", m, Mail!DSOS_MQ_FULL)
    BY <1>2, <2>2 DEF Lost
  <2> QED
    BY <1>6, <2>1, <2>2 DEF mq_send
<1>7. CASE mq_receive(f)
  <2>1. CASE Mail!internal_mqReceive(f)
    <3>1. UNCHANGED retvalue \/ \E code : Mail!Returns(code)
      BY <2>1 DEF Mail!internal_mqReceive, Mail!Crash
    <3> QED
      BY <1>1, <3>1
  <2>2. CASE Block("mq_receive", Mail!NoMsg, Mail!DSOS_MQ_EMPTY)
    BY <1>2, <2>2 DEF Lost
  <2> QED
    BY <1>7, <2>1, <2>2 DEF mq_receive
<1> QED
  BY <1>3, <1>4, <1>5, <1>6, <1>7

\* A process whose call the step does not answer keeps its result, or gets that of
\* a call that blocked.
LEMMA KeptOrLost ==
  ASSUME SysInv, Bookkeeping, Trap, NEW b \in Pcb, b # running, ~Answered(b)
  PROVE  retvalue'[b] = retvalue[b] \/ retvalue'[b] \in Lost
<1>1. Inv /\ retvalue \in [Pcb -> Int] /\ running \in Pcb /\ 0 \in Pid /\ naps \in SleepTimes
  <2>1. Calling
    BY DEF Trap
  <2>2. 0 \in Pid
    BY ProcessesAssumption DEF Pid
  <2>3. naps \in SleepTimes
    BY TestsAssumption
  <2> QED
    BY <2>1, <2>2, <2>3, CallerFacts DEF Inv, StateTyped
<1>2. CASE spawn
  <2>1. internal_spawn
    BY <1>2 DEF spawn
  <2>2. Stopped \/ \E new \in FreePcbs : Spawned(new)
    BY <1>1, <2>1, NewProcessShape DEF internal_spawn
  <2> QED
    BY <2>2 DEF Stopped, Spawned
<1>3. CASE exit
  <2>1. internal_exit
    BY <1>3 DEF exit
  <2>2. Stopped \/ Collected \/ Zombied
    BY <1>1, <2>1, ExitShape
  <2>3. CASE Collected
    <3>1. FreePcbs' # FreePcbs
      BY <2>3 DEF Collected, LivePcbs
    <3>2. pcb_allocator' # pcb_allocator
      BY <3>1 DEF FreePcbs
    <3> QED
      BY <2>3, <3>2 DEF Collected, Answered
  <2> QED
    BY <2>2, <2>3 DEF Stopped, Zombied
<1>4. CASE wait(0)
  <2>1. internal_wait(0)
    BY <1>4 DEF wait
  <2>2. \/ Stopped \/ Refused(0) \/ Blocked(0)
        \/ \E child \in zombie_list : Reaped(0, child)
    BY <1>1, <2>1, WaitShape
  <2> QED
    BY <2>2 DEF Stopped, Refused, Blocked, Reaped
<1>5. CASE sleep(naps) \/ shutdown
  BY <1>5 DEF sleep, shutdown, internal_sleep, internal_shutdown
<1>6. CASE running = 1 /\ InitCall
  <2>1. \/ spawn \/ wait(0) \/ shutdown
        \/ \E i \in QueueIds(test) :
             \/ mq_open(i, {Mail!CREATE}) \/ mq_close(InitFd(i)) \/ mq_unlink(i)
             \/ \E j \in 1..Size(test) : mq_send(InitFd(i), buf[i][j])
    BY <1>6 DEF InitCall
  <2>2. ASSUME NEW i \in QueueIds(test),
               mq_open(i, {Mail!CREATE}) \/ mq_close(InitFd(i)) \/ mq_unlink(i)
        PROVE  retvalue'[b] = retvalue[b] \/ retvalue'[b] \in Lost
    BY <1>1, <2>2, MailResults
  <2>3. ASSUME NEW i \in QueueIds(test), NEW j \in 1..Size(test), mq_send(InitFd(i), buf[i][j])
        PROVE  retvalue'[b] = retvalue[b] \/ retvalue'[b] \in Lost
    BY <1>1, <2>3, MailResults
  <2> QED
    BY <1>2, <1>4, <1>5, <2>1, <2>2, <2>3
<1>7. CASE running # 1 /\ CallOfChild(running)
  <2>1. ASSUME \/ mq_open(QueueId(running), {}) \/ mq_receive(fd[running])
               \/ mq_close(fd[running])
        PROVE  retvalue'[b] = retvalue[b] \/ retvalue'[b] \in Lost
    BY <1>1, <2>1, MailResults
  <2> QED
    BY <1>3, <1>5, <1>7, <2>1 DEF CallOfChild
<1> QED
  BY <1>6, <1>7, TrapCalls

\* A result that another process stored before its owner read it is the error of a
\* send or of a receive that blocked.
THEOREM LostResultsAreErrors == TestSpec => []ForeignResultsAreErrors
<1>1. TestInit => ForeignResultsAreErrors
  BY DEF TestInit, ForeignResultsAreErrors
<1>2. ASSUME TestInv, ForeignResultsAreErrors, [TestNext]_allVars
      PROVE  ForeignResultsAreErrors'
  <2>1. /\ TestTyped /\ SysInv /\ Bookkeeping
        /\ \A b \in in_call : answer[b] # <<>> =>
             retvalue[b] = answer[b][1] \/ retvalue[b] \in Lost
    BY <1>2 DEF TestInv, Bookkeeping, ForeignResultsAreErrors, Lost
  <2>2. ASSUME NEW b \in in_call', answer'[b] # <<>>
        PROVE  retvalue'[b] = answer'[b][1] \/ retvalue'[b] \in Lost
    <3>1. CASE Trap
      <4>1. running \in Pcb
        BY <2>1, <3>1, Callers DEF Trap
      <4>2. b \in Pcb /\ (b \in in_call \/ b = running)
        BY <2>1, <3>1, <4>1 DEF Trap, TestTyped
      <4>3. answer'[b] = IF Answered(b) THEN <<retvalue'[b]>>
                         ELSE IF b = running THEN <<>>
                         ELSE answer[b]
        BY <3>1, <4>2 DEF Trap
      <4>4. CASE Answered(b)
        BY <4>3, <4>4
      <4>5. CASE ~Answered(b)
        <5>1. b # running /\ answer'[b] = answer[b] /\ b \in in_call
          BY <2>2, <4>2, <4>3, <4>5
        <5>2. retvalue'[b] = retvalue[b] \/ retvalue'[b] \in Lost
          BY <2>1, <3>1, <4>2, <4>5, <5>1, KeptOrLost
        <5> QED
          BY <2>1, <2>2, <5>1, <5>2
      <4> QED
        BY <4>4, <4>5
    <3>2. CASE Return
      BY <2>1, <2>2, <3>2 DEF Return, sysVars, vars
    <3>3. CASE (timer /\ UNCHANGED testVars) \/ UNCHANGED allVars
      <4>1. UNCHANGED retvalue
        BY <3>3 DEF timer, timerInterrupt, internal_schedule, Crash, Stop, allVars, sysVars, vars
      <4>2. UNCHANGED <<in_call, answer>>
        BY <3>3 DEF testVars, allVars
      <4> QED
        BY <2>1, <2>2, <4>1, <4>2
    <3> QED
      BY <1>2, <3>1, <3>2, <3>3 DEF TestNext, Step
  <2> QED
    BY <2>2 DEF ForeignResultsAreErrors, Lost
<1> QED
  BY <1>1, <1>2, TestInvHolds, PTL DEF TestSpec

-----------------------------------------------------------------------------
(* What a call does to the queues *)

\* The caller gets the descriptor d of the resource q of `list`, or there is none.
FileMade(list, q, d) ==
  /\ d \in MP!Desc \ DOMAIN desc /\ q \in DOMAIN list
  /\ resources_list' = [list EXCEPT ![q].opened = @ \cup {d}]
  /\ desc' = [x \in DOMAIN desc \cup {d} |->
                IF x = d THEN [pcb |-> running, resource |-> q, fd |-> last_fd[running]]
                ELSE desc[x]]
  /\ descriptors' = [descriptors EXCEPT ![running] = descriptors[running] \cup {d}]
  /\ last_fd' = [last_fd EXCEPT ![running] = last_fd[running] + 1]
  /\ retvalue' = [retvalue EXCEPT ![running] = last_fd[running]]

Answers(ok) ==
  \E code \in Int : (code >= 0 <=> ok) /\ retvalue' = [retvalue EXCEPT ![running] = code]

NoFileMade(list) ==
  /\ DOMAIN desc = MP!Desc
  /\ resources_list' = list /\ UNCHANGED <<desc, descriptors, last_fd>> /\ Answers(FALSE)

SameMessages == UNCHANGED <<messages, num_msg, messages_allocator>>
Refuses      == UNCHANGED mail /\ Answers(FALSE)

\* mq_open without CREATE, and with it.
FindsQueue(i) ==
  \/ /\ Refuses
     /\ \/ DOMAIN desc = MP!Desc
        \/ \A q \in DOMAIN resources_list :
             resources_list[q].id = i => resources_list[q].type # MP!DSOS_MQ
  \/ \E q \in DOMAIN resources_list, d \in MP!Desc :
       resources_list[q].id = i /\ FileMade(resources_list, q, d) /\ SameMessages

MakesQueue(i) ==
  \/ Refuses /\ \E q \in DOMAIN resources_list : resources_list[q].id = i
  \/ \E q \in MP!MqBlock \ DOMAIN resources_list :
       /\ \A r \in DOMAIN resources_list : resources_list[r].id # i
       /\ \/ NoFileMade(MP!Insert(resources_list, q, i, MP!DSOS_MQ))
          \/ \E d \in MP!Desc : FileMade(MP!Insert(resources_list, q, i, MP!DSOS_MQ), q, d)
       /\ SameMessages

LEMMA OpenExistingIs ==
  ASSUME NEW k, MP!KernelOK(k), NEW i, NEW mode, MP!EXCL \notin mode
  PROVE  \/ /\ \E code \in Int : code < 0 /\ MP!OpenExisting(k, i, MP!DSOS_MQ, mode) = MP!Fails(k, code)
            /\ \/ MP!FreeDescs(k) = {}
               \/ \A q \in MP!ById(k.list, i) : k.list[q].type # MP!DSOS_MQ
         \/ \E q \in MP!ById(k.list, i), d \in MP!FreeDescs(k) :
              MP!OpenExisting(k, i, MP!DSOS_MQ, mode) = MP!WithDescriptor(k, q, d)
<1> DEFINE found == MP!ById(k.list, i)
           b == CHOOSE x \in found : TRUE
<1>1. /\ MP!DSOS_ERESOURCEOPEN \in Int /\ MP!DSOS_ERESOURCEOPEN < 0
      /\ MP!DSOS_ERESOURCENOFD \in Int /\ MP!DSOS_ERESOURCENOFD < 0
  BY DEF MP!DSOS_ERESOURCEOPEN, MP!DSOS_ERESOURCENOFD
<1>2. \A x, y \in found : x = y
  BY DEF MP!ById, MP!KernelOK, MP!Placed
<1>3. CASE found = {} \/ k.list[b].type # MP!DSOS_MQ
  <2>1. MP!OpenExisting(k, i, MP!DSOS_MQ, mode) = MP!Fails(k, MP!DSOS_ERESOURCEOPEN)
    BY <1>3 DEF MP!OpenExisting
  <2>2. \A q \in found : k.list[q].type # MP!DSOS_MQ
    BY <1>2, <1>3
  <2> QED
    BY <1>1, <2>1, <2>2
<1>4. CASE found # {} /\ k.list[b].type = MP!DSOS_MQ /\ MP!FreeDescs(k) = {}
  <2>1. MP!OpenExisting(k, i, MP!DSOS_MQ, mode) = MP!Fails(k, MP!DSOS_ERESOURCENOFD)
    BY <1>4 DEF MP!OpenExisting
  <2> QED
    BY <1>1, <1>4, <2>1
<1>5. CASE found # {} /\ k.list[b].type = MP!DSOS_MQ /\ MP!FreeDescs(k) # {}
  <2>1. b \in found /\ b \in DOMAIN k.list
    BY <1>5 DEF MP!ById
  <2>2. MP!OpenExisting(k, i, MP!DSOS_MQ, mode) = MP!AddDescriptor(k, b)
    BY <1>5 DEF MP!OpenExisting
  <2> HIDE DEF b
  <2>3. MP!AddDescriptor(k, b) = MP!WithDescriptor(k, b, MP!Min(MP!FreeDescs(k)))
    BY <2>1, MailAssumption, MP!AddDescriptorIs
  <2>4. MP!Min(MP!FreeDescs(k)) \in MP!FreeDescs(k)
    BY <1>5, MailAssumption, MP!FreshDescriptor DEF MP!FreeDescs
  <2> QED
    BY <2>1, <2>2, <2>3, <2>4
<1> QED
  BY <1>3, <1>4, <1>5

\* The kernel becomes the one in which a descriptor was added, or not.
LEMMA OpenBecomes ==
  ASSUME NEW k, MP!KernelOK(k), k.desc = desc, k.fds = descriptors[running],
         k.last_fd = last_fd[running], ~k.fault, NEW k1, MP!Becomes(k1),
         MP!FdsSound, running \in Pcb
  PROVE  /\ \A code \in Int : code < 0 /\ k1 = MP!Fails(k, code) =>
              /\ resources_list' = k.list /\ messages' = k.msgs
              /\ mq_allocator' = k.mqs /\ resource_allocator' = k.res
              /\ UNCHANGED <<desc, descriptors, last_fd, num_msg, messages_allocator>>
              /\ Answers(FALSE)
         /\ \A q \in DOMAIN k.list, d \in MP!FreeDescs(k) : k1 = MP!WithDescriptor(k, q, d) =>
              /\ FileMade(k.list, q, d) /\ messages' = k.msgs
              /\ UNCHANGED <<num_msg, messages_allocator>>
<1>1. ASSUME NEW code \in Int, code < 0, k1 = MP!Fails(k, code)
      PROVE  /\ resources_list' = k.list /\ messages' = k.msgs
             /\ mq_allocator' = k.mqs /\ resource_allocator' = k.res
             /\ UNCHANGED <<desc, descriptors, last_fd, num_msg, messages_allocator>>
             /\ Answers(FALSE)
  <2>1. /\ k1.list = k.list /\ k1.msgs = k.msgs /\ k1.mqs = k.mqs /\ k1.res = k.res
        /\ k1.desc = k.desc /\ k1.fds = k.fds /\ k1.last_fd = k.last_fd /\ k1.ret = code
        /\ ~k1.fault
    BY <1>1, MailAssumption, MP!FailsIs
  <2>2. /\ resources_list' = k1.list /\ messages' = k1.msgs /\ mq_allocator' = k1.mqs
        /\ resource_allocator' = k1.res /\ desc' = k1.desc
        /\ descriptors' = [descriptors EXCEPT ![running] = k1.fds]
        /\ last_fd' = [last_fd EXCEPT ![running] = k1.last_fd]
        /\ retvalue' = [retvalue EXCEPT ![running] = k1.ret]
        /\ UNCHANGED <<num_msg, messages_allocator>>
    BY <2>1 DEF MP!Becomes, MP!Returns
  <2>3. descriptors' = descriptors /\ last_fd' = last_fd
    BY <2>1, <2>2 DEF MP!FdsSound
  <2>4. Answers(FALSE)
    <3>1. code \in Int /\ (code >= 0 <=> FALSE)
      BY <1>1
    <3>2. retvalue' = [retvalue EXCEPT ![running] = code]
      BY <2>1, <2>2
    <3> QED
      BY <3>1, <3>2 DEF Answers
  <2> QED
    BY <2>1, <2>2, <2>3, <2>4
<1>2. ASSUME NEW q \in DOMAIN k.list, NEW d \in MP!FreeDescs(k), k1 = MP!WithDescriptor(k, q, d)
      PROVE  /\ FileMade(k.list, q, d) /\ messages' = k.msgs
             /\ UNCHANGED <<num_msg, messages_allocator>>
  <2>1. /\ k1.list = [k.list EXCEPT ![q].opened = @ \cup {d}] /\ k1.msgs = k.msgs
        /\ k1.desc = [x \in DOMAIN k.desc \cup {d} |->
               IF x = d THEN [pcb |-> running, resource |-> q, fd |-> k.last_fd]
               ELSE k.desc[x]]
        /\ k1.fds = k.fds \cup {d} /\ k1.last_fd = k.last_fd + 1 /\ k1.ret = k.last_fd
        /\ ~k1.fault
    BY <1>2 DEF MP!WithDescriptor
  <2>2. /\ resources_list' = k1.list /\ messages' = k1.msgs /\ desc' = k1.desc
        /\ descriptors' = [descriptors EXCEPT ![running] = k1.fds]
        /\ last_fd' = [last_fd EXCEPT ![running] = k1.last_fd]
        /\ retvalue' = [retvalue EXCEPT ![running] = k1.ret]
        /\ UNCHANGED <<num_msg, messages_allocator>>
    BY <2>1 DEF MP!Becomes, MP!Returns
  <2>3. d \in MP!Desc \ DOMAIN desc
    BY DEF MP!FreeDescs
  <2> QED
    BY <2>1, <2>2, <2>3 DEF FileMade
<1> QED
  BY <1>1, <1>2

LEMMA OpenShape ==
  ASSUME SysInv, NEW i \in Ids, NEW mode \in {{}, {Mail!CREATE}}, mq_open(i, mode), NeverFaults'
  PROVE  (mode = {} /\ FindsQueue(i)) \/ (mode # {} /\ MakesQueue(i))
<1> DEFINE k == MP!Kernel
           k1 == MP!OpenQueue(k, i, MP!DSOS_MQ, mode)
<1>1. /\ running \in Pcb /\ MP!Inv /\ MP!FreeHoldNothing /\ MP!FdsSound /\ MP!MessagesTyped
      /\ MP!BlocksSound /\ MP!internal_mqOpen(i, MP!DSOS_MQ, mode)
  BY CallerFacts, SameOpen DEF mq_open, SysInv, MailSound
<1>2. /\ MP!Becomes(k1) /\ last_fd[running] < MaxFd
  BY <1>1 DEF MP!internal_mqOpen, MP!MqOpen, MP!MayOpen
<1>3. /\ MP!KernelOK(k) /\ k.list = resources_list /\ k.mqs = mq_allocator
      /\ k.res = resource_allocator /\ k.msgs = messages /\ k.desc = desc
      /\ k.fds = descriptors[running] /\ k.last_fd = last_fd[running] /\ ~k.fault
  BY <1>1, MailAssumption, MP!KernelIsOK DEF MP!Kernel
<1>4. ~k1.fault
  BY <1>2 DEF MP!Becomes, MP!Crash, NeverFaults
<1>5. /\ MP!EXCL \notin mode /\ (mode = {} => mode # {MP!CREATE})
      /\ (mode # {} => mode = {MP!CREATE})
  BY DEF MP!EXCL, MP!CREATE, Mail!CREATE
<1>6. MP!FreeDescs(k) = MP!Desc \ DOMAIN desc /\ DOMAIN desc \subseteq MP!Desc
  BY <1>1, <1>3 DEF MP!FreeDescs, MP!BlocksSound, MP!FilesTyped
<1>7. MP!ById(k.list, i) = {q \in DOMAIN resources_list : resources_list[q].id = i}
  BY <1>3 DEF MP!ById
<1> HIDE DEF k
<1>8. CASE mode = {}
  <2>1. k1 = MP!OpenExisting(k, i, MP!DSOS_MQ, mode)
    BY <1>5, <1>8 DEF MP!OpenQueue
  <2> HIDE DEF k1
  <2>2. CASE /\ \E code \in Int : code < 0 /\ k1 = MP!Fails(k, code)
             /\ \/ MP!FreeDescs(k) = {}
                \/ \A q \in MP!ById(k.list, i) : k.list[q].type # MP!DSOS_MQ
    <3>1. /\ resources_list' = k.list /\ messages' = k.msgs
          /\ mq_allocator' = k.mqs /\ resource_allocator' = k.res
          /\ UNCHANGED <<desc, descriptors, last_fd, num_msg, messages_allocator>>
          /\ Answers(FALSE)
      BY <1>1, <1>2, <1>3, <2>2, OpenBecomes
    <3>2. Refuses
      BY <1>3, <3>1 DEF Refuses, mail
    <3> QED
      BY <1>3, <1>6, <1>7, <1>8, <2>2, <3>2 DEF FindsQueue
  <2>3. ASSUME NEW q \in MP!ById(k.list, i), NEW d \in MP!FreeDescs(k),
               k1 = MP!WithDescriptor(k, q, d)
        PROVE  FindsQueue(i)
    <3>1. q \in DOMAIN resources_list /\ resources_list[q].id = i /\ d \in MP!Desc
      BY <1>6, <1>7
    <3>2. FileMade(k.list, q, d) /\ messages' = k.msgs /\ UNCHANGED <<num_msg, messages_allocator>>
      BY <1>1, <1>2, <1>3, <2>3, <3>1, OpenBecomes
    <3> QED
      BY <1>3, <3>1, <3>2 DEF FindsQueue, SameMessages
  <2> QED
    BY <1>3, <1>5, <1>8, <2>1, <2>2, <2>3, OpenExistingIs
<1>9. CASE mode # {} /\ MP!ById(k.list, i) # {}
  <2>1. k1 = MP!Fails(k, MP!DSOS_ERESOURCECREATE)
    BY <1>5, <1>9 DEF MP!OpenQueue
  <2>2. MP!DSOS_ERESOURCECREATE \in Int /\ MP!DSOS_ERESOURCECREATE < 0
    BY DEF MP!DSOS_ERESOURCECREATE
  <2> HIDE DEF k1
  <2>3. /\ resources_list' = k.list /\ messages' = k.msgs
        /\ mq_allocator' = k.mqs /\ resource_allocator' = k.res
        /\ UNCHANGED <<desc, descriptors, last_fd, num_msg, messages_allocator>>
        /\ Answers(FALSE)
    BY <1>1, <1>2, <1>3, <2>1, <2>2, OpenBecomes
  <2>4. Refuses
    BY <1>3, <2>3 DEF Refuses, mail
  <2> QED
    BY <1>7, <1>9, <2>4 DEF MakesQueue
<1>10. CASE mode # {} /\ MP!ById(k.list, i) = {}
  <2> DEFINE q == Head(k.mqs)
             list == MP!Insert(resources_list, q, i, MP!DSOS_MQ)
             k2 == MP!NewQueue(k, i)
  <2>1. k.mqs # <<>> /\ k.res # <<>>
    <3>1. MP!Faults(k).fault
      BY <1>3, MailAssumption, MP!FaultsIs
    <3> QED
      BY <1>4, <1>5, <1>10, <3>1 DEF MP!OpenQueue
  <2>2. k1 = MP!OpenExisting(k2, i, MP!DSOS_MQ, mode)
    BY <1>5, <1>10, <2>1 DEF MP!OpenQueue
  <2>3. MP!KernelOK(k2)
    BY <1>3, <1>10, <2>1, MailAssumption, MP!NewQueueKeeps
  <2>4. /\ q \in MP!MqBlock \ DOMAIN resources_list /\ messages[q] = <<>>
    <3>1. k.mqs \in Seq(MP!MqBlock) /\ DOMAIN k.list \cap MP!Range(k.mqs) = {}
      BY <1>3 DEF MP!KernelOK, MP!Placed
    <3>2. q \in MP!Range(k.mqs) /\ q \in MP!MqBlock
      BY <2>1, <3>1 DEF MP!Range
    <3> QED
      BY <1>1, <1>3, <3>1, <3>2 DEF MP!FreeHoldNothing
  <2>5. /\ k2.list = list /\ k2.msgs = messages /\ k2.desc = desc
        /\ k2.fds = descriptors[running] /\ k2.last_fd = last_fd[running] /\ ~k2.fault
    <3>1. k2 = [list |-> MP!Insert(k.list, Head(k.mqs), i, MP!DSOS_MQ), mqs |-> Tail(k.mqs),
              res |-> Tail(k.res), msgs |-> [k.msgs EXCEPT ![Head(k.mqs)] = <<>>],
              desc |-> k.desc, fds |-> k.fds, last_fd |-> k.last_fd,
              ret |-> k.ret, fault |-> k.fault]
      BY <1>3, MailAssumption, MP!NewQueueIs
    <3>2. [messages EXCEPT ![q] = <<>>] = messages
      BY <1>1, <2>4 DEF MP!MessagesTyped
    <3> HIDE DEF k2
    <3> QED
      BY <1>3, <3>1, <3>2
  <2> HIDE DEF k1, k2, q
  <2>6. MP!ById(k2.list, i) = {q} /\ k2.list[q].type = MP!DSOS_MQ /\ q \in DOMAIN k2.list
    BY <1>7, <1>10, <2>4, <2>5 DEF MP!ById, MP!Insert
  <2>7. MP!FreeDescs(k2) = MP!Desc \ DOMAIN desc
    BY <2>5 DEF MP!FreeDescs
  <2> HIDE DEF list
  <2>8. CASE /\ \E code \in Int : code < 0 /\ k1 = MP!Fails(k2, code)
             /\ \/ MP!FreeDescs(k2) = {}
                \/ \A x \in MP!ById(k2.list, i) : k2.list[x].type # MP!DSOS_MQ
    <3>1. /\ resources_list' = k2.list /\ messages' = k2.msgs
          /\ UNCHANGED <<desc, descriptors, last_fd, num_msg, messages_allocator>>
          /\ Answers(FALSE)
      BY <1>1, <1>2, <2>3, <2>5, <2>8, OpenBecomes
    <3>2. NoFileMade(list) /\ SameMessages
      BY <1>6, <2>5, <2>6, <2>7, <2>8, <3>1 DEF NoFileMade, SameMessages
    <3> QED
      BY <1>7, <1>10, <2>4, <3>2 DEF MakesQueue, list
  <2>9. ASSUME NEW x \in MP!ById(k2.list, i), NEW d \in MP!FreeDescs(k2),
               k1 = MP!WithDescriptor(k2, x, d)
        PROVE  MakesQueue(i)
    <3>1. x = q /\ d \in MP!Desc
      BY <2>6, <2>7
    <3>2. FileMade(k2.list, q, d) /\ messages' = k2.msgs /\ UNCHANGED <<num_msg, messages_allocator>>
      BY <1>1, <1>2, <2>3, <2>5, <2>6, <2>9, <3>1, OpenBecomes
    <3>3. FileMade(list, q, d) /\ SameMessages
      BY <2>5, <3>2 DEF SameMessages
    <3> QED
      BY <1>7, <1>10, <2>4, <3>1, <3>3 DEF MakesQueue, list
  <2> QED
    BY <1>5, <1>10, <2>2, <2>3, <2>8, <2>9, OpenExistingIs
<1> QED
  BY <1>8, <1>9, <1>10

\* The descriptors ds of the caller are released.
Gone(ds) ==
  /\ resources_list' = [b \in DOMAIN resources_list |->
                          [resources_list[b] EXCEPT !.opened = @ \ ds]]
  /\ desc' = [d \in DOMAIN desc \ ds |-> desc[d]]
  /\ descriptors' = [descriptors EXCEPT ![running] = descriptors[running] \ ds]
  /\ UNCHANGED last_fd /\ SameMessages

FilesOf(f) == {d \in descriptors[running] : desc[d].fd = f}

ClosesFile(f) ==
  \/ FilesOf(f) = {} /\ Refuses
  \/ \E d \in MP!Desc : FilesOf(f) = {d} /\ Gone({d}) /\ Answers(TRUE)

\* mq_unlink.
QueueGone(q) ==
  /\ resources_list' = [b \in DOMAIN resources_list \ {q} |-> resources_list[b]]
  /\ messages' = [messages EXCEPT ![q] = <<>>]
  /\ UNCHANGED <<num_msg, desc, descriptors, last_fd>>

RemovesQueue(i) ==
  \/ /\ Refuses
     /\ \/ \A q \in DOMAIN resources_list : resources_list[q].id # i
        \/ \E q \in DOMAIN resources_list :
             resources_list[q].id = i /\ resources_list[q].opened # {}
  \/ \E q \in DOMAIN resources_list :
       /\ q \in MP!MqBlock /\ resources_list[q].id = i /\ resources_list[q].opened = {}
       /\ QueueGone(q) /\ Answers(TRUE)

\* mq_send and mq_receive: the caller is told an error, or put to sleep, or the
\* message goes into its queue, or comes from it into its PCB.
SameFiles == UNCHANGED <<resources_list, desc, descriptors, last_fd>>
Arg(m)    == syscall_arg1' = [syscall_arg1 EXCEPT ![running] = m]

PutsMessage(f, m) ==
  \/ FilesOf(f) = {} /\ Refuses /\ Arg(m) /\ UNCHANGED running
  \/ /\ UNCHANGED mail /\ Parked /\ Arg(m)
     /\ \E d \in FilesOf(f) : num_msg[desc[d].resource] = MQ_MAX_MSG_SIZE
  \/ \E d \in MP!Desc :
       LET q == desc[d].resource IN
       /\ FilesOf(f) = {d} /\ q \in MP!MqBlock /\ q \in DOMAIN resources_list
       /\ messages' = [messages EXCEPT ![q] = Append(messages[q], m)]
       /\ num_msg' = [num_msg EXCEPT ![q] = num_msg[q] + 1]
       /\ SameFiles /\ Answers(TRUE) /\ Arg(m) /\ UNCHANGED running

TakesMessage(f) ==
  \/ FilesOf(f) = {} /\ Refuses /\ Arg(Mail!NoMsg) /\ UNCHANGED running
  \/ /\ UNCHANGED mail /\ Parked /\ Arg(Mail!NoMsg)
     /\ \E d \in FilesOf(f) : num_msg[desc[d].resource] = 0
  \/ \E d \in MP!Desc :
       LET q == desc[d].resource IN
       /\ FilesOf(f) = {d} /\ q \in MP!MqBlock /\ q \in DOMAIN resources_list
       /\ messages[q] # <<>>
       /\ messages' = [messages EXCEPT ![q] = Tail(messages[q])]
       /\ num_msg' = [num_msg EXCEPT ![q] = num_msg[q] - 1]
       /\ SameFiles /\ Answers(TRUE) /\ Arg(Head(messages[q])) /\ UNCHANGED running

LEMMA FileFacts ==
  ASSUME SysInv, Calling, NEW f
  PROVE  /\ FilesOf(f) = MP!ByFd(f)
         /\ FilesOf(f) # {} => \E d \in MP!Desc :
              /\ FilesOf(f) = {d} /\ MP!QueueOf(f) = desc[d].resource
              /\ d \in DOMAIN desc /\ desc[d].resource \in DOMAIN resources_list
<1>1. running \in Pcb /\ MP!FdsSound
  BY CallerFacts DEF SysInv, MailSound
<1>2. MP!Agree(resources_list, desc, descriptors[running], last_fd[running], running)
      /\ descriptors[running] \subseteq MP!Desc
  BY <1>1 DEF MP!FdsSound
<1>3. FilesOf(f) = MP!ByFd(f)
  BY DEF FilesOf, MP!ByFd
<1>4. ASSUME NEW d \in FilesOf(f)
      PROVE  /\ d \in MP!Desc /\ FilesOf(f) = {d} /\ MP!QueueOf(f) = desc[d].resource
             /\ d \in DOMAIN desc /\ desc[d].resource \in DOMAIN resources_list
  <2>1. /\ d \in descriptors[running] /\ desc[d].fd = f
        /\ \A e \in descriptors[running] : desc[e].fd = f => e = d
    BY <1>2 DEF FilesOf, MP!Agree
  <2>2. FilesOf(f) = {d}
    BY <2>1 DEF FilesOf
  <2>3. (CHOOSE x \in {d} : TRUE) = d
    OBVIOUS
  <2>4. MP!QueueOf(f) = desc[d].resource
    BY <1>3, <2>2, <2>3 DEF MP!QueueOf
  <2> QED
    BY <1>2, <2>1, <2>2, <2>4 DEF MP!Agree
<1> QED
  BY <1>3, <1>4

LEMMA AnswersIs ==
  ASSUME NEW code \in Int, MP!Returns(code)
  PROVE  (code >= 0 => Answers(TRUE)) /\ (code < 0 => Answers(FALSE))
<1>1. retvalue' = [retvalue EXCEPT ![running] = code]
  BY DEF MP!Returns
<1>2. CASE code >= 0
  <2>1. code \in Int /\ (code >= 0 <=> TRUE) /\ ~(code < 0)
    BY <1>2
  <2> QED
    BY <1>1, <2>1 DEF Answers
<1>3. CASE code < 0
  <2>1. code \in Int /\ (code >= 0 <=> FALSE) /\ ~(code >= 0)
    BY <1>3
  <2> QED
    BY <1>1, <2>1 DEF Answers
<1> QED
  BY <1>2, <1>3

LEMMA ZeroAnswers ==
  ASSUME MP!Returns(0)
  PROVE  Answers(TRUE)
<1>1. 0 \in Int /\ 0 >= 0
  OBVIOUS
<1> QED
  BY <1>1, AnswersIs

LEMMA CloseShape ==
  ASSUME SysInv, NEW f, mq_close(f)
  PROVE  ClosesFile(f)
<1>1. Calling /\ MP!internal_closeResource(f) /\ running \in Pcb
  BY SameClose, CallerFacts DEF mq_close
<1>2. CASE MP!ByFd(f) = {}
  <2>1. MP!Returns(MP!DSOS_ERESOURCECLOSE) /\ UNCHANGED mail
    BY <1>1, <1>2
       DEF MP!internal_closeResource, MP!mailVars, MP!blocks, MP!queues, MP!files, mail
  <2>2. MP!DSOS_ERESOURCECLOSE \in Int /\ MP!DSOS_ERESOURCECLOSE < 0
    BY DEF MP!DSOS_ERESOURCECLOSE
  <2>3. Answers(FALSE)
    BY <2>1, <2>2, AnswersIs
  <2> QED
    BY <1>1, <1>2, <2>1, <2>3, FileFacts DEF ClosesFile, Refuses
<1>3. CASE MP!ByFd(f) # {}
  <2>1. PICK d \in MP!Desc : MP!ByFd(f) = {d} /\ FilesOf(f) = {d}
    BY <1>1, <1>3, FileFacts
  <2>2. /\ MP!Descriptors_free({d}) /\ MP!Returns(0)
        /\ descriptors' = [descriptors EXCEPT ![running] = @ \ {d}]
        /\ UNCHANGED last_fd /\ UNCHANGED <<messages, num_msg, messages_allocator>>
    BY <1>1, <1>3, <2>1 DEF MP!internal_closeResource, MP!queues
  <2>3. Gone({d})
    BY <2>2 DEF Gone, SameMessages, MP!Descriptors_free, MP!Released
  <2>4. Answers(TRUE)
    BY <2>2, ZeroAnswers
  <2> QED
    BY <2>1, <2>3, <2>4 DEF ClosesFile
<1> QED
  BY <1>2, <1>3

LEMMA UnlinkShape ==
  ASSUME SysInv, NEW i, mq_unlink(i)
  PROVE  RemovesQueue(i)
<1> DEFINE found == MP!ById(resources_list, i)
<1>1. Calling /\ MP!internal_mqUnlink(i) /\ MP!BlocksSound
  BY SameUnlink DEF mq_unlink, SysInv, MailSound
<1>2. found = {q \in DOMAIN resources_list : resources_list[q].id = i}
  BY DEF MP!ById
<1>3. CASE found = {} \/ (found # {} /\ MP!InUse(i))
  <2>1. \E code \in {MP!DSOS_ERESOURCECLOSE, MP!DSOS_ERESOURCEINUSE} :
          MP!Returns(code) /\ UNCHANGED mail
    BY <1>1, <1>3
       DEF MP!internal_mqUnlink, MP!mailVars, MP!blocks, MP!queues, MP!files, mail
  <2>2. \A code \in {MP!DSOS_ERESOURCECLOSE, MP!DSOS_ERESOURCEINUSE} : code \in Int /\ code < 0
    BY DEF MP!DSOS_ERESOURCECLOSE, MP!DSOS_ERESOURCEINUSE
  <2>3. Refuses
    BY <2>1, <2>2, AnswersIs DEF Refuses
  <2>4. \/ \A q \in DOMAIN resources_list : resources_list[q].id # i
        \/ \E q \in DOMAIN resources_list :
             resources_list[q].id = i /\ resources_list[q].opened # {}
    BY <1>2, <1>3 DEF MP!InUse
  <2> QED
    BY <2>3, <2>4 DEF RemovesQueue
<1>4. CASE found # {} /\ ~MP!InUse(i)
  <2>1. PICK q \in found : TRUE
    BY <1>4
  <2>2. found = {q}
    BY <1>1, <1>2, <2>1 DEF MP!BlocksSound, MP!Placed
  <2>3. /\ q \in MP!MqBlock /\ q \in DOMAIN resources_list
        /\ resources_list[q].id = i /\ resources_list[q].opened = {}
    BY <1>1, <1>2, <1>4, <2>1 DEF MP!internal_mqUnlink, MP!InUse
  <2>4. /\ resources_list' = MP!Detached(i) /\ (\A b \in found : MP!MessageQueue_free(b))
        /\ MP!Returns(0) /\ UNCHANGED <<num_msg, desc, descriptors, last_fd>>
    BY <1>1, <1>4 DEF MP!internal_mqUnlink, MP!files
  <2>5. QueueGone(q)
    BY <2>2, <2>4 DEF QueueGone, MP!Detached, MP!MessageQueue_free
  <2>6. Answers(TRUE)
    BY <2>4, ZeroAnswers
  <2> QED
    BY <2>3, <2>5, <2>6 DEF RemovesQueue
<1> QED
  BY <1>3, <1>4

LEMMA SendShape ==
  ASSUME SysInv, NEW f, NEW m, mq_send(f, m), NeverFaults'
  PROVE  PutsMessage(f, m)
<1>1. Calling /\ Inv /\ running \in Pcb
  BY CallerFacts DEF mq_send
<1>2. CASE Mail!internal_mqSend(f, m) /\ Completes("mq_send")
  <2>0. UNCHANGED running
    BY <1>2 DEF Completes
  <2>1. MP!internal_mqSend(f, m)
    BY <1>2, SameSend
  <2>2. CASE MP!ByFd(f) = {}
    <3>1. MP!Returns(MP!DSOS_ERESOURCESEND) /\ Arg(m) /\ UNCHANGED mail
      BY <2>1, <2>2 DEF MP!internal_mqSend, MP!SecondArg, Arg,
                        MP!mailVars, MP!blocks, MP!queues, MP!files, mail
    <3>2. MP!DSOS_ERESOURCESEND \in Int /\ MP!DSOS_ERESOURCESEND < 0
      BY DEF MP!DSOS_ERESOURCESEND
    <3> QED
      BY <1>1, <2>0, <2>2, <3>1, <3>2, AnswersIs, FileFacts DEF PutsMessage, Refuses
  <2>3. CASE MP!ByFd(f) # {}
    <3>1. PICK d \in MP!Desc : /\ FilesOf(f) = {d} /\ MP!QueueOf(f) = desc[d].resource
                               /\ desc[d].resource \in DOMAIN resources_list
      BY <1>1, <2>3, FileFacts
    <3> DEFINE q == desc[d].resource
    <3>2. /\ MP!Enqueue(q, m) /\ MP!Returns(0) /\ MP!SecondArg(m)
          /\ UNCHANGED <<resources_list, desc, descriptors, last_fd>> /\ q \in MP!MqBlock
      BY <2>1, <2>3, <3>1
         DEF MP!internal_mqSend, MP!IsQueue, MP!Crash, MP!blocks, MP!files, NeverFaults
    <3>3. SameFiles /\ Arg(m) /\ Answers(TRUE)
      BY <3>2, ZeroAnswers DEF SameFiles, Arg, MP!SecondArg
    <3> QED
      BY <2>0, <3>1, <3>2, <3>3 DEF PutsMessage, MP!Enqueue
  <2> QED
    BY <2>2, <2>3
<1>3. CASE Mail!BlocksInSend(f) /\ Block("mq_send", m, Mail!DSOS_MQ_FULL)
  <2>1. /\ ready_list # <<>> /\ MayBlock /\ ParkOnTimer(SLEEP) /\ Called("mq_send", 0)
        /\ Arg(m) /\ UNCHANGED mail
    BY <1>3 DEF Block, Crash, Stop, ParkCaller, Mail!SecondArg, Arg, NeverFaults
  <2>2. "mq_send" \in Syscall \ {"wait", "exit"}
    BY DEF Syscall
  <2>3. Parked
    BY <1>1, <2>1, <2>2, ParkShape
  <2>4. MP!ByFd(f) # {} /\ num_msg[MP!QueueOf(f)] = MQ_MAX_MSG_SIZE
    BY <1>3 DEF Mail!BlocksInSend, Mail!ByFd, Mail!QueueOf, MP!ByFd, MP!QueueOf
  <2>5. \E d \in FilesOf(f) : num_msg[desc[d].resource] = MQ_MAX_MSG_SIZE
    BY <1>1, <2>4, FileFacts
  <2> QED
    BY <2>1, <2>3, <2>5 DEF PutsMessage
<1> QED
  BY <1>2, <1>3 DEF mq_send

LEMMA ReceiveShape ==
  ASSUME SysInv, NEW f, mq_receive(f), NeverFaults'
  PROVE  TakesMessage(f)
<1>1. Calling /\ Inv /\ running \in Pcb /\ MP!NoMsg = Mail!NoMsg
  BY CallerFacts DEF mq_receive, MP!NoMsg, Mail!NoMsg
<1>2. CASE Mail!internal_mqReceive(f) /\ Completes("mq_receive")
  <2>0. UNCHANGED running
    BY <1>2 DEF Completes
  <2>1. MP!internal_mqReceive(f)
    BY <1>2, SameReceive
  <2>2. CASE MP!ByFd(f) = {}
    <3>1. MP!Returns(MP!DSOS_ERESOURCERECV) /\ Arg(Mail!NoMsg) /\ UNCHANGED mail
      BY <1>1, <2>1, <2>2 DEF MP!internal_mqReceive, MP!SecondArg, Arg,
                              MP!mailVars, MP!blocks, MP!queues, MP!files, mail
    <3>2. MP!DSOS_ERESOURCERECV \in Int /\ MP!DSOS_ERESOURCERECV < 0
      BY DEF MP!DSOS_ERESOURCERECV
    <3> QED
      BY <1>1, <2>0, <2>2, <3>1, <3>2, AnswersIs, FileFacts DEF TakesMessage, Refuses
  <2>3. CASE MP!ByFd(f) # {}
    <3>1. PICK d \in MP!Desc : /\ FilesOf(f) = {d} /\ MP!QueueOf(f) = desc[d].resource
                               /\ desc[d].resource \in DOMAIN resources_list
      BY <1>1, <2>3, FileFacts
    <3> DEFINE q == desc[d].resource
    <3>2. /\ MP!Dequeue(q) /\ MP!Returns(0) /\ MP!SecondArg(Head(messages[q]))
          /\ messages[q] # <<>>
          /\ UNCHANGED <<resources_list, desc, descriptors, last_fd>> /\ q \in MP!MqBlock
      BY <2>1, <2>3, <3>1
         DEF MP!internal_mqReceive, MP!IsQueue, MP!Crash, MP!blocks, MP!files, NeverFaults
    <3>3. SameFiles /\ Arg(Head(messages[q])) /\ Answers(TRUE)
      BY <3>2, ZeroAnswers DEF SameFiles, Arg, MP!SecondArg
    <3> QED
      BY <2>0, <3>1, <3>2, <3>3 DEF TakesMessage, MP!Dequeue
  <2> QED
    BY <2>2, <2>3
<1>3. CASE Mail!BlocksInReceive(f) /\ Block("mq_receive", Mail!NoMsg, Mail!DSOS_MQ_EMPTY)
  <2>1. /\ ready_list # <<>> /\ MayBlock /\ ParkOnTimer(SLEEP) /\ Called("mq_receive", 0)
        /\ Arg(Mail!NoMsg) /\ UNCHANGED mail
    BY <1>3 DEF Block, Crash, Stop, ParkCaller, Mail!SecondArg, Arg, NeverFaults
  <2>2. "mq_receive" \in Syscall \ {"wait", "exit"}
    BY DEF Syscall
  <2>3. Parked
    BY <1>1, <2>1, <2>2, ParkShape
  <2>4. MP!ByFd(f) # {} /\ num_msg[MP!QueueOf(f)] = 0
    BY <1>3 DEF Mail!BlocksInReceive, Mail!ByFd, Mail!QueueOf, MP!ByFd, MP!QueueOf
  <2>5. \E d \in FilesOf(f) : num_msg[desc[d].resource] = 0
    BY <1>1, <2>4, FileFacts
  <2> QED
    BY <2>1, <2>3, <2>5 DEF TakesMessage
<1> QED
  BY <1>2, <1>3 DEF mq_receive

-----------------------------------------------------------------------------
(* What the call of a program does, if it does not fault *)

\* The mail of a new process is empty, and nobody else's changes.
FreshMail(b) ==
  /\ SameMessages /\ UNCHANGED <<resources_list, desc>>
  /\ descriptors' = [descriptors EXCEPT ![b] = {}]
  /\ last_fd' = [last_fd EXCEPT ![b] = 0]

SpawnEffect ==
  /\ \E new \in FreePcbs : Spawned(new)
  /\ \E b \in FreePcbs : FreshMail(b)
WaitEffect ==
  /\ UNCHANGED mail
  /\ \/ Refused(0) \/ Blocked(0)
     \/ \E child \in zombie_list : Reaped(0, child)
ExitEffect ==
  \/ ParentAwaits(running) /\ Collected /\ Gone(descriptors[running])
  \/ Zombied /\ UNCHANGED mail

InitEffect ==
  \/ \E p \in 1..Kids(test) + 1 : pc[1] = SpawnPos(test, p) /\ SpawnEffect
  \/ \E i \in QueueIds(test) :
       /\ MailCall
       /\ \/ pc[1] = OpenPos(test, i) /\ UNCHANGED running /\ MakesQueue(i)
          \/ \E j \in 1..Size(test) :
               pc[1] = SendPos(test, i, j) /\ PutsMessage(InitFd(i), buf[i][j])
          \/ pc[1] = ClosePos(test, i) /\ UNCHANGED running /\ ClosesFile(InitFd(i))
          \/ pc[1] = UnlinkPos(test, i) /\ UNCHANGED running /\ RemovesQueue(i)
  \/ \E w \in 1..Kids(test) : pc[1] = WaitPos(test, w) /\ WaitEffect
  \/ /\ pc[1] = Last_(test) /\ UNCHANGED <<mail, retvalue>>
     /\ Replied /\ system' = "down"

ChildEffect(b) ==
  \/ pc[b] = 1 /\ MailCall /\ UNCHANGED running /\ FindsQueue(QueueId(b))
  \/ pc[b] \in 2..Size(test) + 1 /\ MailCall /\ TakesMessage(fd[b])
  \/ pc[b] = ChildClose /\ MailCall /\ UNCHANGED running /\ ClosesFile(fd[b])
  \/ /\ pc[b] \in ChildClose + 1..ChildLast(b) - 1
     /\ UNCHANGED <<mail, retvalue>> /\ Parked
  \/ pc[b] = ChildLast(b) /\ ExitEffect

LEMMA SpawnDoes ==
  ASSUME SysInv, spawn, NeverFaults'
  PROVE  SpawnEffect
<1>1. /\ internal_spawn /\ Inv /\ system = "up"
      /\ IF system' # "up" THEN UNCHANGED <<syscall_arg1, mail>>
         ELSE /\ Mail!FreshPcb(Head(pcb_allocator))
              /\ UNCHANGED <<resources_list, messages, num_msg, mq_allocator,
                             resource_allocator, messages_allocator, desc>>
  <2>1. Calling
    BY DEF spawn
  <2> QED
    BY <2>1, CallerFacts DEF spawn
<1>2. PICK new \in FreePcbs : Spawned(new)
  BY <1>1, NewProcessShape DEF internal_spawn
<1>3. system' = "up" /\ pcb_allocator # <<>> /\ pcb_allocator \in Seq(Pcb)
  BY <1>1, <1>2 DEF Spawned, FreePcbs, Range, Inv, StateTyped
<1>4. Head(pcb_allocator) \in FreePcbs
  BY <1>3 DEF FreePcbs, Range
<1>5. FreshMail(Head(pcb_allocator))
  BY <1>1, <1>3 DEF FreshMail, SameMessages, Mail!FreshPcb
<1> QED
  BY <1>2, <1>4, <1>5 DEF SpawnEffect

LEMMA ExitDoes ==
  ASSUME SysInv, exit, NeverFaults'
  PROVE  ExitEffect
<1>1. Inv /\ running \in LivePcbs /\ running \in Pcb /\ internal_exit
  <2>1. Calling
    BY DEF exit
  <2> QED
    BY <2>1, CallerFacts DEF exit
<1>2. (ParentAwaits(running) /\ Collected) \/ Zombied
  BY <1>1, ExitShape
<1>3. CASE ParentAwaits(running) /\ Collected
  <2>1. pcb_allocator' # pcb_allocator
    BY <1>1, <1>3 DEF Collected, FreePcbs, LivePcbs
  <2>2. /\ ReleaseOnExit(running) /\ UNCHANGED last_fd
        /\ UNCHANGED <<messages, num_msg, messages_allocator>>
    BY <2>1 DEF exit
  <2>3. Gone(descriptors[running])
    BY <2>2 DEF ReleaseOnExit, Mail!ReleaseAll, Mail!Descriptors_free, Mail!Released, Gone, SameMessages
  <2> QED
    BY <1>3, <2>3 DEF ExitEffect
<1>4. CASE Zombied
  <2>1. UNCHANGED mail
    BY <1>4 DEF exit, Zombied, allocators
  <2> QED
    BY <1>4, <2>1 DEF ExitEffect
<1> QED
  BY <1>2, <1>3, <1>4

LEMMA TrapDoes ==
  ASSUME SysInv, Bookkeeping, Trap, NeverFaults'
  PROVE  \/ running = 1 /\ InitEffect
         \/ running # 1 /\ ChildEffect(running)
<1>1. /\ test \in Tests /\ Calling /\ Inv /\ running \in Pcb
      /\ running # 1 => pid[running] \in 2..Kids(test) + 1
  <2>1. Calling
    BY DEF Trap
  <2> QED
    BY <2>1, Callers, CallerFacts
<1>2. CASE running = 1 /\ InitCall
  <2>1. ASSUME NEW p \in 1..Kids(test) + 1, pc[1] = SpawnPos(test, p), spawn
        PROVE  InitEffect
    BY <2>1, SpawnDoes DEF InitEffect
  <2>2. ASSUME NEW i \in QueueIds(test), pc[1] = OpenPos(test, i), mq_open(i, {Mail!CREATE})
        PROVE  InitEffect
    <3>1. i \in Ids /\ {Mail!CREATE} # {}
      BY <1>1, TestNumbers
    <3>2. MakesQueue(i)
      BY <2>2, <3>1, OpenShape
    <3>3. MailCall
      BY <2>2, MailCalls
    <3>4. UNCHANGED running
      BY <2>2 DEF mq_open, Completes
    <3> QED
      BY <2>2, <3>2, <3>3, <3>4 DEF InitEffect
  <2>3. ASSUME NEW i \in QueueIds(test), NEW j \in 1..Size(test),
               pc[1] = SendPos(test, i, j), mq_send(InitFd(i), buf[i][j])
        PROVE  InitEffect
    <3>1. MailCall
      BY <2>3, MailCalls
    <3>2. PutsMessage(InitFd(i), buf[i][j])
      BY <2>3, SendShape
    <3> QED
      BY <2>3, <3>1, <3>2 DEF InitEffect
  <2>4. ASSUME NEW i \in QueueIds(test), pc[1] = ClosePos(test, i), mq_close(InitFd(i))
        PROVE  InitEffect
    <3>1. MailCall
      BY <2>4, MailCalls
    <3>2. ClosesFile(InitFd(i))
      BY <2>4, CloseShape
    <3>3. UNCHANGED running
      BY <2>4 DEF mq_close, Completes
    <3> QED
      BY <2>4, <3>1, <3>2, <3>3 DEF InitEffect
  <2>5. ASSUME NEW i \in QueueIds(test), pc[1] = UnlinkPos(test, i), mq_unlink(i)
        PROVE  InitEffect
    <3>1. MailCall
      BY <2>5, MailCalls
    <3>2. RemovesQueue(i)
      BY <2>5, UnlinkShape
    <3>3. UNCHANGED running
      BY <2>5 DEF mq_unlink, Completes
    <3> QED
      BY <2>5, <3>1, <3>2, <3>3 DEF InitEffect
  <2>6. ASSUME NEW w \in 1..Kids(test), pc[1] = WaitPos(test, w), wait(0)
        PROVE  InitEffect
    <3>1. internal_wait(0) /\ 0 \in Pid /\ UNCHANGED mail
      BY <2>6, ProcessesAssumption DEF wait, Pid
    <3>2. Refused(0) \/ Blocked(0) \/ \E child \in zombie_list : Reaped(0, child)
      BY <1>1, <3>1, WaitShape
    <3> QED
      BY <2>6, <3>1, <3>2 DEF InitEffect, WaitEffect
  <2>7. ASSUME pc[1] = Last_(test), shutdown
        PROVE  InitEffect
    <3>1. internal_shutdown /\ UNCHANGED mail
      BY <2>7 DEF shutdown
    <3>2. Replied
      BY <1>1, <3>1, ShutdownShape
    <3>3. UNCHANGED retvalue /\ system' = "down"
      BY <3>1 DEF internal_shutdown
    <3> QED
      BY <2>7, <3>1, <3>2, <3>3 DEF InitEffect
  <2> QED
    BY <1>2, <2>1, <2>2, <2>3, <2>4, <2>5, <2>6, <2>7 DEF InitCall
<1>3. CASE running # 1 /\ CallOfChild(running)
  <2>1. ASSUME pc[running] = 1, mq_open(QueueId(running), {})
        PROVE  ChildEffect(running)
    <3>1. QueueId(running) \in Ids
      <4>1. (IF test = "blocking" THEN 0 ELSE pid[running]) \in QueueIds(test)
        BY <1>1, <1>3, TestNumbers
      <4> QED
        BY <1>1, <4>1, TestNumbers DEF QueueId
    <3>2. FindsQueue(QueueId(running))
      BY <2>1, <3>1, OpenShape
    <3>3. MailCall
      BY <2>1, MailCalls
    <3>4. UNCHANGED running
      BY <2>1 DEF mq_open, Completes
    <3> QED
      BY <2>1, <3>2, <3>3, <3>4 DEF ChildEffect
  <2>2. ASSUME pc[running] \in 2..Size(test) + 1, mq_receive(fd[running])
        PROVE  ChildEffect(running)
    <3>1. MailCall
      BY <2>2, MailCalls
    <3>2. TakesMessage(fd[running])
      BY <2>2, ReceiveShape
    <3> QED
      BY <2>2, <3>1, <3>2 DEF ChildEffect
  <2>3. ASSUME pc[running] = ChildClose, mq_close(fd[running])
        PROVE  ChildEffect(running)
    <3>1. MailCall
      BY <2>3, MailCalls
    <3>2. ClosesFile(fd[running])
      BY <2>3, CloseShape
    <3>3. UNCHANGED running
      BY <2>3 DEF mq_close, Completes
    <3> QED
      BY <2>3, <3>1, <3>2, <3>3 DEF ChildEffect
  <2>4. ASSUME pc[running] \in ChildClose + 1..ChildLast(running) - 1, sleep(naps)
        PROVE  ChildEffect(running)
    <3>1. internal_sleep(naps) /\ naps \in SleepTimes /\ UNCHANGED mail
      BY <2>4, TestsAssumption DEF sleep
    <3>2. Parked /\ UNCHANGED retvalue
      BY <1>1, <3>1, SleepShape
    <3> QED
      BY <2>4, <3>1, <3>2 DEF ChildEffect
  <2>5. ASSUME pc[running] = ChildLast(running), exit
        PROVE  ChildEffect(running)
    BY <2>5, ExitDoes DEF ChildEffect
  <2> QED
    BY <1>3, <2>1, <2>2, <2>3, <2>4, <2>5 DEF CallOfChild
<1> QED
  BY <1>2, <1>3, TrapCalls

-----------------------------------------------------------------------------
(* A program whose calls report no error cleans up *)

\* Every listed block is a queue of the program that init has opened.
QueuesOfTest ==
  \A q \in DOMAIN resources_list :
    /\ q \in MP!MqBlock
    /\ resources_list[q].id \in QueueIds(test) /\ resources_list[q].type = MP!DSOS_MQ
    /\ Made(OpenPos(test, resources_list[q].id))

\* Every descriptor is one of a resource.
DescriptorsTracked ==
  \A d \in DOMAIN desc : /\ desc[d].resource \in DOMAIN resources_list
                         /\ d \in resources_list[desc[d].resource].opened

\* An unlisted queue is empty.
UnlistedEmpty == \A q \in MP!MqBlock \ DOMAIN resources_list : messages[q] = <<>>

MailTracked == QueuesOfTest /\ DescriptorsTracked /\ UnlistedEmpty

\* init sleeps in a wait, which a timer does not end, or in a send.
InitParks ==
  1 \in waiting_list =>
    /\ 1 \in in_call
    /\ \/ syscall_num[1] = "wait" /\ \E w \in 1..Kids(test) : pc[1] = WaitPos(test, w)
       \/ \E i \in QueueIds(test) : \E j \in 1..Size(test) : pc[1] = SendPos(test, i, j)

\* The k-th call of init has reported success, or will unless its result is
\* replaced.
Succeeded(k) ==
  \/ k < pc[1]
  \/ k = pc[1] /\ 1 \in in_call /\ 1 \notin waiting_list /\ retvalue[1] >= 0

Unlinked(i) == \A q \in DOMAIN resources_list : resources_list[q].id # i
UnlinkedGone ==
  \A i \in QueueIds(test) : Succeeded(UnlinkPos(test, i)) => Unlinked(i)

\* Each wait that succeeded freed a process.
Reaping(w) == Cardinality(LivePcbs \ {1}) + w <= last_pid - 1
ChildrenReaped ==
  \A w \in 0..Kids(test) : w = 0 \/ Succeeded(WaitPos(test, w)) => Reaping(w)

CleanInv ==
  /\ MP!ItemsCounted
  /\ NeverFaults => /\ MailTracked /\ InitParks
                    /\ ~failed => UnlinkedGone /\ ChildrenReaped

\* The ids of the queues that are listed after a step are in ids, or were before.
IdsFrom(ids) ==
  \A q \in DOMAIN resources_list' :
    \/ resources_list'[q].id \in ids
    \/ q \in DOMAIN resources_list /\ resources_list'[q].id = resources_list[q].id

\* A step in the middle of which the invariants below are kept.
Goes ==
  /\ MP!BlocksSound /\ MailTracked /\ UNCHANGED test
  /\ \A k \in Nat : Made(k) => Made(k)'
  /\ test \in Tests

LEMMA OpenedStay ==
  ASSUME Goes, NEW q \in DOMAIN resources_list, NEW i, resources_list[q].id = i
  PROVE  i \in QueueIds(test) /\ i \in Ids /\ Made(OpenPos(test, i))'
<1>1. i \in QueueIds(test) /\ test \in Tests /\ Made(OpenPos(test, i)) /\ UNCHANGED test
  BY DEF Goes, MailTracked, QueuesOfTest
<1>2. OpenPos(test, i) \in 1..Last_(test) - 1 /\ Last_(test) \in Nat /\ i \in Ids
  BY <1>1, PositionsTyped, TestNumbers
<1>3. PICK k \in Nat : k = OpenPos(test, i)
  BY <1>2
<1>4. Made(k)'
  BY <1>1, <1>3 DEF Goes
<1>5. k = OpenPos(test, i)'
  BY <1>1, <1>3
<1> QED
  BY <1>1, <1>2, <1>4, <1>5

\* The blocks of `list`, one of which may get a descriptor.
LEMMA FileIs ==
  ASSUME NEW list, MP!ListTyped(list),
         \/ resources_list' = list /\ UNCHANGED desc
         \/ \E q \in DOMAIN list, d \in MP!Desc : FileMade(list, q, d)
  PROVE  /\ DOMAIN resources_list' = DOMAIN list
         /\ \A x \in DOMAIN list : /\ resources_list'[x].id = list[x].id
                                   /\ resources_list'[x].type = list[x].type
                                   /\ list[x].opened \subseteq resources_list'[x].opened
         /\ \A d \in DOMAIN desc' : \/ /\ d \in DOMAIN desc
                                       /\ desc'[d].resource = desc[d].resource
                                    \/ /\ desc'[d].resource \in DOMAIN list
                                       /\ d \in resources_list'[desc'[d].resource].opened
<1>1. \A x \in DOMAIN list : list[x] \in MP!Resource
  BY DEF MP!ListTyped
<1>2. CASE resources_list' = list /\ UNCHANGED desc
  BY <1>2
<1>3. ASSUME NEW q \in DOMAIN list, NEW d \in MP!Desc, FileMade(list, q, d)
      PROVE  /\ DOMAIN resources_list' = DOMAIN list
             /\ \A x \in DOMAIN list : /\ resources_list'[x].id = list[x].id
                                       /\ resources_list'[x].type = list[x].type
                                       /\ list[x].opened \subseteq resources_list'[x].opened
             /\ \A e \in DOMAIN desc' : \/ /\ e \in DOMAIN desc
                                           /\ desc'[e].resource = desc[e].resource
                                        \/ /\ desc'[e].resource \in DOMAIN list
                                           /\ e \in resources_list'[desc'[e].resource].opened
  <2>1. /\ DOMAIN resources_list' = DOMAIN list
        /\ \A x \in DOMAIN list \ {q} : resources_list'[x] = list[x]
        /\ resources_list'[q] = [list[q] EXCEPT !.opened = @ \cup {d}]
    BY <1>3 DEF FileMade
  <2>2. /\ resources_list'[q].id = list[q].id /\ resources_list'[q].type = list[q].type
        /\ resources_list'[q].opened = list[q].opened \cup {d}
    BY <1>1, <2>1 DEF MP!Resource
  <2>3. /\ DOMAIN desc' = DOMAIN desc \cup {d} /\ desc'[d].resource = q
        /\ \A x \in DOMAIN desc \ {d} : desc'[x] = desc[x]
    BY <1>3 DEF FileMade
  <2> QED
    BY <2>1, <2>2, <2>3
<1> QED
  BY <1>2, <1>3

LEMMA TrackedOpen ==
  ASSUME Goes, NEW list, MP!ListTyped(list), SameMessages,
         \/ resources_list' = list /\ UNCHANGED desc
         \/ \E q \in DOMAIN list, d \in MP!Desc : FileMade(list, q, d),
         DOMAIN resources_list \subseteq DOMAIN list,
         \A q \in DOMAIN resources_list : list[q] = resources_list[q],
         NEW ids \in SUBSET QueueIds(test),
         \A i \in ids : Made(OpenPos(test, i))',
         \A q \in DOMAIN list \ DOMAIN resources_list :
           q \in MP!MqBlock /\ list[q].id \in ids /\ list[q].type = MP!DSOS_MQ
  PROVE  MailTracked' /\ IdsFrom(ids)
<1>1. /\ DOMAIN resources_list' = DOMAIN list
      /\ \A x \in DOMAIN list : /\ resources_list'[x].id = list[x].id
                                /\ resources_list'[x].type = list[x].type
                                /\ list[x].opened \subseteq resources_list'[x].opened
      /\ \A d \in DOMAIN desc' : \/ /\ d \in DOMAIN desc
                                    /\ desc'[d].resource = desc[d].resource
                                 \/ /\ desc'[d].resource \in DOMAIN list
                                    /\ d \in resources_list'[desc'[d].resource].opened
  BY FileIs
<1>2. IdsFrom(ids)
  BY <1>1 DEF IdsFrom
<1>3. \A q \in DOMAIN resources_list, i \in Ids :
        resources_list[q].id = i => i \in QueueIds(test) /\ Made(OpenPos(test, i))'
  BY OpenedStay
<1>4. QueuesOfTest'
  <2>1. ASSUME NEW q \in DOMAIN list
        PROVE  /\ q \in MP!MqBlock /\ list[q].type = MP!DSOS_MQ
               /\ \E i \in QueueIds(test) : list[q].id = i /\ Made(OpenPos(test, i))'
    <3>1. CASE q \in DOMAIN resources_list
      BY <1>3, <3>1, OpenedStay DEF Goes, MailTracked, QueuesOfTest
    <3> QED
      BY <3>1
  <2>2. \A q \in DOMAIN resources_list' :
          /\ q \in MP!MqBlock /\ resources_list'[q].type = MP!DSOS_MQ
          /\ \E i \in QueueIds(test) : resources_list'[q].id = i /\ Made(OpenPos(test, i))'
    BY <1>1, <2>1
  <2>3. QueueIds(test)' = QueueIds(test)
    BY DEF Goes
  <2> QED
    BY <2>2, <2>3 DEF QueuesOfTest
<1>5. DescriptorsTracked'
  BY <1>1 DEF Goes, MailTracked, DescriptorsTracked
<1>6. UnlistedEmpty'
  BY <1>1 DEF Goes, MailTracked, UnlistedEmpty, SameMessages
<1> QED
  BY <1>2, <1>4, <1>5, <1>6 DEF MailTracked

\* No queue is added, and what the descriptors open stays.
LEMMA TrackedFewer ==
  ASSUME Goes,
         DOMAIN resources_list' \subseteq DOMAIN resources_list,
         \A q \in DOMAIN resources_list' : /\ resources_list'[q].id = resources_list[q].id
                                           /\ resources_list'[q].type = resources_list[q].type,
         \A d \in DOMAIN desc' :
           /\ d \in DOMAIN desc /\ desc'[d] = desc[d]
           /\ desc[d].resource \in DOMAIN resources_list =>
                /\ desc[d].resource \in DOMAIN resources_list'
                /\ d \in resources_list[desc[d].resource].opened =>
                     d \in resources_list'[desc[d].resource].opened,
         \A q \in MP!MqBlock : messages'[q] = messages[q] \/ q \in DOMAIN resources_list'
                               \/ messages'[q] = <<>>,
         \A q \in DOMAIN resources_list \ DOMAIN resources_list' : messages'[q] = <<>>
  PROVE  MailTracked' /\ IdsFrom({})
<1>1. IdsFrom({})
  BY DEF IdsFrom
<1>2. QueuesOfTest'
  <2>1. \A q \in DOMAIN resources_list' :
          /\ q \in MP!MqBlock /\ resources_list'[q].type = MP!DSOS_MQ
          /\ \E i \in QueueIds(test) : resources_list'[q].id = i /\ Made(OpenPos(test, i))'
    BY OpenedStay DEF Goes, MailTracked, QueuesOfTest
  <2>2. QueueIds(test)' = QueueIds(test)
    BY DEF Goes
  <2> QED
    BY <2>1, <2>2 DEF QueuesOfTest
<1>3. DescriptorsTracked'
  BY DEF Goes, MailTracked, DescriptorsTracked
<1>4. UnlistedEmpty'
  BY DEF Goes, MailTracked, UnlistedEmpty
<1> QED
  BY <1>1, <1>2, <1>3, <1>4 DEF MailTracked

LEMMA TrackedSame ==
  ASSUME Goes, UNCHANGED mail
  PROVE  MailTracked' /\ IdsFrom({})
<1>1. UNCHANGED <<resources_list, messages, desc>>
  BY DEF mail
<1> QED
  BY <1>1, TrackedFewer

LEMMA TrackedGone ==
  ASSUME Goes, NEW ds, Gone(ds)
  PROVE  MailTracked' /\ IdsFrom({})
<1>1. \A x \in DOMAIN resources_list : resources_list[x] \in MP!Resource
  BY DEF Goes, MP!BlocksSound, MP!ListTyped
<1>2. /\ DOMAIN resources_list' = DOMAIN resources_list
      /\ \A x \in DOMAIN resources_list :
           resources_list'[x] = [resources_list[x] EXCEPT !.opened = @ \ ds]
      /\ DOMAIN desc' = DOMAIN desc \ ds /\ \A d \in DOMAIN desc' : desc'[d] = desc[d]
      /\ UNCHANGED messages
  BY DEF Gone, SameMessages
<1>3. \A x \in DOMAIN resources_list :
        /\ resources_list'[x].id = resources_list[x].id
        /\ resources_list'[x].type = resources_list[x].type
        /\ resources_list'[x].opened = resources_list[x].opened \ ds
  BY <1>1, <1>2 DEF MP!Resource
<1> HIDE DEF Gone
<1> QED
  BY <1>2, <1>3, TrackedFewer

LEMMA TrackedClose ==
  ASSUME Goes, NEW f, ClosesFile(f)
  PROVE  MailTracked' /\ IdsFrom({})
  BY TrackedSame, TrackedGone DEF ClosesFile, Refuses

LEMMA TrackedMove ==
  ASSUME Goes, NEW f, NEW m, PutsMessage(f, m) \/ TakesMessage(f)
  PROVE  MailTracked' /\ IdsFrom({})
<1>1. CASE UNCHANGED mail
  BY <1>1, TrackedSame
<1>2. ASSUME NEW q \in DOMAIN resources_list, NEW s, messages' = [messages EXCEPT ![q] = s],
             SameFiles
      PROVE  MailTracked' /\ IdsFrom({})
  <2>1. \A r \in MP!MqBlock : messages'[r] = messages[r] \/ r = q
    BY <1>2
  <2>2. UNCHANGED <<resources_list, desc>>
    BY <1>2 DEF SameFiles
  <2> QED
    BY <2>1, <2>2, TrackedFewer
<1> QED
  BY <1>1, <1>2 DEF PutsMessage, TakesMessage, Refuses

LEMMA TrackedUnlink ==
  ASSUME Goes, NEW i, RemovesQueue(i), messages \in [MP!MqBlock -> Seq(Msgs)]
  PROVE  /\ MailTracked' /\ IdsFrom({})
         /\ Answers(FALSE) \/ Unlinked(i)'
<1>1. CASE Refuses
  BY <1>1, TrackedSame DEF Refuses
<1>2. ASSUME NEW q \in DOMAIN resources_list, q \in MP!MqBlock, resources_list[q].id = i,
             resources_list[q].opened = {}, QueueGone(q)
      PROVE  MailTracked' /\ IdsFrom({}) /\ Unlinked(i)'
  <2>1. /\ DOMAIN resources_list' = DOMAIN resources_list \ {q}
        /\ \A x \in DOMAIN resources_list' : resources_list'[x] = resources_list[x]
        /\ UNCHANGED desc
        /\ messages'[q] = <<>> /\ \A r \in MP!MqBlock \ {q} : messages'[r] = messages[r]
    BY <1>2 DEF QueueGone
  <2>2. \A d \in DOMAIN desc : desc[d].resource # q
    BY <1>2 DEF Goes, MailTracked, DescriptorsTracked
  <2>3. \A x \in DOMAIN resources_list : resources_list[x].id = i => x = q
    BY <1>2 DEF Goes, MP!BlocksSound, MP!Placed
  <2>4. Unlinked(i)'
    BY <2>1, <2>3 DEF Unlinked
  <2> QED
    BY <2>1, <2>2, <2>4, TrackedFewer
<1> QED
  BY <1>1, <1>2 DEF RemovesQueue, Refuses

LEMMA TrackedFind ==
  ASSUME Goes, NEW i, FindsQueue(i)
  PROVE  MailTracked' /\ IdsFrom({})
<1>1. CASE Refuses
  BY <1>1, TrackedSame DEF Refuses
<1>2. ASSUME SameMessages,
             \E q \in DOMAIN resources_list, d \in MP!Desc : FileMade(resources_list, q, d)
      PROVE  MailTracked' /\ IdsFrom({})
  <2>1. MP!ListTyped(resources_list)
    BY DEF Goes, MP!BlocksSound
  <2>2. {} \in SUBSET QueueIds(test)
    OBVIOUS
  <2> QED
    BY <1>2, <2>1, <2>2, TrackedOpen
<1> QED
  BY <1>1, <1>2 DEF FindsQueue

LEMMA TrackedMake ==
  ASSUME Goes, NEW i \in QueueIds(test), MakesQueue(i), Made(OpenPos(test, i))'
  PROVE  MailTracked' /\ IdsFrom({i})
<1>1. CASE Refuses
  <2>1. MailTracked' /\ IdsFrom({})
    BY <1>1, TrackedSame DEF Refuses
  <2> QED
    BY <2>1 DEF IdsFrom
<1>2. ASSUME NEW q \in MP!MqBlock \ DOMAIN resources_list, SameMessages,
             \A r \in DOMAIN resources_list : resources_list[r].id # i,
             LET list == MP!Insert(resources_list, q, i, MP!DSOS_MQ) IN
             \/ NoFileMade(list)
             \/ \E d \in MP!Desc : FileMade(list, q, d)
      PROVE  MailTracked' /\ IdsFrom({i})
  <2> DEFINE list == MP!Insert(resources_list, q, i, MP!DSOS_MQ)
  <2>1. MP!ListTyped(list) /\ MP!Grown(resources_list, list, q)
    <3>1. i \in Ids /\ MP!DSOS_MQ \in {MP!DSOS_MQ, MP!PLAIN} /\ MP!ById(resources_list, i) = {}
      BY <1>2, TestNumbers DEF Goes, MP!ById
    <3>2. /\ MP!ListTyped(resources_list) /\ q \in MP!Block_ /\ q \notin DOMAIN resources_list
          /\ \A c, e \in DOMAIN resources_list :
               resources_list[c].id = resources_list[e].id => c = e
      BY <1>2 DEF Goes, MP!BlocksSound, MP!Placed, MP!Block_
    <3> QED
      BY <3>1, <3>2, MailAssumption, MP!InsertKeeps
  <2>2. /\ DOMAIN list = DOMAIN resources_list \cup {q}
        /\ \A x \in DOMAIN resources_list : list[x] = resources_list[x]
        /\ list[q].id = i /\ list[q].type = MP!DSOS_MQ
    BY <1>2 DEF MP!Insert
  <2>3. \/ resources_list' = list /\ UNCHANGED desc
        \/ \E x \in DOMAIN list, d \in MP!Desc : FileMade(list, x, d)
    BY <1>2, <2>2 DEF NoFileMade
  <2> HIDE DEF list
  <2>4. {i} \in SUBSET QueueIds(test) /\ \A x \in {i} : Made(OpenPos(test, x))'
    OBVIOUS
  <2>5. \A x \in DOMAIN list \ DOMAIN resources_list :
           x \in MP!MqBlock /\ list[x].id \in {i} /\ list[x].type = MP!DSOS_MQ
    BY <1>2, <2>2
  <2> QED
    BY <1>2, <2>1, <2>2, <2>3, <2>4, <2>5, TrackedOpen
<1> QED
  BY <1>1, <1>2 DEF MakesQueue

LEMMA ParkedMoves ==
  ASSUME Inv, running \in Pcb, Parked
  PROVE  running' # running
  BY Apart DEF Parked, Dispatched

\* init is at one place in its program.
Awaits(t, k)  == \E w \in 1..Kids(t) : k = WaitPos(t, w)
Unlinks(t, k) == \E i \in QueueIds(t) : k = UnlinkPos(t, i)

LEMMA Ends ==
  ASSUME NEW t \in Tests, NEW k
  PROVE  /\ Awaits(t, k) => Program[t][0][k].op = "wait"
         /\ Unlinks(t, k) => Program[t][0][k].op = "mq_unlink"
  BY InitOps DEF Awaits, Unlinks

\* The k-th call of init succeeds in this step: it is told so, at once or by the
\* child that it waited for.
Succeeds(k) ==
  /\ k = pc[1]
  /\ \/ running = 1 /\ \E i \in QueueIds(test) :
          k = UnlinkPos(test, i) /\ RemovesQueue(i) /\ retvalue'[1] >= 0
     \/ running = 1 /\ Awaits(test, k) /\ \E child \in zombie_list : Reaped(0, child)
     \/ running # 1 /\ Awaits(test, k) /\ Collected

LEMMA InitMakesProgress ==
  ASSUME SysInv, Bookkeeping, Trap, NeverFaults', InitParks, running = 1, InitEffect
  PROVE  /\ InitParks'
         /\ \A k \in Nat : /\ Awaits(test, k) \/ Unlinks(test, k)
                           /\ Succeeded(k)'
                           => Succeeded(k) \/ Succeeds(k)
<1>1. /\ Inv /\ running \in Pcb /\ test \in Tests /\ 1 \notin waiting_list
      /\ UNCHANGED <<test, pc>> /\ 1 \in in_call'
  <2>1. Calling
    BY DEF Trap
  <2> QED
    BY <2>1, CallerFacts, Callers, Apart DEF Trap
<1>2. ASSUME NEW k \in Nat, Succeeded(k)'
      PROVE  Succeeded(k) \/ (k = pc[1] /\ 1 \notin waiting_list' /\ retvalue'[1] >= 0)
  BY <1>1, <1>2 DEF Succeeded
<1>3. ASSUME UNCHANGED waiting_list
      PROVE  InitParks'
  BY <1>1, <1>3 DEF InitParks
<1>4. ASSUME ~Awaits(test, pc[1]), ~Unlinks(test, pc[1])
      PROVE  \A k \in Nat : /\ Awaits(test, k) \/ Unlinks(test, k)
                            /\ Succeeded(k)'
                            => Succeeded(k) \/ Succeeds(k)
  BY <1>2, <1>4
<1>5. ASSUME NEW p \in 1..Kids(test) + 1, pc[1] = SpawnPos(test, p), SpawnEffect
      PROVE  InitParks' /\ ~Awaits(test, pc[1]) /\ ~Unlinks(test, pc[1])
  <2>1. Program[test][0][pc[1]].op = "spawn"
    BY <1>1, <1>5, InitOps
  <2> QED
    BY <1>1, <1>3, <1>5, <2>1, Ends DEF SpawnEffect, Spawned
<1>6. ASSUME MailCall, UNCHANGED running
      PROVE  InitParks'
  <2>1. Replied
    BY <1>1, <1>6, ParkedMoves DEF MailCall
  <2> QED
    BY <1>3, <2>1 DEF Replied, lists
<1>7. ASSUME NEW i \in QueueIds(test), MailCall,
             \/ pc[1] = OpenPos(test, i) /\ UNCHANGED running
             \/ \E j \in 1..Size(test) : pc[1] = SendPos(test, i, j)
             \/ pc[1] = ClosePos(test, i) /\ UNCHANGED running
      PROVE  InitParks' /\ ~Awaits(test, pc[1]) /\ ~Unlinks(test, pc[1])
  <2>1. Program[test][0][pc[1]].op \in {"mq_open", "mq_send", "mq_close"}
    BY <1>1, <1>7, InitOps
  <2>2. ASSUME NEW j \in 1..Size(test), pc[1] = SendPos(test, i, j)
        PROVE  InitParks'
    <3>1. \E n \in QueueIds(test) : \E m \in 1..Size(test) : pc[1] = SendPos(test, n, m)
      BY <2>2
    <3>2. (\E n \in QueueIds(test) : \E m \in 1..Size(test) : pc[1] = SendPos(test, n, m))'
      BY <1>1, <3>1
    <3> QED
      BY <1>1, <3>2 DEF InitParks
  <2> QED
    BY <1>1, <1>6, <1>7, <2>1, <2>2, Ends
<1>8. ASSUME NEW i \in QueueIds(test), MailCall, pc[1] = UnlinkPos(test, i),
             UNCHANGED running, RemovesQueue(i)
      PROVE  /\ InitParks'
             /\ \A k \in Nat : Succeeded(k)' => Succeeded(k) \/ Succeeds(k)
  BY <1>2, <1>6, <1>8 DEF Succeeds
<1>9. ASSUME NEW w \in 1..Kids(test), pc[1] = WaitPos(test, w), WaitEffect
      PROVE  /\ InitParks'
             /\ \A k \in Nat : Succeeded(k)' => Succeeded(k) \/ Succeeds(k)
  <2>1. Awaits(test, pc[1])
    BY <1>9 DEF Awaits
  <2>2. CASE Refused(0)
    <3>1. UNCHANGED waiting_list /\ retvalue'[1] = DSOS_EWAIT
      BY <1>1, <2>2 DEF Refused, lists
    <3>2. ~(retvalue'[1] >= 0)
      BY <3>1 DEF DSOS_EWAIT
    <3> QED
      BY <1>2, <1>3, <3>1, <3>2
  <2>3. CASE Blocked(0)
    <3>1. 1 \in waiting_list' /\ syscall_num'[1] = "wait"
      BY <1>1, <2>3 DEF Blocked, Recorded
    <3>2. (\E u \in 1..Kids(test) : pc[1] = WaitPos(test, u))'
      BY <1>1, <1>9
    <3> QED
      BY <1>1, <1>2, <3>1, <3>2 DEF InitParks
  <2>4. CASE \E child \in zombie_list : Reaped(0, child)
    <3>1. UNCHANGED waiting_list
      BY <2>4 DEF Reaped
    <3> QED
      BY <1>2, <1>3, <2>1, <2>4, <3>1 DEF Succeeds
  <2> QED
    BY <1>9, <2>2, <2>3, <2>4 DEF WaitEffect
<1>10. ASSUME pc[1] = Last_(test), Replied
       PROVE  InitParks' /\ ~Awaits(test, pc[1]) /\ ~Unlinks(test, pc[1])
  <2>1. Program[test][0][pc[1]].op = "shutdown"
    BY <1>1, <1>10, InitOps
  <2> QED
    BY <1>1, <1>3, <1>10, <2>1, Ends DEF Replied, lists
<1> QED
  BY <1>4, <1>5, <1>7, <1>8, <1>9, <1>10 DEF InitEffect

LEMMA ChildMakesProgress ==
  ASSUME SysInv, Bookkeeping, Trap, NeverFaults', InitParks, running # 1, ChildEffect(running)
  PROVE  /\ InitParks'
         /\ \A k \in Nat : /\ Awaits(test, k) \/ Unlinks(test, k)
                           /\ Succeeded(k)'
                           => Succeeded(k) \/ Succeeds(k)
<1>1. /\ Inv /\ running \in Pcb /\ test \in Tests /\ 1 \in Pcb
      /\ retvalue \in [Pcb -> Int]
      /\ UNCHANGED <<test, pc>> /\ (1 \in in_call' <=> 1 \in in_call)
  <2>1. Calling
    BY DEF Trap
  <2>2. 1 \in Pcb
    BY ProcessesAssumption DEF Pcb
  <2> QED
    BY <2>1, <2>2, CallerFacts, Callers DEF Trap, Inv, StateTyped
<1>2. ASSUME 1 \in waiting_list' => 1 \in waiting_list, syscall_num'[1] = syscall_num[1]
      PROVE  InitParks'
  <2>1. ASSUME 1 \in waiting_list'
        PROVE  InitParks'
    <3>1. 1 \in in_call /\ 1 \in in_call'
      BY <1>1, <1>2, <2>1 DEF InitParks
    <3>2. CASE syscall_num[1] = "wait" /\ \E w \in 1..Kids(test) : pc[1] = WaitPos(test, w)
      <4>1. (\E w \in 1..Kids(test) : pc[1] = WaitPos(test, w))'
        BY <1>1, <3>2
      <4> QED
        BY <1>2, <3>1, <3>2, <4>1 DEF InitParks
    <3>3. CASE \E i \in QueueIds(test) : \E j \in 1..Size(test) : pc[1] = SendPos(test, i, j)
      <4>1. (\E i \in QueueIds(test) : \E j \in 1..Size(test) : pc[1] = SendPos(test, i, j))'
        BY <1>1, <3>3
      <4> QED
        BY <3>1, <4>1 DEF InitParks
    <3> QED
      BY <1>2, <2>1, <3>2, <3>3 DEF InitParks
  <2> QED
    BY <2>1 DEF InitParks
<1>3. ASSUME \A k \in Nat : Succeeded(k)' => Succeeded(k)
      PROVE  \A k \in Nat : /\ Awaits(test, k) \/ Unlinks(test, k)
                            /\ Succeeded(k)'
                            => Succeeded(k) \/ Succeeds(k)
  BY <1>3
<1>4. ASSUME 1 \in waiting_list' <=> 1 \in waiting_list,
             retvalue'[1] >= 0 => retvalue[1] >= 0
      PROVE  \A k \in Nat : Succeeded(k)' => Succeeded(k)
  BY <1>1, <1>4 DEF Succeeded
<1>5. CASE MailCall \/ (UNCHANGED <<mail, retvalue>> /\ Parked)
  <2>1. syscall_num'[1] = syscall_num[1]
    BY <1>1, <1>5 DEF MailCall, Replied, Parked, RecordedOther, Recorded
  <2>2. 1 \in waiting_list' <=> 1 \in waiting_list
    BY <1>1, <1>5 DEF MailCall, Replied, Parked, lists
  <2>3. retvalue'[1] >= 0 => retvalue[1] >= 0
    <3>1. CASE Replied \/ UNCHANGED retvalue
      BY <1>1, <3>1 DEF Replied
    <3>2. CASE \E code \in {Mail!DSOS_MQ_FULL, Mail!DSOS_MQ_EMPTY} :
                 retvalue' = [retvalue EXCEPT ![running'] = code]
      <4>1. PICK code \in {Mail!DSOS_MQ_FULL, Mail!DSOS_MQ_EMPTY} :
              retvalue' = [retvalue EXCEPT ![running'] = code]
        BY <3>2
      <4>2. ~(code >= 0)
        BY DEF Mail!DSOS_MQ_FULL, Mail!DSOS_MQ_EMPTY
      <4>3. retvalue'[1] = code \/ retvalue'[1] = retvalue[1]
        BY <1>1, <4>1
      <4> QED
        BY <4>2, <4>3
    <3> QED
      BY <1>5, <3>1, <3>2 DEF MailCall
  <2> QED
    BY <1>2, <1>3, <1>4, <2>1, <2>2, <2>3
<1>6. CASE Zombied
  <2>1. syscall_num'[1] = syscall_num[1] /\ UNCHANGED <<waiting_list, retvalue>>
    BY <1>1, <1>6 DEF Zombied, Recorded
  <2> QED
    BY <1>2, <1>3, <1>4, <2>1
<1>7. CASE Collected /\ ParentAwaits(running)
  <2>1. /\ syscall_num'[1] = syscall_num[1]
        /\ waiting_list' = waiting_list \ {parent[running]}
        /\ retvalue'[1] = IF 1 = parent[running] THEN pid[running] ELSE retvalue[1]
        /\ parent[running] \in waiting_list
    BY <1>1, <1>7 DEF Collected, Recorded
  <2>2. CASE parent[running] = 1
    <3>1. syscall_num[1] = "wait" /\ 1 \in waiting_list
      BY <1>7, <2>1, <2>2 DEF ParentAwaits
    <3>2. \A k \in Nat : Succeeded(k)' => Succeeded(k) \/ k = pc[1]
      BY <1>1 DEF Succeeded
    <3>3. CASE Awaits(test, pc[1])
      BY <1>2, <1>7, <2>1, <3>2, <3>3 DEF Succeeds
    <3>4. CASE \E i \in QueueIds(test) : \E j \in 1..Size(test) : pc[1] = SendPos(test, i, j)
      <4>1. Program[test][0][pc[1]].op = "mq_send"
        BY <1>1, <3>4, InitOps
      <4> QED
        BY <1>1, <1>2, <2>1, <3>2, <4>1, Ends
    <3> QED
      BY <3>1, <3>3, <3>4 DEF InitParks, Awaits
  <2>3. CASE parent[running] # 1
    BY <1>2, <1>3, <1>4, <2>1, <2>3
  <2> QED
    BY <2>2, <2>3
<1> QED
  BY <1>5, <1>6, <1>7 DEF ChildEffect, ExitEffect

LEMMA GoesOn ==
  ASSUME SysInv, MailTracked, Trap, test \in Tests
  PROVE  Goes
<1>1. MP!BlocksSound /\ UNCHANGED test
  BY DEF SysInv, MailSound, Trap
<1>2. \A k \in Nat : Made(k) => Made(k)'
  BY TrapMade DEF Made
<1> QED
  BY <1>1, <1>2 DEF Goes

LEMMA TrackedTrap ==
  ASSUME SysInv, Bookkeeping, Trap, NeverFaults', MailTracked
  PROVE  /\ MailTracked'
         /\ \/ IdsFrom({})
            \/ running = 1 /\ \E i \in QueueIds(test) : pc[1] = OpenPos(test, i) /\ IdsFrom({i})
<1>1. Goes /\ test \in Tests /\ Calling
  <2>1. Calling
    BY DEF Trap
  <2> QED
    BY <2>1, Callers, GoesOn
<1>2. messages \in [MP!MqBlock -> Seq(Msgs)]
  BY DEF SysInv, MailSound, MP!MessagesTyped
<1> HIDE DEF Goes
<1>3. CASE running = 1 /\ InitEffect
  <2>1. ASSUME NEW i \in QueueIds(test), pc[1] = OpenPos(test, i), MakesQueue(i)
        PROVE  MailTracked' /\ IdsFrom({i})
    <3>1. Made(OpenPos(test, i))'
      <4>1. pc' = pc /\ 1 \in in_call' /\ test' = test
        BY <1>3 DEF Trap
      <4>2. OpenPos(test, i)' = pc'[1]
        BY <2>1, <4>1
      <4> QED
        BY <4>1, <4>2 DEF Made, MadeBy
    <3> QED
      BY <1>1, <2>1, <3>1, TrackedMake
  <2>2. ASSUME NEW i \in QueueIds(test), NEW j \in 1..Size(test), PutsMessage(InitFd(i), buf[i][j])
        PROVE  MailTracked' /\ IdsFrom({})
    BY <1>1, <2>2, TrackedMove
  <2>3. ASSUME NEW i \in QueueIds(test), ClosesFile(InitFd(i))
        PROVE  MailTracked' /\ IdsFrom({})
    BY <1>1, <2>3, TrackedClose
  <2>4. ASSUME NEW i \in QueueIds(test), RemovesQueue(i)
        PROVE  MailTracked' /\ IdsFrom({})
    BY <1>1, <1>2, <2>4, TrackedUnlink
  <2>5. ASSUME UNCHANGED mail
        PROVE  MailTracked' /\ IdsFrom({})
    BY <1>1, <2>5, TrackedSame
  <2>6. ASSUME SpawnEffect
        PROVE  MailTracked' /\ IdsFrom({})
    <3>1. UNCHANGED <<resources_list, messages, desc>>
      BY <2>6 DEF SpawnEffect, FreshMail, SameMessages
    <3> QED
      BY <1>1, <3>1, TrackedFewer
  <2> QED
    BY <1>3, <2>1, <2>2, <2>3, <2>4, <2>5, <2>6 DEF InitEffect, WaitEffect
<1>4. CASE running # 1 /\ ChildEffect(running)
  <2>1. CASE FindsQueue(QueueId(running))
    BY <1>1, <2>1, TrackedFind
  <2>2. CASE TakesMessage(fd[running])
    BY <1>1, <2>2, TrackedMove
  <2>3. CASE ClosesFile(fd[running])
    BY <1>1, <2>3, TrackedClose
  <2>4. CASE UNCHANGED mail
    BY <1>1, <2>4, TrackedSame
  <2>5. CASE Gone(descriptors[running])
    BY <1>1, <2>5, TrackedGone
  <2> QED
    BY <1>4, <2>1, <2>2, <2>3, <2>4, <2>5 DEF ChildEffect, ExitEffect
<1> QED
  BY <1>3, <1>4, TrapDoes

\* How many processes there are, and how many there were.
Family == LivePcbs \ {1}

LEMMA FamilySize ==
  /\ IsFiniteSet(Family) /\ Cardinality(Family) \in Nat
  /\ \A b : b \in LivePcbs /\ b # 1 => Cardinality(Family \ {b}) = Cardinality(Family) - 1
  /\ \A b : b \notin LivePcbs => Cardinality(Family \cup {b}) = Cardinality(Family) + 1
<1>1. IsFiniteSet(Pcb)
  <2>1. 1 \in Int /\ MAX_NUM_PROCESSES \in Int
    BY ProcessesAssumption
  <2> QED
    BY <2>1, FS_Interval DEF Pcb
<1>2. Family \in SUBSET Pcb
  BY DEF Family, LivePcbs
<1>3. IsFiniteSet(Family)
  BY <1>1, <1>2, FS_Subset
<1>4. Cardinality(Family) \in Nat
  BY <1>3, FS_CardinalityType
<1>5. ASSUME NEW b, b \in LivePcbs, b # 1
      PROVE  Cardinality(Family \ {b}) = Cardinality(Family) - 1
  <2>1. b \in Family
    BY <1>5 DEF Family
  <2> QED
    BY <1>3, <2>1, FS_RemoveElement
<1>6. ASSUME NEW b, b \notin LivePcbs
      PROVE  Cardinality(Family \cup {b}) = Cardinality(Family) + 1
  <2>1. b \notin Family
    BY <1>6 DEF Family
  <2> QED
    BY <1>3, <2>1, FS_AddElement
<1> QED
  BY <1>3, <1>4, <1>5, <1>6

LEMMA TrapSize ==
  ASSUME SysInv, Bookkeeping, Trap, NeverFaults'
  PROVE  /\ last_pid \in Int /\ last_pid' \in Int
         /\ Cardinality(Family) \in Int /\ Cardinality(Family)' \in Int
         /\ Cardinality(Family)' - last_pid' <= Cardinality(Family) - last_pid
         /\ \A k : Awaits(test, k) /\ Succeeds(k) =>
              Cardinality(Family)' = Cardinality(Family) - 1 /\ last_pid' = last_pid
<1>1. /\ Inv /\ running \in LivePcbs /\ last_pid \in Int /\ test \in Tests
      /\ FreePcbs \cap LivePcbs = {} /\ zombie_list \subseteq LivePcbs /\ running \notin zombie_list
  <2>1. Calling
    BY DEF Trap
  <2>2. Inv /\ running \in LivePcbs /\ test \in Tests
    BY <2>1, CallerFacts, Callers
  <2>3. last_pid \in Int
    BY <2>2 DEF Inv, StateTyped, Pid
  <2> QED
    BY <2>2, <2>3, Apart DEF LivePcbs
<1>2. \A S : Family' = S => Cardinality(Family)' = Cardinality(S)
  OBVIOUS
<1>3. ASSUME NEW new \in FreePcbs, Spawned(new), running = 1
      PROVE  Cardinality(Family)' = Cardinality(Family) + 1 /\ last_pid' = last_pid + 1
  <2>1. new \notin LivePcbs /\ new # 1
    BY <1>1, <1>3
  <2>2. Family' = Family \cup {new}
    BY <1>3, <2>1 DEF Family, Spawned
  <2> QED
    BY <1>2, <1>3, <2>1, <2>2, FamilySize DEF Spawned
<1>4. ASSUME NEW b \in LivePcbs, b # 1, LivePcbs' = LivePcbs \ {b}, last_pid' = last_pid
      PROVE  Cardinality(Family)' = Cardinality(Family) - 1 /\ last_pid' = last_pid
  <2>1. Family' = Family \ {b}
    BY <1>4 DEF Family
  <2> QED
    BY <1>2, <1>4, <2>1, FamilySize
<1>5. ASSUME NEW child \in zombie_list, Reaped(0, child), running = 1
      PROVE  Cardinality(Family)' = Cardinality(Family) - 1 /\ last_pid' = last_pid
  <2>1. child \in LivePcbs /\ child # 1
    BY <1>1, <1>5
  <2>2. LivePcbs' = LivePcbs \ {child} /\ last_pid' = last_pid
    BY <1>5 DEF Reaped
  <2> QED
    BY <1>4, <2>1, <2>2
<1>6. ASSUME Collected, running # 1
      PROVE  Cardinality(Family)' = Cardinality(Family) - 1 /\ last_pid' = last_pid
  BY <1>1, <1>4, <1>6 DEF Collected
<1>7. ASSUME UNCHANGED <<pcb_allocator, last_pid>>
      PROVE  Cardinality(Family)' = Cardinality(Family) /\ last_pid' = last_pid
  <2>1. Family' = Family
    BY <1>7 DEF Family, LivePcbs, FreePcbs
  <2> QED
    BY <1>2, <1>7, <2>1
<1>8. \/ Cardinality(Family)' = Cardinality(Family) + 1 /\ last_pid' = last_pid + 1
      \/ Cardinality(Family)' = Cardinality(Family) - 1 /\ last_pid' = last_pid
      \/ Cardinality(Family)' = Cardinality(Family) /\ last_pid' = last_pid
  <2>1. CASE running = 1 /\ InitEffect
    <3>1. CASE SpawnEffect
      BY <1>3, <2>1, <3>1 DEF SpawnEffect
    <3>2. CASE MailCall \/ Refused(0) \/ Blocked(0) \/ Replied
      BY <1>7, <3>2 DEF MailCall, Refused, Blocked, Replied, Parked, allocators
    <3>3. CASE \E child \in zombie_list : Reaped(0, child)
      BY <1>5, <2>1, <3>3
    <3> QED
      BY <2>1, <3>1, <3>2, <3>3 DEF InitEffect, WaitEffect
  <2>2. CASE running # 1 /\ ChildEffect(running)
    <3>1. CASE MailCall \/ Parked \/ Zombied
      BY <1>7, <3>1 DEF MailCall, Replied, Parked, Zombied, allocators
    <3>2. CASE Collected
      BY <1>6, <2>2, <3>2
    <3> QED
      BY <2>2, <3>1, <3>2 DEF ChildEffect, ExitEffect
  <2> QED
    BY <2>1, <2>2, TrapDoes
<1>9. ASSUME NEW k, Awaits(test, k), Succeeds(k)
      PROVE  Cardinality(Family)' = Cardinality(Family) - 1 /\ last_pid' = last_pid
  <2>1. ~Unlinks(test, k)
    BY <1>1, <1>9, Ends
  <2> QED
    BY <1>5, <1>6, <1>9, <2>1 DEF Succeeds, Unlinks
<1>10. Cardinality(Family) \in Int
  BY FamilySize
<1>11. Cardinality(Family)' \in Int /\ last_pid' \in Int
  BY <1>1, <1>8, <1>10
<1>12. Cardinality(Family)' - last_pid' <= Cardinality(Family) - last_pid
  BY <1>1, <1>8, <1>10
<1> QED
  BY <1>1, <1>9, <1>10, <1>11, <1>12

\* What has succeeded in init is remembered by its program counter.
LEMMA ReturnSucceeded ==
  ASSUME SysInv, Bookkeeping, Return, ~failed', NEW k \in Nat,
         Awaits(test, k) \/ Unlinks(test, k), Succeeded(k)'
  PROVE  Succeeded(k) /\ ~failed
<1>1. /\ Calling /\ UNCHANGED <<sysVars, test>> /\ in_call' = in_call \ {running}
      /\ running \in in_call /\ failed' = (failed \/ (~IsVoid(Instr(running)) /\ retvalue[running] < 0))
  BY DEF Return
<1>2. /\ Inv /\ test \in Tests /\ running \in Pcb /\ running \notin waiting_list
      /\ TestTyped
      /\ running = 1 => pid[running] = 0
  BY <1>1, Callers, CallerFacts, Apart
<1>3. UNCHANGED <<waiting_list, retvalue>> /\ pc[1] \in Nat /\ 1 \in Pcb /\ retvalue[1] \in Int
  <2>1. 1 \in Pcb
    BY ProcessesAssumption DEF Pcb
  <2>2. UNCHANGED <<waiting_list, retvalue>>
    BY <1>1 DEF sysVars, vars, lists
  <2> QED
    BY <1>2, <2>1, <2>2 DEF TestTyped, Inv, StateTyped
<1>4. ~failed /\ ~(~IsVoid(Instr(running)) /\ retvalue[running] < 0)
  BY <1>1
<1>5. CASE running # 1
  <2>1. pc'[1] = pc[1] /\ (1 \in in_call' <=> 1 \in in_call)
    BY <1>1, <1>3, <1>5, ReturnPc
  <2> QED
    BY <1>1, <1>3, <2>1 DEF Succeeded
<1>6. CASE running = 1
  <2>1. pc'[1] = pc[1] + 1
    BY <1>6, ReturnPc
  <2>2. k < pc[1] + 1
    BY <1>1, <1>6, <2>1 DEF Succeeded
  <2>3. ASSUME k = pc[1]
        PROVE  retvalue[1] >= 0
    <3>1. Instr(1).op \in {"wait", "mq_unlink"}
      BY <1>2, <1>6, <2>3, Ends DEF Instr
    <3>2. ~IsVoid(Instr(1))
      BY <3>1 DEF IsVoid
    <3>3. ~(retvalue[1] < 0)
      BY <1>6, <1>4, <3>2
    <3> QED
      BY <1>3, <3>3
  <2>4. k < pc[1] \/ k = pc[1]
    BY <1>3, <2>2
  <2> QED
    BY <1>1, <1>2, <1>6, <2>3, <2>4 DEF Succeeded
<1> QED
  BY <1>5, <1>6, <1>4

LEMMA ReturnParks ==
  ASSUME SysInv, Bookkeeping, Return, InitParks
  PROVE  InitParks'
<1>1. Calling /\ UNCHANGED <<sysVars, test>> /\ in_call' = in_call \ {running}
  BY DEF Return
<1>2. Inv /\ running \in Pcb /\ running \notin waiting_list
  BY <1>1, Callers, CallerFacts, Apart
<1>3. UNCHANGED <<waiting_list, syscall_num>>
  BY <1>1 DEF sysVars, vars, lists, call
<1>4. ASSUME 1 \in waiting_list
      PROVE  InitParks'
  <2>1. running # 1 /\ 1 \in Pcb
    BY <1>2, <1>4, ProcessesAssumption DEF Pcb
  <2>2. pc'[1] = pc[1]
    BY <2>1, ReturnPc
  <2>3. 1 \in in_call'
    BY <1>1, <1>4, <2>1 DEF InitParks
  <2>4. CASE syscall_num[1] = "wait" /\ \E w \in 1..Kids(test) : pc[1] = WaitPos(test, w)
    <3>1. (\E w \in 1..Kids(test) : pc[1] = WaitPos(test, w))'
      BY <1>1, <2>2, <2>4
    <3> QED
      BY <1>3, <2>3, <2>4, <3>1 DEF InitParks
  <2>5. CASE \E i \in QueueIds(test) : \E j \in 1..Size(test) : pc[1] = SendPos(test, i, j)
    <3>1. (\E i \in QueueIds(test) : \E j \in 1..Size(test) : pc[1] = SendPos(test, i, j))'
      BY <1>1, <2>2, <2>5
    <3> QED
      BY <2>3, <3>1 DEF InitParks
  <2> QED
    BY <1>4, <2>4, <2>5 DEF InitParks
<1> QED
  BY <1>3, <1>4 DEF InitParks

\* A timer interrupt wakes init only from a send.
LEMMA TimerSucceeded ==
  ASSUME SysInv, test \in Tests, Scheduled, UNCHANGED testVars, InitParks
  PROVE  /\ InitParks'
         /\ \A k \in Nat : /\ Awaits(test, k) \/ Unlinks(test, k)
                           /\ Succeeded(k)'
                           => Succeeded(k)
<1>1. /\ UNCHANGED <<retvalue, test, pc, in_call>> /\ 1 \in Pcb
      /\ running \notin waiting_list
      /\ waiting_list' \subseteq waiting_list
      /\ \A w \in waiting_list \ waiting_list' : syscall_num[w] # "wait"
      /\ UNCHANGED call \/ Recorded("preempt", 0)
  <2>1. Inv
    BY DEF SysInv, AlwaysInv
  <2> QED
    BY <2>1, ProcessesAssumption, Apart DEF Scheduled, testVars, Pcb
<1>2. InitParks'
  <2>1. ASSUME 1 \in waiting_list', 1 \in waiting_list
        PROVE  syscall_num'[1] = syscall_num[1]
    BY <1>1, <2>1 DEF Recorded, call
  <2>2. ASSUME 1 \in waiting_list, \E i \in QueueIds(test) : \E j \in 1..Size(test) : pc[1] = SendPos(test, i, j)
        PROVE  (\E i \in QueueIds(test) : \E j \in 1..Size(test) : pc[1] = SendPos(test, i, j))'
    BY <1>1, <2>2
  <2>3. ASSUME 1 \in waiting_list, \E w \in 1..Kids(test) : pc[1] = WaitPos(test, w)
        PROVE  (\E w \in 1..Kids(test) : pc[1] = WaitPos(test, w))'
    BY <1>1, <2>3
  <2> QED
    BY <1>1, <2>1, <2>2, <2>3 DEF InitParks
<1>3. ASSUME NEW k \in Nat, Awaits(test, k) \/ Unlinks(test, k), Succeeded(k)', ~Succeeded(k)
      PROVE  FALSE
  <2>1. k = pc[1] /\ 1 \in waiting_list \ waiting_list'
    BY <1>1, <1>3 DEF Succeeded
  <2>2. PICK i \in QueueIds(test) : \E j \in 1..Size(test) : pc[1] = SendPos(test, i, j)
    BY <1>1, <2>1 DEF InitParks
  <2>3. Program[test][0][k].op = "mq_send"
    BY <2>1, <2>2, InitOps
  <2> QED
    BY <1>3, <2>3, Ends
<1> QED
  BY <1>2, <1>3

LEMMA UnlinkedTrap ==
  ASSUME SysInv, Bookkeeping, Trap, NeverFaults', MailTracked, InitParks, UnlinkedGone
  PROVE  UnlinkedGone'
<1>1. /\ test \in Tests /\ UNCHANGED <<test, pc>> /\ Goes /\ messages \in [MP!MqBlock -> Seq(Msgs)]
      /\ retvalue \in [Pcb -> Int] /\ 1 \in Pcb
  <2>1. Calling
    BY DEF Trap
  <2>2. /\ test \in Tests /\ UNCHANGED <<test, pc>> /\ messages \in [MP!MqBlock -> Seq(Msgs)]
        /\ Inv
    BY <2>1, Callers, CallerFacts DEF Trap, SysInv, MailSound, MP!MessagesTyped
  <2> QED
    BY <2>2, GoesOn, ProcessesAssumption DEF Inv, StateTyped, Pcb
<1> SUFFICES ASSUME NEW i \in QueueIds(test), Succeeded(UnlinkPos(test, i))'
             PROVE  Unlinked(i)'
  BY <1>1 DEF UnlinkedGone
<1>2. PICK k \in Nat : k = UnlinkPos(test, i)
  <2>1. UnlinkPos(test, i) \in 1..Last_(test) - 1 /\ Last_(test) \in Nat
    BY <1>1, PositionsTyped, TestNumbers
  <2> QED
    BY <2>1
<1>3. Succeeded(k)' /\ Unlinks(test, k)
  <2>1. Succeeded(UnlinkPos(test, i))' <=> Succeeded(k)'
    BY <1>1, <1>2 DEF Succeeded, UnlinkPos, Filled
  <2> QED
    BY <1>2, <2>1 DEF Unlinks
<1> HIDE DEF Goes
<1>4. Succeeded(k) \/ Succeeds(k)
  BY <1>3, TrapDoes, InitMakesProgress, ChildMakesProgress
<1>5. CASE Succeeded(k)
  <2>1. Unlinked(i)
    BY <1>2, <1>5 DEF UnlinkedGone
  <2>2. ASSUME IdsFrom({})
        PROVE  Unlinked(i)'
    BY <2>1, <2>2 DEF IdsFrom, Unlinked
  <2>3. ASSUME NEW n \in QueueIds(test), pc[1] = OpenPos(test, n), IdsFrom({n})
        PROVE  Unlinked(i)'
    <3>1. n # i
      <4> SUFFICES ASSUME n = i PROVE FALSE
        OBVIOUS
      <4>1. OpenPos(test, i) < UnlinkPos(test, i)
        <5>1. /\ OpenPos(test, i) < SendPos(test, i, 1) /\ SendPos(test, i, 1) < ClosePos(test, i)
              /\ ClosePos(test, i) < UnlinkPos(test, i)
          <6>1. 1 \in 1..Size(test)
            BY <1>1, TestNumbers
          <6> QED
            BY <1>1, <6>1, Layout
        <5>2. {OpenPos(test, i), SendPos(test, i, 1), ClosePos(test, i), UnlinkPos(test, i)} \subseteq Int
          <6>1. 1 \in 1..Size(test) /\ 1..Last_(test) - 1 \subseteq Int
            BY <1>1, TestNumbers
          <6> QED
            BY <1>1, <6>1, PositionsTyped
        <5> QED
          BY <5>1, <5>2
      <4>2. pc[1] < k /\ pc[1] \in Int
        <5>1. pc[1] \in Nat
          BY <1>1 DEF Bookkeeping, TestTyped
        <5> QED
          BY <1>2, <2>3, <4>1, <5>1
      <4> QED
        BY <1>5, <4>2 DEF Succeeded
    <3> QED
      BY <2>1, <2>3, <3>1 DEF IdsFrom, Unlinked
  <2> QED
    BY <2>2, <2>3, TrackedTrap
<1>6. CASE Succeeds(k)
  <2>1. ~Awaits(test, k)
    BY <1>1, <1>3, Ends
  <2>2. PICK n \in QueueIds(test) :
          /\ k = UnlinkPos(test, n) /\ RemovesQueue(n)
          /\ retvalue'[1] >= 0 /\ running = 1
    BY <1>6, <2>1 DEF Succeeds
  <2>3. n = i
    <3>1. Program[test][0][k] = Unlink(i) /\ Program[test][0][k] = Unlink(n)
      BY <1>1, <1>2, <2>2, InitCode
    <3> QED
      BY <3>1 DEF Unlink
  <2>4. ~Answers(FALSE)
    <3>1. ASSUME NEW code \in Int, retvalue' = [retvalue EXCEPT ![running] = code]
          PROVE  code >= 0
      BY <1>1, <2>2, <3>1
    <3> QED
      BY <3>1 DEF Answers
  <2>5. Answers(FALSE) \/ Unlinked(n)'
    BY <1>1, <2>2, TrackedUnlink
  <2> QED
    BY <2>3, <2>4, <2>5
<1> QED
  BY <1>4, <1>5, <1>6

LEMMA ReapedTrap ==
  ASSUME SysInv, Bookkeeping, Trap, NeverFaults', InitParks, ChildrenReaped
  PROVE  ChildrenReaped'
<1>1. test \in Tests /\ UNCHANGED <<test, pc>> /\ pc[1] \in Nat /\ Kids(test) \in Nat
  <2>1. Calling /\ UNCHANGED <<test, pc>>
    BY DEF Trap
  <2>2. test \in Tests /\ TestTyped /\ 1 \in Pcb
    BY <2>1, Callers, ProcessesAssumption DEF Pcb
  <2> QED
    BY <2>1, <2>2, TestNumbers DEF TestTyped
<1> DEFINE size == Cardinality(Family)
<1>2. /\ last_pid \in Int /\ last_pid' \in Int /\ size \in Int /\ size' \in Int
      /\ size' - last_pid' <= size - last_pid
      /\ \A k : Awaits(test, k) /\ Succeeds(k) => size' = size - 1 /\ last_pid' = last_pid
  BY TrapSize
<1>3. \A w : /\ Reaping(w) <=> size + w <= last_pid - 1
             /\ Reaping(w)' <=> size' + w <= last_pid' - 1
  BY DEF Reaping, Family
<1> HIDE DEF size
<1>4. ASSUME NEW w \in 0..Kids(test), Reaping(w)
      PROVE  Reaping(w)'
  <2>1. size + w <= last_pid - 1 /\ w \in Int
    BY <1>1, <1>3, <1>4
  <2>2. size' + w <= last_pid' - 1
    <3>1. ASSUME NEW a \in Int, NEW b \in Int, NEW c \in Int, NEW e \in Int,
                 b - e <= a - c, a + w <= c - 1
          PROVE  b + w <= e - 1
      BY <2>1, <3>1
    <3> QED
      BY <1>2, <2>1, <3>1
  <2> QED
    BY <1>3, <2>2
<1>5. ASSUME NEW w \in 0..Kids(test), w # 0, Succeeded(WaitPos(test, w))'
      PROVE  Reaping(w)'
  <2>1. w \in 1..Kids(test) /\ w \in Int
    BY <1>1, <1>5
  <2>2. /\ WaitPos(test, w) \in Nat
        /\ w > 1 => WaitPos(test, w - 1) < WaitPos(test, w)
    <3>1. WaitPos(test, w) \in 1..Last_(test) - 1 /\ Last_(test) \in Nat
      BY <1>1, <2>1, PositionsTyped, TestNumbers
    <3>2. WaitPos(test, 1) \in Nat
      BY <1>1, AfterWaits
    <3>3. \A u \in 1..Kids(test) : WaitPos(test, u) = WaitPos(test, 1) + (u - 1)
      BY <1>1, Layout
    <3>4. w > 1 => w - 1 \in 1..Kids(test)
      BY <1>1, <2>1
    <3>5. WaitPos(test, w) = WaitPos(test, 1) + (w - 1)
      BY <2>1, <3>3
    <3>6. w > 1 => WaitPos(test, w - 1) = WaitPos(test, 1) + (w - 2)
      BY <2>1, <3>3, <3>4
    <3> QED
      BY <2>1, <3>1, <3>2, <3>5, <3>6
  <2>3. PICK k \in Nat : k = WaitPos(test, w)
    BY <2>2
  <2>4. Succeeded(k)' /\ Awaits(test, k)
    <3>1. Succeeded(WaitPos(test, w))' <=> Succeeded(k)'
      BY <1>1, <2>3 DEF Succeeded, WaitPos, Filled
    <3> QED
      BY <1>5, <2>1, <2>3, <3>1 DEF Awaits
  <2>5. Succeeded(k) \/ Succeeds(k)
    BY <2>4, TrapDoes, InitMakesProgress, ChildMakesProgress
  <2>6. CASE Succeeded(k)
    BY <1>4, <1>5, <2>3, <2>6 DEF ChildrenReaped
  <2>7. CASE Succeeds(k)
    <3>1. w - 1 \in 0..Kids(test)
      BY <1>1, <2>1
    <3>2. w - 1 = 0 \/ Succeeded(WaitPos(test, w - 1))
      BY <2>1, <2>2, <2>3, <2>7 DEF Succeeds, Succeeded
    <3>3. Reaping(w - 1)
      BY <3>1, <3>2 DEF ChildrenReaped
    <3>4. size + (w - 1) <= last_pid - 1
      BY <1>3, <3>3
    <3>5. size' = size - 1 /\ last_pid' = last_pid
      BY <1>2, <2>4, <2>7
    <3> QED
      BY <1>2, <1>3, <2>1, <3>4, <3>5
  <2> QED
    BY <2>5, <2>6, <2>7
<1>6. ASSUME NEW w \in 0..Kids(test), w = 0
      PROVE  Reaping(w)'
  BY <1>4, <1>6 DEF ChildrenReaped
<1> QED
  BY <1>1, <1>5, <1>6 DEF ChildrenReaped

\* A step that moves nobody in his program and frees nothing.
LEMMA CleanStays ==
  ASSUME Goes, UNCHANGED <<mail, test, pcb_allocator, last_pid>>,
         \A k \in Nat : /\ Awaits(test, k) \/ Unlinks(test, k)
                        /\ Succeeded(k)'
                        => Succeeded(k)
  PROVE  /\ MailTracked'
         /\ UnlinkedGone => UnlinkedGone'
         /\ ChildrenReaped => ChildrenReaped'
<1>1. MailTracked' /\ UNCHANGED resources_list /\ test \in Tests
  BY TrackedSame DEF Goes, mail
<1>2. Kids(test) \in Nat /\ Last_(test) \in Nat
  BY <1>1, TestNumbers
<1> HIDE DEF Goes
<1>3. ASSUME UnlinkedGone, NEW i \in QueueIds(test), Succeeded(UnlinkPos(test, i))'
      PROVE  Unlinked(i)'
  <2>1. UnlinkPos(test, i) \in 1..Last_(test) - 1
    BY <1>1, PositionsTyped
  <2>2. PICK k \in Nat : k = UnlinkPos(test, i)
    BY <1>2, <2>1
  <2>3. Succeeded(UnlinkPos(test, i))' <=> Succeeded(k)'
    BY <2>2 DEF Succeeded, UnlinkPos, Filled
  <2>4. Succeeded(k)
    BY <1>3, <2>2, <2>3 DEF Unlinks
  <2> QED
    BY <1>1, <1>3, <2>2, <2>4 DEF UnlinkedGone, Unlinked
<1>4. ASSUME ChildrenReaped, NEW w \in 0..Kids(test), w = 0 \/ Succeeded(WaitPos(test, w))'
      PROVE  Reaping(w)'
  <2>1. w = 0 \/ Succeeded(WaitPos(test, w))
    <3>1. CASE w # 0
      <4>1. w \in 1..Kids(test)
        BY <1>2, <3>1
      <4>2. WaitPos(test, w) \in 1..Last_(test) - 1
        BY <1>1, <4>1, PositionsTyped
      <4>3. PICK k \in Nat : k = WaitPos(test, w)
        BY <1>2, <4>2
      <4>4. Succeeded(WaitPos(test, w))' <=> Succeeded(k)'
        BY <4>3 DEF Succeeded, WaitPos, Filled
      <4> QED
        BY <1>4, <3>1, <4>1, <4>3, <4>4 DEF Awaits
    <3> QED
      BY <3>1
  <2>2. Reaping(w)
    BY <1>4, <2>1 DEF ChildrenReaped
  <2> QED
    BY <2>2 DEF Reaping, LivePcbs, FreePcbs
<1> QED
  BY <1>1, <1>3, <1>4 DEF UnlinkedGone, ChildrenReaped

LEMMA CleanStep ==
  ASSUME SysInv, Bookkeeping, CleanInv, [TestNext]_allVars
  PROVE  CleanInv'
<1>1. MP!ItemsCounted'
  <2>1. MP!MessagesStep
    BY TestKeeps DEF StepKeeps
  <2> QED
    BY <2>1, MailAssumption, MP!ItemsStep DEF SysInv, MailSound, CleanInv
<1>2. SUFFICES ASSUME NeverFaults'
               PROVE  /\ MailTracked' /\ InitParks'
                      /\ ~failed' => UnlinkedGone' /\ ChildrenReaped'
  BY <1>1, <1>2 DEF CleanInv
<1>3. test \in Tests
  BY DEF Bookkeeping, TestTyped
<1>4. CASE Trap
  <2>1. NeverFaults
    BY <1>4, Callers DEF Trap
  <2>2. MailTracked /\ InitParks /\ (~failed => UnlinkedGone /\ ChildrenReaped)
    BY <2>1 DEF CleanInv
  <2>3. MailTracked'
    BY <1>2, <1>4, <2>2, TrackedTrap
  <2>4. InitParks'
    BY <1>2, <1>4, <2>2, TrapDoes, InitMakesProgress, ChildMakesProgress
  <2>5. ~failed' => ~failed
    BY <1>4 DEF Trap
  <2> QED
    BY <1>2, <1>4, <2>2, <2>3, <2>4, <2>5, UnlinkedTrap, ReapedTrap
<1>5. CASE Return
  <2>1. /\ Calling /\ UNCHANGED <<mail, test, pcb_allocator, last_pid>>
        /\ ~failed' => ~failed
    <3>1. Calling /\ UNCHANGED <<sysVars, test>>
      BY <1>5 DEF Return
    <3>2. ~failed' => ~failed
      BY <1>5 DEF Return
    <3> QED
      BY <3>1, <3>2 DEF sysVars, vars, family, allocators
  <2>2. NeverFaults
    BY <2>1, Callers
  <2>3. MailTracked /\ InitParks /\ (~failed => UnlinkedGone /\ ChildrenReaped)
    BY <2>2 DEF CleanInv
  <2>4. Goes
    <3>1. 1 \in Pcb
      BY ProcessesAssumption DEF Pcb
    <3>2. \A k \in Nat : Made(k) => Made(k)'
      BY <1>5, <3>1, ReturnMade DEF Made
    <3> QED
      BY <1>3, <2>1, <2>3, <3>2 DEF Goes, SysInv, MailSound
  <2>5. InitParks'
    BY <1>5, <2>3, ReturnParks
  <2>6. MailTracked'
    BY <2>1, <2>4, TrackedSame
  <2>7. ASSUME ~failed'
        PROVE  UnlinkedGone' /\ ChildrenReaped'
    <3>1. \A k \in Nat : /\ Awaits(test, k) \/ Unlinks(test, k)
                         /\ Succeeded(k)'
                         => Succeeded(k)
      BY <1>5, <2>7, ReturnSucceeded
    <3> QED
      BY <2>1, <2>3, <2>4, <2>7, <3>1, CleanStays
  <2> QED
    BY <2>5, <2>6, <2>7
<1>6. CASE (timer /\ UNCHANGED testVars) \/ UNCHANGED allVars
  <2>1. /\ NeverFaults /\ UNCHANGED <<mail, test, pc, in_call, pcb_allocator, last_pid>>
        /\ ~failed' => ~failed
    <3>1. CASE timer /\ UNCHANGED testVars
      <4>1. Inv /\ timerInterrupt /\ UNCHANGED mail
        BY <3>1 DEF SysInv, AlwaysInv, timer
      <4>2. Scheduled
        BY <1>2, <4>1, TimerShape
      <4>3. NeverFaults /\ UNCHANGED <<pcb_allocator, last_pid>>
        BY <1>2, <4>2 DEF Scheduled, NeverFaults, family, allocators
      <4> QED
        BY <3>1, <4>1, <4>3 DEF testVars
    <3>2. CASE UNCHANGED allVars
      <4>1. UNCHANGED <<sysVars, testVars>>
        BY <3>2 DEF allVars
      <4>2. UNCHANGED <<mail, pcb_allocator, last_pid, system>>
        BY <4>1 DEF sysVars, vars, family, allocators
      <4> QED
        BY <1>2, <4>1, <4>2 DEF testVars, NeverFaults
    <3> QED
      BY <1>6, <3>1, <3>2
  <2>2. MailTracked /\ InitParks /\ (~failed => UnlinkedGone /\ ChildrenReaped)
    BY <2>1 DEF CleanInv
  <2>3. Goes
    <3>1. \A k \in Nat : Made(k) => Made(k)'
      BY <2>1, SameMade DEF Made
    <3> QED
      BY <1>3, <2>1, <2>2, <3>1 DEF Goes, SysInv, MailSound
  <2>4. /\ InitParks'
        /\ \A k \in Nat : /\ Awaits(test, k) \/ Unlinks(test, k)
                          /\ Succeeded(k)'
                          => Succeeded(k)
    <3>1. CASE timer /\ UNCHANGED testVars
      <4>1. Inv /\ timerInterrupt
        BY <3>1 DEF SysInv, AlwaysInv, timer
      <4>2. Scheduled
        BY <1>2, <4>1, TimerShape
      <4> QED
        BY <1>3, <2>2, <3>1, <4>2, TimerSucceeded
    <3>2. CASE UNCHANGED allVars
      <4>1. UNCHANGED <<waiting_list, retvalue, syscall_num, test, pc, in_call>>
        <5>1. UNCHANGED <<sysVars, testVars>>
          BY <3>2 DEF allVars
        <5> QED
          BY <5>1 DEF sysVars, vars, lists, call, testVars
      <4>2. \A k \in Nat : Succeeded(k)' => Succeeded(k)
        BY <4>1 DEF Succeeded
      <4>3. InitParks'
        <5>1. ASSUME \E w \in 1..Kids(test) : pc[1] = WaitPos(test, w)
              PROVE  (\E w \in 1..Kids(test) : pc[1] = WaitPos(test, w))'
          BY <4>1, <5>1
        <5>2. ASSUME \E i \in QueueIds(test) : \E j \in 1..Size(test) : pc[1] = SendPos(test, i, j)
              PROVE  (\E i \in QueueIds(test) : \E j \in 1..Size(test) : pc[1] = SendPos(test, i, j))'
          BY <4>1, <5>2
        <5> QED
          BY <2>2, <4>1, <5>1, <5>2 DEF InitParks
      <4> QED
        BY <4>2, <4>3
    <3> QED
      BY <1>6, <3>1, <3>2
  <2> QED
    BY <2>1, <2>2, <2>3, <2>4, CleanStays
<1> QED
  BY <1>4, <1>5, <1>6 DEF TestNext, Step

LEMMA CleanInit == TestInit => CleanInv
<1> SUFFICES ASSUME TestInit PROVE CleanInv
  OBVIOUS
<1>1. /\ SysInit /\ Init /\ test \in Tests /\ pc = [b \in Pcb |-> 1] /\ in_call = {} /\ 1 \in Pcb
  BY ProcessesAssumption DEF TestInit, SysInit, Tests, Pcb
<1>2. /\ resources_list = [b \in {} |-> <<>>] /\ DOMAIN desc = {}
      /\ messages = [b \in MP!MqBlock |-> <<>>] /\ messages_allocator = MAX_NUM_MESSAGES
  BY <1>1 DEF SysInit, Mail!MqBlock, MP!MqBlock
<1>3. MP!ItemsCounted
  <2>1. MP!QueuedItems = {}
    BY <1>2 DEF MP!QueuedItems
  <2>2. messages_allocator \in Nat
    BY <1>1, SysInitSound DEF SysInv, MailSound, MP!MessagesTyped
  <2> QED
    BY <1>2, <2>1, <2>2, MailAssumption, MP!NoItems
<1>4. MailTracked
  BY <1>2 DEF MailTracked, QueuesOfTest, DescriptorsTracked, UnlistedEmpty
<1>5. InitParks
  BY <1>1 DEF Init, InitParks
<1>6. Kids(test) \in Nat \ {0} /\ Last_(test) \in Nat
  BY <1>1, TestNumbers
<1>7. \A k \in Nat \ {0} : ~Succeeded(k)
  BY <1>1 DEF Succeeded
<1>8. UnlinkedGone
  BY <1>2 DEF UnlinkedGone, Unlinked
<1>9. ChildrenReaped
  <2>1. ASSUME NEW w \in 0..Kids(test), w = 0 \/ Succeeded(WaitPos(test, w))
        PROVE  w = 0
    <3> SUFFICES ASSUME w # 0 PROVE FALSE
      OBVIOUS
    <3>1. w \in 1..Kids(test)
      BY <1>6
    <3>2. WaitPos(test, w) \in Nat \ {0}
      BY <1>1, <1>6, <3>1, PositionsTyped
    <3> QED
      BY <1>7, <2>1, <3>2
  <2>2. Reaping(0)
    <3>1. pcb_allocator = [i \in 1..MAX_NUM_PROCESSES - 1 |-> i + 1]
      BY <1>1 DEF Init
    <3>2. ASSUME NEW b \in Pcb \ {1} PROVE b \in Range(pcb_allocator)
      <4>1. b - 1 \in 1..MAX_NUM_PROCESSES - 1 /\ (b - 1) + 1 = b
        BY ProcessesAssumption DEF Pcb
      <4> QED
        BY <3>1, <4>1 DEF Range
    <3>3. LivePcbs \ {1} = {}
      BY <3>2 DEF LivePcbs, FreePcbs
    <3>4. Cardinality(LivePcbs \ {1}) = 0
      BY <3>3, FS_EmptySet
    <3>5. last_pid = 1
      BY <1>1 DEF Init
    <3> QED
      BY <3>4, <3>5 DEF Reaping
  <2> QED
    BY <2>1, <2>2 DEF ChildrenReaped
<1> QED
  BY <1>3, <1>4, <1>5, <1>8, <1>9 DEF CleanInv

\* When a program ends and no call has reported an error, its queues with their
\* descriptors and messages are gone, and of its processes only init and the
\* sleeper are left.
THEOREM CleanProgramsCleanUp == TestSpec => []CleanEnd
<1>1. ASSUME TestInv, CleanInv
      PROVE  CleanEnd
  <2>1. SUFFICES ASSUME system = "down", ~failed
                 PROVE  /\ resources_list = <<>> /\ desc = <<>>
                        /\ messages_allocator = MAX_NUM_MESSAGES
                        /\ \A b \in LivePcbs : pid[b] \in {0, 1}
    BY DEF CleanEnd
  <2>2. /\ SysInv /\ test \in Tests /\ PidsInOrder /\ CountersInRange
        /\ MailTracked /\ UnlinkedGone /\ ChildrenReaped /\ MP!ItemsCounted
    BY <1>1, <2>1 DEF TestInv, Bookkeeping, TestTyped, CleanInv, NeverFaults
  <2>3. pc[1] = Last_(test) /\ Last_(test) \in Nat
    <3>1. pc[1] \in 1..Last_(test) /\ Made(Last_(test)) /\ Last_(test) \in Nat
      BY <2>1, <2>2, TestNumbers DEF CountersInRange
    <3> QED
      BY <3>1 DEF Made, MadeBy
  <2>4. DOMAIN resources_list = {}
    <3> SUFFICES ASSUME NEW q \in DOMAIN resources_list PROVE FALSE
      OBVIOUS
    <3>1. resources_list[q].id \in QueueIds(test)
      BY <2>2 DEF MailTracked, QueuesOfTest
    <3>2. PICK i \in QueueIds(test) : resources_list[q].id = i
      BY <3>1
    <3>3. UnlinkPos(test, i) \in 1..Last_(test) - 1
      BY <2>2, PositionsTyped
    <3>4. Succeeded(UnlinkPos(test, i))
      BY <2>3, <3>3 DEF Succeeded
    <3> QED
      BY <2>2, <3>2, <3>4 DEF UnlinkedGone, Unlinked
  <2>5. DOMAIN desc = {}
    BY <2>2, <2>4 DEF MailTracked, DescriptorsTracked
  <2>6. messages_allocator = MAX_NUM_MESSAGES
    <3>1. MP!QueuedItems = {}
      BY <2>2, <2>4 DEF MailTracked, UnlistedEmpty, MP!QueuedItems
    <3>2. messages_allocator \in Nat
      BY <2>2 DEF SysInv, MailSound, MP!MessagesTyped
    <3> QED
      BY <2>2, <3>1, <3>2, MailAssumption, MP!NoItems
  <2>7. Kids(test) \in Nat \ {0}
    BY <2>2, TestNumbers
  <2>8. PICK s \in Pcb : pid[s] = 1 /\ s \in LivePcbs \ {1}
    <3>1. /\ 1 \in 1..Kids(test) + 1
          /\ SpawnPos(test, 1) \in 1..Last_(test) - 1
      <4>1. 1 \in 1..Kids(test) + 1
        BY <2>7
      <4> QED
        BY <2>2, <4>1, PositionsTyped
    <3>2. Made(SpawnPos(test, 1))
      BY <2>3, <3>1 DEF Made, MadeBy
    <3>3. 1 < last_pid /\ last_pid \in Int
      BY <2>2, <2>7, <3>1, <3>2 DEF PidsInOrder
    <3>4. 1 \in 1..last_pid - 1
      BY <3>3
    <3>5. PICK s \in Pcb : pid[s] = 1
      BY <2>2, <3>4 DEF PidsInOrder
    <3>6. ~Ended(s) /\ s # 1
      BY <2>2, <3>5 DEF CountersInRange, PidsInOrder
    <3> QED
      BY <3>5, <3>6 DEF Ended, LivePcbs
  <2>9. Cardinality(Family) <= 1
    <3>1. WaitPos(test, Kids(test)) \in 1..Last_(test) - 1 /\ Kids(test) \in 0..Kids(test)
      <4>1. Kids(test) \in 1..Kids(test) /\ Kids(test) \in 0..Kids(test)
        BY <2>7
      <4> QED
        BY <2>2, <4>1, PositionsTyped
    <3>2. Succeeded(WaitPos(test, Kids(test)))
      BY <2>3, <3>1 DEF Succeeded
    <3>3. Reaping(Kids(test))
      BY <2>2, <3>1, <3>2 DEF ChildrenReaped
    <3>4. Cardinality(Family) + Kids(test) <= last_pid - 1
      BY <3>3 DEF Reaping, Family
    <3>5. last_pid \in 1..Kids(test) + 2
      BY <2>2 DEF PidsInOrder
    <3>6. Cardinality(Family) \in Nat
      BY FamilySize
    <3> QED
      BY <2>7, <3>4, <3>5, <3>6
  <2>10. Family \ {s} = {}
    <3>1. Cardinality(Family \ {s}) = Cardinality(Family) - 1 /\ Cardinality(Family) \in Nat
      BY <2>8, FamilySize
    <3>2. IsFiniteSet(Family \ {s})
      BY FamilySize, FS_Subset
    <3>3. Cardinality(Family \ {s}) \in Nat
      BY <3>2, FS_CardinalityType
    <3>4. Cardinality(Family \ {s}) = 0
      BY <2>9, <3>1, <3>3
    <3> QED
      BY <3>2, <3>4, FS_EmptySet
  <2>11. pid[1] = 0 /\ \A b \in LivePcbs : b = 1 \/ b = s
    BY <2>2, <2>10 DEF PidsInOrder, Family
  <2>12. resources_list = <<>>
    <3>1. MP!ListTyped(resources_list)
      BY <2>2 DEF SysInv, MailSound, MP!BlocksSound
    <3> QED
      BY <2>4, <3>1 DEF MP!ListTyped
  <2>13. desc = <<>>
    BY <2>2, <2>5 DEF SysInv, MailSound, MP!BlocksSound, MP!FilesTyped
  <2> QED
    BY <2>6, <2>8, <2>11, <2>12, <2>13
<1>2. TestInit => TestInv /\ CleanInv
  BY BookInit, CleanInit DEF TestInv
<1>3. TestInv /\ CleanInv /\ [TestNext]_allVars => (TestInv /\ CleanInv)'
  <2>1. ASSUME TestInv, CleanInv, [TestNext]_allVars
        PROVE  (TestInv /\ CleanInv)'
    <3>1. Bookkeeping' /\ StepKeeps /\ CleanInv'
      BY <2>1, BookStep, TestKeeps, CleanStep DEF TestInv
    <3> QED
      BY <3>1 DEF TestInv, StepKeeps
  <2> QED
    BY <2>1
<1> QED
  BY <1>1, <1>2, <1>3, PTL DEF TestSpec

-----------------------------------------------------------------------------
(* Messages arrive in the order in which they are sent *)

\* init has made the send of m to the queue i, which may have failed.
Sent(i, m) == \E a \in 1..Size(test) : Made(SendPos(test, i, a)) /\ buf[i][a] = m

\* In the program t, x is sent to the queue i before y.
Sooner(t, i, x, y) ==
  \A a, c \in 1..Size(t) : buf[i][a] = x /\ buf[i][c] = y => a < c

\* Texts without the receives that found none, in the order they are sent.
Real(s)         == {j \in DOMAIN s : s[j] # Mail!NoMsg}
AllSent(i, s)   == \A j \in Real(s) : Sent(i, s[j])
Sorted(t, i, s) == \A j, k \in Real(s) : j < k => Sooner(t, i, s[j], s[k])
Before(t, i, s, u) == \A j \in Real(s), k \in DOMAIN u : Sooner(t, i, s[j], u[k])

\* What b has read, with the message it is about to read.
Got(b) ==
  IF b \in in_call /\ pc[b] \in 2..Size(test) + 1 THEN Append(read[b], syscall_arg1[b])
  ELSE read[b]

QueuesSorted ==
  \A q \in DOMAIN resources_list :
    /\ AllSent(resources_list[q].id, messages[q])
    /\ Sorted(test, resources_list[q].id, messages[q])
ReadsSorted ==
  \A b \in Pcb : pid[b] > 1 =>
    /\ AllSent(QueueId(b), Got(b)) /\ Sorted(test, QueueId(b), Got(b))
    /\ \A q \in DOMAIN resources_list :
         resources_list[q].id = QueueId(b) => Before(test, QueueId(b), Got(b), messages[q])
NothingYet ==
  \A b \in Pcb \ {1} : pid[b] < 2 => read[b] = <<>> /\ descriptors[b] = {}

\* A child's descriptors are of its queue; those of init have the fds that
\* disastrOS_test takes for granted, because its n-th open gets the n-th fd, or
\* none if all descriptors are in use.
FdsOfQueues ==
  /\ \A b \in Pcb : pid[b] > 1 =>
       \A d \in descriptors[b] : resources_list[desc[d].resource].id = QueueId(b)
  /\ test = "stress" =>
       \A d \in descriptors[1] : desc[d].fd = resources_list[desc[d].resource].id
NextFd ==
  test = "stress" =>
    \A i \in QueueIds(test) :
      /\ ~Made(OpenPos(test, i))
      /\ \A h \in QueueIds(test) : h < i => Made(OpenPos(test, h))
      => last_fd[1] = i \/ DOMAIN desc = MP!Desc

FlowInv  == QueuesSorted /\ ReadsSorted
FilesInv == NothingYet /\ FdsOfQueues /\ NextFd
OrderInv == NeverFaults => FlowInv /\ FilesInv

\* A message more, and one fewer.
LEMMA OneMore ==
  ASSUME NEW t, NEW i, NEW S, NEW s \in Seq(S), NEW x \in S
  PROVE  /\ AllSent(i, Append(s, x)) <=> AllSent(i, s) /\ (x # Mail!NoMsg => Sent(i, x))
         /\ Sorted(t, i, Append(s, x)) <=>
              /\ Sorted(t, i, s)
              /\ x # Mail!NoMsg => \A j \in Real(s) : Sooner(t, i, s[j], x)
         /\ \A u : Before(t, i, Append(s, x), u) <=>
              /\ Before(t, i, s, u)
              /\ x # Mail!NoMsg => \A k \in DOMAIN u : Sooner(t, i, x, u[k])
         /\ \A r : Before(t, i, r, Append(s, x)) <=>
              /\ Before(t, i, r, s)
              /\ \A j \in Real(r) : Sooner(t, i, r[j], x)
<1> DEFINE n  == Len(s) + 1
           sx == Append(s, x)
<1>1. /\ DOMAIN sx = DOMAIN s \cup {n} /\ sx[n] = x /\ \A j \in DOMAIN s : sx[j] = s[j]
      /\ n \notin DOMAIN s /\ n \in Int /\ \A j \in DOMAIN s : j \in Int /\ j < n
  <2>1. /\ DOMAIN s = 1..Len(s) /\ Len(s) \in Nat /\ DOMAIN sx = 1..Len(s) + 1
        /\ sx[n] = x /\ \A j \in 1..Len(s) : sx[j] = s[j]
    BY AppendProperties, LenProperties
  <2> QED
    BY <2>1
<1> HIDE DEF n, sx
<1>2. /\ x # Mail!NoMsg => Real(sx) = Real(s) \cup {n}
      /\ x = Mail!NoMsg => Real(sx) = Real(s)
  BY <1>1 DEF Real
<1>3. /\ Real(s) \subseteq DOMAIN s /\ \A j \in Real(s) : sx[j] = s[j]
      /\ \A j \in Real(s) : j < n /\ ~(n < j) /\ ~(n < n)
  BY <1>1 DEF Real
<1>4. AllSent(i, sx) <=> AllSent(i, s) /\ (x # Mail!NoMsg => Sent(i, x))
  BY <1>1, <1>2, <1>3, Zenon DEF AllSent
<1>5. Sorted(t, i, sx) <=>
        /\ Sorted(t, i, s)
        /\ x # Mail!NoMsg => \A j \in Real(s) : Sooner(t, i, s[j], x)
  <2>1. CASE x = Mail!NoMsg
    BY <1>2, <1>3, <2>1 DEF Sorted
  <2>2. CASE x # Mail!NoMsg
    <3>1. Real(sx) = Real(s) \cup {n}
      BY <1>2, <2>2
    <3> HIDE DEF Sooner
    <3>2. ASSUME Sorted(t, i, sx)
          PROVE  Sorted(t, i, s) /\ \A j \in Real(s) : Sooner(t, i, s[j], x)
      BY <1>1, <1>3, <3>1, <3>2 DEF Sorted
    <3>3. ASSUME Sorted(t, i, s), \A j \in Real(s) : Sooner(t, i, s[j], x)
          PROVE  Sorted(t, i, sx)
      BY <1>1, <1>3, <3>1, <3>3 DEF Sorted
    <3> QED
      BY <2>2, <3>2, <3>3
  <2> QED
    BY <2>1, <2>2
<1>6. \A u : Before(t, i, sx, u) <=>
        /\ Before(t, i, s, u)
        /\ x # Mail!NoMsg => \A k \in DOMAIN u : Sooner(t, i, x, u[k])
  <2>1. CASE x = Mail!NoMsg
    BY <1>2, <1>3, <2>1 DEF Before
  <2>2. CASE x # Mail!NoMsg
    <3>1. Real(sx) = Real(s) \cup {n}
      BY <1>2, <2>2
    <3> QED
      BY <1>1, <1>3, <2>2, <3>1 DEF Before
  <2> QED
    BY <2>1, <2>2
<1>7. \A r : Before(t, i, r, sx) <=>
        /\ Before(t, i, r, s)
        /\ \A j \in Real(r) : Sooner(t, i, r[j], x)
  BY <1>1 DEF Before
<1> QED
  BY <1>4, <1>5, <1>6, <1>7 DEF sx

LEMMA OneFewer ==
  ASSUME NEW t, NEW i, NEW u \in Seq(Msgs), u # <<>>
  PROVE  /\ Head(u) \in Msgs /\ Head(u) # Mail!NoMsg /\ Tail(u) \in Seq(Msgs)
         /\ AllSent(i, u) => AllSent(i, Tail(u)) /\ Sent(i, Head(u))
         /\ Sorted(t, i, u) =>
              /\ Sorted(t, i, Tail(u))
              /\ \A k \in DOMAIN Tail(u) : Sooner(t, i, Head(u), Tail(u)[k])
         /\ \A s : Before(t, i, s, u) =>
              /\ Before(t, i, s, Tail(u))
              /\ \A j \in Real(s) : Sooner(t, i, s[j], Head(u))
<1> DEFINE v == Tail(u)
           h == Head(u)
<1>1. /\ DOMAIN u = 1..Len(u) /\ Len(u) \in Nat /\ Len(u) > 0 /\ h = u[1] /\ v \in Seq(Msgs)
      /\ DOMAIN v = 1..Len(u) - 1 /\ \A k \in 1..Len(u) - 1 : v[k] = u[k + 1]
  BY HeadTailProperties, LenProperties, EmptySeq
<1> HIDE DEF v, h
<1>2. \A k \in DOMAIN u : u[k] \in Msgs /\ u[k] # Mail!NoMsg
  BY <1>1, ElementOfSeq, DisastrOSAssumption
<1>3. /\ 1 \in DOMAIN u /\ \A k \in DOMAIN v : v[k] = u[k + 1] /\ k + 1 \in DOMAIN u /\ 1 < k + 1
      /\ \A j, k \in DOMAIN v : j < k => j + 1 < k + 1
  BY <1>1
<1>4. Real(u) = DOMAIN u /\ Real(v) = DOMAIN v
  BY <1>2, <1>3 DEF Real
<1>5. AllSent(i, u) => AllSent(i, v) /\ Sent(i, h)
  BY <1>1, <1>3, <1>4 DEF AllSent
<1>6. Sorted(t, i, u) =>
        /\ Sorted(t, i, v)
        /\ \A k \in DOMAIN v : Sooner(t, i, h, v[k])
  BY <1>1, <1>3, <1>4 DEF Sorted
<1>7. \A s : Before(t, i, s, u) =>
        /\ Before(t, i, s, v)
        /\ \A j \in Real(s) : Sooner(t, i, s[j], h)
  BY <1>1, <1>3 DEF Before
<1> QED
  BY <1>1, <1>2, <1>3, <1>5, <1>6, <1>7 DEF v, h

\* A message that init sends comes after those it has sent.
LEMMA Newest ==
  ASSUME Bookkeeping, 1 \notin in_call, NEW i \in QueueIds(test), NEW j \in 1..Size(test),
         pc[1] = SendPos(test, i, j), NEW x, Sent(i, x)
  PROVE  Sooner(test, i, x, buf[i][j])
<1>1. test \in Tests
  BY DEF Bookkeeping, TestTyped
<1>2. PICK a \in 1..Size(test) : Made(SendPos(test, i, a)) /\ buf[i][a] = x
  BY DEF Sent
<1>3. \A c, d \in 1..Size(test) : buf[i][c] = buf[i][d] => c = d
  <2>1. /\ buf[i] \in Seq(Msgs) /\ IsInjective(buf[i])
        /\ \A c \in 1..Size(test) : c \in 1..Len(buf[i])
    BY <1>1, TestNumbers
  <2>2. \A c \in 1..Size(test) : c \in DOMAIN buf[i]
    BY <2>1, LenProperties
  <2> QED
    BY <2>1, <2>2 DEF IsInjective
<1>4. a < j
  <2>1. /\ Size(test) \in Nat
        /\ SendPos(test, i, a) \in Int /\ SendPos(test, i, j) \in Int
        /\ j < a => SendPos(test, i, j) < SendPos(test, i, a)
    <3>1. Size(test) \in Nat
      BY <1>1, TestNumbers
    <3>2. SendPos(test, i, a) \in 1..Last_(test) - 1 /\ SendPos(test, i, j) \in 1..Last_(test) - 1
      BY <1>1, PositionsTyped
    <3>3. j < a => SendPos(test, i, j) < SendPos(test, i, a)
      BY <1>1, Layout
    <3> QED
      BY <3>1, <3>2, <3>3
  <2>2. SendPos(test, i, a) < SendPos(test, i, j)
    BY <1>2 DEF Made, MadeBy
  <2>3. a # j /\ ~(j < a)
    BY <2>1, <2>2
  <2> QED
    BY <2>1, <2>3
<1> QED
  BY <1>2, <1>3, <1>4 DEF Sooner

LEMMA SentStays ==
  ASSUME Goes, NEW i \in QueueIds(test), NEW s, AllSent(i, s)
  PROVE  AllSent(i, s)'
<1>1. test \in Tests /\ UNCHANGED test /\ \A k \in Nat : Made(k) => Made(k)'
  BY DEF Goes
<1>2. ASSUME NEW x, Sent(i, x)
      PROVE  Sent(i, x)'
  <2>1. PICK a \in 1..Size(test) : Made(SendPos(test, i, a)) /\ buf[i][a] = x
    BY <1>2 DEF Sent
  <2>2. SendPos(test, i, a) \in 1..Last_(test) - 1 /\ Last_(test) \in Nat
    BY <1>1, PositionsTyped, TestNumbers
  <2>3. PICK k \in Nat : k = SendPos(test, i, a)
    BY <2>2
  <2>4. Made(k)'
    BY <1>1, <2>1, <2>3
  <2>5. (Made(SendPos(test, i, a)))'
    <3>1. SendPos(test, i, a)' = k
      BY <1>1, <2>3
    <3> QED
      BY <2>4, <3>1
  <2>6. a \in 1..Size(test)'
    BY <1>1
  <2> QED
    BY <2>1, <2>5, <2>6 DEF Sent
<1> QED
  BY <1>2 DEF AllSent

\* What a call on queues does to the second arguments, and what it leaves if it
\* faults.
ArgsStay == \A b \in Pcb \ {running} : syscall_arg1'[b] = syscall_arg1[b]

LEMMA MailArgs ==
  ASSUME Calling, NEW f, NEW i, NEW m, NEW mode,
         \/ mq_open(i, mode) \/ mq_close(f) \/ mq_unlink(i)
         \/ mq_send(f, m) \/ mq_receive(f)
  PROVE  /\ ArgsStay
         /\ ~NeverFaults' => UNCHANGED <<pid, mail>>
<1> USE DEF ArgsStay
<1>1. ASSUME NEW arg, Mail!SecondArg(arg)
      PROVE  ArgsStay
  BY <1>1 DEF Mail!SecondArg
<1>2. system = "up"
  BY DEF Calling, InUserCode
<1>3. ASSUME UNCHANGED system
      PROVE  NeverFaults'
  BY <1>2, <1>3 DEF NeverFaults
<1>4. ASSUME Mail!Crash
      PROVE  UNCHANGED syscall_arg1 /\ UNCHANGED mail
  BY <1>4 DEF Mail!Crash, Mail!mailVars, Mail!blocks, Mail!queues, Mail!files, mail
<1>5. ASSUME NEW num, Completes(num)
      PROVE  UNCHANGED pid
  BY <1>5 DEF Completes, family
<1>6. ASSUME NEW num, NEW arg, NEW code, Block(num, arg, code)
      PROVE  /\ ArgsStay
             /\ ~NeverFaults' => UNCHANGED <<pid, mail>>
  <2>1. UNCHANGED mail
    BY <1>6 DEF Block
  <2>2. CASE Crash /\ UNCHANGED syscall_arg1
    BY <2>1, <2>2 DEF Crash, Stop, family
  <2>3. CASE ParkCaller /\ Mail!SecondArg(arg)
    <3>1. UNCHANGED system
      BY <2>3 DEF ParkCaller, ParkOnTimer
    <3> QED
      BY <1>1, <1>3, <2>3, <3>1
  <2> QED
    BY <1>6, <2>2, <2>3 DEF Block
<1>7. CASE mq_open(i, mode)
  <2>1. UNCHANGED pid
    BY <1>5, <1>7 DEF mq_open
  <2>2. PICK k : Mail!Becomes(k)
    BY <1>7 DEF mq_open, Mail!internal_mqOpen
  <2>3. Mail!Crash \/ (Mail!SecondArg(Mail!NoMsg) /\ UNCHANGED system)
    BY <2>2 DEF Mail!Becomes
  <2> QED
    BY <1>1, <1>3, <1>4, <2>1, <2>3
<1>8. CASE mq_close(f)
  <2>1. UNCHANGED <<syscall_arg1, system>>
    BY <1>8 DEF mq_close, Mail!internal_closeResource
  <2> QED
    BY <1>3, <2>1
<1>9. CASE mq_unlink(i)
  <2>1. UNCHANGED <<syscall_arg1, system>>
    BY <1>9 DEF mq_unlink, Mail!internal_mqUnlink
  <2> QED
    BY <1>3, <2>1
<1>10. CASE mq_send(f, m)
  <2>1. CASE Mail!internal_mqSend(f, m) /\ Completes("mq_send")
    <3>1. Mail!Crash \/ (Mail!SecondArg(m) /\ UNCHANGED system)
      BY <2>1 DEF Mail!internal_mqSend
    <3>2. UNCHANGED pid
      BY <1>5, <2>1
    <3> QED
      BY <1>1, <1>3, <1>4, <3>1, <3>2
  <2> QED
    BY <1>6, <1>10, <2>1 DEF mq_send
<1>11. CASE mq_receive(f)
  <2>1. CASE Mail!internal_mqReceive(f) /\ Completes("mq_receive")
    <3>1. Mail!Crash \/ ((\E arg : Mail!SecondArg(arg)) /\ UNCHANGED system)
      BY <2>1 DEF Mail!internal_mqReceive
    <3>2. UNCHANGED pid
      BY <1>5, <2>1
    <3> QED
      BY <1>1, <1>3, <1>4, <3>1, <3>2
  <2> QED
    BY <1>6, <1>11, <2>1 DEF mq_receive
<1> QED
  BY <1>7, <1>8, <1>9, <1>10, <1>11

LEMMA ArgKept ==
  ASSUME SysInv, Bookkeeping, Trap
  PROVE  /\ ArgsStay
         /\ ~NeverFaults' => UNCHANGED <<pid, mail>>
<1> USE DEF ArgsStay
<1>1. Calling /\ Inv /\ system = "up" /\ 0 \in Pid
  <2>1. Calling
    BY DEF Trap
  <2>2. 0 \in Pid
    BY ProcessesAssumption DEF Pid
  <2> QED
    BY <2>1, <2>2, CallerFacts
<1>2. ASSUME NEW arg, Mail!SecondArg(arg)
      PROVE  ArgsStay
  BY <1>2 DEF Mail!SecondArg
<1>3. CASE spawn
  <2>1. /\ internal_spawn
        /\ IF system' # "up" THEN UNCHANGED <<syscall_arg1, mail>>
           ELSE Mail!SecondArg(Mail!NoMsg)
    BY <1>3 DEF spawn
  <2>2. Stopped \/ \E new \in FreePcbs : Spawned(new)
    BY <1>1, <2>1, NewProcessShape DEF internal_spawn
  <2>3. system' = "up" => NeverFaults'
    BY DEF NeverFaults
  <2>4. CASE Stopped
    BY <1>2, <2>1, <2>3, <2>4 DEF Stopped, family
  <2>5. CASE \E new \in FreePcbs : Spawned(new)
    <3>1. system' = "up"
      BY <1>1, <2>5 DEF Spawned
    <3> QED
      BY <1>2, <2>1, <2>3, <3>1
  <2> QED
    BY <2>2, <2>4, <2>5
<1>4. CASE exit
  <2>1. /\ internal_exit /\ UNCHANGED syscall_arg1
        /\ UNCHANGED pcb_allocator => UNCHANGED mail
    BY <1>4 DEF exit
  <2>2. Stopped \/ Collected \/ Zombied
    BY <1>1, <2>1, ExitShape
  <2>3. CASE Stopped
    BY <2>1, <2>3 DEF Stopped, family, allocators
  <2>4. CASE Collected \/ Zombied
    <3>1. UNCHANGED system
      BY <2>4 DEF Collected, Zombied
    <3> QED
      BY <1>1, <2>1, <3>1 DEF NeverFaults
  <2> QED
    BY <2>2, <2>3, <2>4
<1>5. CASE wait(0)
  <2>1. internal_wait(0) /\ Mail!SecondArg(Mail!NoMsg) /\ UNCHANGED mail
    BY <1>5 DEF wait
  <2>2. \/ Stopped \/ Refused(0) \/ Blocked(0)
        \/ \E child \in zombie_list : Reaped(0, child)
    BY <1>1, <2>1, WaitShape
  <2>3. UNCHANGED pid
    BY <2>2 DEF Stopped, Refused, Blocked, Reaped, family
  <2> QED
    BY <1>2, <2>1, <2>3
<1>6. CASE sleep(naps) \/ shutdown
  <2>1. UNCHANGED <<syscall_arg1, mail>>
    BY <1>6 DEF sleep, shutdown
  <2>2. UNCHANGED pid
    BY <1>6 DEF sleep, shutdown, internal_sleep, internal_shutdown, ParkOnTimer, family
  <2> QED
    BY <2>1, <2>2
<1>7. CASE running = 1 /\ InitCall
  <2>1. \/ spawn \/ wait(0) \/ shutdown
        \/ \E i \in QueueIds(test) :
             \/ mq_open(i, {Mail!CREATE}) \/ mq_close(InitFd(i)) \/ mq_unlink(i)
             \/ \E j \in 1..Size(test) : mq_send(InitFd(i), buf[i][j])
    BY <1>7 DEF InitCall
  <2>2. ASSUME NEW i \in QueueIds(test),
               mq_open(i, {Mail!CREATE}) \/ mq_close(InitFd(i)) \/ mq_unlink(i)
        PROVE  /\ ArgsStay
               /\ ~NeverFaults' => UNCHANGED <<pid, mail>>
    BY <1>1, <2>2, MailArgs
  <2>3. ASSUME NEW i \in QueueIds(test), NEW j \in 1..Size(test), mq_send(InitFd(i), buf[i][j])
        PROVE  /\ ArgsStay
               /\ ~NeverFaults' => UNCHANGED <<pid, mail>>
    BY <1>1, <2>3, MailArgs
  <2> QED
    BY <1>3, <1>5, <1>6, <2>1, <2>2, <2>3
<1>8. CASE running # 1 /\ CallOfChild(running)
  <2>1. ASSUME \/ mq_open(QueueId(running), {}) \/ mq_receive(fd[running])
               \/ mq_close(fd[running])
        PROVE  /\ ArgsStay
               /\ ~NeverFaults' => UNCHANGED <<pid, mail>>
    BY <1>1, <2>1, MailArgs
  <2> QED
    BY <1>4, <1>6, <1>8, <2>1 DEF CallOfChild
<1> QED
  BY <1>7, <1>8, TrapCalls

\* Where the texts of a child come from.
LEMMA ChildQueues ==
  ASSUME NeverFaults, Bookkeeping, pid \in [Pcb -> Pid], NEW b \in Pcb, pid[b] > 1
  PROVE  QueueId(b) \in QueueIds(test) /\ pid[b] \in 2..Kids(test) + 1
<1>1. test \in Tests /\ PidsInOrder
  BY DEF Bookkeeping, TestTyped
<1>2. Kids(test) \in Nat
  BY <1>1, TestNumbers
<1>3. pid[b] \in 2..Kids(test) + 1
  <2>1. pid[b] \in Nat
    BY ProcessesAssumption DEF Pid
  <2>2. pid[b] < last_pid /\ last_pid \in 1..Kids(test) + 2
    BY <1>1 DEF PidsInOrder
  <2> DEFINE p == pid[b]
  <2>3. p \in Nat /\ p > 1 /\ p < last_pid
    BY <2>1, <2>2
  <2> HIDE DEF p
  <2>4. p \in 2..Kids(test) + 1
    BY <1>2, <2>2, <2>3
  <2> QED
    BY <2>4 DEF p
<1> QED
  BY <1>1, <1>3, TestNumbers DEF QueueId

\* What a trap does to the pids, and to what has been read.
LEMMA PidsMove ==
  ASSUME SysInv, Bookkeeping, Trap, NeverFaults', NEW b \in Pcb
  PROVE  \/ pid'[b] = pid[b]
         \/ b # running /\ b # 1 /\ pid[b] < 2
<1>1. /\ Calling /\ NeverFaults /\ test \in Tests /\ PidsInOrder /\ running \notin in_call
      /\ pid \in [Pcb -> Pid] /\ pc \in [Pcb -> Nat \ {0}]
  <2>1. Calling /\ running \notin in_call
    BY DEF Trap
  <2>2. pid \in [Pcb -> Pid]
    BY DEF SysInv, AlwaysInv, Inv, StateTyped
  <2> QED
    BY <2>1, <2>2, Callers DEF TestTyped
<1>2. ASSUME NEW new \in FreePcbs, Spawned(new), running = 1,
             NEW p \in 1..Kids(test) + 1, pc[1] = SpawnPos(test, p), b = new
      PROVE  b # running /\ b # 1 /\ pid[b] < 2
  <2>1. b # 1 /\ b # running
    BY <1>2 DEF Spawned, LivePcbs
  <2>2. ~Made(WaitPos(test, 1))
    <3>1. Kids(test) \in Nat \ {0}
      BY <1>1, TestNumbers
    <3>2. 1 \in 1..Kids(test)
      BY <3>1
    <3>3. SpawnPos(test, p) < WaitPos(test, 1)
      BY <1>1, <3>2, Layout
    <3>4. SpawnPos(test, p) \in Int /\ WaitPos(test, 1) \in Int
      <4>1. SpawnPos(test, p) \in 1..Last_(test) - 1 /\ WaitPos(test, 1) \in 1..Last_(test) - 1
        BY <1>1, <3>2, PositionsTyped
      <4> QED
        BY <4>1
    <3> QED
      BY <1>1, <1>2, <3>3, <3>4 DEF Made, MadeBy
  <2>3. ~(pid[b] > 0)
    BY <1>1, <1>2, <2>2 DEF PidsInOrder
  <2>4. pid[b] \in Nat
    BY <1>1, ProcessesAssumption DEF Pid
  <2>5. pid[b] = 0
    <3> DEFINE p1 == pid[b]
    <3>1. p1 \in Nat /\ ~(p1 > 0)
      BY <2>3, <2>4
    <3> HIDE DEF p1
    <3>2. p1 = 0
      BY <3>1
    <3> QED
      BY <3>2 DEF p1
  <2> QED
    BY <2>1, <2>5
<1>3. ASSUME NEW new \in FreePcbs, Spawned(new), b # new
      PROVE  pid'[b] = pid[b]
  BY <1>3 DEF Spawned
<1>4. ASSUME \/ MailCall \/ Parked \/ Replied \/ Refused(0) \/ Blocked(0) \/ Collected \/ Zombied
             \/ \E child \in zombie_list : Reaped(0, child)
      PROVE  pid'[b] = pid[b]
  BY <1>4 DEF MailCall, Parked, Replied, Refused, Blocked, Collected, Zombied, Reaped, family
<1> QED
  BY <1>2, <1>3, <1>4, TrapKinds DEF TrapOfInit, TrapOfChild

LEMMA GotMoves ==
  ASSUME SysInv, Bookkeeping, Trap, NeverFaults', NothingYet
  PROVE  /\ \A b \in Pcb : /\ b # running
                           /\ pid'[b] > 1
                           => /\ (Got(b))' = Got(b)
                              /\ pid'[b] = pid[b] \/ Got(b) = <<>>
         /\ \A b \in Pcb : b = running =>
              /\ Got(b) = read[b]
              /\ (Got(b))' = IF pc[b] \in 2..Size(test) + 1
                           THEN Append(read[b], syscall_arg1'[b]) ELSE read[b]
<1>1. /\ running \notin in_call /\ in_call' = in_call \cup {running}
      /\ UNCHANGED <<test, pc, read>>
  BY DEF Trap
<1>2. ASSUME NEW b \in Pcb, b # running, pid'[b] > 1
      PROVE  /\ (Got(b))' = Got(b)
             /\ pid'[b] = pid[b] \/ Got(b) = <<>>
  <2>1. syscall_arg1'[b] = syscall_arg1[b]
    BY <1>2, ArgKept DEF ArgsStay
  <2>2. (Got(b))' = Got(b)
    BY <1>1, <1>2, <2>1 DEF Got
  <2>3. ASSUME b # 1, pid[b] < 2
        PROVE  Got(b) = <<>>
    <3>1. CountersInRange
      BY Callers DEF Trap
    <3>2. b \notin in_call /\ read[b] = <<>>
      BY <2>3, <3>1 DEF NothingYet, CountersInRange
    <3> QED
      BY <3>2 DEF Got
  <2> QED
    BY <2>2, <2>3, PidsMove
<1>3. ASSUME NEW b \in Pcb, b = running
      PROVE  /\ Got(b) = read[b]
             /\ (Got(b))' = IF pc[b] \in 2..Size(test) + 1
                          THEN Append(read[b], syscall_arg1'[b]) ELSE read[b]
  BY <1>1, <1>3 DEF Got
<1> QED
  BY <1>2, <1>3

\* The flow after a step, with the values of the new state named.
LEMMA FlowNext ==
  ASSUME UNCHANGED test,
         \A q \in DOMAIN resources_list' : \A i, s :
           i = resources_list'[q].id /\ s = messages'[q] =>
             AllSent(i, s)' /\ Sorted(test, i, s),
         \A b \in Pcb : \A i, g : pid'[b] > 1 /\ i = (QueueId(b))' /\ g = (Got(b))' =>
           /\ AllSent(i, g)' /\ Sorted(test, i, g)
           /\ \A q \in DOMAIN resources_list' : \A s :
                resources_list'[q].id = i /\ s = messages'[q] => Before(test, i, g, s)
  PROVE  FlowInv'
<1>1. ASSUME NEW q \in DOMAIN resources_list'
      PROVE  (/\ AllSent(resources_list[q].id, messages[q])
              /\ Sorted(test, resources_list[q].id, messages[q]))'
  <2>1. PICK i, s : i = resources_list'[q].id /\ s = messages'[q]
    OBVIOUS
  <2>2. AllSent(i, s)' /\ Sorted(test, i, s)
    BY <1>1, <2>1
  <2>3. AllSent(resources_list[q].id, messages[q])'
    BY <2>1, <2>2 DEF AllSent, Sent, Made, MadeBy
  <2>4. Sorted(test, resources_list[q].id, messages[q])'
    BY <2>1, <2>2
  <2> QED
    BY <2>3, <2>4
<1>2. ASSUME NEW b \in Pcb, pid'[b] > 1
      PROVE  (/\ AllSent(QueueId(b), Got(b)) /\ Sorted(test, QueueId(b), Got(b))
              /\ \A q \in DOMAIN resources_list :
                   resources_list[q].id = QueueId(b)
                   => Before(test, QueueId(b), Got(b), messages[q]))'
  <2>1. PICK i, g : i = (QueueId(b))' /\ g = (Got(b))'
    OBVIOUS
  <2>2. /\ AllSent(i, g)' /\ Sorted(test, i, g)
        /\ \A q \in DOMAIN resources_list' : \A s :
             resources_list'[q].id = i /\ s = messages'[q] => Before(test, i, g, s)
    BY <1>2, <2>1
  <2>3. AllSent(QueueId(b), Got(b))'
    BY <2>1, <2>2 DEF AllSent, Sent, Made, MadeBy
  <2>4. Sorted(test, QueueId(b), Got(b))'
    BY <2>1, <2>2
  <2>5. (\A q \in DOMAIN resources_list :
           resources_list[q].id = QueueId(b) => Before(test, QueueId(b), Got(b), messages[q]))'
    BY <2>1, <2>2
  <2> QED
    BY <2>3, <2>4, <2>5
<1> QED
  BY <1>1, <1>2 DEF FlowInv, QueuesSorted, ReadsSorted

Texts == Msgs \cup {Mail!NoMsg}
ChildrenQueued == \A b \in Pcb : pid[b] > 1 => QueueId(b) \in QueueIds(test)
SameFamily == UNCHANGED <<pid, test>>

\* A step in which nothing is sent and nothing is read.
LEMMA FlowShrinks ==
  ASSUME Goes, FlowInv, ChildrenQueued,
         \A q \in DOMAIN resources_list' :
           \/ messages'[q] = <<>>
           \/ /\ q \in DOMAIN resources_list
              /\ resources_list'[q].id = resources_list[q].id /\ messages'[q] = messages[q],
         \A b \in Pcb : pid'[b] > 1 =>
           \/ (Got(b))' = <<>>
           \/ pid'[b] = pid[b] /\ (Got(b))' = Got(b)
           \/ /\ pid'[b] = pid[b]
              /\ \E s \in Seq(Texts), x \in Texts : s = (Got(b))' /\ Got(b) = Append(s, x)
  PROVE  FlowInv'
<1>1. UNCHANGED test /\ QueuesOfTest
  BY DEF Goes, MailTracked
<1>2. \A i, u, s : /\ AllSent(i, <<>>)' /\ Sorted(test, i, <<>>)
                   /\ Before(test, i, <<>>, u) /\ Before(test, i, s, <<>>)
  BY DEF AllSent, Sorted, Before, Real
<1>3. ASSUME NEW q \in DOMAIN resources_list', NEW i, NEW s,
             i = resources_list'[q].id, s = messages'[q]
      PROVE  AllSent(i, s)' /\ Sorted(test, i, s)
  <2>1. CASE s = <<>>
    BY <1>2, <2>1
  <2>2. CASE /\ q \in DOMAIN resources_list
             /\ i = resources_list[q].id /\ s = messages[q]
    <3>1. i \in QueueIds(test)
      BY <1>1, <2>2 DEF QueuesOfTest
    <3>2. AllSent(i, s) /\ Sorted(test, i, s)
      BY <2>2 DEF FlowInv, QueuesSorted
    <3> QED
      BY <3>1, <3>2, SentStays
  <2> QED
    BY <1>3, <2>1, <2>2
<1>4. ASSUME NEW b \in Pcb, NEW i, NEW g, pid'[b] > 1, i = (QueueId(b))', g = (Got(b))'
      PROVE  /\ AllSent(i, g)' /\ Sorted(test, i, g)
             /\ \A q \in DOMAIN resources_list' : \A s :
                  resources_list'[q].id = i /\ s = messages'[q] => Before(test, i, g, s)
  <2>1. CASE g = <<>>
    BY <1>2, <2>1
  <2>2. CASE pid'[b] = pid[b] /\ \/ g = Got(b)
                                 \/ \E x \in Texts : g \in Seq(Texts) /\ Got(b) = Append(g, x)
    <3>1. i = QueueId(b) /\ pid[b] > 1
      BY <1>1, <1>4, <2>2 DEF QueueId
    <3>2. i \in QueueIds(test)
      BY <3>1 DEF ChildrenQueued
    <3> DEFINE All(s) == /\ AllSent(i, s) /\ Sorted(test, i, s)
                         /\ \A q \in DOMAIN resources_list :
                              resources_list[q].id = i => Before(test, i, s, messages[q])
    <3>3. All(Got(b))
      BY <3>1 DEF FlowInv, ReadsSorted
    <3>4. All(g)
      <4>1. ASSUME NEW x \in Texts, g \in Seq(Texts), Got(b) = Append(g, x)
            PROVE  All(g)
        <5>1. All(Append(g, x))
          BY <3>3, <4>1
        <5> QED
          BY <4>1, <5>1, OneMore
      <4> QED
        BY <2>2, <3>3, <4>1
    <3>5. AllSent(i, g)' /\ Sorted(test, i, g)
      BY <3>2, <3>4, SentStays
    <3>6. ASSUME NEW q \in DOMAIN resources_list', NEW s, resources_list'[q].id = i, s = messages'[q]
          PROVE  Before(test, i, g, s)
      <4> HIDE DEF All
      <4>1. CASE s = <<>>
        BY <1>2, <4>1
      <4>2. CASE /\ q \in DOMAIN resources_list
                 /\ i = resources_list[q].id /\ s = messages[q]
        BY <3>4, <4>2 DEF All
      <4> QED
        BY <3>6, <4>1, <4>2
    <3> QED
      BY <3>5, <3>6
  <2> QED
    BY <1>4, <2>1, <2>2
<1> QED
  BY <1>1, <1>3, <1>4, FlowNext

\* A send.
LEMMA FlowSend ==
  ASSUME Goes, FlowInv, ChildrenQueued, Bookkeeping, 1 \notin in_call,
         NEW i \in QueueIds(test), NEW j \in 1..Size(test), pc[1] = SendPos(test, i, j),
         (Made(SendPos(test, i, j)))', SameFamily, UNCHANGED resources_list,
         messages \in [MP!MqBlock -> Seq(Msgs)],
         NEW q0 \in DOMAIN resources_list, q0 \in MP!MqBlock, resources_list[q0].id = i,
         messages' = [messages EXCEPT ![q0] = Append(messages[q0], buf[i][j])],
         \A b \in Pcb : pid[b] > 1 => (Got(b))' = Got(b)
  PROVE  FlowInv'
<1> DEFINE m == buf[i][j]
<1>1. UNCHANGED test /\ QueuesOfTest /\ m \in Msgs /\ test \in Tests
  BY TestNumbers DEF Goes, MailTracked
<1>2. \A s : AllSent(i, s) => \A k \in Real(s) : Sooner(test, i, s[k], m)
  BY Newest DEF AllSent
<1>3. Sent(i, m)'
  <2>1. UNCHANGED test
    BY <1>1
  <2> QED
    BY <2>1 DEF Sent
<1> HIDE DEF m
<1>4. messages'[q0] = Append(messages[q0], m) /\ messages[q0] \in Seq(Msgs)
      /\ \A q \in DOMAIN resources_list : q # q0 => messages'[q] = messages[q]
  BY <1>1 DEF m, QueuesOfTest
<1>5. \A s \in Seq(Msgs) :
        /\ Sorted(test, i, Append(s, m)) <=>
             Sorted(test, i, s) /\ (m # Mail!NoMsg => \A k \in Real(s) : Sooner(test, i, s[k], m))
        /\ \A r : Before(test, i, r, Append(s, m)) <=>
             Before(test, i, r, s) /\ \A k \in Real(r) : Sooner(test, i, r[k], m)
  BY <1>1, OneMore
<1>6. ASSUME NEW q \in DOMAIN resources_list', NEW h, NEW s,
             h = resources_list'[q].id, s = messages'[q]
      PROVE  AllSent(h, s)' /\ Sorted(test, h, s)
  <2>1. h \in QueueIds(test) /\ h = resources_list[q].id /\ q \in DOMAIN resources_list
    BY <1>1, <1>6 DEF QueuesOfTest
  <2>2. AllSent(h, messages[q]) /\ Sorted(test, h, messages[q])
    BY <2>1 DEF FlowInv, QueuesSorted
  <2>3. PICK r : r = messages[q]
    OBVIOUS
  <2>4. AllSent(h, r)'
    BY <2>1, <2>2, <2>3, SentStays
  <2>5. CASE q # q0
    BY <1>4, <1>6, <2>1, <2>2, <2>3, <2>4, <2>5
  <2>6. CASE q = q0
    <3>1. h = i /\ s = Append(r, m) /\ r \in Seq(Msgs)
      BY <1>4, <1>6, <2>1, <2>3, <2>6
    <3>2. Sorted(test, h, s)
      BY <1>2, <1>5, <2>2, <2>3, <3>1
    <3>3. AllSent(h, s)'
      <4>1. \A k \in Real(s) : s[k] = m \/ (k \in Real(r) /\ s[k] = r[k])
        <5>1. /\ DOMAIN r = 1..Len(r) /\ Len(r) \in Nat /\ DOMAIN s = 1..Len(r) + 1
              /\ s[Len(r) + 1] = m /\ \A k \in 1..Len(r) : s[k] = r[k]
          BY <1>1, <3>1, AppendProperties, LenProperties
        <5> QED
          BY <5>1 DEF Real
      <4> QED
        BY <1>3, <2>4, <3>1, <4>1, Zenon DEF AllSent
    <3> QED
      BY <3>2, <3>3
  <2> QED
    BY <2>5, <2>6
<1>7. ASSUME NEW b \in Pcb, NEW h, NEW g, pid'[b] > 1, h = (QueueId(b))', g = (Got(b))'
      PROVE  /\ AllSent(h, g)' /\ Sorted(test, h, g)
             /\ \A q \in DOMAIN resources_list' : \A s :
                  resources_list'[q].id = h /\ s = messages'[q] => Before(test, h, g, s)
  <2>1. h = QueueId(b) /\ pid[b] > 1 /\ g = Got(b)
    BY <1>7 DEF QueueId, SameFamily
  <2>2. h \in QueueIds(test)
    BY <2>1 DEF ChildrenQueued
  <2>3. /\ AllSent(h, g) /\ Sorted(test, h, g)
        /\ \A q \in DOMAIN resources_list :
             resources_list[q].id = h => Before(test, h, g, messages[q])
    BY <2>1 DEF FlowInv, ReadsSorted
  <2>4. AllSent(h, g)'
    BY <2>2, <2>3, SentStays
  <2>5. ASSUME NEW q \in DOMAIN resources_list', NEW s, resources_list'[q].id = h, s = messages'[q]
        PROVE  Before(test, h, g, s)
    <3>1. q \in DOMAIN resources_list /\ resources_list[q].id = h
      BY <2>5
    <3>2. Before(test, h, g, messages[q])
      BY <2>3, <3>1
    <3>3. CASE q # q0
      BY <1>4, <2>5, <3>1, <3>2, <3>3
    <3>4. CASE q = q0
      <4>1. h = i /\ s = Append(messages[q0], m)
        BY <1>4, <2>5, <3>1, <3>4
      <4>2. \A k \in Real(g) : Sooner(test, i, g[k], m)
        BY <1>2, <2>3, <4>1
      <4> QED
        BY <1>4, <1>5, <3>2, <3>4, <4>1, <4>2
    <3> QED
      BY <3>3, <3>4
  <2> QED
    BY <2>3, <2>4, <2>5
<1> QED
  BY <1>1, <1>6, <1>7, FlowNext

\* A receive by the child c: it gets the oldest message of its queue, or none.
LEMMA FlowReceive ==
  ASSUME Goes, FlowInv, ChildrenQueued, SameFamily, UNCHANGED resources_list,
         messages \in [MP!MqBlock -> Seq(Msgs)],
         NEW c \in Pcb, pid[c] > 1, NEW x \in Texts, Got(c) \in Seq(Texts),
         (Got(c))' = Append(Got(c), x),
         \A b \in Pcb \ {c} : pid[b] > 1 => (Got(b))' = Got(b),
         \/ x = Mail!NoMsg /\ UNCHANGED messages
         \/ \E q0 \in DOMAIN resources_list :
              /\ q0 \in MP!MqBlock /\ resources_list[q0].id = QueueId(c)
              /\ messages[q0] # <<>> /\ x = Head(messages[q0])
              /\ messages' = [messages EXCEPT ![q0] = Tail(messages[q0])]
  PROVE  FlowInv'
<1>1. UNCHANGED test /\ QueuesOfTest
  BY DEF Goes, MailTracked
<1>2. \A q \in MP!MqBlock : messages[q] # <<>> =>
        LET u == messages[q]
            v == Tail(u)
            h == Head(u)
        IN  /\ h \in Msgs /\ h # Mail!NoMsg
            /\ \A i : /\ AllSent(i, u) => AllSent(i, v) /\ Sent(i, h)
                      /\ Sorted(test, i, u) =>
                           /\ Sorted(test, i, v)
                           /\ \A k \in DOMAIN v : Sooner(test, i, h, v[k])
                      /\ \A s : Before(test, i, s, u) =>
                           /\ Before(test, i, s, v)
                           /\ \A j \in Real(s) : Sooner(test, i, s[j], h)
  BY OneFewer
<1>3. \A q \in DOMAIN resources_list :
        \/ messages'[q] = messages[q]
        \/ /\ messages[q] # <<>> /\ q \in MP!MqBlock
           /\ messages'[q] = Tail(messages[q])
  BY <1>1 DEF QueuesOfTest
<1>4. ASSUME NEW q \in DOMAIN resources_list', NEW i, NEW s,
             i = resources_list'[q].id, s = messages'[q]
      PROVE  AllSent(i, s)' /\ Sorted(test, i, s)
  <2>1. i \in QueueIds(test) /\ i = resources_list[q].id /\ q \in DOMAIN resources_list
    BY <1>1, <1>4 DEF QueuesOfTest
  <2>2. AllSent(i, messages[q]) /\ Sorted(test, i, messages[q])
    BY <2>1 DEF FlowInv, QueuesSorted
  <2>3. AllSent(i, s) /\ Sorted(test, i, s)
    BY <1>2, <1>3, <1>4, <2>1, <2>2
  <2> QED
    BY <2>1, <2>3, SentStays
<1>5. ASSUME NEW b \in Pcb, NEW i, NEW g, pid'[b] > 1, i = (QueueId(b))', g = (Got(b))'
      PROVE  /\ AllSent(i, g)' /\ Sorted(test, i, g)
             /\ \A q \in DOMAIN resources_list' : \A s :
                  resources_list'[q].id = i /\ s = messages'[q] => Before(test, i, g, s)
  <2>1. i = QueueId(b) /\ pid[b] > 1 /\ i \in QueueIds(test)
    BY <1>5 DEF QueueId, SameFamily, ChildrenQueued
  <2> DEFINE All(s) == /\ AllSent(i, s) /\ Sorted(test, i, s)
                       /\ \A q \in DOMAIN resources_list :
                            resources_list[q].id = i => Before(test, i, s, messages[q])
  <2>2. All(Got(b))
    BY <2>1 DEF FlowInv, ReadsSorted
  <2>3. AllSent(i, g) /\ Sorted(test, i, g)
    <3>1. CASE b # c
      BY <1>5, <2>1, <2>2, <3>1
    <3>2. CASE b = c
      <4>1. /\ AllSent(i, Append(Got(c), x)) <=>
                 AllSent(i, Got(c)) /\ (x # Mail!NoMsg => Sent(i, x))
            /\ Sorted(test, i, Append(Got(c), x)) <=>
                 /\ Sorted(test, i, Got(c))
                 /\ x # Mail!NoMsg => \A j \in Real(Got(c)) : Sooner(test, i, Got(c)[j], x)
        BY OneMore
      <4>2. x # Mail!NoMsg => Sent(i, x) /\ \A j \in Real(Got(c)) : Sooner(test, i, Got(c)[j], x)
        <5> SUFFICES ASSUME x # Mail!NoMsg
                     PROVE  Sent(i, x) /\ \A j \in Real(Got(c)) : Sooner(test, i, Got(c)[j], x)
          OBVIOUS
        <5>1. PICK q0 \in DOMAIN resources_list :
                /\ q0 \in MP!MqBlock /\ resources_list[q0].id = i
                /\ messages[q0] # <<>> /\ x = Head(messages[q0])
          BY <2>1, <3>2
        <5>2. AllSent(i, messages[q0]) /\ Before(test, i, Got(c), messages[q0])
          BY <2>2, <3>2, <5>1 DEF FlowInv, QueuesSorted
        <5> QED
          BY <1>2, <5>1, <5>2
      <4> QED
        BY <1>5, <2>2, <3>2, <4>1, <4>2
    <3> QED
      BY <3>1, <3>2
  <2>4. ASSUME NEW q \in DOMAIN resources_list', NEW s, resources_list'[q].id = i, s = messages'[q]
        PROVE  Before(test, i, g, s)
    <3>1. /\ q \in DOMAIN resources_list /\ resources_list[q].id = i
          /\ Sorted(test, i, messages[q]) /\ Before(test, i, Got(b), messages[q])
      BY <2>2, <2>4 DEF FlowInv, QueuesSorted
    <3>2. Before(test, i, Got(b), s)
      BY <1>2, <1>3, <2>4, <3>1
    <3>3. CASE b # c
      BY <1>5, <2>1, <3>2, <3>3
    <3>4. CASE b = c
      <4>1. Before(test, i, Append(Got(c), x), s) <=>
              /\ Before(test, i, Got(c), s)
              /\ x # Mail!NoMsg => \A k \in DOMAIN s : Sooner(test, i, x, s[k])
        BY OneMore
      <4>2. x # Mail!NoMsg => \A k \in DOMAIN s : Sooner(test, i, x, s[k])
        <5> SUFFICES ASSUME x # Mail!NoMsg
                     PROVE  \A k \in DOMAIN s : Sooner(test, i, x, s[k])
          OBVIOUS
        <5>1. PICK q0 \in DOMAIN resources_list :
                /\ q0 \in MP!MqBlock /\ resources_list[q0].id = i
                /\ messages[q0] # <<>> /\ x = Head(messages[q0])
                /\ messages' = [messages EXCEPT ![q0] = Tail(messages[q0])]
          BY <2>1, <3>4
        <5>2. q = q0
          BY <3>1, <5>1 DEF Goes, MP!BlocksSound, MP!Placed
        <5>3. s = Tail(messages[q])
          BY <2>4, <5>1, <5>2
        <5> QED
          BY <1>2, <3>1, <5>1, <5>2, <5>3
      <4> QED
        BY <1>5, <3>2, <3>4, <4>1, <4>2
    <3> QED
      BY <3>3, <3>4
  <2> QED
    BY <2>1, <2>3, <2>4, SentStays
<1> QED
  BY <1>1, <1>4, <1>5, FlowNext

\* The list with a new queue.
LEMMA ListedQueue ==
  ASSUME Goes, NEW i \in QueueIds(test), NEW q \in MP!MqBlock \ DOMAIN resources_list,
         \A r \in DOMAIN resources_list : resources_list[r].id # i
  PROVE  MP!ListTyped(MP!Insert(resources_list, q, i, MP!DSOS_MQ))
<1>1. i \in Ids /\ MP!DSOS_MQ \in {MP!DSOS_MQ, MP!PLAIN} /\ MP!ById(resources_list, i) = {}
  BY TestNumbers DEF Goes, MP!ById
<1>2. /\ MP!ListTyped(resources_list) /\ q \in MP!Block_ /\ q \notin DOMAIN resources_list
      /\ \A c, e \in DOMAIN resources_list :
           resources_list[c].id = resources_list[e].id => c = e
  BY DEF Goes, MP!BlocksSound, MP!Placed, MP!Block_
<1> QED
  BY <1>1, <1>2, MailAssumption, MP!InsertKeeps

\* The descriptors that stay name the queues they named, and one may be added by
\* an open of the queue i.
Kept ==
  \A d \in DOMAIN desc \cap DOMAIN desc' :
    /\ desc'[d] = desc[d]
    /\ resources_list'[desc[d].resource].id = resources_list[desc[d].resource].id
FdsStay == \A b \in Pcb : descriptors'[b] \subseteq descriptors[b]
FdMade(i) ==
  \A b \in Pcb : \A d \in descriptors'[b] :
    \/ d \in descriptors[b]
    \/ /\ b = running /\ d \notin DOMAIN desc
       /\ desc'[d].fd = last_fd[running] /\ resources_list'[desc'[d].resource].id = i

LEMMA FilesOpened ==
  ASSUME Goes, MP!FdsSound, NEW list, MP!ListTyped(list),
         \A q \in DOMAIN resources_list : q \in DOMAIN list /\ list[q] = resources_list[q]
  PROVE  /\ NoFileMade(list) => Kept /\ FdsStay
         /\ \A i : (\E q \in DOMAIN list, d \in MP!Desc :
                      list[q].id = i /\ FileMade(list, q, d)) => Kept /\ FdMade(i)
<1>1. DescriptorsTracked /\ descriptors \in [Pcb -> SUBSET MP!Desc]
  BY DEF Goes, MailTracked, MP!FdsSound
<1>2. ASSUME NoFileMade(list)
      PROVE  Kept /\ FdsStay
  BY <1>1, <1>2 DEF NoFileMade, Kept, FdsStay, DescriptorsTracked
<1>3. ASSUME NEW q \in DOMAIN list, NEW d \in MP!Desc, FileMade(list, q, d)
      PROVE  Kept /\ FdMade(list[q].id)
  <2>1. \A x \in DOMAIN list : resources_list'[x].id = list[x].id
    BY <1>3, FileIs
  <2>2. /\ d \notin DOMAIN desc /\ DOMAIN desc' = DOMAIN desc \cup {d}
        /\ desc'[d].fd = last_fd[running] /\ desc'[d].resource = q
        /\ \A x \in DOMAIN desc : desc'[x] = desc[x]
    BY <1>3 DEF FileMade
  <2>3. Kept
    BY <1>1, <2>1, <2>2 DEF Kept, DescriptorsTracked
  <2>4. \A b \in Pcb : \A e \in descriptors'[b] : e \in descriptors[b] \/ (b = running /\ e = d)
    BY <1>1, <1>3 DEF FileMade
  <2>5. FdMade(list[q].id)
    BY <2>1, <2>2, <2>4 DEF FdMade
  <2> QED
    BY <2>3, <2>5
<1> QED
  BY <1>2, <1>3

LEMMA FilesReleased ==
  ASSUME Goes, MP!FdsSound, NEW ds, Gone(ds)
  PROVE  Kept /\ FdsStay
<1>1. DescriptorsTracked /\ descriptors \in [Pcb -> SUBSET MP!Desc] /\ MP!ListTyped(resources_list)
  BY DEF Goes, MailTracked, MP!FdsSound, MP!BlocksSound
<1>2. \A q \in DOMAIN resources_list : resources_list'[q].id = resources_list[q].id
  BY <1>1 DEF Gone, MP!ListTyped, MP!Resource
<1>3. \A d \in DOMAIN desc' : desc'[d] = desc[d]
  BY DEF Gone
<1>4. FdsStay
  BY <1>1 DEF Gone, FdsStay
<1> QED
  BY <1>1, <1>2, <1>3, <1>4 DEF Kept, DescriptorsTracked

LEMMA FilesUnlinked ==
  ASSUME Goes, NEW i, RemovesQueue(i)
  PROVE  Kept /\ FdsStay
<1>1. DescriptorsTracked
  BY DEF Goes, MailTracked
<1>2. CASE UNCHANGED mail
  BY <1>2 DEF mail, Kept, FdsStay
<1>3. ASSUME NEW q \in DOMAIN resources_list, resources_list[q].opened = {}, QueueGone(q)
      PROVE  Kept /\ FdsStay
  <2>1. \A d \in DOMAIN desc : desc[d].resource \in DOMAIN resources_list \ {q}
    BY <1>1, <1>3 DEF DescriptorsTracked
  <2> QED
    BY <1>3, <2>1 DEF QueueGone, Kept, FdsStay
<1> QED
  BY <1>2, <1>3 DEF RemovesQueue, Refuses

LEMMA FilesSame ==
  ASSUME UNCHANGED mail \/ SameFiles
  PROVE  Kept /\ FdsStay
<1>1. UNCHANGED <<resources_list, desc, descriptors>>
  BY DEF mail, SameFiles
<1> QED
  BY <1>1 DEF Kept, FdsStay

LEMMA FilesMove ==
  ASSUME SysInv, Bookkeeping, Trap, NeverFaults', MailTracked
  PROVE  /\ Kept
         /\ \/ FdsStay
            \/ running # 1 /\ FdMade(QueueId(running))
            \/ running = 1 /\ \E i \in QueueIds(test) : pc[1] = OpenPos(test, i) /\ FdMade(i)
<1>1. Goes /\ MP!FdsSound /\ test \in Tests
  <2>1. Calling
    BY DEF Trap
  <2> QED
    BY <2>1, Callers, GoesOn DEF SysInv, MailSound
<1>2. MP!ListTyped(resources_list)
  BY <1>1 DEF Goes, MP!BlocksSound
<1> HIDE DEF Goes
<1>3. ASSUME NEW i, FindsQueue(i)
      PROVE  Kept /\ (FdsStay \/ FdMade(i))
  BY <1>1, <1>2, <1>3, FilesOpened, FilesSame DEF FindsQueue, Refuses
<1>4. ASSUME NEW i \in QueueIds(test), MakesQueue(i)
      PROVE  Kept /\ (FdsStay \/ FdMade(i))
  <2>1. CASE UNCHANGED mail
    BY <2>1, FilesSame
  <2>2. ASSUME NEW q \in MP!MqBlock \ DOMAIN resources_list,
               \A r \in DOMAIN resources_list : resources_list[r].id # i,
               LET list == MP!Insert(resources_list, q, i, MP!DSOS_MQ) IN
               \/ NoFileMade(list)
               \/ \E d \in MP!Desc : FileMade(list, q, d)
        PROVE  Kept /\ (FdsStay \/ FdMade(i))
    <3> DEFINE list == MP!Insert(resources_list, q, i, MP!DSOS_MQ)
    <3>1. MP!ListTyped(list)
      BY <1>1, <2>2, ListedQueue
    <3>2. /\ q \in DOMAIN list /\ list[q].id = i
          /\ \A x \in DOMAIN resources_list : x \in DOMAIN list /\ list[x] = resources_list[x]
      BY <2>2 DEF MP!Insert
    <3>3. NoFileMade(list) \/ \E d \in MP!Desc : FileMade(list, q, d)
      BY <2>2
    <3> HIDE DEF list
    <3> QED
      BY <1>1, <3>1, <3>2, <3>3, FilesOpened
  <2> QED
    BY <1>4, <2>1, <2>2 DEF MakesQueue, Refuses
<1>5. ASSUME NEW f, ClosesFile(f)
      PROVE  Kept /\ FdsStay
  BY <1>1, <1>5, FilesReleased, FilesSame DEF ClosesFile, Refuses
<1>6. ASSUME NEW f, NEW m, PutsMessage(f, m) \/ TakesMessage(f)
      PROVE  Kept /\ FdsStay
  BY <1>6, FilesSame DEF PutsMessage, TakesMessage, Refuses
<1>7. ASSUME NEW b \in FreePcbs, FreshMail(b)
      PROVE  Kept /\ FdsStay
  <2>1. descriptors \in [Pcb -> SUBSET MP!Desc]
    BY <1>1 DEF MP!FdsSound
  <2> QED
    BY <1>7, <2>1 DEF FreshMail, Kept, FdsStay
<1>8. CASE running = 1 /\ InitEffect
  BY <1>1, <1>4, <1>5, <1>6, <1>7, <1>8, FilesSame, FilesUnlinked DEF InitEffect, SpawnEffect, WaitEffect
<1>9. CASE running # 1 /\ ChildEffect(running)
  BY <1>1, <1>3, <1>5, <1>6, <1>9, FilesSame, FilesReleased DEF ChildEffect, ExitEffect
<1> QED
  BY <1>8, <1>9, TrapDoes

\* When all opens are made, it does not matter which fd is next.
AllOpened == \A i \in QueueIds(test) : Made(OpenPos(test, i))

LEMMA OpensFirst ==
  ASSUME SysInv, Bookkeeping, Calling, running \notin in_call, test = "stress",
         running # 1 \/ \E i \in QueueIds(test) : pc[1] = ClosePos(test, i)
  PROVE  AllOpened
<1>1. /\ test \in Tests /\ PidsInOrder /\ 1 \in Int
      /\ running # 1 => pid[running] \in 2..Kids(test) + 1
  BY Callers
<1>2. \A i \in QueueIds(test) : OpenPos(test, i) \in Int
  BY <1>1, PositionsTyped
<1>3. ASSUME NEW k \in Int, \A i \in QueueIds(test) : OpenPos(test, i) < k,
             k < pc[1] \/ k = pc[1]
      PROVE  AllOpened
  <2>1. pc[1] \in Int
    <3>1. 1 \in Pcb
      BY ProcessesAssumption DEF Pcb
    <3> QED
      BY <3>1 DEF Bookkeeping, TestTyped
  <2>2. \A i \in QueueIds(test) : OpenPos(test, i) < pc[1]
    BY <1>2, <1>3, <2>1
  <2> QED
    BY <2>2 DEF AllOpened, Made, MadeBy
<1>4. CASE running # 1
  <2>1. Kids(test) \in Nat \ {0} /\ last_pid \in Int
    <3>1. last_pid \in 1..Kids(test) + 2 /\ Kids(test) \in Nat \ {0}
      BY <1>1, TestNumbers DEF PidsInOrder
    <3> QED
      BY <3>1
  <2>2. 2 \in 1..Kids(test) + 1 /\ 2 \in 2..Kids(test) + 1
    BY <2>1
  <2>3. 2 < last_pid
    <3>1. running \in Pcb
      BY Callers
    <3>2. pid[running] < last_pid /\ pid[running] \in 2..Kids(test) + 1
      BY <1>1, <1>4, <3>1 DEF PidsInOrder
    <3> QED
      BY <2>1, <3>2
  <2>4. Made(SpawnPos(test, 2))
    BY <1>1, <2>2, <2>3 DEF PidsInOrder
  <2>5. \A i \in QueueIds(test) : OpenPos(test, i) < SpawnPos(test, 2)
    BY <1>1, <2>2, Layout
  <2>6. SpawnPos(test, 2) \in Int
    <3>1. SpawnPos(test, 2) \in 1..Last_(test) - 1
      BY <1>1, <2>2, PositionsTyped
    <3> QED
      BY <3>1
  <2> QED
    BY <1>3, <2>4, <2>5, <2>6 DEF Made, MadeBy
<1>5. CASE \E h \in QueueIds(test) : pc[1] = ClosePos(test, h)
  <2>1. PICK h \in QueueIds(test) : pc[1] = ClosePos(test, h)
    BY <1>5
  <2>2. \A i \in QueueIds(test) : OpenPos(test, i) < ClosePos(test, h)
    BY <1>1, Layout
  <2>3. ClosePos(test, h) \in Int
    <3>1. ClosePos(test, h) \in 1..Last_(test) - 1
      BY <1>1, PositionsTyped
    <3> QED
      BY <3>1
  <2> QED
    BY <1>3, <2>1, <2>2, <2>3
<1> QED
  BY <1>4, <1>5

\* What a trap does to the next fd of init.
LEMMA NextFdMove ==
  ASSUME SysInv, Bookkeeping, Trap, NeverFaults', MailTracked, test = "stress"
  PROVE  \/ AllOpened
         \/ /\ last_fd'[1] = last_fd[1] /\ (DOMAIN desc = MP!Desc => DOMAIN desc' = MP!Desc)
            /\ running = 1 => \A i \in QueueIds(test) : pc[1] # OpenPos(test, i)
         \/ /\ running = 1 /\ \E i \in QueueIds(test) : pc[1] = OpenPos(test, i)
            /\ \/ DOMAIN desc' = MP!Desc
               \/ last_fd'[1] = last_fd[1] + 1 /\ DOMAIN desc # MP!Desc
<1> DEFINE Stays == last_fd'[1] = last_fd[1] /\ (DOMAIN desc = MP!Desc => DOMAIN desc' = MP!Desc)
           Opens == \E i \in QueueIds(test) : pc[1] = OpenPos(test, i)
           op    == Program[test][0][pc[1]].op
<1>1. /\ Calling /\ running \notin in_call /\ 1 \in Pcb /\ test \in Tests
      /\ last_fd \in [Pcb -> 0..MaxFd + 1]
  <2>1. Calling /\ running \notin in_call
    BY DEF Trap
  <2>2. 1 \in Pcb
    BY ProcessesAssumption DEF Pcb
  <2> QED
    BY <2>1, <2>2, Callers DEF SysInv, MailSound, MP!FdsSound
<1>2. CASE running # 1
  BY <1>1, <1>2, OpensFirst
<1>3. Opens => op = "mq_open"
  BY <1>1, InitOps
<1>4. CASE running = 1 /\ InitEffect
  <2>1. ASSUME NEW p \in 1..Kids(test) + 1, pc[1] = SpawnPos(test, p), SpawnEffect
        PROVE  Stays /\ ~Opens
    <3>1. op = "spawn"
      BY <1>1, <2>1, InitOps
    <3>2. PICK b \in FreePcbs : FreshMail(b)
      BY <2>1 DEF SpawnEffect
    <3>3. b # 1
      BY <1>1, <1>4, CallerFacts, <3>2 DEF LivePcbs
    <3>4. Stays
      BY <1>1, <3>2, <3>3 DEF FreshMail
    <3> QED
      BY <1>3, <3>1, <3>4
  <2>2. ASSUME UNCHANGED mail \/ SameFiles
        PROVE  Stays
    BY <2>2 DEF mail, SameFiles
  <2>3. ASSUME NEW i \in QueueIds(test), pc[1] = ClosePos(test, i)
        PROVE  AllOpened
    BY <1>1, <2>3, OpensFirst
  <2>4. ASSUME NEW i \in QueueIds(test), pc[1] = UnlinkPos(test, i), RemovesQueue(i)
        PROVE  Stays /\ ~Opens
    <3>1. op = "mq_unlink"
      BY <1>1, <2>4, InitOps
    <3>2. Stays
      BY <2>4 DEF RemovesQueue, QueueGone, Refuses, mail
    <3> QED
      BY <1>3, <3>1, <3>2
  <2>5. ASSUME NEW i \in QueueIds(test), NEW j \in 1..Size(test), pc[1] = SendPos(test, i, j),
               NEW f, NEW m, PutsMessage(f, m)
        PROVE  Stays /\ ~Opens
    <3>1. op = "mq_send"
      BY <1>1, <2>5, InitOps
    <3>2. UNCHANGED mail \/ SameFiles
      BY <2>5 DEF PutsMessage, Refuses
    <3> QED
      BY <1>3, <2>2, <3>1, <3>2
  <2>6. ASSUME NEW w \in 1..Kids(test), pc[1] = WaitPos(test, w), UNCHANGED mail
        PROVE  Stays /\ ~Opens
    <3>1. op = "wait"
      BY <1>1, <2>6, InitOps
    <3> QED
      BY <1>3, <2>2, <2>6, <3>1
  <2>7. ASSUME pc[1] = Last_(test), UNCHANGED mail
        PROVE  Stays /\ ~Opens
    <3>1. op = "shutdown"
      BY <1>1, <2>7, InitOps
    <3> QED
      BY <1>3, <2>2, <2>7, <3>1
  <2>8. ASSUME NEW i \in QueueIds(test), pc[1] = OpenPos(test, i), MakesQueue(i)
        PROVE  /\ Opens
               /\ \/ DOMAIN desc' = MP!Desc
                  \/ last_fd'[1] = last_fd[1] + 1 /\ DOMAIN desc # MP!Desc
    <3>1. ASSUME NEW q \in DOMAIN resources_list, resources_list[q].id = i
          PROVE  FALSE
      <4>1. Made(OpenPos(test, i))
        BY <3>1 DEF MailTracked, QueuesOfTest
      <4>2. pc[1] \in Int
        BY <1>1 DEF Bookkeeping, TestTyped
      <4> QED
        BY <1>1, <1>4, <2>8, <4>1, <4>2 DEF Made, MadeBy
    <3>2. ASSUME NEW list, NoFileMade(list)
          PROVE  DOMAIN desc' = MP!Desc
      BY <3>2 DEF NoFileMade
    <3>3. ASSUME NEW list, NEW q, NEW d, FileMade(list, q, d)
          PROVE  last_fd'[1] = last_fd[1] + 1 /\ DOMAIN desc # MP!Desc
      BY <1>1, <1>4, <3>3 DEF FileMade
    <3>4. Opens
      BY <2>8
    <3> QED
      BY <2>8, <3>1, <3>2, <3>3, <3>4 DEF MakesQueue
  <2> HIDE DEF Stays, Opens, op
  <2>9. AllOpened \/ (Stays /\ ~Opens)
        \/ (Opens /\ \/ DOMAIN desc' = MP!Desc
                     \/ last_fd'[1] = last_fd[1] + 1 /\ DOMAIN desc # MP!Desc)
    BY <1>4, <2>1, <2>3, <2>4, <2>5, <2>6, <2>7, <2>8 DEF InitEffect, WaitEffect
  <2> QED
    BY <1>4, <2>9 DEF Stays, Opens
<1> QED
  BY <1>2, <1>4, TrapDoes

LEMMA NextFdTrap ==
  ASSUME SysInv, Bookkeeping, Trap, NeverFaults', MailTracked, NextFd
  PROVE  NextFd'
<1>1. /\ test \in Tests /\ UNCHANGED test /\ running \notin in_call
      /\ pc[1] \in Int /\ last_fd[1] \in Int
  <2>1. 1 \in Pcb
    BY ProcessesAssumption DEF Pcb
  <2>2. last_fd[1] \in 0..MaxFd + 1
    BY <2>1 DEF SysInv, MailSound, MP!FdsSound
  <2> QED
    BY <2>1, <2>2 DEF Trap, Bookkeeping, TestTyped
<1>2. SUFFICES ASSUME test = "stress", NEW i \in QueueIds(test), ~(Made(OpenPos(test, i)))',
                      \A h \in QueueIds(test) : h < i => (Made(OpenPos(test, h)))'
               PROVE  last_fd'[1] = i \/ DOMAIN desc' = MP!Desc
  BY <1>1 DEF NextFd
<1>3. \A h \in QueueIds(test) :
        /\ h \in Nat /\ OpenPos(test, h) \in Int
        /\ (Made(OpenPos(test, h)))' <=>
             Made(OpenPos(test, h)) \/ (running = 1 /\ OpenPos(test, h) = pc[1])
  <2> TAKE h \in QueueIds(test)
  <2>1. h \in Nat /\ OpenPos(test, h) \in 1..Last_(test) - 1
    BY <1>1, TestNumbers, PositionsTyped
  <2>2. (Made(OpenPos(test, h)))' <=>
          Made(OpenPos(test, h)) \/ (running = 1 /\ OpenPos(test, h) = pc[1])
    BY <1>1 DEF Trap, Made, MadeBy
  <2> QED
    BY <2>1, <2>2
<1>4. CASE AllOpened
  BY <1>2, <1>3, <1>4 DEF AllOpened
<1>5. CASE /\ last_fd'[1] = last_fd[1] /\ (DOMAIN desc = MP!Desc => DOMAIN desc' = MP!Desc)
           /\ running = 1 => \A h \in QueueIds(test) : pc[1] # OpenPos(test, h)
  BY <1>2, <1>3, <1>5 DEF NextFd
<1>6. ASSUME running = 1, NEW k \in QueueIds(test), pc[1] = OpenPos(test, k),
             \/ DOMAIN desc' = MP!Desc
             \/ last_fd'[1] = last_fd[1] + 1 /\ DOMAIN desc # MP!Desc
      PROVE  last_fd'[1] = i \/ DOMAIN desc' = MP!Desc
  <2> SUFFICES ASSUME last_fd'[1] = last_fd[1] + 1, DOMAIN desc # MP!Desc
               PROVE  last_fd'[1] = i
    BY <1>6
  <2>1. \A g, h \in QueueIds(test) : g < h => OpenPos(test, g) < OpenPos(test, h)
    BY <1>1, <1>2, Layout
  <2>2. k < i
    <3>1. i # k
      BY <1>2, <1>3, <1>6
    <3>2. ~(i < k)
      <4>1. i < k => OpenPos(test, i) < pc[1]
        BY <1>6, <2>1
      <4>2. ~(OpenPos(test, i) < pc[1])
        BY <1>2, <1>3 DEF Made, MadeBy
      <4> QED
        BY <4>1, <4>2
    <3> QED
      BY <1>3, <3>1, <3>2
  <2>3. ~(k + 1 < i)
    <3> SUFFICES ASSUME k + 1 < i PROVE FALSE
      OBVIOUS
    <3>1. k + 1 \in QueueIds(test) /\ k < k + 1
      BY <1>2, <1>3, NumbersTyped DEF QueueIds
    <3>2. (Made(OpenPos(test, k + 1)))' /\ OpenPos(test, k) < OpenPos(test, k + 1)
      BY <1>2, <2>1, <3>1
    <3>3. OpenPos(test, k + 1) \in Int /\ OpenPos(test, k) \in Int
      BY <1>3, <3>1
    <3>4. Made(OpenPos(test, k + 1)) \/ OpenPos(test, k + 1) = pc[1]
      BY <1>3, <3>1, <3>2
    <3>5. ~Made(OpenPos(test, k + 1))
      BY <1>1, <1>6, <3>2, <3>3 DEF Made, MadeBy
    <3> QED
      BY <1>6, <3>2, <3>3, <3>4, <3>5
  <2>4. i = k + 1
    BY <1>3, <2>2, <2>3
  <2>5. last_fd[1] = k
    <3>1. ~Made(OpenPos(test, k))
      BY <1>1, <1>6 DEF Made, MadeBy
    <3>2. ASSUME NEW h \in QueueIds(test), h < k PROVE Made(OpenPos(test, h))
      <4>1. OpenPos(test, h) < pc[1]
        BY <1>6, <2>1, <3>2
      <4> QED
        BY <4>1 DEF Made, MadeBy
    <3> QED
      BY <1>2, <3>1, <3>2 DEF NextFd
  <2> QED
    BY <2>4, <2>5
<1> QED
  BY <1>2, <1>4, <1>5, <1>6, NextFdMove

LEMMA NothingTrap ==
  ASSUME SysInv, Bookkeeping, Trap, NeverFaults', MailTracked, NothingYet
  PROVE  NothingYet'
<1> SUFFICES ASSUME NEW b \in Pcb \ {1}, pid'[b] < 2
             PROVE  read'[b] = <<>> /\ descriptors'[b] = {}
  BY DEF NothingYet
<1>1. UNCHANGED read /\ (running # 1 => pid[running] \in 2..Kids(test) + 1) /\ Kids(test) \in Int
  <2>1. UNCHANGED read /\ Calling
    BY DEF Trap
  <2> QED
    BY <2>1, Callers, TestNumbers
<1>2. pid[b] < 2
  BY PidsMove
<1>3. b # running
  <2> SUFFICES ASSUME b = running PROVE FALSE
    OBVIOUS
  <2>1. pid[b] \in 2..Kids(test) + 1
    BY <1>1
  <2> QED
    BY <1>1, <1>2, <2>1
<1>4. read[b] = <<>> /\ descriptors[b] = {}
  BY <1>2 DEF NothingYet
<1>5. descriptors'[b] = {}
  BY <1>3, <1>4, FilesMove DEF FdsStay, FdMade
<1> QED
  BY <1>1, <1>4, <1>5

LEMMA FdsTrap ==
  ASSUME SysInv, Bookkeeping, Trap, NeverFaults', MailTracked, FilesInv
  PROVE  FdsOfQueues'
<1>1. /\ Calling /\ UNCHANGED test /\ running \notin in_call /\ 1 \in Pcb
      /\ test \in Tests /\ pid[1] = 0 /\ NothingYet /\ FdsOfQueues /\ pc[1] \in Int
  <2>1. Calling /\ UNCHANGED test /\ running \notin in_call
    BY DEF Trap
  <2>2. 1 \in Pcb
    BY ProcessesAssumption DEF Pcb
  <2>3. pc[1] \in Int
    BY <2>2 DEF Bookkeeping, TestTyped
  <2> QED
    BY <2>1, <2>2, <2>3, Callers DEF FilesInv, PidsInOrder
<1>2. \A b \in Pcb : \A d \in descriptors'[b] :
        d \in DOMAIN desc' /\ (d \in descriptors[b] => d \in DOMAIN desc)
  <2>1. SysInv'
    BY TrapKeeps DEF StepKeeps
  <2>2. MP!FdsSound /\ MP!FdsSound'
    BY <2>1 DEF SysInv, MailSound
  <2> QED
    BY <2>2 DEF MP!FdsSound, MP!Agree
<1>3. \A b \in Pcb : \A d \in descriptors'[b] : d \in descriptors[b] =>
        /\ desc'[d] = desc[d]
        /\ resources_list'[desc'[d].resource].id = resources_list[desc[d].resource].id
  BY <1>2, FilesMove DEF Kept
<1>4. pid'[1] = 0 /\ 0 \in Int
  <2>1. pid'[1] = pid[1]
    BY <1>1, PidsMove
  <2> QED
    BY <1>1, <2>1
<1>5. ASSUME NEW b \in Pcb, pid'[b] > 1, NEW d \in descriptors'[b]
      PROVE  resources_list'[desc'[d].resource].id = (QueueId(b))'
  <2>1. b # 1
    BY <1>4, <1>5
  <2>2. CASE d \in descriptors[b]
    <3>1. pid'[b] = pid[b]
      BY <1>1, <2>1, <2>2, PidsMove DEF NothingYet
    <3>2. resources_list[desc[d].resource].id = QueueId(b)
      BY <1>1, <1>5, <2>2, <3>1 DEF FdsOfQueues
    <3>3. (QueueId(b))' = QueueId(b)
      BY <1>1, <3>1 DEF QueueId
    <3> QED
      BY <1>3, <1>5, <2>2, <3>2, <3>3
  <2>3. CASE d \notin descriptors[b]
    <3>1. b = running /\ resources_list'[desc'[d].resource].id = QueueId(b)
      BY <1>5, <2>1, <2>3, FilesMove DEF FdsStay, FdMade
    <3>2. pid'[b] = pid[b]
      BY <3>1, PidsMove
    <3>3. (QueueId(b))' = QueueId(b)
      BY <1>1, <3>2 DEF QueueId
    <3> QED
      BY <3>1, <3>3
  <2> QED
    BY <2>2, <2>3
<1>6. ASSUME test = "stress", NEW d \in descriptors'[1]
      PROVE  desc'[d].fd = resources_list'[desc'[d].resource].id
  <2>1. CASE d \in descriptors[1]
    BY <1>1, <1>3, <1>6, <2>1 DEF FdsOfQueues
  <2>2. CASE d \notin descriptors[1]
    <3>1. PICK i \in QueueIds(test) : pc[1] = OpenPos(test, i) /\ FdMade(i) /\ running = 1
      BY <1>1, <1>6, <2>2, FilesMove DEF FdsStay, FdMade
    <3>2. /\ d \notin DOMAIN desc /\ desc'[d].fd = last_fd[1]
          /\ resources_list'[desc'[d].resource].id = i
      BY <1>1, <1>6, <2>2, <3>1 DEF FdMade
    <3>3. ~Made(OpenPos(test, i))
      BY <1>1, <3>1 DEF Made, MadeBy
    <3>4. ASSUME NEW h \in QueueIds(test), h < i PROVE Made(OpenPos(test, h))
      <4>1. OpenPos(test, h) < OpenPos(test, i)
        BY <1>1, <1>6, <3>4, Layout
      <4> QED
        BY <3>1, <4>1 DEF Made, MadeBy
    <3>5. last_fd[1] = i \/ DOMAIN desc = MP!Desc
      BY <1>6, <3>3, <3>4 DEF FilesInv, NextFd
    <3>6. d \in MP!Desc
      <4>1. SysInv'
        BY TrapKeeps DEF StepKeeps
      <4>2. MP!FdsSound'
        BY <4>1 DEF SysInv, MailSound
      <4> QED
        BY <1>1, <1>6, <4>2 DEF MP!FdsSound
    <3> QED
      BY <3>2, <3>5, <3>6
  <2> QED
    BY <2>1, <2>2
<1> QED
  BY <1>1, <1>5, <1>6 DEF FdsOfQueues

LEMMA FilesTrap ==
  ASSUME SysInv, Bookkeeping, Trap, NeverFaults', MailTracked, FilesInv
  PROVE  FilesInv'
<1>1. NothingYet /\ NextFd
  BY DEF FilesInv
<1>2. NothingYet' /\ NextFd' /\ FdsOfQueues'
  BY <1>1, NothingTrap, NextFdTrap, FdsTrap
<1> QED
  BY <1>2 DEF FilesInv

\* A trap in which nothing is sent or received: a queue that is new is empty.
QuietQueues ==
  \A q \in DOMAIN resources_list' :
    \/ messages'[q] = <<>>
    \/ /\ q \in DOMAIN resources_list
       /\ resources_list'[q].id = resources_list[q].id /\ messages'[q] = messages[q]

LEMMA QuietOpens ==
  ASSUME Goes, NEW list, MP!ListTyped(list), SameMessages,
         \/ resources_list' = list /\ UNCHANGED desc
         \/ \E q \in DOMAIN list, d \in MP!Desc : FileMade(list, q, d),
         \A q \in DOMAIN list : \/ q \in DOMAIN resources_list /\ list[q] = resources_list[q]
                                \/ q \in MP!MqBlock \ DOMAIN resources_list
  PROVE  QuietQueues
<1>1. /\ DOMAIN resources_list' = DOMAIN list
      /\ \A q \in DOMAIN list : resources_list'[q].id = list[q].id
  BY FileIs
<1>2. \A q \in MP!MqBlock \ DOMAIN resources_list : messages[q] = <<>>
  BY DEF Goes, MailTracked, UnlistedEmpty
<1> QED
  BY <1>1, <1>2 DEF SameMessages, QuietQueues

LEMMA QuietFind ==
  ASSUME Goes, NEW i, FindsQueue(i)
  PROVE  QuietQueues
<1>1. CASE UNCHANGED mail
  BY <1>1 DEF mail, QuietQueues
<1>2. ASSUME SameMessages,
             \E q \in DOMAIN resources_list, d \in MP!Desc : FileMade(resources_list, q, d)
      PROVE  QuietQueues
  <2>1. MP!ListTyped(resources_list)
    BY DEF Goes, MP!BlocksSound
  <2> QED
    BY <1>2, <2>1, QuietOpens
<1> QED
  BY <1>1, <1>2 DEF FindsQueue, Refuses

LEMMA QuietMake ==
  ASSUME Goes, NEW i \in QueueIds(test), MakesQueue(i)
  PROVE  QuietQueues
<1>1. CASE UNCHANGED mail
  BY <1>1 DEF mail, QuietQueues
<1>2. ASSUME NEW q \in MP!MqBlock \ DOMAIN resources_list, SameMessages,
             \A r \in DOMAIN resources_list : resources_list[r].id # i,
             LET list == MP!Insert(resources_list, q, i, MP!DSOS_MQ) IN
             \/ NoFileMade(list)
             \/ \E d \in MP!Desc : FileMade(list, q, d)
      PROVE  QuietQueues
  <2> DEFINE list == MP!Insert(resources_list, q, i, MP!DSOS_MQ)
  <2>1. MP!ListTyped(list)
    BY <1>2, ListedQueue
  <2>2. /\ q \in DOMAIN list
        /\ \A x \in DOMAIN list : \/ x \in DOMAIN resources_list /\ list[x] = resources_list[x]
                                  \/ x \in MP!MqBlock \ DOMAIN resources_list
    BY <1>2 DEF MP!Insert
  <2>3. \/ resources_list' = list /\ UNCHANGED desc
        \/ \E x \in DOMAIN list, d \in MP!Desc : FileMade(list, x, d)
    BY <1>2, <2>2 DEF NoFileMade
  <2> HIDE DEF list
  <2> QED
    BY <1>2, <2>1, <2>2, <2>3, QuietOpens
<1> QED
  BY <1>1, <1>2 DEF MakesQueue, Refuses

LEMMA QuietGone ==
  ASSUME Goes, NEW ds, Gone(ds)
  PROVE  QuietQueues
<1>1. \A q \in DOMAIN resources_list : resources_list'[q].id = resources_list[q].id
  BY DEF Gone, Goes, MP!BlocksSound, MP!ListTyped, MP!Resource
<1>2. DOMAIN resources_list' = DOMAIN resources_list /\ UNCHANGED messages
  BY DEF Gone, SameMessages
<1> QED
  BY <1>1, <1>2 DEF QuietQueues

LEMMA QuietClose ==
  ASSUME Goes, NEW f, ClosesFile(f)
  PROVE  QuietQueues
<1>1. CASE UNCHANGED mail
  BY <1>1 DEF mail, QuietQueues
<1> QED
  BY <1>1, QuietGone DEF ClosesFile, Refuses

LEMMA QuietUnlink ==
  ASSUME Goes, NEW i, RemovesQueue(i), messages \in [MP!MqBlock -> Seq(Msgs)]
  PROVE  QuietQueues
<1>1. CASE UNCHANGED mail
  BY <1>1 DEF mail, QuietQueues
<1>2. ASSUME NEW q \in DOMAIN resources_list, QueueGone(q)
      PROVE  QuietQueues
  <2>1. \A x \in DOMAIN resources_list' :
          /\ x \in DOMAIN resources_list /\ x # q /\ resources_list'[x] = resources_list[x]
          /\ x \in MP!MqBlock
    BY <1>2 DEF QueueGone, Goes, MailTracked, QueuesOfTest
  <2>2. \A x \in MP!MqBlock : x # q => messages'[x] = messages[x]
    BY <1>2 DEF QueueGone
  <2> QED
    BY <2>1, <2>2 DEF QuietQueues
<1> QED
  BY <1>1, <1>2 DEF RemovesQueue, Refuses

\* What is sent and received in a trap.
LEMMA FlowTrap ==
  ASSUME SysInv, Bookkeeping, Trap, NeverFaults', MailTracked, FlowInv, FilesInv
  PROVE  FlowInv'
<1>1. /\ Calling /\ NeverFaults /\ test \in Tests /\ UNCHANGED test
      /\ pid \in [Pcb -> Pid] /\ running \in Pcb /\ running \notin in_call /\ 1 \in Pcb
      /\ pid[1] = 0 /\ 0 \in Int /\ pc \in [Pcb -> Nat \ {0}] /\ Size(test) \in Nat
      /\ Kids(test) \in Int
      /\ running # 1 => pid[running] \in 2..Kids(test) + 1
  <2>1. Calling /\ UNCHANGED test /\ running \notin in_call
    BY DEF Trap
  <2>2. pid \in [Pcb -> Pid] /\ 1 \in Pcb
    BY ProcessesAssumption DEF SysInv, AlwaysInv, Inv, StateTyped, Pcb
  <2> QED
    BY <2>1, <2>2, Callers, TestNumbers DEF TestTyped, PidsInOrder
<1>2. Goes /\ ChildrenQueued
  BY <1>1, GoesOn, ChildQueues DEF ChildrenQueued
<1>3. messages \in [MP!MqBlock -> Seq(Msgs)]
  BY DEF SysInv, MailSound, MP!MessagesTyped
<1>4. NothingYet /\ FdsOfQueues
  BY DEF FilesInv
<1> HIDE DEF Goes, ChildrenQueued
<1>5. \A b \in Pcb : pid'[b] > 1 /\ b # running =>
        (Got(b))' = <<>> \/ (pid'[b] = pid[b] /\ (Got(b))' = Got(b))
  BY <1>4, GotMoves
<1>6. pid'[1] = 0 /\ pid'[running] = pid[running]
  BY <1>1, PidsMove
<1>7. ASSUME QuietQueues, running = 1 \/ ~(pc[running] \in 2..Size(test) + 1)
      PROVE  FlowInv'
  <2>1. ASSUME NEW b \in Pcb, pid'[b] > 1
        PROVE  (Got(b))' = <<>> \/ (pid'[b] = pid[b] /\ (Got(b))' = Got(b))
    <3>1. CASE b # running
      BY <1>5, <2>1, <3>1
    <3>2. CASE b = running
      <4>1. b # 1
        BY <1>1, <1>6, <2>1
      <4>2. (Got(b))' = Got(b)
        BY <1>4, <1>7, <3>2, <4>1, GotMoves
      <4> QED
        BY <1>6, <3>2, <4>2
    <3> QED
      BY <3>1, <3>2
  <2> QED
    BY <1>2, <1>7, <2>1, FlowShrinks DEF QuietQueues
<1>8. ASSUME UNCHANGED mail \/ UNCHANGED <<resources_list, messages>>
      PROVE  QuietQueues
  BY <1>8 DEF mail, QuietQueues
<1>9. CASE running = 1 /\ InitEffect
  <2>1. CASE SpawnEffect
    BY <1>7, <1>8, <1>9, <2>1 DEF SpawnEffect, FreshMail, SameMessages
  <2>2. ASSUME NEW i \in QueueIds(test),
               MakesQueue(i) \/ ClosesFile(InitFd(i)) \/ RemovesQueue(i)
        PROVE  FlowInv'
    BY <1>2, <1>3, <1>7, <1>9, <2>2, QuietMake, QuietClose, QuietUnlink
  <2>3. ASSUME NEW i \in QueueIds(test), NEW j \in 1..Size(test), pc[1] = SendPos(test, i, j),
               PutsMessage(InitFd(i), buf[i][j]), MailCall
        PROVE  FlowInv'
    <3>1. CASE UNCHANGED mail
      BY <1>7, <1>8, <1>9, <3>1
    <3>2. ASSUME NEW d \in FilesOf(InitFd(i)),
                 desc[d].resource \in MP!MqBlock, desc[d].resource \in DOMAIN resources_list,
                 messages' = [messages EXCEPT ![desc[d].resource] =
                                Append(messages[desc[d].resource], buf[i][j])],
                 SameFiles
          PROVE  FlowInv'
      <4> DEFINE q == desc[d].resource
      <4>1. resources_list[q].id = i
        <5>1. d \in descriptors[1] /\ desc[d].fd = InitFd(i)
          BY <1>9, <3>2 DEF FilesOf
        <5>2. CASE test = "stress"
          <6>1. InitFd(i) = i
            BY <5>2 DEF InitFd
          <6> QED
            BY <1>4, <5>1, <5>2, <6>1 DEF FdsOfQueues
        <5>3. CASE test = "blocking"
          <6>1. QueueIds(test) = {0}
            BY <5>3 DEF QueueIds
          <6>2. resources_list[q].id \in QueueIds(test)
            BY <3>2 DEF MailTracked, QueuesOfTest
          <6> QED
            BY <6>1, <6>2
        <5> QED
          BY <1>1, <5>2, <5>3 DEF Tests
      <4>2. (Made(SendPos(test, i, j)))'
        <5>1. pc' = pc /\ 1 \in in_call'
          BY <1>9 DEF Trap
        <5> QED
          BY <1>1, <2>3, <5>1 DEF Made, MadeBy
      <4>3. SameFamily
        BY <1>1, <2>3 DEF SameFamily, MailCall, Replied, Parked, family
      <4>4. UNCHANGED resources_list
        BY <3>2 DEF SameFiles
      <4>5. \A b \in Pcb : pid[b] > 1 => (Got(b))' = Got(b)
        <5>1. pid' = pid
          BY <4>3 DEF SameFamily
        <5> QED
          BY <1>1, <1>4, <1>9, <5>1, GotMoves
      <4>6. 1 \notin in_call
        BY <1>1, <1>9
      <4> QED
        BY <1>2, <1>3, <2>3, <3>2, <4>1, <4>2, <4>3, <4>4, <4>5, <4>6, FlowSend
    <3> QED
      BY <2>3, <3>1, <3>2 DEF PutsMessage, Refuses
  <2>4. CASE UNCHANGED mail
    BY <1>7, <1>8, <1>9, <2>4
  <2> QED
    BY <1>9, <2>1, <2>2, <2>3, <2>4 DEF InitEffect, WaitEffect
<1>10. CASE running # 1 /\ ChildEffect(running)
  <2>1. ASSUME ~(pc[running] \in 2..Size(test) + 1), QuietQueues
        PROVE  FlowInv'
    BY <1>7, <2>1
  <2>2. ASSUME pc[running] = 1, FindsQueue(QueueId(running))
        PROVE  FlowInv'
    BY <1>2, <2>1, <2>2, QuietFind
  <2>3. ASSUME pc[running] \in 2..Size(test) + 1, MailCall, TakesMessage(fd[running])
        PROVE  FlowInv'
    <3>1. PICK c \in Pcb : c = running
      BY <1>1
    <3>2. pid[c] > 1 /\ SameFamily /\ UNCHANGED pid
      <4>1. pid[c] > 1
        BY <1>1, <1>10, <3>1
      <4>2. UNCHANGED pid
        BY <2>3 DEF MailCall, Replied, Parked, family
      <4> QED
        BY <1>1, <4>1, <4>2 DEF SameFamily
    <3>3. Got(c) = read[c] /\ read[c] \in Seq(Texts)
      BY <1>4, <3>1, GotMoves DEF Bookkeeping, TestTyped, Texts
    <3>4. (Got(c))' = Append(Got(c), syscall_arg1'[c])
      BY <1>4, <2>3, <3>1, <3>3, GotMoves
    <3>5. \A b \in Pcb \ {c} : pid[b] > 1 => (Got(b))' = Got(b)
      BY <1>4, <3>1, <3>2, GotMoves
    <3>6. \A x : Arg(x) => syscall_arg1'[c] = x
      BY <3>1 DEF Arg, SysInv, MailSound
    <3>7. ASSUME UNCHANGED mail, Arg(Mail!NoMsg)
          PROVE  FlowInv'
      <4>1. UNCHANGED <<resources_list, messages>>
        BY <3>7 DEF mail
      <4>2. Mail!NoMsg \in Texts /\ (Got(c))' = Append(Got(c), Mail!NoMsg)
        BY <3>4, <3>6, <3>7 DEF Texts
      <4> QED
        BY <1>2, <1>3, <3>2, <3>3, <3>5, <4>1, <4>2, FlowReceive
    <3>8. ASSUME NEW d \in FilesOf(fd[running]), NEW q, q = desc[d].resource,
                 q \in MP!MqBlock, q \in DOMAIN resources_list, messages[q] # <<>>,
                 messages' = [messages EXCEPT ![q] = Tail(messages[q])],
                 SameFiles, Arg(Head(messages[q]))
          PROVE  FlowInv'
      <4>1. resources_list[q].id = QueueId(c)
        BY <1>4, <3>1, <3>2, <3>8 DEF FilesOf, FdsOfQueues
      <4>2. PICK x : x = Head(messages[q])
        OBVIOUS
      <4>3. x \in Texts
        <5>1. Head(messages[q]) \in Msgs
          BY <1>3, <3>8, OneFewer
        <5> QED
          BY <4>2, <5>1 DEF Texts
      <4>4. (Got(c))' = Append(Got(c), x)
        BY <3>4, <3>6, <3>8, <4>2
      <4>5. UNCHANGED resources_list
        BY <3>8 DEF SameFiles
      <4> QED
        BY <1>2, <1>3, <3>2, <3>3, <3>5, <3>8, <4>1, <4>2, <4>3, <4>4, <4>5, FlowReceive
    <3> QED
      BY <2>3, <3>7, <3>8 DEF TakesMessage, Refuses
  <2>4. ASSUME pc[running] = ChildClose, ClosesFile(fd[running])
        PROVE  FlowInv'
    <3>1. ~(pc[running] \in 2..Size(test) + 1)
      BY <1>1, <2>4 DEF ChildClose
    <3> QED
      BY <1>2, <2>1, <2>4, <3>1, QuietClose
  <2>5. ASSUME pc[running] \in ChildClose + 1..ChildLast(running) - 1 \/ pc[running] = ChildLast(running)
        PROVE  ~(pc[running] \in 2..Size(test) + 1)
    <3>1. pid[running] \in Int /\ pid[running] > 1
      BY <1>1, <1>10
    <3> QED
      BY <1>1, <2>5, <3>1 DEF ChildClose, ChildLast
  <2>6. ASSUME Gone(descriptors[running]) \/ UNCHANGED mail
        PROVE  QuietQueues
    BY <1>2, <1>8, <2>6, QuietGone
  <2> QED
    BY <1>10, <2>1, <2>2, <2>3, <2>4, <2>5, <2>6 DEF ChildEffect, ExitEffect
<1> QED
  BY <1>9, <1>10, TrapDoes

\* The caller reads its result, and a receive that reports success its message.
LEMMA GotReturns ==
  ASSUME SysInv, Bookkeeping, Return, NEW b \in Pcb, pid[b] > 1
  PROVE  \/ (Got(b))' = Got(b)
         \/ \E s \in Seq(Texts), x \in Texts : s = (Got(b))' /\ Got(b) = Append(s, x)
<1>1. /\ Calling /\ UNCHANGED <<sysVars, test>> /\ in_call' = in_call \ {running}
      /\ running \in in_call
      /\ read' = IF Instr(running).op = "mq_receive" /\ retvalue[running] >= 0
                 THEN [read EXCEPT ![running] = Append(@, syscall_arg1[running])]
                 ELSE read
  BY DEF Return
<1>2. /\ running \in Pcb /\ TestTyped /\ CountersInRange /\ test \in Tests /\ PidsInOrder
      /\ UNCHANGED <<syscall_arg1, test>>
      /\ read[b] \in Seq(Texts) /\ read \in [Pcb -> Seq(Texts)] /\ syscall_arg1[b] \in Texts
  <2>1. /\ running \in Pcb /\ TestTyped /\ CountersInRange /\ test \in Tests /\ PidsInOrder
    BY <1>1, Callers
  <2>2. UNCHANGED <<syscall_arg1, test>>
    BY <1>1 DEF sysVars
  <2>3. read \in [Pcb -> Seq(Texts)]
    BY <2>1 DEF TestTyped, Texts
  <2>4. syscall_arg1[b] \in Texts
    BY DEF SysInv, MailSound, Texts, MP!NoMsg, Mail!NoMsg
  <2>5. read[b] \in Seq(Texts)
    BY <2>3
  <2> QED
    BY <2>1, <2>2, <2>3, <2>4, <2>5
<1>3. CASE b # running
  <2>1. pc'[b] = pc[b] /\ (b \in in_call' <=> b \in in_call) /\ read'[b] = read[b]
    BY <1>1, <1>2, <1>3, ReturnPc
  <2> QED
    BY <1>2, <2>1 DEF Got
<1>4. CASE b = running
  <2>1. (Got(b))' = read'[b]
    BY <1>1, <1>4 DEF Got
  <2>2. CASE Instr(b).op = "mq_receive" /\ retvalue[b] >= 0
    <3>1. pc[b] \in 2..Size(test) + 1
      <4>1. /\ pid[b] \in Pid /\ pid[b] \in 2..Kids(test) + 1 /\ pc[b] \in 1..ChildLast(b)
        <5>1. pid[1] = 0 /\ 0 \in Int
          BY <1>2 DEF PidsInOrder
        <5>2. b # 1
          BY <5>1
        <5> QED
          BY <1>1, <1>2, <1>4, <5>2, Callers DEF CountersInRange
      <4>2. Instr(b) = ChildCall(ChildQueue(test, pid[b]), Size(test), pid[b], pc[b])
        BY <1>2, <4>1, ChildProgram DEF Instr, ChildLast
      <4>3. Instr(b) = Receive
        <5>1. /\ Open(ChildQueue(test, pid[b]), {}).op # "mq_receive"
              /\ Close(Own).op # "mq_receive" /\ Nap.op # "mq_receive" /\ Exit.op # "mq_receive"
          BY DEF Open, Close, Nap, Exit
        <5> QED
          BY <2>2, <4>2, <5>1 DEF ChildCall
      <4>4. /\ Open(ChildQueue(test, pid[b]), {}) # Receive /\ Close(Own) # Receive
            /\ Nap # Receive /\ Exit # Receive
        <5>1. /\ Open(ChildQueue(test, pid[b]), {}).op = "mq_open" /\ Close(Own).op = "mq_close"
              /\ Nap.op = "sleep" /\ Exit.op = "exit" /\ Receive.op = "mq_receive"
          BY DEF Open, Close, Nap, Exit, Receive
        <5> QED
          BY <5>1
      <4>5. pc[b] # 1 /\ pc[b] <= Size(test) + 1
        <5>1. ASSUME ~(pc[b] <= Size(test) + 1), pc[b] # 1
              PROVE  Instr(b) # Receive
          BY <4>2, <4>4, <5>1 DEF ChildCall
        <5>2. ASSUME pc[b] = 1
              PROVE  Instr(b) # Receive
          BY <4>2, <4>4, <5>2 DEF ChildCall
        <5> QED
          BY <4>3, <5>1, <5>2
      <4>6. pc[b] \in Nat \ {0} /\ Size(test) \in Nat
        BY <1>2, TestNumbers DEF TestTyped
      <4> QED
        BY <4>5, <4>6
    <3>2. Got(b) = Append(read[b], syscall_arg1[b])
      BY <1>1, <1>4, <3>1 DEF Got
    <3>3. read'[b] = Append(read[b], syscall_arg1[b])
      BY <1>1, <1>2, <1>4, <2>2
    <3> QED
      BY <2>1, <3>2, <3>3
  <2>3. CASE ~(Instr(b).op = "mq_receive" /\ retvalue[b] >= 0)
    <3>1. read'[b] = read[b]
      BY <1>1, <1>4, <2>3
    <3>2. Got(b) = read[b] \/ Got(b) = Append(read[b], syscall_arg1[b])
      BY DEF Got
    <3> QED
      BY <1>2, <2>1, <3>1, <3>2
  <2> QED
    BY <2>2, <2>3
<1> QED
  BY <1>3, <1>4

LEMMA OrderReturn ==
  ASSUME SysInv, Bookkeeping, Return, MailTracked, FlowInv, FilesInv
  PROVE  FlowInv' /\ FilesInv'
<1>1. /\ Calling /\ UNCHANGED <<sysVars, test>> /\ in_call' = in_call \ {running}
      /\ running \in in_call
      /\ \A b \in Pcb : b # running => read'[b] = read[b]
  BY DEF Return, Bookkeeping, TestTyped
<1>2. /\ UNCHANGED <<resources_list, messages, desc, descriptors, last_fd, pid, test>>
  BY <1>1 DEF sysVars, vars, mail, family
<1>3. /\ NeverFaults /\ test \in Tests /\ 1 \in Pcb /\ pid \in [Pcb -> Pid] /\ running \in Pcb
      /\ pid[running] = 0 \/ pid[running] \in 2..Kids(test) + 1
      /\ running # 1 => pid[running] # 0
      /\ Kids(test) \in Int
  <2>1. 1 \in Pcb
    BY ProcessesAssumption DEF Pcb
  <2>2. pid \in [Pcb -> Pid]
    BY DEF SysInv, AlwaysInv, Inv, StateTyped
  <2>3. running # 1 => pid[running] # 0
    <3>1. running # 1 => pid[running] \in 2..Kids(test) + 1
      BY <1>1, Callers
    <3> QED
      BY <3>1
  <2> QED
    BY <1>1, <2>1, <2>2, <2>3, Callers, TestNumbers
<1>4. FlowInv'
  <2>1. Goes
    <3>1. \A k \in Nat : Made(k) => Made(k)'
      BY <1>3, ReturnMade DEF Made
    <3> QED
      BY <1>2, <1>3, <3>1 DEF Goes, SysInv, MailSound
  <2>2. ChildrenQueued
    BY <1>3, ChildQueues DEF ChildrenQueued
  <2>3. ASSUME NEW b \in Pcb, pid'[b] > 1
        PROVE  \/ pid'[b] = pid[b] /\ (Got(b))' = Got(b)
               \/ /\ pid'[b] = pid[b]
                  /\ \E s \in Seq(Texts), x \in Texts : s = (Got(b))' /\ Got(b) = Append(s, x)
    BY <1>2, <2>3, GotReturns
  <2>4. QuietQueues
    BY <1>2 DEF QuietQueues
  <2> QED
    BY <2>1, <2>2, <2>3, <2>4, FlowShrinks DEF QuietQueues
<1>5. NothingYet'
  <2> SUFFICES ASSUME NEW b \in Pcb \ {1}, pid[b] < 2
               PROVE  read'[b] = <<>> /\ descriptors'[b] = {}
    BY <1>2 DEF NothingYet
  <2>1. b # running
    <3> SUFFICES ASSUME b = running PROVE FALSE
      OBVIOUS
    <3>1. pid[b] \in 2..Kids(test) + 1
      BY <1>3
    <3> QED
      BY <1>3, <3>1
  <2> QED
    BY <1>1, <1>2, <2>1 DEF FilesInv, NothingYet
<1>6. FdsOfQueues'
  BY <1>2 DEF FilesInv, FdsOfQueues, QueueId
<1>7. NextFd'
  <2>1. \A i \in QueueIds(test) : (Made(OpenPos(test, i)))' <=> Made(OpenPos(test, i))
    <3> TAKE i \in QueueIds(test)
    <3>1. PICK k \in Nat : k = OpenPos(test, i)
      <4>1. OpenPos(test, i) \in 1..Last_(test) - 1
        BY <1>3, PositionsTyped
      <4> QED
        BY <4>1
    <3>2. (Made(OpenPos(test, i)))' <=> Made(k)'
      BY <1>2, <3>1 DEF Made, MadeBy
    <3>3. \A w \in 1..Kids(test) : k # WaitPos(test, w)
      BY <1>3, <3>1, InitOps
    <3>4. Made(k)' <=> Made(k)
      BY <1>3, <3>3, ReturnMade DEF Made
    <3> QED
      BY <3>1, <3>2, <3>4
  <2> QED
    BY <1>2, <2>1 DEF FilesInv, NextFd
<1> QED
  BY <1>4, <1>5, <1>6, <1>7 DEF FilesInv

\* A step in which no process calls, reads a result or gets a pid.
LEMMA OrderStays ==
  ASSUME NeverFaults, UNCHANGED <<mail, syscall_arg1, pid, test, pc, in_call, read>>,
         FlowInv, FilesInv
  PROVE  FlowInv' /\ FilesInv'
<1>1. UNCHANGED <<resources_list, messages, desc, descriptors, last_fd>>
  BY DEF mail
<1>2. \A i, s : /\ AllSent(i, s) => AllSent(i, s)'
                /\ (\A h : Made(h) <=> Made(h)')
  BY DEF AllSent, Sent, Made, MadeBy
<1>3. QueuesSorted'
  <2> SUFFICES ASSUME NEW q \in DOMAIN resources_list
               PROVE  /\ AllSent(resources_list[q].id, messages[q])'
                      /\ Sorted(test, resources_list[q].id, messages[q])'
    BY <1>1 DEF QueuesSorted
  <2>1. PICK i, s : i = resources_list[q].id /\ s = messages[q]
    OBVIOUS
  <2>2. AllSent(i, s) /\ Sorted(test, i, s)
    BY <2>1 DEF FlowInv, QueuesSorted
  <2>3. AllSent(i, s)' /\ Sorted(test, i, s)'
    <3>1. AllSent(i, s)'
      BY <1>2, <2>2
    <3> QED
      BY <2>2, <3>1
  <2> QED
    BY <1>1, <2>1, <2>3 DEF AllSent, Sent, Sorted
<1>4. ReadsSorted'
  <2>1. \A b \in Pcb : pid'[b] = pid[b] /\ (QueueId(b))' = QueueId(b) /\ (Got(b))' = Got(b)
    BY DEF QueueId, Got
  <2> SUFFICES ASSUME NEW b \in Pcb, NEW i, NEW g, pid[b] > 1, i = QueueId(b), g = Got(b)
               PROVE  /\ AllSent(i, g)' /\ Sorted(test, i, g)'
                      /\ \A q \in DOMAIN resources_list :
                           resources_list[q].id = i => Before(test, i, g, messages[q])
    <3>1. ASSUME NEW b \in Pcb, pid'[b] > 1
          PROVE  /\ AllSent(QueueId(b), Got(b))' /\ Sorted(test, QueueId(b), Got(b))'
                 /\ (\A q \in DOMAIN resources_list :
                      resources_list[q].id = QueueId(b)
                      => Before(test, QueueId(b), Got(b), messages[q]))'
      <4>1. PICK i, g : i = QueueId(b) /\ g = Got(b)
        OBVIOUS
      <4>2. (QueueId(b))' = i /\ (Got(b))' = g /\ pid[b] > 1
        BY <2>1, <3>1, <4>1
      <4>3. /\ AllSent(i, g)' /\ Sorted(test, i, g)'
            /\ \A q \in DOMAIN resources_list :
                 resources_list[q].id = i => Before(test, i, g, messages[q])
        BY <4>1, <4>2
      <4> QED
        BY <1>1, <4>2, <4>3 DEF AllSent, Sent, Sorted, Before
    <3> QED
      BY <3>1 DEF ReadsSorted
  <2>2. /\ AllSent(i, g) /\ Sorted(test, i, g)
        /\ \A q \in DOMAIN resources_list :
             resources_list[q].id = i => Before(test, i, g, messages[q])
    BY DEF FlowInv, ReadsSorted
  <2>3. AllSent(i, g)'
    BY <1>2, <2>2
  <2> QED
    BY <2>2, <2>3
<1>5. NothingYet'
  BY <1>1 DEF FilesInv, NothingYet
<1>6. FdsOfQueues'
  BY <1>1 DEF FilesInv, FdsOfQueues, QueueId
<1>7. NextFd'
  BY <1>1 DEF FilesInv, NextFd, Made, MadeBy
<1> QED
  BY <1>3, <1>4, <1>5, <1>6, <1>7 DEF FlowInv, FilesInv

LEMMA OrderInit == TestInit => OrderInv
<1> SUFFICES ASSUME TestInit PROVE FlowInv /\ FilesInv
  BY DEF OrderInv
<1>1. /\ SysInit /\ Init /\ test \in Tests /\ pc = [b \in Pcb |-> 1] /\ in_call = {} /\ 1 \in Pcb
      /\ read = [b \in Pcb |-> <<>>]
  BY ProcessesAssumption DEF TestInit, SysInit, Tests, Pcb
<1>2. DOMAIN resources_list = {} /\ \A b \in Pcb : descriptors[b] = {} /\ last_fd[b] = 0
  BY <1>1 DEF SysInit
<1>3. \A i, s : /\ AllSent(i, <<>>) /\ Sorted(test, i, <<>>)
                /\ Before(test, i, <<>>, s)
  BY DEF AllSent, Sorted, Before, Real
<1>4. FlowInv
  <2>1. \A b \in Pcb : Got(b) = <<>>
    BY <1>1 DEF Got
  <2> QED
    BY <1>2, <1>3, <2>1 DEF FlowInv, QueuesSorted, ReadsSorted
<1>5. NothingYet /\ FdsOfQueues
  BY <1>1, <1>2 DEF NothingYet, FdsOfQueues
<1>6. NextFd
  <2> SUFFICES ASSUME test = "stress", NEW i \in QueueIds(test),
                      \A h \in QueueIds(test) : h < i => Made(OpenPos(test, h))
               PROVE  i = 0
    BY <1>1, <1>2 DEF NextFd
  <2>1. i \in Nat /\ 0 \in QueueIds(test)
    BY NumbersTyped DEF QueueIds
  <2>2. OpenPos(test, 0) \in Nat /\ SpawnPos(test, 1) < OpenPos(test, 0) /\ SpawnPos(test, 1) = 1
    <3>1. OpenPos(test, 0) \in 1..Last_(test) - 1
      BY <1>1, <2>1, PositionsTyped
    <3>2. SpawnPos(test, 1) < OpenPos(test, 0)
      BY <1>1, <2>1, Layout
    <3> QED
      BY <3>1, <3>2 DEF SpawnPos
  <2>3. ~Made(OpenPos(test, 0))
    BY <1>1, <2>2 DEF Made, MadeBy
  <2> QED
    BY <2>1, <2>3
<1> QED
  BY <1>4, <1>5, <1>6 DEF FilesInv

\* Texts in the order sent, followed by a queue that comes after them.
LEMMA OneAfterTheOther ==
  ASSUME NEW t \in Tests, t = test, NEW i \in QueueIds(t),
         NEW g \in Seq(Texts), NEW u \in Seq(Msgs),
         AllSent(i, g), AllSent(i, u), Sorted(t, i, g), Sorted(t, i, u), Before(t, i, g, u)
  PROVE  InOrder(i, g \o u)
<1> SUFFICES ASSUME NEW j \in DOMAIN (g \o u), NEW k \in DOMAIN (g \o u), j < k,
                    (g \o u)[j] # Mail!NoMsg, (g \o u)[k] # Mail!NoMsg
             PROVE  \E m, n \in DOMAIN buf[i] :
                      m < n /\ (g \o u)[j] = buf[i][m] /\ (g \o u)[k] = buf[i][n]
  BY DEF InOrder
<1> DEFINE gu == g \o u
           lg == Len(g)
           lu == Len(u)
<1>1. /\ lg \in Nat /\ lu \in Nat /\ DOMAIN g = 1..lg /\ DOMAIN u = 1..lu
      /\ gu \in Seq(Texts \cup Msgs) /\ Len(gu) = lg + lu
      /\ \A a \in 1..lg + lu : gu[a] = IF a <= lg THEN g[a] ELSE u[a - lg]
  <2>1. g \in Seq(Texts \cup Msgs) /\ u \in Seq(Texts \cup Msgs)
    BY DEF Texts
  <2> QED
    BY <2>1, ConcatProperties, LenProperties
<1>2. DOMAIN gu = 1..lg + lu
  BY <1>1, LenProperties
<1> HIDE DEF gu, lg, lu
<1>3. j \in 1..lg + lu /\ k \in 1..lg + lu /\ gu[j] # Mail!NoMsg /\ gu[k] # Mail!NoMsg
  BY <1>2 DEF gu
<1>4. ASSUME NEW a \in 1..lg + lu, gu[a] # Mail!NoMsg
      PROVE  \/ a <= lg /\ a \in Real(g) /\ gu[a] = g[a]
             \/ a > lg /\ a - lg \in Real(u) /\ a - lg \in DOMAIN u /\ gu[a] = u[a - lg]
  <2>1. CASE a <= lg
    <3>1. gu[a] = g[a] /\ a \in DOMAIN g
      BY <1>1, <2>1
    <3> QED
      BY <1>4, <2>1, <3>1 DEF Real
  <2>2. CASE ~(a <= lg)
    <3>1. gu[a] = u[a - lg] /\ a - lg \in DOMAIN u /\ a > lg
      BY <1>1, <2>2
    <3> QED
      BY <1>4, <3>1 DEF Real
  <2> QED
    BY <2>1, <2>2
<1>5. /\ \/ j <= lg /\ j \in Real(g) /\ gu[j] = g[j]
         \/ j > lg /\ j - lg \in Real(u) /\ gu[j] = u[j - lg]
      /\ \/ k <= lg /\ k \in Real(g) /\ gu[k] = g[k]
         \/ k > lg /\ k - lg \in Real(u) /\ k - lg \in DOMAIN u /\ gu[k] = u[k - lg]
  BY <1>3, <1>4
<1>6. Sent(i, gu[j]) /\ Sent(i, gu[k])
  BY <1>5 DEF AllSent
<1>7. Sooner(t, i, gu[j], gu[k])
  <2>1. CASE k <= lg
    <3>1. j \in Real(g) /\ k \in Real(g) /\ gu[j] = g[j] /\ gu[k] = g[k]
      BY <1>1, <1>3, <1>5, <2>1
    <3> QED
      BY <3>1 DEF Sorted
  <2>2. CASE k > lg /\ j <= lg
    <3>1. j \in Real(g) /\ gu[j] = g[j] /\ k - lg \in DOMAIN u /\ gu[k] = u[k - lg]
      BY <1>1, <1>3, <1>5, <2>2
    <3> QED
      BY <3>1 DEF Before
  <2>3. CASE j > lg
    <3>1. /\ j - lg \in Real(u) /\ gu[j] = u[j - lg] /\ k - lg \in Real(u) /\ gu[k] = u[k - lg]
          /\ j - lg < k - lg
      BY <1>1, <1>3, <1>5, <2>3
    <3> QED
      BY <3>1 DEF Sorted
  <2> QED
    BY <1>1, <1>3, <2>1, <2>2, <2>3
<1>8. PICK m \in 1..Size(t) : buf[i][m] = gu[j]
  BY <1>6 DEF Sent
<1>9. PICK n \in 1..Size(t) : buf[i][n] = gu[k]
  BY <1>6 DEF Sent
<1>10. m < n
  BY <1>7, <1>8, <1>9 DEF Sooner
<1>11. m \in DOMAIN buf[i] /\ n \in DOMAIN buf[i]
  <2>1. buf[i] \in Seq(Msgs) /\ m \in 1..Len(buf[i]) /\ n \in 1..Len(buf[i])
    BY TestNumbers
  <2> QED
    BY <2>1, LenProperties
<1> QED
  BY <1>8, <1>9, <1>10, <1>11 DEF gu

LEMMA OrderIsDelivery ==
  ASSUME SysInv, Bookkeeping, NeverFaults, MailTracked, FlowInv
  PROVE  DeliveredInOrder
<1>1. test \in Tests /\ read \in [Pcb -> Seq(Texts)] /\ pid \in [Pcb -> Pid]
  BY DEF Bookkeeping, TestTyped, Texts, SysInv, AlwaysInv, Inv, StateTyped
<1> SUFFICES ASSUME NEW b \in Pcb, pid[b] > 1, NEW i, i = QueueId(b),
                    NEW u, u = Unread(i)
             PROVE  InOrder(i, read[b] \o u)
  BY DEF DeliveredInOrder
<1>2. i \in QueueIds(test)
  BY <1>1, ChildQueues
<1>3. /\ AllSent(i, Got(b)) /\ Sorted(test, i, Got(b))
      /\ \A q \in DOMAIN resources_list :
           resources_list[q].id = i => Before(test, i, Got(b), messages[q])
  BY DEF FlowInv, ReadsSorted
<1>4. /\ AllSent(i, read[b]) /\ Sorted(test, i, read[b])
      /\ \A q \in DOMAIN resources_list :
           resources_list[q].id = i => Before(test, i, read[b], messages[q])
  <2>1. CASE Got(b) = read[b]
    BY <1>3, <2>1
  <2>2. CASE Got(b) = Append(read[b], syscall_arg1[b])
    <3>1. read[b] \in Seq(Texts) /\ syscall_arg1[b] \in Texts
      <4>1. syscall_arg1[b] \in Texts
        BY DEF SysInv, MailSound, Texts, MP!NoMsg, Mail!NoMsg
      <4> QED
        BY <1>1, <4>1
    <3> QED
      BY <1>3, <2>2, <3>1, OneMore
  <2> QED
    BY <2>1, <2>2 DEF Got
<1>5. u \in Seq(Msgs) /\ AllSent(i, u) /\ Sorted(test, i, u) /\ Before(test, i, read[b], u)
  <2>1. CASE u = <<>>
    BY <2>1 DEF AllSent, Sorted, Before, Real
  <2>2. CASE u # <<>>
    <3>1. PICK q \in DOMAIN resources_list : resources_list[q].id = i /\ u = messages[q]
      <4>1. \E q \in Mail!Queues : resources_list[q].id = i
        BY <2>2 DEF Unread
      <4>2. Mail!Block(i) \in Mail!Queues /\ resources_list[Mail!Block(i)].id = i
        BY <4>1 DEF Mail!Block
      <4>3. Mail!Block(i) \in DOMAIN resources_list
        BY <4>2 DEF Mail!Queues, Mail!Listed
      <4> QED
        BY <4>1, <4>2, <4>3 DEF Unread
    <3>2. messages[q] \in Seq(Msgs)
      <4>1. q \in MP!MqBlock
        BY DEF MailTracked, QueuesOfTest
      <4> QED
        BY <4>1 DEF SysInv, MailSound, MP!MessagesTyped
    <3>3. AllSent(i, u) /\ Sorted(test, i, u)
      BY <3>1 DEF FlowInv, QueuesSorted
    <3> QED
      BY <1>4, <3>1, <3>2, <3>3
  <2> QED
    BY <2>1, <2>2
<1>6. PICK t, g : t = test /\ g = read[b] /\ g \in Seq(Texts)
  BY <1>1
<1>7. t \in Tests /\ i \in QueueIds(t)
  BY <1>1, <1>2, <1>6
<1>8. AllSent(i, g) /\ Sorted(t, i, g) /\ Before(t, i, g, u) /\ Sorted(t, i, u)
  BY <1>4, <1>5, <1>6
<1>9. InOrder(i, g \o u)
  BY <1>5, <1>6, <1>7, <1>8, OneAfterTheOther, Zenon
<1> QED
  BY <1>6, <1>9

\* The timer leaves the programs and the mail where they are.
LEMMA TimerLeaves ==
  ASSUME SysInv, (timer /\ UNCHANGED testVars) \/ UNCHANGED allVars
  PROVE  /\ UNCHANGED <<mail, syscall_arg1, pid, test, pc, in_call, read>>
         /\ NeverFaults' => NeverFaults
<1>1. CASE timer /\ UNCHANGED testVars
  <2>1. Inv /\ timerInterrupt /\ UNCHANGED <<syscall_arg1, mail>>
    BY <1>1 DEF SysInv, AlwaysInv, timer
  <2>2. UNCHANGED pid
    BY <2>1, TimerShape DEF Scheduled, Stopped, family
  <2>3. NeverFaults
    BY <2>1 DEF timerInterrupt, NeverFaults
  <2>4. UNCHANGED <<test, pc, in_call, read>>
    BY <1>1 DEF testVars
  <2> QED
    BY <2>1, <2>2, <2>3, <2>4
<1>2. CASE UNCHANGED allVars
  <2>1. UNCHANGED <<sysVars, testVars>>
    BY <1>2 DEF allVars
  <2>2. UNCHANGED <<mail, syscall_arg1, pid, system>>
    BY <2>1 DEF sysVars, vars, family
  <2>3. UNCHANGED <<test, pc, in_call, read>>
    BY <2>1 DEF testVars
  <2> QED
    BY <2>2, <2>3 DEF NeverFaults
<1> QED
  BY <1>1, <1>2

LEMMA OrderStep ==
  ASSUME SysInv, Bookkeeping, CleanInv, OrderInv, [TestNext]_allVars
  PROVE  OrderInv'
<1> SUFFICES ASSUME NeverFaults' PROVE FlowInv' /\ FilesInv'
  BY DEF OrderInv
<1>1. ASSUME NeverFaults
      PROVE  MailTracked /\ FlowInv /\ FilesInv
  BY <1>1 DEF CleanInv, OrderInv
<1>2. CASE Trap
  <2>1. NeverFaults
    BY <1>2, Callers DEF Trap
  <2> QED
    BY <1>1, <1>2, <2>1, FlowTrap, FilesTrap
<1>3. CASE Return
  <2>1. NeverFaults
    BY <1>3, Callers DEF Return
  <2> QED
    BY <1>1, <1>3, <2>1, OrderReturn
<1>4. CASE (timer /\ UNCHANGED testVars) \/ UNCHANGED allVars
  BY <1>1, <1>4, TimerLeaves, OrderStays
<1> QED
  BY <1>2, <1>3, <1>4 DEF TestNext, Step

\* A fault changes nothing of what has been delivered.
LEMMA DeliveredStays ==
  ASSUME SysInv, Bookkeeping, DeliveredInOrder, [TestNext]_allVars, ~NeverFaults'
  PROVE  DeliveredInOrder'
<1>1. UNCHANGED <<pid, mail, test, read>>
  <2>1. CASE Trap
    <3>1. UNCHANGED <<test, read>>
      BY <2>1 DEF Trap
    <3> QED
      BY <2>1, <3>1, ArgKept
  <2>2. CASE Return
    <3>1. UNCHANGED sysVars /\ NeverFaults
      BY <2>2, Callers DEF Return
    <3>2. UNCHANGED system
      BY <3>1 DEF sysVars, vars
    <3> QED
      BY <3>1, <3>2 DEF NeverFaults
  <2>3. CASE (timer /\ UNCHANGED testVars) \/ UNCHANGED allVars
    BY <2>3, TimerLeaves
  <2> QED
    BY <2>1, <2>2, <2>3 DEF TestNext, Step
<1>2. UNCHANGED <<resources_list, messages>>
  BY <1>1 DEF mail
<1>3. /\ \A b \in Pcb : pid'[b] = pid[b] /\ read'[b] = read[b] /\ (QueueId(b))' = QueueId(b)
      /\ \A i : (Unread(i))' = Unread(i)
  <2>1. (Mail!Queues)' = Mail!Queues
    BY <1>2 DEF Mail!Queues, Mail!Listed
  <2>2. \A i : (Mail!Block(i))' = Mail!Block(i)
    BY <1>2, <2>1 DEF Mail!Block
  <2> QED
    BY <1>1, <1>2, <2>1, <2>2 DEF QueueId, Unread
<1> QED
  BY <1>3 DEF DeliveredInOrder

\* In both programs each child finds the messages of its queue in the order in
\* which init sends them, and none twice: what it has read and then what it has
\* still to read, through every block, lost result and shutdown.
THEOREM MessagesInOrder == TestSpec => []DeliveredInOrder
<1> DEFINE J == TestInv /\ CleanInv /\ OrderInv
<1>1. TestInit => J /\ NeverFaults
  BY BookInit, CleanInit, OrderInit DEF TestInv, TestInit, SysInit, Init, NeverFaults
<1>2. J /\ [TestNext]_allVars => J'
  <2> SUFFICES ASSUME J, [TestNext]_allVars PROVE J'
    OBVIOUS
  <2> QED
    BY BookStep, TestKeeps, CleanStep, OrderStep DEF TestInv, StepKeeps
<1>3. J /\ NeverFaults => DeliveredInOrder
  BY OrderIsDelivery DEF TestInv, CleanInv, OrderInv
<1>4. J /\ DeliveredInOrder /\ [TestNext]_allVars /\ ~NeverFaults' => DeliveredInOrder'
  BY DeliveredStays DEF TestInv
<1> QED
  BY <1>1, <1>2, <1>3, <1>4, PTL DEF TestSpec

=============================================================================
