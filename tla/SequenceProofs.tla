--------------------------- MODULE SequenceProofs ---------------------------
(***************************************************************************)
(* Lemmas about sequences: how a loop over one is reasoned about, how its  *)
(* parts are put together, and what the operators of QueueOps return,      *)
(* position by position, for every queue size.  S is any set of values     *)
(* that a sequence may hold.                                               *)
(*                                                                         *)
(* What a loop computes is shown by induction over its turns.  SetInd gets *)
(* that induction from a library theorem that takes no operator as a       *)
(* parameter: strict inclusion of finite sets is well founded.             *)
(***************************************************************************)
EXTENDS QueueOps, SequenceTheorems, FiniteSetTheorems, WellFoundedInduction, TLAPS

-----------------------------------------------------------------------------
(* Induction over numbers, loops and sequences. *)

(* Induction over the numbers, from no strictly descending chain of finite sets. *)
LEMMA SetInd ==
  ASSUME NEW S, 0 \in S, \A n \in Nat : n \in S => n + 1 \in S
  PROVE  Nat \subseteq S
<1> DEFINE Bad == {n \in Nat : n \notin S}
<1> DEFINE T == {0..n : n \in Bad}
<1> DEFINE R == StrictSubsetOrdering(Nat)
<1>1. IsWellFoundedOn(R, FiniteSubsetsOf(Nat))
  BY FS_StrictSubsetOrderingWellFounded
<1>2. SUFFICES ASSUME Bad # {} PROVE FALSE
  OBVIOUS
<1>3. T \subseteq FiniteSubsetsOf(Nat) /\ T # {}
  <2>1. ASSUME NEW n \in Bad PROVE 0..n \in FiniteSubsetsOf(Nat)
    <3>1. n \in Int /\ 0 \in Int
      OBVIOUS
    <3>2. IsFiniteSet(0..n)
      BY <3>1, FS_Interval
    <3> QED
      BY <3>2 DEF FiniteSubsetsOf
  <2>2. PICK n \in Bad : TRUE
    BY <1>2
  <2>3. 0..n \in T
    OBVIOUS
  <2> HIDE DEF Bad
  <2>4. T \subseteq FiniteSubsetsOf(Nat)
    BY <2>1
  <2> QED
    BY <2>3, <2>4
<1>4. PICK x \in T : \A y \in T : ~ (<<y, x>> \in R)
  <2> HIDE DEF T, R
  <2> QED
    BY <1>1, <1>3, WFMin
<1>5. PICK n \in Bad : x = 0..n
  OBVIOUS
<1>6. n # 0 /\ n - 1 \in Bad
  OBVIOUS
<1>7. 0..(n-1) \in T /\ 0..(n-1) \subseteq 0..n /\ 0..(n-1) # 0..n /\ 0..(n-1) \subseteq Nat /\ 0..n \subseteq Nat
  BY <1>6
<1>8. <<0..(n-1), x>> \in R
  BY <1>5, <1>7, FS_Interval DEF StrictSubsetOrdering
<1> QED
  BY <1>4, <1>7, <1>8

(* N turns of a loop whose k-th turn is F[k], on states T from x0 on. *)
IsLoop(N, T, x0, F) == N \in Nat /\ x0 \in T /\ F \in [1..N -> [T -> T]]

Runs(N, T, x0, F, g) ==
  g \in [0..N -> T] /\ g[0] = x0 /\ \A k \in 1..N : g[k] = F[k][g[k - 1]]

(* Every such loop runs. *)
LEMMA LoopRuns ==
  ASSUME NEW N, NEW T, NEW x0, NEW F, IsLoop(N, T, x0, F)
  PROVE  \E g : Runs(N, T, x0, F, g)
<1>0. N \in Nat /\ x0 \in T /\ F \in [1..N -> [T -> T]]
  BY DEF IsLoop
<1> DEFINE Upto(n) == \E g \in [0..n -> T] : g[0] = x0 /\ \A k \in 1..n : g[k] = F[k][g[k - 1]]
<1> DEFINE S == {n \in Nat : n <= N => Upto(n)}
<1>1. 0 \in S
  <2> DEFINE g == [k \in 0..0 |-> x0]
  <2>1. g \in [0..0 -> T] /\ g[0] = x0
    BY <1>0
  <2>2. \A k \in 1..0 : g[k] = F[k][g[k - 1]]
    OBVIOUS
  <2> HIDE DEF g
  <2>3. Upto(0)
    BY <2>1, <2>2
  <2> QED
    BY <2>3
<1>2. ASSUME NEW n \in Nat, n \in S PROVE n + 1 \in S
  <2>1. SUFFICES ASSUME n + 1 <= N PROVE Upto(n + 1)
    OBVIOUS
  <2>2. PICK g \in [0..n -> T] : g[0] = x0 /\ \A k \in 1..n : g[k] = F[k][g[k - 1]]
    BY <1>0, <1>2, <2>1
  <2> DEFINE h == [k \in 0..(n + 1) |-> IF k = n + 1 THEN F[n + 1][g[n]] ELSE g[k]]
  <2>3. F[n + 1] \in [T -> T] /\ g[n] \in T
    BY <1>0, <2>1
  <2>4. h \in [0..(n + 1) -> T]
    BY <2>3
  <2>5. h[0] = x0
    BY <2>2
  <2>6. ASSUME NEW k \in 1..(n + 1) PROVE h[k] = F[k][h[k - 1]]
    <3>1. CASE k = n + 1
      BY <3>1
    <3>2. CASE k # n + 1
      <4>1. k \in 1..n /\ k \in 0..n /\ k - 1 \in 0..n
        BY <3>2
      <4>2. h[k] = g[k] /\ h[k - 1] = g[k - 1]
        BY <4>1
      <4> QED
        BY <4>1, <4>2, <2>2
    <3> QED
      BY <3>1, <3>2
  <2> HIDE DEF h
  <2> QED
    BY <2>4, <2>5, <2>6
<1>3. N \in S
  <2> HIDE DEF S
  <2> QED
    BY <1>0, <1>1, <1>2, SetInd
<1> QED
  BY <1>0, <1>3 DEF Runs

(* What holds at first and after every turn holds to the end. *)
LEMMA LoopInd ==
  ASSUME NEW N \in Nat, NEW P, 0 \in P, \A k \in 1..N : k - 1 \in P => k \in P
  PROVE  0..N \subseteq P
<1> DEFINE S == {n \in Nat : n <= N => n \in P}
<1>1. 0 \in S
  OBVIOUS
<1>2. ASSUME NEW n \in Nat, n \in S PROVE n + 1 \in S
  <2>1. CASE n + 1 <= N
    <3>1. n + 1 \in 1..N /\ (n + 1) - 1 = n /\ n \in P
      BY <1>2, <2>1
    <3> QED
      BY <3>1
  <2> QED
    BY <2>1
<1>3. Nat \subseteq S
  <2> HIDE DEF S
  <2> QED
    BY <1>1, <1>2, SetInd
<1> QED
  BY <1>3

(* What holds of the empty sequence and stays with every element holds of all. *)
LEMMA SeqInd ==
  ASSUME NEW S, NEW P, <<>> \in P,
         \A s \in Seq(S), x \in S : s \in P => Append(s, x) \in P
  PROVE  Seq(S) \subseteq P
<1> DEFINE Q == {n \in Nat : \A s \in Seq(S) : Len(s) = n => s \in P}
<1>1. 0 \in Q
  <2>1. \A s \in Seq(S) : Len(s) = 0 => s = <<>>
    OBVIOUS
  <2> QED
    BY <2>1
<1>2. ASSUME NEW n \in Nat, n \in Q PROVE n + 1 \in Q
  <2>1. SUFFICES ASSUME NEW s \in Seq(S), Len(s) = n + 1 PROVE s \in P
    OBVIOUS
  <2> DEFINE t == SubSeq(s, 1, n)
  <2>2. t \in Seq(S) /\ Len(t) = n /\ s[n + 1] \in S /\ s = Append(t, s[n + 1])
    BY <2>1
  <2> HIDE DEF t
  <2>3. t \in P
    BY <1>2, <2>2
  <2> QED
    BY <2>2, <2>3
<1>3. Nat \subseteq Q
  <2> HIDE DEF Q
  <2> QED
    BY <1>1, <1>2, SetInd
<1> QED
  BY <1>3

-----------------------------------------------------------------------------
(* Parts of sequences and what they are put together from. *)

(* A part of a sequence, element by element. *)
LEMMA SubSeqIs ==
  ASSUME NEW S, NEW s \in Seq(S), NEW a \in 1..(Len(s) + 1), NEW b \in (a - 1)..Len(s)
  PROVE  /\ SubSeq(s, a, b) \in Seq(S) /\ Len(SubSeq(s, a, b)) = b - a + 1
         /\ \A i \in 1..(b - a + 1) : SubSeq(s, a, b)[i] = s[a + i - 1]
<1>1. a \in Nat /\ b \in Nat /\ Len(s) \in Nat
  OBVIOUS
<1>2. SubSeq(s, a, b) = [i \in 1..(b - a + 1) |-> s[a + i - 1]]
  BY <1>1
<1>3. b - a + 1 \in Nat /\ \A i \in 1..(b - a + 1) : s[a + i - 1] \in S
  BY <1>1
<1> QED
  BY <1>2, <1>3

(* A sequence of members of a set is one of a larger set's. *)
LEMMA SeqWithin ==
  ASSUME NEW S, NEW T, S \subseteq T, NEW s \in Seq(S) PROVE s \in Seq(T)
<1>1. Len(s) \in Nat /\ \A i \in 1..Len(s) : s[i] \in T
  OBVIOUS
<1>2. s = [i \in 1..Len(s) |-> s[i]]
  OBVIOUS
<1> QED
  BY <1>1, <1>2

(* What concatenation does, for byte strings. *)
LEMMA ConcatIs ==
  \A u, v, w \in Seq(Nat) :
    /\ (u \o v) \o w = u \o (v \o w)
    /\ u \o v \in Seq(Nat) /\ Len(u \o v) = Len(u) + Len(v)
    /\ \A i \in 1..Len(u) : (u \o v)[i] = u[i]
    /\ \A i \in 1..Len(v) : (u \o v)[Len(u) + i] = v[i]
<1> TAKE u, v, w \in Seq(Nat)
<1>1. (u \o v) \o w = u \o (v \o w)
  BY ConcatAssociative
<1> QED
  BY <1>1

(* Appending to what is appended. *)
LEMMA AppendToConcat ==
  ASSUME NEW S, NEW s \in Seq(S), NEW t \in Seq(S), NEW x \in S
  PROVE  s \o Append(t, x) = Append(s \o t, x)
<1>1. <<x>> \in Seq(S) /\ s \o t \in Seq(S)
  BY ConcatProperties
<1>2. Append(t, x) = t \o <<x>> /\ Append(s \o t, x) = (s \o t) \o <<x>>
  BY <1>1, AppendIsConcat
<1> QED
  BY <1>1, <1>2, ConcatAssociative

(* Appending one after the other. *)
LEMMA AppendTwo ==
  ASSUME NEW S, NEW u \in Seq(S), NEW x \in S, NEW y \in S
  PROVE  Append(Append(u, x), y) = u \o <<x, y>>
<1>1. Append(u, x) \in Seq(S) /\ Append(Append(u, x), y) \in Seq(S) /\ <<x, y>> \in Seq(S) /\ u \o <<x, y>> \in Seq(S)
  BY AppendProperties, ConcatProperties
<1>2. Len(u) \in Nat /\ Len(<<x, y>>) = 2 /\ <<x, y>>[1] = x /\ <<x, y>>[2] = y
  OBVIOUS
<1>3. /\ Len(Append(Append(u, x), y)) = Len(u) + 2 /\ Len(u \o <<x, y>>) = Len(u) + 2
  BY <1>1, <1>2
<1>4. ASSUME NEW i \in 1..(Len(u) + 2) PROVE Append(Append(u, x), y)[i] = (u \o <<x, y>>)[i]
  BY <1>1, <1>2
<1> QED
  BY <1>1, <1>3, <1>4, SeqEqual

(* A piece of a sequence that is put together. *)
LEMMA PieceIs ==
  ASSUME NEW S, NEW a \in Seq(S), NEW b \in Seq(S), NEW c \in Seq(S)
  PROVE  SubSeq(a \o b \o c, Len(a) + 1, Len(a) + Len(b)) = b
<1> DEFINE s == a \o b \o c
           t == SubSeq(s, Len(a) + 1, Len(a) + Len(b))
<1>1. /\ a \o b \in Seq(S) /\ Len(a \o b) = Len(a) + Len(b)
      /\ \A i \in 1..Len(b) : (a \o b)[Len(a) + i] = b[i]
  OBVIOUS
<1>2. /\ s \in Seq(S) /\ Len(s) = Len(a) + Len(b) + Len(c)
      /\ \A i \in 1..Len(a \o b) : s[i] = (a \o b)[i]
  BY <1>1
<1>3. Len(a) \in Nat /\ Len(b) \in Nat /\ Len(c) \in Nat
  OBVIOUS
<1> HIDE DEF s
<1>4. Len(a) + 1 \in 1..(Len(s) + 1) /\ Len(a) + Len(b) \in ((Len(a) + 1) - 1)..Len(s)
      /\ Len(a) + Len(b) - (Len(a) + 1) + 1 = Len(b)
  BY <1>2, <1>3
<1>5. /\ t \in Seq(S) /\ Len(t) = Len(b)
      /\ \A i \in 1..Len(b) : t[i] = s[(Len(a) + 1) + i - 1]
  BY <1>2, <1>4, SubSeqIs
<1>6. ASSUME NEW i \in 1..Len(b) PROVE t[i] = b[i]
  <2>1. (Len(a) + 1) + i - 1 = Len(a) + i /\ Len(a) + i \in 1..Len(a \o b)
    BY <1>1, <1>3
  <2> QED
    BY <1>1, <1>2, <1>5, <2>1
<1>7. t = b
  BY <1>5, <1>6, SeqEqual
<1> QED
  BY <1>7 DEF s

-----------------------------------------------------------------------------
(* The operators of QueueOps. *)

LEMMA EnqueueIs ==
  ASSUME NEW S, NEW q \in Seq(S), NEW m \in S
  PROVE  /\ Enqueue(q, m) \in Seq(S)
         /\ Len(Enqueue(q, m)) = IF Full(q) THEN Len(q) ELSE Len(q) + 1
         /\ \A i \in 1..Len(Enqueue(q, m)) :
              Enqueue(q, m)[i] = IF i = Len(Enqueue(q, m)) THEN m
                                 ELSE IF Full(q) THEN q[i + 1] ELSE q[i]
<1> DEFINE rest == IF Full(q) THEN Tail(q) ELSE q
<1>1. /\ rest \in Seq(S)
      /\ Len(rest) = IF Full(q) THEN Len(q) - 1 ELSE Len(q)
      /\ \A i \in 1..Len(rest) : rest[i] = IF Full(q) THEN q[i + 1] ELSE q[i]
  <2>1. CASE Full(q)
    <3>1. q # <<>>
      BY <2>1, QueueSizeAssumption DEF Full
    <3> QED BY <2>1, <3>1, HeadTailProperties
  <2>2. CASE ~Full(q)
    BY <2>2
  <2> QED BY <2>1, <2>2
<1>2. Enqueue(q, m) = Append(rest, m)
  BY DEF Enqueue
<1> HIDE DEF rest
<1>3. /\ Enqueue(q, m) \in Seq(S)
      /\ Len(Enqueue(q, m)) = Len(rest) + 1
      /\ \A i \in 1..Len(rest) : Enqueue(q, m)[i] = rest[i]
      /\ Enqueue(q, m)[Len(rest) + 1] = m
  BY <1>1, <1>2, AppendProperties
<1>4. Len(q) \in Nat /\ Len(rest) \in Nat
  BY <1>1, LenProperties
<1> HIDE DEF Enqueue
<1> QED BY <1>1, <1>3, <1>4

LEMMA RequeueFrontIs ==
  ASSUME NEW S, NEW q \in Seq(S), NEW m \in S
  PROVE  /\ RequeueFront(q, m) \in Seq(S)
         /\ Len(RequeueFront(q, m)) = IF Full(q) THEN Len(q) ELSE Len(q) + 1
         /\ \A i \in 1..Len(RequeueFront(q, m)) :
              RequeueFront(q, m)[i] = IF i = 1 THEN m ELSE q[i - 1]
<1> DEFINE rest == IF Full(q) THEN SubSeq(q, 1, Len(q) - 1) ELSE q
<1>1. /\ rest \in Seq(S)
      /\ Len(rest) = IF Full(q) THEN Len(q) - 1 ELSE Len(q)
      /\ \A i \in 1..Len(rest) : rest[i] = q[i]
  <2>1. CASE Full(q)
    <3>1. Len(q) \in Nat /\ Len(q) >= 1
      BY <2>1, QueueSizeAssumption DEF Full
    <3>2. rest = SubSeq(q, 1, Len(q) - 1)
      BY <2>1
    <3>3. \A i \in 1..(Len(q) - 1) : q[i] \in S
      BY <3>1, ElementOfSeq
    <3>4. /\ SubSeq(q, 1, Len(q) - 1) \in Seq(S)
          /\ Len(SubSeq(q, 1, Len(q) - 1)) = Len(q) - 1
          /\ \A i \in 1..(Len(q) - 1) : SubSeq(q, 1, Len(q) - 1)[i] = q[i]
      <4> DEFINE n == Len(q) - 1
      <4>1. n \in Nat
        BY <3>1
      <4>2. \A i \in 1..n : q[i] \in S
        BY <3>3
      <4> HIDE DEF n
      <4>3. /\ SubSeq(q, 1, n) \in Seq(S)
            /\ Len(SubSeq(q, 1, n)) = IF 1 <= n THEN n - 1 + 1 ELSE 0
            /\ \A i \in 1..(n - 1 + 1) : SubSeq(q, 1, n)[i] = q[1 + i - 1]
        <5>1. n \in Int /\ 1 \in Int
          BY <4>1
        <5> QED BY <4>2, <5>1, SubSeqProperties
      <4>4. \A i \in 1..n : 1 + i - 1 = i /\ i \in 1..(n - 1 + 1)
        BY <4>1
      <4>5. /\ SubSeq(q, 1, n) \in Seq(S)
            /\ Len(SubSeq(q, 1, n)) = n
            /\ \A i \in 1..n : SubSeq(q, 1, n)[i] = q[i]
        BY <4>1, <4>3, <4>4
      <4> QED BY <4>5 DEF n
    <3> QED BY <2>1, <3>1, <3>2, <3>4
  <2>2. CASE ~Full(q)
    BY <2>2
  <2> QED BY <2>1, <2>2
<1>2. <<m>> \in Seq(S) /\ Len(<<m>>) = 1 /\ <<m>>[1] = m
  OBVIOUS
<1>3. RequeueFront(q, m) = <<m>> \o rest
  BY DEF RequeueFront
<1> HIDE DEF rest
<1>4. /\ <<m>> \o rest \in Seq(S)
      /\ Len(<<m>> \o rest) = 1 + Len(rest)
      /\ \A i \in 1..(1 + Len(rest)) :
           (<<m>> \o rest)[i] = IF i <= 1 THEN <<m>>[i] ELSE rest[i - 1]
  BY <1>1, <1>2, ConcatProperties
<1>5. Len(q) \in Nat /\ Len(rest) \in Nat
  BY <1>1, LenProperties
<1>6. \A i \in 1..(1 + Len(rest)) :
        RequeueFront(q, m)[i] = IF i = 1 THEN m ELSE q[i - 1]
  <2> TAKE i \in 1..(1 + Len(rest))
  <2>1. CASE i = 1
    BY <1>2, <1>3, <1>4, <1>5, <2>1
  <2>2. CASE i # 1
    <3>1. i - 1 \in 1..Len(rest) /\ ~(i <= 1)
      BY <1>5, <2>2
    <3> QED BY <1>1, <1>3, <1>4, <2>2, <3>1
  <2> QED BY <2>1, <2>2
<1> QED BY <1>1, <1>3, <1>4, <1>5, <1>6

(* Dropping the chat messages leaves a subsequence. *)
LEMMA RedemptionsAre ==
  ASSUME NEW S, NEW q \in Seq(S), NEW k \in RedemptionsOf(q)
  PROVE  /\ k \in Seq(S)
         /\ Len(k) <= Len(q)
         /\ \E f \in [1..Len(k) -> 1..Len(q)] :
              /\ \A i, j \in 1..Len(k) : i < j => f[i] < f[j]
              /\ \A i \in 1..Len(k) : k[i] = q[f[i]]
<1> DEFINE kept == {i \in 1..Len(q) : q[i] \notin FromChat}
<1>0. PICK n \in 0..Len(q) : \E f \in InOrder(kept, n) : k = [j \in 1..n |-> q[f[j]]]
  BY DEF RedemptionsOf
<1>1. PICK f \in InOrder(kept, n) : k = [j \in 1..n |-> q[f[j]]]
  BY <1>0
<1>2. /\ f \in [1..n -> 1..Len(q)]
      /\ \A i, j \in 1..n : i < j => f[i] < f[j]
  BY DEF InOrder
<1>3. \A j \in 1..n : q[f[j]] \in S
  BY <1>2, ElementOfSeq
<1>4. n \in Nat /\ n <= Len(q)
  BY LenProperties
<1>5. k \in Seq(S) /\ Len(k) = n
  BY <1>1, <1>3, <1>4
<1>6. \A i \in 1..n : k[i] = q[f[i]]
  BY <1>1
<1> QED BY <1>2, <1>4, <1>5, <1>6

-----------------------------------------------------------------------------
(* A queue that holds every message once, and what each operation makes of it. *)
Distinct(q) == \A i, j \in 1..Len(q) : q[i] = q[j] => i = j

LEMMA EnqueueDistinct ==
  ASSUME NEW S, NEW q \in Seq(S), NEW m \in S, m \notin Queued(q), Distinct(q)
  PROVE  /\ Distinct(Enqueue(q, m))
         /\ Queued(Enqueue(q, m)) \subseteq Queued(q) \cup {m}
         /\ Len(q) <= QueueSize => Len(Enqueue(q, m)) <= QueueSize
<1> DEFINE r == Enqueue(q, m)
<1>1. /\ r \in Seq(S)
      /\ Len(r) = IF Full(q) THEN Len(q) ELSE Len(q) + 1
      /\ \A i \in 1..Len(r) :
           r[i] = IF i = Len(r) THEN m ELSE IF Full(q) THEN q[i + 1] ELSE q[i]
  BY EnqueueIs
<1> HIDE DEF r
<1>2. Len(q) \in Nat /\ Len(r) \in Nat
  BY <1>1, LenProperties
<1>3. \A i \in 1..Len(q) : q[i] # m
  BY DEF Queued
<1> DEFINE was(i) == IF Full(q) THEN i + 1 ELSE i
<1>4. \A i \in 1..Len(r) : i # Len(r) => was(i) \in 1..Len(q) /\ r[i] = q[was(i)]
  BY <1>1, <1>2
<1>5. \A i \in 1..Len(r) : i = Len(r) => r[i] = m
  BY <1>1
<1>6. Distinct(r)
  <2> SUFFICES ASSUME NEW i \in 1..Len(r), NEW j \in 1..Len(r), r[i] = r[j] PROVE i = j
    BY DEF Distinct
  <2>1. CASE i # Len(r) /\ j # Len(r)
    <3>1. was(i) = was(j)
      BY <1>4, <2>1 DEF Distinct
    <3> QED BY <1>2, <3>1
  <2>2. CASE i = Len(r) \/ j = Len(r)
    BY <1>3, <1>4, <1>5, <2>2
  <2> QED BY <2>1, <2>2
<1>7. Queued(r) \subseteq Queued(q) \cup {m}
  <2> SUFFICES ASSUME NEW i \in 1..Len(r) PROVE r[i] \in Queued(q) \cup {m}
    BY DEF Queued
  <2>1. CASE i = Len(r)
    BY <1>5, <2>1
  <2>2. CASE i # Len(r)
    <3>1. was(i) \in 1..Len(q) /\ r[i] = q[was(i)]
      BY <1>4, <2>2
    <3> HIDE DEF was
    <3> QED BY <3>1 DEF Queued
  <2> QED BY <2>1, <2>2
<1>8. Len(q) <= QueueSize => Len(r) <= QueueSize
  BY <1>1, <1>2, QueueSizeAssumption DEF Full
<1> QED BY <1>6, <1>7, <1>8 DEF r

LEMMA RequeueFrontDistinct ==
  ASSUME NEW S, NEW q \in Seq(S), NEW m \in S, m \notin Queued(q), Distinct(q)
  PROVE  Distinct(RequeueFront(q, m))
<1> DEFINE r == RequeueFront(q, m)
<1>1. /\ r \in Seq(S)
      /\ Len(r) = IF Full(q) THEN Len(q) ELSE Len(q) + 1
      /\ \A i \in 1..Len(r) : r[i] = IF i = 1 THEN m ELSE q[i - 1]
  BY RequeueFrontIs
<1> HIDE DEF r
<1>2. Len(q) \in Nat /\ Len(r) \in Nat
  BY <1>1, LenProperties
<1>3. \A i \in 1..Len(q) : q[i] # m
  BY DEF Queued
<1>4. \A i \in 1..Len(r) : i # 1 => i - 1 \in 1..Len(q) /\ r[i] = q[i - 1]
  BY <1>1, <1>2
<1>5. \A i \in 1..Len(r) : i = 1 => r[i] = m
  BY <1>1
<1>6. Distinct(r)
  <2> SUFFICES ASSUME NEW i \in 1..Len(r), NEW j \in 1..Len(r), r[i] = r[j] PROVE i = j
    BY DEF Distinct
  <2>1. CASE i # 1 /\ j # 1
    <3>1. i - 1 = j - 1
      BY <1>4, <2>1 DEF Distinct
    <3> QED BY <1>2, <3>1
  <2>2. CASE i = 1 \/ j = 1
    BY <1>3, <1>4, <1>5, <2>2
  <2> QED BY <2>1, <2>2
<1> QED BY <1>6 DEF r

(* The interrupted message is at the head, and a full queue stays within its size. *)
LEMMA RequeueFrontHead ==
  ASSUME NEW S, NEW q \in Seq(S), NEW m \in S
  PROVE  /\ RequeueFront(q, m) # <<>>
         /\ Head(RequeueFront(q, m)) = m
         /\ Len(q) <= QueueSize => Len(RequeueFront(q, m)) <= QueueSize
<1> DEFINE r == RequeueFront(q, m)
<1>1. /\ r \in Seq(S)
      /\ Len(r) = IF Full(q) THEN Len(q) ELSE Len(q) + 1
      /\ \A i \in 1..Len(r) : r[i] = IF i = 1 THEN m ELSE q[i - 1]
  BY RequeueFrontIs
<1> HIDE DEF r
<1>2. Len(q) \in Nat /\ Len(r) \in Nat
  BY <1>1, LenProperties
<1>3. Len(r) >= 1
  BY <1>1, <1>2, QueueSizeAssumption DEF Full
<1>4. r # <<>> /\ Head(r) = r[1]
  BY <1>1, <1>3
<1>5. r[1] = m
  BY <1>1, <1>2, <1>3
<1>6. Len(q) <= QueueSize => Len(r) <= QueueSize
  BY <1>1, <1>2, QueueSizeAssumption DEF Full
<1> QED BY <1>4, <1>5, <1>6 DEF r

LEMMA RedemptionsDistinct ==
  ASSUME NEW S, NEW q \in Seq(S), NEW k \in RedemptionsOf(q), Distinct(q)
  PROVE  Distinct(k) /\ Queued(k) \subseteq Queued(q)
<1>1. PICK f \in [1..Len(k) -> 1..Len(q)] :
           /\ \A i, j \in 1..Len(k) : i < j => f[i] < f[j]
           /\ \A i \in 1..Len(k) : k[i] = q[f[i]]
  BY RedemptionsAre
<1>2. Len(k) \in Nat /\ Len(q) \in Nat
  BY RedemptionsAre, LenProperties
<1>3. Queued(k) \subseteq Queued(q)
  BY <1>1 DEF Queued
<1>4. Distinct(k)
  <2> SUFFICES ASSUME NEW i \in 1..Len(k), NEW j \in 1..Len(k), k[i] = k[j] PROVE i = j
    BY DEF Distinct
  <2>1. f[i] = f[j]
    BY <1>1 DEF Distinct
  <2>2. f[i] \in 1..Len(q) /\ ~(f[i] < f[i])
    BY <1>1, <1>2
  <2>3. ~(i < j) /\ ~(j < i)
    BY <1>1, <2>1, <2>2
  <2> QED BY <1>2, <2>3
<1> QED BY <1>3, <1>4

(* Taking the next message to speak takes it out of the queue. *)
LEMMA TailDistinct ==
  ASSUME NEW S, NEW q \in Seq(S), q # <<>>, Distinct(q)
  PROVE  /\ Head(q) \in S /\ Tail(q) \in Seq(S) /\ Len(Tail(q)) = Len(q) - 1
         /\ Distinct(Tail(q)) /\ Head(q) \notin Queued(Tail(q))
         /\ Queued(Tail(q)) \subseteq Queued(q)
<1> DEFINE r == Tail(q)
<1>1. /\ Head(q) \in S /\ r \in Seq(S) /\ Len(r) = Len(q) - 1
      /\ \A i \in 1..Len(r) : r[i] = q[i + 1]
  BY HeadTailProperties
<1> HIDE DEF r
<1>2. Len(q) \in Nat /\ Len(q) >= 1 /\ Head(q) = q[1]
  OBVIOUS
<1>3. \A i \in 1..Len(r) : i + 1 \in 1..Len(q) /\ i + 1 # 1 /\ r[i] = q[i + 1]
  BY <1>1, <1>2
<1>4. Distinct(r)
  <2> SUFFICES ASSUME NEW i \in 1..Len(r), NEW j \in 1..Len(r), r[i] = r[j] PROVE i = j
    BY DEF Distinct
  <2>1. i + 1 = j + 1
    BY <1>3 DEF Distinct
  <2> QED BY <2>1
<1>5. Head(q) \notin Queued(r)
  <2> SUFFICES ASSUME NEW i \in 1..Len(r), r[i] = Head(q) PROVE FALSE
    BY DEF Queued
  <2>1. 1 \in 1..Len(q) /\ q[i + 1] = q[1] /\ i + 1 \in 1..Len(q) /\ i + 1 # 1
    BY <1>2, <1>3
  <2> QED BY <2>1 DEF Distinct
<1>6. Queued(r) \subseteq Queued(q)
  BY <1>3 DEF Queued
<1> QED BY <1>1, <1>4, <1>5, <1>6 DEF r
=============================================================================
