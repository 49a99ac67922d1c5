-------------------------- MODULE SpeechQueueProofs --------------------------
(***************************************************************************)
(* For every ring size, every buffer limit, every table of heads and every *)
(* way the stream of a connection may be cut: the ring of RequestRing      *)
(* implements the queue of RequestQueue, the reader pushes the messages of *)
(* the whole stream and only clean texts, and the blob that is built of    *)
(* any of them is well formed and shows it.                                *)
(***************************************************************************)
EXTENDS SpeechQueue, SequenceProofs

-----------------------------------------------------------------------------
(* The greatest and the least of some positions. *)

LEMMA MaxIs ==
  ASSUME NEW N \in Nat, NEW I \in SUBSET (1..N), I # {}
  PROVE  Max(I) \in I /\ \A y \in I : Max(I) >= y
<1> DEFINE P == {k \in 0..N : \A J \in SUBSET (1..k) : J # {} => \E x \in J : \A y \in J : x >= y}
<1>1. 0 \in P
  <2>1. 1..0 = {} /\ 0 \in 0..N
    OBVIOUS
  <2> QED
    BY <2>1
<1>2. ASSUME NEW k \in 1..N, k - 1 \in P PROVE k \in P
  <2>1. SUFFICES ASSUME NEW J \in SUBSET (1..k), J # {} PROVE \E x \in J : \A y \in J : x >= y
    OBVIOUS
  <2>2. CASE k \in J
    BY <2>2
  <2>3. CASE k \notin J
    <3>1. J \in SUBSET (1..(k - 1))
      BY <2>3
    <3> QED
      BY <1>2, <2>1, <3>1
  <2> QED
    BY <2>2, <2>3
<1>3. N \in P
  <2> HIDE DEF P
  <2>1. 0..N \subseteq P
    BY <1>1, <1>2, LoopInd
  <2> QED
    BY <2>1
<1>4. \E x \in I : \A y \in I : x >= y
  BY <1>3
<1> QED
  BY <1>4 DEF Max

LEMMA MinIs ==
  ASSUME NEW N \in Nat, NEW I \in SUBSET (1..N), I # {}
  PROVE  Min(I) \in I /\ \A y \in I : Min(I) <= y
<1> DEFINE P == {k \in 0..N : \A J \in SUBSET ((N - k + 1)..N) : J # {} => \E x \in J : \A y \in J : x <= y}
<1>1. 0 \in P
  <2>1. (N - 0 + 1)..N = {} /\ 0 \in 0..N
    OBVIOUS
  <2> QED
    BY <2>1
<1>2. ASSUME NEW k \in 1..N, k - 1 \in P PROVE k \in P
  <2>1. SUFFICES ASSUME NEW J \in SUBSET ((N - k + 1)..N), J # {} PROVE \E x \in J : \A y \in J : x <= y
    OBVIOUS
  <2>2. CASE N - k + 1 \in J
    BY <2>2
  <2>3. CASE N - k + 1 \notin J
    <3>1. J \in SUBSET ((N - (k - 1) + 1)..N)
      BY <2>3
    <3> QED
      BY <1>2, <2>1, <3>1
  <2> QED
    BY <2>2, <2>3
<1>3. N \in P
  <2> HIDE DEF P
  <2>1. 0..N \subseteq P
    BY <1>1, <1>2, LoopInd
  <2> QED
    BY <2>1
<1>4. \E x \in I : \A y \in I : x <= y
  BY <1>3
<1> QED
  BY <1>4 DEF Min

-----------------------------------------------------------------------------
(* Whole sequences of bytes. *)

(* How many bytes a first byte claims. *)
LEMMA ClaimedIs ==
  ASSUME NEW b
  PROVE  Claimed(b) \in 0..4 /\ (IsContinuation(b) => Claimed(b) = 0)
  BY DEF Claimed, IsContinuation

LEMMA OneByteIs ==
  ASSUME NEW b \in Nat
  PROVE  (Claimed(b) = 1 <=> b < 128) /\ (Claimed(b) >= 1 => ~IsContinuation(b))
         /\ (Claimed(b) > 1 => b > 127)
  BY DEF Claimed, IsContinuation

(* Two whole texts make a whole text. *)
LEMMA WholeConcat ==
  ASSUME NEW a \in Seq(Nat), NEW b \in Seq(Nat), WholeSequences(a), WholeSequences(b)
  PROVE  WholeSequences(a \o b)
<1> DEFINE s == a \o b
           m == Len(a)
           n == Len(b)
<1>1. /\ m \in Nat /\ n \in Nat /\ Len(s) = m + n
      /\ \A i \in 1..m : s[i] = a[i]
      /\ \A i \in 1..n : s[m + i] = b[i]
  BY ConcatIs
<1> HIDE DEF s, m, n
<1>2. ASSUME NEW i \in 1..Len(s), IsContinuation(s[i])
      PROVE  \E k \in 1..3 : k < i /\ ~IsContinuation(s[i - k]) /\ Claimed(s[i - k]) > k
                             /\ \A j \in 1..(k - 1) : IsContinuation(s[i - j])
  <2>1. CASE i \in 1..m
    <3>1. PICK k \in 1..3 : k < i /\ ~IsContinuation(a[i - k]) /\ Claimed(a[i - k]) > k
                            /\ \A j \in 1..(k - 1) : IsContinuation(a[i - j])
      BY <1>1, <1>2, <2>1 DEF WholeSequences, m
    <3>2. i - k \in 1..m /\ \A j \in 1..(k - 1) : i - j \in 1..m
      BY <1>1, <2>1, <3>1
    <3> QED
      BY <1>1, <3>1, <3>2
  <2>2. CASE i \notin 1..m
    <3>1. i - m \in 1..n /\ m + (i - m) = i
      BY <1>1, <2>2
    <3>2. IsContinuation(b[i - m])
      BY <1>1, <1>2, <3>1
    <3>3. PICK k \in 1..3 : k < i - m /\ ~IsContinuation(b[(i - m) - k]) /\ Claimed(b[(i - m) - k]) > k
                            /\ \A j \in 1..(k - 1) : IsContinuation(b[(i - m) - j])
      BY <3>1, <3>2 DEF WholeSequences, n
    <3>4. /\ (i - m) - k \in 1..n /\ m + ((i - m) - k) = i - k /\ k < i
          /\ \A j \in 1..(k - 1) : (i - m) - j \in 1..n /\ m + ((i - m) - j) = i - j
      <4>1. i \in Nat /\ m \in Nat /\ n \in Nat /\ k \in Nat /\ i - m >= 1 /\ i - m <= n /\ k >= 1 /\ k < i - m
        BY <1>1, <3>1, <3>3
      <4>2. \A j \in 1..(k - 1) : (i - m) - j \in 1..n /\ m + ((i - m) - j) = i - j
        BY <4>1
      <4> QED
        BY <4>1, <4>2
    <3>5. s[i - k] = b[(i - m) - k] /\ \A j \in 1..(k - 1) : s[i - j] = b[(i - m) - j]
      BY <1>1, <3>4
    <3> QED
      BY <3>3, <3>4, <3>5
  <2> QED
    BY <2>1, <2>2
<1>3. ASSUME NEW i \in 1..Len(s), ~IsContinuation(s[i])
      PROVE  Claimed(s[i]) # 0
             /\ \A j \in 1..(Claimed(s[i]) - 1) : i + j <= Len(s) /\ IsContinuation(s[i + j])
  <2>1. CASE i \in 1..m
    <3>1. /\ s[i] = a[i] /\ Claimed(a[i]) # 0
          /\ \A j \in 1..(Claimed(a[i]) - 1) : i + j <= m /\ IsContinuation(a[i + j])
      BY <1>1, <1>3, <2>1 DEF WholeSequences, m
    <3>2. ASSUME NEW j \in 1..(Claimed(s[i]) - 1) PROVE i + j <= Len(s) /\ IsContinuation(s[i + j])
      <4>1. i + j <= m /\ IsContinuation(a[i + j]) /\ j \in Nat /\ j >= 1 /\ i \in Nat /\ i >= 1
        BY <3>1, ClaimedIs
      <4>2. i + j \in 1..m
        BY <1>1, <4>1
      <4> QED
        BY <1>1, <4>1, <4>2
    <3> QED
      BY <3>1, <3>2
  <2>2. CASE i \notin 1..m
    <3>1. i - m \in 1..n /\ m + (i - m) = i
      BY <1>1, <2>2
    <3>2. s[i] = b[i - m]
      BY <1>1, <3>1
    <3>3. /\ Claimed(b[i - m]) # 0
          /\ \A j \in 1..(Claimed(b[i - m]) - 1) : (i - m) + j <= n /\ IsContinuation(b[(i - m) + j])
      BY <1>3, <3>1, <3>2 DEF WholeSequences, n
    <3>4. ASSUME NEW j \in 1..(Claimed(s[i]) - 1) PROVE i + j <= Len(s) /\ IsContinuation(s[i + j])
      <4>1. (i - m) + j <= n /\ IsContinuation(b[(i - m) + j]) /\ j \in Nat /\ j >= 1
        BY <3>2, <3>3, ClaimedIs
      <4>2. (i - m) + j \in 1..n /\ m + ((i - m) + j) = i + j /\ i + j <= Len(s)
        BY <1>1, <3>1, <4>1
      <4> QED
        BY <1>1, <4>1, <4>2
    <3> QED
      BY <3>2, <3>3, <3>4
  <2> QED
    BY <2>1, <2>2
<1> QED
  BY <1>2, <1>3 DEF WholeSequences, s

(* A text and a whole character behind it. *)
LEMMA WholeJoin ==
  ASSUME NEW out \in Seq(Nat), NEW c \in Seq(Nat), WholeSequences(out), c # <<>>,
         Claimed(c[1]) = Len(c), \A j \in 1..(Len(c) - 1) : IsContinuation(c[1 + j])
  PROVE  WholeSequences(out \o c)
<1> DEFINE n == Len(c)
<1>1. n \in 1..4 /\ ~IsContinuation(c[1]) /\ Claimed(c[1]) = n
      /\ \A j \in 1..(n - 1) : IsContinuation(c[1 + j])
  <2>1. n \in Nat /\ n # 0
    OBVIOUS
  <2>2. Claimed(c[1]) = n /\ \A j \in 1..(n - 1) : IsContinuation(c[1 + j])
    OBVIOUS
  <2> HIDE DEF n
  <2>3. n \in 0..4 /\ ~IsContinuation(c[1])
    BY <2>1, <2>2, ClaimedIs
  <2> QED
    BY <2>1, <2>2, <2>3
<1> HIDE DEF n
<1>2. ASSUME NEW i \in 1..n, i # 1
      PROVE  IsContinuation(c[i]) /\ \A j \in 1..(i - 2) : IsContinuation(c[i - j])
  <2>1. ASSUME NEW p \in 2..n PROVE IsContinuation(c[p])
    <3>1. p - 1 \in 1..(n - 1) /\ 1 + (p - 1) = p
      BY <1>1
    <3> QED
      BY <1>1, <3>1
  <2>2. i \in 2..n /\ \A j \in 1..(i - 2) : i - j \in 2..n
    BY <1>1, <1>2
  <2> QED
    BY <2>1, <2>2
<1>3. ASSUME NEW i \in 1..n, IsContinuation(c[i])
      PROVE  \E k \in 1..3 : k < i /\ ~IsContinuation(c[i - k]) /\ Claimed(c[i - k]) > k
                             /\ \A j \in 1..(k - 1) : IsContinuation(c[i - j])
  <2>1. i # 1
    BY <1>1, <1>3
  <2>2. i - 1 \in 1..3 /\ i - 1 < i /\ i - (i - 1) = 1 /\ n > i - 1 /\ (i - 1) - 1 = i - 2
    BY <1>1, <2>1
  <2> QED
    BY <1>1, <1>2, <2>1, <2>2
<1>4. ASSUME NEW i \in 1..n, ~IsContinuation(c[i])
      PROVE  Claimed(c[i]) # 0
             /\ \A j \in 1..(Claimed(c[i]) - 1) : i + j <= Len(c) /\ IsContinuation(c[i + j])
  <2>1. i = 1
    BY <1>2, <1>4
  <2>2. \A j \in 1..(n - 1) : 1 + j <= n
    BY <1>1
  <2> QED
    BY <1>1, <2>1, <2>2 DEF n
<1>5. WholeSequences(c)
  BY <1>3, <1>4 DEF WholeSequences, n
<1> QED
  BY <1>5, WholeConcat

(* A text without the blank at its end. *)
LEMMA WholeFront ==
  ASSUME NEW out \in Seq(Nat), WholeSequences(out), out # <<>>, out[Len(out)] = Space
  PROVE  WholeSequences(Front(out))
<1> DEFINE s == Front(out)
           m == Len(out)
<1>1. /\ m \in Nat \ {0} /\ Len(s) = m - 1
      /\ \A i \in 1..(m - 1) : s[i] = out[i]
  <2>1. Len(out) \in Nat /\ Len(out) # 0
    OBVIOUS
  <2>2. Front(out) = SubSeq(out, 1, Len(out) - 1)
    BY DEF Front
  <2>3. 1 \in 1..(Len(out) + 1) /\ Len(out) - 1 \in (1 - 1)..Len(out)
    BY <2>1
  <2>4. /\ Len(SubSeq(out, 1, Len(out) - 1)) = (Len(out) - 1) - 1 + 1
        /\ \A i \in 1..((Len(out) - 1) - 1 + 1) : SubSeq(out, 1, Len(out) - 1)[i] = out[1 + i - 1]
    BY <2>3, SubSeqIs
  <2> QED
    BY <2>1, <2>2, <2>4
<1>0. out[m] = Space /\ ~IsContinuation(out[m])
  BY DEF Space, IsContinuation
<1> HIDE DEF s, m
<1> SUFFICES ASSUME NEW i \in 1..Len(s)
    PROVE IF IsContinuation(s[i])
          THEN \E k \in 1..3 : k < i /\ ~IsContinuation(s[i - k]) /\ Claimed(s[i - k]) > k
                               /\ \A j \in 1..(k - 1) : IsContinuation(s[i - j])
          ELSE /\ Claimed(s[i]) # 0
               /\ \A j \in 1..(Claimed(s[i]) - 1) : i + j <= Len(s) /\ IsContinuation(s[i + j])
  BY DEF WholeSequences, s
<1>2. i \in 1..m /\ i \in 1..(m - 1) /\ s[i] = out[i]
  BY <1>1
<1>3. CASE IsContinuation(out[i])
  <2>1. PICK k \in 1..3 : k < i /\ ~IsContinuation(out[i - k]) /\ Claimed(out[i - k]) > k
                          /\ \A j \in 1..(k - 1) : IsContinuation(out[i - j])
    BY <1>2, <1>3 DEF WholeSequences, m
  <2>2. s[i - k] = out[i - k] /\ \A j \in 1..(k - 1) : s[i - j] = out[i - j]
    BY <1>1, <1>2, <2>1
  <2> QED
    BY <1>2, <1>3, <2>1, <2>2
<1>4. CASE ~IsContinuation(out[i])
  <2>1. /\ Claimed(out[i]) # 0
        /\ \A j \in 1..(Claimed(out[i]) - 1) : i + j <= m /\ IsContinuation(out[i + j])
    BY <1>2, <1>4 DEF WholeSequences, m
  <2>2. Claimed(out[i]) \in Nat
    BY ClaimedIs
  <2>3. \A j \in 1..(Claimed(out[i]) - 1) : i + j # m
    BY <1>0, <2>1
  <2>4. \A j \in 1..(Claimed(out[i]) - 1) : s[i + j] = out[i + j] /\ i + j <= Len(s)
    BY <1>1, <1>2, <2>1, <2>2, <2>3
  <2> QED
    BY <1>2, <1>4, <2>1, <2>4
<1> QED
  BY <1>3, <1>4

-----------------------------------------------------------------------------
(* sanitize_text. *)

(* The states of sanitize_text's loop. *)
CleanState == [at : Nat \ {0}, out : Seq(Nat)]

(* What the loop has put out: as a clean text, but for a blank at its end, which may
   stand beyond the buffer. *)
Neat(out, max_len) ==
  /\ WholeSequences(out)
  /\ \A i \in 1..Len(out) : ~(out[i] < Space \/ out[i] = 127)
  /\ \A i \in 1..Len(out) : out[i] = Space => i # 1 /\ out[i - 1] # Space
  /\ Len(out) <= max_len \/ (out[Len(out)] = Space /\ Len(out) = max_len + 1)

(* A whole character of the input. *)
IsCharacter(c) ==
  /\ c \in Seq(Nat) /\ c # <<>> /\ Claimed(c[1]) = Len(c)
  /\ \A j \in 1..(Len(c) - 1) : IsContinuation(c[1 + j])

(* A turn leaves the output, adds a blank to a word, or adds a whole character. *)
LEMMA TurnIs ==
  ASSUME NEW in \in Seq(Nat), NEW max_len \in Nat, NEW s \in CleanState
  PROVE  LET t == CleanTurn(in, max_len, s)
         IN /\ t \in CleanState
            /\ \/ t.out = s.out
               \/ s.out # <<>> /\ Last(s.out) # Space /\ t.out = Append(s.out, Space)
               \/ \E c : /\ IsCharacter(c) /\ (Len(c) = 1 => ~IsBlank(c[1]))
                        /\ Len(s.out) + Len(c) <= max_len /\ t.out = s.out \o c
<1> DEFINE n == Claimed(in[s.at])
           t == CleanTurn(in, max_len, s)
           c == SubSeq(in, s.at, s.at + n - 1)
           Quiet == t \in CleanState /\ t.out = s.out
<1>1. s.at \in Nat \ {0} /\ s.out \in Seq(Nat) /\ n \in 0..4 /\ Len(in) \in Nat
  BY ClaimedIs DEF CleanState
<1>2. \A k \in Nat, out \in Seq(Nat) : [at |-> s.at + k, out |-> out] \in CleanState
  BY <1>1 DEF CleanState
<1> DEFINE lead == in[s.at]
           W == WellEncoded(in, s.at, n)
           Skip(k, out) == [at |-> s.at + k, out |-> out]
<1>0. /\ W => s.at + n - 1 <= Len(in)
      /\ n = 0 /\ s.at <= Len(in) => W
      /\ n = 1 /\ s.at <= Len(in) => W
      /\ n = 0 /\ s.at - 1 <= Len(in) => W
  BY <1>1 DEF WellEncoded
<1>t. t = CASE s.at > Len(in) -> s
       [] s.at <= Len(in) /\ n = 0 -> Skip(1, s.out)
       [] s.at + n - 1 > Len(in) /\ s.at <= Len(in) -> Skip(Len(in), s.out)
       [] s.at + n - 1 <= Len(in) /\ ~W -> Skip(1, s.out)
       [] s.at <= Len(in) /\ n = 1 /\ IsBlank(in[s.at]) ->
            Skip(1, IF s.out = <<>> \/ Last(s.out) = Space THEN s.out ELSE Append(s.out, Space))
       [] OTHER -> IF Len(s.out) + n > max_len THEN Skip(Len(in), s.out)
                   ELSE Skip(n, s.out \o c)
  BY DEF CleanTurn
<1> HIDE DEF n, W, t, c
<1>3. CASE s.at > Len(in)
  <2>1. t = s
    BY <1>0, <1>1, <1>3, <1>t
  <2> QED
    BY <2>1 DEF t
<1>4. CASE s.at <= Len(in) /\ n = 0
  <2>1. t = [at |-> s.at + 1, out |-> s.out]
    BY <1>0, <1>1, <1>4, <1>t
  <2> QED
    BY <1>1, <1>2, <2>1 DEF t
<1>5. CASE s.at <= Len(in) /\ s.at + n - 1 > Len(in)
  <2>1. t = [at |-> s.at + Len(in), out |-> s.out]
    BY <1>0, <1>1, <1>5, <1>t
  <2> QED
    BY <1>1, <1>2, <2>1 DEF t
<1>6. CASE s.at + n - 1 <= Len(in) /\ n # 0 /\ ~W
  <2>1. t = [at |-> s.at + 1, out |-> s.out]
    BY <1>0, <1>1, <1>6, <1>t
  <2> QED
    BY <1>1, <1>2, <2>1 DEF t
<1>7. CASE s.at <= Len(in) /\ n = 1 /\ W /\ IsBlank(lead)
  <2>1. t = [at |-> s.at + 1, out |-> IF s.out = <<>> \/ Last(s.out) = Space THEN s.out ELSE Append(s.out, Space)]
    BY <1>0, <1>1, <1>7, <1>t
  <2>2. CASE s.out = <<>> \/ Last(s.out) = Space
    BY <1>1, <1>2, <2>1, <2>2 DEF t
  <2>3. CASE ~(s.out = <<>> \/ Last(s.out) = Space)
    <3>1. Append(s.out, Space) \in Seq(Nat)
      BY <1>1 DEF Space
    <3>2. t = [at |-> s.at + 1, out |-> Append(s.out, Space)]
      BY <2>1, <2>3
    <3>3. [at |-> s.at + 1, out |-> Append(s.out, Space)] \in CleanState
      BY <1>2, <3>1
    <3>4. t \in CleanState /\ t.out = Append(s.out, Space)
      BY <3>2, <3>3
    <3> QED
      BY <2>3, <3>4 DEF t
  <2> QED
    BY <2>2, <2>3
<1>8. CASE s.at <= Len(in) /\ n # 0 /\ W /\ ~(n = 1 /\ IsBlank(lead))
  <2>1. t = IF Len(s.out) + n > max_len THEN [at |-> s.at + Len(in), out |-> s.out]
            ELSE [at |-> s.at + n, out |-> s.out \o c]
    BY <1>0, <1>1, <1>8, <1>t
  <2>2. s.at \in 1..(Len(in) + 1) /\ s.at + n - 1 \in (s.at - 1)..Len(in)
    BY <1>0, <1>1, <1>8
  <2>3. /\ c \in Seq(Nat) /\ Len(c) = n
        /\ \A i \in 1..n : c[i] = in[s.at + i - 1]
    <3>1. (s.at + n - 1) - s.at + 1 = n
      BY <1>1
    <3>2. /\ c \in Seq(Nat) /\ Len(c) = (s.at + n - 1) - s.at + 1
          /\ \A i \in 1..((s.at + n - 1) - s.at + 1) : c[i] = in[s.at + i - 1]
      BY <2>2, SubSeqIs DEF c
    <3> QED
      BY <3>1, <3>2
  <2>4. c[1] = lead /\ \A j \in 1..(n - 1) : c[1 + j] = in[s.at + j]
    <3>1. 1 \in 1..n /\ s.at + 1 - 1 = s.at /\ \A j \in 1..(n - 1) : 1 + j \in 1..n /\ s.at + (1 + j) - 1 = s.at + j
      BY <1>1, <1>8
    <3> QED
      BY <2>3, <3>1
  <2>5. IsCharacter(c)
    BY <1>1, <1>8, <2>3, <2>4 DEF IsCharacter, WellEncoded, n, W
  <2>6. s.out \o c \in Seq(Nat)
    BY <1>1, <2>3
  <2>7. CASE Len(s.out) + n > max_len
    BY <1>1, <1>2, <2>1, <2>7 DEF t
  <2>8. CASE ~(Len(s.out) + n > max_len)
    <3>1. t = [at |-> s.at + n, out |-> s.out \o c]
      BY <2>1, <2>8
    <3>2. t \in CleanState /\ t.out = s.out \o c
      <4>1. n \in Nat
        BY <1>1
      <4>2. [at |-> s.at + n, out |-> s.out \o c] \in CleanState
        BY <1>2, <2>6, <4>1
      <4> QED
        BY <3>1, <4>2
    <3>3. Len(s.out) + Len(c) <= max_len
      BY <1>1, <2>3, <2>8
    <3> QED
      BY <1>8, <2>3, <2>4, <2>5, <3>2, <3>3 DEF t
  <2> QED
    BY <2>7, <2>8
<1>9. \/ s.at > Len(in)
      \/ s.at <= Len(in) /\ n = 0
      \/ s.at <= Len(in) /\ s.at + n - 1 > Len(in)
      \/ s.at + n - 1 <= Len(in) /\ n # 0 /\ ~W
      \/ s.at <= Len(in) /\ n = 1 /\ W /\ IsBlank(lead)
      \/ s.at <= Len(in) /\ n # 0 /\ W /\ ~(n = 1 /\ IsBlank(lead))
  BY <1>0, <1>1
<1> QED
  BY <1>3, <1>4, <1>5, <1>6, <1>7, <1>8, <1>9 DEF t

(* Neither addition spoils it. *)
LEMMA NeatSpace ==
  ASSUME NEW max_len \in Nat, NEW out \in Seq(Nat), Neat(out, max_len),
         out # <<>>, Last(out) # Space
  PROVE  Neat(Append(out, Space), max_len)
<1> DEFINE s == Append(out, Space)
           m == Len(out)
<1>1. m \in Nat \ {0} /\ Len(s) = m + 1 /\ s[m + 1] = Space /\ \A i \in 1..m : s[i] = out[i]
  BY DEF Space
<1>2. WholeSequences(s)
  <2> DEFINE c == <<Space>>
  <2>1. c \in Seq(Nat) /\ c # <<>> /\ Len(c) = 1 /\ c[1] = Space /\ Claimed(Space) = 1
    BY DEF Space, Claimed
  <2>2. s = out \o c
    BY DEF Space
  <2> HIDE DEF s, c
  <2>3. Claimed(c[1]) = Len(c) /\ \A j \in 1..(Len(c) - 1) : IsContinuation(c[1 + j])
    BY <2>1
  <2>4. WholeSequences(out \o c)
    BY <2>1, <2>3, WholeJoin DEF Neat
  <2> QED
    BY <2>2, <2>4
<1>3. out[m] # Space /\ Len(out) <= max_len
  BY DEF Neat, Last
<1> HIDE DEF s, m
<1>4. \A i \in 1..(m + 1) : i \in 1..m \/ i = m + 1
  BY <1>1
<1>5. ASSUME NEW i \in 1..Len(s) PROVE ~(s[i] < Space \/ s[i] = 127)
  <2>1. CASE i \in 1..m
    BY <1>1, <2>1 DEF Neat, m
  <2>2. CASE i = m + 1
    BY <1>1, <2>2 DEF Space
  <2> QED
    BY <1>1, <1>4, <2>1, <2>2
<1>6. ASSUME NEW i \in 1..Len(s), s[i] = Space PROVE i # 1 /\ s[i - 1] # Space
  <2>1. CASE i \in 1..m
    <3>1. i # 1 /\ out[i - 1] # Space
      BY <1>1, <1>6, <2>1 DEF Neat, m
    <3>2. i - 1 \in 1..m
      BY <1>1, <2>1, <3>1
    <3> QED
      BY <1>1, <3>1, <3>2
  <2>2. CASE i = m + 1
    BY <1>1, <1>3, <2>2
  <2> QED
    BY <1>1, <1>4, <2>1, <2>2
<1>7. Len(s) <= max_len \/ (s[Len(s)] = Space /\ Len(s) = max_len + 1)
  BY <1>1, <1>3 DEF m
<1> QED
  BY <1>2, <1>5, <1>6, <1>7 DEF Neat, s

LEMMA NeatChar ==
  ASSUME NEW max_len \in Nat, NEW out \in Seq(Nat), Neat(out, max_len),
         NEW c, IsCharacter(c), Len(c) = 1 => ~IsBlank(c[1]), Len(out) + Len(c) <= max_len
  PROVE  Neat(out \o c, max_len)
<1> DEFINE s == out \o c
           m == Len(out)
           n == Len(c)
<1>1. /\ m \in Nat /\ n \in Nat \ {0} /\ Len(s) = m + n
      /\ \A i \in 1..m : s[i] = out[i]
      /\ \A i \in 1..n : s[m + i] = c[i]
  <2>1. c \in Seq(Nat) /\ Len(c) \in Nat /\ Len(c) # 0
    BY DEF IsCharacter
  <2>2. Len(out \o c) = Len(out) + Len(c)
    BY <2>1
  <2>3. \A i \in 1..Len(out) : (out \o c)[i] = out[i]
    BY <2>1
  <2>4. \A i \in 1..Len(c) : (out \o c)[Len(out) + i] = c[i]
    BY <2>1
  <2> QED
    BY <2>1, <2>2, <2>3, <2>4
<1>2. WholeSequences(s)
  BY WholeJoin DEF Neat, IsCharacter
<1>c. /\ c \in Seq(Nat) /\ n \in Nat /\ n >= 1 /\ Claimed(c[1]) = n /\ c[1] \in Nat
      /\ (n = 1 => ~IsBlank(c[1])) /\ \A j \in 1..(n - 1) : IsContinuation(c[1 + j])
  <2>1. c \in Seq(Nat) /\ Len(c) \in Nat /\ Len(c) # 0
    BY DEF IsCharacter
  <2> QED
    BY <2>1 DEF IsCharacter
<1> HIDE DEF s, m, n
<1>3. ASSUME NEW i \in 1..n PROVE c[i] > Space /\ c[i] # 127 /\ c[i] \in Nat
  <2>1. c[1] \in Nat /\ c[i] \in Nat
    BY <1>c DEF n
  <2>2. CASE i = 1
    <3>1. CASE n = 1
      BY <1>c, <2>1, <2>2, <3>1 DEF IsBlank, Space
    <3>2. CASE n # 1
      <4>1. Claimed(c[1]) > 1
        BY <1>c, <3>2
      <4>2. c[1] > 127
        BY <2>1, <4>1, OneByteIs
      <4> QED
        BY <2>1, <2>2, <4>2 DEF Space
    <3> QED
      BY <3>1, <3>2
  <2>3. CASE i # 1
    <3>1. i - 1 \in 1..(n - 1) /\ 1 + (i - 1) = i
      BY <1>c, <2>3
    <3>2. IsContinuation(c[i])
      BY <1>c, <3>1
    <3> QED
      <4>1. c[i] \in 128..191
        BY <3>2 DEF IsContinuation
      <4> QED
        <5>1. \A b \in 128..191 : b > Space /\ b # 127 /\ b \in Nat
          BY DEF Space
        <5> QED
          BY <4>1, <5>1
  <2> QED
    BY <2>2, <2>3
<1>4. \A i \in 1..(m + n) : i \in 1..m \/ (i - m \in 1..n /\ i = m + (i - m))
  BY <1>1
<1>5. ASSUME NEW i \in 1..Len(s) PROVE ~(s[i] < Space \/ s[i] = 127)
  <2>1. CASE i \in 1..m
    BY <1>1, <2>1 DEF Neat, m
  <2>2. CASE i - m \in 1..n
    <3>1. s[i] = c[i - m]
      BY <1>1, <2>2
    <3> QED
      BY <1>3, <2>2, <3>1 DEF Space
  <2> QED
    BY <1>1, <1>4, <2>1, <2>2
<1>6. ASSUME NEW i \in 1..Len(s), s[i] = Space PROVE i # 1 /\ s[i - 1] # Space
  <2>1. i \in 1..m
    <3>1. CASE i - m \in 1..n
      <4>1. s[i] = c[i - m]
        BY <1>1, <3>1
      <4> QED
        BY <1>3, <1>6, <3>1, <4>1 DEF Space
    <3> QED
      BY <1>1, <1>4, <3>1
  <2>2. i # 1 /\ out[i - 1] # Space
    BY <1>1, <1>6, <2>1 DEF Neat, m
  <2>3. i - 1 \in 1..m
    BY <1>1, <2>1, <2>2
  <2> QED
    BY <1>1, <2>2, <2>3
<1>7. Len(s) <= max_len
  BY <1>1 DEF m, n
<1> QED
  BY <1>2, <1>5, <1>6, <1>7 DEF Neat, s

(* The function that CleanTurns defines exists: it is the loop's turns in a row. *)
LEMMA TurnsAre ==
  ASSUME NEW in \in Seq(Nat), NEW max_len \in Nat
  PROVE  CleanTurns(in, max_len) =
           [k \in 0..Len(in) |-> IF k = 0 THEN [at |-> 1, out |-> <<>>]
                                 ELSE CleanTurn(in, max_len, CleanTurns(in, max_len)[k - 1])]
<1> DEFINE N == Len(in)
           Start == [at |-> 1, out |-> <<>>]
           F == [k \in 1..N |-> [s \in CleanState |-> CleanTurn(in, max_len, s)]]
           Eq(g) == g = [k \in 0..N |-> IF k = 0 THEN Start ELSE CleanTurn(in, max_len, g[k - 1])]
<1>1. N \in Nat /\ Start \in CleanState
  BY DEF CleanState
<1>2. F \in [1..N -> [CleanState -> CleanState]]
  BY TurnIs
<1>3. PICK g : Runs(N, CleanState, Start, F, g)
  <2> HIDE DEF N, Start, F
  <2>1. IsLoop(N, CleanState, Start, F)
    BY <1>1, <1>2 DEF IsLoop
  <2> QED
    BY <2>1, LoopRuns
<1>4. \A k \in 0..N : g[k] = IF k = 0 THEN Start ELSE CleanTurn(in, max_len, g[k - 1])
  <2> TAKE k \in 0..N
  <2>1. CASE k = 0
    BY <1>3, <2>1 DEF Runs
  <2>2. CASE k # 0
    <3>1. k \in 1..N /\ k - 1 \in 0..N
      BY <1>1, <2>2
    <3>2. g[k - 1] \in CleanState
      BY <1>3, <3>1 DEF Runs
    <3>3. F[k][g[k - 1]] = CleanTurn(in, max_len, g[k - 1])
      BY <3>1, <3>2
    <3> QED
      BY <1>3, <2>2, <3>1, <3>3 DEF Runs
  <2> QED
    BY <2>1, <2>2
<1>5. Eq(g)
  <2> HIDE DEF F, Start
  <2> QED
    BY <1>3, <1>4 DEF Runs
<1> QED
  BY <1>5 DEF CleanTurns

(* What sanitize_text returns is clean, whatever bytes it is given. *)
LEMMA SanitizeIs ==
  ASSUME NEW in \in Seq(Nat), NEW max_len \in Nat
  PROVE  /\ sanitize_text(in, max_len) \in Seq(Nat)
         /\ sanitize_text(in, max_len) # <<>> => Clean(sanitize_text(in, max_len), max_len)
<1> DEFINE T == CleanTurns(in, max_len)
           N == Len(in)
           P == {k \in 0..N : T[k] \in CleanState /\ Neat(T[k].out, max_len)}
<1>1. N \in Nat
  OBVIOUS
<1>2. /\ T[0] = [at |-> 1, out |-> <<>>]
      /\ \A k \in 1..N : T[k] = CleanTurn(in, max_len, T[k - 1])
  <2>1. T = [k \in 0..N |-> IF k = 0 THEN [at |-> 1, out |-> <<>>] ELSE CleanTurn(in, max_len, T[k - 1])]
    BY TurnsAre
  <2> HIDE DEF T
  <2>2. 0 \in 0..N /\ \A k \in 1..N : k \in 0..N /\ k # 0
    BY <1>1
  <2> QED
    BY <2>1, <2>2
<1> HIDE DEF T
<1>3. 0 \in P
  <2>1. T[0].out = <<>> /\ T[0] \in CleanState /\ <<>> \in Seq(Nat) /\ Len(<<>>) = 0
    BY <1>2 DEF CleanState
  <2>2. Neat(<<>>, max_len)
    BY <2>1 DEF Neat, WholeSequences
  <2> QED
    BY <1>1, <2>1, <2>2
<1>4. ASSUME NEW k \in 1..N, k - 1 \in P PROVE k \in P
  <2> DEFINE s == T[k - 1]
             t == T[k]
  <2>1. s \in CleanState /\ Neat(s.out, max_len) /\ s.out \in Seq(Nat)
    BY <1>4 DEF CleanState
  <2>2. t = CleanTurn(in, max_len, s)
    BY <1>2
  <2> HIDE DEF s, t
  <2>3. /\ t \in CleanState
        /\ \/ t.out = s.out
           \/ s.out # <<>> /\ Last(s.out) # Space /\ t.out = Append(s.out, Space)
           \/ \E c : /\ IsCharacter(c) /\ (Len(c) = 1 => ~IsBlank(c[1]))
                     /\ Len(s.out) + Len(c) <= max_len /\ t.out = s.out \o c
    BY <2>1, <2>2, TurnIs
  <2> SUFFICES Neat(t.out, max_len)
    BY <1>1, <2>3 DEF t
  <2>4. CASE t.out = s.out
    BY <2>1, <2>4
  <2>5. CASE s.out # <<>> /\ Last(s.out) # Space /\ t.out = Append(s.out, Space)
    BY <2>1, <2>5, NeatSpace
  <2>6. CASE \E c : /\ IsCharacter(c) /\ (Len(c) = 1 => ~IsBlank(c[1]))
                    /\ Len(s.out) + Len(c) <= max_len /\ t.out = s.out \o c
    BY <2>1, <2>6, NeatChar
  <2> QED
    BY <2>3, <2>4, <2>5, <2>6
<1>5. N \in P
  <2> HIDE DEF P
  <2>1. \A k \in 1..N : k - 1 \in P => k \in P
    BY <1>4
  <2>2. 0..N \subseteq P
    BY <1>1, <1>3, <2>1, LoopInd
  <2> QED
    BY <1>1, <2>2
<1> DEFINE out == T[N].out
           m == Len(out)
<1>6. out \in Seq(Nat) /\ Neat(out, max_len)
  BY <1>5 DEF CleanState
<1>7. sanitize_text(in, max_len) = IF out # <<>> /\ Last(out) = Space THEN Front(out) ELSE out
  BY DEF sanitize_text, T
<1> HIDE DEF out
<1>8. CASE out # <<>> /\ Last(out) = Space
  <2> DEFINE r == Front(out)
  <2>1. m \in Nat /\ m >= 1 /\ out[m] = Space
    BY <1>6, <1>8 DEF Last
  <2>2. 1 \in 1..(m + 1) /\ m - 1 \in (1 - 1)..m /\ (m - 1) - 1 + 1 = m - 1
    BY <2>1
  <2>3. r \in Seq(Nat) /\ Len(r) = m - 1 /\ \A i \in 1..(m - 1) : r[i] = out[i]
    <3>1. /\ r \in Seq(Nat) /\ Len(r) = (m - 1) - 1 + 1
          /\ \A i \in 1..((m - 1) - 1 + 1) : r[i] = out[1 + i - 1]
      BY <1>6, <2>2, SubSeqIs DEF Front
    <3>2. \A i \in 1..(m - 1) : 1 + i - 1 = i
      BY <2>1
    <3> QED
      BY <2>2, <3>1, <3>2
  <2>4. WholeSequences(r)
    BY <1>6, <1>8, WholeFront DEF Neat, Last
  <2> HIDE DEF r, m
  <2>5. ASSUME NEW i \in 1..(m - 1)
        PROVE  ~(r[i] < Space \/ r[i] = 127) /\ (r[i] = Space => i \notin {1, m - 1} /\ r[i - 1] # Space)
    <3>1. i \in 1..m /\ r[i] = out[i]
      BY <2>1, <2>3
    <3>2. ~(out[i] < Space \/ out[i] = 127) /\ (out[i] = Space => i # 1 /\ out[i - 1] # Space)
      BY <1>6, <3>1 DEF Neat, m
    <3>3. out[m] = Space => m # 1 /\ out[m - 1] # Space
      BY <1>6, <2>1 DEF Neat, m
    <3>4. i # 1 => i - 1 \in 1..(m - 1)
      BY <2>1
    <3> QED
      BY <2>1, <2>3, <3>1, <3>2, <3>3, <3>4
  <2>6. m - 1 <= max_len
    BY <1>6, <2>1 DEF Neat, m
  <2>7. r # <<>> => Clean(r, max_len)
    <3> SUFFICES ASSUME r # <<>> PROVE Clean(r, max_len)
      OBVIOUS
    <3>1. Len(r) \in 1..max_len
      BY <2>1, <2>3, <2>6
    <3> QED
      BY <2>3, <2>4, <2>5, <3>1 DEF Clean
  <2> QED
    BY <1>7, <1>8, <2>3, <2>7 DEF r
<1>9. CASE ~(out # <<>> /\ Last(out) = Space)
  <2>1. sanitize_text(in, max_len) = out
    BY <1>7, <1>9
  <2> SUFFICES ASSUME out # <<>> PROVE Clean(out, max_len)
    BY <1>6, <2>1
  <2>2. m \in Nat /\ m >= 1 /\ out[m] # Space
    BY <1>6, <1>9 DEF Last
  <2>3. m \in 1..max_len
    BY <1>6, <2>2 DEF Neat
  <2> QED
    BY <1>6, <2>2, <2>3 DEF Neat, Clean
<1> QED
  BY <1>8, <1>9

-----------------------------------------------------------------------------
(* Reading a stream. *)

(* The messages handle_line may push, and what has been read of a stream. *)
Said == {m \in {MessageOf(line) : line \in {l \in Seq(Nat) : IsMessage(l)}} :
           m.user # <<>> /\ m.text # <<>>}

ReadState == [line : Seq(Nat), pushed : Seq(Said), pongs : Nat]

LEMMA StateIs ==
  ASSUME NEW s \in ReadState, NEW l
  PROVE  [s EXCEPT !.line = l] = [line |-> l, pushed |-> s.pushed, pongs |-> s.pongs]
  BY DEF ReadState

LEMMA UnreadTyped == Unread \in ReadState
  BY DEF Unread, ReadState

LEMMA DropCRIs ==
  ASSUME NEW line \in Seq(Nat) PROVE DropCR(line) \in Seq(Nat)
<1>1. CASE line # <<>> /\ Last(line) = CR
  <2>1. Len(line) \in Nat /\ Len(line) # 0
    BY <1>1
  <2>2. 1 \in 1..(Len(line) + 1) /\ Len(line) - 1 \in (1 - 1)..Len(line)
    BY <2>1
  <2>3. Front(line) \in Seq(Nat)
    BY <2>2, SubSeqIs DEF Front
  <2> QED
    BY <1>1, <2>3 DEF DropCR
<1>2. CASE ~(line # <<>> /\ Last(line) = CR)
  BY <1>2 DEF DropCR
<1> QED
  BY <1>1, <1>2

(* handle_line pushes what may be pushed. *)
LEMMA LineTyped ==
  ASSUME NEW line \in Seq(Nat)
  PROVE  handle_line(line) \in [pushed : Seq(Said), pongs : Nat]
<1> DEFINE m == MessageOf(line)
           p == IF IsMessage(line) /\ m.user # <<>> /\ m.text # <<>> THEN <<m>> ELSE <<>>
<1>1. p \in Seq(Said)
  <2>1. CASE IsMessage(line) /\ m.user # <<>> /\ m.text # <<>>
    <3>1. m \in Said
      BY <2>1 DEF Said
    <3> HIDE DEF m
    <3> QED
      BY <2>1, <3>1
  <2>2. CASE ~(IsMessage(line) /\ m.user # <<>> /\ m.text # <<>>)
    BY <2>2
  <2> QED
    BY <2>1, <2>2
<1>2. (IF IsPing(line) THEN 1 ELSE 0) \in Nat
  OBVIOUS
<1>3. handle_line(line) = [pushed |-> p, pongs |-> IF IsPing(line) THEN 1 ELSE 0]
  BY DEF handle_line
<1> HIDE DEF p
<1> QED
  BY <1>1, <1>2, <1>3

(* One more symbol of the stream. *)
LEMMA ByteIs ==
  ASSUME NEW s \in ReadState, NEW b \in Nat
  PROVE  /\ Byte(s, b) \in ReadState
         /\ Byte(s, b) =
              IF b = LF
              THEN [line   |-> <<>>,
                    pushed |-> s.pushed \o handle_line(DropCR(s.line)).pushed,
                    pongs  |-> s.pongs + handle_line(DropCR(s.line)).pongs]
              ELSE [line |-> Append(s.line, b), pushed |-> s.pushed, pongs |-> s.pongs]
<1> DEFINE done == handle_line(DropCR(s.line))
<1>1. s.line \in Seq(Nat) /\ s.pushed \in Seq(Said) /\ s.pongs \in Nat
  BY DEF ReadState
<1>2. done.pushed \in Seq(Said) /\ done.pongs \in Nat
  BY <1>1, DropCRIs, LineTyped
<1>3. CASE b = LF
  <2> HIDE DEF done
  <2>1. s.pushed \o done.pushed \in Seq(Said) /\ s.pongs + done.pongs \in Nat /\ <<>> \in Seq(Nat)
    BY <1>1, <1>2
  <2>2. Byte(s, b) = [line |-> <<>>, pushed |-> s.pushed \o done.pushed, pongs |-> s.pongs + done.pongs]
    BY <1>3 DEF Byte, done
  <2>3. Byte(s, b) \in ReadState
    BY <2>1, <2>2 DEF ReadState
  <2> QED
    BY <1>3, <2>2, <2>3 DEF done
<1>4. CASE b # LF
  <2>1. Byte(s, b) = [s EXCEPT !.line = Append(s.line, b)]
    BY <1>4 DEF Byte
  <2>2. Append(s.line, b) \in Seq(Nat)
    BY <1>1
  <2>3. [s EXCEPT !.line = Append(s.line, b)] = [line |-> Append(s.line, b), pushed |-> s.pushed, pongs |-> s.pongs]
    BY StateIs
  <2> QED
    BY <1>1, <1>4, <2>1, <2>2, <2>3 DEF ReadState
<1> QED
  BY <1>3, <1>4

(* The function that Reading defines exists. *)
LEMMA ReadingIs ==
  ASSUME NEW in \in Seq(Nat)
  PROVE  /\ Reading(in) \in [0..Len(in) -> ReadState]
         /\ Reading(in)[0] = Unread
         /\ \A k \in 1..Len(in) : Reading(in)[k] = Byte(Reading(in)[k - 1], in[k])
<1> DEFINE N == Len(in)
           F == [k \in 1..N |-> [s \in ReadState |-> Byte(s, in[k])]]
           R == Reading(in)
           Eq(g) == g = [k \in 0..N |-> IF k = 0 THEN Unread ELSE Byte(g[k - 1], in[k])]
<1>1. N \in Nat /\ \A k \in 1..N : in[k] \in Nat
  OBVIOUS
<1>2. F \in [1..N -> [ReadState -> ReadState]]
  BY <1>1, ByteIs
<1>3. PICK g : Runs(N, ReadState, Unread, F, g)
  <2> HIDE DEF N, F
  <2>1. IsLoop(N, ReadState, Unread, F)
    BY <1>1, <1>2, UnreadTyped DEF IsLoop
  <2> QED
    BY <2>1, LoopRuns
<1>4. \A k \in 0..N : g[k] = IF k = 0 THEN Unread ELSE Byte(g[k - 1], in[k])
  <2> TAKE k \in 0..N
  <2>1. CASE k = 0
    BY <1>3, <2>1 DEF Runs
  <2>2. CASE k # 0
    <3>1. k \in 1..N /\ k - 1 \in 0..N
      BY <1>1, <2>2
    <3>2. g[k - 1] \in ReadState
      BY <1>3, <3>1 DEF Runs
    <3>3. F[k][g[k - 1]] = Byte(g[k - 1], in[k])
      BY <3>1, <3>2
    <3> QED
      BY <1>3, <2>2, <3>1, <3>3 DEF Runs
  <2> QED
    BY <2>1, <2>2
<1>5. Eq(g)
  <2> HIDE DEF F
  <2> QED
    BY <1>3, <1>4 DEF Runs
<1>6. Eq(R)
  BY <1>5 DEF Reading
<1> HIDE DEF R, F
<1>7. R[0] = Unread /\ \A k \in 1..N : R[k] = Byte(R[k - 1], in[k])
  <2>1. 0 \in 0..N /\ \A k \in 1..N : k \in 0..N /\ k # 0
    BY <1>1
  <2> QED
    BY <1>6, <2>1
<1>8. \A k \in 0..N : R[k] \in ReadState
  <2> DEFINE P == {k \in 0..N : R[k] \in ReadState}
  <2>1. 0 \in P
    BY <1>1, <1>7, UnreadTyped
  <2>2. ASSUME NEW k \in 1..N, k - 1 \in P PROVE k \in P
    <3>1. R[k - 1] \in ReadState /\ R[k] = Byte(R[k - 1], in[k]) /\ in[k] \in Nat /\ k \in 0..N
      BY <1>1, <1>7, <2>2
    <3> QED
      BY <3>1, ByteIs
  <2> HIDE DEF P, N
  <2>3. 0..N \subseteq P
    BY <1>1, <2>1, <2>2, LoopInd
  <2> QED
    BY <2>3 DEF P
<1>9. R \in [0..N -> ReadState]
  BY <1>6, <1>8
<1> QED
  BY <1>7, <1>9 DEF R

(* Reading is done symbol by symbol. *)
LEMMA ReadIs ==
  /\ Read(<<>>) = Unread
  /\ \A in \in Seq(Nat), b \in Nat :
       Read(in) \in ReadState /\ Read(Append(in, b)) = Byte(Read(in), b)
<1>1. Read(<<>>) = Unread
  <2>1. <<>> \in Seq(Nat) /\ Len(<<>>) = 0
    OBVIOUS
  <2> QED
    BY <2>1, ReadingIs DEF Read
<1>2. ASSUME NEW in \in Seq(Nat), NEW b \in Nat
      PROVE  Read(in) \in ReadState /\ Read(Append(in, b)) = Byte(Read(in), b)
  <2> DEFINE on == Append(in, b)
             N == Len(in)
             P == {k \in 0..N : Reading(on)[k] = Reading(in)[k]}
  <2>1. /\ N \in Nat /\ on \in Seq(Nat) /\ Len(on) = N + 1
        /\ on[N + 1] = b /\ \A k \in 1..N : on[k] = in[k]
    OBVIOUS
  <2>2. /\ Reading(on)[0] = Unread
        /\ \A k \in 1..(N + 1) : Reading(on)[k] = Byte(Reading(on)[k - 1], on[k])
    BY <2>1, ReadingIs
  <2>3. /\ Reading(in)[0] = Unread /\ Reading(in) \in [0..N -> ReadState]
        /\ \A k \in 1..N : Reading(in)[k] = Byte(Reading(in)[k - 1], in[k])
    BY ReadingIs
  <2> HIDE DEF on, N
  <2>4. 0 \in P
    BY <2>1, <2>2, <2>3
  <2>5. ASSUME NEW k \in 1..N, k - 1 \in P PROVE k \in P
    <3>1. k \in 1..(N + 1) /\ k \in 0..N
      BY <2>1
    <3> QED
      BY <2>1, <2>2, <2>3, <2>5, <3>1
  <2>6. N \in P
    <3> HIDE DEF P
    <3>1. 0..N \subseteq P
      BY <2>1, <2>4, <2>5, LoopInd
    <3> QED
      BY <2>1, <3>1
  <2>7. N + 1 \in 1..(N + 1) /\ (N + 1) - 1 = N /\ N \in 0..N
    BY <2>1
  <2>8. Reading(on)[N + 1] = Byte(Reading(in)[N], b)
    BY <2>1, <2>2, <2>6, <2>7
  <2> QED
    BY <2>1, <2>3, <2>7, <2>8 DEF Read, on, N
<1> QED
  BY <1>1, <1>2

(* What was read first, and what was read on with the line it left. *)
Joined(r, t) == [line |-> t.line, pushed |-> r.pushed \o t.pushed, pongs |-> r.pongs + t.pongs]

(* Joining commutes with reading a symbol. *)
LEMMA ByteJoined ==
  ASSUME NEW r \in ReadState, NEW t \in ReadState, NEW b \in Nat
  PROVE  Joined(r, t) \in ReadState /\ Byte(Joined(r, t), b) = Joined(r, Byte(t, b))
<1>1. /\ r.pushed \in Seq(Said) /\ t.pushed \in Seq(Said) /\ t.line \in Seq(Nat)
      /\ r.pongs \in Nat /\ t.pongs \in Nat
  BY DEF ReadState
<1>2. Joined(r, t) \in ReadState
  BY <1>1 DEF Joined, ReadState
<1> DEFINE done == handle_line(DropCR(t.line))
<1>3. done.pushed \in Seq(Said) /\ done.pongs \in Nat
  BY <1>1, DropCRIs, LineTyped
<1> HIDE DEF done
<1>4. Joined(r, t).line = t.line /\ Joined(r, t).pushed = r.pushed \o t.pushed
      /\ Joined(r, t).pongs = r.pongs + t.pongs
  BY DEF Joined
<1>5. CASE b = LF
  <2>1. Byte(t, b) = [line |-> <<>>, pushed |-> t.pushed \o done.pushed, pongs |-> t.pongs + done.pongs]
    BY <1>5, ByteIs DEF done
  <2>2. Byte(Joined(r, t), b) =
          [line |-> <<>>, pushed |-> (r.pushed \o t.pushed) \o done.pushed, pongs |-> (r.pongs + t.pongs) + done.pongs]
    BY <1>2, <1>4, <1>5, ByteIs DEF done
  <2>3. (r.pushed \o t.pushed) \o done.pushed = r.pushed \o (t.pushed \o done.pushed)
    <3>1. \A u, v, w \in Seq(Said) : (u \o v) \o w = u \o (v \o w)
      BY ConcatAssociative
    <3> QED
      BY <1>1, <1>3, <3>1, Zenon
  <2>4. (r.pongs + t.pongs) + done.pongs = r.pongs + (t.pongs + done.pongs)
    BY <1>1, <1>3
  <2>5. Byte(Joined(r, t), b) = Joined(r, Byte(t, b))
    <3>1. Joined(r, Byte(t, b)) =
            [line |-> <<>>, pushed |-> r.pushed \o (t.pushed \o done.pushed), pongs |-> r.pongs + (t.pongs + done.pongs)]
      BY <2>1 DEF Joined
    <3> QED
      BY <2>2, <2>3, <2>4, <3>1, Zenon
  <2> QED
    BY <1>2, <2>5
<1>6. CASE b # LF
  <2>1. Byte(t, b) = [line |-> Append(t.line, b), pushed |-> t.pushed, pongs |-> t.pongs]
    BY <1>6, ByteIs
  <2>2. Byte(Joined(r, t), b) = [line |-> Append(t.line, b), pushed |-> r.pushed \o t.pushed, pongs |-> r.pongs + t.pongs]
    BY <1>2, <1>4, <1>6, ByteIs
  <2>3. Byte(Joined(r, t), b) = Joined(r, Byte(t, b))
    BY <2>1, <2>2 DEF Joined
  <2> QED
    BY <1>2, <2>3
<1> QED
  BY <1>5, <1>6

(* The incomplete line is the end of the stream from its last newline on. *)
IsTail(line, in) ==
  /\ Len(line) <= Len(in)
  /\ \A i \in 1..Len(line) : line[i] # LF /\ line[i] = in[Len(in) - Len(line) + i]

(* It is. *)
LEMMA LineIs ==
  ASSUME NEW in \in Seq(Nat) PROVE IsTail(Read(in).line, in)
<1> DEFINE P == {s \in Seq(Nat) : IsTail(Read(s).line, s)}
<1>1. <<>> \in P
  <2>1. Read(<<>>).line = <<>> /\ <<>> \in Seq(Nat) /\ Len(<<>>) = 0
    BY ReadIs DEF Unread
  <2> QED
    BY <2>1 DEF IsTail
<1>2. ASSUME NEW s \in Seq(Nat), NEW b \in Nat, s \in P PROVE Append(s, b) \in P
  <2> DEFINE t == Append(s, b)
             l == Read(s).line
             k == Read(t).line
  <2>1. Read(s) \in ReadState /\ Read(t) = Byte(Read(s), b)
    BY ReadIs
  <2>2. l \in Seq(Nat) /\ IsTail(l, s)
    BY <1>2, <2>1 DEF ReadState
  <2>3. k = IF b = LF THEN <<>> ELSE Append(l, b)
    <3>1. CASE b = LF
      <4>1. Read(t) = [line |-> <<>>, pushed |-> Read(s).pushed \o handle_line(DropCR(Read(s).line)).pushed,
                       pongs |-> Read(s).pongs + handle_line(DropCR(Read(s).line)).pongs]
        BY <2>1, <3>1, ByteIs
      <4> QED
        BY <3>1, <4>1
    <3>2. CASE b # LF
      <4>1. Read(t) = [line |-> Append(l, b), pushed |-> Read(s).pushed, pongs |-> Read(s).pongs]
        BY <2>1, <3>2, ByteIs
      <4> QED
        BY <3>2, <4>1
    <3> QED
      BY <3>1, <3>2
  <2>4. /\ t \in Seq(Nat) /\ Len(t) = Len(s) + 1 /\ t[Len(s) + 1] = b
        /\ \A i \in 1..Len(s) : t[i] = s[i]
    OBVIOUS
  <2> HIDE DEF t, l, k
  <2>5. CASE b = LF
    <3>1. k = <<>> /\ Len(k) = 0 /\ Len(t) \in Nat
      BY <2>3, <2>4, <2>5
    <3>2. Len(k) <= Len(t) /\ 1..Len(k) = {}
      BY <2>4, <3>1
    <3>3. IsTail(k, t)
      BY <3>2 DEF IsTail
    <3> QED
      BY <2>4, <3>3 DEF t, k
  <2>6. CASE b # LF
    <3>1. Len(l) \in Nat /\ Len(s) \in Nat /\ Len(l) <= Len(s)
      BY <2>2 DEF IsTail
    <3>2. Len(k) = Len(l) + 1 /\ k[Len(l) + 1] = b /\ \A i \in 1..Len(l) : k[i] = l[i]
      BY <2>2, <2>3, <2>6
    <3>3. ASSUME NEW i \in 1..Len(k) PROVE k[i] # LF /\ k[i] = t[Len(t) - Len(k) + i]
      <4>1. Len(t) - Len(k) + i = Len(s) - Len(l) + i
        BY <2>4, <3>1, <3>2
      <4>2. CASE i = Len(l) + 1
        <5>1. Len(s) - Len(l) + i = Len(s) + 1
          BY <3>1, <4>2
        <5> QED
          BY <2>4, <2>6, <3>2, <4>1, <4>2, <5>1
      <4>3. CASE i # Len(l) + 1
        <5>1. i \in 1..Len(l)
          BY <3>1, <3>2, <4>3
        <5>2. Len(s) - Len(l) + i \in 1..Len(s)
          BY <3>1, <5>1
        <5>3. l[i] # LF /\ l[i] = s[Len(s) - Len(l) + i]
          BY <2>2, <5>1 DEF IsTail
        <5> QED
          BY <2>4, <3>2, <4>1, <5>1, <5>2, <5>3
      <4> QED
        BY <4>2, <4>3
    <3>4. Len(k) <= Len(t)
      BY <2>4, <3>1, <3>2
    <3> QED
      BY <2>4, <3>3, <3>4 DEF IsTail, t, k
  <2> QED
    BY <2>5, <2>6
<1>3. Seq(Nat) \subseteq P
  <2> HIDE DEF P
  <2> QED
    BY <1>1, <1>2, SeqInd
<1> QED
  BY <1>3

(* A line without its end is only kept. *)
LEMMA LineAlone ==
  ASSUME NEW q \in Seq(Nat), \A i \in 1..Len(q) : q[i] # LF
  PROVE  Read(q) = [line |-> q, pushed |-> <<>>, pongs |-> 0]
<1> DEFINE P == {s \in Seq(Nat) : (\A i \in 1..Len(s) : s[i] # LF)
                                    => Read(s) = [line |-> s, pushed |-> <<>>, pongs |-> 0]}
<1>1. <<>> \in P
  BY ReadIs DEF Unread
<1>2. ASSUME NEW s \in Seq(Nat), NEW b \in Nat, s \in P PROVE Append(s, b) \in P
  <2> DEFINE t == Append(s, b)
  <2>0. t \in Seq(Nat)
    OBVIOUS
  <2>1. SUFFICES ASSUME \A i \in 1..Len(t) : t[i] # LF
                 PROVE  Read(t) = [line |-> t, pushed |-> <<>>, pongs |-> 0]
    BY <2>0
  <2>2. /\ Len(s) \in Nat /\ Len(t) = Len(s) + 1 /\ t[Len(s) + 1] = b
        /\ \A i \in 1..Len(s) : t[i] = s[i]
    OBVIOUS
  <2>3. Read(s) \in ReadState /\ Read(t) = Byte(Read(s), b)
    BY ReadIs
  <2> HIDE DEF t
  <2>4. b # LF /\ \A i \in 1..Len(s) : s[i] # LF
    <3>1. Len(s) + 1 \in 1..Len(t) /\ \A i \in 1..Len(s) : i \in 1..Len(t)
      BY <2>2
    <3> QED
      BY <2>1, <2>2, <3>1
  <2>5. Read(s) = [line |-> s, pushed |-> <<>>, pongs |-> 0]
    BY <1>2, <2>4
  <2>6. Read(s).line = s /\ Read(s).pushed = <<>> /\ Read(s).pongs = 0
    BY <2>5
  <2>7. Read(t) = [line |-> Append(s, b), pushed |-> <<>>, pongs |-> 0]
    BY <2>3, <2>4, <2>6, ByteIs
  <2> QED
    BY <2>7 DEF t
<1>3. Seq(Nat) \subseteq P
  <2> HIDE DEF P
  <2> QED
    BY <1>1, <1>2, SeqInd
<1> QED
  BY <1>3

(* Reading on from an incomplete line gives what reading it all at once gives. *)
LEMMA ReadJoin ==
  ASSUME NEW a \in Seq(Nat), NEW b \in Seq(Nat)
  PROVE  Read(a \o b) = Joined(Read(a), Read(Read(a).line \o b))
<1> DEFINE r == Read(a)
           P == {s \in Seq(Nat) : Read(a \o s) = Joined(r, Read(r.line \o s))}
<1>1. r \in ReadState /\ r.line \in Seq(Nat) /\ r.pushed \in Seq(Said) /\ r.pongs \in Nat
  BY ReadIs DEF ReadState
<1>2. <<>> \in P
  <2>1. a \o <<>> = a /\ r.line \o <<>> = r.line
    BY <1>1
  <2>2. Read(r.line) = [line |-> r.line, pushed |-> <<>>, pongs |-> 0]
    BY <1>1, LineIs, LineAlone DEF IsTail
  <2> HIDE DEF r
  <2>3. r.pushed \o <<>> = r.pushed /\ r.pongs + 0 = r.pongs
    BY <1>1
  <2>4. Joined(r, Read(r.line)) = [line |-> r.line, pushed |-> r.pushed, pongs |-> r.pongs]
    BY <2>2, <2>3 DEF Joined
  <2>5. Joined(r, Read(r.line)) = r
    BY <1>1, <2>4 DEF ReadState
  <2> QED
    BY <2>1, <2>5 DEF r
<1>3. ASSUME NEW s \in Seq(Nat), NEW x \in Nat, s \in P PROVE Append(s, x) \in P
  <2> HIDE DEF r
  <2>1. /\ a \o Append(s, x) = Append(a \o s, x) /\ a \o s \in Seq(Nat)
        /\ r.line \o Append(s, x) = Append(r.line \o s, x) /\ r.line \o s \in Seq(Nat)
        /\ Append(s, x) \in Seq(Nat)
    <3>1. Append(s, x) \in Seq(Nat) /\ a \o s \in Seq(Nat) /\ r.line \o s \in Seq(Nat)
      BY <1>1, ConcatProperties, AppendProperties
    <3>2. a \o Append(s, x) = Append(a \o s, x)
      BY <1>1, AppendToConcat
    <3>3. r.line \o Append(s, x) = Append(r.line \o s, x)
      <4>1. \A u \in Seq(Nat) : u \o Append(s, x) = Append(u \o s, x)
        BY AppendToConcat
      <4> QED
        BY <1>1, <4>1, Zenon
    <3> QED
      BY <3>1, <3>2, <3>3
  <2>2. Read(Append(a \o s, x)) = Byte(Read(a \o s), x)
    BY <2>1, ReadIs
  <2>3. /\ Read(Append(r.line \o s, x)) = Byte(Read(r.line \o s), x)
        /\ Read(r.line \o s) \in ReadState
    BY <2>1, ReadIs
  <2>4. Read(a \o s) = Joined(r, Read(r.line \o s))
    BY <1>3
  <2>5. Byte(Joined(r, Read(r.line \o s)), x) = Joined(r, Byte(Read(r.line \o s), x))
    BY <1>1, <2>3, ByteJoined
  <2> QED
    BY <2>1, <2>2, <2>3, <2>4, <2>5
<1>4. Seq(Nat) \subseteq P
  <2> HIDE DEF P
  <2> QED
    BY <1>2, <1>3, SeqInd
<1> QED
  BY <1>4

-----------------------------------------------------------------------------
(* The reader. *)

(* A text without the markers of "/me" is a text. *)
LEMMA UnwrappedIs ==
  ASSUME NEW t \in Seq(Nat) PROVE Unwrapped(t) \in Seq(Nat)
<1>1. CASE Len(t) > Len(Action) /\ IsPrefix(Action, t) /\ Last(t) = Ctcp
  <2>1. Len(Action) = 3 /\ Len(t) \in Nat
    BY DEF Action
  <2>2. 3 + 1 \in 1..(Len(t) + 1) /\ Len(t) - 1 \in ((3 + 1) - 1)..Len(t)
    BY <1>1, <2>1
  <2>3. SubSeq(t, 3 + 1, Len(t) - 1) \in Seq(Nat)
    BY <2>2, SubSeqIs
  <2> QED
    BY <1>1, <2>1, <2>3 DEF Unwrapped
<1>2. CASE ~(Len(t) > Len(Action) /\ IsPrefix(Action, t) /\ Last(t) = Ctcp)
  BY <1>2 DEF Unwrapped
<1> QED
  BY <1>1, <1>2

(* What is pushed has a name and a text, and both are clean. *)
LEMMA SaidIs ==
  ASSUME NEW m \in Said
  PROVE  /\ m.user \in Seq(Nat) /\ Clean(m.user, kMaxUserLen)
         /\ m.text \in Seq(Nat) /\ Clean(m.text, kMaxTextLen)
<1>1. PICK line \in Seq(Nat) : IsMessage(line) /\ m = MessageOf(line) /\ m.user # <<>> /\ m.text # <<>>
  BY DEF Said
<1>2. kMaxUserLen \in Nat /\ kMaxTextLen \in Nat
  BY StreamAssumption
<1>3. m.user = NameOf(HeadOf[line[1]]) /\ m.text = TextOf(line)
  BY <1>1 DEF MessageOf
<1>4. line[1] \in DOMAIN HeadOf /\ line # <<>>
  BY <1>1 DEF IsMessage
<1>5. ShownName(HeadOf[line[1]]) \in Seq(Nat)
  BY <1>4, NameAssumption
<1>6. Tail(line) \in Seq(Nat)
  BY <1>4
<1>7. Unwrapped(Tail(line)) \in Seq(Nat)
  BY <1>6, UnwrappedIs
<1>8. m.user \in Seq(Nat) /\ Clean(m.user, kMaxUserLen)
  BY <1>1, <1>2, <1>3, <1>5, SanitizeIs DEF NameOf
<1>9. m.text \in Seq(Nat) /\ Clean(m.text, kMaxTextLen)
  BY <1>1, <1>2, <1>3, <1>7, SanitizeIs DEF TextOf
<1> QED
  BY <1>8, <1>9

(* The reader is where reading the whole stream at once would be. *)
ReadSoFar ==
  NoOverlongLine => Read(arrived) = [line |-> buffer, pushed |-> pushed, pongs |-> pongs]

(* The inductive invariant of the reader. *)
StreamInv ==
  /\ arrived \in Seq(Nat) /\ buffer \in Seq(Nat) /\ pushed \in Seq(Said) /\ pongs \in Nat
  /\ ReadSoFar

LEMMA StreamFirst == StreamInit => StreamInv
<1>1. <<>> \in Seq(Nat) /\ <<>> \in Seq(Said) /\ 0 \in Nat
  OBVIOUS
<1> QED
  BY <1>1, ReadIs DEF StreamInit, StreamInv, ReadSoFar, Unread

(* No line of a stream is overlong if none is when more has come. *)
LEMMA OverlongStays ==
  ASSUME NEW chunk \in Seq(Nat), arrived \in Seq(Nat), arrived' = arrived \o chunk,
         NoOverlongLine'
  PROVE  NoOverlongLine
<1>1. BufferLimit \in Nat
  BY StreamAssumption
<1>2. /\ Len(arrived) \in Nat /\ Len(chunk) \in Nat /\ Len(arrived') = Len(arrived) + Len(chunk)
      /\ \A j \in 1..Len(arrived) : arrived'[j] = arrived[j]
  OBVIOUS
<1>3. ASSUME NEW i \in 1..(Len(arrived) - BufferLimit)
      PROVE  \E j \in i..(i + BufferLimit) : arrived[j] = LF
  <2>1. i \in 1..(Len(arrived') - BufferLimit) /\ i + BufferLimit <= Len(arrived)
    BY <1>1, <1>2
  <2>2. PICK j \in i..(i + BufferLimit) : arrived'[j] = LF
    BY <2>1 DEF NoOverlongLine
  <2>3. j \in 1..Len(arrived)
    BY <1>1, <1>2, <2>1
  <2> QED
    BY <1>2, <2>2, <2>3
<1> QED
  BY <1>3 DEF NoOverlongLine

(* If no line of the stream is overlong, neither is the one that is not complete. *)
LEMMA LineFits ==
  ASSUME NEW in \in Seq(Nat), NEW line \in Seq(Nat), IsTail(line, in),
         \A i \in 1..(Len(in) - BufferLimit) : \E j \in i..(i + BufferLimit) : in[j] = LF
  PROVE  Len(line) <= BufferLimit
<1>1. BufferLimit \in Nat /\ Len(in) \in Nat /\ Len(line) \in Nat /\ Len(line) <= Len(in)
  BY StreamAssumption DEF IsTail
<1> DEFINE i == Len(in) - Len(line) + 1
<1>2. SUFFICES ASSUME Len(line) > BufferLimit PROVE FALSE
  BY <1>1
<1>3. i \in 1..(Len(in) - BufferLimit)
  BY <1>1, <1>2
<1>4. PICK j \in i..(i + BufferLimit) : in[j] = LF
  BY <1>3
<1>5. /\ j - (Len(in) - Len(line)) \in 1..Len(line)
      /\ Len(in) - Len(line) + (j - (Len(in) - Len(line))) = j
  BY <1>1, <1>2
<1> QED
  BY <1>4, <1>5 DEF IsTail

(* Whatever recv returns, the invariant stays. *)
LEMMA StreamStep == StreamInv /\ StreamNext => StreamInv'
<1> SUFFICES ASSUME StreamInv, NEW chunk \in Chunks, Recv(chunk) PROVE StreamInv'
  BY DEF StreamNext
<1> DEFINE have == Read(buffer \o chunk)
<1>1. chunk \in Seq(Nat)
  BY StreamAssumption
<1>2. arrived \in Seq(Nat) /\ buffer \in Seq(Nat) /\ pushed \in Seq(Said) /\ pongs \in Nat
  BY DEF StreamInv
<1>3. buffer \o chunk \in Seq(Nat) /\ arrived \o chunk \in Seq(Nat)
  BY <1>1, <1>2, ConcatProperties
<1>4. have \in ReadState
  BY <1>3, ReadIs
<1>5. have.line \in Seq(Nat) /\ have.pushed \in Seq(Said) /\ have.pongs \in Nat
  <2> HIDE DEF have
  <2> QED
    BY <1>4 DEF ReadState
<1>6. /\ arrived' = arrived \o chunk /\ pushed' = pushed \o have.pushed
      /\ pongs' = pongs + have.pongs /\ buffer' = Kept(have.line)
  BY DEF Recv
<1> HIDE DEF have
<1>7. arrived' \in Seq(Nat) /\ buffer' \in Seq(Nat) /\ pushed' \in Seq(Said) /\ pongs' \in Nat
  <2>1. Kept(have.line) \in Seq(Nat)
    BY <1>5 DEF Kept
  <2>2. pushed \o have.pushed \in Seq(Said)
    <3>1. \A u, v \in Seq(Said) : u \o v \in Seq(Said)
      BY ConcatProperties
    <3> QED
      BY <1>2, <1>5, <3>1, Zenon
  <2>3. pongs + have.pongs \in Nat
    BY <1>2, <1>5
  <2> QED
    BY <1>3, <1>6, <2>1, <2>2, <2>3
<1>8. ASSUME NoOverlongLine'
      PROVE  Read(arrived') = [line |-> buffer', pushed |-> pushed', pongs |-> pongs']
  <2>1. NoOverlongLine
    BY <1>1, <1>2, <1>6, <1>8, OverlongStays
  <2>2. Read(arrived) = [line |-> buffer, pushed |-> pushed, pongs |-> pongs]
    BY <2>1 DEF StreamInv, ReadSoFar
  <2>3. Read(arrived').line = have.line /\ Read(arrived').pushed = pushed' /\ Read(arrived').pongs = pongs'
        /\ Read(arrived') = [line |-> have.line, pushed |-> pushed', pongs |-> pongs']
    <3>1. Read(arrived \o chunk) = Joined(Read(arrived), Read(Read(arrived).line \o chunk))
      BY <1>1, <1>2, ReadJoin
    <3>2. Read(arrived).line = buffer /\ Read(arrived).pushed = pushed /\ Read(arrived).pongs = pongs
      BY <2>2
    <3>3. Read(arrived') = Joined(Read(arrived), have)
      BY <1>6, <3>1, <3>2 DEF have
    <3> QED
      BY <1>6, <3>2, <3>3 DEF Joined
  <2>4. IsTail(have.line, arrived')
    BY <1>7, <2>3, LineIs
  <2>5. \A i \in 1..(Len(arrived') - BufferLimit) : \E j \in i..(i + BufferLimit) : arrived'[j] = LF
    BY <1>8 DEF NoOverlongLine
  <2>6. Len(have.line) <= BufferLimit
    BY <1>5, <1>7, <2>4, <2>5, LineFits
  <2>7. BufferLimit \in Nat /\ Len(have.line) \in Nat
    BY <1>5, StreamAssumption
  <2>8. buffer' = have.line
    BY <1>6, <2>6, <2>7 DEF Kept
  <2> QED
    BY <2>3, <2>8
<1> QED
  BY <1>7, <1>8 DEF StreamInv, ReadSoFar

LEMMA StreamRest == StreamInv /\ UNCHANGED streamVars => StreamInv'
  BY DEF StreamInv, ReadSoFar, NoOverlongLine, streamVars

LEMMA StreamSays == StreamInv => Reassembled /\ CleanTexts
<1> SUFFICES ASSUME StreamInv PROVE Reassembled /\ CleanTexts
  OBVIOUS
<1>1. Reassembled
  BY DEF StreamInv, ReadSoFar, Reassembled
<1>2. ASSUME NEW m \in ToSet(pushed) PROVE Clean(m.user, kMaxUserLen) /\ Clean(m.text, kMaxTextLen)
  <2>1. PICK i \in DOMAIN pushed : m = pushed[i]
    BY DEF ToSet
  <2>2. m \in Said
    BY <2>1 DEF StreamInv
  <2> QED
    BY <2>2, SaidIs
<1> QED
  BY <1>1, <1>2 DEF CleanTexts

-----------------------------------------------------------------------------
(* build_blob's loop. *)

(* The tables hold letters only. *)
LEMMA LetterIs ==
  ASSUME NEW cp \in 192..383 PROVE Letter(cp) \in 65..122
<1> DEFINE I == {i \in 1..Len(LatinRuns) : LatinRuns[i][1] <= cp}
<1>1. Len(LatinRuns) = 46
  BY DEF LatinRuns
<1>2. LatinRuns[1][1] = 192
  BY DEF LatinRuns
<1>3. 1 \in I
  BY <1>1, <1>2
<1>4. SelectLastInSeq(LatinRuns, LAMBDA run : run[1] <= cp) = Max(I)
  <2>1. I # {}
    BY <1>3
  <2> QED
    BY <2>1 DEF SelectLastInSeq
<1>5. Max(I) \in I
  <2>1. I \in SUBSET (1..46)
    BY <1>1
  <2> HIDE DEF I
  <2>2. I # {}
    BY <1>3
  <2> QED
    BY <2>1, <2>2, MaxIs
<1>6. \A i \in 1..46 : LatinRuns[i][2] \in 65..122
  BY DEF LatinRuns
<1>7. Max(I) \in 1..46
  BY <1>1, <1>5
<1> HIDE DEF I
<1> QED
  BY <1>4, <1>6, <1>7 DEF Letter

(* Whatever its bytes, a character is drawn as one of the font or not at all. *)
LEMMA GlyphIs ==
  ASSUME NEW char PROVE Glyph(char) \in FontCharacters \cup {Undrawable}
<1> DEFINE cp == CodePoint(char)
           f == ascii_fold(cp)
<1>1. f \in 32..126 \/ f = 0
  <2> HIDE DEF cp
  <2>1. CASE cp \in 32..126
    BY <2>1 DEF ascii_fold
  <2>2. CASE cp \in 192..383
    <3>1. Letter(cp) \in 65..122
      BY <2>2, LetterIs
    <3>2. cp \notin 32..126
      BY <2>2
    <3>3. f = Letter(cp)
      BY <2>2, <3>2 DEF ascii_fold
    <3> QED
      BY <3>1, <3>3
  <2>3. CASE cp \notin 32..126 /\ cp \notin 192..383
    BY <2>3 DEF ascii_fold, Undrawable, Blank
  <2> QED
    BY <2>1, <2>2, <2>3
<1> HIDE DEF f
<1>2. Upper(f) \in FontCharacters \cup {0}
  BY <1>1 DEF Upper, FontCharacters
<1> QED
  BY <1>2 DEF Glyph, Undrawable, f

(* A turn takes a byte at least, and none behind the text. *)
LEMMA TakenIs ==
  ASSUME NEW s \in Seq(Nat), NEW at \in 1..Len(s)
  PROVE  Taken(s, at) \in 1..4 /\ at + Taken(s, at) - 1 <= Len(s)
<1> DEFINE K == {k \in 1..Claimed(s[at]) :
                   at + k - 1 <= Len(s) /\ \A j \in 1..(k - 1) : IsContinuation(s[at + j])}
<1>1. Claimed(s[at]) \in 0..4
  BY ClaimedIs
<1>2. CASE Claimed(s[at]) = 0
  BY <1>2 DEF Taken
<1>3. CASE Claimed(s[at]) # 0
  <2>1. Taken(s, at) = Cardinality(K)
    BY <1>3 DEF Taken
  <2>2. 1 \in K
    BY <1>1, <1>3
  <2>3. \A k \in K : \A j \in 1..k : j \in K
    <3> SUFFICES ASSUME NEW k \in K, NEW j \in 1..k PROVE j \in K
      OBVIOUS
    <3>1. k \in 1..Claimed(s[at]) /\ at + k - 1 <= Len(s) /\ \A i \in 1..(k - 1) : IsContinuation(s[at + i])
      OBVIOUS
    <3>2. j \in 1..Claimed(s[at]) /\ at + j - 1 <= Len(s) /\ \A i \in 1..(j - 1) : i \in 1..(k - 1)
      BY <1>1, <3>1
    <3> QED
      BY <3>1, <3>2
  <2>4. K \in SUBSET (1..4)
    BY <1>1
  <2>5. \A k \in K : at + k - 1 <= Len(s)
    OBVIOUS
  <2> HIDE DEF K
  <2>6. Max(K) \in K /\ \A y \in K : Max(K) >= y
    BY <2>2, <2>4, MaxIs
  <2>7. K = 1..Max(K)
    <3>1. \A k \in K : k \in 1..4
      BY <2>4
    <3>2. 1..Max(K) \subseteq K
      BY <2>3, <2>6
    <3>3. K \subseteq 1..Max(K)
      BY <2>6, <3>1
    <3> QED
      BY <3>2, <3>3
  <2>8. PICK m \in 1..4 : m = Max(K)
    BY <2>4, <2>6
  <2>9. Cardinality(1..m) = m
    <3>1. m \in Int /\ 1 \in Int /\ m >= 1
      OBVIOUS
    <3> QED
      BY <3>1, FS_Interval
  <2> QED
    BY <2>1, <2>5, <2>6, <2>7, <2>8, <2>9
<1> QED
  BY <1>2, <1>3

(* The states of build_blob's loop. *)
DrawState == [at : Nat \ {0}, out : Seq(FontCharacters), run : Nat]

(* What is drawn for the character there, and whether build_blob has ended. *)
Here(s, at) == Glyph(SubSeq(s, at, at + Taken(s, at) - 1))

Ended(s, d) == d.at > Len(s) \/ NoRoom(d.out)

LEMMA TurnEnded ==
  ASSUME NEW s, NEW d, Ended(s, d) PROVE DrawTurn(s, d) = d
  BY DEF Ended, DrawTurn

(* What a turn that goes on writes, and the run behind it. *)
Writes(s, d, out, run) ==
  LET c == Here(s, d.at)
  IN \/ c = Undrawable /\ out = d.out /\ run = d.run
     \/ c = Blank /\ out = Append(d.out, Blank) /\ run = 0
     \/ c \in FontCharacters \ {Blank} /\ ~NeedsBreak(d.run) /\ out = Append(d.out, c) /\ run = d.run + 1
     \/ /\ c \in FontCharacters \ {Blank} /\ NeedsBreak(d.run) /\ NoRoom(Append(d.out, Blank))
        /\ out = Append(d.out, Blank) /\ run = 0
     \/ /\ c \in FontCharacters \ {Blank} /\ NeedsBreak(d.run) /\ ~NoRoom(Append(d.out, Blank))
        /\ out = d.out \o <<Blank, c>> /\ run = 1

LEMMA BlankIs == Blank \in FontCharacters /\ Undrawable \notin FontCharacters /\ Blank # Undrawable
                 /\ FontCharacters \subseteq Nat
  BY DEF Blank, Undrawable, FontCharacters

(* A turn that goes on takes a character and writes one of these. *)
LEMMA TurnGoes ==
  ASSUME NEW s \in Seq(Nat), NEW d \in DrawState, ~Ended(s, d)
  PROVE  \E out \in Seq(FontCharacters), run \in Nat :
           /\ Writes(s, d, out, run)
           /\ DrawTurn(s, d) = [at |-> d.at + Taken(s, d.at), out |-> out, run |-> run]
<1> DEFINE n == Taken(s, d.at)
           c == Here(s, d.at)
           t == DrawTurn(s, d)
           Go(out, run) == [at |-> d.at + n, out |-> out, run |-> run]
<1>1. d.out \in Seq(FontCharacters) /\ d.run \in Nat /\ d.at \in Nat \ {0}
  BY DEF DrawState
<1>2. c \in FontCharacters \cup {Undrawable}
  BY GlyphIs DEF Here
<1>3. t = CASE Ended(s, d) -> d
            [] ~Ended(s, d) /\ c = Undrawable -> Go(d.out, d.run)
            [] ~Ended(s, d) /\ c = Blank -> Go(Append(d.out, Blank), 0)
            [] ~Ended(s, d) /\ c \notin {Undrawable, Blank} /\ ~NeedsBreak(d.run) ->
                 Go(Append(d.out, c), d.run + 1)
            [] OTHER -> IF NoRoom(Append(d.out, Blank)) THEN Go(Append(d.out, Blank), 0)
                        ELSE Go(d.out \o <<Blank, c>>, 1)
  BY DEF DrawTurn, Ended, Here
<1>4. Append(d.out, Blank) \in Seq(FontCharacters)
  BY <1>1, BlankIs, AppendProperties
<1> HIDE DEF n, c, t
<1>5. CASE c = Undrawable
  <2>1. t = Go(d.out, d.run)
    BY <1>3, <1>5, BlankIs
  <2>2. Writes(s, d, d.out, d.run)
    BY <1>5 DEF Writes, c
  <2> QED
    BY <1>1, <2>1, <2>2 DEF t, n
<1>6. CASE c = Blank
  <2>1. t = Go(Append(d.out, Blank), 0)
    BY <1>3, <1>6, BlankIs
  <2>2. Writes(s, d, Append(d.out, Blank), 0)
    BY <1>6 DEF Writes, c
  <2> QED
    BY <1>4, <2>1, <2>2 DEF t, n
<1>7. CASE c \notin {Undrawable, Blank} /\ ~NeedsBreak(d.run)
  <2>1. t = Go(Append(d.out, c), d.run + 1)
    BY <1>3, <1>7
  <2>2. c \in FontCharacters \ {Blank} /\ Append(d.out, c) \in Seq(FontCharacters) /\ d.run + 1 \in Nat
    BY <1>1, <1>2, <1>7, AppendProperties
  <2>3. Writes(s, d, Append(d.out, c), d.run + 1)
    BY <1>7, <2>2 DEF Writes, c
  <2> QED
    BY <2>1, <2>2, <2>3 DEF t, n
<1>8. CASE c \notin {Undrawable, Blank} /\ NeedsBreak(d.run) /\ NoRoom(Append(d.out, Blank))
  <2>1. t = Go(Append(d.out, Blank), 0)
    BY <1>3, <1>8
  <2>2. Writes(s, d, Append(d.out, Blank), 0)
    BY <1>2, <1>8 DEF Writes, c
  <2> QED
    BY <1>4, <2>1, <2>2 DEF t, n
<1>9. CASE c \notin {Undrawable, Blank} /\ NeedsBreak(d.run) /\ ~NoRoom(Append(d.out, Blank))
  <2>1. t = Go(d.out \o <<Blank, c>>, 1)
    BY <1>3, <1>9
  <2>2. c \in FontCharacters \ {Blank}
    BY <1>2, <1>9
  <2>3. <<Blank, c>> \in Seq(FontCharacters)
    BY <2>2, BlankIs
  <2>4. d.out \o <<Blank, c>> \in Seq(FontCharacters)
    BY <1>1, <2>3, ConcatProperties
  <2>5. Writes(s, d, d.out \o <<Blank, c>>, 1)
    BY <1>9, <2>2 DEF Writes, c
  <2> QED
    BY <2>1, <2>4, <2>5 DEF t, n
<1> QED
  BY <1>5, <1>6, <1>7, <1>8, <1>9

LEMMA DrawTurnIs ==
  ASSUME NEW s \in Seq(Nat), NEW d \in DrawState PROVE DrawTurn(s, d) \in DrawState
<1>1. CASE Ended(s, d)
  BY <1>1, TurnEnded
<1>2. CASE ~Ended(s, d)
  <2>1. PICK out \in Seq(FontCharacters), run \in Nat :
          DrawTurn(s, d) = [at |-> d.at + Taken(s, d.at), out |-> out, run |-> run]
    BY <1>2, TurnGoes
  <2>2. d.at \in 1..Len(s)
    BY <1>2 DEF Ended, DrawState
  <2>3. Taken(s, d.at) \in 1..4
    BY <2>2, TakenIs
  <2>4. d.at + Taken(s, d.at) \in Nat \ {0}
    BY <2>2, <2>3
  <2> QED
    BY <2>1, <2>4 DEF DrawState
<1> QED
  BY <1>1, <1>2

(* build_blob's loop, turn by turn. *)
LEMMA DrawTurnsAre ==
  ASSUME NEW s \in Seq(Nat)
  PROVE  /\ DrawTurns(s)[0] = [at |-> 1, out |-> <<>>, run |-> 0]
         /\ \A k \in 0..Len(s) : DrawTurns(s)[k] \in DrawState
         /\ \A k \in 1..Len(s) : DrawTurns(s)[k] = DrawTurn(s, DrawTurns(s)[k - 1])
<1> DEFINE N == Len(s)
           Start == [at |-> 1, out |-> <<>>, run |-> 0]
           F == [k \in 1..N |-> [d \in DrawState |-> DrawTurn(s, d)]]
           T == DrawTurns(s)
           Eq(g) == g = [k \in 0..N |-> IF k = 0 THEN Start ELSE DrawTurn(s, g[k - 1])]
<1>1. N \in Nat /\ Start \in DrawState
  BY DEF DrawState
<1>2. F \in [1..N -> [DrawState -> DrawState]]
  BY DrawTurnIs
<1>3. PICK g : Runs(N, DrawState, Start, F, g)
  <2> HIDE DEF N, Start, F
  <2>1. IsLoop(N, DrawState, Start, F)
    BY <1>1, <1>2 DEF IsLoop
  <2> QED
    BY <2>1, LoopRuns
<1>4. \A k \in 0..N : g[k] = IF k = 0 THEN Start ELSE DrawTurn(s, g[k - 1])
  <2> TAKE k \in 0..N
  <2>1. CASE k = 0
    BY <1>3, <2>1 DEF Runs
  <2>2. CASE k # 0
    <3>1. k \in 1..N /\ k - 1 \in 0..N
      BY <1>1, <2>2
    <3>2. g[k - 1] \in DrawState
      BY <1>3, <3>1 DEF Runs
    <3>3. F[k][g[k - 1]] = DrawTurn(s, g[k - 1])
      BY <3>1, <3>2
    <3> QED
      BY <1>3, <2>2, <3>1, <3>3 DEF Runs
  <2> QED
    BY <2>1, <2>2
<1>5. Eq(g)
  <2> HIDE DEF F, Start
  <2> QED
    BY <1>3, <1>4 DEF Runs
<1>6. Eq(T)
  BY <1>5 DEF DrawTurns
<1> HIDE DEF T
<1>7. T[0] = Start /\ \A k \in 1..N : T[k] = DrawTurn(s, T[k - 1])
  <2>1. 0 \in 0..N /\ \A k \in 1..N : k \in 0..N /\ k # 0
    BY <1>1
  <2> HIDE DEF Start
  <2> QED
    BY <1>6, <2>1
<1> DEFINE P == {k \in 0..N : T[k] \in DrawState}
<1>8. 0..N \subseteq P
  <2>1. 0 \in P
    BY <1>1, <1>7
  <2>2. ASSUME NEW k \in 1..N, k - 1 \in P PROVE k \in P
    <3>1. T[k - 1] \in DrawState /\ T[k] = DrawTurn(s, T[k - 1]) /\ k \in 0..N
      BY <1>1, <1>7, <2>2
    <3> QED
      BY <3>1, DrawTurnIs
  <2> HIDE DEF P, N
  <2> QED
    BY <1>1, <2>1, <2>2, LoopInd
<1> QED
  BY <1>7, <1>8 DEF T

(* What has been written is room for, and can be wrapped. *)
Wraps(out, run) ==
  /\ Len(out) <= SPEAK_MAX_TEXT - 1
  /\ run <= SPEAK_MAX_WORD /\ run <= Len(out)
  /\ run < Len(out) => out[Len(out) - run] = Blank
  /\ \A i \in 1..(Len(out) - SPEAK_MAX_WORD) : \E j \in i..(i + SPEAK_MAX_WORD) : out[j] = Blank

(* A blank and a character that fits keep it so. *)
LEMMA WrapBlank ==
  ASSUME NEW out \in Seq(FontCharacters), NEW run \in Nat, Wraps(out, run), ~NoRoom(out)
  PROVE  Wraps(Append(out, Blank), 0)
<1> DEFINE o == Append(out, Blank)
           m == Len(out)
<1>1. SPEAK_MAX_WORD \in Nat \ {0} /\ SPEAK_MAX_TEXT \in Nat /\ m \in Nat
  BY TextAssumption
<1>2. Len(o) = m + 1 /\ o[m + 1] = Blank /\ \A i \in 1..m : o[i] = out[i]
  OBVIOUS
<1>3. m < SPEAK_MAX_TEXT - 1
  BY <1>1 DEF NoRoom
<1>4. \A i \in 1..(m - SPEAK_MAX_WORD) : \E j \in i..(i + SPEAK_MAX_WORD) : out[j] = Blank
  BY DEF Wraps
<1> HIDE DEF o, m
<1>5. ASSUME NEW i \in 1..(Len(o) - SPEAK_MAX_WORD)
      PROVE  \E j \in i..(i + SPEAK_MAX_WORD) : o[j] = Blank
  <2>1. CASE i = m + 1 - SPEAK_MAX_WORD
    <3>1. m + 1 \in i..(i + SPEAK_MAX_WORD)
      BY <1>1, <2>1
    <3> QED
      BY <1>2, <3>1
  <2>2. CASE i # m + 1 - SPEAK_MAX_WORD
    <3>1. i \in 1..(m - SPEAK_MAX_WORD)
      BY <1>1, <1>2, <2>2
    <3>2. PICK j \in i..(i + SPEAK_MAX_WORD) : out[j] = Blank
      BY <1>4, <3>1
    <3>3. j \in 1..m
      BY <1>1, <3>1
    <3> QED
      BY <1>2, <3>2, <3>3
  <2> QED
    BY <2>1, <2>2
<1>6. Len(o) <= SPEAK_MAX_TEXT - 1 /\ 0 <= SPEAK_MAX_WORD /\ 0 <= Len(o) /\ o[Len(o) - 0] = Blank
  BY <1>1, <1>2, <1>3
<1> QED
  BY <1>5, <1>6 DEF Wraps, o

LEMMA WrapChar ==
  ASSUME NEW out \in Seq(FontCharacters), NEW run \in Nat, NEW c \in FontCharacters,
         Wraps(out, run), ~NoRoom(out), ~NeedsBreak(run)
  PROVE  Wraps(Append(out, c), run + 1)
<1> DEFINE o == Append(out, c)
           m == Len(out)
<1>1. SPEAK_MAX_WORD \in Nat \ {0} /\ SPEAK_MAX_TEXT \in Nat /\ m \in Nat
  BY TextAssumption
<1>2. Len(o) = m + 1 /\ \A i \in 1..m : o[i] = out[i]
  OBVIOUS
<1>3. m < SPEAK_MAX_TEXT - 1 /\ run < SPEAK_MAX_WORD /\ run <= m
  BY <1>1 DEF NoRoom, NeedsBreak, Wraps
<1>4. /\ \A i \in 1..(m - SPEAK_MAX_WORD) : \E j \in i..(i + SPEAK_MAX_WORD) : out[j] = Blank
      /\ run < m => out[m - run] = Blank
  BY DEF Wraps
<1> HIDE DEF o, m
<1>7. run + 1 < Len(o) => o[Len(o) - (run + 1)] = Blank
  <2> SUFFICES ASSUME run + 1 < Len(o) PROVE o[Len(o) - (run + 1)] = Blank
    OBVIOUS
  <2>1. run < m /\ m - run \in 1..m /\ Len(o) - (run + 1) = m - run
    BY <1>1, <1>2
  <2> QED
    BY <1>2, <1>4, <2>1
<1>5. ASSUME NEW i \in 1..(Len(o) - SPEAK_MAX_WORD)
      PROVE  \E j \in i..(i + SPEAK_MAX_WORD) : o[j] = Blank
  <2>1. CASE i = m + 1 - SPEAK_MAX_WORD
    <3>1. m - run \in i..(i + SPEAK_MAX_WORD) /\ m - run \in 1..m /\ run < m
      BY <1>1, <1>3, <2>1
    <3> QED
      BY <1>2, <1>4, <3>1
  <2>2. CASE i # m + 1 - SPEAK_MAX_WORD
    <3>1. i \in 1..(m - SPEAK_MAX_WORD)
      BY <1>1, <1>2, <2>2
    <3>2. PICK j \in i..(i + SPEAK_MAX_WORD) : out[j] = Blank
      BY <1>4, <3>1
    <3>3. j \in 1..m
      BY <1>1, <3>1
    <3> QED
      BY <1>2, <3>2, <3>3
  <2> QED
    BY <2>1, <2>2
<1>6. Len(o) <= SPEAK_MAX_TEXT - 1 /\ run + 1 <= SPEAK_MAX_WORD /\ run + 1 <= Len(o)
  BY <1>1, <1>2, <1>3
<1> QED
  BY <1>5, <1>6, <1>7 DEF Wraps, o

LEMMA WrapTurn ==
  ASSUME NEW s \in Seq(Nat), NEW d \in DrawState, Wraps(d.out, d.run)
  PROVE  Wraps(DrawTurn(s, d).out, DrawTurn(s, d).run)
<1>1. CASE Ended(s, d)
  BY <1>1, TurnEnded
<1>2. CASE ~Ended(s, d)
  <2>1. PICK out \in Seq(FontCharacters), run \in Nat :
          /\ Writes(s, d, out, run)
          /\ DrawTurn(s, d) = [at |-> d.at + Taken(s, d.at), out |-> out, run |-> run]
    BY <1>2, TurnGoes
  <2> SUFFICES Wraps(out, run)
    BY <2>1
  <2>2. d.out \in Seq(FontCharacters) /\ d.run \in Nat /\ ~NoRoom(d.out)
    BY <1>2 DEF DrawState, Ended
  <2>3. Wraps(Append(d.out, Blank), 0)
    BY <2>2, WrapBlank
  <2> DEFINE c == Here(s, d.at)
  <2>4. CASE c = Undrawable /\ out = d.out /\ run = d.run
    BY <2>4
  <2>5. CASE out = Append(d.out, Blank) /\ run = 0
    BY <2>3, <2>5
  <2>6. CASE c \in FontCharacters \ {Blank} /\ ~NeedsBreak(d.run) /\ out = Append(d.out, c) /\ run = d.run + 1
    <3>1. c \in FontCharacters
      BY <2>6
    <3> HIDE DEF c
    <3> QED
      BY <2>2, <2>6, <3>1, WrapChar
  <2>7. CASE /\ c \in FontCharacters \ {Blank} /\ ~NoRoom(Append(d.out, Blank))
             /\ out = d.out \o <<Blank, c>> /\ run = 1
    <3>1. c \in FontCharacters
      BY <2>7
    <3> HIDE DEF c
    <3>2. ~NeedsBreak(0)
      BY TextAssumption DEF NeedsBreak
    <3> DEFINE o == Append(d.out, Blank)
    <3>3. o \in Seq(FontCharacters) /\ Wraps(o, 0) /\ ~NoRoom(o)
      BY <2>2, <2>3, <2>7, BlankIs, AppendProperties
    <3> HIDE DEF o
    <3>4. Wraps(Append(o, c), 0 + 1)
      BY <3>1, <3>2, <3>3, WrapChar
    <3>5. Append(o, c) = d.out \o <<Blank, c>>
      <4>1. \A u \in Seq(FontCharacters), x, y \in FontCharacters : Append(Append(u, x), y) = u \o <<x, y>>
        OBVIOUS
      <4> QED
        BY <2>2, <3>1, <4>1, BlankIs DEF o
    <3> QED
      BY <2>7, <3>4, <3>5
  <2> QED
    BY <2>1, <2>4, <2>5, <2>6, <2>7 DEF Writes
<1> QED
  BY <1>1, <1>2

(* What is drawn of any text fits its buffer and can be wrapped. *)
LEMMA DrawnIs ==
  ASSUME NEW s \in Seq(Nat)
  PROVE  /\ Drawn(s) \in Seq(FontCharacters) /\ Len(Drawn(s)) <= SPEAK_MAX_TEXT - 1
         /\ \A i \in 1..(Len(Drawn(s)) - SPEAK_MAX_WORD) :
              \E j \in i..(i + SPEAK_MAX_WORD) : Drawn(s)[j] = Blank
<1> DEFINE N == Len(s)
           T == DrawTurns(s)
           P == {k \in 0..N : Wraps(T[k].out, T[k].run)}
<1>1. /\ T[0] = [at |-> 1, out |-> <<>>, run |-> 0] /\ \A k \in 0..N : T[k] \in DrawState
      /\ \A k \in 1..N : T[k] = DrawTurn(s, T[k - 1])
  BY DrawTurnsAre
<1> HIDE DEF T
<1>2. N \in Nat
  OBVIOUS
<1>3. 0 \in P
  <2>1. T[0].out = <<>> /\ T[0].run = 0 /\ Len(<<>>) = 0
    BY <1>1
  <2>2. SPEAK_MAX_WORD \in Nat \ {0} /\ SPEAK_MAX_TEXT \in 2..255
    BY TextAssumption
  <2>3. Wraps(<<>>, 0)
    BY <2>1, <2>2 DEF Wraps
  <2> QED
    BY <1>2, <2>1, <2>3
<1>4. ASSUME NEW k \in 1..N, k - 1 \in P PROVE k \in P
  <2>1. T[k - 1] \in DrawState /\ T[k] = DrawTurn(s, T[k - 1]) /\ k \in 0..N
    BY <1>1, <1>2
  <2> QED
    BY <1>4, <2>1, WrapTurn
<1>5. N \in P
  <2> HIDE DEF P
  <2>1. 0..N \subseteq P
    BY <1>2, <1>3, <1>4, LoopInd
  <2> QED
    BY <1>2, <2>1
<1>6. T[N] \in DrawState /\ Drawn(s) = T[N].out
  BY <1>1, <1>2 DEF Drawn, T
<1> QED
  BY <1>5, <1>6 DEF Wraps, DrawState

-----------------------------------------------------------------------------
(* The blob and the request. *)

LEMMA ClosesIs == Closes \in Seq(Nat) /\ Len(Closes) = 3 * SPEAK_TERMINATORS
<1>1. SPEAK_TERMINATORS \in Nat
  BY TextAssumption
<1>2. 3 * SPEAK_TERMINATORS \in Nat
  BY <1>1
<1>3. ASSUME NEW j \in 1..(3 * SPEAK_TERMINATORS) PROVE <<4, 1, 0>>[((j - 1) % 3) + 1] \in Nat
  <2>1. (j - 1) \in Nat
    BY <1>2
  <2>2. \A k \in Nat : k % 3 \in 0..2
    OBVIOUS
  <2>3. ((j - 1) % 3) + 1 \in 1..3
    BY <2>1, <2>2
  <2>4. \A k \in 1..3 : <<4, 1, 0>>[k] \in Nat
    OBVIOUS
  <2> QED
    BY <2>3, <2>4
<1>4. Closes = [j \in 1..(3 * SPEAK_TERMINATORS) |-> <<4, 1, 0>>[((j - 1) % 3) + 1]]
  BY DEF Closes
<1> QED
  BY <1>2, <1>3, <1>4

(* Every blob is one the loader can walk, whatever the text. *)
LEMMA BlobIs ==
  ASSUME NEW text \in Seq(Nat), NEW portrait \in FirstPortrait..SPEAK_MAX_PORTRAIT
  PROVE  WellFormed(build_blob(text, portrait), portrait)
<1> DEFINE t == SPEAK_TERMINATORS
           out == Drawn(text)
           p == ((portrait - FirstPortrait) % 128) + 128
           l == (Len(out) + 1) % 256
           head == <<1 + t, p, l>>
           C == Closes
           blob == build_blob(text, portrait)
           n == Len(out)
<1>1. /\ out \in Seq(FontCharacters) /\ n \in Nat /\ n <= SPEAK_MAX_TEXT - 1
      /\ \A i \in 1..(n - SPEAK_MAX_WORD) : \E j \in i..(i + SPEAK_MAX_WORD) : out[j] = Blank
  BY DrawnIs
<1>2. /\ t \in Nat /\ SPEAK_MAX_TEXT \in 2..255 /\ SPEAK_MAX_PORTRAIT \in Nat /\ FirstPortrait \in Nat
      /\ SPEAK_MAX_PORTRAIT <= FirstPortrait + 127
  BY TextAssumption
<1>3. out \in Seq(Nat)
  BY <1>1, BlankIs, SeqWithin
<1>n. n \in Nat /\ t \in Nat
  BY <1>1, <1>2
<1> HIDE DEF out
<1>4. l = n + 1
  <2>1. n + 1 \in 0..255
    <3>1. n <= SPEAK_MAX_TEXT - 1
      BY <1>1
    <3> HIDE DEF n
    <3> QED
      BY <1>n, <1>2, <3>1
  <2>2. \A k \in 0..255 : k % 256 = k
    OBVIOUS
  <2> QED
    BY <2>1, <2>2
<1>5. p \in Nat /\ p >= 128 /\ p - 128 + FirstPortrait = portrait
  <2>1. portrait - FirstPortrait \in 0..127
    BY <1>2
  <2>2. \A k \in 0..127 : k % 128 = k
    OBVIOUS
  <2>3. p = portrait - FirstPortrait + 128
    BY <2>1, <2>2
  <2> QED
    BY <1>2, <2>3
<1>6. C \in Seq(Nat) /\ Len(C) = 3 * t
  BY ClosesIs
<1>7. <<t>> \in Seq(Nat) /\ head \in Seq(Nat) /\ <<0>> \in Seq(Nat) /\ Len(<<t>>) = 1 /\ Len(head) = 3
      /\ head[1] = 1 + t /\ head[2] = p /\ head[3] = n + 1
  BY <1>1, <1>2, <1>4, <1>5
<1>8. blob = <<t>> \o C \o head \o out \o <<0>> \o C
  BY DEF build_blob, out
<1> HIDE DEF t, p, l, head, C, blob, n
<1> DEFINE a == <<t>> \o C
           b == a \o head
           e == out \o <<0>> \o C
<1>9. a \in Seq(Nat) /\ Len(a) = 1 + 3 * t /\ a[1] = t /\ \A i \in 1..1 : a[i] = t
  <2>1. \A u, v \in Seq(Nat) : u \o v \in Seq(Nat) /\ Len(u \o v) = Len(u) + Len(v)
                               /\ \A i \in 1..Len(u) : (u \o v)[i] = u[i]
    OBVIOUS
  <2>2. <<t>>[1] = t
    OBVIOUS
  <2> QED
    BY <1>6, <1>7, <2>1, <2>2
<1>10. b \in Seq(Nat) /\ Len(b) = 4 + 3 * t /\ b[1] = t
       /\ b[2 + 3 * t] = 1 + t /\ b[3 + 3 * t] = p /\ b[4 + 3 * t] = n + 1
  <2>1. \A u, v \in Seq(Nat) : u \o v \in Seq(Nat) /\ Len(u \o v) = Len(u) + Len(v)
                               /\ (\A i \in 1..Len(u) : (u \o v)[i] = u[i])
                               /\ (\A i \in 1..Len(v) : (u \o v)[Len(u) + i] = v[i])
    OBVIOUS
  <2> HIDE DEF a
  <2>2. /\ b \in Seq(Nat) /\ Len(b) = 1 + 3 * t + 3
        /\ \A i \in 1..(1 + 3 * t) : b[i] = a[i]
        /\ \A i \in 1..3 : b[1 + 3 * t + i] = head[i]
    <3>1. /\ b \in Seq(Nat) /\ Len(b) = Len(a) + Len(head)
          /\ \A i \in 1..Len(a) : b[i] = a[i]
          /\ \A i \in 1..Len(head) : b[Len(a) + i] = head[i]
      BY <1>7, <1>9, <2>1, Zenon
    <3> HIDE DEF b
    <3> QED
      BY <1>7, <1>9, <3>1
  <2>3. 1 \in 1..(1 + 3 * t) /\ 1 + 3 * t + 1 = 2 + 3 * t /\ 1 + 3 * t + 2 = 3 + 3 * t /\ 1 + 3 * t + 3 = 4 + 3 * t
    BY <1>2 DEF t
  <2>4. b[1 + 3 * t + 1] = head[1] /\ b[1 + 3 * t + 2] = head[2] /\ b[1 + 3 * t + 3] = head[3]
    <3>1. 1 \in 1..3 /\ 2 \in 1..3 /\ 3 \in 1..3
      OBVIOUS
    <3> HIDE DEF b
    <3> QED
      BY <2>2, <3>1
  <2> QED
    BY <1>7, <1>9, <2>2, <2>3, <2>4
<1>11. e \in Seq(Nat) /\ Len(e) = n + 1 + 3 * t
  <2>1. \A u, v \in Seq(Nat) : u \o v \in Seq(Nat) /\ Len(u \o v) = Len(u) + Len(v)
    OBVIOUS
  <2>2. Len(<<0>>) = 1
    OBVIOUS
  <2>3. out \o <<0>> \in Seq(Nat) /\ Len(out \o <<0>>) = n + 1
    BY <1>3, <1>7, <2>1, <2>2 DEF n
  <2> QED
    BY <1>6, <2>1, <2>3
<1>12. blob = b \o e
  <2>1. \A u, v, w \in Seq(Nat) : (u \o v) \o w = u \o (v \o w)
    BY ConcatAssociative
  <2>2. b \o out \in Seq(Nat) /\ out \o <<0>> \in Seq(Nat)
    BY <1>3, <1>7, <1>10, ConcatProperties
  <2>3. blob = ((b \o out) \o <<0>>) \o C
    BY <1>8
  <2> HIDE DEF b
  <2>4. (b \o out) \o <<0>> = b \o (out \o <<0>>)
    BY <1>3, <1>7, <1>10, <2>1
  <2>5. (b \o (out \o <<0>>)) \o C = b \o e
    BY <1>6, <1>10, <2>1, <2>2
  <2> QED
    BY <2>3, <2>4, <2>5
<1> HIDE DEF b, e
<1>13. /\ blob \in Seq(Nat) /\ Len(blob) = 5 + 6 * t + n
       /\ \A i \in 1..(4 + 3 * t) : blob[i] = b[i]
  <2>1. \A u, v \in Seq(Nat) : u \o v \in Seq(Nat) /\ Len(u \o v) = Len(u) + Len(v)
                               /\ (\A i \in 1..Len(u) : (u \o v)[i] = u[i])
    OBVIOUS
  <2>2. blob \in Seq(Nat) /\ Len(blob) = (4 + 3 * t) + (n + 1 + 3 * t) /\ \A i \in 1..(4 + 3 * t) : blob[i] = b[i]
    BY <1>10, <1>11, <1>12, <2>1
  <2>3. (4 + 3 * t) + (n + 1 + 3 * t) = 5 + 6 * t + n
    BY <1>1, <1>2 DEF t, n
  <2> QED
    BY <2>2, <2>3
<1>14. /\ blob[1] = t /\ blob[2 + 3 * t] = 1 + t /\ blob[2 + 3 * t + 1] = p /\ blob[2 + 3 * t + 2] = n + 1
  <2>1. /\ 1 \in 1..(4 + 3 * t) /\ 2 + 3 * t \in 1..(4 + 3 * t)
        /\ 3 + 3 * t \in 1..(4 + 3 * t) /\ 4 + 3 * t \in 1..(4 + 3 * t)
        /\ 2 + 3 * t + 1 = 3 + 3 * t /\ 2 + 3 * t + 2 = 4 + 3 * t
    BY <1>n
  <2>2. blob[1] = b[1] /\ blob[2 + 3 * t] = b[2 + 3 * t] /\ blob[3 + 3 * t] = b[3 + 3 * t] /\ blob[4 + 3 * t] = b[4 + 3 * t]
    BY <1>13, <2>1
  <2> QED
    BY <1>10, <2>1, <2>2
<1>15. SubSeq(blob, 2, (2 + 3 * t) - 1) = C
  <2> DEFINE f == head \o e
  <2>1. f \in Seq(Nat)
    BY <1>7, <1>11, ConcatProperties
  <2>2. blob = <<t>> \o C \o f
    <3>1. b \o e = a \o f
      <4>1. \A u, v, w \in Seq(Nat) : (u \o v) \o w = u \o (v \o w)
        BY ConcatIs
      <4> HIDE DEF a
      <4>3. a \in Seq(Nat) /\ head \in Seq(Nat) /\ e \in Seq(Nat)
        BY <1>7, <1>9, <1>11
      <4>2. (a \o head) \o e = a \o (head \o e)
        BY <4>1, <4>3
      <4> QED
        BY <4>2 DEF b
    <3> QED
      BY <1>12, <3>1
  <2> HIDE DEF f
  <2>3. SubSeq(<<t>> \o C \o f, Len(<<t>>) + 1, Len(<<t>>) + Len(C)) = C
    BY <1>6, <1>7, <2>1, PieceIs
  <2>4. Len(<<t>>) + 1 = 2 /\ Len(<<t>>) + Len(C) = (2 + 3 * t) - 1
    BY <1>6, <1>7, <1>n
  <2> QED
    BY <2>2, <2>3, <2>4
<1>16. SubSeq(blob, 2 + 3 * t + 3, 2 + 3 * t + 1 + (n + 1)) = out
  <2> DEFINE f == <<0>> \o C
  <2>1. f \in Seq(Nat)
    BY <1>6, <1>7, ConcatProperties
  <2>2. blob = b \o out \o f
    <3>1. (b \o out) \o f = b \o (out \o f)
      BY <1>3, <1>10, <2>1, ConcatIs, Zenon
    <3>2. out \o f = e
      <4>1. \A u, v, w \in Seq(Nat) : (u \o v) \o w = u \o (v \o w)
        BY ConcatIs
      <4>2. (out \o <<0>>) \o C = out \o (<<0>> \o C)
        BY <1>3, <1>6, <1>7, <4>1, Zenon
      <4> QED
        BY <4>2 DEF e
    <3> QED
      BY <1>12, <3>1, <3>2
  <2> HIDE DEF f
  <2>3. SubSeq(b \o out \o f, Len(b) + 1, Len(b) + Len(out)) = out
    BY <1>3, <1>10, <2>1, PieceIs
  <2>4. Len(b) + 1 = 2 + 3 * t + 3 /\ Len(b) + Len(out) = 2 + 3 * t + 1 + (n + 1)
    BY <1>10, <1>n DEF n
  <2> QED
    BY <2>2, <2>3, <2>4
<1>17. SubSeq(blob, 2 + 3 * t + 3, Len(blob)) = e
  <2>1. b \o e \o <<>> = blob
    BY <1>12, <1>13, ConcatEmptySeq
  <2>2. SubSeq(b \o e \o <<>>, Len(b) + 1, Len(b) + Len(e)) = e
    <3>1. <<>> \in Seq(Nat)
      OBVIOUS
    <3> QED
      BY <1>10, <1>11, <3>1, PieceIs
  <2>3. Len(b) + 1 = 2 + 3 * t + 3 /\ Len(b) + Len(e) = Len(blob)
    BY <1>10, <1>11, <1>13, <1>n
  <2> QED
    BY <2>1, <2>2, <2>3
<1>18. ToSet(out) \subseteq FontCharacters
  BY <1>1 DEF ToSet
<1>19. Len(blob) <= SPEAK_BLOB_SIZE
  BY <1>1, <1>2, <1>13, <1>n DEF SPEAK_BLOB_SIZE, t, n
<1>20. n < SPEAK_MAX_TEXT
  BY <1>1, <1>2, <1>n DEF n
<1> DEFINE top == 2 + 3 * t
<1>21. /\ blob[1] = t /\ blob[top] = 1 + t /\ blob[top + 1] = p /\ blob[top + 2] = n + 1
       /\ SubSeq(blob, 2, top - 1) = Closes
       /\ SubSeq(blob, top + 3, top + 1 + (n + 1)) = out
       /\ SubSeq(blob, top + 3, Len(blob)) = out \o <<0>> \o Closes
  BY <1>14, <1>15, <1>16, <1>17 DEF e, C
<1> HIDE DEF top
<1>22. WellFormed(blob, portrait) <=>
         /\ Len(blob) <= SPEAK_BLOB_SIZE
         /\ SubSeq(blob, 2, top - 1) = Closes
         /\ blob[top] = 1 + SPEAK_TERMINATORS
         /\ blob[top + 1] >= 128 /\ blob[top + 1] - 128 + FirstPortrait = portrait
         /\ portrait \in FirstPortrait..SPEAK_MAX_PORTRAIT
         /\ SubSeq(blob, top + 3, Len(blob)) = out \o <<0>> \o Closes
         /\ ToSet(out) \subseteq FontCharacters /\ Len(out) < SPEAK_MAX_TEXT
         /\ \A i \in 1..(Len(out) - SPEAK_MAX_WORD) :
              \E j \in i..(i + SPEAK_MAX_WORD) : out[j] = Blank
  BY <1>21 DEF WellFormed, top
<1>23. WellFormed(blob, portrait)
  BY <1>1, <1>5, <1>18, <1>19, <1>20, <1>21, <1>22 DEF t, n
<1> QED
  BY <1>23 DEF blob

(* A portrait that is found is one of the game's. *)
LEMMA FoundIs ==
  ASSUME NEW name
  PROVE  speak_lookup_portrait(name) \in (FirstPortrait..SPEAK_MAX_PORTRAIT) \cup {NoPortrait}
  BY TextAssumption DEF speak_lookup_portrait

(* Where a byte is found first. *)
LEMMA FirstIs ==
  ASSUME NEW s \in Seq(Nat), NEW I \in SUBSET (1..Len(s))
  PROVE  LET at == IF I # {} THEN Min(I) ELSE 0
         IN at \in 0..Len(s) /\ (at # 0 => at \in I /\ \A i \in 1..(at - 1) : i \notin I)
<1>1. Len(s) \in Nat
  OBVIOUS
<1>2. CASE I = {}
  BY <1>1, <1>2
<1>3. CASE I # {}
  <2>1. Min(I) \in I /\ \A y \in I : Min(I) <= y
    BY <1>1, <1>3, MinIs
  <2>2. Min(I) \in 1..Len(s)
    BY <2>1
  <2>3. \A i \in 1..(Min(I) - 1) : ~(Min(I) <= i)
    BY <2>2
  <2> QED
    BY <1>3, <2>1, <2>2, <2>3
<1> QED
  BY <1>2, <1>3

(* The text behind a colon, or behind the blanks after it. *)
IsRest(body, text) ==
  \/ body = <<>>
  \/ \E k \in 1..Len(text) :
       /\ body = SubSeq(text, k, Len(text))
       /\ k = 1 \/ text[k - 1] \in {Colon, Blank}

(* Leading blanks are all that is dropped. *)
LEMMA WordIs ==
  ASSUME NEW s \in Seq(Nat)
  PROVE  \/ WithoutLeadingSpaces(s) = <<>>
         \/ \E k \in 1..Len(s) : /\ WithoutLeadingSpaces(s) = SubSeq(s, k, Len(s))
                                 /\ k = 1 \/ s[k - 1] = Blank
<1> DEFINE I == {i \in 1..Len(s) : s[i] # Blank}
           word == IF I # {} THEN Min(I) ELSE 0
<1>1. WithoutLeadingSpaces(s) = IF word = 0 THEN <<>> ELSE SubSeq(s, word, Len(s))
  BY DEF WithoutLeadingSpaces, SelectInSeq
<1>2. word \in 0..Len(s) /\ (word # 0 => word \in I /\ \A i \in 1..(word - 1) : i \notin I)
  BY FirstIs
<1> HIDE DEF word
<1>3. SUFFICES ASSUME word # 0
      PROVE  \E k \in 1..Len(s) : WithoutLeadingSpaces(s) = SubSeq(s, k, Len(s)) /\ (k = 1 \/ s[k - 1] = Blank)
  BY <1>1
<1>4. word \in 1..Len(s) /\ (word = 1 \/ s[word - 1] = Blank)
  <2>1. word \in 1..Len(s)
    BY <1>2, <1>3
  <2>2. CASE word # 1
    <3>1. word - 1 \in 1..(word - 1) /\ word - 1 \in 1..Len(s)
      BY <2>1, <2>2
    <3> QED
      BY <1>2, <1>3, <2>1, <3>1
  <2> QED
    BY <2>1, <2>2
<1> QED
  BY <1>1, <1>3, <1>4

(* The request's portrait is one of the game's, and its text is cut from what is to be said. *)
LEMMA RequestIs ==
  ASSUME NEW user \in Seq(Nat), NEW text \in Seq(Nat), NEW show_name \in BOOLEAN,
         NEW default_portrait \in FirstPortrait..SPEAK_MAX_PORTRAIT
  PROVE  LET r == RequestFor(user, text, default_portrait, show_name)
             whole == IF show_name THEN user \o <<Colon, Blank>> \o r.body ELSE r.body
         IN /\ r.portrait \in FirstPortrait..SPEAK_MAX_PORTRAIT
            /\ r.body \in Seq(Nat) /\ IsRest(r.body, text)
            /\ whole \in Seq(Nat) /\ r.text = Cut(whole)
<1> DEFINE r == RequestFor(user, text, default_portrait, show_name)
           I == {i \in 1..Len(text) : text[i] = Colon}
           colon == IF I # {} THEN Min(I) ELSE 0
           found == IF colon \in 1..PrefixWindow
                    THEN speak_lookup_portrait(SubSeq(text, 1, colon - 1)) ELSE NoPortrait
           body == IF found = NoPortrait THEN text
                   ELSE WithoutLeadingSpaces(SubSeq(text, colon + 1, Len(text)))
<1>1. r = [portrait |-> IF found = NoPortrait THEN default_portrait ELSE found, body |-> body,
           text |-> IF show_name THEN Cut(user \o <<Colon, Blank>> \o body) ELSE Cut(body)]
  BY DEF RequestFor, SelectInSeq
<1>2. colon \in 0..Len(text) /\ (colon # 0 => text[colon] = Colon)
  <2>1. colon \in 0..Len(text) /\ (colon # 0 => colon \in I)
    BY FirstIs
  <2> HIDE DEF colon
  <2> QED
    BY <2>1
<1> HIDE DEF colon, r
<1>3. found \in (FirstPortrait..SPEAK_MAX_PORTRAIT) \cup {NoPortrait} /\ (found # NoPortrait => colon # 0)
  BY FoundIs
<1> HIDE DEF found
<1>4. body \in Seq(Nat) /\ IsRest(body, text)
  <2>1. CASE found = NoPortrait
    <3>1. body = text
      BY <2>1
    <3>2. CASE text = <<>>
      BY <3>1, <3>2 DEF IsRest
    <3>3. CASE text # <<>>
      <4>1. 1 \in 1..Len(text) /\ text = SubSeq(text, 1, Len(text))
        BY <3>3
      <4> QED
        BY <3>1, <4>1 DEF IsRest
    <3> QED
      BY <3>2, <3>3
  <2>2. CASE found # NoPortrait
    <3> DEFINE s == SubSeq(text, colon + 1, Len(text))
    <3>1. colon \in 1..Len(text) /\ text[colon] = Colon /\ Len(text) \in Nat
      BY <1>2, <1>3, <2>2
    <3>2. colon + 1 \in 1..(Len(text) + 1) /\ Len(text) \in ((colon + 1) - 1)..Len(text)
          /\ Len(text) - (colon + 1) + 1 = Len(text) - colon
      BY <3>1
    <3>3. /\ s \in Seq(Nat) /\ Len(s) = Len(text) - colon
          /\ \A i \in 1..(Len(text) - colon) : s[i] = text[(colon + 1) + i - 1]
      BY <3>2, SubSeqIs
    <3>4. body = WithoutLeadingSpaces(s)
      BY <2>2
    <3> HIDE DEF s, body
    <3>5. CASE body = <<>>
      BY <3>5 DEF IsRest
    <3>6. CASE body # <<>>
      <4>1. PICK k \in 1..Len(s) : body = SubSeq(s, k, Len(s)) /\ (k = 1 \/ s[k - 1] = Blank)
        BY <3>3, <3>4, <3>6, WordIs
      <4> DEFINE p == colon + k
                 u == SubSeq(text, p, Len(text))
      <4>2. p \in 1..Len(text) /\ p - 1 \in 1..Len(text)
        BY <3>1, <3>3
      <4>3. text[p - 1] \in {Colon, Blank}
        <5>1. CASE k = 1
          BY <3>1, <5>1
        <5>2. CASE k # 1
          <6>1. k - 1 \in 1..(Len(text) - colon) /\ (colon + 1) + (k - 1) - 1 = p - 1
            BY <3>1, <3>3, <5>2
          <6> QED
            BY <3>3, <4>1, <5>2, <6>1
        <5> QED
          BY <5>1, <5>2
      <4>4. body = u /\ body \in Seq(Nat)
        <5>1. k \in 1..(Len(s) + 1) /\ Len(s) \in (k - 1)..Len(s) /\ Len(s) \in Nat
          BY <3>3
        <5>2. /\ body \in Seq(Nat) /\ Len(body) = Len(s) - k + 1
              /\ \A i \in 1..(Len(s) - k + 1) : body[i] = s[k + i - 1]
          BY <3>3, <4>1, <5>1, SubSeqIs
        <5>3. p \in 1..(Len(text) + 1) /\ Len(text) \in (p - 1)..Len(text) /\ Len(text) - p + 1 = Len(s) - k + 1
          <6>1. k \in Nat /\ colon \in Nat /\ Len(text) \in Nat /\ Len(s) \in Nat /\ p \in Nat
            BY <3>1, <3>3
          <6>2. p >= 1 /\ p <= Len(text)
            BY <4>2, <6>1
          <6>3. Len(text) - p + 1 = Len(s) - k + 1
            BY <3>3, <6>1
          <6> HIDE DEF p
          <6> QED
            BY <6>1, <6>2, <6>3
        <5>4. /\ u \in Seq(Nat) /\ Len(u) = Len(s) - k + 1
              /\ \A i \in 1..(Len(s) - k + 1) : u[i] = text[p + i - 1]
          <6> HIDE DEF p
          <6>1. u \in Seq(Nat) /\ Len(u) = Len(text) - p + 1
                /\ \A i \in 1..(Len(text) - p + 1) : u[i] = text[p + i - 1]
            BY <5>3, SubSeqIs
          <6> QED
            BY <5>3, <6>1
        <5>5. ASSUME NEW i \in 1..(Len(s) - k + 1) PROVE body[i] = u[i]
          <6>1. k + i - 1 \in 1..(Len(text) - colon) /\ (colon + 1) + (k + i - 1) - 1 = p + i - 1
            BY <3>1, <3>3
          <6> QED
            BY <3>3, <5>2, <5>4, <6>1
        <5> HIDE DEF u
        <5> QED
          BY <5>2, <5>4, <5>5, SeqEqual
      <4> QED
        BY <4>2, <4>3, <4>4 DEF IsRest
    <3> QED
      BY <3>5, <3>6
  <2> QED
    BY <2>1, <2>2
<1> HIDE DEF body
<1> DEFINE whole == IF show_name THEN user \o <<Colon, Blank>> \o body ELSE body
<1>5. whole \in Seq(Nat)
  <2>1. <<Colon, Blank>> \in Seq(Nat)
    BY DEF Colon, Blank
  <2>2. user \o <<Colon, Blank>> \in Seq(Nat)
    BY <2>1, ConcatProperties
  <2>3. user \o <<Colon, Blank>> \o body \in Seq(Nat)
    BY <1>4, <2>2, ConcatProperties
  <2> QED
    BY <1>4, <2>3
<1>6. r.body = body /\ r.text = Cut(whole)
  BY <1>1
<1>7. r.portrait \in FirstPortrait..SPEAK_MAX_PORTRAIT
  BY <1>1, <1>3
<1> QED
  BY <1>4, <1>5, <1>6, <1>7 DEF r

(* The buffer's worth of a text. *)
LEMMA CutIs ==
  ASSUME NEW s \in Seq(Nat)
  PROVE  /\ Cut(s) \in Seq(Nat) /\ Len(Cut(s)) <= Len(s)
         /\ \A i \in 1..Len(Cut(s)) : Cut(s)[i] = s[i]
<1> DEFINE n == IF Len(s) < SPEAK_MAX_TEXT THEN Len(s) ELSE SPEAK_MAX_TEXT - 1
<1>1. SPEAK_MAX_TEXT \in 2..255 /\ Len(s) \in Nat
  BY TextAssumption
<1>2. n \in 0..Len(s)
  BY <1>1
<1>3. Cut(s) = SubSeq(s, 1, n)
  BY DEF Cut
<1> HIDE DEF n
<1>4. 1 \in 1..(Len(s) + 1) /\ n \in (1 - 1)..Len(s) /\ n - 1 + 1 = n
  BY <1>1, <1>2
<1>5. /\ Cut(s) \in Seq(Nat) /\ Len(Cut(s)) = n
      /\ \A i \in 1..n : Cut(s)[i] = s[1 + i - 1]
  BY <1>3, <1>4, SubSeqIs
<1> QED
  BY <1>2, <1>5

(* The blob is well formed for every message that the reader pushes. *)
LEMMA BlobsAre == StreamInv => BlobWellFormed
<1> SUFFICES ASSUME StreamInv, NEW m \in ToSet(pushed), NEW show_name \in BOOLEAN
             PROVE  WellFormed(build_blob(TextBox(show_name, m).text, TextBox(show_name, m).portrait),
                               TextBox(show_name, m).portrait)
  BY DEF BlobWellFormed
<1>1. m.user \in Seq(Nat) /\ m.text \in Seq(Nat)
  <2>1. m \in Said
    BY DEF ToSet, StreamInv
  <2> QED
    BY <2>1, SaidIs
<1> DEFINE r == TextBox(show_name, m)
           whole == IF show_name THEN m.user \o <<Colon, Blank>> \o r.body ELSE r.body
<1>2. r.portrait \in FirstPortrait..SPEAK_MAX_PORTRAIT /\ whole \in Seq(Nat) /\ r.text = Cut(whole)
  BY <1>1, PortraitAssumption, RequestIs DEF TextBox
<1>3. r.text \in Seq(Nat)
  BY <1>2, CutIs
<1> HIDE DEF r
<1>4. WellFormed(build_blob(r.text, r.portrait), r.portrait)
  BY <1>2, <1>3, BlobIs
<1> QED
  BY <1>4 DEF r

-----------------------------------------------------------------------------
(* What the box shows. *)

(* The character there is what it claims, in a whole text. *)
LEMMA CharIs ==
  ASSUME NEW s \in Seq(Nat), WholeSequences(s), NEW i \in 1..Len(s), ~IsContinuation(s[i])
  PROVE  /\ Claimed(s[i]) \in 1..4 /\ i + Claimed(s[i]) - 1 <= Len(s)
         /\ \A j \in 1..(Claimed(s[i]) - 1) : IsContinuation(s[i + j])
         /\ i + Claimed(s[i]) <= Len(s) => ~IsContinuation(s[i + Claimed(s[i])])
<1> DEFINE n == Claimed(s[i])
<1>1. n \in 1..4 /\ \A j \in 1..(n - 1) : i + j <= Len(s) /\ IsContinuation(s[i + j])
  BY ClaimedIs DEF WholeSequences
<1> HIDE DEF n
<1>2. i + n - 1 <= Len(s)
  <2>1. CASE n = 1
    BY <2>1
  <2>2. CASE n # 1
    <3>1. n - 1 \in 1..(n - 1) /\ i + (n - 1) = i + n - 1
      BY <1>1, <2>2
    <3> QED
      BY <1>1, <3>1
  <2> QED
    BY <2>1, <2>2
<1>3. ASSUME i + n <= Len(s), IsContinuation(s[i + n]) PROVE FALSE
  <2>1. i + n \in 1..Len(s)
    BY <1>1, <1>3
  <2>2. PICK k \in 1..3 : /\ k < i + n /\ ~IsContinuation(s[(i + n) - k]) /\ Claimed(s[(i + n) - k]) > k
                          /\ \A j \in 1..(k - 1) : IsContinuation(s[(i + n) - j])
    BY <1>3, <2>1 DEF WholeSequences
  <2>3. CASE k < n
    <3>1. n - k \in 1..(n - 1) /\ i + (n - k) = (i + n) - k
      BY <1>1, <2>3
    <3> QED
      BY <1>1, <2>2, <3>1
  <2>4. CASE k = n
    <3>1. (i + n) - k = i
      BY <1>1, <2>4
    <3>2. n > k
      BY <2>2, <3>1 DEF n
    <3> QED
      BY <1>1, <2>4, <3>2
  <2>5. CASE k > n
    <3>1. n \in 1..(k - 1) /\ (i + n) - n = i
      BY <1>1, <2>5
    <3> QED
      BY <2>2, <3>1
  <2> QED
    BY <1>1, <2>3, <2>4, <2>5
<1> QED
  BY <1>1, <1>2, <1>3 DEF n

(* That is where the next one begins, and what the loop takes. *)
LEMMA CharacterIs ==
  ASSUME NEW s \in Seq(Nat), WholeSequences(s), NEW i \in 1..Len(s), ~IsContinuation(s[i])
  PROVE  /\ CharacterAt(s, i) = SubSeq(s, i, i + Claimed(s[i]) - 1)
         /\ Taken(s, i) = Claimed(s[i])
<1> DEFINE n == Claimed(s[i])
           next == {j \in (i + 1)..Len(s) : ~IsContinuation(s[j])}
           K == {k \in 1..n : i + k - 1 <= Len(s) /\ \A j \in 1..(k - 1) : IsContinuation(s[i + j])}
<1>1. /\ n \in 1..4 /\ i + n - 1 <= Len(s)
      /\ \A j \in 1..(n - 1) : IsContinuation(s[i + j])
      /\ i + n <= Len(s) => ~IsContinuation(s[i + n])
  BY CharIs
<1>2. i \in Nat /\ Len(s) \in Nat
  OBVIOUS
<1>3. CharacterAt(s, i) = SubSeq(s, i, IF next = {} THEN Len(s) ELSE Min(next) - 1)
  BY DEF CharacterAt
<1>4. Taken(s, i) = Cardinality(K)
  <2>1. n # 0
    BY <1>1
  <2> QED
    BY <2>1 DEF Taken
<1>5. K = 1..n
  <2> HIDE DEF n
  <2>1. ASSUME NEW k \in 1..n PROVE k \in K
    <3>1. i + k - 1 <= Len(s) /\ \A j \in 1..(k - 1) : j \in 1..(n - 1)
      BY <1>1, <1>2
    <3> QED
      BY <1>1, <3>1
  <2> QED
    BY <2>1
<1>6. Cardinality(1..n) = n
  <2> HIDE DEF n
  <2>1. n \in Int /\ 1 \in Int /\ n >= 1
    BY <1>1
  <2> QED
    BY <2>1, FS_Interval
<1> HIDE DEF n
<1>7. ASSUME NEW j \in next PROVE j >= i + n
  <2>1. j \in (i + 1)..Len(s) /\ ~IsContinuation(s[j])
    OBVIOUS
  <2>2. SUFFICES ASSUME j < i + n PROVE FALSE
    BY <1>1, <1>2, <2>1
  <2>3. j - i \in 1..(n - 1) /\ i + (j - i) = j
    BY <1>1, <1>2, <2>1, <2>2
  <2> QED
    BY <1>1, <2>1, <2>3
<1>8. CASE i + n <= Len(s)
  <2>1. i + n \in next
    BY <1>1, <1>2, <1>8
  <2>2. next \in SUBSET (1..Len(s))
    BY <1>2
  <2> HIDE DEF next
  <2>3. Min(next) \in next /\ \A y \in next : Min(next) <= y
    BY <1>2, <2>1, <2>2, MinIs
  <2>4. Min(next) \in 1..Len(s) /\ Min(next) <= i + n /\ Min(next) >= i + n
    BY <1>7, <2>1, <2>2, <2>3
  <2>5. Min(next) = i + n
    BY <1>1, <1>2, <2>4
  <2>8. next # {}
    BY <2>1
  <2>6. Min(next) - 1 = i + n - 1
    <3>1. Min(next) \in Nat /\ i \in Nat /\ n \in Nat
      BY <1>1, <1>2, <2>4
    <3> QED
      BY <2>5, <3>1
  <2>7. CharacterAt(s, i) = SubSeq(s, i, i + n - 1)
    BY <1>3, <2>6, <2>8
  <2> QED
    BY <1>4, <1>5, <1>6, <2>7 DEF n
<1>9. CASE ~(i + n <= Len(s))
  <2>1. next = {}
    <3>1. \A j \in next : j \in (i + 1)..Len(s)
      OBVIOUS
    <3> HIDE DEF next
    <3> QED
      BY <1>1, <1>2, <1>7, <1>9, <3>1
  <2>2. Len(s) = i + n - 1
    BY <1>1, <1>2, <1>9
  <2> QED
    BY <1>3, <1>4, <1>5, <1>6, <2>1, <2>2 DEF n
<1> QED
  BY <1>8, <1>9

(* What is to be seen of a text, one more character at a time. *)
LEMMA SeeingIs ==
  ASSUME NEW s \in Seq(Nat)
  PROVE  /\ Seeing(s)[0] = <<>>
         /\ \A k \in 0..Len(s) : Seeing(s)[k] \in Seq(Nat)
         /\ \A k \in 1..Len(s) :
              Seeing(s)[k] = IF s[k] \in {Undrawable, Blank} THEN Seeing(s)[k - 1]
                             ELSE Append(Seeing(s)[k - 1], s[k])
<1> DEFINE N == Len(s)
           Add(u, c) == IF c \in {Undrawable, Blank} THEN u ELSE Append(u, c)
           F == [k \in 1..N |-> [u \in Seq(Nat) |-> Add(u, s[k])]]
           T == Seeing(s)
           Eq(g) == g = [k \in 0..N |-> IF k = 0 THEN <<>> ELSE Add(g[k - 1], s[k])]
<1>1. N \in Nat /\ <<>> \in Seq(Nat) /\ \A k \in 1..N : s[k] \in Nat
  OBVIOUS
<1>2. ASSUME NEW u \in Seq(Nat), NEW c \in Nat PROVE Add(u, c) \in Seq(Nat)
  OBVIOUS
<1> HIDE DEF Add
<1>3. F \in [1..N -> [Seq(Nat) -> Seq(Nat)]]
  BY <1>1, <1>2
<1>4. PICK g : Runs(N, Seq(Nat), <<>>, F, g)
  <2> HIDE DEF N, F
  <2>1. IsLoop(N, Seq(Nat), <<>>, F)
    BY <1>1, <1>3 DEF IsLoop
  <2> QED
    BY <2>1, LoopRuns
<1>5. \A k \in 0..N : g[k] = IF k = 0 THEN <<>> ELSE Add(g[k - 1], s[k])
  <2> TAKE k \in 0..N
  <2>1. CASE k = 0
    BY <1>4, <2>1 DEF Runs
  <2>2. CASE k # 0
    <3>1. k \in 1..N /\ k - 1 \in 0..N
      BY <1>1, <2>2
    <3>2. g[k - 1] \in Seq(Nat)
      BY <1>4, <3>1 DEF Runs
    <3>3. F[k][g[k - 1]] = Add(g[k - 1], s[k])
      BY <3>1, <3>2
    <3> QED
      BY <1>4, <2>2, <3>1, <3>3 DEF Runs
  <2> QED
    BY <2>1, <2>2
<1>6. Eq(g)
  <2> HIDE DEF F
  <2> QED
    BY <1>4, <1>5 DEF Runs
<1>7. Eq(T)
  BY <1>6 DEF Seeing, Add
<1> HIDE DEF T
<1>8. T[0] = <<>> /\ \A k \in 1..N : T[k] = Add(T[k - 1], s[k])
  <2>1. 0 \in 0..N /\ \A k \in 1..N : k \in 0..N /\ k # 0
    BY <1>1
  <2> QED
    BY <1>7, <2>1
<1> DEFINE P == {k \in 0..N : T[k] \in Seq(Nat)}
<1>9. 0..N \subseteq P
  <2>1. 0 \in P
    <3>1. T[0] \in Seq(Nat) /\ 0 \in 0..N
      BY <1>1, <1>8
    <3> QED
      BY <3>1
  <2>2. ASSUME NEW k \in 1..N, k - 1 \in P PROVE k \in P
    <3>1. T[k - 1] \in Seq(Nat) /\ T[k] = Add(T[k - 1], s[k]) /\ k \in 0..N
      BY <1>1, <1>8, <2>2
    <3> QED
      BY <1>1, <1>2, <3>1
  <2> HIDE DEF P, N
  <2> QED
    BY <1>1, <2>1, <2>2, LoopInd
<1> QED
  BY <1>8, <1>9 DEF T, Add

(* Only what is read so far counts. *)
LEMMA SeeingSame ==
  ASSUME NEW s \in Seq(Nat), NEW t \in Seq(Nat), NEW n \in 0..Len(s), n <= Len(t),
         \A i \in 1..n : s[i] = t[i]
  PROVE  Seeing(s)[n] = Seeing(t)[n]
<1> DEFINE P == {k \in 0..n : Seeing(s)[k] = Seeing(t)[k]}
<1>1. 0 \in P
  BY SeeingIs
<1>2. ASSUME NEW k \in 1..n, k - 1 \in P PROVE k \in P
  <2>1. k \in 1..Len(s) /\ k \in 1..Len(t) /\ k \in 0..n /\ s[k] = t[k]
    OBVIOUS
  <2> QED
    BY <1>2, <2>1, SeeingIs
<1>3. n \in P
  <2> HIDE DEF P
  <2>0. n \in Nat /\ n \in 0..n
    OBVIOUS
  <2>1. 0..n \subseteq P
    BY <2>0, <1>1, <1>2, LoopInd
  <2> QED
    BY <2>0, <2>1
<1> QED
  BY <1>3

(* A character more to be seen, unless it is not to be seen. *)
LEMMA SeenAppend ==
  ASSUME NEW s \in Seq(Nat), NEW c \in Nat
  PROVE  Seen(Append(s, c)) = IF c \in {Undrawable, Blank} THEN Seen(s) ELSE Append(Seen(s), c)
<1> DEFINE t == Append(s, c)
           n == Len(s)
<1>1. n \in Nat /\ t \in Seq(Nat) /\ Len(t) = n + 1 /\ t[n + 1] = c /\ \A i \in 1..n : t[i] = s[i]
  OBVIOUS
<1> HIDE DEF t
<1>2. Seeing(t)[n] = Seeing(s)[n]
  <2>1. n \in 0..Len(s) /\ n <= Len(t) /\ n \in 0..Len(t)
    BY <1>1
  <2> QED
    BY <1>1, <2>1, SeeingSame
<1>3. n + 1 \in 1..Len(t) /\ (n + 1) - 1 = n
  BY <1>1
<1>4. Seeing(t)[n + 1] = IF c \in {Undrawable, Blank} THEN Seeing(s)[n] ELSE Append(Seeing(s)[n], c)
  BY <1>1, <1>2, <1>3, SeeingIs
<1> QED
  BY <1>1, <1>4 DEF Seen, t

(* What is to be seen only grows. *)
LEMMA SeeingGrows ==
  ASSUME NEW s \in Seq(Nat), NEW m \in 0..Len(s), NEW n \in m..Len(s)
  PROVE  /\ Len(Seeing(s)[m]) <= Len(Seeing(s)[n])
         /\ \A i \in 1..Len(Seeing(s)[m]) : Seeing(s)[n][i] = Seeing(s)[m][i]
<1> DEFINE S == Seeing(s)
           Grown(k) == Len(S[m]) <= Len(S[k]) /\ \A i \in 1..Len(S[m]) : S[k][i] = S[m][i]
           P == {k \in 0..n : k >= m => Grown(k)}
<1>1. n \in Nat /\ m \in Nat /\ m <= n /\ n <= Len(s) /\ Len(s) \in Nat
  OBVIOUS
<1>2. /\ \A k \in 0..Len(s) : S[k] \in Seq(Nat)
      /\ \A k \in 1..Len(s) : S[k] = IF s[k] \in {Undrawable, Blank} THEN S[k - 1] ELSE Append(S[k - 1], s[k])
  BY SeeingIs
<1> HIDE DEF S
<1>3. S[m] \in Seq(Nat) /\ Grown(m)
  BY <1>1, <1>2
<1>4. 0 \in P
  <2>1. 0 >= m => m = 0
    BY <1>1
  <2> HIDE DEF Grown
  <2> QED
    BY <1>1, <1>3, <2>1
<1>5. ASSUME NEW k \in 1..n, k - 1 \in P PROVE k \in P
  <2>1. SUFFICES ASSUME k > m PROVE Grown(k)
    <3> HIDE DEF Grown
    <3> QED
      BY <1>1, <1>3, <2>1
  <2>2. k - 1 >= m /\ k \in 1..Len(s) /\ k - 1 \in 0..Len(s)
    BY <1>1, <2>1
  <2>3. Grown(k - 1) /\ S[k - 1] \in Seq(Nat) /\ s[k] \in Nat
    BY <1>2, <1>5, <2>2
  <2>4. CASE S[k] = S[k - 1]
    BY <2>3, <2>4
  <2>5. CASE S[k] = Append(S[k - 1], s[k])
    <3> DEFINE u == S[k - 1]
               w == S[k]
               b == S[m]
    <3>1. u \in Seq(Nat) /\ Len(b) <= Len(u) /\ (\A i \in 1..Len(b) : u[i] = b[i]) /\ w = Append(u, s[k])
          /\ Len(b) \in Nat
      BY <1>3, <2>3, <2>5
    <3> HIDE DEF u, w, b
    <3>2. Len(w) = Len(u) + 1 /\ Len(u) \in Nat /\ \A i \in 1..Len(u) : w[i] = u[i]
      BY <2>3, <3>1
    <3>3. Len(b) <= Len(w) /\ \A i \in 1..Len(b) : i \in 1..Len(u) /\ w[i] = b[i]
      BY <3>1, <3>2
    <3> QED
      BY <3>3 DEF w, b
  <2> QED
    BY <1>2, <2>2, <2>4, <2>5
<1>6. n \in P
  <2> HIDE DEF P
  <2>1. 0..n \subseteq P
    BY <1>1, <1>4, <1>5, LoopInd
  <2> QED
    BY <1>1, <2>1
<1> QED
  BY <1>1, <1>6 DEF S

(* What is seen of the beginning is the beginning of what is seen. *)
LEMMA SeeingPrefix ==
  ASSUME NEW s \in Seq(Nat), NEW m \in 0..Len(s)
  PROVE  IsPrefix(Seeing(s)[m], Seen(s))
<1> DEFINE u == Seeing(s)[m]
           w == Seen(s)
<1>1. Len(s) \in m..Len(s) /\ Len(s) \in 0..Len(s)
  OBVIOUS
<1>2. u \in Seq(Nat) /\ w \in Seq(Nat)
  BY <1>1, SeeingIs DEF Seen
<1>3. Len(u) <= Len(w) /\ \A i \in 1..Len(u) : w[i] = u[i]
  BY <1>1, SeeingGrows DEF Seen
<1> HIDE DEF u, w
<1>4. Len(u) \in Nat /\ Len(w) \in Nat
  BY <1>2
<1>5. 1 \in 1..(Len(u) + 1) /\ Len(u) \in (1 - 1)..Len(u) /\ Len(u) - 1 + 1 = Len(u)
      /\ 1 \in 1..(Len(w) + 1) /\ Len(u) \in (1 - 1)..Len(w) /\ \A i \in 1..Len(u) : 1 + i - 1 = i
  BY <1>3, <1>4
<1>6. SubSeq(u, 1, Len(u)) = SubSeq(w, 1, Len(u))
  <2>1. /\ SubSeq(u, 1, Len(u)) \in Seq(Nat) /\ Len(SubSeq(u, 1, Len(u))) = Len(u)
        /\ \A i \in 1..Len(u) : SubSeq(u, 1, Len(u))[i] = u[i]
    BY <1>2, <1>5, SubSeqIs
  <2>2. /\ SubSeq(w, 1, Len(u)) \in Seq(Nat) /\ Len(SubSeq(w, 1, Len(u))) = Len(u)
        /\ \A i \in 1..Len(u) : SubSeq(w, 1, Len(u))[i] = w[i]
    BY <1>2, <1>5, SubSeqIs
  <2> QED
    BY <1>3, <2>1, <2>2, SeqEqual
<1> QED
  BY <1>3, <1>4, <1>6 DEF IsPrefix, u, w

(* The glyphs of a text, one for each byte. *)
LEMMA GlyphsAre ==
  ASSUME NEW s \in Seq(Nat)
  PROVE  /\ Glyphs(s) \in Seq(Nat) /\ Len(Glyphs(s)) = Len(s)
         /\ \A i \in 1..Len(s) :
              Glyphs(s)[i] = IF IsContinuation(s[i]) THEN Undrawable ELSE Glyph(CharacterAt(s, i))
<1>1. \A char : Glyph(char) \in Nat
  <2>1. Undrawable \in Nat
    BY DEF Undrawable
  <2> QED
    BY <2>1, GlyphIs, BlankIs
<1>2. Len(s) \in Nat /\ Undrawable \in Nat
  BY DEF Undrawable
<1>3. Glyphs(s) = [i \in 1..Len(s) |-> IF IsContinuation(s[i]) THEN Undrawable ELSE Glyph(CharacterAt(s, i))]
  BY DEF Glyphs
<1>4. \A i \in 1..Len(s) : (IF IsContinuation(s[i]) THEN Undrawable ELSE Glyph(CharacterAt(s, i))) \in Nat
  BY <1>1, <1>2
<1> QED
  BY <1>2, <1>3, <1>4

(* What a turn passes over shows nothing but the character it starts at. *)
LEMMA PassIs ==
  ASSUME NEW s \in Seq(Nat), WholeSequences(s), NEW i \in 1..Len(s), ~IsContinuation(s[i])
  PROVE  LET S == Seeing(Glyphs(s))
             c == Here(s, i)
             n == Taken(s, i)
         IN /\ n \in 1..4 /\ i + n - 1 <= Len(s)
            /\ i + n <= Len(s) => ~IsContinuation(s[i + n])
            /\ S[i + n - 1] = IF c \in {Undrawable, Blank} THEN S[i - 1] ELSE Append(S[i - 1], c)
<1> DEFINE S == Seeing(Glyphs(s))
           c == Here(s, i)
           n == Taken(s, i)
<1>1. /\ n \in 1..4 /\ i + n - 1 <= Len(s)
      /\ \A j \in 1..(n - 1) : IsContinuation(s[i + j])
      /\ i + n <= Len(s) => ~IsContinuation(s[i + n])
      /\ CharacterAt(s, i) = SubSeq(s, i, i + n - 1)
  BY CharIs, CharacterIs
<1>2. Glyphs(s)[i] = c
  BY <1>1, GlyphsAre DEF Here
<1>3. \A k \in 1..Len(s) : S[k] = IF Glyphs(s)[k] \in {Undrawable, Blank} THEN S[k - 1] ELSE Append(S[k - 1], Glyphs(s)[k])
  BY GlyphsAre, SeeingIs
<1> HIDE DEF S, c, n
<1>4. S[i] = IF c \in {Undrawable, Blank} THEN S[i - 1] ELSE Append(S[i - 1], c)
  BY <1>2, <1>3
<1> DEFINE P == {k \in 0..(n - 1) : S[i + k] = S[i]}
<1>5. 0 \in P
  BY <1>1
<1>6. ASSUME NEW k \in 1..(n - 1), k - 1 \in P PROVE k \in P
  <2>1. i + k \in 1..Len(s) /\ (i + k) - 1 = i + (k - 1) /\ k \in 0..(n - 1)
    BY <1>1
  <2>2. Glyphs(s)[i + k] = Undrawable
    BY <1>1, <2>1, GlyphsAre
  <2>3. S[i + k] = S[(i + k) - 1]
    BY <1>3, <2>1, <2>2
  <2>4. S[i + (k - 1)] = S[i]
    BY <1>6
  <2> QED
    BY <2>1, <2>3, <2>4
<1>7. n - 1 \in P
  <2> HIDE DEF P
  <2>1. n - 1 \in Nat /\ n - 1 \in 0..(n - 1)
    BY <1>1
  <2>2. 0..(n - 1) \subseteq P
    BY <1>5, <1>6, <2>1, LoopInd
  <2> QED
    BY <2>1, <2>2
<1>8. S[i + n - 1] = S[i]
  <2>1. i + (n - 1) = i + n - 1
    BY <1>1
  <2> QED
    BY <1>7, <2>1
<1> QED
  BY <1>1, <1>4, <1>8 DEF S, c, n

(* What a turn of the loop shows so far: the text before where it is, or all that
   there was room for. *)
Shown(s, d) ==
  /\ d.at \in 1..(Len(s) + 1)
  /\ d.at <= Len(s) => ~IsContinuation(s[d.at])
  /\ \E j \in 0..Len(s) : Seen(d.out) = Seeing(Glyphs(s))[j] /\ (~NoRoom(d.out) => j = d.at - 1)

(* A turn adds to what is seen what its character shows, unless the buffer is full. *)
LEMMA SeenWrites ==
  ASSUME NEW s \in Seq(Nat), NEW d \in DrawState, NEW out \in Seq(FontCharacters), NEW run \in Nat,
         Writes(s, d, out, run)
  PROVE  \/ /\ Seen(out) = IF Here(s, d.at) \in {Undrawable, Blank} THEN Seen(d.out)
                           ELSE Append(Seen(d.out), Here(s, d.at))
         \/ NoRoom(out) /\ Seen(out) = Seen(d.out)
<1> DEFINE c == Here(s, d.at)
<1>1. /\ \A u \in Seq(Nat) : Seen(Append(u, Blank)) = Seen(u)
      /\ \A u \in Seq(Nat), x \in FontCharacters \ {Blank} : Seen(Append(u, x)) = Append(Seen(u), x)
  BY SeenAppend, BlankIs
<1>2. d.out \in Seq(Nat) /\ Blank \in Nat
  <2>1. d.out \in Seq(FontCharacters)
    BY DEF DrawState
  <2> QED
    BY <2>1, BlankIs, SeqWithin
<1> HIDE DEF c
<1>3. CASE c = Undrawable /\ out = d.out
  BY <1>3 DEF c
<1>4. CASE c = Blank /\ out = Append(d.out, Blank)
  BY <1>1, <1>2, <1>4 DEF c
<1>5. CASE c \in FontCharacters \ {Blank} /\ out = Append(d.out, c)
  <2>1. Seen(out) = Append(Seen(d.out), c) /\ c \notin {Undrawable, Blank}
    BY <1>1, <1>2, <1>5, BlankIs
  <2> QED
    BY <2>1 DEF c
<1>6. CASE NoRoom(Append(d.out, Blank)) /\ out = Append(d.out, Blank)
  BY <1>1, <1>2, <1>6
<1>7. CASE c \in FontCharacters \ {Blank} /\ out = d.out \o <<Blank, c>>
  <2> DEFINE o == Append(d.out, Blank)
  <2>1. o \in Seq(Nat) /\ Seen(o) = Seen(d.out)
    BY <1>1, <1>2
  <2>2. out = Append(o, c)
    <3>1. c \in Nat
      BY <1>7, BlankIs
    <3>2. \A u \in Seq(Nat), x, y \in Nat : Append(Append(u, x), y) = u \o <<x, y>>
      BY AppendTwo
    <3> QED
      BY <1>2, <1>7, <3>1, <3>2
  <2> HIDE DEF o
  <2>3. Seen(out) = Append(Seen(d.out), c) /\ c \notin {Undrawable, Blank}
    BY <1>1, <1>7, <2>1, <2>2, BlankIs
  <2> QED
    BY <2>3 DEF c
<1> QED
  BY <1>3, <1>4, <1>5, <1>6, <1>7 DEF Writes, c

(* A turn keeps that, and goes on. *)
LEMMA ShownTurn ==
  ASSUME NEW s \in Seq(Nat), WholeSequences(s), NEW d \in DrawState, Shown(s, d)
  PROVE  /\ Shown(s, DrawTurn(s, d))
         /\ ~Ended(s, d) => DrawTurn(s, d).at > d.at
<1>1. CASE Ended(s, d)
  BY <1>1, TurnEnded
<1>2. CASE ~Ended(s, d)
  <2> DEFINE t == DrawTurn(s, d)
             n == Taken(s, d.at)
             c == Here(s, d.at)
             S == Seeing(Glyphs(s))
  <2>1. PICK out \in Seq(FontCharacters), run \in Nat :
          Writes(s, d, out, run) /\ t = [at |-> d.at + n, out |-> out, run |-> run]
    BY <1>2, TurnGoes
  <2>2. t.at = d.at + n /\ t.out = out
    BY <2>1
  <2>3. d.at \in 1..Len(s) /\ ~IsContinuation(s[d.at]) /\ Seen(d.out) = S[d.at - 1] /\ d.at - 1 \in 0..Len(s)
    <3>1. Len(s) \in Nat /\ d.at \in Nat \ {0} /\ d.at <= Len(s) /\ ~NoRoom(d.out)
      BY <1>2 DEF Ended, DrawState
    <3>2. ~IsContinuation(s[d.at]) /\ Seen(d.out) = S[d.at - 1]
      BY <3>1 DEF Shown
    <3> QED
      BY <3>1, <3>2
  <2>4. /\ n \in 1..4 /\ d.at + n - 1 <= Len(s)
        /\ d.at + n <= Len(s) => ~IsContinuation(s[d.at + n])
        /\ S[d.at + n - 1] = IF c \in {Undrawable, Blank} THEN S[d.at - 1] ELSE Append(S[d.at - 1], c)
    BY <2>3, PassIs
  <2>5. \/ Seen(out) = S[d.at + n - 1]
        \/ NoRoom(out) /\ Seen(out) = S[d.at - 1]
    BY <2>1, <2>3, <2>4, SeenWrites
  <2> HIDE DEF t, n, c, S
  <2>6. t.at \in 1..(Len(s) + 1) /\ t.at > d.at /\ d.at + n - 1 \in 0..Len(s) /\ t.at - 1 = d.at + n - 1
    <3>1. n \in Nat /\ n >= 1 /\ d.at \in Nat /\ d.at >= 1 /\ Len(s) \in Nat /\ d.at + n - 1 <= Len(s)
      BY <2>3, <2>4
    <3> QED
      BY <2>2, <3>1
  <2>7. t.at <= Len(s) => ~IsContinuation(s[t.at])
    BY <2>2, <2>4
  <2>8. \E j \in 0..Len(s) : Seen(t.out) = S[j] /\ (~NoRoom(t.out) => j = t.at - 1)
    <3>1. CASE Seen(out) = S[d.at + n - 1]
      BY <2>2, <2>6, <3>1
    <3>2. CASE NoRoom(out) /\ Seen(out) = S[d.at - 1]
      BY <2>2, <2>3, <3>2
    <3> QED
      BY <2>5, <3>1, <3>2
  <2> QED
    BY <2>6, <2>7, <2>8 DEF Shown, t, S
<1> QED
  BY <1>1, <1>2

(* What is drawn of a whole text shows the beginning of it, and all of it if there
   was room. *)
LEMMA DrawnShows ==
  ASSUME NEW s \in Seq(Nat), WholeSequences(s)
  PROVE  \E j \in 0..Len(s) : /\ Seen(Drawn(s)) = Seeing(Glyphs(s))[j]
                              /\ Len(Drawn(s)) < SPEAK_MAX_TEXT - 1 => j = Len(s)
<1> DEFINE N == Len(s)
           T == DrawTurns(s)
           Good(k) == Shown(s, T[k]) /\ (Ended(s, T[k]) \/ T[k].at >= k + 1)
           P == {k \in 0..N : Good(k)}
<1>1. /\ T[0] = [at |-> 1, out |-> <<>>, run |-> 0] /\ \A k \in 0..N : T[k] \in DrawState
      /\ \A k \in 1..N : T[k] = DrawTurn(s, T[k - 1])
  BY DrawTurnsAre
<1> HIDE DEF T
<1>2. N \in Nat
  OBVIOUS
<1>3. 0 \in P
  <2>1. T[0].out = <<>> /\ T[0].at = 1
    BY <1>1
  <2>2. Seen(<<>>) = <<>>
    <3>1. <<>> \in Seq(Nat) /\ Len(<<>>) = 0
      OBVIOUS
    <3> QED
      BY <3>1, SeeingIs DEF Seen
  <2>3. Seeing(Glyphs(s))[0] = <<>>
    BY GlyphsAre, SeeingIs
  <2>4. 1 \in 1..(Len(s) + 1) /\ 0 \in 0..Len(s) /\ 1 - 1 = 0 /\ 0 + 1 = 1
    BY <1>2
  <2>5. 1 <= Len(s) => ~IsContinuation(s[1])
    <3> SUFFICES ASSUME 1 <= Len(s), IsContinuation(s[1]) PROVE FALSE
      OBVIOUS
    <3>1. 1 \in 1..Len(s)
      BY <1>2
    <3>2. \E k \in 1..3 : k < 1
      BY <3>1 DEF WholeSequences
    <3> QED
      BY <3>2
  <2>6. Shown(s, T[0])
    BY <2>1, <2>2, <2>3, <2>4, <2>5 DEF Shown
  <2> QED
    BY <1>2, <2>1, <2>4, <2>6
<1>4. ASSUME NEW k \in 1..N, k - 1 \in P PROVE k \in P
  <2>1. T[k - 1] \in DrawState /\ T[k] = DrawTurn(s, T[k - 1]) /\ k \in 0..N
        /\ Shown(s, T[k - 1]) /\ (Ended(s, T[k - 1]) \/ T[k - 1].at >= k)
    <3>1. k - 1 \in 0..N /\ k \in 0..N /\ (k - 1) + 1 = k
      BY <1>2
    <3> QED
      BY <1>1, <1>4, <3>1
  <2>2. Shown(s, T[k]) /\ (~Ended(s, T[k - 1]) => T[k].at > T[k - 1].at)
    BY <2>1, ShownTurn
  <2>3. Ended(s, T[k - 1]) => Ended(s, T[k])
    BY <2>1, TurnEnded
  <2>4. T[k].at \in Nat /\ T[k - 1].at \in Nat
    BY <1>2, <2>1, <2>2 DEF Shown
  <2>5. Ended(s, T[k]) \/ T[k].at >= k + 1
    BY <2>1, <2>2, <2>3, <2>4
  <2> QED
    BY <2>1, <2>2, <2>5
<1>5. Good(N)
  <2> HIDE DEF P
  <2>1. 0..N \subseteq P
    BY <1>2, <1>3, <1>4, LoopInd
  <2>2. N \in P
    BY <1>2, <2>1
  <2> QED
    BY <2>2 DEF P
<1> DEFINE d == T[N]
<1>6. Drawn(s) = d.out /\ d \in DrawState
  BY <1>1, <1>2 DEF Drawn, T
<1> HIDE DEF d
<1>7. Shown(s, d) /\ Ended(s, d)
  <2>1. d.at \in Nat
    BY <1>5 DEF Shown, d
  <2> QED
    BY <1>2, <1>5, <2>1 DEF d, Ended
<1>8. PICK j \in 0..Len(s) : Seen(d.out) = Seeing(Glyphs(s))[j] /\ (~NoRoom(d.out) => j = d.at - 1)
  BY <1>7 DEF Shown
<1>9. Len(d.out) < SPEAK_MAX_TEXT - 1 => j = Len(s)
  <2> SUFFICES ASSUME Len(d.out) < SPEAK_MAX_TEXT - 1 PROVE j = Len(s)
    OBVIOUS
  <2>1. Len(d.out) \in Nat /\ SPEAK_MAX_TEXT \in Nat
    BY <1>6, TextAssumption DEF DrawState
  <2>2. ~NoRoom(d.out)
    BY <2>1 DEF NoRoom
  <2>3. d.at > Len(s) /\ d.at \in 1..(Len(s) + 1)
    BY <1>7, <2>2 DEF Ended, Shown
  <2> QED
    BY <1>2, <1>8, <2>2, <2>3
<1> QED
  BY <1>6, <1>8, <1>9

(* Cutting a whole text between characters changes none of those before the cut. *)
LEMMA GlyphsSame ==
  ASSUME NEW s \in Seq(Nat), WholeSequences(s), NEW x \in Seq(Nat), WholeSequences(x), Len(x) <= Len(s),
         \A i \in 1..Len(x) : x[i] = s[i], NEW i \in 1..Len(x)
  PROVE  Glyphs(x)[i] = Glyphs(s)[i]
<1>1. i \in 1..Len(s) /\ x[i] = s[i] /\ Len(x) \in Nat /\ Len(s) \in Nat
  OBVIOUS
<1>2. CASE IsContinuation(x[i])
  BY <1>1, <1>2, GlyphsAre
<1>3. CASE ~IsContinuation(x[i])
  <2> DEFINE n == Claimed(x[i])
             u == SubSeq(x, i, i + n - 1)
             w == SubSeq(s, i, i + n - 1)
  <2>1. n \in 1..4 /\ i + n - 1 <= Len(x) /\ CharacterAt(x, i) = u
    BY <1>3, CharIs, CharacterIs
  <2>2. CharacterAt(s, i) = w
    BY <1>1, <1>3, CharacterIs
  <2> HIDE DEF n
  <2>3. /\ i \in 1..(Len(x) + 1) /\ i + n - 1 \in (i - 1)..Len(x) /\ (i + n - 1) - i + 1 = n
        /\ i \in 1..(Len(s) + 1) /\ i + n - 1 \in (i - 1)..Len(s)
    BY <1>1, <2>1
  <2>4. u \in Seq(Nat) /\ Len(u) = n /\ \A k \in 1..n : u[k] = x[i + k - 1]
    <3>1. u \in Seq(Nat) /\ Len(u) = (i + n - 1) - i + 1
          /\ \A k \in 1..((i + n - 1) - i + 1) : u[k] = x[i + k - 1]
      BY <2>3, SubSeqIs
    <3> QED
      BY <2>3, <3>1
  <2>5. w \in Seq(Nat) /\ Len(w) = n /\ \A k \in 1..n : w[k] = s[i + k - 1]
    <3>1. w \in Seq(Nat) /\ Len(w) = (i + n - 1) - i + 1
          /\ \A k \in 1..((i + n - 1) - i + 1) : w[k] = s[i + k - 1]
      BY <2>3, SubSeqIs
    <3> QED
      BY <2>3, <3>1
  <2>6. \A k \in 1..n : i + k - 1 \in 1..Len(x)
    BY <1>1, <2>1
  <2> HIDE DEF u, w
  <2>7. u = w
    BY <2>4, <2>5, <2>6, SeqEqual
  <2> QED
    BY <1>1, <1>3, <2>1, <2>2, <2>7, GlyphsAre
<1> QED
  BY <1>2, <1>3

(* What follows a one-byte character is whole if all is. *)
LEMMA WholeRest ==
  ASSUME NEW s \in Seq(Nat), WholeSequences(s), NEW body, IsRest(body, s)
  PROVE  WholeSequences(body)
<1>1. CASE body = <<>>
  <2>1. Len(<<>>) = 0
    OBVIOUS
  <2> QED
    BY <1>1, <2>1 DEF WholeSequences
<1>2. CASE body # <<>>
  <2>1. PICK p \in 1..Len(s) : body = SubSeq(s, p, Len(s)) /\ (p = 1 \/ s[p - 1] \in {Colon, Blank})
    BY <1>2 DEF IsRest
  <2> DEFINE L == Len(s)
             n == L - p + 1
  <2>2. L \in Nat /\ p \in Nat /\ p >= 1 /\ p <= L
    OBVIOUS
  <2>3. n \in Nat /\ p \in 1..(L + 1) /\ L \in (p - 1)..L
    BY <2>2
  <2>4. Len(body) = n /\ \A i \in 1..n : body[i] = s[p + i - 1]
    BY <2>1, <2>3, SubSeqIs
  <2>5. p > 1 => Claimed(s[p - 1]) = 1 /\ ~IsContinuation(s[p - 1])
    <3>1. \A c \in {Colon, Blank} : Claimed(c) = 1 /\ ~IsContinuation(c)
      <4>1. Colon \in Nat /\ Blank \in Nat /\ Colon < 128 /\ Blank < 128
        BY DEF Colon, Blank
      <4> QED
        BY <4>1, OneByteIs
    <3>2. p > 1 => s[p - 1] \in {Colon, Blank}
      BY <2>1, <2>2
    <3> QED
      BY <3>1, <3>2
  <2> HIDE DEF L, n
  <2>6. ASSUME NEW i \in 1..n, IsContinuation(body[i])
        PROVE  \E k \in 1..3 : k < i /\ ~IsContinuation(body[i - k]) /\ Claimed(body[i - k]) > k
                               /\ \A j \in 1..(k - 1) : IsContinuation(body[i - j])
    <3> DEFINE q == p + i - 1
    <3>1. q \in 1..L /\ IsContinuation(s[q]) /\ q \in Nat
      BY <2>2, <2>4, <2>6 DEF n
    <3>2. PICK k \in 1..3 : k < q /\ ~IsContinuation(s[q - k]) /\ Claimed(s[q - k]) > k
                            /\ \A j \in 1..(k - 1) : IsContinuation(s[q - j])
      BY <3>1 DEF WholeSequences, L
    <3>3. k < i
      <4> SUFFICES ASSUME k >= i PROVE FALSE
        BY <2>2
      <4>1. p > 1
        BY <2>2, <3>2
      <4>2. CASE k = i
        <5>1. q - k = p - 1
          BY <2>2, <4>2
        <5> QED
          BY <2>5, <3>2, <4>1, <5>1
      <4>3. CASE k > i
        <5>1. i \in 1..(k - 1) /\ q - i = p - 1
          BY <2>2, <4>3
        <5> QED
          BY <2>5, <3>2, <4>1, <5>1
      <4> QED
        BY <4>2, <4>3
    <3>4. i - k \in 1..n /\ p + (i - k) - 1 = q - k
          /\ \A j \in 1..(k - 1) : i - j \in 1..n /\ p + (i - j) - 1 = q - j
      BY <2>2, <3>3 DEF n
    <3> HIDE DEF q
    <3>5. body[i - k] = s[q - k] /\ \A j \in 1..(k - 1) : body[i - j] = s[q - j]
      BY <2>4, <3>4
    <3> QED
      BY <3>2, <3>3, <3>5
  <2>7. ASSUME NEW i \in 1..n, ~IsContinuation(body[i])
        PROVE  Claimed(body[i]) # 0
               /\ \A j \in 1..(Claimed(body[i]) - 1) : i + j <= Len(body) /\ IsContinuation(body[i + j])
    <3> DEFINE q == p + i - 1
    <3>1. q \in 1..L /\ body[i] = s[q] /\ q \in Nat
      BY <2>2, <2>4 DEF n
    <3>2. Claimed(s[q]) # 0 /\ \A j \in 1..(Claimed(s[q]) - 1) : q + j <= L /\ IsContinuation(s[q + j])
      BY <2>7, <3>1 DEF WholeSequences, L
    <3>3. ASSUME NEW j \in 1..(Claimed(body[i]) - 1) PROVE i + j <= Len(body) /\ IsContinuation(body[i + j])
      <4>1. q + j <= L /\ IsContinuation(s[q + j]) /\ j \in Nat /\ j >= 1
        BY <3>1, <3>2, ClaimedIs
      <4>2. i + j \in 1..n /\ p + (i + j) - 1 = q + j
        BY <2>2, <4>1 DEF n
      <4> QED
        BY <2>4, <4>1, <4>2
    <3> QED
      BY <3>1, <3>2, <3>3
  <2> QED
    BY <2>4, <2>6, <2>7 DEF WholeSequences
<1> QED
  BY <1>1, <1>2

(* The box shows what the message says, for every message that the reader pushes. *)
LEMMA BoxesShow == StreamInv => BoxShowsText
<1> SUFFICES ASSUME StreamInv, NEW m \in ToSet(pushed), NEW show_name \in BOOLEAN
    PROVE LET r     == TextBox(show_name, m)
              whole == IF show_name THEN m.user \o <<Colon, Blank>> \o r.body ELSE r.body
              shown == Drawn(r.text)
          IN WholeSequences(r.text) =>
               /\ IsPrefix(Seen(shown), Seen(Glyphs(whole)))
               /\ Len(shown) < SPEAK_MAX_TEXT - 1 /\ r.text = whole => Seen(shown) = Seen(Glyphs(whole))
  BY DEF BoxShowsText
<1> DEFINE r == TextBox(show_name, m)
           x == r.text
           whole == IF show_name THEN m.user \o <<Colon, Blank>> \o r.body ELSE r.body
           shown == Drawn(x)
<1>1. /\ m.user \in Seq(Nat) /\ WholeSequences(m.user)
      /\ m.text \in Seq(Nat) /\ WholeSequences(m.text)
  <2>1. m \in Said
    BY DEF ToSet, StreamInv
  <2> QED
    BY <2>1, SaidIs DEF Clean
<1>2. r.body \in Seq(Nat) /\ IsRest(r.body, m.text) /\ whole \in Seq(Nat) /\ x = Cut(whole)
  BY <1>1, PortraitAssumption, RequestIs DEF TextBox
<1>3. x \in Seq(Nat) /\ Len(x) <= Len(whole) /\ \A i \in 1..Len(x) : x[i] = whole[i]
  <2> HIDE DEF x, whole
  <2> QED
    BY <1>2, CutIs
<1> HIDE DEF r
<1>4. WholeSequences(whole)
  <2>1. WholeSequences(r.body)
    BY <1>1, <1>2, WholeRest
  <2>2. <<Colon, Blank>> \in Seq(Nat) /\ WholeSequences(<<Colon, Blank>>)
    BY DEF WholeSequences, Colon, Blank, Claimed, IsContinuation
  <2>3. m.user \o <<Colon, Blank>> \in Seq(Nat) /\ WholeSequences(m.user \o <<Colon, Blank>>)
    BY <1>1, <2>2, ConcatIs, WholeConcat
  <2>4. WholeSequences(m.user \o <<Colon, Blank>> \o r.body)
    BY <1>2, <2>1, <2>3, WholeConcat
  <2> QED
    BY <2>1, <2>4
<1> HIDE DEF x, whole
<1> SUFFICES ASSUME WholeSequences(x)
             PROVE  /\ IsPrefix(Seen(shown), Seen(Glyphs(whole)))
                    /\ Len(shown) < SPEAK_MAX_TEXT - 1 /\ x = whole => Seen(shown) = Seen(Glyphs(whole))
  BY DEF x, whole, r
<1>5. PICK j \in 0..Len(x) : /\ Seen(shown) = Seeing(Glyphs(x))[j]
                             /\ Len(shown) < SPEAK_MAX_TEXT - 1 => j = Len(x)
  BY <1>3, DrawnShows
<1> HIDE DEF shown
<1>6. /\ Glyphs(x) \in Seq(Nat) /\ Len(Glyphs(x)) = Len(x)
      /\ Glyphs(whole) \in Seq(Nat) /\ Len(Glyphs(whole)) = Len(whole)
      /\ Len(x) \in Nat /\ Len(whole) \in Nat
  BY <1>2, <1>3, GlyphsAre
<1>7. \A i \in 1..Len(x) : Glyphs(x)[i] = Glyphs(whole)[i]
  BY <1>2, <1>3, <1>4, GlyphsSame
<1>8. j \in 0..Len(Glyphs(x)) /\ j <= Len(Glyphs(whole)) /\ j \in 0..Len(Glyphs(whole))
      /\ \A i \in 1..j : Glyphs(x)[i] = Glyphs(whole)[i]
  BY <1>3, <1>6, <1>7
<1>9. Seeing(Glyphs(x))[j] = Seeing(Glyphs(whole))[j]
  BY <1>6, <1>8, SeeingSame
<1>10. IsPrefix(Seen(shown), Seen(Glyphs(whole)))
  BY <1>5, <1>6, <1>8, <1>9, SeeingPrefix
<1>11. ASSUME Len(shown) < SPEAK_MAX_TEXT - 1, x = whole PROVE Seen(shown) = Seen(Glyphs(whole))
  BY <1>5, <1>6, <1>11 DEF Seen
<1> QED
  BY <1>10, <1>11

-----------------------------------------------------------------------------
(* The ring. *)

(* The modular arithmetic of the ring, for offsets within one turn. *)
LEMMA Wrap ==
  ASSUME NEW n \in Nat \ {0}, NEW h \in 0..(n - 1), NEW i \in 0..n
  PROVE  (h + i) % n = IF h + i < n THEN h + i ELSE h + i - n
<1>1. CASE h + i < n
  BY <1>1
<1>2. CASE h + i >= n
  BY <1>2
<1> QED BY <1>1, <1>2

(* Where a slot lies, without the modulus. *)
SlotsPlaced ==
  \A i \in 0..QueueSize :
    /\ Slot(i) = IF sQueueHead + i < QueueSize THEN sQueueHead + i
                 ELSE sQueueHead + i - QueueSize
    /\ Slot(i) \in Slots

LEMMA SlotIs == TypeOK => SlotsPlaced
<1> SUFFICES ASSUME TypeOK, NEW i \in 0..QueueSize
             PROVE  /\ Slot(i) = IF sQueueHead + i < QueueSize THEN sQueueHead + i
                                 ELSE sQueueHead + i - QueueSize
                    /\ Slot(i) \in Slots
  BY DEF SlotsPlaced
<1>1. /\ QueueSize \in Nat \ {0}
      /\ sQueueHead \in 0..(QueueSize - 1)
  BY QueueSizeAssumption DEF TypeOK, Slots
<1>2. Slot(i) = IF sQueueHead + i < QueueSize THEN sQueueHead + i
                ELSE sQueueHead + i - QueueSize
  BY <1>1, Wrap DEF Slot
<1> QED BY <1>1, <1>2 DEF Slots

(* The contents are a sequence no longer than the ring. *)
Values == Messages \cup {NoMessage}

ContentsPlaced ==
  /\ Contents \in Seq(Values)
  /\ Len(Contents) = sQueueCount
  /\ \A i \in 1..sQueueCount : Contents[i] = sQueue[Slot(i - 1)]

LEMMA ContentsIs == TypeOK => ContentsPlaced
<1> SUFFICES ASSUME TypeOK PROVE ContentsPlaced
  OBVIOUS
<1>1. sQueueCount \in Nat /\ sQueueCount <= QueueSize /\ QueueSize \in Nat
  BY QueueSizeAssumption DEF TypeOK
<1>2. \A i \in 1..sQueueCount : Slot(i - 1) \in Slots
  BY <1>1, SlotIs DEF SlotsPlaced
<1>3. \A i \in 1..sQueueCount : sQueue[Slot(i - 1)] \in Values
  BY <1>2 DEF TypeOK, Values
<1> QED BY <1>1, <1>3 DEF Contents, ContentsPlaced

(* Every operation keeps the types. *)

LEMMA TypeOKStep == TypeOK /\ [Next]_vars => TypeOK'
<1> SUFFICES ASSUME TypeOK, [Next]_vars PROVE TypeOK'
  OBVIOUS
<1> USE QueueSizeAssumption
<1>0. \A i \in 0..QueueSize : Slot(i) \in Slots
  BY SlotIs DEF SlotsPlaced
<1>1. ASSUME NEW m \in Messages, speak_queue(m) PROVE TypeOK'
  BY <1>0, <1>1 DEF TypeOK, speak_queue
<1>2. ASSUME NEW m \in Messages, requeue_front(m) PROVE TypeOK'
  <2>1. Slot(QueueSize - 1) \in Slots
    BY <1>0
  <2> QED BY <2>1, <1>2 DEF TypeOK, requeue_front
<1>3. CASE TakeHead
  BY <1>0, <1>3 DEF TypeOK, TakeHead
<1>4. CASE speak_clear_chat
  <2>1. PICK kept \in RedemptionsOf(Contents) :
          /\ sQueue' = [i \in Slots |-> IF i < Len(kept) THEN kept[i + 1] ELSE sQueue[i]]
          /\ sQueueHead' = 0
          /\ sQueueCount' = Len(kept)
    BY <1>4 DEF speak_clear_chat
  <2>2. kept \in Seq(Values) /\ Len(kept) <= sQueueCount
    BY ContentsIs, RedemptionsAre DEF ContentsPlaced
  <2>3. \A i \in Slots : i < Len(kept) => kept[i + 1] \in Values
    BY <2>2, ElementOfSeq DEF Slots
  <2>4. sQueue' \in [Slots -> Values]
    BY <2>1, <2>3 DEF TypeOK, Values
  <2> QED BY <2>1, <2>2, <2>4 DEF TypeOK, Values, Slots
<1>5. CASE UNCHANGED vars
  BY <1>5 DEF TypeOK, vars
<1> QED BY <1>1, <1>2, <1>3, <1>4, <1>5 DEF Next

(* Every operation does to the contents what the abstract queue does. *)

(* The types before and after a step, and where the slots lie then. *)
LEMMA Placed ==
  ASSUME TypeOK, [Next]_vars
  PROVE  TypeOK' /\ SlotsPlaced /\ SlotsPlaced' /\ ContentsPlaced /\ ContentsPlaced'
<1>1. TypeOK'
  BY TypeOKStep
<1>2. SlotsPlaced /\ ContentsPlaced
  BY SlotIs, ContentsIs
<1>3. (TypeOK => SlotsPlaced)' /\ (TypeOK => ContentsPlaced)'
  BY SlotIs, ContentsIs, PTL
<1> QED BY <1>1, <1>2, <1>3

LEMMA QueueStep ==
  ASSUME TypeOK, NEW m \in Messages, speak_queue(m)
  PROVE  Contents' = Enqueue(Contents, m)
<1> USE QueueSizeAssumption
<1>0. TypeOK' /\ SlotsPlaced /\ SlotsPlaced' /\ ContentsPlaced /\ ContentsPlaced'
  BY Placed DEF Next
<1>1. m \in Values
  BY DEF Values
<1>2. /\ sQueueCount \in 0..QueueSize /\ QueueSize \in Nat \ {0}
      /\ sQueueHead \in 0..(QueueSize - 1) /\ sQueueHead' \in 0..(QueueSize - 1)
      /\ sQueue \in [0..(QueueSize - 1) -> Values]
  BY <1>0 DEF TypeOK, Slots, Values
<1>3. Contents \in Seq(Values) /\ Len(Contents) = sQueueCount
  BY <1>0 DEF ContentsPlaced
<1>4. Full(Contents) <=> sQueueCount = QueueSize
  BY <1>2, <1>3 DEF Full
<1> DEFINE e == Enqueue(Contents, m)
<1>5. /\ e \in Seq(Values)
      /\ Len(e) = IF Full(Contents) THEN Len(Contents) ELSE Len(Contents) + 1
      /\ \A i \in 1..Len(e) :
           e[i] = IF i = Len(e) THEN m
                  ELSE IF Full(Contents) THEN Contents[i + 1] ELSE Contents[i]
  BY <1>1, <1>3, EnqueueIs
<1> HIDE DEF e
<1>6. Len(e) = sQueueCount' /\ Len(Contents') = Len(e)
  BY <1>0, <1>2, <1>3, <1>4, <1>5 DEF ContentsPlaced, speak_queue
<1>7. ASSUME NEW i \in 1..Len(e) PROVE Contents'[i] = e[i]
  <2>1. Contents'[i] = sQueue'[Slot(i - 1)']
    BY <1>0, <1>6 DEF ContentsPlaced
  <2>2. sQueue' = [sQueue EXCEPT ![Slot(sQueueCount)] = m]
    BY DEF speak_queue
  <2>3. \A j \in 1..sQueueCount : Contents[j] = sQueue[Slot(j - 1)]
    BY <1>0 DEF ContentsPlaced
  <2>4. \A j \in 0..QueueSize : Slot(j) \in 0..(QueueSize - 1)
    BY <1>0 DEF SlotsPlaced, Slots
  <2>5. CASE sQueueCount = QueueSize
    <3>1. sQueueHead' = Slot(1) /\ sQueueCount' = sQueueCount
      BY <2>5 DEF speak_queue
    <3>2. Slot(i - 1)' = Slot(i) /\ (i < QueueSize => Slot(i) # Slot(QueueSize))
      <4>1. /\ i \in 1..QueueSize /\ i \in 0..QueueSize /\ i - 1 \in 0..QueueSize
            /\ 1 \in 0..QueueSize /\ QueueSize \in 0..QueueSize
        BY <1>2, <1>6, <2>5, <3>1
      <4>2. /\ Slot(i) = IF sQueueHead + i < QueueSize THEN sQueueHead + i
                         ELSE sQueueHead + i - QueueSize
            /\ Slot(QueueSize) = sQueueHead
            /\ Slot(1) = IF sQueueHead + 1 < QueueSize THEN sQueueHead + 1 ELSE 0
        BY <1>0, <1>2, <4>1 DEF SlotsPlaced
      <4>3. Slot(i - 1)' = IF sQueueHead' + (i - 1) < QueueSize THEN sQueueHead' + (i - 1)
                           ELSE sQueueHead' + (i - 1) - QueueSize
        BY <1>0, <4>1 DEF SlotsPlaced
      <4> HIDE DEF Slot
      <4> QED BY <1>2, <3>1, <4>1, <4>2, <4>3
    <3>3. CASE i = Len(e)
      BY <1>2, <1>5, <1>6, <2>1, <2>2, <2>4, <2>5, <3>1, <3>2, <3>3
    <3>4. CASE i # Len(e)
      <4>1. i \in 1..QueueSize /\ i < QueueSize
        BY <1>2, <1>6, <2>5, <3>1, <3>4
      <4>2. e[i] = Contents[i + 1]
        BY <1>4, <1>5, <2>5, <3>4
      <4>3. Contents[i + 1] = sQueue[Slot(i)]
        BY <1>2, <2>3, <2>5, <4>1
      <4> QED BY <1>2, <2>1, <2>2, <2>4, <2>5, <3>2, <4>1, <4>2, <4>3
    <3> QED BY <3>3, <3>4
  <2>6. CASE sQueueCount # QueueSize
    <3>1. sQueueHead' = sQueueHead /\ sQueueCount' = sQueueCount + 1
      BY <2>6 DEF speak_queue
    <3>2. /\ Slot(i - 1)' = Slot(i - 1)
          /\ i <= sQueueCount => Slot(i - 1) # Slot(sQueueCount)
      BY <1>0, <1>2, <1>6, <2>6, <3>1 DEF SlotsPlaced
    <3>3. CASE i = Len(e)
      BY <1>2, <1>5, <1>6, <2>1, <2>2, <2>4, <2>6, <3>1, <3>2, <3>3
    <3>4. CASE i # Len(e)
      <4>1. i \in 1..sQueueCount
        BY <1>2, <1>6, <3>1, <3>4
      <4>2. e[i] = Contents[i]
        BY <1>4, <1>5, <2>6, <3>4
      <4>3. Contents[i] = sQueue[Slot(i - 1)]
        BY <2>3, <4>1
      <4>4. Slot(i - 1) \in 0..(QueueSize - 1)
        <5>1. i - 1 \in 0..QueueSize
          BY <1>2, <4>1
        <5> QED BY <2>4, <5>1
      <4> QED BY <1>2, <2>1, <2>2, <3>2, <4>1, <4>2, <4>3, <4>4
    <3> QED BY <3>3, <3>4
  <2> QED BY <2>5, <2>6
<1>8. Contents' \in Seq(Values)
  BY <1>0 DEF ContentsPlaced
<1>9. Contents' = e
  BY <1>5, <1>6, <1>7, <1>8, SeqEqual
<1> QED BY <1>9 DEF e

LEMMA RequeueStep ==
  ASSUME TypeOK, NEW m \in Messages, requeue_front(m)
  PROVE  Contents' = RequeueFront(Contents, m)
<1> USE QueueSizeAssumption
<1>0. TypeOK' /\ SlotsPlaced /\ SlotsPlaced' /\ ContentsPlaced /\ ContentsPlaced'
  BY Placed DEF Next
<1>1. m \in Values
  BY DEF Values
<1>2. /\ sQueueCount \in 0..QueueSize /\ QueueSize \in Nat \ {0}
      /\ sQueueHead \in 0..(QueueSize - 1) /\ sQueueHead' \in 0..(QueueSize - 1)
      /\ sQueue \in [0..(QueueSize - 1) -> Values]
  BY <1>0 DEF TypeOK, Slots, Values
<1>3. Contents \in Seq(Values) /\ Len(Contents) = sQueueCount
  BY <1>0 DEF ContentsPlaced
<1>4. Full(Contents) <=> sQueueCount = QueueSize
  BY <1>2, <1>3 DEF Full
<1> DEFINE e == RequeueFront(Contents, m)
<1>5. /\ e \in Seq(Values)
      /\ Len(e) = IF Full(Contents) THEN Len(Contents) ELSE Len(Contents) + 1
      /\ \A i \in 1..Len(e) : e[i] = IF i = 1 THEN m ELSE Contents[i - 1]
  <2>1. e \in Seq(Values)
    BY <1>1, <1>3, RequeueFrontIs
  <2>2. Len(e) = IF Full(Contents) THEN Len(Contents) ELSE Len(Contents) + 1
    BY <1>1, <1>3, RequeueFrontIs
  <2>3. \A i \in 1..Len(e) : e[i] = IF i = 1 THEN m ELSE Contents[i - 1]
    <3>1. \A q \in Seq(Values) : \A i \in 1..Len(RequeueFront(q, m)) :
            RequeueFront(q, m)[i] = IF i = 1 THEN m ELSE q[i - 1]
      <4> SUFFICES ASSUME NEW q \in Seq(Values), NEW i \in 1..Len(RequeueFront(q, m))
                   PROVE  RequeueFront(q, m)[i] = IF i = 1 THEN m ELSE q[i - 1]
        OBVIOUS
      <4> QED BY <1>1, RequeueFrontIs
    <3> QED BY <1>3, <3>1
  <2> QED BY <2>1, <2>2, <2>3
<1> HIDE DEF e
<1>6. Len(e) = sQueueCount' /\ Len(Contents') = Len(e)
  BY <1>0, <1>2, <1>3, <1>4, <1>5 DEF ContentsPlaced, requeue_front
<1>7. ASSUME NEW i \in 1..Len(e) PROVE Contents'[i] = e[i]
  <2>1. Contents'[i] = sQueue'[Slot(i - 1)']
    BY <1>0, <1>6 DEF ContentsPlaced
  <2>2. sQueue' = [sQueue EXCEPT ![sQueueHead'] = m] /\ sQueueHead' = Slot(QueueSize - 1)
    BY DEF requeue_front
  <2>3. /\ i \in 1..QueueSize /\ i - 1 \in 0..QueueSize
        /\ QueueSize - 1 \in 0..QueueSize
        /\ i # 1 => i - 1 \in 1..sQueueCount /\ i - 2 \in 0..QueueSize
    BY <1>2, <1>3, <1>4, <1>5, <1>6
  <2>4. Slot(QueueSize - 1) = IF sQueueHead = 0 THEN QueueSize - 1 ELSE sQueueHead - 1
    BY <1>0, <1>2, <2>3 DEF SlotsPlaced
  <2>5. Slot(i - 1)' = IF sQueueHead' + (i - 1) < QueueSize THEN sQueueHead' + (i - 1)
                       ELSE sQueueHead' + (i - 1) - QueueSize
    BY <1>0, <2>3 DEF SlotsPlaced
  <2>6. CASE i = 1
    <3>1. Slot(i - 1)' = sQueueHead'
      BY <1>2, <2>5, <2>6
    <3> QED BY <1>2, <1>5, <2>1, <2>2, <2>6, <3>1
  <2>7. CASE i # 1
    <3>1. Slot(i - 2) = IF sQueueHead + (i - 2) < QueueSize THEN sQueueHead + (i - 2)
                        ELSE sQueueHead + (i - 2) - QueueSize
      BY <1>0, <2>3, <2>7 DEF SlotsPlaced
    <3>2. /\ Slot(i - 1)' = Slot(i - 2)
          /\ Slot(i - 2) # sQueueHead'
          /\ Slot(i - 2) \in 0..(QueueSize - 1)
      <4> HIDE DEF Slot
      <4> QED BY <1>2, <2>2, <2>3, <2>4, <2>5, <2>7, <3>1
    <3>3. Contents[i - 1] = sQueue[Slot(i - 2)]
      <4>1. Contents[i - 1] = sQueue[Slot(i - 1 - 1)]
        BY <1>0, <2>3, <2>7 DEF ContentsPlaced
      <4>2. i - 1 - 1 = i - 2
        BY <2>3
      <4> QED BY <4>1, <4>2
    <3>4. e[i] = Contents[i - 1]
      BY <1>5, <2>7
    <3> QED BY <1>2, <2>1, <2>2, <3>2, <3>3, <3>4
  <2> QED BY <2>6, <2>7
<1>8. Contents' \in Seq(Values)
  BY <1>0 DEF ContentsPlaced
<1>9. Contents' = e
  BY <1>5, <1>6, <1>7, <1>8, SeqEqual
<1> QED BY <1>9 DEF e

LEMMA TakeStep ==
  ASSUME TypeOK, TakeHead
  PROVE  Contents # <<>> /\ Contents' = Tail(Contents)
<1> USE QueueSizeAssumption
<1>0. TypeOK' /\ SlotsPlaced /\ SlotsPlaced' /\ ContentsPlaced /\ ContentsPlaced'
  BY Placed DEF Next
<1>1. /\ sQueueCount \in 1..QueueSize /\ QueueSize \in Nat \ {0}
      /\ sQueueHead \in 0..(QueueSize - 1) /\ sQueueHead' \in 0..(QueueSize - 1)
  BY <1>0 DEF TypeOK, Slots, TakeHead
<1>2. Contents \in Seq(Values) /\ Len(Contents) = sQueueCount /\ Contents # <<>>
  BY <1>0, <1>1 DEF ContentsPlaced
<1> DEFINE t == Tail(Contents)
<1>3. /\ t \in Seq(Values) /\ Len(t) = sQueueCount - 1
      /\ \A i \in 1..Len(t) : t[i] = Contents[i + 1]
  BY <1>2, HeadTailProperties
<1> HIDE DEF t
<1>4. sQueue' = sQueue /\ sQueueHead' = Slot(1) /\ sQueueCount' = sQueueCount - 1
  BY DEF TakeHead
<1>5. Contents' \in Seq(Values) /\ Len(Contents') = Len(t)
  BY <1>0, <1>3, <1>4 DEF ContentsPlaced
<1>6. ASSUME NEW i \in 1..Len(t) PROVE Contents'[i] = t[i]
  <2>1. /\ i \in 1..(sQueueCount - 1) /\ i \in 0..QueueSize /\ i - 1 \in 0..QueueSize
        /\ 1 \in 0..QueueSize /\ i + 1 \in 1..sQueueCount /\ (i + 1) - 1 = i
    BY <1>1, <1>3
  <2>2. /\ Slot(i) = IF sQueueHead + i < QueueSize THEN sQueueHead + i
                     ELSE sQueueHead + i - QueueSize
        /\ Slot(1) = IF sQueueHead + 1 < QueueSize THEN sQueueHead + 1 ELSE 0
    BY <1>0, <1>1, <2>1 DEF SlotsPlaced
  <2>3. Slot(i - 1)' = IF sQueueHead' + (i - 1) < QueueSize THEN sQueueHead' + (i - 1)
                       ELSE sQueueHead' + (i - 1) - QueueSize
    BY <1>0, <2>1 DEF SlotsPlaced
  <2>4. Slot(i - 1)' = Slot(i)
    <3> HIDE DEF Slot
    <3> QED BY <1>1, <1>4, <2>1, <2>2, <2>3
  <2>5. Contents[i + 1] = sQueue[Slot(i)]
    BY <1>0, <2>1 DEF ContentsPlaced
  <2>6. Contents'[i] = sQueue'[Slot(i - 1)']
    BY <1>0, <1>4, <2>1 DEF ContentsPlaced
  <2> QED BY <1>3, <1>4, <2>4, <2>5, <2>6
<1>7. Contents' = t
  BY <1>3, <1>5, <1>6, SeqEqual
<1> QED BY <1>2, <1>7 DEF t

LEMMA ClearStep ==
  ASSUME TypeOK, speak_clear_chat
  PROVE  Contents' \in RedemptionsOf(Contents)
<1>0. TypeOK' /\ SlotsPlaced' /\ ContentsPlaced /\ ContentsPlaced'
  BY Placed DEF Next
<1>1. PICK kept \in RedemptionsOf(Contents) :
        /\ sQueue' = [i \in Slots |-> IF i < Len(kept) THEN kept[i + 1] ELSE sQueue[i]]
        /\ sQueueHead' = 0
        /\ sQueueCount' = Len(kept)
  BY DEF speak_clear_chat
<1>2. Contents \in Seq(Values)
  BY <1>0 DEF ContentsPlaced
<1>3. kept \in Seq(Values)
  BY <1>2, RedemptionsAre
<1>4. Contents' \in Seq(Values) /\ Len(Contents') = Len(kept)
  BY <1>0, <1>1 DEF ContentsPlaced
<1>5. ASSUME NEW i \in 1..Len(kept) PROVE Contents'[i] = kept[i]
  <2>1. /\ i \in 1..sQueueCount' /\ sQueueCount' <= QueueSize
        /\ i - 1 \in Slots /\ i - 1 \in 0..QueueSize
        /\ i - 1 < Len(kept) /\ (i - 1) + 1 = i
    BY <1>0, <1>1, <1>3, QueueSizeAssumption DEF TypeOK, Slots
  <2>2. Slot(i - 1)' = i - 1
    <3>1. Slot(i - 1)' = IF sQueueHead' + (i - 1) < QueueSize THEN sQueueHead' + (i - 1)
                         ELSE sQueueHead' + (i - 1) - QueueSize
      BY <1>0, <2>1 DEF SlotsPlaced
    <3> HIDE DEF Slot
    <3> QED BY <1>1, <2>1, <3>1, QueueSizeAssumption DEF Slots
  <2>3. Contents'[i] = sQueue'[Slot(i - 1)']
    BY <1>0, <2>1 DEF ContentsPlaced
  <2>4. sQueue'[i - 1] = kept[(i - 1) + 1]
    BY <1>1, <2>1
  <2> QED BY <2>1, <2>2, <2>3, <2>4
<1>6. Contents' = kept
  BY <1>3, <1>4, <1>5, SeqEqual
<1> QED BY <1>6

(* The head and the count enclose queued messages only. *)

Live == TypeOK /\ Contents \in Seq(Messages)

LEMMA LiveInit == Init => Live /\ Contents = <<>>
BY QueueSizeAssumption DEF Init, Live, TypeOK, Slots, Contents

LEMMA LiveStep == Live /\ [Next]_vars => Live'
<1> SUFFICES ASSUME Live, [Next]_vars PROVE Contents' \in Seq(Messages)
  BY TypeOKStep DEF Live
<1>0. TypeOK /\ Contents \in Seq(Messages)
  BY DEF Live
<1>1. ASSUME NEW m \in Messages, speak_queue(m) PROVE Contents' \in Seq(Messages)
  BY <1>0, <1>1, QueueStep, EnqueueIs
<1>2. ASSUME NEW m \in Messages, requeue_front(m) PROVE Contents' \in Seq(Messages)
  BY <1>0, <1>2, RequeueStep, RequeueFrontIs
<1>3. CASE TakeHead
  BY <1>0, <1>3, TakeStep, HeadTailProperties
<1>4. CASE speak_clear_chat
  BY <1>0, <1>4, ClearStep, RedemptionsAre
<1>5. CASE UNCHANGED vars
  BY <1>0, <1>5 DEF vars, Contents, Slot
<1> QED BY <1>1, <1>2, <1>3, <1>4, <1>5 DEF Next

(* The index arithmetic of speak.c never leaves the array, and the count never
   exceeds SPEAK_QUEUE_SIZE. *)
THEOREM RingTyped == Spec => []TypeOK
<1>1. Init => TypeOK
  BY LiveInit DEF Live
<1> QED BY <1>1, TypeOKStep, PTL DEF Spec

(* No operation reads a slot nothing was queued in. *)
THEOREM RingEnclosesMessages == Spec => []EnclosesMessages
<1>1. Live => EnclosesMessages
  BY ContentsIs DEF Live, EnclosesMessages, Abstract!TypeOK, ContentsPlaced, TypeOK
<1> QED BY <1>1, LiveInit, LiveStep, PTL DEF Spec

(* The ring of speak.c is the bounded queue of RequestQueue. *)
THEOREM RingImplementsQueue == Spec => ImplementsQueue
<1>1. Init => Abstract!Init
  BY LiveInit DEF Abstract!Init
<1>2. TypeOK /\ [Next]_vars => [Abstract!Next]_Contents
  <2> SUFFICES ASSUME TypeOK, [Next]_vars PROVE [Abstract!Next]_Contents
    OBVIOUS
  <2>1. ASSUME NEW m \in Messages, speak_queue(m) PROVE Abstract!Next
    <3>1. Contents' = Abstract!Enqueue(Contents, m)
      BY <2>1, QueueStep DEF Enqueue, Full, Abstract!Enqueue, Abstract!Full
    <3> QED BY <3>1 DEF Abstract!Next, Abstract!Arrive
  <2>2. ASSUME NEW m \in Messages, requeue_front(m) PROVE Abstract!Next
    <3>1. Contents' = Abstract!RequeueFront(Contents, m)
      BY <2>2, RequeueStep DEF RequeueFront, Full, Abstract!RequeueFront, Abstract!Full
    <3> QED BY <3>1 DEF Abstract!Next, Abstract!Requeue
  <2>3. CASE TakeHead
    BY <2>3, TakeStep DEF Abstract!Next, Abstract!Take
  <2>4. CASE speak_clear_chat
    <3>1. Contents' \in Abstract!RedemptionsOf(Contents)
      BY <2>4, ClearStep DEF RedemptionsOf, InOrder, Abstract!RedemptionsOf, Abstract!InOrder
    <3> QED BY <3>1 DEF Abstract!Next, Abstract!ClearChat
  <2>5. CASE UNCHANGED vars
    BY <2>5 DEF vars, Contents, Slot
  <2> QED BY <2>1, <2>2, <2>3, <2>4, <2>5 DEF Next
<1> QED BY <1>1, <1>2, RingTyped, PTL DEF Spec, ImplementsQueue, Abstract!Spec

-----------------------------------------------------------------------------
(* The way of a message. *)

LEMMA SpeechFirst == SpeechInit => StreamInv
  BY StreamFirst DEF SpeechInit

LEMMA SpeechStep == StreamInv /\ [SpeechNext]_<<vars, streamVars>> => StreamInv'
<1> SUFFICES ASSUME StreamInv, [SpeechNext]_<<vars, streamVars>> PROVE StreamInv'
  OBVIOUS
<1>1. CASE StreamNext
  BY <1>1, StreamStep
<1>2. CASE UNCHANGED streamVars
  BY <1>2, StreamRest
<1> QED
  BY <1>1, <1>2 DEF SpeechNext

(* What has been read is what reading the whole stream at once gives, as long as no
   line was overlong. *)
THEOREM StreamInvariant == SpeechSpec => []StreamInv
  BY SpeechFirst, SpeechStep, PTL DEF SpeechSpec

(* However recv cuts the stream, the game gets each message of it once and in order,
   and every PING is answered. *)
THEOREM NothingLostInChunks == SpeechSpec => []Reassembled
<1>1. StreamInv => Reassembled
  BY StreamSays
<1> QED
  BY <1>1, StreamInvariant, PTL

(* Whatever bytes arrive, names and texts are whole sequences - a first byte and as many
   continuations as it claims - within their buffers, without an ASCII control character
   and single-spaced.  That a sequence is a character of Unicode is not part of it. *)
THEOREM OnlyCleanTexts == SpeechSpec => []CleanTexts
<1>1. StreamInv => CleanTexts
  BY StreamSays
<1> QED
  BY <1>1, StreamInvariant, PTL

(* Every message gets a blob whose boxes end where their lengths say, within its buffer,
   with nothing in it but the font's characters and a word that can be wrapped. *)
THEOREM BlobsWellFormed == SpeechSpec => []BlobWellFormed
  BY BlobsAre, StreamInvariant, PTL

(* The box shows what the message says, character by character, up to what its buffer
   holds. *)
THEOREM BoxesShowText == SpeechSpec => []BoxShowsText
  BY BoxesShow, StreamInvariant, PTL

(* With the reader beside it, the ring is still that queue. *)
THEOREM SpeechImplementsQueue == SpeechSpec => ImplementsQueue
<1>1. SpeechInit => Init
  BY DEF SpeechInit
<1>2. [SpeechNext]_<<vars, streamVars>> => [Next]_vars
  BY DEF SpeechNext
<1>3. SpeechSpec => Spec
  BY <1>1, <1>2, PTL DEF SpeechSpec, Spec
<1> QED
  BY <1>3, RingImplementsQueue
=============================================================================
