------------------------ MODULE RsvpConfiguration_proofs ------------------------
(***************************************************************************)
(* Theorems about the store of parameters, for all its contents, and the   *)
(* means to prove what a series of calls makes of it: induction on the     *)
(* number of the calls.                                                    *)
(*                                                                         *)
(* The induction theorems of the library take an operator; the one here    *)
(* takes the set of the numbers that are reached, and follows from the     *)
(* well-foundedness of < on the naturals.                                  *)
(***************************************************************************)
EXTENDS RsvpConfiguration, SequencesExt, WellFoundedInduction, SequenceTheorems,
        FiniteSetTheorems, TLAPS

-----------------------------------------------------------------------------
(* Induction.                                                              *)

Below == {pair \in Nat \X Nat : pair[1] < pair[2]}

LEMMA BelowWellFounded == IsWellFoundedOn(Below, Nat)
BY NatLessThanWellFounded DEF OpToRel, Below

(* A set of naturals has a least member. *)
LEMMA LeastMember ==
  ASSUME NEW T, T \subseteq Nat, T # {}
  PROVE  \E n \in T : \A m \in T : n <= m
<1>1. PICK n \in T : \A m \in T : << m, n >> \notin Below
  BY BelowWellFounded, WFMin
<1>2. ASSUME NEW m \in T PROVE n <= m
  <2>1. n \in Nat /\ m \in Nat /\ << m, n >> \notin Below
    BY <1>1
  <2> QED BY <2>1 DEF Below
<1> QED BY <1>2

(* A set that holds 0, and n + 1 with every n below N, holds all up to N. *)
LEMMA UpTo ==
  ASSUME NEW N \in Nat, NEW T, 0 \in T,
         \A n \in 0..(N - 1) : n \in T => n + 1 \in T
  PROVE  0..N \subseteq T
<1> SUFFICES ASSUME ~ (0..N \subseteq T) PROVE FALSE
  OBVIOUS
<1> DEFINE U == (0..N) \ T
<1>1. PICK n \in U : \A m \in U : n <= m
  <2>1. U \subseteq Nat /\ U # {}
    OBVIOUS
  <2> HIDE DEF U
  <2> QED BY <2>1, LeastMember
<1>2. n \in 0..N /\ n # 0 /\ n \notin T
  BY <1>1
<1>3. n - 1 \in 0..(N - 1) /\ n - 1 \in T
  BY <1>1, <1>2
<1>4. (n - 1) + 1 \in T
  BY <1>3
<1>5. (n - 1) + 1 = n
  BY <1>2
<1> QED BY <1>2, <1>4, <1>5

(* The largest of a set of positions. *)
LEMMA LargestOfInitial ==
  ASSUME NEW n \in Nat, NEW s \in SUBSET (1..(n + 1)), n + 1 \in s
  PROVE  Max(s) = n + 1
<1>1. \A k \in s : k \in Nat /\ n + 1 >= k
  <2> TAKE k \in s
  <2>1. k \in 1..(n + 1)
    OBVIOUS
  <2> QED BY <2>1
<1>2. \E k \in s : \A j \in s : k >= j
  BY <1>1
<1>3. Max(s) \in s /\ \A j \in s : Max(s) >= j
  BY <1>2 DEF Max
<1>4. Max(s) \in Nat /\ n + 1 >= Max(s)
  BY <1>1, <1>3
<1>5. Max(s) >= n + 1
  BY <1>3
<1> QED BY <1>4, <1>5

LEMMA LargestIn ==
  ASSUME NEW n \in Nat, NEW s \in SUBSET (1..n), s # {}
  PROVE  Max(s) \in s /\ \A k \in s : k <= Max(s)
<1> DEFINE U == {n - k : k \in s}
<1>1. PICK u \in U : \A v \in U : u <= v
  <2>1. \A k \in s : k \in 1..n /\ n - k \in Nat
    OBVIOUS
  <2>2. U \subseteq Nat /\ U # {}
    BY <2>1
  <2> HIDE DEF U
  <2> QED BY <2>2, LeastMember
<1>2. PICK k \in s : u = n - k
  BY <1>1
<1>3. \A j \in s : k >= j
  <2> TAKE j \in s
  <2>1. n - j \in U
    OBVIOUS
  <2>2. u <= n - j
    BY <1>1, <2>1
  <2> QED BY <1>2, <2>2
<1> QED BY <1>2, <1>3 DEF Max

(* The least of a set of positions. *)
LEMMA LeastPosition ==
  ASSUME NEW n \in Nat, NEW I \in SUBSET (1..n), I # {}
  PROVE  Min(I) \in I /\ \A k \in I : Min(I) <= k
<1>1. I \subseteq Nat
  OBVIOUS
<1>2. \E k \in I : \A j \in I : k <= j
  BY <1>1, LeastMember
<1> QED BY <1>2 DEF Min

-----------------------------------------------------------------------------
(* Folds.  What the calls of a fold make of base stays in the set D when   *)
(* every call leads from D to D: step is the n-th call as a function.      *)

FoldOf(g, D, base, N, step) ==
  /\ g \in [SUBSET (1..N) -> D]
  /\ \A s \in SUBSET (1..N) :
       g[s] = IF s = {} THEN base ELSE step[<< g[s \ {Max(s)}], Max(s) >>]

LEMMA FoldExists ==
  ASSUME NEW D, NEW base \in D, NEW N \in Nat, NEW step \in [D \X (1..N) -> D]
  PROVE  \E g : FoldOf(g, D, base, N, step)
<1> DEFINE Sol(n, g) ==
             /\ g \in [SUBSET (1..n) -> D]
             /\ \A s \in SUBSET (1..n) :
                  g[s] = IF s = {} THEN base ELSE step[<< g[s \ {Max(s)}], Max(s) >>]
           T == {n \in 0..N : \E g : Sol(n, g)}
<1>1. 0 \in T
  <2> DEFINE g == [s \in {{}} |-> base]
  <2>1. SUBSET (1..0) = {{}}
    OBVIOUS
  <2>2. g \in [SUBSET (1..0) -> D] /\ \A s \in SUBSET (1..0) : s = {} /\ g[s] = base
    BY <2>1
  <2>3. Sol(0, g)
    <3> HIDE DEF g
    <3> QED BY <2>2
  <2> HIDE DEF Sol
  <2> QED BY <2>3
<1>2. ASSUME NEW n \in 0..(N - 1), n \in T PROVE n + 1 \in T
  <2>1. PICK g : Sol(n, g)
    BY <1>2
  <2> DEFINE h == [s \in SUBSET (1..(n + 1)) |->
                     IF n + 1 \in s THEN step[<< g[s \ {n + 1}], n + 1 >>] ELSE g[s]]
  <2>2. ASSUME NEW s \in SUBSET (1..(n + 1))
        PROVE  /\ h[s] \in D
               /\ h[s] = IF s = {} THEN base ELSE step[<< h[s \ {Max(s)}], Max(s) >>]
    <3>1. CASE n + 1 \in s
      <4>1. Max(s) = n + 1 /\ s # {}
        BY <3>1, LargestOfInitial
      <4>2. /\ s \ {n + 1} \in SUBSET (1..n) /\ s \ {n + 1} \in SUBSET (1..(n + 1))
            /\ n + 1 \notin s \ {n + 1}
        OBVIOUS
      <4>3. h[s \ {n + 1}] = g[s \ {n + 1}] /\ g[s \ {n + 1}] \in D
        BY <2>1, <4>2
      <4>4. h[s] = step[<< g[s \ {n + 1}], n + 1 >>]
        BY <3>1
      <4>5. << g[s \ {n + 1}], n + 1 >> \in D \X (1..N)
        BY <4>3
      <4>6. step[<< g[s \ {n + 1}], n + 1 >>] \in D
        BY <4>5
      <4> HIDE DEF h
      <4> QED BY <4>1, <4>3, <4>4, <4>6
    <3>2. CASE n + 1 \notin s
      <4>1. s \in SUBSET (1..n)
        BY <3>2
      <4>2. h[s] = g[s] /\ g[s] \in D
        BY <2>1, <3>2, <4>1
      <4>3. g[s] = IF s = {} THEN base ELSE step[<< g[s \ {Max(s)}], Max(s) >>]
        BY <2>1, <4>1
      <4>4. s \ {Max(s)} \in SUBSET (1..(n + 1)) /\ n + 1 \notin s \ {Max(s)}
        BY <3>2
      <4>5. h[s \ {Max(s)}] = g[s \ {Max(s)}]
        BY <4>4
      <4> HIDE DEF h
      <4> QED BY <4>2, <4>3, <4>5
    <3> QED BY <3>1, <3>2
  <2>3. h \in [SUBSET (1..(n + 1)) -> D]
    <3>1. h = [s \in SUBSET (1..(n + 1)) |-> h[s]]
      OBVIOUS
    <3> HIDE DEF h
    <3> QED BY <2>2, <3>1
  <2>4. Sol(n + 1, h)
    <3> HIDE DEF h
    <3> QED BY <2>2, <2>3
  <2>5. n + 1 \in 0..N
    OBVIOUS
  <2> HIDE DEF h, Sol
  <2> QED BY <2>4, <2>5
<1>3. N \in T
  <2>1. 0..N \subseteq T
    <3> HIDE DEF T
    <3> QED BY <1>1, <1>2, UpTo
  <2> HIDE DEF T
  <2> QED BY <2>1
<1>4. \E g : Sol(N, g)
  <2> HIDE DEF Sol
  <2> QED BY <1>3
<1> QED BY <1>4 DEF FoldOf

(* The values of a fold after 0, 1, 2, ... calls. *)
FoldsBy(h, D, base, N, step) ==
  /\ h[{}] = base
  /\ \A s \in SUBSET (1..N) :
       s # {} /\ h[s \ {Max(s)}] \in D => h[s] = step[<< h[s \ {Max(s)}], Max(s) >>]

InTurn(h, D, base, N, step) ==
  /\ \A n \in 0..N : h[1..n] \in D
  /\ h[1..0] = base
  /\ \A n \in 0..(N - 1) : h[1..(n + 1)] = step[<< h[1..n], n + 1 >>]

LEMMA FoldSteps ==
  ASSUME NEW D, NEW base \in D, NEW N \in Nat, NEW step \in [D \X (1..N) -> D], NEW h,
         FoldsBy(h, D, base, N, step)
  PROVE  InTurn(h, D, base, N, step)
<1> DEFINE T == {n \in 0..N : h[1..n] \in D}
<1>1. h[1..0] = base
  <2>1. 1..0 = {}
    OBVIOUS
  <2> QED BY <2>1 DEF FoldsBy
<1>2. ASSUME NEW n \in 0..(N - 1), h[1..n] \in D
      PROVE  h[1..(n + 1)] = step[<< h[1..n], n + 1 >>] /\ h[1..(n + 1)] \in D
  <2>a. n \in Nat /\ n + 1 \in Nat /\ n + 1 <= N
    OBVIOUS
  <2>b. 1..(n + 1) \in SUBSET (1..N)
    BY <2>a
  <2>c. n + 1 \in 1..(n + 1)
    BY <2>a
  <2>d. (1..(n + 1)) \ {n + 1} = 1..n
    BY <2>a
  <2>1. /\ 1..(n + 1) \in SUBSET (1..N) /\ 1..(n + 1) # {}
        /\ 1..(n + 1) \in SUBSET (1..(n + 1)) /\ n + 1 \in 1..(n + 1)
        /\ (1..(n + 1)) \ {n + 1} = 1..n
    BY <2>b, <2>c, <2>d
  <2>2. Max(1..(n + 1)) = n + 1
    BY <2>1, LargestOfInitial
  <2>3. h[1..(n + 1)] = step[<< h[1..n], n + 1 >>]
    BY <1>2, <2>1, <2>2 DEF FoldsBy
  <2>4. << h[1..n], n + 1 >> \in D \X (1..N)
    BY <1>2
  <2>5. step[<< h[1..n], n + 1 >>] \in D
    BY <2>4
  <2> QED BY <2>3, <2>5
<1>3. 0..N \subseteq T
  <2>1. 0 \in T
    BY <1>1
  <2>2. ASSUME NEW n \in 0..(N - 1), n \in T PROVE n + 1 \in T
    <3>1. h[1..(n + 1)] \in D
      BY <1>2, <2>2
    <3>2. n + 1 \in 0..N
      OBVIOUS
    <3> QED BY <3>1, <3>2
  <2> HIDE DEF T
  <2> QED BY <2>1, <2>2, UpTo
<1> QED BY <1>1, <1>2, <1>3 DEF InTurn

-----------------------------------------------------------------------------
(* Sequences in a row, and the members of a set in order.                  *)

FlattenedBy(f, seqs) ==
  f = [i \in 1..Len(seqs) |-> IF i = 1 THEN seqs[i] ELSE f[i - 1] \o seqs[i]]

LEMMA FlattenExists ==
  ASSUME NEW seqs, NEW n \in Nat
  PROVE  \E f : f = [i \in 1..n |-> IF i = 1 THEN seqs[i] ELSE f[i - 1] \o seqs[i]]
<1> DEFINE Sol(m, f) == f = [i \in 1..m |-> IF i = 1 THEN seqs[i] ELSE f[i - 1] \o seqs[i]]
           T == {m \in 0..n : \E f : Sol(m, f)}
<1>1. 0 \in T
  <2>1. Sol(0, << >>)
    OBVIOUS
  <2> HIDE DEF Sol
  <2> QED BY <2>1
<1>2. ASSUME NEW m \in 0..(n - 1), m \in T PROVE m + 1 \in T
  <2>1. PICK f : Sol(m, f)
    BY <1>2
  <2> DEFINE h == [i \in 1..(m + 1) |->
                     IF i = m + 1 THEN IF i = 1 THEN seqs[i] ELSE f[m] \o seqs[i] ELSE f[i]]
  <2>2. ASSUME NEW i \in 1..(m + 1)
        PROVE  h[i] = IF i = 1 THEN seqs[i] ELSE h[i - 1] \o seqs[i]
    <3>1. CASE i = m + 1
      <4>1. i # 1 => i - 1 = m /\ m \in 1..(m + 1) /\ m # m + 1
        BY <3>1
      <4>2. i # 1 => h[i - 1] = f[m]
        BY <4>1
      <4>3. h[i] = IF i = 1 THEN seqs[i] ELSE f[m] \o seqs[i]
        BY <3>1
      <4> HIDE DEF h
      <4> QED BY <4>2, <4>3
    <3>2. CASE i # m + 1
      <4>1. i \in 1..m /\ h[i] = f[i]
        BY <3>2
      <4>2. f[i] = IF i = 1 THEN seqs[i] ELSE f[i - 1] \o seqs[i]
        BY <2>1, <4>1
      <4>3. i # 1 => h[i - 1] = f[i - 1]
        BY <4>1
      <4> HIDE DEF h
      <4> QED BY <4>1, <4>2, <4>3
    <3> QED BY <3>1, <3>2
  <2>3. h = [i \in 1..(m + 1) |-> h[i]]
    OBVIOUS
  <2>4. Sol(m + 1, h)
    <3> HIDE DEF h
    <3> QED BY <2>2, <2>3
  <2>5. m + 1 \in 0..n
    OBVIOUS
  <2> HIDE DEF h, Sol
  <2> QED BY <2>4, <2>5
<1>3. n \in T
  <2>1. 0..n \subseteq T
    <3> HIDE DEF T
    <3> QED BY <1>1, <1>2, UpTo
  <2> HIDE DEF T
  <2> QED BY <2>1
<1>4. \E f : Sol(n, f)
  <2> HIDE DEF Sol
  <2> QED BY <1>3
<1> QED BY <1>4

(* One sequence behind another. *)
LEMMA Joined ==
  ASSUME NEW W, NEW a \in Seq(W), NEW b \in Seq(W)
  PROVE  /\ a \o b \in Seq(W) /\ Len(a \o b) = Len(a) + Len(b)
         /\ \A j \in 1..Len(a) : j \in 1..Len(a \o b) /\ (a \o b)[j] = a[j]
         /\ \A j \in 1..Len(b) : /\ Len(a) + j \in 1..Len(a \o b)
                                  /\ (a \o b)[Len(a) + j] = b[j]
<1>1. a \o b \in Seq(W) /\ Len(a \o b) = Len(a) + Len(b)
  BY ConcatProperties
<1>2. Len(a) \in Nat /\ Len(b) \in Nat
  OBVIOUS
<1>3. \A j \in 1..(Len(a) + Len(b)) :
        (a \o b)[j] = IF j <= Len(a) THEN a[j] ELSE b[j - Len(a)]
  BY ConcatProperties
<1> QED BY <1>1, <1>2, <1>3

(* The parts of a sequence of sequences, one behind the other: where each  *)
(* of them is in the result.                                               *)
Placed(off, flat, seqs) ==
  /\ off \in [0..Len(seqs) -> Nat] /\ off[0] = 0 /\ off[Len(seqs)] = Len(flat)
  /\ \A k \in 1..Len(seqs) :
       /\ off[k] = off[k - 1] + Len(seqs[k])
       /\ \A i \in 1..Len(seqs[k]) : /\ off[k - 1] + i \in 1..Len(flat)
                                     /\ flat[off[k - 1] + i] = seqs[k][i]

LEMMA FlattenPlaces ==
  ASSUME NEW W, NEW seqs \in Seq(Seq(W))
  PROVE  FlattenSeq(seqs) \in Seq(W) /\ \E off : Placed(off, FlattenSeq(seqs), seqs)
<1> DEFINE N == Len(seqs)
<1>0. N \in Nat /\ \A k \in 1..N : seqs[k] \in Seq(W)
  OBVIOUS
<1>1. \E s : /\ s \in [0..N -> Seq(W)] /\ s[0] = << >> /\ s[N] = FlattenSeq(seqs)
             /\ \A n \in 0..(N - 1) : s[n + 1] = s[n] \o seqs[n + 1]
  <2>1. CASE N = 0
    <3> DEFINE s == [n \in 0..0 |-> << >>]
    <3>1. << >> \in Seq(W) /\ FlattenSeq(seqs) = << >>
      BY <2>1 DEF FlattenSeq
    <3>2. s \in [0..N -> Seq(W)] /\ s[0] = << >> /\ s[N] = FlattenSeq(seqs)
      BY <2>1, <3>1
    <3> HIDE DEF s
    <3> QED BY <2>1, <3>2
  <2>2. CASE N # 0
    <3>1. PICK f : FlattenedBy(f, seqs) /\ FlattenSeq(seqs) = f[N]
      <4>1. \E g : g = [i \in 1..N |-> IF i = 1 THEN seqs[i] ELSE g[i - 1] \o seqs[i]]
        BY <1>0, FlattenExists
      <4> QED BY <2>2, <4>1 DEF FlattenSeq, FlattenedBy
    <3>2. \A i \in 1..N : f[i] = IF i = 1 THEN seqs[i] ELSE f[i - 1] \o seqs[i]
      BY <3>1 DEF FlattenedBy
    <3> DEFINE s == [n \in 0..N |-> IF n = 0 THEN << >> ELSE f[n]]
               T == {n \in 0..N : s[n] \in Seq(W)}
    <3>3. s[0] = << >> /\ << >> \in Seq(W) /\ \A n \in 1..N : s[n] = f[n]
      OBVIOUS
    <3>4. ASSUME NEW n \in 0..(N - 1), n \in T
          PROVE  s[n + 1] = s[n] \o seqs[n + 1] /\ n + 1 \in T
      <4>1. n + 1 \in 1..N /\ n + 1 \in 0..N /\ seqs[n + 1] \in Seq(W) /\ s[n] \in Seq(W)
        BY <1>0, <3>4
      <4>2. s[n + 1] = IF n + 1 = 1 THEN seqs[n + 1] ELSE f[(n + 1) - 1] \o seqs[n + 1]
        BY <3>2, <3>3, <4>1
      <4>3. CASE n = 0
        <5>1. s[n + 1] = seqs[n + 1]
          BY <4>2, <4>3
        <5>2. s[n] \o seqs[n + 1] = seqs[n + 1]
          <6> DEFINE b == seqs[n + 1]
          <6>1. b \in Seq(W) /\ s[n] = << >>
            BY <3>3, <4>1, <4>3
          <6> HIDE DEF b, s
          <6>2. << >> \o b = b
            BY <6>1
          <6> QED BY <6>1, <6>2 DEF b
        <5> QED BY <4>1, <5>1, <5>2
      <4>4. CASE n # 0
        <5>1. s[n + 1] = s[n] \o seqs[n + 1]
          <6>1. n \in 1..N /\ n + 1 # 1 /\ (n + 1) - 1 = n
            BY <4>4
          <6> HIDE DEF s, T
          <6> QED BY <3>3, <4>2, <6>1
        <5> DEFINE a == s[n]
                   b == seqs[n + 1]
        <5>2. a \in Seq(W) /\ b \in Seq(W) /\ s[n + 1] = a \o b
          BY <4>1, <5>1
        <5> HIDE DEF a, b, s
        <5>3. s[n + 1] \in Seq(W)
          BY <5>2
        <5> QED BY <4>1, <5>1, <5>3
      <4> QED BY <4>3, <4>4
    <3>5. 0..N \subseteq T
      <4>1. 0 \in T
        BY <1>0, <3>3
      <4> HIDE DEF T
      <4> QED BY <1>0, <3>4, <4>1, UpTo
    <3>6. s \in [0..N -> Seq(W)]
      <4>1. s = [n \in 0..N |-> s[n]]
        OBVIOUS
      <4>2. \A n \in 0..N : s[n] \in Seq(W)
        BY <3>5
      <4> HIDE DEF s
      <4> QED BY <4>1, <4>2
    <3>7. s[N] = FlattenSeq(seqs)
      BY <1>0, <2>2, <3>1, <3>3
    <3>8. \A n \in 0..(N - 1) : s[n + 1] = s[n] \o seqs[n + 1]
      <4> TAKE n \in 0..(N - 1)
      <4>0. n \in 0..N
        BY <1>0
      <4> HIDE DEF s, T
      <4>1. n \in T
        BY <3>5, <4>0
      <4> QED BY <3>4, <4>1
    <3> HIDE DEF s
    <3> QED BY <3>3, <3>6, <3>7, <3>8
  <2> HIDE DEF N
  <2> QED BY <2>1, <2>2
<1>2. PICK s : /\ s \in [0..N -> Seq(W)] /\ s[0] = << >> /\ s[N] = FlattenSeq(seqs)
               /\ \A n \in 0..(N - 1) : s[n + 1] = s[n] \o seqs[n + 1]
  BY <1>1
<1> DEFINE off == [n \in 0..N |-> Len(s[n])]
<1> HIDE DEF N
<1>3. off \in [0..N -> Nat] /\ \A n \in 0..N : off[n] = Len(s[n])
  <2>1. \A n \in 0..N : Len(s[n]) \in Nat
    BY <1>2
  <2> QED BY <2>1
<1> HIDE DEF off
<1>4. ASSUME NEW n \in 0..(N - 1)
      PROVE  /\ off[n + 1] = off[n] + Len(seqs[n + 1])
             /\ \A j \in 1..off[n] : j \in 1..off[n + 1] /\ s[n + 1][j] = s[n][j]
             /\ \A j \in 1..Len(seqs[n + 1]) : /\ off[n] + j \in 1..off[n + 1]
                                               /\ s[n + 1][off[n] + j] = seqs[n + 1][j]
  <2>1. n \in 0..N /\ n + 1 \in 0..N /\ n + 1 \in 1..N
    BY <1>0
  <2> DEFINE a == s[n]
             b == seqs[n + 1]
  <2>2. a \in Seq(W) /\ b \in Seq(W) /\ s[n + 1] = a \o b /\ off[n] = Len(a) /\ off[n + 1] = Len(s[n + 1])
    BY <1>0, <1>2, <1>3, <2>1
  <2> HIDE DEF a, b
  <2>3. /\ Len(a \o b) = Len(a) + Len(b)
        /\ \A j \in 1..Len(a) : j \in 1..Len(a \o b) /\ (a \o b)[j] = a[j]
        /\ \A j \in 1..Len(b) : Len(a) + j \in 1..Len(a \o b) /\ (a \o b)[Len(a) + j] = b[j]
    BY <2>2, Joined
  <2> QED BY <2>2, <2>3 DEF a, b
<1> DEFINE In(n, k) == \A i \in 1..Len(seqs[k]) : /\ off[k - 1] + i \in 1..off[n]
                                                 /\ s[n][off[k - 1] + i] = seqs[k][i]
           T == {n \in 0..N : \A k \in 1..n : In(n, k)}
<1>5. 0..N \subseteq T
  <2>1. 0 \in T
    BY <1>0
  <2>2. ASSUME NEW n \in 0..(N - 1), n \in T PROVE n + 1 \in T
    <3>1. ASSUME NEW k \in 1..(n + 1) PROVE In(n + 1, k)
      <4>1. CASE k = n + 1
        <5>1. k - 1 = n
          BY <4>1
        <5> HIDE DEF T
        <5> QED BY <1>4, <4>1, <5>1
      <4>2. CASE k # n + 1
        <5>1. k \in 1..n
          BY <4>2
        <5>2. In(n, k)
          <6> HIDE DEF In
          <6> QED BY <2>2, <5>1
        <5> HIDE DEF T
        <5> QED BY <1>4, <5>2
      <4> QED BY <4>1, <4>2
    <3>2. n + 1 \in 0..N
      BY <1>0
    <3> HIDE DEF In
    <3> QED BY <3>1, <3>2
  <2> HIDE DEF T
  <2> QED BY <1>0, <2>1, <2>2, UpTo
<1>6. ASSUME NEW k \in 1..N PROVE In(N, k) /\ off[k] = off[k - 1] + Len(seqs[k])
  <2>1. N \in 0..N /\ k - 1 \in 0..(N - 1) /\ (k - 1) + 1 = k
    BY <1>0
  <2>2. N \in T
    BY <1>5, <2>1
  <2>3. off[(k - 1) + 1] = off[k - 1] + Len(seqs[(k - 1) + 1])
    <3> HIDE DEF In, T
    <3> QED BY <1>4, <2>1
  <2>4. off[k] = off[k - 1] + Len(seqs[k])
    BY <2>1, <2>3
  <2> HIDE DEF In
  <2> QED BY <2>2, <2>4
<1> DEFINE flat == FlattenSeq(seqs)
<1>7. flat = s[N] /\ off[N] = Len(flat) /\ flat \in Seq(W) /\ off[0] = 0
  BY <1>0, <1>2, <1>3
<1> HIDE DEF flat
<1>8. Placed(off, flat, seqs)
  <2> HIDE DEF T
  <2> QED BY <1>3, <1>6, <1>7 DEF Placed, N
<1> QED BY <1>7, <1>8 DEF flat

(* The parts follow each other, and there is nothing else.                 *)
LEMMA PlacesInOrder ==
  ASSUME NEW seqs, NEW N \in Nat, Len(seqs) = N, \A k \in 1..N : Len(seqs[k]) \in Nat,
         NEW flat, NEW off, Placed(off, flat, seqs)
  PROVE  /\ \A i \in 0..N, j \in 0..N : i <= j => off[i] <= off[j]
         /\ \A k \in 1..Len(flat) : \E j \in 1..N : off[j - 1] < k /\ k <= off[j]
<1>1. ASSUME NEW i \in 0..N, NEW j \in 0..N, i <= j PROVE off[i] <= off[j]
  <2> DEFINE T == {n \in 0..(N - i) : off[i] <= off[i + n]}
  <2>1. 0 \in T
    BY DEF Placed
  <2>2. ASSUME NEW n \in 0..((N - i) - 1), n \in T PROVE n + 1 \in T
    <3>1. i + n \in 0..N /\ i + (n + 1) \in 1..N /\ (i + (n + 1)) - 1 = i + n
      OBVIOUS
    <3>2. off[i + (n + 1)] = off[i + n] + Len(seqs[i + (n + 1)])
      BY <3>1 DEF Placed
    <3>3. off[i] \in Nat /\ off[i + n] \in Nat /\ off[i + (n + 1)] \in Nat /\ off[i] <= off[i + n]
      BY <2>2, <3>1 DEF Placed
    <3>4. off[i] <= off[i + (n + 1)]
      BY <3>1, <3>2, <3>3
    <3> QED BY <3>4
  <2>3. N - i \in Nat /\ j - i \in 0..(N - i) /\ i + (j - i) = j
    BY <1>1
  <2>4. 0..(N - i) \subseteq T
    <3> HIDE DEF T
    <3> QED BY <2>1, <2>2, <2>3, UpTo
  <2>5. off[i] <= off[i + (j - i)]
    BY <2>3, <2>4
  <2> QED BY <2>3, <2>5
<1>2. ASSUME NEW k \in 1..Len(flat)
      PROVE  \E j \in 1..N : off[j - 1] < k /\ k <= off[j]
  <2> DEFINE S == {j \in 0..N : k <= off[j]}
  <2>1. N \in S /\ 0 \notin S
    BY DEF Placed
  <2>2. PICK j \in S : \A i \in S : j <= i
    <3>1. S \subseteq Nat /\ S # {}
      BY <2>1
    <3> HIDE DEF S
    <3> QED BY <3>1, LeastMember
  <2>3. j \in 1..N /\ j - 1 \in 0..N /\ j - 1 \notin S
    BY <2>1, <2>2
  <2>4. off[j - 1] \in Nat /\ k \in Int
    BY <2>3 DEF Placed
  <2> QED BY <2>2, <2>3, <2>4
<1> QED BY <1>1, <1>2

(* What is in one of the parts is in the result. *)
LEMMA FlattenSeqOf ==
  ASSUME NEW W, NEW seqs \in Seq(Seq(W))
  PROVE  /\ FlattenSeq(seqs) \in Seq(W)
         /\ \A k \in 1..Len(seqs) : \A i \in 1..Len(seqs[k]) :
              \E j \in 1..Len(FlattenSeq(seqs)) : FlattenSeq(seqs)[j] = seqs[k][i]
<1>1. PICK off : Placed(off, FlattenSeq(seqs), seqs)
  BY FlattenPlaces
<1> QED BY <1>1, FlattenPlaces DEF Placed

(* A member of a set of positions has one place in Ascending, and there is *)
(* nothing else in it.                                                     *)
LEMMA AscendingPlaces ==
  ASSUME NEW N \in Nat, NEW S \in SUBSET (1..N)
  PROVE  /\ Cardinality(S) \in 0..N
         /\ Ascending(S) \in Seq(S) /\ Len(Ascending(S)) = Cardinality(S)
         /\ \A k \in S : \E i \in 1..Cardinality(S) : Ascending(S)[i] = k
         /\ \A i, j \in 1..Cardinality(S) : Ascending(S)[i] = Ascending(S)[j] => i = j
<1> DEFINE upto(n) == {j \in S : j <= n}
           f(n) == Cardinality(upto(n))
<1>a. \A j \in S : j \in Nat /\ 1 <= j /\ j <= N
  OBVIOUS
<1>0. IsFiniteSet(1..N) /\ Cardinality(1..N) = N
  BY FS_Interval
<1>1. IsFiniteSet(S) /\ Cardinality(S) \in Nat /\ Cardinality(S) <= N
  BY <1>0, FS_Subset, FS_CardinalityType
<1>2. \A n \in Nat : upto(n) \in SUBSET S /\ IsFiniteSet(upto(n))
  BY <1>1, FS_Subset
<1>3. \A n \in Nat : f(n) \in Nat /\ f(n) <= Cardinality(S)
  <2> TAKE n \in Nat
  <2>1. upto(n) \in SUBSET S /\ IsFiniteSet(upto(n))
    BY <1>2
  <2> HIDE DEF upto
  <2> QED BY <1>1, <2>1, FS_Subset, FS_CardinalityType
<1>4. f(0) = 0
  <2>1. \A j \in S : ~ (j <= 0)
    BY <1>a
  <2>2. upto(0) = {}
    BY <2>1
  <2> HIDE DEF upto
  <2> QED BY <2>2, FS_EmptySet
<1>5. f(N) = Cardinality(S)
  <2>1. upto(N) = S
    BY <1>a
  <2> QED BY <2>1
<1>6. \A n \in Nat : f(n + 1) = IF n + 1 \in S THEN f(n) + 1 ELSE f(n)
  <2> TAKE n \in Nat
  <2>1. IsFiniteSet(upto(n)) /\ n + 1 \notin upto(n)
    BY <1>2
  <2>2. n + 1 \in S => upto(n + 1) = upto(n) \cup {n + 1}
    <3>1. \A j \in S : j <= n + 1 <=> j <= n \/ j = n + 1
      BY <1>a
    <3>2. n + 1 <= n + 1
      OBVIOUS
    <3> QED BY <3>1, <3>2
  <2>3. n + 1 \notin S => upto(n + 1) = upto(n)
    <3>1. \A j \in S : j <= n + 1 <=> j <= n \/ j = n + 1
      BY <1>a
    <3> QED BY <3>1
  <2> HIDE DEF upto
  <2> QED BY <2>1, <2>2, <2>3, FS_AddElement
<1>7. ASSUME NEW i \in 1..Cardinality(S) PROVE \E k \in S : f(k) = i
  <2> DEFINE T == {n \in 0..N : f(n) >= i}
  <2>1. T \subseteq Nat /\ N \in T
    BY <1>1, <1>5
  <2>2. PICK n \in T : \A m \in T : n <= m
    <3> HIDE DEF T
    <3> QED BY <2>1, LeastMember
  <2>3. n \in 0..N /\ f(n) >= i
    BY <2>2
  <2>4. n # 0
    BY <1>4, <2>3
  <2>5. n - 1 \in 0..N /\ n - 1 \in Nat /\ (n - 1) + 1 = n
    BY <2>3, <2>4
  <2>6. ~ (f(n - 1) >= i)
    <3>1. n - 1 \notin T
      <4>1. ~ (n <= n - 1)
        BY <2>5
      <4> HIDE DEF T
      <4> QED BY <2>2, <4>1
    <3> HIDE DEF f
    <3> QED BY <2>5, <3>1
  <2>7. f(n) = IF n \in S THEN f(n - 1) + 1 ELSE f(n - 1)
    <3> HIDE DEF f
    <3> QED BY <1>6, <2>5
  <2>8. f(n) \in Nat /\ f(n - 1) \in Nat
    <3>1. n \in Nat
      BY <2>3
    <3> HIDE DEF f
    <3> QED BY <1>3, <2>5, <3>1
  <2> HIDE DEF f
  <2>9. n \in S /\ f(n) = i
    BY <2>3, <2>6, <2>7, <2>8
  <2> QED BY <2>9
<1>8. ASSUME NEW k \in S, NEW m \in S, f(k) = f(m) PROVE k = m
  <2>1. \A a, b \in S : a < b => f(a) # f(b)
    <3> TAKE a, b \in S
    <3> SUFFICES ASSUME a < b, f(a) = f(b) PROVE FALSE
      OBVIOUS
    <3>1. a \in Nat /\ b \in Nat
      OBVIOUS
    <3>2. upto(a) \in SUBSET upto(b) /\ b \in upto(b) /\ b \notin upto(a)
      <4>1. \A j \in S : j <= a => j <= b
        BY <1>a, <3>1
      <4>2. b <= b /\ ~ (b <= a)
        BY <3>1
      <4> QED BY <4>1, <4>2
    <3>3. IsFiniteSet(upto(b))
      BY <1>2, <3>1
    <3> HIDE DEF upto
    <3>4. upto(b) = upto(a)
      BY <3>2, <3>3, FS_Subset
    <3> QED BY <3>2, <3>4
  <2>2. k \in Nat /\ m \in Nat
    OBVIOUS
  <2> HIDE DEF f
  <2> QED BY <1>8, <2>1, <2>2
<1>9. ASSUME NEW i \in 1..Cardinality(S) PROVE Ascending(S)[i] \in S /\ f(Ascending(S)[i]) = i
  <2>1. Ascending(S)[i] = CHOOSE k \in S : f(k) = i
    BY DEF Ascending
  <2> HIDE DEF f
  <2> QED BY <1>7, <2>1
<1>10. Ascending(S) \in Seq(S) /\ Len(Ascending(S)) = Cardinality(S)
  <2>1. Ascending(S) = [i \in 1..Cardinality(S) |-> Ascending(S)[i]]
    BY DEF Ascending
  <2>2. Ascending(S) \in [1..Cardinality(S) -> S]
    BY <1>9, <2>1
  <2> QED BY <1>1, <2>2
<1>11. ASSUME NEW k \in S PROVE \E i \in 1..Cardinality(S) : Ascending(S)[i] = k
  <2>1. k \in Nat /\ f(k) \in Nat /\ f(k) <= Cardinality(S)
    BY <1>3
  <2>2. f(k) # 0
    <3>1. IsFiniteSet(upto(k)) /\ k \in upto(k)
      BY <1>2, <2>1
    <3> HIDE DEF upto
    <3> QED BY <3>1, FS_EmptySet
  <2>3. f(k) \in 1..Cardinality(S)
    <3> HIDE DEF f
    <3> QED BY <1>1, <2>1, <2>2
  <2>4. Ascending(S)[f(k)] = k
    <3>1. Ascending(S)[f(k)] \in S /\ f(Ascending(S)[f(k)]) = f(k)
      BY <1>9, <2>3
    <3> HIDE DEF f
    <3> QED BY <1>8, <3>1
  <2> HIDE DEF f
  <2> QED BY <2>3, <2>4
<1>12. ASSUME NEW i \in 1..Cardinality(S), NEW j \in 1..Cardinality(S),
              Ascending(S)[i] = Ascending(S)[j]
       PROVE  i = j
  <2>1. f(Ascending(S)[i]) = i /\ f(Ascending(S)[j]) = j
    <3> HIDE DEF f
    <3> QED BY <1>9
  <2> QED BY <1>12, <2>1
<1> HIDE DEF f
<1> QED BY <1>1, <1>10, <1>11, <1>12

LEMMA AscendingOf ==
  ASSUME NEW N \in Nat, NEW S \in SUBSET (1..N)
  PROVE  /\ Cardinality(S) \in 0..N
         /\ Ascending(S) \in Seq(S) /\ Len(Ascending(S)) = Cardinality(S)
         /\ \A k \in S : \E i \in 1..Cardinality(S) : Ascending(S)[i] = k
BY AscendingPlaces

LEMMA AscendingApart ==
  ASSUME NEW N \in Nat, NEW S \in SUBSET (1..N), NEW i \in DOMAIN Ascending(S),
         NEW j \in DOMAIN Ascending(S), Ascending(S)[i] = Ascending(S)[j]
  PROVE  i = j
<1>1. DOMAIN Ascending(S) = 1..Cardinality(S)
  BY DEF Ascending
<1> QED BY <1>1, AscendingPlaces

-----------------------------------------------------------------------------
(* The stores whose values are in V.  The length of the session's name is  *)
(* a number, and so are the lengths of the values of type PT_VS.           *)

StoresOver(V) ==
  {c \in [data : [Parameters -> Seq(V)], void_size : [Parameters -> Int]] :
     WellFormed(c) /\ c.data["SESSION_NAME"] \in Seq(Int)}

Good(c) == \E V : c \in StoresOver(V)

(* A parameter of a type has a type; PT_VS is no other type's, and neither *)
(* is that of the name.                                                    *)
LEMMA VoidTypes ==
  ASSUME NEW p \in PT_VS
  PROVE  p \notin PT_UC /\ p \notin PT_US /\ p \notin PT_UI /\ p \notin PT_F /\ p \notin PT_CS
<1>1. p \in {"LABEL", "ERO"}
  BY DEF PT_VS
<1>2. p \notin PT_UC
  BY <1>1 DEF PT_UC
<1>3. p \notin PT_US
  BY <1>1 DEF PT_US
<1>4. p \notin PT_UI
  BY <1>1 DEF PT_UI
<1>5. p \notin PT_F /\ p \notin PT_CS
  BY <1>1 DEF PT_F, PT_CS
<1> QED BY <1>2, <1>3, <1>4, <1>5

LEMMA OtherTypes ==
  ASSUME NEW p \in {"SESSION_NAME", "SREFRESH_MESSAGE_ID"}
  PROVE  p \notin PT_UC /\ p \notin PT_US /\ p \notin PT_UI /\ p \notin PT_F /\ p \notin PT_VS
<1>2. p \notin PT_UC
  BY DEF PT_UC
<1>3. p \notin PT_US
  BY DEF PT_US
<1>4. p \notin PT_UI
  BY DEF PT_UI
<1>5. p \notin PT_F /\ p \notin PT_VS
  BY DEF PT_F, PT_VS
<1> QED BY <1>2, <1>3, <1>4, <1>5

LEMMA Typed ==
  ASSUME NEW ty \in Types, NEW p, HasType(p, ty)
  PROVE  /\ p \in Parameters /\ p \notin Untyped
         /\ ty = "VS" <=> p \in PT_VS
         /\ p = "SESSION_NAME" => ty = "CS"
<1>1. \/ ty = "UC" /\ p \in PT_UC
      \/ ty = "US" /\ p \in PT_US
      \/ ty = "UI" /\ p \in PT_UI
      \/ ty = "F" /\ p \in PT_F
      \/ ty = "CS" /\ p \in PT_CS
      \/ ty = "VS" /\ p \in PT_VS
  BY DEF HasType, Types
<1>2. p \in Parameters
  BY <1>1 DEF Parameters
<1>3. p \notin Untyped
  <2>1. p = "SREFRESH_MESSAGE_ID" => FALSE
    BY <1>1, OtherTypes DEF PT_CS
  <2> QED BY <2>1 DEF Untyped
<1>4. ty = "VS" <=> p \in PT_VS
  BY <1>1, VoidTypes
<1>5. p = "SESSION_NAME" => ty = "CS"
  BY <1>1, OtherTypes
<1> QED BY <1>2, <1>3, <1>4, <1>5

LEMMA ListTypes ==
  /\ PT_TAB \subseteq Parameters /\ PT_VS \subseteq Parameters /\ Untyped \subseteq Parameters
  /\ "SESSION_NAME" \in Parameters /\ "SESSION_NAME" \notin PT_TAB
  /\ "SESSION_NAME" \notin Untyped /\ "SESSION_NAME" \notin PT_VS
<1>1. PT_VS \subseteq Parameters /\ Untyped \subseteq Parameters /\ "SESSION_NAME" \in Parameters
  BY DEF Parameters, PT_CS
<1>2. PT_TAB \subseteq PT_UI \cup PT_VS
  BY DEF PT_TAB, PT_UI, PT_VS
<1>3. PT_TAB \subseteq Parameters
  BY <1>2 DEF Parameters
<1>4. "SESSION_NAME" \notin PT_TAB /\ "SESSION_NAME" \notin Untyped
  BY DEF PT_TAB, Untyped
<1> QED BY <1>1, <1>3, <1>4, OtherTypes

Made(d, s) == [data |-> [p \in Parameters |-> d[p]], void_size |-> [p \in Parameters |-> s[p]]]

(* What makes a store one of StoresOver(V), slot by slot. *)
LEMMA StoreOver ==
  ASSUME NEW V, NEW d, NEW s,
         \A p \in Parameters :
           /\ d[p] \in Seq(V) /\ s[p] \in Int
           /\ p \notin PT_TAB => Len(d[p]) <= 1
           /\ p \in Untyped => d[p] = << >>
           /\ p \notin PT_VS => s[p] = 0
           /\ p \in PT_VS /\ d[p] = << >> => s[p] = 0
           /\ p = "SESSION_NAME" => d[p] \in Seq(Int)
  PROVE  Made(d, s) \in StoresOver(V)
<1> DEFINE c == Made(d, s)
<1>1. c \in [data : [Parameters -> Seq(V)], void_size : [Parameters -> Int]]
  BY DEF Made
<1>2. \A p \in Parameters : c.data[p] = d[p] /\ c.void_size[p] = s[p]
  BY DEF Made
<1> HIDE DEF c
<1>3. WellFormed(c)
  BY <1>2, ListTypes DEF WellFormed
<1>4. c.data["SESSION_NAME"] \in Seq(Int)
  BY <1>2, ListTypes
<1>5. c \in StoresOver(V)
  BY <1>1, <1>3, <1>4 DEF StoresOver
<1> QED BY <1>5 DEF c

LEMMA StoreHas ==
  ASSUME NEW V, NEW c \in StoresOver(V), NEW p \in Parameters
  PROVE  /\ c.data[p] \in Seq(V) /\ c.void_size[p] \in Int
         /\ p \notin PT_TAB => Len(c.data[p]) <= 1
         /\ p \in Untyped => c.data[p] = << >>
         /\ p \notin PT_VS => c.void_size[p] = 0
         /\ p \in PT_VS /\ c.data[p] = << >> => c.void_size[p] = 0
         /\ p = "SESSION_NAME" => c.data[p] \in Seq(Int)
<1>1. c \in [data : [Parameters -> Seq(V)], void_size : [Parameters -> Int]]
      /\ WellFormed(c) /\ c.data["SESSION_NAME"] \in Seq(Int)
  BY DEF StoresOver
<1> QED BY <1>1 DEF WellFormed

LEMMA StoreOf ==
  ASSUME NEW V, NEW c \in StoresOver(V)
  PROVE  c = Made(c.data, c.void_size)
<1>1. c \in [data : [Parameters -> Seq(V)], void_size : [Parameters -> Int]]
  BY DEF StoresOver
<1> QED BY <1>1 DEF Made

LEMMA MoreValues ==
  ASSUME NEW V, NEW W, V \subseteq W
  PROVE  StoresOver(V) \subseteq StoresOver(W)
<1> SUFFICES ASSUME NEW c \in StoresOver(V) PROVE c \in StoresOver(W)
  OBVIOUS
<1>1. \A p \in Parameters : c.data[p] \in Seq(W)
  <2> TAKE p \in Parameters
  <2>1. c.data[p] \in Seq(V)
    BY StoreHas
  <2> QED BY <2>1
<1>2. \A p \in Parameters :
        /\ c.data[p] \in Seq(W) /\ c.void_size[p] \in Int
        /\ p \notin PT_TAB => Len(c.data[p]) <= 1
        /\ p \in Untyped => c.data[p] = << >>
        /\ p \notin PT_VS => c.void_size[p] = 0
        /\ p \in PT_VS /\ c.data[p] = << >> => c.void_size[p] = 0
        /\ p = "SESSION_NAME" => c.data[p] \in Seq(Int)
  BY <1>1, StoreHas
<1>3. Made(c.data, c.void_size) \in StoresOver(W)
  BY <1>2, StoreOver
<1> QED BY <1>3, StoreOf

LEMMA EmptyHasNone == Empty \in StoresOver({})
<1> DEFINE d == [p \in Parameters |-> << >>]
           s == [p \in Parameters |-> 0]
<1>1. Empty = Made(d, s)
  BY DEF Empty, Made
<1>2. \A p \in Parameters : d[p] = << >> /\ s[p] = 0
  OBVIOUS
<1> HIDE DEF d, s
<1>3. Made(d, s) \in StoresOver({})
  <2>1. \A p \in Parameters :
          /\ d[p] \in Seq({}) /\ s[p] \in Int
          /\ p \notin PT_TAB => Len(d[p]) <= 1
          /\ p \in Untyped => d[p] = << >>
          /\ p \notin PT_VS => s[p] = 0
          /\ p \in PT_VS /\ d[p] = << >> => s[p] = 0
          /\ p = "SESSION_NAME" => d[p] \in Seq(Int)
    <3>1. << >> \in Seq({}) /\ << >> \in Seq(Int) /\ Len(<< >>) <= 1 /\ 0 \in Int
      OBVIOUS
    <3> QED BY <1>2, <3>1
  <2> QED BY <2>1, StoreOver
<1> QED BY <1>1, <1>3

LEMMA EmptyIsGood == Good(Empty)
BY EmptyHasNone DEF Good

(* Two stores can be taken to share their values. *)
LEMMA BothGood ==
  ASSUME NEW c, NEW e, Good(c), Good(e), NEW X
  PROVE  \E V : X \subseteq V /\ c \in StoresOver(V) /\ e \in StoresOver(V)
<1>1. PICK V : c \in StoresOver(V)
  BY DEF Good
<1>2. PICK W : e \in StoresOver(W)
  BY DEF Good
<1> DEFINE U == V \cup W \cup X
<1>3. V \subseteq U /\ W \subseteq U /\ X \subseteq U
  OBVIOUS
<1> HIDE DEF U
<1> QED BY <1>1, <1>2, <1>3, MoreValues

-----------------------------------------------------------------------------
(* What the operations of the class leave is such a store again.           *)

(* The call of an overload: the value of the name is its length. *)
Fits(V, ty, v, size) == ty \in Types /\ v \in V /\ size \in Int /\ (ty = "CS" => v \in Int)

LEMMA SlotIn ==
  ASSUME NEW V, NEW c \in StoresOver(V), NEW p \in Parameters,
         NEW values \in Seq(V), NEW size \in Int,
         p \notin PT_TAB => Len(values) <= 1,
         p \in Untyped => values = << >>,
         p \notin PT_VS => size = 0,
         p \in PT_VS /\ values = << >> => size = 0,
         p = "SESSION_NAME" => values \in Seq(Int)
  PROVE  Slot(c, p, values, size) \in StoresOver(V)
<1> DEFINE d == [q \in Parameters |-> IF q = p THEN values ELSE c.data[q]]
           s == [q \in Parameters |-> IF q = p THEN size ELSE c.void_size[q]]
<1>1. Slot(c, p, values, size) = Made(d, s)
  BY DEF Slot, Made
<1>2. \A q \in Parameters : /\ d[q] = IF q = p THEN values ELSE c.data[q]
                            /\ s[q] = IF q = p THEN size ELSE c.void_size[q]
  OBVIOUS
<1> HIDE DEF d, s
<1>3. ASSUME NEW q \in Parameters
      PROVE  /\ d[q] \in Seq(V) /\ s[q] \in Int
             /\ q \notin PT_TAB => Len(d[q]) <= 1
             /\ q \in Untyped => d[q] = << >>
             /\ q \notin PT_VS => s[q] = 0
             /\ q \in PT_VS /\ d[q] = << >> => s[q] = 0
             /\ q = "SESSION_NAME" => d[q] \in Seq(Int)
  <2>1. CASE q = p
    <3>1. d[q] = values /\ s[q] = size
      BY <1>2, <2>1
    <3> QED BY <2>1, <3>1
  <2>2. CASE q # p
    <3>1. d[q] = c.data[q] /\ s[q] = c.void_size[q]
      BY <1>2, <2>2
    <3> QED BY <3>1, StoreHas
  <2> QED BY <2>1, <2>2
<1>4. Made(d, s) \in StoresOver(V)
  BY <1>3, StoreOver
<1> QED BY <1>1, <1>4

LEMMA AddIn ==
  ASSUME NEW V, NEW c \in StoresOver(V), NEW p, NEW ty, NEW v, NEW size, Fits(V, ty, v, size)
  PROVE  Add(c, p, ty, v, size) \in StoresOver(V)
<1>1. CASE AddRefused(c, p, ty, size)
  BY <1>1 DEF Add
<1>2. CASE ~ AddRefused(c, p, ty, size)
  <2>1. HasType(p, ty) /\ (p \notin PT_TAB => ~ IsPresent(c, p))
    BY <1>2 DEF AddRefused
  <2>2. /\ p \in Parameters /\ p \notin Untyped /\ (ty = "VS" <=> p \in PT_VS)
        /\ p = "SESSION_NAME" => v \in Int
    BY <2>1, Typed DEF Fits
  <2> DEFINE values == Append(c.data[p], v)
             n == IF ty = "VS" THEN size ELSE c.void_size[p]
  <2>3. /\ c.data[p] \in Seq(V) /\ c.void_size[p] \in Int
        /\ p \notin PT_VS => c.void_size[p] = 0
        /\ p = "SESSION_NAME" => c.data[p] \in Seq(Int)
    BY <2>2, StoreHas
  <2>4. values \in Seq(V) /\ values # << >> /\ Len(values) = Len(c.data[p]) + 1
    BY <2>3 DEF Fits
  <2>5. p \notin PT_TAB => Len(values) <= 1
    BY <2>1, <2>4 DEF IsPresent, IsPresentAt
  <2>6. p = "SESSION_NAME" => values \in Seq(Int)
    BY <2>2, <2>3
  <2>7. n \in Int /\ (p \notin PT_VS => n = 0)
    BY <2>2, <2>3 DEF Fits
  <2>8. Add(c, p, ty, v, size) = Slot(c, p, values, n)
    BY <1>2 DEF Add
  <2> HIDE DEF values, n
  <2> QED BY <2>2, <2>4, <2>5, <2>6, <2>7, <2>8, SlotIn
<1> QED BY <1>1, <1>2

LEMMA SetAtIn ==
  ASSUME NEW V, NEW c \in StoresOver(V), NEW p, NEW ty, NEW v, NEW size, NEW i \in Nat,
         Fits(V, ty, v, size)
  PROVE  SetAt(c, p, ty, v, size, i) \in StoresOver(V)
<1>1. CASE SetRefused(c, p, ty, size, i)
  BY <1>1 DEF SetAt
<1>2. CASE ~ SetRefused(c, p, ty, size, i)
  <2>1. HasType(p, ty) /\ IsPresentAt(c, p, i)
    BY <1>2 DEF SetRefused
  <2>2. /\ p \in Parameters /\ p \notin Untyped /\ (ty = "VS" <=> p \in PT_VS)
        /\ p = "SESSION_NAME" => v \in Int /\ p \notin PT_TAB
    BY <2>1, Typed, ListTypes DEF Fits
  <2> DEFINE values == IF p \in PT_TAB THEN [c.data[p] EXCEPT ![i + 1] = v] ELSE << v >>
             n == IF ty = "VS" THEN size ELSE c.void_size[p]
  <2>3. /\ c.data[p] \in Seq(V) /\ c.void_size[p] \in Int
        /\ p \notin PT_VS => c.void_size[p] = 0
    BY <2>2, StoreHas
  <2>4. values \in Seq(V) /\ values # << >>
    <3>1. CASE p \in PT_TAB
      <4>1. i < Len(c.data[p]) /\ values = [c.data[p] EXCEPT ![i + 1] = v]
        BY <2>1, <3>1 DEF IsPresentAt
      <4>2. values \in Seq(V) /\ Len(values) = Len(c.data[p])
        BY <2>3, <4>1, ExceptSeq DEF Fits
      <4>3. values # << >>
        BY <2>3, <4>1, <4>2
      <4> QED BY <4>2, <4>3
    <3>2. CASE p \notin PT_TAB
      BY <3>2 DEF Fits
    <3> QED BY <3>1, <3>2
  <2>5. p \notin PT_TAB => values = << v >> /\ Len(values) <= 1
    OBVIOUS
  <2>6. p = "SESSION_NAME" => values \in Seq(Int)
    BY <2>2, <2>5
  <2>7. n \in Int /\ (p \notin PT_VS => n = 0)
    BY <2>2, <2>3 DEF Fits
  <2>8. SetAt(c, p, ty, v, size, i) = Slot(c, p, values, n)
    BY <1>2 DEF SetAt
  <2> HIDE DEF values, n
  <2> QED BY <2>2, <2>4, <2>5, <2>6, <2>7, <2>8, SlotIn
<1> QED BY <1>1, <1>2

LEMMA SetAddAtIn ==
  ASSUME NEW V, NEW c \in StoresOver(V), NEW p, NEW ty, NEW v, NEW size, NEW i \in Nat,
         Fits(V, ty, v, size)
  PROVE  SetAddAt(c, p, ty, v, size, i) \in StoresOver(V)
BY AddIn, SetAtIn DEF SetAddAt

LEMMA CopySelectedIn ==
  ASSUME NEW V, NEW c \in StoresOver(V), NEW e \in StoresOver(V), NEW S
  PROVE  CopySelected(c, e, S) \in StoresOver(V)
<1> DEFINE d == [p \in Parameters |-> IF p \in S THEN e.data[p] ELSE c.data[p]]
           s == [p \in Parameters |-> IF p \notin S THEN c.void_size[p]
                                      ELSE IF p \in PT_VS THEN e.void_size[p] ELSE 0]
<1>1. CopySelected(c, e, S) = Made(d, s)
  BY DEF CopySelected, Made
<1>2. \A p \in Parameters :
        /\ d[p] = IF p \in S THEN e.data[p] ELSE c.data[p]
        /\ s[p] = IF p \notin S THEN c.void_size[p] ELSE IF p \in PT_VS THEN e.void_size[p] ELSE 0
  OBVIOUS
<1> HIDE DEF d, s
<1>3. ASSUME NEW p \in Parameters
      PROVE  /\ d[p] \in Seq(V) /\ s[p] \in Int
             /\ p \notin PT_TAB => Len(d[p]) <= 1
             /\ p \in Untyped => d[p] = << >>
             /\ p \notin PT_VS => s[p] = 0
             /\ p \in PT_VS /\ d[p] = << >> => s[p] = 0
             /\ p = "SESSION_NAME" => d[p] \in Seq(Int)
  <2>1. CASE p \in S
    <3>1. d[p] = e.data[p] /\ s[p] = IF p \in PT_VS THEN e.void_size[p] ELSE 0
      BY <1>2, <2>1
    <3> QED BY <3>1, StoreHas
  <2>2. CASE p \notin S
    <3>1. d[p] = c.data[p] /\ s[p] = c.void_size[p]
      BY <1>2, <2>2
    <3> QED BY <3>1, StoreHas
  <2> QED BY <2>1, <2>2
<1>4. Made(d, s) \in StoresOver(V)
  BY <1>3, StoreOver
<1> QED BY <1>1, <1>4

LEMMA RemoveEachIn ==
  ASSUME NEW V, NEW c \in StoresOver(V), NEW S
  PROVE  RemoveEach(c, S) \in StoresOver(V)
<1> DEFINE d == [p \in Parameters |-> IF p \in S THEN << >> ELSE c.data[p]]
           s == [p \in Parameters |-> IF p \in S THEN 0 ELSE c.void_size[p]]
<1>1. RemoveEach(c, S) = Made(d, s)
  BY DEF RemoveEach, Made
<1>2. \A p \in Parameters : /\ d[p] = IF p \in S THEN << >> ELSE c.data[p]
                            /\ s[p] = IF p \in S THEN 0 ELSE c.void_size[p]
  OBVIOUS
<1> HIDE DEF d, s
<1>3. ASSUME NEW p \in Parameters
      PROVE  /\ d[p] \in Seq(V) /\ s[p] \in Int
             /\ p \notin PT_TAB => Len(d[p]) <= 1
             /\ p \in Untyped => d[p] = << >>
             /\ p \notin PT_VS => s[p] = 0
             /\ p \in PT_VS /\ d[p] = << >> => s[p] = 0
             /\ p = "SESSION_NAME" => d[p] \in Seq(Int)
  <2>1. CASE p \in S
    <3>1. d[p] = << >> /\ s[p] = 0
      BY <1>2, <2>1
    <3>2. << >> \in Seq(V) /\ << >> \in Seq(Int) /\ Len(<< >>) <= 1 /\ 0 \in Int
      OBVIOUS
    <3> QED BY <3>1, <3>2
  <2>2. CASE p \notin S
    <3>1. d[p] = c.data[p] /\ s[p] = c.void_size[p]
      BY <1>2, <2>2
    <3> QED BY <3>1, StoreHas
  <2> QED BY <2>1, <2>2
<1>4. Made(d, s) \in StoresOver(V)
  BY <1>3, StoreOver
<1> QED BY <1>1, <1>4

LEMMA RemoveParamIn ==
  ASSUME NEW V, NEW c \in StoresOver(V), NEW p \in Parameters \ PT_TAB
  PROVE  RemoveParam(c, p) \in StoresOver(V)
<1>1. RemoveParam(c, p) = Slot(c, p, << >>, 0)
  BY DEF RemoveParam, RemoveValue
<1>2. << >> \in Seq(V) /\ << >> \in Seq(Int) /\ Len(<< >>) <= 1 /\ 0 \in Int
  OBVIOUS
<1> QED BY <1>1, <1>2, SlotIn

(* Several calls: each fits. *)
LEMMA SetEachIn ==
  ASSUME NEW V, NEW c \in StoresOver(V), NEW N \in Nat, NEW calls, DOMAIN calls = 1..N,
         \A k \in 1..N : Fits(V, calls[k][2], calls[k][3], 0)
                         /\ calls[k][1] \notin PT_TAB /\ calls[k][1] \notin PT_VS
  PROVE  SetEach(c, calls) \in StoresOver(V)
<1> DEFINE given(p) == {k \in DOMAIN calls : calls[k][1] = p /\ HasType(p, calls[k][2])}
           d == [p \in Parameters |-> IF given(p) = {} THEN c.data[p]
                                      ELSE << calls[Max(given(p))][3] >>]
           s == c.void_size
<1>1. SetEach(c, calls) = Made(d, s)
  <2>1. c.void_size = [p \in Parameters |-> c.void_size[p]]
    BY DEF StoresOver
  <2> QED BY <2>1 DEF SetEach, Made
<1>2. \A p \in Parameters : d[p] = IF given(p) = {} THEN c.data[p]
                                   ELSE << calls[Max(given(p))][3] >>
  OBVIOUS
<1>3. ASSUME NEW p \in Parameters, given(p) # {}
      PROVE  /\ calls[Max(given(p))][3] \in V /\ p \notin PT_TAB /\ p \notin PT_VS /\ p \notin Untyped
             /\ p = "SESSION_NAME" => calls[Max(given(p))][3] \in Int
  <2>1. given(p) \in SUBSET (1..N)
    OBVIOUS
  <2>2. Max(given(p)) \in given(p)
    <3> HIDE DEF given
    <3> QED BY <1>3, <2>1, LargestIn
  <2> DEFINE k == Max(given(p))
  <2>3. k \in 1..N /\ calls[k][1] = p /\ HasType(p, calls[k][2])
    BY <2>2
  <2>4. Fits(V, calls[k][2], calls[k][3], 0) /\ p \notin PT_TAB /\ p \notin PT_VS
    BY <2>3
  <2> HIDE DEF k
  <2>5. p \notin Untyped /\ (p = "SESSION_NAME" => calls[k][2] = "CS")
    BY <2>3, <2>4, Typed DEF Fits
  <2>6. calls[k][3] \in V /\ (p = "SESSION_NAME" => calls[k][3] \in Int)
    BY <2>4, <2>5 DEF Fits
  <2> QED BY <2>4, <2>5, <2>6 DEF k
<1> HIDE DEF d, s, given
<1>4. ASSUME NEW p \in Parameters
      PROVE  /\ d[p] \in Seq(V) /\ s[p] \in Int
             /\ p \notin PT_TAB => Len(d[p]) <= 1
             /\ p \in Untyped => d[p] = << >>
             /\ p \notin PT_VS => s[p] = 0
             /\ p \in PT_VS /\ d[p] = << >> => s[p] = 0
             /\ p = "SESSION_NAME" => d[p] \in Seq(Int)
  <2>0. s[p] = c.void_size[p]
    BY DEF s
  <2>1. CASE given(p) = {}
    <3>1. d[p] = c.data[p]
      BY <1>2, <2>1
    <3> QED BY <2>0, <3>1, StoreHas
  <2>2. CASE given(p) # {}
    <3>1. d[p] = << calls[Max(given(p))][3] >>
      BY <1>2, <2>2
    <3>2. d[p] \in Seq(V) /\ Len(d[p]) = 1 /\ (p = "SESSION_NAME" => d[p] \in Seq(Int))
      BY <1>3, <2>2, <3>1
    <3>3. p \notin PT_VS /\ p \notin Untyped /\ s[p] \in Int /\ s[p] = 0
      BY <1>3, <2>0, <2>2, StoreHas
    <3> QED BY <3>2, <3>3
  <2> QED BY <2>1, <2>2
<1>5. Made(d, s) \in StoresOver(V)
  BY <1>4, StoreOver
<1> QED BY <1>1, <1>5


(* Calls of add with values in V for parameters of P. *)
AddCalls(V, P) ==
  {x \in [par : P, type : Types, val : V, size : Int] : x.type = "CS" => x.val \in Int}

LEMMA AddEachIn ==
  ASSUME NEW V, NEW c \in StoresOver(V), NEW P, NEW calls \in Seq(AddCalls(V, P))
  PROVE  AddEach(c, calls) \in StoresOver(V)
<1> DEFINE N == Len(calls)
           taken(p) == {k \in DOMAIN calls : /\ calls[k].par = p
                                       /\ ~ AddRefused(c, p, calls[k].type, calls[k].size)}
           listed(p) == [i \in DOMAIN Ascending(taken(p)) |-> calls[Ascending(taken(p))[i]].val]
           d == [p \in Parameters |->
                        IF taken(p) = {} THEN c.data[p]
                        ELSE IF p \in PT_TAB THEN c.data[p] \o listed(p)
                        ELSE << calls[Min(taken(p))].val >>]
           s == [p \in Parameters |->
                        IF p \in PT_VS /\ taken(p) # {} THEN calls[Min(taken(p))].size
                        ELSE c.void_size[p]]
<1>0. N \in Nat /\ DOMAIN calls = 1..N
  OBVIOUS
<1>1. AddEach(c, calls) = Made(d, s)
  BY DEF AddEach, Made
<1>2. \A p \in Parameters :
        /\ d[p] = IF taken(p) = {} THEN c.data[p]
                  ELSE IF p \in PT_TAB THEN c.data[p] \o listed(p)
                  ELSE << calls[Min(taken(p))].val >>
        /\ s[p] = IF p \in PT_VS /\ taken(p) # {} THEN calls[Min(taken(p))].size
                  ELSE c.void_size[p]
  OBVIOUS
<1>3. ASSUME NEW p \in Parameters, NEW k \in taken(p)
      PROVE  /\ calls[k].val \in V /\ calls[k].size \in Int /\ p \notin Untyped
             /\ p = "SESSION_NAME" => calls[k].val \in Int
  <2>1. k \in 1..N /\ calls[k].par = p /\ ~ AddRefused(c, p, calls[k].type, calls[k].size)
    BY <1>0
  <2>2. calls[k] \in AddCalls(V, P)
    BY <2>1
  <2>3. calls[k].type \in Types /\ calls[k].val \in V /\ calls[k].size \in Int
        /\ (calls[k].type = "CS" => calls[k].val \in Int)
    BY <2>2 DEF AddCalls
  <2>4. HasType(p, calls[k].type)
    BY <2>1 DEF AddRefused
  <2> QED BY <2>3, <2>4, Typed
<1>4. ASSUME NEW p \in Parameters
      PROVE  /\ taken(p) \in SUBSET (1..N)
             /\ taken(p) # {} => Min(taken(p)) \in taken(p)
             /\ listed(p) \in Seq(V)
  <2>1. taken(p) \in SUBSET (1..N)
    BY <1>0
  <2>2. taken(p) # {} => Min(taken(p)) \in taken(p)
    <3> HIDE DEF taken, N
    <3> QED BY <1>0, <2>1, LeastPosition
  <2> DEFINE a == Ascending(taken(p))
  <2>3. a \in Seq(taken(p))
    <3> HIDE DEF taken, N
    <3> QED BY <1>0, <2>1, AscendingOf
  <2>4. \A i \in 1..Len(a) : a[i] \in taken(p) /\ calls[a[i]].val \in V
    <3> HIDE DEF a, taken
    <3> QED BY <1>3, <2>3
  <2>5. listed(p) = [i \in 1..Len(a) |-> calls[a[i]].val]
    <3>1. DOMAIN a = 1..Len(a)
      <4> HIDE DEF a, taken
      <4> QED BY <2>3
    <3> QED BY <3>1
  <2>6. Len(a) \in Nat
    <3> HIDE DEF a, taken
    <3> QED BY <2>3
  <2>7. listed(p) \in Seq(V)
    <3> HIDE DEF a, taken, listed
    <3> QED BY <2>4, <2>5, <2>6
  <2> QED BY <2>1, <2>2, <2>7
<1> HIDE DEF d, s, taken, listed, N
<1>5. ASSUME NEW p \in Parameters
      PROVE  /\ d[p] \in Seq(V) /\ s[p] \in Int
             /\ p \notin PT_TAB => Len(d[p]) <= 1
             /\ p \in Untyped => d[p] = << >>
             /\ p \notin PT_VS => s[p] = 0
             /\ p \in PT_VS /\ d[p] = << >> => s[p] = 0
             /\ p = "SESSION_NAME" => d[p] \in Seq(Int)
  <2>0. /\ c.data[p] \in Seq(V) /\ c.void_size[p] \in Int
        /\ p \notin PT_TAB => Len(c.data[p]) <= 1
        /\ p \in Untyped => c.data[p] = << >>
        /\ p \notin PT_VS => c.void_size[p] = 0
        /\ p \in PT_VS /\ c.data[p] = << >> => c.void_size[p] = 0
        /\ p = "SESSION_NAME" => c.data[p] \in Seq(Int)
    BY StoreHas
  <2>1. CASE taken(p) = {}
    <3>1. d[p] = c.data[p] /\ s[p] = c.void_size[p]
      BY <1>2, <2>1
    <3> QED BY <2>0, <3>1
  <2>2. CASE taken(p) # {}
    <3> DEFINE k == Min(taken(p))
    <3>1. k \in taken(p)
      BY <1>4, <2>2
    <3>2. calls[k].val \in V /\ calls[k].size \in Int /\ p \notin Untyped
          /\ (p = "SESSION_NAME" => calls[k].val \in Int)
      BY <1>3, <3>1
    <3>3. s[p] = IF p \in PT_VS THEN calls[k].size ELSE c.void_size[p]
      BY <1>2, <2>2
    <3>4. CASE p \notin PT_TAB
      <4>1. d[p] = << calls[k].val >>
        BY <1>2, <2>2, <3>4
      <4> HIDE DEF k
      <4>2. d[p] \in Seq(V) /\ Len(d[p]) = 1 /\ (p = "SESSION_NAME" => d[p] \in Seq(Int))
            /\ d[p] # << >>
        BY <3>2, <4>1
      <4> QED BY <2>0, <3>2, <3>3, <4>2
    <3>5. CASE p \in PT_TAB
      <4>1. d[p] = c.data[p] \o listed(p)
        BY <1>2, <2>2, <3>5
      <4>2. d[p] \in Seq(V)
        BY <1>4, <2>0, <4>1
      <4>3. p # "SESSION_NAME"
        BY <3>5, ListTypes
      <4>4. p \in PT_VS => d[p] # << >>
        <5> SUFFICES ASSUME d[p] = << >> PROVE FALSE
          OBVIOUS
        <5>1. Len(listed(p)) = Cardinality(taken(p)) /\ \E i \in 1..Cardinality(taken(p)) : TRUE
          <6>1. taken(p) \in SUBSET (1..N) /\ N \in Nat
            BY <1>0, <1>4
          <6>2. /\ Ascending(taken(p)) \in Seq(taken(p)) /\ Len(Ascending(taken(p))) = Cardinality(taken(p))
                /\ \E i \in 1..Cardinality(taken(p)) : Ascending(taken(p))[i] = k
            <7> HIDE DEF k
            <7> QED BY <3>1, <6>1, AscendingOf
          <6>3. DOMAIN listed(p) = 1..Cardinality(taken(p)) /\ Cardinality(taken(p)) \in Nat
            <7>1. DOMAIN listed(p) = DOMAIN Ascending(taken(p))
              BY DEF listed
            <7> HIDE DEF k
            <7> QED BY <6>2, <7>1
          <6> HIDE DEF k
          <6> QED BY <1>4, <6>2, <6>3
        <5>2. Len(d[p]) = Len(c.data[p]) + Len(listed(p))
          BY <1>4, <2>0, <4>1, ConcatProperties
        <5> HIDE DEF k
        <5> QED BY <1>4, <2>0, <5>1, <5>2
      <4> HIDE DEF k
      <4> QED BY <2>0, <3>2, <3>3, <3>5, <4>2, <4>3, <4>4
    <3> QED BY <3>4, <3>5
  <2> QED BY <2>1, <2>2
<1>6. Made(d, s) \in StoresOver(V)
  BY <1>5, StoreOver
<1> QED BY <1>1, <1>6

-----------------------------------------------------------------------------
(* The same whatever the values are.                                       *)

LEMMA GoodAdd ==
  ASSUME NEW c, Good(c), NEW p, NEW ty \in Types, NEW v, NEW size \in Int, NEW i \in Nat,
         ty = "CS" => v \in Int
  PROVE  Good(SetAddAt(c, p, ty, v, size, i)) /\ Good(SetAt(c, p, ty, v, size, i))
<1>1. PICK V : {v} \subseteq V /\ c \in StoresOver(V)
  BY BothGood
<1>2. Fits(V, ty, v, size)
  BY <1>1 DEF Fits
<1> QED BY <1>1, <1>2, SetAtIn, SetAddAtIn DEF Good

LEMMA GoodCopy ==
  ASSUME NEW c, NEW e, Good(c), Good(e), NEW S
  PROVE  Good(CopySelected(c, e, S)) /\ Good(AddMissing(c, e)) /\ Good(Update(c, e))
<1>1. PICK V : {} \subseteq V /\ c \in StoresOver(V) /\ e \in StoresOver(V)
  BY BothGood
<1>2. \A U : CopySelected(c, e, U) \in StoresOver(V)
  BY <1>1, CopySelectedIn
<1> QED BY <1>2 DEF AddMissing, Update, Good

LEMMA GoodRemove ==
  ASSUME NEW c, Good(c)
  PROVE  /\ \A S : Good(RemoveEach(c, S))
         /\ \A p \in Parameters \ PT_TAB : Good(RemoveParam(c, p))
<1>1. PICK V : c \in StoresOver(V)
  BY DEF Good
<1> QED BY <1>1, RemoveEachIn, RemoveParamIn DEF Good

LEMMA GoodAddEach ==
  ASSUME NEW c, Good(c), NEW W, NEW P, NEW calls \in Seq(AddCalls(W, P))
  PROVE  Good(AddEach(c, calls))
<1>1. PICK V : W \subseteq V /\ c \in StoresOver(V)
  BY BothGood
<1>2. AddCalls(W, P) \subseteq AddCalls(V, P)
  BY <1>1 DEF AddCalls
<1>3. calls \in Seq(AddCalls(V, P))
  BY <1>2
<1> QED BY <1>1, <1>3, AddEachIn DEF Good

(* Calls of setadd for a block: what they set is no list and no PT_VS.     *)
Plain == (Parameters \ PT_TAB) \ PT_VS

Settings(V) == {x \in Plain \X Types \X V : x[2] = "CS" => x[3] \in Int}

GoodSettings(calls) == \E V : calls \in Seq(Settings(V))

LEMMA GoodSetEach ==
  ASSUME NEW c, Good(c), NEW calls, GoodSettings(calls)
  PROVE  Good(SetEach(c, calls))
<1>1. PICK W : calls \in Seq(Settings(W))
  BY DEF GoodSettings
<1>2. PICK V : W \subseteq V /\ c \in StoresOver(V)
  BY BothGood
<1>3. Len(calls) \in Nat /\ DOMAIN calls = 1..Len(calls)
  BY <1>1
<1>4. \A k \in 1..Len(calls) : /\ Fits(V, calls[k][2], calls[k][3], 0)
                               /\ calls[k][1] \notin PT_TAB /\ calls[k][1] \notin PT_VS
  <2> TAKE k \in 1..Len(calls)
  <2>1. calls[k] \in Settings(W)
    BY <1>1
  <2>2. /\ calls[k][1] \in Plain /\ calls[k][2] \in Types /\ calls[k][3] \in W
        /\ calls[k][2] = "CS" => calls[k][3] \in Int
    BY <2>1 DEF Settings
  <2> QED BY <1>2, <2>2 DEF Fits, Plain
<1>5. SetEach(c, calls) \in StoresOver(V)
  BY <1>2, <1>3, <1>4, SetEachIn
<1> QED BY <1>5 DEF Good

LEMMA JoinedSettings ==
  ASSUME NEW a, NEW b, GoodSettings(a), GoodSettings(b)
  PROVE  GoodSettings(a \o b)
<1>1. PICK V : a \in Seq(Settings(V))
  BY DEF GoodSettings
<1>2. PICK W : b \in Seq(Settings(W))
  BY DEF GoodSettings
<1>3. Settings(V) \subseteq Settings(V \cup W) /\ Settings(W) \subseteq Settings(V \cup W)
  BY DEF Settings
<1> DEFINE T == Settings(V \cup W)
<1>4. Settings(V) \subseteq T /\ Settings(W) \subseteq T
  BY <1>3
<1>5. a \o b \in Seq(T)
  <2> HIDE DEF T
  <2>1. a \in Seq(T)
    BY <1>1, <1>4
  <2>2. b \in Seq(T)
    BY <1>2, <1>4
  <2> QED BY <2>1, <2>2, ConcatProperties
<1> QED BY <1>5 DEF GoodSettings

LEMMA Setting ==
  ASSUME NEW V, NEW p \in Plain, NEW v \in V
  PROVE  /\ << p, "UC", v >> \in Settings(V) /\ << p, "US", v >> \in Settings(V)
         /\ << p, "UI", v >> \in Settings(V) /\ << p, "F", v >> \in Settings(V)
         /\ << p, "VS", v >> \in Settings(V)
         /\ v \in Int => << p, "CS", v >> \in Settings(V)
BY DEF Settings, Types

LEMMA PlainParameter ==
  ASSUME NEW p \in PT_UC \cup PT_US \cup PT_UI \cup PT_F \cup PT_CS,
         p \notin {"SCOPE_ADDR", "RSVP_HOP_TLVS"}
  PROVE  p \in Plain
<1>1. p \in Parameters
  BY DEF Parameters
<1>2. p \notin PT_VS
  BY VoidTypes
<1>3. p \notin PT_TAB
  <2>1. p # "ERO"
    BY <1>2 DEF PT_VS
  <2> QED BY <2>1 DEF PT_TAB
<1> QED BY <1>1, <1>2, <1>3 DEF Plain

-----------------------------------------------------------------------------
(* What a slot holds after the calls.                                      *)

LEMMA PresentIn ==
  ASSUME NEW V, NEW c \in StoresOver(V), NEW p \in Parameters
  PROVE  IsPresent(c, p) <=> c.data[p] # << >>
<1>1. c.data[p] \in Seq(V)
  BY StoreHas
<1> QED BY <1>1 DEF IsPresent, IsPresentAt

LEMMA GoodPresent ==
  ASSUME NEW c, Good(c), NEW p \in Parameters
  PROVE  IsPresent(c, p) <=> c.data[p] # << >>
BY PresentIn DEF Good

LEMMA SetEachHas ==
  ASSUME NEW c, NEW W, NEW calls \in Seq(Settings(W)), NEW p \in Parameters
  PROVE  /\ \/ SetEach(c, calls).data[p] = c.data[p]
            \/ /\ SetEach(c, calls).data[p] # << >>
               /\ \E k \in 1..Len(calls) : /\ calls[k][1] = p
                                           /\ SetEach(c, calls).data[p] = << calls[k][3] >>
         /\ \A k \in 1..Len(calls) :
              calls[k][1] = p /\ HasType(p, calls[k][2]) => SetEach(c, calls).data[p] # << >>
         /\ SetEach(c, calls).void_size = c.void_size
<1> DEFINE given == {k \in DOMAIN calls : calls[k][1] = p /\ HasType(p, calls[k][2])}
<1>1. SetEach(c, calls).data[p] = IF given = {} THEN c.data[p] ELSE << calls[Max(given)][3] >>
  BY DEF SetEach
<1>2. DOMAIN calls = 1..Len(calls) /\ Len(calls) \in Nat
  OBVIOUS
<1>3. given # {} => Max(given) \in given
  <2>1. given \in SUBSET (1..Len(calls))
    BY <1>2
  <2> HIDE DEF given
  <2> QED BY <1>2, <2>1, LargestIn
<1>4. given # {} => Max(given) \in 1..Len(calls) /\ calls[Max(given)][1] = p
  BY <1>2, <1>3
<1>5. \A k \in 1..Len(calls) : calls[k][1] = p /\ HasType(p, calls[k][2]) => k \in given
  BY <1>2
<1>6. SetEach(c, calls).void_size = c.void_size
  BY DEF SetEach
<1> HIDE DEF given
<1>7. given # {} => SetEach(c, calls).data[p] # << >>
  BY <1>1
<1> QED BY <1>1, <1>4, <1>5, <1>6, <1>7

LEMMA AddEachHas ==
  ASSUME NEW V, NEW c \in StoresOver(V), NEW P, NEW calls \in Seq(AddCalls(V, P)), NEW p \in Parameters
  PROVE  /\ c.data[p] # << >> => AddEach(c, calls).data[p] # << >>
         /\ c.data[p] # << >> /\ p \notin PT_TAB => AddEach(c, calls).data[p] = c.data[p]
         /\ (\A k \in 1..Len(calls) : calls[k].par # p) => AddEach(c, calls).data[p] = c.data[p]
         /\ \A k \in 1..Len(calls) :
              calls[k].par = p /\ HasType(p, calls[k].type) /\ p \notin PT_TAB =>
                /\ AddEach(c, calls).data[p] # << >>
                /\ (/\ c.data[p] = << >>
                    /\ \A j \in 1..Len(calls) : calls[j].par = p => j = k) =>
                     AddEach(c, calls).data[p] = << calls[k].val >>
<1> DEFINE taken == {k \in DOMAIN calls : /\ calls[k].par = p
                                         /\ ~ AddRefused(c, p, calls[k].type, calls[k].size)}
           listed == [i \in DOMAIN Ascending(taken) |-> calls[Ascending(taken)[i]].val]
           after == AddEach(c, calls).data[p]
<1>1. after = IF taken = {} THEN c.data[p]
              ELSE IF p \in PT_TAB THEN c.data[p] \o listed
              ELSE << calls[Min(taken)].val >>
  BY DEF AddEach
<1>2. DOMAIN calls = 1..Len(calls) /\ Len(calls) \in Nat
  OBVIOUS
<1>3. taken # {} => Min(taken) \in taken
  <2>1. taken \in SUBSET (1..Len(calls))
    BY <1>2
  <2> HIDE DEF taken
  <2> QED BY <1>2, <2>1, LeastPosition
<1>4. \A k \in taken : k \in 1..Len(calls) /\ calls[k].par = p
  BY <1>2
<1>5. p \notin PT_TAB /\ c.data[p] # << >> => taken = {}
  <2>1. p \notin PT_TAB /\ c.data[p] # << >> =>
          \A k \in DOMAIN calls : AddRefused(c, p, calls[k].type, calls[k].size)
    BY PresentIn DEF AddRefused
  <2> QED BY <2>1
<1>6. ASSUME NEW k \in 1..Len(calls), calls[k].par = p, HasType(p, calls[k].type), p \notin PT_TAB,
             c.data[p] = << >>
      PROVE  k \in taken
  <2>1. ~ AddRefused(c, p, calls[k].type, calls[k].size)
    BY <1>6, PresentIn DEF AddRefused
  <2> QED BY <1>2, <1>6, <2>1
<1>7. p \in PT_TAB /\ c.data[p] # << >> => after # << >>
  <2> SUFFICES ASSUME p \in PT_TAB, c.data[p] # << >>, taken # {} PROVE after # << >>
    BY <1>1
  <2>1. c.data[p] \in Seq(V)
    BY StoreHas
  <2>2. listed \in Seq(V)
    <3> DEFINE a == Ascending(taken)
    <3>1. taken \in SUBSET (1..Len(calls))
      BY <1>2
    <3>2. a \in Seq(taken)
      <4> HIDE DEF taken
      <4> QED BY <1>2, <3>1, AscendingOf
    <3>3. \A k \in taken : calls[k].val \in V
      <4> TAKE k \in taken
      <4>1. calls[k] \in AddCalls(V, P)
        BY <1>2
      <4> QED BY <4>1 DEF AddCalls
    <3>4. listed = [i \in 1..Len(a) |-> calls[a[i]].val]
      <4>1. DOMAIN a = 1..Len(a)
        <5> HIDE DEF a, taken
        <5> QED BY <3>2
      <4> QED BY <4>1
    <3> HIDE DEF a, taken, listed
    <3>5. \A i \in 1..Len(a) : calls[a[i]].val \in V
      BY <3>2, <3>3
    <3>6. Len(a) \in Nat
      BY <3>2
    <3> QED BY <3>4, <3>5, <3>6
  <2> HIDE DEF taken, listed, after
  <2>3. after = c.data[p] \o listed
    BY <1>1
  <2>4. Len(after) = Len(c.data[p]) + Len(listed) /\ Len(c.data[p]) # 0
        /\ Len(c.data[p]) \in Nat /\ Len(listed) \in Nat
    BY <2>1, <2>2, <2>3, ConcatProperties
  <2> QED BY <2>4
<1> HIDE DEF taken, listed
<1>8. ASSUME NEW k \in 1..Len(calls), calls[k].par = p, HasType(p, calls[k].type), p \notin PT_TAB,
             c.data[p] = << >>
      PROVE  /\ after # << >>
             /\ (\A j \in 1..Len(calls) : calls[j].par = p => j = k) =>
                  after = << calls[k].val >>
  <2>1. taken # {}
    BY <1>6, <1>8
  <2>2. after = << calls[Min(taken)].val >>
    BY <1>1, <1>8, <2>1
  <2>3. Min(taken) \in 1..Len(calls) /\ calls[Min(taken)].par = p
    BY <1>3, <1>4, <2>1
  <2> HIDE DEF after
  <2> QED BY <2>2, <2>3
<1>9. (\A k \in 1..Len(calls) : calls[k].par # p) => after = c.data[p]
  BY <1>1, <1>4
<1>10. p \notin PT_TAB /\ c.data[p] # << >> => after = c.data[p]
  BY <1>1, <1>5
<1> HIDE DEF after
<1>11. /\ c.data[p] # << >> => after # << >>
       /\ \A k \in 1..Len(calls) :
              calls[k].par = p /\ HasType(p, calls[k].type) /\ p \notin PT_TAB =>
                /\ after # << >>
                /\ (/\ c.data[p] = << >>
                    /\ \A j \in 1..Len(calls) : calls[j].par = p => j = k) =>
                     after = << calls[k].val >>
  BY <1>7, <1>8, <1>10
<1> QED BY <1>9, <1>10, <1>11 DEF after

-----------------------------------------------------------------------------
(* What series of settings and of adds leave of one slot.                  *)

(* Calls of setadd, all of them for members of P. *)
Sets(calls, P) == GoodSettings(calls) /\ \A k \in DOMAIN calls : calls[k][1] \in P

LEMMA JoinedSets ==
  ASSUME NEW P, NEW a, NEW b, Sets(a, P), Sets(b, P)
  PROVE  Sets(a \o b, P)
<1>1. GoodSettings(a \o b)
  BY JoinedSettings DEF Sets
<1>2. PICK V : a \in Seq(Settings(V))
  BY DEF Sets, GoodSettings
<1>3. PICK W : b \in Seq(Settings(W))
  BY DEF Sets, GoodSettings
<1>4. DOMAIN a = 1..Len(a) /\ Len(a) \in Nat
  BY <1>2
<1>5. DOMAIN b = 1..Len(b) /\ Len(b) \in Nat
  BY <1>3
<1>6. ASSUME NEW k \in DOMAIN (a \o b) PROVE (a \o b)[k][1] \in P
  <2>1. DOMAIN (a \o b) = 1..(Len(a) + Len(b))
    BY <1>2, <1>3, <1>4, <1>5
  <2>2. CASE k <= Len(a)
    <3>1. k \in DOMAIN a /\ (a \o b)[k] = a[k]
      BY <1>2, <1>3, <1>4, <1>5, <2>1, <2>2
    <3> QED BY <3>1 DEF Sets
  <2>3. CASE k > Len(a)
    <3>1. k - Len(a) \in DOMAIN b /\ (a \o b)[k] = b[k - Len(a)]
      BY <1>2, <1>3, <1>4, <1>5, <2>1, <2>3
    <3> QED BY <3>1 DEF Sets
  <2> QED BY <1>4, <1>5, <2>1, <2>2, <2>3
<1> QED BY <1>1, <1>6 DEF Sets

LEMMA SetsMore ==
  ASSUME NEW P, NEW Q, P \subseteq Q, NEW calls, Sets(calls, P)
  PROVE  Sets(calls, Q)
BY DEF Sets

LEMMA SetEachLeaves ==
  ASSUME NEW c, NEW P, NEW calls, Sets(calls, P), NEW p \in Parameters, p \notin P
  PROVE  SetEach(c, calls).data[p] = c.data[p]
<1>1. {k \in DOMAIN calls : calls[k][1] = p /\ HasType(p, calls[k][2])} = {}
  BY DEF Sets
<1> QED BY <1>1 DEF SetEach

LEMMA SetEachGives ==
  ASSUME NEW c, NEW calls, GoodSettings(calls), NEW p \in Parameters, NEW v,
         NEW k \in DOMAIN calls, calls[k][1] = p, HasType(p, calls[k][2]),
         \A j \in DOMAIN calls : calls[j][1] = p => calls[j][3] = v
  PROVE  SetEach(c, calls).data[p] = << v >>
<1> DEFINE given == {j \in DOMAIN calls : calls[j][1] = p /\ HasType(p, calls[j][2])}
<1>1. PICK V : calls \in Seq(Settings(V))
  BY DEF GoodSettings
<1>2. Len(calls) \in Nat /\ DOMAIN calls = 1..Len(calls)
  BY <1>1
<1>3. given \in SUBSET (1..Len(calls)) /\ given # {}
  BY <1>2
<1>4. Max(given) \in given
  <2> HIDE DEF given
  <2> QED BY <1>2, <1>3, LargestIn
<1>5. calls[Max(given)][3] = v
  BY <1>4
<1>6. SetEach(c, calls).data[p] = IF given = {} THEN c.data[p] ELSE << calls[Max(given)][3] >>
  BY DEF SetEach
<1> HIDE DEF given
<1> QED BY <1>3, <1>5, <1>6

(* A parameter that is there stays there. *)
LEMMA SetEachKeeps ==
  ASSUME NEW c, NEW calls, GoodSettings(calls), NEW p \in Parameters, c.data[p] # << >>
  PROVE  SetEach(c, calls).data[p] # << >>
<1>1. PICK V : calls \in Seq(Settings(V))
  BY DEF GoodSettings
<1> QED BY <1>1, SetEachHas

LEMMA Copied ==
  ASSUME NEW c, NEW e, Good(c), Good(e), NEW p \in Parameters
  PROVE  /\ AddMissing(c, e).data[p] = IF c.data[p] # << >> THEN c.data[p] ELSE e.data[p]
         /\ Update(c, e).data[p] = IF e.data[p] # << >> THEN e.data[p] ELSE c.data[p]
<1>1. (IsPresent(c, p) <=> c.data[p] # << >>) /\ (IsPresent(e, p) <=> e.data[p] # << >>)
  BY GoodPresent
<1> QED BY <1>1 DEF AddMissing, Update, CopySelected

LEMMA SlotLeaves ==
  ASSUME NEW c, NEW p, NEW values, NEW size, NEW q \in Parameters, q # p
  PROVE  Slot(c, p, values, size).data[q] = c.data[q]
BY DEF Slot

LEMMA AddLeaves ==
  ASSUME NEW c, NEW p, NEW ty, NEW v, NEW size, NEW q \in Parameters, q # p
  PROVE  /\ SetAddAt(c, p, ty, v, size, 0).data[q] = c.data[q]
         /\ SetAt(c, p, ty, v, size, 0).data[q] = c.data[q]
<1>1. Add(c, p, ty, v, size).data[q] = c.data[q]
  BY SlotLeaves DEF Add
<1>2. SetAt(c, p, ty, v, size, 0).data[q] = c.data[q]
  BY SlotLeaves DEF SetAt
<1> QED BY <1>1, <1>2 DEF SetAddAt

(* setadd of a value of the parameter's type leaves that value. *)
LEMMA AddGives ==
  ASSUME NEW c, Good(c), NEW p \in Parameters \ PT_TAB, NEW ty \in Types,
         HasType(p, ty), NEW v, NEW size
  PROVE  /\ SetAddAt(c, p, ty, v, size, 0).data[p] = << v >>
         /\ ty = "VS" => SetAddAt(c, p, ty, v, size, 0).void_size[p] = size
<1>1. IsPresent(c, p) <=> c.data[p] # << >>
  BY GoodPresent
<1>2. CASE IsPresent(c, p)
  <2>1. ~ SetRefused(c, p, ty, size, 0)
    BY <1>2 DEF SetRefused, IsPresent
  <2>2. SetAddAt(c, p, ty, v, size, 0) = Slot(c, p, << v >>, IF ty = "VS" THEN size ELSE c.void_size[p])
    BY <2>1 DEF SetAddAt, SetAt
  <2> QED BY <2>2 DEF Slot
<1>3. CASE ~ IsPresent(c, p)
  <2>1. SetRefused(c, p, ty, size, 0) /\ ~ AddRefused(c, p, ty, size) /\ c.data[p] = << >>
    BY <1>1, <1>3 DEF SetRefused, IsPresent, AddRefused
  <2>2. SetAddAt(c, p, ty, v, size, 0) = Slot(c, p, Append(c.data[p], v), IF ty = "VS" THEN size ELSE c.void_size[p])
    BY <2>1 DEF SetAddAt, Add
  <2>3. Append(c.data[p], v) = << v >>
    BY <2>1
  <2> QED BY <2>2, <2>3 DEF Slot
<1> QED BY <1>2, <1>3

SettingsIn(V, P) == {x \in Settings(V) : x[1] \in P}

LEMMA SettingIn ==
  ASSUME NEW V, NEW P, P \subseteq Plain
  PROVE  \A p \in P, v \in V :
           /\ UC(p, v) \in SettingsIn(V, P) /\ US(p, v) \in SettingsIn(V, P)
           /\ UI(p, v) \in SettingsIn(V, P) /\ FL(p, v) \in SettingsIn(V, P)
           /\ VS(p, v) \in SettingsIn(V, P)
           /\ v \in Int => CS(p, v) \in SettingsIn(V, P)
<1> TAKE p \in P, v \in V
<1>1. p \in Plain
  OBVIOUS
<1>2. /\ UC(p, v) \in Settings(V) /\ US(p, v) \in Settings(V) /\ UI(p, v) \in Settings(V)
      /\ FL(p, v) \in Settings(V) /\ VS(p, v) \in Settings(V)
      /\ v \in Int => CS(p, v) \in Settings(V)
  BY <1>1, Setting DEF UC, US, UI, FL, CS, VS
<1>3. /\ UC(p, v)[1] = p /\ US(p, v)[1] = p /\ UI(p, v)[1] = p
      /\ FL(p, v)[1] = p /\ VS(p, v)[1] = p /\ CS(p, v)[1] = p
  BY DEF UC, US, UI, FL, CS, VS
<1> QED BY <1>2, <1>3, Zenon DEF SettingsIn

(* What set_conf_defaults sets. *)
Defaulted ==
  {"TOKEN_BUCKET_RATE", "TOKEN_BUCKET_SIZE", "PEAK_DATA_RATE", "LSP_ENC_TYPE",
   "LSP_SWITCHING_TYPE", "LSP_GPID", "UPSTREAM_LABEL", "EXTENDED_IPV4_ADDR",
   "DATA_OUT_IF_ADDR", "DATA_IN_IF_ADDR", "CONTROL_OUT_IF_ADDR", "SENDER_SRC_ADDR",
   "DATA_OUT_IF_HANDLE", "DATA_IN_IF_HANDLE", "CONTROL_OUT_IF_HANDLE", "SENDER_SRC_ID",
   "MSG_ID_FLAGS", "MSG_ID_EPOCH", "MSG_ID_ID", "SESSION_NAME", "SETUP_PRIORITY",
   "HOLDING_PRIORITY", "LOCAL_PROTECTION_FLAG", "LABEL_RECORDING_FLAG", "SE_STYLE_FLAG",
   "MINIMUM_POLICED_UNIT", "MAXIMUM_PACKET_SIZE", "TNA_SRC_ADDR", "TNA_DST_ADDR",
   "ADMIN_STATUS_RTAD_FLAGS", "TR_D_ADDR", "REFRESH_PERIOD", "ETHERNET_CIR",
   "ETHERNET_CBS", "ETHERNET_EIR", "ETHERNET_EBS", "ETHERNET_SW_GRANUALITY",
   "ETHERNET_INDEX", "ETHERNET_PROFILE"}

LEMMA SetEachPresent ==
  ASSUME NEW c, NEW calls, GoodSettings(calls), NEW p \in Parameters,
         NEW k \in DOMAIN calls, calls[k][1] = p, HasType(p, calls[k][2])
  PROVE  SetEach(c, calls).data[p] # << >>
<1>1. PICK V : calls \in Seq(Settings(V))
  BY DEF GoodSettings
<1>2. k \in 1..Len(calls)
  BY <1>1
<1> QED BY <1>1, <1>2, SetEachHas

Entries(objs, id) == {k \in DOMAIN objs : objs[k].id = id}

LastOf(read, objects, n) ==
  LET I == Entries(objects, n)
  IN  /\ n \in DOMAIN read <=> I # {}
      /\ I # {} => /\ read[n] = objects[Max(I)].val
                  /\ Max(I) \in I /\ \A j \in I : j <= Max(I)

(* One slot of a store, and what a message of the store says of it.        *)
Same(r, c, Q) == \A q \in Q : r.data[q] = c.data[q]
Lacks(c, Q) == \A q \in Q : c.data[q] = << >>
Has(c, Q) == \A q \in Q : c.data[q] # << >>

LEMMA OneValue ==
  ASSUME NEW c, Good(c), NEW q \in Parameters \ PT_TAB
  PROVE  /\ IsPresent(c, q) <=> c.data[q] # << >>
         /\ IsPresent(c, q) => c.data[q] = << Read(c, q) >>
         /\ \A v : c.data[q] = << v >> => IsPresent(c, q) /\ Read(c, q) = v
<1>1. PICK V : c \in StoresOver(V)
  BY DEF Good
<1>2. c.data[q] \in Seq(V) /\ Len(c.data[q]) <= 1
  BY <1>1, StoreHas
<1>3. IsPresent(c, q) <=> c.data[q] # << >>
  BY GoodPresent
<1>4. Read(c, q) = c.data[q][1]
  BY DEF Read, ReadAt
<1> QED BY <1>2, <1>3, <1>4

Small(c, Q) == \A q \in Q \cap {"MSG_ID_EPOCH", "CALL_ID_IS"} :
                 IsPresent(c, q) => Read(c, q) % 2^24 = Read(c, q)

(* The settings of a slot agree on its value.                              *)
Agreed(calls, q, v) ==
  /\ GoodSettings(calls) /\ q \in Parameters
  /\ \E k \in DOMAIN calls : calls[k][1] = q /\ HasType(q, calls[k][2])
  /\ \A j \in DOMAIN calls : calls[j][1] = q => calls[j][3] = v

LEMMA AgreedGives ==
  ASSUME NEW c, NEW calls, NEW q, NEW v, Agreed(calls, q, v)
  PROVE  SetEach(c, calls).data[q] = << v >>
<1> DEFINE given == {j \in DOMAIN calls : calls[j][1] = q /\ HasType(q, calls[j][2])}
<1>0. GoodSettings(calls) /\ q \in Parameters
  BY DEF Agreed
<1>1. PICK V : calls \in Seq(Settings(V))
  BY <1>0 DEF GoodSettings
<1>2. Len(calls) \in Nat /\ DOMAIN calls = 1..Len(calls)
  BY <1>1
<1>3. given \in SUBSET (1..Len(calls)) /\ given # {}
  BY <1>2 DEF Agreed
<1>4. Max(given) \in given
  <2> HIDE DEF given
  <2> QED BY <1>2, <1>3, LargestIn
<1>5. calls[Max(given)][3] = v
  BY <1>4 DEF Agreed
<1>6. SetEach(c, calls).data[q] = IF given = {} THEN c.data[q] ELSE << calls[Max(given)][3] >>
  BY <1>0 DEF SetEach
<1> HIDE DEF given
<1> QED BY <1>3, <1>5, <1>6

(* Calls of add for a parameter all give one value.                        *)
AllGive(calls, p, v) ==
  /\ \E k \in DOMAIN calls : calls[k].par = p /\ HasType(p, calls[k].type)
  /\ \A j \in DOMAIN calls : calls[j].par = p => calls[j].val = v

LEMMA AddEachGives ==
  ASSUME NEW V, NEW c \in StoresOver(V), NEW P, NEW calls \in Seq(AddCalls(V, P)),
         NEW p \in Parameters \ PT_TAB, c.data[p] = << >>, NEW v, AllGive(calls, p, v)
  PROVE  AddEach(c, calls).data[p] = << v >>
<1> DEFINE taken == {k \in DOMAIN calls : /\ calls[k].par = p
                                         /\ ~ AddRefused(c, p, calls[k].type, calls[k].size)}
           listed == [i \in DOMAIN Ascending(taken) |-> calls[Ascending(taken)[i]].val]
           after == AddEach(c, calls).data[p]
<1>1. after = IF taken = {} THEN c.data[p]
              ELSE IF p \in PT_TAB THEN c.data[p] \o listed
              ELSE << calls[Min(taken)].val >>
  BY DEF AddEach
<1>2. DOMAIN calls = 1..Len(calls) /\ Len(calls) \in Nat
  OBVIOUS
<1>3. taken # {}
  <2>1. PICK k \in DOMAIN calls : calls[k].par = p /\ HasType(p, calls[k].type)
    BY DEF AllGive
  <2>2. ~ AddRefused(c, p, calls[k].type, calls[k].size)
    BY <2>1, PresentIn DEF AddRefused
  <2> QED BY <2>1, <2>2
<1>4. \A k \in taken : calls[k].val = v
  BY DEF AllGive
<1>5. Min(taken) \in taken
  <2>1. taken \in SUBSET (1..Len(calls))
    BY <1>2
  <2> HIDE DEF taken
  <2> QED BY <1>2, <1>3, <2>1, LeastPosition
<1> HIDE DEF taken, listed, after
<1>6. after = << v >>
  BY <1>1, <1>3, <1>4, <1>5
<1> QED BY <1>6 DEF after

LEMMA FlattenFrom ==
  ASSUME NEW W, NEW seqs \in Seq(Seq(W)), NEW j \in DOMAIN FlattenSeq(seqs)
  PROVE  \E k \in DOMAIN seqs : \E i \in DOMAIN seqs[k] : FlattenSeq(seqs)[j] = seqs[k][i]
<1> DEFINE flat == FlattenSeq(seqs)
           N == Len(seqs)
<1>1. flat \in Seq(W)
  BY FlattenPlaces
<1>2. PICK off : Placed(off, flat, seqs)
  BY FlattenPlaces
<1>3. N \in Nat /\ DOMAIN seqs = 1..N /\ \A k \in 1..N : seqs[k] \in Seq(W)
  OBVIOUS
<1>4. \A k \in 1..N : Len(seqs[k]) \in Nat /\ DOMAIN seqs[k] = 1..Len(seqs[k])
  BY <1>3
<1>5. j \in 1..Len(flat)
  BY <1>1
<1> HIDE DEF flat
<1>6. PICK k \in 1..N : off[k - 1] < j /\ j <= off[k]
  BY <1>2, <1>3, <1>4, <1>5, PlacesInOrder
<1>7. /\ off[k - 1] \in Nat /\ off[k] \in Nat /\ off[k] = off[k - 1] + Len(seqs[k])
      /\ \A i \in 1..Len(seqs[k]) : flat[off[k - 1] + i] = seqs[k][i]
  <2>1. k \in 1..Len(seqs) /\ k - 1 \in 0..Len(seqs) /\ k \in 0..Len(seqs)
    BY <1>3
  <2> QED BY <1>2, <2>1 DEF Placed
<1>8. j \in Int /\ Len(seqs[k]) \in Nat
  BY <1>4, <1>5
<1>9. j - off[k - 1] \in 1..Len(seqs[k]) /\ off[k - 1] + (j - off[k - 1]) = j
  BY <1>6, <1>7, <1>8
<1>10. flat[j] = seqs[k][j - off[k - 1]]
  BY <1>7, <1>9
<1> QED BY <1>3, <1>4, <1>9, <1>10 DEF flat

LEMMA PresentAs ==
  ASSUME NEW c, Good(c), NEW s, Good(s), NEW p \in Parameters \ PT_TAB, NEW q \in Parameters \ PT_TAB,
         c.data[p] = s.data[q], s.data[q] # << >>
  PROVE  IsPresent(c, p) /\ Read(c, p) = Read(s, q)
<1>1. IsPresent(s, q) /\ s.data[q] = << Read(s, q) >>
  BY OneValue
<1>2. PICK v : v = Read(s, q)
  OBVIOUS
<1>3. c.data[p] = << v >>
  BY <1>1, <1>2
<1>4. IsPresent(c, p) /\ Read(c, p) = v
  BY <1>3, OneValue
<1> QED BY <1>2, <1>4
Gives(calls, p) == \E k \in DOMAIN calls : calls[k][1] = p /\ HasType(p, calls[k][2])
NameIs(calls) == \A k \in DOMAIN calls : calls[k][1] = "SESSION_NAME" => calls[k][3] = 12
SetsWell(calls, Y) == Sets(calls, Defaulted) /\ NameIs(calls) /\ \A p \in Y : Gives(calls, p)
================================================================================
