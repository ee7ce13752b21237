-------------------------- MODULE KnowledgeProofs --------------------------
(***************************************************************************)
(* Proofs about Knowledge: for any text, chunk size and overlap the chunks *)
(* cut the text, and for any number of owners and messages what was        *)
(* ingested is found by its owner and by nobody else.                      *)
(*                                                                         *)
(* What the model computes by recursion is reasoned about by induction on  *)
(* sets of natural numbers, which follows from their being well-founded.   *)
(***************************************************************************)
EXTENDS Knowledge, SequenceTheorems, WellFoundedInduction, TLAPS

-----------------------------------------------------------------------------
(* Induction and recursion.                                                 *)

\* A non-empty set of natural numbers has a least element.
LEMMA LeastOf ==
    ASSUME NEW S, S \subseteq Nat, S # {}
    PROVE  \E m \in S : \A k \in S : m <= k
<1>1. PICK m \in S : \A k \in S : ~ (<<k, m>> \in OpToRel(<, Nat))
  BY NatLessThanWellFounded, WFMin, Zenon
<1>2. \A k \in S : ~ (k < m)
  BY <1>1 DEF OpToRel
<1>. QED
  BY <1>2

\* Induction up to N, for a property given as the set of numbers that have it.
LEMMA Induction ==
    ASSUME NEW N \in Nat, NEW S, 0 \in S, \A n \in 0..N - 1 : n \in S => n + 1 \in S
    PROVE  \A n \in 0..N : n \in S
<1>. DEFINE bad == {n \in 0..N : n \notin S}
<1>1. SUFFICES ASSUME bad # {} PROVE FALSE
  OBVIOUS
<1>2. bad \subseteq Nat
  OBVIOUS
<1>3. PICK m \in bad : \A k \in bad : m <= k
  <2>. HIDE DEF bad
  <2>. QED
    BY <1>1, <1>2, LeastOf
<1>4. m # 0 /\ m - 1 \in 0..N - 1
  BY <1>3
<1>5. m - 1 \in S
  BY <1>3, <1>4
<1>. QED
  BY <1>3, <1>4, <1>5

\* f is defined from 0 to N by recursion, with values in A.
Recursive(f, A, N, init, F) ==
    f \in [0..N -> A] /\ f[0] = init /\ \A n \in 1..N : f[n] = F[<<f[n - 1], n>>]

\* Such a function exists.
LEMMA RecursionExists ==
    ASSUME NEW A, NEW N \in Nat, NEW init \in A, NEW F \in [A \X (1..N) -> A]
    PROVE  \E f : Recursive(f, A, N, init, F)
<1>. DEFINE S == {k \in 0..N : \E f : Recursive(f, A, k, init, F)}
<1>1. 0 \in S
  <2>. DEFINE f == [n \in 0..0 |-> init]
  <2>1. Recursive(f, A, 0, init, F)
    BY DEF Recursive
  <2>. HIDE DEF f
  <2>. QED
    BY <2>1
<1>2. ASSUME NEW k \in 0..N - 1, k \in S PROVE k + 1 \in S
  <2>1. PICK f : Recursive(f, A, k, init, F)
    BY <1>2
  <2>. DEFINE g == [n \in 0..k + 1 |-> IF n = k + 1 THEN F[<<f[k], k + 1>>] ELSE f[n]]
  <2>2. f \in [0..k -> A] /\ F[<<f[k], k + 1>>] \in A
    BY <2>1 DEF Recursive
  <2>3. g \in [0..k + 1 -> A] /\ g[k + 1] = F[<<f[k], k + 1>>] /\ \A n \in 0..k : g[n] = f[n]
    BY <2>2
  <2>. HIDE DEF g
  <2>4. ASSUME NEW n \in 1..k + 1 PROVE g[n] = F[<<g[n - 1], n>>]
    <3>1. CASE n = k + 1
      BY <2>3, <3>1
    <3>2. CASE n \in 1..k
      <4>1. f[n] = F[<<f[n - 1], n>>]
        BY <2>1, <3>2 DEF Recursive
      <4>2. g[n - 1] = f[n - 1] /\ g[n] = f[n]
        BY <2>3, <3>2
      <4>. QED
        BY <4>1, <4>2
    <3>. QED
      BY <3>1, <3>2
  <2>5. Recursive(g, A, k + 1, init, F)
    BY <2>1, <2>3, <2>4 DEF Recursive
  <2>. QED
    BY <2>5
<1>. HIDE DEF S
<1>3. N \in S
  BY <1>1, <1>2, Induction
<1>. QED
  BY <1>3 DEF S

\* A function that follows the recursion has its values in A.
LEMMA RecursionTyped ==
    ASSUME NEW A, NEW N \in Nat, NEW f, f = [n \in 0..N |-> f[n]], f[0] \in A,
           \A n \in 1..N : f[n - 1] \in A => f[n] \in A
    PROVE  f \in [0..N -> A]
<1>. DEFINE S == {n \in 0..N : f[n] \in A}
<1>1. 0 \in S
  OBVIOUS
<1>2. ASSUME NEW n \in 0..N - 1, n \in S PROVE n + 1 \in S
  <2>1. n + 1 \in 1..N /\ (n + 1) - 1 = n /\ n + 1 \in 0..N
    OBVIOUS
  <2>2. f[(n + 1) - 1] \in A
    BY <1>2, <2>1
  <2>3. f[n + 1] \in A
    BY <2>1, <2>2
  <2>. QED
    BY <2>1, <2>3
<1>. HIDE DEF S
<1>3. \A n \in 0..N : n \in S
  BY <1>1, <1>2, Induction
<1>. QED
  BY <1>3 DEF S

\* One element more of a prefix is appended to it.
LEMMA PrefixGrows ==
    ASSUME NEW S, NEW s \in Seq(S), NEW n \in 0..Len(s) - 1
    PROVE  /\ SubSeq(s, 1, n) \in Seq(S) /\ Len(SubSeq(s, 1, n)) = n /\ s[n + 1] \in S
           /\ SubSeq(s, 1, n + 1) = Append(SubSeq(s, 1, n), s[n + 1])
<1>1. Len(s) \in Nat /\ \A i \in 1..Len(s) : s[i] \in S
  BY LenProperties, ElementOfSeq
<1>2. SubSeq(s, 1, n) \in Seq(S) /\ Len(SubSeq(s, 1, n)) = n /\ s[n + 1] \in S
  BY <1>1, SubSeqProperties
<1>3. SubSeq(s, 1, n + 1) = SubSeq(s, 1, (n + 1) - 1) \o <<s[n + 1]>>
  BY <1>1, SubSeqRecursiveSecond
<1>4. (n + 1) - 1 = n
  BY <1>1
<1>. QED
  BY <1>2, <1>3, <1>4, AppendIsConcat

\* Induction over the sequences of S, for a property given as the set of those that have it.
LEMMA SeqInduction ==
    ASSUME NEW S, NEW X, <<>> \in X, \A s \in Seq(S), e \in S : s \in X => Append(s, e) \in X
    PROVE  \A s \in Seq(S) : s \in X
<1>. SUFFICES ASSUME NEW s \in Seq(S) PROVE s \in X
  OBVIOUS
<1>. DEFINE N == Len(s)
            pre(n) == SubSeq(s, 1, n)
            T == {n \in 0..N : pre(n) \in X}
<1>1. N \in Nat
  BY LenProperties
<1>2. pre(0) = <<>> /\ pre(N) = s
  BY SubSeqEmpty, SubSeqFull
<1>3. \A n \in 0..N - 1 : pre(n) \in Seq(S) /\ s[n + 1] \in S /\ pre(n + 1) = Append(pre(n), s[n + 1])
  BY PrefixGrows
<1>. HIDE DEF N, pre
<1>4. 0 \in T
  BY <1>1, <1>2
<1>5. ASSUME NEW n \in 0..N - 1, n \in T PROVE n + 1 \in T
  <2>1. pre(n + 1) \in X
    BY <1>3, <1>5
  <2>. QED
    BY <1>1, <2>1
<1>6. N \in T
  <2>. HIDE DEF T
  <2>1. \A n \in 0..N - 1 : n \in T => n + 1 \in T
    BY <1>5
  <2>2. \A n \in 0..N : n \in T
    BY <1>1, <1>4, <2>1, Induction
  <2>. QED
    BY <1>1, <2>2
<1>. QED
  BY <1>2, <1>6

-----------------------------------------------------------------------------
(* The lengths of units.                                                    *)

Sentence == [id : Nat, len : Nat \ {0}]
Unit == Seq(Sentence)

LEMMA TextLenIs == \A unit \in Unit : textLen(unit) \in Int
<1>. SUFFICES ASSUME NEW unit \in Unit PROVE textLen(unit) \in Int
  OBVIOUS
<1>. DEFINE N == Len(unit)
            F == [p \in Int \X (1..N) |-> p[1] + unit[p[2]].len]
            body(f) == [n \in 0..N |-> IF n = 0 THEN N - 1 ELSE f[n - 1] + unit[n].len]
            g == CHOOSE h : h = body(h)
<1>1. N \in Nat
  BY LenProperties DEF Unit
<1>2. ASSUME NEW n \in 1..N PROVE unit[n].len \in Int
  <2>1. unit[n] \in Sentence
    BY ElementOfSeq DEF Unit
  <2>. QED
    BY <2>1 DEF Sentence
<1>3. textLen(unit) = g[N]
  BY DEF textLen
<1>. HIDE DEF N
<1>4. PICK f : Recursive(f, Int, N, N - 1, F)
  <2>1. F \in [Int \X (1..N) -> Int] /\ N - 1 \in Int
    BY <1>1, <1>2
  <2>. HIDE DEF F
  <2>. QED
    BY <1>1, <2>1, RecursionExists
<1>5. f = body(f)
  <2>1. f \in [0..N -> Int]
    BY <1>4 DEF Recursive
  <2>2. ASSUME NEW n \in 1..N PROVE f[n] = f[n - 1] + unit[n].len
    <3>1. f[n - 1] \in Int
      BY <1>1, <2>1
    <3>. QED
      BY <1>4, <3>1 DEF Recursive
  <2>. QED
    BY <1>1, <1>4, <2>1, <2>2 DEF Recursive
<1>6. g = body(g)
  BY <1>5
<1>. HIDE DEF g
<1>7. g \in [0..N -> Int]
  <2>1. g = [n \in 0..N |-> g[n]] /\ g[0] \in Int
    BY <1>1, <1>6
  <2>2. \A n \in 1..N : g[n - 1] \in Int => g[n] \in Int
    BY <1>1, <1>2, <1>6
  <2>. QED
    BY <1>1, <2>1, <2>2, RecursionTyped
<1>. QED
  BY <1>1, <1>3, <1>7

LengthsOf(us) ==
    CHOOSE f : f = [n \in 0..Len(us) |-> IF n = 0 THEN 0 ELSE f[n - 1] + textLen(us[n])]

LEMMA LengthsAre ==
    ASSUME NEW us \in Seq(Unit)
    PROVE  /\ unitsLen(us) = LengthsOf(us)[Len(us)]
           /\ LengthsOf(us) \in [0..Len(us) -> Int] /\ LengthsOf(us)[0] = 0
           /\ \A n \in 1..Len(us) : LengthsOf(us)[n] = LengthsOf(us)[n - 1] + textLen(us[n])
<1>. DEFINE N == Len(us)
            F == [p \in Int \X (1..N) |-> p[1] + textLen(us[p[2]])]
            body(f) == [n \in 0..N |-> IF n = 0 THEN 0 ELSE f[n - 1] + textLen(us[n])]
            g == LengthsOf(us)
<1>1. N \in Nat
  BY LenProperties
<1>2. \A n \in 1..N : textLen(us[n]) \in Int
  BY ElementOfSeq, TextLenIs
<1>3. unitsLen(us) = g[N]
  BY DEF unitsLen, LengthsOf
<1>. HIDE DEF N
<1>4. PICK f : Recursive(f, Int, N, 0, F)
  <2>1. F \in [Int \X (1..N) -> Int] /\ 0 \in Int
    BY <1>1, <1>2
  <2>. HIDE DEF F
  <2>. QED
    BY <1>1, <2>1, RecursionExists
<1>5. f = body(f)
  <2>1. f \in [0..N -> Int]
    BY <1>4 DEF Recursive
  <2>2. ASSUME NEW n \in 1..N PROVE f[n] = f[n - 1] + textLen(us[n])
    <3>1. f[n - 1] \in Int
      BY <1>1, <2>1
    <3>. QED
      BY <1>4, <3>1 DEF Recursive
  <2>. QED
    BY <1>1, <1>4, <2>1, <2>2 DEF Recursive
<1>6. g = body(g)
  BY <1>5 DEF LengthsOf, N
<1>. HIDE DEF g
<1>7. g = [n \in 0..N |-> g[n]] /\ g[0] = 0 /\ \A n \in 1..N : g[n] = g[n - 1] + textLen(us[n])
  BY <1>1, <1>6
<1>8. g \in [0..N -> Int]
  <2>1. g = [n \in 0..N |-> g[n]] /\ g[0] \in Int
    BY <1>7
  <2>2. \A n \in 1..N : g[n - 1] \in Int => g[n] \in Int
    <3>1. \A n \in 1..N : g[n] = g[n - 1] + textLen(us[n])
      BY <1>7
    <3>. QED
      BY <1>2, <3>1
  <2>. QED
    BY <1>1, <2>1, <2>2, RecursionTyped
<1>. QED
  BY <1>3, <1>7, <1>8 DEF N, g

\* The length of a sequence of units, unit by unit.
LEMMA UnitsLenIs ==
    /\ unitsLen(<<>>) = 0
    /\ \A us \in Seq(Unit) : unitsLen(us) \in Int
    /\ \A us \in Seq(Unit), u \in Unit : unitsLen(Append(us, u)) = unitsLen(us) + textLen(u)
<1>1. unitsLen(<<>>) = 0
  BY EmptySeq, LengthsAre
<1>2. ASSUME NEW us \in Seq(Unit) PROVE unitsLen(us) \in Int
  BY LengthsAre, LenProperties
<1>3. ASSUME NEW us \in Seq(Unit), NEW u \in Unit
      PROVE  unitsLen(Append(us, u)) = unitsLen(us) + textLen(u)
  <2>. DEFINE N == Len(us)
              vs == Append(us, u)
              f == LengthsOf(us)
              g == LengthsOf(vs)
              S == {n \in 0..N : g[n] = f[n]}
  <2>1. /\ N \in Nat /\ vs \in Seq(Unit) /\ Len(vs) = N + 1
        /\ \A i \in 1..N : vs[i] = us[i]
        /\ vs[N + 1] = u
    BY AppendProperties, LenProperties
  <2>2. f[0] = 0 /\ \A n \in 1..N : f[n] = f[n - 1] + textLen(us[n])
    BY LengthsAre
  <2>3. g[0] = 0 /\ \A n \in 1..N + 1 : g[n] = g[n - 1] + textLen(vs[n])
    BY <2>1, LengthsAre
  <2>4. unitsLen(us) = f[N] /\ unitsLen(vs) = g[N + 1]
    BY <2>1, LengthsAre
  <2>. HIDE DEF N, vs, f, g
  <2>5. 0 \in S
    BY <2>1, <2>2, <2>3
  <2>6. ASSUME NEW n \in 0..N - 1, n \in S PROVE n + 1 \in S
    <3>1. n + 1 \in 1..N /\ n + 1 \in 1..N + 1 /\ (n + 1) - 1 = n
      BY <2>1
    <3>2. f[n + 1] = f[n] + textLen(us[n + 1]) /\ g[n + 1] = g[n] + textLen(vs[n + 1])
      BY <2>2, <2>3, <3>1
    <3>. QED
      BY <2>1, <2>6, <3>1, <3>2
  <2>7. N \in S
    <3>1. N \in Nat
      BY <2>1
    <3>. HIDE DEF S
    <3>2. \A n \in 0..N - 1 : n \in S => n + 1 \in S
      BY <2>6
    <3>3. \A n \in 0..N : n \in S
      BY <3>1, <2>5, <3>2, Induction
    <3>. QED
      BY <3>1, <3>3
  <2>8. g[N + 1] = g[(N + 1) - 1] + textLen(vs[N + 1]) /\ (N + 1) - 1 = N
    BY <2>1, <2>3
  <2>. QED
    BY <2>1, <2>4, <2>7, <2>8 DEF vs
<1>. QED
  BY <1>1, <1>2, <1>3

-----------------------------------------------------------------------------
(* Sequences of sequences, one after the other.                             *)

FlatOf(seqs) ==
    CHOOSE f : f = [i \in 1..Len(seqs) |-> IF i = 1 THEN seqs[i] ELSE f[i - 1] \o seqs[i]]

LEMMA FlatsAre ==
    ASSUME NEW A, NEW seqs \in Seq(Seq(A)), seqs # <<>>
    PROVE  /\ FlattenSeq(seqs) = FlatOf(seqs)[Len(seqs)]
           /\ FlatOf(seqs) \in [1..Len(seqs) -> Seq(A)] /\ FlatOf(seqs)[1] = seqs[1]
           /\ \A n \in 2..Len(seqs) : FlatOf(seqs)[n] = FlatOf(seqs)[n - 1] \o seqs[n]
<1>. DEFINE N == Len(seqs)
            F == [p \in Seq(A) \X (1..N) |-> p[1] \o seqs[p[2]]]
            body(f) == [i \in 1..N |-> IF i = 1 THEN seqs[i] ELSE f[i - 1] \o seqs[i]]
            g == FlatOf(seqs)
<1>1. N \in Nat \ {0} /\ <<>> \in Seq(A)
  BY EmptySeq
<1>2. \A n \in 1..N : seqs[n] \in Seq(A)
  BY ElementOfSeq
<1>3. FlattenSeq(seqs) = g[N]
  BY <1>1 DEF FlattenSeq, FlatOf
<1>. HIDE DEF N
<1>4. PICK f : Recursive(f, Seq(A), N, <<>>, F)
  <2>1. ASSUME NEW q \in Seq(A) \X (1..N) PROVE q[1] \o seqs[q[2]] \in Seq(A)
    <3>1. q[1] \in Seq(A) /\ seqs[q[2]] \in Seq(A)
      BY <1>2
    <3>. QED
      BY <3>1, ConcatProperties
  <2>2. F \in [Seq(A) \X (1..N) -> Seq(A)] /\ N \in Nat
    BY <1>1, <2>1
  <2>. HIDE DEF F
  <2>. QED
    BY <1>1, <2>2, RecursionExists
<1>. DEFINE h == [n \in 1..N |-> f[n]]
<1>5. h = body(h)
  <2>1. f \in [0..N -> Seq(A)] /\ f[0] = <<>>
    BY <1>4 DEF Recursive
  <2>2. ASSUME NEW n \in 1..N PROVE f[n] = f[n - 1] \o seqs[n]
    <3>1. f[n - 1] \in Seq(A)
      BY <1>1, <2>1
    <3>. QED
      BY <1>4, <3>1 DEF Recursive
  <2>3. f[1] = seqs[1]
    <3>1. 1 \in 1..N /\ 1 - 1 = 0
      BY <1>1
    <3>2. f[1] = <<>> \o seqs[1] /\ seqs[1] \in Seq(A)
      BY <1>2, <2>1, <2>2, <3>1
    <3>. QED
      BY <3>2, ConcatEmptySeq
  <2>4. ASSUME NEW n \in 1..N, n # 1 PROVE h[n - 1] = f[n - 1]
    BY <1>1, <2>4
  <2>. QED
    BY <2>2, <2>3, <2>4
<1>6. g = body(g)
  BY <1>5 DEF FlatOf, N
<1>. HIDE DEF g
<1>7. /\ g = [n \in 1..N |-> g[n]] /\ g[1] = seqs[1]
      /\ \A n \in 2..N : g[n] = g[n - 1] \o seqs[n]
  <2>1. g = [n \in 1..N |-> g[n]] /\ g[1] = seqs[1]
    BY <1>1, <1>6
  <2>2. ASSUME NEW n \in 2..N PROVE g[n] = g[n - 1] \o seqs[n]
    <3>1. n \in 1..N /\ n # 1
      BY <1>1
    <3>. QED
      BY <1>6, <3>1
  <2>. QED
    BY <2>1, <2>2
<1>8. g \in [1..N -> Seq(A)]
  <2>. DEFINE k == [n \in 0..N - 1 |-> g[n + 1]]
  <2>1. k = [n \in 0..N - 1 |-> k[n]] /\ k[0] \in Seq(A) /\ N - 1 \in Nat
    BY <1>1, <1>2, <1>7
  <2>2. ASSUME NEW n \in 1..N - 1, k[n - 1] \in Seq(A) PROVE k[n] \in Seq(A)
    <3>1. n + 1 \in 2..N /\ (n + 1) - 1 = n /\ n \in 0..N - 1 /\ n - 1 \in 0..N - 1 /\ (n - 1) + 1 = n
      BY <1>1
    <3>2. \A i \in 2..N : g[i] = g[i - 1] \o seqs[i]
      BY <1>7
    <3>3. n + 1 \in 1..N
      BY <1>1, <3>1
    <3>4. g[n + 1] = g[n] \o seqs[n + 1] /\ seqs[n + 1] \in Seq(A)
      BY <1>2, <3>1, <3>2, <3>3
    <3>5. k[n - 1] = g[n] /\ k[n] = g[n + 1]
      BY <3>1
    <3>6. g[n] \in Seq(A)
      BY <2>2, <3>5
    <3>7. g[n] \o seqs[n + 1] \in Seq(A)
      BY <3>4, <3>6, ConcatProperties
    <3>. QED
      BY <3>4, <3>5, <3>7
  <2>. HIDE DEF k
  <2>3. k \in [0..N - 1 -> Seq(A)]
    BY <2>1, <2>2, RecursionTyped
  <2>4. ASSUME NEW n \in 1..N PROVE g[n] \in Seq(A)
    <3>1. n - 1 \in 0..N - 1 /\ (n - 1) + 1 = n
      BY <1>1
    <3>2. k[n - 1] = g[n]
      BY <3>1 DEF k
    <3>. QED
      BY <2>3, <3>1, <3>2
  <2>. QED
    BY <1>7, <2>4
<1>. QED
  BY <1>3, <1>7, <1>8 DEF N, g

LEMMA FlattenIs ==
    ASSUME NEW A
    PROVE  /\ FlattenSeq(<<>>) = <<>>
           /\ \A seqs \in Seq(Seq(A)) : FlattenSeq(seqs) \in Seq(A)
           /\ \A seqs \in Seq(Seq(A)), x \in Seq(A) :
                FlattenSeq(Append(seqs, x)) = FlattenSeq(seqs) \o x
<1>1. FlattenSeq(<<>>) = <<>> /\ <<>> \in Seq(A)
  BY EmptySeq DEF FlattenSeq
<1>2. ASSUME NEW seqs \in Seq(Seq(A)) PROVE FlattenSeq(seqs) \in Seq(A)
  <2>1. CASE seqs = <<>>
    BY <1>1, <2>1
  <2>2. CASE seqs # <<>>
    <3>1. Len(seqs) \in 1..Len(seqs)
      BY <2>2, EmptySeq
    <3>2. FlattenSeq(seqs) = FlatOf(seqs)[Len(seqs)] /\ FlatOf(seqs) \in [1..Len(seqs) -> Seq(A)]
      BY <2>2, FlatsAre
    <3>. QED
      BY <3>1, <3>2
  <2>. QED
    BY <2>1, <2>2
<1>3. ASSUME NEW seqs \in Seq(Seq(A)), NEW x \in Seq(A)
      PROVE  FlattenSeq(Append(seqs, x)) = FlattenSeq(seqs) \o x
  <2>. DEFINE N == Len(seqs)
              more == Append(seqs, x)
              f == FlatOf(seqs)
              g == FlatOf(more)
  <2>1. /\ more \in Seq(Seq(A)) /\ more # <<>> /\ Len(more) = N + 1
        /\ \A i \in 1..N : more[i] = seqs[i]
        /\ more[N + 1] = x
    BY AppendProperties
  <2>2. N \in Nat
    BY LenProperties
  <2>3. /\ FlattenSeq(more) = g[N + 1] /\ g[1] = more[1]
        /\ \A n \in 2..N + 1 : g[n] = g[n - 1] \o more[n]
    BY <2>1, FlatsAre
  <2>4. CASE seqs = <<>>
    <3>1. N = 0
      BY <2>4, EmptySeq
    <3>2. FlattenSeq(more) = x
      <4>. HIDE DEF N, more, g
      <4>. QED
        BY <2>1, <2>3, <3>1
    <3>. QED
      BY <1>1, <2>4, <3>2, ConcatEmptySeq
  <2>5. CASE seqs # <<>>
    <3>1. /\ FlattenSeq(seqs) = f[N] /\ f[1] = seqs[1]
          /\ \A n \in 2..N : f[n] = f[n - 1] \o seqs[n]
      BY <2>5, FlatsAre
    <3>2. N \in Nat /\ N - 1 \in Nat
      BY <2>5, EmptySeq
    <3>. HIDE DEF N, more, f, g
    <3>. DEFINE S == {n \in 0..N - 1 : g[n + 1] = f[n + 1]}
    <3>3. 0 \in S
      <4>1. 1 \in 1..N /\ 0 + 1 = 1 /\ 0 \in 0..N - 1
        BY <3>2
      <4>2. g[1] = f[1]
        BY <2>1, <2>3, <3>1, <4>1
      <4>. QED
        BY <4>1, <4>2
    <3>4. ASSUME NEW n \in 0..(N - 1) - 1, n \in S PROVE n + 1 \in S
      <4>1. (n + 1) + 1 \in 2..N /\ (n + 1) + 1 \in 2..N + 1 /\ ((n + 1) + 1) - 1 = n + 1
        BY <3>2
      <4>2. /\ f[(n + 1) + 1] = f[n + 1] \o seqs[(n + 1) + 1]
            /\ g[(n + 1) + 1] = g[n + 1] \o more[(n + 1) + 1]
        BY <2>3, <3>1, <4>1
      <4>3. more[(n + 1) + 1] = seqs[(n + 1) + 1] /\ g[n + 1] = f[n + 1] /\ n + 1 \in 0..N - 1
        BY <2>1, <3>2, <3>4, <4>1
      <4>. QED
        BY <4>2, <4>3
    <3>5. N - 1 \in S
      <4>. HIDE DEF S
      <4>1. \A n \in 0..(N - 1) - 1 : n \in S => n + 1 \in S
        BY <3>4
      <4>2. \A n \in 0..N - 1 : n \in S
        BY <3>2, <3>3, <4>1, Induction
      <4>. QED
        BY <3>2, <4>2
    <3>6. (N - 1) + 1 = N /\ N + 1 \in 2..N + 1 /\ (N + 1) - 1 = N
      BY <2>2, <3>2
    <3>7. g[N] = f[N]
      BY <3>5, <3>6
    <3>8. g[N + 1] = g[N] \o more[N + 1]
      BY <2>3, <3>6
    <3>. QED
      BY <2>1, <2>3, <3>1, <3>7, <3>8 DEF more
  <2>. QED
    BY <2>4, <2>5
<1>. QED
  BY <1>1, <1>2, <1>3

LEMMA AppendToConcat ==
    ASSUME NEW S, NEW s \in Seq(S), NEW t \in Seq(S), NEW e \in S
    PROVE  s \o Append(t, e) = Append(s \o t, e)
<1>1. <<e>> \in Seq(S) /\ s \o t \in Seq(S)
  <2>1. <<>> \in Seq(S) /\ Append(<<>>, e) \in Seq(S)
    BY EmptySeq, AppendProperties
  <2>2. Append(<<>>, e) = <<>> \o <<e>>
    BY <2>1, AppendIsConcat
  <2>. QED
    BY ConcatProperties
<1>2. Append(t, e) = t \o <<e>> /\ Append(s \o t, e) = (s \o t) \o <<e>>
  BY <1>1, AppendIsConcat
<1>. QED
  BY <1>1, <1>2, ConcatAssociative

LEMMA FlattenConcat ==
    ASSUME NEW A, NEW s \in Seq(Seq(A))
    PROVE  \A t \in Seq(Seq(A)) : FlattenSeq(s \o t) = FlattenSeq(s) \o FlattenSeq(t)
<1>. DEFINE X == {t \in Seq(Seq(A)) : FlattenSeq(s \o t) = FlattenSeq(s) \o FlattenSeq(t)}
<1>1. <<>> \in X
  BY EmptySeq, ConcatEmptySeq, FlattenIs
<1>2. ASSUME NEW t \in Seq(Seq(A)), NEW x \in Seq(A), t \in X PROVE Append(t, x) \in X
  <2>1. s \o t \in Seq(Seq(A)) /\ Append(t, x) \in Seq(Seq(A))
    BY ConcatProperties, AppendProperties
  <2>2. FlattenSeq(s \o Append(t, x)) = FlattenSeq(s \o t) \o x
    <3>1. s \o Append(t, x) = Append(s \o t, x)
      BY AppendToConcat
    <3>2. \A seqs \in Seq(Seq(A)), y \in Seq(A) : FlattenSeq(Append(seqs, y)) = FlattenSeq(seqs) \o y
      BY FlattenIs
    <3>3. PICK both \in Seq(Seq(A)) : both = s \o t
      BY <2>1
    <3>4. FlattenSeq(Append(both, x)) = FlattenSeq(both) \o x
      BY <3>2
    <3>. QED
      BY <3>1, <3>3, <3>4, Zenon
  <2>3. FlattenSeq(s \o t) = FlattenSeq(s) \o FlattenSeq(t)
    BY <1>2
  <2>4. (FlattenSeq(s) \o FlattenSeq(t)) \o x = FlattenSeq(s) \o (FlattenSeq(t) \o x)
    <3>1. PICK u, v : u = FlattenSeq(s) /\ v = FlattenSeq(t)
      OBVIOUS
    <3>2. u \in Seq(A) /\ v \in Seq(A)
      BY <3>1, FlattenIs
    <3>3. (u \o v) \o x = u \o (v \o x)
      BY <3>2, ConcatAssociative
    <3>. QED
      BY <3>1, <3>3
  <2>5. FlattenSeq(Append(t, x)) = FlattenSeq(t) \o x
    BY FlattenIs
  <2>. QED
    BY <2>1, <2>2, <2>3, <2>4, <2>5
<1>3. \A t \in Seq(Seq(A)) : t \in X
  <2>. HIDE DEF X
  <2>. QED
    BY <1>1, <1>2, SeqInduction
<1>. QED
  BY <1>3

-----------------------------------------------------------------------------
(* The units of a text.                                                     *)

Single(p) == [i \in DOMAIN p |-> <<p[i]>>]
BlockOf(p) == IF textLen(p) <= chunk_size THEN <<p>> ELSE Single(p)
Blocks(doc) == [k \in DOMAIN doc |-> BlockOf(doc[k])]

LEMMA OneIs ==
    ASSUME NEW S, NEW e \in S
    PROVE  <<e>> \in Seq(S) /\ Len(<<e>>) = 1 /\ <<e>>[1] = e /\ Append(<<>>, e) = <<e>>
<1>1. <<>> \in Seq(S) /\ Len(<<>>) = 0
  BY EmptySeq
<1>2. Append(<<>>, e) = <<e>>
  OBVIOUS
<1>. QED
  BY <1>1, <1>2, AppendProperties

\* A sequence that agrees with a shorter one is the shorter one and its last element.
LEMMA Longer ==
    ASSUME NEW T, NEW N \in Nat, NEW m \in [1..N -> T], NEW n \in [1..N + 1 -> T],
           \A i \in 1..N : n[i] = m[i]
    PROVE  m \in Seq(T) /\ n = Append(m, n[N + 1])
<1>1. m \in Seq(T) /\ Len(m) = N
  OBVIOUS
<1>2. n[N + 1] \in T
  OBVIOUS
<1>3. n \in Seq(T) /\ Len(n) = N + 1
  OBVIOUS
<1>4. /\ Append(m, n[N + 1]) \in Seq(T) /\ Len(Append(m, n[N + 1])) = N + 1
      /\ \A i \in 1..N : Append(m, n[N + 1])[i] = m[i]
      /\ Append(m, n[N + 1])[N + 1] = n[N + 1]
  BY <1>1, <1>2, AppendProperties
<1>5. ASSUME NEW i \in 1..N + 1 PROVE n[i] = Append(m, n[N + 1])[i]
  <2>1. CASE i \in 1..N
    BY <1>4, <2>1
  <2>2. CASE i = N + 1
    BY <1>4, <2>2
  <2>. QED
    BY <2>1, <2>2
<1>. QED
  BY <1>1, <1>3, <1>4, <1>5, SeqEqual

LEMMA SinglesAre == \A p \in Unit : Single(p) \in Seq(Unit) /\ FlattenSeq(Single(p)) = p
<1>. DEFINE X == {p \in Unit : Single(p) \in Seq(Unit) /\ FlattenSeq(Single(p)) = p}
<1>1. <<>> \in X
  <2>1. Single(<<>>) = <<>>
    BY DEF Single
  <2>. QED
    BY <2>1, EmptySeq, FlattenIs DEF Unit
<1>2. ASSUME NEW p \in Unit, NEW e \in Sentence, p \in X PROVE Append(p, e) \in X
  <2>1. Append(p, e) \in Unit /\ <<e>> \in Unit
    BY AppendProperties, OneIs DEF Unit
  <2>2. Single(p) \in Seq(Unit) /\ FlattenSeq(Single(p)) = p
    BY <1>2
  <2>3. Single(Append(p, e)) = Append(Single(p), <<e>>)
    <3>. DEFINE m == Single(p)
                n == Single(Append(p, e))
    <3>1. /\ DOMAIN p = 1..Len(p) /\ \A i \in 1..Len(p) : p[i] \in Sentence /\ Append(p, e)[i] = p[i]
          /\ DOMAIN Append(p, e) = 1..Len(p) + 1 /\ Append(p, e)[Len(p) + 1] = e /\ Len(p) \in Nat
      BY AppendProperties, LenProperties, ElementOfSeq DEF Unit
    <3>2. \A i \in 1..Len(p) : <<p[i]>> \in Unit
      BY <3>1, OneIs DEF Unit
    <3>3. m \in [1..Len(p) -> Unit]
      BY <3>1, <3>2 DEF Single
    <3>4. ASSUME NEW i \in 1..Len(p) + 1 PROVE n[i] = <<Append(p, e)[i]>>
      BY <3>1 DEF Single
    <3>5. \A i \in 1..Len(p) : n[i] = m[i]
      BY <3>1, <3>4 DEF Single
    <3>6. n[Len(p) + 1] = <<e>>
      BY <3>1, <3>4
    <3>7. n \in [1..Len(p) + 1 -> Unit]
      <4>1. n = [i \in 1..Len(p) + 1 |-> <<Append(p, e)[i]>>]
        BY <3>1 DEF Single
      <4>2. ASSUME NEW i \in 1..Len(p) + 1 PROVE <<Append(p, e)[i]>> \in Unit
        <5>1. CASE i \in 1..Len(p)
          BY <3>1, <3>2, <5>1
        <5>2. CASE i = Len(p) + 1
          BY <2>1, <3>1, <5>2
        <5>. QED
          BY <5>1, <5>2, <3>1
      <4>. HIDE DEF n
      <4>. QED
        BY <4>1, <4>2
    <3>. HIDE DEF m, n
    <3>8. n = Append(m, n[Len(p) + 1])
      BY <3>1, <3>3, <3>5, <3>7, Longer
    <3>. QED
      BY <3>6, <3>8 DEF m, n
  <2>4. FlattenSeq(Append(Single(p), <<e>>)) = p \o <<e>>
    BY <2>1, <2>2, FlattenIs DEF Unit
  <2>5. Append(p, e) = p \o <<e>> /\ Append(Single(p), <<e>>) \in Seq(Unit)
    BY <2>1, <2>2, AppendIsConcat, AppendProperties DEF Unit
  <2>. QED
    BY <2>1, <2>3, <2>4, <2>5
<1>3. \A p \in Unit : p \in X
  <2>. HIDE DEF X
  <2>. QED
    BY <1>1, <1>2, SeqInduction DEF Unit
<1>. QED
  BY <1>3

LEMMA BlockIs == \A p \in Unit : BlockOf(p) \in Seq(Unit) /\ FlattenSeq(BlockOf(p)) = p
<1>. SUFFICES ASSUME NEW p \in Unit PROVE BlockOf(p) \in Seq(Unit) /\ FlattenSeq(BlockOf(p)) = p
  OBVIOUS
<1>1. <<p>> \in Seq(Unit) /\ FlattenSeq(<<p>>) = p
  <2>1. <<p>> \in Seq(Unit) /\ Append(<<>>, p) = <<p>>
    BY OneIs
  <2>2. FlattenSeq(Append(<<>>, p)) = FlattenSeq(<<>>) \o p
    BY EmptySeq, FlattenIs DEF Unit
  <2>3. FlattenSeq(<<>>) = <<>> /\ <<>> \o p = p
    BY FlattenIs, ConcatEmptySeq DEF Unit
  <2>. QED
    BY <2>1, <2>2, <2>3
<1>. QED
  BY <1>1, SinglesAre DEF BlockOf

\* The units of a text are its sentences, all of them and in order.
LEMMA UnitsAre ==
    \A doc \in Seq(Unit) : units(doc) \in Seq(Unit) /\ FlattenSeq(units(doc)) = FlattenSeq(doc)
<1>. DEFINE Good(doc) == /\ Blocks(doc) \in Seq(Seq(Unit)) /\ units(doc) \in Seq(Unit)
                         /\ FlattenSeq(units(doc)) = FlattenSeq(doc)
            X == {doc \in Seq(Unit) : Good(doc)}
<1>0. \A doc : units(doc) = FlattenSeq(Blocks(doc))
  BY DEF units, Blocks, BlockOf, Single
<1>1. <<>> \in X
  <2>1. Blocks(<<>>) = <<>>
    BY DEF Blocks
  <2>. QED
    BY <1>0, <2>1, EmptySeq, FlattenIs
<1>2. ASSUME NEW doc \in Seq(Unit), NEW p \in Unit, doc \in X PROVE Append(doc, p) \in X
  <2>. DEFINE more == Append(doc, p)
              block == BlockOf(p)
  <2>1. more \in Seq(Unit) /\ block \in Seq(Unit) /\ FlattenSeq(block) = p
    BY AppendProperties, BlockIs
  <2>2. Blocks(doc) \in Seq(Seq(Unit)) /\ units(doc) \in Seq(Unit) /\ FlattenSeq(units(doc)) = FlattenSeq(doc)
    BY <1>2
  <2>3. Blocks(more) = Append(Blocks(doc), block)
    <3>. DEFINE m == Blocks(doc)
                n == Blocks(more)
    <3>1. /\ DOMAIN doc = 1..Len(doc) /\ \A i \in 1..Len(doc) : doc[i] \in Unit /\ more[i] = doc[i]
          /\ DOMAIN more = 1..Len(doc) + 1 /\ more[Len(doc) + 1] = p /\ Len(doc) \in Nat
      BY AppendProperties, LenProperties, ElementOfSeq
    <3>2. m \in [1..Len(doc) -> Seq(Unit)]
      BY <3>1, BlockIs DEF Blocks
    <3>3. \A i \in 1..Len(doc) : n[i] = m[i]
      BY <3>1 DEF Blocks
    <3>4. n[Len(doc) + 1] = block
      BY <3>1 DEF Blocks
    <3>5. n \in [1..Len(doc) + 1 -> Seq(Unit)]
      <4>1. n = [i \in 1..Len(doc) + 1 |-> BlockOf(more[i])]
        BY <3>1 DEF Blocks
      <4>2. ASSUME NEW i \in 1..Len(doc) + 1 PROVE BlockOf(more[i]) \in Seq(Unit)
        <5>1. more[i] \in Unit
          BY <3>1
        <5>. QED
          BY <5>1, BlockIs
      <4>. HIDE DEF n
      <4>. QED
        BY <4>1, <4>2
    <3>. HIDE DEF m, n, block
    <3>6. n = Append(m, n[Len(doc) + 1])
      BY <3>1, <3>2, <3>3, <3>5, Longer
    <3>. QED
      BY <3>4, <3>6 DEF m, n
  <2>4. Append(Blocks(doc), block) \in Seq(Seq(Unit))
    BY <2>1, <2>2, AppendProperties
  <2>5. units(more) = units(doc) \o block
    BY <1>0, <2>1, <2>2, <2>3, FlattenIs
  <2>6. units(more) \in Seq(Unit)
    BY <2>1, <2>2, <2>5, ConcatProperties
  <2>7. FlattenSeq(units(doc) \o block) = FlattenSeq(units(doc)) \o FlattenSeq(block)
    BY <2>1, <2>2, FlattenConcat DEF Unit
  <2>8. FlattenSeq(more) = FlattenSeq(doc) \o p
    BY FlattenIs DEF Unit
  <2>. HIDE DEF more, block
  <2>. QED
    BY <2>1, <2>2, <2>3, <2>4, <2>5, <2>6, <2>7, <2>8 DEF more
<1>3. \A doc \in Seq(Unit) : doc \in X
  <2>. HIDE DEF X
  <2>. QED
    BY <1>1, <1>2, SeqInduction
<1>. QED
  BY <1>3

-----------------------------------------------------------------------------
(* The loop of the chunker.                                                 *)

\* The tail that a chunk hands on is some end of it, no longer than the overlap.
LEMMA CarryIs ==
    ASSUME NEW current \in Seq(Unit)
    PROVE  \E i \in 1..Len(current) + 1 :
              /\ carry(current) = SubSeq(current, i, Len(current))
              /\ unitsLen(carry(current)) <= overlap
<1>. DEFINE n == Len(current)
            fits == {i \in 1..n + 1 : unitsLen(SubSeq(current, i, n)) <= overlap}
<1>1. n \in Nat /\ overlap \in Nat
  BY KnowledgeAssumption, LenProperties
<1>2. n + 1 \in fits
  <2>1. SubSeq(current, n + 1, n) = <<>>
    BY <1>1, SubSeqEmpty
  <2>2. unitsLen(<<>>) = 0
    BY UnitsLenIs
  <2>3. n + 1 \in 1..n + 1 /\ 0 <= overlap
    BY <1>1
  <2>4. unitsLen(SubSeq(current, n + 1, n)) <= overlap
    BY <2>1, <2>2, <2>3
  <2>. QED
    BY <2>3, <2>4
<1>3. fits \subseteq Nat /\ fits # {}
  BY <1>1, <1>2
<1>4. Min(fits) \in fits
  <2>. HIDE DEF fits
  <2>1. \E m \in fits : \A k \in fits : m <= k
    BY <1>3, LeastOf
  <2>. QED
    BY <2>1 DEF Min
<1>5. carry(current) = SubSeq(current, Min(fits), n)
  BY DEF carry
<1>. QED
  BY <1>4, <1>5

Cutting == [chunks : Seq(Seq(Unit)), current : Seq(Unit)]

StatesOf(us) ==
    CHOOSE st : st = [n \in 0..Len(us) |-> IF n = 0 THEN [chunks |-> <<>>, current |-> <<>>]
                                           ELSE AddUnit(st[n - 1], us[n])]

LEMMA CarryTyped == ASSUME NEW current \in Seq(Unit) PROVE carry(current) \in Seq(Unit)
<1>1. PICK i \in 1..Len(current) + 1 : carry(current) = SubSeq(current, i, Len(current))
  BY CarryIs
<1>2. \A j \in i..Len(current) : current[j] \in Unit
  BY ElementOfSeq, LenProperties
<1>3. i \in Int /\ Len(current) \in Int
  BY LenProperties
<1>. QED
  BY <1>1, <1>2, <1>3, SubSeqProperties

LEMMA AddUnitTyped == ASSUME NEW st \in Cutting, NEW u \in Unit PROVE AddUnit(st, u) \in Cutting
<1>1. st.chunks \in Seq(Seq(Unit)) /\ st.current \in Seq(Unit)
  BY DEF Cutting
<1>2. /\ Append(st.chunks, st.current) \in Seq(Seq(Unit))
      /\ Append(carry(st.current), u) \in Seq(Unit) /\ Append(st.current, u) \in Seq(Unit)
  BY <1>1, CarryTyped, AppendProperties
<1>. QED
  BY <1>1, <1>2 DEF Cutting, AddUnit

LEMMA StatesAre ==
    ASSUME NEW us \in Seq(Unit)
    PROVE  /\ StatesOf(us) \in [0..Len(us) -> Cutting]
           /\ StatesOf(us)[0] = [chunks |-> <<>>, current |-> <<>>]
           /\ \A n \in 1..Len(us) : StatesOf(us)[n] = AddUnit(StatesOf(us)[n - 1], us[n])
<1>. DEFINE N == Len(us)
            init == [chunks |-> <<>>, current |-> <<>>]
            F == [p \in Cutting \X (1..N) |-> AddUnit(p[1], us[p[2]])]
            body(f) == [n \in 0..N |-> IF n = 0 THEN init ELSE AddUnit(f[n - 1], us[n])]
            g == StatesOf(us)
<1>1. N \in Nat /\ init \in Cutting
  BY LenProperties, EmptySeq DEF Cutting
<1>2. \A n \in 1..N : us[n] \in Unit
  BY ElementOfSeq
<1>. HIDE DEF N, init
<1>3. PICK f : Recursive(f, Cutting, N, init, F)
  <2>1. F \in [Cutting \X (1..N) -> Cutting]
    <3>1. ASSUME NEW q \in Cutting \X (1..N) PROVE AddUnit(q[1], us[q[2]]) \in Cutting
      BY <1>2, AddUnitTyped
    <3>. QED
      BY <3>1
  <2>. HIDE DEF F
  <2>. QED
    BY <1>1, <2>1, RecursionExists
<1>4. f = body(f)
  <2>1. f \in [0..N -> Cutting]
    BY <1>3 DEF Recursive
  <2>2. ASSUME NEW n \in 1..N PROVE f[n] = AddUnit(f[n - 1], us[n])
    <3>1. f[n - 1] \in Cutting
      BY <1>1, <2>1
    <3>. QED
      BY <1>3, <3>1 DEF Recursive
  <2>. QED
    BY <1>1, <1>3, <2>1, <2>2 DEF Recursive
<1>5. g = body(g)
  BY <1>4 DEF StatesOf, N, init
<1>. HIDE DEF g
<1>6. g = [n \in 0..N |-> g[n]] /\ g[0] = init /\ \A n \in 1..N : g[n] = AddUnit(g[n - 1], us[n])
  <2>1. g = [n \in 0..N |-> g[n]]
    BY <1>5
  <2>2. 0 \in 0..N /\ \A n \in 1..N : n \in 0..N /\ n # 0
    BY <1>1
  <2>3. \A n \in 0..N : g[n] = IF n = 0 THEN init ELSE AddUnit(g[n - 1], us[n])
    BY <1>5, Zenon
  <2>. QED
    BY <2>1, <2>2, <2>3
<1>7. g \in [0..N -> Cutting]
  <2>1. g = [n \in 0..N |-> g[n]] /\ g[0] \in Cutting
    BY <1>1, <1>6
  <2>2. \A n \in 1..N : g[n - 1] \in Cutting => g[n] \in Cutting
    <3>1. \A n \in 1..N : g[n] = AddUnit(g[n - 1], us[n])
      BY <1>6
    <3>. QED
      BY <1>2, <3>1, AddUnitTyped
  <2>. QED
    BY <1>1, <2>1, <2>2, RecursionTyped
<1>. QED
  BY <1>6, <1>7 DEF N, g, init

\* The text is what the states of the loop end in.
LEMMA ChunkTextIs ==
    ASSUME NEW doc \in Seq(Unit)
    PROVE  LET us == units(doc)
               st == StatesOf(us)[Len(us)]
           IN /\ us \in Seq(Unit) /\ st \in Cutting
              /\ chunk_text(doc) = Append(st.chunks, st.current)
              /\ chunk_text(doc) \in Seq(Seq(Unit)) /\ chunk_text(doc) # <<>>
<1>. DEFINE us == units(doc)
            st == StatesOf(us)[Len(us)]
<1>1. us \in Seq(Unit)
  BY UnitsAre
<1>2. st \in Cutting
  <2>. HIDE DEF us
  <2>1. Len(us) \in 0..Len(us)
    BY <1>1, LenProperties
  <2>. QED
    BY <1>1, <2>1, StatesAre
<1>3. chunk_text(doc) = Append(st.chunks, st.current)
  BY DEF chunk_text, StatesOf
<1>. HIDE DEF us, st
<1>4. st.chunks \in Seq(Seq(Unit)) /\ st.current \in Seq(Unit)
  BY <1>2 DEF Cutting
<1>5. Append(st.chunks, st.current) \in Seq(Seq(Unit)) /\ Append(st.chunks, st.current) # <<>>
  BY <1>4, AppendProperties
<1>. QED
  BY <1>1, <1>2, <1>3, <1>5 DEF us, st

-----------------------------------------------------------------------------
(* The chunks cut the units.                                                *)

LEMMA RunGrows ==
    ASSUME NEW us \in Seq(Unit), NEW n \in 0..Len(us) - 1, NEW i \in 1..n + 1
    PROVE  /\ SubSeq(us, i, n) \in Seq(Unit)
           /\ Append(SubSeq(us, i, n), us[n + 1]) = SubSeq(us, i, n + 1)
<1>1. Len(us) \in Nat /\ \A k \in 1..Len(us) : us[k] \in Unit
  BY LenProperties, ElementOfSeq
<1>2. i \in 1..Len(us) /\ n + 1 \in i..Len(us) /\ (n + 1) - 1 = n /\ us[n + 1] \in Unit
  BY <1>1
<1>3. SubSeq(us, i, n) \in Seq(Unit)
  BY <1>1, SubSeqProperties
<1>4. SubSeq(us, i, n + 1) = SubSeq(us, i, (n + 1) - 1) \o <<us[n + 1]>>
  BY <1>2, SubSeqRecursiveSecond
<1>. QED
  BY <1>2, <1>3, <1>4, AppendIsConcat

LEMMA FrontOfAppend ==
    ASSUME NEW S, NEW s \in Seq(S), NEW e \in S
    PROVE  Front(Append(s, e)) = s
<1>1. Append(s, e) \in Seq(S) /\ Len(Append(s, e)) = Len(s) + 1 /\ Len(s) \in Nat
  BY AppendProperties, LenProperties
<1>2. Append(s, e) = s \o <<e>> /\ <<e>> \in Seq(S)
  BY AppendIsConcat, OneIs
<1>3. Front(Append(s, e)) = SubSeq(Append(s, e), 1, Len(s))
  BY <1>1 DEF Front
<1>4. CASE s = <<>>
  BY <1>1, <1>3, <1>4, EmptySeq, SubSeqEmpty
<1>5. CASE s # <<>>
  <2>1. 1 \in 1..Len(s) /\ Len(s) \in 1..Len(s)
    BY <1>1, <1>5, EmptySeq
  <2>2. SubSeq(s \o <<e>>, 1, Len(s)) = SubSeq(s, 1, Len(s))
    BY <1>2, <2>1, SubSeqOfConcat1
  <2>. QED
    BY <1>2, <1>3, <2>2, SubSeqFull
<1>. QED
  BY <1>4, <1>5

LEMMA TailOfRun ==
    ASSUME NEW us \in Seq(Unit), NEW n \in 1..Len(us), NEW a \in 1..n,
           NEW i \in 1..Len(SubSeq(us, a, n)) + 1
    PROVE  /\ a + i - 1 \in a..n + 1
           /\ SubSeq(SubSeq(us, a, n), i, Len(SubSeq(us, a, n))) = SubSeq(us, a + i - 1, n)
<1>1. Len(us) \in Nat /\ \A k \in 1..Len(us) : us[k] \in Unit
  BY LenProperties, ElementOfSeq
<1>2. Len(SubSeq(us, a, n)) = (n - a) + 1
  BY <1>1, SubSeqProperties
<1>3. a + i - 1 \in a..n + 1
  BY <1>1, <1>2
<1>4. CASE i = (n - a) + 1 + 1
  <2>1. i \in Int /\ Len(SubSeq(us, a, n)) < i /\ Len(SubSeq(us, a, n)) \in Int /\ a + i - 1 = n + 1
    BY <1>1, <1>2, <1>4
  <2>2. SubSeq(SubSeq(us, a, n), i, Len(SubSeq(us, a, n))) = <<>> /\ SubSeq(us, n + 1, n) = <<>>
    BY <1>1, <2>1, SubSeqEmpty
  <2>. QED
    BY <1>3, <2>1, <2>2
<1>5. CASE i # (n - a) + 1 + 1
  <2>1. i \in 1..n - a + 1 /\ n - a + 1 \in 1..n - a + 1 /\ a \in 1..Len(us) /\ a + (n - a + 1) - 1 = n
    BY <1>1, <1>2, <1>5
  <2>2. SubSeq(SubSeq(us, a, n), i, n - a + 1) = SubSeq(us, a + i - 1, a + (n - a + 1) - 1)
    BY <2>1, SubSeqOfSubSeq
  <2>. QED
    BY <1>2, <1>3, <2>1, <2>2
<1>. QED
  BY <1>4, <1>5

\* A chunk is a run of units, too long only by the unit that was added to a tail.
RunOf(us, c, i, j) ==
    /\ i <= j /\ c = SubSeq(us, i, j)
    /\ unitsLen(c) <= chunk_size \/ unitsLen(Front(c)) <= overlap

\* A chunk that takes up after another.
Follows(us, i0, j0, i, j) ==
    /\ i0 <= i /\ i <= j0 + 1 /\ j0 < j
    /\ unitsLen(SubSeq(us, i, j0)) <= overlap

\* cs cut the first n units.
CutTo(us, n, cs, first, last) ==
    /\ first \in [1..Len(cs) -> 1..n] /\ last \in [1..Len(cs) -> 1..n]
    /\ first[1] = 1 /\ last[Len(cs)] = n
    /\ \A k \in 1..Len(cs) : RunOf(us, cs[k], first[k], last[k])
    /\ \A k \in 2..Len(cs) : Follows(us, first[k - 1], last[k - 1], first[k], last[k])

LEMMA CutToIsCut ==
    ASSUME NEW us \in Seq(Unit), NEW cs \in Seq(Seq(Unit)), cs # <<>>, NEW first, NEW last,
           CutTo(us, Len(us), cs, first, last)
    PROVE  CutOf(cs, us)
<1>. DEFINE end == [k \in DOMAIN cs |-> first[k] + Len(cs[k]) - 1]
<1>1. DOMAIN cs = 1..Len(cs) /\ DOMAIN us = 1..Len(us) /\ Len(cs) \in Nat /\ Len(us) \in Nat
  BY LenProperties
<1>2. first \in [DOMAIN cs -> DOMAIN us]
  BY <1>1 DEF CutTo
<1>3. ASSUME NEW k \in 1..Len(cs) PROVE end[k] = last[k]
  <2>1. first[k] \in 1..Len(us) /\ last[k] \in 1..Len(us) /\ first[k] <= last[k]
        /\ cs[k] = SubSeq(us, first[k], last[k])
    BY DEF CutTo, RunOf
  <2>2. \A j \in first[k]..last[k] : us[j] \in Unit
    BY <1>1, <2>1, ElementOfSeq
  <2>3. first[k] \in Int /\ last[k] \in Int
    BY <1>1, <2>1
  <2>4. Len(cs[k]) = last[k] - first[k] + 1
    BY <2>1, <2>2, <2>3, SubSeqProperties
  <2>. QED
    BY <1>1, <2>3, <2>4
<1>. HIDE DEF end
<1>4. 1 \in 1..Len(cs) /\ Len(cs) \in 1..Len(cs)
  BY <1>1, EmptySeq
<1>5. first[1] = 1 /\ end[Len(cs)] = Len(us)
  BY <1>3, <1>4 DEF CutTo
<1>6. ASSUME NEW k \in DOMAIN cs
      PROVE  /\ first[k] <= end[k] /\ cs[k] = SubSeq(us, first[k], end[k])
             /\ unitsLen(cs[k]) <= chunk_size \/ unitsLen(Front(cs[k])) <= overlap
  BY <1>1, <1>3 DEF CutTo, RunOf
<1>7. ASSUME NEW k \in 2..Len(cs)
      PROVE  /\ first[k - 1] <= first[k] /\ first[k] <= end[k - 1] + 1 /\ end[k - 1] < end[k]
             /\ unitsLen(SubSeq(us, first[k], end[k - 1])) <= overlap
  <2>1. k \in 1..Len(cs) /\ k - 1 \in 1..Len(cs)
    BY <1>1
  <2>2. end[k] = last[k] /\ end[k - 1] = last[k - 1]
    BY <1>3, <2>1
  <2>. QED
    BY <2>2 DEF CutTo, Follows
<1>. QED
  BY <1>2, <1>5, <1>6, <1>7 DEF CutOf, end

\* The first unit is the first chunk, so far.
LEMMA FirstUnitCut ==
    ASSUME NEW us \in Seq(Unit), us # <<>>,
           NEW st, st = AddUnit([chunks |-> <<>>, current |-> <<>>], us[1])
    PROVE  \E first, last : CutTo(us, 1, Append(st.chunks, st.current), first, last)
<1>. DEFINE u == us[1]
            chunk == <<u>>
            cs == <<chunk>>
            one == [k \in 1..1 |-> 1]
<1>1. Len(us) \in Nat /\ Len(us) # 0 /\ u \in Unit
  BY EmptySeq, LenProperties, ElementOfSeq
<1>2. /\ chunk \in Seq(Unit) /\ Append(<<>>, u) = chunk
      /\ Append(<<>>, chunk) = cs /\ Len(cs) = 1 /\ cs[1] = chunk
  <2>1. chunk \in Seq(Unit) /\ Append(<<>>, u) = chunk
    BY <1>1, OneIs
  <2>. QED
    BY <2>1, OneIs
<1>3. Append(st.chunks, st.current) = cs
  BY <1>2 DEF AddUnit
<1>4. SubSeq(us, 1, 1) = chunk
  <2>1. 0 \in 0..Len(us) - 1 /\ 0 + 1 = 1 /\ SubSeq(us, 1, 0) = <<>>
    BY <1>1, SubSeqEmpty
  <2>2. SubSeq(us, 1, 0 + 1) = Append(SubSeq(us, 1, 0), us[0 + 1])
    BY <2>1, PrefixGrows
  <2>. QED
    BY <1>2, <2>1, <2>2
<1>5. unitsLen(Front(chunk)) <= overlap
  <2>1. Front(Append(<<>>, u)) = <<>>
    BY <1>1, EmptySeq, FrontOfAppend
  <2>2. unitsLen(<<>>) = 0 /\ overlap \in Nat
    BY UnitsLenIs, KnowledgeAssumption
  <2>. QED
    BY <1>2, <2>1, <2>2
<1>. HIDE DEF chunk, cs
<1>6. RunOf(us, chunk, 1, 1)
  BY <1>4, <1>5 DEF RunOf
<1>7. CutTo(us, 1, cs, one, one)
  BY <1>2, <1>6 DEF CutTo
<1>. QED
  BY <1>3, <1>7

\* One unit more goes to the end of the last chunk, or to a chunk that takes up its tail.
LEMMA NextUnitCut ==
    ASSUME NEW us \in Seq(Unit), NEW n \in 1..Len(us) - 1, NEW st \in Cutting, NEW first, NEW last,
           CutTo(us, n, Append(st.chunks, st.current), first, last),
           NEW next, next = AddUnit(st, us[n + 1])
    PROVE  \E f, l : CutTo(us, n + 1, Append(next.chunks, next.current), f, l)
<1>. DEFINE u == us[n + 1]
            K == Len(st.chunks) + 1
            cs == Append(st.chunks, st.current)
            new == Append(next.chunks, next.current)
            c == st.current
<1>1. /\ st.chunks \in Seq(Seq(Unit)) /\ c \in Seq(Unit) /\ u \in Unit
      /\ Len(us) \in Nat /\ n \in 0..Len(us) - 1 /\ n \in 1..Len(us)
  BY LenProperties, ElementOfSeq DEF Cutting
<1>2. /\ K \in Nat \ {0} /\ cs \in Seq(Seq(Unit)) /\ Len(cs) = K
      /\ \A k \in 1..K - 1 : cs[k] = st.chunks[k]
      /\ cs[K] = c
  BY <1>1, AppendProperties, LenProperties
<1>0. CutTo(us, n, cs, first, last)
  OBVIOUS
<1>. HIDE DEF K, cs, u, c, new
<1>3. first \in [1..K -> 1..n] /\ last \in [1..K -> 1..n] /\ first[1] = 1 /\ last[K] = n
  BY <1>0, <1>2 DEF CutTo
<1>4. \A k \in 1..K : RunOf(us, cs[k], first[k], last[k])
  BY <1>0, <1>2 DEF CutTo
<1>5. \A k \in 2..K : Follows(us, first[k - 1], last[k - 1], first[k], last[k])
  BY <1>0, <1>2 DEF CutTo
<1>6. first[K] \in 1..n /\ K \in 1..K
  BY <1>2, <1>3
<1>7. c = SubSeq(us, first[K], n)
  BY <1>2, <1>3, <1>4, <1>6 DEF RunOf
<1>8. Append(c, u) = SubSeq(us, first[K], n + 1)
  <2>1. first[K] \in 1..n + 1
    BY <1>1, <1>6
  <2>2. Append(SubSeq(us, first[K], n), us[n + 1]) = SubSeq(us, first[K], n + 1)
    BY <1>1, <2>1, RunGrows
  <2>. QED
    BY <1>7, <2>2 DEF u
<1>9. CASE c # <<>> /\ unitsLen(c) + textLen(u) > chunk_size
  <2>. DEFINE tail == carry(c)
  <2>1. next.chunks = cs /\ next.current = Append(tail, u)
    BY <1>9 DEF AddUnit, cs, c, u
  <2>2. PICK i \in 1..Len(c) + 1 : tail = SubSeq(c, i, Len(c)) /\ unitsLen(tail) <= overlap
    BY <1>1, CarryIs
  <2>. DEFINE a == first[K] + i - 1
              f == [k \in 1..K + 1 |-> IF k = K + 1 THEN a ELSE first[k]]
              l == [k \in 1..K + 1 |-> IF k = K + 1 THEN n + 1 ELSE last[k]]
  <2>3. a \in first[K]..n + 1 /\ tail = SubSeq(us, a, n)
    BY <1>1, <1>6, <1>7, <2>2, TailOfRun
  <2>4. tail \in Seq(Unit) /\ Append(tail, u) \in Seq(Unit) /\ Front(Append(tail, u)) = tail
    BY <1>1, CarryTyped, AppendProperties, FrontOfAppend
  <2>5. a \in 1..n + 1
    BY <1>6, <2>3
  <2>6. Append(tail, u) = SubSeq(us, a, n + 1)
    <3>1. Append(SubSeq(us, a, n), us[n + 1]) = SubSeq(us, a, n + 1)
      <4>. HIDE DEF a
      <4>. QED
        BY <1>1, <2>5, RunGrows
    <3>. QED
      BY <2>3, <3>1 DEF u
  <2>7. /\ new \in Seq(Seq(Unit)) /\ Len(new) = K + 1
        /\ \A k \in 1..K : new[k] = cs[k]
        /\ new[K + 1] = Append(tail, u)
    BY <1>2, <2>1, <2>4, AppendProperties DEF new
  <2>. HIDE DEF tail, a
  <2>8. RunOf(us, new[K + 1], a, n + 1)
    <3>1. a <= n + 1
      BY <1>1, <2>5
    <3>2. unitsLen(Front(Append(tail, u))) <= overlap
      BY <2>2, <2>4
    <3>. QED
      BY <2>6, <2>7, <3>1, <3>2 DEF RunOf
  <2>9. Follows(us, first[K], n, a, n + 1)
    <3>1. first[K] <= a /\ a <= n + 1 /\ n < n + 1
      BY <1>1, <1>6, <2>3
    <3>2. unitsLen(SubSeq(us, a, n)) <= overlap
      BY <2>2, <2>3
    <3>. QED
      BY <3>1, <3>2 DEF Follows
  <2>10. /\ f \in [1..K + 1 -> 1..n + 1] /\ l \in [1..K + 1 -> 1..n + 1]
         /\ f[K + 1] = a /\ l[K + 1] = n + 1
         /\ \A k \in 1..K : f[k] = first[k] /\ l[k] = last[k]
    BY <1>1, <1>2, <1>3, <2>5
  <2>. HIDE DEF f, l
  <2>11. f[1] = 1 /\ l[Len(new)] = n + 1
    BY <1>2, <1>3, <2>7, <2>10
  <2>12. ASSUME NEW k \in 1..K + 1 PROVE RunOf(us, new[k], f[k], l[k])
    <3>1. CASE k = K + 1
      BY <2>8, <2>10, <3>1
    <3>2. CASE k \in 1..K
      BY <1>4, <2>7, <2>10, <3>2
    <3>. QED
      BY <1>2, <3>1, <3>2
  <2>13. ASSUME NEW k \in 2..K + 1 PROVE Follows(us, f[k - 1], l[k - 1], f[k], l[k])
    <3>1. CASE k = K + 1
      <4>1. k - 1 = K /\ f[K] = first[K] /\ l[K] = n
        BY <1>2, <1>3, <1>6, <2>10, <3>1
      <4>. QED
        BY <2>9, <2>10, <3>1, <4>1
    <3>2. CASE k \in 2..K
      <4>1. k \in 1..K /\ k - 1 \in 1..K
        BY <1>2, <3>2
      <4>. QED
        BY <1>5, <2>10, <3>2, <4>1
    <3>. QED
      BY <1>2, <3>1, <3>2
  <2>14. CutTo(us, n + 1, new, f, l)
    BY <2>7, <2>10, <2>11, <2>12, <2>13 DEF CutTo
  <2>. QED
    BY <2>14 DEF new
<1>10. CASE ~ (c # <<>> /\ unitsLen(c) + textLen(u) > chunk_size)
  <2>. DEFINE l == [k \in 1..K |-> IF k = K THEN n + 1 ELSE last[k]]
  <2>1. next.chunks = st.chunks /\ next.current = Append(c, u)
    BY <1>10 DEF AddUnit, Cutting, c, u
  <2>2. /\ new \in Seq(Seq(Unit)) /\ Len(new) = K
        /\ \A k \in 1..K - 1 : new[k] = cs[k]
        /\ new[K] = Append(c, u)
    <3>1. Append(c, u) \in Seq(Unit)
      BY <1>1, AppendProperties
    <3>. QED
      <4>1. new = Append(st.chunks, Append(c, u)) /\ K = Len(st.chunks) + 1 /\ K - 1 = Len(st.chunks)
        BY <1>1, <2>1, LenProperties DEF new, K
      <4>2. /\ new \in Seq(Seq(Unit)) /\ Len(new) = Len(st.chunks) + 1
            /\ \A k \in 1..Len(st.chunks) : new[k] = st.chunks[k]
            /\ new[Len(st.chunks) + 1] = Append(c, u)
        BY <1>1, <3>1, <4>1, AppendProperties
      <4>. QED
        BY <1>2, <4>1, <4>2
  <2>3. c # <<>>
    <3>1. Len(c) = n - first[K] + 1
      <4>1. \A j \in first[K]..n : us[j] \in Unit
        BY <1>1, <1>6, ElementOfSeq
      <4>. QED
        BY <1>6, <1>7, <4>1, SubSeqProperties
    <3>. QED
      BY <1>6, <3>1, EmptySeq
  <2>4. unitsLen(Append(c, u)) <= chunk_size
    <3>1. unitsLen(Append(c, u)) = unitsLen(c) + textLen(u) /\ unitsLen(c) \in Int /\ textLen(u) \in Int
      BY <1>1, UnitsLenIs, TextLenIs
    <3>. QED
      BY <1>10, <2>3, <3>1, KnowledgeAssumption
  <2>5. RunOf(us, new[K], first[K], n + 1)
    BY <1>6, <1>8, <2>2, <2>4 DEF RunOf
  <2>6. /\ first \in [1..K -> 1..n + 1] /\ l \in [1..K -> 1..n + 1] /\ l[K] = n + 1
        /\ \A k \in 1..K - 1 : l[k] = last[k]
    BY <1>1, <1>2, <1>3
  <2>. HIDE DEF l
  <2>7. ASSUME NEW k \in 1..K PROVE RunOf(us, new[k], first[k], l[k])
    <3>1. CASE k = K
      BY <2>5, <2>6, <3>1
    <3>2. CASE k \in 1..K - 1
      BY <1>4, <2>2, <2>6, <3>2
    <3>. QED
      BY <1>2, <3>1, <3>2
  <2>8. ASSUME NEW k \in 2..K PROVE Follows(us, first[k - 1], l[k - 1], first[k], l[k])
    <3>1. k - 1 \in 1..K - 1 /\ l[k - 1] = last[k - 1]
      BY <1>2, <2>6
    <3>2. Follows(us, first[k - 1], last[k - 1], first[k], last[k])
      BY <1>5
    <3>3. k \in 1..K /\ last[k] \in 1..n /\ last[k - 1] \in 1..n
      BY <1>2, <1>3, <3>1
    <3>4. last[k] <= l[k] /\ l[k] \in Int
      <4>1. CASE k = K
        BY <1>1, <2>6, <3>3, <4>1
      <4>2. CASE k \in 1..K - 1
        BY <1>1, <2>6, <3>3, <4>2
      <4>. QED
        BY <1>2, <3>3, <4>1, <4>2
    <3>5. last[k - 1] < l[k]
      <4>1. last[k - 1] < last[k]
        BY <3>2 DEF Follows
      <4>. QED
        BY <1>1, <3>3, <3>4, <4>1
    <3>. QED
      BY <3>1, <3>2, <3>5 DEF Follows
  <2>9. CutTo(us, n + 1, new, first, l)
    BY <1>3, <2>2, <2>6, <2>7, <2>8 DEF CutTo
  <2>. QED
    BY <2>9 DEF new
<1>. QED
  BY <1>9, <1>10

\* The chunks of a document cut its units, from the first to the last.
LEMMA Covered == \A doc \in Document : doc \in Seq(Unit) /\ ChunksCover(doc)
<1>. SUFFICES ASSUME NEW doc \in Document PROVE doc \in Seq(Unit) /\ ChunksCover(doc)
  OBVIOUS
<1>. DEFINE us == units(doc)
            N == Len(us)
            st == StatesOf(us)
            cs(n) == Append(st[n].chunks, st[n].current)
<1>1. doc \in Seq(Unit)
  <2>1. doc \in Seq(Seq(Sentence) \ {<<>>})
    BY KnowledgeAssumption DEF Sentence
  <2>2. \A i \in 1..Len(doc) : doc[i] \in Seq(Sentence)
    BY <2>1, ElementOfSeq
  <2>3. doc = [i \in 1..Len(doc) |-> doc[i]] /\ Len(doc) \in Nat
    BY <2>1, LenProperties
  <2>. QED
    BY <2>2, <2>3 DEF Unit
<1>2. FlattenSeq(us) = FlattenSeq(doc) /\ us \in Seq(Unit)
  BY <1>1, UnitsAre
<1>3. chunk_text(doc) = cs(N) /\ chunk_text(doc) \in Seq(Seq(Unit)) /\ chunk_text(doc) # <<>>
  BY <1>1, ChunkTextIs
<1>. HIDE DEF us
<1>4. N \in Nat
  BY <1>2, LenProperties
<1>5. /\ st \in [0..N -> Cutting] /\ st[0] = [chunks |-> <<>>, current |-> <<>>]
      /\ \A n \in 1..N : st[n] = AddUnit(st[n - 1], us[n])
  BY <1>2, StatesAre
<1>6. CASE us = <<>>
  <2>1. N = 0
    BY <1>6, EmptySeq
  <2>2. st[N].chunks = <<>> /\ st[N].current = <<>>
    BY <1>5, <2>1
  <2>3. cs(N) = <<<<>>>>
    BY <2>2
  <2>. QED
    BY <1>1, <1>2, <1>3, <1>6, <2>3 DEF ChunksCover, us
<1>7. CASE us # <<>>
  <2>. DEFINE S == {m \in 0..N - 1 : \E f, l : CutTo(us, m + 1, cs(m + 1), f, l)}
  <2>1. N - 1 \in Nat /\ 1 \in 1..N /\ 1 - 1 = 0
    BY <1>2, <1>4, <1>7, EmptySeq
  <2>. HIDE DEF N, st
  <2>2. 0 \in S
    <3>1. st[1] = AddUnit([chunks |-> <<>>, current |-> <<>>], us[1])
      BY <1>5, <2>1
    <3>2. \E f, l : CutTo(us, 1, cs(1), f, l)
      BY <1>2, <1>7, <3>1, FirstUnitCut
    <3>. QED
      BY <2>1, <3>2
  <2>3. ASSUME NEW m \in 0..(N - 1) - 1, m \in S PROVE m + 1 \in S
    <3>1. /\ m + 1 \in 1..N - 1 /\ m + 1 \in 0..N /\ (m + 1) + 1 \in 1..N
          /\ ((m + 1) + 1) - 1 = m + 1 /\ m + 1 \in 0..N - 1
      BY <1>4, <2>1
    <3>2. PICK f, l : CutTo(us, m + 1, cs(m + 1), f, l)
      BY <2>3
    <3>3. st[m + 1] \in Cutting
      BY <1>5, <3>1
    <3>4. st[(m + 1) + 1] = AddUnit(st[m + 1], us[(m + 1) + 1])
      BY <1>5, <3>1
    <3>5. m + 1 \in 1..Len(us) - 1
      BY <3>1 DEF N
    <3>6. \E g, k : CutTo(us, (m + 1) + 1, cs((m + 1) + 1), g, k)
      BY <1>2, <3>2, <3>3, <3>4, <3>5, NextUnitCut
    <3>. QED
      BY <3>1, <3>6
  <2>4. N - 1 \in S
    <3>. HIDE DEF S
    <3>1. \A m \in 0..(N - 1) - 1 : m \in S => m + 1 \in S
      BY <2>3
    <3>2. \A m \in 0..N - 1 : m \in S
      BY <2>1, <2>2, <3>1, Induction
    <3>. QED
      BY <2>1, <3>2
  <2>5. (N - 1) + 1 = N
    BY <1>4
  <2>6. PICK f, l : CutTo(us, N, cs(N), f, l)
    BY <2>4, <2>5
  <2>7. CutOf(cs(N), us)
    <3>1. CutTo(us, Len(us), cs(N), f, l)
      BY <2>6 DEF N
    <3>2. cs(N) \in Seq(Seq(Unit)) /\ cs(N) # <<>>
      BY <1>3
    <3>. HIDE DEF cs
    <3>. QED
      BY <1>2, <3>1, <3>2, CutToIsCut
  <2>. QED
    BY <1>1, <1>2, <1>3, <1>7, <2>7 DEF ChunksCover, us
<1>. QED
  BY <1>6, <1>7

-----------------------------------------------------------------------------
(* The store.                                                               *)

Row == [owner : Owner, chunk : Seq(Unit)]

\* y is what a search of x's owner finds for x: itself, or a row with its key.
StandsFor(y, x) ==
    y = x \/ (backend = "pg" /\ y.owner = x.owner /\ headOf(y.chunk) = headOf(x.chunk))

Held(store, x) == \E i \in DOMAIN store : StandsFor(store[i], x)

\* A row that is written is held, those that were held before still are, and no other
\* row comes in.
LEMMA UpsertIs ==
    ASSUME NEW store \in Seq(Row), NEW row \in Row
    PROVE  LET new == upsert(store, row) IN
           /\ new \in Seq(Row)
           /\ \A i \in DOMAIN new : new[i] = row \/ \E j \in DOMAIN store : new[i] = store[j]
           /\ Held(new, row)
           /\ \A x : Held(store, x) => Held(new, x)
<1>. DEFINE N == Len(store)
            same == {i \in DOMAIN store : store[i].owner = row.owner
                                            /\ headOf(store[i].chunk) = headOf(row.chunk)}
            put == [i \in DOMAIN store |-> IF i \in same THEN row ELSE store[i]]
            new == upsert(store, row)
<1>1. N \in Nat /\ DOMAIN store = 1..N /\ \A i \in 1..N : store[i] \in Row
  BY LenProperties, ElementOfSeq
<1>2. CASE backend = "pg" /\ same # {}
  <2>1. new = put
    BY <1>2 DEF upsert
  <2>2. put \in [1..N -> Row]
    BY <1>1
  <2>3. put \in Seq(Row) /\ DOMAIN put = 1..N
    BY <1>1, <2>2
  <2>4. \A i \in 1..N : put[i] = IF i \in same THEN row ELSE store[i]
    BY <1>1
  <2>5. same \subseteq 1..N
    BY <1>1
  <2>6. Held(put, row)
    BY <1>2, <2>3, <2>4, <2>5 DEF Held, StandsFor
  <2>7. ASSUME NEW x, Held(store, x) PROVE Held(put, x)
    <3>1. PICK i \in 1..N : StandsFor(store[i], x)
      BY <1>1, <2>7 DEF Held
    <3>2. StandsFor(put[i], x)
      BY <1>1, <1>2, <2>4, <3>1 DEF StandsFor
    <3>. QED
      BY <2>3, <3>1, <3>2 DEF Held
  <2>. HIDE DEF put, same, N
  <2>. QED
    BY <1>1, <2>1, <2>3, <2>4, <2>6, <2>7
<1>3. CASE ~ (backend = "pg" /\ same # {})
  <2>1. new = Append(store, row)
    BY <1>3 DEF upsert
  <2>2. /\ new \in Seq(Row) /\ Len(new) = N + 1 /\ new[N + 1] = row
        /\ \A i \in 1..N : new[i] = store[i]
    BY <2>1, AppendProperties
  <2>3. DOMAIN new = 1..N + 1
    BY <2>2, LenProperties
  <2>. HIDE DEF new, N, same
  <2>4. ASSUME NEW i \in DOMAIN new PROVE new[i] = row \/ \E j \in DOMAIN store : new[i] = store[j]
    <3>1. CASE i = N + 1
      BY <2>2, <3>1
    <3>2. CASE i \in 1..N
      BY <1>1, <2>2, <3>2
    <3>. QED
      BY <1>1, <2>3, <3>1, <3>2
  <2>5. Held(new, row)
    <3>1. N + 1 \in DOMAIN new
      BY <1>1, <2>3
    <3>. QED
      BY <2>2, <3>1 DEF Held, StandsFor
  <2>6. ASSUME NEW x, Held(store, x) PROVE Held(new, x)
    <3>1. PICK i \in 1..N : StandsFor(store[i], x)
      BY <1>1, <2>6 DEF Held
    <3>2. i \in DOMAIN new /\ new[i] = store[i]
      BY <1>1, <2>2, <2>3
    <3>. QED
      BY <3>1, <3>2 DEF Held
  <2>. QED
    BY <2>2, <2>4, <2>5, <2>6 DEF new
<1>. QED
  BY <1>2, <1>3

Message == [owner : Owner, doc : Document]

RowOf(msg, k) == [owner |-> msg.owner, chunk |-> chunk_text(msg.doc)[k]]

\* A store that n chunks of a message were written to.
Written(store, msg, n) ==
    /\ store \in Seq(Row)
    /\ \A i \in DOMAIN store :
          (\E j \in DOMAIN rows : store[i] = rows[j]) \/ \E k \in 1..n : store[i] = RowOf(msg, k)
    /\ \A k \in 1..n : Held(store, RowOf(msg, k))
    /\ \A x : Held(rows, x) => Held(store, x)

LEMMA ChunksAre ==
    ASSUME NEW msg \in Message
    PROVE  /\ Len(chunk_text(msg.doc)) \in Nat
           /\ DOMAIN chunk_text(msg.doc) = 1..Len(chunk_text(msg.doc))
           /\ \A k \in 1..Len(chunk_text(msg.doc)) : RowOf(msg, k) \in Row
<1>1. msg.doc \in Seq(Unit) /\ msg.owner \in Owner
  BY Covered DEF Message
<1>2. chunk_text(msg.doc) \in Seq(Seq(Unit))
  BY <1>1, ChunkTextIs
<1>. QED
  BY <1>1, <1>2, LenProperties, ElementOfSeq DEF RowOf, Row

StoresOf(msg, n) ==
    CHOOSE store : store = [k \in 0..n |-> IF k = 0 THEN rows
                                           ELSE upsert(store[k - 1], RowOf(msg, k))]

LEMMA StoresAre ==
    ASSUME rows \in Seq(Row), NEW msg \in Message, NEW n \in 0..Len(chunk_text(msg.doc))
    PROVE  /\ Stored(msg, n) = StoresOf(msg, n)[n]
           /\ StoresOf(msg, n) \in [0..n -> Seq(Row)] /\ StoresOf(msg, n)[0] = rows
           /\ \A k \in 1..n : StoresOf(msg, n)[k] = upsert(StoresOf(msg, n)[k - 1], RowOf(msg, k))
<1>. DEFINE A == Seq(Row)
            F == [p \in A \X (1..n) |-> upsert(p[1], RowOf(msg, p[2]))]
            body(f) == [k \in 0..n |-> IF k = 0 THEN rows ELSE upsert(f[k - 1], RowOf(msg, k))]
            g == StoresOf(msg, n)
<1>1. n \in Nat /\ rows \in A
  BY ChunksAre
<1>2. ASSUME NEW store \in A, NEW k \in 1..n PROVE upsert(store, RowOf(msg, k)) \in A
  <2>1. RowOf(msg, k) \in Row
    BY <1>1, ChunksAre
  <2>. QED
    BY <2>1, UpsertIs
<1>3. Stored(msg, n) = g[n]
  BY DEF Stored, StoresOf, RowOf
<1>. HIDE DEF A
<1>4. PICK f : Recursive(f, A, n, rows, F)
  <2>1. F \in [A \X (1..n) -> A]
    BY <1>2
  <2>. HIDE DEF F
  <2>. QED
    BY <1>1, <2>1, RecursionExists
<1>5. f = body(f)
  <2>1. f \in [0..n -> A]
    BY <1>4 DEF Recursive
  <2>2. ASSUME NEW k \in 1..n PROVE f[k] = upsert(f[k - 1], RowOf(msg, k))
    <3>1. f[k - 1] \in A
      BY <1>1, <2>1
    <3>. QED
      BY <1>4, <3>1 DEF Recursive
  <2>. QED
    BY <1>1, <1>4, <2>1, <2>2 DEF Recursive
<1>6. g = body(g)
  BY <1>5 DEF StoresOf
<1>. HIDE DEF g
<1>7. g = [k \in 0..n |-> g[k]] /\ g[0] = rows /\ \A k \in 1..n : g[k] = upsert(g[k - 1], RowOf(msg, k))
  <2>1. g = [k \in 0..n |-> g[k]]
    BY <1>6
  <2>2. 0 \in 0..n /\ \A k \in 1..n : k \in 0..n /\ k # 0
    BY <1>1
  <2>3. \A k \in 0..n : g[k] = IF k = 0 THEN rows ELSE upsert(g[k - 1], RowOf(msg, k))
    BY <1>6, Zenon
  <2>. QED
    BY <2>1, <2>2, <2>3
<1>8. g \in [0..n -> A]
  <2>1. g = [k \in 0..n |-> g[k]] /\ g[0] \in A
    BY <1>1, <1>7
  <2>2. \A k \in 1..n : g[k - 1] \in A => g[k] \in A
    <3>1. \A k \in 1..n : g[k] = upsert(g[k - 1], RowOf(msg, k))
      BY <1>7
    <3>. QED
      BY <1>2, <3>1
  <2>. QED
    BY <1>1, <2>1, <2>2, RecursionTyped
<1>. QED
  BY <1>3, <1>7, <1>8 DEF A, g

\* Writing the first n chunks of a message writes them all and loses nothing.
LEMMA StoredIs ==
    ASSUME rows \in Seq(Row), NEW msg \in Message, NEW n \in 0..Len(chunk_text(msg.doc))
    PROVE  Written(Stored(msg, n), msg, n)
<1>. DEFINE g == StoresOf(msg, n)
            S == {k \in 0..n : Written(g[k], msg, k)}
<1>1. n \in Nat /\ \A k \in 1..n : RowOf(msg, k) \in Row
  BY ChunksAre
<1>2. /\ Stored(msg, n) = g[n] /\ g \in [0..n -> Seq(Row)] /\ g[0] = rows
      /\ \A k \in 1..n : g[k] = upsert(g[k - 1], RowOf(msg, k))
  BY StoresAre
<1>. HIDE DEF g
<1>3. 0 \in S
  <2>1. Written(rows, msg, 0)
    BY DEF Written
  <2>. QED
    BY <1>1, <1>2, <2>1
<1>4. ASSUME NEW k \in 0..n - 1, k \in S PROVE k + 1 \in S
  <2>. DEFINE row == RowOf(msg, k + 1)
              old == g[k]
              new == g[k + 1]
  <2>1. k + 1 \in 1..n /\ (k + 1) - 1 = k /\ k \in 0..n
    BY <1>1
  <2>2. Written(old, msg, k) /\ old \in Seq(Row) /\ row \in Row
    BY <1>1, <1>2, <1>4, <2>1
  <2>3. new = upsert(old, row)
    BY <1>2, <2>1
  <2>. HIDE DEF old, new
  <2>4. /\ new \in Seq(Row)
        /\ \A i \in DOMAIN new : new[i] = row \/ \E j \in DOMAIN old : new[i] = old[j]
        /\ Held(new, row)
        /\ \A x : Held(old, x) => Held(new, x)
    <3>. HIDE DEF row
    <3>. QED
      BY <2>2, <2>3, UpsertIs
  <2>5. ASSUME NEW i \in DOMAIN new
        PROVE  \/ \E j \in DOMAIN rows : new[i] = rows[j]
               \/ \E l \in 1..k + 1 : new[i] = RowOf(msg, l)
    <3>1. CASE new[i] = row
      BY <2>1, <3>1
    <3>2. CASE \E j \in DOMAIN old : new[i] = old[j]
      <4>1. \/ \E j \in DOMAIN rows : new[i] = rows[j]
            \/ \E l \in 1..k : new[i] = RowOf(msg, l)
        BY <2>2, <3>2 DEF Written
      <4>2. \A l \in 1..k : l \in 1..k + 1
        BY <2>1
      <4>. QED
        BY <4>1, <4>2
    <3>. QED
      BY <2>4, <3>1, <3>2
  <2>6. ASSUME NEW l \in 1..k + 1 PROVE Held(new, RowOf(msg, l))
    <3>1. CASE l = k + 1
      BY <2>4, <3>1
    <3>2. CASE l \in 1..k
      <4>1. Held(old, RowOf(msg, l))
        BY <2>2, <3>2 DEF Written
      <4>. QED
        BY <2>4, <4>1
    <3>. QED
      BY <1>1, <3>1, <3>2
  <2>7. \A x : Held(rows, x) => Held(new, x)
    BY <2>2, <2>4 DEF Written
  <2>8. Written(new, msg, k + 1)
    BY <2>4, <2>5, <2>6, <2>7 DEF Written
  <2>. QED
    BY <1>1, <2>1, <2>8 DEF new
<1>5. n \in S
  <2>. HIDE DEF S
  <2>1. \A k \in 0..n - 1 : k \in S => k + 1 \in S
    BY <1>4
  <2>2. \A k \in 0..n : k \in S
    BY <1>1, <1>3, <2>1, Induction
  <2>. QED
    BY <1>1, <2>2
<1>. QED
  BY <1>2, <1>5

-----------------------------------------------------------------------------
(* Ingestion.                                                               *)

IsIn(msg, msgs) == \E j \in DOMAIN msgs : msg = msgs[j]

IngestTypes ==
    /\ rows \in Seq(Row)
    /\ queue \in Seq(Message) /\ published \in Seq(Message) /\ ingested \in Seq(Message)

\* What waits was published, what is stored was cut from what was published, and what
\* was ingested is held.
IngestInv ==
    /\ IngestTypes
    /\ \A i \in DOMAIN queue : IsIn(queue[i], published)
    /\ \A i \in DOMAIN rows : \E msg \in Message :
          IsIn(msg, published) /\ \E k \in DOMAIN chunk_text(msg.doc) : rows[i] = RowOf(msg, k)
    /\ \A i \in DOMAIN ingested : \A k \in DOMAIN chunk_text(ingested[i].doc) :
          Held(rows, RowOf(ingested[i], k))

LEMMA IngestInit == KnowledgeInit => IngestInv
<1>. SUFFICES ASSUME KnowledgeInit PROVE IngestInv
  OBVIOUS
<1>1. DOMAIN <<>> = {}
  OBVIOUS
<1>. QED
  BY <1>1, EmptySeq DEF KnowledgeInit, IngestInv, IngestTypes

LEMMA PublishStep ==
    ASSUME IngestInv, NEW o \in Owner, NEW d \in Document, Publish(o, d)
    PROVE  IngestInv'
<1>. DEFINE msg == [owner |-> o, doc |-> d]
<1>1. /\ queue' = Append(queue, msg) /\ published' = Append(published, msg)
      /\ rows' = rows /\ ingested' = ingested /\ backend' = backend /\ msg \in Message
  BY DEF Publish, Message
<1>. HIDE DEF msg
<1>2. /\ rows' \in Seq(Row) /\ queue' \in Seq(Message) /\ published' \in Seq(Message)
      /\ ingested' \in Seq(Message)
  BY <1>1, AppendProperties DEF IngestInv, IngestTypes
<1>3. /\ DOMAIN published' = 1..Len(published) + 1 /\ published'[Len(published) + 1] = msg
      /\ \A j \in DOMAIN published : j \in DOMAIN published' /\ published'[j] = published[j]
      /\ Len(published) + 1 \in DOMAIN published'
  BY <1>1, AppendProperties, LenProperties DEF IngestInv, IngestTypes
<1>4. IsIn(msg, published') /\ \A m : IsIn(m, published) => IsIn(m, published')
  BY <1>3 DEF IsIn
<1>5. ASSUME NEW i \in DOMAIN queue' PROVE IsIn(queue'[i], published')
  <2>1. /\ DOMAIN queue' = 1..Len(queue) + 1 /\ queue'[Len(queue) + 1] = msg
        /\ \A j \in 1..Len(queue) : queue'[j] = queue[j]
        /\ DOMAIN queue = 1..Len(queue) /\ Len(queue) \in Nat
    BY <1>1, AppendProperties, LenProperties DEF IngestInv, IngestTypes
  <2>2. CASE i = Len(queue) + 1
    BY <1>4, <2>1, <2>2
  <2>3. CASE i \in 1..Len(queue)
    <3>1. queue'[i] = queue[i] /\ IsIn(queue[i], published)
      BY <2>1, <2>3 DEF IngestInv
    <3>. QED
      BY <1>4, <3>1
  <2>. QED
    BY <2>1, <2>2, <2>3
<1>6. ASSUME NEW i \in DOMAIN rows'
      PROVE  \E m \in Message :
                IsIn(m, published') /\ \E k \in DOMAIN chunk_text(m.doc) : rows'[i] = RowOf(m, k)
  <2>1. PICK m \in Message :
           IsIn(m, published) /\ \E k \in DOMAIN chunk_text(m.doc) : rows[i] = RowOf(m, k)
    BY <1>1 DEF IngestInv
  <2>. QED
    BY <1>1, <1>4, <2>1
<1>7. ASSUME NEW i \in DOMAIN ingested', NEW k \in DOMAIN chunk_text(ingested'[i].doc)
      PROVE  Held(rows, RowOf(ingested[i], k))'
  <2>1. Held(rows, RowOf(ingested[i], k))
    BY <1>1 DEF IngestInv
  <2>. QED
    BY <1>1, <2>1 DEF Held, StandsFor, RowOf
<1>. QED
  BY <1>2, <1>5, <1>6, <1>7 DEF IngestInv, IngestTypes

\* A message is taken and some of its chunks are written: all of them, if it is ingested.
LEMMA WriteStep ==
    ASSUME IngestInv, queue # <<>>, NEW n \in 0..Len(chunk_text(Head(queue).doc)),
           rows' = Stored(Head(queue), n), queue' = Tail(queue),
           backend' = backend, published' = published,
           \/ ingested' = ingested
           \/ ingested' = Append(ingested, Head(queue)) /\ n = Len(chunk_text(Head(queue).doc))
    PROVE  IngestInv'
<1>. DEFINE msg == Head(queue)
<1>1. rows \in Seq(Row) /\ queue \in Seq(Message) /\ ingested \in Seq(Message)
  BY DEF IngestInv, IngestTypes
<1>2. /\ msg \in Message /\ queue' \in Seq(Message) /\ Len(queue') = Len(queue) - 1
      /\ \A i \in 1..Len(queue') : queue'[i] = queue[i + 1]
      /\ Len(queue) \in Nat \ {0} /\ DOMAIN queue = 1..Len(queue) /\ DOMAIN queue' = 1..Len(queue')
      /\ msg = queue[1]
  BY <1>1, HeadTailProperties, LenProperties, EmptySeq
<1>. HIDE DEF msg
<1>3. \A m : IsIn(m, published') <=> IsIn(m, published)
  BY DEF IsIn
<1>4. IsIn(msg, published) /\ \A i \in DOMAIN queue' : IsIn(queue'[i], published)
  BY <1>2 DEF IngestInv
<1>5. Written(rows', msg, n)
  BY <1>1, <1>2, StoredIs DEF msg
<1>6. rows' \in Seq(Row) /\ \A x : Held(rows, x) => Held(rows', x)
  BY <1>5 DEF Written
<1>7. \A x : Held(rows, x)' <=> Held(rows', x)
  BY DEF Held, StandsFor
<1>8. DOMAIN chunk_text(msg.doc) = 1..Len(chunk_text(msg.doc)) /\ Len(chunk_text(msg.doc)) \in Nat
  BY <1>2, ChunksAre
<1>9. ASSUME NEW i \in DOMAIN rows'
      PROVE  \E m \in Message :
                IsIn(m, published) /\ \E k \in DOMAIN chunk_text(m.doc) : rows'[i] = RowOf(m, k)
  <2>1. CASE \E j \in DOMAIN rows : rows'[i] = rows[j]
    BY <2>1 DEF IngestInv
  <2>2. CASE \E k \in 1..n : rows'[i] = RowOf(msg, k)
    <3>1. PICK k \in 1..n : rows'[i] = RowOf(msg, k)
      BY <2>2
    <3>2. k \in DOMAIN chunk_text(msg.doc)
      BY <1>8 DEF msg
    <3>. QED
      BY <1>2, <1>4, <3>1, <3>2
  <2>. QED
    BY <1>5, <2>1, <2>2 DEF Written
<1>10. ASSUME NEW i \in DOMAIN ingested', NEW k \in DOMAIN chunk_text(ingested'[i].doc)
       PROVE  Held(rows', RowOf(ingested'[i], k))
  <2>1. CASE i \in DOMAIN ingested /\ ingested'[i] = ingested[i]
    BY <1>6, <2>1 DEF IngestInv
  <2>2. CASE ingested'[i] = msg /\ n = Len(chunk_text(msg.doc))
    BY <1>5, <1>8, <2>2 DEF Written
  <2>3. CASE ingested' = Append(ingested, msg) /\ n = Len(chunk_text(msg.doc))
    <3>1. /\ DOMAIN ingested' = 1..Len(ingested) + 1 /\ ingested'[Len(ingested) + 1] = msg
          /\ \A j \in 1..Len(ingested) : ingested'[j] = ingested[j]
          /\ DOMAIN ingested = 1..Len(ingested) /\ Len(ingested) \in Nat
      BY <1>1, <1>2, <2>3, AppendProperties, LenProperties
    <3>2. CASE i = Len(ingested) + 1
      BY <2>2, <2>3, <3>1, <3>2
    <3>3. CASE i \in 1..Len(ingested)
      BY <2>1, <3>1, <3>3
    <3>. QED
      BY <3>1, <3>2, <3>3
  <2>4. CASE ingested' = ingested
    BY <2>1, <2>4
  <2>. QED
    BY <2>3, <2>4 DEF msg
<1>11. ingested' \in Seq(Message)
  <2>1. Append(ingested, msg) \in Seq(Message)
    BY <1>1, <1>2, AppendProperties
  <2>. QED
    BY <1>1, <2>1 DEF msg
<1>12. published' \in Seq(Message)
  BY DEF IngestInv, IngestTypes
<1>. QED
  BY <1>2, <1>3, <1>4, <1>6, <1>7, <1>9, <1>10, <1>11, <1>12 DEF IngestInv, IngestTypes

LEMMA IngestNext == IngestInv /\ [KnowledgeNext]_knowledgeVars => IngestInv'
<1>. SUFFICES ASSUME IngestInv, [KnowledgeNext]_knowledgeVars PROVE IngestInv'
  OBVIOUS
<1>1. ASSUME NEW o \in Owner, NEW d \in Document, Publish(o, d) PROVE IngestInv'
  BY <1>1, PublishStep
<1>2. CASE start \/ Cancel \/ UNCHANGED knowledgeVars
  <2>1. UNCHANGED <<backend, queue, rows, published, ingested>>
    BY <1>2 DEF start, Cancel, knowledgeVars
  <2>. QED
    BY <2>1 DEF IngestInv, IngestTypes, IsIn, Held, StandsFor
<1>. DEFINE N == Len(chunk_text(Head(queue).doc))
<1>3. ASSUME queue # <<>> PROVE N \in Nat
  <2>1. Head(queue) \in Message
    BY <1>3, HeadTailProperties DEF IngestInv, IngestTypes
  <2>. QED
    BY <2>1, ChunksAre
<1>4. CASE _process
  <2>1. /\ queue # <<>> /\ rows' = Stored(Head(queue), N) /\ queue' = Tail(queue)
        /\ backend' = backend /\ published' = published /\ ingested' = Append(ingested, Head(queue))
    BY <1>4 DEF _process
  <2>2. N \in 0..N
    BY <1>3, <2>1
  <2>. QED
    BY <2>1, <2>2, WriteStep
<1>5. CASE ProcessRaises
  <2>1. /\ queue # <<>> /\ queue' = Tail(queue)
        /\ backend' = backend /\ published' = published /\ ingested' = ingested
    BY <1>5 DEF ProcessRaises
  <2>2. PICK n \in 0..N - 1 : rows' = Stored(Head(queue), n)
    BY <1>5 DEF ProcessRaises
  <2>3. n \in 0..N
    BY <1>3, <2>1
  <2>. QED
    BY <2>1, <2>2, <2>3, WriteStep
<1>. QED
  BY <1>1, <1>2, <1>4, <1>5 DEF KnowledgeNext

LEMMA IngestShows == IngestInv => IngestedIsSearchable
<1>. SUFFICES ASSUME IngestInv PROVE IngestedIsSearchable
  OBVIOUS
<1>1. /\ rows \in Seq(Row) /\ published \in Seq(Message) /\ ingested \in Seq(Message)
      /\ DOMAIN ingested = 1..Len(ingested) /\ DOMAIN published = 1..Len(published)
  BY LenProperties DEF IngestInv, IngestTypes
<1>2. ASSUME NEW m \in ToSet(ingested)
      PROVE  /\ ChunksCover(m.doc)
             /\ \A c \in ToSet(chunk_text(m.doc)) : \E found \in searched(m.owner) :
                    found = c \/ (backend = "pg" /\ headOf(found) = headOf(c))
  <2>1. PICK i \in DOMAIN ingested : m = ingested[i]
    BY <1>2 DEF ToSet
  <2>2. m \in Message
    BY <1>1, <2>1, ElementOfSeq
  <2>3. ChunksCover(m.doc)
    BY <2>2, Covered DEF Message
  <2>4. ASSUME NEW c \in ToSet(chunk_text(m.doc))
        PROVE  \E found \in searched(m.owner) :
                  found = c \/ (backend = "pg" /\ headOf(found) = headOf(c))
    <3>1. PICK k \in DOMAIN chunk_text(m.doc) : c = chunk_text(m.doc)[k]
      BY <2>4 DEF ToSet
    <3>2. Held(rows, RowOf(m, k))
      BY <2>1, <3>1 DEF IngestInv
    <3>3. PICK j \in DOMAIN rows : StandsFor(rows[j], RowOf(m, k))
      BY <3>2 DEF Held
    <3>4. rows[j].owner = m.owner /\ (rows[j].chunk = c \/ (backend = "pg" /\ headOf(rows[j].chunk) = headOf(c)))
      BY <3>1, <3>3 DEF StandsFor, RowOf
    <3>5. rows[j].chunk \in searched(m.owner)
      BY <3>4 DEF searched
    <3>. QED
      BY <3>4, <3>5
  <2>. QED
    BY <2>3, <2>4
<1>3. ASSUME NEW o \in Owner, NEW c \in searched(o)
      PROVE  \E m \in ToSet(published) : m.owner = o /\ c \in ToSet(chunk_text(m.doc))
  <2>1. PICK i \in DOMAIN rows : rows[i].owner = o /\ c = rows[i].chunk
    BY <1>3 DEF searched
  <2>2. PICK m \in Message :
           IsIn(m, published) /\ \E k \in DOMAIN chunk_text(m.doc) : rows[i] = RowOf(m, k)
    BY DEF IngestInv
  <2>3. m \in ToSet(published)
    BY <2>2 DEF IsIn, ToSet
  <2>4. m.owner = o /\ c \in ToSet(chunk_text(m.doc))
    BY <2>1, <2>2 DEF RowOf, ToSet
  <2>. QED
    BY <2>3, <2>4
<1>. QED
  BY <1>2, <1>3 DEF IngestedIsSearchable

\* The chunks of an ingested text are its units from the first to the last, none left out,
\* cut where chunk_text cuts them; each is found by a search of the text's owner, or in
\* PostgreSQL a chunk that begins the same, and no owner finds anything that was not
\* published for them, for any texts, chunk size, overlap and number of messages
\* (chunker.py:30, vector_store.py:122, ingest.py:36).
THEOREM IngestedTextsAreFound == KnowledgeSpec => []IngestedIsSearchable
<1>1. KnowledgeInit => IngestInv
  BY IngestInit
<1>2. IngestInv /\ [KnowledgeNext]_knowledgeVars => IngestInv'
  BY IngestNext
<1>3. IngestInv => IngestedIsSearchable
  BY IngestShows
<1>. QED
  BY <1>1, <1>2, <1>3, PTL DEF KnowledgeSpec

=============================================================================
