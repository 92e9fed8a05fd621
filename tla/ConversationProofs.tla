--------------------------- MODULE ConversationProofs ---------------------------
(***************************************************************************)
(* Proofs about the messages of a conversation: what the rounds of a run   *)
(* leave (AgentRounds) and what the store keeps of them (History), for     *)
(* every set of runs, conversations and calls, and every number of turns   *)
(* kept, rounds, retries, frames and crashes.  They come first with what   *)
(* both need of sequences: both models take some elements of a sequence    *)
(* (Only) and put sequences together (FlattenSeq).                         *)
(***************************************************************************)
EXTENDS History, AgentRounds, SequenceTheorems, FiniteSetTheorems,
        WellFoundedInduction, TLAPS

-----------------------------------------------------------------------------
(* Sequences.  What is computed element by element is reasoned about by    *)
(* the least number at which it would go wrong.                            *)
(*                                                                         *)
(* A nonempty set of numbers has a least element; ...                      *)
LEMMA LeastElement ==
  ASSUME NEW T \in SUBSET Nat, T # {}
  PROVE  \E n \in T : \A m \in T : n =< m
<1> DEFINE R == OpToRel(<, Nat)
<1>1. IsWellFoundedOn(R, Nat)
  BY NatLessThanWellFounded DEF OpToRel
<1>2. PICK n \in T : \A m \in T : <<m, n>> \notin R
  <2> HIDE DEF R
  <2> QED BY <1>1, WFMin
<1>3. \A m \in T : ~(m < n)
  BY <1>2 DEF OpToRel
<1> QED BY <1>3

(* ... so what holds at 0 and goes on to the next holds up to N.           *)
LEMMA CountUp ==
  ASSUME NEW N \in Nat, NEW T, 0 \in T, \A n \in 0..(N - 1) : n \in T => n + 1 \in T
  PROVE  0..N \subseteq T
<1> DEFINE U == (0..N) \ T
<1> SUFFICES ASSUME U # {} PROVE FALSE
  OBVIOUS
<1>1. U \in SUBSET Nat
  OBVIOUS
<1>2. PICK n \in U : \A m \in U : n =< m
  <2> HIDE DEF U
  <2> QED BY <1>1, LeastElement
<1>3. n - 1 \in 0..(N - 1) /\ n - 1 \in T
  BY <1>2
<1> QED BY <1>2, <1>3

(* What FlattenSeq computes on the way.                                    *)
Flattens(f, seqs, n) ==
    \A i \in 1..n : f[i] = IF i = 1 THEN seqs[i] ELSE f[i - 1] \o seqs[i]

(* For the first N sequences there is such an f, ...                       *)
LEMMA FlattenExists ==
  ASSUME NEW A, NEW seqs \in Seq(Seq(A)), NEW N \in Nat, N =< Len(seqs)
  PROVE  \E f \in [1..N -> Seq(A)] : Flattens(f, seqs, N)
<1> DEFINE T == {n \in Nat : \E f \in [1..n -> Seq(A)] : Flattens(f, seqs, n)}
<1>1. 0 \in T
  <2>1. [i \in 1..0 |-> <<>>] \in [1..0 -> Seq(A)]
    OBVIOUS
  <2>2. \A f : Flattens(f, seqs, 0)
    BY DEF Flattens
  <2> QED BY <2>1, <2>2
<1>2. ASSUME NEW n \in 0..(N - 1), n \in T PROVE n + 1 \in T
  <2>1. PICK f \in [1..n -> Seq(A)] : Flattens(f, seqs, n)
    BY <1>2
  <2>2. seqs[n + 1] \in Seq(A)
    BY ElementOfSeq
  <2>3. PICK last \in Seq(A) :
          last = IF n = 0 THEN seqs[1] ELSE f[n] \o seqs[n + 1]
    <3>1. CASE n = 0
      BY <2>2, <3>1
    <3>2. CASE n # 0
      <4>1. f[n] \in Seq(A)
        BY <3>2
      <4> QED BY <2>2, <3>2, <4>1, ConcatProperties
    <3> QED BY <3>1, <3>2
  <2> DEFINE g == [i \in 1..(n + 1) |-> IF i = n + 1 THEN last ELSE f[i]]
  <2>4. g \in [1..(n + 1) -> Seq(A)]
    OBVIOUS
  <2>5. g[n + 1] = last /\ \A i \in 1..n : g[i] = f[i]
    OBVIOUS
  <2>6. Flattens(g, seqs, n + 1)
    <3> SUFFICES ASSUME NEW i \in 1..(n + 1)
                 PROVE  g[i] = IF i = 1 THEN seqs[i] ELSE g[i - 1] \o seqs[i]
      BY DEF Flattens
    <3> HIDE DEF g
    <3>1. CASE i = n + 1
      <4>1. CASE n = 0
        BY <2>3, <2>5, <3>1, <4>1
      <4>2. CASE n # 0
        <5>1. g[i - 1] = f[n] /\ i # 1
          BY <2>5, <3>1, <4>2
        <5> QED BY <2>3, <2>5, <3>1, <4>2, <5>1
      <4> QED BY <4>1, <4>2
    <3>2. CASE i \in 1..n
      <4>1. i # 1 => i - 1 \in 1..n
        BY <3>2
      <4> QED BY <2>1, <2>5, <3>2, <4>1 DEF Flattens
    <3> QED BY <3>1, <3>2
  <2> QED
    <3> HIDE DEF g
    <3> QED BY <2>4, <2>6
<1>3. 0..N \subseteq T
  <2> HIDE DEF T
  <2> QED BY <1>1, <1>2, CountUp
<1> QED BY <1>3

(* ... it is determined by them, ...                                       *)
LEMMA FlattensOnce ==
  ASSUME NEW seqs, NEW n \in Nat \ {0}, NEW f, NEW g,
         Flattens(f, seqs, n), Flattens(g, seqs, n)
  PROVE  f[n] = g[n]
<1> DEFINE T == {m \in 0..n : m > 0 => f[m] = g[m]}
<1>1. 0 \in T
  OBVIOUS
<1>2. ASSUME NEW m \in 0..(n - 1), m \in T PROVE m + 1 \in T
  <2>1. f[m + 1] = IF m = 0 THEN seqs[1] ELSE f[m] \o seqs[m + 1]
    BY DEF Flattens
  <2>2. g[m + 1] = IF m = 0 THEN seqs[1] ELSE g[m] \o seqs[m + 1]
    BY DEF Flattens
  <2> QED BY <1>2, <2>1, <2>2
<1>3. 0..n \subseteq T
  <2> HIDE DEF T
  <2> n \in Nat OBVIOUS
  <2> QED BY <1>1, <1>2, CountUp
<1> QED BY <1>3

(* ... and FlattenSeq gives its last value.                                *)
LEMMA FlattenIs ==
  ASSUME NEW A, NEW seqs \in Seq(Seq(A)), seqs # <<>>,
         NEW f, Flattens(f, seqs, Len(seqs))
  PROVE  FlattenSeq(seqs) = f[Len(seqs)]
<1> DEFINE N == Len(seqs)
           Step(h) == [i \in 1..N |-> IF i = 1 THEN seqs[i] ELSE h[i - 1] \o seqs[i]]
           flatten == CHOOSE h : h = Step(h)
<1>1. N \in Nat \ {0}
  BY EmptySeq
<1>2. PICK e \in [1..N -> Seq(A)] : Flattens(e, seqs, N)
  BY <1>1, FlattenExists, SMTT(30)
<1>3. e = Step(e)
  BY <1>2 DEF Flattens
<1>4. flatten = Step(flatten)
  BY <1>3
<1>5. FlattenSeq(seqs) = flatten[N]
  BY <1>1 DEF FlattenSeq
<1>6. Flattens(flatten, seqs, N)
  <2> HIDE DEF flatten
  <2> QED BY <1>4 DEF Flattens
<1>7. flatten[N] = f[N]
  <2> HIDE DEF flatten
  <2> QED BY <1>1, <1>6, FlattensOnce
<1> QED BY <1>5, <1>7

LEMMA FlattenEmpty == FlattenSeq(<<>>) = <<>>
BY DEF FlattenSeq

(* What is flattened is a sequence of the same elements.                   *)
LEMMA FlattenType ==
  ASSUME NEW A, NEW seqs \in Seq(Seq(A))
  PROVE  FlattenSeq(seqs) \in Seq(A)
<1>1. CASE seqs = <<>>
  BY <1>1, FlattenEmpty, EmptySeq
<1>2. CASE seqs # <<>>
  <2>1. Len(seqs) \in Nat \ {0}
    BY <1>2, EmptySeq
  <2>2. PICK f \in [1..Len(seqs) -> Seq(A)] : Flattens(f, seqs, Len(seqs))
    BY <2>1, FlattenExists, SMTT(30)
  <2>3. Len(seqs) \in 1..Len(seqs)
    BY <2>1
  <2>4. f[Len(seqs)] \in Seq(A)
    BY <2>3
  <2>5. FlattenSeq(seqs) = f[Len(seqs)]
    BY <1>2, <2>2, FlattenIs
  <2> QED BY <2>4, <2>5
<1> QED BY <1>1, <1>2

(* One sequence more goes behind the others.                               *)
LEMMA FlattenAppend ==
  ASSUME NEW A, NEW seqs \in Seq(Seq(A)), NEW s \in Seq(A)
  PROVE  FlattenSeq(Append(seqs, s)) = FlattenSeq(seqs) \o s
<1> DEFINE all == Append(seqs, s)
           N == Len(seqs)
<1>1. /\ all \in Seq(Seq(A)) /\ all # <<>> /\ Len(all) = N + 1 /\ N \in Nat
      /\ \A i \in 1..N : all[i] = seqs[i]
      /\ all[N + 1] = s
  BY AppendProperties
<1> HIDE DEF all
<1> HIDE DEF N
<1>2. PICK f \in [1..(N + 1) -> Seq(A)] : Flattens(f, all, N + 1)
  <2>1. N + 1 \in Nat /\ N + 1 =< Len(all)
    BY <1>1
  <2> QED BY <1>1, <2>1, FlattenExists
<1>3. FlattenSeq(all) = f[N + 1]
  BY <1>1, <1>2, FlattenIs
<1>4. CASE seqs = <<>>
  <2>1. f[1] = s
    <3>1. N = 0
      BY <1>4 DEF N
    <3>2. 1 \in 1..(N + 1)
      BY <3>1
    <3>3. f[1] = all[1]
      BY <1>2, <3>2 DEF Flattens
    <3> QED BY <1>1, <3>1, <3>3
  <2> QED BY <1>1, <1>3, <1>4, <2>1, FlattenEmpty, ConcatEmptySeq, EmptySeq DEF all, N
<1>5. CASE seqs # <<>>
  <2>1. N \in Nat \ {0}
    BY <1>5, EmptySeq DEF N
  <2>2. f[N + 1] = f[N] \o s
    <3>1. N + 1 \in 1..(N + 1) /\ N + 1 # 1 /\ (N + 1) - 1 = N
      BY <2>1
    <3> QED BY <1>1, <1>2, <3>1 DEF Flattens
  <2>3. Flattens(f, seqs, N)
    <3> SUFFICES ASSUME NEW i \in 1..N
                 PROVE  f[i] = IF i = 1 THEN seqs[i] ELSE f[i - 1] \o seqs[i]
      BY DEF Flattens
    <3>1. i \in 1..(N + 1)
      BY <2>1
    <3>2. f[i] = IF i = 1 THEN all[i] ELSE f[i - 1] \o all[i]
      BY <1>2, <3>1 DEF Flattens
    <3> QED BY <1>1, <3>2
  <2>4. FlattenSeq(seqs) = f[N]
    BY <1>5, <2>3, FlattenIs DEF N
  <2> QED BY <1>3, <2>2, <2>4 DEF all
<1> QED BY <1>4, <1>5

(* Only: of nothing, nothing is left.                                      *)
LEMMA OnlyEmpty ==
  ASSUME NEW S
  PROVE  Only(<<>>, S) = <<>>
<1>1. [n \in DOMAIN <<>> |-> IF <<>>[n] \in S THEN <<<<>>[n]>> ELSE <<>>] = <<>>
  OBVIOUS
<1> QED BY <1>1, FlattenEmpty DEF Only

(* Short sequences and wider ranges.                                       *)
LEMMA OneElement ==
  ASSUME NEW A, NEW x \in A
  PROVE  <<x>> \in Seq(A)
OBVIOUS

LEMMA TwoElements ==
  ASSUME NEW A, NEW x \in A, NEW y \in A
  PROVE  <<x, y>> \in Seq(A)
OBVIOUS

LEMMA WiderSeq ==
  ASSUME NEW A, NEW B, A \subseteq B, NEW q \in Seq(A)
  PROVE  q \in Seq(B)
OBVIOUS

(* The pieces Only puts together, and what comes out.                      *)
LEMMA PiecesType ==
  ASSUME NEW A, NEW q \in Seq(A), NEW S
  PROVE  [n \in DOMAIN q |-> IF q[n] \in S THEN <<q[n]>> ELSE <<>>] \in Seq(Seq(A \cap S))
<1>1. DOMAIN q = 1..Len(q) /\ Len(q) \in Nat /\ \A n \in 1..Len(q) : q[n] \in A
  BY ElementOfSeq, LenProperties
<1>2. \A n \in 1..Len(q) : (IF q[n] \in S THEN <<q[n]>> ELSE <<>>) \in Seq(A \cap S)
  <2> TAKE n \in 1..Len(q)
  <2>1. CASE q[n] \in S
    <3>1. q[n] \in A \cap S
      BY <1>1, <2>1
    <3> QED BY <2>1, <3>1, OneElement
  <2>2. CASE q[n] \notin S
    BY <2>2, EmptySeq
  <2> QED BY <2>1, <2>2
<1>3. [n \in 1..Len(q) |-> IF q[n] \in S THEN <<q[n]>> ELSE <<>>]
        \in [1..Len(q) -> Seq(A \cap S)]
  BY <1>2
<1> QED BY <1>1, <1>3, IsASeq

LEMMA OnlyType ==
  ASSUME NEW A, NEW q \in Seq(A), NEW S
  PROVE  Only(q, S) \in Seq(A \cap S)
BY PiecesType, FlattenType DEF Only

(* One element more: it stays if it is in S.                               *)
LEMMA OnlyAppend ==
  ASSUME NEW A, NEW q \in Seq(A), NEW x \in A, NEW S
  PROVE  Only(Append(q, x), S) = IF x \in S THEN Append(Only(q, S), x) ELSE Only(q, S)
<1> DEFINE piece(y) == IF y \in S THEN <<y>> ELSE <<>>
           parts(w) == [n \in DOMAIN w |-> piece(w[n])]
           all == Append(q, x)
<1>1. /\ Len(q) \in Nat /\ all \in Seq(A) /\ Len(all) = Len(q) + 1
      /\ DOMAIN q = 1..Len(q) /\ DOMAIN all = 1..(Len(q) + 1)
      /\ \A n \in 1..Len(q) : all[n] = q[n]
      /\ all[Len(q) + 1] = x
  BY AppendProperties, LenProperties
<1>2. parts(q) \in Seq(Seq(A \cap S)) /\ parts(all) \in Seq(Seq(A \cap S))
  <2>1. all \in Seq(A)
    BY <1>1
  <2> HIDE DEF all
  <2> QED BY <2>1, PiecesType
<1>3. piece(x) \in Seq(A \cap S)
  <2>1. CASE x \in S
    <3>1. x \in A \cap S
      BY <2>1
    <3> QED BY <2>1, <3>1, OneElement
  <2>2. CASE x \notin S
    BY <2>2, EmptySeq
  <2> QED BY <2>1, <2>2
<1>4. parts(all) = Append(parts(q), piece(x))
  <2> DEFINE both == Append(parts(q), piece(x))
  <2>1. /\ DOMAIN parts(all) = 1..(Len(q) + 1)
        /\ \A n \in 1..(Len(q) + 1) : parts(all)[n] = piece(all[n])
        /\ DOMAIN parts(q) = 1..Len(q) /\ Len(parts(q)) = Len(q)
        /\ \A n \in 1..Len(q) : parts(q)[n] = piece(q[n])
    <3> HIDE DEF all, piece
    <3>1. DOMAIN parts(q) = 1..Len(q)
      BY <1>1
    <3> QED BY <1>1, <1>2, <3>1, LenProperties
  <2> HIDE DEF parts, piece, all
  <2>2. /\ DOMAIN both = 1..(Len(q) + 1)
        /\ \A n \in 1..Len(q) : both[n] = parts(q)[n]
        /\ both[Len(q) + 1] = piece(x)
        /\ both \in Seq(Seq(A \cap S))
    BY <1>2, <1>3, <2>1, AppendProperties, LenProperties
  <2>3. \A n \in 1..(Len(q) + 1) : both[n] = parts(all)[n]
    <3> TAKE n \in 1..(Len(q) + 1)
    <3>1. CASE n \in 1..Len(q)
      BY <1>1, <2>1, <2>2, <3>1
    <3>2. CASE n = Len(q) + 1
      <4>1. n \notin 1..Len(q) /\ n \in 1..(Len(q) + 1)
        BY <1>1, <3>2
      <4>2. all[n] = x /\ both[n] = piece(x)
        BY <1>1, <2>2, <3>2
      <4> QED BY <2>1, <4>1, <4>2
    <3>3. n \in 1..Len(q) \/ n = Len(q) + 1
      BY <1>1
    <3> QED BY <3>1, <3>2, <3>3
  <2> QED BY <1>2, <2>1, <2>2, <2>3, SeqEqual, LenProperties
<1>5. FlattenSeq(parts(all)) = FlattenSeq(parts(q)) \o piece(x)
  <2> HIDE DEF parts, piece, all
  <2> QED BY <1>2, <1>3, <1>4, FlattenAppend
<1>6. Only(all, S) = FlattenSeq(parts(all)) /\ Only(q, S) = FlattenSeq(parts(q))
  BY DEF Only
<1>7. Only(q, S) \in Seq(A)
  <2>1. Only(q, S) \in Seq(A \cap S)
    BY OnlyType
  <2>2. A \cap S \subseteq A
    OBVIOUS
  <2> HIDE DEF all
  <2> QED BY <2>1, <2>2, WiderSeq
<1>8. Only(all, S) = Only(q, S) \o piece(x)
  BY <1>5, <1>6
<1> HIDE DEF all
<1> QED BY <1>7, <1>8, ConcatEmptySeq, AppendIsConcat DEF all

(* Sets that agree on the elements leave the same.                         *)
LEMMA OnlySame ==
  ASSUME NEW q, NEW S, NEW R, \A n \in DOMAIN q : q[n] \in S <=> q[n] \in R
  PROVE  Only(q, S) = Only(q, R)
BY DEF Only

(* Appending to the second of two sequences put together.                  *)
LEMMA AppendBehind ==
  ASSUME NEW A, NEW p \in Seq(A), NEW q \in Seq(A), NEW x \in A
  PROVE  Append(p \o q, x) = p \o Append(q, x)
<1>1. p \o q \in Seq(A) /\ <<x>> \in Seq(A)
  BY ConcatProperties, OneElement
<1>2. Append(p \o q, x) = (p \o q) \o <<x>> /\ Append(q, x) = q \o <<x>>
  BY <1>1, AppendIsConcat
<1> QED BY <1>1, <1>2, ConcatAssociative

(* One element more of a sequence.                                         *)
LEMMA PrefixGrows ==
  ASSUME NEW A, NEW q \in Seq(A)
  PROVE  /\ Len(q) \in Nat
         /\ SubSeq(q, 1, 0) = <<>>
         /\ SubSeq(q, 1, Len(q)) = q
         /\ \A n \in 0..Len(q) : SubSeq(q, 1, n) \in Seq(A) /\ Len(SubSeq(q, 1, n)) = n
                                 /\ \A i \in 1..n : SubSeq(q, 1, n)[i] = q[i]
         /\ \A n \in 0..(Len(q) - 1) :
              n + 1 \in 1..Len(q) /\ SubSeq(q, 1, n + 1) = Append(SubSeq(q, 1, n), q[n + 1])
  OBVIOUS

(* If every element is in S all of them stay, ...                          *)
LEMMA OnlyAll ==
  ASSUME NEW A, NEW q \in Seq(A), NEW S, \A n \in 1..Len(q) : q[n] \in S
  PROVE  Only(q, S) = q
<1> DEFINE T == {n \in 0..Len(q) : Only(SubSeq(q, 1, n), S) = SubSeq(q, 1, n)}
<1>1. 0 \in T
  <2>1. SubSeq(q, 1, 0) = <<>> /\ 0 \in 0..Len(q)
    BY PrefixGrows
  <2> QED BY <2>1, OnlyEmpty
<1>2. ASSUME NEW n \in 0..(Len(q) - 1), n \in T PROVE n + 1 \in T
  <2> DEFINE w == SubSeq(q, 1, n)
             x == q[n + 1]
  <2>1. /\ x \in A /\ x \in S /\ n + 1 \in 0..Len(q) /\ w \in Seq(A)
        /\ SubSeq(q, 1, n + 1) = Append(w, x)
    BY PrefixGrows, ElementOfSeq
  <2>2. Only(w, S) = w
    BY <1>2
  <2> HIDE DEF w, x
  <2>3. Only(Append(w, x), S) = Append(w, x)
    BY <2>1, <2>2, OnlyAppend
  <2> QED BY <2>1, <2>3
<1>3. 0..Len(q) \subseteq T
  <2> HIDE DEF T
  <2> QED BY <1>1, <1>2, CountUp, PrefixGrows
<1>4. Len(q) \in T
  <2> HIDE DEF T
  <2> QED BY <1>3, PrefixGrows
<1> QED BY <1>4, PrefixGrows

(* ... and if none is, none.                                               *)
LEMMA OnlyNone ==
  ASSUME NEW A, NEW q \in Seq(A), NEW S, \A n \in DOMAIN q : q[n] \notin S
  PROVE  Only(q, S) = <<>>
<1>1. Only(q, S) = Only(q, {})
  BY OnlySame
<1>2. Only(q, {}) \in Seq(A \cap {})
  BY OnlyType
<1>3. A \cap {} = {}
  OBVIOUS
<1>4. ASSUME NEW o \in Seq({}) PROVE o = <<>>
  <2> SUFFICES ASSUME o # <<>> PROVE FALSE
    OBVIOUS
  <2>1. Len(o) \in Nat \ {0}
    BY EmptySeq
  <2>2. 1 \in 1..Len(o)
    BY <2>1
  <2> QED BY <2>2, ElementOfSeq
<1> QED BY <1>1, <1>2, <1>3, <1>4

(* Two sequences may be gone through one after the other.                  *)
LEMMA OnlyConcat ==
  ASSUME NEW A, NEW p \in Seq(A), NEW q \in Seq(A), NEW S
  PROVE  Only(p \o q, S) = Only(p, S) \o Only(q, S)
<1> DEFINE T == {n \in 0..Len(q) : Only(p \o SubSeq(q, 1, n), S)
                                     = Only(p, S) \o Only(SubSeq(q, 1, n), S)}
<1>1. 0 \in T
  <2>1. Only(p, S) \in Seq(A \cap S)
    BY OnlyType
  <2>2. SubSeq(q, 1, 0) = <<>> /\ 0 \in 0..Len(q) /\ p \o <<>> = p
    BY PrefixGrows, ConcatEmptySeq
  <2>3. Only(p, S) \o <<>> = Only(p, S)
    BY <2>1, ConcatEmptySeq
  <2> QED BY <2>2, <2>3, OnlyEmpty
<1>2. ASSUME NEW n \in 0..(Len(q) - 1), n \in T PROVE n + 1 \in T
  <2> DEFINE w == SubSeq(q, 1, n)
             x == q[n + 1]
  <2>1. /\ x \in A /\ n + 1 \in 0..Len(q) /\ w \in Seq(A)
        /\ SubSeq(q, 1, n + 1) = Append(w, x)
    BY PrefixGrows, ElementOfSeq
  <2>2. Only(p \o w, S) = Only(p, S) \o Only(w, S)
    BY <1>2
  <2> HIDE DEF w, x
  <2>3. p \o Append(w, x) = Append(p \o w, x) /\ p \o w \in Seq(A)
    BY <2>1
  <2>4. Only(p \o Append(w, x), S) = IF x \in S THEN Append(Only(p \o w, S), x)
                                     ELSE Only(p \o w, S)
    BY <2>1, <2>3, OnlyAppend, ZenonT(30)
  <2>5. Only(Append(w, x), S) = IF x \in S THEN Append(Only(w, S), x) ELSE Only(w, S)
    BY <2>1, OnlyAppend
  <2>6. Only(p, S) \in Seq(A \cap S) /\ Only(w, S) \in Seq(A \cap S)
    BY <2>1, OnlyType
  <2>7. x \in S => Append(Only(p, S) \o Only(w, S), x) = Only(p, S) \o Append(Only(w, S), x)
    <3> SUFFICES ASSUME x \in S
                 PROVE  Append(Only(p, S) \o Only(w, S), x) = Only(p, S) \o Append(Only(w, S), x)
      OBVIOUS
    <3> DEFINE B == A \cap S
               u == Only(p, S)
               v == Only(w, S)
    <3>1. x \in B /\ u \in Seq(B) /\ v \in Seq(B)
      BY <2>1, <2>6
    <3> HIDE DEF B, u, v
    <3>2. Append(u \o v, x) = u \o Append(v, x)
      BY <3>1, AppendBehind, SMTT(30)
    <3> QED BY <3>2 DEF u, v
  <2>8. Only(p \o Append(w, x), S) = Only(p, S) \o Only(Append(w, x), S)
    BY <2>2, <2>4, <2>5, <2>7
  <2> QED BY <2>1, <2>8
<1>3. 0..Len(q) \subseteq T
  <2> HIDE DEF T
  <2> QED BY <1>1, <1>2, CountUp, PrefixGrows
<1>4. Len(q) \in T
  <2> HIDE DEF T
  <2> QED BY <1>3, PrefixGrows
<1> QED BY <1>4, PrefixGrows

(* Nothing comes out that did not go in, and nothing twice.                *)
Distinct(q) == \A i, j \in DOMAIN q : q[i] = q[j] => i = j
LEMMA OnlyFrom ==
  ASSUME NEW A, NEW q \in Seq(A), NEW S
  PROVE  \A k \in DOMAIN Only(q, S) : \E i \in DOMAIN q : q[i] = Only(q, S)[k]
<1> DEFINE w(n) == SubSeq(q, 1, n)
           T == {n \in 0..Len(q) : \A k \in DOMAIN Only(w(n), S) :
                                     \E i \in 1..n : q[i] = Only(w(n), S)[k]}
<1>1. 0 \in T
  <2>1. SubSeq(q, 1, 0) = <<>> /\ 0 \in 0..Len(q)
    BY PrefixGrows
  <2>2. Only(w(0), S) = <<>>
    BY <2>1, OnlyEmpty
  <2> QED BY <2>1, <2>2
<1>2. ASSUME NEW n \in 0..(Len(q) - 1), n \in T PROVE n + 1 \in T
  <2>1. /\ q[n + 1] \in A /\ n + 1 \in 0..Len(q) /\ w(n) \in Seq(A)
        /\ w(n + 1) = Append(w(n), q[n + 1])
    BY PrefixGrows, ElementOfSeq
  <2>2. \A k \in DOMAIN Only(w(n), S) : \E i \in 1..n : q[i] = Only(w(n), S)[k]
    BY <1>2
  <2> HIDE DEF w
  <2>3. Only(w(n + 1), S) = IF q[n + 1] \in S THEN Append(Only(w(n), S), q[n + 1])
                            ELSE Only(w(n), S)
    <3> DEFINE x == q[n + 1]
               u == w(n)
    <3>1. x \in A /\ u \in Seq(A) /\ w(n + 1) = Append(u, x)
      BY <2>1
    <3> HIDE DEF x, u
    <3>2. Only(Append(u, x), S) = IF x \in S THEN Append(Only(u, S), x) ELSE Only(u, S)
      BY <3>1, OnlyAppend
    <3> QED BY <3>1, <3>2 DEF x, u
  <2>4. Only(w(n), S) \in Seq(A \cap S)
    BY <2>1, OnlyType
  <2>5. ASSUME NEW k \in DOMAIN Only(w(n + 1), S)
        PROVE  \E i \in 1..(n + 1) : q[i] = Only(w(n + 1), S)[k]
    <3>1. CASE q[n + 1] \notin S
      BY <2>2, <2>3, <3>1
    <3>2. CASE q[n + 1] \in S /\ k \in DOMAIN Only(w(n), S)
      <4>1. Append(Only(w(n), S), q[n + 1])[k] = Only(w(n), S)[k]
        BY <2>1, <2>4, <3>2
      <4>2. PICK i \in 1..n : q[i] = Only(w(n), S)[k]
        BY <2>2, <3>2
      <4> QED BY <2>3, <3>2, <4>1, <4>2
    <3>3. CASE q[n + 1] \in S /\ k \notin DOMAIN Only(w(n), S)
      <4>1. Append(Only(w(n), S), q[n + 1])[k] = q[n + 1]
        BY <2>1, <2>3, <2>4, <3>3
      <4> QED BY <2>3, <3>3, <4>1
    <3> QED BY <3>1, <3>2, <3>3
  <2> QED BY <2>1, <2>5
<1>3. 0..Len(q) \subseteq T
  <2> HIDE DEF T
  <2> QED BY <1>1, <1>2, CountUp, PrefixGrows
<1>4. Len(q) \in T
  <2> HIDE DEF T
  <2> QED BY <1>3, PrefixGrows
<1>5. w(Len(q)) = q
  BY PrefixGrows
<1> HIDE DEF w
<1> QED BY <1>4, <1>5

LEMMA OnlyDistinct ==
  ASSUME NEW A, NEW q \in Seq(A), NEW S,
         \A i, j \in DOMAIN q : q[i] = q[j] /\ q[i] \in S => i = j
  PROVE  Distinct(Only(q, S))
<1> DEFINE w(n) == SubSeq(q, 1, n)
           T == {n \in 0..Len(q) : Distinct(Only(w(n), S))}
<1>1. 0 \in T
  <2>1. SubSeq(q, 1, 0) = <<>> /\ 0 \in 0..Len(q)
    BY PrefixGrows
  <2>2. Only(w(0), S) = <<>>
    BY <2>1, OnlyEmpty
  <2> QED BY <2>1, <2>2 DEF Distinct
<1>2. ASSUME NEW n \in 0..(Len(q) - 1), n \in T PROVE n + 1 \in T
  <2>1. /\ q[n + 1] \in A /\ n + 1 \in 0..Len(q) /\ w(n) \in Seq(A)
        /\ w(n + 1) = Append(w(n), q[n + 1])
        /\ DOMAIN w(n) = 1..n /\ \A i \in 1..n : w(n)[i] = q[i]
    BY PrefixGrows, ElementOfSeq, LenProperties
  <2>2. Distinct(Only(w(n), S))
    BY <1>2
  <2> HIDE DEF w
  <2>3. Only(w(n + 1), S) = IF q[n + 1] \in S THEN Append(Only(w(n), S), q[n + 1])
                            ELSE Only(w(n), S)
    <3> DEFINE x == q[n + 1]
               u == w(n)
    <3>1. x \in A /\ u \in Seq(A) /\ w(n + 1) = Append(u, x)
      BY <2>1
    <3> HIDE DEF x, u
    <3>2. Only(Append(u, x), S) = IF x \in S THEN Append(Only(u, S), x) ELSE Only(u, S)
      BY <3>1, OnlyAppend
    <3> QED BY <3>1, <3>2 DEF x, u
  <2>4. Only(w(n), S) \in Seq(A \cap S)
    BY <2>1, OnlyType
  <2>5. q[n + 1] \in S => \A k \in DOMAIN Only(w(n), S) : Only(w(n), S)[k] # q[n + 1]
    <3> SUFFICES ASSUME q[n + 1] \in S, NEW k \in DOMAIN Only(w(n), S),
                        Only(w(n), S)[k] = q[n + 1]
                 PROVE  FALSE
      OBVIOUS
    <3>1. PICK i \in DOMAIN w(n) : w(n)[i] = Only(w(n), S)[k]
      BY <2>1, OnlyFrom
    <3>2. i \in 1..n /\ q[i] = q[n + 1] /\ i \in DOMAIN q /\ n + 1 \in DOMAIN q
      BY <2>1, <3>1, PrefixGrows
    <3> QED BY <3>2
  <2>6. Distinct(Only(w(n + 1), S))
    <3>1. CASE q[n + 1] \notin S
      BY <2>2, <2>3, <3>1
    <3>2. CASE q[n + 1] \in S
      <4> DEFINE o == Only(w(n), S)
                 x == q[n + 1]
      <4>1. o \in Seq(A) /\ x \in A /\ (\A k \in DOMAIN o : o[k] # x) /\ Distinct(o)
            /\ Only(w(n + 1), S) = Append(o, x)
        BY <2>1, <2>2, <2>3, <2>4, <2>5, <3>2
      <4> HIDE DEF o, x
      <4> QED BY <4>1 DEF Distinct
    <3> QED BY <3>1, <3>2
  <2> QED BY <2>1, <2>6
<1>3. 0..Len(q) \subseteq T
  <2> HIDE DEF T
  <2> QED BY <1>1, <1>2, CountUp, PrefixGrows
<1>4. Len(q) \in T
  <2> HIDE DEF T
  <2> QED BY <1>3, PrefixGrows
<1>5. w(Len(q)) = q
  BY PrefixGrows
<1> HIDE DEF w
<1> QED BY <1>4, <1>5

(* A nonempty set of positions has a highest one, ...                      *)
LEMMA Highest ==
  ASSUME NEW N \in Nat, NEW T \in SUBSET (1..N), T # {}
  PROVE  \E n \in T : \A m \in T : m =< n
<1> DEFINE U == {N - m : m \in T}
<1>1. U \in SUBSET Nat /\ U # {}
  <2>1. \A m \in T : N - m \in Nat
    OBVIOUS
  <2> QED BY <2>1
<1>2. PICK u \in U : \A v \in U : u =< v
  <2> HIDE DEF U
  <2> QED BY <1>1, LeastElement
<1>3. PICK n \in T : u = N - n
  BY <1>2
<1>4. \A m \in T : N - n =< N - m
  BY <1>2, <1>3
<1> QED BY <1>4

(* ... and for any smaller count one with so many above it.                *)
LEMMA FromTheTop ==
  ASSUME NEW N \in Nat, NEW T \in SUBSET (1..N), NEW K \in Nat, K < Cardinality(T)
  PROVE  \E i \in T : Cardinality({j \in T : j > i}) = K
<1> DEFINE above(i) == {j \in T : j > i}
           U == {n \in 0..K : \E i \in T : Cardinality(above(i)) = n}
<1>1. IsFiniteSet(T) /\ Cardinality(T) \in Nat
  <2>1. IsFiniteSet(1..N)
    BY FS_Interval
  <2> QED BY <2>1, FS_Subset, FS_CardinalityType
<1>2. ASSUME NEW i \in T PROVE IsFiniteSet(above(i)) /\ i \notin above(i)
  <2>1. above(i) \in SUBSET T
    OBVIOUS
  <2>2. i \notin above(i)
    OBVIOUS
  <2> HIDE DEF above
  <2> QED BY <1>1, <2>1, <2>2, FS_Subset
<1>3. 0 \in U
  <2>1. T # {}
    BY FS_EmptySet
  <2>2. PICK i \in T : \A m \in T : m =< i
    BY <2>1, Highest
  <2>3. above(i) = {}
    <3>1. \A m \in T : ~(m > i)
      BY <2>2
    <3> QED BY <3>1
  <2>4. Cardinality(above(i)) = 0
    BY <2>3, FS_EmptySet
  <2> QED BY <2>4
<1>4. ASSUME NEW n \in 0..(K - 1), n \in U PROVE n + 1 \in U
  <2>1. PICK i \in T : Cardinality(above(i)) = n
    BY <1>4
  <2> DEFINE below == {j \in T : j < i}
  <2>2. IsFiniteSet(above(i) \union {i}) /\ Cardinality(above(i) \union {i}) = n + 1
    <3> HIDE DEF above
    <3> QED BY <1>2, <2>1, FS_AddElement
  <2>3. below # {}
    <3> SUFFICES ASSUME below = {} PROVE FALSE
      OBVIOUS
    <3>1. T = above(i) \union {i}
      <4>1. \A j \in T : j > i \/ j = i
        <5> TAKE j \in T
        <5>1. ~(j < i) /\ i \in Nat /\ j \in Nat
          OBVIOUS
        <5> QED BY <5>1
      <4> QED BY <4>1
    <3>2. Cardinality(T) = n + 1
      <4> HIDE DEF above
      <4> QED BY <2>2, <3>1
    <3> QED BY <1>1, <3>2
  <2>4. below \in SUBSET (1..N)
    OBVIOUS
  <2>5. PICK k \in below : \A m \in below : m =< k
    <3> HIDE DEF below
    <3> QED BY <2>3, <2>4, Highest
  <2>6. above(k) = above(i) \union {i} /\ k \in T
    <3>1. k \in T /\ k < i /\ k \in Nat /\ i \in Nat
      BY <2>5
    <3>2. \A j \in T : j > k <=> j > i \/ j = i
      <4> TAKE j \in T
      <4>1. j \in Nat /\ (j < i => j =< k)
        BY <2>5
      <4> QED BY <3>1, <4>1
    <3> QED BY <3>1, <3>2
  <2>7. Cardinality(above(k)) = n + 1 /\ n + 1 \in 0..K
    <3> HIDE DEF above
    <3> QED BY <2>2, <2>6
  <2> HIDE DEF above
  <2> QED BY <2>6, <2>7
<1>5. 0..K \subseteq U
  <2> HIDE DEF U
  <2> QED BY <1>3, <1>4, CountUp
<1> QED BY <1>5

(* One element behind a single one.                                        *)
LEMMA AppendToOne ==
  ASSUME NEW A, NEW o \in Seq(A), Len(o) = 1, NEW v \in A
  PROVE  /\ Append(o, v) \in Seq(A) /\ Len(Append(o, v)) = 2
         /\ Append(o, v)[1] = o[1] /\ Append(o, v)[2] = v
<1>1. Append(o, v) \in Seq(A) /\ Len(Append(o, v)) = Len(o) + 1
  BY AppendProperties
<1>2. \A i \in 1..Len(o) : Append(o, v)[i] = o[i]
  BY AppendProperties
<1>3. Append(o, v)[Len(o) + 1] = v
  BY AppendProperties
<1> QED BY <1>1, <1>2, <1>3

(* The pieces of a pair.                                                   *)
LEMMA Pairs ==
  ASSUME NEW u, NEW v
  PROVE  /\ SubSeq(<<u, v>>, 1, 0) = <<>> /\ SubSeq(<<u, v>>, 1, 1) = <<u>>
         /\ <<>> \o <<>> = <<>> /\ <<>> \o <<v>> = <<v>>
         /\ <<u>> \o <<>> = <<u>> /\ <<u>> \o <<v>> = <<u, v>>
<1> DEFINE A == {u, v}
           q == <<u, v>>
<1>1. q \in Seq(A) /\ <<u>> \in Seq(A) /\ Len(q) = 2 /\ q[1] = u /\ q[2] = v
  BY TwoElements, OneElement
<1>2. SubSeq(q, 1, 1) = <<u>>
  <2>1. SubSeq(q, 1, 1) \in Seq(A) /\ Len(SubSeq(q, 1, 1)) = 1 /\ SubSeq(q, 1, 1)[1] = q[1]
    <3> HIDE DEF q, A
    <3>1. 1 \in 0..Len(q) /\ 1 \in 1..1
      BY <1>1
    <3> QED BY <1>1, <3>1, PrefixGrows
  <2>2. Len(<<u>>) = 1 /\ <<u>>[1] = u
    OBVIOUS
  <2> HIDE DEF q, A
  <2>3. \A i \in 1..1 : SubSeq(q, 1, 1)[i] = <<u>>[i]
    BY <1>1, <2>1, <2>2
  <2> QED BY <1>1, <2>1, <2>2, <2>3, SeqEqual
<1>3. <<u>> \o <<v>> = q
  <2>1. Append(<<u>>, v) = <<u>> \o <<v>>
    BY <1>1, AppendIsConcat
  <2> DEFINE o == <<u>>
  <2>2. o \in Seq(A) /\ Len(o) = 1 /\ o[1] = u /\ v \in A
    BY <1>1
  <2> HIDE DEF o, q, A
  <2>3. /\ Append(o, v) \in Seq(A) /\ Len(Append(o, v)) = 2
        /\ Append(o, v)[1] = u /\ Append(o, v)[2] = v
    BY <2>2, AppendToOne
  <2>4. \A i \in 1..2 : Append(o, v)[i] = q[i]
    <3>1. \A i \in 1..2 : i = 1 \/ i = 2
      OBVIOUS
    <3> QED BY <1>1, <2>3, <3>1
  <2>5. Append(o, v) = q
    BY <1>1, <2>3, <2>4, SeqEqual
  <2> QED BY <2>1, <2>5 DEF o
<1>4. /\ SubSeq(q, 1, 0) = <<>> /\ <<>> \o <<>> = <<>>
      /\ <<>> \o <<v>> = <<v>> /\ <<u>> \o <<>> = <<u>>
  OBVIOUS
<1> QED BY <1>2, <1>3, <1>4

(* Type, length and elements of a slice.                                   *)
LEMMA SliceType ==
  ASSUME NEW A, NEW q \in Seq(A), NEW m \in Nat, NEW n \in Nat, m > 0, n =< Len(q)
  PROVE  /\ SubSeq(q, m, n) \in Seq(A)
         /\ Len(SubSeq(q, m, n)) = IF m =< n THEN n - m + 1 ELSE 0
         /\ \A i \in 1..(n - m + 1) : SubSeq(q, m, n)[i] = q[m + i - 1]
<1>1. \A i \in m..n : q[i] \in A
  <2> TAKE i \in m..n
  <2>1. i \in 1..Len(q)
    BY LenProperties
  <2> QED BY <2>1, ElementOfSeq
<1> QED BY <1>1, SubSeqProperties

-----------------------------------------------------------------------------
(* The store (History).                                                    *)
(*                                                                         *)
(* What a file holds for good: all but a last line that lacks its newline, *)
(* which the next append may garble.                                       *)
Solid(s) == IF s \in unended THEN SubSeq(jsonl[s], 1, Len(jsonl[s]) - 1)
            ELSE jsonl[s]
Firm(s)  == Only(Solid(s), Entry)

(* A text is that of the first entries it counts, and those stay; in a     *)
(* file that is not cut short a user message comes behind them.            *)
CoversIt(s, upto, text) ==
    /\ upto \in 1..Len(Firm(s))
    /\ text = SubSeq(Firm(s), 1, upto)
    /\ s \notin cutShort =>
         upto < Len(jsonl[s]) /\ jsonl[s][upto + 1].role = "user"

(* The inductive invariant.  A run that has begun has a conversation, and  *)
(* what is not minted yet has no files; ...                                *)
HistorySessioned ==
    \A r \in Runs : run[r].pc # "idle" => run[r].session \in minted

HistoryUnminted ==
    \A s \in Sessions \ minted :
        jsonl[s] = <<>> /\ s \notin unended /\ summary[s] = None

(* ... an entry is of a run that is over and is there once, since an       *)
(* append is the end of its run; ...                                       *)
LinesOnce ==
    \A s \in Sessions : \A i \in DOMAIN jsonl[s] : jsonl[s][i] \in Entry =>
        /\ run[jsonl[s][i].run].pc = "ended"
        /\ \A j \in DOMAIN jsonl[s] : jsonl[s][i] = jsonl[s][j] => i = j

(* ... a file no write was cut short in is entries only, whole turns from  *)
(* the first on; ...                                                       *)
WholeFile(s) ==
    /\ s \notin unended
    /\ jsonl[s] \in Seq(Entry)
    /\ jsonl[s] # <<>> => jsonl[s][1].role = "user"
    /\ \A i \in DOMAIN jsonl[s] : jsonl[s][i].role = "user" =>
         i < Len(jsonl[s]) /\ jsonl[s][i + 1] = Turn(jsonl[s][i].run)[2]

WholeFiles == \A s \in Sessions \ cutShort : WholeFile(s)

(* ... and what a summary covers, the one that is saved or one the model   *)
(* is writing, is a prefix.  It must be one of the firm part: an entry     *)
(* without its newline may still be garbled by the next append.            *)
SummariesFit ==
    \A s \in index.sessions :
        /\ summary[s] # None => CoversIt(s, summary[s].upto, summary[s].text)
        /\ \A r \in Runs : run[r].pc = "compacting" /\ run[r].session = s =>
             CoversIt(s, run[r].upto, run[r].text)

HistoryIInv ==
    /\ HistoryTypeOK /\ HistorySessioned /\ HistoryUnminted
    /\ LinesOnce /\ WholeFiles /\ SummariesFit

(* The cut is at a user message, so it leaves one behind itself.           *)
LEMMA CutIsATurn ==
  ASSUME NEW es \in Seq(Entry)
  PROVE  /\ Cut(es) \in Nat
         /\ Cut(es) > 0 => Cut(es) + 1 \in DOMAIN es /\ es[Cut(es) + 1].role = "user"
<1> DEFINE T == TurnStarts(es)
           recent == {i \in T : Cardinality({j \in T : j > i}) = KeepTurns - 1}
<1>1. CASE Cardinality(T) <= KeepTurns
  BY <1>1 DEF Cut
<1>2. CASE ~(Cardinality(T) <= KeepTurns)
  <2>1. T \in SUBSET (1..Len(es)) /\ Len(es) \in Nat /\ DOMAIN es = 1..Len(es)
    BY LenProperties DEF TurnStarts
  <2>2. KeepTurns - 1 \in Nat /\ KeepTurns - 1 < Cardinality(T)
    <3>1. IsFiniteSet(1..Len(es))
      BY <2>1, FS_Interval
    <3>2. Cardinality(T) \in Nat
      BY <2>1, <3>1, FS_Subset, FS_CardinalityType
    <3> QED BY <1>2, <3>2, HistoryAssumption
  <2>3. recent # {}
    <3> DEFINE K == KeepTurns - 1
    <3>1. PICK i \in T : Cardinality({j \in T : j > i}) = K
      <4> HIDE DEF T, K
      <4>1. K \in Nat /\ K < Cardinality(T)
        BY <2>2 DEF K
      <4> QED BY <2>1, <4>1, FromTheTop
    <3> HIDE DEF T
    <3> QED BY <3>1
  <2> DEFINE i == CHOOSE i \in recent : TRUE
  <2>4. i \in recent
    BY <2>3
  <2>5. Cut(es) = i - 1
    BY <1>2 DEF Cut
  <2>6. i \in 1..Len(es) /\ es[i].role = "user"
    BY <2>1, <2>4 DEF TurnStarts
  <2> HIDE DEF i
  <2> QED BY <2>1, <2>5, <2>6
<1> QED BY <1>1, <1>2

(* A line that does not parse is no entry, and Entries has only these.     *)
LEMMA EntryNotJunk == Junk \notin Entry
BY DEF Junk, Entry

LEMMA EntriesType ==
  ASSUME HistoryTypeOK, NEW s \in Sessions
  PROVE  Entries(s) \in Seq(Entry)
<1> DEFINE L == Entry \union {Junk}
<1>1. jsonl[s] \in Seq(L)
  BY DEF HistoryTypeOK
<1>2. Entries(s) \in Seq(L \cap Entry)
  <2> HIDE DEF L
  <2> QED BY <1>1, OnlyType DEF Entries
<1>3. L \cap Entry = Entry
  OBVIOUS
<1> HIDE DEF L
<1> QED BY <1>2, <1>3

(* A line without its newline is all that can come behind the firm part.   *)
LEMMA EntriesFirm ==
  ASSUME HistoryTypeOK, NEW s \in Sessions
  PROVE  /\ Solid(s) \in Seq(Entry \union {Junk})
         /\ Firm(s) \in Seq(Entry)
         /\ \/ Entries(s) = Firm(s)
            \/ \E x \in Entry : Entries(s) = Append(Firm(s), x)
<1> DEFINE L == Entry \union {Junk}
           q == jsonl[s]
<1>1. q \in Seq(L) /\ L \cap Entry = Entry
  BY DEF HistoryTypeOK
<1>2. CASE s \notin unended
  BY <1>1, <1>2, EntriesType DEF Solid, Firm, Entries
<1>3. CASE s \in unended
  <2>1. q # <<>>
    BY <1>3 DEF HistoryTypeOK
  <2>2. Len(q) \in Nat \ {0}
    BY <1>1, <2>1, EmptySeq
  <2> DEFINE w == SubSeq(q, 1, Len(q) - 1)
             x == q[Len(q)]
  <2> HIDE DEF L, q
  <2>3. w \in Seq(L) /\ x \in L /\ q = Append(w, x)
    <3>1. Len(q) - 1 \in 0..(Len(q) - 1) /\ Len(q) - 1 \in 0..Len(q) /\ (Len(q) - 1) + 1 = Len(q)
      BY <2>2
    <3> QED BY <1>1, <2>2, <3>1, PrefixGrows, ElementOfSeq
  <2>4. Solid(s) = w
    BY <1>3 DEF Solid, q
  <2> HIDE DEF w, x
  <2>5. Only(q, Entry) = IF x \in Entry THEN Append(Only(w, Entry), x) ELSE Only(w, Entry)
    BY <2>3, OnlyAppend
  <2>6. Only(w, Entry) \in Seq(Entry)
    BY <1>1, <2>3, OnlyType
  <2>7. Entries(s) = Only(q, Entry) /\ Firm(s) = Only(w, Entry)
    BY <2>4 DEF Entries, Firm, q
  <2> QED BY <2>3, <2>4, <2>5, <2>6, <2>7 DEF L
<1> QED BY <1>2, <1>3

Line == Entry \union {Junk}
UserLine(r)  == [run |-> r, role |-> "user"]
ReplyLine(r) == [run |-> r, role |-> "reply"]

(* What an append may have written when it is over.                        *)
Written(r) == {<<>>, <<Junk>>, <<UserLine(r)>>, <<UserLine(r), Junk>>, Turn(r)}

(* The three ways an append ends.                                          *)
Appends(r, s, lines) ==
    /\ run[r].pc = "running" /\ s = run[r].session
    /\ lines \in Written(r)
    /\ jsonl' = [jsonl EXCEPT ![s] = Glue(s, lines)]
    /\ \/ unended' = unended \ {s} /\ lines # <<>>
       \/ unended' = unended \union {s} /\ lines # <<>>
       \/ unended' = unended /\ lines = <<>>
    /\ \/ cutShort' = cutShort /\ lines = Turn(r) /\ unended' = unended \ {s}
       \/ cutShort' = cutShort \union {s}
    /\ summary' = summary /\ minted' = minted /\ kept' \in {kept, kept \union {r}}
    /\ index' \in {index, Empty}
    /\ \/ run' = [run EXCEPT ![r].pc = "ended"] /\ crashes' = crashes
       \/ Die

(* What an append writes are lines of its own run, each once.              *)
LEMMA WrittenType ==
  ASSUME NEW r \in Runs, NEW lines \in Written(r)
  PROVE  /\ lines \in Seq(Line)
         /\ \A k \in DOMAIN lines : lines[k] \in Entry => lines[k].run = r
         /\ \A k, l \in DOMAIN lines : lines[k] \in Entry /\ lines[k] = lines[l] => k = l
         /\ UserLine(r) \in Entry /\ ReplyLine(r) \in Entry
         /\ Turn(r) = <<UserLine(r), ReplyLine(r)>>
<1>1. /\ UserLine(r) \in Entry /\ ReplyLine(r) \in Entry /\ UserLine(r) # ReplyLine(r)
      /\ UserLine(r).run = r /\ ReplyLine(r).run = r /\ UserLine(r).role = "user"
      /\ Turn(r) = <<UserLine(r), ReplyLine(r)>>
  BY DEF Entry, UserLine, ReplyLine, Turn
<1>2. Junk \notin Entry /\ Junk \in Line /\ UserLine(r) \in Line /\ ReplyLine(r) \in Line
  BY <1>1, EntryNotJunk DEF Line
<1> DEFINE u == UserLine(r)
           a == ReplyLine(r)
<1> HIDE DEF u, a
<1>3. lines \in {<<>>, <<Junk>>, <<u>>, <<u, Junk>>, <<u, a>>}
  BY <1>1 DEF Written, u, a
<1>4. u \in Entry /\ a \in Entry /\ u # a /\ u.run = r /\ a.run = r /\ Junk \notin Entry
      /\ u \in Line /\ a \in Line /\ Junk \in Line
  BY <1>1, <1>2 DEF u, a
<1>5. lines \in Seq(Line)
  <2>1. /\ <<>> \in Seq(Line) /\ <<Junk>> \in Seq(Line) /\ <<u>> \in Seq(Line)
        /\ <<u, Junk>> \in Seq(Line) /\ <<u, a>> \in Seq(Line)
    BY <1>4, EmptySeq, OneElement, TwoElements
  <2> QED BY <1>3, <2>1
<1>6. \A k \in DOMAIN lines : lines[k] \in Entry => lines[k].run = r
  BY <1>3, <1>4
<1>7. \A k, l \in DOMAIN lines : lines[k] \in Entry /\ lines[k] = lines[l] => k = l
  BY <1>3, <1>4
<1> QED BY <1>1, <1>5, <1>6, <1>7

(* The solid part is the file, up to a line that may lack its end.         *)
LEMMA SolidFacts ==
  ASSUME HistoryTypeOK, NEW s \in Sessions
  PROVE  /\ jsonl[s] \in Seq(Line) /\ Solid(s) \in Seq(Line)
         /\ s \notin unended => Solid(s) = jsonl[s]
         /\ s \in unended => Len(jsonl[s]) = Len(Solid(s)) + 1
         /\ Len(Solid(s)) =< Len(jsonl[s])
         /\ \A i \in 1..Len(Solid(s)) : Solid(s)[i] = jsonl[s][i]
<1>1. jsonl[s] \in Seq(Line) /\ (s \in unended => jsonl[s] # <<>>)
  BY DEF HistoryTypeOK, Line
<1>2. CASE s \notin unended
  BY <1>1, <1>2 DEF Solid
<1>3. CASE s \in unended
  <2> DEFINE q == jsonl[s]
             n == Len(q) - 1
  <2>1. q \in Seq(Line) /\ Len(q) \in Nat \ {0}
    BY <1>1, <1>3, EmptySeq
  <2>2. Solid(s) = SubSeq(q, 1, n)
    BY <1>3 DEF Solid
  <2>3. n \in 0..Len(q)
    BY <2>1
  <2> HIDE DEF q
  <2>4. SubSeq(q, 1, n) \in Seq(Line) /\ Len(SubSeq(q, 1, n)) = n
        /\ \A i \in 1..n : SubSeq(q, 1, n)[i] = q[i]
    <3> HIDE DEF n
    <3> QED BY <2>1, <2>3, PrefixGrows
  <2> QED BY <1>3, <2>1, <2>2, <2>4 DEF q
<1> QED BY <1>2, <1>3

(* What is written goes behind the solid part.                             *)
Behind(s, lines) == IF s \in unended THEN <<Junk>> \o Tail(lines) ELSE lines

(* An append leaves the solid part alone, and garbles its own first line   *)
(* at most.                                                                *)
LEMMA GlueFacts ==
  ASSUME HistoryTypeOK, NEW s \in Sessions, NEW lines \in Seq(Line), lines # <<>>
  PROVE  /\ Glue(s, lines) = Solid(s) \o Behind(s, lines)
         /\ Behind(s, lines) \in Seq(Line) /\ Len(Behind(s, lines)) = Len(lines)
         /\ \A k \in 1..Len(lines) : \/ Behind(s, lines)[k] = lines[k]
                                     \/ Behind(s, lines)[k] = Junk
<1>1. Len(lines) \in Nat \ {0}
  BY EmptySeq
<1>2. CASE s \notin unended
  BY <1>2 DEF Glue, Behind, Solid
<1>3. CASE s \in unended
  <2> DEFINE t == Tail(lines)
             j == <<Junk>>
  <2>1. t \in Seq(Line) /\ Len(t) = Len(lines) - 1 /\ \A k \in 1..Len(t) : t[k] = lines[k + 1]
    BY <1>1, HeadTailProperties
  <2>2. j \in Seq(Line) /\ Len(j) = 1 /\ j[1] = Junk
    BY DEF Line
  <2> HIDE DEF t, j
  <2>3. /\ j \o t \in Seq(Line) /\ Len(j \o t) = Len(lines)
        /\ \A k \in 1..Len(lines) : (j \o t)[k] = IF k = 1 THEN Junk ELSE lines[k]
    <3>1. /\ j \o t \in Seq(Line) /\ Len(j \o t) = Len(j) + Len(t)
          /\ \A k \in 1..(Len(j) + Len(t)) :
               (j \o t)[k] = IF k =< Len(j) THEN j[k] ELSE t[k - Len(j)]
      BY <2>1, <2>2, ConcatProperties, SMTT(30)
    <3>2. ASSUME NEW k \in 1..Len(lines), k # 1
          PROVE  t[k - 1] = lines[k]
      <4>1. k - 1 \in 1..Len(t) /\ (k - 1) + 1 = k
        BY <1>1, <2>1, <3>2
      <4> QED BY <2>1, <4>1
    <3>3. 1 + Len(t) = Len(lines)
      BY <1>1, <2>1
    <3>4. ASSUME NEW k \in 1..Len(lines)
          PROVE  (j \o t)[k] = IF k = 1 THEN Junk ELSE lines[k]
      <4>1. CASE k = 1
        BY <2>2, <3>1, <3>3, <4>1
      <4>2. CASE k # 1
        <5>1. ~(k =< 1)
          BY <4>2
        <5> QED BY <2>2, <3>1, <3>2, <3>3, <4>2, <5>1
      <4> QED BY <4>1, <4>2
    <3> QED BY <2>2, <3>1, <3>3, <3>4
  <2>4. Behind(s, lines) = j \o t
    BY <1>3 DEF Behind, j, t
  <2>5. Glue(s, lines) = (Solid(s) \o j) \o t
    BY <1>3 DEF Glue, Solid, j, t
  <2>6. (Solid(s) \o j) \o t = Solid(s) \o (j \o t)
    <3>1. Solid(s) \in Seq(Line)
      BY SolidFacts
    <3> QED BY <2>1, <2>2, <3>1, ConcatAssociative
  <2> QED BY <2>3, <2>4, <2>5, <2>6
<1> QED BY <1>2, <1>3

(* So what it leaves are lines again, ...                                  *)
LEMMA GlueType ==
  ASSUME HistoryTypeOK, NEW s \in Sessions, NEW lines \in Seq(Line)
  PROVE  Glue(s, lines) \in Seq(Line) /\ (lines # <<>> => Glue(s, lines) # <<>>)
<1>1. CASE lines = <<>>
  <2>1. jsonl[s] \in Seq(Line)
    BY SolidFacts
  <2>2. jsonl[s] \o <<>> = jsonl[s]
    BY <2>1, ConcatEmptySeq
  <2> QED BY <1>1, <2>1, <2>2 DEF Glue
<1>2. CASE lines # <<>>
  <2> DEFINE p == Solid(s)
             b == Behind(s, lines)
  <2>1. p \in Seq(Line) /\ b \in Seq(Line) /\ Glue(s, lines) = p \o b /\ Len(b) = Len(lines)
    BY <1>2, SolidFacts, GlueFacts
  <2>2. Len(lines) \in Nat \ {0}
    BY <1>2, EmptySeq
  <2> HIDE DEF p, b
  <2>3. p \o b \in Seq(Line) /\ Len(p \o b) = Len(p) + Len(b)
    BY <2>1, ConcatProperties
  <2>4. Len(p \o b) # 0
    BY <2>1, <2>2, <2>3
  <2> QED BY <2>1, <2>3, <2>4, EmptySeq
<1> QED BY <1>1, <1>2

(* ... each of them an old one, one of its own or one that does not parse. *)
LEMMA GlueLines ==
  ASSUME HistoryTypeOK, NEW s \in Sessions, NEW lines \in Seq(Line),
         NEW i \in DOMAIN Glue(s, lines)
  PROVE  \/ i \in DOMAIN jsonl[s] /\ Glue(s, lines)[i] = jsonl[s][i]
         \/ \E k \in DOMAIN lines : i = Len(Solid(s)) + k /\ Glue(s, lines)[i] = lines[k]
         \/ Glue(s, lines)[i] = Junk
<1>1. CASE lines = <<>>
  <2>1. jsonl[s] \in Seq(Line)
    BY SolidFacts
  <2>2. jsonl[s] \o <<>> = jsonl[s]
    BY <2>1, ConcatEmptySeq
  <2> QED BY <1>1, <2>1, <2>2 DEF Glue
<1>2. CASE lines # <<>>
  <2> DEFINE p == Solid(s)
             b == Behind(s, lines)
             g == Glue(s, lines)
             q == jsonl[s]
  <2>1. /\ p \in Seq(Line) /\ b \in Seq(Line) /\ g = p \o b /\ Len(b) = Len(lines)
        /\ \A k \in 1..Len(lines) : b[k] = lines[k] \/ b[k] = Junk
        /\ Len(p) =< Len(q) /\ q \in Seq(Line)
        /\ \A k \in 1..Len(p) : p[k] = q[k]
        /\ i \in DOMAIN g
    BY <1>2, SolidFacts, GlueFacts
  <2>2. SUFFICES \/ i \in DOMAIN q /\ g[i] = q[i]
                 \/ \E k \in DOMAIN lines : i = Len(p) + k /\ g[i] = lines[k]
                 \/ g[i] = Junk
    OBVIOUS
  <2> HIDE DEF p, b, g, q
  <2>3. i \in 1..(Len(p) + Len(b)) /\ Len(p) \in Nat /\ Len(b) \in Nat
    BY <2>1
  <2>4. CASE i =< Len(p)
    BY <2>1, <2>3, <2>4
  <2>5. CASE i > Len(p)
    <3> DEFINE k == i - Len(p)
    <3>1. k \in 1..Len(b) /\ i = Len(p) + k
      BY <2>3, <2>5
    <3> HIDE DEF k
    <3>2. g[i] = b[k]
      BY <2>1, <3>1
    <3>3. k \in DOMAIN lines
      BY <2>1, <3>1
    <3> QED BY <2>1, <3>1, <3>2, <3>3
  <2> QED BY <2>3, <2>4, <2>5
<1> QED BY <1>1, <1>2

(* Cutting the last element off two sequences put together.                *)
LEMMA ButLast ==
  ASSUME NEW A, NEW p \in Seq(A), NEW b \in Seq(A), b # <<>>
  PROVE  /\ SubSeq(b, 1, Len(b) - 1) \in Seq(A)
         /\ SubSeq(p \o b, 1, Len(p \o b) - 1) = p \o SubSeq(b, 1, Len(b) - 1)
<1> DEFINE n == Len(b) - 1
           w == SubSeq(b, 1, n)
           all == p \o b
<1>1. Len(b) \in Nat \ {0} /\ Len(p) \in Nat
  BY EmptySeq
<1>2. n \in 0..Len(b)
  BY <1>1
<1>3. w \in Seq(A) /\ Len(w) = n /\ \A i \in 1..n : w[i] = b[i]
  <2> HIDE DEF n
  <2> QED BY <1>2, PrefixGrows
<1>4. /\ all \in Seq(A) /\ Len(all) = Len(p) + Len(b)
      /\ \A i \in 1..(Len(p) + Len(b)) : all[i] =
           IF i =< Len(p) THEN p[i] ELSE b[i - Len(p)]
  BY ConcatProperties
<1> HIDE DEF w, all
<1>5. /\ p \o w \in Seq(A) /\ Len(p \o w) = Len(p) + n
      /\ \A i \in 1..(Len(p) + n) : (p \o w)[i] =
           IF i =< Len(p) THEN p[i] ELSE w[i - Len(p)]
  <2>1. /\ p \o w \in Seq(A) /\ Len(p \o w) = Len(p) + Len(w)
        /\ \A i \in 1..(Len(p) + Len(w)) :
             (p \o w)[i] = IF i =< Len(p) THEN p[i] ELSE w[i - Len(p)]
    BY <1>3, ConcatProperties
  <2> HIDE DEF n
  <2> QED BY <1>3, <2>1
<1> DEFINE front == SubSeq(all, 1, Len(p) + n)
<1>6. /\ front \in Seq(A) /\ Len(front) = Len(p) + n
      /\ \A i \in 1..(Len(p) + n) : front[i] = all[i]
  <2> DEFINE m == Len(p) + n
  <2>1. m \in 0..Len(all)
    BY <1>1, <1>4
  <2> HIDE DEF m, n
  <2>2. SubSeq(all, 1, m) \in Seq(A) /\ Len(SubSeq(all, 1, m)) = m
        /\ \A i \in 1..m : SubSeq(all, 1, m)[i] = all[i]
    BY <1>4, <2>1, PrefixGrows
  <2> QED BY <2>2 DEF m
<1> HIDE DEF front
<1>7. ASSUME NEW i \in 1..(Len(p) + n) PROVE front[i] = (p \o w)[i]
  <2>1. i \in 1..(Len(p) + Len(b))
    BY <1>1
  <2>2. front[i] = all[i]
    BY <1>6
  <2>3. CASE i =< Len(p)
    BY <1>4, <1>5, <2>1, <2>2, <2>3
  <2>4. CASE ~(i =< Len(p))
    <3>1. i - Len(p) \in 1..n
      BY <1>1, <2>4
    <3> QED BY <1>3, <1>4, <1>5, <2>1, <2>2, <2>4, <3>1
  <2> QED BY <2>3, <2>4
<1>8. front = p \o w
  <2> HIDE DEF n
  <2> QED BY <1>5, <1>6, <1>7, SeqEqual
<1>9. Len(all) - 1 = Len(p) + n
  BY <1>1, <1>4
<1> QED BY <1>3, <1>8, <1>9 DEF front, all, w

(* An append only adds to the entries a file holds for good.               *)
LEMMA FirmGrows ==
  ASSUME HistoryTypeOK, NEW r \in Runs, NEW s \in Sessions, NEW lines, Appends(r, s, lines),
         NEW t \in Sessions
  PROVE  \E more \in Seq(Entry) : Firm(t)' = Firm(t) \o more
<1>1. lines \in Seq(Line) /\ Line \cap Entry = Entry
  BY WrittenType DEF Appends, Line
<1>2. Firm(t) \in Seq(Entry) /\ Solid(t) \in Seq(Line)
  BY EntriesFirm DEF Line
<1>3. SUFFICES \E x \in Seq(Line) : Solid(t)' = Solid(t) \o x
  <2>1. PICK x \in Seq(Line) : Solid(t)' = Solid(t) \o x
    BY <1>3
  <2>2. Only(Solid(t) \o x, Entry) = Only(Solid(t), Entry) \o Only(x, Entry)
    BY <1>2, OnlyConcat
  <2>3. Only(x, Entry) \in Seq(Line \cap Entry)
    BY OnlyType
  <2>4. Firm(t)' = Firm(t) \o Only(x, Entry)
    BY <2>1, <2>2 DEF Firm, Entry
  <2> QED BY <1>1, <2>3, <2>4
<1>4. CASE t # s \/ lines = <<>>
  <2>1. jsonl'[t] = jsonl[t] /\ (t \in unended' <=> t \in unended)
    <3>1. CASE t # s
      BY <3>1 DEF Appends, HistoryTypeOK
    <3>2. CASE t = s /\ lines = <<>>
      <4>1. jsonl[s] \in Seq(Line)
        BY SolidFacts
      <4>2. jsonl[s] \o <<>> = jsonl[s]
        BY <4>1, ConcatEmptySeq
      <4>3. unended' = unended
        BY <3>2 DEF Appends
      <4> QED BY <3>2, <4>2, <4>3 DEF Appends, HistoryTypeOK, Glue
    <3> QED BY <1>4, <3>1, <3>2
  <2>2. Solid(t)' = Solid(t)
    BY <2>1 DEF Solid
  <2>3. Solid(t) \o <<>> = Solid(t) /\ <<>> \in Seq(Line)
    BY <1>2, ConcatEmptySeq, EmptySeq
  <2> QED BY <2>2, <2>3
<1>5. CASE t = s /\ lines # <<>>
  <2> DEFINE p == Solid(s)
             b == Behind(s, lines)
  <2>1. /\ p \in Seq(Line) /\ b \in Seq(Line) /\ Len(b) = Len(lines)
        /\ Glue(s, lines) = p \o b
    BY <1>1, <1>5, GlueFacts, SolidFacts
  <2>2. b # <<>>
    <3>1. Len(lines) # 0
      BY <1>1, <1>5, EmptySeq
    <3> HIDE DEF b
    <3> QED BY <2>1, <3>1, EmptySeq
  <2>3. jsonl'[s] = p \o b
    BY <2>1 DEF Appends, HistoryTypeOK
  <2>4. CASE s \notin unended'
    <3>1. Solid(s)' = p \o b
      BY <2>3, <2>4 DEF Solid
    <3> QED BY <1>5, <2>1, <3>1
  <2>5. CASE s \in unended'
    <3>1. Solid(s)' = SubSeq(jsonl'[s], 1, Len(jsonl'[s]) - 1)
      BY <2>5 DEF Solid
    <3> HIDE DEF p, b
    <3>2. /\ SubSeq(b, 1, Len(b) - 1) \in Seq(Line)
          /\ SubSeq(p \o b, 1, Len(p \o b) - 1) = p \o SubSeq(b, 1, Len(b) - 1)
      BY <2>1, <2>2, ButLast
    <3> QED BY <1>5, <2>3, <3>1, <3>2 DEF p
  <2> QED BY <2>4, <2>5
<1> QED BY <1>4, <1>5

(* AppendTurn, AppendHalf and DieInAppendIndex are such appends.           *)
LEMMA AppendsAre ==
  ASSUME HistoryTypeOK, HistorySessioned, NEW r \in Runs,
         \/ AppendTurn(r) \/ DieInAppendIndex(r)
         \/ \E n \in 0..1, piece \in {"nothing", "part", "noNewline"}, alive \in BOOLEAN :
              AppendHalf(r, n, piece, alive)
  PROVE  \E s \in minted, lines \in Written(r) : Appends(r, s, lines)
<1> DEFINE s == run[r].session
<1>1. s \in minted
  BY DEF AppendTurn, DieInAppendIndex, AppendHalf, HistorySessioned
<1>2. ASSUME AppendTurn(r) \/ DieInAppendIndex(r) PROVE Appends(r, s, Turn(r))
  BY <1>2 DEF AppendTurn, DieInAppendIndex, Appends, Written, SaveIndex, Turn
<1>3. ASSUME NEW n \in 0..1, NEW piece \in {"nothing", "part", "noNewline"},
             NEW alive \in BOOLEAN, AppendHalf(r, n, piece, alive)
      PROVE  \E lines \in Written(r) : Appends(r, s, lines)
  <2> DEFINE tail == CASE piece = "nothing"   -> <<>>
                       [] piece = "part"      -> <<Junk>>
                       [] piece = "noNewline" -> <<Turn(r)[n + 1]>>
             lines == SubSeq(Turn(r), 1, n) \o tail
  <2>1. /\ run[r].pc = "running"
        /\ jsonl' = [jsonl EXCEPT ![s] = Glue(s, lines)]
        /\ unended' = IF tail # <<>> THEN unended \union {s}
                      ELSE IF n > 0 THEN unended \ {s} ELSE unended
        /\ cutShort' = cutShort \union {s}
        /\ index' = index /\ minted' = minted /\ summary' = summary /\ kept' = kept
        /\ \/ run' = [run EXCEPT ![r].pc = "ended"] /\ crashes' = crashes
           \/ Die
    BY <1>3 DEF AppendHalf
  <2>2. /\ lines \in Written(r)
        /\ tail # <<>> => lines # <<>>
        /\ tail = <<>> /\ n > 0 => lines # <<>>
        /\ tail = <<>> /\ ~(n > 0) => lines = <<>>
    <3> DEFINE u == UserLine(r)
               a == ReplyLine(r)
    <3>1. Turn(r) = <<u, a>> /\ Written(r) = {<<>>, <<Junk>>, <<u>>, <<u, Junk>>, <<u, a>>}
      BY DEF Turn, Written, UserLine, ReplyLine
    <3> HIDE DEF u, a
    <3>2. /\ SubSeq(<<u, a>>, 1, 0) = <<>> /\ SubSeq(<<u, a>>, 1, 1) = <<u>>
          /\ <<u, a>>[1] = u /\ <<u, a>>[2] = a
          /\ <<>> \o <<>> = <<>> /\ <<>> \o <<Junk>> = <<Junk>> /\ <<>> \o <<u>> = <<u>>
          /\ <<u>> \o <<>> = <<u>> /\ <<u>> \o <<Junk>> = <<u, Junk>>
          /\ <<u>> \o <<a>> = <<u, a>>
      BY Pairs
    <3>3. /\ <<Junk>> # <<>> /\ <<u>> # <<>> /\ <<a>> # <<>>
          /\ <<u, Junk>> # <<>> /\ <<u, a>> # <<>>
      OBVIOUS
    <3>4. n = 0 \/ n = 1
      OBVIOUS
    <3>5. CASE n = 0
      <4>1. CASE piece = "nothing"
        BY <3>1, <3>2, <3>3, <3>5, <4>1
      <4>2. CASE piece = "part"
        BY <3>1, <3>2, <3>3, <3>5, <4>2
      <4>3. CASE piece = "noNewline"
        <5>1. Turn(r)[n + 1] = u
          BY <3>1, <3>2, <3>5
        <5>2. tail = <<u>>
          BY <4>3, <5>1
        <5> HIDE DEF tail
        <5> QED BY <3>1, <3>2, <3>3, <3>5, <5>2
      <4> QED BY <4>1, <4>2, <4>3
    <3>6. CASE n = 1
      <4>1. CASE piece = "nothing"
        BY <3>1, <3>2, <3>3, <3>6, <4>1
      <4>2. CASE piece = "part"
        BY <3>1, <3>2, <3>3, <3>6, <4>2
      <4>3. CASE piece = "noNewline"
        <5>1. Turn(r)[n + 1] = a
          BY <3>1, <3>2, <3>6
        <5>2. tail = <<a>>
          BY <4>3, <5>1
        <5> HIDE DEF tail
        <5> QED BY <3>1, <3>2, <3>3, <3>6, <5>2
      <4> QED BY <4>1, <4>2, <4>3
    <3> QED BY <3>4, <3>5, <3>6
  <2> HIDE DEF tail, lines
  <2>3. Appends(r, s, lines)
    BY <2>1, <2>2 DEF Appends
  <2> QED BY <2>2, <2>3
<1>4. Turn(r) \in Written(r)
  BY DEF Written
<1> QED BY <1>1, <1>2, <1>3, <1>4

(* What a summary stands for is where the entries begin.                   *)
LEMMA SummaryFits ==
  ASSUME HistoryIInv, NEW s \in index.sessions, summary[s] # None
  PROVE  /\ summary[s].upto \in 1..Len(Entries(s))
         /\ summary[s].text = SubSeq(Entries(s), 1, summary[s].upto)
<1> DEFINE F == Firm(s)
           E == Entries(s)
           n == summary[s].upto
<1>1. s \in Sessions /\ HistoryTypeOK
  BY DEF HistoryIInv, HistoryTypeOK, IndexFile
<1>2. F \in Seq(Entry) /\ (E = F \/ \E x \in Entry : E = Append(F, x))
  BY <1>1, EntriesFirm
<1>3. n \in 1..Len(F) /\ summary[s].text = SubSeq(F, 1, n)
  BY DEF HistoryIInv, SummariesFit, CoversIt
<1>4. SUFFICES n \in 1..Len(E) /\ SubSeq(E, 1, n) = SubSeq(F, 1, n)
  BY <1>3
<1> HIDE DEF E, F, n
<1>5. CASE E = F
  BY <1>3, <1>5
<1>6. ASSUME NEW x \in Entry, E = Append(F, x)
      PROVE  n \in 1..Len(E) /\ SubSeq(E, 1, n) = SubSeq(F, 1, n)
  <2>1. E = F \o <<x>> /\ <<x>> \in Seq(Entry) /\ Len(E) = Len(F) + 1
    BY <1>2, <1>6, AppendProperties, AppendIsConcat, OneElement
  <2>2. 1 \in 1..Len(F) /\ n \in 1..Len(F) /\ Len(F) \in Nat
    BY <1>2, <1>3, LenProperties
  <2>3. SubSeq(F \o <<x>>, 1, n) = SubSeq(F, 1, n)
    BY <1>2, <2>1, <2>2, SubSeqOfConcat1
  <2> QED BY <2>1, <2>2, <2>3
<1> QED BY <1>2, <1>5, <1>6

(* The rest is what comes behind the offset.                               *)
LEMMA RestFacts ==
  ASSUME HistoryTypeOK, NEW s \in Sessions
  PROVE  /\ Entries(s) \in Seq(Entry) /\ Offset(s) \in 0..Len(Entries(s))
         /\ Rest(s) \in Seq(Entry) /\ Len(Rest(s)) = Len(Entries(s)) - Offset(s)
         /\ \A i \in 1..Len(Rest(s)) : Rest(s)[i] = Entries(s)[Offset(s) + i]
<1> DEFINE E == Entries(s)
           o == Offset(s)
<1>1. E \in Seq(Entry) /\ Len(E) \in Nat
  BY EntriesType, LenProperties
<1>2. o \in 0..Len(E)
  BY <1>1 DEF Offset, Usable
<1>3. Rest(s) = SubSeq(E, o + 1, Len(E))
  BY DEF Rest
<1> HIDE DEF E, o
<1>4. o + 1 \in Nat /\ o + 1 > 0 /\ Len(E) =< Len(E)
  BY <1>1, <1>2
<1>5. /\ Rest(s) \in Seq(Entry)
      /\ Len(Rest(s)) = IF o + 1 =< Len(E) THEN Len(E) - (o + 1) + 1 ELSE 0
      /\ \A i \in 1..(Len(E) - (o + 1) + 1) : Rest(s)[i] = E[(o + 1) + i - 1]
  BY <1>1, <1>3, <1>4, SliceType
<1>6. Len(Rest(s)) = Len(E) - o
  BY <1>1, <1>2, <1>5
<1>7. \A i \in 1..Len(Rest(s)) : Rest(s)[i] = E[o + i]
  <2> TAKE i \in 1..Len(Rest(s))
  <2>1. i \in 1..(Len(E) - (o + 1) + 1) /\ (o + 1) + i - 1 = o + i
    BY <1>1, <1>2, <1>6
  <2> QED BY <1>5, <2>1
<1> QED BY <1>1, <1>2, <1>5, <1>6, <1>7 DEF E, o

(* A file that was never cut short has nothing but entries.                *)
LEMMA WholeEntries ==
  ASSUME HistoryIInv, NEW s \in Sessions \ cutShort
  PROVE  WholeFile(s) /\ Entries(s) = jsonl[s]
<1>1. WholeFile(s)
  BY DEF HistoryIInv, WholeFiles
<1>2. jsonl[s] \in Seq(Entry)
  BY <1>1 DEF WholeFile
<1>3. \A n \in 1..Len(jsonl[s]) : jsonl[s][n] \in Entry
  BY <1>2, ElementOfSeq
<1> QED BY <1>1, <1>2, <1>3, OnlyAll DEF Entries

(* The text and the count that Compact takes to the summarizer.            *)
CompactText(s) == (IF summary[s] = None THEN <<>> ELSE summary[s].text)
                    \o SubSeq(Rest(s), 1, Cut(Rest(s)))

(* What a compaction takes away is a prefix, and it ends before a user     *)
(* message.                                                                *)
LEMMA CompactFits ==
  ASSUME HistoryIInv, NEW s \in index.sessions, Cut(Rest(s)) > 0
  PROVE  /\ CoversIt(s, Offset(s) + Cut(Rest(s)), CompactText(s))
         /\ Offset(s) + Cut(Rest(s)) \in Nat /\ CompactText(s) \in Seq(Entry)
<1> DEFINE F == Firm(s)
           E == Entries(s)
           R == Rest(s)
           o == Offset(s)
           c == Cut(Rest(s))
<1>1. s \in Sessions /\ HistoryTypeOK
  BY DEF HistoryIInv, HistoryTypeOK, IndexFile
<1>2. F \in Seq(Entry) /\ (E = F \/ \E x \in Entry : E = Append(F, x))
  BY <1>1, EntriesFirm
<1>3. /\ E \in Seq(Entry) /\ o \in 0..Len(E) /\ Len(E) \in Nat
      /\ R \in Seq(Entry) /\ Len(R) = Len(E) - o
      /\ \A i \in 1..Len(R) : R[i] = E[o + i]
  BY <1>1, RestFacts, LenProperties
<1>4. /\ c \in Nat /\ c > 0 /\ c + 1 \in 1..Len(R) /\ R[c + 1].role = "user"
  BY <1>3, CutIsATurn, LenProperties
<1>5. o + c \in 1..(Len(E) - 1)
  BY <1>3, <1>4
<1>6. CompactText(s) = SubSeq(E, 1, o + c)
  <2>1. (IF summary[s] = None THEN <<>> ELSE summary[s].text) = SubSeq(E, 1, o)
    <3>1. CASE summary[s] = None
      <4>1. o = 0
        BY <3>1 DEF Offset, Usable
      <4> QED BY <1>3, <3>1, <4>1, PrefixGrows
    <3>2. CASE summary[s] # None
      <4>1. summary[s].upto \in 1..Len(E) /\ summary[s].text = SubSeq(E, 1, summary[s].upto)
        BY <3>2, SummaryFits
      <4>2. o = summary[s].upto
        BY <3>2, <4>1 DEF Offset, Usable
      <4> QED BY <3>2, <4>1, <4>2
    <3> QED BY <3>1, <3>2
  <2>2. SubSeq(R, 1, c) = SubSeq(E, o + 1, o + c)
    <3>1. R = SubSeq(E, o + 1, Len(E))
      BY DEF Rest
    <3> HIDE DEF R, E, o, c
    <3>2. /\ o + 1 \in 1..Len(E) /\ Len(E) \in 1..Len(E)
          /\ 1 \in 1..(Len(E) - (o + 1) + 1) /\ c \in 1..(Len(E) - (o + 1) + 1)
          /\ (o + 1) + 1 - 1 = o + 1 /\ (o + 1) + c - 1 = o + c
      BY <1>3, <1>4
    <3>3. SubSeq(SubSeq(E, o + 1, Len(E)), 1, c) = SubSeq(E, (o + 1) + 1 - 1, (o + 1) + c - 1)
      BY <1>3, <3>2, SubSeqOfSubSeq
    <3> QED BY <3>1, <3>2, <3>3
  <2>3. SubSeq(E, 1, o) \o SubSeq(E, o + 1, o + c) = SubSeq(E, 1, o + c)
    <3> HIDE DEF E, o, c
    <3>1. 1 \in 1..(Len(E) + 1) /\ o \in (1 - 1)..Len(E) /\ o + c \in o..Len(E)
      BY <1>3, <1>4, <1>5
    <3> QED BY <1>3, <3>1, ConcatAdjacentSubSeq
  <2> QED BY <2>1, <2>2, <2>3 DEF CompactText
<1> HIDE DEF E, F, R, o, c
<1>7. o + c \in 1..Len(F) /\ SubSeq(E, 1, o + c) = SubSeq(F, 1, o + c)
  <2>1. CASE E = F
    BY <1>3, <1>5, <2>1
  <2>2. ASSUME NEW x \in Entry, E = Append(F, x)
        PROVE  o + c \in 1..Len(F) /\ SubSeq(E, 1, o + c) = SubSeq(F, 1, o + c)
    <3>1. E = F \o <<x>> /\ <<x>> \in Seq(Entry) /\ Len(E) = Len(F) + 1
      BY <1>2, <2>2, AppendProperties, AppendIsConcat, OneElement
    <3> DEFINE n == o + c
    <3>2. 1 \in 1..Len(F) /\ n \in 1..Len(F) /\ Len(F) \in Nat
      BY <1>2, <1>5, <3>1, LenProperties
    <3> HIDE DEF n
    <3>3. SubSeq(F \o <<x>>, 1, n) = SubSeq(F, 1, n)
      BY <1>2, <3>1, <3>2, SubSeqOfConcat1
    <3> QED BY <3>1, <3>2, <3>3 DEF n
  <2> QED BY <1>2, <2>1, <2>2
<1>8. CompactText(s) \in Seq(Entry)
  <2> DEFINE n == o + c
  <2>1. n \in 0..Len(F)
    BY <1>7
  <2>2. CompactText(s) = SubSeq(F, 1, n)
    BY <1>6, <1>7
  <2> HIDE DEF n
  <2> QED BY <1>2, <2>1, <2>2, PrefixGrows
<1>9. s \notin cutShort => o + c < Len(jsonl[s]) /\ jsonl[s][o + c + 1].role = "user"
  <2> SUFFICES ASSUME s \notin cutShort
               PROVE  o + c < Len(jsonl[s]) /\ jsonl[s][o + c + 1].role = "user"
    OBVIOUS
  <2>1. E = jsonl[s]
    BY <1>1, WholeEntries DEF E
  <2>2. R[c + 1] = E[o + (c + 1)] /\ o + (c + 1) = o + c + 1
    BY <1>3, <1>4
  <2> QED BY <1>3, <1>4, <1>5, <2>1, <2>2
<1> QED
  <2>1. o + c \in Nat
    BY <1>3, <1>4
  <2> QED BY <1>6, <1>7, <1>8, <1>9, <2>1 DEF CoversIt, F, o, c

(* A step that leaves the transcripts alone.                               *)
Quiet ==
    /\ UNCHANGED <<jsonl, unended, cutShort>>
    /\ minted \subseteq minted'
    /\ index'.sessions \subseteq index.sessions \union (minted' \ minted)
    /\ \A s \in Sessions :
         \/ summary'[s] = summary[s] \/ summary'[s] = None
         \/ \E r \in Runs : /\ run[r].pc = "compacting" /\ run[r].session = s
                            /\ summary'[s] = [upto |-> run[r].upto, text |-> run[r].text]
    /\ \A r \in Runs :
         /\ run[r].pc = "ended" => run'[r].pc = "ended"
         /\ run'[r].pc # "idle" => run'[r].session \in minted'
         /\ run'[r].pc = "compacting" =>
              \/ run'[r] = run[r]
              \/ /\ run'[r].session \in index.sessions
                 /\ CoversIt(run'[r].session, run'[r].upto, run'[r].text)

(* When the process dies every run that has begun is over.                 *)
LEMMA DieFacts ==
  ASSUME HistoryIInv, Die
  PROVE  /\ run' \in [Runs -> Run] /\ crashes' \in 0..MaxCrashes
         /\ \A r \in Runs : /\ run[r].pc = "ended" => run'[r].pc = "ended"
                            /\ run'[r].pc # "idle" => run'[r].session \in minted
                            /\ run'[r].pc # "compacting"
                            /\ run[r].pc # "idle" => run'[r].pc = "ended"
<1>1. HistoryTypeOK /\ HistorySessioned
  BY DEF HistoryIInv
<1>2. crashes' \in 0..MaxCrashes
  BY <1>1, HistoryAssumption DEF Die, HistoryTypeOK
<1>3. ASSUME NEW r \in Runs
      PROVE  /\ run'[r] \in Run
             /\ run[r].pc = "ended" => run'[r].pc = "ended"
             /\ run'[r].pc # "idle" => run'[r].session \in minted
             /\ run'[r].pc # "compacting"
             /\ run[r].pc # "idle" => run'[r].pc = "ended"
  <2>1. run[r] \in Run
    BY <1>1 DEF HistoryTypeOK
  <2>2. CASE run[r].pc = "idle"
    BY <2>1, <2>2 DEF Die
  <2>3. CASE run[r].pc # "idle"
    <3>1. run'[r] = [run[r] EXCEPT !.pc = "ended"]
      BY <2>3 DEF Die
    <3>2. run[r].session \in minted
      BY <1>1, <2>3 DEF HistorySessioned
    <3> QED BY <2>1, <3>1, <3>2 DEF Run
  <2> QED BY <2>2, <2>3
<1>4. run' \in [Runs -> Run]
  <2>1. run' = [r \in Runs |-> run'[r]]
    BY DEF Die
  <2> QED BY <1>3, <2>1
<1> QED BY <1>2, <1>3, <1>4

(* An index that cannot be read is taken for an empty one.                 *)
LEMMA EmptyIndex == Empty \in IndexFile /\ Empty.sessions = {} /\ Empty.current = None
BY DEF Empty, IndexFile

(* The steps that write no transcript: New, ...                            *)
LEMMA QuietNewSession ==
  ASSUME HistoryIInv, NEW s \in Sessions, NEW alive \in BOOLEAN, AgentNewSession(s, alive)
  PROVE  Quiet /\ HistoryTypeOK'
<1>1. HistoryTypeOK /\ HistorySessioned
  BY DEF HistoryIInv
<1>2. /\ minted' = minted \union {s}
      /\ index' = IF alive THEN [sessions |-> index.sessions \union {s}, current |-> s]
                  ELSE Empty
      /\ UNCHANGED <<jsonl, unended, summary, cutShort, kept>>
  BY DEF AgentNewSession, Mint, SaveIndex, Added
<1>3. /\ index' \in IndexFile /\ minted' \subseteq Sessions
      /\ index'.sessions \subseteq index.sessions \union {s}
      /\ index'.sessions \subseteq minted'
      /\ index'.current \in minted' \union {None}
  BY <1>1, <1>2, EmptyIndex DEF HistoryTypeOK, IndexFile
<1>4. /\ run' \in [Runs -> Run] /\ crashes' \in 0..MaxCrashes
      /\ \A r \in Runs : /\ run[r].pc = "ended" => run'[r].pc = "ended"
                         /\ run'[r].pc # "idle" => run'[r].session \in minted
                         /\ run'[r].pc = "compacting" => run'[r] = run[r]
  <2>1. CASE alive
    <3>1. UNCHANGED <<run, crashes>>
      BY <2>1 DEF AgentNewSession
    <3> QED BY <1>1, <3>1 DEF HistoryTypeOK, HistorySessioned
  <2>2. CASE ~alive
    <3>1. Die
      BY <2>2 DEF AgentNewSession
    <3> QED BY <3>1, DieFacts
  <2> QED BY <2>1, <2>2
<1>5. HistoryTypeOK'
  BY <1>1, <1>2, <1>3, <1>4 DEF HistoryTypeOK
<1>6. Quiet
  <2>1. index'.sessions \subseteq index.sessions \union (minted' \ minted)
    BY <1>2, <1>3 DEF AgentNewSession, Mint
  <2> QED BY <1>2, <1>4, <2>1 DEF Quiet
<1> QED BY <1>5, <1>6

(* ... Switch, ...                                                         *)
LEMMA QuietSwitchSession ==
  ASSUME HistoryIInv, NEW s \in Sessions \union {None}, NEW alive \in BOOLEAN,
         AgentSwitchSession(s, alive)
  PROVE  Quiet /\ HistoryTypeOK'
<1>1. HistoryTypeOK /\ HistorySessioned
  BY DEF HistoryIInv
<1>2. /\ s \in index.sessions \union {None}
      /\ index' = IF alive THEN [index EXCEPT !.current = s] ELSE Empty
      /\ UNCHANGED <<minted, jsonl, unended, summary, cutShort, kept>>
  BY DEF AgentSwitchSession, SaveIndex
<1>3. /\ index' \in IndexFile
      /\ index'.sessions \subseteq index.sessions /\ index'.sessions \subseteq minted
      /\ index'.current \in minted \union {None}
  BY <1>1, <1>2, EmptyIndex DEF HistoryTypeOK, IndexFile
<1>4. /\ run' \in [Runs -> Run] /\ crashes' \in 0..MaxCrashes
      /\ \A r \in Runs : /\ run[r].pc = "ended" => run'[r].pc = "ended"
                         /\ run'[r].pc # "idle" => run'[r].session \in minted
                         /\ run'[r].pc = "compacting" => run'[r] = run[r]
  <2>1. CASE alive
    <3>1. UNCHANGED <<run, crashes>>
      BY <2>1 DEF AgentSwitchSession
    <3> QED BY <1>1, <3>1 DEF HistoryTypeOK, HistorySessioned
  <2>2. CASE ~alive
    <3>1. Die
      BY <2>2 DEF AgentSwitchSession
    <3> QED BY <3>1, DieFacts
  <2> QED BY <2>1, <2>2
<1>5. HistoryTypeOK'
  BY <1>1, <1>2, <1>3, <1>4 DEF HistoryTypeOK
<1>6. Quiet
  BY <1>2, <1>3, <1>4 DEF Quiet
<1> QED BY <1>5, <1>6

(* The conversation is out of the index, its files are still there.        *)
LEMMA QuietDeleteSession ==
  ASSUME HistoryIInv, NEW s \in Sessions, NEW stage \in {"saving", "saved"},
         AgentDeleteSession(s, stage)
  PROVE  Quiet /\ HistoryTypeOK'
<1>1. HistoryTypeOK /\ HistorySessioned
  BY DEF HistoryIInv
<1>2. /\ s \in index.sessions
      /\ index' = IF stage # "saving"
                  THEN [sessions |-> index.sessions \ {s},
                        current  |-> IF index.current = s THEN None ELSE index.current]
                  ELSE Empty
      /\ UNCHANGED <<minted, jsonl, unended, summary, cutShort, kept>>
      /\ Die
  BY DEF AgentDeleteSession, SaveIndex
<1>3. /\ index' \in IndexFile
      /\ index'.sessions \subseteq index.sessions /\ index'.sessions \subseteq minted
      /\ index'.current \in minted \union {None}
  BY <1>1, <1>2, EmptyIndex DEF HistoryTypeOK, IndexFile
<1>4. /\ run' \in [Runs -> Run] /\ crashes' \in 0..MaxCrashes
      /\ \A r \in Runs : /\ run[r].pc = "ended" => run'[r].pc = "ended"
                         /\ run'[r].pc # "idle" => run'[r].session \in minted
                         /\ run'[r].pc # "compacting"
  BY <1>2, DieFacts
<1>5. HistoryTypeOK'
  BY <1>1, <1>2, <1>3, <1>4 DEF HistoryTypeOK
<1>6. Quiet
  BY <1>2, <1>3, <1>4 DEF Quiet
<1> QED BY <1>5, <1>6

(* ... the start of a run with a new conversation, ...                     *)
LEMMA QuietPrepareNew ==
  ASSUME HistoryIInv, NEW r \in Runs, NEW s \in Sessions, PrepareNew(r, s)
  PROVE  Quiet /\ HistoryTypeOK'
<1>1. HistoryTypeOK /\ HistorySessioned
  BY DEF HistoryIInv
<1>2. /\ run[r].pc = "idle" /\ s \notin minted /\ minted' = minted \union {s}
      /\ index' = [sessions |-> index.sessions \union {s}, current |-> s]
      /\ run' = [run EXCEPT ![r].pc = "running", ![r].session = s]
      /\ UNCHANGED <<jsonl, unended, summary, crashes, cutShort, kept>>
  BY DEF PrepareNew, Mint, SaveIndex, Added
<1>3. /\ index' \in IndexFile /\ minted' \subseteq Sessions
      /\ index'.sessions \subseteq index.sessions \union {s}
      /\ index'.sessions \subseteq minted'
      /\ index'.current \in minted' \union {None}
  BY <1>1, <1>2 DEF HistoryTypeOK, IndexFile
<1>4. /\ run' \in [Runs -> Run] /\ run'[r].pc = "running" /\ run'[r].session = s
      /\ \A q \in Runs : q # r => run'[q] = run[q]
  BY <1>1, <1>2 DEF HistoryTypeOK, Run
<1>5. \A q \in Runs : /\ run[q].pc = "ended" => run'[q].pc = "ended"
                      /\ run'[q].pc # "idle" => run'[q].session \in minted'
                      /\ run'[q].pc = "compacting" => run'[q] = run[q]
  BY <1>1, <1>2, <1>4 DEF HistorySessioned
<1>6. HistoryTypeOK'
  BY <1>1, <1>2, <1>3, <1>4 DEF HistoryTypeOK
<1>7. Quiet
  BY <1>2, <1>3, <1>5 DEF Quiet
<1> QED BY <1>6, <1>7

(* ... a compaction that calls the model, ...                              *)
LEMMA QuietCompact ==
  ASSUME HistoryIInv, NEW r \in Runs, NEW over \in BOOLEAN, Compact(r, over)
  PROVE  Quiet /\ HistoryTypeOK'
<1> DEFINE s == index.current
<1>1. HistoryTypeOK /\ HistorySessioned
  BY DEF HistoryIInv
<1>2. /\ run[r].pc = "idle" /\ s \in index.sessions
      /\ UNCHANGED <<index, minted, jsonl, unended, summary, crashes, cutShort, kept>>
  BY DEF Compact
<1>3. s \in minted /\ s \in Sessions
  BY <1>1, <1>2 DEF HistoryTypeOK
<1>4. PICK q : run' = [run EXCEPT ![r] = q] /\
        q = IF over /\ Cut(Rest(s)) > 0
            THEN [pc |-> "compacting", session |-> s, text |-> CompactText(s),
                  upto |-> Offset(s) + Cut(Rest(s))]
            ELSE [Fresh EXCEPT !.pc = "loading", !.session = s]
  BY DEF Compact, CompactText
<1>5. /\ q \in Run /\ q.session = s
      /\ q.pc = "compacting" => CoversIt(s, q.upto, q.text)
  <2>1. CASE over /\ Cut(Rest(s)) > 0
    <3>1. /\ CoversIt(s, Offset(s) + Cut(Rest(s)), CompactText(s))
          /\ Offset(s) + Cut(Rest(s)) \in Nat /\ CompactText(s) \in Seq(Entry)
      BY <1>2, <2>1, CompactFits
    <3>2. q = [pc |-> "compacting", session |-> s, text |-> CompactText(s),
               upto |-> Offset(s) + Cut(Rest(s))]
      BY <1>4, <2>1
    <3> QED BY <1>3, <3>1, <3>2 DEF Run
  <2>2. CASE ~(over /\ Cut(Rest(s)) > 0)
    <3>1. q = [Fresh EXCEPT !.pc = "loading", !.session = s]
      BY <1>4, <2>2
    <3> QED BY <1>3, <3>1, EmptySeq DEF Run, Fresh
  <2> QED BY <2>1, <2>2
<1>6. /\ run' \in [Runs -> Run] /\ run'[r] = q /\ \A p \in Runs : p # r => run'[p] = run[p]
  BY <1>1, <1>4, <1>5 DEF HistoryTypeOK
<1>7. ASSUME NEW p \in Runs
      PROVE  /\ run[p].pc = "ended" => run'[p].pc = "ended"
             /\ run'[p].pc # "idle" => run'[p].session \in minted'
             /\ run'[p].pc = "compacting" =>
                  \/ run'[p] = run[p]
                  \/ /\ run'[p].session \in index.sessions
                     /\ CoversIt(run'[p].session, run'[p].upto, run'[p].text)
  <2>1. CASE p # r
    BY <1>1, <1>2, <1>6, <2>1 DEF HistorySessioned
  <2>2. CASE p = r
    BY <1>2, <1>3, <1>5, <1>6, <2>2
  <2> QED BY <2>1, <2>2
<1>8. HistoryTypeOK'
  BY <1>1, <1>2, <1>6 DEF HistoryTypeOK
<1>9. Quiet
  BY <1>2, <1>7 DEF Quiet
<1> QED BY <1>8, <1>9

(* ... that has its answer, ...                                            *)
LEMMA QuietSaveSummary ==
  ASSUME HistoryIInv, NEW r \in Runs, NEW ok \in BOOLEAN, SaveSummary(r, ok)
  PROVE  Quiet /\ HistoryTypeOK'
<1> DEFINE s == run[r].session
<1>1. HistoryTypeOK /\ HistorySessioned
  BY DEF HistoryIInv
<1>2. /\ run[r].pc = "compacting"
      /\ UNCHANGED <<index, minted, jsonl, unended, crashes, cutShort, kept>>
  BY DEF SaveSummary
<1>3. s \in minted /\ s \in Sessions /\ run[r] \in Run
  BY <1>1, <1>2 DEF HistoryTypeOK, HistorySessioned
<1>4. PICK q : /\ run' = [run EXCEPT ![r] = q]
               /\ q = [Fresh EXCEPT !.pc = "loading", !.session = s]
  BY DEF SaveSummary
<1>5. q \in Run /\ q.session = s /\ q.pc = "loading"
  BY <1>3, <1>4, EmptySeq DEF Run, Fresh
<1>6. run' \in [Runs -> Run] /\ run'[r] = q /\ \A p \in Runs : p # r => run'[p] = run[p]
  BY <1>1, <1>4, <1>5 DEF HistoryTypeOK
<1>7. PICK new : /\ new = [upto |-> run[r].upto, text |-> run[r].text]
                 /\ summary' = IF ok THEN [summary EXCEPT ![s] = new] ELSE summary
  BY DEF SaveSummary
<1>8. new \in Summary
  BY <1>3, <1>7 DEF Run, Summary
<1>9. summary' \in [Sessions -> Summary \union {None}]
  BY <1>1, <1>7, <1>8 DEF HistoryTypeOK
<1>10. \A t \in Sessions : summary'[t] = summary[t] \/ (t = s /\ summary'[t] = new)
  BY <1>1, <1>7 DEF HistoryTypeOK
<1>11. \A p \in Runs : /\ run[p].pc = "ended" => run'[p].pc = "ended"
                       /\ run'[p].pc # "idle" => run'[p].session \in minted'
                       /\ run'[p].pc = "compacting" => run'[p] = run[p]
  BY <1>1, <1>2, <1>3, <1>5, <1>6 DEF HistorySessioned
<1>12. HistoryTypeOK'
  BY <1>1, <1>2, <1>6, <1>9 DEF HistoryTypeOK
<1>13. Quiet
  BY <1>2, <1>7, <1>10, <1>11 DEF Quiet
<1> QED BY <1>12, <1>13

(* ... that dies while it writes it, ...                                   *)
LEMMA QuietDieInSummary ==
  ASSUME HistoryIInv, NEW r \in Runs, DieInSummary(r)
  PROVE  Quiet /\ HistoryTypeOK'
<1>1. HistoryTypeOK /\ HistorySessioned
  BY DEF HistoryIInv
<1>2. /\ summary' = [summary EXCEPT ![run[r].session] = None] /\ Die
      /\ UNCHANGED <<index, minted, jsonl, unended, cutShort, kept>>
  BY DEF DieInSummary
<1>3. /\ summary' \in [Sessions -> Summary \union {None}]
      /\ \A t \in Sessions : summary'[t] = summary[t] \/ summary'[t] = None
  BY <1>1, <1>2 DEF HistoryTypeOK
<1>4. /\ run' \in [Runs -> Run] /\ crashes' \in 0..MaxCrashes
      /\ \A p \in Runs : /\ run[p].pc = "ended" => run'[p].pc = "ended"
                         /\ run'[p].pc # "idle" => run'[p].session \in minted
                         /\ run'[p].pc # "compacting"
  BY <1>2, DieFacts
<1>5. HistoryTypeOK'
  BY <1>1, <1>2, <1>3, <1>4 DEF HistoryTypeOK
<1>6. Quiet
  BY <1>2, <1>3, <1>4 DEF Quiet
<1> QED BY <1>5, <1>6

(* ... and a run that needs none.                                          *)
LEMMA QuietStartRun ==
  ASSUME HistoryIInv, NEW r \in Runs, StartRun(r)
  PROVE  Quiet /\ HistoryTypeOK'
<1>1. HistoryTypeOK /\ HistorySessioned
  BY DEF HistoryIInv
<1>2. /\ run[r].pc = "loading" /\ run' = [run EXCEPT ![r].pc = "running"]
      /\ UNCHANGED <<index, minted, jsonl, unended, summary, crashes, cutShort, kept>>
  BY DEF StartRun
<1>3. /\ run' \in [Runs -> Run] /\ run'[r].pc = "running" /\ run'[r].session = run[r].session
      /\ \A q \in Runs : q # r => run'[q] = run[q]
  BY <1>1, <1>2 DEF HistoryTypeOK, Run
<1>4. \A q \in Runs : /\ run[q].pc = "ended" => run'[q].pc = "ended"
                      /\ run'[q].pc # "idle" => run'[q].session \in minted'
                      /\ run'[q].pc = "compacting" => run'[q] = run[q]
  BY <1>1, <1>2, <1>3 DEF HistorySessioned
<1>5. HistoryTypeOK'
  BY <1>1, <1>2, <1>3 DEF HistoryTypeOK
<1>6. Quiet
  BY <1>2, <1>4 DEF Quiet
<1> QED BY <1>5, <1>6

(* Such a step preserves the invariant.                                    *)
LEMMA QuietStep ==
  ASSUME HistoryIInv, Quiet, HistoryTypeOK'
  PROVE  HistoryIInv'
<1>1. /\ HistoryTypeOK /\ HistorySessioned /\ HistoryUnminted
      /\ LinesOnce /\ WholeFiles /\ SummariesFit
  BY DEF HistoryIInv
<1>2. HistorySessioned'
  BY DEF Quiet, HistorySessioned
<1>3. HistoryUnminted'
  <2> SUFFICES ASSUME NEW s \in Sessions \ minted'
               PROVE  jsonl'[s] = <<>> /\ s \notin unended' /\ summary'[s] = None
    BY DEF HistoryUnminted
  <2>1. s \notin minted /\ jsonl[s] = <<>> /\ s \notin unended /\ summary[s] = None
    BY <1>1 DEF Quiet, HistoryUnminted
  <2>2. \A r \in Runs : run[r].pc = "compacting" => run[r].session # s
    BY <1>1, <2>1 DEF HistorySessioned
  <2> QED BY <2>1, <2>2 DEF Quiet
<1>4. LinesOnce'
  <2>1. \A s \in Sessions : \A i \in DOMAIN jsonl[s] :
          jsonl[s][i] \in Entry => jsonl[s][i].run \in Runs
    BY DEF Entry
  <2> QED BY <1>1, <2>1 DEF Quiet, LinesOnce, Entry
<1>5. WholeFiles'
  <2> SUFFICES ASSUME NEW s \in Sessions \ cutShort' PROVE WholeFile(s)'
    BY DEF WholeFiles
  <2>1. WholeFile(s)
    BY <1>1 DEF Quiet, WholeFiles
  <2> QED BY <2>1 DEF Quiet, WholeFile, Entry, Turn
<1>6. ASSUME NEW s, NEW upto, NEW text, CoversIt(s, upto, text)
      PROVE  CoversIt(s, upto, text)'
  BY <1>6 DEF Quiet, CoversIt, Firm, Solid, Entry
<1>7. SummariesFit'
  <2> SUFFICES ASSUME NEW s \in index'.sessions
               PROVE  /\ summary'[s] # None => CoversIt(s, summary[s].upto, summary[s].text)'
                      /\ \A r \in Runs : run'[r].pc = "compacting" /\ run'[r].session = s =>
                           CoversIt(s, run[r].upto, run[r].text)'
    BY DEF SummariesFit
  <2>1. s \in Sessions
    BY DEF HistoryTypeOK
  <2>2. s \in index.sessions \/ s \notin minted
    BY DEF Quiet
  <2>3. /\ summary[s] # None => CoversIt(s, summary[s].upto, summary[s].text)
        /\ \A r \in Runs : run[r].pc = "compacting" /\ run[r].session = s =>
             CoversIt(s, run[r].upto, run[r].text)
    <3>1. CASE s \in index.sessions
      BY <1>1, <3>1 DEF SummariesFit
    <3>2. CASE s \notin minted
      BY <1>1, <2>1, <3>2 DEF HistoryUnminted, HistorySessioned
    <3> QED BY <2>2, <3>1, <3>2
  <2>4. summary'[s] # None => CoversIt(s, summary'[s].upto, summary'[s].text)
    <3>1. CASE summary'[s] = summary[s] \/ summary'[s] = None
      BY <2>3, <3>1
    <3>2. ASSUME NEW r \in Runs, run[r].pc = "compacting", run[r].session = s,
                 summary'[s] = [upto |-> run[r].upto, text |-> run[r].text]
          PROVE  CoversIt(s, summary'[s].upto, summary'[s].text)
      BY <2>3, <3>2
    <3> QED BY <2>1, <3>1, <3>2 DEF Quiet
  <2>5. \A r \in Runs : run'[r].pc = "compacting" /\ run'[r].session = s =>
          CoversIt(s, run'[r].upto, run'[r].text)
    BY <2>3 DEF Quiet
  <2>6. summary'[s] # None => CoversIt(s, summary[s].upto, summary[s].text)'
    <3> SUFFICES ASSUME summary'[s] # None PROVE CoversIt(s, summary[s].upto, summary[s].text)'
      OBVIOUS
    <3>1. PICK u, t : u = summary'[s].upto /\ t = summary'[s].text
      OBVIOUS
    <3>2. CoversIt(s, u, t)'
      BY <1>6, <2>4, <3>1
    <3> QED BY <3>1, <3>2 DEF CoversIt
  <2>7. ASSUME NEW r \in Runs, run'[r].pc = "compacting", run'[r].session = s
        PROVE  CoversIt(s, run[r].upto, run[r].text)'
    <3>1. PICK u, t : u = run'[r].upto /\ t = run'[r].text
      OBVIOUS
    <3>2. CoversIt(s, u, t)'
      BY <1>6, <2>5, <2>7, <3>1
    <3> QED BY <3>1, <3>2 DEF CoversIt
  <2> QED BY <2>6, <2>7
<1> QED BY <1>2, <1>3, <1>4, <1>5, <1>7 DEF HistoryIInv

(* A deletion takes the files away, once the index no longer names them.   *)
LEMMA RemovedStep ==
  ASSUME HistoryIInv, NEW s \in Sessions, AgentDeleteSession(s, "removed")
  PROVE  HistoryIInv'
<1>1. /\ HistoryTypeOK /\ HistorySessioned /\ HistoryUnminted
      /\ LinesOnce /\ WholeFiles /\ SummariesFit
  BY DEF HistoryIInv
<1>2. /\ s \in index.sessions
      /\ index' = [sessions |-> index.sessions \ {s},
                   current  |-> IF index.current = s THEN None ELSE index.current]
      /\ jsonl' = [jsonl EXCEPT ![s] = <<>>]
      /\ unended' = unended \ {s}
      /\ summary' = [summary EXCEPT ![s] = None]
      /\ UNCHANGED <<run, crashes, minted, cutShort, kept>>
  BY DEF AgentDeleteSession, SaveIndex
<1>3. /\ jsonl' \in [Sessions -> Seq(Entry \union {Junk})]
      /\ jsonl'[s] = <<>> /\ \A t \in Sessions : t # s => jsonl'[t] = jsonl[t]
      /\ summary' \in [Sessions -> Summary \union {None}]
      /\ summary'[s] = None /\ \A t \in Sessions : t # s => summary'[t] = summary[t]
  BY <1>1, <1>2, EmptySeq DEF HistoryTypeOK
<1>4. /\ index' \in IndexFile /\ index'.sessions = index.sessions \ {s}
      /\ index'.current \in minted \union {None}
  BY <1>1, <1>2 DEF HistoryTypeOK, IndexFile
<1>5. HistoryTypeOK'
  BY <1>1, <1>2, <1>3, <1>4 DEF HistoryTypeOK
<1>6. HistorySessioned'
  BY <1>1, <1>2 DEF HistorySessioned
<1>7. HistoryUnminted'
  BY <1>1, <1>2, <1>3 DEF HistoryUnminted
<1>8. LinesOnce'
  <2> SUFFICES ASSUME NEW t \in Sessions, NEW i \in DOMAIN jsonl'[t], jsonl'[t][i] \in Entry
               PROVE  /\ run[jsonl'[t][i].run].pc = "ended"
                      /\ \A j \in DOMAIN jsonl'[t] : jsonl'[t][i] = jsonl'[t][j] => i = j
    BY <1>2 DEF LinesOnce, Entry
  <2>1. t # s
    BY <1>3
  <2> QED BY <1>1, <1>3, <2>1 DEF LinesOnce
<1>9. WholeFiles'
  <2> SUFFICES ASSUME NEW t \in Sessions \ cutShort' PROVE WholeFile(t)'
    BY DEF WholeFiles
  <2>1. CASE t = s
    BY <1>2, <1>3, <2>1, EmptySeq DEF WholeFile
  <2>2. CASE t # s
    <3>1. WholeFile(t)
      BY <1>1, <1>2 DEF WholeFiles
    <3> QED BY <1>2, <1>3, <2>2, <3>1 DEF WholeFile, Entry, Turn
  <2> QED BY <2>1, <2>2
<1>10. SummariesFit'
  <2> SUFFICES ASSUME NEW t \in index'.sessions
               PROVE  /\ summary'[t] # None => CoversIt(t, summary[t].upto, summary[t].text)'
                      /\ \A r \in Runs : run'[r].pc = "compacting" /\ run'[r].session = t =>
                           CoversIt(t, run[r].upto, run[r].text)'
    BY DEF SummariesFit
  <2>1. t \in index.sessions /\ t \in Sessions /\ t # s
    BY <1>1, <1>4 DEF HistoryTypeOK
  <2>2. /\ jsonl'[t] = jsonl[t] /\ summary'[t] = summary[t]
        /\ (t \in unended' <=> t \in unended) /\ cutShort' = cutShort /\ run' = run
    BY <1>2, <1>3, <2>1
  <2>3. /\ summary[t] # None => CoversIt(t, summary[t].upto, summary[t].text)
        /\ \A r \in Runs : run[r].pc = "compacting" /\ run[r].session = t =>
             CoversIt(t, run[r].upto, run[r].text)
    BY <1>1, <2>1 DEF SummariesFit
  <2> QED BY <2>2, <2>3 DEF CoversIt, Firm, Solid, Entry
<1> QED BY <1>5, <1>6, <1>7, <1>8, <1>9, <1>10 DEF HistoryIInv

(* What an append does to the runs and to the other files.                 *)
LEMMA AppendsFacts ==
  ASSUME HistoryIInv, NEW r \in Runs, NEW s \in minted, NEW lines \in Written(r),
         Appends(r, s, lines)
  PROVE  /\ HistoryTypeOK'
         /\ run'[r].pc = "ended"
         /\ \A q \in Runs : /\ run[q].pc = "ended" => run'[q].pc = "ended"
                            /\ run'[q].pc # "idle" => run'[q].session \in minted
                            /\ run'[q].pc = "compacting" => run'[q] = run[q]
         /\ jsonl'[s] = Glue(s, lines)
         /\ \A t \in Sessions \ {s} :
              jsonl'[t] = jsonl[t] /\ (t \in unended' <=> t \in unended)
<1>1. HistoryTypeOK /\ HistorySessioned /\ s \in Sessions
  BY DEF HistoryIInv, HistoryTypeOK
<1>2. lines \in Seq(Line)
  BY WrittenType
<1>3. /\ jsonl' \in [Sessions -> Seq(Line)] /\ jsonl'[s] = Glue(s, lines)
      /\ \A t \in Sessions \ {s} : jsonl'[t] = jsonl[t]
  <2>1. Glue(s, lines) \in Seq(Line)
    BY <1>1, <1>2, GlueType
  <2> QED BY <1>1, <2>1 DEF Appends, HistoryTypeOK, Line
<1>4. /\ unended' \subseteq Sessions
      /\ \A t \in Sessions \ {s} : t \in unended' <=> t \in unended
  BY <1>1 DEF Appends, HistoryTypeOK
<1>5. \A t \in unended' : jsonl'[t] # <<>>
  <2> SUFFICES ASSUME NEW t \in unended' PROVE jsonl'[t] # <<>>
    OBVIOUS
  <2>1. CASE t # s
    BY <1>1, <1>3, <1>4, <2>1 DEF HistoryTypeOK
  <2>2. CASE t = s /\ lines # <<>>
    BY <1>1, <1>2, <1>3, <2>2, GlueType
  <2>3. CASE t = s /\ lines = <<>>
    <3>1. jsonl[s] # <<>>
      BY <1>1, <2>3 DEF Appends, HistoryTypeOK
    <3>2. jsonl[s] \o <<>> = jsonl[s]
      <4>1. jsonl[s] \in Seq(Line)
        BY <1>1, SolidFacts
      <4> QED BY <4>1, ConcatEmptySeq
    <3> QED BY <1>3, <2>3, <3>1, <3>2 DEF Glue
  <2> QED BY <2>1, <2>2, <2>3
<1>6. /\ run' \in [Runs -> Run] /\ crashes' \in 0..MaxCrashes
      /\ run'[r].pc = "ended"
      /\ \A q \in Runs : /\ run[q].pc = "ended" => run'[q].pc = "ended"
                         /\ run'[q].pc # "idle" => run'[q].session \in minted
                         /\ run'[q].pc = "compacting" => run'[q] = run[q]
  <2>1. run[r].pc = "running" /\ run[r].session = s
    BY DEF Appends
  <2>2. CASE Die
    BY <2>1, <2>2, DieFacts
  <2>3. CASE run' = [run EXCEPT ![r].pc = "ended"] /\ crashes' = crashes
    <3>1. /\ run' \in [Runs -> Run] /\ run'[r].pc = "ended" /\ run'[r].session = s
          /\ \A q \in Runs : q # r => run'[q] = run[q]
      BY <1>1, <2>1, <2>3 DEF HistoryTypeOK, Run
    <3> QED BY <1>1, <2>1, <2>3, <3>1 DEF HistoryTypeOK, HistorySessioned
  <2> QED BY <2>2, <2>3 DEF Appends
<1>7. /\ index' \in IndexFile /\ index'.sessions \subseteq minted
      /\ index'.current \in minted \union {None}
  BY <1>1, EmptyIndex DEF Appends, HistoryTypeOK
<1>8. HistoryTypeOK'
  BY <1>1, <1>3, <1>4, <1>5, <1>6, <1>7 DEF HistoryTypeOK, Appends, Line
<1> QED BY <1>3, <1>4, <1>6, <1>8

(* The run of the new lines was not over before, so they are no copies.    *)
LEMMA AppendsLinesOnce ==
  ASSUME HistoryIInv, NEW r \in Runs, NEW s \in minted, NEW lines \in Written(r),
         Appends(r, s, lines)
  PROVE  LinesOnce'
<1>1. HistoryTypeOK /\ LinesOnce /\ s \in Sessions
  BY DEF HistoryIInv, HistoryTypeOK
<1>2. /\ run'[r].pc = "ended" /\ \A q \in Runs : run[q].pc = "ended" => run'[q].pc = "ended"
      /\ jsonl'[s] = Glue(s, lines) /\ \A t \in Sessions \ {s} : jsonl'[t] = jsonl[t]
      /\ run[r].pc = "running"
  <2>1. run[r].pc = "running"
    BY DEF Appends
  <2> QED BY <2>1, AppendsFacts
<1>3. /\ lines \in Seq(Line)
      /\ \A k \in DOMAIN lines : lines[k] \in Entry => lines[k].run = r
      /\ \A k, l \in DOMAIN lines : lines[k] \in Entry /\ lines[k] = lines[l] => k = l
  BY WrittenType
<1>4. \A x \in Entry : x.run \in Runs
  BY DEF Entry
<1>5. ASSUME NEW t \in Sessions, NEW i \in DOMAIN jsonl'[t], jsonl'[t][i] \in Entry
      PROVE  /\ run'[jsonl'[t][i].run].pc = "ended"
             /\ \A j \in DOMAIN jsonl'[t] : jsonl'[t][i] = jsonl'[t][j] => i = j
  <2>1. CASE t # s
    BY <1>1, <1>2, <1>4, <1>5, <2>1 DEF LinesOnce
  <2>2. CASE t = s
    <3> DEFINE g == Glue(s, lines)
               q == jsonl[s]
               n == Len(Solid(s))
    <3>1. \A k \in DOMAIN g : \/ k \in DOMAIN q /\ g[k] = q[k]
                              \/ \E l \in DOMAIN lines : k = n + l /\ g[k] = lines[l]
                              \/ g[k] = Junk
      BY <1>1, <1>3, GlueLines
    <3>2. jsonl'[t] = g /\ i \in DOMAIN g /\ g[i] \in Entry
      BY <1>2, <1>5, <2>2
    <3>3. \A k \in DOMAIN q : q[k] \in Entry =>
            /\ run[q[k].run].pc = "ended"
            /\ \A j \in DOMAIN q : q[k] = q[j] => k = j
      BY <1>1 DEF LinesOnce
    <3> HIDE DEF g, q, n
    <3>4. \/ i \in DOMAIN q /\ g[i] = q[i]
          \/ \E l \in DOMAIN lines : i = n + l /\ g[i] = lines[l]
      BY <3>1, <3>2, EntryNotJunk
    <3>5. run'[g[i].run].pc = "ended"
      BY <1>2, <1>3, <1>4, <3>2, <3>3, <3>4
    <3>6. ASSUME NEW j \in DOMAIN g, g[i] = g[j] PROVE i = j
      <4>1. \/ j \in DOMAIN q /\ g[j] = q[j]
            \/ \E l \in DOMAIN lines : j = n + l /\ g[j] = lines[l]
        BY <3>1, <3>2, <3>6, EntryNotJunk
      <4>2. CASE i \in DOMAIN q /\ g[i] = q[i] /\ j \in DOMAIN q /\ g[j] = q[j]
        BY <3>2, <3>3, <3>6, <4>2
      <4>3. CASE (\E l \in DOMAIN lines : i = n + l /\ g[i] = lines[l])
              /\ (\E l \in DOMAIN lines : j = n + l /\ g[j] = lines[l])
        BY <1>3, <3>2, <3>6, <4>3
      <4>4. CASE \/ i \in DOMAIN q /\ g[i] = q[i]
                   /\ (\E l \in DOMAIN lines : j = n + l /\ g[j] = lines[l])
                 \/ j \in DOMAIN q /\ g[j] = q[j]
                   /\ (\E l \in DOMAIN lines : i = n + l /\ g[i] = lines[l])
        <5>1. run[g[i].run].pc = "ended" /\ g[i].run = r
          BY <1>3, <3>2, <3>3, <3>6, <4>4
        <5> QED BY <1>2, <5>1
      <4> QED BY <3>4, <4>1, <4>2, <4>3, <4>4
    <3> QED BY <3>2, <3>5, <3>6
  <2> QED BY <2>1, <2>2
<1> QED BY <1>5 DEF LinesOnce, Entry

(* A file that is not cut short after an append was whole, and has a turn  *)
(* more.                                                                   *)
LEMMA AppendsWhole ==
  ASSUME HistoryIInv, NEW r \in Runs, NEW s \in minted, NEW lines \in Written(r),
         Appends(r, s, lines), NEW t \in Sessions \ cutShort'
  PROVE  /\ WholeFile(t)'
         /\ t \notin cutShort /\ t \notin unended
         /\ jsonl'[t] = jsonl[t] \/ jsonl'[t] = jsonl[t] \o Turn(r)
         /\ jsonl[t] \in Seq(Entry)
<1>1. t \notin cutShort /\ WholeFile(t)
  BY DEF Appends, HistoryIInv, WholeFiles
<1>2. t \notin unended /\ jsonl[t] \in Seq(Entry)
  BY <1>1 DEF WholeFile
<1>3. CASE t # s
  <2>1. jsonl'[t] = jsonl[t] /\ t \notin unended'
    BY <1>2, <1>3, AppendsFacts
  <2> QED BY <1>1, <1>2, <2>1 DEF WholeFile, Entry, Turn
<1>4. CASE t = s
  <2>1. lines = Turn(r) /\ unended' = unended \ {s}
    BY <1>4 DEF Appends
  <2>2. jsonl'[t] = jsonl[t] \o Turn(r)
    <3>1. jsonl'[s] = Glue(s, lines)
      BY AppendsFacts
    <3> QED BY <1>2, <1>4, <2>1, <3>1 DEF Glue
  <2> DEFINE q == jsonl[t]
             w == Turn(r)
             g == q \o w
  <2>3. /\ w \in Seq(Entry) /\ Len(w) = 2
        /\ w[1].role = "user" /\ w[2].role = "reply"
        /\ w[2] = Turn(w[1].run)[2]
    <3>1. /\ UserLine(r) \in Entry /\ ReplyLine(r) \in Entry
          /\ w = <<UserLine(r), ReplyLine(r)>>
      BY WrittenType
    <3>2. w \in Seq(Entry)
      BY <3>1, TwoElements
    <3> QED BY <3>1, <3>2 DEF UserLine, ReplyLine, Turn
  <2>4. /\ q \in Seq(Entry) /\ Len(q) \in Nat /\ DOMAIN q = 1..Len(q)
        /\ q # <<>> => q[1].role = "user"
        /\ \A i \in DOMAIN q : q[i].role = "user" =>
             i < Len(q) /\ q[i + 1] = Turn(q[i].run)[2]
    BY <1>1, <1>2, LenProperties DEF WholeFile
  <2> HIDE DEF q, w
  <2>5. /\ g \in Seq(Entry) /\ Len(g) = Len(q) + 2 /\ DOMAIN g = 1..(Len(q) + 2)
        /\ \A i \in 1..Len(q) : g[i] = q[i]
        /\ g[Len(q) + 1] = w[1] /\ g[Len(q) + 2] = w[2]
    <3>1. /\ g \in Seq(Entry) /\ Len(g) = Len(q) + Len(w)
          /\ \A i \in 1..(Len(q) + Len(w)) : g[i] =
               IF i =< Len(q) THEN q[i] ELSE w[i - Len(q)]
      BY <2>3, <2>4, ConcatProperties
    <3>2. DOMAIN g = 1..Len(g)
      BY <3>1, LenProperties
    <3> HIDE DEF g
    <3> QED BY <2>3, <2>4, <3>1, <3>2
  <2> HIDE DEF g
  <2>6. g[1].role = "user"
    <3>1. CASE q = <<>>
      <4>1. Len(q) = 0
        BY <3>1, EmptySeq
      <4> QED BY <2>3, <2>5, <4>1
    <3>2. CASE q # <<>>
      <4>1. 1 \in 1..Len(q)
        BY <2>4, <3>2, EmptySeq
      <4> QED BY <2>4, <2>5, <3>2, <4>1
    <3> QED BY <3>1, <3>2
  <2>7. ASSUME NEW i \in DOMAIN g, g[i].role = "user"
        PROVE  i < Len(g) /\ g[i + 1] = Turn(g[i].run)[2]
    <3>1. i \in 1..Len(q) \/ i = Len(q) + 1 \/ i = Len(q) + 2
      BY <2>4, <2>5
    <3>2. CASE i \in 1..Len(q)
      <4>1. i < Len(q) /\ q[i + 1] = Turn(q[i].run)[2] /\ i + 1 \in 1..Len(q)
        BY <2>4, <2>5, <2>7, <3>2
      <4> QED BY <2>4, <2>5, <3>2, <4>1
    <3>3. CASE i = Len(q) + 1
      <4>1. i + 1 = Len(q) + 2 /\ i < Len(g)
        BY <2>4, <2>5, <3>3
      <4> QED BY <2>3, <2>5, <3>3, <4>1
    <3>4. CASE i = Len(q) + 2
      BY <2>3, <2>5, <2>7, <3>4
    <3> QED BY <3>1, <3>2, <3>3, <3>4
  <2>8. jsonl'[t] = g
    BY <2>2 DEF g, q, w
  <2>9. t \notin unended'
    BY <1>4, <2>1
  <2>10. WholeFile(t)'
    BY <2>5, <2>6, <2>7, <2>8, <2>9 DEF WholeFile, Entry, Turn
  <2> QED BY <1>1, <1>2, <2>2, <2>10
<1> QED BY <1>3, <1>4

(* What a summary stands for stays a prefix although the file grows.       *)
LEMMA AppendsCovers ==
  ASSUME HistoryIInv, NEW r \in Runs, NEW s \in minted, NEW lines \in Written(r),
         Appends(r, s, lines), NEW t \in Sessions, NEW upto, NEW text, CoversIt(t, upto, text)
  PROVE  CoversIt(t, upto, text)'
<1>1. HistoryTypeOK /\ s \in Sessions
  BY DEF HistoryIInv, HistoryTypeOK
<1> DEFINE F == Firm(t)
<1>2. PICK more \in Seq(Entry) : F' = F \o more
  BY <1>1, FirmGrows
<1>3. F \in Seq(Entry) /\ upto \in 1..Len(F) /\ text = SubSeq(F, 1, upto)
  BY <1>1, EntriesFirm DEF CoversIt
<1>4. upto \in 1..Len(Firm(t)') /\ text = SubSeq(Firm(t)', 1, upto)
  <2>1. PICK g : g = F \o more
    OBVIOUS
  <2>2. Firm(t)' = g
    BY <1>2, <2>1
  <2> HIDE DEF F
  <2>3. Len(g) = Len(F) + Len(more) /\ Len(F) \in Nat /\ Len(more) \in Nat
    BY <1>3, <2>1, ConcatProperties, LenProperties
  <2>4. 1 \in 1..Len(F)
    BY <1>3, <2>3
  <2>5. SubSeq(g, 1, upto) = SubSeq(F, 1, upto)
    BY <1>3, <2>1, <2>4, SubSeqOfConcat1
  <2>6. upto \in 1..Len(g)
    BY <1>3, <2>3
  <2> QED BY <1>3, <2>2, <2>5, <2>6
<1>5. t \notin cutShort' =>
        upto < Len(jsonl'[t]) /\ jsonl'[t][upto + 1].role = "user"
  <2> SUFFICES ASSUME t \notin cutShort'
               PROVE  upto < Len(jsonl'[t]) /\ jsonl'[t][upto + 1].role = "user"
    OBVIOUS
  <2>1. /\ t \notin cutShort /\ jsonl[t] \in Seq(Entry)
        /\ jsonl'[t] = jsonl[t] \/ jsonl'[t] = jsonl[t] \o Turn(r)
    BY AppendsWhole
  <2>2. upto < Len(jsonl[t]) /\ jsonl[t][upto + 1].role = "user"
    BY <2>1 DEF CoversIt
  <2>3. CASE jsonl'[t] = jsonl[t]
    BY <2>2, <2>3
  <2>4. CASE jsonl'[t] = jsonl[t] \o Turn(r)
    <3> DEFINE q == jsonl[t]
               w == Turn(r)
               i == upto + 1
    <3>1. q \in Seq(Entry) /\ w \in Seq(Entry)
      <4>1. /\ UserLine(r) \in Entry /\ ReplyLine(r) \in Entry
            /\ w = <<UserLine(r), ReplyLine(r)>>
        BY WrittenType
      <4> QED BY <2>1, <4>1, TwoElements
    <3>2. i \in 1..Len(q) /\ upto < Len(q) /\ q[i].role = "user"
      BY <1>3, <2>1, <2>2, LenProperties
    <3> HIDE DEF q, w, i
    <3>3. /\ Len(q \o w) = Len(q) + Len(w)
          /\ Len(q) \in Nat /\ Len(w) \in Nat
          /\ \A j \in 1..(Len(q) + Len(w)) : (q \o w)[j] =
               IF j =< Len(q) THEN q[j] ELSE w[j - Len(q)]
      BY <3>1, ConcatProperties, LenProperties
    <3>4. (q \o w)[i] = q[i]
      BY <3>2, <3>3
    <3>5. upto < Len(q \o w)
      BY <1>3, <3>2, <3>3
    <3>6. jsonl'[t] = q \o w
      BY <2>4 DEF q, w
    <3> QED BY <3>2, <3>4, <3>5, <3>6 DEF i
  <2> QED BY <2>1, <2>3, <2>4
<1> QED BY <1>4, <1>5 DEF CoversIt

(* An append preserves the invariant.                                      *)
LEMMA AppendsStep ==
  ASSUME HistoryIInv, NEW r \in Runs, NEW s \in minted, NEW lines \in Written(r),
         Appends(r, s, lines)
  PROVE  HistoryIInv'
<1>1. HistoryTypeOK /\ HistorySessioned /\ HistoryUnminted /\ SummariesFit /\ s \in Sessions
  BY DEF HistoryIInv, HistoryTypeOK
<1>2. /\ HistoryTypeOK'
      /\ \A q \in Runs : /\ run'[q].pc # "idle" => run'[q].session \in minted
                         /\ run'[q].pc = "compacting" => run'[q] = run[q]
      /\ \A t \in Sessions \ {s} :
           jsonl'[t] = jsonl[t] /\ (t \in unended' <=> t \in unended)
  BY AppendsFacts
<1>3. minted' = minted /\ summary' = summary /\ index' \in {index, Empty}
  BY DEF Appends
<1>4. HistorySessioned'
  BY <1>2, <1>3 DEF HistorySessioned
<1>5. HistoryUnminted'
  BY <1>1, <1>2, <1>3 DEF HistoryUnminted
<1>6. LinesOnce'
  BY AppendsLinesOnce
<1>7. WholeFiles'
  BY AppendsWhole DEF WholeFiles
<1>8. SummariesFit'
  <2> SUFFICES ASSUME NEW t \in index'.sessions
               PROVE  /\ summary'[t] # None => CoversIt(t, summary[t].upto, summary[t].text)'
                      /\ \A q \in Runs : run'[q].pc = "compacting" /\ run'[q].session = t =>
                           CoversIt(t, run[q].upto, run[q].text)'
    BY DEF SummariesFit
  <2>1. t \in index.sessions /\ t \in Sessions
    BY <1>1, <1>3, EmptyIndex DEF HistoryTypeOK
  <2>2. ASSUME summary'[t] # None
        PROVE  CoversIt(t, summary[t].upto, summary[t].text)'
    <3>1. PICK u, x : u = summary[t].upto /\ x = summary[t].text
      OBVIOUS
    <3>2. CoversIt(t, u, x)
      BY <1>1, <1>3, <2>1, <2>2, <3>1 DEF SummariesFit
    <3>3. CoversIt(t, u, x)'
      BY <2>1, <3>2, AppendsCovers
    <3> QED BY <1>3, <3>1, <3>3 DEF CoversIt
  <2>3. ASSUME NEW q \in Runs, run'[q].pc = "compacting", run'[q].session = t
        PROVE  CoversIt(t, run[q].upto, run[q].text)'
    <3>1. PICK u, x : u = run[q].upto /\ x = run[q].text
      OBVIOUS
    <3>2. run'[q] = run[q]
      BY <1>2, <2>3
    <3>3. CoversIt(t, u, x)
      BY <1>1, <2>1, <2>3, <3>1, <3>2 DEF SummariesFit
    <3>4. CoversIt(t, u, x)'
      BY <2>1, <3>3, AppendsCovers
    <3> QED BY <3>1, <3>2, <3>4 DEF CoversIt
  <2> QED BY <2>2, <2>3
<1> QED BY <1>2, <1>4, <1>5, <1>6, <1>7, <1>8 DEF HistoryIInv

(* The invariant holds at the beginning, ...                               *)
LEMMA HistoryInvInit ==
  ASSUME HistoryInit
  PROVE  HistoryIInv
<1>1. HistoryTypeOK
  BY EmptyIndex, EmptySeq, HistoryAssumption
     DEF HistoryInit, HistoryTypeOK, Fresh, Run, Empty
<1>2. HistorySessioned /\ HistoryUnminted
  BY DEF HistoryInit, HistorySessioned, HistoryUnminted, Fresh
<1>3. LinesOnce
  BY DEF HistoryInit, LinesOnce
<1>4. WholeFiles
  BY EmptySeq DEF HistoryInit, WholeFiles, WholeFile
<1>5. SummariesFit
  BY DEF HistoryInit, SummariesFit, Empty
<1> QED BY <1>1, <1>2, <1>3, <1>4, <1>5 DEF HistoryIInv

(* ... every step preserves it, ...                                        *)
LEMMA HistoryInvStep ==
  ASSUME HistoryIInv, [HistoryNext]_historyVars
  PROVE  HistoryIInv'
<1>1. ASSUME NEW s \in Sessions, NEW alive \in BOOLEAN, AgentNewSession(s, alive)
      PROVE  HistoryIInv'
  BY <1>1, QuietNewSession, QuietStep
<1>2. ASSUME NEW s \in Sessions \union {None}, NEW alive \in BOOLEAN,
             AgentSwitchSession(s, alive)
      PROVE  HistoryIInv'
  BY <1>2, QuietSwitchSession, QuietStep
<1>3. ASSUME NEW s \in Sessions, NEW stage \in {"saving", "saved", "removed"},
             AgentDeleteSession(s, stage)
      PROVE  HistoryIInv'
  <2>1. CASE stage = "removed"
    BY <1>3, <2>1, RemovedStep
  <2>2. CASE stage # "removed"
    <3>1. stage \in {"saving", "saved"}
      BY <2>2
    <3> QED BY <1>3, <3>1, QuietDeleteSession, QuietStep
  <2> QED BY <2>1, <2>2
<1>4. ASSUME NEW r \in Runs, NEW s \in Sessions, PrepareNew(r, s) PROVE HistoryIInv'
  BY <1>4, QuietPrepareNew, QuietStep
<1>5. ASSUME NEW r \in Runs, NEW over \in BOOLEAN, Compact(r, over) PROVE HistoryIInv'
  BY <1>5, QuietCompact, QuietStep
<1>6. ASSUME NEW r \in Runs, NEW ok \in BOOLEAN, SaveSummary(r, ok) PROVE HistoryIInv'
  BY <1>6, QuietSaveSummary, QuietStep
<1>7. ASSUME NEW r \in Runs, DieInSummary(r) \/ StartRun(r) PROVE HistoryIInv'
  BY <1>7, QuietDieInSummary, QuietStartRun, QuietStep
<1>8. ASSUME NEW r \in Runs,
             \/ AppendTurn(r) \/ DieInAppendIndex(r)
             \/ \E n \in 0..1, piece \in {"nothing", "part", "noNewline"}, alive \in BOOLEAN :
                  AppendHalf(r, n, piece, alive)
      PROVE  HistoryIInv'
  <2>1. HistoryTypeOK /\ HistorySessioned
    BY DEF HistoryIInv
  <2>2. PICK s \in minted, lines \in Written(r) : Appends(r, s, lines)
    BY <1>8, <2>1, AppendsAre
  <2> QED BY <2>2, AppendsStep
<1>9. CASE UNCHANGED historyVars
  <2>1. Quiet /\ HistoryTypeOK'
    BY <1>9 DEF historyVars, Quiet, HistoryIInv, HistoryTypeOK, HistorySessioned
  <2> QED BY <2>1, QuietStep
<1> QED BY <1>1, <1>2, <1>3, <1>4, <1>5, <1>6, <1>7, <1>8, <1>9 DEF HistoryNext

(* ... so it always holds.                                                 *)
LEMMA HistoryInvariant == HistorySpec => []HistoryIInv
<1>1. HistoryInit => HistoryIInv
  BY HistoryInvInit
<1>2. HistoryIInv /\ [HistoryNext]_historyVars => HistoryIInv'
  BY HistoryInvStep
<1> QED BY <1>1, <1>2, PTL DEF HistorySpec

(* What the invariant says of the properties: a summary covers a prefix,   *)
(* ...                                                                     *)
LEMMA SummariesCover ==
  ASSUME HistoryIInv
  PROVE  SummaryCoversPrefix
BY SummaryFits DEF SummaryCoversPrefix

(* What a run is told is what its conversation holds.                      *)
ContextIsTheEntries == \A s \in index.sessions : Context(s) = Entries(s)

(* ... it and the rest are all the entries, ...                            *)
LEMMA ContextWhole ==
  ASSUME HistoryIInv
  PROVE  ContextIsTheEntries
<1> SUFFICES ASSUME NEW s \in index.sessions PROVE Context(s) = Entries(s)
  BY DEF ContextIsTheEntries
<1> DEFINE E == Entries(s)
           o == Offset(s)
<1>1. s \in Sessions /\ HistoryTypeOK
  BY DEF HistoryIInv, HistoryTypeOK
<1>2. E \in Seq(Entry) /\ o \in 0..Len(E) /\ Len(E) \in Nat
  BY <1>1, RestFacts, LenProperties
<1>3. (IF Usable(s) THEN summary[s].text ELSE <<>>) = SubSeq(E, 1, o)
  <2>1. CASE Usable(s)
    <3>1. summary[s].text = SubSeq(E, 1, summary[s].upto)
      BY <2>1, SummaryFits DEF Usable
    <3> QED BY <2>1, <3>1 DEF Offset
  <2>2. CASE ~Usable(s)
    <3>1. o = 0
      BY <2>2 DEF Offset
    <3>2. SubSeq(E, 1, 0) = <<>>
      BY <1>2, PrefixGrows
    <3> QED BY <2>2, <3>1, <3>2
  <2> QED BY <2>1, <2>2
<1>4. Context(s) = SubSeq(E, 1, o) \o SubSeq(E, o + 1, Len(E))
  BY <1>3 DEF Context, Rest
<1> HIDE DEF E, o
<1>5. 1 \in 1..(Len(E) + 1) /\ o \in (1 - 1)..Len(E) /\ Len(E) \in o..Len(E)
  BY <1>2
<1>6. SubSeq(E, 1, o) \o SubSeq(E, o + 1, Len(E)) = SubSeq(E, 1, Len(E))
  BY <1>2, <1>5, ConcatAdjacentSubSeq
<1> QED BY <1>2, <1>4, <1>6, PrefixGrows DEF E

(* ... which have no entry twice ...                                       *)
LEMMA ContextOnce ==
  ASSUME HistoryIInv
  PROVE  ContextRepeatsNothing
<1> SUFFICES ASSUME NEW s \in index.sessions PROVE Distinct(Context(s))
  BY DEF ContextRepeatsNothing, Distinct
<1>1. s \in Sessions /\ HistoryTypeOK /\ LinesOnce
  BY DEF HistoryIInv, HistoryTypeOK
<1> DEFINE q == jsonl[s]
<1>2. q \in Seq(Line)
  BY <1>1 DEF HistoryTypeOK, Line
<1>3. \A i, j \in DOMAIN q : q[i] = q[j] /\ q[i] \in Entry => i = j
  BY <1>1 DEF LinesOnce
<1>4. Distinct(Only(q, Entry))
  <2> HIDE DEF q
  <2> QED BY <1>2, <1>3, OnlyDistinct
<1>5. Context(s) = Only(q, Entry)
  BY ContextWhole DEF ContextIsTheEntries, Entries
<1> QED BY <1>4, <1>5

(* ... and, behind the offset, begin with a user message.                  *)
LEMMA TurnsWhole ==
  ASSUME HistoryIInv
  PROVE  TurnsAreWhole
<1> SUFFICES ASSUME NEW s \in index.sessions \ cutShort, NEW i \in DOMAIN Rest(s)
             PROVE  /\ i = 1 => Rest(s)[i].role = "user"
                    /\ Rest(s)[i].role = "user" =>
                         i < Len(Rest(s)) /\ Rest(s)[i + 1] = Turn(Rest(s)[i].run)[2]
  BY DEF TurnsAreWhole
<1> DEFINE R == Rest(s)
           E == Entries(s)
           o == Offset(s)
<1>1. s \in Sessions /\ HistoryTypeOK /\ s \notin cutShort
  BY DEF HistoryIInv, HistoryTypeOK
<1>2. /\ E \in Seq(Entry) /\ o \in 0..Len(E) /\ Len(E) \in Nat
      /\ R \in Seq(Entry) /\ Len(R) = Len(E) - o /\ DOMAIN R = 1..Len(R)
      /\ DOMAIN E = 1..Len(E)
      /\ \A k \in 1..Len(R) : R[k] = E[o + k]
  BY <1>1, RestFacts, LenProperties
<1>3. WholeFile(s) /\ E = jsonl[s]
  BY <1>1, WholeEntries
<1>4. /\ E # <<>> => E[1].role = "user"
      /\ \A k \in DOMAIN E : E[k].role = "user" =>
           k < Len(E) /\ E[k + 1] = Turn(E[k].run)[2]
  BY <1>3 DEF WholeFile
<1>5. o > 0 => o < Len(E) /\ E[o + 1].role = "user"
  <2> SUFFICES ASSUME o > 0 PROVE o < Len(E) /\ E[o + 1].role = "user"
    OBVIOUS
  <2>1. summary[s] # None /\ o = summary[s].upto
    BY DEF Offset, Usable
  <2>2. CoversIt(s, o, summary[s].text)
    BY <2>1 DEF HistoryIInv, SummariesFit
  <2> QED BY <1>1, <1>3, <2>2 DEF CoversIt
<1>6. i \in 1..Len(R)
  BY <1>2
<1> HIDE DEF R, E, o
<1>7. i = 1 => R[i].role = "user"
  <2> SUFFICES ASSUME i = 1 PROVE R[i].role = "user"
    OBVIOUS
  <2>1. R[i] = E[o + 1]
    BY <1>2, <1>6
  <2>2. CASE o = 0
    <3>1. E # <<>>
      <4>1. Len(E) # 0
        BY <1>2, <1>6, <2>2
      <4> QED BY <4>1, EmptySeq
    <3> QED BY <1>4, <2>1, <2>2, <3>1
  <2>3. CASE o # 0
    <3>1. o > 0
      BY <1>2, <2>3
    <3> QED BY <1>5, <2>1, <3>1
  <2> QED BY <2>2, <2>3
<1>8. ASSUME R[i].role = "user"
      PROVE  i < Len(R) /\ R[i + 1] = Turn(R[i].run)[2]
  <2> DEFINE k == o + i
  <2>1. k \in 1..Len(E) /\ k \in DOMAIN E /\ R[i] = E[k]
    BY <1>2, <1>6
  <2>2. k < Len(E) /\ E[k + 1] = Turn(R[i].run)[2]
    BY <1>4, <1>8, <2>1
  <2>3. i < Len(R) /\ i + 1 \in 1..Len(R) /\ k + 1 = o + (i + 1)
    BY <1>2, <1>6, <2>2
  <2>4. R[i + 1] = E[k + 1]
    <3> HIDE DEF k
    <3> QED BY <1>2, <2>3
  <2> QED BY <2>2, <2>3, <2>4
<1> QED BY <1>7, <1>8 DEF R

(* Every variable of the store keeps its type.                             *)
THEOREM HistoryTypeCorrect == HistorySpec => []HistoryTypeOK
<1>1. HistoryIInv => HistoryTypeOK
  BY DEF HistoryIInv
<1> QED BY <1>1, HistoryInvariant, PTL

(* A summary stands for exactly the first entries of its conversation,     *)
(* although the store is unlocked while the language model writes it, the  *)
(* transcript may grow meanwhile and any write may stop halfway.           *)
THEOREM SummariesCoverPrefixes == HistorySpec => []SummaryCoversPrefix
<1>1. HistoryIInv => SummaryCoversPrefix
  BY SummariesCover
<1> QED BY <1>1, HistoryInvariant, PTL

(* The context a run is given - the summary and the turns kept word for    *)
(* word - is the whole conversation as its file can be read: a compaction  *)
(* forgets nothing, however it overlaps with appends and crashes.          *)
THEOREM ContextIsTheConversation == HistorySpec => []ContextIsTheEntries
<1>1. HistoryIInv => ContextIsTheEntries
  BY ContextWhole
<1> QED BY <1>1, HistoryInvariant, PTL

(* ... and has no entry twice, for every number of runs, conversations and *)
(* crashes.                                                                *)
THEOREM NothingIsToldTwice == HistorySpec => []ContextRepeatsNothing
<1>1. HistoryIInv => ContextRepeatsNothing
  BY ContextOnce
<1> QED BY <1>1, HistoryInvariant, PTL

(* In a file no write was cut short in, what is kept word for word begins  *)
(* with a user message and has every reply behind its question.            *)
THEOREM TurnsStayWhole == HistorySpec => []TurnsAreWhole
<1>1. HistoryIInv => TurnsAreWhole
  BY TurnsWhole
<1> QED BY <1>1, HistoryInvariant, PTL

-----------------------------------------------------------------------------
(* The rounds of a run (AgentRounds).                                      *)
(*                                                                         *)
(* The messages of a run up to some point: the user, then answers with     *)
(* calls, each with its results behind it, in order; the last one may      *)
(* still lack some.                                                        *)
RoundsOf(ms) ==
    /\ ms \in Seq(Message) /\ ms # <<>> /\ ms[1] = User
    /\ \A k \in 2..Len(ms) :
         \/ ms[k].role = "tool"
         \/ /\ ms[k] = Assistant(ms[k].calls)
            /\ ms[k].calls # <<>> /\ Distinct(ms[k].calls)
    /\ Len(ms) > 1 => ms[2].role = "assistant"
    /\ \A k \in DOMAIN ms : ms[k].role = "assistant" =>
         LET n == Len(ms[k].calls) IN
         /\ \A j \in 1..n : k + j =< Len(ms) => ms[k + j] = Tool(ms[k].calls[j])
         /\ k + n < Len(ms) => ms[k + n + 1].role = "assistant"

(* Its last answer is at a, and these calls of it have no result yet.      *)
LastAnswer(ms, a) ==
    /\ a \in 2..Len(ms) /\ ms[a].role = "assistant"
    /\ \A j \in (a + 1)..Len(ms) : ms[j].role = "tool"

Lost(ms, a) == SubSeq(ms[a].calls, Len(ms) - a + 1, Len(ms[a].calls))

(* The calls the run still has to execute.                                 *)
Awaits(ms, calls) ==
    \/ Len(ms) = 1 /\ calls = <<>>
    \/ \E a \in DOMAIN ms : LastAnswer(ms, a) /\ calls = Lost(ms, a)

(* The whole of a run: nothing is missing, a final answer comes last.      *)
Ended(ms) ==
    /\ RoundsOf(Front(ms)) /\ Awaits(Front(ms), <<>>)
    /\ ms = Append(Front(ms), Assistant(<<>>))

(* The inductive invariant.  The messages are such a run, whose calls      *)
(* without a result are those to do, and the conversation ends with a      *)
(* whole one; ...                                                          *)
MessagesFit ==
    /\ pc = "idle" => messages = <<>>
    /\ pc # "idle" => RoundsOf(messages) /\ Awaits(messages, todo)
    /\ pc = "calling" <=> todo # <<>>
    /\ prior # <<>> => Ended(prior)

(* ... no text of an attempt is left before the next one streams, and no   *)
(* call is opened twice; ...                                               *)
StreamFits ==
    /\ pc \in {"idle", "asking", "requested", "waiting"} => content = <<>>
    /\ Distinct(order)
    /\ \A k \in DOMAIN order : blocks[order[k]].kind # "none"

(* ... with these the two properties and the types can be kept up.         *)
RoundsIInv ==
    /\ RoundsTypeOK /\ (pc = "waiting" => attempt < MaxRetries)
    /\ ReplyIsTheStream /\ StreamFits /\ MessagesFit

(* Before message k of a transcript that begins with no result somebody    *)
(* spoke last, ...                                                         *)
LEMMA HeadExists ==
  ASSUME NEW ms, NEW k \in Nat, k > 1, ms[1].role # "tool"
  PROVE  \E h \in 1..(k - 1) : Speaks(ms, h, k)
<1> DEFINE T == {h \in 1..(k - 1) : ms[h].role # "tool"}
           N == k - 1
<1>1. T \in SUBSET (1..N) /\ 1 \in T /\ N \in Nat
  OBVIOUS
<1>2. PICK h \in T : \A g \in T : g =< h
  <2> HIDE DEF T, N
  <2> QED BY <1>1, Highest
<1>3. \A j \in (h + 1)..(k - 1) : ms[j].role = "tool"
  BY <1>2
<1> QED BY <1>2, <1>3 DEF Speaks

(* ... and the calls and results RepairPairing looks at are that           *)
(* message's.                                                              *)
LEMMA AskedIs ==
  ASSUME NEW ms, NEW k \in Nat, NEW h \in 1..(k - 1), Speaks(ms, h, k)
  PROVE  /\ Asked(ms, k) = ms[h].calls
         /\ Answered(ms, k) = {ms[j].id : j \in (h + 1)..(k - 1)}
<1>1. \A g \in 1..(k - 1) : Speaks(ms, g, k) => g = h
  BY DEF Speaks
<1>2. Asked(ms, k) = ms[h].calls
  BY <1>1 DEF Asked
<1>3. {j \in 1..(k - 1) : \A g \in j..(k - 1) : ms[g].role = "tool"} = (h + 1)..(k - 1)
  BY DEF Speaks
<1> QED BY <1>2, <1>3 DEF Answered

(* Who spoke last before message k of a run, and where k stands behind it. *)
LEMMA ShapeOf ==
  ASSUME NEW ms, RoundsOf(ms), NEW k \in 2..(Len(ms) + 1),
         NEW h \in 1..(k - 1), Speaks(ms, h, k)
  PROVE  /\ ms[h].calls \in Seq(Index) /\ Distinct(ms[h].calls)
         /\ k =< h + Len(ms[h].calls) + 1
         /\ \A j \in (h + 1)..(k - 1) : ms[j] = Tool(ms[h].calls[j - h])
         /\ k =< Len(ms) /\ ms[k].role = "tool" =>
              k =< h + Len(ms[h].calls) /\ ms[k] = Tool(ms[h].calls[k - h])
         /\ k =< Len(ms) /\ ms[k].role # "tool" => k = h + Len(ms[h].calls) + 1
<1>1. /\ ms \in Seq(Message) /\ ms[1] = User /\ Len(ms) \in Nat /\ DOMAIN ms = 1..Len(ms)
      /\ \A i \in 2..Len(ms) : ms[i].role = "tool" \/ ms[i].role = "assistant"
      /\ \A i \in 2..Len(ms) : ms[i].role = "assistant" => Distinct(ms[i].calls)
      /\ Len(ms) > 1 => ms[2].role = "assistant"
  <2>1. /\ ms \in Seq(Message) /\ ms[1] = User
        /\ Len(ms) > 1 => ms[2].role = "assistant"
    BY DEF RoundsOf
  <2>2. Len(ms) \in Nat /\ DOMAIN ms = 1..Len(ms)
    BY <2>1, LenProperties
  <2>3. \A i \in 2..Len(ms) :
          \/ ms[i].role = "tool"
          \/ ms[i] = Assistant(ms[i].calls) /\ Distinct(ms[i].calls)
    BY DEF RoundsOf
  <2>4. \A c : Assistant(c).role = "assistant"
    BY DEF Assistant
  <2>5. ASSUME NEW i \in 2..Len(ms)
        PROVE  /\ ms[i].role = "tool" \/ ms[i].role = "assistant"
               /\ ms[i].role = "assistant" => Distinct(ms[i].calls)
    <3>1. CASE ms[i].role = "tool"
      BY <3>1
    <3>2. CASE ms[i] = Assistant(ms[i].calls) /\ Distinct(ms[i].calls)
      <4>1. ms[i].role = "assistant"
        BY <2>4, <3>2
      <4> QED BY <3>2, <4>1
    <3> QED BY <2>3, <3>1, <3>2
  <2> QED BY <2>1, <2>2, <2>5
<1>2. ms[h].calls \in Seq(Index)
  <2>1. ms[h] \in Message
    BY <1>1, ElementOfSeq
  <2> QED BY <2>1 DEF Message
<1> DEFINE c == ms[h].calls
           n == Len(c)
<1>3. n \in Nat
  BY <1>2, LenProperties
<1>4. CASE h = 1
  <2>1. c = <<>> /\ n = 0
    BY <1>1, <1>4, EmptySeq DEF User
  <2>2. k = 2
    BY <1>1, <1>4 DEF Speaks
  <2>3. Distinct(c)
    BY <2>1 DEF Distinct
  <2> QED BY <1>1, <1>2, <1>4, <2>1, <2>2, <2>3
<1>5. CASE h # 1
  <2>1. h \in 2..Len(ms) /\ ms[h].role = "assistant" /\ Distinct(c)
    BY <1>1, <1>5 DEF Speaks
  <2>2. /\ \A j \in 1..n : h + j =< Len(ms) => ms[h + j] = Tool(c[j])
        /\ h + n < Len(ms) => ms[h + n + 1].role = "assistant"
    <3>1. h \in DOMAIN ms
      BY <1>1, <2>1
    <3>2. LET m == Len(ms[h].calls) IN
          /\ \A j \in 1..m : h + j =< Len(ms) => ms[h + j] = Tool(ms[h].calls[j])
          /\ h + m < Len(ms) => ms[h + m + 1].role = "assistant"
      BY <2>1, <3>1 DEF RoundsOf
    <3> QED BY <3>2
  <2>3. \A j \in (h + 1)..(k - 1) : ms[j].role = "tool"
    BY DEF Speaks
  <2> HIDE DEF c, n
  <2>4. k =< h + n + 1
    <3> SUFFICES ASSUME k > h + n + 1 PROVE FALSE
      BY <1>3
    <3>1. h + n + 1 \in (h + 1)..(k - 1) /\ h + n < Len(ms)
      BY <1>1, <1>3
    <3> QED BY <2>2, <2>3, <3>1
  <2>5. ASSUME NEW j \in (h + 1)..(h + n), j =< Len(ms)
        PROVE  ms[j] = Tool(c[j - h])
    <3>1. j - h \in 1..n /\ h + (j - h) = j
      BY <1>3
    <3> QED BY <2>2, <2>5, <3>1
  <2>6. \A j \in (h + 1)..(k - 1) : ms[j] = Tool(c[j - h])
    <3> TAKE j \in (h + 1)..(k - 1)
    <3>1. j \in (h + 1)..(h + n) /\ j =< Len(ms)
      BY <1>1, <1>3, <2>4
    <3> QED BY <2>5, <3>1
  <2>7. ASSUME k =< Len(ms), ms[k].role = "tool"
        PROVE  k =< h + n /\ ms[k] = Tool(c[k - h])
    <3>1. k # h + n + 1
      BY <1>3, <2>2, <2>7
    <3>2. k \in (h + 1)..(h + n)
      BY <1>3, <2>4, <3>1
    <3> QED BY <2>5, <2>7, <3>2
  <2>8. ASSUME k =< Len(ms), ms[k].role # "tool" PROVE k = h + n + 1
    <3> SUFFICES ASSUME k # h + n + 1 PROVE FALSE
      OBVIOUS
    <3>1. k \in (h + 1)..(h + n)
      BY <1>3, <2>4
    <3>2. ms[k] = Tool(c[k - h])
      BY <2>5, <2>8, <3>1
    <3> QED BY <2>8, <3>2 DEF Tool
  <2> QED BY <1>2, <2>1, <2>4, <2>6, <2>7, <2>8 DEF c, n
<1> QED BY <1>4, <1>5

(* Of the calls of the last speaker, those from k on have no result.       *)
LEMMA UnansweredIs ==
  ASSUME NEW ms, RoundsOf(ms), NEW k \in 2..(Len(ms) + 1), NEW h \in 1..(k - 1),
         NEW w, \A j \in 1..(k - 1) : w[j] = ms[j], Speaks(w, h, k)
  PROVE  /\ Speaks(ms, h, k) /\ Asked(w, k) = ms[h].calls
         /\ \A m \in DOMAIN ms[h].calls :
              ms[h].calls[m] \in Unanswered(w, k) <=> m >= k - h
<1> DEFINE c == ms[h].calls
<1>1. Speaks(ms, h, k)
  <2>1. \A j \in (h + 1)..(k - 1) : j \in 1..(k - 1)
    OBVIOUS
  <2> QED BY <2>1 DEF Speaks
<1>2. /\ c \in Seq(Index) /\ Distinct(c) /\ k =< h + Len(c) + 1
      /\ \A j \in (h + 1)..(k - 1) : ms[j] = Tool(c[j - h])
  BY <1>1, ShapeOf
<1>3. k \in Nat /\ Len(c) \in Nat /\ DOMAIN c = 1..Len(c)
  <2>1. Len(ms) \in Nat
    BY LenProperties DEF RoundsOf
  <2> QED BY <1>2, <2>1, LenProperties
<1>4. Asked(w, k) = c /\ Answered(w, k) = {w[j].id : j \in (h + 1)..(k - 1)}
  BY <1>3, AskedIs
<1> HIDE DEF c
<1>5. \A j \in (h + 1)..(k - 1) : w[j].id = c[j - h]
  <2> TAKE j \in (h + 1)..(k - 1)
  <2>1. w[j] = ms[j]
    BY <1>3
  <2>2. ms[j] = Tool(c[j - h])
    BY <1>2
  <2> QED BY <2>1, <2>2 DEF Tool
<1>6. ASSUME NEW m \in DOMAIN c
      PROVE  c[m] \in Answered(w, k) <=> m < k - h
  <2>1. ASSUME m < k - h PROVE c[m] \in Answered(w, k)
    <3>1. h + m \in (h + 1)..(k - 1) /\ (h + m) - h = m
      BY <1>3, <2>1
    <3>2. w[h + m].id = c[m]
      BY <1>5, <3>1
    <3> QED BY <1>4, <3>1, <3>2
  <2>2. ASSUME c[m] \in Answered(w, k) PROVE m < k - h
    <3>1. PICK j \in (h + 1)..(k - 1) : w[j].id = c[m]
      BY <1>4, <2>2
    <3>2. c[j - h] = c[m] /\ j - h \in DOMAIN c
      BY <1>2, <1>3, <1>5, <3>1
    <3>3. j - h = m
      BY <1>2, <3>2 DEF Distinct
    <3> QED BY <1>3, <3>3
  <2> QED BY <2>1, <2>2
<1>7. \A m \in DOMAIN c : c[m] \in ToSet(c)
  BY DEF ToSet
<1>8. \A m \in DOMAIN c : c[m] \in Unanswered(w, k) <=> m >= k - h
  BY <1>3, <1>4, <1>6, <1>7 DEF Unanswered
<1> QED BY <1>1, <1>4, <1>8 DEF c

Final == Assistant(<<>>)
Results(calls) == [m \in DOMAIN calls |-> Tool(calls[m])]

(* The messages are messages, and so are the results of calls.             *)
LEMMA MessageTypes ==
  /\ Final \in Message /\ User \in Message
  /\ \A i \in Index : Tool(i) \in Message
  /\ \A c \in Seq(Index) : Assistant(c) \in Message
BY EmptySeq DEF Final, User, Tool, Assistant, Message

LEMMA ResultsType ==
  ASSUME NEW c \in Seq(Index)
  PROVE  /\ Results(c) \in Seq(Message) /\ Len(Results(c)) = Len(c)
         /\ DOMAIN Results(c) = 1..Len(c) /\ DOMAIN c = 1..Len(c) /\ Len(c) \in Nat
         /\ \A m \in 1..Len(c) : Results(c)[m] = Tool(c[m])
<1>1. DOMAIN c = 1..Len(c) /\ Len(c) \in Nat /\ \A m \in 1..Len(c) : c[m] \in Index
  BY LenProperties, ElementOfSeq
<1>2. Results(c) = [m \in 1..Len(c) |-> Tool(c[m])]
  BY <1>1 DEF Results
<1>3. \A m \in 1..Len(c) : Tool(c[m]) \in Message
  BY <1>1, MessageTypes
<1>4. Results(c) \in [1..Len(c) -> Message]
  BY <1>2, <1>3
<1>5. Results(c) \in Seq(Message)
  BY <1>1, <1>4, IsASeq
<1> QED BY <1>1, <1>2, <1>5, LenProperties

(* Without calls there is nothing to put out.                              *)
LEMMA NoneAsked ==
  ASSUME NEW w, NEW k, Asked(w, k) = <<>>
  PROVE  NotExecuted(w, k) = <<>>
<1>1. [n \in DOMAIN <<>> |-> Tool(<<>>[n])] = <<>>
  OBVIOUS
<1>2. NotExecuted(w, k) = Only([n \in DOMAIN <<>> |-> Tool(<<>>[n])],
                               {Tool(i) : i \in Unanswered(w, k)})
  BY DEF NotExecuted
<1> QED BY <1>1, <1>2, OnlyEmpty

(* Every message of a run is put out as it is ...                          *)
LEMMA RepairKeeps ==
  ASSUME NEW ms, RoundsOf(ms), NEW k \in 1..Len(ms)
  PROVE  Repaired(Append(ms, Final), k) = <<ms[k]>>
<1> DEFINE w == Append(ms, Final)
<1>1. ms \in Seq(Message) /\ Len(ms) \in Nat /\ ms[1] = User
  BY LenProperties DEF RoundsOf
<1>2. /\ Len(w) = Len(ms) + 1 /\ \A j \in 1..Len(ms) : w[j] = ms[j]
  BY <1>1, MessageTypes, AppendProperties
<1>3. w[k] = ms[k] /\ ~(k > Len(w))
  BY <1>1, <1>2
<1> HIDE DEF w
<1>4. CASE k = 1
  <2>1. Asked(w, k) = <<>>
    BY <1>4 DEF Asked
  <2>2. NotExecuted(w, k) = <<>>
    BY <2>1, NoneAsked
  <2>3. w[k].role # "tool"
    BY <1>1, <1>3, <1>4 DEF User
  <2> QED BY <1>3, <2>2, <2>3 DEF Repaired, w
<1>5. CASE k # 1
  <2>1. k \in 2..(Len(ms) + 1) /\ k \in Nat /\ k > 1
    BY <1>1, <1>5
  <2>2. w[1].role # "tool"
    BY <1>1, <1>2, <2>1 DEF User
  <2>3. PICK h \in 1..(k - 1) : Speaks(w, h, k)
    BY <2>1, <2>2, HeadExists
  <2> DEFINE c == ms[h].calls
  <2>4. \A j \in 1..(k - 1) : w[j] = ms[j]
    BY <1>1, <1>2
  <2>5. /\ Speaks(ms, h, k) /\ Asked(w, k) = c
        /\ \A m \in DOMAIN c : c[m] \in Unanswered(w, k) <=> m >= k - h
    BY <2>1, <2>3, <2>4, UnansweredIs
  <2>6. /\ c \in Seq(Index)
        /\ ms[k].role = "tool" => k =< h + Len(c) /\ ms[k] = Tool(c[k - h])
        /\ ms[k].role # "tool" => k = h + Len(c) + 1
    BY <2>1, <2>5, ShapeOf
  <2> HIDE DEF c
  <2>7. DOMAIN c = 1..Len(c) /\ Len(c) \in Nat
    BY <2>6, LenProperties
  <2>8. CASE ms[k].role = "tool"
    <3>1. k - h \in DOMAIN c /\ k - h >= k - h
      BY <2>6, <2>7, <2>8
    <3>2. ms[k].id = c[k - h]
      BY <2>6, <2>8 DEF Tool
    <3>3. w[k].id \in Unanswered(w, k)
      BY <1>3, <2>5, <3>1, <3>2
    <3> QED BY <1>3, <2>8, <3>3 DEF Repaired, w
  <2>9. CASE ms[k].role # "tool"
    <3>1. \A m \in DOMAIN c : c[m] \notin Unanswered(w, k)
      BY <2>5, <2>6, <2>7, <2>9
    <3>2. Unanswered(w, k) \subseteq {c[m] : m \in DOMAIN c}
      BY <2>5 DEF Unanswered, ToSet
    <3>3. Unanswered(w, k) = {}
      BY <3>1, <3>2
    <3>4. NotExecuted(w, k) = Only(Results(c), {})
      BY <2>5, <3>3 DEF NotExecuted, Results
    <3>5. NotExecuted(w, k) = <<>>
      BY <2>6, <3>4, ResultsType, OnlyNone
    <3> QED BY <1>3, <2>9, <3>5 DEF Repaired, w
  <2> QED BY <2>8, <2>9
<1> QED BY <1>4, <1>5

(* The calls a run waits for are the last ones of who spoke last.          *)
LEMMA AwaitsSpeaks ==
  ASSUME NEW ms, RoundsOf(ms), NEW lost, Awaits(ms, lost)
  PROVE  \E h \in 1..Len(ms) :
           /\ Speaks(ms, h, Len(ms) + 1)
           /\ ms[h].calls \in Seq(Index) /\ Distinct(ms[h].calls)
           /\ Len(ms) - h =< Len(ms[h].calls)
           /\ lost = Lost(ms, h)
<1>1. ms \in Seq(Message) /\ Len(ms) \in Nat /\ DOMAIN ms = 1..Len(ms) /\ ms[1] = User
  BY LenProperties DEF RoundsOf
<1>2. ASSUME NEW h \in 1..Len(ms), Speaks(ms, h, Len(ms) + 1)
      PROVE  /\ ms[h].calls \in Seq(Index) /\ Distinct(ms[h].calls)
             /\ Len(ms) - h =< Len(ms[h].calls)
  <2> DEFINE k == Len(ms) + 1
  <2>1. k \in 2..(Len(ms) + 1) /\ h \in 1..(k - 1)
    BY <1>1
  <2>2. Speaks(ms, h, k)
    BY <1>2
  <2> HIDE DEF k
  <2>3. /\ ms[h].calls \in Seq(Index) /\ Distinct(ms[h].calls)
        /\ k =< h + Len(ms[h].calls) + 1
    BY <2>1, <2>2, ShapeOf
  <2>4. Len(ms[h].calls) \in Nat
    BY <2>3, LenProperties
  <2> QED BY <1>1, <2>3, <2>4 DEF k
<1>3. CASE Len(ms) = 1 /\ lost = <<>>
  <2>1. Speaks(ms, 1, Len(ms) + 1)
    BY <1>1, <1>3 DEF Speaks, User
  <2>2. Lost(ms, 1) = <<>>
    BY <1>1, <1>3, EmptySeq DEF Lost, User
  <2>3. 1 \in 1..Len(ms)
    BY <1>3
  <2> QED BY <1>2, <1>3, <2>1, <2>2, <2>3
<1>4. ASSUME NEW a \in DOMAIN ms, LastAnswer(ms, a), lost = Lost(ms, a)
      PROVE  a \in 1..Len(ms) /\ Speaks(ms, a, Len(ms) + 1)
  BY <1>1, <1>4 DEF LastAnswer, Speaks
<1> QED BY <1>2, <1>3, <1>4 DEF Awaits

(* ... and what still has no result gets one before the final answer.      *)
LEMMA RepairAdds ==
  ASSUME NEW ms, RoundsOf(ms), NEW lost, Awaits(ms, lost)
  PROVE  /\ lost \in Seq(Index)
         /\ NotExecuted(Append(ms, Final), Len(ms) + 1) = Results(lost)
<1> DEFINE w == Append(ms, Final)
           k == Len(ms) + 1
<1>1. PICK h \in 1..Len(ms) :
           /\ Speaks(ms, h, Len(ms) + 1)
           /\ ms[h].calls \in Seq(Index) /\ Distinct(ms[h].calls)
           /\ Len(ms) - h =< Len(ms[h].calls)
           /\ lost = Lost(ms, h)
  BY AwaitsSpeaks
<1>2. ms \in Seq(Message) /\ Len(ms) \in Nat
  BY LenProperties DEF RoundsOf
<1>3. k \in 2..(Len(ms) + 1) /\ h \in 1..(k - 1)
  BY <1>2
<1>4. \A j \in 1..(k - 1) : w[j] = ms[j]
  BY <1>2, MessageTypes, AppendProperties
<1> DEFINE c == ms[h].calls
           n == Len(c)
           d == Len(ms) - h
<1>5. c \in Seq(Index) /\ Distinct(c) /\ lost = SubSeq(c, d + 1, n)
  BY <1>1 DEF Lost
<1>6. d \in 0..n /\ n \in Nat
  BY <1>1, <1>2, <1>5, LenProperties
<1>7. Speaks(w, h, k)
  <2>1. Speaks(ms, h, k)
    BY <1>1
  <2> HIDE DEF w, k
  <2>2. \A j \in (h + 1)..(k - 1) : w[j] = ms[j]
    BY <1>4
  <2> QED BY <1>3, <1>4, <2>1, <2>2 DEF Speaks
<1>8. Asked(w, k) = c /\ \A m \in DOMAIN c : c[m] \in Unanswered(w, k) <=> m >= k - h
  <2> HIDE DEF w, k
  <2> QED BY <1>3, <1>4, <1>7, UnansweredIs
<1>9. k - h = d + 1
  BY <1>2
<1> HIDE DEF w, k, c, n, d
<1> DEFINE q == Results(c)
           S == {Tool(i) : i \in Unanswered(w, k)}
           p == SubSeq(q, 1, d)
           r == SubSeq(q, d + 1, n)
<1>10. /\ q \in Seq(Message) /\ Len(q) = n
       /\ DOMAIN c = 1..n /\ \A m \in 1..n : q[m] = Tool(c[m])
  BY <1>5, ResultsType DEF n
<1>11. \A m \in 1..n : q[m] \in S <=> m > d
  <2> TAKE m \in 1..n
  <2>1. c[m] \in Unanswered(w, k) <=> m >= d + 1
    BY <1>8, <1>9, <1>10
  <2>2. \A i, j : Tool(i) = Tool(j) => i = j
    <3> TAKE i, j
    <3>1. Tool(i).id = i /\ Tool(j).id = j
      BY DEF Tool
    <3> QED BY <3>1
  <2>3. Tool(c[m]) \in S <=> c[m] \in Unanswered(w, k)
    BY <2>2
  <2> HIDE DEF S
  <2> QED BY <1>6, <1>10, <2>1, <2>3
<1>12. NotExecuted(w, k) = Only(q, S)
  BY <1>8 DEF NotExecuted, Results
<1> HIDE DEF q, S
<1>13. p \in Seq(Message) /\ Len(p) = d /\ \A i \in 1..d : p[i] = q[i]
  BY <1>6, <1>10, PrefixGrows
<1>14. /\ r \in Seq(Message) /\ Len(r) = n - d
       /\ \A i \in 1..(n - d) : r[i] = q[d + i]
  <2>1. d + 1 \in Nat /\ d + 1 > 0 /\ n =< Len(q)
    BY <1>6, <1>10
  <2>2. /\ r \in Seq(Message)
        /\ Len(r) = IF d + 1 =< n THEN n - (d + 1) + 1 ELSE 0
        /\ \A i \in 1..(n - (d + 1) + 1) : r[i] = q[(d + 1) + i - 1]
    BY <1>6, <1>10, <2>1, SliceType
  <2> HIDE DEF r
  <2>3. Len(r) = n - d
    BY <1>6, <2>2
  <2>4. \A i \in 1..(n - d) : r[i] = q[d + i]
    <3> TAKE i \in 1..(n - d)
    <3>1. i \in 1..(n - (d + 1) + 1) /\ (d + 1) + i - 1 = d + i
      BY <1>6
    <3> QED BY <2>2, <3>1
  <2> QED BY <2>2, <2>3, <2>4
<1>15. q = p \o r
  <2>1. 1 \in 1..(Len(q) + 1) /\ d \in (1 - 1)..Len(q) /\ n \in d..Len(q)
    BY <1>6, <1>10
  <2>2. SubSeq(q, 1, d) \o SubSeq(q, d + 1, n) = SubSeq(q, 1, n)
    BY <1>10, <2>1, ConcatAdjacentSubSeq
  <2> QED BY <1>10, <2>2, PrefixGrows
<1> HIDE DEF p, r
<1>16. Only(p, S) = <<>>
  <2>1. DOMAIN p = 1..d /\ \A i \in 1..d : i \in 1..n /\ ~(i > d)
    BY <1>6, <1>13, LenProperties
  <2>2. \A i \in DOMAIN p : p[i] \notin S
    BY <1>11, <1>13, <2>1
  <2> QED BY <1>13, <2>2, OnlyNone
<1>17. Only(r, S) = r
  <2>1. \A i \in 1..(n - d) : d + i \in 1..n /\ d + i > d
    BY <1>6
  <2>2. \A i \in 1..Len(r) : r[i] \in S
    BY <1>11, <1>14, <2>1
  <2> QED BY <1>14, <2>2, OnlyAll
<1>18. Only(q, S) = r
  <2>1. Only(q, S) = Only(p, S) \o Only(r, S)
    BY <1>13, <1>14, <1>15, OnlyConcat
  <2> QED BY <1>14, <1>16, <1>17, <2>1, ConcatEmptySeq
<1>19. lost \in Seq(Index) /\ Len(lost) = n - d /\ \A i \in 1..(n - d) : lost[i] = c[d + i]
  <2>1. d + 1 \in Nat /\ d + 1 > 0 /\ n =< Len(c)
    BY <1>6 DEF n
  <2>2. /\ lost \in Seq(Index)
        /\ Len(lost) = IF d + 1 =< n THEN n - (d + 1) + 1 ELSE 0
        /\ \A i \in 1..(n - (d + 1) + 1) : lost[i] = c[(d + 1) + i - 1]
    BY <1>5, <1>6, <2>1, SliceType
  <2>3. Len(lost) = n - d
    BY <1>6, <2>2
  <2>4. \A i \in 1..(n - d) : lost[i] = c[d + i]
    <3> TAKE i \in 1..(n - d)
    <3>1. i \in 1..(n - (d + 1) + 1) /\ (d + 1) + i - 1 = d + i
      BY <1>6
    <3> QED BY <2>2, <3>1
  <2> QED BY <2>2, <2>3, <2>4
<1>20. r = Results(lost)
  <2>1. /\ Results(lost) \in Seq(Message) /\ Len(Results(lost)) = n - d
        /\ \A i \in 1..(n - d) : Results(lost)[i] = Tool(lost[i])
    BY <1>19, ResultsType
  <2>2. \A i \in 1..(n - d) : d + i \in 1..n
    BY <1>6
  <2>3. \A i \in 1..Len(r) : r[i] = Results(lost)[i]
    BY <1>10, <1>14, <1>19, <2>1, <2>2
  <2> QED BY <1>14, <2>1, <2>3, SeqEqual
<1> QED BY <1>12, <1>18, <1>19, <1>20 DEF w, k

(* Behind the final answer nothing is missing, ...                         *)
LEMMA RepairEnds ==
  ASSUME NEW ms, RoundsOf(ms)
  PROVE  Repaired(Append(ms, Final), Len(ms) + 2) = <<>>
<1> DEFINE w == Append(ms, Final)
           k == Len(ms) + 2
           h == Len(ms) + 1
<1>1. ms \in Seq(Message) /\ Len(ms) \in Nat
  BY LenProperties DEF RoundsOf
<1>2. Len(w) = Len(ms) + 1 /\ w[Len(ms) + 1] = Final
  BY <1>1, MessageTypes, AppendProperties
<1>3. k \in Nat /\ h \in 1..(k - 1) /\ k > Len(w)
  BY <1>1, <1>2
<1>4. Speaks(w, h, k) /\ w[h].calls = <<>>
  <2> HIDE DEF w
  <2> QED BY <1>1, <1>2 DEF Speaks, Final, Assistant
<1> HIDE DEF w, h, k
<1>5. Asked(w, k) = <<>>
  BY <1>3, <1>4, AskedIs
<1> QED BY <1>3, <1>5, NoneAsked DEF Repaired, w, k

(* ... so RepairPairing adds the missing results before the final answer,  *)
(* and does nothing else.                                                  *)
LEMMA RepairIs ==
  ASSUME NEW ms, RoundsOf(ms), NEW lost, Awaits(ms, lost)
  PROVE  /\ lost \in Seq(Index)
         /\ FlattenSeq(RepairPairing(Append(ms, Final))) = Append(ms \o Results(lost), Final)
<1> DEFINE w == Append(ms, Final)
           n == Len(ms)
           singles == [k \in DOMAIN ms |-> IF ms[k] \in Message THEN <<ms[k]>> ELSE <<>>]
           last == Append(Results(lost), Final)
           parts == RepairPairing(w)
<1>1. ms \in Seq(Message) /\ n \in Nat /\ DOMAIN ms = 1..n /\ ms[1] = User
      /\ \A k \in 1..n : ms[k] \in Message
  BY LenProperties, ElementOfSeq DEF RoundsOf
<1>2. lost \in Seq(Index) /\ NotExecuted(w, n + 1) = Results(lost)
  BY RepairAdds
<1>3. Results(lost) \in Seq(Message) /\ last \in Seq(Message)
  BY <1>2, ResultsType, MessageTypes, AppendProperties
<1>4. Len(w) = n + 1 /\ w[n + 1] = Final /\ Final.role # "tool"
  BY <1>1, MessageTypes, AppendProperties DEF Final, Assistant
<1>5. singles \in Seq(Seq(Message)) /\ FlattenSeq(singles) = ms
  <2>1. singles \in Seq(Seq(Message \cap Message))
    BY <1>1, PiecesType
  <2>2. Message \cap Message = Message
    OBVIOUS
  <2>3. Only(ms, Message) = ms
    BY <1>1, OnlyAll
  <2>4. Only(ms, Message) = FlattenSeq(singles)
    BY DEF Only
  <2> HIDE DEF singles
  <2> QED BY <2>1, <2>2, <2>3, <2>4
<1>6. Len(singles) = n /\ \A k \in 1..n : singles[k] = <<ms[k]>>
  <2>1. DOMAIN singles = 1..n /\ \A k \in 1..n : singles[k] = <<ms[k]>>
    BY <1>1
  <2> HIDE DEF singles
  <2> QED BY <1>1, <1>5, <2>1, LenProperties
<1> DEFINE some == Append(singles, last)
           all == Append(some, <<>>)
<1> HIDE DEF singles, last
<1>7. /\ some \in Seq(Seq(Message)) /\ Len(some) = n + 1
      /\ \A k \in 1..n : some[k] = <<ms[k]>>
      /\ some[n + 1] = last
  BY <1>3, <1>5, <1>6, AppendProperties
<1> HIDE DEF some
<1>8. /\ all \in Seq(Seq(Message)) /\ Len(all) = n + 2
      /\ \A k \in 1..n : all[k] = <<ms[k]>>
      /\ all[n + 1] = last /\ all[n + 2] = <<>>
  <2>1. <<>> \in Seq(Message)
    BY EmptySeq
  <2>2. /\ all \in Seq(Seq(Message)) /\ Len(all) = Len(some) + 1
        /\ \A k \in 1..Len(some) : all[k] = some[k]
        /\ all[Len(some) + 1] = <<>>
    BY <1>7, <2>1, AppendProperties
  <2> HIDE DEF all
  <2>3. n + 1 \in 1..Len(some) /\ \A k \in 1..n : k \in 1..Len(some)
    BY <1>1, <1>7
  <2>4. (n + 1) + 1 = n + 2
    BY <1>1
  <2> QED BY <1>7, <2>2, <2>3, <2>4
<1> HIDE DEF all
<1>9. /\ parts = [k \in 1..(n + 2) |-> Repaired(w, k)]
  BY <1>1, <1>4 DEF RepairPairing
<1>10. ASSUME NEW k \in 1..(n + 2) PROVE parts[k] = all[k]
  <2>1. parts[k] = Repaired(w, k)
    BY <1>9
  <2>2. CASE k \in 1..n
    <3>1. Repaired(w, k) = <<ms[k]>>
      BY <2>2, RepairKeeps
    <3> QED BY <1>8, <2>1, <2>2, <3>1
  <2>3. CASE k = n + 1
    <3>1. Repaired(w, k) = last
      <4> HIDE DEF w
      <4>1. ~(k > Len(w)) /\ w[k] = Final
        BY <1>1, <1>4, <2>3
      <4> QED BY <1>2, <1>4, <2>3, <4>1 DEF Repaired, last
    <3> QED BY <1>8, <2>1, <2>3, <3>1
  <2>4. CASE k = n + 2
    <3>1. Repaired(w, k) = <<>>
      BY <2>4, RepairEnds
    <3> QED BY <1>8, <2>1, <2>4, <3>1
  <2>5. k \in 1..n \/ k = n + 1 \/ k = n + 2
    BY <1>1
  <2> QED BY <2>2, <2>3, <2>4, <2>5
<1>11. parts = all
  <2> HIDE DEF w, parts
  <2>1. all = [k \in 1..(n + 2) |-> all[k]]
    BY <1>8, LenProperties
  <2> QED BY <1>9, <1>10, <2>1
<1>12. FlattenSeq(all) = FlattenSeq(some)
  <2>1. <<>> \in Seq(Message)
    BY EmptySeq
  <2>2. FlattenSeq(all) = FlattenSeq(some) \o <<>>
    BY <1>7, <2>1, FlattenAppend DEF all
  <2>3. FlattenSeq(some) \in Seq(Message)
    BY <1>7, FlattenType
  <2> QED BY <2>2, <2>3, ConcatEmptySeq
<1>13. FlattenSeq(some) = ms \o last
  BY <1>3, <1>5, FlattenAppend DEF some
<1>14. ms \o last = Append(ms \o Results(lost), Final)
  BY <1>1, <1>3, MessageTypes, AppendBehind DEF last
<1> QED BY <1>2, <1>11, <1>12, <1>13, <1>14

(* One result more: the first of those that are missing.                   *)
LEMMA GrowResult ==
  ASSUME NEW ms, RoundsOf(ms), NEW lost, Awaits(ms, lost), lost # <<>>
  PROVE  /\ Head(lost) \in Index /\ Tail(lost) \in Seq(Index)
         /\ RoundsOf(Append(ms, Tool(Head(lost))))
         /\ Awaits(Append(ms, Tool(Head(lost))), Tail(lost))
<1>1. /\ ms \in Seq(Message) /\ Len(ms) \in Nat
      /\ DOMAIN ms = 1..Len(ms) /\ ms[1] = User
      /\ ms # <<>>
  BY LenProperties DEF RoundsOf
<1>2. PICK a \in DOMAIN ms : LastAnswer(ms, a) /\ lost = Lost(ms, a)
  BY DEF Awaits
<1> DEFINE c == ms[a].calls
           n == Len(c)
           L == Len(ms)
           x == Tool(Head(lost))
           w == Append(ms, x)
<1>3. /\ a \in 2..L /\ ms[a].role = "assistant"
      /\ \A j \in (a + 1)..L : ms[j].role = "tool"
  BY <1>2 DEF LastAnswer
<1>4. Speaks(ms, a, L + 1)
  BY <1>1, <1>3 DEF Speaks
<1>5. c \in Seq(Index) /\ Distinct(c) /\ L + 1 =< a + n + 1 /\ n \in Nat
  <2>1. L + 1 \in 2..(L + 1) /\ a \in 1..((L + 1) - 1)
    BY <1>1, <1>3
  <2>2. c \in Seq(Index) /\ Distinct(c) /\ L + 1 =< a + n + 1
    BY <1>4, <2>1, ShapeOf
  <2> QED BY <2>2, LenProperties
<1>6. lost = SubSeq(c, L - a + 1, n)
  BY <1>2 DEF Lost
<1> HIDE DEF c, n
<1>7. L - a + 1 \in 1..n
  <2> SUFFICES ASSUME L - a + 1 > n PROVE FALSE
    BY <1>1, <1>3, <1>5
  <2>1. L - a + 1 \in Int /\ n \in Int
    BY <1>1, <1>3, <1>5
  <2>2. lost = <<>>
    BY <1>6, <2>1, SubSeqEmpty
  <2> QED BY <2>2
<1>8. Head(lost) = c[L - a + 1] /\ Tail(lost) = SubSeq(c, (L - a + 1) + 1, n)
  <2> DEFINE m == L - a + 1
  <2>1. m \in 1..Len(c) /\ n \in m..Len(c)
    BY <1>5, <1>7 DEF n
  <2> HIDE DEF m
  <2> QED BY <1>5, <1>6, <2>1, HeadTailOfSubSeq DEF m
<1>9. Head(lost) \in Index
  <2> DEFINE m == L - a + 1
  <2>1. m \in 1..Len(c)
    BY <1>7 DEF n
  <2> HIDE DEF m
  <2>2. c[m] \in Index
    BY <1>5, <2>1, ElementOfSeq
  <2> QED BY <1>8, <2>2 DEF m
<1>10. Tail(lost) \in Seq(Index)
  <2> DEFINE m == (L - a + 1) + 1
  <2>1. m \in Nat /\ n \in Nat /\ m > 0 /\ n =< Len(c)
    BY <1>1, <1>3, <1>5 DEF n
  <2> HIDE DEF m
  <2>2. SubSeq(c, m, n) \in Seq(Index)
    BY <1>5, <2>1, SliceType
  <2> QED BY <1>8, <2>2 DEF m
<1>11. x \in Message /\ x.role = "tool"
  BY <1>9, MessageTypes DEF Tool
<1> HIDE DEF x
<1>12. /\ w \in Seq(Message) /\ Len(w) = L + 1 /\ DOMAIN w = 1..(L + 1) /\ w # <<>>
       /\ \A j \in 1..L : w[j] = ms[j]
       /\ w[L + 1] = x
  BY <1>1, <1>11, AppendProperties, LenProperties
<1> HIDE DEF w
<1>13. RoundsOf(w)
  <2>1. w[1] = User
    BY <1>1, <1>3, <1>12
  <2>2. ASSUME NEW k \in 2..Len(w)
        PROVE  \/ w[k].role = "tool"
               \/ /\ w[k] = Assistant(w[k].calls)
                  /\ w[k].calls # <<>> /\ Distinct(w[k].calls)
    <3>1. CASE k = L + 1
      BY <1>11, <1>12, <3>1
    <3>2. CASE k # L + 1
      <4>1. k \in 2..L /\ w[k] = ms[k]
        BY <1>1, <1>12, <3>2
      <4> QED BY <4>1 DEF RoundsOf
    <3> QED BY <3>1, <3>2
  <2>3. w[2].role = "assistant"
    <3>1. L > 1 /\ 2 \in 1..L
      BY <1>1, <1>3
    <3>2. ms[2].role = "assistant"
      BY <3>1 DEF RoundsOf
    <3> QED BY <1>12, <3>1, <3>2
  <2>4. ASSUME NEW k \in DOMAIN w, w[k].role = "assistant"
        PROVE  LET m == Len(w[k].calls) IN
               /\ \A j \in 1..m : k + j =< Len(w) => w[k + j] = Tool(w[k].calls[j])
               /\ k + m < Len(w) => w[k + m + 1].role = "assistant"
    <3>1. k \in 1..L /\ w[k] = ms[k] /\ k \in DOMAIN ms
      <4>1. k # L + 1
        BY <1>11, <1>12, <2>4
      <4> QED BY <1>1, <1>12, <4>1
    <3> DEFINE d == ms[k].calls
               m == Len(d)
    <3>2. /\ \A j \in 1..m : k + j =< L => ms[k + j] = Tool(d[j])
          /\ k + m < L => ms[k + m + 1].role = "assistant"
      <4>1. LET o == Len(ms[k].calls) IN
            /\ \A j \in 1..o : k + j =< Len(ms) => ms[k + j] = Tool(ms[k].calls[j])
            /\ k + o < Len(ms) => ms[k + o + 1].role = "assistant"
        BY <2>4, <3>1 DEF RoundsOf
      <4> QED BY <4>1
    <3>3. m \in Nat
      <4>1. ms[k] \in Message
        BY <1>1, <3>1, ElementOfSeq
      <4>2. d \in Seq(Index)
        BY <4>1 DEF Message
      <4> QED BY <4>2, LenProperties
    <3> HIDE DEF m, d
    <3>4. ASSUME NEW j \in 1..m, k + j =< L + 1 PROVE w[k + j] = Tool(d[j])
      <4>1. CASE k + j =< L
        <5>1. k + j \in 1..L
          BY <3>1, <3>3, <4>1
        <5> QED BY <1>12, <3>2, <4>1, <5>1
      <4>2. CASE k + j = L + 1
        <5>1. k = a
          <6>1. CASE k < a
            <7>1. k + m + 1 > a
              BY <1>3, <3>1, <3>3, <4>2, <6>1
            <7>2. a - k \in 1..m /\ k + (a - k) = a /\ a =< L
              BY <1>3, <3>1, <3>3, <6>1, <7>1
            <7>3. ms[a] = Tool(d[a - k])
              BY <3>2, <7>2
            <7> QED BY <1>3, <7>3 DEF Tool
          <6>2. CASE k > a
            <7>1. k \in (a + 1)..L
              BY <1>3, <3>1, <6>2
            <7> QED BY <1>3, <2>4, <3>1, <7>1
          <6> QED BY <1>3, <3>1, <6>1, <6>2
        <5>2. j = L - a + 1
          BY <1>3, <3>1, <3>3, <4>2, <5>1
        <5> QED BY <1>8, <1>12, <4>2, <5>1, <5>2 DEF x, c, d
      <4> QED BY <1>1, <3>1, <3>3, <3>4, <4>1, <4>2
    <3>5. k + m < L + 1 => w[k + m + 1].role = "assistant"
      <4> SUFFICES ASSUME k + m < L + 1 PROVE w[k + m + 1].role = "assistant"
        OBVIOUS
      <4>1. CASE k + m < L
        <5>1. k + m + 1 \in 1..L
          BY <1>1, <3>1, <3>3, <4>1
        <5> QED BY <1>12, <3>2, <4>1, <5>1
      <4>2. CASE k + m = L
        <5>1. k # a
          BY <1>5, <1>7, <1>1, <1>3, <3>3, <4>2 DEF n, c, m, d
        <5>2. CASE k < a
          <6>1. a - k \in 1..m /\ k + (a - k) = a
            BY <1>3, <3>1, <3>3, <4>2, <5>2
          <6>2. ms[a] = Tool(d[a - k])
            BY <1>3, <3>2, <6>1
          <6> QED BY <1>3, <6>2 DEF Tool
        <5>3. CASE k > a
          <6>1. k \in (a + 1)..L
            BY <1>3, <3>1, <5>3
          <6> QED BY <1>3, <2>4, <3>1, <6>1
        <5> QED BY <1>3, <3>1, <5>1, <5>2, <5>3
      <4> QED BY <1>1, <3>1, <3>3, <4>1, <4>2
    <3> QED BY <1>12, <3>1, <3>4, <3>5 DEF m, d
  <2> QED BY <1>12, <2>1, <2>2, <2>3, <2>4 DEF RoundsOf
<1>14. Awaits(w, Tail(lost))
  <2>1. a \in DOMAIN w /\ w[a] = ms[a] /\ a \in 2..Len(w)
    BY <1>1, <1>3, <1>12
  <2>2. \A j \in (a + 1)..Len(w) : w[j].role = "tool"
    <3> TAKE j \in (a + 1)..Len(w)
    <3>1. CASE j = L + 1
      BY <1>11, <1>12, <3>1
    <3>2. CASE j # L + 1
      <4>1. j \in (a + 1)..L /\ j \in 1..L
        BY <1>1, <1>3, <1>12, <3>2
      <4> QED BY <1>3, <1>12, <4>1
    <3> QED BY <3>1, <3>2
  <2>3. LastAnswer(w, a)
    BY <1>3, <2>1, <2>2 DEF LastAnswer
  <2>4. Tail(lost) = Lost(w, a)
    <3>1. Len(w) - a + 1 = (L - a + 1) + 1
      BY <1>1, <1>3, <1>12
    <3> QED BY <1>8, <2>1, <3>1 DEF Lost, c, n
  <2> QED BY <2>1, <2>3, <2>4 DEF Awaits
<1> QED BY <1>9, <1>10, <1>13, <1>14 DEF w, x

(* Where no result is missing, every answer of the run has its own behind  *)
(* it.                                                                     *)
LEMMA AnsweredInFull ==
  ASSUME NEW ms, RoundsOf(ms), Awaits(ms, <<>>), NEW k \in 1..Len(ms), ms[k].role = "assistant",
         NEW d, d = ms[k].calls, NEW m, m = Len(d)
  PROVE  /\ d \in Seq(Index) /\ m \in Nat /\ k + m =< Len(ms)
         /\ \A j \in 1..m : ms[k + j] = Tool(d[j])
         /\ k + m < Len(ms) => ms[k + m + 1].role = "assistant"
<1> DEFINE L == Len(ms)
<1>1. ms \in Seq(Message) /\ L \in Nat /\ DOMAIN ms = 1..L /\ L > 0
  BY LenProperties DEF RoundsOf
<1>2. /\ \A j \in 1..m : k + j =< L => ms[k + j] = Tool(d[j])
      /\ k + m < L => ms[k + m + 1].role = "assistant"
  <2>1. LET o == Len(ms[k].calls) IN
        /\ \A j \in 1..o : k + j =< Len(ms) => ms[k + j] = Tool(ms[k].calls[j])
        /\ k + o < Len(ms) => ms[k + o + 1].role = "assistant"
    BY <1>1 DEF RoundsOf
  <2> QED BY <2>1
<1>3. d \in Seq(Index) /\ m \in Nat
  <2>1. ms[k] \in Message
    BY <1>1, ElementOfSeq
  <2>2. d \in Seq(Index)
    BY <2>1 DEF Message
  <2> QED BY <2>2, LenProperties
<1>4. k + m =< L
  <2>1. PICK h \in 1..L : /\ Speaks(ms, h, L + 1)
                          /\ ms[h].calls \in Seq(Index)
                          /\ L - h =< Len(ms[h].calls)
                          /\ <<>> = Lost(ms, h)
    BY AwaitsSpeaks
  <2>2. CASE k = h
    <3>1. SubSeq(d, L - h + 1, m) = <<>>
      BY <2>1, <2>2 DEF Lost
    <3> DEFINE i == L - h + 1
    <3>2. i \in Nat /\ i > 0 /\ m =< Len(d)
      BY <1>1, <1>3, <2>1
    <3>3. SubSeq(d, i, m) = <<>>
      BY <3>1
    <3> HIDE DEF i
    <3>4. Len(SubSeq(d, i, m)) = IF i =< m THEN m - i + 1 ELSE 0
      BY <1>3, <3>2, SliceType
    <3>5. Len(SubSeq(d, i, m)) = 0
      BY <3>3, EmptySeq
    <3>6. m < i
      BY <1>3, <3>2, <3>4, <3>5
    <3> QED BY <1>1, <1>3, <2>1, <2>2, <3>6 DEF i
  <2>3. CASE k > h
    <3>1. k \in (h + 1)..((L + 1) - 1)
      BY <1>1, <2>1, <2>3
    <3> QED BY <2>1, <3>1 DEF Speaks
  <2>4. CASE k < h
    <3>1. h \in 2..L /\ ms[h].role # "tool"
      BY <1>1, <2>1, <2>4 DEF Speaks
    <3>2. k + m < h
      <4> SUFFICES ASSUME ~(k + m < h) PROVE FALSE
        OBVIOUS
      <4>1. h - k \in 1..m /\ k + (h - k) = h /\ h =< L
        BY <1>1, <1>3, <2>1, <2>4
      <4>2. ms[h] = Tool(d[h - k])
        BY <1>2, <4>1
      <4> QED BY <3>1, <4>2 DEF Tool
    <3> QED BY <1>1, <1>3, <3>1, <3>2
  <2> QED BY <1>1, <2>1, <2>2, <2>3, <2>4
<1>5. ASSUME NEW j \in 1..m PROVE ms[k + j] = Tool(d[j])
  <2>1. k + j =< L
    BY <1>1, <1>3, <1>4
  <2> QED BY <1>2, <2>1
<1> QED BY <1>2, <1>3, <1>4, <1>5

(* An answer with calls, when no result is missing.                        *)
LEMMA GrowAnswer ==
  ASSUME NEW ms, RoundsOf(ms), Awaits(ms, <<>>), NEW calls \in Seq(Index),
         calls # <<>>, Distinct(calls)
  PROVE  /\ RoundsOf(Append(ms, Assistant(calls)))
         /\ Awaits(Append(ms, Assistant(calls)), calls)
<1>1. /\ ms \in Seq(Message) /\ Len(ms) \in Nat
      /\ DOMAIN ms = 1..Len(ms) /\ ms[1] = User
      /\ ms # <<>>
  BY LenProperties DEF RoundsOf
<1> DEFINE L == Len(ms)
           x == Assistant(calls)
           w == Append(ms, x)
<1>2. L \in Nat \ {0}
  BY <1>1, EmptySeq
<1>3. x \in Message /\ x.role = "assistant" /\ x.calls = calls /\ x = Assistant(x.calls)
  BY MessageTypes DEF Assistant
<1> HIDE DEF x
<1>4. /\ w \in Seq(Message) /\ Len(w) = L + 1 /\ DOMAIN w = 1..(L + 1) /\ w # <<>>
      /\ \A j \in 1..L : w[j] = ms[j]
      /\ w[L + 1] = x
  BY <1>1, <1>3, AppendProperties, LenProperties
<1>5. Len(calls) \in Nat \ {0}
  BY EmptySeq
<1> HIDE DEF w
<1>6. RoundsOf(w)
  <2>1. w[1] = User
    BY <1>1, <1>2, <1>4
  <2>2. ASSUME NEW k \in 2..Len(w)
        PROVE  \/ w[k].role = "tool"
               \/ /\ w[k] = Assistant(w[k].calls)
                  /\ w[k].calls # <<>> /\ Distinct(w[k].calls)
    <3>1. CASE k = L + 1
      BY <1>3, <1>4, <3>1
    <3>2. CASE k # L + 1
      <4>1. k \in 2..L /\ w[k] = ms[k]
        BY <1>2, <1>4, <3>2
      <4> QED BY <4>1 DEF RoundsOf
    <3> QED BY <3>1, <3>2
  <2>3. w[2].role = "assistant"
    <3>1. CASE L = 1
      BY <1>3, <1>4, <3>1
    <3>2. CASE L # 1
      <4>1. L > 1 /\ 2 \in 1..L
        <5> HIDE DEF L
        <5> QED BY <1>2, <3>2
      <4>2. ms[2].role = "assistant"
        BY <4>1 DEF RoundsOf
      <4> QED BY <1>4, <4>1, <4>2
    <3> QED BY <3>1, <3>2
  <2>4. ASSUME NEW k \in DOMAIN w, w[k].role = "assistant"
        PROVE  LET m == Len(w[k].calls) IN
               /\ \A j \in 1..m : k + j =< Len(w) => w[k + j] = Tool(w[k].calls[j])
               /\ k + m < Len(w) => w[k + m + 1].role = "assistant"
    <3>1. CASE k = L + 1
      <4> DEFINE m == Len(calls)
      <4>1. w[k].calls = calls /\ m \in Nat \ {0} /\ Len(w) = k /\ k \in Nat
        BY <1>2, <1>3, <1>4, <1>5, <3>1
      <4> HIDE DEF m, w, L
      <4>2. (\A j \in 1..m : ~(k + j =< Len(w))) /\ ~(k + m < Len(w))
        BY <4>1
      <4> QED BY <4>1, <4>2 DEF m
    <3>2. CASE k # L + 1
      <4>1. k \in 1..L /\ w[k] = ms[k] /\ k \in DOMAIN ms
        BY <1>1, <1>2, <1>4, <3>2
      <4> DEFINE d == ms[k].calls
                 m == Len(d)
      <4>2. /\ m \in Nat /\ k + m =< L
            /\ \A j \in 1..m : ms[k + j] = Tool(d[j])
            /\ k + m < L => ms[k + m + 1].role = "assistant"
        <5>1. k \in 1..Len(ms) /\ ms[k].role = "assistant"
          BY <2>4, <4>1
        <5>2. d = ms[k].calls /\ m = Len(d)
          OBVIOUS
        <5> HIDE DEF d, m
        <5>3. /\ d \in Seq(Index) /\ m \in Nat /\ k + m =< Len(ms)
              /\ \A j \in 1..m : ms[k + j] = Tool(d[j])
              /\ k + m < Len(ms) => ms[k + m + 1].role = "assistant"
          BY <5>1, <5>2, AnsweredInFull, SMTT(30)
        <5> QED BY <5>3
      <4>3. m \in Nat /\ k + m =< L
        BY <4>2
      <4> HIDE DEF m, d
      <4>4. ASSUME NEW j \in 1..m, k + j =< L + 1 PROVE w[k + j] = Tool(d[j])
        <5>1. k + j \in 1..L /\ k + j =< L
          BY <1>2, <4>1, <4>3
        <5> QED BY <1>4, <4>2, <5>1
      <4>5. k + m < L + 1 => w[k + m + 1].role = "assistant"
        <5>1. CASE k + m < L
          <6>1. k + m + 1 \in 1..L
            BY <1>2, <4>1, <4>3, <5>1
          <6> QED BY <1>4, <4>2, <5>1, <6>1
        <5>2. CASE k + m = L
          BY <1>3, <1>4, <5>2
        <5> QED BY <1>2, <4>1, <4>3, <5>1, <5>2, SMTT(30)
      <4> QED BY <1>4, <4>1, <4>4, <4>5 DEF m, d
    <3> QED BY <3>1, <3>2
  <2> QED BY <1>4, <2>1, <2>2, <2>3, <2>4 DEF RoundsOf
<1>7. Awaits(w, calls)
  <2> DEFINE a == L + 1
  <2>1. a \in DOMAIN w /\ LastAnswer(w, a)
    BY <1>2, <1>3, <1>4 DEF LastAnswer
  <2>2. Lost(w, a) = SubSeq(calls, 1, Len(calls))
    BY <1>2, <1>3, <1>4 DEF Lost
  <2>3. SubSeq(calls, 1, Len(calls)) = calls
    BY SubSeqFull
  <2> QED BY <2>1, <2>2, <2>3 DEF Awaits
<1> QED BY <1>6, <1>7 DEF w, x

(* A run begins with its user message.                                     *)
LEMMA RunStarts == RoundsOf(<<User>>) /\ Awaits(<<User>>, <<>>)
<1> DEFINE ms == <<User>>
<1>1. ms \in Seq(Message) /\ Len(ms) = 1 /\ ms[1] = User /\ ms # <<>> /\ DOMAIN ms = 1..1
  BY MessageTypes, OneElement
<1> HIDE DEF ms
<1>2. \A k \in DOMAIN ms : ms[k].role # "assistant"
  BY <1>1 DEF User
<1>3. \A k \in 2..Len(ms) : FALSE
  BY <1>1
<1> QED BY <1>1, <1>2, <1>3 DEF RoundsOf, Awaits, ms

(* All the results that are missing.                                       *)
LEMMA GrowResults ==
  ASSUME NEW ms, RoundsOf(ms), NEW lost, Awaits(ms, lost)
  PROVE  RoundsOf(ms \o Results(lost)) /\ Awaits(ms \o Results(lost), <<>>)
<1> DEFINE N == Len(lost)
           q == Results(lost)
           p(m) == SubSeq(q, 1, m)
           rest(m) == SubSeq(lost, m + 1, N)
           T == {m \in 0..N : RoundsOf(ms \o p(m)) /\ Awaits(ms \o p(m), rest(m))}
<1>1. ms \in Seq(Message)
  BY DEF RoundsOf
<1>2. lost \in Seq(Index)
  BY RepairAdds
<1>3. /\ q \in Seq(Message) /\ Len(q) = N /\ N \in Nat
      /\ \A m \in 1..N : q[m] = Tool(lost[m])
  BY <1>2, ResultsType
<1> HIDE DEF q
<1>4. 0 \in T
  <2>1. p(0) = <<>> /\ ms \o p(0) = ms
    BY <1>1, <1>3, PrefixGrows, ConcatEmptySeq
  <2>2. rest(0) = lost
    BY <1>2, SubSeqFull
  <2>3. 0 \in 0..N
    BY <1>3
  <2> HIDE DEF p, rest, N
  <2>4. RoundsOf(ms \o p(0)) /\ Awaits(ms \o p(0), rest(0))
    BY <2>1, <2>2
  <2> QED BY <2>3, <2>4
<1>5. ASSUME NEW n \in 0..(N - 1), n \in T PROVE n + 1 \in T
  <2>1. n \in Nat /\ n + 1 \in 1..N /\ n + 1 \in 0..N
    BY <1>3
  <2>2. Head(rest(n)) = lost[n + 1] /\ Tail(rest(n)) = rest(n + 1)
    <3>1. n + 1 \in 1..Len(lost) /\ N \in (n + 1)..Len(lost)
      BY <1>3
    <3> HIDE DEF N
    <3> QED BY <1>2, <3>1, HeadTailOfSubSeq
  <2>3. rest(n) # <<>>
    <3> DEFINE m == n + 1
    <3>1. m \in Nat /\ N \in Nat /\ m > 0 /\ N =< Len(lost) /\ m =< N
      BY <1>3, <2>1
    <3> HIDE DEF m, N
    <3>2. SubSeq(lost, m, N) \in Seq(Index) /\ Len(SubSeq(lost, m, N)) = N - m + 1
      BY <1>2, <3>1, SliceType
    <3>3. Len(SubSeq(lost, m, N)) # 0
      BY <3>1, <3>2
    <3> QED BY <3>3, EmptySeq DEF m
  <2>4. p(n) \in Seq(Message) /\ p(n + 1) = Append(p(n), q[n + 1]) /\ q[n + 1] \in Message
    <3>1. n \in 0..Len(q) /\ n \in 0..(Len(q) - 1) /\ n + 1 \in 1..Len(q)
      BY <1>3
    <3> HIDE DEF N
    <3> QED BY <1>3, <3>1, PrefixGrows, ElementOfSeq
  <2>5. q[n + 1] = Tool(Head(rest(n)))
    BY <1>3, <2>1, <2>2
  <2>6. RoundsOf(ms \o p(n)) /\ Awaits(ms \o p(n), rest(n))
    BY <1>5
  <2>7. ms \o p(n + 1) = Append(ms \o p(n), Tool(Head(rest(n))))
    BY <1>1, <2>4, <2>5, AppendBehind
  <2> HIDE DEF p, rest, N
  <2>8. RoundsOf(ms \o p(n + 1)) /\ Awaits(ms \o p(n + 1), rest(n + 1))
    BY <2>2, <2>3, <2>6, <2>7, GrowResult
  <2> QED BY <2>1, <2>8
<1>6. N \in T
  <2> HIDE DEF T, N
  <2>1. 0..N \subseteq T
    BY <1>3, <1>4, <1>5, CountUp
  <2> QED BY <1>3, <2>1
<1>7. p(N) = q
  BY <1>3, SubSeqFull
<1>8. rest(N) = <<>>
  <2>1. N + 1 \in Int /\ N \in Int /\ N < N + 1
    BY <1>3
  <2> HIDE DEF N
  <2> QED BY <2>1, SubSeqEmpty
<1> QED BY <1>6, <1>7, <1>8 DEF q

(* What is before an appended element.                                     *)
LEMMA FrontOfAppend ==
  ASSUME NEW A, NEW q \in Seq(A), NEW x \in A
  PROVE  Front(Append(q, x)) = q
<1> DEFINE w == Append(q, x)
<1>1. w \in Seq(A) /\ Len(w) = Len(q) + 1 /\ Len(q) \in Nat /\ \A i \in 1..Len(q) : w[i] = q[i]
  BY AppendProperties, LenProperties
<1> HIDE DEF w
<1>2. Len(w) - 1 = Len(q) /\ Len(q) \in 0..Len(w)
  BY <1>1
<1>3. SubSeq(w, 1, Len(q)) \in Seq(A) /\ Len(SubSeq(w, 1, Len(q))) = Len(q)
      /\ \A i \in 1..Len(q) : SubSeq(w, 1, Len(q))[i] = w[i]
  BY <1>1, <1>2, PrefixGrows
<1>4. SubSeq(w, 1, Len(q)) = q
  BY <1>1, <1>3, SeqEqual
<1> QED BY <1>2, <1>4 DEF Front, w

(* Whatever a run has got to, what it leaves is whole.                     *)
LEMMA RepairedIsWhole ==
  ASSUME NEW ms, RoundsOf(ms), NEW lost, Awaits(ms, lost),
         NEW p, p = FlattenSeq(RepairPairing(Append(ms, Final)))
  PROVE  p \in Seq(Message) /\ Ended(p)
<1> DEFINE w == ms \o Results(lost)
<1>1. lost \in Seq(Index) /\ p = Append(w, Final)
  BY RepairIs
<1>2. RoundsOf(w) /\ Awaits(w, <<>>)
  BY GrowResults
<1> HIDE DEF w
<1>3. w \in Seq(Message)
  BY <1>2 DEF RoundsOf
<1>4. p \in Seq(Message) /\ Front(p) = w
  BY <1>1, <1>3, MessageTypes, AppendProperties, FrontOfAppend
<1> QED BY <1>1, <1>2, <1>4 DEF Ended, Final

(* A transcript as the services take it.                                   *)
Follows(r, i, n) == r[i].role = IF n = 0 THEN "user" ELSE "assistant"

AnswerFits(r, k, c, n) ==
    /\ k + n =< Len(r)
    /\ \A j \in 1..n : r[k + j] = Tool(c[j])
    /\ k + n < Len(r) => Follows(r, k + n + 1, n)

Alternates(r) ==
    /\ r \in Seq(Message) /\ r # <<>>
    /\ \A k \in 1..Len(r) :
         /\ r[k].role = "assistant" => AnswerFits(r, k, r[k].calls, Len(r[k].calls))
         /\ r[k].role = "user" /\ k < Len(r) => r[k + 1].role = "assistant"

(* Such a transcript is a sequence of messages with calls.                 *)
LEMMA AlternatesTypes ==
  ASSUME NEW r, Alternates(r)
  PROVE  /\ r \in Seq(Message) /\ Len(r) \in Nat \ {0} /\ DOMAIN r = 1..Len(r)
         /\ \A k \in 1..Len(r) : r[k].calls \in Seq(Index) /\ Len(r[k].calls) \in Nat
<1>1. r \in Seq(Message) /\ Len(r) \in Nat \ {0} /\ DOMAIN r = 1..Len(r)
  BY LenProperties, EmptySeq DEF Alternates
<1>2. ASSUME NEW k \in 1..Len(r) PROVE r[k].calls \in Seq(Index) /\ Len(r[k].calls) \in Nat
  <2>1. r[k] \in Message
    BY <1>1, ElementOfSeq
  <2>2. r[k].calls \in Seq(Index)
    BY <2>1 DEF Message
  <2> QED BY <2>2, LenProperties
<1> QED BY <1>1, <1>2

(* A run without missing results is one, ...                               *)
LEMMA RunAlternates ==
  ASSUME NEW ms, RoundsOf(ms), Awaits(ms, <<>>)
  PROVE  /\ Alternates(ms) /\ ms[1] = User
         /\ \A k \in 1..Len(ms) : ms[k].role = "assistant" => Len(ms[k].calls) # 0
<1>1. /\ ms \in Seq(Message) /\ Len(ms) \in Nat /\ DOMAIN ms = 1..Len(ms) /\ ms # <<>>
      /\ ms[1] = User /\ User.role = "user"
      /\ Len(ms) > 1 => ms[2].role = "assistant"
  BY LenProperties DEF RoundsOf, User
<1>2. ASSUME NEW k \in 1..Len(ms), ms[k].role = "assistant"
      PROVE  Len(ms[k].calls) # 0 /\ AnswerFits(ms, k, ms[k].calls, Len(ms[k].calls))
  <2> DEFINE c == ms[k].calls
             n == Len(c)
  <2>1. c # <<>>
    <3>1. k \in 2..Len(ms)
      BY <1>1, <1>2
    <3> QED BY <1>2, <3>1 DEF RoundsOf
  <2>2. c = ms[k].calls /\ n = Len(c)
    OBVIOUS
  <2> HIDE DEF c, n
  <2>3. /\ c \in Seq(Index) /\ n \in Nat /\ k + n =< Len(ms)
        /\ \A j \in 1..n : ms[k + j] = Tool(c[j])
        /\ k + n < Len(ms) => ms[k + n + 1].role = "assistant"
    BY <1>2, <2>2, AnsweredInFull
  <2>4. n # 0
    BY <2>1, <2>2, <2>3, EmptySeq
  <2>5. AnswerFits(ms, k, c, n)
    BY <2>3, <2>4 DEF AnswerFits, Follows
  <2> QED BY <2>4, <2>5 DEF c, n
<1>3. ASSUME NEW k \in 1..Len(ms), ms[k].role = "user", k < Len(ms)
      PROVE  ms[k + 1].role = "assistant"
  <2>1. k = 1
    <3> SUFFICES ASSUME k # 1 PROVE FALSE
      OBVIOUS
    <3>1. k \in 2..Len(ms)
      BY <1>1
    <3>2. ms[k].role = "tool" \/ ms[k] = Assistant(ms[k].calls)
      BY <3>1 DEF RoundsOf
    <3>3. Assistant(ms[k].calls).role = "assistant"
      BY DEF Assistant
    <3> QED BY <1>3, <3>2, <3>3
  <2> QED BY <1>1, <1>3, <2>1
<1> QED BY <1>1, <1>2, <1>3 DEF Alternates

(* ... two of them are one if the second may come behind the first, ...    *)
LEMMA JoinedAlternate ==
  ASSUME NEW p, Alternates(p), NEW q, Alternates(q),
         p[Len(p)].role = "user" => q[1].role = "assistant",
         \A k \in 1..Len(p) : p[k].role = "assistant" /\ k + Len(p[k].calls) = Len(p)
                                => Follows(q, 1, Len(p[k].calls))
  PROVE  Alternates(p \o q)
<1> DEFINE r == p \o q
           P == Len(p)
           Q == Len(q)
<1>1. /\ p \in Seq(Message) /\ P \in Nat \ {0}
      /\ \A k \in 1..P : Len(p[k].calls) \in Nat
      /\ q \in Seq(Message) /\ Q \in Nat \ {0}
      /\ \A k \in 1..Q : Len(q[k].calls) \in Nat
  BY AlternatesTypes
<1>2. /\ r \in Seq(Message) /\ Len(r) = P + Q /\ r # <<>>
      /\ \A k \in 1..P : r[k] = p[k]
      /\ \A k \in 1..Q : r[P + k] = q[k]
  <2>1. /\ r \in Seq(Message) /\ Len(r) = P + Q
        /\ \A k \in 1..(P + Q) : r[k] = IF k =< P THEN p[k] ELSE q[k - P]
    BY <1>1, ConcatProperties
  <2> HIDE DEF r, P, Q
  <2>2. \A k \in 1..P : k \in 1..(P + Q) /\ k =< P
    BY <1>1
  <2>3. \A k \in 1..Q : P + k \in 1..(P + Q) /\ ~(P + k =< P) /\ (P + k) - P = k
    BY <1>1
  <2>4. r # <<>>
    BY <1>1, <2>1, EmptySeq
  <2> QED BY <2>1, <2>2, <2>3, <2>4
<1> HIDE DEF r
<1>3. ASSUME NEW k \in 1..P
      PROVE  /\ r[k].role = "assistant" => AnswerFits(r, k, r[k].calls, Len(r[k].calls))
             /\ r[k].role = "user" => r[k + 1].role = "assistant"
  <2>1. r[k] = p[k]
    BY <1>2
  <2>2. ASSUME p[k].role = "assistant"
        PROVE  AnswerFits(r, k, p[k].calls, Len(p[k].calls))
    <3> DEFINE c == p[k].calls
               n == Len(c)
    <3>1. AnswerFits(p, k, c, n) /\ n \in Nat
      BY <1>1, <2>2 DEF Alternates
    <3>2. k + n = P => Follows(q, 1, n)
      BY <2>2
    <3> HIDE DEF c, n
    <3>3. k + n =< P /\ k + n =< Len(r)
      BY <1>1, <1>2, <3>1 DEF AnswerFits
    <3>4. \A j \in 1..n : r[k + j] = Tool(c[j])
      <4> TAKE j \in 1..n
      <4>1. k + j \in 1..P
        BY <1>1, <3>1, <3>3
      <4> QED BY <1>2, <3>1, <4>1 DEF AnswerFits
    <3>5. ASSUME k + n < P PROVE Follows(r, k + n + 1, n)
      <4>1. k + n + 1 \in 1..P
        BY <1>1, <3>1, <3>5
      <4> QED BY <1>2, <3>1, <3>5, <4>1 DEF AnswerFits, Follows
    <3>6. ASSUME k + n = P PROVE Follows(r, k + n + 1, n)
      <4>1. r[P + 1] = q[1]
        BY <1>1, <1>2
      <4> QED BY <3>2, <3>6, <4>1 DEF Follows
    <3>7. k + n < P \/ k + n = P
      BY <1>1, <3>1, <3>3
    <3>8. AnswerFits(r, k, c, n)
      BY <3>3, <3>4, <3>5, <3>6, <3>7 DEF AnswerFits
    <3> QED BY <3>8 DEF c, n
  <2>3. ASSUME p[k].role = "user" PROVE r[k + 1].role = "assistant"
    <3>1. CASE k < P
      <4>1. k + 1 \in 1..P
        BY <1>1, <3>1
      <4> QED BY <1>2, <2>3, <3>1, <4>1 DEF Alternates
    <3>2. CASE k = P
      <4>1. r[P + 1] = q[1]
        BY <1>1, <1>2
      <4> QED BY <2>3, <3>2, <4>1
    <3>3. k < P \/ k = P
      BY <1>1
    <3> QED BY <3>1, <3>2, <3>3
  <2> QED BY <2>1, <2>2, <2>3
<1>4. ASSUME NEW i \in 1..Q, NEW k, k = P + i
      PROVE  /\ r[k].role = "assistant" => AnswerFits(r, k, r[k].calls, Len(r[k].calls))
             /\ r[k].role = "user" /\ k < Len(r) => r[k + 1].role = "assistant"
  <2>1. r[k] = q[i]
    BY <1>2, <1>4
  <2>2. ASSUME q[i].role = "assistant"
        PROVE  AnswerFits(r, k, q[i].calls, Len(q[i].calls))
    <3> DEFINE c == q[i].calls
               n == Len(c)
    <3>1. AnswerFits(q, i, c, n) /\ n \in Nat
      BY <1>1, <2>2 DEF Alternates
    <3> HIDE DEF c, n
    <3>2. i + n =< Q /\ k + n =< Len(r)
      BY <1>1, <1>2, <1>4, <3>1 DEF AnswerFits
    <3>3. \A j \in 1..n : r[k + j] = Tool(c[j])
      <4> TAKE j \in 1..n
      <4>1. i + j \in 1..Q /\ P + (i + j) = k + j
        BY <1>1, <1>4, <3>1, <3>2
      <4>2. q[i + j] = Tool(c[j])
        BY <3>1 DEF AnswerFits
      <4> QED BY <1>2, <4>1, <4>2
    <3>4. ASSUME k + n < Len(r) PROVE Follows(r, k + n + 1, n)
      <4>1. i + n < Q
        BY <1>1, <1>2, <1>4, <3>1, <3>4
      <4>2. i + n + 1 \in 1..Q /\ P + (i + n + 1) = k + n + 1
        BY <1>1, <1>4, <3>1, <4>1
      <4>3. r[k + n + 1] = q[i + n + 1]
        BY <1>2, <4>2
      <4>4. Follows(q, i + n + 1, n)
        BY <3>1, <4>1 DEF AnswerFits
      <4> QED BY <4>3, <4>4 DEF Follows
    <3>5. AnswerFits(r, k, c, n)
      BY <3>2, <3>3, <3>4 DEF AnswerFits
    <3> QED BY <3>5 DEF c, n
  <2>3. ASSUME q[i].role = "user", k < Len(r) PROVE r[k + 1].role = "assistant"
    <3>1. i < Q /\ i + 1 \in 1..Q /\ P + (i + 1) = k + 1
      BY <1>1, <1>2, <1>4, <2>3
    <3>2. r[k + 1] = q[i + 1]
      BY <1>2, <3>1
    <3> QED BY <2>3, <3>1, <3>2 DEF Alternates
  <2> QED BY <2>1, <2>2, <2>3
<1>5. ASSUME NEW k \in 1..Len(r)
      PROVE  /\ r[k].role = "assistant" => AnswerFits(r, k, r[k].calls, Len(r[k].calls))
             /\ r[k].role = "user" /\ k < Len(r) => r[k + 1].role = "assistant"
  <2>1. CASE k =< P
    <3>1. k \in 1..P
      BY <1>1, <2>1
    <3> QED BY <1>3, <3>1
  <2>2. CASE k > P
    <3>1. k - P \in 1..Q /\ k = P + (k - P)
      BY <1>1, <1>2, <2>2
    <3> QED BY <1>4, <3>1
  <2>3. k =< P \/ k > P
    BY <1>1
  <2> QED BY <2>1, <2>2, <2>3
<1> QED BY <1>2, <1>5 DEF Alternates, r

(* ... what a run leaves is one ...                                        *)
LEMMA WholeAlternates ==
  ASSUME NEW p, Ended(p)
  PROVE  Alternates(p) /\ p[1] = User /\ p[Len(p)] = Final
<1> DEFINE w == Front(p)
           e == <<Final>>
<1>1. RoundsOf(w) /\ Awaits(w, <<>>) /\ p = Append(w, Final)
  BY DEF Ended, Final
<1> HIDE DEF w
<1>2. /\ Alternates(w) /\ w[1] = User
      /\ \A k \in 1..Len(w) : w[k].role = "assistant" => Len(w[k].calls) # 0
  BY <1>1, RunAlternates
<1>3. w \in Seq(Message) /\ Len(w) \in Nat \ {0}
  BY <1>2, AlternatesTypes
<1>4. e \in Seq(Message) /\ Len(e) = 1 /\ e[1] = Final /\ e # <<>>
  BY MessageTypes, OneElement
<1>5. Final.role = "assistant" /\ Len(Final.calls) = 0
  BY EmptySeq DEF Final, Assistant
<1> HIDE DEF e
<1>6. Alternates(e)
  <2>1. ASSUME NEW k \in 1..1 PROVE AnswerFits(e, k, e[k].calls, Len(e[k].calls))
    BY <1>4, <1>5 DEF AnswerFits
  <2>2. \A k \in 1..1 : e[k].role # "user"
    BY <1>4, <1>5
  <2> QED BY <1>4, <2>1, <2>2 DEF Alternates
<1>7. p = w \o e
  BY <1>1, <1>3, MessageTypes, AppendIsConcat DEF e
<1>8. Alternates(w \o e)
  <2>1. e[1].role = "assistant" /\ \A n : n # 0 => Follows(e, 1, n)
    BY <1>4, <1>5 DEF Follows
  <2> QED BY <1>2, <1>6, <2>1, JoinedAlternate
<1>9. p[1] = User /\ p[Len(p)] = Final
  <2>1. /\ Len(p) = Len(w) + 1 /\ p[Len(w) + 1] = Final
        /\ \A k \in 1..Len(w) : p[k] = w[k]
    BY <1>1, <1>3, MessageTypes, AppendProperties
  <2>2. 1 \in 1..Len(w)
    BY <1>3
  <2> QED BY <1>2, <2>1, <2>2
<1> QED BY <1>7, <1>8, <1>9

(* ... and so is what is sent.                                             *)
LEMMA RequestAlternates ==
  ASSUME NEW p, p = <<>> \/ Ended(p), NEW ms, RoundsOf(ms), Awaits(ms, <<>>)
  PROVE  Alternates(p \o ms) /\ (p \o ms)[1] = User
<1>1. Alternates(ms) /\ ms[1] = User /\ ms \in Seq(Message) /\ Len(ms) \in Nat \ {0}
  BY RunAlternates, AlternatesTypes
<1>2. CASE p = <<>>
  <2>1. p \o ms = ms
    BY <1>1, <1>2, ConcatEmptySeq
  <2> QED BY <1>1, <2>1
<1>3. CASE Ended(p)
  <2>1. Alternates(p) /\ p[1] = User /\ p[Len(p)] = Final
    BY <1>3, WholeAlternates
  <2>2. /\ p \in Seq(Message) /\ Len(p) \in Nat \ {0}
        /\ \A k \in 1..Len(p) : Len(p[k].calls) \in Nat
    BY <2>1, AlternatesTypes
  <2>3. Final.role = "assistant" /\ User.role = "user" /\ \A c : Tool(c).role = "tool"
    BY DEF Final, Assistant, User, Tool
  <2>4. ASSUME NEW k \in 1..Len(p), p[k].role = "assistant", k + Len(p[k].calls) = Len(p)
        PROVE  Follows(ms, 1, Len(p[k].calls))
    <3> DEFINE n == Len(p[k].calls)
    <3>1. AnswerFits(p, k, p[k].calls, n) /\ n \in Nat
      BY <2>1, <2>2, <2>4 DEF Alternates
    <3> HIDE DEF n
    <3>2. n = 0
      <4> SUFFICES ASSUME n # 0 PROVE FALSE
        OBVIOUS
      <4>1. n \in 1..n
        BY <3>1
      <4>2. p[k + n] = Tool(p[k].calls[n])
        BY <3>1, <4>1 DEF AnswerFits
      <4>3. p[Len(p)] = Tool(p[k].calls[n])
        BY <2>4, <4>2 DEF n
      <4> QED BY <2>1, <2>3, <4>3
    <3> QED BY <1>1, <2>3, <3>2 DEF Follows, n
  <2>5. Alternates(p \o ms)
    BY <1>1, <2>1, <2>3, <2>4, JoinedAlternate
  <2>6. (p \o ms)[1] = p[1]
    <3>1. 1 \in 1..(Len(p) + Len(ms)) /\ 1 =< Len(p)
      BY <1>1, <2>2
    <3> QED BY <1>1, <2>2, <3>1, ConcatProperties
  <2> QED BY <2>1, <2>5, <2>6
<1> QED BY <1>2, <1>3

(* So the invariant has every request paired.                              *)
LEMMA RequestsPaired ==
  ASSUME RoundsIInv
  PROVE  RequestsArePaired
<1> SUFFICES ASSUME pc = "asking" PROVE RequestsArePaired
  BY DEF RequestsArePaired
<1>1. /\ RoundsOf(messages) /\ Awaits(messages, <<>>)
      /\ prior = <<>> \/ Ended(prior)
  BY DEF RoundsIInv, MessagesFit
<1> DEFINE r == Request
<1>2. Alternates(r) /\ r[1] = User
  BY <1>1, RequestAlternates DEF Request
<1>3. /\ r \in Seq(Message) /\ Len(r) \in Nat \ {0} /\ DOMAIN r = 1..Len(r)
      /\ \A k \in 1..Len(r) : r[k].calls \in Seq(Index) /\ Len(r[k].calls) \in Nat
  BY <1>2, AlternatesTypes
<1> HIDE DEF r
<1>4. ASSUME NEW k \in 1..Len(r), NEW c, c = r[k].calls, NEW n, n = Len(c)
      PROVE  /\ r[k].role = "assistant" =>
                 /\ k + n =< Len(r)
                 /\ {r[k + j].id : j \in 1..n} = ToSet(c)
                 /\ \A j \in 1..n : r[k + j].role = "tool"
                 /\ k + n < Len(r) => r[k + n + 1].role = IF n = 0 THEN "user" ELSE "assistant"
             /\ r[k].role = "user" => (k < Len(r) => r[k + 1].role = "assistant")
             /\ k = 1 => r[k].role = "user"
  <2>1. ASSUME r[k].role = "assistant"
        PROVE  /\ k + n =< Len(r)
               /\ {r[k + j].id : j \in 1..n} = ToSet(c)
               /\ \A j \in 1..n : r[k + j].role = "tool"
               /\ k + n < Len(r) => r[k + n + 1].role = IF n = 0 THEN "user" ELSE "assistant"
    <3>1. AnswerFits(r, k, c, n)
      BY <1>2, <1>4, <2>1 DEF Alternates
    <3>2. DOMAIN c = 1..n
      BY <1>3, <1>4, LenProperties
    <3>3. \A j \in 1..n : r[k + j].role = "tool" /\ r[k + j].id = c[j]
      <4>1. \A i : Tool(i).role = "tool" /\ Tool(i).id = i
        BY DEF Tool
      <4>2. \A j \in 1..n : r[k + j] = Tool(c[j])
        BY <3>1 DEF AnswerFits
      <4> QED BY <4>1, <4>2
    <3>4. {r[k + j].id : j \in 1..n} = ToSet(c)
      BY <3>2, <3>3 DEF ToSet
    <3> QED BY <3>1, <3>3, <3>4 DEF AnswerFits, Follows
  <2>2. r[k].role = "user" => (k < Len(r) => r[k + 1].role = "assistant")
    BY <1>2 DEF Alternates
  <2>3. k = 1 => r[k].role = "user"
    BY <1>2 DEF User
  <2> QED BY <2>1, <2>2, <2>3
<1>5. ASSUME NEW k \in DOMAIN r
      PROVE  LET m == r[k] n == Len(m.calls) IN
             /\ m.role = "assistant" =>
                 /\ k + n =< Len(r)
                 /\ {r[k + j].id : j \in 1..n} = ToSet(m.calls)
                 /\ \A j \in 1..n : r[k + j].role = "tool"
                 /\ k + n < Len(r) => r[k + n + 1].role = IF n = 0 THEN "user" ELSE "assistant"
             /\ m.role = "user" => (k < Len(r) => r[k + 1].role = "assistant")
             /\ k = 1 => m.role = "user"
  BY <1>3, <1>4
<1> QED BY <1>5 DEF RequestsArePaired, r

Places(s) == [p \in DOMAIN s |-> p]

(* Positions, frame by frame: a new frame comes behind the others.         *)
LEMMA PlacesType ==
  ASSUME NEW A, NEW s \in Seq(A)
  PROVE  /\ Places(s) \in Seq(Nat) /\ Len(Places(s)) = Len(s)
         /\ DOMAIN Places(s) = 1..Len(s) /\ Len(s) \in Nat
         /\ \A p \in 1..Len(s) : Places(s)[p] = p
<1>1. DOMAIN s = 1..Len(s) /\ Len(s) \in Nat
  BY LenProperties
<1>2. Places(s) = [p \in 1..Len(s) |-> p] /\ Places(s) \in [1..Len(s) -> Nat]
  BY <1>1 DEF Places
<1>3. Places(s) \in Seq(Nat)
  BY <1>1, <1>2, IsASeq
<1> QED BY <1>1, <1>2, <1>3, LenProperties

LEMMA PlacesGrow ==
  ASSUME NEW A, NEW s \in Seq(A), NEW x \in A, NEW P, NEW Q,
         \A p \in 1..Len(s) : p \in P <=> p \in Q
  PROVE  Only(Places(Append(s, x)), Q) =
           IF Len(s) + 1 \in Q THEN Append(Only(Places(s), P), Len(s) + 1)
                               ELSE Only(Places(s), P)
<1> DEFINE n == Len(s) + 1
           w == Append(s, x)
           q == Places(s)
<1>1. w \in Seq(A) /\ Len(w) = n
  BY AppendProperties
<1>2. /\ q \in Seq(Nat) /\ Len(q) = Len(s) /\ Len(s) \in Nat /\ DOMAIN q = 1..Len(s)
      /\ \A p \in 1..Len(s) : q[p] = p
  BY PlacesType
<1>3. /\ Places(w) \in Seq(Nat) /\ Len(Places(w)) = n
      /\ \A p \in 1..n : Places(w)[p] = p
  BY <1>1, PlacesType
<1> HIDE DEF w, q
<1>4. Places(w) = Append(q, n)
  <2>1. n \in Nat
    BY <1>2
  <2>2. /\ Append(q, n) \in Seq(Nat) /\ Len(Append(q, n)) = Len(q) + 1
        /\ \A p \in 1..Len(q) : Append(q, n)[p] = q[p]
        /\ Append(q, n)[Len(q) + 1] = n
    BY <1>2, <2>1, AppendProperties
  <2>3. ASSUME NEW p \in 1..Len(Places(w)) PROVE Places(w)[p] = Append(q, n)[p]
    <3>1. p \in 1..Len(s) \/ p = n
      BY <1>2, <1>3
    <3> QED BY <1>2, <1>3, <2>2, <3>1
  <2>4. Len(Places(w)) = Len(Append(q, n))
    BY <1>2, <1>3, <2>2
  <2> QED BY <1>3, <2>2, <2>3, <2>4, SeqEqual
<1>5. Only(Append(q, n), Q) = IF n \in Q THEN Append(Only(q, Q), n) ELSE Only(q, Q)
  <2>1. n \in Nat
    BY <1>2
  <2> HIDE DEF n
  <2> QED BY <1>2, <2>1, OnlyAppend
<1>6. Only(q, Q) = Only(q, P)
  <2>1. \A p \in DOMAIN q : q[p] \in Q <=> q[p] \in P
    BY <1>2
  <2> QED BY <2>1, OnlySame
<1> QED BY <1>4, <1>5, <1>6 DEF w, q

LEMMA PlacesNone == \A P : Only(Places(<<>>), P) = <<>>
<1>1. Places(<<>>) = <<>>
  BY DEF Places
<1> QED BY <1>1, OnlyEmpty

LEMMA PositionsIs == \A P : Positions(P) = Only(Places(sent), P)
BY DEF Positions, Places

(* Before the first frame everything is empty.                             *)
LEMMA EmptyStream ==
  ASSUME sent' = <<>>, content' = <<>>, shown' = <<>>, blocks' = NoBlocks, order' = <<>>
  PROVE  ReplyIsTheStream' /\ StreamFits'
<1>1. \A P : Positions(P)' = <<>>
  <2> TAKE P
  <2>1. Positions(P)' = Only(Places(sent'), P)
    BY DEF Positions, Places
  <2> QED BY <2>1, PlacesNone
<1>2. \A i \in Index : blocks'[i].parts = <<>>
  BY DEF NoBlocks
<1>3. ReplyIsTheStream'
  BY <1>1, <1>2 DEF ReplyIsTheStream
<1>4. StreamFits'
  BY DEF StreamFits, Distinct
<1> QED BY <1>3, <1>4

(* A step that leaves the stream and the screen alone.                     *)
LEMMA SameStream ==
  ASSUME RoundsIInv, UNCHANGED <<sent, content, shown, blocks, order>>,
         pc' \in {"idle", "asking", "requested", "waiting"} => content = <<>>
  PROVE  ReplyIsTheStream' /\ StreamFits'
<1>1. ReplyIsTheStream'
  BY DEF RoundsIInv, ReplyIsTheStream, Positions, TextFrames, CallFrames
<1>2. StreamFits'
  BY DEF RoundsIInv, StreamFits, Distinct
<1> QED BY <1>1, <1>2

(* What a frame does to the blocks.                                        *)
LEMMA FrameBlocks ==
  ASSUME RoundsIInv, NEW f \in [kind : FrameKinds, at : Index], Frame(f),
         NEW n, n = Len(sent) + 1
  PROVE  /\ n \in 1..MaxFrames /\ blocks' \in [Index -> Block]
         /\ \A i \in Index : blocks'[i].kind = IF Opens(f) /\ i = f.at THEN KindOf(f)
                                               ELSE blocks[i].kind
         /\ \A i \in Index : blocks'[i].parts = IF f.kind = "call" /\ i = f.at
                                                THEN Append(blocks[i].parts, n)
                                                ELSE blocks[i].parts
<1> DEFINE opened == IF Opens(f) THEN [blocks EXCEPT ![f.at].kind = KindOf(f)] ELSE blocks
<1>1. /\ n \in 1..MaxFrames
      /\ f.kind = "text" => blocks' = blocks
      /\ f.kind # "text" /\ f.kind # "call" => blocks' = opened
      /\ f.kind = "call" => blocks' = [opened EXCEPT ![f.at].parts = Append(@, n)]
  BY DEF Frame, Target
<1>2. blocks \in [Index -> Block] /\ f.at \in Index /\ KindOf(f) \in {"text", "tool"}
  BY DEF RoundsIInv, RoundsTypeOK, KindOf
<1>3. /\ opened \in [Index -> Block]
      /\ \A i \in Index : opened[i].kind = IF Opens(f) /\ i = f.at THEN KindOf(f)
                                           ELSE blocks[i].kind
      /\ \A i \in Index : opened[i].parts = blocks[i].parts
  BY <1>2 DEF Block
<1>4. Opens(f) => f.kind # "text"
  BY DEF Opens
<1> HIDE DEF opened
<1>5. CASE f.kind = "call"
  <2> DEFINE parts == Append(opened[f.at].parts, n)
  <2>1. parts \in Seq(1..MaxFrames)
    <3>1. opened[f.at].parts \in Seq(1..MaxFrames)
      BY <1>2, <1>3 DEF Block
    <3> QED BY <1>1, <3>1, AppendProperties
  <2>2. blocks' = [opened EXCEPT ![f.at].parts = parts]
    BY <1>1, <1>5
  <2>3. parts = Append(blocks[f.at].parts, n)
    BY <1>2, <1>3
  <2> HIDE DEF parts
  <2> DEFINE b == [opened[f.at] EXCEPT !.parts = parts]
  <2>4. b \in Block /\ b.kind = opened[f.at].kind /\ b.parts = parts
    <3>1. opened[f.at] \in Block
      BY <1>2, <1>3
    <3> QED BY <2>1, <3>1 DEF Block
  <2>5. blocks' = [opened EXCEPT ![f.at] = b]
    BY <2>2
  <2> HIDE DEF b
  <2>6. /\ blocks' \in [Index -> Block] /\ blocks'[f.at] = b
        /\ \A i \in Index : i # f.at => blocks'[i] = opened[i]
    BY <1>2, <1>3, <2>4, <2>5
  <2>7. /\ \A i \in Index : blocks'[i].kind = opened[i].kind
        /\ \A i \in Index : blocks'[i].parts = IF i = f.at THEN parts ELSE opened[i].parts
    BY <2>4, <2>6
  <2> QED BY <1>1, <1>3, <1>5, <2>3, <2>6, <2>7
<1>6. CASE f.kind # "call"
  BY <1>1, <1>2, <1>3, <1>4, <1>6
<1> QED BY <1>5, <1>6

(* A frame adds itself to the text or to its call, on the screen and in    *)
(* the answer, ...                                                         *)
LEMMA FrameReply ==
  ASSUME RoundsIInv, NEW f \in [kind : FrameKinds, at : Index], Frame(f)
  PROVE  ReplyIsTheStream'
<1> DEFINE A == [kind : FrameKinds, at : Index]
           n == Len(sent) + 1
<1>1. /\ sent \in Seq(A) /\ f \in A /\ sent' = Append(sent, f)
      /\ content' = IF f.kind = "text" THEN Append(content, n) ELSE content
      /\ shown' = IF f.kind = "text" THEN Append(shown, n) ELSE shown
  BY DEF Frame, RoundsIInv, RoundsTypeOK
<1>2. /\ shown = content /\ shown = Only(Places(sent), TextFrames)
      /\ \A i \in Index : blocks[i].parts = Only(Places(sent), CallFrames(i))
  BY PositionsIs DEF RoundsIInv, ReplyIsTheStream
<1>3. \A i \in Index : blocks'[i].parts = IF f.kind = "call" /\ i = f.at
                                          THEN Append(blocks[i].parts, n) ELSE blocks[i].parts
  BY FrameBlocks
<1>4. \A P : Positions(P)' = Only(Places(sent'), P)
  BY DEF Positions, Places
<1>5. /\ Len(sent) \in Nat /\ DOMAIN sent = 1..Len(sent) /\ DOMAIN sent' = 1..n
      /\ \A p \in 1..Len(sent) : sent'[p] = sent[p]
      /\ sent'[n] = f
  <2>1. sent' \in Seq(A) /\ Len(sent') = n
    BY <1>1, AppendProperties
  <2> QED BY <1>1, <2>1, AppendProperties, LenProperties
<1> HIDE DEF A
<1>6. shown' = Positions(TextFrames)'
  <2> DEFINE P == TextFrames
             Q == {p \in DOMAIN sent' : sent'[p].kind = "text"}
  <2>1. \A p \in 1..Len(sent) : p \in P <=> p \in Q
    BY <1>5 DEF TextFrames
  <2>2. n \in Q <=> f.kind = "text"
    BY <1>5
  <2>3. Positions(TextFrames)' = Only(Places(sent'), Q)
    BY DEF Positions, Places, TextFrames
  <2> HIDE DEF P, Q
  <2>4. Only(Places(sent'), Q) = IF n \in Q THEN Append(Only(Places(sent), P), n)
                                 ELSE Only(Places(sent), P)
    <3>1. Only(Places(Append(sent, f)), Q) =
            IF Len(sent) + 1 \in Q THEN Append(Only(Places(sent), P), Len(sent) + 1)
                                   ELSE Only(Places(sent), P)
      BY <1>1, <2>1, PlacesGrow
    <3> QED BY <1>1, <3>1
  <2> QED BY <1>1, <1>2, <2>2, <2>3, <2>4 DEF P
<1>7. ASSUME NEW i \in Index PROVE blocks'[i].parts = Positions(CallFrames(i))'
  <2> DEFINE P == CallFrames(i)
             Q == {p \in DOMAIN sent' : sent'[p].kind = "call" /\ sent'[p].at = i}
  <2>1. \A p \in 1..Len(sent) : p \in P <=> p \in Q
    BY <1>5 DEF CallFrames
  <2>2. n \in Q <=> f.kind = "call" /\ i = f.at
    BY <1>5
  <2>3. Positions(CallFrames(i))' = Only(Places(sent'), Q)
    BY DEF Positions, Places, CallFrames
  <2> HIDE DEF P, Q
  <2>4. Only(Places(sent'), Q) = IF n \in Q THEN Append(Only(Places(sent), P), n)
                                 ELSE Only(Places(sent), P)
    <3>1. Only(Places(Append(sent, f)), Q) =
            IF Len(sent) + 1 \in Q THEN Append(Only(Places(sent), P), Len(sent) + 1)
                                   ELSE Only(Places(sent), P)
      BY <1>1, <2>1, PlacesGrow
    <3> QED BY <1>1, <3>1
  <2> QED BY <1>2, <1>3, <2>2, <2>3, <2>4 DEF P
<1>8. shown' = content'
  BY <1>1, <1>2
<1> QED BY <1>6, <1>7, <1>8 DEF ReplyIsTheStream

(* ... and opens a call once at most.                                      *)
LEMMA FrameFits ==
  ASSUME RoundsIInv, NEW f \in [kind : FrameKinds, at : Index], Frame(f)
  PROVE  StreamFits' /\ order' \in Seq(Index)
<1>1. /\ pc' = "streaming" /\ order \in Seq(Index) /\ f.at \in Index
      /\ order' = IF Opens(f) THEN Append(order, f.at) ELSE order
      /\ Distinct(order)
      /\ \A k \in DOMAIN order : blocks[order[k]].kind # "none"
  BY DEF Frame, RoundsIInv, RoundsTypeOK, StreamFits
<1>2. /\ \A i \in Index : blocks'[i].kind = IF Opens(f) /\ i = f.at THEN KindOf(f)
                                            ELSE blocks[i].kind
      /\ KindOf(f) # "none"
  BY FrameBlocks DEF KindOf
<1>3. DOMAIN order = 1..Len(order) /\ Len(order) \in Nat
      /\ \A k \in 1..Len(order) : order[k] \in Index
  BY <1>1, LenProperties, ElementOfSeq
<1>4. CASE Opens(f)
  <2>1. /\ order' \in Seq(Index) /\ Len(order') = Len(order) + 1
        /\ \A k \in 1..Len(order) : order'[k] = order[k]
        /\ order'[Len(order) + 1] = f.at
    BY <1>1, <1>4, AppendProperties
  <2>2. DOMAIN order' = 1..(Len(order) + 1)
    BY <2>1, LenProperties
  <2>3. blocks[f.at].kind = "none"
    BY <1>4 DEF Opens
  <2>4. \A k \in 1..Len(order) : order[k] # f.at
    BY <1>1, <1>3, <2>3
  <2>5. \A k \in DOMAIN order' : k \in 1..Len(order) \/ k = Len(order) + 1
    BY <1>3, <2>2
  <2>6. Distinct(order')
    BY <1>1, <1>3, <2>1, <2>4, <2>5 DEF Distinct
  <2>7. \A k \in DOMAIN order' : blocks'[order'[k]].kind # "none"
    BY <1>1, <1>2, <1>3, <1>4, <2>1, <2>4, <2>5
  <2> QED BY <1>1, <2>1, <2>6, <2>7 DEF StreamFits, Distinct
<1>5. CASE ~Opens(f)
  <2>1. order' = order /\ \A i \in Index : blocks'[i].kind = blocks[i].kind
    BY <1>1, <1>2, <1>5
  <2>2. \A k \in DOMAIN order' : blocks'[order'[k]].kind # "none"
    BY <1>1, <1>3, <2>1
  <2> QED BY <1>1, <2>1, <2>2 DEF StreamFits, Distinct
<1> QED BY <1>4, <1>5

(* So an answer has no call twice.                                         *)
LEMMA CallsType ==
  ASSUME RoundsIInv
  PROVE  Calls \in Seq(Index) /\ Distinct(Calls)
<1> DEFINE S == {i \in Index : blocks[i].kind = "tool"}
<1>1. order \in Seq(Index) /\ Distinct(order) /\ Calls = Only(order, S)
  BY DEF RoundsIInv, RoundsTypeOK, StreamFits, Calls
<1> HIDE DEF S
<1>2. Only(order, S) \in Seq(Index \cap S)
  BY <1>1, OnlyType
<1>3. Distinct(Only(order, S))
  BY <1>1, OnlyDistinct DEF Distinct
<1>4. Only(order, S) \in Seq(Index)
  BY <1>2, WiderSeq
<1> QED BY <1>1, <1>3, <1>4 DEF Distinct

(* Nothing has come yet.                                                   *)
LEMMA NoBlocksType == NoBlocks \in [Index -> Block]
<1>1. <<>> \in Seq(1..MaxFrames)
  BY EmptySeq
<1> QED BY <1>1 DEF NoBlocks, Block

LEMMA EmptyIsASeq == \A S : <<>> \in Seq(S)
BY EmptySeq

(* The ways out of a run leave its messages, repaired.                     *)
LEMMA FinishStep ==
  ASSUME RoundsIInv, NEW ms, RoundsOf(ms), NEW lost, Awaits(ms, lost),
         Finish(Append(ms, Final))
  PROVE  RoundsIInv'
<1>1. prior' = FlattenSeq(RepairPairing(Append(ms, Final)))
  BY DEF Finish
<1>2. prior' \in Seq(Message) /\ Ended(prior')
  BY <1>1, RepairedIsWhole
<1>3. /\ messages' = <<>> /\ pc' = "idle" /\ cancelled' = FALSE
      /\ round' = 0 /\ attempt' = 0 /\ todo' = <<>>
      /\ sent' = <<>> /\ content' = <<>> /\ blocks' = NoBlocks /\ order' = <<>>
      /\ shown' = <<>> /\ provider' = provider
  BY DEF Finish
<1>4. RoundsTypeOK'
  <2>1. provider \in Providers
    BY DEF RoundsIInv, RoundsTypeOK
  <2>2. 0 \in 0..MaxRounds /\ 0 \in 0..MaxRetries
    BY RoundsAssumption
  <2>3. content' \in Seq(1..MaxFrames) /\ shown' \in Seq(1..MaxFrames)
    BY <1>3, EmptyIsASeq
  <2> QED BY <1>2, <1>3, <2>1, <2>2, <2>3, NoBlocksType, EmptyIsASeq DEF RoundsTypeOK
<1>5. ReplyIsTheStream' /\ StreamFits'
  BY <1>3, EmptyStream
<1>6. MessagesFit'
  BY <1>2, <1>3 DEF MessagesFit, Ended
<1> QED BY <1>3, <1>4, <1>5, <1>6 DEF RoundsIInv

LEMMA FailStep ==
  ASSUME RoundsIInv, pc # "idle", RunFails
  PROVE  RoundsIInv'
<1>1. RoundsOf(messages) /\ Awaits(messages, todo)
  BY DEF RoundsIInv, MessagesFit
<1>2. Finish(Append(messages, Final))
  BY DEF RunFails, Final
<1> QED BY <1>1, <1>2, FinishStep

(* The actions preserve the invariant, one by one.                         *)
LEMMA SendStep ==
  ASSUME RoundsIInv, Send
  PROVE  RoundsIInv'
<1>1. /\ pc = "idle" /\ content = <<>> /\ shown = <<>> /\ todo = <<>>
      /\ prior # <<>> => Ended(prior)
  BY DEF Send, RoundsIInv, StreamFits, MessagesFit, ReplyIsTheStream
<1>2. RoundsTypeOK'
  <2>1. <<User>> \in Seq(Message)
    BY MessageTypes, OneElement
  <2>2. 1 \in 0..MaxRounds /\ 0 \in 0..MaxRetries
    BY RoundsAssumption
  <2> QED BY <2>1, <2>2, EmptyIsASeq DEF Send, stream, RoundsIInv, RoundsTypeOK
<1>3. ReplyIsTheStream' /\ StreamFits'
  BY <1>1, SameStream DEF Send, stream
<1>4. MessagesFit'
  BY <1>1, RunStarts DEF Send, MessagesFit, Ended
<1>5. pc' = "asking"
  BY DEF Send
<1> QED BY <1>2, <1>3, <1>4, <1>5 DEF RoundsIInv

(* The steps that leave the transcript alone.                              *)
LEMMA SameTranscript ==
  ASSUME RoundsIInv, UNCHANGED <<prior, messages, todo>>,
         pc # "idle", pc' # "idle", pc' = "calling" <=> pc = "calling"
  PROVE  MessagesFit'
BY DEF RoundsIInv, MessagesFit, Ended

LEMMA CancelStep ==
  ASSUME RoundsIInv, Cancel
  PROVE  RoundsIInv'
<1>1. RoundsTypeOK'
  BY DEF Cancel, stream, RoundsIInv, RoundsTypeOK
<1>2. ReplyIsTheStream' /\ StreamFits'
  BY SameStream DEF Cancel, stream, RoundsIInv, StreamFits
<1>3. MessagesFit'
  BY SameTranscript DEF Cancel
<1>4. pc' = "waiting" => attempt' < MaxRetries
  BY DEF Cancel, RoundsIInv
<1> QED BY <1>1, <1>2, <1>3, <1>4 DEF RoundsIInv

LEMMA AttemptStep ==
  ASSUME RoundsIInv, Attempt
  PROVE  RoundsIInv'
<1>1. CASE cancelled
  BY <1>1, FailStep DEF Attempt
<1>2. CASE ~cancelled
  <2>1. /\ pc = "asking" /\ pc' = "requested" /\ UNCHANGED shown
        /\ sent' = <<>> /\ content' = <<>> /\ blocks' = NoBlocks /\ order' = <<>>
        /\ UNCHANGED <<provider, prior, messages, cancelled, round, attempt, todo>>
    BY <1>2 DEF Attempt
  <2>2. RoundsTypeOK'
    BY <2>1, NoBlocksType, EmptyIsASeq DEF RoundsIInv, RoundsTypeOK
  <2>3. shown' = <<>>
    BY <2>1 DEF RoundsIInv, StreamFits, ReplyIsTheStream
  <2>4. ReplyIsTheStream' /\ StreamFits'
    BY <2>1, <2>3, EmptyStream
  <2>5. MessagesFit'
    BY <2>1, SameTranscript
  <2> QED BY <2>1, <2>2, <2>4, <2>5 DEF RoundsIInv
<1> QED BY <1>1, <1>2

LEMMA AttemptFailsStep ==
  ASSUME RoundsIInv, pc \in {"requested", "streaming"}, NEW t \in BOOLEAN, AttemptFails(t)
  PROVE  RoundsIInv'
<1>1. CASE MayRetry(t)
  <2>1. /\ pc' = "waiting" /\ content = <<>> /\ attempt < MaxRetries
        /\ UNCHANGED <<provider, prior, messages, cancelled, round, attempt,
                       sent, content, blocks, order, shown, todo>>
    BY <1>1 DEF AttemptFails, MayRetry, stream
  <2>2. RoundsTypeOK'
    BY <2>1 DEF RoundsIInv, RoundsTypeOK
  <2>3. ReplyIsTheStream' /\ StreamFits'
    BY <2>1, SameStream
  <2>4. MessagesFit'
    BY <2>1, SameTranscript
  <2> QED BY <2>1, <2>2, <2>3, <2>4 DEF RoundsIInv
<1>2. CASE ~MayRetry(t)
  <2>1. RunFails
    BY <1>2 DEF AttemptFails
  <2> QED BY <2>1, FailStep
<1> QED BY <1>1, <1>2

LEMMA RefusedStep ==
  ASSUME RoundsIInv, Refused
  PROVE  RoundsIInv'
BY AttemptFailsStep DEF Refused

LEMMA BrokenStep ==
  ASSUME RoundsIInv, Broken
  PROVE  RoundsIInv'
BY AttemptFailsStep DEF Broken

LEMMA OpenedStep ==
  ASSUME RoundsIInv, Opened
  PROVE  RoundsIInv'
<1>1. /\ pc = "requested" /\ pc' = "streaming"
      /\ UNCHANGED <<provider, prior, messages, cancelled, round, attempt,
                     sent, content, blocks, order, shown, todo>>
  BY DEF Opened, stream
<1>2. RoundsTypeOK'
  BY <1>1 DEF RoundsIInv, RoundsTypeOK
<1>3. ReplyIsTheStream' /\ StreamFits'
  BY <1>1, SameStream
<1>4. MessagesFit'
  BY <1>1, SameTranscript
<1> QED BY <1>1, <1>2, <1>3, <1>4 DEF RoundsIInv

LEMMA WaitedStep ==
  ASSUME RoundsIInv, Waited
  PROVE  RoundsIInv'
<1>1. /\ pc = "waiting" /\ pc' = "asking" /\ attempt' = attempt + 1 /\ attempt < MaxRetries
      /\ UNCHANGED <<provider, prior, messages, cancelled, round,
                     sent, content, blocks, order, shown, todo>>
  BY DEF Waited, stream, RoundsIInv
<1>2. RoundsTypeOK'
  <2>1. attempt + 1 \in 0..MaxRetries
    BY <1>1, RoundsAssumption DEF RoundsIInv, RoundsTypeOK
  <2> QED BY <1>1, <2>1 DEF RoundsIInv, RoundsTypeOK
<1>3. ReplyIsTheStream' /\ StreamFits'
  BY <1>1, SameStream DEF RoundsIInv, StreamFits
<1>4. MessagesFit'
  BY <1>1, SameTranscript
<1> QED BY <1>1, <1>2, <1>3, <1>4 DEF RoundsIInv

LEMMA FrameStep ==
  ASSUME RoundsIInv, NEW f \in [kind : FrameKinds, at : Index], Frame(f)
  PROVE  RoundsIInv'
<1> DEFINE n == Len(sent) + 1
<1>1. /\ pc = "streaming" /\ sent' = Append(sent, f)
      /\ content' = content \/ content' = Append(content, n)
      /\ shown' = shown \/ shown' = Append(shown, n)
      /\ UNCHANGED <<provider, prior, messages, pc, cancelled, round, attempt, todo>>
  BY DEF Frame
<1>2. n \in 1..MaxFrames /\ blocks' \in [Index -> Block]
  BY FrameBlocks
<1>3. StreamFits' /\ order' \in Seq(Index)
  BY FrameFits
<1>4. RoundsTypeOK'
  <2> HIDE DEF n
  <2>1. sent' \in Seq([kind : FrameKinds, at : Index])
    BY <1>1, AppendProperties DEF RoundsIInv, RoundsTypeOK
  <2>2. content' \in Seq(1..MaxFrames) /\ shown' \in Seq(1..MaxFrames)
    <3> DEFINE C == 1..MaxFrames
    <3>1. n \in C /\ content \in Seq(C) /\ shown \in Seq(C)
      BY <1>2 DEF RoundsIInv, RoundsTypeOK
    <3> HIDE DEF C
    <3>2. Append(content, n) \in Seq(C) /\ Append(shown, n) \in Seq(C)
      BY <3>1, AppendProperties
    <3>3. content' \in Seq(C) /\ shown' \in Seq(C)
      BY <1>1, <3>1, <3>2
    <3> QED BY <3>3 DEF C
  <2> QED BY <1>1, <1>2, <1>3, <2>1, <2>2 DEF RoundsIInv, RoundsTypeOK
<1>5. ReplyIsTheStream'
  BY FrameReply
<1>6. MessagesFit'
  BY <1>1, SameTranscript
<1> QED BY <1>1, <1>3, <1>4, <1>5, <1>6 DEF RoundsIInv

LEMMA RepliedStep ==
  ASSUME RoundsIInv, Replied
  PROVE  RoundsIInv'
<1>1. CASE Calls = <<>>
  <2>1. RunFails /\ pc # "idle"
    BY <1>1 DEF Replied, RunFails
  <2> QED BY <2>1, FailStep
<1>2. CASE Calls # <<>>
  <2> DEFINE c == Calls
  <2>1. /\ pc = "streaming" /\ pc' = "calling"
        /\ messages' = Append(messages, Assistant(c)) /\ todo' = c
        /\ UNCHANGED <<provider, prior, cancelled, round, attempt,
                       sent, content, blocks, order, shown>>
    BY <1>2 DEF Replied, stream
  <2>2. c \in Seq(Index) /\ Distinct(c) /\ c # <<>>
    BY <1>2, CallsType
  <2> HIDE DEF c
  <2>3. RoundsOf(messages) /\ Awaits(messages, <<>>)
    BY <2>1 DEF RoundsIInv, MessagesFit
  <2>4. RoundsOf(messages') /\ Awaits(messages', todo')
    BY <2>1, <2>2, <2>3, GrowAnswer
  <2>5. MessagesFit'
    BY <2>1, <2>2, <2>4 DEF RoundsIInv, MessagesFit, Ended
  <2>6. RoundsTypeOK'
    <3>1. messages' \in Seq(Message)
      BY <2>4 DEF RoundsOf
    <3> QED BY <2>1, <2>2, <3>1 DEF RoundsIInv, RoundsTypeOK
  <2>7. ReplyIsTheStream' /\ StreamFits'
    BY <2>1, SameStream
  <2> QED BY <2>1, <2>5, <2>6, <2>7 DEF RoundsIInv
<1> QED BY <1>1, <1>2

(* The last call is the one that leaves none.                              *)
LEMMA TailLength ==
  ASSUME NEW A, NEW q \in Seq(A), q # <<>>
  PROVE  Len(q) \in Nat \ {0} /\ (Tail(q) = <<>> <=> Len(q) = 1)
<1>1. Len(q) \in Nat \ {0} /\ Tail(q) \in Seq(A) /\ Len(Tail(q)) = Len(q) - 1
  BY HeadTailProperties, EmptySeq
<1>2. Tail(q) = <<>> <=> Len(Tail(q)) = 0
  BY <1>1, EmptySeq
<1> QED BY <1>1, <1>2

LEMMA ExecutedStep ==
  ASSUME RoundsIInv, Executed
  PROVE  RoundsIInv'
<1> DEFINE added == Append(messages, Tool(Head(todo)))
<1>1. /\ pc = "calling" /\ todo # <<>> /\ todo \in Seq(Index)
      /\ RoundsOf(messages) /\ Awaits(messages, todo)
  BY DEF Executed, RoundsIInv, RoundsTypeOK, MessagesFit
<1>2. Tail(todo) \in Seq(Index) /\ RoundsOf(added) /\ Awaits(added, Tail(todo))
  BY <1>1, GrowResult
<1>3. Len(todo) \in Nat \ {0} /\ (Tail(todo) = <<>> <=> Len(todo) = 1)
  BY <1>1, TailLength
<1>4. CASE Len(todo) = 1 /\ round = MaxRounds
  <2>1. Finish(Append(added, Final))
    BY <1>4 DEF Executed, Final
  <2> HIDE DEF added
  <2> QED BY <1>2, <2>1, FinishStep
<1>5. CASE ~(Len(todo) = 1 /\ round = MaxRounds)
  <2>1. /\ messages' = added /\ todo' = Tail(todo)
        /\ UNCHANGED <<provider, prior, cancelled>>
    BY <1>5 DEF Executed
  <2>2. messages' \in Seq(Message)
    BY <1>2, <2>1 DEF RoundsOf
  <2>3. CASE Len(todo) > 1
    <3>1. UNCHANGED <<pc, round, attempt, sent, content, blocks, order, shown>>
      BY <1>5, <2>3 DEF Executed, stream
    <3>2. RoundsTypeOK'
      BY <1>2, <2>1, <2>2, <3>1 DEF RoundsIInv, RoundsTypeOK
    <3>3. ReplyIsTheStream' /\ StreamFits'
      BY <1>1, <3>1, SameStream
    <3>4. MessagesFit'
      BY <1>1, <1>2, <1>3, <2>1, <2>3, <3>1 DEF RoundsIInv, MessagesFit, Ended
    <3> QED BY <1>1, <3>1, <3>2, <3>3, <3>4 DEF RoundsIInv
  <2>4. CASE ~(Len(todo) > 1)
    <3>1. /\ pc' = "asking" /\ round' = round + 1 /\ attempt' = 0
          /\ sent' = <<>> /\ content' = <<>> /\ blocks' = NoBlocks /\ order' = <<>>
          /\ shown' = <<>>
      BY <1>5, <2>4 DEF Executed
    <3>2. Tail(todo) = <<>> /\ round # MaxRounds
      BY <1>3, <1>5, <2>4
    <3>3. RoundsTypeOK'
      <4>1. round + 1 \in 0..MaxRounds /\ 0 \in 0..MaxRetries
        BY <3>2, RoundsAssumption DEF RoundsIInv, RoundsTypeOK
      <4> QED BY <1>2, <2>1, <2>2, <3>1, <4>1, NoBlocksType, EmptyIsASeq
              DEF RoundsIInv, RoundsTypeOK
    <3>4. ReplyIsTheStream' /\ StreamFits'
      BY <3>1, EmptyStream
    <3>5. MessagesFit'
      BY <1>2, <2>1, <3>1, <3>2 DEF RoundsIInv, MessagesFit, Ended
    <3> QED BY <3>1, <3>3, <3>4, <3>5 DEF RoundsIInv
  <2> QED BY <2>3, <2>4
<1> QED BY <1>4, <1>5

LEMMA ExecutionFailsStep ==
  ASSUME RoundsIInv, ExecutionFails
  PROVE  RoundsIInv'
<1> DEFINE x == Tool(Head(todo))
           added == Append(messages, x)
<1>1. /\ pc = "calling" /\ todo # <<>> /\ messages \in Seq(Message)
      /\ RoundsOf(messages) /\ Awaits(messages, todo)
  BY DEF ExecutionFails, RoundsIInv, RoundsTypeOK, MessagesFit
<1>2. Head(todo) \in Index /\ RoundsOf(added) /\ Awaits(added, Tail(todo))
  BY <1>1, GrowResult
<1>3. Finish(messages \o <<x, Final>>)
  BY DEF ExecutionFails, Final
<1>4. messages \o <<x, Final>> = Append(added, Final)
  <2>1. x \in Message
    BY <1>2, MessageTypes
  <2> HIDE DEF x
  <2>2. <<x>> \in Seq(Message) /\ <<x, Final>> = Append(<<x>>, Final)
    BY <2>1, OneElement
  <2>3. messages \o <<x>> = added
    BY <1>1, <2>1, AppendIsConcat
  <2>4. Append(messages \o <<x>>, Final) = messages \o Append(<<x>>, Final)
    BY <1>1, <2>2, MessageTypes, AppendBehind
  <2> QED BY <2>2, <2>3, <2>4
<1> HIDE DEF added
<1> QED BY <1>2, <1>3, <1>4, FinishStep

(* The invariant holds at the beginning, ...                               *)
LEMMA RoundsInvInit ==
  ASSUME RoundsInit
  PROVE  RoundsIInv
<1>1. RoundsTypeOK
  <2>1. 0 \in 0..MaxRounds /\ 0 \in 0..MaxRetries
    BY RoundsAssumption
  <2>2. content \in Seq(1..MaxFrames) /\ shown \in Seq(1..MaxFrames)
    BY EmptyIsASeq DEF RoundsInit
  <2> QED BY <2>1, <2>2, NoBlocksType, EmptyIsASeq DEF RoundsInit, RoundsTypeOK
<1>2. ReplyIsTheStream
  <2>1. \A P : Positions(P) = <<>>
    BY PositionsIs, PlacesNone DEF RoundsInit
  <2> QED BY <2>1 DEF RoundsInit, ReplyIsTheStream, NoBlocks
<1>3. StreamFits /\ MessagesFit
  BY DEF RoundsInit, StreamFits, MessagesFit, Distinct
<1> QED BY <1>1, <1>2, <1>3 DEF RoundsInit, RoundsIInv

(* ... every step preserves it, ...                                        *)
LEMMA RoundsInvStep ==
  ASSUME RoundsIInv, [RoundsNext]_roundsVars
  PROVE  RoundsIInv'
<1>1. CASE Send
  BY <1>1, SendStep
<1>2. CASE Cancel
  BY <1>2, CancelStep
<1>3. ASSUME NEW k \in FrameKinds, NEW i \in Index, Frame([kind |-> k, at |-> i])
      PROVE  RoundsIInv'
  BY <1>3, FrameStep
<1>4. CASE Attempt
  BY <1>4, AttemptStep
<1>5. CASE Opened
  BY <1>5, OpenedStep
<1>6. CASE Refused
  BY <1>6, RefusedStep
<1>7. CASE Waited
  BY <1>7, WaitedStep
<1>8. CASE WaitCancelled
  BY <1>8, FailStep DEF WaitCancelled
<1>9. CASE Executed
  BY <1>9, ExecutedStep
<1>10. CASE ExecutionFails
  BY <1>10, ExecutionFailsStep
<1>11. CASE Replied
  BY <1>11, RepliedStep
<1>12. CASE Broken
  BY <1>12, BrokenStep
<1>13. CASE UNCHANGED roundsVars
  <2>1. UNCHANGED <<provider, prior, messages, pc, cancelled, round, attempt,
                    sent, content, blocks, order, shown, todo>>
    BY <1>13 DEF roundsVars, stream
  <2>2. RoundsTypeOK'
    BY <2>1 DEF RoundsIInv, RoundsTypeOK
  <2>3. ReplyIsTheStream' /\ StreamFits'
    BY <2>1, SameStream DEF RoundsIInv, StreamFits
  <2>4. MessagesFit'
    BY <2>1 DEF RoundsIInv, MessagesFit, Ended
  <2> QED BY <2>1, <2>2, <2>3, <2>4 DEF RoundsIInv
<1> QED BY <1>1, <1>2, <1>3, <1>4, <1>5, <1>6, <1>7, <1>8, <1>9, <1>10,
        <1>11, <1>12, <1>13 DEF RoundsNext, RoundStep

(* ... so it always holds.                                                 *)
LEMMA RoundsInvariant == RoundsSpec => []RoundsIInv
<1>1. RoundsInit => RoundsIInv
  BY RoundsInvInit
<1>2. RoundsIInv /\ [RoundsNext]_roundsVars => RoundsIInv'
  BY RoundsInvStep
<1> QED BY <1>1, <1>2, PTL DEF RoundsSpec

(* Every variable of the loop and the client keeps its type: rounds and    *)
(* attempts stay within their bounds.                                      *)
THEOREM RoundsTypeCorrect == RoundsSpec => []RoundsTypeOK
<1>1. RoundsIInv => RoundsTypeOK
  BY DEF RoundsIInv
<1> QED BY <1>1, RoundsInvariant, PTL

(* What is on the screen and what the run keeps is what one stream sent,   *)
(* whatever was retried before it and however the fragments of its calls   *)
(* came interleaved.                                                       *)
THEOREM RepliesAreTheStream == RoundsSpec => []ReplyIsTheStream
<1>1. RoundsIInv => ReplyIsTheStream
  BY DEF RoundsIInv
<1> QED BY <1>1, RoundsInvariant, PTL

(* Every request has the results of each answer's calls right behind it,   *)
(* and the roles alternate, whatever way the earlier rounds and runs have  *)
(* ended.                                                                  *)
THEOREM EveryRequestIsPaired == RoundsSpec => []RequestsArePaired
<1>1. RoundsIInv => RequestsArePaired
  BY RequestsPaired
<1> QED BY <1>1, RoundsInvariant, PTL
=============================================================================
