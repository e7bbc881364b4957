---------------------------- MODULE FieldsProofs ----------------------------
(***************************************************************************)
(* Theorems about Fields: strings without separators come out as they went *)
(* in, however many there are and however long, and the options are what   *)
(* the last pair for each says.                                            *)
(*                                                                         *)
(* Induction goes by sets: a set of numbers that has 0 and with each       *)
(* number the next one has them all.                                       *)
(***************************************************************************)
EXTENDS Fields, WellFoundedInduction, SequenceTheorems, TLAPS

-----------------------------------------------------------------------------
(* Induction over the natural numbers.                                     *)

LEMMA LeastNumber ==
  ASSUME NEW T \in SUBSET Nat, T # {}
  PROVE  \E x \in T : \A y \in T : x <= y
<1> DEFINE Less == OpToRel(<, Nat)
<1>1. \A x, y \in Nat : x < y => <<x, y>> \in Less
  BY DEF OpToRel
<1> HIDE DEF Less
<1>2. IsWellFoundedOn(Less, Nat)
  BY NatLessThanWellFounded DEF Less
<1>3. PICK x \in T : \A y \in T : ~ (<<y, x>> \in Less)
  BY <1>2, WFMin
<1>4. ASSUME NEW y \in T PROVE x <= y
  <2>1. x \in Nat /\ y \in Nat /\ ~ (y < x)
    BY <1>1, <1>3
  <2> QED
    BY <2>1
<1> QED
  BY <1>4

LEMMA Induction ==
  ASSUME NEW T, 0 \in T, \A n \in Nat : n \in T => n + 1 \in T
  PROVE  \A n \in Nat : n \in T
<1> SUFFICES ASSUME Nat \ T # {} PROVE FALSE
  OBVIOUS
<1>1. PICK x \in Nat \ T : \A y \in Nat \ T : x <= y
  BY LeastNumber
<1>2. x # 0 /\ x - 1 \in Nat /\ x - 1 \in T
  BY <1>1
<1> QED
  BY <1>1, <1>2

\* The greatest of some indices.
LEMMA MaxIs ==
  ASSUME NEW n \in Nat, NEW S \in SUBSET (1 .. n), S # {}
  PROVE  Max(S) \in S /\ \A i \in S : i <= Max(S)
<1> DEFINE Bounds == {b \in Nat : \A i \in S : i <= b}
<1>1. n \in Bounds
  OBVIOUS
<1>2. PICK b \in Bounds : \A other \in Bounds : b <= other
  BY <1>1, LeastNumber
<1>3. b \in S
  <2> SUFFICES ASSUME b \notin S PROVE FALSE
    OBVIOUS
  <2>1. PICK i \in S : TRUE
    OBVIOUS
  <2>2. \A j \in S : j < b
    BY <1>2
  <2>3. b - 1 \in Nat /\ \A j \in S : j <= b - 1
    BY <2>1, <2>2
  <2>4. b - 1 \in Bounds
    BY <2>3
  <2> QED
    BY <1>2, <2>4
<1>4. \E i \in S : \A j \in S : i >= j
  BY <1>2, <1>3
<1> QED
  BY <1>4 DEF Max

LEMMA MaxOfPrefix ==
  ASSUME NEW n \in Nat
  PROVE  /\ Max(1 .. n + 1) = n + 1
         /\ (1 .. n + 1) \ {n + 1} = 1 .. n
         /\ \A S \in SUBSET (1 .. n + 1) : n + 1 \in S => Max(S) = n + 1
<1>1. ASSUME NEW S \in SUBSET (1 .. n + 1), n + 1 \in S PROVE Max(S) = n + 1
  <2>1. Max(S) \in S /\ \A i \in S : i <= Max(S)
    <3>1. n + 1 \in Nat /\ S # {}
      BY <1>1
    <3> QED
      BY <3>1, MaxIs
  <2>2. Max(S) \in 1 .. n + 1 /\ n + 1 <= Max(S)
    BY <1>1, <2>1
  <2> QED
    BY <2>2
<1>2. n + 1 \in 1 .. n + 1 /\ 1 .. n + 1 \in SUBSET (1 .. n + 1)
  OBVIOUS
<1>3. Max(1 .. n + 1) = n + 1
  BY <1>1, <1>2
<1>4. (1 .. n + 1) \ {n + 1} = 1 .. n
  OBVIOUS
<1> QED
  BY <1>1, <1>3, <1>4
-----------------------------------------------------------------------------
(* Folds.  Run is a fold whose operator is a function, so that the lemmas   *)
(* hold for every operator.                                                *)

Run(G, base, s) == FoldLeft(LAMBDA a, x : G[<<a, x>>], base, s)

\* g folds each part of the first n places of s, the last place last.
Folds(g, n, G, base, s) ==
  g = [S \in SUBSET (1 .. n) |->
         IF S = {} THEN base ELSE G[<<g[S \ {Max(S)}], s[Max(S)]>>]]

LEMMA FoldExists ==
  ASSUME NEW G, NEW base, NEW s, NEW N \in Nat
  PROVE  \E g : Folds(g, N, G, base, s)
<1> DEFINE T == {n \in Nat : \E g : Folds(g, n, G, base, s)}
<1>1. 0 \in T
  <2> DEFINE g == [S \in SUBSET (1 .. 0) |-> base]
  <2>1. \A S \in SUBSET (1 .. 0) : S = {}
    OBVIOUS
  <2>2. Folds(g, 0, G, base, s)
    BY <2>1 DEF Folds
  <2> QED
    BY <2>2
<1>2. ASSUME NEW n \in Nat, n \in T PROVE n + 1 \in T
  <2>1. PICK g : Folds(g, n, G, base, s)
    BY <1>2
  <2> DEFINE Step(f, S) == IF S = {} THEN base ELSE G[<<f[S \ {Max(S)}], s[Max(S)]>>]
             h == [S \in SUBSET (1 .. n + 1) |->
                     IF n + 1 \in S THEN G[<<g[S \ {n + 1}], s[n + 1]>>] ELSE g[S]]
  <2>2. \A S \in SUBSET (1 .. n) : g[S] = Step(g, S)
    BY <2>1 DEF Folds
  <2>3. ASSUME NEW S \in SUBSET (1 .. n + 1) PROVE h[S] = Step(h, S)
    <3>1. CASE n + 1 \in S
      <4>1. Max(S) = n + 1 /\ S # {}
        BY <3>1, MaxOfPrefix
      <4>2. S \ {n + 1} \in SUBSET (1 .. n + 1) /\ n + 1 \notin S \ {n + 1}
        OBVIOUS
      <4>3. h[S \ {n + 1}] = g[S \ {n + 1}]
        BY <4>2
      <4> QED
        BY <3>1, <4>1, <4>3
    <3>2. CASE S = {}
      BY <2>2, <3>2
    <3>3. CASE n + 1 \notin S /\ S # {}
      <4>1. S \in SUBSET (1 .. n)
        BY <3>3
      <4>2. Max(S) \in S
        BY <3>3, <4>1, MaxIs
      <4>3. S \ {Max(S)} \in SUBSET (1 .. n) /\ n + 1 \notin S \ {Max(S)}
        BY <3>3, <4>1
      <4>4. h[S \ {Max(S)}] = g[S \ {Max(S)}]
        BY <4>3
      <4> QED
        BY <2>2, <3>3, <4>1, <4>4
    <3> QED
      BY <3>1, <3>2, <3>3
  <2>4. h = [S \in SUBSET (1 .. n + 1) |-> Step(h, S)]
    BY <2>3
  <2>5. Folds(h, n + 1, G, base, s)
    BY <2>4 DEF Folds
  <2> QED
    BY <2>5
<1>3. \A n \in Nat : n \in T
  <2> HIDE DEF T
  <2> QED
    BY <1>1, <1>2, Induction
<1> QED
  BY <1>3

\* f is what the fold has after each place of s.
Partial(f, G, base, s) ==
  /\ f[0] = base
  /\ \A i \in 1 .. Len(s) : f[i] = G[<<f[i - 1], s[i]>>]
  /\ Run(G, base, s) = f[Len(s)]

LEMMA RunSteps ==
  ASSUME NEW G, NEW base, NEW X, NEW s \in Seq(X)
  PROVE  \E f : Partial(f, G, base, s)
<1>1. DOMAIN s = 1 .. Len(s) /\ Len(s) \in Nat
  OBVIOUS
<1> DEFINE g == CHOOSE g : Folds(g, Len(s), G, base, s)
<1>2. Folds(g, Len(s), G, base, s)
  BY <1>1, FoldExists
<1>3. Run(G, base, s) = g[1 .. Len(s)]
  BY <1>1 DEF Run, FoldLeft, MapThenFoldSet, Folds
<1> HIDE DEF g
<1>4. \A S \in SUBSET (1 .. Len(s)) :
         g[S] = IF S = {} THEN base ELSE G[<<g[S \ {Max(S)}], s[Max(S)]>>]
  BY <1>2 DEF Folds
<1> DEFINE f == [i \in 0 .. Len(s) |-> g[1 .. i]]
<1>5. f[0] = base
  <2>1. 1 .. 0 = {} /\ 0 \in 0 .. Len(s)
    BY <1>1
  <2>2. g[{}] = base
    BY <1>4
  <2> QED
    BY <2>1, <2>2
<1>6. ASSUME NEW i \in 1 .. Len(s) PROVE f[i] = G[<<f[i - 1], s[i]>>]
  <2>1. i - 1 \in Nat /\ i = (i - 1) + 1 /\ i - 1 \in 0 .. Len(s) /\ i \in 0 .. Len(s)
    OBVIOUS
  <2>2. Max(1 .. i) = i /\ (1 .. i) \ {i} = 1 .. i - 1
    BY <2>1, MaxOfPrefix
  <2>3. 1 .. i \in SUBSET (1 .. Len(s)) /\ i \in 1 .. i
    BY <1>1
  <2> QED
    BY <1>4, <2>1, <2>2, <2>3
<1>7. Run(G, base, s) = f[Len(s)]
  BY <1>1, <1>3
<1>8. Partial(f, G, base, s)
  BY <1>5, <1>6, <1>7 DEF Partial
<1> QED
  BY <1>8
\* G takes members of A and X to members of A.
ClosedUnder(G, A, X) == \A a \in A, x \in X : G[<<a, x>>] \in A

\* What goes from place to place as the fold does is the fold.
LEMMA RunUnique ==
  ASSUME NEW A, NEW X, NEW G, ClosedUnder(G, A, X), NEW base \in A, NEW s \in Seq(X), NEW h,
         h[0] = base,
         \A i \in 1 .. Len(s) : h[i - 1] \in A => h[i] = G[<<h[i - 1], s[i]>>]
  PROVE  h[Len(s)] = Run(G, base, s) /\ Run(G, base, s) \in A
<1>0. PICK f : Partial(f, G, base, s)
  BY RunSteps
<1>1. /\ f[0] = base
      /\ \A i \in 1 .. Len(s) : f[i] = G[<<f[i - 1], s[i]>>]
      /\ Run(G, base, s) = f[Len(s)]
  BY <1>0 DEF Partial
<1> DEFINE T == {n \in Nat : n <= Len(s) => h[n] = f[n] /\ f[n] \in A}
<1>2. 0 \in T
  BY <1>1
<1>3. ASSUME NEW n \in Nat, n \in T PROVE n + 1 \in T
  <2> SUFFICES ASSUME n + 1 <= Len(s) PROVE h[n + 1] = f[n + 1] /\ f[n + 1] \in A
    OBVIOUS
  <2>1. n + 1 \in 1 .. Len(s) /\ (n + 1) - 1 = n /\ s[n + 1] \in X
    OBVIOUS
  <2>2. h[n] = f[n] /\ f[n] \in A
    BY <1>3
  <2>3. f[n + 1] = G[<<f[n], s[n + 1]>>] /\ h[n + 1] = G[<<f[n], s[n + 1]>>]
    BY <1>1, <2>1, <2>2
  <2> QED
    BY <2>1, <2>2, <2>3 DEF ClosedUnder
<1> HIDE DEF T
<1>4. \A n \in Nat : n \in T
  BY <1>2, <1>3, Induction
<1>5. Len(s) \in T /\ Len(s) \in Nat
  BY <1>4
<1> QED
  BY <1>1, <1>5 DEF T

LEMMA RunType ==
  ASSUME NEW A, NEW X, NEW G, ClosedUnder(G, A, X), NEW base \in A, NEW s \in Seq(X)
  PROVE  Run(G, base, s) \in A
<1>0. PICK f : Partial(f, G, base, s)
  BY RunSteps
<1>1. f[0] = base /\ \A i \in 1 .. Len(s) : f[i] = G[<<f[i - 1], s[i]>>]
  BY <1>0 DEF Partial
<1> QED
  BY <1>1, RunUnique

LEMMA RunEmpty ==
  ASSUME NEW G, NEW base
  PROVE  Run(G, base, <<>>) = base
<1>1. <<>> \in Seq({}) /\ Len(<<>>) = 0
  OBVIOUS
<1>2. PICK f : Partial(f, G, base, <<>>)
  BY <1>1, RunSteps
<1> QED
  BY <1>1, <1>2 DEF Partial

LEMMA RunAppend ==
  ASSUME NEW A, NEW X, NEW G, ClosedUnder(G, A, X), NEW base \in A, NEW s \in Seq(X), NEW x \in X
  PROVE  /\ Run(G, base, Append(s, x)) = G[<<Run(G, base, s), x>>]
         /\ Run(G, base, s) \in A
<1> DEFINE t == Append(s, x)
<1>1. t \in Seq(X) /\ Len(t) = Len(s) + 1 /\ t[Len(s) + 1] = x /\ Len(s) \in Nat
  OBVIOUS
<1>2. \A i \in 1 .. Len(s) : t[i] = s[i] /\ i \in 1 .. Len(t)
  OBVIOUS
<1> HIDE DEF t
<1>0. PICK f : Partial(f, G, base, t)
  BY <1>1, RunSteps
<1>3. /\ f[0] = base
      /\ \A i \in 1 .. Len(t) : f[i] = G[<<f[i - 1], t[i]>>]
      /\ Run(G, base, t) = f[Len(t)]
  BY <1>0 DEF Partial
<1>4. \A i \in 1 .. Len(s) : f[i] = G[<<f[i - 1], s[i]>>]
  BY <1>2, <1>3
<1>5. f[Len(s)] = Run(G, base, s) /\ Run(G, base, s) \in A
  BY <1>3, <1>4, RunUnique
<1>6. f[Len(t)] = G[<<f[Len(s)], x>>]
  <2>1. Len(t) \in 1 .. Len(t) /\ Len(t) - 1 = Len(s) /\ t[Len(t)] = x
    BY <1>1
  <2> QED
    BY <1>3, <2>1
<1> QED
  BY <1>3, <1>5, <1>6 DEF t

\* Induction over sequences.
LEMMA SeqInduction ==
  ASSUME NEW X, NEW T, <<>> \in T,
         \A s \in Seq(X), x \in X : s \in T => Append(s, x) \in T
  PROVE  \A s \in Seq(X) : s \in T
<1> DEFINE N == {n \in Nat : \A s \in Seq(X) : Len(s) = n => s \in T}
<1>1. 0 \in N
  <2>1. \A s \in Seq(X) : Len(s) = 0 => s = <<>>
    OBVIOUS
  <2> QED
    BY <2>1
<1>2. ASSUME NEW n \in Nat, n \in N PROVE n + 1 \in N
  <2> SUFFICES ASSUME NEW s \in Seq(X), Len(s) = n + 1 PROVE s \in T
    OBVIOUS
  <2> DEFINE front == SubSeq(s, 1, n)
  <2>1. front \in Seq(X) /\ Len(front) = n /\ s[n + 1] \in X
    OBVIOUS
  <2>2. s = Append(front, s[n + 1])
    OBVIOUS
  <2>3. front \in T
    BY <1>2, <2>1
  <2> HIDE DEF front
  <2> QED
    BY <2>1, <2>2, <2>3
<1>3. \A n \in Nat : n \in N
  <2> HIDE DEF N
  <2> QED
    BY <1>1, <1>2, Induction
<1>4. ASSUME NEW s \in Seq(X) PROVE s \in T
  <2>1. Len(s) \in Nat
    OBVIOUS
  <2> QED
    BY <1>3, <2>1
<1> QED
  BY <1>4

LEMMA Regroup ==
  ASSUME NEW S
  PROVE  \A s, u, v \in Seq(S) : (s \o u) \o v = s \o (u \o v)
BY ConcatAssociative

\* Concatenation with one string more.
LEMMA ConcatWith ==
  ASSUME NEW C, NEW s \in Seq(C), NEW t \in Seq(C), NEW x \in C
  PROVE  s \o <<x>> \o t = Append(s, x) \o t
<1>1. Append(s, x) = s \o <<x>>
  BY AppendIsConcat
<1> QED
  BY <1>1

LEMMA RunConcat ==
  ASSUME NEW A, NEW X, NEW G, ClosedUnder(G, A, X), NEW base \in A, NEW s \in Seq(X), NEW t \in Seq(X)
  PROVE  Run(G, base, s \o t) = Run(G, Run(G, base, s), t)
<1> DEFINE T == {u \in Seq(X) : Run(G, base, s \o u) = Run(G, Run(G, base, s), u)}
<1>0. Run(G, base, s) \in A
  BY RunType
<1>1. <<>> \in T
  <2>1. s \o <<>> = s
    OBVIOUS
  <2> QED
    BY <2>1, RunEmpty
<1>2. ASSUME NEW u \in Seq(X), NEW x \in X, u \in T PROVE Append(u, x) \in T
  <2>1. s \o Append(u, x) = Append(s \o u, x) /\ s \o u \in Seq(X) /\ Append(u, x) \in Seq(X)
    OBVIOUS
  <2>2. Run(G, base, Append(s \o u, x)) = G[<<Run(G, base, s \o u), x>>]
    <3>1. PICK w \in Seq(X) : w = s \o u
      BY <2>1
    <3>2. Run(G, base, Append(w, x)) = G[<<Run(G, base, w), x>>]
      BY RunAppend
    <3> QED
      BY <3>1, <3>2
  <2>3. Run(G, Run(G, base, s), Append(u, x)) = G[<<Run(G, Run(G, base, s), u), x>>]
    BY <1>0, RunAppend
  <2> QED
    BY <1>2, <2>1, <2>2, <2>3
<1> HIDE DEF T
<1>3. t \in T
  BY <1>1, <1>2, SeqInduction
<1> QED
  BY <1>3 DEF T
LEMMA LastOf ==
  ASSUME NEW X, NEW s \in Seq(X), NEW S \in SUBSET (1 .. Len(s)), S # {}
  PROVE  /\ Max(S) \in S /\ \A i \in S : i <= Max(S)
         /\ s[Max(S)] \in X
         /\ S \ {Max(S)} \in SUBSET (1 .. Len(s))
<1>1. Len(s) \in Nat
  OBVIOUS
<1>2. Max(S) \in S /\ \A i \in S : i <= Max(S)
  BY <1>1, MaxIs
<1>3. PICK m \in 1 .. Len(s) : m = Max(S)
  BY <1>2
<1>4. s[m] \in X
  OBVIOUS
<1> QED
  BY <1>2, <1>3, <1>4

\* For an operator op that G is on A and X, what FoldLeft chooses for op is g.
LEMMA TypedFold ==
  ASSUME NEW A, NEW X, NEW G, ClosedUnder(G, A, X), NEW base \in A, NEW s \in Seq(X)
  PROVE  \E g : /\ Folds(g, Len(s), G, base, s)
                /\ \A S \in SUBSET (1 .. Len(s)) : g[S] \in A
<1>1. PICK g : Folds(g, Len(s), G, base, s)
  <2>1. Len(s) \in Nat
    OBVIOUS
  <2> QED
    BY <2>1, FoldExists
<1>2. \A S \in SUBSET (1 .. Len(s)) :
         g[S] = IF S = {} THEN base ELSE G[<<g[S \ {Max(S)}], s[Max(S)]>>]
  BY <1>1 DEF Folds
<1> DEFINE T == {n \in Nat : n <= Len(s) => \A S \in SUBSET (1 .. n) : g[S] \in A}
<1>3. 0 \in T
  <2>1. \A S \in SUBSET (1 .. 0) : S = {}
    OBVIOUS
  <2>2. g[{}] = base
    BY <1>2
  <2> QED
    BY <2>1, <2>2
<1>4. ASSUME NEW n \in Nat, n \in T PROVE n + 1 \in T
  <2>1. ASSUME n + 1 <= Len(s), NEW S \in SUBSET (1 .. n + 1), S # {} PROVE g[S] \in A
    <3>1. S \in SUBSET (1 .. Len(s))
      BY <2>1
    <3>2. Max(S) \in S /\ s[Max(S)] \in X /\ \A i \in S : i <= Max(S)
      BY <2>1, <3>1, LastOf
    <3>3. \A i \in S : i # Max(S) => i \in 1 .. n
      <4>1. PICK m \in 1 .. n + 1 : m = Max(S)
        BY <3>2
      <4> QED
        BY <3>2, <4>1
    <3>4. g[S \ {Max(S)}] \in A
      BY <1>4, <2>1, <3>3
    <3> QED
      BY <1>2, <2>1, <3>1, <3>2, <3>4 DEF ClosedUnder
  <2>2. g[{}] \in A
    BY <1>2
  <2>3. n + 1 <= Len(s) => \A S \in SUBSET (1 .. n + 1) : g[S] \in A
    BY <2>1, <2>2
  <2> QED
    BY <2>3
<1> HIDE DEF T
<1>5. \A n \in Nat : n \in T
  BY <1>3, <1>4, Induction
<1>6. Len(s) \in T /\ Len(s) \in Nat
  BY <1>5
<1>7. \A S \in SUBSET (1 .. Len(s)) : g[S] \in A
  BY <1>6 DEF T
<1> QED
  BY <1>1, <1>7

FoldsOn(h, A, G, base, s) ==
  /\ h[{}] = base
  /\ \A S \in SUBSET (1 .. Len(s)) :
       S # {} /\ h[S \ {Max(S)}] \in A => h[S] = G[<<h[S \ {Max(S)}], s[Max(S)]>>]

LEMMA IsRun ==
  ASSUME NEW A, NEW X, NEW G, ClosedUnder(G, A, X), NEW base \in A, NEW s \in Seq(X), NEW h,
         FoldsOn(h, A, G, base, s)
  PROVE  h[1 .. Len(s)] = Run(G, base, s)
<1> USE DEF FoldsOn
<1> DEFINE f == [i \in 0 .. Len(s) |-> h[1 .. i]]
<1>1. Len(s) \in Nat
  OBVIOUS
<1>2. f[0] = base
  <2>1. 1 .. 0 = {} /\ 0 \in 0 .. Len(s)
    BY <1>1
  <2> QED
    BY <2>1
<1>3. ASSUME NEW i \in 1 .. Len(s), f[i - 1] \in A PROVE f[i] = G[<<f[i - 1], s[i]>>]
  <2>1. i - 1 \in Nat /\ i = (i - 1) + 1 /\ i - 1 \in 0 .. Len(s) /\ i \in 0 .. Len(s)
    BY <1>1
  <2>2. Max(1 .. i) = i /\ (1 .. i) \ {i} = 1 .. i - 1
    BY <2>1, MaxOfPrefix
  <2>3. 1 .. i \in SUBSET (1 .. Len(s)) /\ i \in 1 .. i
    BY <1>1
  <2>4. f[i] = h[1 .. i] /\ f[i - 1] = h[1 .. i - 1]
    BY <2>1
  <2> QED
    BY <1>3, <2>2, <2>3, <2>4
<1>4. f[Len(s)] = h[1 .. Len(s)]
  BY <1>1
<1> HIDE DEF f
<1>5. f[Len(s)] = Run(G, base, s)
  BY <1>2, <1>3, RunUnique
<1> QED
  BY <1>4, <1>5

-----------------------------------------------------------------------------
(* Cut: what a receiver has while it scans.                                *)

Scanned(C) == [items : Seq(Seq(C)), item : Seq(C)]
Start == [items |-> <<>>, item |-> <<>>]

Scan(C, least) ==
  [p \in Scanned(C) \X C |->
     IF p[2] = Sep /\ Len(p[1].item) >= least
     THEN [items |-> Append(p[1].items, p[1].item), item |-> <<>>]
     ELSE [p[1] EXCEPT !.item = Append(@, p[2])]]

LEMMA ScanClosed ==
  ASSUME NEW C, NEW least \in Nat
  PROVE  ClosedUnder(Scan(C, least), Scanned(C), C) /\ Start \in Scanned(C)
<1>1. ASSUME NEW a \in Scanned(C), NEW x \in C PROVE Scan(C, least)[<<a, x>>] \in Scanned(C)
  <2>1. a.items \in Seq(Seq(C)) /\ a.item \in Seq(C)
    BY DEF Scanned
  <2>2. Append(a.items, a.item) \in Seq(Seq(C)) /\ Append(a.item, x) \in Seq(C) /\ <<>> \in Seq(C)
    BY <2>1
  <2> QED
    BY <2>1, <2>2 DEF Scan, Scanned
<1>2. Start \in Scanned(C)
  BY DEF Start, Scanned
<1> QED
  BY <1>1, <1>2 DEF ClosedUnder

LEMMA CutIsRun ==
  ASSUME NEW C, Sep \in C, NEW s \in Seq(C), NEW least \in Nat
  PROVE  Cut(s, least) = Run(Scan(C, least), Start, Append(s, Sep)).items
<1> DEFINE t == Append(s, Sep)
           G == Scan(C, least)
           A == Scanned(C)
           Op(a, ch) == IF ch = Sep /\ Len(a.item) >= least
                        THEN [items |-> Append(a.items, a.item), item |-> <<>>]
                        ELSE [a EXCEPT !.item = Append(@, ch)]
           Is(h) == h = [S \in SUBSET (1 .. Len(t)) |->
                           IF S = {} THEN Start ELSE Op(h[S \ {Max(S)}], t[Max(S)])]
           h == CHOOSE h : Is(h)
<1>1. t \in Seq(C) /\ DOMAIN t = 1 .. Len(t) /\ Len(t) \in Nat
  OBVIOUS
<1>2. ClosedUnder(G, A, C) /\ Start \in A
  BY ScanClosed
<1>3. \A a \in A, x \in C : G[<<a, x>>] = Op(a, x)
  BY DEF Scan
<1>4. Cut(s, least) = h[1 .. Len(t)].items
  BY <1>1 DEF Cut, FoldLeft, MapThenFoldSet, Start
<1> HIDE DEF t, G, A, Op
<1>5. Is(h)
  <2>1. PICK g : /\ Folds(g, Len(t), G, Start, t)
                 /\ \A S \in SUBSET (1 .. Len(t)) : g[S] \in A
    BY <1>1, <1>2, TypedFold
  <2>2. ASSUME NEW S \in SUBSET (1 .. Len(t)), S # {}
        PROVE  G[<<g[S \ {Max(S)}], t[Max(S)]>>] = Op(g[S \ {Max(S)}], t[Max(S)])
    <3>1. t[Max(S)] \in C /\ S \ {Max(S)} \in SUBSET (1 .. Len(t))
      BY <1>1, <2>2, LastOf
    <3> QED
      BY <1>3, <2>1, <3>1
  <2>3. Is(g)
    BY <2>1, <2>2 DEF Folds
  <2> QED
    BY <2>3
<1> HIDE DEF h
<1>6. h[{}] = Start
  BY <1>5
<1>7. \A S \in SUBSET (1 .. Len(t)) :
        S # {} /\ h[S \ {Max(S)}] \in A => h[S] = G[<<h[S \ {Max(S)}], t[Max(S)]>>]
  <2> SUFFICES ASSUME NEW S \in SUBSET (1 .. Len(t)), S # {}, h[S \ {Max(S)}] \in A
               PROVE  h[S] = G[<<h[S \ {Max(S)}], t[Max(S)]>>]
    OBVIOUS
  <2>1. t[Max(S)] \in C
    BY <1>1, LastOf
  <2> QED
    BY <1>3, <1>5, <2>1
<1>8. FoldsOn(h, A, G, Start, t)
  BY <1>6, <1>7 DEF FoldsOn
<1>9. h[1 .. Len(t)] = Run(G, Start, t)
  BY <1>1, <1>2, <1>8, IsRun
<1> QED
  BY <1>4, <1>9 DEF t, G
-----------------------------------------------------------------------------
(* Join.                                                                   *)

Glue(C) == [p \in Seq(C) \X Seq(C) |-> p[1] \o <<Sep>> \o p[2]]

LEMMA GlueClosed ==
  ASSUME NEW C, Sep \in C
  PROVE  ClosedUnder(Glue(C), Seq(C), Seq(C))
<1>1. ASSUME NEW a \in Seq(C), NEW x \in Seq(C) PROVE Glue(C)[<<a, x>>] \in Seq(C)
  <2>1. a \o <<Sep>> \o x \in Seq(C)
    OBVIOUS
  <2> QED
    BY <2>1 DEF Glue
<1> QED
  BY <1>1 DEF ClosedUnder

LEMMA JoinIsRun ==
  ASSUME NEW C, Sep \in C, NEW items \in Seq(Seq(C)), items # <<>>
  PROVE  Join(items) = Run(Glue(C), Head(items), Tail(items))
<1> DEFINE t == Tail(items)
           base == Head(items)
           G == Glue(C)
           A == Seq(C)
           Op(a, x) == a \o <<Sep>> \o x
           Is(h) == h = [S \in SUBSET (1 .. Len(t)) |->
                           IF S = {} THEN base ELSE Op(h[S \ {Max(S)}], t[Max(S)])]
           h == CHOOSE h : Is(h)
<1>1. t \in Seq(A) /\ DOMAIN t = 1 .. Len(t) /\ Len(t) \in Nat
  OBVIOUS
<1>2. ClosedUnder(G, A, A) /\ base \in A
  <2>1. base \in A
    OBVIOUS
  <2> QED
    BY <2>1, GlueClosed
<1>3. \A a \in A, x \in A : G[<<a, x>>] = Op(a, x)
  BY DEF Glue
<1>4. Join(items) = h[1 .. Len(t)]
  BY <1>1 DEF Join, FoldLeft, MapThenFoldSet
<1> HIDE DEF t, G, A, Op, base
<1>5. Is(h)
  <2>1. PICK g : /\ Folds(g, Len(t), G, base, t)
                 /\ \A S \in SUBSET (1 .. Len(t)) : g[S] \in A
    BY <1>1, <1>2, TypedFold
  <2>2. ASSUME NEW S \in SUBSET (1 .. Len(t)), S # {}
        PROVE  G[<<g[S \ {Max(S)}], t[Max(S)]>>] = Op(g[S \ {Max(S)}], t[Max(S)])
    <3>1. t[Max(S)] \in A /\ S \ {Max(S)} \in SUBSET (1 .. Len(t))
      BY <1>1, <2>2, LastOf
    <3> QED
      BY <1>3, <2>1, <3>1
  <2>3. Is(g)
    BY <2>1, <2>2 DEF Folds
  <2> QED
    BY <2>3
<1> HIDE DEF h
<1>6. h[{}] = base
  BY <1>5
<1>7. \A S \in SUBSET (1 .. Len(t)) :
        S # {} /\ h[S \ {Max(S)}] \in A => h[S] = G[<<h[S \ {Max(S)}], t[Max(S)]>>]
  <2> SUFFICES ASSUME NEW S \in SUBSET (1 .. Len(t)), S # {}, h[S \ {Max(S)}] \in A
               PROVE  h[S] = G[<<h[S \ {Max(S)}], t[Max(S)]>>]
    OBVIOUS
  <2>1. t[Max(S)] \in A
    BY <1>1, LastOf
  <2> QED
    BY <1>3, <1>5, <2>1
<1>8. FoldsOn(h, A, G, base, t)
  BY <1>6, <1>7 DEF FoldsOn
<1>9. h[1 .. Len(t)] = Run(G, base, t)
  BY <1>1, <1>2, <1>8, IsRun
<1> QED
  BY <1>4, <1>9 DEF t, G, base

LEMMA JoinOne ==
  ASSUME NEW C, Sep \in C, NEW x \in Seq(C)
  PROVE  Join(<<x>>) = x
<1>1. <<x>> \in Seq(Seq(C)) /\ <<x>> # <<>> /\ Head(<<x>>) = x /\ Tail(<<x>>) = <<>>
  OBVIOUS
<1>2. Join(<<x>>) = Run(Glue(C), Head(<<x>>), Tail(<<x>>))
  BY <1>1, JoinIsRun
<1> QED
  BY <1>1, <1>2, RunEmpty

LEMMA JoinAppend ==
  ASSUME NEW C, Sep \in C, NEW items \in Seq(Seq(C)), items # <<>>, NEW x \in Seq(C)
  PROVE  /\ Join(Append(items, x)) = Join(items) \o <<Sep>> \o x
         /\ Join(items) \in Seq(C)
<1> DEFINE more == Append(items, x)
<1>1. more \in Seq(Seq(C)) /\ more # <<>>
  BY AppendProperties
<1>2. Head(more) = Head(items) /\ Tail(more) = Append(Tail(items), x)
  BY HeadTailAppend
<1>3. Head(items) \in Seq(C) /\ Tail(items) \in Seq(Seq(C))
  OBVIOUS
<1> HIDE DEF more
<1>4. Join(more) = Run(Glue(C), Head(items), Append(Tail(items), x))
  BY <1>1, <1>2, JoinIsRun
<1>5. Join(items) = Run(Glue(C), Head(items), Tail(items))
  BY JoinIsRun
<1>6. /\ Run(Glue(C), Head(items), Append(Tail(items), x)) = Glue(C)[<<Join(items), x>>]
      /\ Join(items) \in Seq(C)
  <2>1. ClosedUnder(Glue(C), Seq(C), Seq(C))
    BY GlueClosed
  <2>2. PICK h \in Seq(C), t \in Seq(Seq(C)) : h = Head(items) /\ t = Tail(items)
    BY <1>3
  <2>3. /\ Run(Glue(C), h, Append(t, x)) = Glue(C)[<<Run(Glue(C), h, t), x>>]
        /\ Run(Glue(C), h, t) \in Seq(C)
    BY <2>1, RunAppend
  <2> QED
    BY <1>5, <2>2, <2>3
<1> QED
  BY <1>4, <1>6 DEF more, Glue

-----------------------------------------------------------------------------
(* What is joined and cut again.                                           *)

\* A string without separators is added to what is there.
Added(a, word) == [items |-> a.items, item |-> a.item \o word]

LEMMA ScanWord ==
  ASSUME NEW C, NEW least \in Nat, NEW a \in Scanned(C), NEW word \in Seq(C \ {Sep})
  PROVE  Run(Scan(C, least), a, word) = Added(a, word) /\ Added(a, word) \in Scanned(C)
<1> DEFINE G == Scan(C, least)
           T == {w \in Seq(C \ {Sep}) : Run(G, a, w) = Added(a, w)}
<1>0. a = [items |-> a.items, item |-> a.item] /\ a.item \in Seq(C) /\ a.items \in Seq(Seq(C))
  BY DEF Scanned
<1>1. <<>> \in T
  <2>1. a.item \o <<>> = a.item
    BY <1>0, ConcatEmptySeq
  <2>2. Added(a, <<>>) = a /\ <<>> \in Seq(C \ {Sep})
    BY <1>0, <2>1 DEF Added
  <2> QED
    BY <2>2, RunEmpty
<1>2. ASSUME NEW w \in Seq(C \ {Sep}), NEW ch \in C \ {Sep}, w \in T PROVE Append(w, ch) \in T
  <2>1. w \in Seq(C) /\ ch \in C /\ Append(w, ch) \in Seq(C \ {Sep})
    OBVIOUS
  <2>2. ClosedUnder(G, Scanned(C), C)
    BY ScanClosed
  <2> HIDE DEF G
  <2>3. /\ Run(G, a, Append(w, ch)) = G[<<Run(G, a, w), ch>>]
        /\ Run(G, a, w) \in Scanned(C)
    BY <2>1, <2>2, RunAppend
  <2>4. Run(G, a, w) = Added(a, w)
    BY <1>2
  <2>5. PICK b \in Scanned(C) : b = Added(a, w)
    BY <2>3, <2>4
  <2>6. G[<<b, ch>>] = [items |-> b.items, item |-> Append(b.item, ch)]
    BY <2>1 DEF Scan, Scanned, G
  <2>7. b.items = a.items /\ b.item = a.item \o w
    BY <2>5 DEF Added
  <2>8. PICK i \in Seq(C) : i = a.item
    BY <1>0
  <2>9. Append(i \o w, ch) = i \o Append(w, ch)
    BY <2>1
  <2> QED
    BY <2>1, <2>3, <2>4, <2>5, <2>6, <2>7, <2>8, <2>9 DEF Added
<1> HIDE DEF T
<1>3. word \in T
  BY <1>1, <1>2, SeqInduction
<1>4. word \in Seq(C) /\ a.item \o word \in Seq(C)
  BY <1>0, ConcatProperties
<1> QED
  BY <1>0, <1>3, <1>4 DEF T, Added, Scanned

\* The items are cut where they were joined, or some separator was no cut.
CutRight(r, items, least) ==
  IF \A i \in DOMAIN items : Len(items[i]) >= least
  THEN r = [items |-> items, item |-> <<>>]
  ELSE Len(r.items) < Len(items)

LEMMA ScanJoined ==
  ASSUME NEW C, Sep \in C, NEW least \in Nat, NEW items \in Seq(Seq(C \ {Sep})), items # <<>>
  PROVE  CutRight(Run(Scan(C, least), Start, Append(Join(items), Sep)), items, least)
<1> DEFINE G == Scan(C, least)
           Word == Seq(C \ {Sep})
           End(its) == Run(G, Start, Append(Join(its), Sep))
           T == {its \in Seq(Word) : its # <<>> => CutRight(End(its), its, least)}
<1>0. Start \in Scanned(C) /\ ClosedUnder(G, Scanned(C), C) /\ Word \subseteq Seq(C)
  BY ScanClosed
<1>1. <<>> \in T
  OBVIOUS
\* The separator after a word w.
<1>2. ASSUME NEW a \in Scanned(C), NEW w \in Word
      PROVE  /\ Run(G, a, Append(w, Sep)) = G[<<Added(a, w), Sep>>]
             /\ Added(a, w) \in Scanned(C)
  <2>1. w \in Seq(C)
    BY <1>0
  <2>2. /\ Run(G, a, Append(w, Sep)) = G[<<Run(G, a, w), Sep>>]
        /\ Run(G, a, w) \in Scanned(C)
    BY <1>0, <2>1, RunAppend
  <2>3. Run(G, a, w) = Added(a, w) /\ Added(a, w) \in Scanned(C)
    BY ScanWord
  <2> QED
    BY <2>2, <2>3
<1>3. ASSUME NEW its \in Seq(Word), NEW w \in Word, its \in T PROVE Append(its, w) \in T
  <2> DEFINE more == Append(its, w)
  <2>1. more \in Seq(Word) /\ Len(more) = Len(its) + 1
        /\ (\A i \in DOMAIN its : more[i] = its[i]) /\ more[Len(its) + 1] = w
        /\ DOMAIN more = 1 .. Len(its) + 1 /\ DOMAIN its = 1 .. Len(its) /\ Len(its) \in Nat
    OBVIOUS
  <2>2. (\A i \in DOMAIN more : Len(more[i]) >= least)
          <=> (\A i \in DOMAIN its : Len(its[i]) >= least) /\ Len(w) >= least
    <3>1. DOMAIN more = DOMAIN its \cup {Len(its) + 1} /\ Len(its) + 1 \in DOMAIN more
      BY <2>1
    <3> HIDE DEF more
    <3> QED
      BY <2>1, <3>1
  <2> HIDE DEF more
  <2>3. PICK a \in Scanned(C) :
          /\ End(more) = Run(G, a, Append(w, Sep))
          /\ its = <<>> => a = Start
          /\ its # <<>> => CutRight(a, its, least)
    <3>1. CASE its = <<>>
      <4>1. more = <<w>>
        BY <3>1 DEF more
      <4>2. Join(more) = w
        BY <1>0, <4>1, JoinOne
      <4> QED
        BY <1>0, <3>1, <4>2
    <3>2. CASE its # <<>>
      <4>1. its \in Seq(Seq(C)) /\ w \in Seq(C)
        BY <1>0
      <4>2. Join(more) = Join(its) \o <<Sep>> \o w /\ Join(its) \in Seq(C)
        BY <3>2, <4>1, JoinAppend DEF more
      <4>4. Append(Join(its), Sep) \in Seq(C) /\ Append(w, Sep) \in Seq(C)
        BY <4>1, <4>2, AppendProperties
      <4>3. Append(Join(more), Sep) = Append(Join(its), Sep) \o Append(w, Sep)
        <5>1. PICK j \in Seq(C) : j = Join(its)
          BY <4>2
        <5>2. j \o <<Sep>> \o w = Append(j, Sep) \o w /\ Append(j, Sep) \in Seq(C)
          BY <4>1, ConcatWith, AppendProperties
        <5>3. PICK k \in Seq(C) : k = Append(j, Sep)
          BY <5>2
        <5>4. Append(k \o w, Sep) = k \o Append(w, Sep)
          <6>1. w \o <<Sep>> = Append(w, Sep) /\ <<Sep>> \in Seq(C)
            BY <4>1, AppendIsConcat
          <6>2. PICK end \in Seq(C) : end = <<Sep>>
            BY <6>1
          <6>3. (k \o w) \o end = k \o (w \o end)
            BY <4>1, Regroup
          <6>4. k \o w \in Seq(C)
            BY <4>1, ConcatProperties
          <6>5. (k \o w) \o <<Sep>> = Append(k \o w, Sep)
            BY <6>4, AppendIsConcat
          <6> QED
            BY <6>1, <6>2, <6>3, <6>5
        <5> QED
          BY <4>1, <4>2, <5>1, <5>2, <5>3, <5>4
      <4>5. End(more) = Run(G, End(its), Append(w, Sep))
        <5>1. PICK u \in Seq(C), v \in Seq(C) : u = Append(Join(its), Sep) /\ v = Append(w, Sep)
          BY <4>4
        <5>2. Run(G, Start, u \o v) = Run(G, Run(G, Start, u), v)
          BY <1>0, RunConcat
        <5> QED
          BY <4>3, <5>1, <5>2
      <4>6. End(its) \in Scanned(C)
        BY <1>0, <4>4, RunType
      <4>7. CutRight(End(its), its, least)
        BY <1>3, <3>2
      <4> HIDE DEF End
      <4> QED
        BY <3>2, <4>5, <4>6, <4>7
    <3> QED
      BY <3>1, <3>2
  <2> HIDE DEF End
  <2> DEFINE b == Added(a, w)
  <2>4. End(more) = G[<<b, Sep>>] /\ b \in Scanned(C)
    BY <1>2, <2>3
  <2>5. b.items = a.items /\ b.item = a.item \o w
    BY DEF Added
  <2>6. End(more) = IF Len(b.item) >= least
                    THEN [items |-> Append(b.items, b.item), item |-> <<>>]
                    ELSE [b EXCEPT !.item = Append(@, Sep)]
    BY <2>4 DEF Scan
  <2>7. a.items \in Seq(Seq(C)) /\ a.item \in Seq(C) /\ w \in Seq(C)
    BY <1>0 DEF Scanned
  <2>8. CASE /\ \A i \in DOMAIN its : Len(its[i]) >= least
             /\ Len(w) >= least
    <3>1. a.items = its /\ a.item = <<>>
      <4>1. CASE its = <<>>
        BY <2>3, <4>1 DEF Start
      <4>2. CASE its # <<>>
        BY <2>3, <2>8, <4>2 DEF CutRight
      <4> QED
        BY <4>1, <4>2
    <3>2. b.item = w /\ Append(b.items, b.item) = more
      BY <2>5, <2>7, <3>1 DEF more
    <3>3. End(more) = [items |-> more, item |-> <<>>]
      BY <2>6, <2>8, <3>2
    <3> QED
      BY <2>1, <2>2, <2>8, <3>3 DEF CutRight, more
  <2>9. CASE ~ (/\ \A i \in DOMAIN its : Len(its[i]) >= least
                /\ Len(w) >= least)
    <3>1. Len(End(more).items) <= Len(a.items) + 1
          /\ (Len(b.item) < least => Len(End(more).items) = Len(a.items))
      BY <2>4, <2>5, <2>6, <2>7 DEF Scanned
    <3>2. Len(End(more).items) < Len(its) + 1
      <4>1. CASE \A i \in DOMAIN its : Len(its[i]) >= least
        <5>1. a.items = its /\ a.item = <<>>
          <6>1. CASE its = <<>>
            BY <2>3, <6>1 DEF Start
          <6>2. CASE its # <<>>
            BY <2>3, <4>1, <6>2 DEF CutRight
          <6> QED
            BY <6>1, <6>2
        <5>2. Len(b.item) = Len(w) /\ Len(w) < least
          BY <2>5, <2>7, <2>9, <4>1, <5>1
        <5> QED
          BY <2>1, <3>1, <5>1, <5>2
      <4>2. CASE ~ \A i \in DOMAIN its : Len(its[i]) >= least
        <5>1. its # <<>>
          BY <2>1, <4>2
        <5>2. Len(a.items) < Len(its) /\ Len(a.items) \in Nat
          BY <2>3, <2>7, <4>2, <5>1 DEF CutRight
        <5>3. Len(End(more).items) \in Nat
          BY <2>6, <2>5, <2>7, <2>4 DEF Scanned
        <5> QED
          BY <2>1, <3>1, <5>2, <5>3
      <4> QED
        BY <4>1, <4>2
    <3> QED
      BY <2>1, <2>2, <2>9, <3>2 DEF CutRight, more
  <2> QED
    BY <2>8, <2>9
<1> HIDE DEF T
<1>4. items \in T
  BY <1>1, <1>3, SeqInduction
<1> QED
  BY <1>4 DEF T


LEMMA JoinType ==
  ASSUME NEW C, Sep \in C, NEW items \in Seq(Seq(C))
  PROVE  Join(items) \in Seq(C)
<1>1. CASE items = <<>>
  BY <1>1 DEF Join, FoldLeft, MapThenFoldSet
<1>2. CASE items # <<>>
  BY <1>2, JoinAppend
<1> QED
  BY <1>1, <1>2

\* What both receivers make of an array that was joined.
LEMMA CutJoined ==
  ASSUME NEW C, NEW least \in Nat, NEW items \in Seq(Seq(C \ {Sep})), items # <<>>
  PROVE  IF \A i \in DOMAIN items : Len(items[i]) >= least
         THEN Cut(Join(items), least) = items
         ELSE Len(Cut(Join(items), least)) < Len(items)
<1> DEFINE D == C \cup {Sep}
           end == Run(Scan(D, least), Start, Append(Join(items), Sep))
<1>1. Sep \in D /\ D \ {Sep} = C \ {Sep}
  OBVIOUS
<1>2. items \in Seq(Seq(D \ {Sep})) /\ items \in Seq(Seq(D))
  BY <1>1
<1> HIDE DEF D
<1>3. Join(items) \in Seq(D)
  BY <1>1, <1>2, JoinType
<1>4. Cut(Join(items), least) = end.items
  BY <1>1, <1>3, CutIsRun
<1>5. CutRight(end, items, least)
  BY <1>1, <1>2, ScanJoined
<1> QED
  BY <1>4, <1>5 DEF CutRight

\* What they make of no array.
LEMMA CutNothing ==
  ASSUME NEW least \in Nat
  PROVE  Join(<<>>) = <<>> /\ Cut(<<>>, least) = IF least = 0 THEN <<<<>>>> ELSE <<>>
<1> DEFINE D == {Sep}
           G == Scan(D, least)
<1>1. Join(<<>>) = <<>>
  BY DEF Join, FoldLeft, MapThenFoldSet
<1>2. ClosedUnder(G, Scanned(D), D) /\ Start \in Scanned(D)
  BY ScanClosed
<1>3. G[<<Start, Sep>>].items = IF least = 0 THEN Append(Start.items, Start.item) ELSE Start.items
  <2>1. Len(Start.item) = 0
    BY DEF Start
  <2>2. CASE least = 0
    <3>1. Len(Start.item) >= least /\ Sep \in D
      BY <2>1, <2>2
    <3>2. G[<<Start, Sep>>] = [items |-> Append(Start.items, Start.item), item |-> <<>>]
      BY <1>2, <3>1 DEF Scan
    <3> HIDE DEF G
    <3> QED
      BY <2>2, <3>2
  <2>3. CASE least # 0
    BY <1>2, <2>1, <2>3 DEF Scan, Scanned
  <2> QED
    BY <2>2, <2>3
<1>4. PICK none \in Seq(D) : none = <<>>
  <2>1. <<>> \in Seq(D)
    OBVIOUS
  <2> QED
    BY <2>1
<1>5. Cut(none, least) = Run(G, Start, Append(none, Sep)).items
  BY CutIsRun
<1> HIDE DEF G
<1>6. \A x \in D : Run(G, Start, Append(none, x)) = G[<<Run(G, Start, none), x>>]
  BY <1>2, RunAppend
<1>7. Run(G, Start, none) = Start
  BY <1>4, RunEmpty
<1>8. Append(Start.items, Start.item) = <<<<>>>> /\ Start.items = <<>>
  BY DEF Start
<1> QED
  BY <1>1, <1>3, <1>4, <1>5, <1>6, <1>7, <1>8

\* An array of strings without separators, arr_send_response to build_result:
\* the client has the items as the server had them, empty ones too, however many
\* and however long.  Only of no items it makes one, the empty string.
THEOREM ResultRoundTrip ==
  ASSUME NEW C, NEW items \in Seq(Seq(C \ {Sep}))
  PROVE  build_result(Join(items)) = IF items = <<>> THEN <<<<>>>> ELSE items
<1>1. CASE items = <<>>
  BY <1>1, CutNothing DEF build_result
<1>2. CASE items # <<>>
  <2>1. \A i \in DOMAIN items : Len(items[i]) >= 0
    OBVIOUS
  <2>2. Cut(Join(items), 0) = items
    BY <1>2, <2>1, CutJoined
  <2> QED
    BY <1>2, <2>2 DEF build_result
<1> QED
  BY <1>1, <1>2

\* An update of strings without separators, nast_upd to build_array: the server
\* has the items the client gave if none of them is empty; otherwise it has
\* fewer, and the count that memdb_upd makes of them tells.
THEOREM ArrayRoundTrip ==
  ASSUME NEW C, NEW items \in Seq(Seq(C \ {Sep}))
  PROVE  IF \A i \in DOMAIN items : items[i] # <<>>
         THEN build_array(Join(items)) = items
         ELSE Len(build_array(Join(items))) < Len(items)
<1>1. (\A i \in DOMAIN items : items[i] # <<>>) <=> \A i \in DOMAIN items : Len(items[i]) >= 1
  OBVIOUS
<1>2. CASE items = <<>>
  BY <1>2, CutNothing DEF build_array
<1>3. CASE items # <<>>
  BY <1>1, <1>3, CutJoined DEF build_array
<1> QED
  BY <1>2, <1>3

-----------------------------------------------------------------------------
(* FlattenSeq.                                                             *)

Cat(C) == [p \in Seq(C) \X Seq(C) |-> p[1] \o p[2]]

LEMMA CatClosed ==
  ASSUME NEW C
  PROVE  ClosedUnder(Cat(C), Seq(C), Seq(C)) /\ <<>> \in Seq(C)
<1>1. ASSUME NEW a \in Seq(C), NEW x \in Seq(C) PROVE Cat(C)[<<a, x>>] \in Seq(C)
  <2>1. a \o x \in Seq(C)
    OBVIOUS
  <2> QED
    BY <2>1 DEF Cat
<1> QED
  BY <1>1 DEF ClosedUnder

LEMMA FlattenIsRun ==
  ASSUME NEW C, NEW s \in Seq(Seq(C))
  PROVE  FlattenSeq(s) = Run(Cat(C), <<>>, s)
<1>1. CASE s = <<>>
  <2>1. FlattenSeq(s) = <<>>
    BY <1>1 DEF FlattenSeq
  <2> QED
    BY <1>1, <2>1, RunEmpty
<1>2. CASE s # <<>>
  <2> DEFINE n == Len(s)
             Is(h) == h = [i \in 1 .. n |-> IF i = 1 THEN s[i] ELSE h[i - 1] \o s[i]]
             flatten == CHOOSE h : Is(h)
             h == [i \in 0 .. n |-> IF i = 0 THEN <<>> ELSE flatten[i]]
  <2>1. n \in Nat /\ n # 0 /\ \A i \in 1 .. n : s[i] \in Seq(C)
    BY <1>2
  <2>2. FlattenSeq(s) = flatten[n]
    BY <2>1 DEF FlattenSeq
  <2>3. PICK f : Partial(f, Cat(C), <<>>, s)
    BY RunSteps
  <2>4. ClosedUnder(Cat(C), Seq(C), Seq(C)) /\ <<>> \in Seq(C)
    BY CatClosed
  <2>5. f[0] = <<>> /\ \A i \in 1 .. n : f[i] = Cat(C)[<<f[i - 1], s[i]>>]
    BY <2>3 DEF Partial
  <2>6. \A i \in 1 .. n : f[i] \in Seq(C)
    <3> DEFINE T == {i \in Nat : i <= n => f[i] \in Seq(C)}
    <3>1. 0 \in T
      BY <2>4, <2>5
    <3>2. ASSUME NEW i \in Nat, i \in T PROVE i + 1 \in T
      <4>1. ASSUME i + 1 <= n PROVE f[i + 1] \in Seq(C)
        <5>1. i + 1 \in 1 .. n /\ (i + 1) - 1 = i /\ f[i] \in Seq(C)
          BY <2>1, <3>2, <4>1
        <5>2. f[i + 1] = Cat(C)[<<f[i], s[i + 1]>>]
          BY <2>5, <5>1
        <5> QED
          BY <2>1, <2>4, <5>1, <5>2 DEF ClosedUnder
      <4> QED
        BY <4>1
    <3> HIDE DEF T
    <3>3. \A i \in Nat : i \in T
      BY <3>1, <3>2, Induction
    <3> QED
      BY <2>1, <3>3 DEF T
  <2>7. Is([i \in 1 .. n |-> f[i]])
    <3>1. ASSUME NEW i \in 1 .. n PROVE f[i] = IF i = 1 THEN s[i] ELSE f[i - 1] \o s[i]
      <4>1. s[i] \in Seq(C)
        BY <2>1
      <4>2. CASE i = 1
        <5>1. f[1] = Cat(C)[<<<<>>, s[1]>>] /\ <<>> \o s[1] = s[1]
          BY <2>1, <2>5, <4>1, <4>2, ConcatEmptySeq
        <5> QED
          BY <2>4, <4>1, <4>2, <5>1 DEF Cat
      <4>3. CASE i # 1
        <5>1. i - 1 \in 1 .. n
          BY <2>1, <4>3
        <5> QED
          BY <2>5, <2>6, <4>1, <4>3, <5>1 DEF Cat
      <4> QED
        BY <4>2, <4>3
    <3> QED
      BY <2>1, <3>1
  <2>8. Is(flatten)
    BY <2>7
  <2> HIDE DEF flatten
  <2>9. \A i \in 1 .. n : flatten[i] = IF i = 1 THEN s[i] ELSE flatten[i - 1] \o s[i]
    BY <2>8
  <2>10. h[0] = <<>> /\ \A i \in 1 .. n : h[i] = flatten[i]
    BY <2>1
  <2> HIDE DEF h
  <2>11. ASSUME NEW i \in 1 .. n, h[i - 1] \in Seq(C) PROVE h[i] = Cat(C)[<<h[i - 1], s[i]>>]
    <3>1. s[i] \in Seq(C)
      BY <2>1
    <3>2. Cat(C)[<<h[i - 1], s[i]>>] = h[i - 1] \o s[i]
      BY <2>11, <3>1 DEF Cat
    <3>3. CASE i = 1
      <4>1. i - 1 = 0 /\ h[i] = s[i] /\ h[i - 1] = <<>>
        BY <2>9, <2>10, <3>3
      <4>2. <<>> \o s[i] = s[i]
        BY <3>1, ConcatEmptySeq
      <4> QED
        BY <3>2, <4>1, <4>2
    <3>4. CASE i # 1
      <4>1. i - 1 \in 1 .. n
        BY <2>1, <3>4
      <4> QED
        BY <2>9, <2>10, <3>2, <3>4, <4>1
    <3> QED
      BY <3>3, <3>4
  <2>12. PICK none \in Seq(C) : none = <<>>
    BY <2>4
  <2>13. h[0] = none
    BY <2>10, <2>12
  <2>14. h[Len(s)] = Run(Cat(C), none, s)
    BY <2>4, <2>11, <2>13, RunUnique
  <2> QED
    BY <2>1, <2>2, <2>10, <2>12, <2>14
<1> QED
  BY <1>1, <1>2

LEMMA FlattenAppend ==
  ASSUME NEW C, NEW s \in Seq(Seq(C)), NEW x \in Seq(C)
  PROVE  /\ FlattenSeq(Append(s, x)) = FlattenSeq(s) \o x
         /\ FlattenSeq(s) \in Seq(C)
<1>1. ClosedUnder(Cat(C), Seq(C), Seq(C)) /\ <<>> \in Seq(C)
  BY CatClosed
<1>2. /\ Run(Cat(C), <<>>, Append(s, x)) = Cat(C)[<<Run(Cat(C), <<>>, s), x>>]
      /\ Run(Cat(C), <<>>, s) \in Seq(C)
  BY <1>1, RunAppend
<1>3. Append(s, x) \in Seq(Seq(C))
  BY AppendProperties
<1> QED
  BY <1>2, <1>3, FlattenIsRun DEF Cat

LEMMA SameSequence ==
  ASSUME NEW X, NEW s \in Seq(X), NEW t \in Seq(X), Len(s) = Len(t),
         \A j \in 1 .. Len(s) : s[j] = t[j]
  PROVE  s = t
OBVIOUS

LEMMA OneMore ==
  ASSUME NEW X, NEW u \in Seq(X), NEW v \in Seq(X), NEW x \in X,
         Len(v) = Len(u) + 1, \A j \in 1 .. Len(u) : v[j] = u[j], v[Len(u) + 1] = x
  PROVE  v = Append(u, x)
OBVIOUS

\* Empty sequences at the end add nothing.
LEMMA EmptyTail ==
  ASSUME NEW C, NEW s \in Seq(Seq(C)), NEW t \in Seq(Seq(C)), Len(s) <= Len(t),
         \A j \in 1 .. Len(s) : t[j] = s[j],
         NEW e, e = <<>>, \A j \in Len(s) + 1 .. Len(t) : t[j] = e
  PROVE  FlattenSeq(t) = FlattenSeq(s)
<1>0. Len(s) \in Nat /\ Len(t) \in Nat
  OBVIOUS
<1>a. PICK X : X = Seq(C)
  OBVIOUS
<1>b. s \in Seq(X) /\ t \in Seq(X) /\ e \in X /\ e \in Seq(C)
  BY <1>a
<1> DEFINE T == {m \in Nat : Len(s) + m <= Len(t) =>
                    FlattenSeq(SubSeq(t, 1, Len(s) + m)) = FlattenSeq(s)}
<1>1. 0 \in T
  <2>1. PICK u : u = SubSeq(t, 1, Len(s))
    OBVIOUS
  <2>2. u \in Seq(X) /\ Len(u) = Len(s) /\ \A j \in 1 .. Len(s) : u[j] = t[j]
    BY <1>0, <1>b, <2>1
  <2>3. u = s
    BY <1>b, <2>2, SameSequence
  <2>4. Len(s) + 0 = Len(s)
    BY <1>0
  <2>5. FlattenSeq(SubSeq(t, 1, Len(s) + 0)) = FlattenSeq(s)
    BY <2>1, <2>3, <2>4
  <2> QED
    BY <2>5
<1>2. ASSUME NEW m \in Nat, m \in T
      PROVE  m + 1 \in T
  <2> SUFFICES ASSUME Len(s) + (m + 1) <= Len(t)
               PROVE  FlattenSeq(SubSeq(t, 1, Len(s) + (m + 1))) = FlattenSeq(s)
    OBVIOUS
  <2>1. PICK n \in Nat : n = Len(s) + m /\ n + 1 = Len(s) + (m + 1) /\ n + 1 <= Len(t)
    BY <1>0
  <2>2. PICK u : u = SubSeq(t, 1, n)
    OBVIOUS
  <2>3. u \in Seq(X) /\ Len(u) = n /\ \A j \in 1 .. n : u[j] = t[j]
    BY <1>0, <1>b, <2>1, <2>2
  <2>4. PICK v : v = SubSeq(t, 1, n + 1)
    OBVIOUS
  <2>5. v \in Seq(X) /\ Len(v) = n + 1 /\ \A j \in 1 .. n + 1 : v[j] = t[j]
    <3>1. PICK p \in Nat : p = n + 1 /\ p <= Len(t)
      BY <2>1
    <3>2. v = SubSeq(t, 1, p)
      BY <2>4, <3>1
    <3> QED
      BY <1>b, <3>1, <3>2
  <2>6. v[n + 1] = e
    <3>1. n + 1 \in Len(s) + 1 .. Len(t) /\ n + 1 \in 1 .. n + 1
      BY <1>0, <2>1
    <3> QED
      BY <2>5, <3>1
  <2>7. Len(u) + 1 = n + 1 /\ Len(u) \in Nat /\ 1 .. Len(u) = 1 .. n
    BY <2>1, <2>3
  <2>8. v = Append(u, e)
    <3>1. \A j \in 1 .. Len(u) : v[j] = u[j]
      <4>1. \A j \in 1 .. n : j \in 1 .. n + 1
        BY <2>1
      <4> QED
        BY <2>3, <2>5, <2>7, <4>1
    <3>2. Len(v) = Len(u) + 1 /\ v[Len(u) + 1] = e
      BY <2>5, <2>6, <2>7
    <3> QED
      BY <1>b, <2>3, <2>5, <3>1, <3>2, OneMore
  <2>9. u \in Seq(Seq(C))
    BY <1>a, <2>3
  <2>10. FlattenSeq(Append(u, e)) = FlattenSeq(u) \o e /\ FlattenSeq(u) \in Seq(C)
    BY <1>b, <2>9, FlattenAppend
  <2>11. PICK f : f = FlattenSeq(u)
    OBVIOUS
  <2>12. f \in Seq(C) /\ f \o e = f
    BY <1>b, <2>10, <2>11
  <2>13. f = FlattenSeq(s)
    BY <1>0, <1>2, <2>1, <2>2, <2>11
  <2> QED
    BY <2>1, <2>4, <2>8, <2>10, <2>11, <2>12, <2>13
<1> HIDE DEF T
<1>3. \A m \in Nat : m \in T
  BY <1>1, <1>2, Induction
<1>4. SubSeq(t, 1, Len(t)) = t
  BY <1>0, <1>b
<1>5. Len(t) - Len(s) \in Nat /\ Len(s) + (Len(t) - Len(s)) = Len(t)
  BY <1>0
<1>6. PICK m \in Nat : m = Len(t) - Len(s) /\ Len(s) + m = Len(t)
  BY <1>5
<1>7. Len(s) + m <= Len(t) => FlattenSeq(SubSeq(t, 1, Len(s) + m)) = FlattenSeq(s)
  BY <1>3 DEF T
<1>8. FlattenSeq(SubSeq(t, 1, Len(t))) = FlattenSeq(s)
  BY <1>0, <1>6, <1>7
<1> QED
  BY <1>4, <1>8

-----------------------------------------------------------------------------
(* Options.                                                                *)

Pairs(names) == [name : names, on : BOOLEAN]
KnownPairs == Pairs(OptNames)

\* What the last pair for each option says, and opts where there is none.
LastSays(opts, pairs) ==
  LET about(name) == {p \in DOMAIN pairs : pairs[p].name = name}
  IN  {name \in OptNames :
         IF about(name) = {} THEN name \in opts ELSE pairs[Max(about(name))].on}

LEMMA KnownType ==
  ASSUME NEW names, NEW pairs \in Seq(Pairs(names))
  PROVE  Known(pairs) \in Seq(KnownPairs)
<1> DEFINE bad == {i \in DOMAIN pairs : pairs[i].name \notin OptNames}
<1>1. Len(pairs) \in Nat /\ DOMAIN pairs = 1 .. Len(pairs) /\ \A i \in 1 .. Len(pairs) : pairs[i] \in Pairs(names)
  OBVIOUS
<1>2. \A i \in DOMAIN pairs : i \notin bad => pairs[i] \in KnownPairs
  BY <1>1 DEF KnownPairs, Pairs
<1>3. CASE bad = {}
  <2>1. Known(pairs) = pairs
    BY <1>3 DEF Known
  <2>2. \A i \in 1 .. Len(pairs) : pairs[i] \in KnownPairs
    BY <1>1, <1>2, <1>3
  <2> QED
    BY <1>1, <2>1, <2>2
<1>4. CASE bad # {}
  <2> DEFINE m == Min(bad)
             front == SubSeq(pairs, 1, m - 1)
  <2>1. bad \in SUBSET Nat /\ bad \subseteq 1 .. Len(pairs)
    BY <1>1
  <2> HIDE DEF bad
  <2>2. \E x \in bad : \A y \in bad : x <= y
    BY <1>4, <2>1, LeastNumber
  <2>3. m \in bad /\ \A y \in bad : m <= y
    BY <2>2 DEF Min
  <2>4. m \in 1 .. Len(pairs)
    BY <2>1, <2>3
  <2>5. Known(pairs) = front
    BY <1>4 DEF Known, bad
  <2> HIDE DEF m
  <2>6. front = [i \in 1 .. m - 1 |-> pairs[i]]
    BY <1>1, <2>4
  <2>7. \A i \in 1 .. m - 1 : pairs[i] \in KnownPairs
    BY <1>1, <1>2, <2>1, <2>3, <2>4
  <2>8. m - 1 \in Nat
    BY <2>4
  <2> QED
    BY <2>5, <2>6, <2>7, <2>8
<1> QED
  BY <1>3, <1>4

Setter == [p \in (SUBSET OptNames) \X KnownPairs |-> SetOption(p[1], p[2])]

LEMMA SetterClosed == ClosedUnder(Setter, SUBSET OptNames, KnownPairs)
<1>1. ASSUME NEW o \in SUBSET OptNames, NEW p \in KnownPairs PROVE Setter[<<o, p>>] \in SUBSET OptNames
  <2>1. p.name \in OptNames
    BY DEF KnownPairs, Pairs
  <2>2. SetOption(o, p) \in SUBSET OptNames
    BY <2>1 DEF SetOption
  <2> QED
    BY <2>2 DEF Setter
<1> QED
  BY <1>1 DEF ClosedUnder

LEMMA SettingIsRun ==
  ASSUME NEW opts \in SUBSET OptNames, NEW t \in Seq(KnownPairs)
  PROVE  FoldLeft(SetOption, opts, t) = Run(Setter, opts, t)
<1> DEFINE G == Setter
           A == SUBSET OptNames
           Is(h) == h = [S \in SUBSET (1 .. Len(t)) |->
                           IF S = {} THEN opts ELSE SetOption(h[S \ {Max(S)}], t[Max(S)])]
           h == CHOOSE h : Is(h)
<1>1. DOMAIN t = 1 .. Len(t) /\ Len(t) \in Nat
  OBVIOUS
<1>2. ClosedUnder(G, A, KnownPairs) /\ opts \in A
  BY SetterClosed
<1>3. \A a \in A, x \in KnownPairs : G[<<a, x>>] = SetOption(a, x)
  BY DEF Setter
<1>4. FoldLeft(SetOption, opts, t) = h[1 .. Len(t)]
  BY <1>1 DEF FoldLeft, MapThenFoldSet
<1> HIDE DEF G, A
<1>5. Is(h)
  <2>1. PICK g : /\ Folds(g, Len(t), G, opts, t)
                 /\ \A S \in SUBSET (1 .. Len(t)) : g[S] \in A
    BY <1>2, TypedFold
  <2>2. ASSUME NEW S \in SUBSET (1 .. Len(t)), S # {}
        PROVE  G[<<g[S \ {Max(S)}], t[Max(S)]>>] = SetOption(g[S \ {Max(S)}], t[Max(S)])
    <3>1. t[Max(S)] \in KnownPairs /\ S \ {Max(S)} \in SUBSET (1 .. Len(t))
      BY <2>2, LastOf
    <3> QED
      BY <1>3, <2>1, <3>1
  <2>3. Is(g)
    BY <2>1, <2>2 DEF Folds
  <2> QED
    BY <2>3
<1> HIDE DEF h
<1>6. h[{}] = opts
  BY <1>5
<1>7. \A S \in SUBSET (1 .. Len(t)) :
        S # {} /\ h[S \ {Max(S)}] \in A => h[S] = G[<<h[S \ {Max(S)}], t[Max(S)]>>]
  <2> SUFFICES ASSUME NEW S \in SUBSET (1 .. Len(t)), S # {}, h[S \ {Max(S)}] \in A
               PROVE  h[S] = G[<<h[S \ {Max(S)}], t[Max(S)]>>]
    OBVIOUS
  <2>1. t[Max(S)] \in KnownPairs
    BY LastOf
  <2> QED
    BY <1>3, <1>5, <2>1
<1>8. FoldsOn(h, A, G, opts, t)
  BY <1>6, <1>7 DEF FoldsOn
<1>9. h[1 .. Len(t)] = Run(G, opts, t)
  BY <1>2, <1>8, IsRun
<1> QED
  BY <1>4, <1>9 DEF G

LEMMA LastSaysAppend ==
  ASSUME NEW opts \in SUBSET OptNames, NEW s \in Seq(KnownPairs), NEW p \in KnownPairs
  PROVE  LastSays(opts, Append(s, p)) = SetOption(LastSays(opts, s), p)
<1> DEFINE t == Append(s, p)
           n == Len(s)
           about(name) == {i \in DOMAIN s : s[i].name = name}
           aboutT(name) == {i \in DOMAIN t : t[i].name = name}
           Says(name) == IF about(name) = {} THEN name \in opts ELSE s[Max(about(name))].on
           SaysT(name) == IF aboutT(name) = {} THEN name \in opts ELSE t[Max(aboutT(name))].on
<1>1. /\ n \in Nat /\ DOMAIN s = 1 .. n /\ DOMAIN t = 1 .. n + 1
      /\ t[n + 1] = p /\ \A i \in 1 .. n : t[i] = s[i]
  OBVIOUS
<1>2. p.name \in OptNames
  BY DEF KnownPairs, Pairs
<1> HIDE DEF t, n
<1>3. SaysT(p.name) = p.on
  <2>1. n + 1 \in aboutT(p.name) /\ aboutT(p.name) \in SUBSET (1 .. n + 1)
    BY <1>1
  <2>2. Max(aboutT(p.name)) = n + 1
    BY <1>1, <2>1, MaxOfPrefix
  <2> QED
    BY <1>1, <2>1, <2>2
<1>4. ASSUME NEW name, name # p.name PROVE SaysT(name) = Says(name)
  <2>1. aboutT(name) = about(name)
    BY <1>1, <1>4
  <2>2. CASE about(name) # {}
    <3>1. about(name) \in SUBSET (1 .. n)
      BY <1>1
    <3>2. Max(about(name)) \in 1 .. n
      BY <1>1, <2>2, <3>1, MaxIs
    <3>3. t[Max(about(name))] = s[Max(about(name))]
      BY <1>1, <3>2
    <3> HIDE DEF about, aboutT
    <3> QED
      BY <2>1, <3>3
  <2>3. CASE about(name) = {}
    BY <2>1, <2>3
  <2> QED
    BY <2>2, <2>3
<1>5. LastSays(opts, t) = {name \in OptNames : SaysT(name)}
  BY DEF LastSays
<1>6. LastSays(opts, s) = {name \in OptNames : Says(name)}
  BY DEF LastSays
<1> HIDE DEF Says, SaysT
<1>7. LastSays(opts, t) = SetOption(LastSays(opts, s), p)
  BY <1>2, <1>3, <1>4, <1>5, <1>6 DEF SetOption
<1> QED
  BY <1>7 DEF t

LEMMA SetterRun ==
  ASSUME NEW opts \in SUBSET OptNames, NEW s \in Seq(KnownPairs)
  PROVE  Run(Setter, opts, s) = LastSays(opts, s) /\ LastSays(opts, s) \in SUBSET OptNames
<1> DEFINE T == {t \in Seq(KnownPairs) : Run(Setter, opts, t) = LastSays(opts, t)}
<1>1. <<>> \in T
  <2>1. LastSays(opts, <<>>) = opts
    BY DEF LastSays
  <2> QED
    BY <2>1, RunEmpty
<1>2. ASSUME NEW t \in Seq(KnownPairs), NEW p \in KnownPairs, t \in T PROVE Append(t, p) \in T
  <2>1. Run(Setter, opts, Append(t, p)) = Setter[<<Run(Setter, opts, t), p>>]
    BY SetterClosed, RunAppend
  <2>2. LastSays(opts, t) \in SUBSET OptNames
    BY DEF LastSays
  <2>3. Setter[<<LastSays(opts, t), p>>] = SetOption(LastSays(opts, t), p)
    BY <2>2 DEF Setter
  <2>4. LastSays(opts, Append(t, p)) = SetOption(LastSays(opts, t), p)
    BY LastSaysAppend
  <2>5. Append(t, p) \in Seq(KnownPairs)
    OBVIOUS
  <2> QED
    BY <1>2, <2>1, <2>3, <2>4, <2>5
<1> HIDE DEF T
<1>3. s \in T
  BY <1>1, <1>2, SeqInduction
<1>4. LastSays(opts, s) \in SUBSET OptNames
  BY DEF LastSays
<1> QED
  BY <1>3, <1>4 DEF T

\* Options set in one lot after another are those set in one lot.
LEMMA LastSaysConcat ==
  ASSUME NEW opts \in SUBSET OptNames, NEW s \in Seq(KnownPairs), NEW t \in Seq(KnownPairs)
  PROVE  LastSays(LastSays(opts, s), t) = LastSays(opts, s \o t)
<1>1. Run(Setter, opts, s \o t) = Run(Setter, Run(Setter, opts, s), t)
  BY SetterClosed, RunConcat
<1>2. PICK now \in SUBSET OptNames : now = LastSays(opts, s)
  BY SetterRun
<1>3. PICK both \in Seq(KnownPairs) : both = s \o t
  BY ConcatProperties
<1>4. Run(Setter, opts, both) = LastSays(opts, both) /\ Run(Setter, opts, s) = LastSays(opts, s)
      /\ Run(Setter, now, t) = LastSays(now, t)
  BY SetterRun
<1> QED
  BY <1>1, <1>2, <1>3, <1>4

\* The pairs a client sends, one after another up to the first that nobody knows
\* (do_opt_set, nast_options_get): each option is in the end what the last pair
\* for it says, and as it was if there is none.
THEOREM LastPairWins ==
  ASSUME NEW opts \in SUBSET OptNames, NEW names, NEW pairs \in Seq(Pairs(names))
  PROVE  ApplyOptions(opts, pairs) = LastSays(opts, Known(pairs))
<1>1. PICK t \in Seq(KnownPairs) : t = Known(pairs)
  BY KnownType
<1>2. ApplyOptions(opts, pairs) = FoldLeft(SetOption, opts, t)
  BY <1>1 DEF ApplyOptions, FoldLeft, MapThenFoldSet
<1> QED
  BY <1>1, <1>2, SettingIsRun, SetterRun

LEMMA Encoded ==
  ASSUME NEW opts
  PROVE  /\ EncodeOptions(opts) \in Seq(KnownPairs)
         /\ Known(EncodeOptions(opts)) = EncodeOptions(opts)
<1> DEFINE e == EncodeOptions(opts)
<1>1. DOMAIN OptOrder = 1 .. 6 /\ \A i \in 1 .. 6 : OptOrder[i] \in OptNames
  BY DEF OptOrder, OptNames
<1>2. e = [i \in 1 .. 6 |-> [name |-> OptOrder[i], on |-> OptOrder[i] \in opts]]
  BY <1>1 DEF EncodeOptions
<1> HIDE DEF e
<1>3. \A i \in 1 .. 6 : e[i] \in KnownPairs
  <2> SUFFICES ASSUME NEW i \in 1 .. 6 PROVE e[i] \in KnownPairs
    OBVIOUS
  <2>1. (OptOrder[i] \in opts) \in BOOLEAN
    OBVIOUS
  <2> QED
    BY <1>1, <1>2, <2>1 DEF KnownPairs, Pairs
<1>4. e \in Seq(KnownPairs) /\ DOMAIN e = 1 .. 6
  BY <1>2, <1>3
<1>5. \A i \in 1 .. 6 : e[i].name \in OptNames
  BY <1>3 DEF KnownPairs, Pairs
<1>6. Known(e) = e
  BY <1>4, <1>5 DEF Known
<1> QED
  BY <1>4, <1>6 DEF e

\* NASTOPTGET tells every option as it is, whatever the caller had before: the
\* pairs survive the way from do_opt_get to nast_options_get.
THEOREM OptionsRoundTrip ==
  ASSUME NEW opts \in SUBSET OptNames, NEW had \in SUBSET OptNames, Sep \notin KnownPairs
  PROVE  OptionsRead(had, build_result(Join(<<EncodeOptions(opts)>>))) = opts
<1> DEFINE e == EncodeOptions(opts)
<1>1. e \in Seq(KnownPairs) /\ Known(e) = e
  BY Encoded
<1>2. build_result(Join(<<e>>)) = <<e>>
  <2>1. KnownPairs \ {Sep} = KnownPairs
    OBVIOUS
  <2> HIDE DEF e
  <2>2. PICK items \in Seq(Seq(KnownPairs \ {Sep})) : items = <<e>>
    <3>1. <<e>> \in Seq(Seq(KnownPairs))
      BY <1>1
    <3> QED
      BY <2>1, <3>1, Zenon
  <2>3. build_result(Join(items)) = items
    BY <2>2, ResultRoundTrip
  <2> QED
    BY <2>2, <2>3
<1>3. OptionsRead(had, <<e>>) = ApplyOptions(had, e)
  BY DEF OptionsRead
<1>4. ApplyOptions(had, e) = LastSays(had, e)
  <2> HIDE DEF e
  <2> QED
    BY <1>1, LastPairWins DEF KnownPairs, Pairs
<1>5. LastSays(had, e) = opts
  <2>1. DOMAIN e = 1 .. 6
        /\ \A i \in 1 .. 6 : e[i].name = OptOrder[i] /\ e[i].on = (OptOrder[i] \in opts)
    BY DEF EncodeOptions, OptOrder
  <2> DEFINE about(name) == {i \in DOMAIN e : e[i].name = name}
             Says(name) == IF about(name) = {} THEN name \in had ELSE e[Max(about(name))].on
  <2> HIDE DEF e
  <2>2. ASSUME NEW name \in OptNames PROVE Says(name) <=> name \in opts
    <3>1. about(name) # {} /\ about(name) \in SUBSET (1 .. 6)
      <4>1. \E i \in 1 .. 6 : OptOrder[i] = name
        BY DEF OptNames, OptOrder
      <4> QED
        BY <2>1, <4>1
    <3>2. Max(about(name)) \in about(name)
      <4>1. 6 \in Nat
        OBVIOUS
      <4> HIDE DEF about
      <4> QED
        BY <3>1, <4>1, MaxIs
    <3>3. PICK i \in 1 .. 6 : i = Max(about(name)) /\ OptOrder[i] = name
      BY <2>1, <3>2
    <3> QED
      BY <2>1, <3>1, <3>3
  <2>3. LastSays(had, e) = {name \in OptNames : Says(name)}
    BY DEF LastSays
  <2> HIDE DEF Says
  <2> QED
    BY <2>2, <2>3
<1> QED
  BY <1>2, <1>3, <1>4, <1>5
=============================================================================
