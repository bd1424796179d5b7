------------------------------ MODULE OpalFolds ------------------------------
(***************************************************************************)
(* What SequencesExt's FoldLeft computes: the operator applied to the       *)
(* elements from left to right.  FoldLeft picks a function on the sets of   *)
(* positions by CHOOSE; that there is exactly one is proved here, by        *)
(* induction on the length, for any operator.  The packet builder is the    *)
(* fold of append over the tokens of a command.                             *)
(***************************************************************************)
EXTENDS SequencesExt, WellFoundedInduction, TLAPS

CONSTANTS
  Op(_, _),    \* what is folded
  Base         \* and what it starts from

Result(seq) == FoldLeft(Op, Base, seq)

-----------------------------------------------------------------------------
(* Induction over the natural numbers, for a set. *)
LEMMA SetInduction ==
  ASSUME NEW S, 0 \in S, \A n \in Nat : n \in S => n + 1 \in S
  PROVE  Nat \subseteq S
<1> DEFINE T == Nat \ S
<1> SUFFICES ASSUME T # {} PROVE FALSE
  OBVIOUS
<1>1. PICK x \in T : \A y \in T : <<y, x>> \notin OpToRel(<, Nat)
  <2>1. T \subseteq Nat
    OBVIOUS
  <2> HIDE DEF T
  <2> QED
    BY <2>1, WFMin, NatLessThanWellFounded, Zenon
<1>2. x \in Nat /\ x # 0 /\ x - 1 \in T /\ x - 1 < x
  OBVIOUS
<1>3. <<x - 1, x>> \in OpToRel(<, Nat)
  BY <1>2 DEF OpToRel
<1> QED
  BY <1>1, <1>2, <1>3

(* A set of positions has a last one. *)
LEMMA LastPosition ==
  ASSUME NEW n \in Nat, NEW s \in SUBSET (1 .. n), s # {}
  PROVE  Max(s) \in s /\ \A i \in s : i <= Max(s)
<1> DEFINE Good == {m \in Nat : \A r : r \subseteq 1 .. m /\ r # {} =>
                      \E x \in r : \A y \in r : x >= y}
<1>1. 0 \in Good
  OBVIOUS
<1>2. ASSUME NEW m \in Nat, m \in Good PROVE m + 1 \in Good
  <2> SUFFICES ASSUME NEW r, r \subseteq 1 .. m + 1, r # {}
               PROVE  \E x \in r : \A y \in r : x >= y
    OBVIOUS
  <2>1. CASE m + 1 \in r
    BY <2>1
  <2>2. CASE m + 1 \notin r
    <3>1. r \subseteq 1 .. m
      BY <2>2
    <3> QED
      BY <1>2, <3>1
  <2> QED
    BY <2>1, <2>2
<1>3. n \in Good
  <2> HIDE DEF Good
  <2> QED
    BY <1>1, <1>2, SetInduction
<1>4. PICK x \in s : \A y \in s : x >= y
  BY <1>3
<1> QED
  BY <1>4 DEF Max

(* The functions FoldLeft chooses from. *)
Folds(it, n, seq) ==
  it = [s \in SUBSET (1 .. n) |->
          IF s = {} THEN Base ELSE Op(it[s \ {Max(s)}], seq[Max(s)])]

LEMMA ResultIs ==
  ASSUME NEW seq
  PROVE  Result(seq) =
           (CHOOSE it : it = [s \in SUBSET DOMAIN seq |->
              IF s = {} THEN Base ELSE Op(it[s \ {Max(s)}], seq[Max(s)])])[DOMAIN seq]
BY Zenon DEF Result, FoldLeft, MapThenFoldSet

(* There is one for every length. *)
LEMMA FoldExists == ASSUME NEW seq, NEW n \in Nat PROVE \E it : Folds(it, n, seq)
<1> DEFINE Good == {m \in Nat : \E it : Folds(it, m, seq)}
<1>1. 0 \in Good
  <2>1. Folds([s \in SUBSET (1 .. 0) |-> Base], 0, seq)
    BY DEF Folds
  <2> QED
    BY <2>1
<1>2. ASSUME NEW m \in Nat, m \in Good PROVE m + 1 \in Good
  <2>1. PICK it : Folds(it, m, seq)
    BY <1>2
  <2> DEFINE up == [s \in SUBSET (1 .. m + 1) |->
                      IF m + 1 \in s THEN Op(it[s \ {m + 1}], seq[m + 1]) ELSE it[s]]
  <2>2. ASSUME NEW s \in SUBSET (1 .. m + 1)
        PROVE  up[s] = IF s = {} THEN Base ELSE Op(up[s \ {Max(s)}], seq[Max(s)])
    <3>1. CASE s = {}
      BY <2>1, <3>1 DEF Folds
    <3>2. CASE m + 1 \in s
      <4>1. Max(s) = m + 1
        <5>1. Max(s) \in s /\ \A i \in s : i <= Max(s)
          BY <3>2, LastPosition, m + 1 \in Nat
        <5>2. Max(s) \in 1 .. m + 1 /\ m + 1 <= Max(s)
          BY <3>2, <5>1
        <5> QED
          BY <5>2
      <4>2. s \ {m + 1} \in SUBSET (1 .. m)
        OBVIOUS
      <4>3. up[s \ {m + 1}] = it[s \ {m + 1}]
        OBVIOUS
      <4> QED
        BY <3>2, <4>1, <4>3
    <3>3. CASE m + 1 \notin s /\ s # {}
      <4>1. s \in SUBSET (1 .. m)
        BY <3>3
      <4>2. Max(s) \in s
        BY <3>3, <4>1, LastPosition
      <4>3. it[s] = Op(it[s \ {Max(s)}], seq[Max(s)])
        BY <2>1, <3>3, <4>1 DEF Folds
      <4>4. up[s] = it[s] /\ up[s \ {Max(s)}] = it[s \ {Max(s)}]
        BY <3>3
      <4> QED
        BY <3>3, <4>3, <4>4
    <3> QED
      BY <3>1, <3>2, <3>3
  <2>3. up = [s \in SUBSET (1 .. m + 1) |->
                IF s = {} THEN Base ELSE Op(up[s \ {Max(s)}], seq[Max(s)])]
    BY <2>2
  <2>4. Folds(up, m + 1, seq)
    BY <2>3, Zenon DEF Folds
  <2> QED
    BY <2>4
<1> HIDE DEF Good
<1>3. n \in Good
  BY <1>1, <1>2, SetInduction
<1> QED
  BY <1>3 DEF Good

(* And two that fold what is the same up to n agree up to n. *)
LEMMA FoldUnique ==
  ASSUME NEW it1, NEW n1 \in Nat, NEW seq1, Folds(it1, n1, seq1),
         NEW it2, NEW n2 \in Nat, NEW seq2, Folds(it2, n2, seq2),
         NEW n \in Nat, n <= n1, n <= n2, \A i \in 1 .. n : seq1[i] = seq2[i]
  PROVE  it1[1 .. n] = it2[1 .. n]
<1> DEFINE Good == {m \in Nat : m <= n => \A s \in SUBSET (1 .. m) : it1[s] = it2[s]}
<1>1. 0 \in Good
  BY DEF Folds
<1>2. ASSUME NEW m \in Nat, m \in Good PROVE m + 1 \in Good
  <2> SUFFICES ASSUME m + 1 <= n, NEW s \in SUBSET (1 .. m + 1)
               PROVE  it1[s] = it2[s]
    OBVIOUS
  <2>0. s \in SUBSET (1 .. n1) /\ s \in SUBSET (1 .. n2)
    OBVIOUS
  <2>1. CASE s = {}
    BY <2>0, <2>1 DEF Folds
  <2>2. CASE s # {}
    <3>1. Max(s) \in s /\ \A i \in s : i <= Max(s)
      BY <2>2, LastPosition, m + 1 \in Nat
    <3>2. Max(s) \in 1 .. n
      <4>1. Max(s) \in 1 .. m + 1
        BY <3>1
      <4> QED
        BY <4>1
    <3>2a. s \ {Max(s)} \in SUBSET (1 .. m)
      <4>1. ASSUME NEW i \in s, i # Max(s) PROVE i \in 1 .. m
        <5>1. i \in 1 .. m + 1 /\ Max(s) \in 1 .. m + 1 /\ i <= Max(s)
          BY <3>1
        <5> QED
          BY <4>1, <5>1
      <4> QED
        BY <4>1
    <3>3. it1[s \ {Max(s)}] = it2[s \ {Max(s)}]
      BY <1>2, <3>2a
    <3>4. seq1[Max(s)] = seq2[Max(s)]
      BY <3>2
    <3>5. /\ it1[s] = Op(it1[s \ {Max(s)}], seq1[Max(s)])
          /\ it2[s] = Op(it2[s \ {Max(s)}], seq2[Max(s)])
      BY <2>0, <2>2 DEF Folds
    <3> QED
      BY <3>3, <3>4, <3>5
  <2> QED
    BY <2>1, <2>2
<1> HIDE DEF Good
<1>3. n \in Good
  BY <1>1, <1>2, SetInduction
<1> QED
  BY <1>3 DEF Good

LEMMA ResultFolds ==
  ASSUME NEW S, NEW seq \in Seq(S)
  PROVE  \E it : Folds(it, Len(seq), seq) /\ Result(seq) = it[1 .. Len(seq)]
<1>1. DOMAIN seq = 1 .. Len(seq) /\ Len(seq) \in Nat
  OBVIOUS
<1> DEFINE it == CHOOSE it : it = [s \in SUBSET (1 .. Len(seq)) |->
              IF s = {} THEN Base ELSE Op(it[s \ {Max(s)}], seq[Max(s)])]
<1>2. Folds(it, Len(seq), seq)
  BY <1>1, FoldExists, Zenon DEF Folds
<1>3. Result(seq) = it[1 .. Len(seq)]
  BY <1>1, ResultIs, Zenon
<1> QED
  BY <1>2, <1>3

-----------------------------------------------------------------------------
(* Nothing folded is what it started from. *)
LEMMA FoldEmpty == Result(<<>>) = Base
<1>1. <<>> \in Seq({}) /\ Len(<<>>) = 0
  OBVIOUS
<1>2. PICK it : Folds(it, 0, <<>>) /\ Result(<<>>) = it[1 .. 0]
  BY <1>1, ResultFolds
<1> QED
  BY <1>2 DEF Folds

(* One more element is one more application. *)
LEMMA FoldAppend ==
  ASSUME NEW S, NEW seq \in Seq(S), NEW x \in S
  PROVE  Result(Append(seq, x)) = Op(Result(seq), x)
<1> DEFINE n == Len(seq)
           more == Append(seq, x)
<1>0. n \in Nat /\ more \in Seq(S) /\ Len(more) = n + 1 /\ more[n + 1] = x
      /\ \A i \in 1 .. n : more[i] = seq[i]
  OBVIOUS
<1>1. PICK it : Folds(it, n, seq) /\ Result(seq) = it[1 .. n]
  BY ResultFolds
<1>2. PICK up : Folds(up, n + 1, more) /\ Result(more) = up[1 .. n + 1]
  BY <1>0, ResultFolds
<1> HIDE DEF n, more
<1>3. up[1 .. n] = it[1 .. n]
  BY <1>0, <1>1, <1>2, FoldUnique
<1>4. Max(1 .. n + 1) = n + 1 /\ (1 .. n + 1) \ {n + 1} = 1 .. n
  <2>1. /\ n + 1 \in Nat /\ 1 .. n + 1 \in SUBSET (1 .. n + 1)
        /\ n + 1 \in 1 .. n + 1
    BY <1>0
  <2>2. Max(1 .. n + 1) \in 1 .. n + 1 /\ n + 1 <= Max(1 .. n + 1)
    BY <2>1, LastPosition
  <2> QED
    BY <1>0, <2>2
<1>5. up[1 .. n + 1] = Op(up[1 .. n], more[n + 1])
  <2>1. 1 .. n + 1 \in SUBSET (1 .. n + 1) /\ n + 1 \in 1 .. n + 1
    BY <1>0
  <2> QED
    BY <1>2, <1>4, <2>1 DEF Folds
<1> QED
  BY <1>0, <1>1, <1>2, <1>3, <1>5 DEF more
=============================================================================
