----------------------------- MODULE FoldFacts ------------------------------
(***************************************************************************)
(* What the folds of the community modules compute, for sets and sequences *)
(* of any size.  The arguments of a fold are the constants of this module; *)
(* who needs the facts about a fold instantiates it with those arguments.  *)
(***************************************************************************)
EXTENDS Integers, FiniteSets, Sequences, Folds, FiniteSetTheorems, WellFoundedInduction, TLAPS

CONSTANTS Op(_, _), Base, Pick(_)

Fold(h, S) == MapThenFoldSet(Op, Base, LAMBDA i : h[i], Pick, S)

(* Pick chooses a member of every set that it is asked to choose from.     *)
Picks(S) == \A s \in SUBSET S : s # {} => Pick(s) \in s

Unfolded(g, h, s) == IF s = {} THEN Base ELSE Op(h[Pick(s)], g[s \ {Pick(s)}])
Iterates(g, h, S) == g = [s \in SUBSET S |-> Unfolded(g, h, s)]

(* Induction over the natural numbers, for a set of them.                  *)
LessPairs == {p \in Nat \X Nat : p[1] < p[2]}

LEMMA NatSetInduction ==
  ASSUME NEW S, 0 \in S, \A n \in Nat : n \in S => n + 1 \in S
  PROVE  Nat \subseteq S
<1>1. IsWellFoundedOn(LessPairs, Nat)
  BY NatLessThanWellFounded DEF OpToRel, LessPairs
<1>2. SUFFICES ASSUME Nat \ S # {} PROVE FALSE
  OBVIOUS
<1>3. PICK x \in Nat \ S : \A y \in Nat \ S : <<y, x>> \notin LessPairs
  <2>1. Nat \ S \subseteq Nat
    OBVIOUS
  <2> QED
    BY <1>1, <1>2, <2>1, WFMin
<1>4. x # 0 /\ x - 1 \in Nat /\ x - 1 < x
  BY <1>3
<1>5. x - 1 \in S
  BY <1>3, <1>4 DEF LessPairs
<1> QED
  BY <1>3, <1>4, <1>5

(* Induction over the sequences that grow at their end, for a set of them.  *)
LEMMA SeqSetInduction ==
  ASSUME NEW T, NEW S, <<>> \in S, \A q \in Seq(T), e \in T : q \in S => Append(q, e) \in S
  PROVE  Seq(T) \subseteq S
<1> DEFINE Long == {n \in Nat : \A q \in Seq(T) : Len(q) = n => q \in S}
<1>1. 0 \in Long
  <2>1. \A q \in Seq(T) : Len(q) = 0 => q = <<>>
    OBVIOUS
  <2> QED
    BY <2>1
<1>2. ASSUME NEW n \in Nat, n \in Long PROVE n + 1 \in Long
  <2> SUFFICES ASSUME NEW q \in Seq(T), Len(q) = n + 1 PROVE q \in S
    OBVIOUS
  <2> DEFINE front == SubSeq(q, 1, n)
  <2>1. front \in Seq(T) /\ Len(front) = n /\ q[n + 1] \in T /\ q = Append(front, q[n + 1])
    OBVIOUS
  <2>2. front \in S
    BY <1>2, <2>1
  <2> HIDE DEF front
  <2> QED
    BY <2>1, <2>2
<1> HIDE DEF Long
<1>3. Nat \subseteq Long
  BY <1>1, <1>2, NatSetInduction
<1> QED
  BY <1>3 DEF Long

(* A set of places of a sequence has a last one.                           *)
THEOREM LastPlace ==
  ASSUME NEW n \in Nat, NEW S \in SUBSET (1..n), S # {}
  PROVE  \E x \in S : \A y \in S : y <= x
<1> DEFINE Reached == {m \in Nat : \A s \in SUBSET (1..m) : s # {} => \E x \in s : \A y \in s : y <= x}
<1>1. 0 \in Reached
  <2>1. \A s \in SUBSET (1..0) : s = {}
    OBVIOUS
  <2> QED
    BY <2>1
<1>2. ASSUME NEW m \in Nat, m \in Reached PROVE m + 1 \in Reached
  <2>1. ASSUME NEW s \in SUBSET (1..(m + 1)), s # {} PROVE \E x \in s : \A y \in s : y <= x
    <3>1. CASE m + 1 \in s
      BY <3>1
    <3>2. CASE m + 1 \notin s
      <4>1. s \in SUBSET (1..m)
        BY <3>2
      <4> QED
        BY <1>2, <2>1, <4>1
    <3> QED
      BY <3>1, <3>2
  <2> QED
    BY <2>1
<1> HIDE DEF Reached
<1>3. n \in Reached
  BY <1>1, <1>2, NatSetInduction
<1> QED
  BY <1>3 DEF Reached

LEMMA Smaller ==
  ASSUME NEW S, IsFiniteSet(S), Picks(S), NEW s \in SUBSET S, s # {}
  PROVE  /\ Pick(s) \in s /\ s \ {Pick(s)} \in SUBSET S
         /\ Cardinality(s) \in Nat /\ Cardinality(s \ {Pick(s)}) = Cardinality(s) - 1
<1>1. Pick(s) \in s
  BY DEF Picks
<1>2. IsFiniteSet(s)
  BY FS_Subset
<1> QED
  BY <1>1, <1>2, FS_RemoveElement, FS_CardinalityType

LEMMA IterExists ==
  ASSUME NEW h, NEW S, IsFiniteSet(S), Picks(S)
  PROVE  \E g : Iterates(g, h, S)
<1> DEFINE Upto(g, n) == /\ g = [s \in SUBSET S |-> g[s]]
                         /\ \A s \in SUBSET S : Cardinality(s) <= n => g[s] = Unfolded(g, h, s)
           Reached == {n \in Nat : \E g : Upto(g, n)}
<1>1. \A s \in SUBSET S : IsFiniteSet(s) /\ Cardinality(s) \in Nat /\ (Cardinality(s) = 0 <=> s = {})
  BY FS_Subset, FS_CardinalityType, FS_EmptySet
<1>2. 0 \in Reached
  <2> DEFINE g == [s \in SUBSET S |-> Base]
  <2>1. Upto(g, 0)
    BY <1>1 DEF Unfolded
  <2> HIDE DEF g
  <2> QED
    BY <2>1
<1>3. ASSUME NEW n \in Nat, n \in Reached PROVE n + 1 \in Reached
  <2>1. PICK g : Upto(g, n)
    BY <1>3
  <2> DEFINE k == [s \in SUBSET S |-> Unfolded(g, h, s)]
  <2>2. ASSUME NEW s \in SUBSET S, Cardinality(s) <= n + 1 PROVE k[s] = Unfolded(k, h, s)
    <3>1. CASE s = {}
      BY <3>1 DEF Unfolded
    <3>2. CASE s # {}
      <4> DEFINE r == s \ {Pick(s)}
      <4>1. r \in SUBSET S /\ Cardinality(r) <= n
        BY <1>1, <2>2, <3>2, Smaller
      <4>2. g[r] = k[r]
        BY <2>1, <4>1
      <4> QED
        BY <3>2, <4>2 DEF Unfolded
    <3> QED
      BY <3>1, <3>2
  <2>3. k = [s \in SUBSET S |-> k[s]]
    OBVIOUS
  <2>4. Upto(k, n + 1)
    BY <2>2, <2>3
  <2> HIDE DEF k, Upto
  <2> QED
    BY <2>4
<1> HIDE DEF Reached
<1>4. Cardinality(S) \in Reached
  BY <1>1, <1>2, <1>3, NatSetInduction
<1>5. PICK g : Upto(g, Cardinality(S))
  BY <1>4 DEF Reached
<1>6. \A s \in SUBSET S : Cardinality(s) <= Cardinality(S)
  BY FS_Subset
<1> QED
  BY <1>5, <1>6 DEF Iterates

(* Two iterations over functions that agree on a set agree on it.          *)
LEMMA IterUnique ==
  ASSUME NEW S, IsFiniteSet(S), NEW T, S \subseteq T, Picks(S),
         NEW h, NEW j, \A i \in S : h[i] = j[i],
         NEW g, NEW k, Iterates(g, h, S), Iterates(k, j, T)
  PROVE  g[S] = k[S]
<1> DEFINE Same == {n \in Nat : \A s \in SUBSET S : Cardinality(s) = n => g[s] = k[s]}
<1>1. \A s \in SUBSET S : IsFiniteSet(s) /\ Cardinality(s) \in Nat /\ (Cardinality(s) = 0 <=> s = {})
  BY FS_Subset, FS_CardinalityType, FS_EmptySet
<1>2. \A s \in SUBSET S : g[s] = Unfolded(g, h, s) /\ k[s] = Unfolded(k, j, s)
  BY DEF Iterates
<1>3. 0 \in Same
  BY <1>1, <1>2 DEF Unfolded
<1>4. ASSUME NEW n \in Nat, n \in Same PROVE n + 1 \in Same
  <2>1. ASSUME NEW s \in SUBSET S, Cardinality(s) = n + 1 PROVE g[s] = k[s]
    <3>1. s # {}
      BY <1>1, <2>1
    <3> DEFINE r == s \ {Pick(s)}
    <3>2. r \in SUBSET S /\ Cardinality(r) = n /\ Pick(s) \in S
      BY <2>1, <3>1, Smaller
    <3>3. g[r] = k[r] /\ h[Pick(s)] = j[Pick(s)]
      BY <1>4, <3>2
    <3> QED
      BY <1>2, <3>1, <3>3 DEF Unfolded
  <2> QED
    BY <2>1
<1> HIDE DEF Same
<1>5. Cardinality(S) \in Same
  BY <1>1, <1>3, <1>4, NatSetInduction
<1> QED
  BY <1>5 DEF Same

LEMMA FoldIterates ==
  ASSUME NEW h, NEW S, IsFiniteSet(S), Picks(S)
  PROVE  \E g : Iterates(g, h, S) /\ Fold(h, S) = g[S]
<1> DEFINE iter == CHOOSE g : Iterates(g, h, S)
<1>1. Iterates(iter, h, S)
  BY IterExists
<1>2. Fold(h, S) = iter[S]
  BY DEF Fold, MapThenFoldSet, Iterates, Unfolded
<1> QED
  BY <1>1, <1>2

(* A fold over no member is its base: what an empty plan, book or order    *)
(* gives before a first member is taken.                                   *)
THEOREM FoldOfNone == ASSUME NEW h PROVE Fold(h, {}) = Base
<1>1. IsFiniteSet({}) /\ Picks({})
  BY FS_EmptySet DEF Picks
<1>2. PICK g : Iterates(g, h, {}) /\ Fold(h, {}) = g[{}]
  BY <1>1, FoldIterates
<1> QED
  BY <1>2 DEF Iterates, Unfolded

(* A fold takes the member that Pick chooses, and folds the rest: the one  *)
(* step by which the loops that the model writes as folds are followed.    *)
THEOREM FoldUnfolds ==
  ASSUME NEW h, NEW S, IsFiniteSet(S), S # {}, Picks(S)
  PROVE  Fold(h, S) = Op(h[Pick(S)], Fold(h, S \ {Pick(S)}))
<1> DEFINE R == S \ {Pick(S)}
<1>1. IsFiniteSet(R) /\ R \subseteq S /\ Picks(R)
  BY FS_Subset DEF Picks
<1>2. PICK g : Iterates(g, h, S) /\ Fold(h, S) = g[S]
  BY FoldIterates
<1>3. PICK k : Iterates(k, h, R) /\ Fold(h, R) = k[R]
  BY <1>1, FoldIterates
<1>4. k[R] = g[R]
  BY <1>1, <1>2, <1>3, IterUnique
<1> QED
  BY <1>2, <1>3, <1>4 DEF Iterates, Unfolded

(* A fold depends on what the members are mapped to and on nothing else.   *)
THEOREM FoldLooksAtMembers ==
  ASSUME NEW S, IsFiniteSet(S), Picks(S), NEW h, NEW j, \A i \in S : h[i] = j[i]
  PROVE  Fold(h, S) = Fold(j, S)
<1>1. PICK g : Iterates(g, h, S) /\ Fold(h, S) = g[S]
  BY FoldIterates
<1>2. PICK k : Iterates(k, j, S) /\ Fold(j, S) = k[S]
  BY FoldIterates
<1> QED
  BY <1>1, <1>2, IterUnique

(* A fold over a sequence takes its places from the last to the first.     *)
Latest == \A n \in Nat : \A S \in SUBSET (1..n) :
            S # {} => Pick(S) \in S /\ \A i \in S : i <= Pick(S)

(* A fold over a sequence without elements is its base: the client's plan  *)
(* before a call has added to it.                                          *)
THEOREM FoldOfEmpty == Fold(<<>>, DOMAIN <<>>) = Base
  BY FoldOfNone

(* A fold over a sequence that grows at its end applies the operator to    *)
(* the new element and to what it was: a call added last is played last.   *)
THEOREM FoldOfAppend ==
  ASSUME NEW T, NEW q \in Seq(T), NEW e \in T, Latest
  PROVE  Fold(Append(q, e), DOMAIN Append(q, e)) = Op(e, Fold(q, DOMAIN q))
<1> DEFINE r == Append(q, e)
           n == Len(r)
<1>1. /\ n \in Nat /\ n = Len(q) + 1 /\ DOMAIN r = 1..n /\ DOMAIN q = 1..Len(q) /\ r[n] = e
      /\ \A i \in DOMAIN q : r[i] = q[i]
  OBVIOUS
<1> HIDE DEF r, n
<1>2. IsFiniteSet(DOMAIN r) /\ IsFiniteSet(DOMAIN q)
  BY <1>1, FS_Interval
<1>3. Picks(DOMAIN r)
  BY <1>1 DEF Latest, Picks
<1>4. DOMAIN q \subseteq DOMAIN r
  BY <1>1
<1>5. Picks(DOMAIN q)
  BY <1>3, <1>4 DEF Picks
<1>6. Pick(DOMAIN r) = n
  <2>1. n \in DOMAIN r /\ DOMAIN r # {}
    BY <1>1
  <2>2. Pick(DOMAIN r) \in DOMAIN r /\ n <= Pick(DOMAIN r)
    BY <1>1, <2>1 DEF Latest
  <2> QED
    BY <1>1, <2>2
<1>7. DOMAIN r \ {n} = DOMAIN q
  BY <1>1
<1>8. Fold(r, DOMAIN r) = Op(e, Fold(r, DOMAIN q))
  <2>1. Fold(r, DOMAIN r) = Op(r[n], Fold(r, DOMAIN r \ {n}))
    <3>1. DOMAIN r # {}
      BY <1>1
    <3> QED
      BY <1>2, <1>3, <1>6, <3>1, FoldUnfolds
  <2> QED
    BY <1>1, <1>7, <2>1
<1>9. Fold(r, DOMAIN q) = Fold(q, DOMAIN q)
  BY <1>1, <1>2, <1>5, FoldLooksAtMembers
<1> QED
  BY <1>8, <1>9 DEF r
=============================================================================
