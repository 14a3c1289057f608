------------------------------ MODULE Counting ------------------------------
(* Facts about the cardinality of a set that gains or loses one element,   *)
(* and about positions in a sequence that grows by one, for the proofs     *)
(* that count rows and processes; and about least and greatest numbers,    *)
(* which take the place of induction in the proofs about loops.            *)
EXTENDS Integers, Sequences, FiniteSets, FiniteSetTheorems, WellFoundedInduction, TLAPS

(* A set that gains an element counts one more. *)
LEMMA CountGains ==
    ASSUME NEW S, IsFiniteSet(S), NEW x, x \notin S
    PROVE  /\ IsFiniteSet(S \cup {x})
           /\ Cardinality(S \cup {x}) = Cardinality(S) + 1
  BY FS_AddElement

(* A set that loses an element counts one less. *)
LEMMA CountLoses ==
    ASSUME NEW S, IsFiniteSet(S), NEW x \in S
    PROVE  /\ IsFiniteSet(S \ {x})
           /\ Cardinality(S \ {x}) = Cardinality(S) - 1
  BY FS_RemoveElement

(* A set of positions of a sequence, or of processes, has a size. *)
LEMMA CountIsNat ==
    ASSUME NEW S, IsFiniteSet(S), NEW T, T \subseteq S
    PROVE  IsFiniteSet(T) /\ Cardinality(T) \in Nat
  BY FS_Subset, FS_CardinalityType

LEMMA PositionsFinite ==
    ASSUME NEW X, NEW s \in Seq(X)
    PROVE  IsFiniteSet(DOMAIN s) /\ Len(s) + 1 \notin DOMAIN s
  BY FS_Interval

(* A longer sequence has the old elements in their old places. *)
LEMMA AppendKeeps ==
    ASSUME NEW X, NEW s \in Seq(X), NEW x \in X
    PROVE  /\ Append(s, x) \in Seq(X)
           /\ DOMAIN Append(s, x) = DOMAIN s \cup {Len(s) + 1}
           /\ Append(s, x)[Len(s) + 1] = x
           /\ \A i \in DOMAIN s : Append(s, x)[i] = s[i]
  OBVIOUS

One(b) == IF b THEN 1 ELSE 0

(* Two sets that differ at most in p. *)
LEMMA MemberMoves ==
    ASSUME NEW P, IsFiniteSet(P), NEW S, S \subseteq P, NEW T, T \subseteq P, NEW p \in P,
           \A q \in P : q # p => (q \in T <=> q \in S)
    PROVE  /\ Cardinality(S) \in Nat /\ Cardinality(T) \in Nat
           /\ Cardinality(T) = Cardinality(S) + One(p \in T) - One(p \in S)
  <1>1. IsFiniteSet(S) /\ IsFiniteSet(T) /\ Cardinality(S) \in Nat /\ Cardinality(T) \in Nat
    BY CountIsNat
  <1>2. CASE p \in T /\ p \notin S
    <2>1. T = S \cup {p}
      BY <1>2
    <2> QED BY <1>1, <1>2, <2>1, CountGains DEF One
  <1>3. CASE p \notin T /\ p \in S
    <2>1. T = S \ {p}
      BY <1>3
    <2> QED BY <1>1, <1>3, <2>1, CountLoses DEF One
  <1>4. CASE p \in T <=> p \in S
    <2>1. T = S
      BY <1>4
    <2> QED BY <1>1, <1>4, <2>1 DEF One
  <1> QED BY <1>2, <1>3, <1>4

-----------------------------------------------------------------------------
(* Least and greatest elements, and loops *)

Below == {pair \in Nat \X Nat : pair[1] < pair[2]}

LEMMA BelowIsWellFounded == IsWellFoundedOn(Below, Nat)
  <1>1. OpToRel(<, Nat) = Below
    BY DEF OpToRel, Below
  <1> QED BY <1>1, NatLessThanWellFounded

(* A set of natural numbers has a least element: what every induction here *)
(* is done with, as the least counterexample.                              *)
LEMMA LeastElement ==
    ASSUME NEW T, T \subseteq Nat, T # {}
    PROVE  \E m \in T : \A k \in T : m <= k
  <1>1. PICK m \in T : \A k \in T : <<k, m>> \notin Below
    BY BelowIsWellFounded, WFMin
  <1>2. \A k, n \in Nat : k < n => <<k, n>> \in Below
    BY DEF Below
  <1>3. ASSUME NEW k \in T PROVE m <= k
    <2>1. ~(k < m)
      BY <1>1, <1>2
    <2> QED BY <2>1
  <1> QED BY <1>3

LEMMA GreatestElement ==
    ASSUME NEW T, T \subseteq Nat, T # {}, NEW n \in Nat, \A k \in T : k <= n
    PROVE  \E m \in T : \A k \in T : k <= m
  <1> DEFINE R == {j \in 0..n : n - j \in T}
  <1>1. ASSUME NEW k \in T PROVE n - k \in R /\ n - (n - k) = k
    <2>1. k \in Nat /\ k <= n
      OBVIOUS
    <2>2. n - k \in 0..n /\ n - (n - k) = k
      BY <2>1
    <2> QED BY <2>2
  <1>2. R \subseteq Nat /\ R # {}
    <2>1. PICK k \in T : TRUE
      OBVIOUS
    <2>2. n - k \in R /\ R \subseteq Nat
      BY <1>1
    <2> HIDE DEF R
    <2> QED BY <2>2
  <1>3. PICK d \in R : \A e \in R : d <= e
    <2> HIDE DEF R
    <2> QED BY <1>2, LeastElement
  <1>4. n - d \in T /\ d \in Nat
    BY <1>3
  <1>5. ASSUME NEW k \in T PROVE k <= n - d
    <2>1. d <= n - k
      BY <1>1, <1>3
    <2> QED BY <1>4, <2>1
  <1> QED BY <1>4, <1>5

(* What holds of 0, and of each number up to n if of the one before it.    *)
LEMMA CountingUp ==
    ASSUME NEW n \in Nat, NEW T, 0 \in T, \A i \in 1..n : i - 1 \in T => i \in T
    PROVE  \A i \in 0..n : i \in T
  <1> DEFINE F == {i \in 0..n : i \notin T}
  <1> SUFFICES ASSUME F # {} PROVE FALSE
    OBVIOUS
  <1>1. PICK i \in F : \A k \in F : i <= k
    <2>1. F \subseteq Nat
      OBVIOUS
    <2> HIDE DEF F
    <2> QED BY <2>1, LeastElement
  <1>2. i \in 1..n /\ i - 1 \in 0..n /\ i - 1 \notin F
    BY <1>1
  <1> QED BY <1>1, <1>2

(* The values of a variable of type X in the course of a loop over 1..n,   *)
(* whose i-th round replaces v by step[i][v].                              *)
Loop(f, n, base, step) ==
    /\ f[0] = base
    /\ \A i \in 1..n : f[i] = step[i][f[i - 1]]

LEMMA LoopExists ==
    ASSUME NEW X, NEW n \in Nat, NEW base \in X, NEW step \in [1..n -> [X -> X]]
    PROVE  \E f \in [0..n -> X] : Loop(f, n, base, step)
  <1> DEFINE Reached(k) == \E f \in [0..k -> X] : Loop(f, k, base, step)
             T == {k \in 0..n : Reached(k)}
  <1>1. Reached(0)
    <2>1. [i \in 0..0 |-> base] \in [0..0 -> X] /\ Loop([i \in 0..0 |-> base], 0, base, step)
      BY DEF Loop
    <2> QED BY <2>1
  <1>2. ASSUME NEW k \in 1..n, Reached(k - 1) PROVE Reached(k)
    <2>1. PICK f \in [0..(k - 1) -> X] : Loop(f, k - 1, base, step)
      BY <1>2
    <2> DEFINE g == [i \in 0..k |-> IF i = k THEN step[k][f[k - 1]] ELSE f[i]]
    <2>2. f[k - 1] \in X /\ step[k] \in [X -> X]
      OBVIOUS
    <2>3. g \in [0..k -> X]
      BY <2>2
    <2>4. g[0] = base
      BY <2>1 DEF Loop
    <2>5. ASSUME NEW i \in 1..k PROVE g[i] = step[i][g[i - 1]]
      <3>1. i - 1 \in 0..(k - 1) /\ g[i - 1] = f[i - 1]
        OBVIOUS
      <3>2. CASE i = k
        BY <3>1, <3>2
      <3>3. CASE i # k
        BY <2>1, <3>1, <3>3 DEF Loop
      <3> QED BY <3>2, <3>3
    <2> QED BY <2>3, <2>4, <2>5 DEF Loop
  <1> HIDE DEF Reached
  <1>3. 0 \in T
    BY <1>1
  <1>4. ASSUME NEW k \in 1..n, k - 1 \in T PROVE k \in T
    BY <1>2, <1>4
  <1>5. n \in T
    <2>1. \A i \in 0..n : i \in T
      <3> HIDE DEF T
      <3> QED BY <1>3, <1>4, CountingUp
    <2>2. n \in 0..n
      OBVIOUS
    <2> QED BY <2>1, <2>2
  <1> QED BY <1>5 DEF Reached
===========================================================================
