-------------------------------- MODULE Sums --------------------------------
(* Sums over finite sets: the fold that amounts are added up with, taken     *)
(* element by element, in any order, in parts and under other names.  The    *)
(* proofs are inductions over the subsets of a finite set.                   *)
EXTENDS Integers, FiniteSets, FiniteSetsExt, FiniteSetTheorems, WellFoundedInduction, TLAPS

(* A set of numbers has a least one.                                          *)
LEMMA Lowest ==
    ASSUME NEW T \in SUBSET Nat, T # {}
    PROVE  \E x \in T : \A y \in T : x <= y
<1> DEFINE less == {p \in Nat \X Nat : p[1] < p[2]}
<1>1. OpToRel(<, Nat) = less
  BY DEF OpToRel
<1>2. IsWellFoundedOn(less, Nat)
  BY <1>1, NatLessThanWellFounded
<1> HIDE DEF less
<1>3. PICK x \in T : \A y \in T : ~(<<y, x>> \in less)
  BY <1>2, WFMin
<1>4. ASSUME NEW y \in T PROVE x <= y
  <2>1. x \in Nat /\ y \in Nat
    OBVIOUS
  <2>2. ~(y < x)
    BY <1>3, <2>1 DEF less
  <2> QED
    BY <2>1, <2>2
<1> QED
  BY <1>4

(* Induction over the subsets of a finite set, for a set of them. *)
LEMMA SmallerFirst ==
    ASSUME NEW S, IsFiniteSet(S), NEW P,
           \A T \in SUBSET S : (\A U \in SUBSET T : U # T => U \in P) => T \in P
    PROVE  \A T \in SUBSET S : T \in P
<1> SUFFICES ASSUME NEW T0 \in SUBSET S, T0 \notin P PROVE FALSE
  OBVIOUS
<1> DEFINE Bad == {T \in SUBSET S : T \notin P}
           Sizes == {Cardinality(T) : T \in Bad}
<1>1. \A T \in Bad : IsFiniteSet(T) /\ Cardinality(T) \in Nat
  BY FS_Subset, FS_CardinalityType
<1>2. Sizes \in SUBSET Nat /\ Sizes # {}
  BY <1>1
<1>5. PICK n \in Sizes : \A k \in Sizes : n <= k
  <2> HIDE DEF Sizes
  <2> QED BY <1>2, Lowest
<1>6. PICK T \in Bad : n = Cardinality(T)
  OBVIOUS
<1>7. ASSUME NEW U \in SUBSET T, U # T, U \notin P PROVE FALSE
  <2>1. Cardinality(U) \in Nat /\ Cardinality(T) \in Nat /\ Cardinality(U) < Cardinality(T)
    BY <1>1, <1>7, FS_Subset, FS_CardinalityType
  <2>2. Cardinality(U) \in Sizes
    BY <1>7
  <2> QED BY <1>5, <1>6, <2>1, <2>2
<1> QED BY <1>6, <1>7

(* The same, adding an element at a time.                                     *)
LEMMA OneMore ==
    ASSUME NEW S, IsFiniteSet(S), NEW P, {} \in P,
           \A T \in SUBSET S : \A x \in S \ T : T \in P => T \cup {x} \in P
    PROVE  \A T \in SUBSET S : T \in P
<1>1. ASSUME NEW T \in SUBSET S, \A U \in SUBSET T : U # T => U \in P PROVE T \in P
  <2>1. CASE T = {}
    BY <2>1
  <2>2. CASE T # {}
    <3>1. PICK x : x \in T
      BY <2>2
    <3>2. T \ {x} \in P /\ T = (T \ {x}) \cup {x} /\ x \in S \ (T \ {x}) /\ T \ {x} \in SUBSET S
      BY <1>1, <3>1
    <3> QED BY <3>2
  <2> QED BY <2>1, <2>2
<1> QED BY <1>1, SmallerFirst

(* Totals.  A sum over a set, element by element. *)
SumAt(w, S) == FoldSet(LAMBDA i, s : s + w[i], 0, S)
Some(s) == CHOOSE x \in s : TRUE
Rec(w, S, g) == g = [s \in SUBSET S |-> IF s = {} THEN 0 ELSE g[s \ {Some(s)}] + w[Some(s)]]

(* A sum is the value of a function that takes an element off at a time.      *)
LEMMA Unfold == ASSUME NEW w, NEW S PROVE SumAt(w, S) = (CHOOSE g : Rec(w, S, g))[S]
  BY DEF SumAt, FoldSet, MapThenFoldSet, Rec, Some

(* Two such functions agree wherever their values do.                         *)
LEMMA Agree ==
    ASSUME NEW w, NEW v, NEW S, IsFiniteSet(S), NEW T, NEW g, NEW h, Rec(w, S, g), Rec(v, T, h), \A x \in S : w[x] = v[x]
    PROVE  \A s \in SUBSET S : s \in SUBSET T => g[s] = h[s]
<1> DEFINE P == {s \in SUBSET S : s \in SUBSET T => g[s] = h[s]}
<1>1. \A s \in SUBSET S : g[s] = IF s = {} THEN 0 ELSE g[s \ {Some(s)}] + w[Some(s)]
  BY DEF Rec
<1>2. \A s \in SUBSET T : h[s] = IF s = {} THEN 0 ELSE h[s \ {Some(s)}] + v[Some(s)]
  BY DEF Rec
<1>3. \A s : s # {} => Some(s) \in s
  BY DEF Some
<1>4. ASSUME NEW s \in SUBSET S, \A U \in SUBSET s : U # s => U \in P PROVE s \in P
  <2>1. CASE s = {}
    BY <1>1, <1>2, <2>1
  <2>2. CASE s # {} /\ s \in SUBSET T
    <3>1. s \ {Some(s)} \in P /\ Some(s) \in S
      BY <1>3, <1>4, <2>2
    <3>2. g[s \ {Some(s)}] = h[s \ {Some(s)}]
      BY <2>2, <3>1
    <3> QED BY <1>1, <1>2, <2>2, <3>1, <3>2
  <2> QED BY <2>1, <2>2
<1> HIDE DEF P
<1>5. \A s \in SUBSET S : s \in P
  BY <1>4, SmallerFirst
<1> QED BY <1>5 DEF P

(* The function a sum is taken from exists: put together from those of the     *)
(* smaller sets.                                                               *)
LEMMA RecExists ==
    ASSUME NEW S, IsFiniteSet(S), NEW w PROVE \E g : Rec(w, S, g)
<1> DEFINE P == {T \in SUBSET S : \E g : Rec(w, T, g)}
           of(T) == CHOOSE g : Rec(w, T, g)
<1>1. ASSUME NEW T \in SUBSET S, \A U \in SUBSET T : U # T => U \in P PROVE T \in P
  <2> DEFINE at(s) == of(s)[s]
             new == [s \in SUBSET T |-> IF s = {} THEN 0 ELSE at(s \ {Some(s)}) + w[Some(s)]]
  <2>1. \A U \in SUBSET T : U # T => Rec(w, U, of(U))
    BY <1>1
  <2>2. \A s : s # {} => Some(s) \in s
    BY DEF Some
  <2>3. \A U \in SUBSET S : IsFiniteSet(U)
    BY FS_Subset
  <2>4. ASSUME NEW s \in SUBSET T, s # T PROVE new[s] = at(s)
    <3>1. Rec(w, s, of(s))
      BY <2>1, <2>4
    <3>2. at(s) = IF s = {} THEN 0 ELSE of(s)[s \ {Some(s)}] + w[Some(s)]
      BY <3>1 DEF Rec
    <3>3. CASE s # {}
      <4> DEFINE r == s \ {Some(s)}
      <4>1. r \in SUBSET s /\ r \in SUBSET T /\ r # T /\ IsFiniteSet(r)
        BY <2>2, <2>3, <2>4, <3>3
      <4>2. Rec(w, r, of(r))
        BY <2>1, <4>1
      <4> HIDE DEF of
      <4>3. of(r)[r] = of(s)[r]
        BY <3>1, <4>1, <4>2, Agree
      <4> QED BY <3>2, <3>3, <4>3
    <3> QED BY <3>2, <3>3
  <2>5. Rec(w, T, new)
    <3> HIDE DEF at
    <3>1. ASSUME NEW s \in SUBSET T PROVE new[s] = IF s = {} THEN 0 ELSE new[s \ {Some(s)}] + w[Some(s)]
      <4>1. CASE s # {}
        <5>1. s \ {Some(s)} \in SUBSET T /\ s \ {Some(s)} # T
          BY <2>2, <4>1
        <5>2. new[s \ {Some(s)}] = at(s \ {Some(s)})
          BY <2>4, <5>1
        <5> QED BY <4>1, <5>2
      <4> QED BY <4>1
    <3>2. new = [s \in SUBSET T |-> new[s]]
      OBVIOUS
    <3> HIDE DEF new
    <3> QED BY <3>1, <3>2 DEF Rec
  <2> HIDE DEF new
  <2> QED BY <2>5
<1> HIDE DEF P
<1>2. \A T \in SUBSET S : T \in P
  BY <1>1, SmallerFirst
<1> QED BY <1>2 DEF P

Weights(w, S) == \A x \in S : w[x] \in Int

(* A sum takes one element off.                                               *)
LEMMA SumSteps ==
    ASSUME NEW w, NEW S, IsFiniteSet(S)
    PROVE  SumAt(w, S) = IF S = {} THEN 0 ELSE SumAt(w, S \ {Some(S)}) + w[Some(S)]
<1> DEFINE g == CHOOSE g : Rec(w, S, g)
           r == S \ {Some(S)}
           h == CHOOSE h : Rec(w, r, h)
<1>1. Rec(w, S, g) /\ Rec(w, r, h)
  BY RecExists, FS_Subset
<1>2. SumAt(w, S) = g[S] /\ SumAt(w, r) = h[r]
  BY Unfold
<1> HIDE DEF g, h
<1>3. g[S] = IF S = {} THEN 0 ELSE g[r] + w[Some(S)]
  BY <1>1 DEF Rec
<1>4. \A s \in SUBSET r : s \in SUBSET S => h[s] = g[s]
  BY <1>1, Agree, FS_Subset
<1> QED BY <1>2, <1>3, <1>4

(* Only the values in the set count. *)
LEMMA SumAlike ==
    ASSUME NEW w, NEW v, NEW S, IsFiniteSet(S), \A x \in S : w[x] = v[x]
    PROVE  SumAt(w, S) = SumAt(v, S)
<1> DEFINE g == CHOOSE g : Rec(w, S, g)
           h == CHOOSE h : Rec(v, S, h)
<1>1. Rec(w, S, g) /\ Rec(v, S, h)
  BY RecExists
<1>2. SumAt(w, S) = g[S] /\ SumAt(v, S) = h[S]
  BY Unfold
<1> HIDE DEF g, h
<1>3. \A s \in SUBSET S : s \in SUBSET S => g[s] = h[s]
  BY <1>1, Agree
<1> QED BY <1>2, <1>3

(* Whole numbers add up to a whole number.                                    *)
LEMMA SumInt ==
    ASSUME NEW w, NEW S, IsFiniteSet(S), Weights(w, S)
    PROVE  \A T \in SUBSET S : SumAt(w, T) \in Int
<1> DEFINE P == {T \in SUBSET S : SumAt(w, T) \in Int}
<1>1. ASSUME NEW T \in SUBSET S, \A U \in SUBSET T : U # T => U \in P PROVE T \in P
  <2>1. SumAt(w, T) = IF T = {} THEN 0 ELSE SumAt(w, T \ {Some(T)}) + w[Some(T)]
    BY SumSteps, FS_Subset
  <2>2. T # {} => Some(T) \in T
    BY DEF Some
  <2> QED BY <1>1, <2>1, <2>2 DEF Weights
<1> HIDE DEF P
<1>2. \A T \in SUBSET S : T \in P
  BY <1>1, SmallerFirst
<1> QED BY <1>2 DEF P

(* Any element may be taken off first. *)
LEMMA SumOff ==
    ASSUME NEW w, NEW S, IsFiniteSet(S), Weights(w, S)
    PROVE  \A x \in S : SumAt(w, S) = SumAt(w, S \ {x}) + w[x]
<1> DEFINE P == {T \in SUBSET S : \A x \in T : SumAt(w, T) = SumAt(w, T \ {x}) + w[x]}
<1>1. ASSUME NEW T \in SUBSET S, \A U \in SUBSET T : U # T => U \in P PROVE T \in P
  <2> SUFFICES ASSUME NEW x \in T PROVE SumAt(w, T) = SumAt(w, T \ {x}) + w[x]
    OBVIOUS
  <2> DEFINE a == Some(T)
  <2>1. SumAt(w, T) = SumAt(w, T \ {a}) + w[a] /\ a \in T
    <3>1. SumAt(w, T) = IF T = {} THEN 0 ELSE SumAt(w, T \ {a}) + w[a]
      BY SumSteps, FS_Subset
    <3> QED BY <3>1 DEF Some
  <2> HIDE DEF a
  <2>2. CASE x # a
    <3>1. T \ {a} \in P /\ T \ {x} \in P /\ x \in T \ {a} /\ a \in T \ {x}
      BY <1>1, <2>1, <2>2
    <3>2. (T \ {a}) \ {x} = (T \ {x}) \ {a}
      OBVIOUS
    <3>3. SumAt(w, T \ {a}) = SumAt(w, (T \ {a}) \ {x}) + w[x] /\ SumAt(w, T \ {x}) = SumAt(w, (T \ {x}) \ {a}) + w[a]
      BY <3>1
    <3>4. SumAt(w, (T \ {x}) \ {a}) \in Int /\ w[x] \in Int /\ w[a] \in Int
      BY <2>1, SumInt DEF Weights
    <3>5. SumAt(w, (T \ {a}) \ {x}) = SumAt(w, (T \ {x}) \ {a})
      BY <3>2
    <3>6. SumAt(w, T) = SumAt(w, (T \ {x}) \ {a}) + w[x] + w[a]
      BY <2>1, <3>3, <3>5
    <3>7. SumAt(w, T \ {x}) + w[x] = SumAt(w, (T \ {x}) \ {a}) + w[a] + w[x]
      BY <3>3
    <3> HIDE DEF P
    <3> QED BY <3>4, <3>6, <3>7
  <2> QED BY <2>1, <2>2
<1> HIDE DEF P
<1>2. \A T \in SUBSET S : T \in P
  BY <1>1, SmallerFirst
<1> QED BY <1>2 DEF P

(* Nothing adds up to nothing.                                                *)
LEMMA SumNone == \A w : SumAt(w, {}) = 0
  BY SumSteps, FS_EmptySet

(* An element more.                                                           *)
LEMMA SumOn ==
    ASSUME NEW w, NEW S, IsFiniteSet(S), NEW x, x \notin S, Weights(w, S \cup {x})
    PROVE  SumAt(w, S \cup {x}) = SumAt(w, S) + w[x]
<1>1. IsFiniteSet(S \cup {x}) /\ (S \cup {x}) \ {x} = S /\ x \in S \cup {x}
  BY FS_AddElement
<1> QED BY <1>1, SumOff

(* Two sets with nothing in common. *)
LEMMA SumBoth ==
    ASSUME NEW w, NEW A, NEW B, IsFiniteSet(A), IsFiniteSet(B), A \cap B = {}, Weights(w, A \cup B)
    PROVE  SumAt(w, A \cup B) = SumAt(w, A) + SumAt(w, B)
<1> DEFINE P == {T \in SUBSET B : SumAt(w, A \cup T) = SumAt(w, A) + SumAt(w, T)}
<1>0. \A T \in SUBSET B : IsFiniteSet(T) /\ IsFiniteSet(A \cup T) /\ Weights(w, A \cup T) /\ Weights(w, T) /\ SumAt(w, T) \in Int
  BY FS_Subset, FS_Union, SumInt DEF Weights
<1>1. SumAt(w, A) \in Int
  BY SumInt DEF Weights
<1>2. {} \in P
  BY <1>1, SumNone
<1>3. ASSUME NEW T \in SUBSET B, NEW x \in B \ T, T \in P PROVE T \cup {x} \in P
  <2>1. T \cup {x} \in SUBSET B /\ (A \cup T) \cup {x} = A \cup (T \cup {x}) /\ x \notin A \cup T
    OBVIOUS
  <2>2. Weights(w, A \cup (T \cup {x})) /\ Weights(w, T \cup {x})
    BY <1>0, <2>1
  <2>3. SumAt(w, A \cup (T \cup {x})) = SumAt(w, A \cup T) + w[x]
    BY <1>0, <2>1, <2>2, SumOn
  <2>4. SumAt(w, T \cup {x}) = SumAt(w, T) + w[x]
    BY <1>0, <2>2, SumOn
  <2>5. SumAt(w, A \cup T) = SumAt(w, A) + SumAt(w, T)
    BY <1>3
  <2>6. SumAt(w, T) \in Int /\ w[x] \in Int
    BY <1>0 DEF Weights
  <2>7. SumAt(w, A \cup (T \cup {x})) = SumAt(w, A) + SumAt(w, T \cup {x})
    BY <1>1, <2>3, <2>4, <2>5, <2>6
  <2> QED BY <2>1, <2>7
<1> HIDE DEF P
<1>4. B \in P
  BY <1>2, <1>3, OneMore
<1> QED BY <1>4 DEF P

(* A set parted by what f says of its elements. *)
LEMMA SumParts ==
    ASSUME NEW w, NEW S, IsFiniteSet(S), NEW C, IsFiniteSet(C), NEW f, \A x \in S : f[x] \in C, Weights(w, S)
    PROVE  SumAt(w, S) = SumAt([c \in C |-> SumAt(w, {x \in S : f[x] = c})], C)
<1> DEFINE of(T) == [c \in C |-> SumAt(w, {x \in T : f[x] = c})]
           P == {T \in SUBSET S : SumAt(w, T) = SumAt(of(T), C)}
<1>0. \A T \in SUBSET S : IsFiniteSet(T) /\ Weights(w, T) /\ Weights(of(T), C) /\ SumAt(w, T) \in Int
  <2>1. \A T \in SUBSET S : \A c : {x \in T : f[x] = c} \in SUBSET S
    OBVIOUS
  <2> QED BY <2>1, FS_Subset, SumInt DEF Weights
<1>1. {} \in P
  <2> DEFINE zero == of({})
  <2>1. \A c \in C : zero[c] = 0
    <3>1. \A c : {x \in {} : f[x] = c} = {}
      OBVIOUS
    <3> QED BY <3>1, SumNone
  <2> HIDE DEF zero
  <2> DEFINE Q == {D \in SUBSET C : SumAt(zero, D) = 0}
  <2>2. ASSUME NEW D \in SUBSET C, NEW c \in C \ D, D \in Q PROVE D \cup {c} \in Q
    <3>1. SumAt(zero, D \cup {c}) = SumAt(zero, D) + zero[c]
      BY <2>1, FS_Subset, SumOn DEF Weights
    <3> QED BY <2>1, <2>2, <3>1
  <2>3. {} \in Q
    BY SumNone
  <2> HIDE DEF Q
  <2>4. C \in Q
    BY <2>2, <2>3, OneMore
  <2>5. SumAt(zero, C) = 0
    BY <2>4 DEF Q
  <2> QED BY <2>5, SumNone DEF zero
<1>2. ASSUME NEW T \in SUBSET S, NEW a \in S \ T, T \in P PROVE T \cup {a} \in P
  <2> DEFINE c == f[a]
             old == of(T)
             new == of(T \cup {a})
  <2>1. c \in C /\ T \cup {a} \in SUBSET S
    OBVIOUS
  <2>2. \A d \in C \ {c} : new[d] = old[d]
    <3> SUFFICES ASSUME NEW d \in C \ {c} PROVE new[d] = old[d]
      OBVIOUS
    <3>1. {x \in T \cup {a} : f[x] = d} = {x \in T : f[x] = d}
      OBVIOUS
    <3> QED BY <3>1
  <2>3. new[c] = old[c] + w[a]
    <3> DEFINE K == {x \in T : f[x] = c}
    <3>1. {x \in T \cup {a} : f[x] = c} = K \cup {a} /\ a \notin K /\ K \in SUBSET S
      OBVIOUS
    <3>2. IsFiniteSet(K) /\ Weights(w, K \cup {a})
      BY <1>0, <3>1 DEF Weights
    <3>3. SumAt(w, K \cup {a}) = SumAt(w, K) + w[a]
      BY <3>1, <3>2, SumOn
    <3> QED BY <2>1, <3>1, <3>3
  <2>4. Weights(old, C) /\ Weights(new, C)
    BY <1>0, <2>1
  <2>5. SumAt(w, T \cup {a}) = SumAt(w, T) + w[a]
    BY <1>0, <2>1, SumOn
  <2>6. SumAt(w, T) = SumAt(old, C)
    BY <1>2
  <2> HIDE DEF old, new
  <2>7. SumAt(old, C) = SumAt(old, C \ {c}) + old[c] /\ SumAt(new, C) = SumAt(new, C \ {c}) + new[c]
    BY <2>1, <2>4, SumOff
  <2>8. SumAt(old, C \ {c}) = SumAt(new, C \ {c}) /\ SumAt(old, C \ {c}) \in Int
    BY <2>2, <2>4, SumAlike, SumInt, FS_Subset
  <2>9. old[c] \in Int /\ w[a] \in Int
    BY <2>1, <2>4 DEF Weights
  <2>10. SumAt(w, T \cup {a}) = SumAt(new, C)
    BY <2>3, <2>5, <2>6, <2>7, <2>8, <2>9
  <2> QED BY <2>1, <2>10 DEF new
<1> HIDE DEF P
<1>3. S \in P
  BY <1>1, <1>2, OneMore
<1> QED BY <1>3 DEF P

(* The same terms under other names. *)
LEMMA SumRenamed ==
    ASSUME NEW w, NEW S, IsFiniteSet(S), Weights(w, S), NEW v, NEW f,
           \A x, y \in S : f[x] = f[y] => x = y, \A x \in S : v[f[x]] = w[x]
    PROVE  IsFiniteSet({f[x] : x \in S}) /\ SumAt(v, {f[x] : x \in S}) = SumAt(w, S)
<1> DEFINE C == {f[x] : x \in S}
           u == [c \in C |-> SumAt(w, {x \in S : f[x] = c})]
<1>1. IsFiniteSet(C)
  <2> DEFINE g == [x \in S |-> f[x]]
  <2>1. g \in Surjection(S, C)
    BY DEF Surjection
  <2> QED BY <2>1, FS_Surjection
<1>2. \A x \in S : u[f[x]] = v[f[x]]
  <2> SUFFICES ASSUME NEW x \in S PROVE u[f[x]] = v[f[x]]
    OBVIOUS
  <2>1. {y \in S : f[y] = f[x]} = {} \cup {x}
    OBVIOUS
  <2>2. SumAt(w, {} \cup {x}) = SumAt(w, {}) + w[x]
    BY FS_EmptySet, SumOn DEF Weights
  <2>3. w[x] \in Int /\ {} \cup {x} = {x}
    BY DEF Weights
  <2>4. SumAt(w, {x}) = w[x]
    BY <2>2, <2>3, SumNone
  <2>5. u[f[x]] = SumAt(w, {y \in S : f[y] = f[x]})
    OBVIOUS
  <2> QED BY <2>1, <2>3, <2>4, <2>5
<1>3. SumAt(w, S) = SumAt(u, C)
  BY <1>1, SumParts
<1> HIDE DEF u
<1>4. \A c \in C : u[c] = v[c]
  BY <1>2
<1>5. SumAt(u, C) = SumAt(v, C)
  BY <1>1, <1>4, SumAlike
<1> QED BY <1>1, <1>3, <1>5

(* The amounts of what a function holds, or of records, are such sums.         *)
TotalAt(r, S) == FoldSet(LAMBDA i, s : s + r[i].amount, 0, S)
AmountsAt(r) == [i \in DOMAIN r |-> r[i].amount]
LEMMA TotalAtIs ==
    ASSUME NEW r, NEW S \in SUBSET DOMAIN r, IsFiniteSet(S)
    PROVE  TotalAt(r, S) = SumAt(AmountsAt(r), S)
<1> DEFINE w == [i \in S |-> r[i].amount]
<1>1. \A g : Rec(w, S, g) <=> g = [s \in SUBSET S |-> IF s = {} THEN 0 ELSE g[s \ {Some(s)}] + r[Some(s)].amount]
  <2>1. \A s \in SUBSET S : s # {} => Some(s) \in S
    BY DEF Some
  <2>2. \A s \in SUBSET S : s # {} => w[Some(s)] = r[Some(s)].amount
    BY <2>1
  <2> HIDE DEF w
  <2> SUFFICES ASSUME NEW g PROVE
        [s \in SUBSET S |-> IF s = {} THEN 0 ELSE g[s \ {Some(s)}] + w[Some(s)]]
           = [s \in SUBSET S |-> IF s = {} THEN 0 ELSE g[s \ {Some(s)}] + r[Some(s)].amount]
    BY DEF Rec
  <2> QED BY <2>2
<1>2. (CHOOSE g : Rec(w, S, g)) = (CHOOSE g : g = [s \in SUBSET S |-> IF s = {} THEN 0 ELSE g[s \ {Some(s)}] + r[Some(s)].amount])
  BY <1>1
<1>3. TotalAt(r, S) = (CHOOSE g : g = [s \in SUBSET S |-> IF s = {} THEN 0 ELSE g[s \ {Some(s)}] + r[Some(s)].amount])[S]
  BY DEF TotalAt, FoldSet, MapThenFoldSet, Some
<1>4. TotalAt(r, S) = SumAt(w, S)
  BY <1>2, <1>3, Unfold
<1>5. \A i \in S : w[i] = AmountsAt(r)[i]
  BY DEF AmountsAt
<1> HIDE DEF w
<1>6. SumAt(w, S) = SumAt(AmountsAt(r), S)
  BY <1>5, SumAlike
<1> QED BY <1>4, <1>6

TotalOf(S) == FoldSet(LAMBDA x, s : s + x.amount, 0, S)
AmountsOf(S) == [x \in S |-> x.amount]
LEMMA TotalOfIs ==
    ASSUME NEW S, IsFiniteSet(S)
    PROVE  TotalOf(S) = SumAt(AmountsOf(S), S)
<1> DEFINE w == [x \in S |-> x.amount]
<1>1. \A g : Rec(w, S, g) <=> g = [s \in SUBSET S |-> IF s = {} THEN 0 ELSE g[s \ {Some(s)}] + Some(s).amount]
  <2>1. \A s \in SUBSET S : s # {} => Some(s) \in S
    BY DEF Some
  <2>2. \A s \in SUBSET S : s # {} => w[Some(s)] = Some(s).amount
    BY <2>1
  <2> HIDE DEF w
  <2> SUFFICES ASSUME NEW g PROVE
        [s \in SUBSET S |-> IF s = {} THEN 0 ELSE g[s \ {Some(s)}] + w[Some(s)]]
           = [s \in SUBSET S |-> IF s = {} THEN 0 ELSE g[s \ {Some(s)}] + Some(s).amount]
    BY DEF Rec
  <2> QED BY <2>2
<1>2. (CHOOSE g : Rec(w, S, g)) = (CHOOSE g : g = [s \in SUBSET S |-> IF s = {} THEN 0 ELSE g[s \ {Some(s)}] + Some(s).amount])
  BY <1>1
<1>3. TotalOf(S) = (CHOOSE g : g = [s \in SUBSET S |-> IF s = {} THEN 0 ELSE g[s \ {Some(s)}] + Some(s).amount])[S]
  BY DEF TotalOf, FoldSet, MapThenFoldSet, Some
<1>4. TotalOf(S) = SumAt(w, S)
  BY <1>2, <1>3, Unfold
<1> QED BY <1>4 DEF AmountsOf

(* What is never negative adds up to what is not.                             *)
LEMMA SumNat ==
    ASSUME NEW w, NEW S, IsFiniteSet(S), \A x \in S : w[x] \in Nat
    PROVE  SumAt(w, S) \in Nat
<1> DEFINE P == {T \in SUBSET S : SumAt(w, T) \in Nat}
<1>1. ASSUME NEW T \in SUBSET S, NEW x \in S \ T, T \in P PROVE T \cup {x} \in P
  <2>1. SumAt(w, T \cup {x}) = SumAt(w, T) + w[x]
    BY FS_Subset, SumOn DEF Weights
  <2> QED BY <1>1, <2>1
<1>2. {} \in P
  BY SumNone
<1> HIDE DEF P
<1>3. S \in P
  BY <1>1, <1>2, OneMore
<1> QED BY <1>3 DEF P

(* What a finite set is mapped to is finite.                                  *)
LEMMA ImageFinite ==
    ASSUME NEW S, IsFiniteSet(S), NEW f PROVE IsFiniteSet({f[x] : x \in S})
<1> DEFINE g == [x \in S |-> f[x]]
<1>1. g \in Surjection(S, {f[x] : x \in S})
  BY DEF Surjection
<1> QED BY <1>1, FS_Surjection

(* A finite set of numbers has a least one, and a greatest.                   *)
LEMMA LeastThere ==
    ASSUME NEW S, IsFiniteSet(S), S # {}, S \in SUBSET Int
    PROVE  \E x \in S : \A y \in S : x <= y
<1> DEFINE P == {T \in SUBSET S : T # {} => \E x \in T : \A y \in T : x <= y}
<1>1. ASSUME NEW T \in SUBSET S, NEW x \in S \ T, T \in P PROVE T \cup {x} \in P
  <2>1. CASE T = {}
    BY <1>1, <2>1
  <2>2. CASE T # {}
    <3>1. PICK z \in T : \A y \in T : z <= y
      BY <1>1, <2>2
    <3>2. x \in Int /\ \A y \in T \cup {z} : y \in Int
      OBVIOUS
    <3>3. CASE x <= z
      <4>1. \A y \in T \cup {x} : x <= y
        BY <3>1, <3>2, <3>3
      <4> QED BY <4>1
    <3>4. CASE ~(x <= z)
      <4>1. \A y \in T \cup {x} : z <= y
        BY <3>1, <3>2, <3>4
      <4> QED BY <4>1
    <3> QED BY <3>3, <3>4
  <2> QED BY <2>1, <2>2
<1>2. {} \in P
  OBVIOUS
<1> HIDE DEF P
<1>3. S \in P
  BY <1>1, <1>2, OneMore
<1> QED BY <1>3 DEF P

LEMMA MinIs ==
    ASSUME NEW S, IsFiniteSet(S), S # {}, S \in SUBSET Int
    PROVE  Min(S) \in S /\ \A y \in S : Min(S) <= y
<1>1. \E x \in S : \A y \in S : x <= y
  BY LeastThere
<1> QED BY <1>1 DEF Min

LEMMA MaxIs ==
    ASSUME NEW S, IsFiniteSet(S), S # {}, S \in SUBSET Int
    PROVE  Max(S) \in S /\ \A y \in S : y <= Max(S)
<1> DEFINE f == [x \in S |-> -x]
           T == {f[x] : x \in S}
<1>1. T \in SUBSET Int /\ T # {} /\ IsFiniteSet(T)
  <2>1. IsFiniteSet(T)
    <3> HIDE DEF f
    <3> QED BY ImageFinite
  <2>2. \A x \in S : f[x] \in Int
    OBVIOUS
  <2> HIDE DEF f
  <2> QED BY <2>1, <2>2
<1>2. PICK t \in T : \A u \in T : t <= u
  <2> HIDE DEF T
  <2> QED BY <1>1, LeastThere
<1>3. PICK x \in S : t = -x
  BY <1>2
<1>4. ASSUME NEW y \in S PROVE x >= y
  <2>1. t <= -y
    BY <1>2
  <2> QED BY <1>3, <2>1
<1> QED BY <1>4 DEF Max

(* What is left of a division, and both sides of an inequality so many times. *)
LEMMA Quotient ==
    ASSUME NEW d \in Nat \ {0}, NEW x \in Int
    PROVE  x \div d \in Int /\ d * (x \div d) <= x /\ x < d * (x \div d) + d
  OBVIOUS

LEMMA Scaled ==
    ASSUME NEW m \in Nat, NEW x \in Int, NEW y \in Int, x <= y PROVE m * x <= m * y
<1>1. y - x \in Nat
  OBVIOUS
<1>2. m * (y - x) >= 0
  BY <1>1
<1>3. m * (y - x) = m * y - m * x
  OBVIOUS
<1>4. m * x \in Int /\ m * y \in Int
  OBVIOUS
<1> QED BY <1>2, <1>3, <1>4
=============================================================================
