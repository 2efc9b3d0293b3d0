----------------------------- MODULE GenesisProofs -----------------------------
(***************************************************************************)
(* The properties of exports and of the chains that start from them hold   *)
(* for any validators, delegators, fractions, fees and lengths of chains.  *)
(*                                                                         *)
(* The invariant says of the books of each validator (InOrder) that every  *)
(* period has the references it should have, that no two starts or slashes *)
(* share one, that ratios only grow, and that what is outstanding covers   *)
(* the commission, the rewards and all that its delegations have gained.   *)
(* So no withdrawal can fail, and what has been earned is what is paid.    *)
(* Then the surplus, what the account of the module has beyond its books,  *)
(* is nothing but what was refused, and each part of the export leaves     *)
(* what the parts after it still have to do.                               *)
(*                                                                         *)
(* The parts of the export are folds over sets of validators and of        *)
(* delegations: a table of the results for all subsets has the equation of *)
(* FoldSet, and what each step keeps holds of the whole.                   *)
(***************************************************************************)
EXTENDS Genesis, FiniteSetTheorems, SequenceTheorems, TLAPS

-----------------------------------------------------------------------------
(* Induction on finite sets, and folds *)

\* What holds of a set when it holds of its proper subsets holds of a finite set.
LEMMA FiniteInduction ==
    ASSUME NEW S, IsFiniteSet(S), NEW P,
           \A U \in SUBSET S : (\A V \in SUBSET U : V # U => V \in P) => U \in P
    PROVE  S \in P
<1> DEFINE Left == {U \in SUBSET S : U \notin P}
           Order == StrictSubsetOrdering(S)
<1>1. IsWellFoundedOn(Order, FiniteSubsetsOf(S)) /\ FiniteSubsetsOf(S) = SUBSET S
  BY FS_StrictSubsetOrderingWellFounded, FS_FiniteSubsetsOfFinite
<1>2. ASSUME Left # {}
      PROVE  FALSE
  <2>1. Left \subseteq FiniteSubsetsOf(S)
    BY <1>1
  <2>2. \E U \in Left : \A V \in Left : ~ (<<V, U>> \in Order)
    <3> HIDE DEF Order, Left
    <3>1. QED  BY <1>1, <1>2, <2>1, WFMin
  <2>3. PICK U \in Left : \A V \in Left : ~ (<<V, U>> \in Order)
    BY <2>2
  <2>4. PICK V \in SUBSET U : V # U /\ V \notin P
    BY <2>3
  <2>5. <<V, U>> \in Order /\ V \in Left
    BY <2>3, <2>4 DEF StrictSubsetOrdering
  <2>6. QED  BY <2>3, <2>5
<1>3. QED  BY <1>2

\* The same, one element at a time: of some element of every set it is enough to
\* know that the set without it is one.
LEMMA FiniteSteps ==
    ASSUME NEW S, IsFiniteSet(S), NEW P, {} \in P,
           \A U \in SUBSET S : U # {} => \E x \in U : U \ {x} \in P => U \in P
    PROVE  S \in P
<1>1. ASSUME NEW U \in SUBSET S, \A V \in SUBSET U : V # U => V \in P
      PROVE  U \in P
  <2>1. CASE U = {}
    BY <2>1
  <2>2. CASE U # {}
    <3>1. PICK x \in U : U \ {x} \in P => U \in P
      BY <2>2
    <3>2. U \ {x} \in SUBSET U /\ U \ {x} # U
      OBVIOUS
    <3>3. QED  BY <1>1, <3>1, <3>2
  <2>3. QED  BY <2>1, <2>2
<1>2. QED  BY <1>1, FiniteInduction

\* Induction on numbers, for a set of them.
LEMMA NatInductionSet ==
    ASSUME NEW S, 0 \in S, \A n \in Nat : n \in S => n + 1 \in S
    PROVE  \A n \in Nat : n \in S
<1> DEFINE Less == {ss \in Nat \X Nat : ss[1] < ss[2]}
           Left == Nat \ S
<1>1. IsWellFoundedOn(Less, Nat)
  BY NatLessThanWellFounded DEF OpToRel
<1>2. ASSUME Left # {}
      PROVE  FALSE
  <2> HIDE DEF Less
  <2>1. PICK x \in Left : \A y \in Left : <<y, x>> \notin Less
    BY <1>1, <1>2, WFMin
  <2>2. x \in Nat /\ x \notin S /\ x # 0
    BY <2>1
  <2>3. x - 1 \in Nat /\ <<x - 1, x>> \in Less
    BY <2>2 DEF Less
  <2>4. x - 1 \in S
    BY <2>1, <2>3
  <2>5. QED  BY <2>2, <2>3, <2>4
<1>3. QED  BY <1>2

\* The element that the folds of the community modules take first.
Chosen(U) == CHOOSE x \in U : TRUE

\* A set that is not empty has the element that is taken first.
LEMMA ChosenIn ==
    ASSUME NEW U, U # {}
    PROVE  Chosen(U) \in U
  BY DEF Chosen

\* The equation by which FoldSet is defined has a solution.
IsFold(h, S, base, op) ==
    h = [U \in SUBSET S |->
            IF U = {} THEN base ELSE op[<<Chosen(U), h[U \ {Chosen(U)}]>>]]

\* The table can be made, for every finite set, if steps stay in a type.
LEMMA FoldSolved ==
    ASSUME NEW S, IsFiniteSet(S), NEW T, NEW base \in T, NEW op \in [S \X T -> T]
    PROVE  \E h \in [SUBSET S -> T] : IsFold(h, S, base, op)
<1> DEFINE Below(n) == {U \in SUBSET S : Cardinality(U) <= n}
           Body(h, U) == IF U = {} THEN base ELSE op[<<Chosen(U), h[U \ {Chosen(U)}]>>]
           Solves(h, n) == h \in [Below(n) -> T] /\ \A U \in Below(n) : h[U] = Body(h, U)
           Solved == {n \in Nat : \E h \in [Below(n) -> T] : Solves(h, n)}
<1>1. \A U \in SUBSET S : /\ IsFiniteSet(U) /\ Cardinality(U) \in Nat
                          /\ Cardinality(U) <= Cardinality(S) /\ Cardinality(S) \in Nat
  BY FS_Subset, FS_CardinalityType
<1>2. \A U \in SUBSET S : U # {} => Chosen(U) \in U
  BY ChosenIn
<1>3. \A U \in SUBSET S : U # {} =>
         U \ {Chosen(U)} \in SUBSET S /\ Cardinality(U \ {Chosen(U)}) = Cardinality(U) - 1
  BY <1>1, <1>2, FS_RemoveElement
<1>4. Below(Cardinality(S)) = SUBSET S
  BY <1>1
<1>5. 0 \in Solved
  <2> DEFINE h == [U \in Below(0) |-> base]
  <2>1. \A U \in Below(0) : U = {}
    BY <1>1, FS_EmptySet
  <2>2. h \in [Below(0) -> T]
    OBVIOUS
  <2>3. \A U \in Below(0) : h[U] = Body(h, U)
    BY <2>1
  <2>4. QED  BY <2>2, <2>3
<1>6. ASSUME NEW n \in Nat, n \in Solved
      PROVE  n + 1 \in Solved
  <2>1. PICK h \in [Below(n) -> T] : Solves(h, n)
    BY <1>6
  <2> DEFINE k == [U \in Below(n + 1) |-> Body(h, U)]
  <2>2. ASSUME NEW U \in Below(n + 1), U # {}
        PROVE  Chosen(U) \in S /\ U \ {Chosen(U)} \in Below(n)
    <3> DEFINE V == U \ {Chosen(U)}
    <3>1. U \in SUBSET S /\ Cardinality(U) \in Nat /\ Cardinality(U) <= n + 1
      BY <1>1
    <3>2. Chosen(U) \in S
      BY <1>2, <2>2, <3>1
    <3>3. V \in SUBSET S /\ Cardinality(V) = Cardinality(U) - 1
      BY <1>3, <2>2, <3>1
    <3> HIDE DEF V
    <3>4. Cardinality(V) <= n
      BY <3>1, <3>3
    <3>5. V \in Below(n)
      BY <3>3, <3>4
    <3>6. QED  BY <3>2, <3>5 DEF V
  <2>3. \A U \in Below(n + 1) : Body(h, U) \in T
    BY <2>2
  <2>4. k \in [Below(n + 1) -> T]
    BY <2>3
  <2>5. \A U \in Below(n) : U \in Below(n + 1) /\ k[U] = h[U]
    BY <1>1, <2>1
  <2>6. \A U \in Below(n + 1) : k[U] = Body(k, U)
    BY <2>2, <2>5
  <2>7. Solves(k, n + 1)
    BY <2>4, <2>6
  <2>8. QED
    <3> HIDE DEF k, Below, Body
    <3>1. QED  BY <2>4, <2>7
<1>7. \A n \in Nat : n \in Solved
  <2> HIDE DEF Solved
  <2>1. \A n \in Nat : n \in Solved => n + 1 \in Solved
    BY <1>6
  <2>2. QED  BY <1>5, <2>1, NatInductionSet
<1>8. PICK h \in [SUBSET S -> T] : Solves(h, Cardinality(S))
  <2>1. Cardinality(S) \in Solved
    BY <1>1, <1>7
  <2>2. QED  BY <1>4, <2>1
<1>9. h = [U \in SUBSET S |-> Body(h, U)]
  BY <1>4, <1>8
<1>10. QED  BY <1>8, <1>9 DEF IsFold

-----------------------------------------------------------------------------
(* Sums *)

\* A table of the sums over all subsets, as SumFunctionOnSet makes one.
IsSums(g, f, S) ==
    g = [U \in SUBSET S |-> IF U = {} THEN 0 ELSE f[Chosen(U)] + g[U \ {Chosen(U)}]]

\* Sums are such tables; all tables agree where both have a sum.
LEMMA SumsExist ==
    ASSUME NEW S, IsFiniteSet(S), NEW f, \A x \in S : f[x] \in Int
    PROVE  \E g \in [SUBSET S -> Int] : IsSums(g, f, S)
<1> DEFINE op == [p \in S \X Int |-> f[p[1]] + p[2]]
<1>1. op \in [S \X Int -> Int]
  OBVIOUS
<1>2. 0 \in Int
  OBVIOUS
<1>3. \A x \in S, n \in Int : op[<<x, n>>] = f[x] + n
  OBVIOUS
<1> HIDE DEF op
<1>4. PICK h \in [SUBSET S -> Int] : IsFold(h, S, 0, op)
  BY <1>1, <1>2, FoldSolved
<1>5. \A U \in SUBSET S : U # {} => Chosen(U) \in S /\ U \ {Chosen(U)} \in SUBSET S
  BY ChosenIn
<1>6. \A U \in SUBSET S : U # {} =>
         op[<<Chosen(U), h[U \ {Chosen(U)}]>>] = f[Chosen(U)] + h[U \ {Chosen(U)}]
  BY <1>3, <1>5
<1>7. IsSums(h, f, S)
  BY <1>4, <1>6 DEF IsSums, IsFold
<1>8. QED  BY <1>7

LEMMA SumIsOne ==
    ASSUME NEW S, IsFiniteSet(S), NEW f, \A x \in S : f[x] \in Int
    PROVE  \E g : IsSums(g, f, S) /\ SumFunctionOnSet(f, S) = g[S]
<1>1. SumFunctionOnSet(f, S) = (CHOOSE g : IsSums(g, f, S))[S]
  BY DEF SumFunctionOnSet, FoldFunctionOnSet, MapThenFoldSet, IsSums, Chosen
<1>2. QED  BY <1>1, SumsExist

LEMMA SumsAgree ==
    ASSUME NEW S, IsFiniteSet(S), NEW f, NEW g, IsSums(g, f, S),
           NEW U \in SUBSET S, NEW h, IsSums(h, f, U)
    PROVE  g[U] = h[U]
<1> DEFINE P == {V \in SUBSET U : g[V] = h[V]}
<1>1. IsFiniteSet(U)
  BY FS_Subset
<1>2. {} \in P
  BY DEF IsSums
<1>3. ASSUME NEW V \in SUBSET U, V # {}
      PROVE  \E x \in V : V \ {x} \in P => V \in P
  <2>1. Chosen(V) \in V
    BY <1>3, ChosenIn
  <2>2. V \ {Chosen(V)} \in P => V \in P
    BY <1>3 DEF IsSums
  <2>3. QED  BY <2>1, <2>2
<1>4. U \in P
  <2> HIDE DEF P
  <2>1. QED  BY <1>1, <1>2, <1>3, FiniteSteps
<1>5. QED  BY <1>4

\* Nothing adds up to zero; the first element may be taken off.
LEMMA SumEmpty ==
    ASSUME NEW f
    PROVE  SumFunctionOnSet(f, {}) = 0
<1>1. IsFiniteSet({})
  BY FS_EmptySet
<1>2. PICK g : IsSums(g, f, {}) /\ SumFunctionOnSet(f, {}) = g[{}]
  BY <1>1, SumIsOne
<1>3. QED  BY <1>2 DEF IsSums

LEMMA SumChosen ==
    ASSUME NEW S, IsFiniteSet(S), S # {}, NEW f, \A x \in S : f[x] \in Int
    PROVE  SumFunctionOnSet(f, S) = f[Chosen(S)] + SumFunctionOnSet(f, S \ {Chosen(S)})
<1> DEFINE R == S \ {Chosen(S)}
<1>1. PICK g : IsSums(g, f, S) /\ SumFunctionOnSet(f, S) = g[S]
  BY SumIsOne
<1>2. IsFiniteSet(R) /\ R \in SUBSET S
  BY FS_Subset
<1>3. PICK h : IsSums(h, f, R) /\ SumFunctionOnSet(f, R) = h[R]
  BY <1>2, SumIsOne
<1>4. g[R] = h[R]
  BY <1>1, <1>2, <1>3, SumsAgree
<1>5. g[S] = f[Chosen(S)] + g[R]
  BY <1>1 DEF IsSums
<1>6. QED  BY <1>1, <1>3, <1>4, <1>5

\* Sums of integers are integers.
LEMMA SumInt ==
    ASSUME NEW S, IsFiniteSet(S), NEW f, \A x \in S : f[x] \in Int
    PROVE  SumFunctionOnSet(f, S) \in Int
<1>1. PICK g : IsSums(g, f, S) /\ SumFunctionOnSet(f, S) = g[S]
  BY SumIsOne
<1>2. PICK h \in [SUBSET S -> Int] : IsSums(h, f, S)
  BY SumsExist
<1>3. g[S] = h[S]
  BY <1>1, <1>2, SumsAgree
<1>4. QED  BY <1>1, <1>2, <1>3

\* Any element may be taken first.
LEMMA SumTake ==
    ASSUME NEW S, IsFiniteSet(S), NEW f, \A x \in S : f[x] \in Int, NEW y \in S
    PROVE  /\ SumFunctionOnSet(f, S) = f[y] + SumFunctionOnSet(f, S \ {y})
           /\ SumFunctionOnSet(f, S) \in Int /\ SumFunctionOnSet(f, S \ {y}) \in Int
<1> DEFINE Sum(U) == SumFunctionOnSet(f, U)
           P == {U \in SUBSET S : \A x \in U : Sum(U) = f[x] + Sum(U \ {x})}
<1>1. \A U \in SUBSET S : IsFiniteSet(U) /\ Sum(U) \in Int
  BY FS_Subset, SumInt
<1>2. \A U \in SUBSET S : U # {} =>
         Chosen(U) \in U /\ Sum(U) = f[Chosen(U)] + Sum(U \ {Chosen(U)})
  BY <1>1, SumChosen, ChosenIn
<1> HIDE DEF Sum
<1>3. ASSUME NEW U \in SUBSET S, \A V \in SUBSET U : V # U => V \in P
      PROVE  U \in P
  <2>1. ASSUME NEW x \in U
        PROVE  Sum(U) = f[x] + Sum(U \ {x})
    <3> DEFINE c == Chosen(U)
               V == U \ {x}
               W == U \ {c}
    <3>1. c \in U /\ Sum(U) = f[c] + Sum(W)
      BY <1>2
    <3>2. CASE x = c
      BY <3>1, <3>2
    <3>3. CASE x # c
      <4> HIDE DEF c
      <4>1. V \in P /\ W \in P /\ c \in V /\ x \in W
        BY <1>3, <2>1, <3>1, <3>3
      <4>2. Sum(V) = f[c] + Sum(V \ {c}) /\ Sum(W) = f[x] + Sum(W \ {x})
        BY <4>1
      <4>3. V \ {c} = W \ {x} /\ V \ {c} \in SUBSET S
        OBVIOUS
      <4>4. f[c] \in Int /\ f[x] \in Int /\ Sum(V \ {c}) \in Int
        BY <1>1, <2>1, <3>1, <4>3
      <4>5. Sum(U) = f[x] + Sum(V)
        <5>1. Sum(V \ {c}) = Sum(W \ {x})
          BY <4>3
        <5> HIDE DEF V, W
        <5>2. QED  BY <3>1, <4>2, <4>4, <5>1
      <4>6. QED  BY <4>5
    <3>4. QED  BY <3>2, <3>3
  <2>2. QED  BY <2>1
<1>4. S \in P
  <2> HIDE DEF P
  <2>1. QED  BY <1>3, FiniteInduction
<1>5. Sum(S) = f[y] + Sum(S \ {y}) /\ Sum(S) \in Int /\ Sum(S \ {y}) \in Int
  BY <1>1, <1>4
<1>6. QED  BY <1>5 DEF Sum

\* Sums are compared element by element.
LEMMA SumPlus ==
    ASSUME NEW S, IsFiniteSet(S), NEW f, NEW g, NEW h,
           \A x \in S : f[x] \in Int /\ g[x] \in Int /\ h[x] = f[x] + g[x]
    PROVE  SumFunctionOnSet(h, S) = SumFunctionOnSet(f, S) + SumFunctionOnSet(g, S)
<1> DEFINE F(U) == SumFunctionOnSet(f, U)
           G(U) == SumFunctionOnSet(g, U)
           H(U) == SumFunctionOnSet(h, U)
           P == {U \in SUBSET S : H(U) = F(U) + G(U)}
<1>1. \A U \in SUBSET S : IsFiniteSet(U)
  BY FS_Subset
<1>2. \A U \in SUBSET S : \A x \in U :
         /\ F(U) = f[x] + F(U \ {x}) /\ F(U \ {x}) \in Int
         /\ G(U) = g[x] + G(U \ {x}) /\ G(U \ {x}) \in Int
         /\ H(U) = h[x] + H(U \ {x}) /\ H(U \ {x}) \in Int
  <2> TAKE U \in SUBSET S
  <2> TAKE x \in U
  <2>1. IsFiniteSet(U) /\ \A y \in U : f[y] \in Int /\ g[y] \in Int /\ h[y] \in Int
    BY <1>1
  <2>2. QED  BY <2>1, SumTake
<1>3. F({}) = 0 /\ G({}) = 0 /\ H({}) = 0
  BY SumEmpty
<1> HIDE DEF F, G, H
<1>4. {} \in P
  BY <1>3
<1>5. ASSUME NEW U \in SUBSET S, U # {}
      PROVE  \E x \in U : U \ {x} \in P => U \in P
  <2>1. PICK x \in U : TRUE
    BY <1>5
  <2>2. U \ {x} \in P => U \in P
    BY <1>2, <2>1
  <2>3. QED  BY <2>2
<1>6. S \in P
  <2> HIDE DEF P
  <2>1. QED  BY <1>4, <1>5, FiniteSteps
<1>7. QED  BY <1>6 DEF F, G, H

\* Sums of what is not negative, of constants and of nothing.
LEMMA SumNat ==
    ASSUME NEW S, IsFiniteSet(S), NEW f, \A x \in S : f[x] \in Nat
    PROVE  SumFunctionOnSet(f, S) \in Nat
<1> DEFINE F(U) == SumFunctionOnSet(f, U)
           P == {U \in SUBSET S : F(U) \in Nat}
<1>1. \A U \in SUBSET S : IsFiniteSet(U)
  BY FS_Subset
<1>2. \A U \in SUBSET S : \A x \in U : F(U) = f[x] + F(U \ {x})
  <2> TAKE U \in SUBSET S
  <2> TAKE x \in U
  <2>1. IsFiniteSet(U) /\ \A y \in U : f[y] \in Int
    BY <1>1
  <2>2. QED  BY <2>1, SumTake
<1>3. F({}) = 0
  BY SumEmpty
<1> HIDE DEF F
<1>4. {} \in P
  BY <1>3
<1>5. ASSUME NEW U \in SUBSET S, U # {}
      PROVE  \E x \in U : U \ {x} \in P => U \in P
  <2>1. PICK x \in U : TRUE
    BY <1>5
  <2>2. U \in SUBSET S /\ f[x] \in Nat /\ F(U) = f[x] + F(U \ {x})
    BY <1>2, <2>1
  <2>4. U \ {x} \in P => U \in P
    BY <2>2
  <2>3. QED  BY <2>1, <2>4
<1>6. S \in P
  <2> HIDE DEF P
  <2>1. QED  BY <1>4, <1>5, FiniteSteps
<1>7. QED  BY <1>6 DEF F

LEMMA SumConstant ==
    ASSUME NEW S, IsFiniteSet(S), NEW f, NEW k \in Int, \A x \in S : f[x] = k
    PROVE  SumFunctionOnSet(f, S) = k * Cardinality(S)
<1> DEFINE F(U) == SumFunctionOnSet(f, U)
           P == {U \in SUBSET S : F(U) = k * Cardinality(U)}
<1>1. \A U \in SUBSET S : IsFiniteSet(U) /\ Cardinality(U) \in Nat
  BY FS_Subset, FS_CardinalityType
<1>2. \A U \in SUBSET S : \A x \in U : F(U) = f[x] + F(U \ {x})
  <2> TAKE U \in SUBSET S
  <2> TAKE x \in U
  <2>1. IsFiniteSet(U) /\ \A y \in U : f[y] \in Int
    BY <1>1
  <2>2. QED  BY <2>1, SumTake
<1>3. F({}) = 0 /\ Cardinality({}) = 0
  BY SumEmpty, FS_EmptySet
<1> HIDE DEF F
<1>4. {} \in P
  BY <1>3
<1>5. ASSUME NEW U \in SUBSET S, U # {}
      PROVE  \E x \in U : U \ {x} \in P => U \in P
  <2>1. PICK x \in U : TRUE
    BY <1>5
  <2>2. Cardinality(U \ {x}) = Cardinality(U) - 1
    BY <1>1, <2>1, FS_RemoveElement
  <2>3. k + k * (Cardinality(U) - 1) = k * Cardinality(U)
    BY <1>1
  <2>4. U \ {x} \in P => U \in P
    BY <1>2, <2>1, <2>2, <2>3
  <2>5. QED  BY <2>4
<1>6. S \in P
  <2> HIDE DEF P
  <2>1. QED  BY <1>4, <1>5, FiniteSteps
<1>7. QED  BY <1>6 DEF F

LEMMA SumZero ==
    ASSUME NEW S, IsFiniteSet(S), NEW f, \A x \in S : f[x] = 0
    PROVE  SumFunctionOnSet(f, S) = 0
<1>1. Cardinality(S) \in Nat
  BY FS_CardinalityType
<1>2. QED  BY <1>1, SumConstant

\* Equals have equal sums, and what is less has a smaller one.
LEMMA SumSame ==
    ASSUME NEW S, IsFiniteSet(S), NEW f, NEW g, \A x \in S : f[x] \in Int /\ g[x] = f[x]
    PROVE  SumFunctionOnSet(g, S) = SumFunctionOnSet(f, S)
<1> DEFINE zero == [x \in S |-> 0]
<1>1. \A x \in S : f[x] \in Int /\ zero[x] \in Int /\ g[x] = f[x] + zero[x]
  OBVIOUS
<1>2. SumFunctionOnSet(zero, S) = 0
  BY SumZero
<1>3. SumFunctionOnSet(f, S) \in Int
  BY SumInt
<1> HIDE DEF zero
<1>4. SumFunctionOnSet(g, S) = SumFunctionOnSet(f, S) + SumFunctionOnSet(zero, S)
  BY <1>1, SumPlus
<1>5. QED  BY <1>2, <1>3, <1>4

LEMMA SumLe ==
    ASSUME NEW S, IsFiniteSet(S), NEW f, NEW g,
           \A x \in S : f[x] \in Int /\ g[x] \in Int /\ f[x] <= g[x]
    PROVE  SumFunctionOnSet(f, S) <= SumFunctionOnSet(g, S)
<1> DEFINE rest == [x \in S |-> g[x] - f[x]]
<1>1. \A x \in S : f[x] \in Int /\ rest[x] \in Nat /\ g[x] = f[x] + rest[x]
  OBVIOUS
<1> HIDE DEF rest
<1>2. SumFunctionOnSet(rest, S) \in Nat
  BY <1>1, SumNat
<1>3. SumFunctionOnSet(f, S) \in Int
  BY SumInt
<1>4. SumFunctionOnSet(g, S) = SumFunctionOnSet(f, S) + SumFunctionOnSet(rest, S)
  BY <1>1, SumPlus
<1>5. QED  BY <1>2, <1>3, <1>4

\* What changes in one place changes the sum by as much.
LEMMA SumChange ==
    ASSUME NEW S, IsFiniteSet(S), NEW f, NEW g, NEW y \in S,
           \A x \in S : f[x] \in Int /\ g[x] \in Int,
           \A x \in S \ {y} : g[x] = f[x]
    PROVE  SumFunctionOnSet(g, S) = SumFunctionOnSet(f, S) + g[y] - f[y]
<1>1. /\ SumFunctionOnSet(f, S) = f[y] + SumFunctionOnSet(f, S \ {y})
      /\ SumFunctionOnSet(g, S) = g[y] + SumFunctionOnSet(g, S \ {y})
      /\ SumFunctionOnSet(f, S \ {y}) \in Int
  BY SumTake
<1>2. IsFiniteSet(S \ {y})
  BY FS_RemoveElement
<1>3. SumFunctionOnSet(g, S \ {y}) = SumFunctionOnSet(f, S \ {y})
  BY <1>2, SumSame
<1>4. QED  BY <1>1, <1>3

-----------------------------------------------------------------------------
(* The store of x/distribution *)

Histories == UNION {[P -> [ratio: Nat, refs: Nat \ {0}]] : P \in SUBSET Nat}
Books == [outstanding: Nat, commission: Nat, rewards: Nat, period: Nat \ {0},
          history: Histories]
Starts == UNION {[D -> [period: Nat, height: Nat]] : D \in SUBSET Pairs}
Slashes == [val: Validators, height: Nat, period: Nat]
Stores == [val: [Validators -> Books], starting: Starts, slashes: SUBSET Slashes,
           pool: Nat, balance: Int, paid: [Accounts -> Nat], panicked: BOOLEAN]

\* Histories and starts of all domains, of which TLC never needs the sets.
LEMMA HistoryMade ==
    ASSUME NEW P \in SUBSET Nat, NEW h \in [P -> [ratio: Nat, refs: Nat \ {0}]]
    PROVE  h \in Histories
  BY DEF Histories

LEMMA HistoryFacts ==
    ASSUME NEW h \in Histories
    PROVE  DOMAIN h \in SUBSET Nat /\ h \in [DOMAIN h -> [ratio: Nat, refs: Nat \ {0}]]
  BY DEF Histories

LEMMA StartsMade ==
    ASSUME NEW D \in SUBSET Pairs, NEW h \in [D -> [period: Nat, height: Nat]]
    PROVE  h \in Starts
  BY DEF Starts

LEMMA StartsFacts ==
    ASSUME NEW h \in Starts
    PROVE  DOMAIN h \in SUBSET Pairs /\ h \in [DOMAIN h -> [period: Nat, height: Nat]]
  BY DEF Starts

\* A store whose books of v are others.
WithBooks(t, v, b) == [t EXCEPT !.val = [t.val EXCEPT ![v] = b]]

\* The rest of a store stays as it was.
LEMMA WithBooksFacts ==
    ASSUME NEW t \in Stores, NEW v \in Validators, NEW b \in Books
    PROVE  /\ WithBooks(t, v, b) \in Stores
           /\ WithBooks(t, v, b).val[v] = b
           /\ \A w \in Validators \ {v} : WithBooks(t, v, b).val[w] = t.val[w]
           /\ WithBooks(t, v, b).starting = t.starting
           /\ WithBooks(t, v, b).slashes = t.slashes
           /\ WithBooks(t, v, b).pool = t.pool
           /\ WithBooks(t, v, b).balance = t.balance
           /\ WithBooks(t, v, b).paid = t.paid
           /\ WithBooks(t, v, b).panicked = t.panicked
  BY DEF Stores, WithBooks

\* The types of what is in the books of a validator.
LEMMA BooksFacts ==
    ASSUME NEW t \in Stores, NEW v \in Validators
    PROVE  /\ t.val[v] \in Books
           /\ t.val[v].outstanding \in Nat /\ t.val[v].commission \in Nat
           /\ t.val[v].rewards \in Nat /\ t.val[v].period \in Nat \ {0}
           /\ t.val[v].history \in Histories
           /\ \A p : Refs(t, v, p) \in Nat /\ Ratio(t, v, p) \in Nat
           /\ \A p : Refs(t, v, p) > 0 <=> p \in DOMAIN t.val[v].history
           /\ \A p : p \in DOMAIN t.val[v].history => p \in Nat
<1>1. t.val[v] \in Books
  BY DEF Stores
<1>2. /\ t.val[v].outstanding \in Nat /\ t.val[v].commission \in Nat
      /\ t.val[v].rewards \in Nat /\ t.val[v].period \in Nat \ {0}
      /\ t.val[v].history \in Histories
  BY <1>1 DEF Books
<1>3. \A p \in DOMAIN t.val[v].history :
          p \in Nat /\ t.val[v].history[p] \in [ratio: Nat, refs: Nat \ {0}]
  BY <1>2, HistoryFacts
<1>4. QED  BY <1>1, <1>2, <1>3 DEF Refs, Ratio

\* All but the books of v, and all of these but their history, are the same.
OnlyBooks(t, u, v) ==
    /\ u \in Stores
    /\ \A w \in Validators \ {v} : u.val[w] = t.val[w]
    /\ u.starting = t.starting /\ u.slashes = t.slashes /\ u.pool = t.pool
    /\ u.balance = t.balance /\ u.paid = t.paid /\ u.panicked = t.panicked

OnlyHistory(t, u, v) ==
    /\ OnlyBooks(t, u, v)
    /\ u.val[v].outstanding = t.val[v].outstanding
    /\ u.val[v].commission = t.val[v].commission
    /\ u.val[v].rewards = t.val[v].rewards
    /\ u.val[v].period = t.val[v].period

\* SetHistory changes one entry of one history.
LEMMA SetHistoryFacts ==
    ASSUME NEW t \in Stores, NEW v \in Validators,
           NEW p \in Nat, NEW ratio \in Nat, NEW refs \in Nat \ {0}
    PROVE  LET u == SetHistory(t, v, p, ratio, refs) IN
           /\ OnlyHistory(t, u, v)
           /\ Refs(u, v, p) = refs /\ Ratio(u, v, p) = ratio
           /\ \A q : q # p => Refs(u, v, q) = Refs(t, v, q) /\ Ratio(u, v, q) = Ratio(t, v, q)
           /\ DOMAIN u.val[v].history = DOMAIN t.val[v].history \cup {p}
<1> DEFINE b == t.val[v]
           h == [q \in DOMAIN b.history \cup {p} |->
                    IF q = p THEN [ratio |-> ratio, refs |-> refs] ELSE b.history[q]]
           e == [b EXCEPT !.history = h]
           u == WithBooks(t, v, e)
<1>1. b \in Books /\ b.history \in Histories
  BY BooksFacts
<1>2. DOMAIN b.history \in SUBSET Nat /\ b.history \in [DOMAIN b.history -> [ratio: Nat, refs: Nat \ {0}]]
  BY <1>1, HistoryFacts
<1>3. h \in Histories
  <2>1. DOMAIN b.history \cup {p} \in SUBSET Nat
    BY <1>2
  <2>2. h \in [DOMAIN b.history \cup {p} -> [ratio: Nat, refs: Nat \ {0}]]
    BY <1>2
  <2>3. QED  BY <2>1, <2>2, HistoryMade
<1>4. /\ e \in Books /\ e.history = h
      /\ e.outstanding = b.outstanding /\ e.commission = b.commission
      /\ e.rewards = b.rewards /\ e.period = b.period
  <2> HIDE DEF h, b
  <2>1. QED  BY <1>1, <1>3 DEF Books
<1>5. u = SetHistory(t, v, p, ratio, refs)
  <2>1. t.val \in [Validators -> Books] /\ t \in Stores
    BY DEF Stores
  <2>2. QED  BY <2>1 DEF SetHistory, WithBooks, Stores
<1>6. u.val[v] = e
  BY <1>4, WithBooksFacts
<1>7. DOMAIN h = DOMAIN b.history \cup {p} /\ h[p] = [ratio |-> ratio, refs |-> refs]
      /\ \A q \in DOMAIN b.history : q # p => h[q] = b.history[q]
  OBVIOUS
<1> HIDE DEF h, e, u, b
<1>8. Refs(u, v, p) = refs /\ Ratio(u, v, p) = ratio
  BY <1>4, <1>6, <1>7 DEF Refs, Ratio, b
<1>9. \A q : q # p => Refs(u, v, q) = Refs(t, v, q) /\ Ratio(u, v, q) = Ratio(t, v, q)
  BY <1>4, <1>6, <1>7 DEF Refs, Ratio, b
<1>10. /\ u \in Stores
       /\ \A w \in Validators \ {v} : u.val[w] = t.val[w]
       /\ u.starting = t.starting /\ u.slashes = t.slashes /\ u.pool = t.pool
       /\ u.balance = t.balance /\ u.paid = t.paid /\ u.panicked = t.panicked
  BY <1>4, WithBooksFacts DEF u
<1>11. DOMAIN u.val[v].history = DOMAIN t.val[v].history \cup {p}
  BY <1>4, <1>6, <1>7 DEF b
<1>12. OnlyHistory(t, u, v)
  BY <1>4, <1>6, <1>10 DEF OnlyHistory, OnlyBooks, b
<1>13. QED  BY <1>5, <1>8, <1>9, <1>11, <1>12

\* A period is forgotten.
HistoryWithout(t, v, p) == [t EXCEPT !.val[v].history = [q \in DOMAIN @ \ {p} |-> @[q]]]

LEMMA HistoryRemovedFacts ==
    ASSUME NEW t \in Stores, NEW v \in Validators, NEW p
    PROVE  LET u == HistoryWithout(t, v, p) IN
           /\ OnlyHistory(t, u, v)
           /\ Refs(u, v, p) = 0
           /\ \A q : q # p => Refs(u, v, q) = Refs(t, v, q) /\ Ratio(u, v, q) = Ratio(t, v, q)
           /\ DOMAIN u.val[v].history = DOMAIN t.val[v].history \ {p}
<1> DEFINE b == t.val[v]
           h == [q \in DOMAIN b.history \ {p} |-> b.history[q]]
           e == [b EXCEPT !.history = h]
           u == WithBooks(t, v, e)
<1>1. b \in Books /\ b.history \in Histories
  BY BooksFacts
<1>2. DOMAIN b.history \in SUBSET Nat /\ b.history \in [DOMAIN b.history -> [ratio: Nat, refs: Nat \ {0}]]
  BY <1>1, HistoryFacts
<1>3. h \in Histories
  <2>1. DOMAIN b.history \ {p} \in SUBSET Nat
    BY <1>2
  <2>2. h \in [DOMAIN b.history \ {p} -> [ratio: Nat, refs: Nat \ {0}]]
    BY <1>2
  <2>3. QED  BY <2>1, <2>2, HistoryMade
<1>4. /\ e \in Books /\ e.history = h
      /\ e.outstanding = b.outstanding /\ e.commission = b.commission
      /\ e.rewards = b.rewards /\ e.period = b.period
  <2> HIDE DEF h, b
  <2>1. QED  BY <1>1, <1>3 DEF Books
<1>5. u = HistoryWithout(t, v, p)
  <2>1. t.val \in [Validators -> Books] /\ t \in Stores
    BY DEF Stores
  <2>2. QED  BY <2>1 DEF WithBooks, HistoryWithout, Stores
<1>6. u.val[v] = e
  BY <1>4, WithBooksFacts
<1>7. DOMAIN h = DOMAIN b.history \ {p} /\ \A q \in DOMAIN h : h[q] = b.history[q]
  OBVIOUS
<1> HIDE DEF h, e, u, b
<1>8. Refs(u, v, p) = 0
  BY <1>4, <1>6, <1>7 DEF Refs
<1>9. \A q : q # p => Refs(u, v, q) = Refs(t, v, q) /\ Ratio(u, v, q) = Ratio(t, v, q)
  BY <1>4, <1>6, <1>7 DEF Refs, Ratio, b
<1>10. /\ u \in Stores
       /\ \A w \in Validators \ {v} : u.val[w] = t.val[w]
       /\ u.starting = t.starting /\ u.slashes = t.slashes /\ u.pool = t.pool
       /\ u.balance = t.balance /\ u.paid = t.paid /\ u.panicked = t.panicked
  BY <1>4, WithBooksFacts DEF u
<1>11. DOMAIN u.val[v].history = DOMAIN t.val[v].history \ {p}
  BY <1>4, <1>6, <1>7 DEF b
<1>12. OnlyHistory(t, u, v)
  BY <1>4, <1>6, <1>10 DEF OnlyHistory, OnlyBooks, b
<1>13. QED  BY <1>5, <1>8, <1>9, <1>11, <1>12

\* What is counted can be let go, and the last time a period is let go it is
\* forgotten.
LEMMA DecrementFacts ==
    ASSUME NEW t \in Stores, NEW v \in Validators, NEW p, Refs(t, v, p) > 0
    PROVE  LET u == decrementReferenceCount(t, v, p) IN
           /\ OnlyHistory(t, u, v)
           /\ Refs(u, v, p) = Refs(t, v, p) - 1
           /\ \A q : q # p => Refs(u, v, q) = Refs(t, v, q)
           /\ \A q : Refs(u, v, q) > 0 => Ratio(u, v, q) = Ratio(t, v, q)
<1>1. Refs(t, v, p) \in Nat /\ Ratio(t, v, p) \in Nat /\ p \in Nat
  BY BooksFacts
<1>2. CASE Refs(t, v, p) = 1
  <2> DEFINE u == HistoryWithout(t, v, p)
  <2>1. decrementReferenceCount(t, v, p) = u
    BY <1>2 DEF decrementReferenceCount, HistoryWithout
  <2>2. /\ OnlyHistory(t, u, v)
        /\ Refs(u, v, p) = 0
        /\ \A q : q # p => Refs(u, v, q) = Refs(t, v, q) /\ Ratio(u, v, q) = Ratio(t, v, q)
    BY HistoryRemovedFacts
  <2> HIDE DEF u
  <2>3. QED  BY <1>2, <2>1, <2>2
<1>3. CASE Refs(t, v, p) # 1
  <2> DEFINE u == SetHistory(t, v, p, Ratio(t, v, p), Refs(t, v, p) - 1)
  <2>1. decrementReferenceCount(t, v, p) = u
    BY <1>1, <1>3 DEF decrementReferenceCount
  <2>2. /\ OnlyHistory(t, u, v)
        /\ Refs(u, v, p) = Refs(t, v, p) - 1 /\ Ratio(u, v, p) = Ratio(t, v, p)
        /\ \A q : q # p => Refs(u, v, q) = Refs(t, v, q) /\ Ratio(u, v, q) = Ratio(t, v, q)
    <3>1. Refs(t, v, p) - 1 \in Nat \ {0}
      BY <1>1, <1>3
    <3>2. QED  BY <1>1, <3>1, SetHistoryFacts
  <2> HIDE DEF u
  <2>3. QED  BY <2>1, <2>2
<1>4. QED  BY <1>2, <1>3

\* A period is referred to once more.
LEMMA IncrementFacts ==
    ASSUME NEW t \in Stores, NEW v \in Validators, NEW p \in Nat, Refs(t, v, p) <= 2
    PROVE  LET u == incrementReferenceCount(t, v, p) IN
           /\ OnlyHistory(t, u, v)
           /\ Refs(u, v, p) = Refs(t, v, p) + 1
           /\ \A q : q # p => Refs(u, v, q) = Refs(t, v, q)
           /\ \A q : Ratio(u, v, q) = Ratio(t, v, q)
<1> DEFINE u == SetHistory(t, v, p, Ratio(t, v, p), Refs(t, v, p) + 1)
<1>1. Refs(t, v, p) \in Nat /\ Ratio(t, v, p) \in Nat
  BY BooksFacts
<1>2. incrementReferenceCount(t, v, p) = u
  BY <1>1 DEF incrementReferenceCount
<1>3. /\ OnlyHistory(t, u, v)
      /\ Refs(u, v, p) = Refs(t, v, p) + 1 /\ Ratio(u, v, p) = Ratio(t, v, p)
      /\ \A q : q # p => Refs(u, v, q) = Refs(t, v, q) /\ Ratio(u, v, q) = Ratio(t, v, q)
  <2>1. Refs(t, v, p) + 1 \in Nat \ {0}
    BY <1>1
  <2>2. QED  BY <1>1, <2>1, SetHistoryFacts
<1> HIDE DEF u
<1>4. QED  BY <1>2, <1>3

-----------------------------------------------------------------------------
(* Periods, starts and withdrawals *)

LastPeriod(t, v) == t.val[v].period - 1

\* A new period begins without rewards.
LEMMA PeriodSetFacts ==
    ASSUME NEW t \in Stores, NEW v \in Validators, NEW k \in Nat \ {0}
    PROVE  LET u == [t EXCEPT !.val[v].rewards = 0, !.val[v].period = k] IN
           /\ OnlyBooks(t, u, v)
           /\ u.val[v].outstanding = t.val[v].outstanding
           /\ u.val[v].commission = t.val[v].commission
           /\ u.val[v].rewards = 0
           /\ u.val[v].period = k
           /\ \A q : Refs(u, v, q) = Refs(t, v, q) /\ Ratio(u, v, q) = Ratio(t, v, q)
<1> DEFINE b == t.val[v]
           e == [b EXCEPT !.rewards = 0, !.period = k]
           u == WithBooks(t, v, e)
<1>1. b \in Books
  BY BooksFacts
<1>2. /\ e \in Books /\ e.history = b.history
      /\ e.outstanding = b.outstanding /\ e.commission = b.commission
      /\ e.rewards = 0 /\ e.period = k
  <2> HIDE DEF b
  <2>1. QED  BY <1>1 DEF Books
<1>3. u = [t EXCEPT !.val[v].rewards = 0, !.val[v].period = k]
  <2>1. t.val \in [Validators -> Books] /\ t \in Stores
    BY DEF Stores
  <2>2. QED  BY <2>1 DEF WithBooks, Stores
<1>4. u.val[v] = e
  BY <1>2, WithBooksFacts
<1> HIDE DEF e, u, b
<1>5. \A q : Refs(u, v, q) = Refs(t, v, q) /\ Ratio(u, v, q) = Ratio(t, v, q)
  BY <1>2, <1>4 DEF Refs, Ratio, b
<1>6. OnlyBooks(t, u, v)
  BY <1>2, WithBooksFacts DEF u, OnlyBooks
<1>7. QED  BY <1>2, <1>3, <1>4, <1>5, <1>6 DEF b

\* What is cut in a division is lost.
LEMMA DivFacts ==
    ASSUME NEW a \in Nat, NEW n \in Nat \ {0}
    PROVE  a \div n \in Nat /\ n * (a \div n) <= a /\ (a \div n) * n <= a
  OBVIOUS

\* The end of a period: its rewards are in the ratio of the new last one.
LEMMA PeriodFacts ==
    ASSUME NEW t \in Stores, NEW v \in Validators, NEW tokens \in Nat \ {0},
           Refs(t, v, LastPeriod(t, v)) > 0
    PROVE  LET u == IncrementValidatorPeriod(t, v, tokens)
               p == t.val[v].period
           IN
           /\ OnlyBooks(t, u, v)
           /\ u.val[v].outstanding = t.val[v].outstanding
           /\ u.val[v].commission = t.val[v].commission
           /\ u.val[v].rewards = 0
           /\ u.val[v].period = p + 1 /\ LastPeriod(u, v) = p
           /\ Refs(u, v, p) = 1 /\ Refs(u, v, p - 1) = Refs(t, v, p - 1) - 1
           /\ \A q : q \notin {p, p - 1} => Refs(u, v, q) = Refs(t, v, q)
           /\ Ratio(u, v, p) = Ratio(t, v, p - 1) + t.val[v].rewards \div tokens
           /\ \A q : q # p /\ Refs(u, v, q) > 0 => Ratio(u, v, q) = Ratio(t, v, q)
<1> DEFINE p == t.val[v].period
           ratio == Ratio(t, v, p - 1) + t.val[v].rewards \div tokens
           t1 == decrementReferenceCount(t, v, p - 1)
           t2 == SetHistory(t1, v, p, ratio, 1)
           u == [t2 EXCEPT !.val[v].rewards = 0, !.val[v].period = p + 1]
<1>1. p \in Nat \ {0} /\ ratio \in Nat /\ Refs(t, v, p - 1) > 0
  BY BooksFacts, DivFacts DEF LastPeriod
<1>2. u = IncrementValidatorPeriod(t, v, tokens)
  BY DEF IncrementValidatorPeriod
<1> HIDE DEF p, ratio
<1>3. /\ OnlyHistory(t, t1, v)
      /\ Refs(t1, v, p - 1) = Refs(t, v, p - 1) - 1
      /\ \A q : q # p - 1 => Refs(t1, v, q) = Refs(t, v, q)
      /\ \A q : Refs(t1, v, q) > 0 => Ratio(t1, v, q) = Ratio(t, v, q)
  BY <1>1, DecrementFacts
<1>4. t1 \in Stores
  BY <1>3 DEF OnlyHistory, OnlyBooks
<1> HIDE DEF t1
<1>5. /\ OnlyHistory(t1, t2, v)
      /\ Refs(t2, v, p) = 1 /\ Ratio(t2, v, p) = ratio
      /\ \A q : q # p => Refs(t2, v, q) = Refs(t1, v, q) /\ Ratio(t2, v, q) = Ratio(t1, v, q)
  <2>1. p \in Nat /\ ratio \in Nat /\ 1 \in Nat \ {0}
    BY <1>1
  <2>2. QED  BY <1>4, <2>1, SetHistoryFacts
<1>6. t2 \in Stores
  BY <1>5 DEF OnlyHistory, OnlyBooks
<1> HIDE DEF t2
<1>7. /\ OnlyBooks(t2, u, v)
      /\ u.val[v].outstanding = t2.val[v].outstanding
      /\ u.val[v].commission = t2.val[v].commission
      /\ u.val[v].rewards = 0
      /\ u.val[v].period = p + 1
      /\ \A q : Refs(u, v, q) = Refs(t2, v, q) /\ Ratio(u, v, q) = Ratio(t2, v, q)
  <2>1. p + 1 \in Nat \ {0}
    BY <1>1
  <2>2. QED  BY <1>6, <2>1, PeriodSetFacts
<1> HIDE DEF u
<1>8. OnlyBooks(t, u, v)
  BY <1>3, <1>5, <1>7 DEF OnlyHistory, OnlyBooks
<1>9. /\ u.val[v].outstanding = t.val[v].outstanding
      /\ u.val[v].commission = t.val[v].commission
  BY <1>3, <1>5, <1>7 DEF OnlyHistory
<1>10. /\ Refs(u, v, p) = 1 /\ Refs(u, v, p - 1) = Refs(t, v, p - 1) - 1
       /\ \A q : q \notin {p, p - 1} => Refs(u, v, q) = Refs(t, v, q)
       /\ Ratio(u, v, p) = ratio
       /\ \A q : q # p /\ Refs(u, v, q) > 0 => Ratio(u, v, q) = Ratio(t, v, q)
  BY <1>1, <1>3, <1>5, <1>7
<1>11. LastPeriod(u, v) = p
  BY <1>1, <1>7 DEF LastPeriod
<1>12. QED  BY <1>2, <1>7, <1>8, <1>9, <1>10, <1>11 DEF p, ratio

-----------------------------------------------------------------------------
(* Books in order *)

Bit(b) == IF b THEN 1 ELSE 0
StartedAt(t, E, p) == \E d \in E : t.starting[d].period = p
SlashedAt(t, v, p) == \E e \in t.slashes : e.val = v /\ e.period = p

\* What d has gained up to the last period, and all of E together.
Gain(t, v, d) == Ratio(t, v, LastPeriod(t, v)) - Ratio(t, v, t.starting[d].period)
Gains(t, E, v) == SumFunction([d \in E |-> Gain(t, v, d)])

\* Every period has the references that it should have.
Counted(t, E, v) ==
    \A p \in Nat : Refs(t, v, p) = Bit(p = LastPeriod(t, v)) + Bit(StartedAt(t, E, p))
                                     + Bit(SlashedAt(t, v, p))

\* No two starts or slashes are of the same period, and none is of a later one.
Apart(t, E, v) ==
    /\ \A d \in E : t.starting[d].period <= LastPeriod(t, v)
    /\ \A e \in t.slashes : e.val = v => e.period <= LastPeriod(t, v)
    /\ \A d, e \in E : t.starting[d].period = t.starting[e].period => d = e
    /\ \A e, f \in t.slashes : e.val = v /\ f.val = v /\ e.period = f.period => e = f
    /\ \A d \in E, e \in t.slashes : e.val = v => t.starting[d].period # e.period

\* Ratios have only grown.
Growing(t, v) ==
    \A p : Refs(t, v, p) > 0 => Ratio(t, v, p) <= Ratio(t, v, LastPeriod(t, v))

\* What is outstanding is enough for all that can be withdrawn.
Covered(t, E, v) ==
    t.val[v].commission + t.val[v].rewards + Gains(t, E, v) <= t.val[v].outstanding

InOrder(t, E, v) ==
    /\ IsFiniteSet(E) /\ E \subseteq DOMAIN t.starting
    /\ Counted(t, E, v) /\ Apart(t, E, v) /\ Growing(t, v) /\ Covered(t, E, v)

\* Nothing has started or was slashed in the last period.
Fresh(t, E, v) ==
    ~StartedAt(t, E, LastPeriod(t, v)) /\ ~SlashedAt(t, v, LastPeriod(t, v))

\* The types of starts and of the last period.
LEMMA StartTyped ==
    ASSUME NEW t \in Stores, NEW d \in DOMAIN t.starting
    PROVE  d \in Pairs /\ t.starting[d].period \in Nat /\ t.starting[d].height \in Nat
<1>1. t.starting \in Starts
  BY DEF Stores
<1>2. QED  BY <1>1, StartsFacts

LEMMA LastPeriodTyped ==
    ASSUME NEW t \in Stores, NEW v \in Validators
    PROVE  LastPeriod(t, v) \in Nat
  BY BooksFacts DEF LastPeriod

\* Counts are at most two, and what is referred to is there.
LEMMA CountedFacts ==
    ASSUME NEW t \in Stores, NEW v \in Validators, NEW E, E \subseteq DOMAIN t.starting,
           Counted(t, E, v), Apart(t, E, v)
    PROVE  /\ Refs(t, v, LastPeriod(t, v)) > 0
           /\ \A p : Refs(t, v, p) <= 2
           /\ \A d \in E : Refs(t, v, t.starting[d].period) > 0
<1>1. LastPeriod(t, v) \in Nat /\ \A d \in E : t.starting[d].period \in Nat
  BY LastPeriodTyped, StartTyped
<1>2. \A p : ~ (StartedAt(t, E, p) /\ SlashedAt(t, v, p))
  BY DEF Apart, StartedAt, SlashedAt
<1>3. Refs(t, v, LastPeriod(t, v)) > 0
  BY <1>1 DEF Counted, Bit
<1>4. \A p \in Nat : Refs(t, v, p) <= 2
  BY <1>2 DEF Counted, Bit
<1>5. \A p : p \notin Nat => Refs(t, v, p) <= 2
  <2>1. \A p : p \notin Nat => Refs(t, v, p) \in Nat /\ ~ (Refs(t, v, p) > 0)
    BY BooksFacts
  <2>2. QED  BY <2>1
<1>6. ASSUME NEW d \in E
      PROVE  Refs(t, v, t.starting[d].period) > 0
  <2> DEFINE p == t.starting[d].period
  <2>1. p \in Nat /\ StartedAt(t, E, p)
    BY <1>1 DEF StartedAt
  <2>2. Refs(t, v, p) = Bit(p = LastPeriod(t, v)) + Bit(StartedAt(t, E, p))
                                     + Bit(SlashedAt(t, v, p))
    BY <2>1 DEF Counted
  <2> HIDE DEF p
  <2>3. QED  BY <2>1, <2>2 DEF Bit, p
<1>7. QED  BY <1>3, <1>4, <1>5, <1>6

\* Nobody has lost.
LEMMA GainsFacts ==
    ASSUME NEW t \in Stores, NEW v \in Validators, NEW E, IsFiniteSet(E),
           E \subseteq DOMAIN t.starting, Counted(t, E, v), Apart(t, E, v), Growing(t, v)
    PROVE  /\ \A d \in E : Gain(t, v, d) \in Nat
           /\ Gains(t, E, v) = SumFunctionOnSet([d \in E |-> Gain(t, v, d)], E)
           /\ Gains(t, E, v) \in Nat
<1>1. ASSUME NEW d \in E
      PROVE  Gain(t, v, d) \in Nat
  <2>1. Refs(t, v, t.starting[d].period) > 0
    BY CountedFacts
  <2>2. /\ Ratio(t, v, t.starting[d].period) \in Nat /\ Ratio(t, v, LastPeriod(t, v)) \in Nat
        /\ Ratio(t, v, t.starting[d].period) <= Ratio(t, v, LastPeriod(t, v))
    BY <2>1, BooksFacts DEF Growing
  <2>3. QED  BY <2>2 DEF Gain
<1>2. Gains(t, E, v) = SumFunctionOnSet([d \in E |-> Gain(t, v, d)], E)
  BY DEF Gains, SumFunction
<1>3. SumFunctionOnSet([d \in E |-> Gain(t, v, d)], E) \in Nat
  <2> DEFINE f == [d \in E |-> Gain(t, v, d)]
  <2>1. \A d \in E : f[d] \in Nat
    BY <1>1
  <2> HIDE DEF f
  <2>2. SumFunctionOnSet(f, E) \in Nat
    BY <2>1, SumNat
  <2>3. QED  BY <2>2 DEF f
<1>4. QED  BY <1>1, <1>2, <1>3

\* Order is kept by what leaves the books, starts and slashes of a validator alone.
LEMMA OrderSame ==
    ASSUME NEW t, NEW u, NEW v, NEW E,
           u.val[v] = t.val[v], E \subseteq DOMAIN u.starting,
           \A d \in E : u.starting[d] = t.starting[d],
           \A e : e.val = v => (e \in u.slashes <=> e \in t.slashes),
           InOrder(t, E, v)
    PROVE  InOrder(u, E, v)
<1>1. /\ LastPeriod(u, v) = LastPeriod(t, v)
      /\ \A p : Refs(u, v, p) = Refs(t, v, p)
      /\ \A p : Ratio(u, v, p) = Ratio(t, v, p)
      /\ u.val[v].commission = t.val[v].commission
      /\ u.val[v].rewards = t.val[v].rewards
      /\ u.val[v].outstanding = t.val[v].outstanding
  BY DEF Refs, Ratio, LastPeriod
<1>2. \A p : StartedAt(u, E, p) = StartedAt(t, E, p) /\ SlashedAt(u, v, p) = SlashedAt(t, v, p)
  BY DEF StartedAt, SlashedAt
<1>3. Counted(u, E, v)
  BY <1>1, <1>2 DEF Counted, InOrder
<1>4. Apart(u, E, v)
  BY <1>1 DEF Apart, InOrder
<1>5. Growing(u, v)
  BY <1>1 DEF Growing, InOrder
<1>6. Gains(u, E, v) = Gains(t, E, v)
  <2>1. [d \in E |-> Gain(u, v, d)] = [d \in E |-> Gain(t, v, d)]
    BY <1>1 DEF Gain
  <2>2. QED  BY <2>1 DEF Gains
<1>7. Covered(u, E, v)
  BY <1>1, <1>6 DEF Covered, InOrder
<1>8. QED  BY <1>3, <1>4, <1>5, <1>7 DEF InOrder

\* The end of a period keeps the order, and what has been earned.
LEMMA PeriodOrder ==
    ASSUME NEW t \in Stores, NEW v \in Validators, NEW E, InOrder(t, E, v),
           NEW tokens \in Nat \ {0}, Cardinality(E) <= tokens
    PROVE  LET u == IncrementValidatorPeriod(t, v, tokens) IN
           /\ InOrder(u, E, v) /\ Fresh(u, E, v)
           /\ \A d \in E : Gain(u, v, d) = Gain(t, v, d) + t.val[v].rewards \div tokens
<1> DEFINE u == IncrementValidatorPeriod(t, v, tokens)
           p == t.val[v].period
           x == t.val[v].rewards \div tokens
<1>a. IsFiniteSet(E) /\ E \subseteq DOMAIN t.starting /\ Counted(t, E, v) /\ Apart(t, E, v)
      /\ Growing(t, v) /\ Covered(t, E, v)
  BY DEF InOrder
<1>1. Refs(t, v, LastPeriod(t, v)) > 0
  BY <1>a, CountedFacts
<1>2. /\ OnlyBooks(t, u, v)
      /\ u.val[v].outstanding = t.val[v].outstanding
      /\ u.val[v].commission = t.val[v].commission
      /\ u.val[v].rewards = 0
      /\ LastPeriod(u, v) = p
      /\ Refs(u, v, p) = 1 /\ Refs(u, v, p - 1) = Refs(t, v, p - 1) - 1
      /\ \A q : q \notin {p, p - 1} => Refs(u, v, q) = Refs(t, v, q)
      /\ Ratio(u, v, p) = Ratio(t, v, p - 1) + x
      /\ \A q : q # p /\ Refs(u, v, q) > 0 => Ratio(u, v, q) = Ratio(t, v, q)
  BY <1>1, PeriodFacts
<1> HIDE DEF u
<1>3. u \in Stores /\ u.starting = t.starting /\ u.slashes = t.slashes
  BY <1>2 DEF OnlyBooks
<1>4. p \in Nat \ {0} /\ t.val[v].rewards \in Nat /\ x \in Nat /\ LastPeriod(t, v) = p - 1
  <2>1. p \in Nat \ {0} /\ t.val[v].rewards \in Nat
    BY BooksFacts
  <2>2. x \in Nat
    BY <2>1, DivFacts
  <2>3. QED  BY <2>1, <2>2 DEF LastPeriod
<1>5. tokens * x <= t.val[v].rewards
  BY <1>4, DivFacts
<1> HIDE DEF p, x
<1>6. \A d \in E : t.starting[d].period \in Nat /\ t.starting[d].period <= p - 1
  BY <1>a, <1>4, StartTyped DEF Apart
<1>7. \A e \in t.slashes : e.val = v => e.period \in Nat /\ e.period <= p - 1
  <2>1. t.slashes \subseteq Slashes
    BY DEF Stores
  <2>2. QED  BY <1>a, <1>4, <2>1 DEF Apart, Slashes
<1>8. \A q : StartedAt(u, E, q) = StartedAt(t, E, q) /\ SlashedAt(u, v, q) = SlashedAt(t, v, q)
  BY <1>3 DEF StartedAt, SlashedAt
<1>9. ~StartedAt(t, E, p) /\ ~SlashedAt(t, v, p)
  BY <1>4, <1>6, <1>7 DEF StartedAt, SlashedAt
<1>10. Counted(u, E, v)
  <2>1. SUFFICES ASSUME NEW q \in Nat
                 PROVE  Refs(u, v, q) = Bit(q = p) + Bit(StartedAt(t, E, q)) + Bit(SlashedAt(t, v, q))
    BY <1>2, <1>8 DEF Counted
  <2>2. Refs(t, v, q) = Bit(q = p - 1) + Bit(StartedAt(t, E, q)) + Bit(SlashedAt(t, v, q))
    BY <1>4, <1>a DEF Counted
  <2>3. CASE q = p
    BY <2>3, <1>2, <1>9 DEF Bit
  <2>4. CASE q = p - 1
    BY <2>4, <2>2, <1>2, <1>4 DEF Bit
  <2>5. CASE q \notin {p, p - 1}
    BY <2>5, <2>2, <1>2, <1>4 DEF Bit
  <2>6. QED  BY <2>3, <2>4, <2>5
<1>11. Apart(u, E, v)
  <2>1. /\ \A d \in E : u.starting[d].period <= p
        /\ \A e \in u.slashes : e.val = v => e.period <= p
    BY <1>3, <1>4, <1>6, <1>7
  <2>2. QED  BY <1>2, <1>3, <1>a, <2>1 DEF Apart
<1>12. \A q : Refs(u, v, q) > 0 /\ q # p => Refs(t, v, q) > 0 /\ Ratio(u, v, q) = Ratio(t, v, q)
  <2>1. TAKE q
  <2>2. HAVE Refs(u, v, q) > 0 /\ q # p
  <2>3. CASE q = p - 1
    <3>1. Refs(t, v, p - 1) \in Nat
      BY BooksFacts
    <3>2. QED  BY <2>2, <2>3, <1>2, <3>1
  <2>4. CASE q # p - 1
    BY <2>2, <2>4, <1>2
  <2>5. QED  BY <2>3, <2>4
<1>13. Growing(u, v)
  <2>1. SUFFICES ASSUME NEW q, Refs(u, v, q) > 0
                 PROVE  Ratio(u, v, q) <= Ratio(u, v, p)
    BY <1>2 DEF Growing
  <2>2. Ratio(t, v, q) \in Nat /\ Ratio(t, v, p - 1) \in Nat /\ Ratio(u, v, p) \in Nat
    BY <1>3, BooksFacts
  <2>3. CASE q = p
    BY <2>2, <2>3
  <2>4. CASE q # p
    <3>1. Ratio(u, v, q) = Ratio(t, v, q) /\ Refs(t, v, q) > 0
      BY <2>1, <2>4, <1>12
    <3>2. Ratio(t, v, q) <= Ratio(t, v, p - 1)
      BY <1>4, <1>a, <3>1 DEF Growing
    <3>3. QED  BY <1>2, <1>4, <2>2, <3>1, <3>2
  <2>5. QED  BY <2>3, <2>4
<1>14. \A d \in E : Gain(u, v, d) = Gain(t, v, d) + x
  <2>1. SUFFICES ASSUME NEW d \in E
                 PROVE  Gain(u, v, d) = Gain(t, v, d) + x
    OBVIOUS
  <2> DEFINE q == t.starting[d].period
  <2>2. u.starting[d].period = q /\ q # p /\ Refs(u, v, q) > 0
    <3>1. Refs(u, v, u.starting[d].period) > 0
      BY <1>10, <1>11, <1>3, <1>a, CountedFacts
    <3>2. QED  BY <1>3, <1>4, <1>6, <3>1
  <2>3. Ratio(u, v, q) = Ratio(t, v, q) /\ Ratio(t, v, q) \in Nat /\ Ratio(t, v, p - 1) \in Nat
    BY <2>2, <1>12, BooksFacts
  <2> HIDE DEF q
  <2>4. Gain(u, v, d) = Ratio(t, v, p - 1) + x - Ratio(t, v, q)
    <3>1. Gain(u, v, d) = Ratio(u, v, LastPeriod(u, v)) - Ratio(u, v, u.starting[d].period)
      BY DEF Gain
    <3>2. LastPeriod(u, v) = p /\ u.starting[d].period = q /\ Ratio(u, v, q) = Ratio(t, v, q)
          /\ Ratio(u, v, p) = Ratio(t, v, p - 1) + x
      BY <1>2, <2>2, <2>3
    <3>3. Gain(u, v, d) = Ratio(u, v, p) - Ratio(u, v, q)
      BY <3>1, <3>2
    <3>4. QED  BY <3>2, <3>3, <2>3, <1>4
  <2>5. Gain(t, v, d) = Ratio(t, v, p - 1) - Ratio(t, v, q)
    BY <1>4 DEF Gain, q
  <2>6. QED  BY <2>3, <2>4, <2>5, <1>4
<1>15. Covered(u, E, v)
  <2> DEFINE f == [d \in E |-> Gain(t, v, d)]
             k == [d \in E |-> x]
             g == [d \in E |-> Gain(u, v, d)]
  <2>1. /\ \A d \in E : Gain(t, v, d) \in Nat
        /\ Gains(t, E, v) = SumFunctionOnSet(f, E) /\ Gains(t, E, v) \in Nat
    BY <1>a, GainsFacts
  <2>2. Gains(u, E, v) = SumFunctionOnSet(g, E)
    BY <1>10, <1>11, <1>13, <1>a, <1>3, GainsFacts
  <2>3. \A d \in E : f[d] \in Int /\ k[d] \in Int /\ g[d] = f[d] + k[d] /\ k[d] = x
    BY <1>14, <2>1, <1>4
  <2> HIDE DEF f, k, g
  <2>4. SumFunctionOnSet(g, E) = SumFunctionOnSet(f, E) + SumFunctionOnSet(k, E)
    BY <1>a, <2>3, SumPlus
  <2>5. SumFunctionOnSet(k, E) = x * Cardinality(E)
    BY <1>a, <1>4, <2>3, SumConstant
  <2>6. x * Cardinality(E) <= t.val[v].rewards
    <3>1. Cardinality(E) \in Nat
      BY <1>a, FS_CardinalityType
    <3>2. x * Cardinality(E) <= tokens * x
      BY <3>1, <1>4
    <3>3. x * Cardinality(E) \in Nat /\ tokens * x \in Nat
      BY <3>1, <1>4
    <3>4. QED  BY <3>2, <3>3, <1>4, <1>5
  <2>7. x * Cardinality(E) \in Nat
    <3>1. Cardinality(E) \in Nat
      BY <1>a, FS_CardinalityType
    <3>2. QED  BY <3>1, <1>4
  <2> DEFINE n == x * Cardinality(E)
  <2>8. Gains(u, E, v) = Gains(t, E, v) + n /\ n \in Nat /\ n <= t.val[v].rewards
    BY <2>1, <2>2, <2>4, <2>5, <2>6, <2>7
  <2> HIDE DEF n
  <2>9. /\ t.val[v].commission \in Nat /\ t.val[v].outstanding \in Nat
        /\ t.val[v].commission + t.val[v].rewards + Gains(t, E, v) <= t.val[v].outstanding
    BY <1>a, BooksFacts DEF Covered
  <2>10. t.val[v].commission + 0 + Gains(u, E, v) <= t.val[v].outstanding
    BY <2>1, <2>8, <2>9, <1>4
  <2>11. QED  BY <1>2, <2>10 DEF Covered
<1>16. InOrder(u, E, v)
  BY <1>3, <1>a, <1>10, <1>11, <1>13, <1>15 DEF InOrder
<1>17. Fresh(u, E, v)
  BY <1>2, <1>8, <1>9 DEF Fresh
<1>18. QED  BY <1>14, <1>16, <1>17 DEF u, x

-----------------------------------------------------------------------------
(* The operations of x/distribution keep the order *)

\* Starts that come and go.
LEMMA StartsExtended ==
    ASSUME NEW f \in Starts, NEW d \in Pairs, NEW r \in [period: Nat, height: Nat]
    PROVE  LET g == [e \in DOMAIN f \cup {d} |-> IF e = d THEN r ELSE f[e]] IN
           /\ g \in Starts /\ DOMAIN g = DOMAIN f \cup {d} /\ g[d] = r
           /\ \A e \in DOMAIN f \ {d} : g[e] = f[e]
<1> DEFINE D == DOMAIN f \cup {d}
           g == [e \in D |-> IF e = d THEN r ELSE f[e]]
<1>1. DOMAIN f \in SUBSET Pairs /\ f \in [DOMAIN f -> [period: Nat, height: Nat]]
  BY StartsFacts
<1>2. D \in SUBSET Pairs /\ g \in [D -> [period: Nat, height: Nat]]
  BY <1>1
<1>3. g \in Starts
  <2> HIDE DEF D, g
  <2>1. QED  BY <1>2, StartsMade
<1>4. QED  BY <1>3

LEMMA StartsRemoved ==
    ASSUME NEW f \in Starts, NEW d
    PROVE  LET g == [e \in DOMAIN f \ {d} |-> f[e]] IN
           /\ g \in Starts /\ DOMAIN g = DOMAIN f \ {d}
           /\ \A e \in DOMAIN f \ {d} : g[e] = f[e]
<1> DEFINE D == DOMAIN f \ {d}
           g == [e \in D |-> f[e]]
<1>1. DOMAIN f \in SUBSET Pairs /\ f \in [DOMAIN f -> [period: Nat, height: Nat]]
  BY StartsFacts
<1>2. D \in SUBSET Pairs /\ g \in [D -> [period: Nat, height: Nat]]
  BY <1>1
<1>3. g \in Starts
  <2> HIDE DEF D, g
  <2>1. QED  BY <1>2, StartsMade
<1>4. QED  BY <1>3

\* The rest of a store stays as it was.
LEMMA StartingChanged ==
    ASSUME NEW t \in Stores, NEW g \in Starts
    PROVE  LET u == [t EXCEPT !.starting = g] IN
           /\ u \in Stores /\ u.starting = g
           /\ u.val = t.val /\ u.slashes = t.slashes /\ u.pool = t.pool
           /\ u.balance = t.balance /\ u.paid = t.paid /\ u.panicked = t.panicked
  BY DEF Stores

\* d has started at h in the last period, beside E.
StartedIn(t, u, d, h, E) ==
    LET v == d[2] IN
    /\ u \in Stores
    /\ \A w \in Validators \ {v} : u.val[w] = t.val[w]
    /\ u.val[v].outstanding = t.val[v].outstanding
    /\ u.val[v].commission = t.val[v].commission
    /\ u.val[v].rewards = t.val[v].rewards
    /\ LastPeriod(u, v) = LastPeriod(t, v)
    /\ \A p : Ratio(u, v, p) = Ratio(t, v, p)
    /\ u.slashes = t.slashes /\ u.pool = t.pool /\ u.balance = t.balance
    /\ u.paid = t.paid /\ u.panicked = t.panicked
    /\ DOMAIN u.starting = DOMAIN t.starting \cup {d}
    /\ u.starting[d] = [period |-> LastPeriod(t, v), height |-> h]
    /\ \A e \in DOMAIN t.starting \ {d} : u.starting[e] = t.starting[e]
    /\ InOrder(u, E \cup {d}, v)

\* A delegation starts in a fresh period.
LEMMA StartOrder ==
    ASSUME NEW t, NEW d, NEW h, NEW E, InOrder(t, E, d[2]), Fresh(t, E, d[2]),
           t \in Stores, d \in Pairs, h \in Nat, d \notin E
    PROVE  StartedIn(t, initializeDelegation(t, d, h), d, h, E)
<1> DEFINE v == d[2]
           p == LastPeriod(t, v)
           t1 == incrementReferenceCount(t, v, p)
           r == [period |-> p, height |-> h]
           g == [e \in DOMAIN t.starting \cup {d} |-> IF e = d THEN r ELSE t.starting[e]]
           u == [t1 EXCEPT !.starting = g]
<1>a. IsFiniteSet(E) /\ E \subseteq DOMAIN t.starting /\ Counted(t, E, v) /\ Apart(t, E, v)
      /\ Growing(t, v) /\ Covered(t, E, v)
  BY DEF InOrder
<1>b. v \in Validators
  BY DEF Pairs
<1>c. t.starting \in Starts
  BY DEF Stores
<1> HIDE DEF v
<1>1. p \in Nat /\ Refs(t, v, p) <= 2
  BY <1>a, <1>b, LastPeriodTyped, CountedFacts
<1>2. /\ OnlyHistory(t, t1, v)
      /\ Refs(t1, v, p) = Refs(t, v, p) + 1
      /\ \A q : q # p => Refs(t1, v, q) = Refs(t, v, q)
      /\ \A q : Ratio(t1, v, q) = Ratio(t, v, q)
  <2> HIDE DEF p
  <2>1. QED  BY <1>1, <1>b, IncrementFacts
<1>3. /\ t1 \in Stores /\ t1.starting = t.starting /\ t1.slashes = t.slashes
      /\ t1.pool = t.pool /\ t1.balance = t.balance /\ t1.paid = t.paid
      /\ t1.panicked = t.panicked
      /\ \A w \in Validators \ {v} : t1.val[w] = t.val[w]
      /\ t1.val[v].outstanding = t.val[v].outstanding
      /\ t1.val[v].commission = t.val[v].commission
      /\ t1.val[v].rewards = t.val[v].rewards
      /\ t1.val[v].period = t.val[v].period
  BY <1>2 DEF OnlyHistory, OnlyBooks
<1>4. u = initializeDelegation(t, d, h)
  BY <1>3 DEF initializeDelegation, LastPeriod, v
<1> HIDE DEF t1, p
<1>5. r \in [period: Nat, height: Nat]
  BY <1>1
<1>6. /\ g \in Starts /\ DOMAIN g = DOMAIN t.starting \cup {d} /\ g[d] = r
      /\ \A e \in DOMAIN t.starting \ {d} : g[e] = t.starting[e]
  <2> HIDE DEF r
  <2>1. QED  BY <1>5, <1>c, StartsExtended
<1> HIDE DEF g
<1>7. /\ u \in Stores /\ u.starting = g
      /\ u.val = t1.val /\ u.slashes = t1.slashes /\ u.pool = t1.pool
      /\ u.balance = t1.balance /\ u.paid = t1.paid /\ u.panicked = t1.panicked
  BY <1>3, <1>6, StartingChanged
<1> HIDE DEF u
<1>8. /\ LastPeriod(u, v) = p
      /\ Refs(u, v, p) = Refs(t, v, p) + 1
      /\ \A q : q # p => Refs(u, v, q) = Refs(t, v, q)
      /\ \A q : Ratio(u, v, q) = Ratio(t, v, q)
  <2>1. u.val[v] = t1.val[v]
    BY <1>7
  <2>2. \A q : Refs(u, v, q) = Refs(t1, v, q) /\ Ratio(u, v, q) = Ratio(t1, v, q)
    BY <2>1 DEF Refs, Ratio
  <2>3. LastPeriod(u, v) = LastPeriod(t, v)
    BY <2>1, <1>3 DEF LastPeriod
  <2>4. QED  BY <1>2, <2>2, <2>3 DEF p
<1>9. ~StartedAt(t, E, p) /\ ~SlashedAt(t, v, p)
  BY DEF Fresh, p, v
<1>10. /\ \A e \in E : u.starting[e] = t.starting[e]
       /\ u.starting[d].period = p
       /\ E \cup {d} \subseteq DOMAIN u.starting
       /\ IsFiniteSet(E \cup {d})
  <2>1. IsFiniteSet(E \cup {d})
    BY <1>a, FS_AddElement
  <2>2. QED  BY <1>a, <1>6, <1>7, <2>1
<1>11. \A q : SlashedAt(u, v, q) = SlashedAt(t, v, q)
  BY <1>3, <1>7 DEF SlashedAt
<1>12. \A q : q # p => StartedAt(u, E \cup {d}, q) = StartedAt(t, E, q)
  BY <1>10 DEF StartedAt
<1>13. StartedAt(u, E \cup {d}, p)
  BY <1>10 DEF StartedAt
<1>14. Counted(u, E \cup {d}, v)
  <2>1. SUFFICES ASSUME NEW q \in Nat
                 PROVE  Refs(u, v, q) = Bit(q = p) + Bit(StartedAt(u, E \cup {d}, q))
                                                   + Bit(SlashedAt(u, v, q))
    BY <1>8 DEF Counted
  <2>2. Refs(t, v, q) = Bit(q = p) + Bit(StartedAt(t, E, q)) + Bit(SlashedAt(t, v, q))
    BY <1>a DEF Counted, p
  <2>3. CASE q = p
    BY <2>2, <2>3, <1>8, <1>9, <1>11, <1>13 DEF Bit
  <2>4. CASE q # p
    BY <2>2, <2>4, <1>8, <1>11, <1>12
  <2>5. QED  BY <2>3, <2>4
<1>15. Apart(u, E \cup {d}, v)
  <2>1. \A e \in E : t.starting[e].period # p /\ t.starting[e].period <= p
    BY <1>9, <1>a DEF StartedAt, Apart, p
  <2>2. \A e \in t.slashes : e.val = v => e.period # p /\ e.period <= p
    BY <1>9, <1>a DEF SlashedAt, Apart, p
  <2>3. u.slashes = t.slashes
    BY <1>3, <1>7
  <2>4. \A e \in E \cup {d} : u.starting[e].period <= LastPeriod(u, v)
    BY <2>1, <1>8, <1>10, <1>1
  <2>5. \A e \in u.slashes : e.val = v => e.period <= LastPeriod(u, v)
    BY <2>2, <2>3, <1>8
  <2>6. \A e, f \in E \cup {d} : u.starting[e].period = u.starting[f].period => e = f
    BY <2>1, <1>10, <1>a DEF Apart
  <2>7. \A e, f \in u.slashes : e.val = v /\ f.val = v /\ e.period = f.period => e = f
    BY <2>3, <1>a DEF Apart
  <2>8. \A f \in E \cup {d}, e \in u.slashes : e.val = v => u.starting[f].period # e.period
    BY <2>2, <2>3, <1>10, <1>a DEF Apart
  <2>9. QED  BY <2>4, <2>5, <2>6, <2>7, <2>8 DEF Apart
<1>16. Growing(u, v)
  <2>1. \A q : Refs(u, v, q) > 0 => Refs(t, v, q) > 0
    <3>1. Refs(t, v, p) > 0
      BY <1>a, <1>b, CountedFacts DEF p
    <3>2. QED  BY <3>1, <1>8
  <2>2. QED  BY <2>1, <1>8, <1>a DEF Growing, p
<1>17. Gains(u, E \cup {d}, v) = Gains(t, E, v)
  <2> DEFINE f == [e \in E |-> Gain(t, v, e)]
             k == [e \in E \cup {d} |-> Gain(u, v, e)]
  <2>1. Gains(t, E, v) = SumFunctionOnSet(f, E) /\ \A e \in E : Gain(t, v, e) \in Nat
    BY <1>a, <1>b, GainsFacts
  <2>2. Gains(u, E \cup {d}, v) = SumFunctionOnSet(k, E \cup {d})
        /\ \A e \in E \cup {d} : Gain(u, v, e) \in Nat
    BY <1>7, <1>b, <1>10, <1>14, <1>15, <1>16, GainsFacts
  <2>3. \A e \in E : Gain(u, v, e) = Gain(t, v, e)
    BY <1>8, <1>10 DEF Gain, p
  <2>4. Gain(u, v, d) = 0
    <3>1. Gain(u, v, d) = Ratio(u, v, p) - Ratio(u, v, p) /\ Ratio(u, v, p) \in Nat
      BY <1>8, <1>10, <1>7, <1>b, BooksFacts DEF Gain
    <3>2. QED  BY <3>1
  <2>5. /\ \A e \in E \cup {d} : k[e] \in Int
        /\ k[d] = 0
        /\ \A e \in E : f[e] \in Int /\ k[e] = f[e]
    BY <2>1, <2>2, <2>3, <2>4
  <2> HIDE DEF f, k
  <2> DEFINE R == (E \cup {d}) \ {d}
             a == SumFunctionOnSet(k, E \cup {d})
             b == SumFunctionOnSet(k, R)
  <2>6. R = E
    OBVIOUS
  <2>7. a = k[d] + b /\ b \in Int
    BY <1>10, <2>5, SumTake
  <2> HIDE DEF R, a
  <2>8. SumFunctionOnSet(k, E) = SumFunctionOnSet(f, E)
    BY <1>a, <2>5, SumSame
  <2>9. b = SumFunctionOnSet(k, E)
    BY <2>6
  <2> HIDE DEF b
  <2>10. a = b
    BY <2>5, <2>7
  <2>11. QED  BY <2>1, <2>2, <2>8, <2>9, <2>10 DEF a
<1>18. Covered(u, E \cup {d}, v)
  <2>1. /\ u.val[v].commission = t.val[v].commission
        /\ u.val[v].rewards = t.val[v].rewards
        /\ u.val[v].outstanding = t.val[v].outstanding
    BY <1>3, <1>7
  <2>2. t.val[v].commission + t.val[v].rewards + Gains(t, E, v) <= t.val[v].outstanding
    BY <1>a DEF Covered
  <2>3. QED  BY <1>17, <2>1, <2>2 DEF Covered
<1>19. InOrder(u, E \cup {d}, v)
  BY <1>10, <1>14, <1>15, <1>16, <1>18 DEF InOrder
<1>20. /\ u \in Stores
       /\ \A w \in Validators \ {v} : u.val[w] = t.val[w]
       /\ u.val[v].outstanding = t.val[v].outstanding
       /\ u.val[v].commission = t.val[v].commission
       /\ u.val[v].rewards = t.val[v].rewards
       /\ u.slashes = t.slashes /\ u.pool = t.pool /\ u.balance = t.balance
       /\ u.paid = t.paid /\ u.panicked = t.panicked
  BY <1>3, <1>7
<1>21. /\ LastPeriod(u, v) = p
       /\ \A q : Ratio(u, v, q) = Ratio(t, v, q)
  BY <1>8
<1>22. /\ DOMAIN u.starting = DOMAIN t.starting \cup {d}
       /\ u.starting[d] = r
       /\ \A e \in DOMAIN t.starting \ {d} : u.starting[e] = t.starting[e]
  BY <1>6, <1>7
<1>23. QED
  BY <1>4, <1>19, <1>20, <1>21, <1>22 DEF v, p, r, StartedIn

\* An amount is coins and what is cut.
LEMMA CoinsFacts ==
    ASSUME NEW a \in Nat
    PROVE  /\ CoinsIn(a) \in Nat /\ a % Unit \in Nat
           /\ CoinsIn(a) + (a % Unit) = a /\ CoinsIn(a) <= a
           /\ a = 0 => CoinsIn(a) = 0 /\ a % Unit = 0
<1>1. Unit \in Nat \ {0}
  BY ExportAssumption
<1>2. a % Unit \in Nat /\ a % Unit <= a
  BY <1>1
<1>3. QED  BY <1>2 DEF CoinsIn

WithAmounts(t, v, o, c, r) ==
    WithBooks(t, v, [t.val[v] EXCEPT !.outstanding = o, !.commission = c, !.rewards = r])

\* Other amounts of a validator keep the order as long as they are covered.
LEMMA AmountsOrder ==
    ASSUME NEW t \in Stores, NEW v \in Validators,
           NEW o \in Nat, NEW c \in Nat, NEW r \in Nat
    PROVE  LET u == WithAmounts(t, v, o, c, r) IN
           /\ OnlyBooks(t, u, v)
           /\ u.val[v].outstanding = o /\ u.val[v].commission = c /\ u.val[v].rewards = r
           /\ LastPeriod(u, v) = LastPeriod(t, v)
           /\ \A p : Refs(u, v, p) = Refs(t, v, p) /\ Ratio(u, v, p) = Ratio(t, v, p)
           /\ \A d : Gain(u, v, d) = Gain(t, v, d)
           /\ \A E : InOrder(t, E, v) /\ c + r + Gains(t, E, v) <= o => InOrder(u, E, v)
<1> DEFINE a == t.val[v]
           b == [a EXCEPT !.outstanding = o, !.commission = c, !.rewards = r]
           u == WithBooks(t, v, b)
<1>1. a \in Books
  BY BooksFacts
<1>2. /\ b \in Books /\ b.history = a.history /\ b.period = a.period
      /\ b.outstanding = o /\ b.commission = c /\ b.rewards = r
  <2> HIDE DEF a
  <2>1. QED  BY <1>1 DEF Books
<1> HIDE DEF b
<1>4. u.val[v] = b /\ OnlyBooks(t, u, v)
  BY <1>2, WithBooksFacts DEF OnlyBooks
<1> HIDE DEF u
<1>5. \A p : Refs(u, v, p) = Refs(t, v, p) /\ Ratio(u, v, p) = Ratio(t, v, p)
  BY <1>2, <1>4 DEF Refs, Ratio
<1>6. LastPeriod(u, v) = LastPeriod(t, v)
  BY <1>2, <1>4 DEF LastPeriod
<1>7. u.starting = t.starting /\ u.slashes = t.slashes
  BY <1>4 DEF OnlyBooks
<1>8. \A d : Gain(u, v, d) = Gain(t, v, d)
  BY <1>5, <1>6, <1>7 DEF Gain
<1>9. ASSUME NEW E, InOrder(t, E, v), c + r + Gains(t, E, v) <= o
      PROVE  InOrder(u, E, v)
  <2>1. \A p : StartedAt(u, E, p) = StartedAt(t, E, p) /\ SlashedAt(u, v, p) = SlashedAt(t, v, p)
    BY <1>7 DEF StartedAt, SlashedAt
  <2>2. Counted(u, E, v)
    BY <1>5, <1>6, <1>9, <2>1 DEF Counted, InOrder
  <2>3. Apart(u, E, v)
    BY <1>6, <1>7, <1>9 DEF Apart, InOrder
  <2>4. Growing(u, v)
    BY <1>5, <1>6, <1>9 DEF Growing, InOrder
  <2>5. Gains(u, E, v) = Gains(t, E, v)
    BY <1>8 DEF Gains
  <2>6. Covered(u, E, v)
    BY <1>2, <1>4, <1>9, <2>5 DEF Covered
  <2>7. QED  BY <1>7, <1>9, <2>2, <2>3, <2>4, <2>6 DEF InOrder
<1>10. u = WithAmounts(t, v, o, c, r)
  BY DEF u, b, WithAmounts
<1>11. QED  BY <1>2, <1>4, <1>5, <1>6, <1>8, <1>9, <1>10

\* The lesser of two.
LEMMA MinIsFirst ==
    ASSUME NEW a \in Int, NEW b \in Int, a <= b
    PROVE  Min({a, b}) = a
  BY DEF Min

\* What has been earned can be paid out of what is outstanding.
LEMMA EarnedFacts ==
    ASSUME NEW t, NEW d, NEW h, NEW E, NEW tokens, InOrder(t, E, d[2]),
           t \in Stores, d \in Pairs, h \in Nat, d \in E,
           tokens \in Nat \ {0}, Cardinality(E) <= tokens
    PROVE  LET g == Gain(t, d[2], d) + t.val[d[2]].rewards \div tokens IN
           /\ g \in Nat
           /\ Earned(t, d, tokens, h) = IF t.starting[d].height = h THEN 0 ELSE g
           /\ Earned(t, d, tokens, h) \in Nat /\ Earned(t, d, tokens, h) <= g
           /\ Earned(t, d, tokens, h) <= t.val[d[2]].outstanding
           /\ Payable(t, d, tokens, h) = Earned(t, d, tokens, h)
<1> DEFINE v == d[2]
           x == t.val[v].rewards \div tokens
           f == [e \in E |-> Gain(t, v, e)]
           rest == SumFunctionOnSet(f, E \ {d})
           out == t.val[v].outstanding
<1>a. v \in Validators
  BY DEF Pairs
<1> HIDE DEF v
<1>1. IsFiniteSet(E) /\ E \subseteq DOMAIN t.starting /\ Counted(t, E, v) /\ Apart(t, E, v)
      /\ Growing(t, v) /\ Covered(t, E, v)
  BY DEF InOrder, v
<1>2. /\ t.val[v].rewards \in Nat /\ x \in Nat /\ x <= t.val[v].rewards
      /\ out \in Nat /\ t.val[v].commission \in Nat
  <2>1. /\ t.val[v].rewards \in Nat /\ out \in Nat /\ t.val[v].commission \in Nat
    BY <1>a, BooksFacts
  <2>2. x \in Nat /\ x * tokens <= t.val[v].rewards
    BY <2>1, DivFacts
  <2> HIDE DEF x
  <2>3. x <= x * tokens /\ x * tokens \in Nat
    BY <2>2
  <2>4. QED  BY <2>1, <2>2, <2>3
<1>3. /\ \A e \in E : Gain(t, v, e) \in Nat
      /\ Gains(t, E, v) = SumFunctionOnSet(f, E)
  BY <1>1, <1>a, GainsFacts
<1>4. Gains(t, E, v) = Gain(t, v, d) + rest /\ rest \in Nat
  <2>1. \A e \in E : f[e] \in Nat
    BY <1>3
  <2>2. f[d] = Gain(t, v, d)
    OBVIOUS
  <2> HIDE DEF f
  <2>3. SumFunctionOnSet(f, E) = f[d] + SumFunctionOnSet(f, E \ {d})
    BY <1>1, <2>1, SumTake
  <2>4. IsFiniteSet(E \ {d}) /\ \A e \in E \ {d} : f[e] \in Nat
    BY <1>1, <2>1, FS_RemoveElement
  <2>5. rest \in Nat
    BY <2>4, SumNat
  <2>6. QED  BY <1>3, <2>2, <2>3, <2>5
<1> HIDE DEF x, rest, out
<1>5. Gain(t, v, d) + x <= out
  <2>1. t.val[v].commission + t.val[v].rewards + Gains(t, E, v) <= out
    BY <1>1 DEF Covered, out
  <2>2. Gain(t, v, d) \in Nat
    BY <1>3
  <2>3. QED  BY <1>2, <1>4, <2>1, <2>2
<1>6. Gain(t, v, d) \in Nat
  BY <1>3
<1>7. Earned(t, d, tokens, h) = IF t.starting[d].height = h THEN 0 ELSE Gain(t, v, d) + x
  <2>1. Ratio(t, v, LastPeriod(t, v)) \in Nat /\ Ratio(t, v, t.starting[d].period) \in Nat
    BY <1>a, BooksFacts
  <2>2. Gain(t, v, d) = Ratio(t, v, LastPeriod(t, v)) - Ratio(t, v, t.starting[d].period)
    BY DEF Gain
  <2>3. Earned(t, d, tokens, h) =
            IF t.starting[d].height = h THEN 0
            ELSE Ratio(t, v, LastPeriod(t, v)) + x - Ratio(t, v, t.starting[d].period)
    BY DEF Earned, LastPeriod, x, v
  <2>4. QED  BY <2>1, <2>2, <2>3, <1>2
<1>8. Earned(t, d, tokens, h) \in Nat /\ Earned(t, d, tokens, h) <= Gain(t, v, d) + x
      /\ Earned(t, d, tokens, h) <= out
  BY <1>2, <1>5, <1>6, <1>7
<1>9. Payable(t, d, tokens, h) = Earned(t, d, tokens, h)
  <2>1. Payable(t, d, tokens, h) = Min({Earned(t, d, tokens, h), out})
    BY DEF Payable, out, v
  <2>2. QED  BY <2>1, <1>8, <1>2, MinIsFirst
<1>10. QED  BY <1>2, <1>6, <1>7, <1>8, <1>9 DEF out, v, x

\* A payment changes the account of the module and what an account was paid.
LEMMA PayFacts ==
    ASSUME NEW t \in Stores, NEW x \in Accounts, NEW c \in Nat
    PROVE  LET u == Pay(t, x, c) IN
           /\ u \in Stores /\ u.val = t.val /\ u.starting = t.starting
           /\ u.slashes = t.slashes /\ u.pool = t.pool /\ u.balance = t.balance - c
           /\ u.paid = [t.paid EXCEPT ![x] = @ + c] /\ u.panicked = t.panicked
<1> DEFINE m == [t.paid EXCEPT ![x] = @ + c]
           b == t.balance - c
           u == [t EXCEPT !.balance = b, !.paid = m]
<1>1. m \in [Accounts -> Nat] /\ b \in Int
  BY DEF Stores
<1>2. u = Pay(t, x, c)
  BY DEF Pay, Stores
<1> HIDE DEF m, b
<1>3. u \in Stores /\ u.val = t.val /\ u.starting = t.starting
      /\ u.slashes = t.slashes /\ u.pool = t.pool /\ u.balance = b
      /\ u.paid = m /\ u.panicked = t.panicked
  BY <1>1 DEF Stores
<1>4. QED  BY <1>2, <1>3 DEF m, b

PaidFor(t, d, v, x, c, r, a) ==
    [Pay(t, x, c) EXCEPT
        !.val[v].outstanding = @ - a,
        !.pool = @ + r,
        !.starting = [e \in DOMAIN @ \ {d} |-> @[e]]]

\* Coins are paid to x, and a is taken off what is outstanding.
LEMMA PaidOut ==
    ASSUME NEW t \in Stores, NEW v \in Validators, NEW x \in Accounts,
           NEW c \in Nat, NEW r \in Nat, NEW a \in Nat, a <= t.val[v].outstanding,
           NEW d
    PROVE  LET u == PaidFor(t, d, v, x, c, r, a) IN
           /\ u \in Stores
           /\ \A w \in Validators \ {v} : u.val[w] = t.val[w]
           /\ u.val[v].outstanding = t.val[v].outstanding - a
           /\ u.val[v].commission = t.val[v].commission
           /\ u.val[v].rewards = t.val[v].rewards
           /\ LastPeriod(u, v) = LastPeriod(t, v)
           /\ \A p : Refs(u, v, p) = Refs(t, v, p) /\ Ratio(u, v, p) = Ratio(t, v, p)
           /\ u.pool = t.pool + r /\ u.balance = t.balance - c
           /\ u.paid = [t.paid EXCEPT ![x] = @ + c]
           /\ u.slashes = t.slashes /\ u.panicked = t.panicked
           /\ DOMAIN u.starting = DOMAIN t.starting \ {d}
           /\ \A e \in DOMAIN t.starting \ {d} : u.starting[e] = t.starting[e]
<1> DEFINE b == t.val[v]
           bb == [b EXCEPT !.outstanding = b.outstanding - a]
           val == [t.val EXCEPT ![v] = bb]
           g == [e \in DOMAIN t.starting \ {d} |-> t.starting[e]]
           m == [t.paid EXCEPT ![x] = t.paid[x] + c]
           y == Pay(t, x, c)
           k == t.pool + r
           u == [y EXCEPT !.val = val, !.pool = k, !.starting = g]
<1>1. /\ t.val \in [Validators -> Books] /\ t.starting \in Starts /\ t.slashes \in SUBSET Slashes
      /\ t.pool \in Nat /\ t.balance \in Int /\ t.paid \in [Accounts -> Nat]
      /\ t.panicked \in BOOLEAN
      /\ t = [val |-> t.val, starting |-> t.starting, slashes |-> t.slashes, pool |-> t.pool,
              balance |-> t.balance, paid |-> t.paid, panicked |-> t.panicked]
  BY DEF Stores
<1>2. b \in Books
  BY <1>1
<1>3. /\ bb \in Books /\ bb.history = b.history /\ bb.period = b.period
      /\ bb.outstanding = b.outstanding - a /\ bb.commission = b.commission
      /\ bb.rewards = b.rewards
  <2> DEFINE o == b.outstanding - a
  <2>1. o \in Nat
    BY BooksFacts
  <2> HIDE DEF b, o
  <2>2. QED  BY <1>2, <2>1 DEF Books, o
<1>4. /\ g \in Starts /\ DOMAIN g = DOMAIN t.starting \ {d}
      /\ \A e \in DOMAIN t.starting \ {d} : g[e] = t.starting[e]
  BY <1>1, StartsRemoved
<1>5. m \in [Accounts -> Nat] /\ m = [t.paid EXCEPT ![x] = @ + c]
  BY <1>1
<1>a. /\ y \in Stores /\ y.val = t.val /\ y.starting = t.starting
      /\ y.slashes = t.slashes /\ y.pool = t.pool /\ y.balance = t.balance - c
      /\ y.paid = m /\ y.panicked = t.panicked
  BY <1>5, PayFacts
<1>6. u = PaidFor(t, d, v, x, c, r, a)
  <2> HIDE DEF y
  <2>1. u = [y EXCEPT
              !.val[v].outstanding = @ - a,
              !.pool = @ + r,
              !.starting = [e \in DOMAIN @ \ {d} |-> @[e]]]
    BY <1>a, <1>1
  <2>2. QED  BY <2>1 DEF y, PaidFor
<1>7. val \in [Validators -> Books] /\ val[v] = bb /\ \A w \in Validators \ {v} : val[w] = t.val[w]
  <2> HIDE DEF bb
  <2>1. QED  BY <1>1, <1>3
<1>b. k \in Nat /\ k = t.pool + r
  BY <1>1
<1> HIDE DEF bb, g, m, val, b, y, k
<1>8. u \in Stores
  BY <1>a, <1>b, <1>4, <1>5, <1>7 DEF Stores
<1>11. /\ u.val = val /\ u.starting = g /\ u.slashes = t.slashes /\ u.pool = k
       /\ u.balance = t.balance - c /\ u.paid = m /\ u.panicked = t.panicked
  BY <1>a DEF Stores
<1> HIDE DEF u
<1>9. \A p : Refs(u, v, p) = Refs(t, v, p) /\ Ratio(u, v, p) = Ratio(t, v, p)
  BY <1>3, <1>7, <1>11 DEF Refs, Ratio, b
<1>10. LastPeriod(u, v) = LastPeriod(t, v)
  BY <1>3, <1>7, <1>11 DEF LastPeriod, b
<1>12. /\ \A w \in Validators \ {v} : u.val[w] = t.val[w]
       /\ u.val[v].outstanding = t.val[v].outstanding - a
       /\ u.val[v].commission = t.val[v].commission
       /\ u.val[v].rewards = t.val[v].rewards
  BY <1>3, <1>7, <1>11 DEF b
<1>13. QED  BY <1>b, <1>4, <1>5, <1>6, <1>8, <1>9, <1>10, <1>11, <1>12

\* The start of d is let go, and a is paid of what is outstanding.
LetGo(t, u, E, d, v, a) ==
    /\ u.val[v].outstanding = t.val[v].outstanding - a
    /\ u.val[v].commission = t.val[v].commission
    /\ u.val[v].rewards = t.val[v].rewards
    /\ LastPeriod(u, v) = LastPeriod(t, v)
    /\ u.slashes = t.slashes
    /\ Refs(u, v, t.starting[d].period) = Refs(t, v, t.starting[d].period) - 1
    /\ \A q : q # t.starting[d].period => Refs(u, v, q) = Refs(t, v, q)
    /\ \A q : Refs(u, v, q) > 0 => Ratio(u, v, q) = Ratio(t, v, q)
    /\ E \ {d} \subseteq DOMAIN u.starting
    /\ \A e \in E \ {d} : u.starting[e] = t.starting[e]

\* The others are in order, and have gained what they had.
LeftIn(t, u, E, d, v) ==
    /\ InOrder(u, E \ {d}, v) /\ Fresh(u, E \ {d}, v)
    /\ \A e \in E \ {d} : Gain(u, v, e) = Gain(t, v, e)

\* What is left of a fresh order when one start is let go.
LEMMA LeaveOrder ==
    ASSUME NEW t, NEW u, NEW E, NEW d, NEW v, NEW a, LetGo(t, u, E, d, v, a),
           t \in Stores, u \in Stores, v \in Validators, d \in E, a \in Nat,
           InOrder(t, E, v), Fresh(t, E, v), a <= Gain(t, v, d)
    PROVE  LeftIn(t, u, E, d, v)
<1> DEFINE F == E \ {d}
           p == LastPeriod(t, v)
           p0 == t.starting[d].period
<1>a. /\ u.val[v].outstanding = t.val[v].outstanding - a
      /\ u.val[v].commission = t.val[v].commission
      /\ u.val[v].rewards = t.val[v].rewards
      /\ LastPeriod(u, v) = LastPeriod(t, v)
      /\ u.slashes = t.slashes
      /\ Refs(u, v, t.starting[d].period) = Refs(t, v, t.starting[d].period) - 1
      /\ \A q : q # t.starting[d].period => Refs(u, v, q) = Refs(t, v, q)
      /\ \A q : Refs(u, v, q) > 0 => Ratio(u, v, q) = Ratio(t, v, q)
      /\ E \ {d} \subseteq DOMAIN u.starting
      /\ \A e \in E \ {d} : u.starting[e] = t.starting[e]
  BY DEF LetGo
<1> USE <1>a
<1>1. IsFiniteSet(E) /\ E \subseteq DOMAIN t.starting /\ Counted(t, E, v) /\ Apart(t, E, v)
      /\ Growing(t, v) /\ Covered(t, E, v)
  BY DEF InOrder
<1>2. IsFiniteSet(F) /\ F \subseteq DOMAIN u.starting /\ F \subseteq E /\ d \notin F
  BY <1>1, FS_RemoveElement
<1>3. p \in Nat /\ p0 \in Nat /\ p0 # p /\ Refs(t, v, p) > 0
  <2>1. StartedAt(t, E, p0)
    BY DEF StartedAt
  <2>2. QED  BY <2>1, <1>1, LastPeriodTyped, StartTyped, CountedFacts DEF Fresh
<1>4. \A q : SlashedAt(u, v, q) = SlashedAt(t, v, q)
  BY DEF SlashedAt
<1>5. ~StartedAt(u, F, p0)
  BY <1>1, <1>2 DEF StartedAt, Apart
<1>6. \A q : q # p0 => StartedAt(u, F, q) = StartedAt(t, E, q)
  BY <1>2 DEF StartedAt
<1>7. Counted(u, F, v)
  <2>1. SUFFICES ASSUME NEW q \in Nat
                 PROVE  Refs(u, v, q) = Bit(q = p) + Bit(StartedAt(u, F, q))
                                            + Bit(SlashedAt(u, v, q))
    BY DEF Counted
  <2>2. Refs(t, v, q) = Bit(q = p) + Bit(StartedAt(t, E, q)) + Bit(SlashedAt(t, v, q))
    BY <1>1 DEF Counted
  <2>3. CASE q = p0
    <3>1. StartedAt(t, E, q)
      BY <2>3 DEF StartedAt
    <3>2. Refs(u, v, q) = Refs(t, v, q) - 1
      BY <2>3
    <3> HIDE DEF p, p0
    <3>3. QED  BY <2>2, <2>3, <3>1, <3>2, <1>3, <1>4, <1>5 DEF Bit
  <2>4. CASE q # p0
    BY <2>2, <2>4, <1>4, <1>6
  <2>5. QED  BY <2>3, <2>4
<1>8. Apart(u, F, v)
  <2>1. \A e \in F : u.starting[e] = t.starting[e] /\ e \in E
    BY <1>2
  <2>2. QED  BY <1>1, <2>1 DEF Apart
<1>9. Refs(u, v, p) > 0 /\ Ratio(u, v, p) = Ratio(t, v, p)
  BY <1>3
<1>10. Growing(u, v)
  <2>1. SUFFICES ASSUME NEW q, Refs(u, v, q) > 0
                 PROVE  Ratio(u, v, q) <= Ratio(u, v, p)
    BY DEF Growing
  <2>2. Refs(t, v, q) > 0
    <3>1. Refs(t, v, q) \in Nat
      BY BooksFacts
    <3>2. QED  BY <2>1, <3>1
  <2>3. Ratio(t, v, q) <= Ratio(t, v, p)
    BY <2>2, <1>1 DEF Growing
  <2>4. QED  BY <2>1, <2>3, <1>9
<1>11. \A e \in F : Gain(u, v, e) = Gain(t, v, e)
  <2>1. SUFFICES ASSUME NEW e \in F
                 PROVE  Gain(u, v, e) = Gain(t, v, e)
    OBVIOUS
  <2>2. u.starting[e] = t.starting[e] /\ Refs(u, v, u.starting[e].period) > 0
    BY <1>2, <1>7, <1>8, CountedFacts
  <2>3. Ratio(u, v, u.starting[e].period) = Ratio(t, v, t.starting[e].period)
    BY <2>2
  <2>4. QED  BY <2>3, <1>9 DEF Gain
<1>12. Covered(u, F, v)
  <2> DEFINE f == [e \in E |-> Gain(t, v, e)]
             g == [e \in F |-> Gain(u, v, e)]
             R == SumFunctionOnSet(f, E \ {d})
  <2>1. Gains(t, E, v) = SumFunctionOnSet(f, E) /\ \A e \in E : Gain(t, v, e) \in Nat
    BY <1>1, GainsFacts
  <2>2. Gains(u, F, v) = SumFunctionOnSet(g, F)
    BY <1>2, <1>7, <1>8, <1>10, GainsFacts
  <2>3. (\A e \in E : f[e] \in Int) /\ (\A e \in F : g[e] = f[e]) /\ f[d] = Gain(t, v, d)
    BY <2>1, <1>11
  <2> HIDE DEF f, g
  <2>4. SumFunctionOnSet(f, E) = f[d] + R /\ R \in Int
    BY <1>1, <2>3, SumTake
  <2>5. SumFunctionOnSet(g, F) = SumFunctionOnSet(f, F)
    <3>1. \A e \in F : f[e] \in Int /\ g[e] = f[e]
      BY <2>3
    <3> HIDE DEF F
    <3>2. QED  BY <1>2, <3>1, SumSame
  <2>6. Gains(u, F, v) = R
    BY <2>2, <2>5
  <2>7. t.val[v].commission + t.val[v].rewards + Gains(t, E, v) <= t.val[v].outstanding
    BY <1>1 DEF Covered
  <2>8. t.val[v].commission \in Nat /\ t.val[v].rewards \in Nat /\ t.val[v].outstanding \in Nat
        /\ Gain(t, v, d) \in Nat
    BY <2>1, BooksFacts
  <2> HIDE DEF R
  <2>9. t.val[v].commission + t.val[v].rewards + R <= t.val[v].outstanding - a
    BY <2>1, <2>3, <2>4, <2>7, <2>8
  <2>10. QED  BY <2>6, <2>9 DEF Covered
<1>13. Fresh(u, F, v)
  BY <1>3, <1>4, <1>6 DEF Fresh
<1>14. QED  BY <1>2, <1>7, <1>8, <1>10, <1>11, <1>12, <1>13 DEF InOrder, LeftIn

\* a has been paid to d, which is no longer beside the others of E.
WithdrawnIn(t, u, d, E, tokens, a) ==
    LET v == d[2] IN
    /\ u \in Stores
    /\ \A w \in Validators \ {v} : u.val[w] = t.val[w]
    /\ u.val[v].outstanding = t.val[v].outstanding - a
    /\ u.val[v].commission = t.val[v].commission
    /\ u.val[v].rewards = 0
    /\ u.pool = t.pool + (a % Unit) /\ u.balance = t.balance - CoinsIn(a)
    /\ u.paid = [t.paid EXCEPT ![d[1]] = @ + CoinsIn(a)]
    /\ u.slashes = t.slashes /\ u.panicked = t.panicked
    /\ DOMAIN u.starting = DOMAIN t.starting \ {d}
    /\ \A e \in DOMAIN t.starting \ {d} : u.starting[e] = t.starting[e]
    /\ InOrder(u, E \ {d}, v) /\ Fresh(u, E \ {d}, v)
    /\ \A e \in E \ {d} : Gain(u, v, e) = Gain(t, v, e) + t.val[v].rewards \div tokens

\* A withdrawal pays what has been earned, and forgets a start.
LEMMA WithdrawOrder ==
    ASSUME NEW t, NEW d, NEW h, NEW E, NEW tokens, InOrder(t, E, d[2]),
           t \in Stores, d \in Pairs, h \in Nat, d \in E,
           tokens \in Nat \ {0}, Cardinality(E) <= tokens
    PROVE  WithdrawnIn(t, withdrawDelegationRewards(t, d, tokens, h), d, E, tokens,
                       Payable(t, d, tokens, h))
<1> DEFINE v == d[2]
           x == d[1]
           a == Payable(t, d, tokens, h)
           c == CoinsIn(a)
           r == a % Unit
           t1 == IncrementValidatorPeriod(t, v, tokens)
           t2 == PaidFor(t1, d, v, x, c, r, a)
           p0 == t.starting[d].period
           u == decrementReferenceCount(t2, v, p0)
           y == t.val[v].rewards \div tokens
<1>1. v \in Validators /\ x \in Accounts
  BY DEF Pairs
<1>2. /\ Earned(t, d, tokens, h) \in Nat /\ a = Earned(t, d, tokens, h)
      /\ a \in Nat /\ a <= t.val[v].outstanding /\ a <= Gain(t, v, d) + y
  <2>1. /\ Earned(t, d, tokens, h) \in Nat
        /\ Earned(t, d, tokens, h) <= Gain(t, d[2], d) + t.val[d[2]].rewards \div tokens
        /\ Earned(t, d, tokens, h) <= t.val[d[2]].outstanding
        /\ Payable(t, d, tokens, h) = Earned(t, d, tokens, h)
    BY EarnedFacts
  <2>2. QED  BY <2>1
<1>3. c \in Nat /\ r \in Nat
  BY <1>2, CoinsFacts
<1>4. IsFiniteSet(E) /\ E \subseteq DOMAIN t.starting /\ Counted(t, E, v) /\ Apart(t, E, v)
  BY DEF InOrder
<1>5. u = withdrawDelegationRewards(t, d, tokens, h)
  <2>1. d \in DOMAIN t.starting /\ ~ (Earned(t, d, tokens, h) < 0)
    BY <1>2, <1>4
  <2>2. QED  BY <2>1 DEF withdrawDelegationRewards, PaidFor
<1> HIDE DEF v, x, a, c, r, y, p0
<1>6. InOrder(t, E, v)
  BY DEF v
<1>7. /\ OnlyBooks(t, t1, v)
      /\ t1.val[v].outstanding = t.val[v].outstanding
      /\ t1.val[v].commission = t.val[v].commission
      /\ t1.val[v].rewards = 0
  <2>1. Refs(t, v, LastPeriod(t, v)) > 0
    BY <1>1, <1>4, CountedFacts
  <2>2. QED  BY <1>1, <2>1, PeriodFacts
<1>8. InOrder(t1, E, v) /\ Fresh(t1, E, v) /\ \A e \in E : Gain(t1, v, e) = Gain(t, v, e) + y
  BY <1>1, <1>6, PeriodOrder DEF y
<1>9. t1 \in Stores /\ t1.starting = t.starting /\ t1.slashes = t.slashes /\ t1.pool = t.pool
      /\ t1.balance = t.balance /\ t1.paid = t.paid /\ t1.panicked = t.panicked
      /\ \A w \in Validators \ {v} : t1.val[w] = t.val[w]
  BY <1>7 DEF OnlyBooks
<1> HIDE DEF t1
<1>10. /\ t2 \in Stores
       /\ \A w \in Validators \ {v} : t2.val[w] = t1.val[w]
       /\ t2.val[v].outstanding = t1.val[v].outstanding - a
       /\ t2.val[v].commission = t1.val[v].commission
       /\ t2.val[v].rewards = t1.val[v].rewards
       /\ LastPeriod(t2, v) = LastPeriod(t1, v)
       /\ \A p : Refs(t2, v, p) = Refs(t1, v, p) /\ Ratio(t2, v, p) = Ratio(t1, v, p)
       /\ t2.pool = t1.pool + r /\ t2.balance = t1.balance - c
       /\ t2.paid = [t1.paid EXCEPT ![x] = @ + c]
       /\ t2.slashes = t1.slashes /\ t2.panicked = t1.panicked
       /\ DOMAIN t2.starting = DOMAIN t1.starting \ {d}
       /\ \A e \in DOMAIN t1.starting \ {d} : t2.starting[e] = t1.starting[e]
  <2>1. a \in Nat /\ a <= t1.val[v].outstanding
    BY <1>2, <1>7
  <2>2. QED  BY <1>1, <1>3, <1>9, <2>1, PaidOut
<1> HIDE DEF t2
<1>11. Refs(t2, v, p0) > 0 /\ p0 = t1.starting[d].period
  <2>1. E \subseteq DOMAIN t1.starting /\ Counted(t1, E, v) /\ Apart(t1, E, v)
    BY <1>8 DEF InOrder
  <2>2. Refs(t1, v, t1.starting[d].period) > 0
    BY <2>1, <1>1, <1>9, CountedFacts
  <2>3. QED  BY <2>2, <1>9, <1>10 DEF p0
<1>12. /\ OnlyHistory(t2, u, v)
       /\ Refs(u, v, p0) = Refs(t2, v, p0) - 1
       /\ \A q : q # p0 => Refs(u, v, q) = Refs(t2, v, q)
       /\ \A q : Refs(u, v, q) > 0 => Ratio(u, v, q) = Ratio(t2, v, q)
  BY <1>1, <1>10, <1>11, DecrementFacts
<1> HIDE DEF u
<1>13. /\ u \in Stores
       /\ \A w \in Validators \ {v} : u.val[w] = t2.val[w]
       /\ u.starting = t2.starting /\ u.slashes = t2.slashes /\ u.pool = t2.pool
       /\ u.balance = t2.balance /\ u.paid = t2.paid /\ u.panicked = t2.panicked
       /\ u.val[v].outstanding = t2.val[v].outstanding
       /\ u.val[v].commission = t2.val[v].commission
       /\ u.val[v].rewards = t2.val[v].rewards
       /\ LastPeriod(u, v) = LastPeriod(t2, v)
  BY <1>12 DEF OnlyHistory, OnlyBooks, LastPeriod
<1>14. /\ InOrder(u, E \ {d}, v) /\ Fresh(u, E \ {d}, v)
       /\ \A e \in E \ {d} : Gain(u, v, e) = Gain(t1, v, e)
  <2>1. a <= Gain(t1, v, d)
    BY <1>2, <1>8
  <2>2. /\ u.val[v].outstanding = t1.val[v].outstanding - a
        /\ u.val[v].commission = t1.val[v].commission
        /\ u.val[v].rewards = t1.val[v].rewards
        /\ LastPeriod(u, v) = LastPeriod(t1, v)
        /\ u.slashes = t1.slashes
    BY <1>10, <1>13
  <2>3. /\ Refs(u, v, t1.starting[d].period) = Refs(t1, v, t1.starting[d].period) - 1
        /\ \A q : q # t1.starting[d].period => Refs(u, v, q) = Refs(t1, v, q)
        /\ \A q : Refs(u, v, q) > 0 => Ratio(u, v, q) = Ratio(t1, v, q)
    BY <1>10, <1>11, <1>12
  <2>4. /\ E \ {d} \subseteq DOMAIN u.starting
        /\ \A e \in E \ {d} : u.starting[e] = t1.starting[e]
    BY <1>4, <1>9, <1>10, <1>13
  <2>5. LetGo(t1, u, E, d, v, a)
    BY <2>2, <2>3, <2>4 DEF LetGo
  <2>6. t1 \in Stores /\ u \in Stores /\ InOrder(t1, E, v) /\ Fresh(t1, E, v) /\ a \in Nat
    BY <1>2, <1>8, <1>9, <1>13
  <2>7. LeftIn(t1, u, E, d, v)
    BY <1>1, <2>1, <2>5, <2>6, LeaveOrder
  <2>8. QED  BY <2>7 DEF LeftIn
<1>15. \A e \in E \ {d} : Gain(u, v, e) = Gain(t, v, e) + y
  BY <1>8, <1>14
<1>16. /\ \A w \in Validators \ {v} : u.val[w] = t.val[w]
       /\ u.val[v].outstanding = t.val[v].outstanding - a
       /\ u.val[v].commission = t.val[v].commission
       /\ u.val[v].rewards = 0
       /\ u.pool = t.pool + r /\ u.balance = t.balance - c
       /\ u.paid = [t.paid EXCEPT ![x] = @ + c]
       /\ u.slashes = t.slashes /\ u.panicked = t.panicked
       /\ DOMAIN u.starting = DOMAIN t.starting \ {d}
       /\ \A e \in DOMAIN t.starting \ {d} : u.starting[e] = t.starting[e]
  BY <1>7, <1>9, <1>10, <1>13
<1>17. QED  BY <1>5, <1>13, <1>14, <1>15, <1>16 DEF v, x, a, c, r, y, WithdrawnIn

\* A commission is withdrawn from the books, and paid if that is not refused.
LEMMA CommissionOrder ==
    ASSUME NEW t \in Stores, NEW v \in Validators, NEW E, InOrder(t, E, v), NEW blocked
    PROVE  LET u == WithdrawValidatorCommission(t, v, blocked)
               c == CoinsIn(t.val[v].commission)
           IN
           /\ u \in Stores
           /\ \A w \in Validators \ {v} : u.val[w] = t.val[w]
           /\ u.val[v].outstanding = t.val[v].outstanding - c
           /\ u.val[v].rewards = t.val[v].rewards
           /\ u.starting = t.starting /\ u.slashes = t.slashes /\ u.pool = t.pool
           /\ u.panicked = t.panicked
           /\ u.balance = t.balance - (IF v \in blocked THEN 0 ELSE c)
           /\ u.paid = [t.paid EXCEPT ![v] = @ + (IF v \in blocked THEN 0 ELSE c)]
           /\ LastPeriod(u, v) = LastPeriod(t, v)
           /\ \A p : Ratio(u, v, p) = Ratio(t, v, p)
           /\ \A d : Gain(u, v, d) = Gain(t, v, d)
           /\ InOrder(u, E, v)
<1> DEFINE c == CoinsIn(t.val[v].commission)
           o == t.val[v].outstanding - c
           k == t.val[v].commission - c
           r == t.val[v].rewards
           t1 == WithAmounts(t, v, o, k, r)
           u == WithdrawValidatorCommission(t, v, blocked)
<1>1. IsFiniteSet(E) /\ E \subseteq DOMAIN t.starting /\ Counted(t, E, v) /\ Apart(t, E, v)
      /\ Growing(t, v) /\ Covered(t, E, v)
  BY DEF InOrder
<1>2. Gains(t, E, v) \in Nat
  BY <1>1, GainsFacts
<1>3. /\ t.val[v].commission \in Nat /\ r \in Nat /\ t.val[v].outstanding \in Nat
      /\ t.val[v].commission + r + Gains(t, E, v) <= t.val[v].outstanding
  BY <1>1, BooksFacts DEF Covered
<1>4. c \in Nat /\ c <= t.val[v].commission
  BY <1>3, CoinsFacts
<1> HIDE DEF c
<1>5. o \in Nat /\ k \in Nat /\ k + r + Gains(t, E, v) <= o
  BY <1>2, <1>3, <1>4
<1> HIDE DEF o, k, r
<1>6. /\ OnlyBooks(t, t1, v)
      /\ t1.val[v].outstanding = o /\ t1.val[v].commission = k /\ t1.val[v].rewards = r
      /\ LastPeriod(t1, v) = LastPeriod(t, v)
      /\ \A p : Ratio(t1, v, p) = Ratio(t, v, p)
      /\ \A d : Gain(t1, v, d) = Gain(t, v, d)
      /\ InOrder(t1, E, v)
  BY <1>3, <1>5, AmountsOrder
<1>7. t1 = [t EXCEPT !.val[v].commission = @ - c, !.val[v].outstanding = @ - c]
  <2> DEFINE b == t.val[v]
  <2>1. b \in Books
    BY BooksFacts
  <2>2. [b EXCEPT !.outstanding = o, !.commission = k, !.rewards = r]
          = [b EXCEPT !.commission = k, !.outstanding = o]
    <3>1. r = b.rewards
      BY DEF r
    <3> HIDE DEF b
    <3>2. QED  BY <2>1, <3>1 DEF Books
  <2>3. t.val \in [Validators -> Books] /\ t \in Stores
    BY DEF Stores
  <2> DEFINE e == [b EXCEPT !.commission = k, !.outstanding = o]
  <2>4. t1 = [t EXCEPT !.val = [t.val EXCEPT ![v] = e]]
    BY <2>2 DEF WithBooks, WithAmounts
  <2>5. [t EXCEPT !.val[v].commission = @ - c, !.val[v].outstanding = @ - c]
           = [t EXCEPT !.val = [t.val EXCEPT ![v] = e]]
    BY <2>1, <2>3 DEF k, o, Stores
  <2>6. QED  BY <2>4, <2>5
<1> HIDE DEF t1
<1>8. /\ t1 \in Stores
      /\ t1.starting = t.starting /\ t1.slashes = t.slashes /\ t1.pool = t.pool
      /\ t1.panicked = t.panicked /\ t1.balance = t.balance /\ t1.paid = t.paid
      /\ \A w \in Validators \ {v} : t1.val[w] = t.val[w]
  BY <1>6 DEF OnlyBooks
<1>9. u = IF v \in blocked THEN t1 ELSE Pay(t1, v, c)
  BY <1>7 DEF WithdrawValidatorCommission, c
<1>10. t.paid \in [Accounts -> Nat] /\ t.balance \in Int /\ v \in Accounts
  BY DEF Stores, Accounts
<1> HIDE DEF u
<1>11. CASE v \in blocked
  <2>1. u = t1
    BY <1>9, <1>11
  <2>2. t.paid = [t.paid EXCEPT ![v] = @ + 0] /\ t.balance = t.balance - 0
    BY <1>10
  <2>3. QED  BY <2>1, <2>2, <1>6, <1>8, <1>11 DEF u, c, o, r
<1>12. CASE v \notin blocked
  <2>1. u = Pay(t1, v, c)
    BY <1>9, <1>12
  <2>2. /\ u \in Stores /\ u.val = t1.val /\ u.starting = t1.starting
        /\ u.slashes = t1.slashes /\ u.pool = t1.pool /\ u.balance = t1.balance - c
        /\ u.paid = [t1.paid EXCEPT ![v] = @ + c] /\ u.panicked = t1.panicked
    BY <1>4, <1>8, <1>10, <2>1, PayFacts
  <2>3. /\ LastPeriod(u, v) = LastPeriod(t1, v)
        /\ \A p : Ratio(u, v, p) = Ratio(t1, v, p)
    BY <2>2 DEF LastPeriod, Ratio
  <2>4. \A d : Gain(u, v, d) = Gain(t1, v, d)
    BY <2>2, <2>3 DEF Gain
  <2>5. InOrder(u, E, v)
    <3>1. E \subseteq DOMAIN u.starting
      BY <2>2, <1>8, <1>1
    <3>2. QED  BY <1>6, <2>2, <3>1, OrderSame
  <2>6. /\ u.val[v].outstanding = o /\ u.val[v].rewards = r
        /\ \A w \in Validators \ {v} : u.val[w] = t.val[w]
        /\ u.starting = t.starting /\ u.slashes = t.slashes /\ u.pool = t.pool
        /\ u.panicked = t.panicked
        /\ u.balance = t.balance - c /\ u.paid = [t.paid EXCEPT ![v] = @ + c]
    BY <2>2, <1>6, <1>8
  <2>7. /\ LastPeriod(u, v) = LastPeriod(t, v)
        /\ \A p : Ratio(u, v, p) = Ratio(t, v, p)
        /\ \A d : Gain(u, v, d) = Gain(t, v, d)
    BY <2>3, <2>4, <1>6
  <2>8. QED  BY <1>12, <2>2, <2>5, <2>6, <2>7 DEF u, c, o, r
<1>13. QED  BY <1>11, <1>12

\* A slash in a fresh period.
LEMMA SlashOrder ==
    ASSUME NEW t \in Stores, NEW v \in Validators, NEW E, InOrder(t, E, v), Fresh(t, E, v),
           NEW h \in Nat
    PROVE  LET p == LastPeriod(t, v)
               new == [val |-> v, height |-> h, period |-> p]
               u == [incrementReferenceCount(t, v, p) EXCEPT !.slashes = @ \cup {new}]
           IN
           /\ u \in Stores
           /\ \A w \in Validators \ {v} : u.val[w] = t.val[w]
           /\ u.val[v].outstanding = t.val[v].outstanding
           /\ u.slashes = t.slashes \cup {new}
           /\ u.starting = t.starting /\ u.pool = t.pool /\ u.balance = t.balance
           /\ u.paid = t.paid /\ u.panicked = t.panicked
           /\ InOrder(u, E, v)
<1> DEFINE p == LastPeriod(t, v)
           new == [val |-> v, height |-> h, period |-> p]
           t1 == incrementReferenceCount(t, v, p)
           u == [t1 EXCEPT !.slashes = @ \cup {new}]
<1>1. IsFiniteSet(E) /\ E \subseteq DOMAIN t.starting /\ Counted(t, E, v) /\ Apart(t, E, v)
      /\ Growing(t, v) /\ Covered(t, E, v)
  BY DEF InOrder
<1>2. p \in Nat /\ Refs(t, v, p) <= 2
  BY <1>1, LastPeriodTyped, CountedFacts
<1>3. /\ OnlyHistory(t, t1, v)
      /\ Refs(t1, v, p) = Refs(t, v, p) + 1
      /\ \A q : q # p => Refs(t1, v, q) = Refs(t, v, q)
      /\ \A q : Ratio(t1, v, q) = Ratio(t, v, q)
  <2> HIDE DEF p
  <2>1. QED  BY <1>2, IncrementFacts
<1>4. /\ t1 \in Stores /\ t1.starting = t.starting /\ t1.slashes = t.slashes
      /\ t1.pool = t.pool /\ t1.balance = t.balance /\ t1.paid = t.paid
      /\ t1.panicked = t.panicked
      /\ t1.val[v].outstanding = t.val[v].outstanding
      /\ t1.val[v].commission = t.val[v].commission
      /\ t1.val[v].rewards = t.val[v].rewards
      /\ LastPeriod(t1, v) = p
      /\ \A w \in Validators \ {v} : t1.val[w] = t.val[w]
  BY <1>3 DEF OnlyHistory, OnlyBooks, LastPeriod
<1>5. new \in Slashes /\ new.val = v /\ new.period = p
  BY <1>2 DEF Slashes
<1> HIDE DEF t1, p, new
<1>6. /\ u \in Stores /\ u.slashes = t1.slashes \cup {new} /\ u.val = t1.val
      /\ u.starting = t1.starting /\ u.pool = t1.pool /\ u.balance = t1.balance
      /\ u.paid = t1.paid /\ u.panicked = t1.panicked
  BY <1>4, <1>5 DEF Stores
<1>7. u = [incrementReferenceCount(t, v, p) EXCEPT !.slashes = @ \cup {new}]
  BY DEF t1
<1> HIDE DEF u
<1>8. /\ LastPeriod(u, v) = p
      /\ Refs(u, v, p) = Refs(t, v, p) + 1
      /\ \A q : q # p => Refs(u, v, q) = Refs(t, v, q)
      /\ \A q : Ratio(u, v, q) = Ratio(t, v, q)
  <2>1. LastPeriod(u, v) = LastPeriod(t1, v)
        /\ \A q : Refs(u, v, q) = Refs(t1, v, q) /\ Ratio(u, v, q) = Ratio(t1, v, q)
    BY <1>6 DEF LastPeriod, Refs, Ratio
  <2>2. QED  BY <2>1, <1>3, <1>4
<1>9. ~StartedAt(t, E, p) /\ ~SlashedAt(t, v, p)
  BY DEF Fresh, p
<1>10. \A q : StartedAt(u, E, q) = StartedAt(t, E, q)
  BY <1>4, <1>6 DEF StartedAt
<1>11. SlashedAt(u, v, p) /\ \A q : q # p => SlashedAt(u, v, q) = SlashedAt(t, v, q)
  BY <1>4, <1>5, <1>6 DEF SlashedAt
<1>12. Counted(u, E, v)
  <2>1. SUFFICES ASSUME NEW q \in Nat
                 PROVE  Refs(u, v, q) = Bit(q = p) + Bit(StartedAt(u, E, q))
                                                   + Bit(SlashedAt(u, v, q))
    BY <1>8 DEF Counted
  <2>2. Refs(t, v, q) = Bit(q = p) + Bit(StartedAt(t, E, q)) + Bit(SlashedAt(t, v, q))
    BY <1>1 DEF Counted, p
  <2>3. CASE q = p
    BY <2>2, <2>3, <1>8, <1>9, <1>10, <1>11 DEF Bit
  <2>4. CASE q # p
    BY <2>2, <2>4, <1>8, <1>10, <1>11
  <2>5. QED  BY <2>3, <2>4
<1>13. Apart(u, E, v)
  <2>1. \A e \in E : t.starting[e].period # p /\ t.starting[e].period <= p
    BY <1>9, <1>1 DEF StartedAt, Apart, p
  <2>2. \A e \in t.slashes : e.val = v => e.period # p /\ e.period <= p
    BY <1>9, <1>1 DEF SlashedAt, Apart, p
  <2>3. u.slashes = t.slashes \cup {new} /\ u.starting = t.starting
    BY <1>4, <1>6
  <2>4. \A e \in E : u.starting[e].period <= LastPeriod(u, v)
    BY <2>1, <2>3, <1>8
  <2>5. \A e \in u.slashes : e.val = v => e.period <= LastPeriod(u, v)
    BY <2>2, <2>3, <1>8, <1>5, <1>2
  <2>6. \A e, f \in E : u.starting[e].period = u.starting[f].period => e = f
    BY <2>3, <1>1 DEF Apart
  <2>7. \A e, f \in u.slashes : e.val = v /\ f.val = v /\ e.period = f.period => e = f
    BY <2>2, <2>3, <1>5, <1>1 DEF Apart
  <2>8. \A f \in E, e \in u.slashes : e.val = v => u.starting[f].period # e.period
    BY <2>1, <2>3, <1>5, <1>1 DEF Apart
  <2>9. QED  BY <2>4, <2>5, <2>6, <2>7, <2>8 DEF Apart
<1>14. Growing(u, v)
  <2>1. \A q : Refs(u, v, q) > 0 => Refs(t, v, q) > 0
    <3>1. Refs(t, v, p) > 0
      BY <1>1, CountedFacts DEF p
    <3>2. QED  BY <3>1, <1>8
  <2>2. QED  BY <2>1, <1>8, <1>1 DEF Growing, p
<1>15. Gains(u, E, v) = Gains(t, E, v)
  <2>1. \A e : Gain(u, v, e) = Gain(t, v, e)
    BY <1>8, <1>4, <1>6 DEF Gain, p
  <2>2. QED  BY <2>1 DEF Gains
<1>16. Covered(u, E, v)
  <2>1. /\ u.val[v].commission = t.val[v].commission
        /\ u.val[v].rewards = t.val[v].rewards
        /\ u.val[v].outstanding = t.val[v].outstanding
    BY <1>4, <1>6
  <2>2. t.val[v].commission + t.val[v].rewards + Gains(t, E, v) <= t.val[v].outstanding
    BY <1>1 DEF Covered
  <2>3. QED  BY <1>15, <2>1, <2>2 DEF Covered
<1>17. InOrder(u, E, v)
  BY <1>1, <1>4, <1>6, <1>12, <1>13, <1>14, <1>16 DEF InOrder
<1>18. /\ \A w \in Validators \ {v} : u.val[w] = t.val[w]
       /\ u.val[v].outstanding = t.val[v].outstanding
       /\ u.slashes = t.slashes \cup {new}
       /\ u.starting = t.starting /\ u.pool = t.pool /\ u.balance = t.balance
       /\ u.paid = t.paid /\ u.panicked = t.panicked
  BY <1>4, <1>6
<1>19. QED  BY <1>6, <1>7, <1>17, <1>18 DEF p, new

\* The share of fees of a validator.
LEMMA ShareOrder ==
    ASSUME NEW t \in Stores, NEW v \in Validators, NEW E, InOrder(t, E, v), NEW n \in Nat
    PROVE  LET u == [t EXCEPT !.val[v].outstanding = @ + n,
                              !.val[v].commission = @ + n \div 2,
                              !.val[v].rewards = @ + n - n \div 2]
           IN
           /\ OnlyBooks(t, u, v)
           /\ u.val[v].outstanding = t.val[v].outstanding + n
           /\ InOrder(u, E, v)
<1> DEFINE o == t.val[v].outstanding + n
           k == t.val[v].commission + n \div 2
           r == t.val[v].rewards + n - n \div 2
           u == WithAmounts(t, v, o, k, r)
<1>1. IsFiniteSet(E) /\ E \subseteq DOMAIN t.starting /\ Counted(t, E, v) /\ Apart(t, E, v)
      /\ Growing(t, v) /\ Covered(t, E, v)
  BY DEF InOrder
<1>2. Gains(t, E, v) \in Nat
  BY <1>1, GainsFacts
<1>3. /\ t.val[v].commission \in Nat /\ t.val[v].rewards \in Nat /\ t.val[v].outstanding \in Nat
      /\ t.val[v].commission + t.val[v].rewards + Gains(t, E, v) <= t.val[v].outstanding
  BY <1>1, BooksFacts DEF Covered
<1>4. n \div 2 \in Nat /\ n \div 2 <= n
  OBVIOUS
<1>5. o \in Nat /\ k \in Nat /\ r \in Nat /\ k + r + Gains(t, E, v) <= o
  <2> DEFINE y == n \div 2
  <2>1. y \in Nat /\ y <= n
    BY <1>4
  <2> HIDE DEF y
  <2>2. QED  BY <1>2, <1>3, <2>1 DEF y
<1>6. u = [t EXCEPT !.val[v].outstanding = @ + n,
                    !.val[v].commission = @ + n \div 2,
                    !.val[v].rewards = @ + n - n \div 2]
  <2> DEFINE b == t.val[v]
             e == [b EXCEPT !.outstanding = o, !.commission = k, !.rewards = r]
  <2>1. b \in Books
    BY BooksFacts
  <2>2. t.val \in [Validators -> Books] /\ t \in Stores
    BY DEF Stores
  <2>3. u = [t EXCEPT !.val = [t.val EXCEPT ![v] = e]]
    BY DEF WithBooks, WithAmounts
  <2>4. [t EXCEPT !.val[v].outstanding = @ + n,
                  !.val[v].commission = @ + n \div 2,
                  !.val[v].rewards = @ + n - n \div 2]
           = [t EXCEPT !.val = [t.val EXCEPT ![v] = e]]
    BY <2>1, <2>2 DEF Stores, Books
  <2>5. QED  BY <2>3, <2>4
<1> HIDE DEF o, k, r
<1>7. /\ OnlyBooks(t, u, v)
      /\ u.val[v].outstanding = o
      /\ InOrder(u, E, v)
  BY <1>5, AmountsOrder
<1> HIDE DEF u
<1>8. QED  BY <1>6, <1>7 DEF o

-----------------------------------------------------------------------------
(* The whole store *)

Of(D, v) == {d \in D : d[2] = v}

\* The module account has what the books say, and this much more.
Surplus(t) == t.balance - TotalOutstanding(t) - t.pool

\* All books are in order for the delegations D.
Sound(t, D) ==
    /\ t \in Stores /\ ~t.panicked /\ D \subseteq DOMAIN t.starting
    /\ \A v \in Validators : InOrder(t, Of(D, v), v)

\* Delegations, of which every operator has one.
Delegated(D) == D \subseteq Pairs /\ \A v \in Validators : <<v, v>> \in D

\* All sets of accounts and delegations are finite.
LEMMA PairsFinite == IsFiniteSet(Pairs) /\ IsFiniteSet(Accounts) /\ IsFiniteSet(Validators)
<1>1. IsFiniteSet(Validators) /\ IsFiniteSet(Delegators)
  BY ExportAssumption
<1>2. IsFiniteSet(Accounts)
  BY <1>1, FS_Union DEF Accounts
<1>3. IsFiniteSet(Accounts \X Validators)
  BY <1>1, <1>2, FS_Product
<1>4. QED  BY <1>1, <1>2, <1>3 DEF Pairs

\* The tokens of a validator are its delegations, of which it has some.
LEMMA TokensFacts ==
    ASSUME NEW D \in SUBSET Pairs, NEW v \in Validators
    PROVE  /\ IsFiniteSet(Of(D, v)) /\ Tokens(D, v) = Cardinality(Of(D, v))
           /\ Tokens(D, v) \in Nat
           /\ Delegated(D) => Tokens(D, v) \in Nat \ {0}
<1>1. IsFiniteSet(Of(D, v)) /\ Of(D, v) \subseteq Pairs
  <2>1. Of(D, v) \subseteq Pairs
    BY DEF Of
  <2>2. QED  BY <2>1, PairsFinite, FS_Subset
<1>2. Tokens(D, v) = Cardinality(Of(D, v))
  BY DEF Tokens, Of
<1>3. Cardinality(Of(D, v)) \in Nat
  BY <1>1, FS_CardinalityType
<1>4. ASSUME Delegated(D)
      PROVE  Cardinality(Of(D, v)) # 0
  <2>1. <<v, v>> \in Of(D, v)
    BY <1>4 DEF Delegated, Of
  <2>2. QED  BY <1>1, <2>1, FS_EmptySet
<1>5. QED  BY <1>1, <1>2, <1>3, <1>4

\* The total is a sum of what is not negative.
LEMMA TotalFacts ==
    ASSUME NEW t \in Stores
    PROVE  /\ TotalOutstanding(t)
                = SumFunctionOnSet([v \in Validators |-> t.val[v].outstanding], Validators)
           /\ TotalOutstanding(t) \in Nat
<1> DEFINE f == [v \in Validators |-> t.val[v].outstanding]
<1>1. TotalOutstanding(t) = SumFunctionOnSet(f, Validators)
  BY DEF TotalOutstanding, SumFunction
<1>2. \A v \in Validators : f[v] \in Nat
  BY BooksFacts
<1> HIDE DEF f
<1>3. SumFunctionOnSet(f, Validators) \in Nat
  BY <1>2, PairsFinite, SumNat
<1>4. QED  BY <1>1, <1>3 DEF f

\* The total follows the one validator that changes.
LEMMA TotalChange ==
    ASSUME NEW t, NEW u, NEW v, t \in Stores, u \in Stores, v \in Validators,
           \A w \in Validators \ {v} : u.val[w].outstanding = t.val[w].outstanding
    PROVE  TotalOutstanding(u)
             = TotalOutstanding(t) + u.val[v].outstanding - t.val[v].outstanding
<1> DEFINE f == [w \in Validators |-> t.val[w].outstanding]
           g == [w \in Validators |-> u.val[w].outstanding]
<1>1. TotalOutstanding(t) = SumFunctionOnSet(f, Validators)
      /\ TotalOutstanding(u) = SumFunctionOnSet(g, Validators)
  BY TotalFacts
<1>2. \A w \in Validators : f[w] \in Int /\ g[w] \in Int
  BY BooksFacts
<1>3. \A w \in Validators \ {v} : g[w] = f[w]
  OBVIOUS
<1>4. g[v] = u.val[v].outstanding /\ f[v] = t.val[v].outstanding
  OBVIOUS
<1> HIDE DEF f, g
<1>5. SumFunctionOnSet(g, Validators) = SumFunctionOnSet(f, Validators) + g[v] - f[v]
  BY <1>2, <1>3, PairsFinite, SumChange
<1>6. QED  BY <1>1, <1>4, <1>5

\* What keeps the surplus: what is taken off the books is paid or goes to the pool.
LEMMA SurplusKept ==
    ASSUME NEW t, NEW u, NEW v, NEW a, NEW c, NEW r,
           t \in Stores, u \in Stores, v \in Validators, a \in Nat, c \in Nat, r \in Nat,
           \A w \in Validators \ {v} : u.val[w] = t.val[w],
           u.val[v].outstanding = t.val[v].outstanding - a,
           u.pool = t.pool + r, u.balance = t.balance - c, a = c + r
    PROVE  Surplus(u) = Surplus(t)
<1>1. TotalOutstanding(u) = TotalOutstanding(t) + u.val[v].outstanding - t.val[v].outstanding
  BY TotalChange
<1>2. TotalOutstanding(t) \in Nat /\ TotalOutstanding(u) \in Nat
  BY TotalFacts
<1>3. t.pool \in Nat /\ t.balance \in Int /\ t.val[v].outstanding \in Nat
  BY BooksFacts DEF Stores
<1>4. TotalOutstanding(u) = TotalOutstanding(t) - a
  BY <1>1, <1>2, <1>3
<1>5. QED  BY <1>2, <1>3, <1>4 DEF Surplus

\* What neither pays nor earns keeps the surplus.
LEMMA SurplusSame ==
    ASSUME NEW t, NEW u, NEW v, t \in Stores, u \in Stores, v \in Validators,
           \A w \in Validators \ {v} : u.val[w] = t.val[w],
           u.val[v].outstanding = t.val[v].outstanding,
           u.pool = t.pool, u.balance = t.balance
    PROVE  Surplus(u) = Surplus(t)
<1>1. t.pool \in Nat /\ t.balance \in Int /\ t.val[v].outstanding \in Nat
  BY BooksFacts DEF Stores
<1>2. /\ u.val[v].outstanding = t.val[v].outstanding - 0
      /\ u.pool = t.pool + 0 /\ u.balance = t.balance - 0 /\ 0 \in Nat /\ 0 = 0 + 0
  BY <1>1
<1>3. QED  BY <1>2, SurplusKept

\* Those that an operation on v leaves alone stay in order.
LEMMA OthersInOrder ==
    ASSUME NEW t, NEW u, NEW v, NEW D, NEW E,
           \A w \in Validators \ {v} : u.val[w] = t.val[w],
           \A w \in Validators \ {v} : Of(E, w) = Of(D, w),
           \A w \in Validators \ {v} : \A d \in Of(D, w) :
               d \in DOMAIN u.starting /\ u.starting[d] = t.starting[d],
           \A e : e.val # v => (e \in u.slashes <=> e \in t.slashes),
           \A w \in Validators \ {v} : InOrder(t, Of(D, w), w)
    PROVE  \A w \in Validators \ {v} : InOrder(u, Of(E, w), w)
<1>1. SUFFICES ASSUME NEW w \in Validators \ {v}
               PROVE  InOrder(u, Of(D, w), w)
  OBVIOUS
<1>2. /\ u.val[w] = t.val[w] /\ Of(D, w) \subseteq DOMAIN u.starting
      /\ \A d \in Of(D, w) : u.starting[d] = t.starting[d]
      /\ \A e : e.val = w => (e \in u.slashes <=> e \in t.slashes)
      /\ InOrder(t, Of(D, w), w)
  OBVIOUS
<1>3. QED  BY <1>2, OrderSame

\* A period of v has ended, and all is in order for D.
PeriodEnded(t, u, D, v, tokens) ==
    /\ Sound(u, D) /\ Fresh(u, Of(D, v), v) /\ Surplus(u) = Surplus(t)
    /\ u.starting = t.starting /\ u.slashes = t.slashes /\ u.pool = t.pool
    /\ u.balance = t.balance /\ u.paid = t.paid
    /\ \A w \in Validators \ {v} : u.val[w] = t.val[w]
    /\ u.val[v].rewards = 0 /\ LastPeriod(u, v) = t.val[v].period
    /\ Ratio(u, v, LastPeriod(u, v))
          = Ratio(t, v, LastPeriod(t, v)) + t.val[v].rewards \div tokens

\* The end of a period.
LEMMA PeriodSound ==
    ASSUME NEW t, NEW D, NEW v, NEW tokens, Sound(t, D), v \in Validators,
           D \subseteq Pairs, tokens \in Nat \ {0}, Cardinality(Of(D, v)) <= tokens
    PROVE  PeriodEnded(t, IncrementValidatorPeriod(t, v, tokens), D, v, tokens)
<1> DEFINE u == IncrementValidatorPeriod(t, v, tokens)
           E == Of(D, v)
<1>1. t \in Stores /\ InOrder(t, E, v) /\ D \subseteq DOMAIN t.starting /\ ~t.panicked
      /\ \A w \in Validators : InOrder(t, Of(D, w), w)
  BY DEF Sound
<1>2. Refs(t, v, LastPeriod(t, v)) > 0
  <2>1. E \subseteq DOMAIN t.starting /\ Counted(t, E, v) /\ Apart(t, E, v)
    BY <1>1 DEF InOrder
  <2> HIDE DEF E
  <2>2. QED  BY <1>1, <2>1, CountedFacts
<1>3. /\ OnlyBooks(t, u, v)
      /\ u.val[v].outstanding = t.val[v].outstanding
      /\ u.val[v].rewards = 0 /\ LastPeriod(u, v) = t.val[v].period
      /\ Ratio(u, v, t.val[v].period)
            = Ratio(t, v, t.val[v].period - 1) + t.val[v].rewards \div tokens
  BY <1>1, <1>2, PeriodFacts
<1>4. InOrder(u, E, v) /\ Fresh(u, E, v)
  <2> HIDE DEF E
  <2>1. Cardinality(E) <= tokens
    BY DEF E
  <2>2. QED  BY <1>1, <2>1, PeriodOrder
<1> HIDE DEF u, E
<1>5. /\ u \in Stores /\ u.starting = t.starting /\ u.slashes = t.slashes /\ u.pool = t.pool
      /\ u.balance = t.balance /\ u.paid = t.paid /\ u.panicked = t.panicked
      /\ \A w \in Validators \ {v} : u.val[w] = t.val[w]
  BY <1>3 DEF OnlyBooks
<1>6. \A w \in Validators \ {v} : InOrder(u, Of(D, w), w)
  <2>1. \A w \in Validators \ {v} : \A d \in Of(D, w) :
               d \in DOMAIN u.starting /\ u.starting[d] = t.starting[d]
    BY <1>1, <1>5 DEF Of
  <2>2. QED  BY <1>1, <1>5, <2>1, OthersInOrder
<1>7. Sound(u, D)
  BY <1>1, <1>4, <1>5, <1>6 DEF Sound, E
<1>8. Surplus(u) = Surplus(t)
  BY <1>1, <1>3, <1>5, SurplusSame
<1>9. /\ u.val[v].rewards = 0 /\ LastPeriod(u, v) = t.val[v].period
      /\ Ratio(u, v, LastPeriod(u, v))
            = Ratio(t, v, LastPeriod(t, v)) + t.val[v].rewards \div tokens
  <2>1. LastPeriod(t, v) = t.val[v].period - 1
    BY DEF LastPeriod
  <2>2. QED  BY <1>3, <2>1
<1>10. QED  BY <1>4, <1>5, <1>7, <1>8, <1>9 DEF u, E, PeriodEnded

\* d has started at h, and all is in order for it and D.
StartedFor(t, u, D, d, h) ==
    /\ Sound(u, D \cup {d}) /\ Surplus(u) = Surplus(t)
    /\ u.slashes = t.slashes /\ u.pool = t.pool
    /\ u.balance = t.balance /\ u.paid = t.paid
    /\ u.starting[d].height = h
    /\ DOMAIN u.starting = DOMAIN t.starting \cup {d}
    /\ \A e \in DOMAIN t.starting \ {d} : u.starting[e] = t.starting[e]
    /\ \A w \in Validators \ {d[2]} : u.val[w] = t.val[w]
    /\ u.val[d[2]].rewards = t.val[d[2]].rewards
    /\ LastPeriod(u, d[2]) = LastPeriod(t, d[2])
    /\ \A p : Ratio(u, d[2], p) = Ratio(t, d[2], p)

\* A delegation starts in a fresh period.
LEMMA StartSound ==
    ASSUME NEW t, NEW D, NEW d, NEW h, Sound(t, D), Fresh(t, Of(D, d[2]), d[2]),
           D \subseteq Pairs, d \in Pairs, d \notin D, h \in Nat
    PROVE  StartedFor(t, initializeDelegation(t, d, h), D, d, h)
<1> DEFINE u == initializeDelegation(t, d, h)
           v == d[2]
           E == Of(D, v)
<1>1. t \in Stores /\ InOrder(t, E, v) /\ D \subseteq DOMAIN t.starting /\ ~t.panicked
      /\ v \in Validators /\ \A w \in Validators : InOrder(t, Of(D, w), w)
  BY DEF Sound, Pairs
<1>2. d \notin E
  BY DEF Of
<1> HIDE DEF E
<1>a. Fresh(t, E, d[2])
  BY DEF E
<1>3. /\ u \in Stores
      /\ \A w \in Validators \ {v} : u.val[w] = t.val[w]
      /\ u.val[v].outstanding = t.val[v].outstanding
      /\ u.val[v].rewards = t.val[v].rewards
      /\ LastPeriod(u, v) = LastPeriod(t, v)
      /\ \A p : Ratio(u, v, p) = Ratio(t, v, p)
      /\ u.slashes = t.slashes /\ u.pool = t.pool /\ u.balance = t.balance
      /\ u.paid = t.paid /\ u.panicked = t.panicked
      /\ DOMAIN u.starting = DOMAIN t.starting \cup {d}
      /\ u.starting[d] = [period |-> LastPeriod(t, v), height |-> h]
      /\ \A e \in DOMAIN t.starting \ {d} : u.starting[e] = t.starting[e]
      /\ InOrder(u, E \cup {d}, v)
  <2>1. InOrder(t, E, d[2])
    BY <1>1
  <2>2. StartedIn(t, u, d, h, E)
    BY <1>1, <1>2, <1>a, <2>1, StartOrder
  <2> HIDE DEF u
  <2>3. QED  BY <2>2 DEF StartedIn
<1> HIDE DEF u, v
<1>4. v = d[2]
  BY DEF v
<1>5. Of(D \cup {d}, v) = E \cup {d}
  BY <1>4 DEF Of, E
<1>6. \A w \in Validators \ {v} : InOrder(u, Of(D \cup {d}, w), w)
  <2>1. \A w \in Validators \ {v} : Of(D \cup {d}, w) = Of(D, w)
    BY <1>4 DEF Of
  <2>2. \A w \in Validators \ {v} : \A e \in Of(D, w) :
               e \in DOMAIN u.starting /\ u.starting[e] = t.starting[e]
    BY <1>1, <1>3 DEF Of
  <2>3. QED  BY <1>1, <1>3, <2>1, <2>2, OthersInOrder
<1>7. Sound(u, D \cup {d})
  BY <1>1, <1>3, <1>5, <1>6 DEF Sound
<1>8. Surplus(u) = Surplus(t)
  BY <1>1, <1>3, SurplusSame
<1>9. u.starting[d].height = h
  BY <1>3
<1>10. QED  BY <1>3, <1>4, <1>7, <1>8, <1>9 DEF u, StartedFor

\* d has been paid c, and all is in order for the others of D.
WithdrawnFor(t, u, D, d, tokens, c) ==
    LET v == d[2] IN
    /\ Sound(u, D \ {d}) /\ Fresh(u, Of(D \ {d}, v), v) /\ Surplus(u) = Surplus(t)
    /\ u.slashes = t.slashes
    /\ c \in Nat /\ u.paid = [t.paid EXCEPT ![d[1]] = @ + c]
    /\ DOMAIN u.starting = DOMAIN t.starting \ {d}
    /\ \A e \in DOMAIN t.starting \ {d} : u.starting[e] = t.starting[e]
    /\ \A w \in Validators \ {v} : u.val[w] = t.val[w]
    /\ u.val[v].rewards = 0
    /\ \A e \in Of(D, v) \ {d} :
           Gain(u, v, e) = Gain(t, v, e) + t.val[v].rewards \div tokens

\* A withdrawal.
LEMMA WithdrawSound ==
    ASSUME NEW t, NEW D, NEW d, NEW h, Sound(t, D),
           Delegated(D), d \in D, h \in Nat
    PROVE  WithdrawnFor(t, withdrawDelegationRewards(t, d, Tokens(D, d[2]), h), D, d,
                        Tokens(D, d[2]), CoinsIn(Payable(t, d, Tokens(D, d[2]), h)))
<1> DEFINE v == d[2]
           tokens == Tokens(D, v)
           u == withdrawDelegationRewards(t, d, tokens, h)
           a == Payable(t, d, tokens, h)
           c == CoinsIn(a)
           E == Of(D, v)
<1>1. t \in Stores /\ InOrder(t, E, v) /\ D \subseteq DOMAIN t.starting /\ ~t.panicked
      /\ v \in Validators /\ d \in Pairs /\ D \in SUBSET Pairs
      /\ \A w \in Validators : InOrder(t, Of(D, w), w)
  BY DEF Sound, Delegated, Pairs
<1>2. d \in E
  BY DEF Of
<1>3. tokens \in Nat \ {0} /\ Cardinality(E) <= tokens
  <2>1. tokens \in Nat \ {0} /\ tokens = Cardinality(E)
    BY <1>1, TokensFacts
  <2>2. QED  BY <2>1
<1> HIDE DEF E, tokens
<1>4. a \in Nat
  <2>1. InOrder(t, E, d[2])
    BY <1>1
  <2>2. Earned(t, d, tokens, h) \in Nat /\ Payable(t, d, tokens, h) = Earned(t, d, tokens, h)
    BY <1>1, <1>2, <1>3, <2>1, EarnedFacts
  <2>3. QED  BY <2>2
<1>5. c \in Nat /\ a % Unit \in Nat /\ a = c + (a % Unit)
  BY <1>4, CoinsFacts
<1>6. /\ u \in Stores
      /\ \A w \in Validators \ {v} : u.val[w] = t.val[w]
      /\ u.val[v].outstanding = t.val[v].outstanding - a
      /\ u.val[v].rewards = 0
      /\ u.pool = t.pool + (a % Unit) /\ u.balance = t.balance - c
      /\ u.paid = [t.paid EXCEPT ![d[1]] = @ + c]
      /\ u.slashes = t.slashes /\ u.panicked = t.panicked
      /\ DOMAIN u.starting = DOMAIN t.starting \ {d}
      /\ \A e \in DOMAIN t.starting \ {d} : u.starting[e] = t.starting[e]
      /\ InOrder(u, E \ {d}, v) /\ Fresh(u, E \ {d}, v)
      /\ \A e \in E \ {d} : Gain(u, v, e) = Gain(t, v, e) + t.val[v].rewards \div tokens
  <2>1. InOrder(t, E, d[2])
    BY <1>1
  <2>2. WithdrawnIn(t, u, d, E, tokens, a)
    BY <1>1, <1>2, <1>3, <2>1, WithdrawOrder
  <2> HIDE DEF u, a
  <2>3. QED  BY <2>2 DEF WithdrawnIn
<1> HIDE DEF u, v, a, c
<1>7. v = d[2]
  BY DEF v
<1>8. Of(D \ {d}, v) = E \ {d}
  BY <1>7 DEF Of, E
<1>9. \A w \in Validators \ {v} : InOrder(u, Of(D \ {d}, w), w)
  <2>1. \A w \in Validators \ {v} : Of(D \ {d}, w) = Of(D, w)
    BY <1>7 DEF Of
  <2>2. \A w \in Validators \ {v} : \A e \in Of(D, w) :
               e \in DOMAIN u.starting /\ u.starting[e] = t.starting[e]
    BY <1>1, <1>6, <1>7 DEF Of
  <2>3. /\ \A w \in Validators \ {v} : u.val[w] = t.val[w]
        /\ u.slashes = t.slashes
        /\ \A w \in Validators : InOrder(t, Of(D, w), w)
    BY <1>1, <1>6
  <2>4. QED  BY <2>1, <2>2, <2>3, OthersInOrder
<1>10. Sound(u, D \ {d})
  BY <1>1, <1>6, <1>8, <1>9 DEF Sound
<1>11. Surplus(u) = Surplus(t)
  <2> DEFINE r == a % Unit
  <2>1. r \in Nat /\ a = c + r /\ u.pool = t.pool + r
    BY <1>5, <1>6
  <2> HIDE DEF r
  <2>2. /\ u \in Stores /\ u.balance = t.balance - c
        /\ u.val[v].outstanding = t.val[v].outstanding - a
        /\ \A w \in Validators \ {v} : u.val[w] = t.val[w]
    BY <1>6
  <2>3. t \in Stores /\ v \in Validators /\ a \in Nat /\ c \in Nat
    BY <1>1, <1>4, <1>5
  <2>4. QED  BY <2>1, <2>2, <2>3, SurplusKept
<1>12. QED  BY <1>5, <1>6, <1>7, <1>8, <1>10, <1>11 DEF u, v, a, c, E, tokens, WithdrawnFor

\* A period of d[2] has ended and d has started in the new one.
Began(t, u, D, d, h, tokens) ==
    LET v == d[2] IN
    /\ Sound(u, D \cup {d}) /\ Surplus(u) = Surplus(t)
    /\ u.slashes = t.slashes /\ u.pool = t.pool /\ u.balance = t.balance /\ u.paid = t.paid
    /\ u.starting[d].height = h
    /\ DOMAIN u.starting = DOMAIN t.starting \cup {d}
    /\ \A e \in DOMAIN t.starting \ {d} : u.starting[e] = t.starting[e]
    /\ \A w \in Validators \ {v} : u.val[w] = t.val[w]
    /\ u.val[v].rewards = 0
    /\ Ratio(u, v, LastPeriod(u, v))
          = Ratio(t, v, LastPeriod(t, v)) + t.val[v].rewards \div tokens

\* A delegation that starts, as Delegate, Redelegate and ResetDelegations do it.
LEMMA BeginSound ==
    ASSUME NEW t, NEW D, NEW d, NEW h, NEW tokens, Sound(t, D),
           D \subseteq Pairs, d \in Pairs, d \notin D, h \in Nat,
           tokens \in Nat \ {0}, Cardinality(Of(D, d[2])) <= tokens
    PROVE  Began(t, initializeDelegation(IncrementValidatorPeriod(t, d[2], tokens), d, h),
                 D, d, h, tokens)
<1> DEFINE v == d[2]
           t1 == IncrementValidatorPeriod(t, v, tokens)
           u == initializeDelegation(t1, d, h)
<1>1. v \in Validators
  BY DEF Pairs
<1>2. PeriodEnded(t, t1, D, v, tokens)
  BY <1>1, PeriodSound
<1>3. Sound(t1, D) /\ Fresh(t1, Of(D, v), v)
  BY <1>2 DEF PeriodEnded
<1> HIDE DEF t1
<1>4. StartedFor(t1, u, D, d, h)
  BY <1>3, StartSound
<1> HIDE DEF u
<1>5. Ratio(u, v, LastPeriod(u, v)) = Ratio(t1, v, LastPeriod(t1, v))
  BY <1>4 DEF StartedFor
<1>6. Began(t, u, D, d, h, tokens)
  BY <1>2, <1>4, <1>5 DEF PeriodEnded, StartedFor, Began
<1>7. QED  BY <1>6 DEF u, t1

\* A period of v has ended, and a slash refers to it.
Slashed(t, u, D, v, h) ==
    /\ Sound(u, D) /\ Surplus(u) = Surplus(t)
    /\ u.starting = t.starting /\ u.paid = t.paid
    /\ u.slashes = t.slashes \cup {[val |-> v, height |-> h, period |-> t.val[v].period]}

\* A slash.
LEMMA SlashSound ==
    ASSUME NEW t, NEW D, NEW v, NEW h, NEW tokens, Sound(t, D), v \in Validators,
           D \subseteq Pairs, h \in Nat, tokens \in Nat \ {0}, Cardinality(Of(D, v)) <= tokens
    PROVE  LET t1 == IncrementValidatorPeriod(t, v, tokens) IN
           Slashed(t, [incrementReferenceCount(t1, v, t1.val[v].period - 1) EXCEPT
                          !.slashes = @ \cup {[val |-> v, height |-> h,
                                               period |-> t1.val[v].period - 1]}],
                   D, v, h)
<1> DEFINE t1 == IncrementValidatorPeriod(t, v, tokens)
           E == Of(D, v)
           p == LastPeriod(t1, v)
           new == [val |-> v, height |-> h, period |-> p]
           u == [incrementReferenceCount(t1, v, p) EXCEPT !.slashes = @ \cup {new}]
<1>1. PeriodEnded(t, t1, D, v, tokens)
  BY PeriodSound
<1>2. /\ Sound(t1, D) /\ Fresh(t1, E, v) /\ Surplus(t1) = Surplus(t) /\ p = t.val[v].period
      /\ t1.starting = t.starting /\ t1.slashes = t.slashes /\ t1.paid = t.paid
  BY <1>1 DEF PeriodEnded
<1> HIDE DEF t1, E
<1>3. /\ t1 \in Stores /\ ~t1.panicked /\ D \subseteq DOMAIN t1.starting /\ InOrder(t1, E, v)
      /\ \A w \in Validators : InOrder(t1, Of(D, w), w)
  BY <1>2 DEF Sound, E
<1>4. /\ u \in Stores
      /\ \A w \in Validators \ {v} : u.val[w] = t1.val[w]
      /\ u.val[v].outstanding = t1.val[v].outstanding
      /\ u.slashes = t1.slashes \cup {new}
      /\ u.starting = t1.starting /\ u.pool = t1.pool /\ u.balance = t1.balance
      /\ u.paid = t1.paid /\ u.panicked = t1.panicked
      /\ InOrder(u, E, v)
  BY <1>2, <1>3, SlashOrder
<1>5. new.val = v
  OBVIOUS
<1> HIDE DEF u
<1>6. \A w \in Validators \ {v} : InOrder(u, Of(D, w), w)
  <2>1. \A w \in Validators \ {v} : \A e \in Of(D, w) :
               e \in DOMAIN u.starting /\ u.starting[e] = t1.starting[e]
    BY <1>3, <1>4 DEF Of
  <2>2. \A e : e.val # v => (e \in u.slashes <=> e \in t1.slashes)
    BY <1>4, <1>5
  <2>3. /\ \A w \in Validators \ {v} : u.val[w] = t1.val[w]
        /\ \A w \in Validators : InOrder(t1, Of(D, w), w)
    BY <1>3, <1>4
  <2>4. QED  BY <2>1, <2>2, <2>3, OthersInOrder
<1>7. Sound(u, D)
  BY <1>3, <1>4, <1>6 DEF Sound, E
<1>8. Surplus(u) = Surplus(t1)
  BY <1>3, <1>4, SurplusSame
<1>9. Slashed(t, u, D, v, h)
  BY <1>2, <1>4, <1>7, <1>8 DEF Slashed
<1>10. QED
  BY <1>9 DEF u, t1, LastPeriod

\* d was paid and started again.
Rewarded(t, u, D, d, h, tokens, c) ==
    LET v == d[2] IN
    /\ Sound(u, D) /\ Surplus(u) = Surplus(t)
    /\ u.slashes = t.slashes
    /\ DOMAIN u.starting = DOMAIN t.starting
    /\ u.starting[d].height = h
    /\ \A e \in DOMAIN t.starting \ {d} : u.starting[e] = t.starting[e]
    /\ c \in Nat /\ u.paid = [t.paid EXCEPT ![d[1]] = @ + c]
    /\ \A w \in Validators \ {v} : u.val[w] = t.val[w]
    /\ u.val[v].rewards = 0
    /\ \A e \in Of(D, v) \ {d} :
           Gain(u, v, e) = Gain(t, v, e) + t.val[v].rewards \div tokens

\* A withdrawal after which the delegation goes on.
LEMMA RewardSound ==
    ASSUME NEW t, NEW D, NEW d, NEW h, Sound(t, D), Delegated(D), d \in D, h \in Nat
    PROVE  Rewarded(t, initializeDelegation(
                           withdrawDelegationRewards(t, d, Tokens(D, d[2]), h), d, h),
                    D, d, h, Tokens(D, d[2]), CoinsIn(Payable(t, d, Tokens(D, d[2]), h)))
<1> DEFINE v == d[2]
           tokens == Tokens(D, v)
           c == CoinsIn(Payable(t, d, tokens, h))
           t1 == withdrawDelegationRewards(t, d, tokens, h)
           u == initializeDelegation(t1, d, h)
           F == D \ {d}
<1>1. WithdrawnFor(t, t1, D, d, tokens, c)
  BY WithdrawSound
<1>2. D \subseteq Pairs /\ d \in Pairs /\ D \subseteq DOMAIN t.starting
  BY DEF Delegated, Sound
<1> HIDE DEF t1, c, tokens
<1>3. Sound(t1, F) /\ Fresh(t1, Of(F, d[2]), d[2]) /\ F \subseteq Pairs /\ d \notin F
  BY <1>1, <1>2 DEF WithdrawnFor
<1>4. StartedFor(t1, u, F, d, h)
  <2> HIDE DEF F
  <2>1. QED  BY <1>2, <1>3, StartSound
<1> HIDE DEF u
<1>5. F \cup {d} = D
  OBVIOUS
<1>6. /\ Sound(u, D) /\ Surplus(u) = Surplus(t) /\ u.slashes = t.slashes
      /\ c \in Nat /\ u.paid = [t.paid EXCEPT ![d[1]] = @ + c]
      /\ \A w \in Validators \ {v} : u.val[w] = t.val[w]
      /\ u.val[v].rewards = 0 /\ u.starting[d].height = h
  BY <1>1, <1>4, <1>5 DEF StartedFor, WithdrawnFor
<1>7. /\ DOMAIN u.starting = DOMAIN t.starting
      /\ \A e \in DOMAIN t.starting \ {d} : u.starting[e] = t1.starting[e]
                                            /\ u.starting[e] = t.starting[e]
  BY <1>1, <1>2, <1>4 DEF StartedFor, WithdrawnFor
<1>8. ASSUME NEW e \in Of(D, v) \ {d}
      PROVE  Gain(u, v, e) = Gain(t, v, e) + t.val[v].rewards \div tokens
  <2>1. e \in DOMAIN t.starting \ {d}
    BY <1>2 DEF Of
  <2>2. u.starting[e] = t1.starting[e]
    BY <1>7, <2>1
  <2>3. LastPeriod(u, v) = LastPeriod(t1, v) /\ \A p : Ratio(u, v, p) = Ratio(t1, v, p)
    BY <1>4 DEF StartedFor
  <2>4. Gain(u, v, e) = Gain(t1, v, e)
    BY <2>2, <2>3 DEF Gain
  <2>5. Gain(t1, v, e) = Gain(t, v, e) + t.val[v].rewards \div tokens
    BY <1>1 DEF WithdrawnFor
  <2>6. QED  BY <2>4, <2>5
<1>9. Rewarded(t, u, D, d, h, tokens, c)
  BY <1>6, <1>7, <1>8 DEF Rewarded
<1>10. QED  BY <1>9 DEF u, t1, c, tokens

-----------------------------------------------------------------------------
(* Folds over a store *)

\* A fold has a table when its steps are of the type as far as they are reached,
\* which an invariant of the steps shows.
LEMMA FoldReached ==
    ASSUME NEW S, IsFiniteSet(S), NEW T, NEW base \in T, NEW op, NEW I,
           base \in I[{}],
           \A U \in SUBSET S : \A t \in T :
               U # {} /\ t \in I[U \ {Chosen(U)}] =>
                   op[<<Chosen(U), t>>] \in T /\ op[<<Chosen(U), t>>] \in I[U]
    PROVE  \E h \in [SUBSET S -> T] : IsFold(h, S, base, op)
<1> DEFINE op2 == [p \in S \X T |-> IF op[p] \in T THEN op[p] ELSE base]
<1>1. op2 \in [S \X T -> T]
  OBVIOUS
<1>2. \A x \in S, t \in T : op[<<x, t>>] \in T => op2[<<x, t>>] = op[<<x, t>>]
  OBVIOUS
<1> HIDE DEF op2
<1>3. PICK h \in [SUBSET S -> T] : IsFold(h, S, base, op2)
  BY <1>1, FoldSolved
<1>4. \A U \in SUBSET S : U # {} =>
         /\ Chosen(U) \in S /\ Chosen(U) \in U /\ U \ {Chosen(U)} \in SUBSET S
         /\ h[U \ {Chosen(U)}] \in T /\ h[U] = op2[<<Chosen(U), h[U \ {Chosen(U)}]>>]
  BY <1>3, ChosenIn DEF IsFold
<1>5. ASSUME NEW U \in SUBSET S, U # {}, h[U \ {Chosen(U)}] \in I[U \ {Chosen(U)}]
      PROVE  /\ h[U] = op[<<Chosen(U), h[U \ {Chosen(U)}]>>]
             /\ h[U] \in I[U]
  <2> DEFINE t == h[U \ {Chosen(U)}]
  <2>1. t \in T /\ Chosen(U) \in S /\ h[U] = op2[<<Chosen(U), t>>]
    BY <1>4, <1>5
  <2>2. t \in I[U \ {Chosen(U)}]
    BY <1>5
  <2> HIDE DEF t
  <2>3. op[<<Chosen(U), t>>] \in T /\ op[<<Chosen(U), t>>] \in I[U]
    BY <1>5, <2>1, <2>2
  <2>4. op2[<<Chosen(U), t>>] = op[<<Chosen(U), t>>]
    BY <1>2, <2>1, <2>3
  <2>5. h[U] = op[<<Chosen(U), t>>]
    BY <2>1, <2>4
  <2>6. QED  BY <2>3, <2>5 DEF t
<1>6. ASSUME NEW U \in SUBSET S
      PROVE  h[U] \in I[U]
  <2> DEFINE P == {V \in SUBSET S : h[V] \in I[V]}
  <2>1. IsFiniteSet(U)
    BY FS_Subset
  <2>2. {} \in P
    BY <1>3 DEF IsFold
  <2>3. ASSUME NEW V \in SUBSET U, V # {}
        PROVE  \E x \in V : V \ {x} \in P => V \in P
    <3>1. Chosen(V) \in V /\ (V \ {Chosen(V)} \in P => V \in P)
      BY <1>4, <1>5, <2>3
    <3>2. QED  BY <3>1
  <2>4. U \in P
    <3> HIDE DEF P
    <3>1. QED  BY <2>1, <2>2, <2>3, FiniteSteps
  <2>5. QED  BY <2>4
<1>7. \A U \in SUBSET S : h[U] = IF U = {} THEN base ELSE op[<<Chosen(U), h[U \ {Chosen(U)}]>>]
  <2>1. \A U \in SUBSET S : U # {} => h[U \ {Chosen(U)}] \in I[U \ {Chosen(U)}]
    BY <1>4, <1>6
  <2>2. h[{}] = base
    BY <1>3 DEF IsFold
  <2>3. QED  BY <1>5, <2>1, <2>2
<1>8. IsFold(h, S, base, op)
  BY <1>7 DEF IsFold
<1>9. QED  BY <1>8

\* What is kept by every step holds of the result.
LEMMA FoldKept ==
    ASSUME NEW S, IsFiniteSet(S), NEW g, NEW I, g[{}] \in I[{}],
           \A U \in SUBSET S :
               U # {} /\ g[U \ {Chosen(U)}] \in I[U \ {Chosen(U)}] => g[U] \in I[U]
    PROVE  g[S] \in I[S]
<1> DEFINE P == {V \in SUBSET S : g[V] \in I[V]}
<1>1. {} \in P
  OBVIOUS
<1>2. ASSUME NEW V \in SUBSET S, V # {}
      PROVE  \E x \in V : V \ {x} \in P => V \in P
  <2>1. Chosen(V) \in V /\ (V \ {Chosen(V)} \in P => V \in P)
    BY <1>2, ChosenIn
  <2>2. QED  BY <2>1
<1>3. S \in P
  <2> HIDE DEF P
  <2>1. QED  BY <1>1, <1>2, FiniteSteps
<1>4. QED  BY <1>3

-----------------------------------------------------------------------------
(* AllCommissions *)

CoinsOf(t) == [v \in Validators |-> CoinsIn(t.val[v].commission)]

\* The commissions of the validators U were withdrawn.
Commissioned(t, u, D, blocked, U) ==
    /\ Sound(u, D)
    /\ u.starting = t.starting /\ u.slashes = t.slashes
    /\ \A v \in Validators :
          /\ u.val[v].rewards = t.val[v].rewards /\ LastPeriod(u, v) = LastPeriod(t, v)
          /\ \A p : Ratio(u, v, p) = Ratio(t, v, p)
    /\ \A v \in Validators \ U : u.val[v] = t.val[v]
    /\ Surplus(u) = Surplus(t) + SumFunctionOnSet(CoinsOf(t), U \cap blocked)
    /\ \A a \in Accounts :
          u.paid[a] = t.paid[a] + (IF a \in U \ blocked THEN CoinsOf(t)[a] ELSE 0)

\* The surplus is a number.
LEMMA SurplusTyped ==
    ASSUME NEW t \in Stores
    PROVE  Surplus(t) \in Int
<1>1. TotalOutstanding(t) \in Nat /\ t.pool \in Nat /\ t.balance \in Int
  BY TotalFacts DEF Stores
<1>2. QED  BY <1>1 DEF Surplus

\* What leaves the books without being paid is missing in them.
LEMMA SurplusGrows ==
    ASSUME NEW t, NEW u, NEW v, NEW c, t \in Stores, u \in Stores, v \in Validators, c \in Nat,
           \A w \in Validators \ {v} : u.val[w] = t.val[w],
           u.val[v].outstanding = t.val[v].outstanding - c,
           u.pool = t.pool, u.balance = t.balance
    PROVE  Surplus(u) = Surplus(t) + c
<1>1. TotalOutstanding(u) = TotalOutstanding(t) + u.val[v].outstanding - t.val[v].outstanding
  BY TotalChange
<1>2. TotalOutstanding(t) \in Nat /\ TotalOutstanding(u) \in Nat
  BY TotalFacts
<1>3. t.pool \in Nat /\ t.balance \in Int /\ t.val[v].outstanding \in Nat
  BY BooksFacts DEF Stores
<1>4. TotalOutstanding(u) = TotalOutstanding(t) - c
  BY <1>1, <1>2, <1>3
<1>5. QED  BY <1>2, <1>3, <1>4 DEF Surplus

\* What is paid is not.
LEMMA SurplusPaid ==
    ASSUME NEW t, NEW u, NEW v, NEW c, t \in Stores, u \in Stores, v \in Validators, c \in Nat,
           \A w \in Validators \ {v} : u.val[w] = t.val[w],
           u.val[v].outstanding = t.val[v].outstanding - c,
           u.pool = t.pool, u.balance = t.balance - c
    PROVE  Surplus(u) = Surplus(t)
<1>1. TotalOutstanding(u) = TotalOutstanding(t) + u.val[v].outstanding - t.val[v].outstanding
  BY TotalChange
<1>2. TotalOutstanding(t) \in Nat /\ TotalOutstanding(u) \in Nat
  BY TotalFacts
<1>3. t.pool \in Nat /\ t.balance \in Int /\ t.val[v].outstanding \in Nat
  BY BooksFacts DEF Stores
<1>4. TotalOutstanding(u) = TotalOutstanding(t) - c
  BY <1>1, <1>2, <1>3
<1>5. QED  BY <1>2, <1>3, <1>4 DEF Surplus

\* The coins in the commissions.
LEMMA CoinsOfTyped ==
    ASSUME NEW t \in Stores
    PROVE  \A v \in Validators : CoinsOf(t)[v] \in Nat /\ CoinsOf(t)[v] = CoinsIn(t.val[v].commission)
  BY BooksFacts, CoinsFacts DEF CoinsOf

\* One commission more.
LEMMA CommissionStep ==
    ASSUME NEW t, NEW u, NEW D, NEW blocked, NEW U, NEW v,
           Commissioned(t, u, D, blocked, U \ {v}), Sound(t, D), D \subseteq Pairs,
           U \subseteq Validators, v \in U
    PROVE  Commissioned(t, WithdrawValidatorCommission(u, v, blocked), D, blocked, U)
<1> DEFINE w == WithdrawValidatorCommission(u, v, blocked)
           c == CoinsIn(u.val[v].commission)
           C == CoinsOf(t)
           E == Of(D, v)
<1>1. v \in Validators /\ u \in Stores /\ ~u.panicked /\ D \subseteq DOMAIN u.starting
      /\ t \in Stores /\ \A x \in Validators : InOrder(u, Of(D, x), x)
  BY DEF Commissioned, Sound
<1>2. InOrder(u, E, v)
  BY <1>1
<1>3. u.val[v] = t.val[v] /\ c = C[v] /\ C[v] \in Nat
  <2>1. u.val[v] = t.val[v]
    BY <1>1 DEF Commissioned
  <2>2. QED  BY <1>1, <2>1, CoinsOfTyped
<1> HIDE DEF c, C, E
<1>4. /\ w \in Stores
      /\ \A x \in Validators \ {v} : w.val[x] = u.val[x]
      /\ w.val[v].outstanding = u.val[v].outstanding - c
      /\ w.val[v].rewards = u.val[v].rewards
      /\ w.starting = u.starting /\ w.slashes = u.slashes /\ w.pool = u.pool
      /\ w.panicked = u.panicked
      /\ w.balance = u.balance - (IF v \in blocked THEN 0 ELSE c)
      /\ w.paid = [u.paid EXCEPT ![v] = @ + (IF v \in blocked THEN 0 ELSE c)]
      /\ LastPeriod(w, v) = LastPeriod(u, v)
      /\ \A p : Ratio(w, v, p) = Ratio(u, v, p)
      /\ InOrder(w, E, v)
  BY <1>1, <1>2, CommissionOrder DEF c
<1> HIDE DEF w
<1>5. \A x \in Validators \ {v} : InOrder(w, Of(D, x), x)
  <2>1. \A x \in Validators \ {v} : \A e \in Of(D, x) :
               e \in DOMAIN w.starting /\ w.starting[e] = u.starting[e]
    BY <1>1, <1>4 DEF Of
  <2>2. QED  BY <1>1, <1>4, <2>1, OthersInOrder
<1>6. Sound(w, D)
  BY <1>1, <1>4, <1>5 DEF Sound, E
<1>7. ASSUME NEW x \in Validators
      PROVE  /\ w.val[x].rewards = t.val[x].rewards /\ LastPeriod(w, x) = LastPeriod(t, x)
             /\ \A p : Ratio(w, x, p) = Ratio(t, x, p)
  <2>1. /\ u.val[x].rewards = t.val[x].rewards /\ LastPeriod(u, x) = LastPeriod(t, x)
        /\ \A p : Ratio(u, x, p) = Ratio(t, x, p)
    BY DEF Commissioned
  <2>2. CASE x = v
    BY <1>4, <2>1, <2>2
  <2>3. CASE x # v
    <3>1. w.val[x] = u.val[x]
      BY <1>4, <2>3
    <3>2. QED  BY <2>1, <3>1 DEF LastPeriod, Ratio
  <2>4. QED  BY <2>2, <2>3
<1>8. \A x \in Validators \ U : w.val[x] = t.val[x]
  BY <1>4 DEF Commissioned
<1>9. Surplus(w) = Surplus(t) + SumFunctionOnSet(C, U \cap blocked)
  <2> DEFINE F == (U \ {v}) \cap blocked
             G == U \cap blocked
             f == SumFunctionOnSet(C, F)
             g == SumFunctionOnSet(C, G)
  <2>1. /\ IsFiniteSet(F) /\ IsFiniteSet(G)
        /\ \A x \in G : C[x] \in Int
        /\ \A x \in F : C[x] \in Int
    <3>1. F \in SUBSET Validators /\ G \in SUBSET Validators
      OBVIOUS
    <3>2. \A x \in Validators : C[x] \in Nat
      BY <1>1, CoinsOfTyped DEF C
    <3>3. QED  BY <3>1, <3>2, PairsFinite, FS_Subset
  <2>2. Surplus(u) = Surplus(t) + f
    BY DEF Commissioned, C
  <2>3. Surplus(t) \in Int /\ Surplus(u) \in Int /\ f \in Int
    <3>1. f \in Int
      <4> HIDE DEF F
      <4>1. QED  BY <2>1, SumInt
    <3>2. QED  BY <1>1, <3>1, SurplusTyped
  <2>4. CASE v \in blocked
    <3>1. w.balance = u.balance
      <4>1. u.balance \in Int
        BY <1>1 DEF Stores
      <4>2. QED  BY <1>4, <2>4, <4>1
    <3>2. Surplus(w) = Surplus(u) + c
      BY <1>1, <1>3, <1>4, <3>1, SurplusGrows
    <3>3. v \in G /\ G \ {v} = F
      BY <2>4
    <3>4. g = C[v] + f
      <4> HIDE DEF F, G
      <4>1. g = C[v] + SumFunctionOnSet(C, G \ {v})
        BY <2>1, <3>3, SumTake
      <4>2. QED  BY <3>3, <4>1
    <3> HIDE DEF f, g
    <3>5. QED  BY <1>3, <2>2, <2>3, <3>2, <3>4 DEF g
  <2>5. CASE v \notin blocked
    <3>1. F = G
      BY <2>5
    <3>2. w.balance = u.balance - c /\ w.pool = u.pool
      <4>1. u.pool \in Nat
        BY <1>1 DEF Stores
      <4>2. QED  BY <1>3, <1>4, <2>5, <4>1
    <3>3. c \in Nat /\ v \in Validators /\ w \in Stores /\ u \in Stores
      BY <1>1, <1>3, <1>4
    <3>4. /\ \A x \in Validators \ {v} : w.val[x] = u.val[x]
          /\ w.val[v].outstanding = u.val[v].outstanding - c
      BY <1>4
    <3>5. Surplus(w) = Surplus(u)
      BY <3>2, <3>3, <3>4, SurplusPaid
    <3>6. QED  BY <2>2, <3>1, <3>5
  <2>6. QED  BY <2>4, <2>5
<1>10. ASSUME NEW a \in Accounts
       PROVE  w.paid[a] = t.paid[a] + (IF a \in U \ blocked THEN C[a] ELSE 0)
  <2>1. u.paid[a] = t.paid[a] + (IF a \in (U \ {v}) \ blocked THEN C[a] ELSE 0)
    BY DEF Commissioned, C
  <2>2. u.paid \in [Accounts -> Nat] /\ t.paid \in [Accounts -> Nat]
    BY <1>1 DEF Stores
  <2>3. CASE a = v
    <3>1. w.paid[a] = u.paid[a] + (IF v \in blocked THEN 0 ELSE c)
      BY <1>4, <2>2, <2>3
    <3>2. u.paid[a] = t.paid[a] /\ t.paid[a] \in Nat
      BY <2>1, <2>2, <2>3
    <3>3. QED  BY <1>3, <2>3, <3>1, <3>2
  <2>4. CASE a # v
    <3>1. w.paid[a] = u.paid[a]
      BY <1>4, <2>2, <2>4
    <3>2. QED  BY <2>1, <2>4, <3>1
  <2>5. QED  BY <2>3, <2>4
<1>11. w.starting = t.starting /\ w.slashes = t.slashes
  BY <1>4 DEF Commissioned
<1>12. QED  BY <1>6, <1>7, <1>8, <1>9, <1>10, <1>11 DEF Commissioned, w, C

\* At first none was withdrawn.
LEMMA CommissionedNone ==
    ASSUME NEW t, NEW D, NEW blocked, Sound(t, D)
    PROVE  Commissioned(t, t, D, blocked, {})
<1>1. t \in Stores
  BY DEF Sound
<1>2. Surplus(t) \in Int
  BY <1>1, SurplusTyped
<1>3. SumFunctionOnSet(CoinsOf(t), {} \cap blocked) = 0
  <2>1. {} \cap blocked = {}
    OBVIOUS
  <2>2. QED  BY <2>1, SumEmpty
<1>4. Surplus(t) = Surplus(t) + SumFunctionOnSet(CoinsOf(t), {} \cap blocked)
  BY <1>2, <1>3
<1>5. \A a \in Accounts : t.paid[a] \in Nat
  BY <1>1 DEF Stores
<1>6. QED  BY <1>4, <1>5 DEF Commissioned

\* All commissions.
CommissionsOf(t0, b) ==
    FoldSet(LAMBDA v, t : WithdrawValidatorCommission(t, v, b), t0, Validators)

\* AllCommissions withdraws every one.
LEMMA CommissionsFold ==
    ASSUME NEW t0, NEW D, NEW b, Sound(t0, D), D \subseteq Pairs
    PROVE  Commissioned(t0, CommissionsOf(t0, b), D, b, Validators)
<1> DEFINE Fold(g) == g = [U \in SUBSET Validators |->
                              IF U = {} THEN t0
                              ELSE WithdrawValidatorCommission(g[U \ {Chosen(U)}], Chosen(U), b)]
           op == [p \in Validators \X Stores |-> WithdrawValidatorCommission(p[2], p[1], b)]
           I == [U \in SUBSET Validators |-> {t \in Stores : Commissioned(t0, t, D, b, U)}]
<1>0. \A U \in SUBSET Validators : \A t :
         t \in I[U] <=> t \in Stores /\ Commissioned(t0, t, D, b, U)
  OBVIOUS
<1>1. CommissionsOf(t0, b) = (CHOOSE g : Fold(g))[Validators]
  BY DEF CommissionsOf, FoldSet, MapThenFoldSet, Chosen
<1> HIDE DEF I
<1>2. t0 \in Stores /\ IsFiniteSet(Validators)
  BY PairsFinite DEF Sound
<1>3. t0 \in I[{}]
  BY <1>0, <1>2, CommissionedNone
<1>4. ASSUME NEW U \in SUBSET Validators, NEW t \in Stores, U # {},
             t \in I[U \ {Chosen(U)}]
      PROVE  /\ WithdrawValidatorCommission(t, Chosen(U), b) \in Stores
             /\ WithdrawValidatorCommission(t, Chosen(U), b) \in I[U]
             /\ <<Chosen(U), t>> \in Validators \X Stores
  <2>1. Chosen(U) \in U
    BY <1>4, ChosenIn
  <2>2. Commissioned(t0, t, D, b, U \ {Chosen(U)})
    BY <1>0, <1>4
  <2>3. Commissioned(t0, WithdrawValidatorCommission(t, Chosen(U), b), D, b, U)
    BY <2>1, <2>2, CommissionStep
  <2>4. WithdrawValidatorCommission(t, Chosen(U), b) \in Stores
    BY <2>3 DEF Commissioned, Sound
  <2>5. QED
    <3> HIDE DEF I
    <3>1. QED  BY <1>0, <2>1, <2>3, <2>4
<1>5. \A U \in SUBSET Validators : \A t \in Stores :
         U # {} /\ t \in I[U \ {Chosen(U)}] =>
             op[<<Chosen(U), t>>] \in Stores /\ op[<<Chosen(U), t>>] \in I[U]
  BY <1>4
<1>6. \A x \in Validators, t \in Stores : op[<<x, t>>] = WithdrawValidatorCommission(t, x, b)
  OBVIOUS
<1>7. \E g : Fold(g)
  <2>1. PICK h \in [SUBSET Validators -> Stores] : IsFold(h, Validators, t0, op)
    <3> HIDE DEF I, op
    <3>1. QED  BY <1>2, <1>3, <1>5, FoldReached
  <2> HIDE DEF op
  <2>2. \A U \in SUBSET Validators : U # {} =>
           op[<<Chosen(U), h[U \ {Chosen(U)}]>>]
              = WithdrawValidatorCommission(h[U \ {Chosen(U)}], Chosen(U), b)
    BY <1>6, ChosenIn
  <2>3. Fold(h)
    BY <2>1, <2>2 DEF IsFold
  <2>4. QED  BY <2>3
<1>8. PICK g : Fold(g) /\ CommissionsOf(t0, b) = g[Validators]
  BY <1>1, <1>7
<1>9. g[{}] = t0 /\ \A U \in SUBSET Validators : U # {} =>
         g[U] = WithdrawValidatorCommission(g[U \ {Chosen(U)}], Chosen(U), b)
  BY <1>8
<1>10. ASSUME NEW U \in SUBSET Validators, U # {}, g[U \ {Chosen(U)}] \in I[U \ {Chosen(U)}]
       PROVE  g[U] \in I[U]
  <2>1. g[U \ {Chosen(U)}] \in Stores
    BY <1>0, <1>10
  <2>2. WithdrawValidatorCommission(g[U \ {Chosen(U)}], Chosen(U), b) \in I[U]
    <3> HIDE DEF I
    <3>1. QED  BY <1>4, <1>10, <2>1
  <2>3. QED  BY <1>9, <1>10, <2>2
<1>11. g[Validators] \in I[Validators]
  <2> HIDE DEF I
  <2>1. QED  BY <1>2, <1>3, <1>9, <1>10, FoldKept
<1>12. QED  BY <1>0, <1>8, <1>11

-----------------------------------------------------------------------------
(* AllRewards *)

\* What a delegation is worth, whatever its height.
Worth(t, D, d) == Gain(t, d[2], d) + t.val[d[2]].rewards \div Tokens(D, d[2])
Reward(t, D, d, h) == Payable(t, d, Tokens(D, d[2]), h)
Rewards(t, D, h) == [d \in D |-> CoinsIn(Reward(t, D, d, h))]
OfAccount(D, a) == {d \in D : d[1] = a}

\* The same is paid for what is worth the same.
LEMMA RewardIs ==
    ASSUME NEW t, NEW D, NEW d, NEW h, Sound(t, D), Delegated(D), d \in D, h \in Nat
    PROVE  /\ Worth(t, D, d) \in Nat /\ Reward(t, D, d, h) \in Nat
           /\ Reward(t, D, d, h) = IF t.starting[d].height = h THEN 0 ELSE Worth(t, D, d)
<1> DEFINE v == d[2]
           E == Of(D, v)
           tokens == Tokens(D, v)
<1>1. D \subseteq Pairs /\ d \in Pairs /\ v \in Validators /\ d \in E /\ t \in Stores
  BY DEF Delegated, Pairs, Of, Sound
<1>2. tokens \in Nat \ {0} /\ Cardinality(E) = tokens
  BY <1>1, TokensFacts
<1>3. InOrder(t, E, v)
  BY <1>1 DEF Sound
<1>4. LET g == Gain(t, d[2], d) + t.val[d[2]].rewards \div tokens IN
      /\ g \in Nat
      /\ Earned(t, d, tokens, h) = IF t.starting[d].height = h THEN 0 ELSE g
      /\ Earned(t, d, tokens, h) \in Nat
      /\ Payable(t, d, tokens, h) = Earned(t, d, tokens, h)
  <2> HIDE DEF E, tokens
  <2>1. Cardinality(E) <= tokens
    BY <1>2
  <2> HIDE DEF v
  <2>2. InOrder(t, E, d[2])
    BY <1>3 DEF v
  <2>3. QED  BY <1>1, <1>2, <2>1, <2>2, EarnedFacts
<1>5. QED  BY <1>4 DEF Worth, Reward

\* What has the same worth and start is paid the same.
LEMMA RewardSame ==
    ASSUME NEW t, NEW u, NEW D, NEW d, NEW h, Sound(t, D), Sound(u, D), Delegated(D), d \in D,
           h \in Nat, u.starting[d] = t.starting[d], Worth(u, D, d) = Worth(t, D, d)
    PROVE  Reward(u, D, d, h) = Reward(t, D, d, h)
  BY RewardIs

\* The delegations U were paid what they had earned.
PaidThose(t, u, D, h, U) ==
    /\ Sound(u, D)
    /\ DOMAIN u.starting = DOMAIN t.starting /\ u.slashes = t.slashes
    /\ Surplus(u) = Surplus(t)
    /\ \A d \in D \ U : u.starting[d] = t.starting[d] /\ Worth(u, D, d) = Worth(t, D, d)
    /\ \A a \in Accounts :
          u.paid[a] = t.paid[a] + SumFunctionOnSet(Rewards(t, D, h), OfAccount(U, a))

\* Rewards of accounts are sums over finite sets.
LEMMA RewardsTyped ==
    ASSUME NEW t, NEW D, NEW h, Sound(t, D), Delegated(D), h \in Nat
    PROVE  /\ \A d \in D : Rewards(t, D, h)[d] \in Nat
           /\ IsFiniteSet(D)
           /\ \A U, a : U \subseteq D =>
                  /\ IsFiniteSet(OfAccount(U, a)) /\ OfAccount(U, a) \subseteq D
                  /\ SumFunctionOnSet(Rewards(t, D, h), OfAccount(U, a)) \in Nat
<1>1. \A d \in D : Rewards(t, D, h)[d] \in Nat
  BY RewardIs, CoinsFacts DEF Rewards
<1>2. IsFiniteSet(D)
  BY PairsFinite, FS_Subset DEF Delegated
<1>3. ASSUME NEW U, NEW a, U \subseteq D
      PROVE  /\ IsFiniteSet(OfAccount(U, a)) /\ OfAccount(U, a) \subseteq D
             /\ SumFunctionOnSet(Rewards(t, D, h), OfAccount(U, a)) \in Nat
  <2>1. OfAccount(U, a) \subseteq D
    BY <1>3 DEF OfAccount
  <2>2. IsFiniteSet(OfAccount(U, a))
    BY <1>2, <2>1, FS_Subset
  <2>3. \A d \in OfAccount(U, a) : Rewards(t, D, h)[d] \in Nat
    BY <1>1, <2>1
  <2>4. QED  BY <2>1, <2>2, <2>3, SumNat
<1>4. QED  BY <1>1, <1>2, <1>3

\* At first nobody was paid.
LEMMA PaidNone ==
    ASSUME NEW t, NEW D, NEW h, Sound(t, D)
    PROVE  PaidThose(t, t, D, h, {})
<1>1. \A a : OfAccount({}, a) = {}
  BY DEF OfAccount
<1>2. \A a \in Accounts : t.paid[a] \in Nat
  BY DEF Sound, Stores
<1>3. QED  BY <1>1, <1>2, SumEmpty DEF PaidThose

\* One delegation more.
LEMMA RewardStep ==
    ASSUME NEW t, NEW u, NEW D, NEW h, NEW U, NEW d, PaidThose(t, u, D, h, U \ {d}),
           Sound(t, D), Delegated(D), U \subseteq D, d \in U, h \in Nat
    PROVE  PaidThose(t, initializeDelegation(
                            withdrawDelegationRewards(u, d, Tokens(D, d[2]), h), d, h),
                     D, h, U)
<1> DEFINE v == d[2]
           tokens == Tokens(D, v)
           w == initializeDelegation(withdrawDelegationRewards(u, d, tokens, h), d, h)
           c == CoinsIn(Reward(u, D, d, h))
           R == Rewards(t, D, h)
<1>1. Sound(u, D) /\ d \in D
  BY DEF PaidThose
<1>2. D \subseteq Pairs /\ d \in Pairs /\ v \in Validators /\ d[1] \in Accounts
      /\ tokens \in Nat \ {0}
  BY <1>1, TokensFacts DEF Delegated, Pairs
<1>3. Rewarded(u, w, D, d, h, tokens, c)
  BY <1>1, RewardSound DEF Reward
<1>4. c = R[d] /\ c \in Nat
  <2>1. u.starting[d] = t.starting[d] /\ Worth(u, D, d) = Worth(t, D, d)
    BY <1>1 DEF PaidThose
  <2>2. Reward(u, D, d, h) = Reward(t, D, d, h)
    BY <1>1, <2>1, RewardSame
  <2>3. R[d] = CoinsIn(Reward(t, D, d, h))
    BY <1>1 DEF Rewards
  <2>4. c = R[d]
    BY <2>2, <2>3
  <2>5. QED  BY <1>3, <2>4 DEF Rewarded
<1> HIDE DEF w, c, R
<1>5. Sound(w, D) /\ Surplus(w) = Surplus(t) /\ w.slashes = t.slashes
      /\ DOMAIN w.starting = DOMAIN t.starting
  BY <1>3 DEF Rewarded, PaidThose
<1>6. ASSUME NEW e \in D \ U
      PROVE  w.starting[e] = t.starting[e] /\ Worth(w, D, e) = Worth(t, D, e)
  <2>1. e # d /\ e \in D \ (U \ {d}) /\ e \in DOMAIN u.starting
    BY <1>1, <1>6 DEF Sound
  <2>2. u.starting[e] = t.starting[e] /\ Worth(u, D, e) = Worth(t, D, e)
    BY <2>1 DEF PaidThose
  <2>3. w.starting[e] = u.starting[e]
    BY <1>3, <2>1 DEF Rewarded
  <2>4. CASE e[2] = v
    <3>1. e \in Of(D, v) \ {d}
      BY <2>1, <2>4 DEF Of
    <3>2. Gain(w, v, e) = Gain(u, v, e) + u.val[v].rewards \div tokens /\ w.val[v].rewards = 0
      BY <1>3, <3>1 DEF Rewarded
    <3>3. 0 \div tokens = 0
      BY <1>2
    <3>4. Worth(w, D, e) = Gain(w, v, e) + w.val[v].rewards \div tokens
      BY <2>4 DEF Worth
    <3>5. Worth(u, D, e) = Gain(u, v, e) + u.val[v].rewards \div tokens
      BY <2>4 DEF Worth
    <3>6. Worth(u, D, e) \in Nat
      BY <1>1, <2>1, RewardIs
    <3> HIDE DEF tokens
    <3>7. Worth(w, D, e) = Worth(u, D, e)
      BY <3>2, <3>3, <3>4, <3>5, <3>6
    <3>8. QED  BY <2>2, <2>3, <3>7
  <2>5. CASE e[2] # v
    <3>1. e[2] \in Validators \ {v}
      BY <1>2, <2>1, <2>5 DEF Pairs
    <3>2. w.val[e[2]] = u.val[e[2]]
      BY <1>3, <3>1 DEF Rewarded
    <3>3. Worth(w, D, e) = Worth(u, D, e)
      BY <2>3, <3>2 DEF Worth, Gain, Ratio, LastPeriod
    <3>4. QED  BY <2>2, <2>3, <3>3
  <2>6. QED  BY <2>4, <2>5
<1>7. ASSUME NEW a \in Accounts
      PROVE  w.paid[a] = t.paid[a] + SumFunctionOnSet(R, OfAccount(U, a))
  <2> DEFINE F == OfAccount(U \ {d}, a)
             G == OfAccount(U, a)
  <2>1. u.paid[a] = t.paid[a] + SumFunctionOnSet(R, F)
    BY DEF PaidThose, R
  <2>2. u.paid \in [Accounts -> Nat] /\ t.paid \in [Accounts -> Nat]
    BY <1>1 DEF Sound, Stores
  <2>3. w.paid = [u.paid EXCEPT ![d[1]] = @ + c]
    BY <1>3 DEF Rewarded
  <2>4. IsFiniteSet(G) /\ SumFunctionOnSet(R, F) \in Nat /\ \A x \in G : R[x] \in Int
    <3>1. U \ {d} \subseteq D
      OBVIOUS
    <3>2. /\ \A x \in D : R[x] \in Nat
          /\ \A V, x : V \subseteq D =>
                /\ IsFiniteSet(OfAccount(V, x)) /\ OfAccount(V, x) \subseteq D
                /\ SumFunctionOnSet(R, OfAccount(V, x)) \in Nat
      BY RewardsTyped DEF R
    <3>3. SumFunctionOnSet(R, F) \in Nat
      BY <3>1, <3>2
    <3>4. IsFiniteSet(G) /\ G \subseteq D
      BY <3>2
    <3> HIDE DEF F, G
    <3>5. QED  BY <3>2, <3>3, <3>4
  <2>5. CASE d[1] = a
    <3>1. d \in G /\ G \ {d} = F
      BY <2>5 DEF OfAccount
    <3>2. SumFunctionOnSet(R, G) = R[d] + SumFunctionOnSet(R, F)
      <4> HIDE DEF F, G
      <4>1. SumFunctionOnSet(R, G) = R[d] + SumFunctionOnSet(R, G \ {d})
        BY <2>4, <3>1, SumTake
      <4>2. QED  BY <3>1, <4>1
    <3>3. w.paid[a] = u.paid[a] + c
      BY <2>2, <2>3, <2>5
    <3> HIDE DEF F, G
    <3>4. w.paid[a] = t.paid[a] + SumFunctionOnSet(R, G)
      BY <1>4, <2>1, <2>2, <2>4, <3>2, <3>3
    <3>5. QED  BY <3>4 DEF G
  <2>6. CASE d[1] # a
    <3>1. G = F
      BY <2>6 DEF OfAccount
    <3>2. w.paid[a] = u.paid[a]
      BY <2>2, <2>3, <2>6
    <3>3. QED  BY <2>1, <3>1, <3>2
  <2>7. QED  BY <2>5, <2>6
<1>8. QED  BY <1>5, <1>6, <1>7 DEF PaidThose, w, R

\* Nothing is refused.
NoneRefused(t, D, h, blocked) == \A d \in D : ~Refused(t, d, Tokens(D, d[2]), h, blocked)

RewardsOf(t0, D, h, b, app) ==
    FoldSet(LAMBDA d, t :
                IF app = "wasmd"
                THEN IF Refused(t, d, Tokens(D, d[2]), h, b) THEN Panic(t)
                     ELSE WithdrawDelegationRewards(t, d, Tokens(D, d[2]), h, b)
                ELSE WithdrawDelegationRewards(t, d, Tokens(D, d[2]), h, b),
            t0, D)

\* AllRewards pays every delegation, in both apps, if nothing is refused.
LEMMA RewardsFold ==
    ASSUME NEW t0, NEW D, NEW h, NEW b, NEW app, Sound(t0, D), Delegated(D), h \in Nat,
           NoneRefused(t0, D, h, b)
    PROVE  PaidThose(t0, RewardsOf(t0, D, h, b, app), D, h, D)
<1> DEFINE Op(d, t) == IF app = "wasmd"
                       THEN IF Refused(t, d, Tokens(D, d[2]), h, b) THEN Panic(t)
                            ELSE WithdrawDelegationRewards(t, d, Tokens(D, d[2]), h, b)
                       ELSE WithdrawDelegationRewards(t, d, Tokens(D, d[2]), h, b)
           Fold(g) == g = [U \in SUBSET D |->
                              IF U = {} THEN t0 ELSE Op(Chosen(U), g[U \ {Chosen(U)}])]
           op == [p \in D \X Stores |-> Op(p[1], p[2])]
           I == [U \in SUBSET D |-> {t \in Stores : PaidThose(t0, t, D, h, U)}]
<1>0. \A U \in SUBSET D : \A t :
         t \in I[U] <=> t \in Stores /\ PaidThose(t0, t, D, h, U)
  OBVIOUS
<1>1. RewardsOf(t0, D, h, b, app) = (CHOOSE g : Fold(g))[D]
  BY DEF RewardsOf, FoldSet, MapThenFoldSet, Chosen
<1> HIDE DEF I
<1>2. t0 \in Stores /\ IsFiniteSet(D)
  BY RewardsTyped DEF Sound
<1>3. t0 \in I[{}]
  BY <1>0, <1>2, PaidNone
<1>4. ASSUME NEW U \in SUBSET D, NEW t \in Stores, U # {}, t \in I[U \ {Chosen(U)}]
      PROVE  /\ Op(Chosen(U), t) \in Stores /\ Op(Chosen(U), t) \in I[U]
             /\ <<Chosen(U), t>> \in D \X Stores
  <2> DEFINE d == Chosen(U)
             w == initializeDelegation(withdrawDelegationRewards(t, d, Tokens(D, d[2]), h), d, h)
  <2>1. d \in U /\ d \in D
    BY <1>4, ChosenIn
  <2>2. PaidThose(t0, t, D, h, U \ {d})
    BY <1>0, <1>4
  <2> HIDE DEF d
  <2>3. PaidThose(t0, w, D, h, U)
    BY <2>1, <2>2, RewardStep
  <2>4. Reward(t, D, d, h) = Reward(t0, D, d, h)
    BY <2>1, <2>2, RewardSame DEF PaidThose
  <2>5. ~Refused(t, d, Tokens(D, d[2]), h, b)
    <3>1. ~Refused(t0, d, Tokens(D, d[2]), h, b)
      BY <2>1 DEF NoneRefused
    <3>2. QED  BY <2>4, <3>1 DEF Refused, Reward
  <2>6. Op(d, t) = w
    BY <2>5 DEF WithdrawDelegationRewards
  <2>7. w \in Stores
    BY <2>3 DEF PaidThose, Sound
  <2> HIDE DEF w, Op
  <2>8. Op(d, t) \in Stores /\ Op(d, t) \in I[U] /\ <<d, t>> \in D \X Stores
    BY <1>0, <2>1, <2>3, <2>6, <2>7
  <2>9. QED  BY <2>8 DEF d
<1>5. \A x \in D, t \in Stores : op[<<x, t>>] = Op(x, t)
  <2> HIDE DEF Op
  <2>1. QED  OBVIOUS
<1> HIDE DEF op
<1>6. \A U \in SUBSET D : \A t \in Stores :
         U # {} /\ t \in I[U \ {Chosen(U)}] =>
             op[<<Chosen(U), t>>] \in Stores /\ op[<<Chosen(U), t>>] \in I[U]
  <2> HIDE DEF Op
  <2>1. QED  BY <1>4, <1>5, ChosenIn
<1> HIDE DEF Op
<1>7. \E g : Fold(g)
  <2>1. PICK x \in [SUBSET D -> Stores] : IsFold(x, D, t0, op)
    BY <1>2, <1>3, <1>6, FoldReached
  <2>2. \A U \in SUBSET D : U # {} =>
           op[<<Chosen(U), x[U \ {Chosen(U)}]>>] = Op(Chosen(U), x[U \ {Chosen(U)}])
    BY <1>5, ChosenIn
  <2>3. Fold(x)
    BY <2>1, <2>2 DEF IsFold
  <2>4. QED  BY <2>3
<1>8. PICK g : Fold(g) /\ RewardsOf(t0, D, h, b, app) = g[D]
  BY <1>1, <1>7
<1>9. g[{}] = t0 /\ \A U \in SUBSET D : U # {} =>
         g[U] = Op(Chosen(U), g[U \ {Chosen(U)}])
  BY <1>8
<1>10. ASSUME NEW U \in SUBSET D, U # {}, g[U \ {Chosen(U)}] \in I[U \ {Chosen(U)}]
       PROVE  g[U] \in I[U]
  <2>1. g[U \ {Chosen(U)}] \in Stores
    BY <1>0, <1>10
  <2>2. QED  BY <1>4, <1>9, <1>10, <2>1
<1>11. g[D] \in I[D]
  BY <1>2, <1>3, <1>9, <1>10, FoldKept
<1>12. PaidThose(t0, RewardsOf(t0, D, h, b, app), D, h, D)
  BY <1>0, <1>8, <1>11
<1>13. QED  BY <1>12

-----------------------------------------------------------------------------
(* ResetDelegations *)

\* The delegations U were set up again, in validators that were.
ResetThose(t, u, U) ==
    /\ Sound(u, U) /\ DOMAIN u.starting = DOMAIN t.starting
    /\ u.slashes = {} /\ Surplus(u) = Surplus(t) /\ u.paid = t.paid
    /\ \A v \in Validators : u.val[v].rewards = 0 /\ Ratio(u, v, LastPeriod(u, v)) = 0
    /\ \A d \in U : u.starting[d].height = 0

\* All validators are new.
AllNew(t) == t.slashes = {} /\ \A v \in Validators : t.val[v] = NewValidator

\* At first none was set up.
LEMMA ResetNone ==
    ASSUME NEW t, AllNew(t), t \in Stores, ~t.panicked
    PROVE  ResetThose(t, t, {})
<1>1. ASSUME NEW v \in Validators
      PROVE  InOrder(t, {}, v) /\ t.val[v].rewards = 0 /\ Ratio(t, v, LastPeriod(t, v)) = 0
  <2>1. /\ t.val[v].rewards = 0 /\ t.val[v].commission = 0 /\ t.val[v].outstanding = 0
        /\ t.val[v].period = 1 /\ t.val[v].history = [p \in {0} |-> [ratio |-> 0, refs |-> 1]]
    BY DEF AllNew, NewValidator
  <2>2. LastPeriod(t, v) = 0
    BY <2>1 DEF LastPeriod
  <2>3. \A p : Refs(t, v, p) = (IF p = 0 THEN 1 ELSE 0) /\ Ratio(t, v, p) = 0
    BY <2>1 DEF Refs, Ratio
  <2>4. t.slashes = {}
    BY DEF AllNew
  <2>5. Counted(t, {}, v)
    BY <2>2, <2>3, <2>4 DEF Counted, Bit, StartedAt, SlashedAt
  <2>6. Apart(t, {}, v)
    BY <2>4 DEF Apart
  <2>7. Growing(t, v)
    BY <2>3 DEF Growing
  <2>8. Gains(t, {}, v) = 0
    BY SumEmpty DEF Gains, SumFunction
  <2>9. Covered(t, {}, v)
    BY <2>1, <2>8 DEF Covered
  <2>10. IsFiniteSet({})
    BY FS_EmptySet
  <2>11. QED  BY <2>1, <2>3, <2>5, <2>6, <2>7, <2>9, <2>10 DEF InOrder
<1>2. \A v : Of({}, v) = {}
  BY DEF Of
<1>3. Sound(t, {})
  BY <1>1, <1>2 DEF Sound
<1>4. QED  BY <1>1, <1>3 DEF ResetThose, AllNew

\* One delegation more.
LEMMA ResetStep ==
    ASSUME NEW t, NEW u, NEW D, NEW U, NEW d, ResetThose(t, u, U \ {d}),
           Delegated(D), DOMAIN t.starting = D, U \subseteq D, d \in U
    PROVE  ResetThose(t, initializeDelegation(
                            IncrementValidatorPeriod(u, d[2], Tokens(D, d[2])), d, 0), U)
<1> DEFINE v == d[2]
           V == U \ {d}
           tokens == Tokens(D, v)
           w == initializeDelegation(IncrementValidatorPeriod(u, v, tokens), d, 0)
<1>1. Sound(u, V) /\ D \subseteq Pairs /\ V \subseteq Pairs /\ d \in D /\ d \in Pairs
      /\ v \in Validators /\ d \notin V /\ V \cup {d} = U
  BY DEF ResetThose, Delegated, Pairs
<1>2. tokens \in Nat \ {0} /\ tokens = Cardinality(Of(D, v)) /\ IsFiniteSet(Of(D, v))
  BY <1>1, TokensFacts
<1>3. Cardinality(Of(V, v)) <= tokens
  <2>1. Of(V, v) \subseteq Of(D, v)
    BY DEF Of
  <2>2. QED  BY <1>2, <2>1, FS_Subset
<1>4. Began(u, w, V, d, 0, tokens)
  <2> HIDE DEF V, tokens
  <2>1. QED  BY <1>1, <1>2, <1>3, BeginSound
<1> HIDE DEF w
<1>5. Sound(w, U) /\ Surplus(w) = Surplus(t) /\ w.slashes = {} /\ w.paid = t.paid
  BY <1>1, <1>4 DEF Began, ResetThose
<1>6. DOMAIN w.starting = DOMAIN t.starting
  BY <1>1, <1>4 DEF Began, ResetThose
<1>7. ASSUME NEW x \in Validators
      PROVE  w.val[x].rewards = 0 /\ Ratio(w, x, LastPeriod(w, x)) = 0
  <2>1. u.val[x].rewards = 0 /\ Ratio(u, x, LastPeriod(u, x)) = 0
    BY DEF ResetThose
  <2>2. CASE x = v
    <3>1. w.val[v].rewards = 0
          /\ Ratio(w, v, LastPeriod(w, v))
                = Ratio(u, v, LastPeriod(u, v)) + u.val[v].rewards \div tokens
      BY <1>4 DEF Began
    <3>2. 0 \div tokens = 0
      BY <1>2
    <3> HIDE DEF v, tokens
    <3>3. QED  BY <2>1, <2>2, <3>1, <3>2
  <2>3. CASE x # v
    <3>1. w.val[x] = u.val[x]
      BY <1>4, <2>3 DEF Began
    <3>2. QED  BY <2>1, <3>1 DEF Ratio, LastPeriod
  <2>4. QED  BY <2>2, <2>3
<1>8. ASSUME NEW e \in U
      PROVE  w.starting[e].height = 0
  <2>1. CASE e = d
    BY <1>4, <2>1 DEF Began
  <2>2. CASE e # d
    <3>1. e \in V /\ e \in DOMAIN u.starting \ {d}
      BY <1>1, <2>2 DEF Sound
    <3>2. QED  BY <1>4, <3>1 DEF Began, ResetThose
  <2>3. QED  BY <2>1, <2>2
<1>9. QED  BY <1>5, <1>6, <1>7, <1>8 DEF ResetThose, w

ResetAll(t0, D) ==
    FoldSet(LAMBDA d, t :
                initializeDelegation(
                    IncrementValidatorPeriod(t, d[2], Tokens(D, d[2])), d, 0),
            t0, D)

\* ResetDelegations sets all up, whatever the order.
LEMMA ResetFold ==
    ASSUME NEW t0, NEW D, AllNew(t0), t0 \in Stores, ~t0.panicked,
           Delegated(D), DOMAIN t0.starting = D
    PROVE  ResetThose(t0, ResetAll(t0, D), D)
<1> DEFINE Op(d, t) == initializeDelegation(
                           IncrementValidatorPeriod(t, d[2], Tokens(D, d[2])), d, 0)
           Fold(g) == g = [U \in SUBSET D |->
                              IF U = {} THEN t0 ELSE Op(Chosen(U), g[U \ {Chosen(U)}])]
           op == [p \in D \X Stores |-> Op(p[1], p[2])]
           I == [U \in SUBSET D |-> {t \in Stores : ResetThose(t0, t, U)}]
<1>0. \A U \in SUBSET D : \A t :
         t \in I[U] <=> t \in Stores /\ ResetThose(t0, t, U)
  OBVIOUS
<1>1. ResetAll(t0, D) = (CHOOSE g : Fold(g))[D]
  BY DEF ResetAll, FoldSet, MapThenFoldSet, Chosen
<1> HIDE DEF I
<1>2. t0 \in Stores /\ IsFiniteSet(D)
  BY PairsFinite, FS_Subset DEF Delegated
<1>3. t0 \in I[{}]
  BY <1>0, <1>2, ResetNone
<1>4. ASSUME NEW U \in SUBSET D, NEW t \in Stores, U # {}, t \in I[U \ {Chosen(U)}]
      PROVE  /\ Op(Chosen(U), t) \in Stores /\ Op(Chosen(U), t) \in I[U]
             /\ <<Chosen(U), t>> \in D \X Stores
  <2> DEFINE d == Chosen(U)
  <2>1. d \in U /\ d \in D
    BY <1>4, ChosenIn
  <2>2. ResetThose(t0, t, U \ {d})
    BY <1>0, <1>4
  <2> HIDE DEF d
  <2>3. ResetThose(t0, Op(d, t), U)
    BY <2>1, <2>2, ResetStep
  <2> HIDE DEF Op
  <2>4. Op(d, t) \in Stores
    BY <2>3 DEF ResetThose, Sound
  <2>5. Op(d, t) \in Stores /\ Op(d, t) \in I[U] /\ <<d, t>> \in D \X Stores
    BY <1>0, <2>1, <2>3, <2>4
  <2>6. QED  BY <2>5 DEF d
<1>5. \A x \in D, t \in Stores : op[<<x, t>>] = Op(x, t)
  <2> HIDE DEF Op
  <2>1. QED  OBVIOUS
<1> HIDE DEF op
<1>6. \A U \in SUBSET D : \A t \in Stores :
         U # {} /\ t \in I[U \ {Chosen(U)}] =>
             op[<<Chosen(U), t>>] \in Stores /\ op[<<Chosen(U), t>>] \in I[U]
  <2> HIDE DEF Op
  <2>1. QED  BY <1>4, <1>5, ChosenIn
<1> HIDE DEF Op
<1>7. \E g : Fold(g)
  <2>1. PICK x \in [SUBSET D -> Stores] : IsFold(x, D, t0, op)
    BY <1>2, <1>3, <1>6, FoldReached
  <2>2. \A U \in SUBSET D : U # {} =>
           op[<<Chosen(U), x[U \ {Chosen(U)}]>>] = Op(Chosen(U), x[U \ {Chosen(U)}])
    BY <1>5, ChosenIn
  <2>3. Fold(x)
    BY <2>1, <2>2 DEF IsFold
  <2>4. QED  BY <2>3
<1>8. PICK g : Fold(g) /\ ResetAll(t0, D) = g[D]
  BY <1>1, <1>7
<1>9. g[{}] = t0 /\ \A U \in SUBSET D : U # {} =>
         g[U] = Op(Chosen(U), g[U \ {Chosen(U)}])
  BY <1>8
<1>10. ASSUME NEW U \in SUBSET D, U # {}, g[U \ {Chosen(U)}] \in I[U \ {Chosen(U)}]
       PROVE  g[U] \in I[U]
  <2>1. g[U \ {Chosen(U)}] \in Stores
    BY <1>0, <1>10
  <2>2. QED  BY <1>4, <1>9, <1>10, <2>1
<1>11. g[D] \in I[D]
  BY <1>2, <1>3, <1>9, <1>10, FoldKept
<1>12. ResetThose(t0, ResetAll(t0, D), D)
  BY <1>0, <1>8, <1>11
<1>13. QED  BY <1>12

-----------------------------------------------------------------------------
(* Fees *)

\* A constant factor may be taken out of a sum.
LEMMA SumTimes ==
    ASSUME NEW S, IsFiniteSet(S), NEW f, NEW g, NEW k \in Int,
           \A x \in S : f[x] \in Int /\ g[x] = k * f[x]
    PROVE  SumFunctionOnSet(g, S) = k * SumFunctionOnSet(f, S)
<1> DEFINE F(U) == SumFunctionOnSet(f, U)
           G(U) == SumFunctionOnSet(g, U)
           P == {U \in SUBSET S : G(U) = k * F(U)}
<1>1. \A U \in SUBSET S : IsFiniteSet(U)
  BY FS_Subset
<1>2. ASSUME NEW U \in SUBSET S, NEW x \in U
      PROVE  F(U) = f[x] + F(U \ {x}) /\ G(U) = g[x] + G(U \ {x}) /\ F(U \ {x}) \in Int
  <2>1. IsFiniteSet(U)
    BY <1>1
  <2>2. \A y \in U : f[y] \in Int
    OBVIOUS
  <2>3. \A y \in U : g[y] \in Int
    <3>1. \A y \in Int : k * y \in Int
      OBVIOUS
    <3>2. QED  BY <3>1
  <2>4. F(U) = f[x] + F(U \ {x}) /\ F(U \ {x}) \in Int
    BY <2>1, <2>2, SumTake
  <2>5. G(U) = g[x] + G(U \ {x})
    BY <2>1, <2>3, SumTake
  <2>6. QED  BY <2>4, <2>5
<1>3. F({}) = 0 /\ G({}) = 0
  BY SumEmpty
<1> HIDE DEF F, G
<1>4. {} \in P
  BY <1>3
<1>5. ASSUME NEW U \in SUBSET S, U # {}
      PROVE  \E x \in U : U \ {x} \in P => U \in P
  <2>1. PICK x \in U : TRUE
    BY <1>5
  <2>2. F(U) = f[x] + F(U \ {x}) /\ G(U) = g[x] + G(U \ {x}) /\ F(U \ {x}) \in Int
    BY <1>2, <2>1
  <2>3. f[x] \in Int /\ g[x] = k * f[x]
    BY <2>1
  <2>4. \A a, b \in Int : k * a + k * b = k * (a + b)
    OBVIOUS
  <2>5. U \ {x} \in P => G(U) = k * F(U)
    BY <2>2, <2>3, <2>4
  <2>6. QED  BY <2>1, <2>5
<1>6. S \in P
  <2> HIDE DEF P
  <2>1. QED  BY <1>4, <1>5, FiniteSteps
<1>7. QED  BY <1>6 DEF F, G

\* Each delegation is a token of one validator.
LEMMA TokensSum ==
    ASSUME NEW D, NEW B, D \subseteq Pairs, B \subseteq Validators
    PROVE  SumFunctionOnSet([v \in B |-> Tokens(D, v)], B) = Cardinality({d \in D : d[2] \in B})
<1> DEFINE f == [v \in B |-> Tokens(D, v)]
           F(U) == SumFunctionOnSet(f, U)
           In(U) == {d \in D : d[2] \in U}
           P == {U \in SUBSET B : F(U) = Cardinality(In(U))}
<1>1. IsFiniteSet(B) /\ IsFiniteSet(D)
  BY PairsFinite, FS_Subset
<1>2. \A U \in SUBSET B : IsFiniteSet(U) /\ IsFiniteSet(In(U)) /\ Cardinality(In(U)) \in Nat
  <2> TAKE U \in SUBSET B
  <2>1. IsFiniteSet(U)
    BY <1>1, FS_Subset
  <2>2. In(U) \in SUBSET D
    OBVIOUS
  <2> HIDE DEF In
  <2>3. QED  BY <1>1, <2>1, <2>2, FS_Subset, FS_CardinalityType
<1>3. \A v \in B : f[v] = Cardinality(Of(D, v)) /\ f[v] \in Nat /\ IsFiniteSet(Of(D, v))
  BY TokensFacts
<1>4. F({}) = 0 /\ Cardinality(In({})) = 0
  <2>1. In({}) = {}
    OBVIOUS
  <2>2. QED  BY <2>1, SumEmpty, FS_EmptySet
<1>5. {} \in P
  BY <1>4
<1> HIDE DEF f
<1>6. ASSUME NEW U \in SUBSET B, U # {}
      PROVE  \E x \in U : U \ {x} \in P => U \in P
  <2>1. PICK x \in U : TRUE
    BY <1>6
  <2>2. F(U) = f[x] + F(U \ {x})
    <3>1. \A y \in U : f[y] \in Int
      BY <1>3
    <3>2. IsFiniteSet(U)
      BY <1>1, FS_Subset
    <3>3. QED  BY <2>1, <3>1, <3>2, SumTake
  <2>3. In(U) = Of(D, x) \cup In(U \ {x}) /\ Of(D, x) \cap In(U \ {x}) = {}
    BY <2>1 DEF Of
  <2>4. Cardinality(In(U)) = Cardinality(Of(D, x)) + Cardinality(In(U \ {x}))
    <3>1. IsFiniteSet(Of(D, x)) /\ IsFiniteSet(In(U \ {x}))
      BY <1>2, <1>3, <2>1
    <3> DEFINE X == In(U \ {x})
    <3> HIDE DEF In, X
    <3>2. Cardinality(Of(D, x) \cup X)
             = Cardinality(Of(D, x)) + Cardinality(X) - Cardinality(Of(D, x) \cap X)
      BY <3>1, FS_Union DEF X
    <3>3. Of(D, x) \cap X = {} /\ In(U) = Of(D, x) \cup X /\ Cardinality({}) = 0
      BY <2>3, FS_EmptySet DEF X
    <3>4. Cardinality(Of(D, x)) \in Nat /\ Cardinality(X) \in Nat
      BY <3>1, FS_CardinalityType DEF X
    <3>5. Cardinality(In(U)) = Cardinality(Of(D, x)) + Cardinality(X)
      <4>1. Cardinality(In(U)) = Cardinality(Of(D, x) \cup X)
        BY <3>3
      <4>2. Cardinality(Of(D, x) \cap X) = 0
        BY <3>3
      <4>3. QED  BY <3>2, <3>4, <4>1, <4>2
    <3>6. QED  BY <3>5 DEF X
  <2>5. f[x] = Cardinality(Of(D, x))
    BY <1>3, <2>1
  <2>6. U \ {x} \in P => F(U) = Cardinality(In(U))
    <3> HIDE DEF F, In
    <3>1. QED  BY <2>2, <2>4, <2>5
  <2>7. QED  BY <2>1, <2>6
<1>7. B \in P
  <2> HIDE DEF P
  <2>1. QED  BY <1>1, <1>5, <1>6, FiniteSteps
<1>8. QED  BY <1>7 DEF f

\* And out of a comparison.
LEMMA TimesLe ==
    ASSUME NEW n \in Nat \ {0}, NEW a \in Nat, NEW b \in Nat, n * a <= b * n
    PROVE  a <= b
<1>1. ASSUME a > b
      PROVE  FALSE
  <2>1. a - b \in Nat \ {0}
    BY <1>1
  <2>2. n * a = n * b + n * (a - b)
    BY <2>1
  <2>3. \A x, y \in Nat \ {0} : x * y >= 1
    OBVIOUS
  <2>4. n * (a - b) >= 1
    BY <2>1, <2>3
  <2>5. QED  BY <2>2, <2>4
<1>2. QED  BY <1>1

\* No more is shared than there is.
LEMMA SharesLe ==
    ASSUME NEW D, NEW B, NEW k, NEW n, Delegated(D), B \subseteq Validators, k \in Nat, B # {},
           \A v \in B : n[v] = (k * Tokens(D, v)) \div Cardinality({d \in D : d[2] \in B})
    PROVE  /\ \A v \in B : n[v] \in Nat
           /\ SumFunctionOnSet(n, B) \in Nat /\ SumFunctionOnSet(n, B) <= k
<1> DEFINE total == Cardinality({d \in D : d[2] \in B})
           f == [v \in B |-> Tokens(D, v)]
           g == [v \in B |-> total * n[v]]
           h == [v \in B |-> k * f[v]]
<1>1. IsFiniteSet(B) /\ IsFiniteSet(D) /\ D \subseteq Pairs
  BY PairsFinite, FS_Subset DEF Delegated
<1>2. total \in Nat \ {0}
  <2> DEFINE X == {d \in D : d[2] \in B}
  <2>1. IsFiniteSet(X)
    BY <1>1, FS_Subset
  <2>2. PICK v \in B : TRUE
    OBVIOUS
  <2>3. <<v, v>> \in X
    BY <2>2 DEF Delegated
  <2> HIDE DEF X
  <2>4. Cardinality(X) \in Nat /\ Cardinality(X) # 0
    BY <2>1, <2>3, FS_CardinalityType, FS_EmptySet
  <2>5. QED  BY <2>4 DEF X
<1>3. SumFunctionOnSet(f, B) = total
  BY <1>1, TokensSum
<1> HIDE DEF total
<1>4. ASSUME NEW v \in B
      PROVE  /\ n[v] \in Nat /\ f[v] \in Nat /\ g[v] \in Nat /\ h[v] \in Nat
             /\ g[v] = total * n[v] /\ h[v] = k * f[v] /\ g[v] <= h[v]
  <2>1. f[v] \in Nat /\ f[v] = Tokens(D, v)
    BY <1>1, TokensFacts
  <2>2. h[v] = k * f[v] /\ g[v] = total * n[v]
    OBVIOUS
  <2> DEFINE x == k * f[v]
  <2>3. \A a, b \in Nat : a * b \in Nat
    OBVIOUS
  <2>4. x \in Nat
    BY <2>1, <2>3
  <2>5. n[v] = x \div total
    BY <2>1 DEF total
  <2> HIDE DEF x, f, g, h
  <2>6. x \div total \in Nat /\ total * (x \div total) <= x
    BY <1>2, <2>4, DivFacts
  <2>7. n[v] \in Nat /\ g[v] <= x
    BY <2>2, <2>5, <2>6
  <2>8. g[v] \in Nat
    BY <1>2, <2>2, <2>3, <2>7
  <2>9. QED  BY <2>1, <2>2, <2>4, <2>7, <2>8 DEF x
<1> HIDE DEF f, g, h
<1>5. SumFunctionOnSet(n, B) \in Nat
  BY <1>1, <1>4, SumNat
<1>6. SumFunctionOnSet(g, B) = total * SumFunctionOnSet(n, B)
  <2>1. total \in Int /\ \A v \in B : n[v] \in Int /\ g[v] = total * n[v]
    BY <1>2, <1>4
  <2>2. QED  BY <1>1, <2>1, SumTimes
<1>7. SumFunctionOnSet(h, B) = k * total
  <2>1. k \in Int /\ \A v \in B : f[v] \in Int /\ h[v] = k * f[v]
    BY <1>4
  <2>2. SumFunctionOnSet(h, B) = k * SumFunctionOnSet(f, B)
    BY <1>1, <2>1, SumTimes
  <2>3. QED  BY <1>3, <2>2
<1>8. SumFunctionOnSet(g, B) <= SumFunctionOnSet(h, B)
  <2>1. \A v \in B : g[v] \in Int /\ h[v] \in Int /\ g[v] <= h[v]
    BY <1>4
  <2>2. QED  BY <1>1, <2>1, SumLe
<1>9. SumFunctionOnSet(n, B) <= k
  <2> DEFINE y == SumFunctionOnSet(n, B)
  <2> HIDE DEF y
  <2>1. y \in Nat /\ total * y <= k * total
    BY <1>5, <1>6, <1>7, <1>8 DEF y
  <2>2. y <= k
    BY <1>2, <2>1, TimesLe
  <2>3. QED  BY <2>2 DEF y
<1>10. QED  BY <1>4, <1>5, <1>9

Sharing(t, v, n) == [t EXCEPT !.val[v].outstanding = @ + n,
                              !.val[v].commission = @ + n \div 2,
                              !.val[v].rewards = @ + n - n \div 2]

\* The validators U have their shares n.
Shared(t, u, D, n, U) ==
    /\ Sound(u, D)
    /\ u.starting = t.starting /\ u.slashes = t.slashes /\ u.pool = t.pool
    /\ u.balance = t.balance /\ u.paid = t.paid
    /\ TotalOutstanding(u) = TotalOutstanding(t) + SumFunctionOnSet(n, U)

\* At first nobody has a share.
LEMMA SharedNone ==
    ASSUME NEW t, NEW D, NEW n, Sound(t, D)
    PROVE  Shared(t, t, D, n, {})
<1>1. TotalOutstanding(t) \in Nat
  BY TotalFacts DEF Sound
<1>2. QED  BY <1>1, SumEmpty DEF Shared

\* One share more.
LEMMA ShareStep ==
    ASSUME NEW t, NEW u, NEW D, NEW n, NEW U, NEW v, Shared(t, u, D, n, U \ {v}),
           Sound(t, D), D \subseteq Pairs, U \subseteq Validators, v \in U,
           \A x \in U : n[x] \in Nat
    PROVE  Shared(t, Sharing(u, v, n[v]), D, n, U)
<1> DEFINE w == Sharing(u, v, n[v])
           k == n[v]
           E == Of(D, v)
<1>1. Sound(u, D) /\ u \in Stores /\ v \in Validators /\ k \in Nat /\ InOrder(u, E, v)
      /\ t \in Stores
  BY DEF Shared, Sound
<1>2. /\ OnlyBooks(u, w, v)
      /\ w.val[v].outstanding = u.val[v].outstanding + k
      /\ InOrder(w, E, v)
  <2> HIDE DEF E, k
  <2>1. LET x == [u EXCEPT !.val[v].outstanding = @ + k,
                           !.val[v].commission = @ + k \div 2,
                           !.val[v].rewards = @ + k - k \div 2]
        IN
        /\ OnlyBooks(u, x, v)
        /\ x.val[v].outstanding = u.val[v].outstanding + k
        /\ InOrder(x, E, v)
    BY <1>1, ShareOrder
  <2>2. QED  BY <2>1 DEF Sharing, k
<1> HIDE DEF w, k, E
<1>3. /\ w \in Stores /\ \A x \in Validators \ {v} : w.val[x] = u.val[x]
      /\ w.starting = u.starting /\ w.slashes = u.slashes /\ w.pool = u.pool
      /\ w.balance = u.balance /\ w.paid = u.paid /\ w.panicked = u.panicked
  BY <1>2 DEF OnlyBooks
<1>4. \A x \in Validators \ {v} : InOrder(w, Of(D, x), x)
  <2>1. \A x \in Validators \ {v} : \A e \in Of(D, x) :
               e \in DOMAIN w.starting /\ w.starting[e] = u.starting[e]
    BY <1>1, <1>3 DEF Of, Sound
  <2>2. \A x \in Validators \ {v} : InOrder(u, Of(D, x), x)
    BY <1>1 DEF Sound
  <2>3. QED  BY <1>3, <2>1, <2>2, OthersInOrder
<1>5. Sound(w, D)
  BY <1>1, <1>2, <1>3, <1>4 DEF Sound, E
<1>6. TotalOutstanding(w) = TotalOutstanding(t) + SumFunctionOnSet(n, U)
  <2>1. TotalOutstanding(w) = TotalOutstanding(u) + w.val[v].outstanding - u.val[v].outstanding
    <3>1. \A x \in Validators \ {v} : w.val[x].outstanding = u.val[x].outstanding
      BY <1>3
    <3>2. QED  BY <1>1, <1>3, <3>1, TotalChange
  <2>2. u.val[v].outstanding \in Nat
    BY <1>1, BooksFacts
  <2>3. TotalOutstanding(u) \in Nat /\ TotalOutstanding(t) \in Nat
    BY <1>1, TotalFacts
  <2>4. TotalOutstanding(w) = TotalOutstanding(u) + k
    BY <1>1, <1>2, <2>1, <2>2, <2>3
  <2>5. SumFunctionOnSet(n, U) = k + SumFunctionOnSet(n, U \ {v})
        /\ SumFunctionOnSet(n, U \ {v}) \in Int
    <3>1. IsFiniteSet(U)
      BY PairsFinite, FS_Subset
    <3>2. \A x \in U : n[x] \in Int
      OBVIOUS
    <3>3. QED  BY <3>1, <3>2, SumTake DEF k
  <2>6. TotalOutstanding(u) = TotalOutstanding(t) + SumFunctionOnSet(n, U \ {v})
    BY DEF Shared
  <2>7. QED  BY <1>1, <2>3, <2>4, <2>5, <2>6
<1>7. QED  BY <1>3, <1>5, <1>6 DEF Shared, w

AllShared(t0, D, B, k, m) ==
    FoldSet(LAMBDA v, u : Sharing(u, v, (k * Tokens(D, v)) \div m), t0, B)

\* All shares are given.
LEMMA SharesFold ==
    ASSUME NEW t0, NEW D, NEW B, NEW k, NEW m, NEW n, Sound(t0, D), D \subseteq Pairs,
           B \subseteq Validators,
           \A v \in B : n[v] \in Nat /\ n[v] = (k * Tokens(D, v)) \div m
    PROVE  Shared(t0, AllShared(t0, D, B, k, m), D, n, B)
<1> DEFINE Op(v, u) == Sharing(u, v, (k * Tokens(D, v)) \div m)
           Fold(g) == g = [U \in SUBSET B |->
                              IF U = {} THEN t0 ELSE Op(Chosen(U), g[U \ {Chosen(U)}])]
           op == [p \in B \X Stores |-> Op(p[1], p[2])]
           I == [U \in SUBSET B |-> {t \in Stores : Shared(t0, t, D, n, U)}]
<1>0. \A U \in SUBSET B : \A t :
         t \in I[U] <=> t \in Stores /\ Shared(t0, t, D, n, U)
  OBVIOUS
<1>1. AllShared(t0, D, B, k, m) = (CHOOSE g : Fold(g))[B]
  BY DEF AllShared, FoldSet, MapThenFoldSet, Chosen
<1> HIDE DEF I
<1>2. t0 \in Stores /\ IsFiniteSet(B)
  BY PairsFinite, FS_Subset DEF Sound
<1>3. t0 \in I[{}]
  BY <1>0, <1>2, SharedNone
<1>4. ASSUME NEW U \in SUBSET B, NEW t \in Stores, U # {}, t \in I[U \ {Chosen(U)}]
      PROVE  /\ Op(Chosen(U), t) \in Stores /\ Op(Chosen(U), t) \in I[U]
             /\ <<Chosen(U), t>> \in B \X Stores
  <2> DEFINE v == Chosen(U)
  <2>1. v \in U /\ v \in B
    BY <1>4, ChosenIn
  <2>2. Shared(t0, t, D, n, U \ {v})
    BY <1>0, <1>4
  <2> HIDE DEF v
  <2>3. Shared(t0, Op(v, t), D, n, U)
    <3>1. Shared(t0, Sharing(t, v, n[v]), D, n, U)
      BY <2>1, <2>2, ShareStep
    <3>2. n[v] = (k * Tokens(D, v)) \div m
      BY <2>1
    <3>3. QED  BY <3>1, <3>2
  <2> HIDE DEF Op
  <2>4. Op(v, t) \in Stores
    BY <2>3 DEF Shared, Sound
  <2>5. Op(v, t) \in Stores /\ Op(v, t) \in I[U] /\ <<v, t>> \in B \X Stores
    BY <1>0, <2>1, <2>3, <2>4
  <2>6. QED  BY <2>5 DEF v
<1>5. \A x \in B, t \in Stores : op[<<x, t>>] = Op(x, t)
  <2> HIDE DEF Op
  <2>1. QED  OBVIOUS
<1> HIDE DEF op
<1>6. ASSUME NEW U \in SUBSET B, NEW t \in Stores, U # {}, t \in I[U \ {Chosen(U)}]
      PROVE  op[<<Chosen(U), t>>] \in Stores /\ op[<<Chosen(U), t>>] \in I[U]
  <2> HIDE DEF Op
  <2>1. Op(Chosen(U), t) \in Stores /\ Op(Chosen(U), t) \in I[U]
    BY <1>4, <1>6
  <2>2. op[<<Chosen(U), t>>] = Op(Chosen(U), t)
    BY <1>5, <1>6, ChosenIn
  <2>3. QED  BY <2>1, <2>2
<1> HIDE DEF Op
<1>7. \E g : Fold(g)
  <2>1. PICK x \in [SUBSET B -> Stores] : IsFold(x, B, t0, op)
    BY <1>2, <1>3, <1>6, FoldReached
  <2>2. \A U \in SUBSET B : U # {} =>
           op[<<Chosen(U), x[U \ {Chosen(U)}]>>] = Op(Chosen(U), x[U \ {Chosen(U)}])
    BY <1>5, ChosenIn
  <2>3. Fold(x)
    BY <2>1, <2>2 DEF IsFold
  <2>4. QED  BY <2>3
<1>8. PICK g : Fold(g) /\ AllShared(t0, D, B, k, m) = g[B]
  BY <1>1, <1>7
<1>9. g[{}] = t0 /\ \A U \in SUBSET B : U # {} =>
         g[U] = Op(Chosen(U), g[U \ {Chosen(U)}])
  BY <1>8
<1>10. ASSUME NEW U \in SUBSET B, U # {}, g[U \ {Chosen(U)}] \in I[U \ {Chosen(U)}]
       PROVE  g[U] \in I[U]
  <2>1. g[U \ {Chosen(U)}] \in Stores
    BY <1>0, <1>10
  <2>2. QED  BY <1>4, <1>9, <1>10, <2>1
<1>11. g[B] \in I[B]
  BY <1>2, <1>3, <1>9, <1>10, FoldKept
<1>12. Shared(t0, AllShared(t0, D, B, k, m), D, n, B)
  BY <1>0, <1>8, <1>11
<1>13. QED  BY <1>12

\* The fees of a block.
FeesPaid(t, u, D) ==
    /\ Sound(u, D) /\ Surplus(u) = Surplus(t)
    /\ u.starting = t.starting /\ u.slashes = t.slashes

WithMoney(t, b, p) == [t EXCEPT !.balance = b, !.pool = p]

\* The rest of a store stays as it was.
LEMMA MoneyAdded ==
    ASSUME NEW t \in Stores, NEW b \in Int, NEW p \in Nat
    PROVE  /\ WithMoney(t, b, p) \in Stores /\ WithMoney(t, b, p).val = t.val
           /\ WithMoney(t, b, p).starting = t.starting
           /\ WithMoney(t, b, p).slashes = t.slashes
           /\ WithMoney(t, b, p).pool = p /\ WithMoney(t, b, p).balance = b
           /\ WithMoney(t, b, p).paid = t.paid /\ WithMoney(t, b, p).panicked = t.panicked
  BY DEF Stores, WithMoney

\* Money of the module account and the pool is in nobody's books.
LEMMA SoundSame ==
    ASSUME NEW t, NEW u, NEW D, Sound(t, D), u \in Stores, u.val = t.val,
           u.starting = t.starting, u.slashes = t.slashes, u.panicked = t.panicked
    PROVE  Sound(u, D)
<1>1. ASSUME NEW v \in Validators
      PROVE  InOrder(u, Of(D, v), v)
  <2>1. InOrder(t, Of(D, v), v) /\ Of(D, v) \subseteq DOMAIN u.starting
    BY DEF Sound, Of
  <2>2. u.val[v] = t.val[v] /\ \A d \in Of(D, v) : u.starting[d] = t.starting[d]
    OBVIOUS
  <2>3. QED  BY <2>1, <2>2, OrderSame
<1>2. QED  BY <1>1 DEF Sound

FeesOf(t0, D, B, k, m) ==
    LET t == AllShared(t0, D, B, k, m) IN
    [t EXCEPT !.balance = @ + k,
              !.pool = @ + k - SumFunction([v \in B |-> (k * Tokens(D, v)) \div m])]

\* The fees of a block are in the account, shares in the books and the rest in the pool.
LEMMA FeesSound ==
    ASSUME NEW t0, NEW D, NEW B, NEW k, NEW m, Sound(t0, D), Delegated(D),
           B \subseteq Validators, B # {}, k \in Nat,
           m = Cardinality({d \in D : d[2] \in B})
    PROVE  FeesPaid(t0, FeesOf(t0, D, B, k, m), D)
<1> DEFINE t == AllShared(t0, D, B, k, m)
           n == [v \in B |-> (k * Tokens(D, v)) \div m]
           sum == SumFunctionOnSet(n, B)
           w == [t EXCEPT !.balance = @ + k, !.pool = @ + k - SumFunction(n)]
<1>1. \A v \in B : n[v] = (k * Tokens(D, v)) \div m
  OBVIOUS
<1>2. SumFunction(n) = sum
  BY DEF SumFunction
<1> HIDE DEF n
<1>3. /\ \A v \in B : n[v] \in Nat
      /\ sum \in Nat /\ sum <= k
  BY <1>1, SharesLe
<1>4. D \subseteq Pairs /\ t0 \in Stores
  BY DEF Delegated, Sound
<1>5. Shared(t0, t, D, n, B)
  BY <1>1, <1>3, <1>4, SharesFold
<1> HIDE DEF t, sum
<1>6. t \in Stores /\ t.balance \in Int /\ t.pool \in Nat /\ t0.balance \in Int /\ t0.pool \in Nat
  BY <1>4, <1>5 DEF Shared, Sound, Stores
<1> DEFINE b == t.balance + k
           p == t.pool + k - sum
           x == WithMoney(t, b, p)
<1>7. b \in Int /\ p \in Nat /\ w = x
  BY <1>2, <1>3, <1>6 DEF WithMoney
<1> HIDE DEF w, b, p
<1>8. /\ x \in Stores /\ x.val = t.val /\ x.starting = t.starting
      /\ x.slashes = t.slashes /\ x.pool = p /\ x.balance = b
      /\ x.paid = t.paid /\ x.panicked = t.panicked
  BY <1>6, <1>7, MoneyAdded
<1> HIDE DEF x
<1>9. Sound(x, D)
  BY <1>5, <1>8, SoundSame DEF Shared
<1>10. Surplus(x) = Surplus(t0)
  <2>1. TotalOutstanding(x) = TotalOutstanding(t)
    BY <1>8 DEF TotalOutstanding
  <2>2. TotalOutstanding(t) = TotalOutstanding(t0) + sum
    BY <1>5 DEF Shared, sum
  <2>3. TotalOutstanding(t0) \in Nat
    BY <1>4, TotalFacts
  <2>4. t.balance = t0.balance /\ t.pool = t0.pool
    BY <1>5 DEF Shared
  <2>5. b = t0.balance + k /\ p = t0.pool + k - sum
    BY <2>4 DEF b, p
  <2>6. QED  BY <1>3, <1>6, <1>8, <2>1, <2>2, <2>3, <2>5 DEF Surplus
<1>11. FeesPaid(t0, w, D)
  BY <1>5, <1>7, <1>8, <1>9, <1>10 DEF FeesPaid, Shared
<1>12. QED  BY <1>11 DEF w, n, t, FeesOf

-----------------------------------------------------------------------------
(* The parts of the export *)

\* What the rest of the export will have paid when the store is t.
WithRewards(t, D, h) ==
    [a \in Accounts |-> t.paid[a] + SumFunctionOnSet(Rewards(t, D, h), OfAccount(D, a))]

\* What an export will pay, and refuse, that begins with t.
Owes(t, D, h, b, owed) ==
    /\ owed.refused = SumFunctionOnSet(CoinsOf(t), Validators \cap b)
    /\ owed.paid = [a \in Accounts |-> WithRewards(t, D, h)[a]
                                          + (IF a \in Validators \ b THEN CoinsOf(t)[a] ELSE 0)]

\* Due computes it.
LEMMA DueOwes ==
    ASSUME NEW b, Sound(s, delegations), Delegated(delegations), height \in Nat
    PROVE  Owes(s, delegations, height, b, Due(b))
<1> DEFINE D == delegations
           h == height
           Commission(v) == CoinsIn(s.val[v].commission)
           R(d) == CoinsIn(Payable(s, d, Tokens(delegations, d[2]), height))
           F(a) == [d \in {e \in delegations : e[1] = a} |-> R(d)]
           G == [v \in Validators \cap b |-> Commission(v)]
<1>1. s \in Stores /\ IsFiniteSet(Validators)
  BY PairsFinite DEF Sound
<1>2. \A v \in Validators : CoinsOf(s)[v] \in Nat /\ CoinsOf(s)[v] = Commission(v)
  BY <1>1, CoinsOfTyped
<1>3. SumFunction(G) = SumFunctionOnSet(CoinsOf(s), Validators \cap b)
  <2> DEFINE V == Validators \cap b
  <2>1. IsFiniteSet(V)
    BY <1>1, FS_Subset
  <2>2. \A v \in V : CoinsOf(s)[v] \in Int /\ G[v] = CoinsOf(s)[v]
    BY <1>2
  <2>3. SumFunction(G) = SumFunctionOnSet(G, V)
    BY DEF SumFunction
  <2> HIDE DEF V, G
  <2>4. SumFunctionOnSet(G, V) = SumFunctionOnSet(CoinsOf(s), V)
    BY <2>1, <2>2, SumSame
  <2>5. QED  BY <2>3, <2>4 DEF V
<1>4. ASSUME NEW a \in Accounts
      PROVE  /\ SumFunction(F(a)) = SumFunctionOnSet(Rewards(s, D, h), OfAccount(D, a))
             /\ SumFunction(F(a)) \in Nat
  <2> DEFINE E == OfAccount(D, a)
             f == F(a)
  <2>1. /\ \A d \in D : Rewards(s, D, h)[d] \in Nat
        /\ \A U, x : U \subseteq D =>
               /\ IsFiniteSet(OfAccount(U, x)) /\ OfAccount(U, x) \subseteq D
               /\ SumFunctionOnSet(Rewards(s, D, h), OfAccount(U, x)) \in Nat
    BY RewardsTyped
  <2>2. IsFiniteSet(E) /\ E \subseteq D /\ SumFunctionOnSet(Rewards(s, D, h), E) \in Nat
    BY <2>1
  <2>3. E = {e \in delegations : e[1] = a}
    BY DEF OfAccount
  <2>4. \A d \in E : Rewards(s, D, h)[d] \in Int /\ f[d] = Rewards(s, D, h)[d]
    <3> TAKE d \in E
    <3>1. d \in D
      BY <2>2
    <3>2. Rewards(s, D, h)[d] = R(d)
      BY <3>1 DEF Rewards, Reward
    <3>3. f[d] = R(d)
      BY <2>3
    <3>4. Rewards(s, D, h)[d] \in Nat
      BY <2>1, <3>1
    <3> HIDE DEF R, f, E
    <3>5. QED  BY <3>2, <3>3, <3>4
  <2>5. SumFunction(f) = SumFunctionOnSet(f, E)
    BY <2>3 DEF SumFunction
  <2> HIDE DEF f, E
  <2>6. SumFunctionOnSet(f, E) = SumFunctionOnSet(Rewards(s, D, h), E)
    BY <2>2, <2>4, SumSame
  <2>7. SumFunction(f) = SumFunctionOnSet(Rewards(s, D, h), E) /\ SumFunction(f) \in Nat
    BY <2>2, <2>5, <2>6
  <2>8. QED  BY <2>7 DEF f, E
<1>5. Due(b).refused = SumFunctionOnSet(CoinsOf(s), Validators \cap b)
  BY <1>3 DEF Due
<1> DEFINE Of1(a) == SumFunction(F(a)) + (IF a \in Validators \ b THEN Commission(a) ELSE 0)
<1>6. Due(b).paid = [a \in Accounts |-> s.paid[a] + Of1(a)]
  BY DEF Due
<1>7. ASSUME NEW a \in Accounts
      PROVE  s.paid[a] + Of1(a) = WithRewards(s, D, h)[a]
                                    + (IF a \in Validators \ b THEN CoinsOf(s)[a] ELSE 0)
  <2> DEFINE c == IF a \in Validators \ b THEN CoinsOf(s)[a] ELSE 0
             r == SumFunction(F(a))
  <2>1. c \in Nat /\ Of1(a) = r + c
    BY <1>2
  <2>2. s.paid[a] \in Nat
    BY <1>1 DEF Stores
  <2>3. WithRewards(s, D, h)[a] = s.paid[a] + r /\ r \in Nat
    BY <1>4 DEF WithRewards
  <2> HIDE DEF c, r, Of1
  <2>4. s.paid[a] + Of1(a) = WithRewards(s, D, h)[a] + c
    BY <2>1, <2>2, <2>3
  <2>5. QED  BY <2>4 DEF c
<1> HIDE DEF Of1
<1>8. Due(b).paid = [a \in Accounts |-> WithRewards(s, D, h)[a]
                        + (IF a \in Validators \ b THEN CoinsOf(s)[a] ELSE 0)]
  BY <1>6, <1>7
<1>9. QED  BY <1>5, <1>8 DEF Owes

\* After the commissions.
CommissionsPaid(t, u, D, h, b, owed) ==
    /\ Sound(u, D) /\ DOMAIN u.starting = DOMAIN t.starting
    /\ Surplus(u) = Surplus(t) + owed.refused
    /\ NoneRefused(t, D, h, b) => NoneRefused(u, D, h, b)
    /\ owed.paid = WithRewards(u, D, h)

\* What was due and is not paid is rewards, or was refused.
LEMMA CommissionsPart ==
    ASSUME NEW t, NEW u, NEW D, NEW h, NEW b, NEW owed, Sound(t, D), Delegated(D), h \in Nat,
           Owes(t, D, h, b, owed), Commissioned(t, u, D, b, Validators)
    PROVE  CommissionsPaid(t, u, D, h, b, owed)
<1>1. Sound(u, D) /\ u.starting = t.starting /\ t \in Stores /\ u \in Stores
  BY DEF Commissioned, Sound
<1>2. Surplus(u) = Surplus(t) + owed.refused
  BY DEF Commissioned, Owes
<1>3. ASSUME NEW d \in D
      PROVE  Reward(u, D, d, h) = Reward(t, D, d, h)
  <2>1. d[2] \in Validators
    BY DEF Delegated, Pairs
  <2>2. /\ u.val[d[2]].rewards = t.val[d[2]].rewards
        /\ LastPeriod(u, d[2]) = LastPeriod(t, d[2])
        /\ \A p : Ratio(u, d[2], p) = Ratio(t, d[2], p)
    BY <2>1 DEF Commissioned
  <2>3. Worth(u, D, d) = Worth(t, D, d)
    BY <1>1, <2>2 DEF Worth, Gain
  <2>4. QED  BY <1>1, <2>3, RewardSame
<1>4. ASSUME NoneRefused(t, D, h, b)
      PROVE  NoneRefused(u, D, h, b)
  <2> SUFFICES ASSUME NEW d \in D
               PROVE  ~Refused(u, d, Tokens(D, d[2]), h, b)
    BY DEF NoneRefused
  <2>1. ~Refused(t, d, Tokens(D, d[2]), h, b)
    BY <1>4 DEF NoneRefused
  <2>2. Payable(u, d, Tokens(D, d[2]), h) = Payable(t, d, Tokens(D, d[2]), h)
    BY <1>3 DEF Reward
  <2>3. QED  BY <2>1, <2>2 DEF Refused
<1>5. Rewards(u, D, h) = Rewards(t, D, h)
  <2>1. \A d \in D : CoinsIn(Reward(u, D, d, h)) = CoinsIn(Reward(t, D, d, h))
    BY <1>3
  <2>2. QED  BY <2>1 DEF Rewards
<1>6. ASSUME NEW a \in Accounts
      PROVE  WithRewards(t, D, h)[a] + (IF a \in Validators \ b THEN CoinsOf(t)[a] ELSE 0)
                = WithRewards(u, D, h)[a]
  <2> DEFINE r == SumFunctionOnSet(Rewards(t, D, h), OfAccount(D, a))
             c == IF a \in Validators \ b THEN CoinsOf(t)[a] ELSE 0
  <2>1. r \in Nat
    <3>1. \A U, x : U \subseteq D =>
              SumFunctionOnSet(Rewards(t, D, h), OfAccount(U, x)) \in Nat
      BY RewardsTyped
    <3>2. QED  BY <3>1
  <2>2. c \in Nat
    BY <1>1, CoinsOfTyped
  <2>3. t.paid[a] \in Nat
    BY <1>1 DEF Stores
  <2>4. u.paid[a] = t.paid[a] + c
    BY DEF Commissioned
  <2>5. WithRewards(t, D, h)[a] = t.paid[a] + r /\ WithRewards(u, D, h)[a] = u.paid[a] + r
    BY <1>5 DEF WithRewards
  <2> HIDE DEF c, r
  <2>6. WithRewards(t, D, h)[a] + c = WithRewards(u, D, h)[a]
    BY <2>1, <2>2, <2>3, <2>4, <2>5
  <2>7. QED  BY <2>6 DEF c
<1>7. owed.paid = WithRewards(u, D, h)
  <2>1. owed.paid = [a \in Accounts |-> WithRewards(u, D, h)[a]]
    BY <1>6 DEF Owes
  <2>2. WithRewards(u, D, h) = [a \in Accounts |-> WithRewards(u, D, h)[a]]
    BY DEF WithRewards
  <2>3. QED  BY <2>1, <2>2
<1>8. QED  BY <1>1, <1>2, <1>4, <1>7 DEF CommissionsPaid

\* After the rewards, all is paid.
LEMMA RewardsPart ==
    ASSUME NEW t, NEW u, NEW D, NEW h, PaidThose(t, u, D, h, D)
    PROVE  u.paid = WithRewards(t, D, h)
<1>1. u.paid \in [Accounts -> Nat]
  BY DEF PaidThose, Sound, Stores
<1>2. \A a \in Accounts :
         u.paid[a] = t.paid[a] + SumFunctionOnSet(Rewards(t, D, h), OfAccount(D, a))
  BY DEF PaidThose
<1>3. QED  BY <1>1, <1>2 DEF WithRewards

\* Histories and slashes are thrown away.
ClearedOf(t) ==
    [t EXCEPT !.slashes = {},
              !.val = [v \in Validators |-> [t.val[v] EXCEPT !.history = <<>>]]]

IsCleared(t, u) ==
    /\ u \in Stores /\ u.slashes = {} /\ u.starting = t.starting /\ u.paid = t.paid
    /\ u.panicked = t.panicked /\ Surplus(u) = Surplus(t)
    /\ \A v \in Validators : DOMAIN u.val[v].history = {}

\* It touches no amount.
LEMMA ClearedPart ==
    ASSUME NEW t \in Stores
    PROVE  IsCleared(t, ClearedOf(t))
<1> DEFINE u == ClearedOf(t)
           b(v) == [t.val[v] EXCEPT !.history = <<>>]
<1>1. <<>> \in Histories /\ DOMAIN <<>> = {}
  <2>1. <<>> \in [{} -> [ratio: Nat, refs: Nat \ {0}]] /\ {} \in SUBSET Nat
    OBVIOUS
  <2>2. QED  BY <2>1, HistoryMade
<1>2. ASSUME NEW v \in Validators
      PROVE  b(v) \in Books /\ b(v).outstanding = t.val[v].outstanding /\ DOMAIN b(v).history = {}
  <2>1. t.val[v] \in Books
    BY DEF Stores
  <2> HIDE DEF Histories
  <2>2. QED  BY <1>1, <2>1 DEF Books
<1>3. u.val = [v \in Validators |-> b(v)] /\ u.slashes = {} /\ u.starting = t.starting
      /\ u.paid = t.paid /\ u.panicked = t.panicked /\ u.balance = t.balance /\ u.pool = t.pool
  BY DEF ClearedOf, Stores
<1>4. u \in Stores
  <2>1. [v \in Validators |-> b(v)] \in [Validators -> Books]
    BY <1>2
  <2> HIDE DEF b
  <2>2. QED  BY <2>1 DEF Stores, ClearedOf, b
<1> HIDE DEF u, b
<1>5. \A v \in Validators : u.val[v] = b(v)
  BY <1>3
<1>6. TotalOutstanding(u) = TotalOutstanding(t)
  <2>1. \A v \in Validators : u.val[v].outstanding = t.val[v].outstanding
    BY <1>2, <1>5
  <2>2. [v \in Validators |-> u.val[v].outstanding] = [v \in Validators |-> t.val[v].outstanding]
    BY <2>1
  <2>3. QED  BY <2>2 DEF TotalOutstanding
<1>7. Surplus(u) = Surplus(t)
  BY <1>3, <1>6 DEF Surplus
<1>8. QED  BY <1>2, <1>3, <1>4, <1>5, <1>7 DEF IsCleared, u

\* Validators are set up again, and what was outstanding is donated.
ResetOf(t) ==
    [t EXCEPT !.pool = @ + TotalOutstanding(t),
              !.val = [v \in Validators |-> NewValidator]]

IsReset(t, u) ==
    /\ u \in Stores /\ u.slashes = t.slashes /\ u.starting = t.starting /\ u.paid = t.paid
    /\ u.panicked = t.panicked /\ Surplus(u) = Surplus(t)
    /\ \A v \in Validators : u.val[v] = NewValidator

\* All that is outstanding is donated.
LEMMA ResetPart ==
    ASSUME NEW t \in Stores
    PROVE  IsReset(t, ResetOf(t))
<1> DEFINE u == ResetOf(t)
<1>1. NewValidator \in Books /\ NewValidator.outstanding = 0
  <2>1. {0} \in SUBSET Nat
        /\ [p \in {0} |-> [ratio |-> 0, refs |-> 1]] \in [{0} -> [ratio: Nat, refs: Nat \ {0}]]
    OBVIOUS
  <2>2. [p \in {0} |-> [ratio |-> 0, refs |-> 1]] \in Histories
    BY <2>1, HistoryMade
  <2>3. QED  BY <2>2 DEF NewValidator, Books
<1>2. TotalOutstanding(t) \in Nat
  BY TotalFacts
<1>3. u.val = [v \in Validators |-> NewValidator] /\ u.slashes = t.slashes
      /\ u.starting = t.starting /\ u.paid = t.paid /\ u.panicked = t.panicked
      /\ u.balance = t.balance /\ u.pool = t.pool + TotalOutstanding(t)
  <2> HIDE DEF NewValidator
  <2>1. QED  BY DEF ResetOf, Stores
<1>4. u \in Stores
  <2>1. [v \in Validators |-> NewValidator] \in [Validators -> Books]
    BY <1>1
  <2>2. t.pool + TotalOutstanding(t) \in Nat
    BY <1>2 DEF Stores
  <2> HIDE DEF NewValidator
  <2>3. QED  BY <2>1, <2>2 DEF Stores, ResetOf
<1> HIDE DEF u
<1>5. TotalOutstanding(u) = 0
  <2>1. \A v \in Validators : [w \in Validators |-> u.val[w].outstanding][v] = 0
    BY <1>1, <1>3
  <2>2. QED  BY <1>4, <2>1, TotalFacts, SumZero, PairsFinite
<1>6. Surplus(u) = Surplus(t)
  <2>1. t.pool \in Nat /\ t.balance \in Int
    BY DEF Stores
  <2>2. QED  BY <1>2, <1>3, <1>5, <2>1 DEF Surplus
<1>7. QED  BY <1>3, <1>4, <1>6 DEF IsReset, u

-----------------------------------------------------------------------------
(* The inductive invariant *)

Parts == {"commissions", "rewards", "clear", "reset", "delegations", "entries",
          "validators", "signing"}
Entries == [from: Pairs, to: Nat, height: Nat]
DoneForZero == pc = "done" /\ args.zero
Goes == pc = "chain" \/ (pc = "done" /\ ~args.zero)

\* No record is of a height after last.
StoreUpTo(t, last) ==
    /\ \A e \in t.slashes : e.height <= last
    /\ \A d \in DOMAIN t.starting : t.starting[d].height <= last
StakingUpTo(last) ==
    /\ \A e \in entries : e.height <= last
    /\ \A v \in Validators : unbondingHeight[v] <= last /\ startHeight[v] <= last

StakingInv ==
    /\ pc \in Parts \cup {"chain", "done", "failed", "refused"}
    /\ height \in Nat /\ maxBonded \in Nat
    /\ Delegated(delegations)
    /\ bonded # {} /\ bonded \subseteq Validators /\ jailed \subseteq Validators
    /\ unbondingHeight \in [Validators -> Nat] /\ startHeight \in [Validators -> Nat]
    /\ entries \subseteq Entries
    /\ pc # "failed" => bonded \cap jailed = {}
    /\ pc \in Parts => args.zero

HeightsInv ==
    /\ Goes => StoreUpTo(s, height) /\ StakingUpTo(height)
    /\ pc \in {"validators", "signing"} \/ DoneForZero => \A e \in entries : e.height = 0
    /\ pc = "signing" \/ DoneForZero =>
          /\ \A v \in Validators : unbondingHeight[v] = 0
          /\ args.allowed = {} \/ bonded \subseteq args.allowed
    /\ DoneForZero => \A v \in Validators : startHeight[v] = 0

\* A store after ResetDelegations.
Renewed(t, D) ==
    /\ t.slashes = {}
    /\ \A v \in Validators : t.val[v].rewards = 0 /\ Ratio(t, v, LastPeriod(t, v)) = 0
    /\ \A d \in D : t.starting[d].height = 0

StoreInv ==
    /\ s \in Stores /\ ~s.panicked /\ DOMAIN s.starting = delegations
    /\ pc \notin {"reset", "delegations"} => Sound(s, delegations)
    /\ pc = "reset" => s.slashes = {} /\ \A v \in Validators : DOMAIN s.val[v].history = {}
    /\ pc = "delegations" => AllNew(s)
    /\ pc \in {"entries", "validators", "signing"} \/ DoneForZero => Renewed(s, delegations)

\* A number of coins.
WholeCoins(a) == \E q \in Nat : a = Unit * q

PaymentInv ==
    /\ due.refused \in Nat /\ WholeCoins(due.refused)
    /\ pc = "chain" => due.refused = 0
    /\ pc \in {"chain", "commissions"} => Surplus(s) = 0
    /\ pc = "failed" => Surplus(s) \in {0, due.refused}
    /\ pc \notin {"chain", "commissions", "failed"} => Surplus(s) = due.refused
    /\ pc \in {"commissions", "rewards"} => NoneRefused(s, delegations, height, args.blocked)
    /\ pc = "commissions" => Owes(s, delegations, height, args.blocked, due)
    /\ pc = "rewards" => due.paid = WithRewards(s, delegations, height)
    /\ pc \in Parts \ {"commissions", "rewards"} \/ DoneForZero => s.paid = due.paid

StopsInv ==
    /\ pc = "failed" =>
          \/ \E d \in delegations : d[1] \in args.blocked
          \/ args.allowed # {} /\ ~(bonded \subseteq args.allowed)
    /\ pc = "refused" =>
          \/ due.refused > 0
          \/ ~args.zero /\ ~NoneRefused(s, delegations, height, args.blocked)

IInv == StakingInv /\ HeightsInv /\ StoreInv /\ PaymentInv /\ StopsInv

\* The next store of a chain.
NextStore(t, u, D, last) ==
    /\ Sound(u, D) /\ DOMAIN u.starting = D /\ Surplus(u) = Surplus(t)
    /\ StoreUpTo(u, last)

\* A block keeps the invariant if its operation leaves such a store.
LEMMA BlockKeeps ==
    ASSUME IInv, NEW D, NEW out, EndBlock(D, out), Delegated(D), out \subseteq Validators,
           NextStore(s, s', D, height + 1),
           entries' \subseteq Entries, \A e \in entries' : e.height <= height + 1
    PROVE  IInv'
<1>1. /\ pc = "chain" /\ pc' = "chain" /\ args' = args /\ due' = due
      /\ height' = height + 1 /\ maxBonded' = maxBonded
      /\ delegations' = D /\ jailed' = out /\ bonded' = TopValidators(D, out) /\ bonded' # {}
      /\ unbondingHeight' = [v \in Validators |->
                                IF v \in bonded \ bonded' THEN height + 1 ELSE unbondingHeight[v]]
      /\ startHeight' = [v \in Validators |->
                            IF v \in bonded' \ bonded THEN height + 1 ELSE startHeight[v]]
  BY DEF EndBlock
<1>2. bonded' \subseteq Validators \ out
  BY <1>1 DEF TopValidators
<1>3. height \in Nat /\ unbondingHeight \in [Validators -> Nat]
      /\ startHeight \in [Validators -> Nat] /\ maxBonded \in Nat
  BY DEF IInv, StakingInv
<1>4. StakingInv'
  BY <1>1, <1>2, <1>3 DEF StakingInv, Parts
<1>5. StakingUpTo(height)
  BY <1>1 DEF IInv, HeightsInv, Goes
<1>6. \A v \in Validators : unbondingHeight'[v] <= height + 1 /\ startHeight'[v] <= height + 1
  BY <1>1, <1>3, <1>5 DEF StakingUpTo
<1>7. StoreUpTo(s', height') /\ StakingUpTo(height)'
  BY <1>1, <1>6 DEF NextStore, StakingUpTo
<1>8. HeightsInv'
  BY <1>1, <1>7 DEF HeightsInv, Goes, DoneForZero
<1>9. StoreInv'
  BY <1>1 DEF NextStore, StoreInv, Sound, DoneForZero
<1>10. PaymentInv'
  BY <1>1 DEF IInv, PaymentInv, NextStore, Parts, DoneForZero
<1>11. StopsInv'
  BY <1>1 DEF StopsInv
<1>12. QED  BY <1>4, <1>8, <1>9, <1>10, <1>11 DEF IInv

\* What operations find.
LEMMA ChainFacts ==
    ASSUME IInv, pc = "chain"
    PROVE  /\ Sound(s, delegations) /\ Delegated(delegations) /\ delegations \subseteq Pairs
           /\ DOMAIN s.starting = delegations /\ height \in Nat /\ height + 1 \in Nat
           /\ bonded \subseteq Validators /\ jailed \subseteq Validators /\ bonded # {}
           /\ StoreUpTo(s, height) /\ StoreUpTo(s, height + 1)
           /\ entries \subseteq Entries /\ \A e \in entries : e.height <= height + 1
<1>1. Sound(s, delegations) /\ DOMAIN s.starting = delegations /\ s \in Stores
  BY DEF IInv, StoreInv
<1>2. Delegated(delegations) /\ delegations \subseteq Pairs /\ height \in Nat
      /\ bonded \subseteq Validators /\ jailed \subseteq Validators /\ bonded # {}
      /\ entries \subseteq Entries
  BY DEF IInv, StakingInv, Delegated
<1>3. StoreUpTo(s, height) /\ \A e \in entries : e.height <= height
  BY DEF IInv, HeightsInv, Goes, StakingUpTo
<1>4. \A e \in entries : e.height \in Nat
  BY <1>2 DEF Entries
<1>5. \A e \in s.slashes : e.height \in Nat
  BY <1>1 DEF Stores, Slashes
<1>6. \A d \in DOMAIN s.starting : s.starting[d].height \in Nat
  BY <1>1, StartTyped
<1>7. StoreUpTo(s, height + 1)
  BY <1>2, <1>3, <1>5, <1>6 DEF StoreUpTo
<1>8. QED  BY <1>1, <1>2, <1>3, <1>4, <1>7

-----------------------------------------------------------------------------
(* The chain keeps the invariant *)

\* Fees.
LEMMA FeesKeep ==
    ASSUME IInv, Fees
    PROVE  IInv'
<1> DEFINE D == delegations
           k == Fee * Unit
           m == Cardinality({d \in D : d[2] \in bonded})
<1>1. pc = "chain" /\ EndBlock(delegations, jailed) /\ entries' = entries
  BY DEF Fees, EndBlock
<1>2. /\ Sound(s, D) /\ Delegated(D) /\ DOMAIN s.starting = D
      /\ bonded \subseteq Validators /\ bonded # {} /\ jailed \subseteq Validators
      /\ StoreUpTo(s, height + 1) /\ entries \subseteq Entries
      /\ \A e \in entries : e.height <= height + 1
  BY <1>1, ChainFacts
<1>3. k \in Nat
  <2>1. \A a, b \in Nat : a * b \in Nat
    OBVIOUS
  <2>2. QED  BY <2>1, ExportAssumption
<1>4. s' = FeesOf(s, D, bonded, k, m)
  BY DEF Fees, FeesOf, AllShared, Sharing
<1>5. FeesPaid(s, s', D)
  <2> HIDE DEF k, m
  <2>1. m = Cardinality({d \in D : d[2] \in bonded})
    BY DEF m
  <2>2. QED  BY <1>2, <1>3, <1>4, <2>1, FeesSound
<1>6. NextStore(s, s', D, height + 1)
  BY <1>2, <1>5 DEF FeesPaid, NextStore, StoreUpTo
<1>7. QED  BY <1>1, <1>2, <1>6, BlockKeeps

\* A validator has tokens.
LEMMA TokensOf ==
    ASSUME NEW D, NEW v, Delegated(D), v \in Validators
    PROVE  /\ Tokens(D, v) \in Nat \ {0} /\ IsFiniteSet(Of(D, v))
           /\ \A d : Cardinality(Of(D \ {d}, v)) <= Tokens(D, v)
           /\ Cardinality(Of(D, v)) <= Tokens(D, v)
<1>1. D \in SUBSET Pairs
  BY DEF Delegated
<1>2. IsFiniteSet(Of(D, v)) /\ Tokens(D, v) = Cardinality(Of(D, v)) /\ Tokens(D, v) \in Nat \ {0}
  BY <1>1, TokensFacts
<1>3. \A d : Cardinality(Of(D \ {d}, v)) <= Cardinality(Of(D, v))
  <2> TAKE d
  <2>1. Of(D \ {d}, v) \in SUBSET Of(D, v)
    BY DEF Of
  <2>2. QED  BY <1>2, <2>1, FS_Subset
<1>4. QED  BY <1>2, <1>3

\* Delegate.
LEMMA DelegateKeeps ==
    ASSUME IInv, NEW d \in Pairs, Delegate(d)
    PROVE  IInv'
<1> DEFINE D == delegations
           E == delegations \cup {d}
           h == height + 1
           tokens == Tokens(D, d[2])
<1>1. pc = "chain" /\ EndBlock(E, jailed) /\ entries' = entries /\ d \notin D
      /\ s' = initializeDelegation(IncrementValidatorPeriod(s, d[2], tokens), d, h)
  BY DEF Delegate, EndBlock, Started
<1>2. /\ Sound(s, D) /\ Delegated(D) /\ DOMAIN s.starting = D /\ D \subseteq Pairs
      /\ jailed \subseteq Validators /\ h \in Nat
      /\ StoreUpTo(s, h) /\ entries \subseteq Entries
      /\ \A e \in entries : e.height <= h
  BY <1>1, ChainFacts
<1>3. tokens \in Nat \ {0} /\ Cardinality(Of(D, d[2])) <= tokens
  BY <1>2, TokensOf DEF Pairs
<1> HIDE DEF h, tokens
<1>4. Began(s, s', D, d, h, tokens)
  BY <1>1, <1>2, <1>3, BeginSound
<1>5. NextStore(s, s', E, h)
  <2>1. Sound(s', E) /\ DOMAIN s'.starting = E /\ Surplus(s') = Surplus(s)
        /\ s'.slashes = s.slashes
    BY <1>2, <1>4 DEF Began
  <2>2. ASSUME NEW e \in E
        PROVE  s'.starting[e].height <= h
    <3>1. CASE e = d
      BY <1>2, <1>4, <3>1 DEF Began
    <3>2. CASE e # d
      BY <1>2, <1>4, <3>2 DEF Began, StoreUpTo
    <3>3. QED  BY <3>1, <3>2
  <2>3. QED  BY <1>2, <2>1, <2>2 DEF NextStore, StoreUpTo
<1>6. Delegated(E)
  BY <1>2 DEF Delegated
<1>7. NextStore(s, s', E, height + 1) /\ \A e \in entries' : e.height <= height + 1
  BY <1>1, <1>2, <1>5 DEF h
<1> HIDE DEF E
<1>8. QED  BY <1>1, <1>2, <1>6, <1>7, BlockKeeps

\* A delegation ends that is not of an operator to its own validator.
EndedFor(t, u, D, d, h) ==
    /\ Sound(u, D \ {d}) /\ Surplus(u) = Surplus(t) /\ Delegated(D \ {d})
    /\ DOMAIN u.starting = D \ {d} /\ StoreUpTo(u, h)

\* A delegation that ends is paid.
LEMMA EndedSound ==
    ASSUME NEW t, NEW D, NEW d, NEW h, Sound(t, D), Delegated(D), DOMAIN t.starting = D,
           StoreUpTo(t, h), d \in D, d[1] # d[2], h \in Nat
    PROVE  EndedFor(t, withdrawDelegationRewards(t, d, Tokens(D, d[2]), h), D, d, h)
<1> DEFINE u == withdrawDelegationRewards(t, d, Tokens(D, d[2]), h)
<1>1. WithdrawnFor(t, u, D, d, Tokens(D, d[2]), CoinsIn(Payable(t, d, Tokens(D, d[2]), h)))
  BY WithdrawSound
<1> HIDE DEF u
<1>2. Delegated(D \ {d})
  BY DEF Delegated
<1>3. Sound(u, D \ {d}) /\ Surplus(u) = Surplus(t) /\ DOMAIN u.starting = D \ {d}
      /\ u.slashes = t.slashes /\ \A e \in D \ {d} : u.starting[e] = t.starting[e]
  BY <1>1 DEF WithdrawnFor
<1>4. StoreUpTo(u, h)
  BY <1>3 DEF StoreUpTo
<1>5. QED  BY <1>2, <1>3, <1>4 DEF EndedFor, u

\* Undelegate.
LEMMA UndelegateKeeps ==
    ASSUME IInv, NEW d \in Pairs, Undelegate(d)
    PROVE  IInv'
<1> DEFINE D == delegations
           E == delegations \ {d}
           h == height + 1
           new == [from |-> d, to |-> 0, height |-> height + 1]
<1>1. pc = "chain" /\ EndBlock(E, jailed) /\ entries' = entries \cup {new} /\ d \in D
      /\ d[1] # d[2] /\ s' = withdrawDelegationRewards(s, d, Tokens(D, d[2]), h)
  BY DEF Undelegate, EndBlock, Ended
<1>2. /\ Sound(s, D) /\ Delegated(D) /\ DOMAIN s.starting = D
      /\ jailed \subseteq Validators /\ h \in Nat
      /\ StoreUpTo(s, h) /\ entries \subseteq Entries
      /\ \A e \in entries : e.height <= h
  BY <1>1, ChainFacts
<1>3. new \in Entries /\ new.height <= h
  BY <1>2 DEF Entries
<1> HIDE DEF h, new
<1>4. EndedFor(s, s', D, d, h)
  BY <1>1, <1>2, EndedSound
<1>5. NextStore(s, s', E, height + 1) /\ Delegated(E)
  BY <1>4 DEF EndedFor, NextStore, h
<1>6. entries' \subseteq Entries /\ \A e \in entries' : e.height <= height + 1
  BY <1>1, <1>2, <1>3 DEF h
<1> HIDE DEF E
<1>7. QED  BY <1>1, <1>2, <1>5, <1>6, BlockKeeps

\* Redelegate.
LEMMA RedelegateKeeps ==
    ASSUME IInv, NEW d \in Pairs, NEW v \in Validators, Redelegate(d, v)
    PROVE  IInv'
<1> DEFINE D == delegations
           F == delegations \ {d}
           e == <<d[1], v>>
           E == F \cup {e}
           h == height + 1
           t == withdrawDelegationRewards(s, d, Tokens(D, d[2]), h)
           new == [from |-> d, to |-> v, height |-> height + 1]
           tokens == Tokens(D, v)
<1>1. pc = "chain" /\ EndBlock(E, jailed) /\ entries' = entries \cup {new} /\ d \in D
      /\ d[1] # d[2] /\ e \notin D
      /\ s' = initializeDelegation(IncrementValidatorPeriod(t, v, tokens), e, h)
  BY DEF Redelegate, EndBlock, Ended, Started
<1>2. /\ Sound(s, D) /\ Delegated(D) /\ DOMAIN s.starting = D /\ D \subseteq Pairs
      /\ jailed \subseteq Validators /\ h \in Nat
      /\ StoreUpTo(s, h) /\ entries \subseteq Entries
      /\ \A x \in entries : x.height <= h
  BY <1>1, ChainFacts
<1>3. new \in Entries /\ new.height <= h
  BY <1>2, ExportAssumption DEF Entries
<1>4. tokens \in Nat \ {0} /\ Cardinality(Of(F, v)) <= tokens
  BY <1>2, TokensOf
<1>5. e \in Pairs /\ e[2] = v /\ F \subseteq Pairs /\ e \notin F
  BY <1>1, <1>2 DEF Pairs
<1> HIDE DEF h, new, tokens
<1>6. EndedFor(s, t, D, d, h)
  BY <1>1, <1>2, EndedSound
<1> HIDE DEF t
<1>7. Sound(t, F) /\ Surplus(t) = Surplus(s) /\ Delegated(F) /\ DOMAIN t.starting = F
      /\ StoreUpTo(t, h)
  BY <1>6 DEF EndedFor
<1> HIDE DEF F, e
<1>8. Began(t, s', F, e, h, tokens)
  <2>1. Cardinality(Of(F, e[2])) <= tokens
    BY <1>4, <1>5
  <2>2. s' = initializeDelegation(IncrementValidatorPeriod(t, e[2], tokens), e, h)
    BY <1>1, <1>5
  <2>3. QED  BY <1>2, <1>4, <1>5, <1>7, <2>1, <2>2, BeginSound
<1>9. NextStore(s, s', E, h)
  <2>1. Sound(s', E) /\ DOMAIN s'.starting = E /\ Surplus(s') = Surplus(s)
        /\ s'.slashes = t.slashes
    BY <1>7, <1>8 DEF Began
  <2>2. ASSUME NEW x \in E
        PROVE  s'.starting[x].height <= h
    <3>1. CASE x = e
      BY <1>2, <1>8, <3>1 DEF Began
    <3>2. CASE x # e
      BY <1>7, <1>8, <3>2 DEF Began, StoreUpTo
    <3>3. QED  BY <3>1, <3>2
  <2>3. QED  BY <1>7, <2>1, <2>2 DEF NextStore, StoreUpTo
<1>10. Delegated(E)
  BY <1>5, <1>7 DEF Delegated
<1>11. NextStore(s, s', E, height + 1)
  BY <1>9 DEF h
<1>12. entries' \subseteq Entries /\ \A x \in entries' : x.height <= height + 1
  BY <1>1, <1>2, <1>3 DEF h
<1> HIDE DEF E
<1>13. QED  BY <1>1, <1>2, <1>10, <1>11, <1>12, BlockKeeps

\* Slash.
LEMMA SlashKeeps ==
    ASSUME IInv, NEW v \in Validators, Slash(v)
    PROVE  IInv'
<1> DEFINE D == delegations
           h == height + 1
           tokens == Tokens(D, v)
           out == jailed \cup {v}
           new == [val |-> v, height |-> h, period |-> s.val[v].period]
<1>1. pc = "chain" /\ EndBlock(D, out) /\ entries' = entries
  BY DEF Slash, EndBlock
<1>2. /\ Sound(s, D) /\ Delegated(D) /\ DOMAIN s.starting = D /\ D \subseteq Pairs
      /\ out \subseteq Validators /\ h \in Nat
      /\ StoreUpTo(s, h) /\ entries \subseteq Entries
      /\ \A e \in entries : e.height <= h
  BY <1>1, ChainFacts
<1>3. tokens \in Nat \ {0} /\ Cardinality(Of(D, v)) <= tokens
  BY <1>2, TokensOf
<1>4. new.height = h
  OBVIOUS
<1>5. Slashed(s, s', D, v, h)
  <2> DEFINE t == IncrementValidatorPeriod(s, v, tokens)
             u == [incrementReferenceCount(t, v, t.val[v].period - 1) EXCEPT
                      !.slashes = @ \cup {[val |-> v, height |-> h,
                                           period |-> t.val[v].period - 1]}]
  <2>1. s' = u
    BY DEF Slash
  <2>2. Slashed(s, u, D, v, h)
    <3> HIDE DEF h, tokens
    <3>1. QED  BY <1>2, <1>3, SlashSound
  <2> HIDE DEF u
  <2>3. QED  BY <2>1, <2>2
<1>6. NextStore(s, s', D, h)
  <2>1. Sound(s', D) /\ Surplus(s') = Surplus(s) /\ s'.starting = s.starting
        /\ s'.slashes = s.slashes \cup {new}
    BY <1>5 DEF Slashed
  <2> HIDE DEF new, h
  <2>2. \A e \in s'.slashes : e.height <= h
    BY <1>2, <1>4, <2>1 DEF StoreUpTo
  <2>3. QED  BY <1>2, <2>1, <2>2 DEF NextStore, StoreUpTo
<1> HIDE DEF out
<1>7. QED  BY <1>1, <1>2, <1>6, BlockKeeps

\* Unjail.
LEMMA UnjailKeeps ==
    ASSUME IInv, NEW v \in Validators, Unjail(v)
    PROVE  IInv'
<1>1. pc = "chain" /\ EndBlock(delegations, jailed \ {v}) /\ entries' = entries /\ s' = s
  BY DEF Unjail, EndBlock
<1>2. /\ Sound(s, delegations) /\ Delegated(delegations) /\ DOMAIN s.starting = delegations
      /\ jailed \ {v} \subseteq Validators
      /\ StoreUpTo(s, height + 1) /\ entries \subseteq Entries
      /\ \A e \in entries : e.height <= height + 1
  BY <1>1, ChainFacts
<1>3. NextStore(s, s', delegations, height + 1)
  BY <1>1, <1>2 DEF NextStore
<1>4. QED  BY <1>1, <1>2, <1>3, BlockKeeps

\* Every block of the chain.
LEMMA ChainKeeps ==
    ASSUME IInv, Chain
    PROVE  IInv'
<1>1. CASE Fees
  BY <1>1, FeesKeep
<1>2. CASE \E d \in Pairs : Delegate(d) \/ Undelegate(d) \/ \E v \in Validators : Redelegate(d, v)
  BY <1>2, DelegateKeeps, UndelegateKeeps, RedelegateKeeps
<1>3. CASE \E v \in Validators : Slash(v) \/ Unjail(v)
  BY <1>3, SlashKeeps, UnjailKeeps
<1>4. QED  BY <1>1, <1>2, <1>3 DEF Chain

-----------------------------------------------------------------------------
(* The export keeps the invariant *)

\* Coins are whole, and so are sums of them.
LEMMA CoinsWhole ==
    ASSUME NEW a \in Nat
    PROVE  WholeCoins(CoinsIn(a))
<1>1. Unit \in Nat \ {0}
  BY ExportAssumption
<1>2. a \div Unit \in Nat /\ a = Unit * (a \div Unit) + (a % Unit) /\ a % Unit \in Nat
      /\ Unit * (a \div Unit) \in Nat
  BY <1>1
<1>3. a - (a % Unit) = Unit * (a \div Unit)
  BY <1>2
<1>4. QED  BY <1>2, <1>3 DEF WholeCoins, CoinsIn

LEMMA SumWhole ==
    ASSUME NEW S, IsFiniteSet(S), NEW f, \A x \in S : f[x] \in Nat /\ WholeCoins(f[x])
    PROVE  WholeCoins(SumFunctionOnSet(f, S))
<1> DEFINE F(U) == SumFunctionOnSet(f, U)
           P == {U \in SUBSET S : WholeCoins(F(U))}
<1>1. ASSUME NEW U \in SUBSET S, NEW x \in U
      PROVE  F(U) = f[x] + F(U \ {x})
  <2>1. IsFiniteSet(U) /\ \A y \in U : f[y] \in Int
    BY FS_Subset
  <2>2. QED  BY <2>1, SumTake
<1>2. F({}) = 0
  BY SumEmpty
<1> HIDE DEF F
<1>3. {} \in P
  <2>1. 0 \in Nat /\ 0 = Unit * 0
    BY ExportAssumption
  <2>2. QED  BY <1>2, <2>1 DEF WholeCoins
<1>4. ASSUME NEW U \in SUBSET S, U # {}
      PROVE  \E x \in U : U \ {x} \in P => U \in P
  <2>1. PICK x \in U : TRUE
    BY <1>4
  <2>2. ASSUME U \ {x} \in P
        PROVE  U \in P
    <3>1. PICK a \in Nat : f[x] = Unit * a
      BY <2>1 DEF WholeCoins
    <3>2. PICK b \in Nat : F(U \ {x}) = Unit * b
      BY <2>2 DEF WholeCoins
    <3>3. Unit * a + Unit * b = Unit * (a + b) /\ a + b \in Nat
      BY ExportAssumption
    <3>4. F(U) = Unit * (a + b)
      BY <1>1, <2>1, <3>1, <3>2, <3>3
    <3>5. QED  BY <3>3, <3>4 DEF WholeCoins
  <2>3. QED  BY <2>1, <2>2
<1>5. S \in P
  <2> HIDE DEF P
  <2>1. QED  BY <1>3, <1>4, FiniteSteps
<1>6. QED  BY <1>5 DEF F

\* What is refused is a number of coins.
LEMMA RefusedWhole ==
    ASSUME NEW t, NEW D, NEW h, NEW b, NEW owed, t \in Stores, Owes(t, D, h, b, owed)
    PROVE  owed.refused \in Nat /\ WholeCoins(owed.refused)
<1> DEFINE V == Validators \cap b
           C == CoinsOf(t)
<1>1. IsFiniteSet(V)
  BY PairsFinite, FS_Subset
<1>2. \A v \in Validators : C[v] \in Nat /\ WholeCoins(C[v])
  <2> TAKE v \in Validators
  <2>1. C[v] \in Nat /\ C[v] = CoinsIn(t.val[v].commission)
    BY CoinsOfTyped
  <2>2. t.val[v].commission \in Nat
    BY BooksFacts
  <2> HIDE DEF C
  <2>3. QED  BY <2>1, <2>2, CoinsWhole
<1>3. \A v \in V : C[v] \in Nat /\ WholeCoins(C[v])
  BY <1>2
<1> HIDE DEF V, C
<1>4. SumFunctionOnSet(C, V) \in Nat /\ WholeCoins(SumFunctionOnSet(C, V))
  BY <1>1, <1>3, SumNat, SumWhole
<1>5. QED  BY <1>4 DEF Owes, V, C

\* The beginning of an export.
LEMMA ExportKeeps ==
    ASSUME IInv, NEW app, NEW zero \in BOOLEAN, NEW allowed, NEW blocked,
           Export(app, zero, allowed, blocked)
    PROVE  IInv'
<1>1. /\ pc = "chain" /\ args'.zero = zero /\ args'.blocked = blocked
      /\ due' = (IF zero THEN Due(blocked) ELSE NothingDue)
      /\ zero => pc' = IF AssertInvariants(blocked) THEN "commissions" ELSE "failed"
      /\ ~zero => pc' = "done"
      /\ s' = s /\ height' = height /\ maxBonded' = maxBonded /\ delegations' = delegations
      /\ bonded' = bonded /\ jailed' = jailed /\ entries' = entries
      /\ unbondingHeight' = unbondingHeight /\ startHeight' = startHeight
  BY DEF Export, staking
<1>2. Sound(s, delegations) /\ Delegated(delegations) /\ height \in Nat /\ s \in Stores
  BY <1>1, ChainFacts DEF Sound
<1>3. zero => Owes(s, delegations, height, blocked, due')
  BY <1>1, <1>2, DueOwes
<1>4. due'.refused \in Nat /\ WholeCoins(due'.refused)
  <2>1. CASE zero
    BY <1>2, <1>3, <2>1, RefusedWhole
  <2>2. CASE ~zero
    <3>1. due'.refused = 0
      BY <1>1, <2>2 DEF NothingDue
    <3>2. 0 \in Nat /\ 0 = Unit * 0
      BY ExportAssumption
    <3>3. QED  BY <3>1, <3>2 DEF WholeCoins
  <2>3. QED  BY <2>1, <2>2
<1>5. AssertInvariants(blocked) <=> NoneRefused(s, delegations, height, blocked)
  BY DEF AssertInvariants, NoneRefused
<1>6. StakingInv'
  BY <1>1 DEF IInv, StakingInv, Parts
<1>7. HeightsInv'
  <2>1. StoreUpTo(s, height) /\ StakingUpTo(height)
    BY <1>1 DEF IInv, HeightsInv, Goes
  <2>2. StoreUpTo(s', height') /\ StakingUpTo(height)'
    BY <1>1, <2>1 DEF StakingUpTo
  <2>3. ~DoneForZero'
    BY <1>1 DEF DoneForZero
  <2>4. QED  BY <1>1, <2>2, <2>3 DEF HeightsInv
<1>8. StoreInv'
  BY <1>1 DEF IInv, StoreInv, DoneForZero
<1>9. PaymentInv'
  <2>1. Surplus(s') = 0
    BY <1>1 DEF IInv, PaymentInv
  <2>2. ~zero => due'.refused = 0
    BY <1>1 DEF NothingDue
  <2>3. QED  BY <1>1, <1>3, <1>4, <1>5, <2>1, <2>2 DEF PaymentInv, DoneForZero, Parts
<1>10. StopsInv'
  <2>1. pc' = "failed" => \E d \in delegations : d[1] \in blocked
    BY <1>1 DEF AssertInvariants, Refused
  <2>2. QED  BY <1>1, <2>1 DEF StopsInv
<1>11. QED  BY <1>6, <1>7, <1>8, <1>9, <1>10 DEF IInv

\* The parts that leave staking alone.
LEMMA PartStaking ==
    ASSUME IInv, NEW from, NEW to, NEW t, Part(from, to, t), ~t.panicked,
           from \in {"commissions", "rewards", "clear", "reset", "delegations"},
           to \in {"rewards", "clear", "reset", "delegations", "entries"}
    PROVE  /\ pc = from /\ pc' = to /\ s' = t /\ args' = args /\ due' = due
           /\ delegations' = delegations /\ height' = height
           /\ StakingInv' /\ HeightsInv' /\ StopsInv' /\ due'.refused \in Nat
           /\ WholeCoins(due'.refused)
           /\ ~DoneForZero /\ ~DoneForZero' /\ Delegated(delegations) /\ height \in Nat
           /\ s \in Stores /\ ~s.panicked /\ DOMAIN s.starting = delegations
<1>1. /\ pc = from /\ pc' = to /\ s' = t /\ args' = args /\ due' = due
      /\ delegations' = delegations /\ height' = height /\ maxBonded' = maxBonded
      /\ bonded' = bonded /\ jailed' = jailed /\ entries' = entries
      /\ unbondingHeight' = unbondingHeight /\ startHeight' = startHeight
  BY DEF Part, staking
<1>2. ~DoneForZero /\ ~DoneForZero' /\ ~Goes'
  BY <1>1 DEF DoneForZero, Goes
<1>3. StakingInv'
  BY <1>1 DEF IInv, StakingInv, Parts
<1>4. HeightsInv'
  BY <1>1, <1>2 DEF HeightsInv
<1>5. StopsInv'
  BY <1>1 DEF StopsInv
<1>6. QED  BY <1>1, <1>2, <1>3, <1>4, <1>5 DEF IInv, StakingInv, StoreInv, PaymentInv

\* AllCommissions.
LEMMA CommissionsKeep ==
    ASSUME IInv, Part("commissions", "rewards", AllCommissions)
    PROVE  IInv'
<1>1. pc = "commissions"
  BY DEF Part
<1>2. Sound(s, delegations) /\ Delegated(delegations) /\ height \in Nat
      /\ Owes(s, delegations, height, args.blocked, due) /\ Surplus(s) = 0
      /\ NoneRefused(s, delegations, height, args.blocked)
      /\ DOMAIN s.starting = delegations /\ due.refused \in Nat
  BY <1>1 DEF IInv, StakingInv, StoreInv, PaymentInv
<1> DEFINE u == AllCommissions
<1>3. Commissioned(s, u, delegations, args.blocked, Validators)
  <2>1. u = CommissionsOf(s, args.blocked)
    BY DEF AllCommissions, CommissionsOf
  <2>2. delegations \subseteq Pairs
    BY <1>2 DEF Delegated
  <2> HIDE DEF u
  <2>3. QED  BY <1>2, <2>1, <2>2, CommissionsFold
<1> HIDE DEF u
<1>4. CommissionsPaid(s, u, delegations, height, args.blocked, due)
  BY <1>2, <1>3, CommissionsPart
<1>5. /\ Sound(u, delegations) /\ DOMAIN u.starting = delegations
      /\ Surplus(u) = due.refused
      /\ NoneRefused(u, delegations, height, args.blocked)
      /\ due.paid = WithRewards(u, delegations, height)
  BY <1>2, <1>4 DEF CommissionsPaid
<1>6. ~u.panicked /\ u \in Stores
  BY <1>5 DEF Sound
<1>7. /\ pc' = "rewards" /\ s' = u /\ args' = args /\ due' = due
      /\ delegations' = delegations /\ height' = height
      /\ StakingInv' /\ HeightsInv' /\ StopsInv' /\ ~DoneForZero'
      /\ WholeCoins(due'.refused)
  BY <1>6, PartStaking DEF u
<1>8. StoreInv'
  BY <1>5, <1>6, <1>7 DEF StoreInv
<1>9. PaymentInv'
  BY <1>2, <1>5, <1>7 DEF PaymentInv, Parts
<1>10. QED  BY <1>7, <1>8, <1>9 DEF IInv

\* AllRewards.
LEMMA RewardsKeep ==
    ASSUME IInv, Part("rewards", "clear", AllRewards)
    PROVE  IInv'
<1>1. pc = "rewards"
  BY DEF Part
<1>2. Sound(s, delegations) /\ Delegated(delegations) /\ height \in Nat
      /\ Surplus(s) = due.refused
      /\ NoneRefused(s, delegations, height, args.blocked)
      /\ due.paid = WithRewards(s, delegations, height)
      /\ DOMAIN s.starting = delegations /\ due.refused \in Nat
  BY <1>1 DEF IInv, StakingInv, StoreInv, PaymentInv
<1> DEFINE u == AllRewards
<1>3. PaidThose(s, u, delegations, height, delegations)
  <2>1. u = RewardsOf(s, delegations, height, args.blocked, args.app)
    BY DEF AllRewards, RewardsOf, WasmdWithdraws, SimdWithdraws
  <2> HIDE DEF u
  <2>2. QED  BY <1>2, <2>1, RewardsFold
<1> HIDE DEF u
<1>4. /\ Sound(u, delegations) /\ DOMAIN u.starting = delegations
      /\ Surplus(u) = due.refused /\ u.paid = due.paid
  BY <1>2, <1>3, RewardsPart DEF PaidThose
<1>5. ~u.panicked /\ u \in Stores
  BY <1>4 DEF Sound
<1>6. /\ pc' = "clear" /\ s' = u /\ args' = args /\ due' = due
      /\ delegations' = delegations /\ height' = height
      /\ StakingInv' /\ HeightsInv' /\ StopsInv' /\ ~DoneForZero'
      /\ WholeCoins(due'.refused)
  BY <1>5, PartStaking DEF u
<1>7. StoreInv'
  BY <1>4, <1>5, <1>6 DEF StoreInv
<1>8. PaymentInv'
  BY <1>2, <1>4, <1>6 DEF PaymentInv, Parts
<1>9. QED  BY <1>6, <1>7, <1>8 DEF IInv

\* Cleared.
LEMMA ClearKeeps ==
    ASSUME IInv, Part("clear", "reset", Cleared)
    PROVE  IInv'
<1>1. pc = "clear"
  BY DEF Part
<1>2. s \in Stores /\ ~s.panicked /\ DOMAIN s.starting = delegations
      /\ Surplus(s) = due.refused /\ due.refused \in Nat /\ s.paid = due.paid
  BY <1>1 DEF IInv, StoreInv, PaymentInv, Parts
<1> DEFINE u == Cleared
<1>3. IsCleared(s, u)
  <2>1. u = ClearedOf(s)
    BY DEF Cleared, ClearedOf
  <2> HIDE DEF u
  <2>2. QED  BY <1>2, <2>1, ClearedPart
<1> HIDE DEF u
<1>4. ~u.panicked
  BY <1>2, <1>3 DEF IsCleared
<1>5. /\ pc' = "reset" /\ s' = u /\ args' = args /\ due' = due
      /\ delegations' = delegations /\ height' = height
      /\ StakingInv' /\ HeightsInv' /\ StopsInv' /\ ~DoneForZero'
      /\ WholeCoins(due'.refused)
  BY <1>4, PartStaking DEF u
<1>6. StoreInv'
  BY <1>2, <1>3, <1>5 DEF StoreInv, IsCleared
<1>7. PaymentInv'
  BY <1>2, <1>3, <1>5 DEF PaymentInv, Parts, IsCleared
<1>8. QED  BY <1>5, <1>6, <1>7 DEF IInv

\* ResetValidators.
LEMMA ResetKeeps ==
    ASSUME IInv, Part("reset", "delegations", ResetValidators)
    PROVE  IInv'
<1>1. pc = "reset"
  BY DEF Part
<1>2. s \in Stores /\ ~s.panicked /\ DOMAIN s.starting = delegations /\ s.slashes = {}
      /\ Surplus(s) = due.refused /\ due.refused \in Nat /\ s.paid = due.paid
  BY <1>1 DEF IInv, StoreInv, PaymentInv, Parts
<1> DEFINE u == ResetValidators
<1>3. IsReset(s, u)
  <2>1. u = ResetOf(s)
    BY DEF ResetValidators, ResetOf
  <2> HIDE DEF u
  <2>2. QED  BY <1>2, <2>1, ResetPart
<1> HIDE DEF u
<1>4. ~u.panicked
  BY <1>2, <1>3 DEF IsReset
<1>5. /\ pc' = "delegations" /\ s' = u /\ args' = args /\ due' = due
      /\ delegations' = delegations /\ height' = height
      /\ StakingInv' /\ HeightsInv' /\ StopsInv' /\ ~DoneForZero'
      /\ WholeCoins(due'.refused)
  BY <1>4, PartStaking DEF u
<1>6. StoreInv'
  BY <1>2, <1>3, <1>5 DEF StoreInv, IsReset, AllNew
<1>7. PaymentInv'
  BY <1>2, <1>3, <1>5 DEF PaymentInv, Parts, IsReset
<1>8. QED  BY <1>5, <1>6, <1>7 DEF IInv

\* ResetDelegations.
LEMMA DelegationsKeep ==
    ASSUME IInv, Part("delegations", "entries", ResetDelegations)
    PROVE  IInv'
<1>1. pc = "delegations"
  BY DEF Part
<1>2. s \in Stores /\ ~s.panicked /\ DOMAIN s.starting = delegations /\ AllNew(s)
      /\ Surplus(s) = due.refused /\ due.refused \in Nat /\ s.paid = due.paid
      /\ Delegated(delegations)
  BY <1>1 DEF IInv, StoreInv, PaymentInv, Parts, StakingInv
<1> DEFINE u == ResetDelegations
<1>3. ResetThose(s, u, delegations)
  <2>1. u = ResetAll(s, delegations)
    BY DEF ResetDelegations, ResetAll, ResetHeight
  <2> HIDE DEF u
  <2>2. QED  BY <1>2, <2>1, ResetFold
<1> HIDE DEF u
<1>4. /\ Sound(u, delegations) /\ DOMAIN u.starting = delegations
      /\ Surplus(u) = due.refused /\ u.paid = due.paid /\ Renewed(u, delegations)
  BY <1>2, <1>3 DEF ResetThose, Renewed
<1>5. ~u.panicked /\ u \in Stores
  BY <1>4 DEF Sound
<1>6. /\ pc' = "entries" /\ s' = u /\ args' = args /\ due' = due
      /\ delegations' = delegations /\ height' = height
      /\ StakingInv' /\ HeightsInv' /\ StopsInv' /\ ~DoneForZero'
      /\ WholeCoins(due'.refused)
  BY <1>5, PartStaking DEF u
<1>7. StoreInv'
  BY <1>4, <1>5, <1>6 DEF StoreInv
<1>8. PaymentInv'
  BY <1>2, <1>4, <1>6 DEF PaymentInv, Parts
<1>9. QED  BY <1>6, <1>7, <1>8 DEF IInv

\* ResetEntries.
LEMMA EntriesKeep ==
    ASSUME IInv, ResetEntries
    PROVE  IInv'
<1>1. /\ pc = "entries" /\ pc' = "validators"
      /\ entries' = {[e EXCEPT !.height = 0] : e \in entries}
      /\ height' = height /\ maxBonded' = maxBonded /\ delegations' = delegations
      /\ bonded' = bonded /\ jailed' = jailed /\ unbondingHeight' = unbondingHeight
      /\ startHeight' = startHeight /\ s' = s /\ args' = args /\ due' = due
  BY DEF ResetEntries
<1>2. ~DoneForZero' /\ ~Goes'
  BY <1>1 DEF DoneForZero, Goes
<1>3. entries \subseteq Entries
  BY DEF IInv, StakingInv
<1>4. \A e \in entries' : e \in Entries /\ e.height = 0
  <2>1. \A e \in Entries : [e EXCEPT !.height = 0] \in Entries /\ [e EXCEPT !.height = 0].height = 0
    BY DEF Entries
  <2>2. QED  BY <1>1, <1>3, <2>1
<1>5. StakingInv'
  BY <1>1, <1>4 DEF IInv, StakingInv, Parts
<1>6. HeightsInv'
  BY <1>1, <1>2, <1>4 DEF HeightsInv
<1>7. StoreInv'
  BY <1>1, <1>2 DEF IInv, StoreInv
<1>8. PaymentInv'
  BY <1>1, <1>2 DEF IInv, PaymentInv, Parts
<1>9. StopsInv'
  BY <1>1 DEF StopsInv
<1>10. QED  BY <1>5, <1>6, <1>7, <1>8, <1>9 DEF IInv

\* ResetBondedValidators.
LEMMA BondedKeep ==
    ASSUME IInv, ResetBondedValidators
    PROVE  IInv'
<1>1. /\ pc = "validators" /\ unbondingHeight' = [v \in Validators |-> 0]
      /\ jailed' = jailed \cup NowJailed
      /\ pc' = (IF bonded \cap jailed' = {} THEN "signing" ELSE "failed")
      /\ height' = height /\ maxBonded' = maxBonded /\ delegations' = delegations
      /\ bonded' = bonded /\ entries' = entries
      /\ startHeight' = startHeight /\ s' = s /\ args' = args /\ due' = due
  BY DEF ResetBondedValidators
<1>2. ~DoneForZero' /\ ~Goes' /\ ~DoneForZero
  BY <1>1 DEF DoneForZero, Goes
<1>3. NowJailed = IF args.allowed # {} THEN Validators \ args.allowed ELSE {}
  BY DEF NowJailed
<1>4. bonded \subseteq Validators /\ bonded \cap jailed = {} /\ jailed \subseteq Validators
  BY <1>1 DEF IInv, StakingInv
<1>5. CASE bonded \cap jailed' = {}
  <2>1. pc' = "signing"
    BY <1>1, <1>5
  <2>2. args.allowed = {} \/ bonded \subseteq args.allowed
    BY <1>1, <1>3, <1>4, <1>5
  <2>3. StakingInv'
    BY <1>1, <1>3, <1>5, <2>1 DEF IInv, StakingInv, Parts
  <2>4. HeightsInv'
    BY <1>1, <1>2, <2>1, <2>2 DEF IInv, HeightsInv
  <2>5. StoreInv'
    BY <1>1, <1>2, <2>1 DEF IInv, StoreInv
  <2>6. PaymentInv'
    BY <1>1, <1>2, <2>1 DEF IInv, PaymentInv, Parts
  <2>7. StopsInv'
    BY <2>1 DEF StopsInv
  <2>8. QED  BY <2>3, <2>4, <2>5, <2>6, <2>7 DEF IInv
<1>6. CASE bonded \cap jailed' # {}
  <2>1. pc' = "failed"
    BY <1>1, <1>6
  <2>2. args.allowed # {} /\ ~(bonded \subseteq args.allowed)
    BY <1>1, <1>3, <1>4, <1>6
  <2>3. StakingInv'
    BY <1>1, <1>3, <2>1 DEF IInv, StakingInv, Parts
  <2>4. HeightsInv'
    BY <1>2, <2>1 DEF HeightsInv
  <2>5. StoreInv'
    BY <1>1, <1>2, <2>1 DEF IInv, StoreInv
  <2>6. PaymentInv'
    BY <1>1, <1>2, <2>1 DEF IInv, PaymentInv, Parts
  <2>7. StopsInv'
    BY <1>1, <2>1, <2>2 DEF StopsInv
  <2>8. QED  BY <2>3, <2>4, <2>5, <2>6, <2>7 DEF IInv
<1>7. QED  BY <1>5, <1>6

\* ResetSigningInfos.
LEMMA SigningKeep ==
    ASSUME IInv, ResetSigningInfos
    PROVE  IInv'
<1>1. /\ pc = "signing" /\ startHeight' = [v \in Validators |-> 0] /\ pc' = "done"
      /\ height' = height /\ maxBonded' = maxBonded /\ delegations' = delegations
      /\ bonded' = bonded /\ jailed' = jailed /\ unbondingHeight' = unbondingHeight
      /\ entries' = entries /\ s' = s /\ args' = args /\ due' = due
  BY DEF ResetSigningInfos
<1>2. args.zero /\ DoneForZero' /\ ~Goes'
  BY <1>1 DEF IInv, StakingInv, Parts, DoneForZero, Goes
<1>3. StakingInv'
  BY <1>1 DEF IInv, StakingInv, Parts
<1>4. HeightsInv'
  BY <1>1, <1>2 DEF IInv, HeightsInv
<1>5. StoreInv'
  BY <1>1 DEF IInv, StoreInv
<1>6. PaymentInv'
  BY <1>1 DEF IInv, PaymentInv, Parts
<1>7. StopsInv'
  BY <1>1 DEF StopsInv
<1>8. QED  BY <1>3, <1>4, <1>5, <1>6, <1>7 DEF IInv

\* All of ExportAppStateAndValidators.
LEMMA ExportStepKeeps ==
    ASSUME IInv, ExportAppStateAndValidators
    PROVE  IInv'
<1>1. CASE \E app \in {"wasmd", "simd"}, lists \in Lists : Export(app, TRUE, lists[1], lists[2])
  BY <1>1, ExportKeeps
<1>2. CASE \E blocked \in Blockable : Export("simd", FALSE, {}, blocked)
  BY <1>2, ExportKeeps
<1>3. CASE prepForZeroHeightGenesis
  BY <1>3, CommissionsKeep, RewardsKeep, ClearKeeps, ResetKeeps, DelegationsKeep,
     EntriesKeep, BondedKeep, SigningKeep DEF prepForZeroHeightGenesis
<1>4. QED  BY <1>1, <1>2, <1>3 DEF ExportAppStateAndValidators

-----------------------------------------------------------------------------
(* A new chain *)

\* What is compared by x/distribution is the same when nothing is missing, and
\* only then.
LEMMA CoinsCompared ==
    ASSUME NEW a \in Nat, NEW r \in Nat, WholeCoins(r), CoinsIn(a + r) = CoinsIn(a)
    PROVE  r = 0
<1>1. PICK q \in Nat : r = Unit * q
  BY DEF WholeCoins
<1>2. Unit \in Nat \ {0}
  BY ExportAssumption
<1> DEFINE x == (a + r) % Unit
           y == a % Unit
<1>3. x \in 0..(Unit - 1) /\ y \in 0..(Unit - 1)
  BY <1>2
<1>4. (a + r) - x = a - y
  BY DEF CoinsIn
<1> HIDE DEF x, y
<1>5. r < Unit
  BY <1>2, <1>3, <1>4
<1>6. ASSUME q >= 1
      PROVE  FALSE
  <2>1. Unit * q = Unit + Unit * (q - 1) /\ q - 1 \in Nat
    BY <1>2, <1>6
  <2>2. Unit * (q - 1) >= 0
    BY <1>2, <2>1
  <2>3. QED  BY <1>1, <1>2, <1>5, <2>1, <2>2
<1>7. QED  BY <1>1, <1>2, <1>6

\* What x/distribution compares tells whether a commission was refused.
LEMMA BalancesCompared ==
    ASSUME IInv, pc = "done"
    PROVE  DistributionBalances <=> due.refused = 0
<1> DEFINE a == TotalOutstanding(s) + s.pool
           r == due.refused
<1>1. s \in Stores /\ r \in Nat /\ WholeCoins(r) /\ Surplus(s) = r
  BY DEF IInv, StoreInv, PaymentInv
<1>2. a \in Nat /\ s.balance = a + r
  <2>1. TotalOutstanding(s) \in Nat /\ s.pool \in Nat /\ s.balance \in Int
    BY <1>1, TotalFacts DEF Stores
  <2>2. QED  BY <1>1, <2>1 DEF Surplus
<1>3. DistributionBalances <=> CoinsIn(a + r) = CoinsIn(a)
  BY <1>2 DEF DistributionBalances
<1> HIDE DEF a, r
<1>4. r = 0 => a + r = a
  BY <1>1, <1>2
<1>5. DistributionBalances <=> r = 0
  BY <1>1, <1>2, <1>3, <1>4, CoinsCompared
<1>6. QED  BY <1>5 DEF r

\* After an export for height zero there is nothing to be paid.
LEMMA NothingRefused ==
    ASSUME NEW t, NEW D, NEW h, NEW b, Sound(t, D), Delegated(D), h \in Nat, Renewed(t, D)
    PROVE  NoneRefused(t, D, h, b)
<1> SUFFICES ASSUME NEW d \in D
             PROVE  ~Refused(t, d, Tokens(D, d[2]), h, b)
  BY DEF NoneRefused
<1>1. d[2] \in Validators
  BY DEF Delegated, Pairs
<1>2. Tokens(D, d[2]) \in Nat \ {0}
  BY <1>1, TokensOf
<1>3. t.val[d[2]].rewards = 0 /\ Ratio(t, d[2], LastPeriod(t, d[2])) = 0 /\ t \in Stores
  BY <1>1 DEF Renewed, Sound
<1>4. Ratio(t, d[2], t.starting[d].period) \in Nat
  BY <1>1, <1>3, BooksFacts
<1>5. 0 \div Tokens(D, d[2]) = 0
  BY <1>2
<1>6. Worth(t, D, d) \in Nat /\ Reward(t, D, d, h) \in Nat
      /\ Reward(t, D, d, h) = IF t.starting[d].height = h THEN 0 ELSE Worth(t, D, d)
  BY RewardIs
<1>7. Worth(t, D, d) = 0 - Ratio(t, d[2], t.starting[d].period)
  BY <1>3, <1>4, <1>5 DEF Worth, Gain
<1>8. Reward(t, D, d, h) = 0
  BY <1>4, <1>6, <1>7
<1>9. CoinsIn(Reward(t, D, d, h)) = 0
  BY <1>8, CoinsFacts
<1>10. QED  BY <1>9 DEF Refused, Reward

-----------------------------------------------------------------------------
(* The genesis order *)

Names ==
    {"capability", "auth", "bank", "distribution", "staking", "slashing", "gov", "mint",
     "crisis", "genutil", "evidence", "authz", "feegrant", "nft", "group", "params",
     "upgrade", "vesting", "consensus", "transfer", "ibc", "interchainaccounts", "feeibc",
     "wasm"}

\* The orders as lists of names.
LEMMA SimdOrderTyped == simdGenesisOrder \in Seq(Names)
<1> DEFINE S == Names
<1>1. /\ "capability" \in S /\ "auth" \in S /\ "bank" \in S /\ "distribution" \in S
      /\ "staking" \in S /\ "slashing" \in S /\ "gov" \in S /\ "mint" \in S /\ "crisis" \in S
      /\ "genutil" \in S /\ "evidence" \in S /\ "authz" \in S /\ "feegrant" \in S
      /\ "nft" \in S /\ "group" \in S /\ "params" \in S /\ "upgrade" \in S
      /\ "vesting" \in S /\ "consensus" \in S
  BY DEF Names
<1> HIDE DEF S
<1>2. simdGenesisOrder \in Seq(S)
  BY <1>1 DEF simdGenesisOrder
<1>3. QED  BY <1>2 DEF S

LEMMA SimdOrderIs ==
    /\ Len(simdGenesisOrder) = 19
    /\ simdGenesisOrder[1] = "capability" /\ simdGenesisOrder[2] = "auth"
    /\ simdGenesisOrder[3] = "bank" /\ simdGenesisOrder[4] = "distribution"
    /\ simdGenesisOrder[5] = "staking" /\ simdGenesisOrder[6] = "slashing"
    /\ simdGenesisOrder[7] = "gov" /\ simdGenesisOrder[8] = "mint"
    /\ simdGenesisOrder[9] = "crisis" /\ simdGenesisOrder[10] = "genutil"
    /\ simdGenesisOrder[11] = "evidence" /\ simdGenesisOrder[12] = "authz"
    /\ simdGenesisOrder[13] = "feegrant" /\ simdGenesisOrder[14] = "nft"
    /\ simdGenesisOrder[15] = "group" /\ simdGenesisOrder[16] = "params"
    /\ simdGenesisOrder[17] = "upgrade" /\ simdGenesisOrder[18] = "vesting"
    /\ simdGenesisOrder[19] = "consensus"
  BY DEF simdGenesisOrder

\* wasmd has five modules more.
LEMMA WasmdOrderIs ==
    /\ Len(wasmdGenesisOrder) = 24 /\ DOMAIN wasmdGenesisOrder = 1..24
    /\ \A i \in 1..19 : wasmdGenesisOrder[i] = simdGenesisOrder[i]
    /\ wasmdGenesisOrder[20] = "transfer" /\ wasmdGenesisOrder[21] = "ibc"
    /\ wasmdGenesisOrder[22] = "interchainaccounts" /\ wasmdGenesisOrder[23] = "feeibc"
    /\ wasmdGenesisOrder[24] = "wasm"
<1> DEFINE more == <<"transfer", "ibc", "interchainaccounts", "feeibc", "wasm">>
<1>0. more \in Seq(Names)
  <2> DEFINE S == Names
  <2>1. "transfer" \in S /\ "ibc" \in S /\ "interchainaccounts" \in S /\ "feeibc" \in S
        /\ "wasm" \in S
    BY DEF Names
  <2> HIDE DEF S
  <2>2. more \in Seq(S)
    BY <2>1
  <2>3. QED  BY <2>2 DEF S
<1>1. Len(more) = 5 /\ more[1] = "transfer" /\ more[2] = "ibc"
      /\ more[3] = "interchainaccounts" /\ more[4] = "feeibc" /\ more[5] = "wasm"
  OBVIOUS
<1>2. wasmdGenesisOrder = simdGenesisOrder \o more
  BY DEF wasmdGenesisOrder
<1> HIDE DEF more
<1>3. simdGenesisOrder \in Seq(Names) /\ Len(simdGenesisOrder) = 19
  BY SimdOrderIs, SimdOrderTyped
<1> DEFINE simd == simdGenesisOrder
           all == simd \o more
<1>4. /\ all \in Seq(Names) /\ Len(all) = Len(simd) + Len(more)
      /\ \A i \in 1..Len(simd) + Len(more) :
            all[i] = IF i <= Len(simd) THEN simd[i] ELSE more[i - Len(simd)]
  BY <1>0, <1>3, ConcatProperties, Zenon
<1> HIDE DEF all, simd
<1>5. Len(all) = 24 /\ \A i \in 1..24 : all[i] = IF i <= 19 THEN simd[i] ELSE more[i - 19]
  <2>1. Len(simd) = 19
    BY <1>3 DEF simd
  <2>2. QED  BY <1>1, <1>4, <2>1
<1>6. DOMAIN all = 1..24
  <2>1. DOMAIN all = 1..Len(all)
    BY <1>4, LenProperties
  <2>2. QED  BY <1>5, <2>1
<1>7. /\ \A i \in 1..19 : all[i] = simd[i]
      /\ all[20] = more[1] /\ all[21] = more[2] /\ all[22] = more[3] /\ all[23] = more[4]
      /\ all[24] = more[5]
  BY <1>5
<1>8. wasmdGenesisOrder = all
  BY <1>2 DEF all, simd
<1>9. QED  BY <1>1, <1>5, <1>6, <1>7, <1>8 DEF simd

\* The modules that need others come after them.
Preceded(order, n) ==
    \A i \in 1..n : Needs(order[i]) \subseteq {order[j] : j \in 1..(i - 1)}

\* Needs, case by case.
LEMMA NeedsAre ==
    /\ \A m \in {"distribution", "staking", "gov"} : Needs(m) = {"auth", "bank"}
    /\ Needs("slashing") = {"staking"} /\ Needs("mint") = {"auth"}
    /\ Needs("genutil") = {"auth", "bank", "distribution", "staking", "slashing"}
    /\ \A m \in {"transfer", "interchainaccounts"} : Needs(m) = {"capability", "auth"}
    /\ Needs("wasm") = Range(wasmdGenesisOrder) \ {"wasm"}
    /\ \A m \in {"capability", "auth", "bank", "crisis", "evidence", "authz", "feegrant", "nft",
                 "group", "params", "upgrade", "vesting", "consensus", "ibc", "feeibc"} :
          Needs(m) = {}
  BY DEF Needs

\* No module of either app comes before one that it needs.
LEMMA SimdPreceded ==
    ASSUME NEW order, \A i \in 1..19 : order[i] = simdGenesisOrder[i]
    PROVE  Preceded(order, 19)
<1>1. /\ order[1] = "capability" /\ order[2] = "auth" /\ order[3] = "bank"
      /\ order[4] = "distribution" /\ order[5] = "staking" /\ order[6] = "slashing"
      /\ order[7] = "gov" /\ order[8] = "mint" /\ order[9] = "crisis" /\ order[10] = "genutil"
      /\ order[11] = "evidence" /\ order[12] = "authz" /\ order[13] = "feegrant"
      /\ order[14] = "nft" /\ order[15] = "group" /\ order[16] = "params"
      /\ order[17] = "upgrade" /\ order[18] = "vesting" /\ order[19] = "consensus"
  BY SimdOrderIs
<1>2. ASSUME NEW i \in 1..19
      PROVE  Needs(order[i]) \subseteq {order[j] : j \in 1..(i - 1)}
  <2> DEFINE before == {order[j] : j \in 1..(i - 1)}
  <2>1. i > 2 => "auth" \in before
    BY <1>1
  <2>2. i > 3 => "bank" \in before
    BY <1>1
  <2>3. i > 5 => "distribution" \in before /\ "staking" \in before
    BY <1>1
  <2>4. i > 6 => "slashing" \in before
    BY <1>1
  <2> HIDE DEF before
  <2>5. CASE i \in {4, 5, 7}
    BY <1>1, <2>1, <2>2, <2>5, NeedsAre DEF before
  <2>6. CASE i \in {6, 8}
    BY <1>1, <2>1, <2>3, <2>6, NeedsAre DEF before
  <2>7. CASE i = 10
    BY <1>1, <2>1, <2>2, <2>3, <2>4, <2>7, NeedsAre DEF before
  <2>8. CASE i \in {1, 2, 3, 9}
    BY <1>1, <2>8, NeedsAre
  <2>9. CASE i \in 11..19
    <3>1. i \in {11, 12, 13, 14, 15, 16, 17, 18, 19}
      BY <2>9
    <3>2. QED  BY <1>1, <3>1, NeedsAre
  <2>10. i \in {1, 2, 3, 9} \cup {4, 5, 7} \cup {6, 8} \cup {10} \cup 11..19
    OBVIOUS
  <2>11. QED  BY <2>5, <2>6, <2>7, <2>8, <2>9, <2>10
<1>3. QED  BY <1>2 DEF Preceded

LEMMA WasmdPreceded == Preceded(wasmdGenesisOrder, 24)
<1> DEFINE order == wasmdGenesisOrder
<1>1. /\ order[20] = "transfer" /\ order[21] = "ibc" /\ order[22] = "interchainaccounts"
      /\ order[23] = "feeibc" /\ order[24] = "wasm" /\ DOMAIN order = 1..24
      /\ order[1] = "capability" /\ order[2] = "auth"
  BY SimdOrderIs, WasmdOrderIs
<1>2. Preceded(order, 19)
  BY WasmdOrderIs, SimdPreceded
<1> HIDE DEF order
<1>3. ASSUME NEW i \in 1..24
      PROVE  Needs(order[i]) \subseteq {order[j] : j \in 1..(i - 1)}
  <2>1. CASE i \in 1..19
    BY <1>2, <2>1 DEF Preceded
  <2>2. CASE i \in {20, 22}
    <3>1. {"capability", "auth"} \subseteq {order[j] : j \in 1..(i - 1)}
      BY <1>1, <2>2
    <3>2. QED  BY <1>1, <2>2, <3>1, NeedsAre
  <2>3. CASE i \in {21, 23}
    BY <1>1, <2>3, NeedsAre
  <2>4. CASE i = 24
    <3>1. Needs(order[i]) = {order[j] : j \in 1..24} \ {"wasm"}
      BY <1>1, <2>4, NeedsAre DEF Range, order
    <3>2. \A j \in 1..24 : order[j] # "wasm" => j \in 1..23
      BY <1>1
    <3>3. {order[j] : j \in 1..24} \ {"wasm"} \subseteq {order[j] : j \in 1..23}
      BY <3>2
    <3>4. QED  BY <2>4, <3>1, <3>3
  <2>5. QED  BY <2>1, <2>2, <2>3, <2>4
<1>4. QED  BY <1>3 DEF Preceded, order

\* Whichever app it is.
LEMMA GenesisOrder ==
    /\ \A i \in DOMAIN genesisModuleOrder :
          Needs(genesisModuleOrder[i]) \subseteq {genesisModuleOrder[j] : j \in 1..(i - 1)}
    /\ 4 \in DOMAIN genesisModuleOrder /\ genesisModuleOrder[4] = "distribution"
<1>1. CASE args.app = "wasmd"
  BY <1>1, WasmdPreceded, WasmdOrderIs, SimdOrderIs DEF genesisModuleOrder, Preceded
<1>2. CASE args.app # "wasmd"
  <2>1. DOMAIN simdGenesisOrder = 1..19
    BY SimdOrderIs
  <2>2. Preceded(simdGenesisOrder, 19)
    BY SimdPreceded
  <2>3. QED  BY <1>2, <2>1, <2>2, SimdOrderIs DEF genesisModuleOrder, Preceded
<1>3. QED  BY <1>1, <1>2

\* Why a new chain may refuse to start.
LEMMA PanicsBecause ==
    ASSUME NEW skip, IInv, pc = "done", InitGenesisPanics(skip)
    PROVE  \/ due.refused > 0
           \/ ~args.zero /\ ~NoneRefused(s, delegations, height, args.blocked)
<1>1. bonded # {} /\ Delegated(delegations) /\ height \in Nat
  BY DEF IInv, StakingInv
<1>2. due.refused \in Nat
  BY DEF IInv, PaymentInv
<1> DEFINE order == genesisModuleOrder
<1>3. PICK i \in DOMAIN order : GenesisPanics(order[i], {order[j] : j \in 1..(i - 1)}, skip)
  BY <1>1 DEF InitGenesisPanics
<1>4. Needs(order[i]) \subseteq {order[j] : j \in 1..(i - 1)}
  BY GenesisOrder
<1> HIDE DEF order
<1>5. ~DistributionBalances \/ ~AssertInvariants(args.blocked)
  BY <1>3, <1>4 DEF GenesisPanics
<1>6. CASE ~DistributionBalances
  <2>1. due.refused # 0
    BY <1>6, BalancesCompared
  <2>2. QED  BY <1>2, <2>1
<1>7. CASE ~AssertInvariants(args.blocked)
  <2>1. ~NoneRefused(s, delegations, height, args.blocked)
    BY <1>7 DEF AssertInvariants, NoneRefused
  <2>2. ASSUME args.zero
        PROVE  FALSE
    <3>1. Renewed(s, delegations) /\ Sound(s, delegations)
      BY <2>2 DEF IInv, StoreInv, DoneForZero
    <3>2. NoneRefused(s, delegations, height, args.blocked)
      BY <1>1, <3>1, NothingRefused
    <3>3. QED  BY <2>1, <3>2
  <2>3. QED  BY <2>1, <2>2
<1>8. QED  BY <1>5, <1>6, <1>7

\* A new chain that does not panic finds the money it should.
LEMMA NothingMissing ==
    ASSUME NEW skip, IInv, pc = "done", ~InitGenesisPanics(skip)
    PROVE  due.refused = 0
<1> DEFINE order == genesisModuleOrder
<1>1. 4 \in DOMAIN order /\ order[4] = "distribution"
  BY GenesisOrder
<1>2. ~GenesisPanics(order[4], {order[j] : j \in 1..(4 - 1)}, skip)
  BY <1>1 DEF InitGenesisPanics
<1> HIDE DEF order
<1>3. DistributionBalances
  BY <1>1, <1>2 DEF GenesisPanics
<1>4. QED  BY <1>3, BalancesCompared

\* Accounts begin to count again what they are paid.
Recounted(t) == [t EXCEPT !.paid = NothingDue.paid]

\* Books and money are the same.
LEMMA RecountedFacts ==
    ASSUME NEW t \in Stores
    PROVE  /\ Recounted(t) \in Stores /\ Recounted(t).val = t.val
           /\ Recounted(t).starting = t.starting /\ Recounted(t).slashes = t.slashes
           /\ Recounted(t).panicked = t.panicked /\ Surplus(Recounted(t)) = Surplus(t)
<1>1. NothingDue.paid \in [Accounts -> Nat]
  BY DEF NothingDue
<1>2. /\ Recounted(t) \in Stores /\ Recounted(t).val = t.val
      /\ Recounted(t).starting = t.starting /\ Recounted(t).slashes = t.slashes
      /\ Recounted(t).panicked = t.panicked /\ Recounted(t).pool = t.pool
      /\ Recounted(t).balance = t.balance
  BY <1>1 DEF Recounted, Stores
<1>3. TotalOutstanding(Recounted(t)) = TotalOutstanding(t)
  BY <1>2 DEF TotalOutstanding
<1>4. QED  BY <1>2, <1>3 DEF Surplus

\* Nothing is a number of coins.
LEMMA NothingDueWhole == NothingDue.refused = 0 /\ WholeCoins(0)
<1>1. Unit \in Nat
  BY ExportAssumption
<1>2. 0 = Unit * 0
  BY <1>1
<1>3. QED  BY <1>2 DEF WholeCoins, NothingDue

\* InitChainer, whether the chain starts or not.
LEMMA InitChainerKeeps ==
    ASSUME NEW skip, IInv, InitChainer(skip)
    PROVE  IInv'
<1>1. /\ pc = "done" /\ maxBonded' = maxBonded /\ delegations' = delegations
      /\ bonded' = bonded /\ jailed' = jailed /\ unbondingHeight' = unbondingHeight
      /\ startHeight' = startHeight /\ entries' = entries
  BY DEF InitChainer
<1>2. CASE InitGenesisPanics(skip)
  <2>1. /\ pc' = "refused" /\ height' = height /\ s' = s /\ args' = args /\ due' = due
    BY <1>2 DEF InitChainer
  <2>2. StakingInv'
    BY <1>1, <2>1 DEF IInv, StakingInv, Parts
  <2>3. HeightsInv'
    BY <2>1 DEF HeightsInv, Goes, DoneForZero
  <2>4. StoreInv'
    BY <1>1, <2>1 DEF IInv, StoreInv, DoneForZero
  <2>5. PaymentInv'
    BY <1>1, <2>1 DEF IInv, PaymentInv, DoneForZero, Parts
  <2>6. StopsInv'
    BY <1>1, <1>2, <2>1, PanicsBecause DEF StopsInv
  <2>7. QED  BY <2>2, <2>3, <2>4, <2>5, <2>6 DEF IInv
<1>3. CASE ~InitGenesisPanics(skip)
  <2>1. /\ pc' = "chain" /\ height' = ExportedHeight /\ s' = Recounted(s)
        /\ args' = NoArgs /\ due' = NothingDue
    BY <1>3 DEF InitChainer, Recounted
  <2>2. s \in Stores /\ ~s.panicked /\ DOMAIN s.starting = delegations
        /\ Sound(s, delegations)
    BY <1>1 DEF IInv, StoreInv
  <2>3. height' = IF args.zero THEN 0 ELSE height
    BY <2>1 DEF ExportedHeight
  <2>4. height \in Nat
    BY DEF IInv, StakingInv
  <2>5. StakingInv'
    BY <1>1, <2>1, <2>3, <2>4 DEF IInv, StakingInv, Parts
  <2>6. /\ s' \in Stores /\ s'.val = s.val /\ s'.starting = s.starting
        /\ s'.slashes = s.slashes /\ s'.panicked = s.panicked /\ Surplus(s') = Surplus(s)
    BY <2>1, <2>2, RecountedFacts
  <2>7. StoreUpTo(s', height') /\ StakingUpTo(height)'
    <3>1. CASE args.zero
      <4>1. DoneForZero
        BY <1>1, <3>1 DEF DoneForZero
      <4>2. Renewed(s, delegations)
        BY <4>1 DEF IInv, StoreInv
      <4>3. /\ \A e \in entries : e.height = 0
            /\ \A v \in Validators : unbondingHeight[v] = 0 /\ startHeight[v] = 0
        BY <4>1 DEF IInv, HeightsInv
      <4>4. height' = 0
        BY <2>3, <3>1
      <4>5. StoreUpTo(s', height')
        BY <2>2, <2>6, <4>2, <4>4 DEF StoreUpTo, Renewed
      <4>6. StakingUpTo(height)'
        BY <1>1, <4>3, <4>4 DEF StakingUpTo
      <4>7. QED  BY <4>5, <4>6
    <3>2. CASE ~args.zero
      <4>1. StoreUpTo(s, height) /\ StakingUpTo(height)
        BY <1>1, <3>2 DEF IInv, HeightsInv, Goes
      <4>2. height' = height
        BY <2>3, <3>2
      <4>3. StoreUpTo(s', height')
        BY <2>6, <4>1, <4>2 DEF StoreUpTo
      <4>4. StakingUpTo(height)'
        BY <1>1, <4>1, <4>2 DEF StakingUpTo
      <4>5. QED  BY <4>3, <4>4
    <3>3. QED  BY <3>1, <3>2
  <2>8. HeightsInv'
    BY <2>1, <2>7 DEF HeightsInv, DoneForZero
  <2>9. Sound(s', delegations')
    BY <1>1, <2>2, <2>6, SoundSame
  <2>10. StoreInv'
    BY <1>1, <2>1, <2>2, <2>6, <2>9 DEF StoreInv, DoneForZero
  <2>11. Surplus(s) = 0
    BY <1>1, <1>3, NothingMissing DEF IInv, PaymentInv
  <2>12. Surplus(s') = 0
    BY <2>6, <2>11
  <2>13. due'.refused = 0 /\ WholeCoins(0)
    BY <2>1, NothingDueWhole
  <2>14. PaymentInv'
    BY <2>1, <2>12, <2>13 DEF PaymentInv, Parts, DoneForZero
  <2>15. StopsInv'
    BY <2>1 DEF StopsInv
  <2>16. QED  BY <2>5, <2>8, <2>10, <2>14, <2>15 DEF IInv
<1>4. QED  BY <1>2, <1>3

\* Every step.
LEMMA StepKeeps ==
    ASSUME IInv, NextG \/ UNCHANGED varsG
    PROVE  IInv'
<1>1. CASE Chain
  BY <1>1, ChainKeeps
<1>2. CASE ExportAppStateAndValidators
  BY <1>2, ExportStepKeeps
<1>3. CASE \E skipInvariants \in BOOLEAN : InitChainer(skipInvariants)
  BY <1>3, InitChainerKeeps
<1>4. CASE UNCHANGED varsG
  BY <1>4 DEF varsG, vars, IInv, StakingInv, HeightsInv, StoreInv, PaymentInv, StopsInv,
     Goes, DoneForZero, StakingUpTo
<1>5. QED  BY <1>1, <1>2, <1>3, <1>4 DEF NextG, Stopped

-----------------------------------------------------------------------------
(* The first chain *)

\* Every set of numbers has a least one.
LEMMA LeastNumber ==
    ASSUME NEW S, S \subseteq Nat, S # {}
    PROVE  \E m \in S : \A n \in S : m <= n
<1> SUFFICES ASSUME \A m \in S : \E n \in S : n < m
             PROVE  FALSE
  OBVIOUS
<1> DEFINE P == {k \in Nat : \A n \in S : k <= n}
<1>1. 0 \in P
  OBVIOUS
<1>2. \A k \in Nat : k \in P => k + 1 \in P
  <2> SUFFICES ASSUME NEW k \in Nat, k \in P
               PROVE  k + 1 \in P
    OBVIOUS
  <2>1. k \notin S
    OBVIOUS
  <2>2. \A n \in S : k <= n /\ n # k /\ n \in Nat
    BY <2>1
  <2>3. QED  BY <2>2
<1> HIDE DEF P
<1>3. \A k \in Nat : k \in P
  BY <1>1, <1>2, NatInductionSet
<1>4. PICK n \in S : TRUE
  OBVIOUS
<1>5. n \in Nat /\ n + 1 \in P
  BY <1>3
<1>6. QED  BY <1>4, <1>5 DEF P

\* An operator has one token, its own.
LEMMA OwnTokens ==
    ASSUME NEW D, D = {<<v, v>> : v \in Validators}
    PROVE  /\ Delegated(D)
           /\ \A v \in Validators : Of(D, v) = {<<v, v>>} /\ Tokens(D, v) = 1
<1>1. Delegated(D)
  BY DEF Delegated, Pairs, Accounts
<1>2. \A v \in Validators : Of(D, v) = {<<v, v>>}
  BY DEF Of
<1>3. \A v \in Validators : Tokens(D, v) = Cardinality(Of(D, v))
  BY DEF Tokens, Of
<1>4. QED  BY <1>1, <1>2, <1>3, FS_Singleton

\* Somebody is bonded.
LEMMA FirstBonded ==
    ASSUME NEW D, D = {<<v, v>> : v \in Validators}, maxBonded \in 1..Cardinality(Validators)
    PROVE  TopValidators(D, {}) # {}
<1>1. Validators # {} /\ Validators \subseteq Nat
  BY ExportAssumption, FS_EmptySet
<1>2. PICK m \in Validators : \A n \in Validators : m <= n
  BY <1>1, LeastNumber
<1>3. \A v \in Validators : Tokens(D, v) = 1
  BY OwnTokens
<1> DEFINE Before(w, v) == \/ Tokens(D, w) > Tokens(D, v)
                           \/ Tokens(D, w) = Tokens(D, v) /\ w < v
           ahead == {w \in Validators \ {} : Before(w, m)}
<1>4. \A w \in Validators : ~Before(w, m)
  <2> SUFFICES ASSUME NEW w \in Validators
               PROVE  ~Before(w, m)
    OBVIOUS
  <2>1. Tokens(D, w) = 1 /\ Tokens(D, m) = 1 /\ m <= w /\ m \in Nat /\ w \in Nat
    BY <1>1, <1>2, <1>3
  <2>2. ~(1 > 1) /\ ~(w < m)
    BY <2>1
  <2>3. QED  BY <2>1, <2>2
<1>5. ahead = {}
  BY <1>4
<1>6. Cardinality(ahead) < maxBonded
  BY <1>5, FS_EmptySet
<1>7. m \in TopValidators(D, {})
  BY <1>6 DEF TopValidators
<1>8. QED  BY <1>7

\* The books of the first chain.
FirstStore(t, D) ==
    /\ \A v \in Validators : t.val[v] = OwnDelegation
    /\ t.starting = [d \in D |-> [period |-> 1, height |-> 0]]
    /\ t.slashes = {} /\ t.pool = 0 /\ t.balance = 0 /\ ~t.panicked

\* Books with another period and history.
WithPeriods(b, k, f) == [b EXCEPT !.period = k, !.history = f]

\* The rest of the books stays as it was.
LEMMA WithPeriodsFacts ==
    ASSUME NEW b \in Books, NEW k \in Nat \ {0}, NEW f \in Histories
    PROVE  /\ WithPeriods(b, k, f) \in Books
           /\ WithPeriods(b, k, f).period = k /\ WithPeriods(b, k, f).history = f
           /\ WithPeriods(b, k, f).outstanding = b.outstanding
           /\ WithPeriods(b, k, f).commission = b.commission
           /\ WithPeriods(b, k, f).rewards = b.rewards
  BY DEF WithPeriods, Books

\* The books of a validator whose operator has delegated.
LEMMA OwnBooks ==
    /\ OwnDelegation \in Books
    /\ OwnDelegation.outstanding = 0 /\ OwnDelegation.commission = 0
    /\ OwnDelegation.rewards = 0 /\ OwnDelegation.period = 2
    /\ DOMAIN OwnDelegation.history = {1}
    /\ OwnDelegation.history[1].ratio = 0 /\ OwnDelegation.history[1].refs = 2
<1> DEFINE h == [p \in {1} |-> [ratio |-> 0, refs |-> 2]]
<1>1. h \in [{1} -> [ratio: Nat, refs: Nat \ {0}]] /\ {1} \in SUBSET Nat
  OBVIOUS
<1>2. h \in Histories
  BY <1>1, HistoryMade
<1>3. DOMAIN h = {1} /\ h[1].ratio = 0 /\ h[1].refs = 2
  OBVIOUS
<1> DEFINE g == [p \in {0} |-> [ratio |-> 0, refs |-> 1]]
<1>4. g \in Histories
  <2>1. g \in [{0} -> [ratio: Nat, refs: Nat \ {0}]] /\ {0} \in SUBSET Nat
    OBVIOUS
  <2> HIDE DEF g
  <2>2. QED  BY <2>1, HistoryMade
<1>5. NewValidator = [outstanding |-> 0, commission |-> 0, rewards |-> 0, period |-> 1,
                      history |-> g]
  BY DEF NewValidator
<1>6. OwnDelegation = [NewValidator EXCEPT !.period = 2, !.history = h]
  BY DEF OwnDelegation
<1> HIDE DEF g, h
<1>7. /\ NewValidator \in Books
      /\ NewValidator.outstanding = 0 /\ NewValidator.commission = 0
      /\ NewValidator.rewards = 0
  BY <1>4, <1>5 DEF Books
<1>8. 2 \in Nat \ {0}
  OBVIOUS
<1>9. OwnDelegation = WithPeriods(NewValidator, 2, h)
  BY <1>6 DEF WithPeriods
<1>10. /\ OwnDelegation \in Books /\ OwnDelegation.period = 2 /\ OwnDelegation.history = h
       /\ OwnDelegation.outstanding = 0 /\ OwnDelegation.commission = 0
       /\ OwnDelegation.rewards = 0
  BY <1>2, <1>7, <1>8, <1>9, WithPeriodsFacts
<1>11. QED  BY <1>3, <1>10

\* They are in order.
LEMMA FirstSound ==
    ASSUME NEW t, NEW D, FirstStore(t, D), t \in Stores, D = {<<v, v>> : v \in Validators}
    PROVE  Sound(t, D) /\ Surplus(t) = 0 /\ DOMAIN t.starting = D
<1>1. DOMAIN t.starting = D /\ \A d \in D : t.starting[d].period = 1
  BY DEF FirstStore
<1>2. ASSUME NEW v \in Validators
      PROVE  InOrder(t, Of(D, v), v)
  <2> DEFINE d == <<v, v>>
             E == {d}
  <2>1. Of(D, v) = E /\ d \in D
    BY OwnTokens
  <2>2. IsFiniteSet(E)
    BY FS_Singleton
  <2>3. t.starting[d].period = 1
    BY <1>1, <2>1
  <2>4. LastPeriod(t, v) = 1
    BY OwnBooks DEF FirstStore, LastPeriod
  <2>5. \A p : Refs(t, v, p) = (IF p = 1 THEN 2 ELSE 0) /\ Ratio(t, v, p) = 0
    BY OwnBooks DEF FirstStore, Refs, Ratio
  <2> HIDE DEF d
  <2>6. \A p : ~SlashedAt(t, v, p)
    BY DEF SlashedAt, FirstStore
  <2>7. \A p : StartedAt(t, E, p) <=> p = 1
    BY <2>3 DEF StartedAt
  <2>8. Counted(t, E, v)
    BY <2>4, <2>5, <2>6, <2>7 DEF Counted, Bit
  <2>9. Apart(t, E, v)
    BY <2>3, <2>4 DEF Apart, FirstStore
  <2>10. Growing(t, v)
    BY <2>5 DEF Growing
  <2>11. E \subseteq DOMAIN t.starting
    BY <1>1, <2>1
  <2>12. Gains(t, E, v) = SumFunctionOnSet([x \in E |-> Gain(t, v, x)], E)
    BY <2>2, <2>8, <2>9, <2>10, <2>11, GainsFacts
  <2>13. \A x \in E : [y \in E |-> Gain(t, v, y)][x] = 0
    BY <2>5 DEF Gain
  <2>14. Gains(t, E, v) = 0
    BY <2>2, <2>12, <2>13, SumZero
  <2>15. Covered(t, E, v)
    BY <2>14, OwnBooks DEF Covered, FirstStore
  <2>16. QED  BY <2>1, <2>2, <2>8, <2>9, <2>10, <2>11, <2>15 DEF InOrder
<1>3. TotalOutstanding(t) = 0
  <2>1. \A v \in Validators : [w \in Validators |-> t.val[w].outstanding][v] = 0
    BY OwnBooks DEF FirstStore
  <2>2. IsFiniteSet(Validators)
    BY PairsFinite
  <2>3. QED  BY <2>1, <2>2, SumZero, TotalFacts
<1>4. Surplus(t) = 0
  BY <1>3 DEF Surplus, FirstStore
<1>5. QED  BY <1>1, <1>2, <1>4 DEF Sound, FirstStore

\* The first state.
LEMMA InitSound ==
    ASSUME InitG
    PROVE  IInv
<1>1. /\ pc = "chain" /\ height = 1 /\ maxBonded \in 1..Cardinality(Validators)
      /\ delegations = {<<v, v>> : v \in Validators} /\ jailed = {}
      /\ bonded = TopValidators(delegations, {})
      /\ unbondingHeight = [v \in Validators |-> 0] /\ startHeight = [v \in Validators |-> 0]
      /\ entries = {} /\ due = NothingDue
  BY DEF InitG, Init
<1>2. s = [val |-> [v \in Validators |-> OwnDelegation],
           starting |-> [d \in delegations |-> [period |-> 1, height |-> 0]],
           slashes |-> {}, pool |-> 0, balance |-> 0,
           paid |-> [a \in Accounts |-> 0], panicked |-> FALSE]
  BY DEF InitG, Init
<1>3. Delegated(delegations) /\ delegations \in SUBSET Pairs
  BY <1>1, OwnTokens DEF Delegated
<1>4. s \in Stores
  <2> DEFINE b == [v \in Validators |-> OwnDelegation]
             f == [d \in delegations |-> [period |-> 1, height |-> 0]]
             n == [a \in Accounts |-> 0]
  <2>1. f \in [delegations -> [period: Nat, height: Nat]]
    OBVIOUS
  <2>2. f \in Starts
    BY <1>3, <2>1, StartsMade
  <2>3. b \in [Validators -> Books] /\ n \in [Accounts -> Nat]
    BY OwnBooks
  <2> HIDE DEF b, f, n
  <2>4. s = [val |-> b, starting |-> f, slashes |-> {}, pool |-> 0, balance |-> 0,
             paid |-> n, panicked |-> FALSE]
    BY <1>2 DEF b, f, n
  <2>5. QED  BY <2>2, <2>3, <2>4 DEF Stores
<1>5. FirstStore(s, delegations)
  BY <1>2 DEF FirstStore
<1>6. Sound(s, delegations) /\ Surplus(s) = 0 /\ DOMAIN s.starting = delegations
  BY <1>1, <1>4, <1>5, FirstSound
<1>7. bonded # {} /\ bonded \subseteq Validators
  <2>1. bonded # {}
    BY <1>1, FirstBonded
  <2>2. QED  BY <1>1, <2>1 DEF TopValidators
<1>8. maxBonded \in Nat
  <2>1. Cardinality(Validators) \in Nat
    BY PairsFinite, FS_CardinalityType
  <2>2. QED  BY <1>1, <2>1
<1>9. StakingInv
  BY <1>1, <1>3, <1>7, <1>8 DEF StakingInv, Parts
<1>10. StoreUpTo(s, height) /\ StakingUpTo(height)
  BY <1>1, <1>5 DEF StoreUpTo, StakingUpTo, FirstStore
<1>11. HeightsInv
  BY <1>1, <1>10 DEF HeightsInv, DoneForZero
<1>12. StoreInv
  BY <1>1, <1>4, <1>5, <1>6 DEF StoreInv, DoneForZero, FirstStore
<1>13. PaymentInv
  BY <1>1, <1>6, NothingDueWhole DEF PaymentInv, Parts, DoneForZero
<1>14. StopsInv
  BY <1>1 DEF StopsInv
<1>15. QED  BY <1>9, <1>11, <1>12, <1>13, <1>14 DEF IInv

\* Every state of every chain.
LEMMA Invariant == SpecG => []IInv
<1>1. InitG => IInv
  BY InitSound
<1>2. IInv /\ [NextG]_varsG => IInv'
  BY StepKeeps
<1>3. QED  BY <1>1, <1>2, PTL DEF SpecG

-----------------------------------------------------------------------------
(* Theorems *)

\* A set of at most one element is counted by whether it has one.
LEMMA CardinalityIsBit ==
    ASSUME NEW S, \A x, y \in S : x = y
    PROVE  Cardinality(S) = Bit(S # {})
<1>1. CASE S = {}
  BY <1>1, FS_EmptySet DEF Bit
<1>2. CASE S # {}
  <2>1. PICK x \in S : TRUE
    BY <1>2
  <2>2. S = {x}
    BY <2>1
  <2>3. Cardinality(S) = 1
    BY <2>2, FS_Singleton
  <2>4. QED  BY <1>2, <2>3 DEF Bit
<1>3. QED  BY <1>1, <1>2

\* What is kept of a period.
LEMMA HistoryRefs ==
    ASSUME IInv, NEW v \in Validators, NEW p \in DOMAIN s.val[v].history
    PROVE  s.val[v].history[p] \in [ratio: Nat, refs: 1..2]
<1> DEFINE h == s.val[v].history
<1>1. s \in Stores
  BY DEF IInv, StoreInv
<1>2. h \in Histories
  BY <1>1, BooksFacts
<1>3. h[p] \in [ratio: Nat, refs: Nat \ {0}]
  BY <1>2, HistoryFacts
<1>4. h[p].refs <= 2
  <2>1. CASE pc \notin {"reset", "delegations"}
    <3>1. Sound(s, delegations)
      BY <2>1 DEF IInv, StoreInv
    <3>2. InOrder(s, Of(delegations, v), v)
      BY <3>1 DEF Sound
    <3>3. Refs(s, v, p) <= 2
      BY <1>1, <3>2, CountedFacts DEF InOrder
    <3>4. QED  BY <3>3 DEF Refs
  <2>2. CASE pc = "reset"
    BY <2>2 DEF IInv, StoreInv
  <2>3. CASE pc = "delegations"
    <3>1. s.val[v] = NewValidator
      BY <2>3 DEF IInv, StoreInv, AllNew
    <3>2. NewValidator.history = [q \in {0} |-> [ratio |-> 0, refs |-> 1]]
      BY DEF NewValidator
    <3>3. QED  BY <3>1, <3>2
  <2>4. QED  BY <2>1, <2>2, <2>3
<1>5. QED  BY <1>3, <1>4

\* The properties follow.
LEMMA Typed == IInv => TypeOK
<1> SUFFICES ASSUME IInv
             PROVE  TypeOK
  OBVIOUS
<1>1. /\ pc \in Parts \cup {"chain", "done", "failed", "refused"}
      /\ height \in Nat /\ maxBonded \in Nat /\ delegations \subseteq Pairs
      /\ bonded \subseteq Validators /\ jailed \subseteq Validators
      /\ unbondingHeight \in [Validators -> Nat] /\ startHeight \in [Validators -> Nat]
      /\ entries \subseteq Entries
  BY DEF IInv, StakingInv, Delegated
<1>2. \A e \in entries : e.height \in Nat
  BY <1>1 DEF Entries
<1>3. s \in Stores /\ DOMAIN s.starting = delegations
  BY DEF IInv, StoreInv
<1>4. \A v \in Validators :
        {s.val[v].outstanding, s.val[v].commission, s.val[v].rewards, s.val[v].period}
            \subseteq Nat
  BY <1>3, BooksFacts
<1>5. \A d \in DOMAIN s.starting : d \in delegations /\ s.starting[d] \in Records
  <2>1. s.starting \in Starts
    BY <1>3 DEF Stores
  <2>2. s.starting \in [DOMAIN s.starting -> [period: Nat, height: Nat]]
    BY <2>1, StartsFacts
  <2>3. QED  BY <1>3, <2>2 DEF Records
<1>6. s.pool \in Nat /\ s.balance \in Int /\ s.paid \in [Accounts -> Nat]
  BY <1>3 DEF Stores
<1>7. s.balance \in Nat
  <2>1. Surplus(s) \in Nat
    BY <1>1 DEF IInv, PaymentInv, Parts
  <2>2. TotalOutstanding(s) \in Nat
    BY <1>3, TotalFacts
  <2>3. s.balance = Surplus(s) + TotalOutstanding(s) + s.pool
    BY <1>6, <2>2 DEF Surplus
  <2>4. QED  BY <1>6, <2>1, <2>2, <2>3
<1>8. QED  BY <1>1, <1>2, <1>4, <1>5, <1>6, <1>7, HistoryRefs DEF TypeOK, Parts

LEMMA Balanced == IInv => BooksBalance
<1> SUFFICES ASSUME IInv, pc # "failed"
             PROVE  s.balance = TotalOutstanding(s) + s.pool
                                  + (IF pc = "commissions" THEN 0 ELSE due.refused)
  BY DEF BooksBalance
<1>1. s \in Stores
  BY DEF IInv, StoreInv
<1>2. s.pool \in Nat /\ s.balance \in Int /\ TotalOutstanding(s) \in Nat
  BY <1>1, TotalFacts DEF Stores
<1>3. Surplus(s) = (IF pc = "commissions" THEN 0 ELSE due.refused) /\ due.refused \in Nat
  BY DEF IInv, PaymentInv
<1>4. QED  BY <1>2, <1>3 DEF Surplus

LEMMA Paid == IInv => PaidInFull
  BY DEF IInv, PaymentInv, PaidInFull, Parts, DoneForZero

LEMMA Referred == IInv => PeriodsReferred
<1> SUFFICES ASSUME IInv, pc \notin {"reset", "delegations"}
             PROVE  /\ DOMAIN s.starting = delegations
                    /\ \A v \in Validators : \A p \in 0..s.val[v].period :
                          Refs(s, v, p) =
                              (IF p = s.val[v].period - 1 THEN 1 ELSE 0)
                              + Cardinality({d \in delegations :
                                                d[2] = v /\ s.starting[d].period = p})
                              + Cardinality({e \in s.slashes : e.val = v /\ e.period = p})
  BY DEF PeriodsReferred
<1>1. Sound(s, delegations) /\ DOMAIN s.starting = delegations
  BY DEF IInv, StoreInv
<1>2. ASSUME NEW v \in Validators, NEW p \in 0..s.val[v].period
      PROVE  Refs(s, v, p) =
                 (IF p = s.val[v].period - 1 THEN 1 ELSE 0)
                 + Cardinality({d \in delegations : d[2] = v /\ s.starting[d].period = p})
                 + Cardinality({e \in s.slashes : e.val = v /\ e.period = p})
  <2> DEFINE E == Of(delegations, v)
             started == {d \in delegations : d[2] = v /\ s.starting[d].period = p}
             slashed == {e \in s.slashes : e.val = v /\ e.period = p}
  <2>1. p \in Nat
    <3>1. s.val[v].period \in Nat
      BY <1>1, BooksFacts DEF Sound
    <3>2. QED  BY <3>1
  <2>2. Counted(s, E, v) /\ Apart(s, E, v)
    BY <1>1 DEF Sound, InOrder
  <2>3. Refs(s, v, p) = Bit(p = LastPeriod(s, v)) + Bit(StartedAt(s, E, p))
                           + Bit(SlashedAt(s, v, p))
    BY <2>1, <2>2 DEF Counted
  <2>4. \A d, e \in started : d = e
    BY <2>2 DEF Apart, Of
  <2>5. \A e, f \in slashed : e = f
    BY <2>2 DEF Apart
  <2>6. StartedAt(s, E, p) <=> started # {}
    BY DEF StartedAt, Of
  <2>7. SlashedAt(s, v, p) <=> slashed # {}
    BY DEF SlashedAt
  <2>8. Cardinality(started) = Bit(StartedAt(s, E, p))
    BY <2>4, <2>6, CardinalityIsBit DEF Bit
  <2>9. Cardinality(slashed) = Bit(SlashedAt(s, v, p))
    BY <2>5, <2>7, CardinalityIsBit DEF Bit
  <2>10. Bit(p = LastPeriod(s, v)) = IF p = s.val[v].period - 1 THEN 1 ELSE 0
    BY DEF Bit, LastPeriod
  <2> HIDE DEF E, started, slashed
  <2>11. Refs(s, v, p) = (IF p = s.val[v].period - 1 THEN 1 ELSE 0)
                            + Cardinality(started) + Cardinality(slashed)
    BY <2>3, <2>8, <2>9, <2>10
  <2>12. QED  BY <2>11 DEF started, slashed
<1>3. QED  BY <1>1, <1>2

LEMMA NotFromTheFuture == IInv => NothingFromTheFuture
<1> SUFFICES ASSUME IInv, pc \in {"chain", "done"}
             PROVE  LET last == IF pc = "chain" THEN height ELSE ExportedHeight IN
                    StoreUpTo(s, last) /\ StakingUpTo(last)
  BY DEF NothingFromTheFuture, StoreUpTo, StakingUpTo
<1>1. CASE Goes
  <2>1. StoreUpTo(s, height) /\ StakingUpTo(height)
    BY <1>1 DEF IInv, HeightsInv
  <2>2. pc # "chain" => ExportedHeight = height
    BY <1>1 DEF Goes, ExportedHeight
  <2>3. QED  BY <2>1, <2>2
<1>2. CASE ~Goes
  <2>1. DoneForZero /\ ExportedHeight = 0 /\ pc # "chain"
    BY <1>2 DEF Goes, DoneForZero, ExportedHeight
  <2>2. Renewed(s, delegations) /\ DOMAIN s.starting = delegations
    BY <2>1 DEF IInv, StoreInv
  <2>3. StoreUpTo(s, 0)
    BY <2>2 DEF StoreUpTo, Renewed
  <2>4. StakingUpTo(0)
    BY <2>1 DEF StakingUpTo, IInv, HeightsInv
  <2>5. QED  BY <2>1, <2>3, <2>4
<1>3. QED  BY <1>1, <1>2

LEMMA FailsForJailing == IInv => OnlyJailingFails
  BY DEF IInv, StopsInv, HeightsInv, DoneForZero, OnlyJailingFails

LEMMA Restarts == IInv => ChainRestarts
<1>1. AssertInvariants(args.blocked) <=> NoneRefused(s, delegations, height, args.blocked)
  BY DEF AssertInvariants, NoneRefused
<1>2. QED  BY <1>1 DEF IInv, StopsInv, StoreInv, StakingInv, ChainRestarts

\* Amounts and the account of the module are never negative, periods are counted
\* once or twice, and starts are of delegations, at every step of x/distribution
\* and of the export.
THEOREM TypesOK == SpecG => []TypeOK
  BY Invariant, Typed, PTL

\* Whatever is delegated, slashed, paid, donated and reset, and however often the
\* chain is exported and started again, the account of the module holds what is
\* outstanding and the pool, and after the commissions of an export the ones that
\* were refused (AllCommissions ignores their errors).
THEOREM BooksAlwaysBalance == SpecG => []BooksBalance
  BY Invariant, Balanced, PTL

\* After the rewards of an export, whatever the order in which commissions and
\* delegations are withdrawn, all were paid what was due to them when it began
\* (AllRewards of wasmd, which panics on errors, and of simd, which does not).
THEOREM AllArePaidInFull == SpecG => []PaidInFull
  BY Invariant, Paid, PTL

\* Whenever the reward periods are in use they are counted as often as referred to;
\* so the export may throw them away, and the ones it sets up with the delegations
\* in any order are as good as those of the chain.
THEOREM AllPeriodsReferred == SpecG => []PeriodsReferred
  BY Invariant, Referred, PTL

\* The heights that the export leaves are none that the new chain has yet to reach
\* (ResetHeight, ResetEntries, ResetBondedValidators, ResetSigningInfos).
THEOREM NothingEverFromTheFuture == SpecG => []NothingFromTheFuture
  BY Invariant, NotFromTheFuture, PTL

\* The export fails for no other reason than a blocked account or an allow list
\* without a bonded validator: no withdrawal or reset panics.
THEOREM OnlyJailingEverFails == SpecG => []OnlyJailingFails
  BY Invariant, FailsForJailing, PTL

\* InitChainer takes every export unless something in it was refused, and the
\* chain that starts has validators and does not panic.
THEOREM ChainAlwaysRestarts == SpecG => []ChainRestarts
  BY Invariant, Restarts, PTL
=============================================================================
