----------------------------- MODULE Recursion -----------------------------
(***************************************************************************)
(* A recursive function f[x \in Dom] == Step(f, x) is what its definition  *)
(* says only if some function satisfies the equation.  Here it is shown    *)
(* that one does whenever the value at x rests on arguments of less depth. *)
(* Modules that define such functions take an instance of this one for     *)
(* each of them.                                                           *)
(***************************************************************************)
EXTENDS Naturals, WellFoundedInduction, TLAPS

CONSTANTS
    Dom,         \* the arguments
    Depth(_),    \* a measure of them
    Step(_, _)   \* the body of the definition: of the function and x

Below(n) == {x \in Dom : Depth(x) < n}

Measured == \A x \in Dom : Depth(x) \in Nat

(* The body looks at the function below x only.                            *)
Descends ==
    \A f, g : \A x \in Dom :
        (\A y \in Below(Depth(x)) : f[y] = g[y]) => Step(f, x) = Step(g, x)

----------------------------------------------------------------------------
(* A set of naturals that is not empty has a least element.                *)
LEMMA LeastNatural ==
    ASSUME NEW S, S \subseteq Nat, S # {}
    PROVE  \E x \in S : \A y \in S : x <= y
<1> DEFINE R == {p \in Nat \X Nat : p[1] < p[2]}
<1>1. R = OpToRel(<, Nat)
  BY DEF OpToRel
<1>2. IsWellFoundedOn(R, Nat)
  BY <1>1, NatLessThanWellFounded
<1>3. \A a, b \in Nat : a < b => <<a, b>> \in R
  OBVIOUS
<1> HIDE DEF R
<1>4. PICK x \in S : \A y \in S : <<y, x>> \notin R
  BY <1>2, WFMin
<1>5. ASSUME NEW y \in S PROVE x <= y
  <2>1. x \in Nat /\ y \in Nat /\ ~(y < x)
    BY <1>3, <1>4
  <2> QED BY <2>1
<1> QED BY <1>5

(* Induction: what holds at x if it holds below x holds everywhere.  What  *)
(* holds is given as the set of the arguments it holds of.                 *)
LEMMA DepthInduction ==
    ASSUME Measured,
           NEW S,
           \A x \in Dom : (\A y \in Below(Depth(x)) : y \in S) => x \in S
    PROVE  Dom \subseteq S
<1> SUFFICES ASSUME Dom \ S # {} PROVE FALSE
  OBVIOUS
<1> DEFINE N == {Depth(x) : x \in Dom \ S}
<1>1. N \subseteq Nat /\ N # {}
  BY DEF Measured
<1>2. PICK n \in N : \A m \in N : n <= m
  BY <1>1, LeastNatural
<1>3. PICK x \in Dom \ S : Depth(x) = n
  OBVIOUS
<1>4. ASSUME NEW y \in Below(Depth(x)), y \notin S PROVE FALSE
  <2>1. y \in Dom /\ Depth(y) \in Nat /\ Depth(x) \in Nat /\ Depth(y) < Depth(x)
    BY <1>3 DEF Below, Measured
  <2>2. Depth(x) <= Depth(y)
    BY <1>2, <1>3, <1>4, <2>1
  <2> QED
    BY <2>1, <2>2
<1> QED
  BY <1>3, <1>4

----------------------------------------------------------------------------
(* Solutions below some depth, their agreement and their union.            *)

Solves(g, n) == g = [x \in Below(n) |-> Step(g, x)]

(* What is below x is below every n that x is below.                       *)
LEMMA BelowFacts ==
    ASSUME Measured, NEW n \in Nat, NEW x \in Below(n), NEW y \in Below(Depth(x))
    PROVE  x \in Dom /\ y \in Below(n)
<1>1. x \in Dom /\ y \in Dom /\ Depth(x) < n /\ Depth(y) < Depth(x)
  BY DEF Below
<1>2. Depth(x) \in Nat /\ Depth(y) \in Nat
  BY <1>1 DEF Measured
<1>3. Depth(y) < n
  BY <1>1, <1>2
<1> QED
  BY <1>1, <1>3 DEF Below

(* Two solutions agree where both are defined.                             *)
LEMMA SolutionsAgree ==
    ASSUME Measured, Descends,
           NEW m \in Nat, NEW n \in Nat, NEW g, NEW h, Solves(g, m), Solves(h, n)
    PROVE  \A x \in Below(m) \cap Below(n) : g[x] = h[x]
<1> DEFINE S == {x \in Dom : x \in Below(m) \cap Below(n) => g[x] = h[x]}
<1>1. ASSUME NEW x \in Dom, \A y \in Below(Depth(x)) : y \in S PROVE x \in S
  <2> SUFFICES ASSUME x \in Below(m) \cap Below(n) PROVE g[x] = h[x]
    OBVIOUS
  <2>1. \A y \in Below(Depth(x)) : g[y] = h[y]
    BY <1>1, BelowFacts
  <2>2. Step(g, x) = Step(h, x)
    BY <2>1 DEF Descends
  <2>3. g[x] = Step(g, x) /\ h[x] = Step(h, x)
    BY Zenon DEF Solves
  <2> QED
    BY <2>2, <2>3
<1>2. Dom \subseteq S
  <2> HIDE DEF S
  <2> QED
    BY <1>1, DepthInduction
<1> QED
  BY <1>2 DEF Below

(* There is a solution below every depth.                                  *)
LEMMA SolutionsExist ==
    ASSUME Measured, Descends
    PROVE  \A n \in Nat : \E g : Solves(g, n)
<1> SUFFICES ASSUME {n \in Nat : ~\E g : Solves(g, n)} # {} PROVE FALSE
  OBVIOUS
<1> DEFINE N == {n \in Nat : ~\E g : Solves(g, n)}
<1>1. PICK n \in N : \A m \in N : n <= m
  BY LeastNatural
<1>2. n \in Nat /\ ~\E g : Solves(g, n)
  OBVIOUS
<1>3. CASE n = 0
  <2> DEFINE none == [x \in {} |-> x]
  <2>1. Below(0) = {}
    BY DEF Below, Measured
  <2>2. none = [x \in {} |-> Step(none, x)]
    OBVIOUS
  <2>3. Solves(none, 0)
    BY <2>1, <2>2 DEF Solves
  <2> QED
    BY <1>2, <1>3, <2>3
<1>4. CASE n # 0
  <2>1. n - 1 \in Nat /\ n - 1 < n
    BY <1>2, <1>4
  <2>2. n - 1 \notin N
    BY <1>1, <1>2, <2>1
  <2>3. PICK g : Solves(g, n - 1)
    BY <2>1, <2>2
  <2> DEFINE h == [x \in Below(n) |-> Step(g, x)]
  <2>4. ASSUME NEW x \in Below(n) PROVE Step(h, x) = Step(g, x)
    <3>1. ASSUME NEW y \in Below(Depth(x)) PROVE h[y] = g[y]
      <4>1. x \in Dom /\ y \in Dom /\ Depth(x) < n /\ Depth(y) < Depth(x)
        BY DEF Below
      <4>2. Depth(x) \in Nat /\ Depth(y) \in Nat
        BY <4>1 DEF Measured
      <4>3. Depth(y) < n - 1 /\ Depth(y) < n
        BY <1>2, <4>1, <4>2
      <4>4. y \in Below(n - 1) /\ y \in Below(n)
        BY <4>1, <4>3 DEF Below
      <4>5. g[y] = Step(g, y)
        BY <2>3, <4>4, Zenon DEF Solves
      <4>6. h[y] = Step(g, y)
        BY <4>4
      <4> QED
        BY <4>5, <4>6
    <3>2. x \in Dom
      BY DEF Below
    <3> HIDE DEF h
    <3> QED
      BY <3>1, <3>2 DEF Descends
  <2>5. h = [x \in Below(n) |-> Step(h, x)]
    <3> HIDE DEF h
    <3>1. h = [x \in Below(n) |-> Step(g, x)]
      BY DEF h
    <3> QED
      BY <2>4, <3>1, Zenon
  <2>6. Solves(h, n)
    BY <2>5, Zenon DEF Solves
  <2> QED
    BY <1>2, <2>6
<1> QED
  BY <1>3, <1>4

(* A definition whose body descends has its function.                      *)
THEOREM RecursionIsDefined ==
    ASSUME Measured, Descends
    PROVE  \E f : f = [x \in Dom |-> Step(f, x)]
<1> DEFINE G(x) == CHOOSE g : Solves(g, Depth(x) + 1)
           f == [x \in Dom |-> G(x)[x]]
<1>1. ASSUME NEW x \in Dom
      PROVE  /\ Depth(x) \in Nat /\ Depth(x) + 1 \in Nat /\ x \in Below(Depth(x) + 1)
             /\ Solves(G(x), Depth(x) + 1)
  <2>1. Depth(x) \in Nat
    BY DEF Measured
  <2>2. Depth(x) + 1 \in Nat /\ Depth(x) < Depth(x) + 1
    BY <2>1
  <2>3. \E g : Solves(g, Depth(x) + 1)
    BY <2>2, SolutionsExist
  <2>4. Solves(G(x), Depth(x) + 1)
    BY <2>3, Zenon
  <2> QED
    BY <2>1, <2>2, <2>4 DEF Below
<1>2. ASSUME NEW x \in Dom PROVE f[x] = Step(f, x)
  <2>1. f[x] = G(x)[x]
    OBVIOUS
  <2>2. G(x)[x] = Step(G(x), x)
    BY <1>1, Zenon DEF Solves
  <2>3. ASSUME NEW y \in Below(Depth(x)) PROVE f[y] = G(x)[y]
    <3>1. y \in Dom
      BY DEF Below
    <3>2. f[y] = G(y)[y]
      BY <3>1
    <3>3. y \in Below(Depth(y) + 1) /\ y \in Below(Depth(x) + 1)
      BY <1>1, <3>1, BelowFacts
    <3> HIDE DEF G, f
    <3>4. G(y)[y] = G(x)[y]
      BY <1>1, <3>1, <3>3, SolutionsAgree
    <3> QED
      BY <3>2, <3>4
  <2> HIDE DEF f, G
  <2>4. Step(f, x) = Step(G(x), x)
    BY <2>3 DEF Descends
  <2> QED
    BY <2>1, <2>2, <2>4
<1>3. f = [x \in Dom |-> Step(f, x)]
  <2>1. f = [x \in Dom |-> f[x]]
    OBVIOUS
  <2> HIDE DEF f
  <2> QED
    BY <1>2, <2>1, Zenon
<1> QED
  BY <1>3, Zenon
=============================================================================
