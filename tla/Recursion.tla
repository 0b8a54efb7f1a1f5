----------------------------- MODULE Recursion -----------------------------
(***************************************************************************)
(* Recursive functions on ranked data: a definition f[x \in S] == Step(f,  *)
(* x) in which Step looks at values of f of a lower rank only does define  *)
(* a function.  The theorems of the library take the step as a parameter   *)
(* of the theorem; here it is a parameter of the module, and INSTANCE      *)
(* gives its value.                                                        *)
(***************************************************************************)
EXTENDS Integers, TLAPS, WellFoundedInduction

CONSTANTS
    S,              \* the data the functions are defined on
    Rank(_),        \* how far a datum is from those without parts
    Step(_, _)      \* the value at a datum, given the function below it

Ranked == \A x \in S : Rank(x) \in Nat

\* Two functions that agree below x give the same value at x.
Founded ==
    \A x \in S : \A g, h :
        (\A y \in S : Rank(y) < Rank(x) => g[y] = h[y]) => Step(g, x) = Step(h, x)

\* What f[x \in S] == Step(f, x) denotes.
Solution == CHOOSE f : f = [x \in S |-> Step(f, x)]

\* A set of naturals that is not empty has a least member.
LEMMA Least ==
    ASSUME NEW T, T \subseteq Nat, T # {}
    PROVE  \E n \in T : \A m \in T : n <= m
  <1>1. PICK n \in T : \A m \in T : ~(<<m, n>> \in OpToRel(<, Nat))
    BY NatLessThanWellFounded, WFMin
  <1>2. ASSUME NEW m \in T PROVE n <= m
    <2>1. m \in Nat /\ n \in Nat
      OBVIOUS
    <2>2. ~(m < n)
      BY <1>1, <2>1 DEF OpToRel
    <2> QED
      BY <2>1, <2>2
  <1> QED
    BY <1>2

\* A set that has each datum whose lower data it has, has all the data.
THEOREM RankInduction ==
    ASSUME Ranked, NEW T,
           \A x \in S : (\A y \in S : Rank(y) < Rank(x) => y \in T) => x \in T
    PROVE  S \subseteq T
  <1> SUFFICES ASSUME NEW x \in S, x \notin T PROVE FALSE
    OBVIOUS
  <1> DEFINE Ranks == {Rank(y) : y \in S \ T}
  <1>1. PICK n \in Ranks : \A m \in Ranks : n <= m
    <2>1. Ranks \subseteq Nat /\ Ranks # {}
      BY DEF Ranked
    <2> HIDE DEF Ranks
    <2> QED
      BY <2>1, Least
  <1>2. PICK y \in S \ T : Rank(y) = n
    BY <1>1
  <1>3. \A z \in S : Rank(z) < Rank(y) => z \in T
    BY <1>1, <1>2 DEF Ranked
  <1> QED
    BY <1>2, <1>3

-----------------------------------------------------------------------------
(* Functions that satisfy the equation up to a rank.                       *)

After(g) == [x \in S |-> Step(g, x)]

Holds(g, n) == \A x \in S : Rank(x) < n => g[x] = Step(g, x)

LEMMA Extension ==
    ASSUME Ranked, Founded, NEW n \in Nat, NEW g, Holds(g, n)
    PROVE  Holds(After(g), n + 1)
  <1> SUFFICES ASSUME NEW x \in S, Rank(x) < n + 1
               PROVE  After(g)[x] = Step(After(g), x)
    BY DEF Holds
  <1>1. ASSUME NEW y \in S, Rank(y) < Rank(x) PROVE g[y] = After(g)[y]
    <2>1. Rank(y) < n
      BY <1>1 DEF Ranked
    <2> QED
      BY <2>1 DEF Holds, After
  <1>2. Step(g, x) = Step(After(g), x)
    BY <1>1 DEF Founded
  <1> QED
    BY <1>2 DEF After

LEMMA Approximations ==
    ASSUME Ranked, Founded
    PROVE  \A n \in Nat : \E g : Holds(g, n)
  <1> DEFINE Bad == {n \in Nat : ~\E g : Holds(g, n)}
  <1> SUFFICES ASSUME Bad # {} PROVE FALSE
    OBVIOUS
  <1>1. PICK n \in Bad : \A m \in Bad : n <= m
    <2>1. Bad \subseteq Nat
      OBVIOUS
    <2> HIDE DEF Bad
    <2> QED
      BY <2>1, Least
  <1>2. n # 0
    <2>1. Holds(S, 0)
      BY DEF Holds, Ranked
    <2> QED
      BY <2>1
  <1>3. n - 1 \in Nat /\ n - 1 \notin Bad
    BY <1>1, <1>2
  <1>4. PICK g : Holds(g, n - 1)
    BY <1>3
  <1>5. Holds(After(g), (n - 1) + 1)
    BY <1>3, <1>4, Extension
  <1>6. Holds(After(g), n)
    <2>1. (n - 1) + 1 = n
      BY <1>3
    <2> QED
      BY <1>5, <2>1
  <1> QED
    BY <1>6

\* Where two of them satisfy the equation, they agree.
LEMMA Agreement ==
    ASSUME Ranked, Founded, NEW n \in Nat, NEW g, NEW h, Holds(g, n), Holds(h, n)
    PROVE  \A x \in S : Rank(x) < n => g[x] = h[x]
  <1> DEFINE T == {x \in S : Rank(x) < n => g[x] = h[x]}
  <1>1. ASSUME NEW x \in S, \A y \in S : Rank(y) < Rank(x) => y \in T
        PROVE  x \in T
    <2> SUFFICES ASSUME Rank(x) < n PROVE g[x] = h[x]
      OBVIOUS
    <2>1. ASSUME NEW y \in S, Rank(y) < Rank(x) PROVE g[y] = h[y]
      <3>1. Rank(y) < n
        BY <2>1 DEF Ranked
      <3> QED
        BY <1>1, <2>1, <3>1
    <2>2. Step(g, x) = Step(h, x)
      BY <2>1 DEF Founded
    <2> QED
      BY <2>2 DEF Holds
  <1> HIDE DEF T
  <1>2. S \subseteq T
    BY <1>1, RankInduction
  <1> QED
    BY <1>2 DEF T

\* The recursive definition has a meaning: its equation holds.
THEOREM Unfolding ==
    ASSUME Ranked, Founded
    PROVE  Solution = [x \in S |-> Step(Solution, x)]
  <1> DEFINE Upto(n) == CHOOSE g : Holds(g, n)
             f == [x \in S |-> Upto(Rank(x) + 1)[x]]
  <1>1. ASSUME NEW n \in Nat PROVE Holds(Upto(n), n)
    BY Approximations
  <1> HIDE DEF Upto
  <1>2. ASSUME NEW x \in S, NEW y \in S, Rank(y) < Rank(x) + 1
        PROVE  f[y] = Upto(Rank(x) + 1)[y]
    <2> DEFINE k == Rank(y) + 1
               g == Upto(Rank(y) + 1)
               h == Upto(Rank(x) + 1)
    <2>1. k \in Nat /\ Rank(x) + 1 \in Nat /\ Rank(y) \in Nat
      BY DEF Ranked
    <2>2. Holds(g, k) /\ Holds(h, Rank(x) + 1)
      BY <1>1, <2>1
    <2>3. Holds(h, k)
      <3> SUFFICES ASSUME NEW z \in S, Rank(z) < k PROVE h[z] = Step(h, z)
        BY DEF Holds
      <3>1. Rank(z) < Rank(x) + 1
        BY <1>2, <2>1 DEF Ranked
      <3> QED
        BY <2>2, <3>1 DEF Holds
    <2>4. Rank(y) < k
      BY <2>1
    <2> HIDE DEF g, h, k
    <2>5. g[y] = h[y]
      BY <2>1, <2>2, <2>3, <2>4, Agreement
    <2> QED
      BY <2>5 DEF g, h
  <1>3. ASSUME NEW x \in S PROVE f[x] = Step(f, x)
    <2> DEFINE g == Upto(Rank(x) + 1)
    <2>1. Rank(x) \in Nat /\ Rank(x) + 1 \in Nat /\ Rank(x) < Rank(x) + 1
      BY DEF Ranked
    <2>2. g[x] = Step(g, x)
      BY <1>1, <2>1 DEF Holds
    <2>3. ASSUME NEW y \in S, Rank(y) < Rank(x) PROVE g[y] = f[y]
      <3>1. Rank(y) < Rank(x) + 1
        BY <2>1, <2>3 DEF Ranked
      <3> QED
        BY <1>2, <3>1
    <2> HIDE DEF g, f
    <2>4. Step(g, x) = Step(f, x)
      BY <2>3 DEF Founded
    <2> QED
      BY <2>2, <2>4 DEF f, g
  <1>4. f = [x \in S |-> Step(f, x)]
    <2> HIDE DEF f
    <2>1. f = [x \in S |-> f[x]]
      BY DEF f
    <2> QED
      BY <1>3, <2>1
  <1> HIDE DEF f
  <1> QED
    BY <1>4 DEF Solution
=============================================================================
