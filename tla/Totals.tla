------------------------------- MODULE Totals -------------------------------
(***************************************************************************)
(* What is needed of sums over finite sets: how the total of a function    *)
(* changes when its values or its indices do.                              *)
(*                                                                         *)
(* A fold of the library is a recursive function on the subsets of its     *)
(* index set.  Of the subsets on which a statement fails one is smallest   *)
(* (Smallest), and that is the induction used throughout.                  *)
(***************************************************************************)
EXTENDS Integers, FiniteSets, Functions, FiniteSetTheorems, TLAPS

(* Of the subsets of a finite set that have a property one is smallest.    *)
LEMMA Smallest ==
  ASSUME NEW S, IsFiniteSet(S), NEW T \in SUBSET (SUBSET S), T # {}
  PROVE  \E A \in T : \A B \in T : B \subseteq A => B = A
<1>1. T \subseteq FiniteSubsetsOf(S)
  BY FS_Subset DEF FiniteSubsetsOf
<1>2. \E A \in T : \A B \in T : ~ (<<B, A>> \in StrictSubsetOrdering(S))
  BY <1>1, FS_StrictSubsetOrderingWellFounded, WFMin
<1> QED BY <1>2 DEF StrictSubsetOrdering

(* A set of natural numbers up to a bound has a least element.             *)
LEMMA LeastOf ==
  ASSUME NEW n \in Nat, NEW S \in SUBSET (1..n), S # {}
  PROVE  \E x \in S : \A y \in S : x <= y
<1> DEFINE T == {A \in SUBSET (1..n) : \E x \in S : A = 1..x}
<1>1. T \in SUBSET (SUBSET (1..n)) /\ T # {} /\ IsFiniteSet(1..n)
  <2>1. PICK x \in S : TRUE
    OBVIOUS
  <2>2. 1..x \in T
    BY <2>1
  <2>3. IsFiniteSet(1..n)
    BY FS_Interval
  <2>4. T \in SUBSET (SUBSET (1..n))
    OBVIOUS
  <2> QED BY <2>2, <2>3, <2>4
<1>2. PICK A \in T : \A B \in T : B \subseteq A => B = A
  <2> DEFINE I == 1..n
  <2>1. T \in SUBSET (SUBSET I) /\ T # {} /\ IsFiniteSet(I)
    BY <1>1
  <2> HIDE DEF T, I
  <2> QED BY <2>1, Smallest
<1>3. PICK x \in S : A = 1..x
  BY <1>2
<1>4. ASSUME NEW y \in S, ~(x <= y) PROVE FALSE
  <2>1. x \in Nat /\ y \in Nat /\ y < x /\ x >= 1
    BY <1>4
  <2>2. 1..y \in T /\ 1..y \subseteq 1..x
    BY <2>1
  <2>3. x \in 1..x /\ x \notin 1..y
    BY <2>1
  <2> QED BY <1>2, <1>3, <2>2, <2>3
<1> QED BY <1>4

-----------------------------------------------------------------------------
(* The recursion of the fold, and that it has one solution.                *)
Some(s) == CHOOSE x \in s : TRUE
Body(f, g, s) == IF s = {} THEN 0 ELSE f[Some(s)] + g[s \ {Some(s)}]
Solves(f, S, g) == g = [s \in SUBSET S |-> Body(f, g, s)]
Iter(f, S) == CHOOSE g : Solves(f, S, g)

(* The library's sum is that solution.                                     *)
LEMMA SumIs == \A f, S : SumFunctionOnSet(f, S) = Iter(f, S)[S]
  BY DEF SumFunctionOnSet, FoldFunctionOnSet, MapThenFoldSet, Iter, Solves, Body, Some

LEMMA SomeIn == \A s : s # {} => Some(s) \in s
  BY DEF Some

LEMMA SolutionsAgree ==
  ASSUME NEW f, NEW A, IsFiniteSet(A), NEW B, NEW g, NEW h, Solves(f, A, g), Solves(f, B, h)
  PROVE  \A s \in SUBSET (A \cap B) : g[s] = h[s]
<1> DEFINE T == {s \in SUBSET (A \cap B) : g[s] # h[s]}
<1> SUFFICES ASSUME T # {} PROVE FALSE
  OBVIOUS
<1>1. PICK s \in T : \A r \in T : r \subseteq s => r = s
  <2>1. T \in SUBSET (SUBSET A)
    OBVIOUS
  <2> HIDE DEF T
  <2> QED BY <2>1, Smallest
<1>2. g[s] = Body(f, g, s) /\ h[s] = Body(f, h, s)
  BY DEF Solves
<1>3. s # {}
  BY <1>2 DEF Body
<1>4. s \ {Some(s)} \notin T
  BY <1>1, <1>3, SomeIn
<1>5. g[s \ {Some(s)}] = h[s \ {Some(s)}]
  BY <1>4
<1> QED BY <1>2, <1>3, <1>5 DEF Body

LEMMA Solvable ==
  ASSUME NEW f, NEW S, IsFiniteSet(S)
  PROVE  \A A \in SUBSET S : Solves(f, A, Iter(f, A))
<1> DEFINE T == {A \in SUBSET S : ~ \E g : Solves(f, A, g)}
<1>1. ASSUME T # {} PROVE FALSE
  <2>1. PICK A \in T : \A B \in T : B \subseteq A => B = A
    <3>1. T \in SUBSET (SUBSET S)
      OBVIOUS
    <3> HIDE DEF T
    <3> QED BY <3>1, <1>1, Smallest
  <2>2. \A B \in SUBSET A : B # A => Solves(f, B, Iter(f, B))
    <3>1. \A B \in SUBSET A : B # A => \E g : Solves(f, B, g)
      BY <2>1
    <3> QED BY <3>1 DEF Iter
  <2> DEFINE v == [B \in SUBSET A |-> Iter(f, B)[B]]
             g == [B \in SUBSET A |-> Body(f, v, B)]
  <2>3. ASSUME NEW B \in SUBSET A, B # A
        PROVE  g[B] = v[B]
    <3>1. Iter(f, B)[B] = Body(f, Iter(f, B), B)
      BY <2>2, <2>3 DEF Solves
    <3>2. CASE B = {}
      BY <3>1, <3>2 DEF Body
    <3>3. CASE B # {}
      <4> DEFINE C == B \ {Some(B)}
      <4>1. C \in SUBSET A /\ C # A
        BY <3>3, SomeIn
      <4>2. Iter(f, B)[C] = Iter(f, C)[C]
        <5>1. Solves(f, B, Iter(f, B)) /\ Solves(f, C, Iter(f, C))
          BY <2>2, <2>3, <4>1
        <5>2. IsFiniteSet(B) /\ C \in SUBSET (B \cap C)
          BY FS_Subset
        <5> HIDE DEF C
        <5> QED BY <5>1, <5>2, SolutionsAgree
      <4> QED BY <3>1, <3>3, <4>1, <4>2 DEF Body
    <3> QED BY <3>2, <3>3
  <2>4. \A B \in SUBSET A : Body(f, g, B) = Body(f, v, B)
    <3> SUFFICES ASSUME NEW B \in SUBSET A, B # {}
                 PROVE  g[B \ {Some(B)}] = v[B \ {Some(B)}]
      BY DEF Body
    <3>1. B \ {Some(B)} \in SUBSET A /\ B \ {Some(B)} # A
      BY SomeIn
    <3> HIDE DEF g, v
    <3> QED BY <2>3, <3>1
  <2>5. Solves(f, A, g)
    BY <2>4 DEF Solves
  <2> QED BY <2>5
<1>2. \A A \in SUBSET S : \E g : Solves(f, A, g)
  BY <1>1
<1> QED BY <1>2 DEF Iter

-----------------------------------------------------------------------------
LEMMA SumOfNone == \A f : SumFunctionOnSet(f, {}) = 0
<1> TAKE f
<1>1. Solves(f, {}, Iter(f, {}))
  BY Solvable, FS_EmptySet
<1> QED BY <1>1, SumIs DEF Solves, Body

LEMMA SumStep ==
  ASSUME NEW f, NEW S, IsFiniteSet(S), S # {}
  PROVE  SumFunctionOnSet(f, S) = f[Some(S)] + SumFunctionOnSet(f, S \ {Some(S)})
<1> DEFINE R == S \ {Some(S)}
<1>1. Solves(f, S, Iter(f, S)) /\ Solves(f, R, Iter(f, R))
  BY Solvable
<1>2. Iter(f, S)[R] = Iter(f, R)[R]
  <2>1. R \in SUBSET (S \cap R)
    OBVIOUS
  <2> HIDE DEF R
  <2>2. ASSUME NEW g, NEW h, Solves(f, S, g), Solves(f, R, h)
        PROVE  g[R] = h[R]
    BY <2>1, <2>2, SolutionsAgree
  <2> QED BY <1>1, <2>2
<1>3. Iter(f, S)[S] = f[Some(S)] + Iter(f, S)[R]
  BY <1>1 DEF Solves, Body
<1> QED BY <1>2, <1>3, SumIs

(* A total of integers is an integer, and of naturals a natural.           *)
LEMMA SumInt ==
  ASSUME NEW S, IsFiniteSet(S), NEW f, \A x \in S : f[x] \in Int
  PROVE  SumFunctionOnSet(f, S) \in Int
<1> DEFINE T == {A \in SUBSET S : SumFunctionOnSet(f, A) \notin Int}
<1> SUFFICES ASSUME T # {} PROVE FALSE
  OBVIOUS
<1>1. PICK A \in T : \A B \in T : B \subseteq A => B = A
  <2>1. T \in SUBSET (SUBSET S)
    OBVIOUS
  <2> HIDE DEF T
  <2> QED BY <2>1, Smallest
<1>2. A # {}
  <2>1. SumFunctionOnSet(f, {}) = 0
    BY SumOfNone
  <2> QED BY <2>1
<1>3. IsFiniteSet(A)
  BY FS_Subset
<1>4. SumFunctionOnSet(f, A) = f[Some(A)] + SumFunctionOnSet(f, A \ {Some(A)})
  BY <1>2, <1>3, SumStep
<1>5. SumFunctionOnSet(f, A \ {Some(A)}) \in Int
  BY <1>1, <1>2, SomeIn
<1>6. f[Some(A)] \in Int
  BY <1>2, SomeIn
<1> QED BY <1>4, <1>5, <1>6

LEMMA SumNat ==
  ASSUME NEW S, IsFiniteSet(S), NEW f, \A x \in S : f[x] \in Nat
  PROVE  SumFunctionOnSet(f, S) \in Nat
<1> DEFINE T == {A \in SUBSET S : SumFunctionOnSet(f, A) \notin Nat}
<1> SUFFICES ASSUME T # {} PROVE FALSE
  OBVIOUS
<1>1. PICK A \in T : \A B \in T : B \subseteq A => B = A
  <2>1. T \in SUBSET (SUBSET S)
    OBVIOUS
  <2> HIDE DEF T
  <2> QED BY <2>1, Smallest
<1>2. A # {}
  <2>1. SumFunctionOnSet(f, {}) = 0
    BY SumOfNone
  <2> QED BY <2>1
<1>3. IsFiniteSet(A)
  BY FS_Subset
<1>4. SumFunctionOnSet(f, A) = f[Some(A)] + SumFunctionOnSet(f, A \ {Some(A)})
  BY <1>2, <1>3, SumStep
<1>5. SumFunctionOnSet(f, A \ {Some(A)}) \in Nat
  BY <1>1, <1>2, SomeIn
<1>6. f[Some(A)] \in Nat
  BY <1>2, SomeIn
<1> QED BY <1>4, <1>5, <1>6

(* A function that differs at one index.                                   *)
LEMMA SumChanged ==
  ASSUME NEW S, IsFiniteSet(S), NEW f, NEW g, NEW y,
         \A x \in S : f[x] \in Int /\ g[x] \in Int,
         \A x \in S \ {y} : g[x] = f[x]
  PROVE  SumFunctionOnSet(g, S) =
           IF y \in S THEN SumFunctionOnSet(f, S) + (g[y] - f[y]) ELSE SumFunctionOnSet(f, S)
<1> DEFINE Want(A) == IF y \in A THEN SumFunctionOnSet(f, A) + (g[y] - f[y]) ELSE SumFunctionOnSet(f, A)
           T == {A \in SUBSET S : SumFunctionOnSet(g, A) # Want(A)}
<1> SUFFICES ASSUME T # {} PROVE FALSE
  OBVIOUS
<1>1. PICK A \in T : \A B \in T : B \subseteq A => B = A
  <2>1. T \in SUBSET (SUBSET S)
    OBVIOUS
  <2> HIDE DEF T
  <2> QED BY <2>1, Smallest
<1>2. A # {}
  BY <1>1, SumOfNone
<1>3. IsFiniteSet(A) /\ IsFiniteSet(A \ {Some(A)})
  BY FS_Subset
<1>4. /\ SumFunctionOnSet(f, A) = f[Some(A)] + SumFunctionOnSet(f, A \ {Some(A)})
      /\ SumFunctionOnSet(g, A) = g[Some(A)] + SumFunctionOnSet(g, A \ {Some(A)})
  BY <1>2, <1>3, SumStep
<1>5. SumFunctionOnSet(g, A \ {Some(A)}) = Want(A \ {Some(A)})
  BY <1>1, <1>2, SomeIn
<1>6. Some(A) \in A
  BY <1>2, SomeIn
<1>7. /\ SumFunctionOnSet(f, A \ {Some(A)}) \in Int
      /\ f[Some(A)] \in Int /\ g[Some(A)] \in Int
  BY <1>3, <1>6, SumInt
<1>8. y \in A => f[y] \in Int /\ g[y] \in Int
  OBVIOUS
<1>9. SumFunctionOnSet(g, A) # Want(A)
  BY <1>1
<1>10. CASE Some(A) = y
  BY <1>4, <1>5, <1>6, <1>7, <1>8, <1>9, <1>10
<1>11. CASE Some(A) # y
  <2>1. g[Some(A)] = f[Some(A)]
    BY <1>6, <1>11
  <2> QED BY <1>4, <1>5, <1>6, <1>7, <1>8, <1>9, <1>11, <2>1
<1> QED BY <1>10, <1>11

(* Functions that agree on the indices.                                    *)
LEMMA SumSame ==
  ASSUME NEW S, IsFiniteSet(S), NEW f, NEW g, \A x \in S : g[x] = f[x]
  PROVE  SumFunctionOnSet(g, S) = SumFunctionOnSet(f, S)
<1> DEFINE T == {A \in SUBSET S : SumFunctionOnSet(g, A) # SumFunctionOnSet(f, A)}
<1> SUFFICES ASSUME T # {} PROVE FALSE
  OBVIOUS
<1>1. PICK A \in T : \A B \in T : B \subseteq A => B = A
  <2>1. T \in SUBSET (SUBSET S)
    OBVIOUS
  <2> HIDE DEF T
  <2> QED BY <2>1, Smallest
<1>2. A # {}
  BY <1>1, SumOfNone
<1>3. IsFiniteSet(A)
  BY FS_Subset
<1>4. /\ SumFunctionOnSet(f, A) = f[Some(A)] + SumFunctionOnSet(f, A \ {Some(A)})
      /\ SumFunctionOnSet(g, A) = g[Some(A)] + SumFunctionOnSet(g, A \ {Some(A)})
  BY <1>2, <1>3, SumStep
<1>5. SumFunctionOnSet(g, A \ {Some(A)}) = SumFunctionOnSet(f, A \ {Some(A)})
  BY <1>1, <1>2, SomeIn
<1> QED BY <1>1, <1>2, <1>4, <1>5, SomeIn

(* An index taken out, whichever it is.                                    *)
LEMMA SumWithout ==
  ASSUME NEW S, IsFiniteSet(S), NEW f, \A x \in S : f[x] \in Int, NEW y \in S
  PROVE  SumFunctionOnSet(f, S) = f[y] + SumFunctionOnSet(f, S \ {y})
<1> DEFINE T == {A \in SUBSET S : \E z \in A : SumFunctionOnSet(f, A) # f[z] + SumFunctionOnSet(f, A \ {z})}
<1>1. ASSUME T # {} PROVE FALSE
  <2>1. PICK A \in T : \A B \in T : B \subseteq A => B = A
    <3>1. T \in SUBSET (SUBSET S)
      OBVIOUS
    <3> HIDE DEF T
    <3> QED BY <3>1, <1>1, Smallest
  <2>2. PICK z \in A : SumFunctionOnSet(f, A) # f[z] + SumFunctionOnSet(f, A \ {z})
    OBVIOUS
  <2> DEFINE a == Some(A)
             D == A \ {a}
             E == A \ {z}
  <2>3. a \in A
    BY SomeIn
  <2>4. IsFiniteSet(A) /\ IsFiniteSet(D) /\ IsFiniteSet(E) /\ IsFiniteSet(D \ {z})
    BY FS_Subset
  <2>5. SumFunctionOnSet(f, A) = f[a] + SumFunctionOnSet(f, D)
    BY <2>4, SumStep
  <2>6. a # z
    BY <2>2, <2>5
  <2>7. D \notin T /\ E \notin T
    BY <2>1, <2>3
  <2>8. SumFunctionOnSet(f, D) = f[z] + SumFunctionOnSet(f, D \ {z})
    BY <2>6, <2>7
  <2>9. SumFunctionOnSet(f, E) = f[a] + SumFunctionOnSet(f, E \ {a})
    BY <2>3, <2>6, <2>7
  <2>10. E \ {a} = D \ {z}
    OBVIOUS
  <2>11. f[a] \in Int /\ f[z] \in Int
    BY <2>3
  <2>12. SumFunctionOnSet(f, D \ {z}) \in Int
    BY <2>4, SumInt
  <2>13. SumFunctionOnSet(f, A) # f[z] + SumFunctionOnSet(f, E)
    BY <2>2
  <2>14. SumFunctionOnSet(f, E) = f[a] + SumFunctionOnSet(f, D \ {z})
    BY <2>9, <2>10
  <2>15. SumFunctionOnSet(f, A) = f[a] + (f[z] + SumFunctionOnSet(f, D \ {z}))
    BY <2>5, <2>8
  <2> HIDE DEF a, D, E, T
  <2> QED BY <2>11, <2>12, <2>13, <2>14, <2>15
<1>2. S \notin T
  BY <1>1
<1> QED BY <1>2

(* An amount moved from one index to another leaves the total as it was.   *)
LEMMA SumMoved ==
  ASSUME NEW S, IsFiniteSet(S), NEW f, NEW g, NEW x \in S, NEW y \in S, x # y,
         \A z \in S : f[z] \in Int /\ g[z] \in Int,
         g[x] + g[y] = f[x] + f[y],
         \A z \in S : z # x /\ z # y => g[z] = f[z]
  PROVE  SumFunctionOnSet(g, S) = SumFunctionOnSet(f, S)
<1> DEFINE m == [z \in S |-> IF z = x THEN g[z] ELSE f[z]]
<1>1. \A z \in S : m[z] \in Int /\ f[z] \in Int /\ g[z] \in Int
  OBVIOUS
<1>2. m[x] = g[x] /\ m[y] = f[y]
  OBVIOUS
<1>3. \A z \in S \ {x} : m[z] = f[z]
  OBVIOUS
<1>4. \A z \in S \ {y} : g[z] = m[z]
  OBVIOUS
<1>5. IsFiniteSet(S) /\ x \in S /\ y \in S
  OBVIOUS
<1> HIDE DEF m
<1>6. SumFunctionOnSet(m, S) = SumFunctionOnSet(f, S) + (m[x] - f[x])
  BY ONLY <1>1, <1>3, <1>5, SumChanged
<1>7. SumFunctionOnSet(g, S) = SumFunctionOnSet(m, S) + (g[y] - m[y])
  BY ONLY <1>1, <1>4, <1>5, SumChanged
<1>8. SumFunctionOnSet(f, S) \in Int
  BY ONLY <1>1, <1>5, SumInt
<1>9. g[x] + g[y] = f[x] + f[y]
  OBVIOUS
<1> QED BY ONLY <1>1, <1>2, <1>5, <1>6, <1>7, <1>8, <1>9
=============================================================================
