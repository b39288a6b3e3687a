------------------------------- MODULE Loops -------------------------------
(***************************************************************************)
(* Lemmas about searches and loops, which the models write with Min and    *)
(* with recursive functions.  The provers cannot instantiate the library's *)
(* induction theorems, so induction is a lemma about sets of numbers.      *)
(***************************************************************************)
EXTENDS Integers, FiniteSetsExt, WellFoundedInduction, TLAPS

\* A search in index order returns the lowest match.
LEMMA MinIsMember ==
  ASSUME NEW S \in SUBSET Nat, S # {}
  PROVE  Min(S) \in S /\ \A j \in S : Min(S) <= j
<1> DEFINE R == OpToRel(<, Nat)
<1>1. \E i \in S : \A j \in S : ~(<<j, i>> \in R)
  BY NatLessThanWellFounded, WFMin
<1>2. \A i, j \in Nat : j < i => <<j, i>> \in R
  BY Zenon DEF OpToRel
<1> HIDE DEF R
<1>3. PICK i \in S : \A j \in S : ~(<<j, i>> \in R)
  BY <1>1
<1>4. \A j \in S : ~(j < i)
  BY <1>2, <1>3
<1>5. \A j \in S : i <= j
  BY <1>4
<1> QED
  BY <1>5 DEF Min

\* What holds of 0 and of the successor of whatever it holds of, holds of
\* every number up to n.
LEMMA UpTo ==
  ASSUME NEW n \in Nat, NEW T \in SUBSET (0 .. n), 0 \in T,
         \A m \in 0 .. n - 1 : m \in T => m + 1 \in T
  PROVE  T = 0 .. n
<1> DEFINE S == (0 .. n) \ T
<1>1. SUFFICES ASSUME S # {} PROVE FALSE
  OBVIOUS
<1>2. S \in SUBSET Nat
  OBVIOUS
<1> HIDE DEF S
<1> DEFINE m == Min(S)
<1>3. m \in S /\ \A j \in S : m <= j
  BY <1>1, <1>2, MinIsMember
<1> HIDE DEF m
<1>4. m \in 0 .. n /\ m \notin T /\ m # 0
  BY <1>3 DEF S
<1>5. m - 1 \in 0 .. n - 1 /\ ~(m <= m - 1)
  BY <1>4
<1>6. m - 1 \in T
  BY <1>3, <1>5 DEF S
<1>7. (m - 1) + 1 \in T
  BY <1>5, <1>6
<1> QED
  BY <1>4, <1>7

\* The values of a loop of n rounds that starts from q: round m makes F[m]
\* of the value before it.
HasRun(n, Q, F, q) ==
  \E s \in [0 .. n -> Q] : s[0] = q /\ \A m \in 1 .. n : s[m] = F[m][s[m - 1]]

\* If each round takes one member of Q to another, the loop has values: the
\* recursive function that a model defines it with exists.
LEMMA LoopExists ==
  ASSUME NEW n \in Nat, NEW Q, NEW F \in [1 .. n -> [Q -> Q]], NEW q \in Q
  PROVE  HasRun(n, Q, F, q)
<1> DEFINE Runs(s, k) == s[0] = q /\ \A m \in 1 .. k : s[m] = F[m][s[m - 1]]
           T == {k \in 0 .. n : \E s \in [0 .. n -> Q] : Runs(s, k)}
<1>1. 0 \in T
  <2> DEFINE z == [m \in 0 .. n |-> q]
  <2>1. z \in [0 .. n -> Q] /\ z[0] = q /\ 0 \in 0 .. n
    OBVIOUS
  <2> HIDE DEF z
  <2>2. Runs(z, 0)
    BY <2>1
  <2> QED
    BY <2>1, <2>2
<1>2. ASSUME NEW k \in 0 .. n - 1, k \in T
      PROVE  k + 1 \in T
  <2>1. PICK s \in [0 .. n -> Q] : Runs(s, k)
    BY <1>2
  <2> DEFINE x == F[k + 1][s[k]]
             t == [s EXCEPT ![k + 1] = x]
  <2>2. k \in 0 .. n /\ k + 1 \in 0 .. n /\ k + 1 \in 1 .. n /\ s[k] \in Q
    OBVIOUS
  <2>3. x \in Q
    BY <2>2
  <2> HIDE DEF x
  <2>4. t \in [0 .. n -> Q] /\ t[0] = q /\ t[k + 1] = x /\ t[k] = s[k]
    BY <2>1, <2>2, <2>3
  <2>5. ASSUME NEW m \in 1 .. k + 1
        PROVE  t[m] = F[m][t[m - 1]]
    <3>1. CASE m = k + 1
      <4>1. m - 1 = k
        BY <3>1
      <4> QED
        BY <2>4, <3>1, <4>1 DEF x
    <3>2. CASE m # k + 1
      <4>1. m \in 1 .. k /\ m - 1 # k + 1 /\ m \in 0 .. n /\ m - 1 \in 0 .. n
        BY <3>2
      <4>2. t[m] = s[m] /\ t[m - 1] = s[m - 1]
        BY <3>2, <4>1
      <4> QED
        BY <2>1, <4>1, <4>2
    <3> QED
      BY <3>1, <3>2
  <2> HIDE DEF t
  <2>6. Runs(t, k + 1)
    BY <2>4, <2>5
  <2> QED
    BY <2>2, <2>4, <2>6
<1> HIDE DEF T
<1>3. T = 0 .. n
  <2>1. T \in SUBSET (0 .. n)
    BY DEF T
  <2> QED
    BY <1>1, <1>2, <2>1, UpTo
<1>4. n \in T
  BY <1>3
<1> QED
  BY <1>4 DEF T, HasRun

============================================================================
