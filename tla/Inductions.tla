----------------------------- MODULE Inductions -----------------------------
(***************************************************************************)
(* Induction over the natural numbers without an operator as a parameter:  *)
(* the property is a set.  The proofs about loops rest on these lemmas.    *)
(***************************************************************************)
EXTENDS Integers, WellFoundedInduction, TLAPS

(* A set of naturals that is not empty has a least element.                *)
LEMMA LeastNat ==
  ASSUME NEW S \in SUBSET Nat, S # {}
  PROVE \E x \in S : \A y \in S : x <= y
<1> DEFINE R == {ss \in Nat \X Nat : ss[1] < ss[2]}
<1>1. IsWellFoundedOn(R, Nat)
  BY NatLessThanWellFounded DEF OpToRel
<1>2. PICK x \in S : \A y \in S : ~(<<y, x>> \in R)
  BY <1>1, WFMin
<1>3. ASSUME NEW y \in S PROVE x <= y
  <2>1. x \in Nat /\ y \in Nat
    OBVIOUS
  <2>2. CASE y < x
    <3>1. <<y, x>> \in R
      BY <2>1, <2>2
    <3> QED BY <1>2, <3>1
  <2> QED BY <2>1, <2>2
<1> QED BY <1>3

(* Induction up to n, for the members of a set: what holds of 0 and is     *)
(* handed on below n holds up to n.                                        *)
LEMMA InductionTo ==
  ASSUME NEW n \in Nat, NEW S, 0 \in S, \A k \in 1 .. n : k - 1 \in S => k \in S
  PROVE  \A k \in 0 .. n : k \in S
<1> SUFFICES ASSUME NEW m \in 0 .. n, m \notin S PROVE FALSE
  OBVIOUS
<1> DEFINE left == {k \in 0 .. n : k \notin S}
<1>1. left \in SUBSET Nat /\ left # {}
  OBVIOUS
<1>2. PICK x \in left : \A y \in left : x <= y
  BY <1>1, LeastNat
<1>3. x \in 1 .. n /\ x - 1 \in 0 .. n
  OBVIOUS
<1>4. x - 1 \notin left
  BY <1>2, <1>3
<1> QED
  BY <1>3, <1>4

(* f is the recursion over 0 .. n that starts at base and takes the steps. *)
Recursively(f, n, base, step) ==
  f[0] = base /\ \A k \in 1 .. n : f[k] = step[k][f[k - 1]]
StepsUpTo(n, T) == [1 .. n -> [T -> T]]

(* A recursion over 0 .. n has a solution when its step stays in a set.    *)
LEMMA RecursionTo ==
  ASSUME NEW n \in Nat, NEW T, NEW base \in T, NEW step \in StepsUpTo(n, T)
  PROVE  \E f \in [0 .. n -> T] : Recursively(f, n, base, step)
<1> DEFINE Solves(f, m) == f[0] = base /\ \A k \in 1 .. m : f[k] = step[k][f[k - 1]]
           S == {m \in 0 .. n : \E f \in [0 .. n -> T] : Solves(f, m)}
<1>1. 0 \in S
  <2> DEFINE f == [k \in 0 .. n |-> base]
  <2>1. f \in [0 .. n -> T] /\ Solves(f, 0)
    OBVIOUS
  <2> HIDE DEF f, Solves
  <2>2. \E g \in [0 .. n -> T] : Solves(g, 0)
    BY <2>1
  <2> QED BY <2>2
<1>2. ASSUME NEW m \in 1 .. n, m - 1 \in S PROVE m \in S
  <2>1. PICK f \in [0 .. n -> T] : Solves(f, m - 1)
    BY <1>2
  <2> DEFINE g == [f EXCEPT ![m] = step[m][f[m - 1]]]
  <2>2. m - 1 \in 0 .. n /\ f[m - 1] \in T /\ step[m] \in [T -> T]
    BY DEF StepsUpTo
  <2>3. g \in [0 .. n -> T]
    BY <2>2
  <2>4. g[0] = base
    BY <2>1
  <2>5. ASSUME NEW k \in 1 .. m PROVE g[k] = step[k][g[k - 1]]
    <3>1. g[k - 1] = f[k - 1]
      OBVIOUS
    <3>2. CASE k = m
      BY <3>1, <3>2
    <3>3. CASE k # m
      BY <2>1, <3>1, <3>3
    <3> QED BY <3>2, <3>3
  <2>6. Solves(g, m)
    BY <2>4, <2>5
  <2> HIDE DEF g, Solves
  <2>7. \E h \in [0 .. n -> T] : Solves(h, m)
    BY <2>3, <2>6
  <2> QED BY <2>7
<1> HIDE DEF S
<1>3. \A k \in 1 .. n : k - 1 \in S => k \in S
  BY <1>2
<1>4. \A k \in 0 .. n : k \in S
  BY <1>1, <1>3, InductionTo, Zenon
<1>5. n \in S
  BY <1>4
<1>6. \E f \in [0 .. n -> T] : Solves(f, n)
  BY <1>5 DEF S
<1> QED BY <1>6 DEF Recursively
=============================================================================
