----------------------------- MODULE BasicFacts -----------------------------
(***************************************************************************)
(* Facts that the proofs of the components share: induction over the       *)
(* natural numbers, for sets in the place of predicates so that the        *)
(* provers can instantiate it, the existence of functions defined by       *)
(* recursion (both from the well-foundedness of <), what division by a     *)
(* parameter yields, and the elements of sequences that are put together.  *)
(***************************************************************************)
EXTENDS Integers, Sequences, WellFoundedInduction, TLAPS

\* Every set of natural numbers that is not empty has a least element.
LEMMA LeastNatural ==
    ASSUME NEW T \in SUBSET Nat, T # {}
    PROVE  \E x \in T : \A y \in T : x <= y
  <1> DEFINE R == OpToRel(<, Nat)
  <1>1. IsWellFoundedOn(R, Nat)  BY NatLessThanWellFounded
  <1>2. \A x, y \in Nat : x < y => <<x, y>> \in R  BY DEF OpToRel
  <1> HIDE DEF R
  <1>3. PICK x \in T : \A y \in T : ~ (<<y, x>> \in R)  BY <1>1, WFMin
  <1>4. \A y \in T : ~ (y < x)  BY <1>2, <1>3
  <1>5. \A y \in T : x <= y  BY <1>4
  <1> QED  BY <1>5

\* A set that holds zero and with each number below N the next one holds 0 .. N.
LEMMA InductionUpTo ==
    ASSUME NEW N \in Nat, NEW S, 0 \in S, \A n \in 0 .. N - 1 : n \in S => n + 1 \in S
    PROVE  \A n \in 0 .. N : n \in S
  <1> DEFINE Outside == {n \in 0 .. N : n \notin S}
  <1> SUFFICES ASSUME Outside # {} PROVE FALSE  OBVIOUS
  <1>1. Outside \in SUBSET Nat  OBVIOUS
  <1>2. PICK x \in Outside : \A y \in Outside : x <= y  BY <1>1, LeastNatural
  <1>3. x # 0 /\ x \in 0 .. N /\ x \notin S  BY <1>2
  <1>4. x - 1 \in 0 .. N - 1 /\ x - 1 \in 0 .. N  BY <1>3
  <1>5. x - 1 \in S  BY <1>2, <1>4
  <1>6. (x - 1) + 1 \in S  BY <1>4, <1>5
  <1> QED  BY <1>3, <1>6

\* f is the function on 0 .. N that begins with c and goes on by G.
Recursive(f, N, T, c, G) ==
    f \in [0 .. N -> T] /\ f[0] = c /\ \A k \in 1 .. N : f[k] = G[k][f[k - 1]]

LEMMA Recursion ==
    ASSUME NEW N \in Nat, NEW T, NEW c \in T, NEW G \in [1 .. N -> [T -> T]]
    PROVE  \E f : Recursive(f, N, T, c, G)
  <1> DEFINE Good(n, f) == f[0] = c /\ \A k \in 1 .. n : f[k] = G[k][f[k - 1]]
             S == {n \in 0 .. N : \E f \in [0 .. n -> T] : Good(n, f)}
  <1>1. 0 \in S
    <2> DEFINE f == [i \in 0 .. 0 |-> c]
    <2>1. f \in [0 .. 0 -> T]  OBVIOUS
    <2>2. Good(0, f)  OBVIOUS
    <2> HIDE DEF f, Good
    <2>3. \E e \in [0 .. 0 -> T] : Good(0, e)  BY <2>1, <2>2
    <2> QED  BY <2>3
  <1>2. ASSUME NEW n \in 0 .. N - 1, n \in S PROVE n + 1 \in S
    <2>1. PICK f \in [0 .. n -> T] : Good(n, f)  BY <1>2
    <2> DEFINE g == [i \in 0 .. n + 1 |-> IF i = n + 1 THEN G[n + 1][f[n]] ELSE f[i]]
    <2>2. n + 1 \in 1 .. N /\ n \in 0 .. n  OBVIOUS
    <2>3. g \in [0 .. n + 1 -> T]  BY <2>2
    <2>4. \A i \in 0 .. n : g[i] = f[i]  OBVIOUS
    <2>5. g[n + 1] = G[n + 1][f[n]]  OBVIOUS
    <2> HIDE DEF g
    <2>6. g[0] = c  BY <2>1, <2>4
    <2>7. ASSUME NEW k \in 1 .. n + 1 PROVE g[k] = G[k][g[k - 1]]
      <3>1. CASE k = n + 1  BY <3>1, <2>4, <2>5
      <3>2. CASE k # n + 1
        <4>1. k \in 1 .. n /\ k \in 0 .. n /\ k - 1 \in 0 .. n  BY <3>2
        <4> QED  BY <4>1, <2>1, <2>4
      <3> QED  BY <3>1, <3>2
    <2> QED  BY <2>2, <2>3, <2>6, <2>7, SMTT(30)
  <1> HIDE DEF S
  <1>3. \A n \in 0 .. N : n \in S  BY <1>1, <1>2, InductionUpTo
  <1>4. N \in S  BY <1>3
  <1> QED  BY <1>4 DEF S, Recursive

-----------------------------------------------------------------------------
\* The quotient and the remainder exist, and nothing else is one.
LEMMA Division ==
    ASSUME NEW p \in Nat \ {0}, NEW a \in Int
    PROVE  /\ a \div p \in Int /\ (a % p) \in 0 .. p - 1
           /\ a = p * (a \div p) + (a % p)
  BY SMT

LEMMA SmallMultiple ==
    ASSUME NEW p \in Nat \ {0}, NEW d \in Int, NEW k \in Int, p * d = k, -p < k, k < p
    PROVE  k = 0
  <1>1. CASE d >= 1
    <2>1. p * d >= p  BY <1>1, SMT
    <2> QED  BY <2>1
  <1>2. CASE d <= -1
    <2>1. p * d <= -p  BY <1>2, SMT
    <2> QED  BY <2>1
  <1>3. CASE d = 0  BY <1>3, SMT
  <1> QED  BY <1>1, <1>2, <1>3

LEMMA Remainder ==
    ASSUME NEW p \in Nat \ {0}, NEW q \in Int, NEW r \in 0 .. p - 1,
           NEW a \in Int, a = p * q + r
    PROVE  (a % p) = r
  <1>1. /\ a \div p \in Int /\ (a % p) \in 0 .. p - 1
        /\ a = p * (a \div p) + (a % p)
    BY Division
  <1>2. p * (q - (a \div p)) = (a % p) - r  BY <1>1, SMT
  <1>3. (a % p) - r = 0
    <2> DEFINE d == q - (a \div p)
               k == (a % p) - r
    <2>1. d \in Int /\ k \in Int /\ -p < k /\ k < p  BY <1>1
    <2>2. p * d = k  BY <1>2
    <2> HIDE DEF d, k
    <2>3. k = 0  BY <2>1, <2>2, SmallMultiple
    <2> QED  BY <2>3 DEF k
  <1> QED  BY <1>1, <1>3

-----------------------------------------------------------------------------
LEMMA Appended ==
    ASSUME NEW S, NEW s \in Seq(S), NEW e \in S
    PROVE  /\ Append(s, e) \in Seq(S) /\ Len(Append(s, e)) = Len(s) + 1
           /\ Append(s, e)[Len(s) + 1] = e
           /\ \A k \in 1 .. Len(s) : Append(s, e)[k] = s[k]
  OBVIOUS

LEMMA Joined ==
    ASSUME NEW S, NEW s \in Seq(S), NEW t \in Seq(S)
    PROVE  /\ s \o t \in Seq(S) /\ Len(s \o t) = Len(s) + Len(t)
           /\ \A k \in 1 .. Len(s) : (s \o t)[k] = s[k]
           /\ \A k \in Len(s) + 1 .. Len(s) + Len(t) : (s \o t)[k] = t[k - Len(s)]
  OBVIOUS
=============================================================================
