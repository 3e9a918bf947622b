----------------------------- MODULE RingLemmas -----------------------------
(***************************************************************************)
(* Arithmetic of ring buffers and wrapping counters, used by the proofs    *)
(* about the job map, the ring of recent shares and the cluster job ids;   *)
(* and the least element of a set of numbers, which replaces induction.    *)
(***************************************************************************)
EXTENDS Integers, WellFoundedInduction, TLAPS

\* Multiples of a positive number: M times a factor of at least one is at
\* least M.
LEMMA MultipleAtLeast ==
  ASSUME NEW M \in Nat \ {0}, NEW q \in Int, q >= 1
  PROVE  M * q >= M
  OBVIOUS

\* Quotient and remainder of a division by a positive number.
LEMMA DivisionFacts ==
  ASSUME NEW M \in Nat \ {0}, NEW a \in Nat
  PROVE  /\ a \div M \in Nat
         /\ a % M \in 0 .. (M - 1)
         /\ a = M * (a \div M) + (a % M)
  OBVIOUS

\* Two numbers less than M apart have different remainders: cells of a ring
\* written within one turn are different cells.
LEMMA RemaindersDiffer ==
  ASSUME NEW M \in Nat \ {0}, NEW a \in Nat, NEW d \in 1 .. (M - 1)
  PROVE  (a + d) % M # a % M
<1> SUFFICES ASSUME (a + d) % M = a % M PROVE FALSE
  OBVIOUS
<1> DEFINE p == a \div M
           q == (a + d) \div M
           r == a % M
<1>1. a = M * p + r /\ p \in Int /\ r \in Int
  BY DivisionFacts
<1>2. a + d = M * q + r /\ q \in Int
  BY DivisionFacts
<1> HIDE DEF p, q, r
<1>3. d = M * (q - p)
  BY <1>1, <1>2
<1>4. CASE q - p >= 1
  BY <1>1, <1>2, <1>3, <1>4, MultipleAtLeast
<1>5. CASE q - p <= 0
  <2>1. M * (p - q) >= 0
    BY <1>1, <1>2, <1>5
  <2>2. M * (p - q) = -(M * (q - p))
    BY <1>1, <1>2
  <2> QED
    BY <2>1, <2>2, <1>3
<1> QED
  BY <1>1, <1>2, <1>4, <1>5

\* Reducing a summand does not change the remainder of a sum.
LEMMA RemainderOfSum ==
  ASSUME NEW M \in Nat \ {0}, NEW a \in Nat, NEW b \in Nat
  PROVE  ((a % M) + b) % M = (a + b) % M
<1> DEFINE p == a \div M
           r == a % M
           q == (r + b) \div M
           u == (r + b) % M
           v == (a + b) \div M
           w == (a + b) % M
<1>1. a = M * p + r /\ p \in Nat /\ r \in Nat
  BY DivisionFacts
<1>2. r + b = M * q + u /\ q \in Nat /\ u \in 0 .. (M - 1)
  <2>1. r + b \in Nat
    BY <1>1
  <2> HIDE DEF r
  <2> QED
    BY <2>1, DivisionFacts
<1>3. a + b = M * v + w /\ v \in Nat /\ w \in 0 .. (M - 1)
  <2>1. a + b \in Nat
    OBVIOUS
  <2> QED
    BY <2>1, DivisionFacts
<1> HIDE DEF p, q, r, u, v, w
<1>4. u - w = M * (v - (p + q))
  BY <1>1, <1>2, <1>3
<1>5. CASE v - (p + q) >= 1
  BY <1>1, <1>2, <1>3, <1>4, <1>5, MultipleAtLeast
<1>6. CASE (p + q) - v >= 1
  <2>1. w - u = M * ((p + q) - v)
    BY <1>1, <1>2, <1>3, <1>4
  <2> QED
    BY <1>1, <1>2, <1>3, <1>6, <2>1, MultipleAtLeast
<1>7. CASE v = p + q
  BY <1>1, <1>2, <1>3, <1>7 DEF u, w, r
<1> QED
  BY <1>1, <1>2, <1>3, <1>5, <1>6, <1>7

\* A set of natural numbers that is not empty has a least element: the first
\* cell that matches, or, in the place of induction, the first iteration of
\* a loop after which a claim fails.
LEMMA LeastNumber ==
  ASSUME NEW T \in SUBSET Nat, T # {}
  PROVE  \E n \in T : \A k \in T : n <= k
<1> DEFINE R == OpToRel(<, Nat)
<1>1. R = {ss \in Nat \X Nat : ss[1] < ss[2]}
  BY DEF OpToRel
<1>2. IsWellFoundedOn(R, Nat)
  BY NatLessThanWellFounded
<1> HIDE DEF R
<1>3. PICK n \in T : \A k \in T : ~(<<k, n>> \in R)
  BY <1>2, WFMin
<1>4. \A k \in T : ~(k < n)
  BY <1>1, <1>3
<1> QED
  BY <1>4
=============================================================================
