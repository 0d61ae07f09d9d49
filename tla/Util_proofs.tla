----------------------------- MODULE Util_proofs -----------------------------
(***************************************************************************)
(* The arbiter and afifo of HW/src/util, and the registers the kernel      *)
(* compiler gives out (SW/compiler/graph.cpp).  The arbiter: for any       *)
(* number of signals, none is granted twice while another one waits.       *)
(* afifo: for any depth, any length of the synchronisers and any order of  *)
(* the edges of the two clocks, it is a queue and shows its oldest value.  *)
(* Registers: for any graph, variables alive together have different ones. *)
(* What Gray code does to a number of any width, and what a loop over the  *)
(* variables does, is shown by the induction of SetInduction.              *)
(***************************************************************************)
EXTENDS AFifo, Arbiter, KernelColor, SequenceTheorems, FiniteSetTheorems, WellFoundedInduction, TLAPS

-----------------------------------------------------------------------------
(* The arbiter. *)

\* The signals visited in the cyclic order after i up to l.
Visited(i, l) ==
  {k \in Signals : \/ i < k /\ k <= l
                   \/ l < i /\ (i < k \/ k <= l)}

\* With l granted last, the signals that overtook i were granted once, and all
\* of them lie on the way from i to l: the search for the next grant has not
\* come round to i yet.
RoundRobin(l) ==
  /\ gnt_r = Above(l)
  /\ \A i, j \in Signals :
       /\ overtaken[i][j] <= 1
       /\ overtaken[i][j] = 1 => j \in Visited(i, l)

ArbiterInv == ArbiterTypeOK /\ \E l \in Signals : RoundRobin(l)

\* At reset the search starts at signal 0, as if the last one had been granted.
LEMMA ArbiterInitInv ==
  ASSUME AtLeastOneSignal
  PROVE  ArbiterInit => ArbiterInv
<1> SUFFICES ASSUME ArbiterInit PROVE ArbiterInv
  OBVIOUS
<1>1. ArbiterTypeOK
  BY DEF ArbiterInit, ArbiterTypeOK
<1>2. NUM_SIGNALS - 1 \in Signals
  BY DEF AtLeastOneSignal, Signals
<1>3. Above(NUM_SIGNALS - 1) = {}
  BY DEF AtLeastOneSignal, Above, Signals
<1>4. RoundRobin(NUM_SIGNALS - 1)
  BY <1>3 DEF ArbiterInit, RoundRobin
<1> QED BY <1>1, <1>2, <1>4 DEF ArbiterInv

\* The next grant lies strictly after l and not after any waiting signal, so it
\* has not overtaken a waiting signal before.
LEMMA GrantIsNew ==
  ASSUME AtLeastOneSignal, NEW l \in Signals, gnt_r = Above(l), NEW req_in \in SUBSET Signals,
         NEW g \in Signals, Grant(g, req_in), NEW i \in req_in, i # g
  PROVE  /\ g \notin Visited(i, l)
         /\ g \in Visited(i, g)
         /\ \A j \in Visited(i, l) : j \in Visited(i, g)
<1>1. CASE req_in \cap gnt_r # {}
  <2>1. g > l /\ \A k \in req_in : k > l => g <= k
    BY <1>1 DEF AtLeastOneSignal, Grant, Lowest, Above, Signals
  <2> QED BY <2>1 DEF AtLeastOneSignal, Visited, Signals
<1>2. CASE req_in \cap gnt_r = {}
  <2>1. /\ g \in req_in
        /\ \A k \in req_in : g <= k
        /\ \A k \in req_in : k <= l
    BY <1>2 DEF AtLeastOneSignal, Grant, Lowest, Above, Signals
  <2> QED BY <2>1 DEF AtLeastOneSignal, Visited, Signals
<1> QED BY <1>1, <1>2

\* Every clock edge preserves the round robin.
LEMMA ArbiterNextInv ==
  ASSUME AtLeastOneSignal
  PROVE  ArbiterInv /\ [ArbiterNext]_arbiter_vars => ArbiterInv'
<1> SUFFICES ASSUME ArbiterInv, [ArbiterNext]_arbiter_vars PROVE ArbiterInv'
  OBVIOUS
<1>1. CASE UNCHANGED arbiter_vars
  BY <1>1 DEF arbiter_vars, ArbiterInv, ArbiterTypeOK, RoundRobin
<1>2. ASSUME NEW req_in \in SUBSET Signals, ArbiterClock(req_in)
      PROVE  ArbiterInv'
  <2>1. PICK l \in Signals : RoundRobin(l)
    BY DEF ArbiterInv
  <2>2. CASE /\ req_in = {}
             /\ overtaken' = [i \in Signals |-> [j \in Signals |-> 0]]
             /\ UNCHANGED gnt_r
    <3>1. ArbiterTypeOK'
      BY <2>2 DEF ArbiterInv, ArbiterTypeOK
    <3>2. RoundRobin(l)'
      BY <2>1, <2>2 DEF RoundRobin
    <3> QED BY <3>1, <3>2 DEF ArbiterInv
  <2>3. ASSUME NEW g \in Signals, Grant(g, req_in), gnt_r' = Above(g),
               overtaken' =
                 [i \in Signals |-> [j \in Signals |->
                    IF i \notin req_in \/ i = g THEN 0
                    ELSE overtaken[i][j] + (IF j = g THEN 1 ELSE 0)]]
        PROVE  ArbiterInv'
    <3>1. ArbiterTypeOK'
      BY <2>3 DEF ArbiterInv, ArbiterTypeOK, Above
    <3>2. ASSUME NEW i \in Signals, NEW j \in Signals
          PROVE  /\ overtaken'[i][j] <= 1
                 /\ overtaken'[i][j] = 1 => j \in Visited(i, g)
      <4>1. CASE i \notin req_in \/ i = g
        BY <4>1, <2>3
      <4>2. CASE i \in req_in /\ i # g
        <5>1. /\ g \notin Visited(i, l)
              /\ g \in Visited(i, g)
              /\ \A k \in Visited(i, l) : k \in Visited(i, g)
          BY <4>2, <2>1, <2>3, GrantIsNew DEF RoundRobin
        <5>2. /\ overtaken[i][j] \in Nat /\ overtaken[i][j] <= 1
              /\ overtaken[i][j] = 1 => j \in Visited(i, l)
          BY <2>1 DEF ArbiterInv, ArbiterTypeOK, RoundRobin
        <5>3. overtaken'[i][j] = overtaken[i][j] + (IF j = g THEN 1 ELSE 0)
          BY <4>2, <2>3
        <5> QED BY <5>1, <5>2, <5>3
      <4> QED BY <4>1, <4>2
    <3>3. RoundRobin(g)'
      BY <2>3, <3>2 DEF RoundRobin
    <3> QED BY <3>1, <3>3 DEF ArbiterInv
  <2> QED BY <1>2, <2>2, <2>3 DEF ArbiterClock
<1> QED BY <1>1, <1>2 DEF ArbiterNext

\* A waiting signal is overtaken at most once by each of the others.
THEOREM NoStarvation ==
  ASSUME AtLeastOneSignal
  PROVE  ArbiterSpec => []OvertakenAtMostOnce
<1>1. ArbiterInv => OvertakenAtMostOnce
  BY DEF ArbiterInv, RoundRobin, OvertakenAtMostOnce
<1> QED BY <1>1, ArbiterInitInv, ArbiterNextInv, PTL DEF ArbiterSpec
-----------------------------------------------------------------------------
(* Induction, from the least-number principle for sets. *)

\* A set of natural numbers that is not empty has a least member.
LEMMA Smallest ==
  ASSUME NEW T, T \subseteq Nat, T # {}
  PROVE  \E x \in T : \A y \in T : x <= y
 <1> DEFINE R == OpToRel(<, Nat)
 <1>1. IsWellFoundedOn(R, Nat) BY NatLessThanWellFounded
 <1> HIDE DEF R
 <1>2. PICK x \in T : \A y \in T : ~(<<y, x>> \in R) BY <1>1, WFMin, Zenon
 <1>3. \A y \in T : ~(y < x) BY <1>2 DEF R, OpToRel
 <1> QED BY <1>3

\* So a set with 0 in it that is closed under successor has them all.
LEMMA SetInduction ==
  ASSUME NEW T, 0 \in T, \A n \in Nat : n \in T => n + 1 \in T
  PROVE  Nat \subseteq T
  <1> SUFFICES ASSUME Nat \ T # {} PROVE FALSE OBVIOUS
  <1>1. PICK x \in Nat \ T : \A y \in Nat \ T : x <= y BY Smallest
  <1>2. x # 0 /\ x - 1 \in Nat BY <1>1
  <1>3. x - 1 \in T BY <1>1, <1>2
  <1>4. (x - 1) + 1 \in T BY <1>2, <1>3
  <1> QED BY <1>1, <1>2, <1>4

-----------------------------------------------------------------------------
(* Powers of two, from the number of subsets of an interval. *)

Pow(i) == 2^i

LEMMA PowSubsets ==
  ASSUME NEW n \in Nat
  PROVE  IsFiniteSet(SUBSET (1 .. n)) /\ Cardinality(SUBSET (1 .. n)) = Pow(n)
  <1>1. IsFiniteSet(1 .. n) /\ Cardinality(1 .. n) = n
    BY FS_Interval
  <1> QED BY <1>1, FS_SUBSET, Zenon DEF Pow

LEMMA PowNat ==
  ASSUME NEW n \in Nat PROVE Pow(n) \in Nat
  BY PowSubsets, FS_CardinalityType

LEMMA PowZero == Pow(0) = 1
  <1>1. 1 .. 0 = {} OBVIOUS
  <1>2. SUBSET {} = {{}} OBVIOUS
  <1>3. Cardinality({{}}) = 1 BY FS_Singleton
  <1> QED BY <1>1, <1>2, <1>3, PowSubsets

LEMMA PowNext ==
  ASSUME NEW n \in Nat
  PROVE  Pow(n + 1) = 2 * Pow(n)
  <1> DEFINE A == SUBSET (1 .. n)
             B == {T \cup {n + 1} : T \in A}
             f == [T \in A |-> T \cup {n + 1}]
  <1>1. A \cup B = SUBSET (1 .. n + 1)
    <2>1. 1 .. n + 1 = (1 .. n) \cup {n + 1} OBVIOUS
    <2>2. ASSUME NEW T \in SUBSET (1 .. n + 1) PROVE T \in A \cup B
      <3>1. CASE n + 1 \in T
        <4>1. T \ {n + 1} \in A BY <2>1
        <4>2. T = (T \ {n + 1}) \cup {n + 1} BY <3>1
        <4> QED BY <4>1, <4>2
      <3>2. CASE n + 1 \notin T BY <2>1, <3>2
      <3> QED BY <3>1, <3>2
    <2>3. A \subseteq SUBSET (1 .. n + 1) BY <2>1
    <2>4. B \subseteq SUBSET (1 .. n + 1) BY <2>1
    <2> HIDE DEF A, B
    <2> QED BY <2>2, <2>3, <2>4
  <1>2. A \cap B = {}
    <2>1. n + 1 \notin 1 .. n OBVIOUS
    <2>2. \A T \in A : n + 1 \notin T BY <2>1
    <2>3. \A T \in B : n + 1 \in T OBVIOUS
    <2> HIDE DEF A, B
    <2> QED BY <2>2, <2>3
  <1>3. f \in Bijection(A, B)
    <2>1. \A T, U \in A : f[T] = f[U] => T = U
      <3> SUFFICES ASSUME NEW T \in A, NEW U \in A, f[T] = f[U] PROVE T = U OBVIOUS
      <3>1. n + 1 \notin T /\ n + 1 \notin U OBVIOUS
      <3>2. T = f[T] \ {n + 1} /\ U = f[U] \ {n + 1} BY <3>1
      <3> QED BY <3>2
    <2>2. f \in [A -> B] OBVIOUS
    <2>3. \A y \in B : \E T \in A : f[T] = y OBVIOUS
    <2> HIDE DEF A, B, f
    <2> QED BY <2>1, <2>2, <2>3 DEF Bijection, Injection, Surjection, IsInjective
  <1>4. IsFiniteSet(A) /\ Cardinality(A) = Pow(n) /\ Pow(n) \in Nat
    BY PowSubsets, PowNat
  <1> HIDE DEF A, B, f
  <1>5. IsFiniteSet(B) /\ Cardinality(B) = Pow(n)
    BY <1>3, <1>4, FS_Bijection DEF ExistsBijection
  <1>6. Cardinality(A \cup B) = Cardinality(A) + Cardinality(B) - Cardinality(A \cap B)
    BY <1>4, <1>5, FS_Union
  <1>7. Cardinality(A \cap B) = 0 BY <1>2, FS_EmptySet
  <1>8. Cardinality(A \cup B) = Pow(n + 1) BY <1>1, PowSubsets
  <1> QED BY <1>4, <1>5, <1>6, <1>7, <1>8

LEMMA PowPositive == \A n \in Nat : Pow(n) \in Nat /\ Pow(n) >= 1
  <1> DEFINE T == {n \in Nat : Pow(n) >= 1}
  <1>1. 0 \in T BY PowZero
  <1>2. \A n \in Nat : n \in T => n + 1 \in T BY PowNext, PowNat
  <1>3. Nat \subseteq T BY <1>1, <1>2, SetInduction, Zenon
  <1> QED BY <1>3, PowNat

\* A power of two divides the larger ones.
LEMMA PowDivides ==
  ASSUME NEW i \in Nat, NEW j \in Nat, i <= j
  PROVE  \E k \in Nat : Pow(j) = k * Pow(i)
  <1> DEFINE T == {d \in Nat : \E k \in Nat : Pow(i + d) = k * Pow(i)}
  <1>0. Pow(i) \in Nat BY PowNat
  <1>1. 0 \in T
    <2>1. Pow(i + 0) = 1 * Pow(i) BY <1>0
    <2> QED BY <2>1
  <1>2. ASSUME NEW d \in Nat, d \in T PROVE d + 1 \in T
    <2>1. PICK k \in Nat : Pow(i + d) = k * Pow(i) BY <1>2
    <2>2. Pow((i + d) + 1) = 2 * Pow(i + d) BY PowNext
    <2>3. (i + d) + 1 = i + (d + 1) OBVIOUS
    <2>4. 2 * (k * Pow(i)) = (2 * k) * Pow(i) BY <1>0
    <2>5. Pow(i + (d + 1)) = (2 * k) * Pow(i) BY <2>1, <2>2, <2>3, <2>4
    <2> QED BY <2>5
  <1>3. Nat \subseteq T BY <1>1, <1>2, SetInduction, Zenon
  <1>4. j - i \in Nat /\ i + (j - i) = j OBVIOUS
  <1>5. j - i \in T BY <1>3, <1>4
  <1> QED BY <1>4, <1>5

-----------------------------------------------------------------------------
(* Division. *)

LEMMA DivModOf ==
  ASSUME NEW x \in Nat, NEW p \in Nat, p >= 1
  PROVE  x \div p \in Nat /\ x % p \in 0 .. p - 1 /\ x = (x \div p) * p + (x % p)
  <1>1. x \div p \in Int /\ x % p \in 0 .. p - 1 OBVIOUS
  <1>2. x = p * (x \div p) + (x % p) OBVIOUS
  <1>3. x \div p >= 0 OBVIOUS
  <1>4. p * (x \div p) = (x \div p) * p BY <1>1
  <1> QED BY <1>1, <1>2, <1>3, <1>4

\* A number is a multiple and a rest in one way only.
LEMMA DivIsUnique ==
  ASSUME NEW d \in Nat, NEW p \in Nat, NEW r \in 0 .. p - 1, NEW x, x = d * p + r
  PROVE  x \in Nat /\ x \div p = d /\ x % p = r
  <1> DEFINE e == x \div p
             t == x % p
  <1>1. p >= 1 /\ d * p \in Nat /\ x \in Nat OBVIOUS
  <1>2. e \in Nat /\ t \in 0 .. p - 1 /\ x = e * p + t BY <1>1, DivModOf, Zenon
  <1> HIDE DEF e, t
  <1>3. \A a, b \in Nat : a < b => a * p + p <= b * p
    <2> SUFFICES ASSUME NEW a \in Nat, NEW b \in Nat, a < b PROVE a * p + p <= b * p
      OBVIOUS
    <2>1. a + 1 <= b /\ a + 1 \in Nat OBVIOUS
    <2>2. (a + 1) * p <= b * p BY <2>1
    <2>3. (a + 1) * p = a * p + p OBVIOUS
    <2> QED BY <2>2, <2>3
  <1>4. e * p \in Nat BY <1>2
  <1>5. ~(d < e) BY <1>1, <1>2, <1>3, <1>4
  <1>6. ~(e < d) BY <1>1, <1>2, <1>3, <1>4
  <1>7. e = d BY <1>2, <1>5, <1>6
  <1>8. t = r BY <1>1, <1>2, <1>7
  <1> QED BY <1>1, <1>7, <1>8 DEF e, t

LEMMA DivNext ==
  ASSUME NEW x \in Nat, NEW p \in Nat, p >= 1
  PROVE  (x + 1) \div p = (x \div p) + (IF (x + 1) % p = 0 THEN 1 ELSE 0)
  <1> DEFINE d == x \div p
             r == x % p
  <1>1. d \in Nat /\ r \in 0 .. p - 1 /\ x = d * p + r BY DivModOf, Zenon
  <1> HIDE DEF d, r
  <1>2. d * p \in Nat BY <1>1
  <1>3. CASE r = p - 1
    <2>1. (d + 1) * p = d * p + p BY <1>1
    <2>2. x + 1 = (d + 1) * p + 0 /\ d + 1 \in Nat /\ 0 \in 0 .. p - 1
      BY <1>1, <1>2, <1>3, <2>1
    <2> DEFINE y == x + 1
               e == d + 1
               t == 0
    <2> HIDE DEF y, e, t
    <2>3. y = e * p + t /\ e \in Nat /\ t \in 0 .. p - 1 BY <2>2 DEF y, e, t
    <2>4. y \div p = e /\ y % p = t BY <2>3, DivIsUnique
    <2>5. (x + 1) \div p = d + 1 /\ (x + 1) % p = 0 BY <2>4 DEF y, e, t
    <2> QED BY <2>5, <1>1 DEF d
  <1>4. CASE r # p - 1
    <2>1. x + 1 = d * p + (r + 1) /\ r + 1 \in 0 .. p - 1 BY <1>1, <1>2, <1>4
    <2> DEFINE y == x + 1
               t == r + 1
    <2> HIDE DEF y, t
    <2>2. y = d * p + t /\ t \in 0 .. p - 1 BY <2>1 DEF y, t
    <2>3. y \div p = d /\ y % p = t BY <1>1, <2>2, DivIsUnique
    <2>4. (x + 1) \div p = d /\ (x + 1) % p # 0 BY <1>1, <2>3 DEF y, t
    <2> QED BY <2>4, <1>1 DEF d
  <1> QED BY <1>3, <1>4

LEMMA DivTwice ==
  ASSUME NEW x \in Nat, NEW p \in Nat, p >= 1
  PROVE  x \div (2 * p) = (x \div p) \div 2
  <1> DEFINE d == x \div p
             r == x % p
             e == d \div 2
             f == d % 2
  <1>1. d \in Nat /\ r \in 0 .. p - 1 /\ x = d * p + r BY DivModOf, Zenon
  <1> HIDE DEF d, r
  <1>2. e \in Nat /\ f \in {0, 1} /\ d = 2 * e + f BY <1>1
  <1> HIDE DEF e, f
  <1>3. (2 * e + f) * p = e * (2 * p) + f * p BY <1>2
  <1>4. e * (2 * p) \in Nat BY <1>2
  <1>5. f * p \in {0, p} BY <1>2
  <1>6. x = e * (2 * p) + (f * p + r) /\ f * p + r \in 0 .. 2 * p - 1
    BY <1>1, <1>2, <1>3, <1>4, <1>5
  <1>7. 2 * p \in Nat OBVIOUS
  <1>8. x \div (2 * p) = e BY <1>2, <1>6, <1>7, DivIsUnique
  <1> QED BY <1>8 DEF e, d

-----------------------------------------------------------------------------
(* The bits of a number and its Gray code. *)

LEMMA BitOf ==
  ASSUME NEW n, NEW i
  PROVE  Bit(n, i) <=> (n \div Pow(i)) % 2 = 1
BY Zenon DEF Bit, Pow

\* Counting flips bit i when the bits below are all set.
LEMMA BitNext ==
  ASSUME NEW n \in Nat, NEW i \in Nat
  PROVE  ~(Bit(n + 1, i) <=> Bit(n, i)) <=> (n + 1) % Pow(i) = 0
  <1> DEFINE p == Pow(i)
             d == n \div p
             e == (n + 1) \div p
             z == (n + 1) % p = 0
  <1>1. p \in Nat /\ p >= 1 BY PowPositive
  <1> HIDE DEF p
  <1>2. d \in Nat BY <1>1, DivModOf
  <1>3. e = d + (IF z THEN 1 ELSE 0) BY <1>1, DivNext
  <1>4. (Bit(n, i) <=> d % 2 = 1) /\ (Bit(n + 1, i) <=> e % 2 = 1)
    BY BitOf, Zenon DEF p
  <1> HIDE DEF d, e, z
  <1>5. ~(e % 2 = 1 <=> d % 2 = 1) <=> z BY <1>2, <1>3
  <1> QED BY <1>4, <1>5 DEF z, p

\* A multiple of a power of two is one of the smaller powers, ...
LEMMA MultipleOfSmaller ==
  ASSUME NEW m \in Nat, NEW i \in Nat, NEW j \in Nat, i <= j, m % Pow(j) = 0
  PROVE  m % Pow(i) = 0
  <1> DEFINE p == Pow(i)
             q2 == Pow(j)
             d == m \div q2
  <1>1. p \in Nat /\ p >= 1 /\ q2 \in Nat /\ q2 >= 1 BY PowPositive
  <1>2. PICK k \in Nat : q2 = k * p BY PowDivides
  <1>3. m % q2 = 0 OBVIOUS
  <1> HIDE DEF p, q2
  <1>4. d \in Nat /\ m = d * q2 + (m % q2) BY <1>1, DivModOf
  <1> HIDE DEF d
  <1>5. d * q2 = (d * k) * p /\ d * k \in Nat BY <1>1, <1>2, <1>4
  <1> DEFINE c == d * k
             z == 0
             x == m
  <1> HIDE DEF c, z, x
  <1>6. x = c * p + z /\ c \in Nat /\ z \in 0 .. p - 1
    BY <1>1, <1>3, <1>4, <1>5 DEF c, z, x
  <1>7. x % p = z BY <1>1, <1>6, DivIsUnique
  <1> QED BY <1>7 DEF z, p, x

\* ... and a larger one has a zero there.
LEMMA BitOfPow ==
  ASSUME NEW i \in Nat, NEW j \in Nat, i < j
  PROVE  ~Bit(Pow(j), i) /\ Pow(j) % Pow(i) = 0
  <1> DEFINE p == Pow(i)
  <1>1. p \in Nat /\ p >= 1 BY PowPositive
  <1>2. PICK k \in Nat : Pow(j) = k * Pow(i + 1) BY PowDivides
  <1>3. Pow(i + 1) = 2 * p BY PowNext
  <1> HIDE DEF p
  <1>4. k * (2 * p) = (2 * k) * p /\ 2 * k \in Nat BY <1>1
  <1> DEFINE c == 2 * k
             z == 0
             x == Pow(j)
  <1>5. c % 2 = 0 OBVIOUS
  <1> HIDE DEF c, z, x
  <1>6. x = c * p + z /\ c \in Nat /\ z \in 0 .. p - 1
    BY <1>1, <1>2, <1>3, <1>4 DEF c, z, x
  <1>7. x \div p = c /\ x % p = z BY <1>1, <1>6, DivIsUnique
  <1>8. ~((x \div p) % 2 = 1) BY <1>5, <1>7
  <1>9. ~Bit(x, i) BY <1>8, BitOf, Zenon DEF p
  <1> QED BY <1>7, <1>9 DEF x, z, p

LEMMA BitOfZero ==
  ASSUME NEW i \in Nat
  PROVE  ~Bit(0, i)
  <1> DEFINE p == Pow(i)
  <1>1. p \in Nat /\ p >= 1 BY PowPositive
  <1> HIDE DEF p
  <1>2. 0 \div p = 0 BY <1>1
  <1>3. ~((0 \div p) % 2 = 1) BY <1>2
  <1> QED BY <1>3, BitOf, Zenon DEF p

\* What counting does to the Gray code: two of its bits never change together.
GrayBit(n, i) == ~(Bit(n, i) <=> Bit(n, i + 1))

LEMMA GrayNext ==
  ASSUME NEW n \in Nat, NEW i \in Nat, NEW j \in Nat, i < j
  PROVE  \/ GrayBit(n, i) <=> GrayBit(n + 1, i)
         \/ GrayBit(n, j) <=> GrayBit(n + 1, j)
  <1> DEFINE Flips(k) == (n + 1) % Pow(k) = 0
  <1>1. \A k \in Nat : ~(Bit(n + 1, k) <=> Bit(n, k)) <=> Flips(k) BY BitNext
  <1>2. \A k, l \in Nat : k <= l /\ Flips(l) => Flips(k)
    BY n + 1 \in Nat, MultipleOfSmaller
  <1> HIDE DEF Flips
  <1>3. \A k \in Nat : ~(GrayBit(n, k) <=> GrayBit(n + 1, k)) => Flips(k) /\ ~Flips(k + 1)
    <2> TAKE k \in Nat
    <2>1. k + 1 \in Nat /\ k <= k + 1 OBVIOUS
    <2>2. Flips(k + 1) => Flips(k) BY <1>2, <2>1
    <2>3. /\ ~(Bit(n + 1, k) <=> Bit(n, k)) <=> Flips(k)
          /\ ~(Bit(n + 1, k + 1) <=> Bit(n, k + 1)) <=> Flips(k + 1)
      BY <1>1, <2>1
    <2> QED BY <2>2, <2>3, Zenon DEF GrayBit
  <1>4. i + 1 \in Nat /\ i + 1 <= j OBVIOUS
  <1>5. Flips(j) => Flips(i + 1) BY <1>2, <1>4
  <1> QED BY <1>3, <1>5
-----------------------------------------------------------------------------
(* The pointers of afifo: counters of one bit more than an address. *)

Ptr == 0 .. (2 * Words - 1)

LEMMA WordsIsPow ==
  /\ Words = Pow(FIFO_DEPTH) /\ Words \in Nat /\ Words >= 4
  /\ 2 * Words = Pow(FIFO_DEPTH + 1)
  /\ FIFO_DEPTH \in Nat /\ FIFO_DEPTH >= 2
  <1>1. FIFO_DEPTH \in Nat /\ FIFO_DEPTH >= 2 BY AFifoAssumption
  <1>2. Words = Pow(FIFO_DEPTH) BY Zenon DEF Words, Pow
  <1>3. Pow(FIFO_DEPTH + 1) = 2 * Pow(FIFO_DEPTH) BY <1>1, PowNext
  <1> DEFINE a == FIFO_DEPTH - 1
             b == FIFO_DEPTH - 2
  <1>4. a \in Nat /\ b \in Nat /\ b + 1 = a /\ a + 1 = FIFO_DEPTH BY <1>1
  <1> HIDE DEF a, b
  <1>5. Pow(b + 1) = 2 * Pow(b) /\ Pow(a + 1) = 2 * Pow(a) BY <1>4, PowNext
  <1>6. Pow(b) \in Nat /\ Pow(b) >= 1 /\ Pow(FIFO_DEPTH) \in Nat BY <1>1, <1>4, PowPositive
  <1>7. Pow(FIFO_DEPTH) = 2 * (2 * Pow(b)) BY <1>4, <1>5
  <1>8. Pow(FIFO_DEPTH) >= 4 BY <1>6, <1>7
  <1> QED BY <1>1, <1>2, <1>3, <1>6, <1>8

\* No pointer has a bit above the wrap bit, and all of them are set in the last.
LEMMA NoBitAbove ==
  ASSUME NEW n \in Ptr
  PROVE  ~Bit(n, FIFO_DEPTH + 1) /\ n \div Pow(FIFO_DEPTH + 1) = 0
  <1> DEFINE p == 2 * Words
             z == 0
             x == n
  <1>1. p \in Nat /\ p = Pow(FIFO_DEPTH + 1) BY WordsIsPow
  <1>2. n \in 0 .. p - 1 BY DEF Ptr
  <1> HIDE DEF p, z, x
  <1>3. n = z * p + x /\ z \in Nat /\ x \in 0 .. p - 1 BY <1>1, <1>2 DEF z, x
  <1>4. n \div p = z BY <1>1, <1>2, <1>3, DivIsUnique
  <1>5. ~((n \div p) % 2 = 1) BY <1>4 DEF z
  <1> QED BY <1>1, <1>4, <1>5, BitOf, Zenon DEF z

LEMMA GrayIs ==
  ASSUME NEW n, NEW i \in Bits
  PROVE  bin2gray(n)[i] \in BOOLEAN /\ (bin2gray(n)[i] <=> GrayBit(n, i))
  <1>1. bin2gray(n)[i] = (Bit(n, i) # Bit(n, i + 1)) BY Zenon DEF bin2gray
  <1>2. Bit(n, i) \in BOOLEAN /\ Bit(n, i + 1) \in BOOLEAN BY Zenon DEF Bit
  <1> HIDE DEF Bit, bin2gray
  <1>3. (Bit(n, i) # Bit(n, i + 1)) <=> GrayBit(n, i) BY <1>2, Zenon DEF GrayBit
  <1> QED BY <1>1, <1>3, Zenon

\* Where a pointer wraps only the highest bit of its Gray code changes.
LEMMA GrayWraps ==
  ASSUME NEW i \in Nat, i < FIFO_DEPTH
  PROVE  ~GrayBit(2 * Words - 1, i) /\ ~GrayBit(0, i)
  <1> DEFINE n == 2 * Words - 1
             j == FIFO_DEPTH + 1
  <1>1. n \in Nat /\ n + 1 = Pow(j) /\ j \in Nat BY WordsIsPow
  <1>2. i + 1 \in Nat /\ i < j /\ i + 1 < j BY WordsIsPow
  <1> HIDE DEF n, j
  <1>3. \A k \in Nat : k < j => Bit(n, k)
    <2> SUFFICES ASSUME NEW k \in Nat, k < j PROVE Bit(n, k) OBVIOUS
    <2>1. ~Bit(Pow(j), k) /\ Pow(j) % Pow(k) = 0 BY <1>1, BitOfPow
    <2>2. ~(Bit(n + 1, k) <=> Bit(n, k)) <=> (n + 1) % Pow(k) = 0 BY <1>1, BitNext
    <2> QED BY <1>1, <2>1, <2>2
  <1>4. Bit(n, i) /\ Bit(n, i + 1) BY <1>2, <1>3
  <1>5. ~Bit(0, i) /\ ~Bit(0, i + 1) BY <1>2, BitOfZero
  <1> QED BY <1>4, <1>5, Zenon DEF GrayBit, n

LEMMA NextIs ==
  ASSUME NEW n \in Ptr
  PROVE  /\ binary_next(n) \in Ptr
         /\ n + 1 < 2 * Words => binary_next(n) = n + 1
         /\ n + 1 >= 2 * Words => binary_next(n) = 0 /\ n = 2 * Words - 1
  <1> DEFINE p == 2 * Words
  <1>1. p \in Nat /\ p >= 1 /\ n \in 0 .. p - 1 BY WordsIsPow DEF Ptr
  <1> HIDE DEF p
  <1>2. n + 1 < p => (n + 1) % p = n + 1 BY <1>1
  <1>3. n + 1 >= p => n + 1 = p BY <1>1
  <1>4. p % p = 0 BY <1>1
  <1>5. binary_next(n) = (n + 1) % p BY DEF p, binary_next
  <1>6. binary_next(n) \in 0 .. p - 1 BY <1>1, <1>5
  <1> QED BY <1>1, <1>2, <1>3, <1>4, <1>5, <1>6 DEF Ptr, p

\* Two bits of the Gray code of a pointer never change together.
LEMMA OneBitChanges ==
  ASSUME NEW n \in Ptr, NEW i \in Bits, NEW j \in Bits, i < j
  PROVE  \/ bin2gray(n)[i] = bin2gray(binary_next(n))[i]
         \/ bin2gray(n)[j] = bin2gray(binary_next(n))[j]
  <1> DEFINE m == binary_next(n)
  <1>1. i \in Nat /\ j \in Nat /\ i < FIFO_DEPTH /\ n \in Nat BY WordsIsPow DEF Bits, Ptr
  <1>2. /\ m \in Ptr
        /\ n + 1 < 2 * Words => m = n + 1
        /\ n + 1 >= 2 * Words => m = 0 /\ n = 2 * Words - 1
    BY NextIs
  <1> HIDE DEF m
  <1>3. \/ GrayBit(n, i) <=> GrayBit(m, i)
        \/ GrayBit(n, j) <=> GrayBit(m, j)
    <2>1. CASE n + 1 < 2 * Words BY <1>1, <1>2, <2>1, GrayNext
    <2>2. CASE n + 1 >= 2 * Words BY <1>1, <1>2, <2>2, GrayWraps
    <2> QED BY <2>1, <2>2, <1>1, WordsIsPow
  <1>4. /\ bin2gray(n)[i] \in BOOLEAN /\ (bin2gray(n)[i] <=> GrayBit(n, i))
        /\ bin2gray(m)[i] \in BOOLEAN /\ (bin2gray(m)[i] <=> GrayBit(m, i))
        /\ bin2gray(n)[j] \in BOOLEAN /\ (bin2gray(n)[j] <=> GrayBit(n, j))
        /\ bin2gray(m)[j] \in BOOLEAN /\ (bin2gray(m)[j] <=> GrayBit(m, j))
    BY GrayIs, Zenon
  <1>5. \/ bin2gray(n)[i] = bin2gray(m)[i] \/ bin2gray(n)[j] = bin2gray(m)[j]
    BY <1>3, <1>4, Zenon
  <1> QED BY <1>5 DEF m

\* So a synchroniser that is clocked while a pointer counts catches the code of
\* the pointer before or after, and nothing else.
LEMMA SampleIsOldOrNew ==
  ASSUME NEW n \in Ptr, NEW old, NEW new,
         old = bin2gray(n), new = bin2gray(n) \/ new = bin2gray(binary_next(n)),
         NEW sample \in [Bits -> BOOLEAN], \A i \in Bits : sample[i] \in {old[i], new[i]}
  PROVE  sample = old \/ sample = new
  <1>1. \A i, j \in Bits : i < j => old[i] = new[i] \/ old[j] = new[j]
    BY OneBitChanges, Zenon
  <1>2. \A i, j \in Bits : i < j \/ j < i \/ i = j BY DEF Bits
  <1>3. /\ DOMAIN old = Bits /\ old = [i \in Bits |-> old[i]]
        /\ DOMAIN new = Bits /\ new = [i \in Bits |-> new[i]]
    BY Zenon DEF bin2gray
  <1>4. CASE \A i \in Bits : sample[i] = old[i]
    <2>1. sample = [i \in Bits |-> sample[i]] OBVIOUS
    <2> QED BY <1>3, <1>4, <2>1, Zenon
  <1>5. CASE \E i \in Bits : sample[i] # old[i]
    <2>1. PICK i \in Bits : sample[i] # old[i] BY <1>5
    <2>2. sample[i] = new[i] /\ old[i] # new[i] BY <2>1
    <2>3. \A j \in Bits : sample[j] = new[j]
      <3> TAKE j \in Bits
      <3>1. CASE i = j BY <2>2, <3>1
      <3>2. CASE i # j
        <4>1. old[j] = new[j] BY <1>1, <1>2, <2>2, <3>2
        <4> QED BY <4>1
      <3> QED BY <3>1, <3>2
    <2>4. sample = [k \in Bits |-> sample[k]] OBVIOUS
    <2> QED BY <1>3, <2>3, <2>4, Zenon
  <1> QED BY <1>4, <1>5

\* Different pointers have different codes.
LEMMA GrayInjective ==
  ASSUME NEW a \in Ptr, NEW b \in Ptr, bin2gray(a) = bin2gray(b)
  PROVE  a = b
  <1> DEFINE D == FIFO_DEPTH
             T == {k \in Nat : k <= D + 1 =>
                     a \div Pow((D + 1) - k) = b \div Pow((D + 1) - k)}
  <1>0. D \in Nat /\ a \in Nat /\ b \in Nat BY WordsIsPow DEF Ptr
  <1>z. a \div Pow(D + 1) = 0 /\ b \div Pow(D + 1) = 0 BY NoBitAbove
  <1>b. Bits = 0 .. D BY DEF Bits
  <1> HIDE DEF D
  <1>1. 0 \in T
    <2>1. (D + 1) - 0 = D + 1 BY <1>0
    <2> QED BY <1>z, <2>1
  <1>2. ASSUME NEW k \in Nat, k \in T PROVE k + 1 \in T
    <2>0. k + 1 \in Nat OBVIOUS
    <2> SUFFICES ASSUME k + 1 <= D + 1
                 PROVE  a \div Pow((D + 1) - (k + 1)) = b \div Pow((D + 1) - (k + 1))
      BY <2>0, Zenon
    <2> DEFINE i == D - k
               p == Pow(i)
               x == a \div p
               y == b \div p
    <2>1. i \in Nat /\ i \in Bits /\ (D + 1) - k = i + 1 /\ (D + 1) - (k + 1) = i
      BY <1>0, <1>b
    <2>2. a \div Pow(i + 1) = b \div Pow(i + 1) BY <1>2, <2>1, <1>0
    <2> HIDE DEF i
    <2>3. Bit(a, i + 1) <=> Bit(b, i + 1) BY <2>2, BitOf, Zenon
    <2>4. GrayBit(a, i) <=> GrayBit(b, i) BY <2>1, GrayIs, Zenon
    <2>5. Bit(a, i) <=> Bit(b, i) BY <2>3, <2>4, Zenon DEF GrayBit
    <2>6. (Bit(a, i) <=> x % 2 = 1) /\ (Bit(b, i) <=> y % 2 = 1) BY BitOf, Zenon
    <2>7. p \in Nat /\ p >= 1 /\ Pow(i + 1) = 2 * p BY <2>1, PowPositive, PowNext
    <2> HIDE DEF p
    <2>8. x \in Nat /\ y \in Nat BY <1>0, <2>7, DivModOf
    <2>9. x \div 2 = y \div 2 BY <1>0, <2>2, <2>7, DivTwice
    <2> HIDE DEF x, y
    <2>10. x % 2 = 1 <=> y % 2 = 1 BY <2>5, <2>6
    <2>11. x = y BY <2>8, <2>9, <2>10
    <2> QED BY <2>1, <2>11 DEF x, y, p
  <1>3. Nat \subseteq T BY <1>1, <1>2, SetInduction, Zenon
  <1>4. D + 1 \in T BY <1>0, <1>3
  <1>5. (D + 1) - (D + 1) = 0 /\ D + 1 <= D + 1 BY <1>0
  <1>6. a \div Pow(0) = b \div Pow(0) BY <1>4, <1>5
  <1>7. a \div 1 = b \div 1 BY <1>6, PowZero
  <1> QED BY <1>0, <1>7

LEMMA XorCancels ==
  ASSUME NEW t \in BOOLEAN, NEW n \in BOOLEAN, NEW u \in BOOLEAN, NEW m \in BOOLEAN,
         (t # n) = (u # m)
  PROVE  (t = u) <=> (n = m)
  <1>1. (t # n) <=> (u # m) BY Zenon
  <1>2. (t # n) <=> ~(t <=> n) BY Zenon
  <1>3. (u # m) <=> ~(u <=> m) BY Zenon
  <1>4. (t = u) <=> (t <=> u) BY Zenon
  <1>5. (n = m) <=> (n <=> m) BY Zenon
  <1> QED BY <1>1, <1>2, <1>3, <1>4, <1>5, Zenon

LEMMA SameIsEqual ==
  ASSUME NEW a \in Ptr, NEW b \in Ptr
  PROVE  Same(bin2gray(a), bin2gray(b)) <=> a = b
  <1> DEFINE g == bin2gray(a)
             h == bin2gray(b)
             D == FIFO_DEPTH
  <1>1. /\ g = [i \in Bits |-> g[i]] /\ h = [i \in Bits |-> h[i]]
        /\ \A i \in Bits : g[i] \in BOOLEAN /\ h[i] \in BOOLEAN
    BY GrayIs, Zenon DEF bin2gray
  <1>2. Bits = 0 .. D /\ D \in Nat /\ D >= 2 BY WordsIsPow DEF Bits
  <1>3. ASSUME a = b PROVE Same(g, h) BY <1>3 DEF Same
  <1>4. g = h => a = b BY GrayInjective
  <1>5. Same(g, h) <=> /\ g[D] = h[D]
                       /\ \A i \in 0 .. D - 2 : g[i] = h[i]
                       /\ (g[D] # g[D - 1]) = (h[D] # h[D - 1])
    BY DEF Same
  <1> HIDE DEF g, h, D
  <1>6. ASSUME Same(g, h) PROVE a = b
    <2>1. D \in Bits /\ D - 1 \in Bits BY <1>2
    <2>2. g[D - 1] = h[D - 1] BY <1>1, <1>5, <1>6, <2>1, XorCancels, Zenon
    <2>3. \A i \in Bits : i = D \/ i = D - 1 \/ i \in 0 .. D - 2 BY <1>2
    <2>4. \A i \in Bits : g[i] = h[i] BY <1>5, <1>6, <2>2, <2>3
    <2>5. g = h BY <1>1, <2>4, Zenon
    <2> QED BY <1>4, <2>5
  <1> QED BY <1>3, <1>6 DEF g, h

\* Half the range away from a pointer: the bits below the wrap bit are the same.
LEMMA BitsOfHalf ==
  ASSUME NEW b \in Addr
  PROVE  /\ \A i \in Nat : i < FIFO_DEPTH => (Bit(b + Words, i) <=> Bit(b, i))
         /\ ~Bit(b, FIFO_DEPTH) /\ Bit(b + Words, FIFO_DEPTH)
  <1>0. Words \in Nat /\ Words >= 4 /\ Words = Pow(FIFO_DEPTH) /\ FIFO_DEPTH \in Nat
    BY WordsIsPow
  <1>b. b \in Nat /\ b < Words BY <1>0 DEF Addr
  <1> HIDE DEF Words
  <1>1. ASSUME NEW i \in Nat, i < FIFO_DEPTH PROVE Bit(b + Words, i) <=> Bit(b, i)
    <2> DEFINE p == Pow(i)
               d == b \div p
               r == b % p
               x == b + Words
    <2>1. p \in Nat /\ p >= 1 BY PowPositive
    <2>2. i + 1 \in Nat /\ i + 1 <= FIFO_DEPTH BY <1>0, <1>1
    <2>3. PICK k \in Nat : Words = k * Pow(i + 1) BY <1>0, <2>2, PowDivides
    <2>4. Pow(i + 1) = 2 * p BY PowNext
    <2> HIDE DEF p
    <2>5. d \in Nat /\ r \in 0 .. p - 1 /\ b = d * p + r BY <1>b, <2>1, DivModOf, Zenon
    <2> HIDE DEF d, r
    <2> DEFINE e == d + 2 * k
    <2>6. e \in Nat BY <2>5
    <2>7. e * p = d * p + (2 * k) * p BY <2>1, <2>5
    <2>8. k * (2 * p) = (2 * k) * p BY <2>1
    <2>9. d * p \in Nat BY <2>1, <2>5
    <2>10. x = e * p + r BY <2>3, <2>4, <2>5, <2>7, <2>8, <2>9, <1>0, <1>b
    <2>11. e % 2 = d % 2 BY <2>5
    <2> HIDE DEF e, x
    <2>12. x \div p = e BY <2>1, <2>5, <2>6, <2>10, DivIsUnique
    <2>13. (x \div p) % 2 = (b \div p) % 2 BY <2>11, <2>12 DEF d
    <2>14. Bit(x, i) <=> Bit(b, i) BY <2>13, BitOf, Zenon DEF p
    <2> QED BY <2>14 DEF x
  <1>2. b \div Words = 0
    <2> DEFINE z == 0
               x == b
    <2> HIDE DEF z, x
    <2>1. x = z * Words + b /\ z \in Nat /\ b \in 0 .. Words - 1
      BY <1>0, <1>b DEF z, x
    <2>2. x \div Words = z BY <1>0, <2>1, DivIsUnique
    <2> QED BY <2>2 DEF x, z
  <1>3. (b + Words) \div Words = 1
    <2> DEFINE z == 1
               x == b + Words
    <2> HIDE DEF z, x
    <2>1. x = z * Words + b /\ z \in Nat /\ b \in 0 .. Words - 1
      BY <1>0, <1>b DEF z, x
    <2>2. x \div Words = z BY <1>0, <2>1, DivIsUnique
    <2> QED BY <2>2 DEF x, z
  <1>4. ~((b \div Words) % 2 = 1) /\ ((b + Words) \div Words) % 2 = 1 BY <1>2, <1>3
  <1>5. ~Bit(b, FIFO_DEPTH) /\ Bit(b + Words, FIFO_DEPTH)
    BY <1>0, <1>4, BitOf, Zenon
  <1> QED BY <1>1, <1>5

\* The pointer half the range away.
Half(b) == IF b < Words THEN b + Words ELSE b - Words

LEMMA GrayOfHalf ==
  ASSUME NEW b \in Ptr
  PROVE  /\ Half(b) \in Ptr
         /\ \A i \in 0 .. (FIFO_DEPTH - 2) : bin2gray(Half(b))[i] = bin2gray(b)[i]
         /\ bin2gray(Half(b))[FIFO_DEPTH] # bin2gray(b)[FIFO_DEPTH]
         /\ bin2gray(Half(b))[FIFO_DEPTH - 1] # bin2gray(b)[FIFO_DEPTH - 1]
  <1> DEFINE h == Half(b)
             D == FIFO_DEPTH
  <1>0. Words \in Nat /\ Words >= 4 /\ D \in Nat /\ D >= 2 BY WordsIsPow
  <1> HIDE DEF Words
  <1>1. h \in Ptr BY <1>0 DEF Half, Ptr
  <1>2. /\ \A i \in Nat : i < D => (Bit(h, i) <=> Bit(b, i))
        /\ ~(Bit(h, D) <=> Bit(b, D))
    <2>1. CASE b < Words
      <3>1. h = b + Words /\ b \in Addr BY <1>0, <2>1 DEF Half, Ptr, Addr
      <3> QED BY <3>1, BitsOfHalf
    <2>2. CASE ~(b < Words)
      <3>1. b = h + Words /\ h \in Addr BY <1>0, <2>2 DEF Half, Ptr, Addr
      <3> QED BY <3>1, BitsOfHalf
    <2> QED BY <2>1, <2>2
  <1>3. ~Bit(h, D + 1) /\ ~Bit(b, D + 1) BY <1>1, NoBitAbove
  <1>4. D \in Bits /\ D - 1 \in Bits /\ \A i \in 0 .. D - 2 : i \in Bits BY <1>0 DEF Bits
  <1>5. D - 1 \in Nat /\ D - 1 < D /\ (D - 1) + 1 = D BY <1>0
  <1>6. \A i \in 0 .. D - 2 : i \in Nat /\ i < D /\ i + 1 \in Nat /\ i + 1 < D BY <1>0
  <1>7. ~(GrayBit(h, D) <=> GrayBit(b, D)) BY <1>2, <1>3, Zenon DEF GrayBit
  <1>8. ~(GrayBit(h, D - 1) <=> GrayBit(b, D - 1))
    BY <1>2, <1>5, Zenon DEF GrayBit
  <1>9. \A i \in 0 .. D - 2 : GrayBit(h, i) <=> GrayBit(b, i)
    BY <1>2, <1>6, Zenon DEF GrayBit
  <1> HIDE DEF h, D
  <1>10. \A i \in Bits : /\ bin2gray(h)[i] \in BOOLEAN /\ (bin2gray(h)[i] <=> GrayBit(h, i))
                         /\ bin2gray(b)[i] \in BOOLEAN /\ (bin2gray(b)[i] <=> GrayBit(b, i))
    BY GrayIs, Zenon
  <1>11. \A i \in 0 .. D - 2 : bin2gray(h)[i] = bin2gray(b)[i] BY <1>4, <1>9, <1>10, Zenon
  <1>12. bin2gray(h)[D] # bin2gray(b)[D] BY <1>4, <1>7, <1>10, Zenon
  <1>13. bin2gray(h)[D - 1] # bin2gray(b)[D - 1] BY <1>4, <1>8, <1>10, Zenon
  <1> QED BY <1>1, <1>11, <1>12, <1>13 DEF h, D

LEMMA OppositeIsHalf ==
  ASSUME NEW a \in Ptr, NEW b \in Ptr
  PROVE  Opposite(bin2gray(a), bin2gray(b)) <=> a = Half(b)
  <1> DEFINE g == bin2gray(a)
             h == bin2gray(b)
             c == bin2gray(Half(b))
             D == FIFO_DEPTH
  <1>0. Bits = 0 .. D /\ D \in Nat /\ D >= 2 BY WordsIsPow DEF Bits
  <1>1. /\ g = [i \in Bits |-> g[i]] /\ c = [i \in Bits |-> c[i]]
        /\ \A i \in Bits : g[i] \in BOOLEAN /\ h[i] \in BOOLEAN /\ c[i] \in BOOLEAN
    BY GrayIs, Zenon DEF bin2gray
  <1>2. /\ \A i \in 0 .. (D - 2) : c[i] = h[i]
        /\ c[D] # h[D] /\ c[D - 1] # h[D - 1]
    BY GrayOfHalf
  <1>3. g = c => a = Half(b) BY GrayOfHalf, GrayInjective
  <1>4. a = Half(b) => g = c OBVIOUS
  <1>5. Opposite(g, h) <=> /\ g[D] # h[D]
                           /\ \A i \in 0 .. D - 2 : g[i] = h[i]
                           /\ (g[D] # g[D - 1]) = (h[D] # h[D - 1])
    BY DEF Opposite
  <1> HIDE DEF g, h, c, D
  <1>6. D \in Bits /\ D - 1 \in Bits /\ \A i \in Bits : i = D \/ i = D - 1 \/ i \in 0 .. D - 2
    BY <1>0
  <1>7. ASSUME Opposite(g, h) PROVE g = c
    <2>1. g[D] = c[D] BY <1>1, <1>2, <1>5, <1>6, <1>7, Zenon
    <2>2. g[D - 1] # h[D - 1] BY <1>1, <1>5, <1>6, <1>7, XorCancels, Zenon
    <2>3. g[D - 1] = c[D - 1] BY <1>1, <1>2, <1>6, <2>2, Zenon
    <2>4. \A i \in Bits : g[i] = c[i] BY <1>2, <1>5, <1>6, <1>7, <2>1, <2>3
    <2> QED BY <1>1, <2>4, Zenon
  <1>8. ASSUME g = c PROVE Opposite(g, h)
    <2>1. g[D] # h[D] /\ g[D - 1] # h[D - 1] BY <1>2, <1>8
    <2>2. (g[D] # g[D - 1]) = (h[D] # h[D - 1]) BY <1>1, <1>6, <2>1, Zenon
    <2> QED BY <1>2, <1>5, <1>8, <2>1, <2>2
  <1> QED BY <1>3, <1>4, <1>7, <1>8 DEF g, h

-----------------------------------------------------------------------------
(* Distances between pointers. *)

\* How many times x counts until it is y.
Ahead(x, y) == IF x <= y THEN y - x ELSE (y + 2 * Words) - x

LEMMA ModOnce ==
  ASSUME NEW p \in Nat, p >= 1, NEW x \in Nat, x < 2 * p
  PROVE  x % p = IF x < p THEN x ELSE x - p
  <1> DEFINE d == IF x < p THEN 0 ELSE 1
             r == IF x < p THEN x ELSE x - p
  <1>1. d \in Nat /\ r \in 0 .. p - 1 /\ x = d * p + r
    <2>1. CASE x < p BY <2>1
    <2>2. CASE ~(x < p) BY <2>2
    <2> QED BY <2>1, <2>2
  <1> HIDE DEF d, r
  <1>2. x % p = r BY <1>1, DivIsUnique
  <1> QED BY <1>2 DEF r

LEMMA UsedIsAhead ==
  ASSUME NEW r \in Ptr, NEW w \in Ptr
  PROVE  (w + 2 * Words - r) % (2 * Words) = Ahead(r, w)
  <1> DEFINE p == 2 * Words
             x == w + p - r
  <1>1. p \in Nat /\ p >= 1 BY WordsIsPow
  <1>2. r \in 0 .. p - 1 /\ w \in 0 .. p - 1 BY DEF Ptr
  <1>3. Ahead(r, w) = IF r <= w THEN w - r ELSE w + p - r BY <1>1, <1>2 DEF Ahead
  <1> HIDE DEF p
  <1>4. x \in Nat /\ x < 2 * p BY <1>1, <1>2
  <1> HIDE DEF x
  <1>5. x % p = IF x < p THEN x ELSE x - p BY <1>1, <1>4, ModOnce
  <1>6. x % p = Ahead(r, w) BY <1>1, <1>2, <1>3, <1>5 DEF x
  <1> QED BY <1>6 DEF x, p

LEMMA AheadFacts ==
  ASSUME NEW x \in Ptr, NEW y \in Ptr, NEW a \in Ptr
  PROVE  /\ Ahead(x, a) \in Nat /\ Ahead(x, a) < 2 * Words
         /\ Ahead(a, a) = 0
         /\ Ahead(x, a) = Ahead(y, a) => x = y
         /\ Ahead(x, a) <= 1 => a = x \/ a = binary_next(x)
         /\ Ahead(x, a) + 1 < 2 * Words => Ahead(x, binary_next(a)) = Ahead(x, a) + 1
         /\ Ahead(x, a) > 0 => Ahead(binary_next(x), a) = Ahead(x, a) - 1
         /\ Ahead(x, y) + Ahead(y, a) < 2 * Words => Ahead(x, a) = Ahead(x, y) + Ahead(y, a)
         /\ Ahead(x, a) = Words <=> x = Half(a)
         /\ Half(a) \in Ptr
  <1> DEFINE p == 2 * Words
             Nxt(n) == IF n + 1 < p THEN n + 1 ELSE 0
  <1>0. Words \in Nat /\ Words >= 4 BY WordsIsPow
  <1>1. x \in 0 .. p - 1 /\ y \in 0 .. p - 1 /\ a \in 0 .. p - 1 BY DEF Ptr
  <1>2. binary_next(x) = Nxt(x) /\ binary_next(a) = Nxt(a)
    BY <1>0, NextIs DEF Ptr
  <1> HIDE DEF Words
  <1>3. Ahead(x, a) \in Nat /\ Ahead(x, a) < 2 * Words /\ Ahead(a, a) = 0
    BY <1>0, <1>1 DEF Ahead
  <1>4. Ahead(x, a) = Ahead(y, a) => x = y BY <1>0, <1>1 DEF Ahead
  <1>5. Ahead(x, a) <= 1 => a = x \/ a = Nxt(x) BY <1>0, <1>1 DEF Ahead
  <1>6. Ahead(x, a) + 1 < 2 * Words => Ahead(x, Nxt(a)) = Ahead(x, a) + 1
    BY <1>0, <1>1 DEF Ahead
  <1>7. Ahead(x, a) > 0 => Ahead(Nxt(x), a) = Ahead(x, a) - 1
    BY <1>0, <1>1 DEF Ahead
  <1>8. Ahead(x, y) + Ahead(y, a) < 2 * Words => Ahead(x, a) = Ahead(x, y) + Ahead(y, a)
    BY <1>0, <1>1 DEF Ahead
  <1>9. Ahead(x, a) = Words <=> x = Half(a) BY <1>0, <1>1 DEF Ahead, Half
  <1>10. Half(a) \in Ptr BY <1>0, <1>1 DEF Half, Ptr
  <1> HIDE DEF Nxt
  <1> QED BY <1>2, <1>3, <1>4, <1>5, <1>6, <1>7, <1>8, <1>9, <1>10

-----------------------------------------------------------------------------
(* What the other domain has of a pointer. *)

Codes == {bin2gray(n) : n \in Ptr}
Pos(g) == CHOOSE n \in Ptr : bin2gray(n) = g

\* How often the pointer a has counted since its code was g.
Lag(a, g) == Ahead(Pos(g), a)

\* The codes on their way to the other domain: the pointer before its last
\* count at the input of the synchroniser, its stages and the register behind
\* them; each is at least as old as the one before it.
Crossing(a, old, chain, last) ==
  /\ old \in Codes /\ last \in Codes /\ chain \in [1 .. Stages -> Codes]
  /\ Lag(a, old) <= 1
  /\ \A s \in 1 .. Stages : Lag(a, old) <= Lag(a, chain[s]) /\ Lag(a, chain[s]) <= Lag(a, last)
  /\ \A s, t \in 1 .. Stages : s <= t => Lag(a, chain[s]) <= Lag(a, chain[t])

LEMMA PosFacts ==
  /\ \A n \in Ptr : bin2gray(n) \in Codes /\ Pos(bin2gray(n)) = n
  /\ \A g \in Codes : Pos(g) \in Ptr /\ bin2gray(Pos(g)) = g
  <1>1. ASSUME NEW g \in Codes PROVE Pos(g) \in Ptr /\ bin2gray(Pos(g)) = g
    <2>1. \E n \in Ptr : bin2gray(n) = g BY Zenon DEF Codes
    <2> QED BY <2>1, Zenon DEF Pos
  <1>2. ASSUME NEW n \in Ptr PROVE bin2gray(n) \in Codes /\ Pos(bin2gray(n)) = n
    <2>1. bin2gray(n) \in Codes BY Zenon DEF Codes
    <2>2. Pos(bin2gray(n)) \in Ptr /\ bin2gray(Pos(bin2gray(n))) = bin2gray(n)
      BY <1>1, <2>1, Zenon
    <2> QED BY <2>1, <2>2, GrayInjective, Zenon
  <1> QED BY <1>1, <1>2, Zenon

LEMMA LagFacts ==
  ASSUME NEW a \in Ptr, NEW g \in Codes
  PROVE  /\ Lag(a, g) \in Nat /\ Lag(a, g) < 2 * Words
         /\ Lag(a, bin2gray(a)) = 0
         /\ Lag(a, g) + 1 < 2 * Words => Lag(binary_next(a), g) = Lag(a, g) + 1
  <1>1. Pos(g) \in Ptr /\ Pos(bin2gray(a)) = a BY PosFacts
  <1> DEFINE x == Pos(g)
  <1>2. x \in Ptr BY <1>1
  <1> HIDE DEF x
  <1>3. /\ Ahead(x, a) \in Nat /\ Ahead(x, a) < 2 * Words
        /\ Ahead(a, a) = 0
        /\ Ahead(x, a) + 1 < 2 * Words => Ahead(x, binary_next(a)) = Ahead(x, a) + 1
    BY <1>2, AheadFacts
  <1> QED BY <1>1, <1>3 DEF Lag, x

LEMMA CodesAreVectors == \A g \in Codes : g \in [Bits -> BOOLEAN]
  <1> SUFFICES ASSUME NEW n \in Ptr PROVE bin2gray(n) \in [Bits -> BOOLEAN]
    BY Zenon DEF Codes
  <1> QED BY Zenon DEF bin2gray

LEMMA ShiftIs ==
  ASSUME NEW chain \in [1 .. Stages -> Codes], NEW c \in Codes
  PROVE  /\ <<c>> \o Front(chain) \in [1 .. Stages -> Codes]
         /\ (<<c>> \o Front(chain))[1] = c
         /\ \A s \in 2 .. Stages : (<<c>> \o Front(chain))[s] = chain[s - 1]
         /\ Last(chain) = chain[Stages] /\ Stages \in Nat /\ Stages >= 1
  <1>1. Stages \in Nat /\ Stages >= 1 BY AFifoAssumption
  <1>2. chain \in Seq(Codes) /\ Len(chain) = Stages BY <1>1
  <1>3. /\ Front(chain) \in Seq(Codes) /\ Len(Front(chain)) = Stages - 1
        /\ \A s \in 1 .. Stages - 1 : Front(chain)[s] = chain[s]
    BY <1>1, <1>2 DEF Front
  <1> DEFINE f == Front(chain)
             g == <<c>> \o f
  <1> HIDE DEF f
  <1>4. f \in Seq(Codes) /\ Len(f) = Stages - 1 /\ \A s \in 1 .. Stages - 1 : f[s] = chain[s]
    BY <1>3 DEF f
  <1>5. g \in Seq(Codes) /\ Len(g) = Stages /\ g[1] = c
        /\ \A s \in 2 .. Stages : g[s] = f[s - 1]
    BY <1>1, <1>4
  <1> HIDE DEF g
  <1>6. g \in [1 .. Stages -> Codes] BY <1>1, <1>5
  <1>7. \A s \in 2 .. Stages : g[s] = chain[s - 1] BY <1>1, <1>4, <1>5
  <1>8. Last(chain) = chain[Stages] BY <1>2 DEF Last
  <1> QED BY <1>1, <1>5, <1>6, <1>7, <1>8 DEF f, g

\* An edge of the destination's clock.
LEMMA SyncStep ==
  ASSUME NEW a \in Ptr, NEW old, NEW chain, NEW last, Crossing(a, old, chain, last),
         NEW sample \in [Bits -> BOOLEAN],
         \A i \in Bits : sample[i] \in {old[i], bin2gray(a)[i]}
  PROVE  /\ Crossing(a, bin2gray(a), <<sample>> \o Front(chain), Last(chain))
         /\ Lag(a, Last(chain)) <= Lag(a, last)
  <1> DEFINE now == bin2gray(a)
             c == <<sample>> \o Front(chain)
             b == Pos(old)
  <1>1. /\ old \in Codes /\ last \in Codes /\ chain \in [1 .. Stages -> Codes]
        /\ Lag(a, old) <= 1
        /\ \A s \in 1 .. Stages : Lag(a, old) <= Lag(a, chain[s]) /\ Lag(a, chain[s]) <= Lag(a, last)
        /\ \A s, t \in 1 .. Stages : s <= t => Lag(a, chain[s]) <= Lag(a, chain[t])
    BY DEF Crossing
  <1>2. b \in Ptr /\ old = bin2gray(b) /\ now \in Codes BY <1>1, PosFacts
  <1>3. a = b \/ a = binary_next(b) BY <1>1, <1>2, AheadFacts, Zenon DEF Lag
  <1>4. now = bin2gray(b) \/ now = bin2gray(binary_next(b)) BY <1>3
  <1>h. \A i \in Bits : sample[i] \in {old[i], now[i]} OBVIOUS
  <1> HIDE DEF now, b
  <1>5. sample = old \/ sample = now BY <1>2, <1>4, <1>h, SampleIsOldOrNew
  <1>6. sample \in Codes BY <1>1, <1>2, <1>5
  <1>7. Lag(a, now) = 0 /\ \A g \in Codes : Lag(a, g) \in Nat BY <1>2, LagFacts DEF now
  <1>8. Lag(a, sample) <= Lag(a, old) BY <1>1, <1>5, <1>7
  <1>9. /\ c \in [1 .. Stages -> Codes] /\ c[1] = sample
        /\ \A s \in 2 .. Stages : c[s] = chain[s - 1]
        /\ Last(chain) = chain[Stages] /\ Stages \in Nat /\ Stages >= 1
    BY <1>1, <1>6, ShiftIs
  <1> HIDE DEF c
  <1>10. Last(chain) \in Codes /\ Lag(a, Last(chain)) <= Lag(a, last) BY <1>1, <1>9
  <1>11. \A s \in 1 .. Stages : c[s] \in Codes /\ chain[s] \in Codes /\ s \in Nat BY <1>1, <1>9
  <1>12. ASSUME NEW s \in 1 .. Stages PROVE Lag(a, c[s]) <= Lag(a, Last(chain))
    <2>1. CASE s = 1 BY <1>1, <1>6, <1>7, <1>8, <1>9, <1>11, <2>1
    <2>2. CASE s # 1
      <3>1. s \in 2 .. Stages /\ s - 1 \in 1 .. Stages /\ s - 1 <= Stages BY <1>9, <2>2
      <3> QED BY <1>1, <1>9, <3>1
    <2> QED BY <2>1, <2>2
  <1>13. ASSUME NEW s \in 1 .. Stages, NEW t \in 1 .. Stages, s <= t
         PROVE  Lag(a, c[s]) <= Lag(a, c[t])
    <2>1. CASE t = 1
      <3>1. s = 1 BY <1>13, <2>1
      <3> QED BY <1>7, <1>11, <2>1, <3>1
    <2>2. CASE t # 1 /\ s = 1
      <3>1. t \in 2 .. Stages /\ t - 1 \in 1 .. Stages BY <1>9, <2>2
      <3> QED BY <1>1, <1>6, <1>7, <1>8, <1>9, <1>11, <2>2, <3>1
    <2>3. CASE t # 1 /\ s # 1
      <3>1. /\ s \in 2 .. Stages /\ t \in 2 .. Stages /\ s - 1 <= t - 1
            /\ s - 1 \in 1 .. Stages /\ t - 1 \in 1 .. Stages
        BY <1>9, <1>13, <2>3
      <3> QED BY <1>1, <1>9, <3>1
    <2> QED BY <2>1, <2>2, <2>3
  <1>14. \A s \in 1 .. Stages : 0 <= Lag(a, c[s]) BY <1>7, <1>11
  <1>15. Crossing(a, now, c, Last(chain))
    BY <1>2, <1>7, <1>9, <1>10, <1>12, <1>13, <1>14 DEF Crossing
  <1> QED BY <1>10, <1>15 DEF now, c

\* An edge of the pointer's own clock.
LEMMA CountStep ==
  ASSUME NEW a \in Ptr, NEW old, NEW chain, NEW last, Crossing(a, old, chain, last)
  PROVE  /\ Crossing(a, bin2gray(a), chain, last)
         /\ Lag(a, last) + 1 < 2 * Words =>
              /\ Crossing(binary_next(a), bin2gray(a), chain, last)
              /\ Lag(binary_next(a), last) = Lag(a, last) + 1
  <1> DEFINE now == bin2gray(a)
             b == binary_next(a)
  <1>1. /\ last \in Codes /\ chain \in [1 .. Stages -> Codes]
        /\ \A s \in 1 .. Stages : Lag(a, chain[s]) <= Lag(a, last)
        /\ \A s, t \in 1 .. Stages : s <= t => Lag(a, chain[s]) <= Lag(a, chain[t])
    BY DEF Crossing
  <1>2. now \in Codes /\ Lag(a, now) = 0 BY PosFacts, LagFacts
  <1>3. \A g \in Codes : /\ Lag(a, g) \in Nat
                         /\ Lag(a, g) + 1 < 2 * Words => Lag(b, g) = Lag(a, g) + 1
    BY LagFacts
  <1>4. 2 * Words \in Nat /\ 2 * Words >= 8 BY WordsIsPow
  <1>5. \A s \in 1 .. Stages : chain[s] \in Codes BY <1>1
  <1> HIDE DEF now, b, Words
  <1>6. Crossing(a, now, chain, last) BY <1>1, <1>2, <1>3, <1>5 DEF Crossing
  <1>7. ASSUME Lag(a, last) + 1 < 2 * Words
        PROVE  Crossing(b, now, chain, last) /\ Lag(b, last) = Lag(a, last) + 1
    <2>1. Lag(b, last) = Lag(a, last) + 1 BY <1>1, <1>3, <1>7
    <2>2. Lag(b, now) = 1 BY <1>2, <1>3, <1>4
    <2>3. \A s \in 1 .. Stages : Lag(b, chain[s]) = Lag(a, chain[s]) + 1
      <3> TAKE s \in 1 .. Stages
      <3>1. /\ chain[s] \in Codes /\ Lag(a, chain[s]) \in Nat /\ Lag(a, last) \in Nat
            /\ Lag(a, chain[s]) <= Lag(a, last)
        BY <1>1, <1>3, <1>5
      <3>2. Lag(a, chain[s]) + 1 < 2 * Words BY <1>4, <1>7, <3>1
      <3> QED BY <1>3, <3>1, <3>2
    <2>4. \A s \in 1 .. Stages : Lag(a, chain[s]) \in Nat BY <1>3, <1>5
    <2>5. Lag(a, last) \in Nat BY <1>1, <1>3
    <2> QED BY <1>1, <1>2, <2>1, <2>2, <2>3, <2>4, <2>5 DEF Crossing
  <1> QED BY <1>6, <1>7 DEF now, b

-----------------------------------------------------------------------------
(* The words between two pointers. *)

LEMMA ModSmall ==
  ASSUME NEW p \in Nat, p >= 1, NEW x \in Nat, x < 3 * p
  PROVE  x % p = IF x < p THEN x ELSE IF x < 2 * p THEN x - p ELSE x - 2 * p
  <1> DEFINE d == IF x < p THEN 0 ELSE IF x < 2 * p THEN 1 ELSE 2
             r == IF x < p THEN x ELSE IF x < 2 * p THEN x - p ELSE x - 2 * p
  <1>1. d \in Nat /\ r \in 0 .. p - 1 /\ x = d * p + r
    <2>1. CASE x < p BY <2>1
    <2>2. CASE ~(x < p) /\ x < 2 * p BY <2>2
    <2>3. CASE ~(x < p) /\ ~(x < 2 * p) BY <2>3
    <2> QED BY <2>1, <2>2, <2>3
  <1> HIDE DEF d, r
  <1>2. x % p = r BY <1>1, DivIsUnique
  <1> QED BY <1>2 DEF r

\* The n words of the RAM m from the pointer r on.
Window(m, r, n) == [i \in 1 .. n |-> m[(r + i - 1) % Words]]

LEMMA WindowTail ==
  ASSUME NEW m, NEW r \in Ptr, NEW n \in 1 .. Words
  PROVE  Window(m, binary_next(r), n - 1) = Tail(Window(m, r, n))
  <1> DEFINE c == binary_next(r)
             At(x, i) == (x + i - 1) % Words
  <1>0. Words \in Nat /\ Words >= 4 /\ r \in Nat /\ r < 2 * Words BY WordsIsPow DEF Ptr
  <1>1. c = IF r + 1 < 2 * Words THEN r + 1 ELSE 0 BY <1>0, NextIs
  <1>2. ASSUME NEW i \in 1 .. n - 1 PROVE At(c, i) = At(r, i + 1)
    <2> HIDE DEF Words, c
    <2>1. /\ r + (i + 1) - 1 \in Nat /\ r + (i + 1) - 1 < 3 * Words
          /\ c + i - 1 \in Nat /\ c + i - 1 < 3 * Words /\ i \in Nat
      BY <1>0, <1>1
    <2> DEFINE x == c + i - 1
               y == r + (i + 1) - 1
               Slot(z) == IF z < Words THEN z
                          ELSE IF z < 2 * Words THEN z - Words ELSE z - 2 * Words
    <2>2. Slot(x) = Slot(y) BY <1>0, <1>1, <2>1
    <2> HIDE DEF x, y
    <2>3. x \in Nat /\ x < 3 * Words /\ y \in Nat /\ y < 3 * Words BY <2>1 DEF x, y
    <2>p. Words >= 1 BY <1>0
    <2>4. x % Words = Slot(x) /\ y % Words = Slot(y) BY <1>0, <2>3, <2>p, ModSmall, Zenon
    <2> HIDE DEF Slot
    <2>5. x % Words = y % Words BY <2>2, <2>4
    <2> QED BY <2>5 DEF x, y
  <1> HIDE DEF c, Words
  <1> DEFINE s == Window(m, r, n)
             t == Window(m, c, n - 1)
             V == {m[At(r, i)] : i \in 1 .. n}
  <1>3. s = [i \in 1 .. n |-> m[At(r, i)]] /\ t = [i \in 1 .. n - 1 |-> m[At(c, i)]]
    BY Zenon DEF Window
  <1> HIDE DEF At, s, t
  <1>4. s \in Seq(V) /\ Len(s) = n /\ s # << >> BY <1>0, <1>3
  <1>5. /\ Tail(s) \in Seq(V) /\ Len(Tail(s)) = n - 1
        /\ \A i \in 1 .. n - 1 : Tail(s)[i] = s[i + 1]
    BY <1>0, <1>4, HeadTailProperties
  <1>6. \A i \in 1 .. n - 1 : i + 1 \in 1 .. n BY <1>0
  <1>7. Tail(s) = [i \in 1 .. n - 1 |-> Tail(s)[i]]
    <2>1. Tail(s) \in [1 .. n - 1 -> V] BY <1>5, LenProperties, Zenon
    <2> QED BY <2>1, Zenon
  <1>8. \A i \in 1 .. n - 1 : Tail(s)[i] = t[i] BY <1>2, <1>3, <1>5, <1>6
  <1>9. t = Tail(s) BY <1>3, <1>7, <1>8
  <1> QED BY <1>9 DEF s, t, c

LEMMA WindowAppend ==
  ASSUME NEW m \in [Addr -> Data], NEW d \in Data, NEW r \in Ptr, NEW w \in Ptr,
         Ahead(r, w) < Words
  PROVE  Window([m EXCEPT ![w % Words] = d], r, Ahead(r, w) + 1)
           = Append(Window(m, r, Ahead(r, w)), d)
  <1> DEFINE n == Ahead(r, w)
             b == [m EXCEPT ![w % Words] = d]
             At(i) == (r + i - 1) % Words
  <1>0. /\ Words \in Nat /\ Words >= 4 /\ r \in Nat /\ r < 2 * Words
        /\ w \in Nat /\ w < 2 * Words /\ Addr = 0 .. Words - 1
    BY WordsIsPow DEF Ptr, Addr
  <1>1. n \in Nat /\ n < Words BY <1>0, AheadFacts
  <1>2. n = IF r <= w THEN w - r ELSE (w + 2 * Words) - r BY <1>0 DEF Ahead
  <1> HIDE DEF Words, n
  <1>3. w % Words \in Addr BY <1>0
  <1>4. \A i \in 1 .. n + 1 : At(i) \in Addr BY <1>0, <1>1
  <1>5. ASSUME NEW i \in 1 .. n + 1 PROVE At(i) = w % Words <=> i = n + 1
    <2> DEFINE x == r + i - 1
               y == w
               Slot(z) == IF z < Words THEN z
                          ELSE IF z < 2 * Words THEN z - Words ELSE z - 2 * Words
    <2>1. x \in Nat /\ x < 3 * Words /\ y \in Nat /\ y < 3 * Words BY <1>0, <1>1
    <2>2. Slot(x) = Slot(y) <=> i = n + 1 BY <1>0, <1>1, <1>2
    <2> HIDE DEF x, y
    <2>p. Words >= 1 BY <1>0
    <2>4. x % Words = Slot(x) /\ y % Words = Slot(y) BY <1>0, <2>1, <2>p, ModSmall, Zenon
    <2> HIDE DEF Slot
    <2>5. x % Words = y % Words <=> i = n + 1 BY <2>2, <2>4
    <2> QED BY <2>5 DEF x, y
  <1> DEFINE s == Window(m, r, n)
             t == Window(b, r, n + 1)
  <1>6. s = [i \in 1 .. n |-> m[At(i)]] /\ t = [i \in 1 .. n + 1 |-> b[At(i)]]
    BY Zenon DEF Window
  <1>7. /\ b[w % Words] = d
        /\ \A k \in Addr : k # w % Words => b[k] = m[k]
    BY <1>3
  <1> HIDE DEF At, s, t, b
  <1>8. \A i \in 1 .. n : i \in 1 .. n + 1 /\ i # n + 1 BY <1>1
  <1>9. n + 1 \in 1 .. n + 1 BY <1>1
  <1>10. t[n + 1] = d BY <1>5, <1>6, <1>7, <1>9
  <1>11. \A i \in 1 .. n : t[i] = s[i] BY <1>4, <1>5, <1>6, <1>7, <1>8
  <1>12. \A i \in 1 .. n : s[i] \in Data BY <1>4, <1>6, <1>8
  <1>13. s \in Seq(Data) /\ Len(s) = n BY <1>1, <1>6, <1>12
  <1>14. /\ Append(s, d) \in Seq(Data) /\ Len(Append(s, d)) = n + 1
         /\ Append(s, d)[n + 1] = d
         /\ \A i \in 1 .. n : Append(s, d)[i] = s[i]
    BY <1>1, <1>13, AppendProperties
  <1>15. Append(s, d) = [i \in 1 .. n + 1 |-> Append(s, d)[i]]
    <2>1. Append(s, d) \in [1 .. n + 1 -> Data] BY <1>14, LenProperties, Zenon
    <2> QED BY <2>1, Zenon
  <1>16. \A i \in 1 .. n + 1 : i \in 1 .. n \/ i = n + 1 BY <1>1
  <1>17. \A i \in 1 .. n + 1 : Append(s, d)[i] = t[i] BY <1>10, <1>11, <1>14, <1>16
  <1>18. t = Append(s, d) BY <1>6, <1>15, <1>17
  <1> QED BY <1>18 DEF s, t, b, n

\* The word written is not the one the reader is shown.
LEMMA WritesElsewhere ==
  ASSUME NEW r \in Ptr, NEW w \in Ptr, Ahead(r, w) < Words, Ahead(r, w) > 0
  PROVE  r % Words # w % Words
  <1>0. /\ Words \in Nat /\ Words >= 4 /\ r \in Nat /\ r < 2 * Words
        /\ w \in Nat /\ w < 2 * Words
    BY WordsIsPow DEF Ptr
  <1>1. /\ r % Words = IF r < Words THEN r ELSE r - Words
        /\ w % Words = IF w < Words THEN w ELSE w - Words
    BY <1>0, ModOnce
  <1> HIDE DEF Words
  <1> QED BY <1>0, <1>1 DEF Ahead

-----------------------------------------------------------------------------
(* afifo. *)

\* The reader works with a write pointer that is late, yet never behind its own,
\* and the writer with a read pointer that is late, yet never more than Words
\* behind its own: with flags computed from them, what the other side has done
\* since can only make them too careful.
AFifoInv ==
  /\ ram \in [Addr -> Data]
  /\ waddr_binary_r \in Ptr /\ waddr_gray_r = bin2gray(waddr_binary_r)
  /\ raddr_binary_r \in Ptr /\ raddr_gray_r = bin2gray(raddr_binary_r)
  /\ Crossing(waddr_binary_r, waddr_gray_old, waddr_sync, waddr_gray_sync_r)
  /\ Crossing(raddr_binary_r, raddr_gray_old, raddr_sync, raddr_gray_sync_r)
  /\ LET n == Ahead(raddr_binary_r, waddr_binary_r)
         l == Lag(waddr_binary_r, waddr_gray_sync_r)
         k == Lag(raddr_binary_r, raddr_gray_sync_r)
     IN  /\ l <= n /\ (avail_r => l < n)
         /\ n + k <= Words /\ (~full_r => n + k < Words)
  /\ avail_r => q = ram[raddr_binary_r % Words]

LEMMA AFifoInitInv == Init => AFifoInv
  <1> SUFFICES ASSUME Init PROVE AFifoInv OBVIOUS
  <1> DEFINE z == 0
             g == bin2gray(z)
  <1>1. Words \in Nat /\ Words >= 4 /\ z \in Ptr BY WordsIsPow DEF Ptr
  <1>2. g \in Codes /\ Lag(z, g) = 0 /\ Ahead(z, z) = 0 BY <1>1, PosFacts, LagFacts, AheadFacts
  <1> HIDE DEF Words
  <1> DEFINE c == [s \in 1 .. Stages |-> g]
  <1>3. /\ ram \in [Addr -> Data]
        /\ waddr_binary_r = z /\ waddr_gray_r = g /\ waddr_gray_old = g
        /\ waddr_sync = c /\ waddr_gray_sync_r = g
        /\ raddr_binary_r = z /\ raddr_gray_r = g /\ raddr_gray_old = g
        /\ raddr_sync = c /\ raddr_gray_sync_r = g
        /\ avail_r = FALSE
    BY DEF Init
  <1> HIDE DEF z, g
  <1>4. Crossing(z, g, c, g) BY <1>2 DEF Crossing
  <1> HIDE DEF c
  <1> QED BY <1>1, <1>2, <1>3, <1>4 DEF AFifoInv, g

\* used and Contents in terms of the distance of the pointers.
LEMMA UsedIs ==
  ASSUME AFifoInv
  PROVE  /\ used = Ahead(raddr_binary_r, waddr_binary_r)
         /\ Contents = Window(ram, raddr_binary_r, used)
  <1>1. raddr_binary_r \in Ptr /\ waddr_binary_r \in Ptr BY DEF AFifoInv
  <1>2. used = Ahead(raddr_binary_r, waddr_binary_r) BY <1>1, UsedIsAhead DEF used
  <1>3. Contents = Window(ram, raddr_binary_r, used) BY Zenon DEF Contents, Window
  <1> QED BY <1>2, <1>3

\* What an edge of either clock does with the words inside.
QueueStep ==
  /\ inputs'.read => used > 0
  /\ inputs'.write => used < Words
  /\ Contents' = After(Contents, inputs')

\* An edge of the reader's clock: the synchroniser of the write pointer moves,
\* the read pointer counts if read_in.
LEMMA ReadClockInv ==
  ASSUME AFifoInv, NEW read_in \in BOOLEAN, ReadClock(read_in)
  PROVE  AFifoInv' /\ QueueStep
  <1> DEFINE w == waddr_binary_r
             r == raddr_binary_r
             n == Ahead(r, w)
             l == waddr_gray_sync_r
             k == raddr_gray_sync_r
             a == IF read_in THEN binary_next(r) ELSE r
             m == Ahead(a, w)
  <1>0. Words \in Nat /\ Words >= 4 BY WordsIsPow
  <1>1. /\ w \in Ptr /\ r \in Ptr /\ ram \in [Addr -> Data]
        /\ waddr_gray_r = bin2gray(w) /\ raddr_gray_r = bin2gray(r)
        /\ Crossing(w, waddr_gray_old, waddr_sync, l)
        /\ Crossing(r, raddr_gray_old, raddr_sync, k)
    BY DEF AFifoInv
  <1>2. /\ Lag(w, l) <= n /\ (avail_r => Lag(w, l) < n)
        /\ n + Lag(r, k) <= Words /\ (~full_r => n + Lag(r, k) < Words)
    BY DEF AFifoInv
  <1>3. /\ read_in => avail_r
        /\ q' = ram[a % Words]
        /\ CCD_SYNC(waddr_sync, waddr_gray_old, waddr_gray_r)
        /\ waddr_gray_old' = waddr_gray_r /\ waddr_gray_sync_r' = Last(waddr_sync)
        /\ raddr_binary_r' = a /\ raddr_gray_r' = bin2gray(a)
        /\ raddr_gray_old' = raddr_gray_r
        /\ avail_r' = ~Same(bin2gray(a), l)
        /\ inputs' = Ports(read_in, FALSE, inputs.data)
    BY DEF ReadClock
  <1>4. /\ ram' = ram /\ waddr_binary_r' = w /\ waddr_gray_r' = waddr_gray_r
        /\ full_r' = full_r /\ raddr_sync' = raddr_sync /\ raddr_gray_sync_r' = k
    BY DEF ReadClock, writeVars
  <1>5. l \in Codes /\ k \in Codes /\ waddr_sync \in [1 .. Stages -> Codes]
    BY <1>1 DEF Crossing
  <1>6. Lag(w, l) \in Nat /\ Lag(r, k) \in Nat /\ n \in Nat BY <1>1, <1>5, LagFacts, AheadFacts
  <1>7. /\ Crossing(w, waddr_gray_r, waddr_sync', Last(waddr_sync))
        /\ Lag(w, Last(waddr_sync)) <= Lag(w, l)
    <2>1. PICK sample \in [Bits -> BOOLEAN] :
             /\ \A i \in Bits : sample[i] \in {waddr_gray_old[i], waddr_gray_r[i]}
             /\ waddr_sync' = <<sample>> \o Front(waddr_sync)
      BY <1>3 DEF CCD_SYNC
    <2> QED BY <1>1, <2>1, SyncStep
  <1>8. /\ a \in Ptr /\ m \in Nat
        /\ Crossing(a, raddr_gray_r, raddr_sync, k)
        /\ m + Lag(a, k) = n + Lag(r, k)
        /\ m = IF read_in THEN n - 1 ELSE n
        /\ read_in => n > 0 /\ Lag(w, l) < n
        /\ Lag(a, k) \in Nat
    <2>1. CASE read_in
      <3>1. n > 0 /\ Lag(w, l) < n BY <1>2, <1>3, <1>6, <2>1
      <3>2. Lag(r, k) + 1 < 2 * Words BY <1>0, <1>2, <1>6
      <3>3. a = binary_next(r) BY <2>1
      <3> HIDE DEF a
      <3>4. Crossing(a, raddr_gray_r, raddr_sync, k) /\ Lag(a, k) = Lag(r, k) + 1
        BY <1>1, <3>2, <3>3, CountStep
      <3>5. m = n - 1 BY <1>1, <3>1, <3>3, AheadFacts
      <3>6. a \in Ptr BY <1>1, <3>3, NextIs
      <3> HIDE DEF m, n
      <3> QED BY <1>6, <2>1, <3>1, <3>4, <3>5, <3>6
    <2>2. CASE ~read_in
      <3>1. a = r BY <2>2
      <3> HIDE DEF a
      <3>2. Crossing(a, raddr_gray_r, raddr_sync, k) BY <1>1, <3>1, CountStep
      <3> QED BY <1>1, <1>6, <2>2, <3>1, <3>2
    <2> QED BY <2>1, <2>2
  <1>9. avail_r' <=> Lag(w, l) # m
    <2>1. Pos(l) \in Ptr /\ bin2gray(Pos(l)) = l BY <1>5, PosFacts
    <2>2. Same(bin2gray(a), l) <=> a = Pos(l) BY <1>8, <2>1, SameIsEqual
    <2>3. a = Pos(l) <=> m = Ahead(Pos(l), w) BY <1>1, <1>8, <2>1, AheadFacts
    <2> HIDE DEF a, m, l, w
    <2> QED BY <1>3, <2>2, <2>3 DEF Lag
  <1>l. /\ waddr_gray_sync_r' = Last(waddr_sync) /\ Last(waddr_sync) \in Codes
        /\ Lag(w, Last(waddr_sync)) \in Nat
    <2>1. Last(waddr_sync) \in Codes BY <1>7 DEF Crossing
    <2> QED BY <1>1, <1>3, <2>1, LagFacts
  <1>10. Lag(w, l) <= m BY <1>2, <1>6, <1>8
  <1>11. /\ Lag(w, Last(waddr_sync)) <= m
         /\ avail_r' => Lag(w, Last(waddr_sync)) < m
         /\ m + Lag(a, k) <= Words /\ (~full_r => m + Lag(a, k) < Words)
    <2> HIDE DEF m, n, l, w, k, a, r
    <2> QED BY <1>0, <1>2, <1>6, <1>7, <1>8, <1>9, <1>10, <1>l
  <1> HIDE DEF a, m, n
  <1>12. AFifoInv'
    BY <1>1, <1>3, <1>4, <1>7, <1>8, <1>11 DEF AFifoInv, m
  <1>13. used = n /\ used' = m /\ Contents = Window(ram, r, n) /\ Contents' = Window(ram, a, m)
    <2>1. used = n /\ Contents = Window(ram, r, n) BY UsedIs DEF n
    <2>2. used' = (waddr_binary_r' + 2 * Words - raddr_binary_r') % (2 * Words)
      BY Zenon DEF used
    <2>3. used' = m BY <1>1, <1>3, <1>4, <1>8, <2>2, UsedIsAhead DEF m
    <2>4. Contents' = [i \in 1 .. used' |-> ram'[(raddr_binary_r' + i - 1) % Words]]
      BY Zenon DEF Contents
    <2>5. Contents' = Window(ram, a, m) BY <1>3, <1>4, <2>3, <2>4 DEF Window
    <2> QED BY <2>1, <2>3, <2>5
  <1>14. inputs'.read = read_in /\ inputs'.write = FALSE /\ inputs'.flush = FALSE
    BY <1>3 DEF Ports
  <1>15. Contents' = IF read_in THEN Tail(Contents) ELSE Contents
    <2>1. CASE read_in
      <3>1. n \in 1 .. Words BY <1>0, <1>2, <1>6, <1>8, <2>1
      <3>2. a = binary_next(r) /\ m = n - 1 BY <1>8, <2>1 DEF a
      <3> QED BY <1>1, <1>13, <2>1, <3>1, <3>2, WindowTail
    <2>2. CASE ~read_in
      <3>1. a = r /\ m = n BY <1>8, <2>2 DEF a
      <3> QED BY <1>13, <2>2, <3>1
    <2> QED BY <2>1, <2>2
  <1>16. QueueStep
    <2>1. After(Contents, inputs') = IF read_in THEN Tail(Contents) ELSE Contents
      BY <1>14 DEF After
    <2> QED BY <1>8, <1>13, <1>14, <1>15, <2>1 DEF QueueStep
  <1> QED BY <1>12, <1>16

\* An edge of the writer's clock: the synchroniser of the read pointer moves,
\* a word is stored and the write pointer counts if write_in.
LEMMA WriteClockInv ==
  ASSUME AFifoInv, NEW write_in \in BOOLEAN, NEW d \in Data, WriteClock(write_in, d)
  PROVE  AFifoInv' /\ QueueStep
  <1> DEFINE w == waddr_binary_r
             r == raddr_binary_r
             n == Ahead(r, w)
             l == waddr_gray_sync_r
             k == raddr_gray_sync_r
             a == IF write_in THEN binary_next(w) ELSE w
             m == Ahead(r, a)
             b == IF write_in THEN [ram EXCEPT ![w % Words] = d] ELSE ram
  <1>0. Words \in Nat /\ Words >= 4 BY WordsIsPow
  <1>1. /\ w \in Ptr /\ r \in Ptr /\ ram \in [Addr -> Data]
        /\ waddr_gray_r = bin2gray(w) /\ raddr_gray_r = bin2gray(r)
        /\ Crossing(w, waddr_gray_old, waddr_sync, l)
        /\ Crossing(r, raddr_gray_old, raddr_sync, k)
    BY DEF AFifoInv
  <1>2. /\ Lag(w, l) <= n /\ (avail_r => Lag(w, l) < n)
        /\ n + Lag(r, k) <= Words /\ (~full_r => n + Lag(r, k) < Words)
        /\ avail_r => q = ram[r % Words]
    BY DEF AFifoInv
  <1>3. /\ write_in => ~full_r
        /\ ram' = b
        /\ CCD_SYNC(raddr_sync, raddr_gray_old, raddr_gray_r)
        /\ raddr_gray_old' = raddr_gray_r /\ raddr_gray_sync_r' = Last(raddr_sync)
        /\ waddr_binary_r' = a /\ waddr_gray_r' = bin2gray(a)
        /\ waddr_gray_old' = waddr_gray_r
        /\ full_r' = Opposite(k, bin2gray(a))
        /\ inputs' = Ports(FALSE, write_in, d)
    BY DEF WriteClock, Full
  <1>4. /\ q' = q /\ raddr_binary_r' = r /\ raddr_gray_r' = raddr_gray_r
        /\ avail_r' = avail_r /\ waddr_sync' = waddr_sync /\ waddr_gray_sync_r' = l
    BY DEF WriteClock, readVars
  <1>5. l \in Codes /\ k \in Codes /\ raddr_sync \in [1 .. Stages -> Codes]
    BY <1>1 DEF Crossing
  <1>6. Lag(w, l) \in Nat /\ Lag(r, k) \in Nat /\ n \in Nat BY <1>1, <1>5, LagFacts, AheadFacts
  <1>7. /\ Crossing(r, raddr_gray_r, raddr_sync', Last(raddr_sync))
        /\ Lag(r, Last(raddr_sync)) <= Lag(r, k)
    <2>1. PICK sample \in [Bits -> BOOLEAN] :
             /\ \A i \in Bits : sample[i] \in {raddr_gray_old[i], raddr_gray_r[i]}
             /\ raddr_sync' = <<sample>> \o Front(raddr_sync)
      BY <1>3 DEF CCD_SYNC
    <2> QED BY <1>1, <2>1, SyncStep
  <1>8. /\ a \in Ptr /\ m \in Nat /\ Lag(a, l) \in Nat
        /\ Crossing(a, waddr_gray_r, waddr_sync, l)
        /\ m = IF write_in THEN n + 1 ELSE n
        /\ Lag(a, l) = IF write_in THEN Lag(w, l) + 1 ELSE Lag(w, l)
        /\ m + Lag(r, k) <= Words
    <2>1. CASE write_in
      <3>1. n + Lag(r, k) < Words BY <1>2, <1>3, <2>1
      <3>2. Lag(w, l) + 1 < 2 * Words /\ n + 1 < 2 * Words BY <1>0, <1>2, <1>6, <3>1
      <3>3. a = binary_next(w) BY <2>1
      <3> HIDE DEF a
      <3>4. Crossing(a, waddr_gray_r, waddr_sync, l) /\ Lag(a, l) = Lag(w, l) + 1
        BY <1>1, <3>2, <3>3, CountStep
      <3>5. m = n + 1 BY <1>1, <3>2, <3>3, AheadFacts
      <3>6. a \in Ptr BY <1>1, <3>3, NextIs
      <3> HIDE DEF m, n
      <3> QED BY <1>0, <1>6, <2>1, <3>1, <3>4, <3>5, <3>6
    <2>2. CASE ~write_in
      <3>1. a = w BY <2>2
      <3> HIDE DEF a
      <3>2. Crossing(a, waddr_gray_r, waddr_sync, l) BY <1>1, <3>1, CountStep
      <3> QED BY <1>1, <1>2, <1>6, <2>2, <3>1, <3>2
    <2> QED BY <2>1, <2>2
  <1>9. full_r' <=> m + Lag(r, k) = Words
    <2>1. Pos(k) \in Ptr /\ bin2gray(Pos(k)) = k BY <1>5, PosFacts
    <2>2. Opposite(k, bin2gray(a)) <=> Pos(k) = Half(a) BY <1>8, <2>1, OppositeIsHalf
    <2>3. Pos(k) = Half(a) <=> Ahead(Pos(k), a) = Words BY <1>8, <2>1, AheadFacts
    <2>4. Ahead(Pos(k), r) + m < 2 * Words BY <1>0, <1>6, <1>8 DEF Lag
    <2>5. Ahead(Pos(k), a) = Ahead(Pos(k), r) + m BY <1>1, <1>8, <2>1, <2>4, AheadFacts
    <2> HIDE DEF a, m, k, r
    <2> QED BY <1>3, <1>6, <1>8, <2>2, <2>3, <2>5 DEF Lag
  <1>k. /\ raddr_gray_sync_r' = Last(raddr_sync) /\ Last(raddr_sync) \in Codes
        /\ Lag(r, Last(raddr_sync)) \in Nat
    <2>1. Last(raddr_sync) \in Codes BY <1>7 DEF Crossing
    <2> QED BY <1>1, <1>3, <2>1, LagFacts
  <1>10. /\ Lag(a, l) <= m /\ (avail_r => Lag(a, l) < m)
         /\ m + Lag(r, Last(raddr_sync)) <= Words
         /\ ~full_r' => m + Lag(r, Last(raddr_sync)) < Words
    <2> HIDE DEF m, n, l, w, k, a, r
    <2> QED BY <1>0, <1>2, <1>6, <1>7, <1>8, <1>9, <1>k
  <1>11. b \in [Addr -> Data] BY <1>1
  <1>12. write_in => n < Words BY <1>0, <1>2, <1>3, <1>6
  <1>13. avail_r => q = b[r % Words]
    <2> SUFFICES ASSUME avail_r PROVE q = b[r % Words] OBVIOUS
    <2>1. CASE write_in
      <3>1. n > 0 /\ n < Words BY <1>2, <1>6, <1>12, <2>1
      <3>2. r % Words # w % Words BY <1>1, <3>1, WritesElsewhere
      <3>3. r % Words \in Addr BY <1>0, <1>1 DEF Addr, Ptr
      <3> QED BY <1>1, <1>2, <2>1, <3>2, <3>3
    <2>2. CASE ~write_in BY <1>2, <2>2
    <2> QED BY <2>1, <2>2
  <1> HIDE DEF a, m, n, b
  <1>14. AFifoInv'
    BY <1>1, <1>3, <1>4, <1>7, <1>8, <1>10, <1>11, <1>13 DEF AFifoInv, m
  <1>15. used = n /\ used' = m /\ Contents = Window(ram, r, n) /\ Contents' = Window(b, r, m)
    <2>1. used = n /\ Contents = Window(ram, r, n) BY UsedIs DEF n
    <2>2. used' = (waddr_binary_r' + 2 * Words - raddr_binary_r') % (2 * Words)
      BY Zenon DEF used
    <2>3. used' = m BY <1>1, <1>3, <1>4, <1>8, <2>2, UsedIsAhead DEF m
    <2>4. Contents' = [i \in 1 .. used' |-> ram'[(raddr_binary_r' + i - 1) % Words]]
      BY Zenon DEF Contents
    <2>5. Contents' = Window(b, r, m) BY <1>3, <1>4, <2>3, <2>4 DEF Window
    <2> QED BY <2>1, <2>3, <2>5
  <1>16. /\ inputs'.read = FALSE /\ inputs'.write = write_in
         /\ inputs'.flush = FALSE /\ inputs'.data = d
    BY <1>3 DEF Ports
  <1>17. Contents' = IF write_in THEN Append(Contents, d) ELSE Contents
    <2>1. CASE write_in
      <3>1. b = [ram EXCEPT ![w % Words] = d] /\ m = n + 1 BY <1>8, <2>1 DEF b
      <3>2. Window(b, r, n + 1) = Append(Window(ram, r, n), d)
        BY <1>1, <1>12, <2>1, <3>1, WindowAppend DEF n
      <3> QED BY <1>15, <2>1, <3>1, <3>2
    <2>2. CASE ~write_in
      <3>1. b = ram /\ m = n BY <1>8, <2>2 DEF b
      <3> QED BY <1>15, <2>2, <3>1
    <2> QED BY <2>1, <2>2
  <1>18. QueueStep
    <2>1. After(Contents, inputs') = IF write_in THEN Append(Contents, d) ELSE Contents
      BY <1>16 DEF After
    <2> QED BY <1>12, <1>15, <1>16, <1>17, <2>1 DEF QueueStep
  <1> QED BY <1>14, <1>18

LEMMA AFifoNextInv == AFifoInv /\ [Next]_vars => AFifoInv' /\ [QueueStep]_vars
  <1> SUFFICES ASSUME AFifoInv, [Next]_vars PROVE AFifoInv' /\ [QueueStep]_vars
    OBVIOUS
  <1>1. CASE UNCHANGED vars
    BY <1>1 DEF vars, writeVars, readVars, AFifoInv
  <1>2. CASE ReadEdge BY <1>2, ReadClockInv DEF ReadEdge
  <1>3. CASE WriteEdge BY <1>3, WriteClockInv DEF WriteEdge
  <1> QED BY <1>1, <1>2, <1>3 DEF Next

\* For every depth of at least 4 words, any number of synchroniser stages, and
\* whatever bits the synchronisers catch of a pointer that is counting, the
\* reader that sees not empty_out sees the oldest word inside at q_out.
THEOREM AFifoShowsHead == Spec => []NotEmptyShowsHead
  <1>1. AFifoInv => NotEmptyShowsHead
    <2> SUFFICES ASSUME AFifoInv, avail_r PROVE used > 0 /\ q = Contents[1]
      BY DEF NotEmptyShowsHead
    <2>1. used = Ahead(raddr_binary_r, waddr_binary_r) BY UsedIs
    <2>2. /\ raddr_binary_r \in Ptr /\ waddr_binary_r \in Ptr
          /\ waddr_gray_sync_r \in Codes
          /\ Lag(waddr_binary_r, waddr_gray_sync_r) < used
          /\ q = ram[raddr_binary_r % Words]
      BY <2>1 DEF AFifoInv, Crossing
    <2>3. used \in Nat /\ Lag(waddr_binary_r, waddr_gray_sync_r) \in Nat
      BY <2>1, <2>2, AheadFacts, LagFacts
    <2> HIDE DEF used
    <2>4. used > 0 /\ 1 \in 1 .. used BY <2>2, <2>3
    <2>5. Contents[1] = ram[(raddr_binary_r + 1 - 1) % Words] BY <2>4 DEF Contents
    <2>6. raddr_binary_r + 1 - 1 = raddr_binary_r BY <2>2, WordsIsPow DEF Ptr
    <2> QED BY <2>2, <2>4, <2>5, <2>6
  <1>2. AFifoInv /\ [Next]_vars => AFifoInv' BY AFifoNextInv
  <1> QED BY <1>1, <1>2, AFifoInitInv, PTL DEF Spec

\* Under the same conditions the writer never overruns the reader, the reader
\* never passes the writer, and an edge of either clock does to the words inside
\* what the ports sampled say: the pointers of the other domain are late, and
\* late in the harmless direction.
THEOREM AFifoKeepsQueue == Spec => KeepsQueue
  <1>1. AFifoInv /\ [Next]_vars => AFifoInv' BY AFifoNextInv
  <1>2. AFifoInv /\ [Next]_vars =>
          [/\ inputs'.read => used > 0
           /\ inputs'.write => used < Words
           /\ Contents' = After(Contents, inputs')]_vars
    BY AFifoNextInv DEF QueueStep
  <1> QED BY <1>1, <1>2, AFifoInitInv, PTL DEF Spec, KeepsQueue

-----------------------------------------------------------------------------
(* The kernel compiler's registers. *)

\* The colours after each variable.
LEMMA ColorSteps ==
  ASSUME NEW order, NEW edges, Len(order) \in Nat
  PROVE  \E f : /\ f[0] = << >>
                /\ \A k \in 1 .. Len(order) : f[k] = WithColour(order, edges, f[k - 1], k)
                /\ color(order, edges) = f[Len(order)]
  <1> DEFINE Is(n, f) == f = [k \in 0 .. n |->
                                IF k = 0 THEN << >> ELSE WithColour(order, edges, f[k - 1], k)]
             T == {n \in Nat : \E f : Is(n, f)}
             N == Len(order)
             f == CHOOSE f : Is(N, f)
  <1>1. 0 \in T
    <2> DEFINE g == [k \in 0 .. 0 |-> << >>]
    <2>1. Is(0, g) OBVIOUS
    <2> QED BY <2>1
  <1>2. ASSUME NEW n \in Nat, n \in T PROVE n + 1 \in T
    <2>1. PICK g : Is(n, g) BY <1>2
    <2> DEFINE W(c, k) == WithColour(order, edges, c, k)
               h == [k \in 0 .. n + 1 |-> IF k <= n THEN g[k] ELSE W(g[n], n + 1)]
    <2>2. \A k \in 0 .. n : g[k] = IF k = 0 THEN << >> ELSE W(g[k - 1], k)
      BY <2>1
    <2> HIDE DEF W
    <2>3. ASSUME NEW k \in 0 .. n + 1
          PROVE  h[k] = IF k = 0 THEN << >> ELSE W(h[k - 1], k)
      <3>1. CASE k = 0 BY <2>2, <3>1
      <3>2. CASE k # 0 /\ k <= n
        <4>1. k - 1 \in 0 .. n + 1 /\ k - 1 <= n /\ k \in 0 .. n BY <3>2
        <4>2. h[k] = g[k] /\ h[k - 1] = g[k - 1] BY <3>2, <4>1
        <4> QED BY <2>2, <3>2, <4>1, <4>2
      <3>3. CASE k = n + 1
        <4>1. k - 1 = n /\ n \in 0 .. n + 1 /\ ~(k <= n) /\ k # 0 BY <3>3
        <4>2. h[k] = W(g[n], n + 1) /\ h[n] = g[n] BY <3>3, <4>1
        <4> QED BY <3>3, <4>1, <4>2
      <3> QED BY <3>1, <3>2, <3>3
    <2>4. h = [k \in 0 .. n + 1 |-> h[k]] OBVIOUS
    <2> HIDE DEF h
    <2>5. h = [k \in 0 .. n + 1 |-> IF k = 0 THEN << >> ELSE W(h[k - 1], k)]
      BY <2>3, <2>4, Zenon
    <2>6. n + 1 \in Nat OBVIOUS
    <2> QED BY <2>5, <2>6, Zenon DEF W
  <1>3. Nat \subseteq T BY <1>1, <1>2, SetInduction, Zenon
  <1>4. \E g : Is(N, g) BY <1>3
  <1>5. Is(N, f) BY <1>4, Zenon
  <1>6. color(order, edges) = f[N] BY Zenon DEF color
  <1> HIDE DEF f
  <1>7. \A k \in 0 .. N : f[k] = IF k = 0 THEN << >> ELSE WithColour(order, edges, f[k - 1], k)
    BY <1>5, Zenon
  <1>8. f[0] = << >> BY <1>7
  <1>9. \A k \in 1 .. N : f[k] = WithColour(order, edges, f[k - 1], k) BY <1>7
  <1> QED BY <1>6, <1>8, <1>9

\* The colours c of the first k variables.
Colouring(order, edges, c, k) ==
  /\ DOMAIN c = {order[i] : i \in 1 .. k} /\ c = [t \in DOMAIN c |-> c[t]]
  /\ \E m \in 0 .. k : {c[t] : t \in DOMAIN c} = 1 .. m
  /\ \A t, u \in DOMAIN c : t # u /\ {t, u} \in edges => c[t] # c[u]

LEMMA WithColourKeeps ==
  ASSUME NEW order, NEW edges, NEW k \in Nat, NEW c, Colouring(order, edges, c, k),
         \A i \in 1 .. k : order[i] # order[k + 1]
  PROVE  Colouring(order, edges, WithColour(order, edges, c, k + 1), k + 1)
  <1> DEFINE t == order[k + 1]
             free == {n \in 1 .. k + 1 : \A u \in DOMAIN c : {t, u} \in edges => c[u] # n}
             n == CHOOSE n \in free : \A m \in free : n <= m
             d == WithColour(order, edges, c, k + 1)
  <1>1. /\ DOMAIN c = {order[i] : i \in 1 .. k}
        /\ \A a, b \in DOMAIN c : a # b /\ {a, b} \in edges => c[a] # c[b]
    BY DEF Colouring
  <1>2. PICK m \in 0 .. k : {c[a] : a \in DOMAIN c} = 1 .. m BY DEF Colouring
  <1>3. d = [u \in DOMAIN c \cup {t} |-> IF u = t THEN n ELSE c[u]]
    BY Zenon DEF WithColour
  <1>4. t \notin DOMAIN c BY <1>1
  <1>5. m + 1 \in free
    <2>1. \A u \in DOMAIN c : c[u] # m + 1
      <3> SUFFICES ASSUME NEW u \in DOMAIN c, c[u] = m + 1 PROVE FALSE OBVIOUS
      <3>1. m + 1 \in 1 .. m BY <1>2
      <3> QED BY <3>1
    <2>2. m + 1 \in 1 .. k + 1 OBVIOUS
    <2> QED BY <2>1, <2>2
  <1>6. n \in free /\ n <= m + 1
    <2>0. \A x \in free : x \in 1 .. k + 1 BY Zenon
    <2>p. \A x \in 1 .. k + 1 : x \in Nat OBVIOUS
    <2>1. free \subseteq Nat /\ free # {} BY <1>5, <2>0, <2>p, Zenon
    <2>2. \E x \in free : \A y \in free : x <= y BY <2>1, Smallest, Zenon
    <2>3. n \in free /\ \A y \in free : n <= y BY <2>2, Zenon
    <2> QED BY <1>5, <2>3
  <1> HIDE DEF n, d, t
  <1>7. n \in 1 .. m + 1 /\ \A u \in DOMAIN c : {t, u} \in edges => c[u] # n
    <2>1. n \in 1 .. k + 1 /\ \A u \in DOMAIN c : {t, u} \in edges => c[u] # n
      BY <1>6, Zenon
    <2> QED BY <1>6, <2>1
  <1> HIDE DEF free
  <1>8. /\ DOMAIN d = DOMAIN c \cup {t} /\ d[t] = n
        /\ \A u \in DOMAIN c : d[u] = c[u]
    BY <1>3, <1>4
  <1>9. DOMAIN d = {order[i] : i \in 1 .. k + 1}
    <2>1. 1 .. k + 1 = (1 .. k) \cup {k + 1} OBVIOUS
    <2> QED BY <1>1, <1>8, <2>1 DEF t
  <1>10. d = [u \in DOMAIN d |-> d[u]] BY <1>3
  <1>11. ASSUME NEW a \in DOMAIN d, NEW b \in DOMAIN d, a # b, {a, b} \in edges
         PROVE  d[a] # d[b]
    <2>1. CASE a = t
      <3>1. b \in DOMAIN c BY <1>8, <1>11, <2>1
      <3> QED BY <1>7, <1>8, <1>11, <2>1, <3>1
    <2>2. CASE b = t
      <3>1. a \in DOMAIN c /\ {b, a} = {a, b} BY <1>8, <1>11, <2>2
      <3>2. {t, a} \in edges BY <1>11, <2>2, <3>1
      <3> QED BY <1>7, <1>8, <2>2, <3>1, <3>2
    <2>3. CASE a # t /\ b # t
      <3>1. a \in DOMAIN c /\ b \in DOMAIN c BY <1>8, <2>3
      <3> QED BY <1>1, <1>8, <1>11, <3>1
    <2> QED BY <2>1, <2>2, <2>3
  <1>12. {d[a] : a \in DOMAIN d} = {c[a] : a \in DOMAIN c} \cup {n}
    BY <1>8
  <1>13. \E j \in 0 .. k + 1 : {d[a] : a \in DOMAIN d} = 1 .. j
    <2>1. CASE n = m + 1
      <3>1. (1 .. m) \cup {n} = 1 .. m + 1 /\ m + 1 \in 0 .. k + 1 BY <2>1
      <3> QED BY <1>2, <1>12, <3>1
    <2>2. CASE n # m + 1
      <3>1. (1 .. m) \cup {n} = 1 .. m /\ m \in 0 .. k + 1 BY <1>7, <2>2
      <3> QED BY <1>2, <1>12, <3>1
    <2> QED BY <2>1, <2>2
  <1>14. Colouring(order, edges, d, k + 1)
    BY <1>9, <1>10, <1>11, <1>13 DEF Colouring
  <1> QED BY <1>14 DEF d

\* color (graph.cpp) is a colouring: for any graph, and any order of its variables
\* in which each appears once, two variables joined by an edge get different
\* colours.  The colours are 1, 2, ... without a gap, at most one per variable.
THEOREM NeighboursApart ==
  ASSUME NEW S, NEW order \in Seq(S), NEW edges,
         \A i, j \in 1 .. Len(order) : order[i] = order[j] => i = j
  PROVE  Colouring(order, edges, color(order, edges), Len(order))
  <1> DEFINE N == Len(order)
  <1>0. N \in Nat OBVIOUS
  <1>1. PICK f : /\ f[0] = << >>
                 /\ \A k \in 1 .. N : f[k] = WithColour(order, edges, f[k - 1], k)
                 /\ color(order, edges) = f[N]
    BY <1>0, ColorSteps
  <1> DEFINE T == {k \in Nat : k <= N => Colouring(order, edges, f[k], k)}
  <1>h. \A i, j \in 1 .. N : order[i] = order[j] => i = j OBVIOUS
  <1> HIDE DEF N
  <1>2. 0 \in T
    <2> DEFINE c == << >>
    <2>1. DOMAIN c = {} /\ c = [t \in DOMAIN c |-> c[t]] OBVIOUS
    <2>2. {order[i] : i \in 1 .. 0} = {} /\ {c[t] : t \in DOMAIN c} = 1 .. 0 /\ 0 \in 0 .. 0
      BY <2>1
    <2> HIDE DEF c
    <2>3. Colouring(order, edges, c, 0) BY <2>1, <2>2 DEF Colouring
    <2> QED BY <1>1, <2>3 DEF c
  <1>3. ASSUME NEW k \in Nat, k \in T PROVE k + 1 \in T
    <2>0. k + 1 \in Nat OBVIOUS
    <2> SUFFICES ASSUME k + 1 <= N PROVE Colouring(order, edges, f[k + 1], k + 1)
      BY <2>0, Zenon
    <2>1. Colouring(order, edges, f[k], k) BY <1>0, <1>3
    <2>2. k + 1 \in 1 .. N /\ (k + 1) - 1 = k /\ \A i \in 1 .. k : i \in 1 .. N /\ i # k + 1
      BY <1>0
    <2>3. f[k + 1] = WithColour(order, edges, f[k], k + 1) BY <1>1, <2>2
    <2>4. \A i \in 1 .. k : order[i] # order[k + 1] BY <1>h, <2>2
    <2> QED BY <2>1, <2>3, <2>4, WithColourKeeps
  <1>4. Nat \subseteq T BY <1>2, <1>3, SetInduction, Zenon
  <1>5. Colouring(order, edges, f[N], N) BY <1>0, <1>4
  <1> QED BY <1>1, <1>5 DEF N

\* The registers after each colour.
Start(a) == [off |-> a.off, size |-> a.size, ok |-> TRUE]
Counted(a, r) == [r EXCEPT !.size = IF r.ok THEN @ ELSE a.size]

Allocates(a, wanted, max, base, f) ==
  /\ f[0] = Start(a)
  /\ \A n \in 1 .. Len(a.off) : f[n] = Given(wanted, max, base, f[n - 1], n)
  /\ allocateGraph(a, wanted, max, base) = Counted(a, f[Len(a.off)])

LEMMA AllocateSteps ==
  ASSUME NEW a, NEW wanted, NEW max, NEW base, Len(a.off) \in Nat
  PROVE  \E f : Allocates(a, wanted, max, base, f)
  <1> DEFINE Is(n, f) == f = [k \in 0 .. n |->
                                IF k = 0 THEN Start(a) ELSE Given(wanted, max, base, f[k - 1], k)]
             T == {n \in Nat : \E f : Is(n, f)}
             N == Len(a.off)
             f == CHOOSE f : Is(N, f)
  <1>1. 0 \in T
    <2> DEFINE g == [k \in 0 .. 0 |-> Start(a)]
    <2>1. Is(0, g) OBVIOUS
    <2> QED BY <2>1
  <1>2. ASSUME NEW n \in Nat, n \in T PROVE n + 1 \in T
    <2>1. PICK g : Is(n, g) BY <1>2
    <2> DEFINE W(c, k) == Given(wanted, max, base, c, k)
               h == [k \in 0 .. n + 1 |-> IF k <= n THEN g[k] ELSE W(g[n], n + 1)]
    <2>2. \A k \in 0 .. n : g[k] = IF k = 0 THEN Start(a) ELSE W(g[k - 1], k)
      BY <2>1
    <2> HIDE DEF W
    <2>3. ASSUME NEW k \in 0 .. n + 1
          PROVE  h[k] = IF k = 0 THEN Start(a) ELSE W(h[k - 1], k)
      <3>1. CASE k = 0 BY <2>2, <3>1
      <3>2. CASE k # 0 /\ k <= n
        <4>1. k - 1 \in 0 .. n + 1 /\ k - 1 <= n /\ k \in 0 .. n BY <3>2
        <4>2. h[k] = g[k] /\ h[k - 1] = g[k - 1] BY <3>2, <4>1
        <4> QED BY <2>2, <3>2, <4>1, <4>2
      <3>3. CASE k = n + 1
        <4>1. k - 1 = n /\ n \in 0 .. n + 1 /\ ~(k <= n) /\ k # 0 BY <3>3
        <4>2. h[k] = W(g[n], n + 1) /\ h[n] = g[n] BY <3>3, <4>1
        <4> QED BY <3>3, <4>1, <4>2
      <3> QED BY <3>1, <3>2, <3>3
    <2>4. h = [k \in 0 .. n + 1 |-> h[k]] OBVIOUS
    <2> HIDE DEF h
    <2>5. h = [k \in 0 .. n + 1 |-> IF k = 0 THEN Start(a) ELSE W(h[k - 1], k)]
      BY <2>3, <2>4, Zenon
    <2>6. n + 1 \in Nat OBVIOUS
    <2> QED BY <2>5, <2>6, Zenon DEF W
  <1>3. Nat \subseteq T BY <1>1, <1>2, SetInduction, Zenon
  <1>4. \E g : Is(N, g) BY <1>3
  <1>5. Is(N, f) BY <1>4, Zenon
  <1>6. allocateGraph(a, wanted, max, base) = Counted(a, f[N])
    BY Zenon DEF allocateGraph, Start, Counted
  <1> HIDE DEF f
  <1>7. \A k \in 0 .. N : f[k] = IF k = 0 THEN Start(a) ELSE Given(wanted, max, base, f[k - 1], k)
    BY <1>5, Zenon
  <1>8. f[0] = Start(a) BY <1>7
  <1>9. \A k \in 1 .. N : f[k] = Given(wanted, max, base, f[k - 1], k) BY <1>7
  <1>10. Allocates(a, wanted, max, base, f) BY <1>6, <1>8, <1>9, Zenon DEF Allocates
  <1> QED BY <1>10

\* With the first n of K colours looked at: the registers given so far are new ones.
Giving(a, wanted, max, base, K, r, n) ==
  /\ r \in [off : [1 .. K -> Int], size : Nat, ok : BOOLEAN]
  /\ r.size >= a.size
  /\ \A i \in 1 .. K :
       \/ r.off[i] = a.off[i]
       \/ /\ a.off[i] = -1 /\ i \in wanted
          /\ r.off[i] > base - max /\ r.off[i] > base - r.size /\ r.off[i] <= base - a.size
  /\ \A i, j \in 1 .. K :
       i # j /\ r.off[i] # a.off[i] /\ r.off[j] # a.off[j] => r.off[i] # r.off[j]
  /\ r.ok => \A i \in 1 .. n : i \in wanted => r.off[i] # -1

LEMMA GivenKeeps ==
  ASSUME NEW a, NEW wanted, NEW max \in Int, NEW base \in Int, base - max >= -1,
         NEW K \in Nat, a.off \in [1 .. K -> Int], a.size \in Nat,
         NEW n \in 1 .. K, NEW r, Giving(a, wanted, max, base, K, r, n - 1)
  PROVE  Giving(a, wanted, max, base, K, Given(wanted, max, base, r, n), n)
  <1> DEFINE s == Given(wanted, max, base, r, n)
             o == a.off
             z == a.size
  <1>1. /\ r \in [off : [1 .. K -> Int], size : Nat, ok : BOOLEAN]
        /\ r.size >= z
        /\ \A i \in 1 .. K :
             \/ r.off[i] = o[i]
             \/ /\ o[i] = -1 /\ i \in wanted
                /\ r.off[i] > base - max /\ r.off[i] > base - r.size /\ r.off[i] <= base - z
        /\ \A i, j \in 1 .. K :
             i # j /\ r.off[i] # o[i] /\ r.off[j] # o[j] => r.off[i] # r.off[j]
        /\ r.ok => \A i \in 1 .. n - 1 : i \in wanted => r.off[i] # -1
    BY DEF Giving
  <1>2. \A i \in 1 .. n : i \in 1 .. n - 1 \/ i = n OBVIOUS
  <1>3. CASE ~r.ok \/ r.off[n] # -1 \/ n \notin wanted
    <2>1. s = r BY <1>3 DEF Given
    <2>2. r.ok => \A i \in 1 .. n : i \in wanted => r.off[i] # -1 BY <1>1, <1>2, <1>3
    <2> HIDE DEF s
    <2>3. Giving(a, wanted, max, base, K, s, n) BY <1>1, <2>1, <2>2 DEF Giving
    <2> QED BY <2>3 DEF s
  <1>4. CASE r.ok /\ r.off[n] = -1 /\ n \in wanted /\ r.size + 1 > max
    <2>1. s = [r EXCEPT !.ok = FALSE] BY <1>4 DEF Given
    <2>2. /\ s \in [off : [1 .. K -> Int], size : Nat, ok : BOOLEAN]
          /\ s.off = r.off /\ s.size = r.size /\ s.ok = FALSE
      BY <1>1, <2>1
    <2> HIDE DEF s
    <2>3. Giving(a, wanted, max, base, K, s, n) BY <1>1, <2>2 DEF Giving
    <2> QED BY <2>3 DEF s
  <1>5. CASE r.ok /\ r.off[n] = -1 /\ n \in wanted /\ ~(r.size + 1 > max)
    <2> DEFINE x == base - r.size
    <2>0. r.off \in [1 .. K -> Int] /\ r.size \in Nat /\ r.ok \in BOOLEAN /\ x \in Int
      BY <1>1
    <2>1. s = [off |-> [r.off EXCEPT ![n] = x], size |-> r.size + 1, ok |-> r.ok]
      <3>1. s = [r EXCEPT !.off[n] = x, !.size = @ + 1] BY <1>5 DEF Given
      <3>2. r = [off |-> r.off, size |-> r.size, ok |-> r.ok] BY <1>1
      <3> HIDE DEF x, s
      <3> QED BY <3>1, <3>2
    <2>a. [r.off EXCEPT ![n] = x] \in [1 .. K -> Int] BY <2>0
    <2>2. /\ s \in [off : [1 .. K -> Int], size : Nat, ok : BOOLEAN]
          /\ s.off = [r.off EXCEPT ![n] = x] /\ s.size = r.size + 1 /\ s.ok = r.ok
      <3> HIDE DEF s, x
      <3> QED BY <2>0, <2>1, <2>a
    <2>3. s.off[n] = x /\ \A i \in 1 .. K : i # n => s.off[i] = r.off[i]
      BY <1>1, <2>2
    <2>4. x \in Int /\ x > base - max /\ x > base - s.size /\ x <= base - z /\ x > -1
      <3>1. z \in Nat /\ r.size >= z /\ r.size \in Nat /\ s.size = r.size + 1 BY <1>1, <2>0, <2>2
      <3>2. r.size + 1 <= max BY <1>5, <2>0
      <3> HIDE DEF z, s
      <3> QED BY <3>1, <3>2
    <2>5. o[n] = -1
      <3>1. r.off[n] = o[n] \/ o[n] = -1 BY <1>1
      <3> QED BY <1>5, <3>1
    <2> HIDE DEF s
    <2>6. \A i \in 1 .. K : o[i] \in Int /\ r.off[i] \in Int BY <1>1
    <2>7. \A i \in 1 .. K :
             \/ s.off[i] = o[i]
             \/ /\ o[i] = -1 /\ i \in wanted
                /\ s.off[i] > base - max /\ s.off[i] > base - s.size /\ s.off[i] <= base - z
      <3> TAKE i \in 1 .. K
      <3>1. CASE i = n BY <1>5, <2>3, <2>4, <2>5, <3>1
      <3>2. CASE i # n
        <4>1. s.off[i] = r.off[i] BY <2>3, <3>2
        <4> QED BY <1>1, <2>2, <2>6, <4>1
      <3> QED BY <3>1, <3>2
    <2>8. \A i \in 1 .. K : i # n /\ s.off[i] # o[i] => s.off[i] > x /\ s.off[i] \in Int
      BY <1>1, <2>3, <2>6
    <2>9. ASSUME NEW i \in 1 .. K, NEW j \in 1 .. K, i # j, s.off[i] # o[i], s.off[j] # o[j]
          PROVE  s.off[i] # s.off[j]
      <3>1. CASE i = n BY <2>3, <2>4, <2>8, <2>9, <3>1
      <3>2. CASE j = n BY <2>3, <2>4, <2>8, <2>9, <3>2
      <3>3. CASE i # n /\ j # n BY <1>1, <2>3, <2>9, <3>3
      <3> QED BY <3>1, <3>2, <3>3
    <2>10. \A i \in 1 .. n : i \in wanted => s.off[i] # -1
      <3> TAKE i \in 1 .. n
      <3>1. i \in 1 .. K OBVIOUS
      <3>2. CASE i = n BY <2>3, <2>4, <3>2
      <3>3. CASE i # n
        <4>1. i \in 1 .. n - 1 /\ s.off[i] = r.off[i] BY <1>2, <2>3, <3>1, <3>3
        <4> QED BY <1>1, <1>5, <4>1
      <3> QED BY <3>2, <3>3
    <2>11. s.size >= z BY <1>1, <2>2
    <2>12. Giving(a, wanted, max, base, K, s, n) BY <2>2, <2>7, <2>9, <2>10, <2>11 DEF Giving
    <2> QED BY <2>12 DEF s
  <1> QED BY <1>3, <1>4, <1>5

\* What a call gives.
Gave(a, wanted, max, base, K, b) ==
  /\ b \in [off : [1 .. K -> Int], size : Nat, ok : BOOLEAN]
  /\ \A i \in 1 .. K :
       \/ b.off[i] = a.off[i]
       \/ /\ a.off[i] = -1 /\ i \in wanted
          /\ b.off[i] > base - max /\ b.off[i] <= base - a.size
          /\ b.ok => b.off[i] > base - b.size
  /\ \A i, j \in 1 .. K :
       i # j /\ b.off[i] # a.off[i] /\ b.off[j] # a.off[j] => b.off[i] # b.off[j]
  /\ b.ok => \A i \in 1 .. K : i \in wanted => b.off[i] # -1

LEMMA AllocateGives ==
  ASSUME NEW a, NEW wanted, NEW max \in Int, NEW base \in Int, base - max >= -1,
         NEW K \in Nat, a.off \in [1 .. K -> Int], a.size \in Nat
  PROVE  Gave(a, wanted, max, base, K, allocateGraph(a, wanted, max, base))
  <1> DEFINE b == allocateGraph(a, wanted, max, base)
             o == a.off
  <1>0. Len(a.off) = K
    <2>1. o \in Seq(Int) /\ Len(o) = K OBVIOUS
    <2> QED BY <2>1
  <1>l. PICK f : Allocates(a, wanted, max, base, f)
    <2>1. Len(a.off) \in Nat BY <1>0
    <2> QED BY <2>1, AllocateSteps, Zenon
  <1>1. /\ f[0] = Start(a)
        /\ \A n \in 1 .. K : f[n] = Given(wanted, max, base, f[n - 1], n)
        /\ b = Counted(a, f[K])
    BY <1>0, <1>l, Zenon DEF Allocates
  <1> DEFINE T == {n \in Nat : n <= K => Giving(a, wanted, max, base, K, f[n], n)}
  <1>2. 0 \in T
    <2> DEFINE r == Start(a)
    <2>1. /\ r \in [off : [1 .. K -> Int], size : Nat, ok : BOOLEAN]
          /\ r.off = a.off /\ r.size = a.size
      BY DEF Start
    <2>2. \A i \in 1 .. 0 : FALSE OBVIOUS
    <2> HIDE DEF r
    <2>3. Giving(a, wanted, max, base, K, r, 0) BY <2>1, <2>2 DEF Giving
    <2> QED BY <1>1, <2>3 DEF r
  <1>3. ASSUME NEW n \in Nat, n \in T PROVE n + 1 \in T
    <2>0. n + 1 \in Nat OBVIOUS
    <2> SUFFICES ASSUME n + 1 <= K PROVE Giving(a, wanted, max, base, K, f[n + 1], n + 1)
      BY <2>0, Zenon
    <2>1. Giving(a, wanted, max, base, K, f[n], n) BY <1>3
    <2> DEFINE m == n + 1
    <2>2. m \in 1 .. K /\ m - 1 = n OBVIOUS
    <2> HIDE DEF m
    <2>3. Giving(a, wanted, max, base, K, f[m - 1], m - 1) BY <2>1, <2>2
    <2>4. f[m] = Given(wanted, max, base, f[m - 1], m) BY <1>1, <2>2
    <2>5. Giving(a, wanted, max, base, K, f[m], m) BY <2>2, <2>3, <2>4, GivenKeeps
    <2> QED BY <2>5 DEF m
  <1>4. Nat \subseteq T BY <1>2, <1>3, SetInduction, Zenon
  <1> DEFINE r == f[K]
  <1>5. Giving(a, wanted, max, base, K, r, K) BY <1>4
  <1>6. b = [r EXCEPT !.size = IF r.ok THEN @ ELSE a.size] BY <1>1 DEF Counted
  <1> HIDE DEF r, b, T
  <1>7. /\ r \in [off : [1 .. K -> Int], size : Nat, ok : BOOLEAN]
        /\ \A i \in 1 .. K :
             \/ r.off[i] = a.off[i]
             \/ /\ a.off[i] = -1 /\ i \in wanted
                /\ r.off[i] > base - max /\ r.off[i] > base - r.size /\ r.off[i] <= base - a.size
        /\ \A i, j \in 1 .. K :
             i # j /\ r.off[i] # a.off[i] /\ r.off[j] # a.off[j] => r.off[i] # r.off[j]
        /\ r.ok => \A i \in 1 .. K : i \in wanted => r.off[i] # -1
    BY <1>5 DEF Giving
  <1>8. /\ b \in [off : [1 .. K -> Int], size : Nat, ok : BOOLEAN]
        /\ b.off = r.off /\ b.ok = r.ok /\ (r.ok => b.size = r.size)
    BY <1>6, <1>7
  <1>9. Gave(a, wanted, max, base, K, b) BY <1>7, <1>8 DEF Gave
  <1> QED BY <1>9 DEF b

\* Registers off of K colours, of which those in intOnly are for index variables, when
\* the class's integers have taken the first ones: each register has one colour.
ApartIn(off, K, intOnly, taken) ==
  /\ off \in [1 .. K -> Int]
  /\ \A x, y \in 1 .. K : x # y => off[x] # off[y]
  /\ \A x \in 1 .. K : off[x] \in taken .. MAX_POINTER_SIZE + MAX_INT_SIZE - 1
  /\ \A x \in intOnly : off[x] \in taken .. MAX_INT_SIZE - 1

\* Three calls in a row, the last two in one space: no register is given twice, none
\* that a class integer has, and to an index variable only one of the integers'.
LEMMA InIndicesApart ==
  ASSUME NEW K \in Nat, NEW intOnly, intOnly \subseteq 1 .. K, NEW taken \in 0 .. MAX_INT_SIZE,
         InIntegers(1 .. K, intOnly, taken).ok, InIndices(1 .. K, intOnly, taken).ok
  PROVE  ApartIn(InIndices(1 .. K, intOnly, taken).off, K, intOnly, taken)
  <1> DEFINE MI == MAX_INT_SIZE
             MP == MAX_POINTER_SIZE
             rest == (1 .. K) \ intOnly
             z == [off |-> [n \in 1 .. K |-> -1], size |-> 0]
             p == InPointers(1 .. K, intOnly)
             p0 == [p EXCEPT !.size = 0]
             i == InIntegers(1 .. K, intOnly, taken)
             o == InIndices(1 .. K, intOnly, taken)
             avail == MI - taken
  <1>0. MI \in Nat /\ MP \in Nat /\ avail \in Int /\ taken \in 0 .. MI BY RegistersAssumption
  <1>1. Cardinality(1 .. K) = K BY FS_Interval
  <1>2. p = allocateGraph(z, rest, MP, MP + MI - 1) BY <1>1 DEF InPointers
  <1>3. i = allocateGraph(p0, rest, avail, MI - 1) BY DEF InIntegers
  <1>4. o = allocateGraph(i, intOnly, avail, MI - 1) BY DEF InIndices
  <1>5. /\ z.off \in [1 .. K -> Int] /\ z.size \in Nat /\ z.size = 0
        /\ \A n \in 1 .. K : z.off[n] = -1
    OBVIOUS
  <1>ok. i.ok /\ o.ok OBVIOUS
  <1> HIDE DEF p, i, o, z, MI, MP, avail, rest
  <1>6. Gave(z, rest, MP, MP + MI - 1, K, p)
    <2>1. MP + MI - 1 \in Int /\ (MP + MI - 1) - MP >= -1 /\ MP \in Int BY <1>0
    <2> QED BY <1>2, <1>5, <2>1, AllocateGives
  <1>7. p \in [off : [1 .. K -> Int], size : Nat, ok : BOOLEAN] BY <1>6 DEF Gave
  <1>8. p0.off = p.off /\ p0.size = 0 /\ p0.off \in [1 .. K -> Int] /\ p0.size \in Nat
    BY <1>7
  <1> HIDE DEF p0
  <1>b. MI - 1 \in Int /\ (MI - 1) - avail >= -1 BY <1>0 DEF avail
  <1>9. Gave(p0, rest, avail, MI - 1, K, i) BY <1>0, <1>3, <1>8, <1>b, AllocateGives
  <1>10. i.off \in [1 .. K -> Int] /\ i.size \in Nat BY <1>9 DEF Gave
  <1>11. Gave(i, intOnly, avail, MI - 1, K, o) BY <1>0, <1>4, <1>10, <1>b, AllocateGives
  <1>12. o.off \in [1 .. K -> Int] BY <1>11 DEF Gave
  <1>13. ASSUME NEW x \in 1 .. K
         PROVE  /\ p.off[x] \in Int /\ i.off[x] \in Int /\ o.off[x] \in Int
                /\ p.off[x] = -1 \/ (x \in rest /\ MI <= p.off[x] /\ p.off[x] <= MP + MI - 1)
                /\ \/ i.off[x] = p.off[x]
                   \/ /\ p.off[x] = -1 /\ x \in rest /\ taken <= i.off[x] /\ i.off[x] <= MI - 1
                      /\ i.off[x] > MI - 1 - i.size
                /\ \/ o.off[x] = i.off[x]
                   \/ /\ i.off[x] = -1 /\ x \in intOnly /\ taken <= o.off[x] /\ o.off[x] <= MI - 1
                      /\ o.off[x] <= MI - 1 - i.size
    <2>1. p.off[x] \in Int /\ i.off[x] \in Int /\ o.off[x] \in Int BY <1>7, <1>10, <1>12
    <2>2. p.off[x] = -1 \/ (x \in rest /\ MI <= p.off[x] /\ p.off[x] <= MP + MI - 1)
      <3>1. \/ p.off[x] = z.off[x]
            \/ /\ x \in rest /\ p.off[x] > (MP + MI - 1) - MP
               /\ p.off[x] <= (MP + MI - 1) - z.size
        BY <1>6 DEF Gave
      <3>2. z.off[x] = -1 /\ z.size = 0 BY <1>5
      <3> QED BY <1>0, <2>1, <3>1, <3>2
    <2>3. \/ i.off[x] = p.off[x]
          \/ /\ p.off[x] = -1 /\ x \in rest /\ taken <= i.off[x] /\ i.off[x] <= MI - 1
             /\ i.off[x] > MI - 1 - i.size
      BY <1>0, <1>8, <1>9, <1>ok, <2>1 DEF Gave, avail
    <2>4. \/ o.off[x] = i.off[x]
          \/ /\ i.off[x] = -1 /\ x \in intOnly /\ taken <= o.off[x] /\ o.off[x] <= MI - 1
             /\ o.off[x] <= MI - 1 - i.size
      BY <1>0, <1>10, <1>11, <2>1 DEF Gave, avail
    <2> QED BY <2>1, <2>2, <2>3, <2>4
  <1>14. \A x \in 1 .. K : (x \in rest => i.off[x] # -1) /\ (x \in intOnly => o.off[x] # -1)
    BY <1>9, <1>11, <1>ok DEF Gave
  <1>15. \A x \in 1 .. K : x \in rest <=> x \notin intOnly BY DEF rest
  <1>16. \A x \in intOnly : x \in 1 .. K OBVIOUS
  <1>17. \A x \in intOnly : o.off[x] \in taken .. MI - 1 /\ i.off[x] = -1
    <2> TAKE x \in intOnly
    <2>1. x \in 1 .. K /\ ~(x \in rest) /\ o.off[x] # -1 BY <1>14, <1>15, <1>16
    <2>2. i.off[x] = -1 BY <1>13, <2>1
    <2>3. taken <= o.off[x] /\ o.off[x] <= MI - 1 /\ o.off[x] \in Int BY <1>13, <2>1, <2>2
    <2> QED BY <1>0, <2>2, <2>3
  <1>18. \A x \in rest : x \in 1 .. K /\ o.off[x] = i.off[x] BY <1>13, <1>15, <1>14 DEF rest
  <1>19. \A x \in 1 .. K : o.off[x] \in taken .. MP + MI - 1
    <2> TAKE x \in 1 .. K
    <2>1. CASE x \in intOnly
      <3>1. o.off[x] \in taken .. MI - 1 BY <1>17, <2>1
      <3> QED BY <1>0, <3>1
    <2>2. CASE x \notin intOnly
      <3>1. x \in rest /\ o.off[x] = i.off[x] /\ i.off[x] # -1 BY <1>14, <1>15, <1>18, <2>2
      <3>2. /\ i.off[x] \in Int
            /\ \/ MI <= i.off[x] /\ i.off[x] <= MP + MI - 1
               \/ taken <= i.off[x] /\ i.off[x] <= MI - 1
        BY <1>13, <3>1
      <3> QED BY <1>0, <3>1, <3>2
    <2> QED BY <2>1, <2>2
  <1>20. ASSUME NEW x \in 1 .. K, NEW y \in 1 .. K, x # y PROVE o.off[x] # o.off[y]
    <2>p. /\ p.off[x] # -1 /\ p.off[y] # -1 => p.off[x] # p.off[y]
      BY <1>5, <1>6, <1>20 DEF Gave
    <2>i. i.off[x] # p.off[x] /\ i.off[y] # p.off[y] => i.off[x] # i.off[y]
      BY <1>8, <1>9, <1>20 DEF Gave
    <2>o. o.off[x] # i.off[x] /\ o.off[y] # i.off[y] => o.off[x] # o.off[y]
      BY <1>11, <1>20 DEF Gave
    <2>1. CASE x \in intOnly /\ y \in intOnly
      <3>1. /\ i.off[x] = -1 /\ i.off[y] = -1
            /\ o.off[x] \in taken .. MI - 1 /\ o.off[y] \in taken .. MI - 1
        BY <1>17, <2>1
      <3> QED BY <1>0, <2>o, <3>1
    <2>2. CASE x \in rest /\ y \in rest
      <3>1. o.off[x] = i.off[x] /\ o.off[y] = i.off[y] BY <1>18, <2>2
      <3>2. i.off[x] # -1 /\ i.off[y] # -1 BY <1>14, <2>2
      <3> QED BY <1>0, <1>13, <2>p, <2>i, <3>1, <3>2
    <2>3. ASSUME NEW u \in 1 .. K, NEW v \in 1 .. K, u \in intOnly, v \in rest
          PROVE  o.off[u] # o.off[v]
      <3>1. i.off[u] = -1 /\ o.off[u] \in taken .. MI - 1 BY <1>17, <2>3
      <3>2. o.off[u] <= MI - 1 - i.size BY <1>0, <1>13, <3>1
      <3>3. o.off[v] = i.off[v] /\ i.off[v] # -1 /\ i.off[v] \in Int BY <1>13, <1>14, <1>18, <2>3
      <3>4. i.off[v] >= MI \/ i.off[v] > MI - 1 - i.size BY <1>13, <3>3
      <3> QED BY <1>0, <1>10, <3>1, <3>2, <3>3, <3>4
    <2> QED BY <1>15, <2>1, <2>2, <2>3
  <1> QED BY <1>12, <1>17, <1>19, <1>20 DEF o, MI, MP, ApartIn

\* cGraph::buildFunc's registers are safe (graph.cpp).  For any graph, any order of its
\* variables and any sizes of the register files: when the class's integers fit and
\* there was room for the index variables at the first try, two variables joined by an
\* edge get different registers; none gets the register of a class integer; every
\* register exists; one that indexes arrays gets an integer's; and no class integer
\* moves.  The hypothesis on the first try is needed: allocateGraph does not count the
\* registers it gave before it ran out of space (line 257), so the class integer that
\* moves may get one of them, and the second try may give one of them again.
THEOREM RegistersApart ==
  ASSUME NEW S, NEW order \in Seq(S), NEW edges, NEW index, NEW classInts,
         \A i, j \in 1 .. Len(order) : order[i] = order[j] => i = j,
         Len(classInts) \in 0 .. MAX_INT_SIZE,
         IntegerRegisters(color(order, edges), index, classInts).ok,
         InIndices(Range(color(order, edges)), IntOnly(color(order, edges), index),
                   Len(classInts)).ok
  PROVE  LET c == color(order, edges)
             r == IntegerRegisters(c, index, classInts)
         IN  /\ \A t, u \in DOMAIN c :
                  t # u /\ {t, u} \in edges => r.off[c[t]] # r.off[c[u]]
             /\ \A t \in DOMAIN c :
                  r.off[c[t]] \in Len(classInts) .. MAX_POINTER_SIZE + MAX_INT_SIZE - 1
             /\ \A t \in DOMAIN c :
                  t.v \in index => r.off[c[t]] \in Len(classInts) .. MAX_INT_SIZE - 1
             /\ r.moved = 0
  <1> DEFINE c == color(order, edges)
             taken == Len(classInts)
             all == Range(c)
             intOnly == IntOnly(c, index)
             o == InIndices(all, intOnly, taken)
             r == IntegerRegisters(c, index, classInts)
  <1>1. Colouring(order, edges, c, Len(order)) BY NeighboursApart
  <1>2. taken \in 0 .. MAX_INT_SIZE /\ r.ok /\ o.ok OBVIOUS
  <1>3. r = [ok |-> InIntegers(all, intOnly, taken).ok /\ o.ok, off |-> o.off, moved |-> 0]
    BY <1>2 DEF IntegerRegisters
  <1> HIDE DEF c, r, o, taken
  <1>4. PICK m \in 0 .. Len(order) : {c[t] : t \in DOMAIN c} = 1 .. m BY <1>1 DEF Colouring
  <1>5. all = 1 .. m /\ m \in Nat BY <1>4 DEF Range
  <1>6. intOnly \subseteq 1 .. m BY <1>4 DEF IntOnly
  <1>7. \A t \in DOMAIN c : c[t] \in 1 .. m /\ (t.v \in index => c[t] \in intOnly)
    BY <1>4 DEF IntOnly
  <1>8. r.off = o.off /\ r.moved = 0 /\ InIntegers(1 .. m, intOnly, taken).ok
    BY <1>2, <1>3, <1>5
  <1> HIDE DEF all, intOnly
  <1>9. o = InIndices(1 .. m, intOnly, taken) BY <1>5 DEF o
  <1>10. /\ \A x, y \in 1 .. m : x # y => o.off[x] # o.off[y]
         /\ \A x \in 1 .. m : o.off[x] \in taken .. MAX_POINTER_SIZE + MAX_INT_SIZE - 1
         /\ \A x \in intOnly : o.off[x] \in taken .. MAX_INT_SIZE - 1
    <2>1. InIndices(1 .. m, intOnly, taken).ok BY <1>2, <1>9
    <2>2. taken \in 0 .. MAX_INT_SIZE BY <1>2
    <2>3. InIntegers(1 .. m, intOnly, taken).ok BY <1>8
    <2>4. m \in Nat BY <1>5
    <2>5. ApartIn(InIndices(1 .. m, intOnly, taken).off, m, intOnly, taken)
      BY <1>6, <2>1, <2>2, <2>3, <2>4, InIndicesApart
    <2> QED BY <1>9, <2>5 DEF ApartIn
  <1>11. \A t, u \in DOMAIN c : t # u /\ {t, u} \in edges => r.off[c[t]] # r.off[c[u]]
    <2> SUFFICES ASSUME NEW t \in DOMAIN c, NEW u \in DOMAIN c, t # u, {t, u} \in edges
                 PROVE  r.off[c[t]] # r.off[c[u]]
      OBVIOUS
    <2>1. c[t] # c[u] BY <1>1, Zenon DEF Colouring
    <2>2. c[t] \in 1 .. m /\ c[u] \in 1 .. m BY <1>7, Zenon
    <2>3. o.off[c[t]] # o.off[c[u]] BY <1>10, <2>1, <2>2, Zenon
    <2> QED BY <1>8, <2>3
  <1>12. \A t \in DOMAIN c : r.off[c[t]] \in taken .. MAX_POINTER_SIZE + MAX_INT_SIZE - 1
    BY <1>7, <1>8, <1>10
  <1>13. \A t \in DOMAIN c : t.v \in index => r.off[c[t]] \in taken .. MAX_INT_SIZE - 1
    BY <1>7, <1>8, <1>10
  <1> QED BY <1>8, <1>11, <1>12, <1>13 DEF c, r, taken
=============================================================================
