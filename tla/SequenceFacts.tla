---------------------------- MODULE SequenceFacts ----------------------------
(***************************************************************************)
(* Facts about numbers, sequences and loops that several of the proofs     *)
(* need: about the message history, the delivery of events, the router.    *)
(***************************************************************************)
EXTENDS TLAPS, SequenceTheorems, WellFoundedInduction

(* A set of numbers that is not empty has a least member.  The induction   *)
(* theorems of the library take a predicate as a parameter; this is the    *)
(* form of induction that is stated about sets.                            *)
LEMMA LeastNumber ==
  ASSUME NEW T \in SUBSET Nat, T # {}
  PROVE  \E n \in T : \A k \in T : n <= k
<1> DEFINE R == OpToRel(<, Nat)
<1>1. \A a, b \in Nat : a < b => <<a, b>> \in R
  BY DEF OpToRel
<1>2. IsWellFoundedOn(R, Nat)
  BY NatLessThanWellFounded
<1> HIDE DEF R
<1>3. PICK n \in T : \A k \in T : ~(<<k, n>> \in R)
  BY <1>2, WFMin
<1>4. n \in Nat /\ \A k \in T : k \in Nat /\ ~(k < n)
  BY <1>1, <1>3
<1>. QED BY <1>4

(* What is left of a sequence without its first k elements                 *)
LEMMA SuffixElements ==
  ASSUME NEW S, NEW m \in Seq(S), NEW k \in 0..Len(m)
  PROVE  LET s == SubSeq(m, k + 1, Len(m)) IN
         /\ s \in Seq(S)
         /\ Len(s) = Len(m) - k /\ Len(s) \in Nat /\ DOMAIN s = 1..Len(s)
         /\ \A i \in 1..Len(s) : i + k \in k + 1..Len(m) /\ i + k \in 1..Len(m) /\ s[i] = m[i + k]
<1> DEFINE s == SubSeq(m, k + 1, Len(m))
<1>1. Len(m) \in Nat /\ \A i \in 1..Len(m) : m[i] \in S
  BY ElementOfSeq, LenProperties
<1>2. k + 1 \in Int /\ Len(m) \in Int /\ \A i \in k + 1..Len(m) : m[i] \in S
  BY <1>1
<1>3. /\ s \in Seq(S)
      /\ Len(s) = IF k + 1 <= Len(m) THEN Len(m) - (k + 1) + 1 ELSE 0
      /\ \A i \in 1..Len(m) - (k + 1) + 1 : s[i] = m[(k + 1) + i - 1]
  BY <1>2, SubSeqProperties
<1> HIDE DEF s
<1>4. Len(s) = Len(m) - k /\ Len(s) \in Nat
  BY <1>1, <1>3
<1>5. ASSUME NEW i \in 1..Len(s)
      PROVE  i + k \in k + 1..Len(m) /\ i + k \in 1..Len(m) /\ s[i] = m[i + k]
  <2>1. /\ i \in 1..Len(m) - (k + 1) + 1 /\ (k + 1) + i - 1 = i + k
        /\ i + k \in k + 1..Len(m) /\ i + k \in 1..Len(m)
    BY <1>1, <1>4
  <2>. QED BY <1>3, <2>1
<1>6. DOMAIN s = 1..Len(s)
  BY <1>3, LenProperties
<1>. QED BY <1>3, <1>4, <1>5, <1>6 DEF s

(* ... and one that is bounded has a greatest.                             *)
LEMMA GreatestNumber ==
  ASSUME NEW n \in Nat, NEW T \in SUBSET (1..n), T # {}
  PROVE  \E m \in T : \A k \in T : k <= m
<1> DEFINE U == {n - k : k \in T}
<1>1. U \in SUBSET Nat /\ U # {}
  <2>1. \A k \in T : n - k \in Nat
    OBVIOUS
  <2>. QED BY <2>1
<1> HIDE DEF U
<1>2. PICK u \in U : \A v \in U : u <= v
  BY <1>1, LeastNumber
<1>3. PICK m \in T : u = n - m
  BY <1>2 DEF U
<1>4. \A k \in T : n - k \in U /\ u <= n - k
  BY <1>2 DEF U
<1>5. \A k \in T : k <= m
  BY <1>3, <1>4
<1>. QED BY <1>5

(* Induction from 0 to n, for a property given as the set of numbers that  *)
(* have it.                                                                *)
LEMMA CountingUp ==
  ASSUME NEW n \in Nat, NEW T, 0 \in T, \A i \in 1..n : i - 1 \in T => i \in T
  PROVE  \A i \in 0..n : i \in T
<1> DEFINE U == {i \in 0..n : i \notin T}
<1> SUFFICES ASSUME U # {} PROVE FALSE
  OBVIOUS
<1>1. U \in SUBSET Nat
  OBVIOUS
<1>2. \A i \in 0..n : i \in U <=> i \notin T
  OBVIOUS
<1>3. U \subseteq 0..n
  OBVIOUS
<1> HIDE DEF U
<1>4. PICK i \in U : \A k \in U : i <= k
  BY <1>1, LeastNumber
<1>5. i \in 1..n /\ i - 1 \in 0..n
  BY <1>2, <1>3, <1>4
<1>6. i - 1 \in T
  BY <1>2, <1>4, <1>5
<1>. QED BY <1>2, <1>3, <1>4, <1>5, <1>6

(* What a loop computes exists: n steps from a first value, each a         *)
(* function of its number and of the value before.                         *)
Steps(n, S) == [(1..n) \X S -> S]

Loop(f, n, S, first, step) ==
  /\ f \in [0..n -> S] /\ f[0] = first
  /\ \A i \in 1..n : f[i] = step[<<i, f[i - 1]>>]

LEMMA LoopValues ==
  ASSUME NEW n \in Nat, NEW S, NEW first \in S, NEW step \in Steps(n, S)
  PROVE  \E f : Loop(f, n, S, first, step)
<1> USE DEF Steps
<1> DEFINE Fits(f, k) == f[0] = first /\ \A i \in 1..k : f[i] = step[<<i, f[i - 1]>>]
           T == {k \in 0..n : \E f \in [0..k -> S] : Fits(f, k)}
<1>1. 0 \in T
  <2> DEFINE g == [i \in 0..0 |-> first]
  <2>1. g \in [0..0 -> S] /\ Fits(g, 0) /\ 0 \in 0..n
    OBVIOUS
  <2> HIDE DEF g, Fits
  <2>. QED BY <2>1
<1>2. ASSUME NEW k \in 1..n, k - 1 \in T PROVE k \in T
  <2>1. PICK f \in [0..k - 1 -> S] : Fits(f, k - 1)
    BY <1>2 DEF T
  <2>0. k \in 0..n
    BY <1>2
  <2> DEFINE g == [i \in 0..k |-> IF i = k THEN step[<<k, f[k - 1]>>] ELSE f[i]]
  <2>2. /\ f[k - 1] \in S /\ <<k, f[k - 1]>> \in (1..n) \X S
        /\ step[<<k, f[k - 1]>>] \in S
    BY <1>2
  <2>3. g \in [0..k -> S]
    BY <1>2, <2>2
  <2>4. g[k] = step[<<k, f[k - 1]>>] /\ \A i \in 0..k - 1 : g[i] = f[i]
    BY <1>2
  <2> HIDE DEF g
  <2>5. g[0] = first
    BY <1>2, <2>1, <2>4
  <2>6. ASSUME NEW i \in 1..k PROVE g[i] = step[<<i, g[i - 1]>>]
    <3>1. i - 1 \in 0..k - 1 /\ g[i - 1] = f[i - 1]
      BY <1>2, <2>4
    <3>2. CASE i = k
      BY <2>4, <3>1, <3>2
    <3>3. CASE i # k
      <4>1. i \in 1..k - 1 /\ i \in 0..k - 1
        BY <1>2, <3>3
      <4>. QED BY <2>1, <2>4, <3>1, <4>1
    <3>. QED BY <3>2, <3>3
  <2>7. Fits(g, k)
    BY <2>5, <2>6
  <2>. QED BY <2>0, <2>3, <2>7
<1> HIDE DEF T
<1>3. n \in T
  BY <1>1, <1>2, CountingUp
<1>. QED BY <1>3 DEF T, Loop
=============================================================================
