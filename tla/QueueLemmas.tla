---------------------------- MODULE QueueLemmas ----------------------------
(***************************************************************************)
(* Facts about queues without repetitions, for the pools of the library.   *)
(***************************************************************************)
EXTENDS Integers, Sequences, FiniteSets, TLAPS, FiniteSetTheorems, SequenceTheorems

Distinct(q) == \A i, j \in DOMAIN q : q[i] = q[j] => i = j
Occurs(s, q) == \E i \in DOMAIN q : q[i] = s

(* Taking the head of such a queue removes the one occurrence of it. *)
LEMMA TailDistinct ==
  ASSUME NEW S, NEW q \in Seq(S), q # <<>>, Distinct(q)
  PROVE  /\ Head(q) \in S
         /\ Occurs(Head(q), q)
         /\ Tail(q) \in Seq(S)
         /\ Len(Tail(q)) = Len(q) - 1
         /\ Distinct(Tail(q))
         /\ \A s : Occurs(s, Tail(q)) <=> Occurs(s, q) /\ s # Head(q)
<1>1. /\ Len(q) \in Nat \ {0}
      /\ DOMAIN q = 1 .. Len(q)
      /\ Head(q) = q[1]
  BY EmptySeq, LenProperties
<1>2. /\ Head(q) \in S
      /\ Tail(q) \in Seq(S)
      /\ Len(Tail(q)) = Len(q) - 1
      /\ \A i \in 1 .. Len(Tail(q)) : Tail(q)[i] = q[i + 1]
  BY HeadTailProperties
<1>3. DOMAIN Tail(q) = 1 .. Len(q) - 1
  BY <1>2, LenProperties
<1>4. Distinct(Tail(q))
  BY <1>1, <1>2, <1>3 DEF Distinct
<1>5. ASSUME NEW s, Occurs(s, Tail(q)) PROVE Occurs(s, q) /\ s # Head(q)
  <2>1. PICK i \in 1 .. Len(q) - 1 : Tail(q)[i] = s
    BY <1>3, <1>5 DEF Occurs
  <2>2. i + 1 \in DOMAIN q /\ q[i + 1] = s /\ i + 1 # 1
    BY <1>1, <1>2, <2>1
  <2>3. QED
    BY <1>1, <2>2 DEF Occurs, Distinct
<1>6. ASSUME NEW s, Occurs(s, q), s # Head(q) PROVE Occurs(s, Tail(q))
  <2>1. PICK i \in 1 .. Len(q) : q[i] = s
    BY <1>1, <1>6 DEF Occurs
  <2>2. i # 1 /\ i - 1 \in 1 .. Len(q) - 1
    BY <1>1, <1>6, <2>1
  <2>3. Tail(q)[i - 1] = s
    BY <1>1, <1>2, <2>1, <2>2
  <2>4. QED
    BY <1>3, <2>2, <2>3 DEF Occurs
<1>7. Occurs(Head(q), q)
  BY <1>1 DEF Occurs
<1>8. QED
  BY <1>2, <1>4, <1>5, <1>6, <1>7

(* Appending something new keeps such a queue one. *)
LEMMA AppendDistinct ==
  ASSUME NEW S, NEW q \in Seq(S), NEW e \in S, Distinct(q), ~Occurs(e, q)
  PROVE  /\ Append(q, e) \in Seq(S)
         /\ Len(Append(q, e)) = Len(q) + 1
         /\ Distinct(Append(q, e))
         /\ \A s : Occurs(s, Append(q, e)) <=> Occurs(s, q) \/ s = e
<1> DEFINE r == Append(q, e)
<1>1. Len(q) \in Nat /\ DOMAIN q = 1 .. Len(q)
  BY LenProperties
<1>2. /\ r \in Seq(S)
      /\ Len(r) = Len(q) + 1
      /\ \A i \in 1 .. Len(q) : r[i] = q[i]
      /\ r[Len(q) + 1] = e
  BY AppendProperties
<1>3. DOMAIN r = 1 .. Len(q) + 1
  BY <1>2, LenProperties
<1> HIDE DEF r
<1>4. Distinct(r)
  BY <1>1, <1>2, <1>3 DEF Distinct, Occurs
<1>5. \A s : Occurs(s, r) <=> Occurs(s, q) \/ s = e
  BY <1>1, <1>2, <1>3 DEF Occurs
<1>6. QED
  BY <1>2, <1>4, <1>5 DEF r

(* The size of 1 .. n. *)
LEMMA IntervalSize == ASSUME NEW n \in Nat PROVE Cardinality(1 .. n) = n
<1>1. 1 \in Int /\ n \in Int
  OBVIOUS
<1>2. Cardinality(1 .. n) = IF 1 > n THEN 0 ELSE n - 1 + 1
  BY ONLY <1>1, FS_Interval, Zenon
<1>3. QED
  BY <1>2

(* A queue of distinct elements of S, one element of S missing, is shorter *)
(* than S is large.                                                        *)
LEMMA MissingElement ==
  ASSUME NEW S, IsFiniteSet(S), NEW q \in Seq(S), Distinct(q), NEW e \in S, ~Occurs(e, q)
  PROVE  Len(q) < Cardinality(S)
<1>1. Len(q) \in Nat /\ DOMAIN q = 1 .. Len(q) /\ q \in [1 .. Len(q) -> S]
  BY LenProperties
<1>2. q \in [1 .. Len(q) -> S \ {e}]
  BY <1>1 DEF Occurs
<1>3. q \in Injection(1 .. Len(q), S \ {e})
  BY <1>1, <1>2 DEF Distinct, Injection, IsInjective
<1>4. /\ IsFiniteSet(S \ {e})
      /\ Cardinality(S \ {e}) = Cardinality(S) - 1
      /\ Cardinality(S) \in Nat
  BY FS_RemoveElement, FS_CardinalityType
<1>5. Cardinality(1 .. Len(q)) <= Cardinality(S \ {e})
  BY <1>3, <1>4, FS_Injection
<1>6. Cardinality(1 .. Len(q)) = Len(q)
  BY <1>1, IntervalSize
<1>7. QED
  BY <1>1, <1>4, <1>5, <1>6

(* A queue of distinct elements of S is not longer than S is large. *)
LEMMA DistinctLength ==
  ASSUME NEW S, IsFiniteSet(S), NEW q \in Seq(S), Distinct(q)
  PROVE  Len(q) <= Cardinality(S)
<1>1. Len(q) \in Nat /\ DOMAIN q = 1 .. Len(q) /\ q \in [1 .. Len(q) -> S]
  BY LenProperties
<1>2. q \in Injection(1 .. Len(q), S)
  BY <1>1 DEF Distinct, Injection, IsInjective
<1>3. Cardinality(1 .. Len(q)) <= Cardinality(S)
  BY <1>2, FS_Injection
<1>4. QED
  BY <1>1, <1>3, IntervalSize
=============================================================================
