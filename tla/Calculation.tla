---------------------------- MODULE Calculation ----------------------------
(***************************************************************************)
(* ReinterationCalculation (include/util/calculation.h): running minimum,  *)
(* maximum and mean of the values inserted since the last Clear.  The      *)
(* scoped lock is the whole statement of its if, so it is released before  *)
(* the members are touched: Insert and Clear run unlocked in any thread.   *)
(* The double mean is an exact fraction here.                              *)
(***************************************************************************)
EXTENDS Integers, Sequences, FiniteSetsExt

CONSTANTS
  Threads,      \* the threads that insert
  Values,       \* the values they insert
  Uninit,       \* what m_min and m_max may hold before the first value
  ConstMaxCnt,  \* m_constMaxCnt, 2^17 in the code
  MaxInserts,   \* bound: calls of Insert between two calls of Clear
  MaxClears     \* bound: calls of Clear

ASSUME CalculationAssumption ==
  /\ Values \subseteq Int /\ Uninit \subseteq Int /\ Uninit # {}
  /\ ConstMaxCnt \in Nat /\ ConstMaxCnt > 1 /\ MaxInserts \in Nat /\ MaxClears \in Nat

VARIABLES
  m_count, m_min, m_max,
  m_mean,     \* [num, den]
  pc,         \* pc[t]: the next step of Insert, "idle" outside it
  value,      \* value[t]: the argument of the call
  loaded,     \* loaded[t]: the count ++m_count read
  inserted,   \* the values inserted since the last Clear, in the order of the calls
  apart,      \* history: since the last Clear no two calls were under way together
  clears      \* calls of Clear

vars == <<m_count, m_min, m_max, m_mean, pc, value, loaded, inserted, apart, clears>>

Quiet == \A t \in Threads : pc[t] = "idle"

Init ==
  /\ m_count = 0 /\ m_mean = [num |-> 0, den |-> 1]
  /\ m_min \in Uninit /\ m_max \in Uninit
  /\ pc = [t \in Threads |-> "idle"]
  /\ value \in [Threads -> {CHOOSE v \in Values : TRUE}]
  /\ loaded = [t \in Threads |-> 0]
  /\ inserted = <<>> /\ apart = TRUE /\ clears = 0

(* Mutation of Insert: the cap is tested with <=. *)
InsertPastCap(t, v) ==
  /\ pc[t] = "idle" /\ Len(inserted) < MaxInserts
  /\ pc' = [pc EXCEPT ![t] = IF m_count <= ConstMaxCnt THEN "count" ELSE "mean"]
  /\ loaded' = [loaded EXCEPT ![t] = m_count]
  /\ value' = [value EXCEPT ![t] = v]
  /\ inserted' = Append(inserted, v) /\ apart' = (apart /\ Quiet)
  /\ UNCHANGED <<m_count, m_min, m_max, m_mean, clears>>

(* Insert: the lock is taken and given back, and the count is read ... *)
Insert(t, v) ==
  /\ pc[t] = "idle" /\ Len(inserted) < MaxInserts
  /\ pc' = [pc EXCEPT ![t] = IF m_count < ConstMaxCnt THEN "count" ELSE "mean"]
  /\ loaded' = [loaded EXCEPT ![t] = m_count]
  /\ value' = [value EXCEPT ![t] = v]
  /\ inserted' = Append(inserted, v) /\ apart' = (apart /\ Quiet)
  /\ UNCHANGED <<m_count, m_min, m_max, m_mean, clears>>

(* ... and written, one more. *)
Count(t) ==
  /\ pc[t] = "count"
  /\ m_count' = loaded[t] + 1
  /\ pc' = [pc EXCEPT ![t] = "mean"]
  /\ UNCHANGED <<m_min, m_max, m_mean, value, loaded, inserted, apart, clears>>


(* m_mean + (value - m_mean) / m_count.  A Clear between the count and the  *)
(* mean leaves m_count 0; the division then gives a value that is no        *)
(* number, written here with denominator 0.                                 *)
Calculation_Mean(t) ==
  /\ pc[t] = "mean"
  /\ m_mean' = IF m_count = 1
               THEN [num |-> value[t], den |-> 1]
               ELSE [num |-> m_mean.num * (m_count - 1) + value[t] * m_mean.den,
                     den |-> m_mean.den * m_count]
  /\ pc' = [pc EXCEPT ![t] = "minmax"]
  /\ UNCHANGED <<m_count, m_min, m_max, value, loaded, inserted, apart, clears>>

(* Mutation of Calculation_MinMax: the first value is compared like the rest. *)
Calculation_MinMaxAlways(t) ==
  /\ pc[t] = "minmax"
  /\ m_max' = IF value[t] > m_max THEN value[t] ELSE m_max
  /\ m_min' = IF value[t] < m_min THEN value[t] ELSE m_min
  /\ pc' = [pc EXCEPT ![t] = "idle"]
  /\ UNCHANGED <<m_count, m_mean, value, loaded, inserted, apart, clears>>

Calculation_MinMax(t) ==
  /\ pc[t] = "minmax"
  /\ m_max' = IF m_count = 1 \/ value[t] > m_max THEN value[t] ELSE m_max
  /\ m_min' = IF m_count = 1 \/ value[t] < m_min THEN value[t] ELSE m_min
  /\ pc' = [pc EXCEPT ![t] = "idle"]
  /\ UNCHANGED <<m_count, m_mean, value, loaded, inserted, apart, clears>>

(* Clear resets the count only; the next first value replaces the rest. *)
Clear(t) ==
  /\ pc[t] = "idle" /\ clears < MaxClears
  /\ m_count' = 0 /\ inserted' = <<>>
  /\ apart' = Quiet /\ clears' = clears + 1
  /\ UNCHANGED <<m_min, m_max, m_mean, pc, value, loaded>>

Next ==
  \E t \in Threads :
    \/ \E v \in Values : Insert(t, v)
    \/ Count(t)
    \/ Calculation_Mean(t)
    \/ Calculation_MinMax(t)
    \/ Clear(t)

Spec == Init /\ [][Next]_vars
-----------------------------------------------------------------------------
Seen == {inserted[i] : i \in DOMAIN inserted}
Sum == LET s[i \in 0..Len(inserted)] == IF i = 0 THEN 0 ELSE s[i - 1] + inserted[i]
       IN  s[Len(inserted)]

(* The variables have their types; the count never passes the cap. *)
TypeOK ==
  /\ m_count \in 0..ConstMaxCnt
  /\ m_min \in Values \cup Uninit /\ m_max \in Values \cup Uninit
  /\ m_mean.num \in Int /\ m_mean.den \in Nat
  /\ pc \in [Threads -> {"idle", "count", "mean", "minmax"}]
  /\ value \in [Threads -> Values] /\ loaded \in [Threads -> 0..ConstMaxCnt]
  /\ inserted \in Seq(Values) /\ apart \in BOOLEAN /\ clears \in 0..MaxClears

(* Between calls, when no two calls overlapped and there is a value since  *)
(* the last Clear, GetMin and GetMax are the least and the greatest of the *)
(* values, whatever the members held before, although Clear leaves them    *)
(* alone.  Nothing of the kind holds of calls that overlap: the lock of    *)
(* Insert is given back before the members change.                         *)
ExtremaOfInserted ==
  Quiet /\ apart /\ inserted # <<>> => m_min = Min(Seen) /\ m_max = Max(Seen)

(* In the same case GetMean is the mean of the values and GetCount their   *)
(* number; at the cap the mean goes on as a weighted one, which never      *)
(* leaves the range of the values.                                         *)
MeanOfInserted ==
  Quiet /\ apart /\ inserted # <<>> =>
    /\ Len(inserted) <= ConstMaxCnt =>
         /\ m_count = Len(inserted)
         /\ m_mean.num * m_count = Sum * m_mean.den
    /\ m_min * m_mean.den <= m_mean.num /\ m_mean.num <= m_max * m_mean.den
=============================================================================
