-------------------------- MODULE Reconnect_proofs --------------------------
(***************************************************************************)
(* Proofs about Reconnect, for every setting of a Backoff whose initial     *)
(* delay is at most the largest.  The powers of two are counted: 2 ^ n is   *)
(* the number of the subsets of 1 .. n.                                    *)
(***************************************************************************)
EXTENDS Reconnect, FiniteSetTheorems, TLAPS

\* A power of two counts subsets.
LEMMA PowerCounts ==
    ASSUME NEW n \in Nat
    PROVE  /\ IsFiniteSet(SUBSET (1 .. n))
           /\ Cardinality(SUBSET (1 .. n)) = 2 ^ n
           /\ 2 ^ n \in Nat
<1>1. IsFiniteSet(1 .. n) /\ Cardinality(1 .. n) = n
  BY FS_Interval
<1>2. IsFiniteSet(SUBSET (1 .. n)) /\ Cardinality(SUBSET (1 .. n)) = 2 ^ Cardinality(1 .. n)
  BY <1>1, FS_SUBSET
<1>3. Cardinality(SUBSET (1 .. n)) \in Nat
  BY <1>2, FS_CardinalityType
<1> QED BY <1>1, <1>2, <1>3

\* There is one subset of nothing.
LEMMA PowerZero == 2 ^ 0 = 1
<1>1. SUBSET (1 .. 0) = {{}}
  OBVIOUS
<1>2. Cardinality({{}}) = 1
  BY FS_Singleton
<1> QED BY <1>1, <1>2, PowerCounts

\* What saturating_mul(2) is about: of the subsets of 1 .. n + 1, half have n + 1.
LEMMA PowerDoubles ==
    ASSUME NEW n \in Nat
    PROVE  2 ^ (n + 1) = 2 * 2 ^ n
<1> DEFINE low  == SUBSET (1 .. n)
           high == {s \in SUBSET (1 .. n + 1) : n + 1 \in s}
           put  == [s \in low |-> s \cup {n + 1}]
<1>1. IsFiniteSet(low) /\ Cardinality(low) = 2 ^ n /\ 2 ^ n \in Nat
  BY PowerCounts
<1>2. IsFiniteSet(SUBSET (1 .. n + 1)) /\ Cardinality(SUBSET (1 .. n + 1)) = 2 ^ (n + 1)
  BY PowerCounts
<1>3. put \in Bijection(low, high)
  <2>1. \A s \in low : s \cup {n + 1} \in high
    OBVIOUS
  <2>2. put \in [low -> high]
    BY <2>1
  <2>3. \A s, t \in low : put[s] = put[t] => s = t
    <3> SUFFICES ASSUME NEW s \in low, NEW t \in low, put[s] = put[t] PROVE s = t
      OBVIOUS
    <3>1. n + 1 \notin s /\ n + 1 \notin t
      OBVIOUS
    <3> QED BY <3>1
  <2>4. \A h \in high : \E s \in low : put[s] = h
    <3> TAKE h \in high
    <3>1. h \ {n + 1} \in low
      <4>1. \A i \in h : i \in 1 .. n + 1
        OBVIOUS
      <4>2. \A i \in h \ {n + 1} : i \in 1 .. n
        BY <4>1
      <4> QED BY <4>2
    <3>2. put[h \ {n + 1}] = (h \ {n + 1}) \cup {n + 1}
      BY <3>1
    <3>3. (h \ {n + 1}) \cup {n + 1} = h
      BY Zenon
    <3> QED BY <3>1, <3>2, <3>3
  <2> HIDE DEF low, high, put
  <2> QED BY <2>2, <2>3, <2>4 DEF Bijection, Injection, IsInjective, Surjection
<1>4. IsFiniteSet(high) /\ Cardinality(high) = Cardinality(low)
  <2> HIDE DEF low, high, put
  <2> QED BY <1>1, <1>3, FS_Bijection DEF ExistsBijection
<1>5. low \cup high = SUBSET (1 .. n + 1) /\ low \cap high = {}
  <2>1. \A s \in SUBSET (1 .. n + 1) : n + 1 \notin s => s \in low
    <3> SUFFICES ASSUME NEW s \in SUBSET (1 .. n + 1), n + 1 \notin s, NEW i \in s
                 PROVE  i \in 1 .. n
      OBVIOUS
    <3> QED OBVIOUS
  <2>2. \A s \in low : s \in SUBSET (1 .. n + 1) /\ n + 1 \notin s
    OBVIOUS
  <2> QED BY <2>1, <2>2
<1>6. Cardinality(low \cup high) = Cardinality(low) + Cardinality(high)
  <2> HIDE DEF low, high
  <2> QED BY <1>1, <1>4, <1>5, FS_Union, FS_EmptySet
<1> HIDE DEF low, high
<1>7. 2 ^ (n + 1) = 2 ^ n + 2 ^ n
  BY <1>1, <1>2, <1>4, <1>5, <1>6
<1> QED BY <1>1, <1>7

\* Doubling with a cap is the cap of the doubling.
LEMMA CappedDoubling ==
    ASSUME NEW i \in Nat, NEW n \in Nat, NEW c \in Nat
    PROVE  Least(2 * Least(i * 2 ^ n, c), c) = Least(i * 2 ^ (n + 1), c)
<1>1. PICK p \in Nat : p = 2 ^ n
  BY PowerCounts
<1>2. i * 2 ^ (n + 1) = i * (2 * p)
  BY <1>1, PowerDoubles
<1>3. PICK x \in Nat : x = i * p
  OBVIOUS
<1>4. i * (2 * p) = 2 * x
  BY <1>3
<1> QED BY <1>1, <1>2, <1>3, <1>4 DEF Least

-----------------------------------------------------------------------------
(* The loop. *)

\* Backoff::new() has it: a delay starts at or below its cap.
Sound == \A s \in Settings : s[1] <= s[2]

\* The delay to come is the doubling of the attempts so far, and so was the one slept.
\* Without auto_reconnect nothing is slept.
Doubling ==
    /\ auto \in BOOLEAN
    /\ initial \in Nat /\ max \in 0 .. MaxU64 /\ initial <= max
    /\ fails \in Nat
    /\ next = Least(initial * 2 ^ fails, max)
    /\ ~auto => fails = 0
    /\ pc = "sleep" => fails # 0 /\ delay = Least(initial * 2 ^ (fails - 1), max)

\* new_with starts with the initial delay.
LEMMA DoublingInit == Sound /\ Init => Doubling
<1> SUFFICES ASSUME Sound, Init PROVE Doubling
  OBVIOUS
<1>1. PICK s \in Settings : initial = s[1] /\ max = s[2]
  BY DEF Init
<1>2. initial \in Nat /\ max \in 0 .. MaxU64 /\ initial <= max
  BY <1>1, SettingsAssumption, MaxU64Assumption DEF Sound
<1>3. initial * 2 ^ fails = initial /\ fails \in Nat
  <2>1. 2 ^ fails = 1
    BY PowerZero DEF Init
  <2> QED BY <1>2, <2>1 DEF Init
<1>4. auto \in BOOLEAN
  BY Zenon DEF Init
<1> QED BY <1>2, <1>3, <1>4 DEF Init, Doubling

\* next_delay: what is slept is the delay to come, and the one after it is doubled; a
\* sleep is counted.
LEMMA SleepKeeps ==
    ASSUME Doubling, Sleep, UNCHANGED settings, fails' = fails + 1, auto
    PROVE  Doubling'
<1>1. /\ initial \in Nat /\ max \in Nat /\ max <= MaxU64 /\ fails \in Nat /\ MaxU64 \in Nat
      /\ initial' = initial /\ max' = max /\ auto' = auto
  BY MaxU64Assumption DEF Doubling, settings
<1>2. PICK x \in Nat : x = initial * 2 ^ fails
  <2>1. PICK p \in Nat : p = 2 ^ fails
    BY <1>1, PowerCounts
  <2> QED BY <1>1, <2>1
<1>3. next = Least(x, max)
  BY <1>2 DEF Doubling
<1>4. next' = Least(2 * Least(x, max), max)
  BY <1>1, <1>3 DEF Sleep, Double, Least
<1>5. next' = Least(initial * 2 ^ (fails + 1), max)
  BY <1>1, <1>2, <1>4, CappedDoubling
<1>6. delay' = Least(initial * 2 ^ fails, max)
  BY DEF Sleep, Doubling
<1>7. fails' \in Nat /\ fails' # 0 /\ fails' - 1 = fails
  BY <1>1
<1>8. auto' \in BOOLEAN /\ auto'
  BY <1>1 DEF Doubling
<1> QED BY <1>1, <1>5, <1>6, <1>7, <1>8 DEF Doubling

\* Every step of run keeps the doubling: a connection starts over, a sleep doubles.
LEMMA DoublingStep == Doubling /\ [Next]_vars => Doubling'
<1> SUFFICES ASSUME Doubling, [Next]_vars PROVE Doubling'
  OBVIOUS
<1>1. CASE Connected
  <2>1. /\ initial \in Nat /\ max \in Nat /\ initial <= max /\ fails' = 0
        /\ initial' = initial /\ max' = max /\ auto' = auto /\ auto \in BOOLEAN
    BY <1>1, MaxU64Assumption DEF Connected, Doubling, settings
  <2>2. Least(initial * 2 ^ fails', max) = initial
    <3>1. 2 ^ fails' = 1
      BY <2>1, PowerZero
    <3> QED BY <2>1, <3>1 DEF Least
  <2>3. next' = initial
    <3>1. CASE auto
      BY <1>1, <3>1 DEF Connected
    <3>2. CASE ~auto
      <4>1. fails = 0 /\ next' = next
        BY <1>1, <3>2 DEF Connected, Doubling
      <4> QED BY <2>1, <2>2, <4>1 DEF Doubling
    <3> QED BY <3>1, <3>2
  <2>4. pc' # "sleep"
    BY <1>1 DEF Connected
  <2> QED BY <2>1, <2>2, <2>3, <2>4 DEF Doubling
<1>2. CASE ConnectFails
  BY <1>2, SleepKeeps DEF ConnectFails
<1>3. CASE Served
  BY <1>3, SleepKeeps DEF Served
<1>4. CASE Awake
  BY <1>4 DEF Awake, Doubling, settings
<1>5. CASE Return
  BY <1>5 DEF Return, Doubling, settings
<1>6. CASE UNCHANGED vars
  BY <1>6 DEF vars, settings, Doubling
<1> QED BY <1>1, <1>2, <1>3, <1>4, <1>5, <1>6 DEF Next

\* "Capped exponential backoff": when every setting starts at or below its cap, the sleep
\* after k attempts in a row is initial * 2^(k-1) capped by max, for every setting, every
\* number of failures and wherever the saturating multiplication meets the largest u64.
THEOREM DelaysDouble == Sound => (Spec => []DelayDoubles)
<1>1. Doubling => DelayDoubles
  BY DEF Doubling, DelayDoubles
<1> QED BY <1>1, DoublingInit, DoublingStep, PTL DEF Spec
=============================================================================
