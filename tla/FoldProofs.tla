------------------------------ MODULE FoldProofs ------------------------------
(***************************************************************************)
(* What the fold does to any state under any schema: lemmas about          *)
(* ApplyOps, by induction on the operations, and theorems about            *)
(* ApplyChangeset.                                                         *)
(***************************************************************************)
EXTENDS Fold, SequencesExt, FiniteSetTheorems, WellFoundedInduction, TLAPS

-----------------------------------------------------------------------------
\* Induction by the least counterexample.

LEMMA LeastNumber ==
  ASSUME NEW T \in SUBSET Nat, T # {}
  PROVE  \E n \in T : \A m \in T : n <= m
<1> DEFINE below == {1..n : n \in T}
<1>1. below \subseteq FiniteSubsetsOf(Nat) /\ below # {}
  <2>1. \A n \in T : 1..n \in SUBSET Nat /\ IsFiniteSet(1..n)
    BY FS_Interval
  <2> QED
    BY <2>1 DEF FiniteSubsetsOf
<1>2. PICK S \in below : \A U \in below : <<U, S>> \notin StrictSubsetOrdering(Nat)
  <2> HIDE DEF below
  <2> QED
    BY <1>1, WFMin, FS_StrictSubsetOrderingWellFounded
<1>3. PICK n \in T : S = 1..n
  OBVIOUS
<1>4. ASSUME NEW m \in T, m < n PROVE FALSE
  <2>1. 1..m \in below
    OBVIOUS
  <2>2. 1..m \subseteq 1..n /\ n \in 1..n /\ n \notin 1..m
    BY <1>4
  <2>3. 1..m \in SUBSET Nat /\ 1..n \in SUBSET Nat
    OBVIOUS
  <2> QED
    BY <2>1, <2>2, <2>3, <1>2, <1>3 DEF StrictSubsetOrdering
<1> QED
  BY <1>4

LEMMA Induction ==
  ASSUME NEW n \in Nat, NEW T, 0 \in T,
         \A i \in 1..n : i - 1 \in T => i \in T
  PROVE  0..n \subseteq T
<1> DEFINE missing == {i \in 0..n : i \notin T}
<1>1. CASE missing = {}
  BY <1>1
<1>2. CASE missing # {}
  <2>1. PICK m \in missing : \A k \in missing : m <= k
    <3>1. missing \in SUBSET Nat
      OBVIOUS
    <3> HIDE DEF missing
    <3> QED
      BY <1>2, <3>1, LeastNumber
  <2>2. m \in 1..n /\ m - 1 \in 0..n /\ m - 1 \notin missing
    BY <2>1
  <2> QED
    BY <2>2
<1> QED
  BY <1>1, <1>2

-----------------------------------------------------------------------------
\* Finite sets have subsets of every smaller size.

LEMMA TeamExists ==
  ASSUME NEW S, IsFiniteSet(S), NEW k \in Nat, k <= Cardinality(S)
  PROVE  \E T \in SUBSET S : Cardinality(T) = k
<1>1. Cardinality(S) \in Nat /\ ExistsBijection(1..Cardinality(S), S)
  BY FS_CardinalityType
<1>2. PICK f \in Bijection(1..Cardinality(S), S) : TRUE
  BY <1>1 DEF ExistsBijection
<1> DEFINE T == {f[i] : i \in 1..k}
           g == [i \in 1..k |-> f[i]]
<1>3. 1..k \subseteq 1..Cardinality(S)
  BY <1>1
<1>4. /\ f \in [1..Cardinality(S) -> S]
      /\ \A i, j \in 1..Cardinality(S) : f[i] = f[j] => i = j
  BY <1>2 DEF Bijection, Injection, Surjection, IsInjective
<1>5. T \in SUBSET S
  BY <1>3, <1>4
<1>6. g \in Bijection(1..k, T)
  BY <1>3, <1>4 DEF Bijection, Injection, Surjection, IsInjective
<1>7. ExistsBijection(1..k, T)
  BY <1>6 DEF ExistsBijection
<1>8. Cardinality(T) = k
  <2> HIDE DEF T
  <2> QED
    BY <1>7, FS_CountingElements
<1> QED
  BY <1>5, <1>8

-----------------------------------------------------------------------------
\* Lists.

\* The set of what a function gives for a finite set is finite, and no larger.
LEMMA FiniteImage ==
  ASSUME NEW S, IsFiniteSet(S), NEW f, f = [x \in S |-> f[x]]
  PROVE  LET T == {f[x] : x \in S}
         IN  IsFiniteSet(T) /\ Cardinality(T) \in Nat
               /\ Cardinality(T) <= Cardinality(S)
<1> DEFINE T == {f[x] : x \in S}
<1>1. f \in Surjection(S, T)
  BY DEF Surjection
<1> QED
  BY <1>1, FS_Surjection, FS_CardinalityType

\* A sequence, whatever its elements are.
IsSequence(q) == q \in Seq(Range(q))

\* A finite set in some order.
LEMMA SetInOrder ==
  ASSUME NEW S, IsFiniteSet(S)
  PROVE  LET q == SetToSeq(S)
         IN  /\ IsSequence(q) /\ Len(q) = Cardinality(S) /\ Len(q) \in Nat
             /\ \A i \in 1..Len(q) : q[i] \in S
<1>1. PICK n \in Nat : n = Cardinality(S)
  BY FS_CardinalityType
<1>2. \E f \in [1..n -> S] : IsInjective(f)
  <2>1. ExistsBijection(1..n, S)
    BY <1>1, FS_CardinalityType
  <2> QED
    BY <2>1 DEF ExistsBijection, Bijection, Injection
<1>3. SetToSeq(S) \in [1..n -> S]
  BY <1>1, <1>2 DEF SetToSeq
<1>4. PICK q \in [1..n -> S] : q = SetToSeq(S)
  BY <1>3
<1>5. q \in Seq(S) /\ Len(q) = n
  BY <1>4
<1>6. \A i \in 1..n : q[i] \in Range(q)
  BY DEF Range
<1>7. q \in Seq(Range(q))
  BY <1>6
<1> QED
  BY <1>1, <1>4, <1>5, <1>7 DEF IsSequence

\* Sequences, one after the other: result[i] is what the first i of them make.
Joins(seqs, n, result) ==
  result = [i \in 1..n |-> IF i = 1 THEN seqs[i] ELSE result[i-1] \o seqs[i]]

\* FlattenSeq, as the recursion that defines it.
LEMMA JoinExists ==
  ASSUME NEW seqs, NEW n \in Nat
  PROVE  \E result : Joins(seqs, n, result)
<1> DEFINE good == {m \in 0..n : \E result : Joins(seqs, m, result)}
<1>1. 0 \in good
  <2>1. Joins(seqs, 0, [i \in 1..0 |-> seqs[i]])
    BY DEF Joins
  <2> QED
    BY <2>1
<1>2. ASSUME NEW m \in 1..n, m - 1 \in good PROVE m \in good
  <2>1. PICK result : Joins(seqs, m - 1, result)
    BY <1>2
  <2> DEFINE last == IF m = 1 THEN seqs[m] ELSE result[m-1] \o seqs[m]
             longer == [i \in 1..m |-> IF i = m THEN last ELSE result[i]]
  <2>2. ASSUME NEW i \in 1..m
        PROVE  longer[i] = IF i = 1 THEN seqs[i] ELSE longer[i-1] \o seqs[i]
    <3>1. CASE i = m
      <4>1. m # 1 => longer[m-1] = result[m-1]
        OBVIOUS
      <4>2. longer[m] = last
        OBVIOUS
      <4> QED
        BY <3>1, <4>1, <4>2
    <3>2. CASE i # m
      <4>1. i \in 1..(m-1) /\ (i # 1 => i - 1 \in 1..m /\ i - 1 # m)
        BY <3>2
      <4>2. result[i] = IF i = 1 THEN seqs[i] ELSE result[i-1] \o seqs[i]
        BY <2>1, <4>1 DEF Joins
      <4>3. longer[i] = result[i] /\ (i # 1 => longer[i-1] = result[i-1])
        BY <3>2, <4>1
      <4> HIDE DEF longer
      <4> QED
        BY <4>2, <4>3
    <3> QED
      BY <3>1, <3>2
  <2>3. Joins(seqs, m, longer)
    <3>1. longer = [i \in 1..m |-> longer[i]]
      OBVIOUS
    <3> HIDE DEF longer
    <3> QED
      BY <2>2, <3>1 DEF Joins
  <2> QED
    BY <2>3
<1>3. 0..n \subseteq good
  <2> HIDE DEF good
  <2> QED
    BY <1>1, <1>2, Induction
<1> QED
  BY <1>3

\* A sequence has finitely many members.
LEMMA FiniteSequence ==
  ASSUME NEW q, IsSequence(q)
  PROVE  IsFiniteSet(Range(q)) /\ IsFiniteSet(DOMAIN q)
<1>1. PICK n \in Nat : n = Len(q) /\ DOMAIN q = 1..n
  BY DEF IsSequence
<1>2. IsFiniteSet(1..n)
  BY FS_Interval
<1>3. q = [i \in 1..n |-> q[i]]
  BY <1>1 DEF IsSequence
<1>4. IsFiniteSet({q[i] : i \in 1..n})
  BY <1>2, <1>3, FiniteImage
<1> QED
  BY <1>1, <1>2, <1>4 DEF Range

\* A finite set in some order: each member once.
LEMMA SetListed ==
  ASSUME NEW S, IsFiniteSet(S)
  PROVE  LET q == SetToSeq(S)
         IN  /\ IsSequence(q) /\ Len(q) = Cardinality(S) /\ Len(q) \in Nat
             /\ DOMAIN q = 1..Len(q) /\ Range(q) = S /\ IsInjective(q)
<1>1. PICK n \in Nat : n = Cardinality(S) /\ Cardinality(1..n) = n /\ IsFiniteSet(1..n)
  BY FS_CardinalityType, FS_Interval
<1>2. \E f \in [1..n -> S] : IsInjective(f)
  <2>1. ExistsBijection(1..n, S)
    BY <1>1, FS_CardinalityType
  <2> QED
    BY <2>1 DEF ExistsBijection, Bijection, Injection
<1>3. PICK q \in [1..n -> S] : q = SetToSeq(S) /\ IsInjective(q)
  BY <1>1, <1>2 DEF SetToSeq
<1>4. q \in Surjection(1..n, S)
  <2>1. q \in Injection(1..n, S)
    BY <1>3 DEF Injection
  <2> QED
    BY <1>1, <2>1, FS_Injection
<1>5. Range(q) = S
  BY <1>3, <1>4 DEF Surjection, Range
<1>6. q \in Seq(S) /\ Len(q) = n
  BY <1>3
<1> QED
  BY <1>1, <1>3, <1>5, <1>6 DEF IsSequence

\* One list after another.
LEMMA RangeBoth ==
  ASSUME NEW a, NEW b, IsSequence(a), IsSequence(b)
  PROVE  IsSequence(a \o b) /\ Range(a \o b) = Range(a) \cup Range(b)
<1>1. PICK S : S = Range(a) \cup Range(b)
  OBVIOUS
<1>2. a \in Seq(S) /\ b \in Seq(S)
  BY <1>1 DEF IsSequence
<1>3. /\ a \o b \in Seq(S) /\ Len(a \o b) = Len(a) + Len(b)
      /\ Len(a) \in Nat /\ Len(b) \in Nat
      /\ DOMAIN a = 1..Len(a) /\ DOMAIN b = 1..Len(b)
  BY <1>2
<1>4. \A i \in 1..Len(a \o b) :
        (a \o b)[i] = IF i <= Len(a) THEN a[i] ELSE b[i - Len(a)]
  BY <1>2
<1>5. PICK q \in Seq(S) : q = a \o b
  BY <1>3
<1>6. DOMAIN q = 1..Len(q) /\ Len(q) = Len(a) + Len(b)
  BY <1>3, <1>5
<1>7. Range(q) \subseteq S
  BY <1>5 DEF Range
<1>8. ASSUME NEW i \in 1..Len(a) PROVE a[i] \in Range(q)
  <2>1. i \in DOMAIN q /\ q[i] = a[i]
    BY <1>3, <1>4, <1>5, <1>6
  <2> QED
    BY <2>1 DEF Range
<1>9. ASSUME NEW i \in 1..Len(b) PROVE b[i] \in Range(q)
  <2>1. /\ Len(a) + i \in DOMAIN q /\ ~(Len(a) + i <= Len(a))
        /\ (Len(a) + i) - Len(a) = i
    BY <1>3, <1>6
  <2>2. q[Len(a) + i] = b[i]
    BY <1>4, <1>5, <1>6, <2>1
  <2> QED
    BY <2>1, <2>2 DEF Range
<1>10. S \subseteq Range(q)
  BY <1>1, <1>3, <1>8, <1>9 DEF Range
<1>11. q \in Seq(Range(q))
  BY <1>7, <1>10, <1>5
<1> QED
  BY <1>1, <1>5, <1>7, <1>10, <1>11 DEF IsSequence

\* A list of lists, joined.
LEMMA RangeAll ==
  ASSUME NEW seqs, IsSequence(seqs), \A i \in 1..Len(seqs) : IsSequence(seqs[i])
  PROVE  /\ IsSequence(FlattenSeq(seqs))
         /\ Range(FlattenSeq(seqs)) = UNION {Range(seqs[i]) : i \in 1..Len(seqs)}
<1>1. Len(seqs) \in Nat
  BY DEF IsSequence
<1>2. CASE Len(seqs) = 0
  <2>1. FlattenSeq(seqs) = seqs
    BY <1>2 DEF FlattenSeq
  <2>2. Range(seqs) = {}
    BY <1>2 DEF IsSequence, Range
  <2>3. 1..Len(seqs) = {}
    BY <1>2
  <2> QED
    BY <2>1, <2>2, <2>3
<1>3. CASE Len(seqs) # 0
  <2> DEFINE result == CHOOSE f : Joins(seqs, Len(seqs), f)
  <2>1. Joins(seqs, Len(seqs), result)
    BY <1>1, JoinExists
  <2>2. FlattenSeq(seqs) = result[Len(seqs)]
    BY <1>3 DEF FlattenSeq, Joins
  <2> HIDE DEF result
  <2>3. \A i \in 1..Len(seqs) :
          result[i] = IF i = 1 THEN seqs[i] ELSE result[i-1] \o seqs[i]
    BY <2>1 DEF Joins
  <2> DEFINE All(i) == UNION {Range(seqs[j]) : j \in 1..i}
             good == {i \in 0..Len(seqs) :
                        i # 0 => IsSequence(result[i]) /\ Range(result[i]) = All(i)}
  <2>4. 0 \in good
    BY <1>1
  <2>5. ASSUME NEW i \in 1..Len(seqs), i - 1 \in good PROVE i \in good
    <3>1. CASE i = 1
      <4>1. All(i) = Range(seqs[i])
        BY <3>1
      <4> QED
        BY <2>3, <3>1, <4>1
    <3>2. CASE i # 1
      <4>1. /\ IsSequence(result[i-1]) /\ IsSequence(seqs[i])
            /\ Range(result[i-1]) = All(i-1)
        BY <2>5, <3>2
      <4>2. All(i) = All(i-1) \cup Range(seqs[i])
        <5>1. 1..i = (1..(i-1)) \cup {i}
          OBVIOUS
        <5> QED
          BY <5>1
      <4> HIDE DEF All
      <4>3. /\ IsSequence(result[i-1] \o seqs[i])
            /\ Range(result[i-1] \o seqs[i]) = All(i)
        BY <4>1, <4>2, RangeBoth
      <4> QED
        BY <2>3, <3>2, <4>3
    <3> QED
      BY <3>1, <3>2
  <2>6. 0..Len(seqs) \subseteq good
    <3> HIDE DEF good
    <3> QED
      BY <1>1, <2>4, <2>5, Induction
  <2> QED
    BY <1>1, <1>3, <2>2, <2>6
<1> QED
  BY <1>2, <1>3

\* One member, and none.
LEMMA RangeOne ==
  ASSUME NEW op
  PROVE  /\ IsSequence(<<op>>) /\ Range(<<op>>) = {op}
         /\ IsSequence(<<>>) /\ Range(<<>>) = {}
<1>1. PICK q : q = <<op>>
  OBVIOUS
<1>2. Len(q) = 1 /\ q[1] = op /\ q \in Seq({op}) /\ DOMAIN q = 1..1
  BY <1>1
<1>3. Range(q) = {op}
  BY <1>2 DEF Range
<1>4. Range(<<>>) = {}
  BY DEF Range
<1> QED
  BY <1>1, <1>2, <1>3, <1>4 DEF IsSequence

-----------------------------------------------------------------------------
\* ApplyOps, one operation at a time.

Start(s) == [ok |-> TRUE, objects |-> s]

\* The result after an operation, given the one before it.
After(reg, s, op, before) ==
  IF before.ok /\ OpAllowed(reg, before.objects, op)
  THEN [ok |-> TRUE, objects |-> OpEffect(before.objects, op)]
  ELSE [ok |-> FALSE, objects |-> s]

\* run holds the results after 0, 1, ..., n of the operations.
Runs(reg, s, ops, n, run) ==
  run = [i \in 0..n |-> IF i = 0 THEN Start(s)
                        ELSE After(reg, s, ops[i], run[i-1])]

LEMMA RunExists ==
  ASSUME NEW reg, NEW s, NEW ops, NEW n \in Nat
  PROVE  \E run : Runs(reg, s, ops, n, run)
<1> DEFINE good == {m \in Nat : \E run : Runs(reg, s, ops, m, run)}
<1>1. 0 \in good
  <2>1. Runs(reg, s, ops, 0, [i \in 0..0 |-> Start(s)])
    BY DEF Runs
  <2> QED
    BY <2>1
<1>2. ASSUME NEW m \in 1..n, m - 1 \in good
      PROVE  m \in good
  <2>1. PICK run : Runs(reg, s, ops, m - 1, run)
    BY <1>2
  <2> DEFINE longer == [i \in 0..m |-> IF i = m THEN After(reg, s, ops[m], run[m-1])
                                       ELSE run[i]]
  <2>2. ASSUME NEW i \in 0..m
        PROVE  longer[i] = IF i = 0 THEN Start(s)
                           ELSE After(reg, s, ops[i], longer[i-1])
    <3>1. CASE i = m
      BY <3>1
    <3>2. CASE i # m
      <4>1. i \in 0..(m-1) /\ (i # 0 => i - 1 \in 0..(m-1) /\ i - 1 # m)
        BY <3>2
      <4>2. run[i] = IF i = 0 THEN Start(s) ELSE After(reg, s, ops[i], run[i-1])
        BY <2>1, <4>1 DEF Runs
      <4> QED
        BY <4>1, <4>2
    <3> QED
      BY <3>1, <3>2
  <2>3. Runs(reg, s, ops, m, longer)
    <3>1. longer = [i \in 0..m |-> longer[i]]
      OBVIOUS
    <3> HIDE DEF longer
    <3> QED
      BY <2>2, <3>1 DEF Runs
  <2> QED
    BY <2>3
<1>3. 0..n \subseteq good
  <2> HIDE DEF good
  <2> QED
    BY <1>1, <1>2, Induction
<1> QED
  BY <1>3

\* What ApplyOps computes on the way.
IsRun(reg, s, ops, run) ==
  /\ run[0] = Start(s)
  /\ \A i \in 1..Len(ops) : run[i] = After(reg, s, ops[i], run[i-1])

LEMMA ApplyOpsRuns ==
  ASSUME NEW reg, NEW s, NEW ops, Len(ops) \in Nat
  PROVE  \E run : IsRun(reg, s, ops, run) /\ ApplyOps(reg, s, ops) = run[Len(ops)]
<1> DEFINE run == CHOOSE f : Runs(reg, s, ops, Len(ops), f)
<1>1. Runs(reg, s, ops, Len(ops), run)
  BY RunExists
<1>2. ApplyOps(reg, s, ops) = run[Len(ops)]
  BY DEF ApplyOps, Runs, Start, After
<1> HIDE DEF run
<1>3. run[0] = Start(s)
  BY <1>1 DEF Runs
<1>4. \A i \in 1..Len(ops) : run[i] = After(reg, s, ops[i], run[i-1])
  BY <1>1 DEF Runs
<1> QED
  BY <1>2, <1>3, <1>4 DEF IsRun

\* A refusal is final.
LEMMA AcceptedThroughout ==
  ASSUME NEW reg, NEW s, NEW ops, Len(ops) \in Nat, NEW run,
         IsRun(reg, s, ops, run), run[Len(ops)].ok
  PROVE  \A i \in 0..Len(ops) : run[i].ok
<1> DEFINE n == Len(ops)
           good == {k \in Nat : n - k \in 0..n => run[n - k].ok}
<1>1. 0 \in good
  OBVIOUS
<1>2. ASSUME NEW k \in 1..n, k - 1 \in good
      PROVE  k \in good
  <2> DEFINE i == n - k
  <2>1. i \in 0..n /\ i + 1 \in 1..n /\ run[i + 1].ok /\ (i + 1) - 1 = i
    BY <1>2
  <2>2. run[i + 1] = After(reg, s, ops[i + 1], run[i])
    BY <2>1 DEF IsRun
  <2>3. run[i].ok
    BY <2>1, <2>2 DEF After
  <2> QED
    BY <2>3
<1>3. 0..n \subseteq good
  <2> HIDE DEF good
  <2> QED
    BY <1>1, <1>2, Induction
<1> QED
  <2> SUFFICES ASSUME NEW i \in 0..n PROVE run[i].ok
    OBVIOUS
  <2>1. n - i \in 0..n /\ n - (n - i) = i
    OBVIOUS
  <2> QED
    BY <2>1, <1>3

\* The states an accepted sequence of operations goes through.
Accepts(reg, s, ops, states) ==
  /\ states[0] = s
  /\ \A i \in 1..Len(ops) : /\ OpAllowed(reg, states[i-1], ops[i])
                            /\ states[i] = OpEffect(states[i-1], ops[i])

LEMMA AcceptedStates ==
  ASSUME NEW reg, NEW s, NEW ops, Len(ops) \in Nat, ApplyOps(reg, s, ops).ok
  PROVE  \E states : /\ Accepts(reg, s, ops, states)
                     /\ ApplyOps(reg, s, ops) = [ok |-> TRUE,
                                                objects |-> states[Len(ops)]]
<1>1. PICK run : IsRun(reg, s, ops, run) /\ ApplyOps(reg, s, ops) = run[Len(ops)]
  BY ApplyOpsRuns
<1> DEFINE states == [i \in 0..Len(ops) |-> run[i].objects]
<1>2. ASSUME NEW i \in 1..Len(ops)
      PROVE  /\ OpAllowed(reg, states[i-1], ops[i])
             /\ states[i] = OpEffect(states[i-1], ops[i])
             /\ run[i] = [ok |-> TRUE, objects |-> states[i]]
  <2>1. i - 1 \in 0..Len(ops) /\ i \in 0..Len(ops)
    OBVIOUS
  <2>2. run[i].ok /\ run[i] = After(reg, s, ops[i], run[i-1])
    <3>1. run[Len(ops)].ok
      BY <1>1
    <3>2. \A j \in 0..Len(ops) : run[j].ok
      BY <1>1, <3>1, AcceptedThroughout
    <3> QED
      BY <1>1, <2>1, <3>2 DEF IsRun
  <2>3. /\ OpAllowed(reg, run[i-1].objects, ops[i])
        /\ run[i] = [ok |-> TRUE, objects |-> OpEffect(run[i-1].objects, ops[i])]
    BY <2>2 DEF After
  <2>4. states[i-1] = run[i-1].objects /\ states[i] = run[i].objects
    BY <2>1
  <2> HIDE DEF states
  <2>5. run[i].objects = OpEffect(run[i-1].objects, ops[i])
    BY <2>3
  <2> QED
    BY <2>3, <2>4, <2>5
<1>3. states[0] = s /\ run[0] = [ok |-> TRUE, objects |-> s]
  BY <1>1 DEF IsRun, Start
<1>4. run[Len(ops)] = [ok |-> TRUE, objects |-> states[Len(ops)]]
  <2>1. CASE Len(ops) = 0
    BY <2>1, <1>3
  <2>2. CASE Len(ops) \in 1..Len(ops)
    BY <2>2, <1>2
  <2> QED
    BY <2>1, <2>2
<1> HIDE DEF states
<1> QED
  BY <1>1, <1>2, <1>3, <1>4 DEF Accepts

-----------------------------------------------------------------------------
\* What becomes of a state.

IsState(s) == s = [id \in DOMAIN s |-> s[id]]

\* Nothing of s is forgotten in r, and what is deleted in s is in r too: the
\* same revision, though perhaps with its content redacted.
Keeps(s, r) ==
  \A id \in DOMAIN s :
    /\ id \in DOMAIN r
    /\ s[id].deleted => /\ r[id].deleted
                        /\ r[id].rev = s[id].rev
                        /\ r[id].content \in {s[id].content, RedactedContent}

\* Contents that operations write.
Bodies(ops) == {ops[i].body : i \in {j \in 1..Len(ops) : ops[j].verb \in {"create", "update"}}}

\* Every content of r was in s, was written by ops, or is redacted.
WrittenBy(s, ops, r) ==
  \A id \in DOMAIN r :
    \/ r[id].content \in Bodies(ops) \cup {RedactedContent}
    \/ id \in DOMAIN s /\ r[id].content = s[id].content

LEMMA KeepsTransitive ==
  ASSUME NEW s, NEW r, NEW t, Keeps(s, r), Keeps(r, t)
  PROVE  Keeps(s, t)
  BY DEF Keeps

\* One operation on a state.
LEMMA EffectKeeps ==
  ASSUME NEW reg, NEW s, NEW op, IsState(s), OpAllowed(reg, s, op)
  PROVE  LET r == OpEffect(s, op)
         IN  /\ IsState(r) /\ Keeps(s, r)
             /\ \A id \in DOMAIN r :
                  \/ op.verb \in {"create", "update"} /\ r[id].content = op.body
                  \/ r[id].content = RedactedContent
                  \/ id \in DOMAIN s /\ r[id].content = s[id].content
<1> USE DEF OpEffect, OpAllowed, Put, Obj, PriorMatches, Live, IsState, Keeps
<1>1. CASE op.verb \in {"create", "update"}
  BY <1>1
<1>2. CASE op.verb = "delete"
  BY <1>2
<1>3. CASE op.verb = "redact-document"
  BY <1>3
<1>4. CASE op.verb \notin {"create", "update", "delete", "redact-document"}
  BY <1>4
<1> QED
  BY <1>1, <1>2, <1>3, <1>4

\* Accepted operations, up to each of them.
LEMMA StatesKeep ==
  ASSUME NEW reg, NEW s, NEW ops, Len(ops) \in Nat, NEW states, IsState(s),
         Accepts(reg, s, ops, states)
  PROVE  \A i \in 0..Len(ops) : /\ IsState(states[i]) /\ Keeps(s, states[i])
                                /\ WrittenBy(s, ops, states[i])
<1> DEFINE good == {i \in 0..Len(ops) : /\ IsState(states[i]) /\ Keeps(s, states[i])
                                        /\ WrittenBy(s, ops, states[i])}
<1>1. 0 \in good
  BY DEF Accepts, Keeps, WrittenBy
<1>2. ASSUME NEW i \in 1..Len(ops), i - 1 \in good
      PROVE  i \in good
  <2>1. PICK before : /\ before = states[i-1] /\ IsState(before)
                      /\ Keeps(s, before) /\ WrittenBy(s, ops, before)
    BY <1>2
  <2>2. PICK after : after = states[i] /\ after = OpEffect(before, ops[i])
    BY <2>1 DEF Accepts
  <2>3. OpAllowed(reg, before, ops[i])
    BY <2>1 DEF Accepts
  <2>4. /\ IsState(after) /\ Keeps(before, after)
        /\ \A id \in DOMAIN after :
             \/ ops[i].verb \in {"create", "update"} /\ after[id].content = ops[i].body
             \/ after[id].content = RedactedContent
             \/ id \in DOMAIN before /\ after[id].content = before[id].content
    BY <2>1, <2>2, <2>3, EffectKeeps
  <2>5. Keeps(s, after)
    BY <2>1, <2>4, KeepsTransitive
  <2>6. WrittenBy(s, ops, after)
    BY <2>1, <2>4 DEF WrittenBy, Bodies
  <2>7. IsState(states[i]) /\ Keeps(s, states[i]) /\ WrittenBy(s, ops, states[i])
    BY <2>2, <2>4, <2>5, <2>6
  <2> QED
    BY <2>7
<1>3. 0..Len(ops) \subseteq good
  <2> HIDE DEF good
  <2> QED
    BY <1>1, <1>2, Induction
<1> QED
  BY <1>3

\* And what the rest of them keep.
LEMMA StatesKeepOn ==
  ASSUME NEW reg, NEW s, NEW ops, Len(ops) \in Nat, NEW states, IsState(s),
         Accepts(reg, s, ops, states), NEW i \in 0..Len(ops)
  PROVE  Keeps(states[i], states[Len(ops)])
<1> DEFINE left == Len(ops) - i
           good == {k \in 0..left : Keeps(states[i], states[i + k])}
<1>1. left \in Nat /\ i + left = Len(ops) /\ i + 0 = i
  OBVIOUS
<1>2. 0 \in good
  BY <1>1 DEF Keeps
<1>3. ASSUME NEW k \in 1..left, k - 1 \in good
      PROVE  k \in good
  <2>1. PICK j \in 1..Len(ops) : j = i + k /\ i + (k - 1) = j - 1
    OBVIOUS
  <2>2. Keeps(states[i], states[j-1]) /\ IsState(states[j-1])
    BY <1>3, <2>1, StatesKeep
  <2>3. OpAllowed(reg, states[j-1], ops[j]) /\ states[j] = OpEffect(states[j-1], ops[j])
    BY DEF Accepts
  <2>4. Keeps(states[j-1], states[j])
    BY <2>2, <2>3, EffectKeeps
  <2> QED
    BY <2>1, <2>2, <2>4, KeepsTransitive
<1>4. left \in good
  <2> HIDE DEF good, left
  <2>1. 0..left \subseteq good
    BY <1>1, <1>2, <1>3, Induction
  <2> QED
    BY <2>1, <1>1
<1> QED
  BY <1>1, <1>4

-----------------------------------------------------------------------------
\* Changesets.

\* A changeset forgets nothing: every object of the state is still there
\* after it, a deleted one still deleted at the revision it had, and no
\* content appears that the changeset does not write, but the redaction.
THEOREM TombstonesAreFinal ==
  ASSUME NEW reg, NEW s, NEW ops, Len(ops) \in Nat, IsState(s)
  PROVE  LET r == ApplyChangeset(reg, s, ops).objects
         IN  IsState(r) /\ Keeps(s, r) /\ WrittenBy(s, ops, r)
<1> DEFINE w == ApplyOps(reg, s, ops)
           r == ApplyChangeset(reg, s, ops).objects
<1> SUFFICES IsState(r) /\ Keeps(s, r) /\ WrittenBy(s, ops, r)
  OBVIOUS
<1>1. CASE r = s
  BY <1>1 DEF Keeps, WrittenBy
<1>2. CASE w.ok /\ r = w.objects
  <2>1. PICK states : /\ Accepts(reg, s, ops, states)
                      /\ w = [ok |-> TRUE, objects |-> states[Len(ops)]]
    BY <1>2, AcceptedStates
  <2>2. r = states[Len(ops)] /\ Len(ops) \in 0..Len(ops)
    BY <1>2, <2>1
  <2> HIDE DEF r
  <2> QED
    BY <2>1, <2>2, StatesKeep
<1>3. r = s \/ (w.ok /\ r = w.objects)
  BY DEF ApplyChangeset
<1> QED
  BY <1>1, <1>2, <1>3

\* Two registries that both accept a changeset make the same of it: the
\* registry decides whether a changeset applies, never what it does.
THEOREM AcceptedAlike ==
  ASSUME NEW reg, NEW other, NEW s, NEW ops, Len(ops) \in Nat,
         ApplyChangeset(reg, s, ops).ok, ApplyChangeset(other, s, ops).ok
  PROVE  ApplyChangeset(reg, s, ops) = ApplyChangeset(other, s, ops)
<1>1. /\ ApplyOps(reg, s, ops).ok /\ ApplyOps(other, s, ops).ok
      /\ ApplyChangeset(reg, s, ops) = ApplyOps(reg, s, ops)
      /\ ApplyChangeset(other, s, ops) = ApplyOps(other, s, ops)
  BY DEF ApplyChangeset
<1>2. PICK one : /\ Accepts(reg, s, ops, one)
                 /\ ApplyOps(reg, s, ops) = [ok |-> TRUE, objects |-> one[Len(ops)]]
  BY <1>1, AcceptedStates
<1>3. PICK two : /\ Accepts(other, s, ops, two)
                 /\ ApplyOps(other, s, ops) = [ok |-> TRUE, objects |-> two[Len(ops)]]
  BY <1>1, AcceptedStates
<1> DEFINE good == {i \in 0..Len(ops) : one[i] = two[i]}
<1>4. 0 \in good
  BY <1>2, <1>3 DEF Accepts
<1>5. ASSUME NEW i \in 1..Len(ops), i - 1 \in good
      PROVE  i \in good
  BY <1>2, <1>3, <1>5 DEF Accepts
<1>6. Len(ops) \in good
  <2> HIDE DEF good
  <2>1. 0..Len(ops) \subseteq good
    BY <1>4, <1>5, Induction
  <2> QED
    BY <2>1
<1> QED
  BY <1>1, <1>2, <1>3, <1>6

\* A changeset that creates or deletes something applies once: to no state
\* that keeps what it made does it apply again, under any registry.
THEOREM CreationIsOnce ==
  ASSUME NEW reg, NEW other, NEW s, NEW t, NEW ops, Len(ops) \in Nat,
         IsState(s), IsState(t), ApplyChangeset(reg, s, ops).ok,
         Keeps(ApplyChangeset(reg, s, ops).objects, t),
         NEW i \in 1..Len(ops), ops[i].verb \in {"create", "delete"}
  PROVE  ~ApplyChangeset(other, t, ops).ok
<1> SUFFICES ASSUME ApplyChangeset(other, t, ops).ok PROVE FALSE
  OBVIOUS
<1>1. /\ ApplyOps(reg, s, ops).ok /\ ApplyOps(other, t, ops).ok
      /\ ApplyChangeset(reg, s, ops) = ApplyOps(reg, s, ops)
  BY DEF ApplyChangeset
<1>2. PICK one : /\ Accepts(reg, s, ops, one)
                 /\ ApplyOps(reg, s, ops) = [ok |-> TRUE, objects |-> one[Len(ops)]]
  BY <1>1, AcceptedStates
<1>3. PICK two : /\ Accepts(other, t, ops, two)
                 /\ ApplyOps(other, t, ops) = [ok |-> TRUE, objects |-> two[Len(ops)]]
  BY <1>1, AcceptedStates
<1> DEFINE made == one[i]
           met == two[i-1]
           id == ops[i].id
<1>4. Keeps(made, met)
  <2>1. Keeps(made, one[Len(ops)])
    BY <1>2, StatesKeepOn
  <2>2. Keeps(t, met)
    <3>1. i - 1 \in 0..Len(ops)
      OBVIOUS
    <3> QED
      BY <3>1, <1>3, StatesKeep
  <2>3. Keeps(one[Len(ops)], t)
    BY <1>1, <1>2
  <2> QED
    BY <2>1, <2>2, <2>3, KeepsTransitive
<1>5. OpAllowed(reg, one[i-1], ops[i]) /\ made = OpEffect(one[i-1], ops[i])
  BY <1>2 DEF Accepts
<1>6. OpAllowed(other, met, ops[i])
  BY <1>3 DEF Accepts
<1> HIDE DEF made, met
<1>7. CASE ops[i].verb = "create"
  <2>1. id \in DOMAIN made
    BY <1>5, <1>7 DEF OpEffect, Put
  <2> QED
    BY <2>1, <1>4, <1>6, <1>7 DEF Keeps, OpAllowed
<1>8. CASE ops[i].verb = "delete"
  <2>1. id \in DOMAIN made /\ made[id].deleted
    BY <1>5, <1>8 DEF OpEffect, Put, Obj
  <2> QED
    BY <2>1, <1>4, <1>6, <1>8 DEF Keeps, OpAllowed, PriorMatches, Live
<1> QED
  BY <1>7, <1>8

-----------------------------------------------------------------------------
\* What a changeset adds.

\* The ids that operations create.
Created(ops) == {ops[i].id : i \in {j \in 1..Len(ops) : ops[j].verb = "create"}}

\* A changeset that is refused leaves the state alone.
LEMMA RefusedUnchanged ==
  ASSUME NEW reg, NEW s, NEW ops, Len(ops) \in Nat, ~ApplyChangeset(reg, s, ops).ok
  PROVE  ApplyChangeset(reg, s, ops).objects = s
<1>1. PICK run : IsRun(reg, s, ops, run) /\ ApplyOps(reg, s, ops) = run[Len(ops)]
  BY ApplyOpsRuns
<1>2. ApplyOps(reg, s, ops).ok \/ ApplyOps(reg, s, ops).objects = s
  <2>1. CASE Len(ops) = 0
    BY <1>1, <2>1 DEF IsRun, Start
  <2>2. CASE Len(ops) \in 1..Len(ops)
    <3>1. PICK op, before : run[Len(ops)] = After(reg, s, op, before)
      BY <1>1, <2>2 DEF IsRun
    <3>2. CASE before.ok /\ OpAllowed(reg, before.objects, op)
      BY <1>1, <3>1, <3>2 DEF After
    <3>3. CASE ~(before.ok /\ OpAllowed(reg, before.objects, op))
      BY <1>1, <3>1, <3>3 DEF After
    <3> QED
      BY <3>2, <3>3
  <2> QED
    BY <2>1, <2>2
<1> QED
  BY <1>2 DEF ApplyChangeset

\* The only ids that operations bring into a state are those they create, of
\* one of the three kinds.
LEMMA OnlyCreated ==
  ASSUME NEW reg, NEW s, NEW ops, Len(ops) \in Nat
  PROVE  DOMAIN ApplyChangeset(reg, s, ops).objects
           \subseteq DOMAIN s \cup (Id \cap Created(ops))
<1> DEFINE new == DOMAIN s \cup (Id \cap Created(ops))
<1>1. CASE ApplyChangeset(reg, s, ops).ok
  <2>1. /\ ApplyChangeset(reg, s, ops) = ApplyOps(reg, s, ops)
        /\ ApplyOps(reg, s, ops).ok
    BY <1>1 DEF ApplyChangeset
  <2>2. PICK states : /\ Accepts(reg, s, ops, states)
                      /\ ApplyOps(reg, s, ops) = [ok |-> TRUE,
                                                 objects |-> states[Len(ops)]]
    BY <2>1, AcceptedStates
  <2> DEFINE good == {i \in 0..Len(ops) : DOMAIN states[i] \subseteq new}
  <2>3. 0 \in good
    BY <2>2 DEF Accepts
  <2>4. ASSUME NEW i \in 1..Len(ops), i - 1 \in good PROVE i \in good
    <3>1. PICK before, after, op :
            /\ before = states[i-1] /\ after = states[i] /\ op = ops[i]
            /\ DOMAIN before \subseteq new
            /\ OpAllowed(reg, before, op) /\ after = OpEffect(before, op)
      <4> HIDE DEF new
      <4> QED
        BY <2>2, <2>4 DEF Accepts
    <3>2. op.verb = "create" => op.id \in Id \cap Created(ops)
      BY <3>1 DEF OpAllowed, ValidPayload, Id, Created
    <3>3. DOMAIN after \subseteq DOMAIN before \cup {op.id}
      BY <3>1 DEF OpEffect, Put
    <3>4. \/ op.verb = "create" \/ op.id \in DOMAIN before \/ after = before
      BY <3>1 DEF OpAllowed, PriorMatches, Live, OpEffect
    <3> HIDE DEF new
    <3>5. DOMAIN after \subseteq new
      <4>1. DOMAIN s \subseteq new /\ Id \cap Created(ops) \subseteq new
        BY DEF new
      <4> QED
        BY <3>1, <3>2, <3>3, <3>4, <4>1
    <3>6. DOMAIN states[i] \subseteq new /\ i \in 0..Len(ops)
      BY <3>1, <3>5
    <3> QED
      BY <3>6
  <2>5. DOMAIN states[Len(ops)] \subseteq new
    <3>1. 0..Len(ops) \subseteq good
      <4> HIDE DEF good
      <4> QED
        BY <2>3, <2>4, Induction
    <3> QED
      BY <3>1
  <2> QED
    BY <2>1, <2>2, <2>5
<1>2. CASE ~ApplyChangeset(reg, s, ops).ok
  <2>1. ApplyChangeset(reg, s, ops).objects = s
    BY <1>2, RefusedUnchanged
  <2> QED
    BY <2>1
<1> QED
  BY <1>1, <1>2

-----------------------------------------------------------------------------
\* What becomes of one object, by the operations that are on it.

On(ops, id) == {op \in Range(ops) : op.id = id}

\* An object that is as it was, or still is not there.
Same(s, r, id) ==
  /\ id \in DOMAIN r <=> id \in DOMAIN s
  /\ id \in DOMAIN s => r[id] = s[id]

\* An object that one operation wrote or deleted, once or more often.
Made(s, r, id, op) ==
  /\ id \in DOMAIN r
  /\ op.verb \in {"create", "update"} => r[id] = Obj(op.body, op.body, FALSE, FALSE)
  /\ op.verb = "delete" => /\ id \in DOMAIN s /\ ~s[id].deleted
                           /\ r[id] = Obj(s[id].content, s[id].rev, TRUE, s[id].redacted)

Verbs == {"create", "update", "delete"}

\* The operation itself.
LEMMA EffectMakes ==
  ASSUME NEW reg, NEW s, NEW t, NEW op, NEW id, op.verb \in Verbs, op.id = id,
         OpAllowed(reg, t, op), Same(s, t, id) \/ Made(s, t, id, op)
  PROVE  Made(s, OpEffect(t, op), id, op)
<1> USE DEF OpEffect, OpAllowed, Put, PriorMatches, Live, Made, Same, Verbs
<1>1. CASE op.verb \in {"create", "update"}
  BY <1>1
<1>2. CASE op.verb = "delete"
  <2>1. id \in DOMAIN t /\ ~t[id].deleted
    BY <1>2
  <2>2. ~Made(s, t, id, op)
    <3>1. Obj(s[id].content, s[id].rev, TRUE, s[id].redacted).deleted
      BY DEF Obj
    <3> QED
      BY <1>2, <2>1, <3>1
  <2>3. id \in DOMAIN s /\ t[id] = s[id]
    BY <2>1, <2>2
  <2>4. OpEffect(t, op) = Put(t, id, Obj(t[id].content, t[id].rev, TRUE, t[id].redacted))
    BY <1>2
  <2>5. OpEffect(t, op)[id] = Obj(t[id].content, t[id].rev, TRUE, t[id].redacted)
    BY <2>4
  <2> QED
    BY <1>2, <2>1, <2>3, <2>4, <2>5
<1> QED
  BY <1>1, <1>2 DEF Verbs

\* Operations on other objects.
LEMMA EffectElsewhere ==
  ASSUME NEW t, NEW op, NEW id, op.id # id
  PROVE  Same(t, OpEffect(t, op), id)
  BY DEF OpEffect, Put, Same

LEMMA MadeStays ==
  ASSUME NEW s, NEW t, NEW r, NEW id, NEW op, Made(s, t, id, op), Same(t, r, id)
  PROVE  Made(s, r, id, op)
  BY DEF Made, Same

\* A changeset that is accepted is its operations, applied.
LEMMA Accepted ==
  ASSUME NEW reg, NEW s, NEW ops, ApplyChangeset(reg, s, ops).ok
  PROVE  /\ ApplyChangeset(reg, s, ops) = ApplyOps(reg, s, ops)
         /\ ApplyOps(reg, s, ops).ok
         /\ EdgesResolve(ApplyOps(reg, s, ops).objects)
  BY DEF ApplyChangeset

\* An object that no operation is on.
LEMMA Untouched ==
  ASSUME NEW reg, NEW s, NEW ops, IsSequence(ops), ApplyOps(reg, s, ops).ok,
         NEW id, On(ops, id) = {}
  PROVE  Same(s, ApplyOps(reg, s, ops).objects, id)
<1>1. Len(ops) \in Nat
  BY DEF IsSequence
<1>2. PICK states : /\ Accepts(reg, s, ops, states)
                    /\ ApplyOps(reg, s, ops) = [ok |-> TRUE, objects |-> states[Len(ops)]]
  BY <1>1, AcceptedStates
<1> DEFINE good == {i \in 0..Len(ops) : Same(s, states[i], id)}
<1>3. 0 \in good
  BY <1>1, <1>2 DEF Accepts, Same
<1>4. ASSUME NEW i \in 1..Len(ops), i - 1 \in good PROVE i \in good
  <2>1. ops[i].id # id
    BY DEF On, Range, IsSequence
  <2>2. Same(states[i-1], states[i], id)
    BY <1>2, <2>1, EffectElsewhere DEF Accepts
  <2>3. Same(s, states[i], id)
    BY <1>4, <2>2 DEF Same
  <2> QED
    BY <2>3
<1>5. 0..Len(ops) \subseteq good
  <2> HIDE DEF good
  <2> QED
    BY <1>1, <1>3, <1>4, Induction
<1> QED
  BY <1>1, <1>2, <1>5

\* An object that one operation is on.
LEMMA Touched ==
  ASSUME NEW reg, NEW s, NEW ops, IsSequence(ops), ApplyOps(reg, s, ops).ok,
         NEW id, NEW op, On(ops, id) = {op}, op.verb \in Verbs
  PROVE  Made(s, ApplyOps(reg, s, ops).objects, id, op)
<1>1. Len(ops) \in Nat
  BY DEF IsSequence
<1>2. PICK states : /\ Accepts(reg, s, ops, states)
                    /\ ApplyOps(reg, s, ops) = [ok |-> TRUE, objects |-> states[Len(ops)]]
  BY <1>1, AcceptedStates
<1> DEFINE good == {i \in 0..Len(ops) :
                      IF \E j \in 1..i : ops[j].id = id THEN Made(s, states[i], id, op)
                                                        ELSE Same(s, states[i], id)}
<1>3. 0 \in good
  BY <1>1, <1>2 DEF Accepts, Same
<1>4. ASSUME NEW i \in 1..Len(ops), i - 1 \in good PROVE i \in good
  <2>1. OpAllowed(reg, states[i-1], ops[i]) /\ states[i] = OpEffect(states[i-1], ops[i])
    BY <1>2 DEF Accepts
  <2>2. CASE ops[i].id = id
    <3>1. ops[i] = op
      BY <2>2 DEF On, Range, IsSequence
    <3>2. Same(s, states[i-1], id) \/ Made(s, states[i-1], id, op)
      BY <1>4
    <3>3. Made(s, states[i], id, op)
      BY <2>1, <2>2, <3>1, <3>2, EffectMakes
    <3>4. i \in 1..i /\ i \in 0..Len(ops)
      OBVIOUS
    <3> QED
      BY <2>2, <3>3, <3>4
  <2>3. CASE ops[i].id # id
    <3>1. Same(states[i-1], states[i], id)
      BY <2>1, <2>3, EffectElsewhere
    <3>2. (\E j \in 1..i : ops[j].id = id) <=> (\E j \in 1..(i-1) : ops[j].id = id)
      BY <2>3
    <3>3. Made(s, states[i-1], id, op) => Made(s, states[i], id, op)
      BY <3>1, MadeStays
    <3>4. Same(s, states[i-1], id) => Same(s, states[i], id)
      BY <3>1 DEF Same
    <3> QED
      BY <1>4, <3>2, <3>3, <3>4
  <2> QED
    BY <2>2, <2>3
<1>5. 0..Len(ops) \subseteq good
  <2> HIDE DEF good
  <2> QED
    BY <1>1, <1>3, <1>4, Induction
<1>6. \E j \in 1..Len(ops) : ops[j].id = id
  BY DEF On, Range, IsSequence
<1> QED
  BY <1>1, <1>2, <1>5, <1>6

-----------------------------------------------------------------------------
\* When operations apply: each is allowed once those before it were applied.

\* A state that s may have become by the first n operations, of which each is on
\* another object.
Reached(s, t, ops, n) ==
  \A id : /\ \A j \in 1..n : ops[j].id = id => Made(s, t, id, ops[j])
          /\ (\A j \in 1..n : ops[j].id # id) => Same(s, t, id)

LEMMA AllApply ==
  ASSUME NEW reg, NEW s, NEW ops, Len(ops) \in Nat,
         \A i \in 1..Len(ops) : ops[i].verb \in Verbs,
         \A i, j \in 1..Len(ops) : ops[i].id = ops[j].id => i = j,
         \A i \in 1..Len(ops) : \A t :
           Reached(s, t, ops, i - 1) => OpAllowed(reg, t, ops[i])
  PROVE  ApplyOps(reg, s, ops).ok
<1>1. PICK run : IsRun(reg, s, ops, run) /\ ApplyOps(reg, s, ops) = run[Len(ops)]
  BY ApplyOpsRuns
<1> DEFINE good == {i \in 0..Len(ops) : run[i].ok /\ Reached(s, run[i].objects, ops, i)}
<1>2. 0 \in good
  <2>1. run[0] = [ok |-> TRUE, objects |-> s]
    BY <1>1 DEF IsRun, Start
  <2>2. Reached(s, s, ops, 0)
    BY DEF Reached, Same
  <2> QED
    BY <2>1, <2>2
<1>3. ASSUME NEW i \in 1..Len(ops), i - 1 \in good PROVE i \in good
  <2>1. PICK t, op : t = run[i-1].objects /\ op = ops[i]
    OBVIOUS
  <2>2. Reached(s, t, ops, i - 1) /\ run[i-1].ok
    BY <1>3, <2>1
  <2>3. OpAllowed(reg, t, op) /\ op.verb \in Verbs
    BY <2>1, <2>2
  <2>4. run[i] = After(reg, s, op, run[i-1])
    BY <1>1, <2>1 DEF IsRun
  <2>5. run[i] = [ok |-> TRUE, objects |-> OpEffect(t, op)]
    BY <2>1, <2>2, <2>3, <2>4 DEF After
  <2>6. PICK r : r = OpEffect(t, op) /\ run[i].objects = r /\ run[i].ok
    BY <2>5
  <2>7. ASSUME NEW j \in 1..i PROVE Made(s, r, ops[j].id, ops[j])
    <3>1. CASE j = i
      <4>1. \A k \in 1..(i-1) : ops[k].id # op.id
        <5> SUFFICES ASSUME NEW k \in 1..(i-1), ops[k].id = op.id PROVE FALSE
          OBVIOUS
        <5>1. k \in 1..Len(ops) /\ k # i
          OBVIOUS
        <5> QED
          BY <2>1, <5>1
      <4>2. Same(s, t, op.id)
        BY <2>2, <4>1 DEF Reached
      <4>3. Made(s, OpEffect(t, op), op.id, op)
        BY <2>3, <4>2, EffectMakes
      <4> QED
        BY <2>1, <2>6, <3>1, <4>3
    <3>2. CASE j # i
      <4>1. j \in 1..(i-1) /\ j \in 1..Len(ops)
        BY <3>2
      <4>2. Made(s, t, ops[j].id, ops[j])
        BY <2>2, <4>1 DEF Reached
      <4>3. op.id # ops[j].id
        BY <2>1, <3>2, <4>1
      <4> QED
        BY <2>6, <4>2, <4>3, EffectElsewhere, MadeStays
    <3> QED
      BY <3>1, <3>2
  <2>8. ASSUME NEW id, \A j \in 1..i : ops[j].id # id PROVE Same(s, r, id)
    <3>1. \A j \in 1..(i-1) : ops[j].id # id
      BY <2>8
    <3>2. Same(s, t, id)
      BY <2>2, <3>1 DEF Reached
    <3>3. op.id # id
      BY <2>1, <2>8
    <3>4. Same(t, r, id)
      BY <2>6, <3>3, EffectElsewhere
    <3> QED
      BY <3>2, <3>4 DEF Same
  <2>9. Reached(s, r, ops, i)
    BY <2>7, <2>8 DEF Reached
  <2> QED
    BY <2>6, <2>9
<1>4. 0..Len(ops) \subseteq good
  <2> HIDE DEF good
  <2> QED
    BY <1>2, <1>3, Induction
<1> QED
  BY <1>1, <1>4

-----------------------------------------------------------------------------
\* Lists in which each operation is on another object, and comes after what it
\* ties.

Ids(ops) == {op.id : op \in Range(ops)}

\* The ends of an edge that an operation creates.
Ends(op) == IF op.verb = "create" /\ op.id \in EdgeId THEN {op.body.from, op.body.to} ELSE {}

\* A list that may follow operations on the objects of done: of the ends that
\* are fresh, each is of an object that an earlier operation is on.
OpsInOrder(ops, fresh, done) ==
  /\ IsSequence(ops)
  /\ \A i \in 1..Len(ops) :
       /\ ops[i].id \notin done
       /\ \A j \in 1..Len(ops) : ops[i].id = ops[j].id => i = j
       /\ Ends(ops[i]) \cap fresh \subseteq done \cup {ops[j].id : j \in 1..(i-1)}

LEMMA IdsAre ==
  ASSUME NEW ops, IsSequence(ops)
  PROVE  Ids(ops) = {ops[i].id : i \in 1..Len(ops)}
  BY DEF Ids, Range, IsSequence

\* Operations each on another object, of which none ties another.
LEMMA OrderApart ==
  ASSUME NEW ops, IsSequence(ops), IsInjective(ops), NEW fresh, NEW done,
         \A a, b \in Range(ops) : a.id = b.id => a = b,
         \A op \in Range(ops) : op.id \notin done /\ Ends(op) \cap fresh \subseteq done
  PROVE  OpsInOrder(ops, fresh, done)
<1>1. DOMAIN ops = 1..Len(ops)
  BY DEF IsSequence
<1>2. \A i \in 1..Len(ops) : ops[i] \in Range(ops)
  BY <1>1 DEF Range
<1> QED
  BY <1>1, <1>2 DEF OpsInOrder, IsInjective

LEMMA OrderOne ==
  ASSUME NEW op, NEW fresh, NEW done, op.id \notin done, Ends(op) \cap fresh \subseteq done
  PROVE  OpsInOrder(<<op>>, fresh, done) /\ Ids(<<op>>) = {op.id}
<1>1. PICK ops : ops = <<op>>
  OBVIOUS
<1>2. IsSequence(ops) /\ Range(ops) = {op} /\ DOMAIN ops = 1..1
  BY <1>1, RangeOne
<1>3. IsInjective(ops)
  BY <1>2 DEF IsInjective
<1>4. OpsInOrder(ops, fresh, done)
  BY <1>2, <1>3, OrderApart
<1> QED
  BY <1>1, <1>2, <1>4 DEF Ids

LEMMA OrderBoth ==
  ASSUME NEW a, NEW b, NEW fresh, NEW done, OpsInOrder(a, fresh, done),
         OpsInOrder(b, fresh, done \cup Ids(a))
  PROVE  OpsInOrder(a \o b, fresh, done) /\ Ids(a \o b) = Ids(a) \cup Ids(b)
<1>1. PICK q : q = a \o b
  OBVIOUS
<1>2. IsSequence(a) /\ IsSequence(b)
  BY DEF OpsInOrder
<1>3. /\ IsSequence(q) /\ Range(q) = Range(a) \cup Range(b)
  BY <1>1, <1>2, RangeBoth
<1>4. PICK k \in Nat, n \in Nat : k = Len(a) /\ n = Len(b)
  BY <1>2 DEF IsSequence
<1>5. /\ Len(q) = k + n
      /\ \A i \in 1..k : q[i] = a[i]
      /\ \A i \in 1..n : q[k + i] = b[i]
  <2>1. PICK S : a \in Seq(S) /\ b \in Seq(S)
    <3>1. a \in Seq(Range(a) \cup Range(b)) /\ b \in Seq(Range(a) \cup Range(b))
      BY <1>2 DEF IsSequence
    <3> QED
      BY <3>1
  <2> QED
    BY <1>1, <1>4, <2>1
<1>6. Ids(a) = {a[i].id : i \in 1..k} /\ Ids(b) = {b[i].id : i \in 1..n}
  BY <1>2, <1>4, IdsAre
<1>7. \A i \in 1..(k + n) : i \in 1..k \/ \E j \in 1..n : i = k + j
  <2> TAKE i \in 1..(k + n)
  <2>1. CASE i > k
    <3>1. i - k \in 1..n /\ i = k + (i - k)
      BY <2>1
    <3> QED
      BY <3>1
  <2> QED
    BY <2>1
<1>8. /\ \A i \in 1..k : /\ a[i].id \notin done
                         /\ \A j \in 1..k : a[i].id = a[j].id => i = j
                         /\ Ends(a[i]) \cap fresh \subseteq done \cup {a[j].id : j \in 1..(i-1)}
      /\ \A i \in 1..n : /\ b[i].id \notin done \cup Ids(a)
                         /\ \A j \in 1..n : b[i].id = b[j].id => i = j
                         /\ Ends(b[i]) \cap fresh
                              \subseteq (done \cup Ids(a)) \cup {b[j].id : j \in 1..(i-1)}
  BY <1>4 DEF OpsInOrder
<1>9. ASSUME NEW i \in 1..k
      PROVE  /\ q[i].id \notin done
             /\ \A j \in 1..(k + n) : q[i].id = q[j].id => i = j
             /\ Ends(q[i]) \cap fresh \subseteq done \cup {q[j].id : j \in 1..(i-1)}
  <2>1. q[i] = a[i] /\ q[i].id \in Ids(a)
    BY <1>5, <1>6
  <2>2. \A j \in 1..n : q[k + j].id \notin Ids(a)
    BY <1>5, <1>8
  <2>3. \A j \in 1..(k + n) : q[i].id = q[j].id => i = j
    BY <1>5, <1>7, <1>8, <2>1, <2>2
  <2>4. \A j \in 1..(i-1) : q[j] = a[j]
    BY <1>5
  <2>5. {q[j].id : j \in 1..(i-1)} = {a[j].id : j \in 1..(i-1)}
    BY <2>4
  <2> QED
    BY <1>8, <2>1, <2>3, <2>5
<1>10. ASSUME NEW i \in 1..n
       PROVE  /\ q[k + i].id \notin done
              /\ \A j \in 1..(k + n) : q[k + i].id = q[j].id => k + i = j
              /\ Ends(q[k + i]) \cap fresh \subseteq done \cup {q[j].id : j \in 1..(k + i - 1)}
  <2>1. q[k + i] = b[i] /\ b[i].id \notin done /\ b[i].id \notin Ids(a)
    BY <1>5, <1>8
  <2>2. \A j \in 1..k : q[j].id \in Ids(a)
    BY <1>5, <1>6
  <2>3. \A j \in 1..(k + n) : q[k + i].id = q[j].id => k + i = j
    BY <1>5, <1>7, <1>8, <2>1, <2>2
  <2>4. \A x \in Ids(a) : \E j \in 1..(k + i - 1) : x = q[j].id
    <3> SUFFICES ASSUME NEW x \in Ids(a) PROVE \E j \in 1..(k + i - 1) : x = q[j].id
      OBVIOUS
    <3>1. PICK j \in 1..k : x = a[j].id
      BY <1>6
    <3>2. q[j] = a[j] /\ j \in 1..(k + i - 1)
      BY <1>5
    <3> QED
      BY <3>1, <3>2
  <2>5. \A j \in 1..(i-1) : k + j \in 1..(k + i - 1) /\ q[k + j] = b[j]
    BY <1>5
  <2>6. Ends(b[i]) \cap fresh \subseteq (done \cup Ids(a)) \cup {b[j].id : j \in 1..(i-1)}
    BY <1>8
  <2>7. \A x \in {b[j].id : j \in 1..(i-1)} : \E j \in 1..(k + i - 1) : x = q[j].id
    BY <2>5
  <2>8. Ends(b[i]) \cap fresh \subseteq done \cup {q[j].id : j \in 1..(k + i - 1)}
    BY <2>4, <2>6, <2>7
  <2> QED
    BY <2>1, <2>3, <2>8
<1>11. OpsInOrder(q, fresh, done)
  <2> SUFFICES ASSUME NEW i \in 1..Len(q)
               PROVE  /\ q[i].id \notin done
                      /\ \A j \in 1..Len(q) : q[i].id = q[j].id => i = j
                      /\ Ends(q[i]) \cap fresh \subseteq done \cup {q[j].id : j \in 1..(i-1)}
    BY <1>3 DEF OpsInOrder
  <2>1. CASE i \in 1..k
    BY <1>5, <1>9, <2>1
  <2>2. CASE \E j \in 1..n : i = k + j
    <3>1. PICK j \in 1..n : i = k + j
      BY <2>2
    <3>2. /\ q[k + j].id \notin done
          /\ \A l \in 1..(k + n) : q[k + j].id = q[l].id => k + j = l
          /\ Ends(q[k + j]) \cap fresh \subseteq done \cup {q[l].id : l \in 1..(k + j - 1)}
      BY <1>10
    <3> QED
      BY <1>5, <3>1, <3>2
  <2> QED
    BY <1>5, <1>7, <2>1, <2>2
<1> QED
  BY <1>1, <1>3, <1>11 DEF Ids

\* A list of lists, joined.
LEMMA OrderAll ==
  ASSUME NEW seqs, IsSequence(seqs), NEW fresh, NEW done,
         \A i \in 1..Len(seqs) :
           OpsInOrder(seqs[i], fresh, done \cup UNION {Ids(seqs[j]) : j \in 1..(i-1)})
  PROVE  /\ OpsInOrder(FlattenSeq(seqs), fresh, done)
         /\ Ids(FlattenSeq(seqs)) = UNION {Ids(seqs[i]) : i \in 1..Len(seqs)}
<1>1. Len(seqs) \in Nat
  BY DEF IsSequence
<1>2. CASE Len(seqs) = 0
  <2>1. PICK q : q = FlattenSeq(seqs)
    OBVIOUS
  <2>2. q = seqs
    BY <1>2, <2>1 DEF FlattenSeq
  <2>3. Range(q) = {} /\ IsSequence(q) /\ Len(q) = 0
    BY <1>2, <2>2 DEF IsSequence, Range
  <2>4. 1..Len(seqs) = {}
    BY <1>2
  <2>5. OpsInOrder(q, fresh, done) /\ Ids(q) = {}
    BY <2>3 DEF OpsInOrder, Ids
  <2> QED
    BY <2>1, <2>4, <2>5
<1>3. CASE Len(seqs) # 0
  <2> DEFINE result == CHOOSE f : Joins(seqs, Len(seqs), f)
  <2>1. Joins(seqs, Len(seqs), result)
    BY <1>1, JoinExists
  <2>2. FlattenSeq(seqs) = result[Len(seqs)]
    BY <1>3 DEF FlattenSeq, Joins
  <2> HIDE DEF result
  <2>3. \A i \in 1..Len(seqs) :
          result[i] = IF i = 1 THEN seqs[i] ELSE result[i-1] \o seqs[i]
    BY <2>1 DEF Joins
  <2> DEFINE All(i) == UNION {Ids(seqs[j]) : j \in 1..i}
             good == {i \in 0..Len(seqs) :
                        i # 0 => OpsInOrder(result[i], fresh, done) /\ Ids(result[i]) = All(i)}
  <2>4. 0 \in good
    BY <1>1
  <2>5. ASSUME NEW i \in 1..Len(seqs), i - 1 \in good PROVE i \in good
    <3>1. OpsInOrder(seqs[i], fresh, done \cup All(i-1))
      OBVIOUS
    <3>2. CASE i = 1
      <4>1. All(i) = Ids(seqs[i]) /\ All(i-1) = {}
        BY <3>2
      <4>2. done \cup All(i-1) = done
        BY <4>1
      <4>3. OpsInOrder(seqs[i], fresh, done)
        BY <3>1, <4>2
      <4> QED
        BY <2>3, <3>2, <4>1, <4>3
    <3>3. CASE i # 1
      <4>1. OpsInOrder(result[i-1], fresh, done) /\ Ids(result[i-1]) = All(i-1)
        BY <2>5, <3>3
      <4>2. All(i) = All(i-1) \cup Ids(seqs[i])
        <5>1. 1..i = (1..(i-1)) \cup {i}
          OBVIOUS
        <5> QED
          BY <5>1
      <4> HIDE DEF All
      <4>3. OpsInOrder(seqs[i], fresh, done \cup Ids(result[i-1]))
        BY <3>1, <4>1
      <4>4. /\ OpsInOrder(result[i-1] \o seqs[i], fresh, done)
            /\ Ids(result[i-1] \o seqs[i]) = All(i)
        BY <4>1, <4>2, <4>3, OrderBoth
      <4> QED
        BY <2>3, <3>3, <4>4
    <3> QED
      BY <3>2, <3>3
  <2>6. 0..Len(seqs) \subseteq good
    <3> HIDE DEF good
    <3> QED
      BY <1>1, <2>4, <2>5, Induction
  <2> QED
    BY <1>1, <1>3, <2>2, <2>6
<1> QED
  BY <1>2, <1>3
=============================================================================
