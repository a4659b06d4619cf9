---------------------------- MODULE MirrorProofs ----------------------------
(***************************************************************************)
(* That files hold what their names say, on every host, and that the       *)
(* directory of a mirror catches up with its map: for every sequence of    *)
(* calls, of writes that fail and of stops of the host.  A document is     *)
(* proper if it is what its path promises; flows write proper documents,   *)
(* persist writes what the map holds, and what it has not yet written is   *)
(* among the steps it has left.                                            *)
(***************************************************************************)
EXTENDS StoreProofs, FiniteSetTheorems, WellFoundedInduction

-----------------------------------------------------------------------------
\* Induction by the least counterexample, as in FoldProofs.

LEMMA LeastNumber ==
  ASSUME NEW T \in SUBSET Nat, T # {}
  PROVE  \E n \in T : \A m \in T : n <= m
<1> DEFINE below == {1..n : n \in T}
<1>1. below \subseteq FiniteSubsetsOf(Nat) /\ below # {}
  <2>1. \A n \in T : 1..n \in SUBSET Nat /\ IsFiniteSet(1..n)
    BY FS_Interval
  <2> QED
    BY <2>1 DEF FiniteSubsetsOf
<1>2. PICK S \in below : \A U \in below : <<U, S>> \notin StrictSubsetOrdering(Nat)
  <2> HIDE DEF below
  <2> QED
    BY <1>1, WFMin, FS_StrictSubsetOrderingWellFounded
<1>3. PICK n \in T : S = 1..n
  OBVIOUS
<1>4. ASSUME NEW m \in T, m < n PROVE FALSE
  <2>1. 1..m \in below
    OBVIOUS
  <2>2. 1..m \subseteq 1..n /\ n \in 1..n /\ n \notin 1..m
    BY <1>4
  <2>3. 1..m \in SUBSET Nat /\ 1..n \in SUBSET Nat
    OBVIOUS
  <2> QED
    BY <2>1, <2>2, <2>3, <1>2, <1>3 DEF StrictSubsetOrdering
<1> QED
  BY <1>4

LEMMA Induction ==
  ASSUME NEW n \in Nat, NEW T, 0 \in T,
         \A i \in 1..n : i - 1 \in T => i \in T
  PROVE  0..n \subseteq T
<1> DEFINE missing == {i \in 0..n : i \notin T}
<1>1. CASE missing = {}
  BY <1>1
<1>2. CASE missing # {}
  <2>1. PICK m \in missing : \A k \in missing : m <= k
    <3>1. missing \in SUBSET Nat
      OBVIOUS
    <3> HIDE DEF missing
    <3> QED
      BY <1>2, <3>1, LeastNumber
  <2>2. m \in 1..n /\ m - 1 \in 0..n /\ m - 1 \notin missing
    BY <2>1
  <2> QED
    BY <2>2
<1> QED
  BY <1>1, <1>2

-----------------------------------------------------------------------------
\* What Listed returns.

IsSequence(q) == q \in Seq(Range(q))

\* The first n paths, as they are listed.
Lists(paths, n, first) ==
  first = [i \in 0..n |-> IF i = 0 THEN <<>> ELSE KeepIn(paths, first[i-1], PathOrder[i])]

\* The recursion that Listed is has a value: by induction on its length.
LEMMA ListExists ==
  ASSUME NEW paths, NEW n \in Nat
  PROVE  \E first : Lists(paths, n, first)
<1> DEFINE good == {m \in Nat : \E first : Lists(paths, m, first)}
<1>1. 0 \in good
  <2>1. Lists(paths, 0, [i \in 0..0 |-> <<>>])
    BY DEF Lists
  <2> QED
    BY <2>1
<1>2. ASSUME NEW m \in 1..n, m - 1 \in good
      PROVE  m \in good
  <2>1. PICK first : Lists(paths, m - 1, first)
    BY <1>2
  <2> DEFINE longer == [i \in 0..m |-> IF i = m THEN KeepIn(paths, first[m-1], PathOrder[m]) ELSE first[i]]
  <2>2. ASSUME NEW i \in 0..m
        PROVE  longer[i] = IF i = 0 THEN <<>> ELSE KeepIn(paths, longer[i-1], PathOrder[i])
    <3>1. CASE i = m
      BY <3>1
    <3>2. CASE i # m
      <4>1. i \in 0..(m-1) /\ (i # 0 => i - 1 \in 0..(m-1) /\ i - 1 # m)
        BY <3>2
      <4>2. first[i] = IF i = 0 THEN <<>> ELSE KeepIn(paths, first[i-1], PathOrder[i])
        BY <2>1, <4>1 DEF Lists
      <4> QED
        BY <4>1, <4>2
    <3> QED
      BY <3>1, <3>2
  <2>3. Lists(paths, m, longer)
    <3>1. longer = [i \in 0..m |-> longer[i]]
      OBVIOUS
    <3> HIDE DEF longer
    <3> QED
      BY <2>2, <3>1 DEF Lists
  <2> QED
    BY <2>3
<1>3. 0..n \subseteq good
  <2> HIDE DEF good
  <2> QED
    BY <1>1, <1>2, Induction
<1> QED
  BY <1>3

\* Sequences grow by one element, of whatever kind.
LEMMA Grows ==
  ASSUME NEW q, IsSequence(q), NEW x
  PROVE  /\ IsSequence(Append(q, x)) /\ Range(Append(q, x)) = Range(q) \cup {x}
<1> DEFINE S == Range(q) \cup {x}
           r == Append(q, x)
<1>1. q \in Seq(S) /\ x \in S
  BY DEF IsSequence
<1>2. r \in Seq(S) /\ Len(r) = Len(q) + 1 /\ Len(q) \in Nat
      /\ \A i \in 1..Len(q) : r[i] = q[i]
      /\ r[Len(q) + 1] = x
  BY <1>1
<1>3. DOMAIN r = 1..(Len(q) + 1) /\ DOMAIN q = 1..Len(q)
  BY <1>1, <1>2
<1>4. Range(r) = S
  BY <1>2, <1>3 DEF Range
<1> QED
  BY <1>2, <1>4 DEF IsSequence

\* Exactly the paths of the set are listed, if the order has them all.
LEMMA ListedAll ==
  ASSUME PathOrder \in Seq(Range(PathOrder)), NEW paths
  PROVE  /\ IsSequence(Listed(paths))
         /\ Range(Listed(paths)) = paths \cap Range(PathOrder)
<1> DEFINE n == Len(PathOrder)
           first == CHOOSE f : Lists(paths, n, f)
           Right(i) == /\ IsSequence(first[i])
                       /\ Range(first[i]) = paths \cap {PathOrder[k] : k \in 1..i}
<1>1. n \in Nat /\ DOMAIN PathOrder = 1..n
  OBVIOUS
<1>2. Lists(paths, n, first)
  BY <1>1, ListExists
<1>3. Listed(paths) = first[n]
  BY DEF Listed, Lists
<1> HIDE DEF first
<1>4. /\ first[0] = <<>>
      /\ \A i \in 1..n : first[i] = KeepIn(paths, first[i-1], PathOrder[i])
  BY <1>1, <1>2 DEF Lists
<1> DEFINE T == {i \in Nat : Right(i)}
<1>5. 0 \in T
  <2>1. IsSequence(<<>>) /\ Range(<<>>) = {}
    BY DEF IsSequence, Range
  <2> QED
    BY <1>4, <2>1
<1>6. ASSUME NEW i \in 1..n, i - 1 \in T PROVE i \in T
  <2>1. Right(i - 1)
    BY <1>6
  <2>2. {PathOrder[k] : k \in 1..i} = {PathOrder[k] : k \in 1..(i-1)} \cup {PathOrder[i]}
    BY <1>1
  <2>3. CASE PathOrder[i] \in paths
    <3>1. first[i] = Append(first[i-1], PathOrder[i])
      BY <1>4, <2>3 DEF KeepIn
    <3>2. IsSequence(first[i]) /\ Range(first[i]) = Range(first[i-1]) \cup {PathOrder[i]}
      BY <2>1, <3>1, Grows
    <3>3. Right(i)
      BY <2>1, <2>2, <2>3, <3>2
    <3> QED
      BY <3>3
  <2>4. CASE PathOrder[i] \notin paths
    BY <1>4, <2>1, <2>2, <2>4 DEF KeepIn
  <2> QED
    BY <2>3, <2>4
<1>7. 0..n \subseteq T
  <2> HIDE DEF T, n
  <2> QED
    BY <1>1, <1>5, <1>6, Induction
<1>8. Right(n)
  BY <1>1, <1>7
<1>9. Range(PathOrder) = {PathOrder[k] : k \in 1..n}
  BY <1>1 DEF Range
<1> QED
  BY <1>3, <1>8, <1>9

-----------------------------------------------------------------------------
\* The paths of a graph.

\* Where documents can be inside the directory.
Places ==
  {HeadFile, GraphYaml}
  \cup {<<kind, x>> : kind \in {"changesets", "evidence", "proposals", "pending",
                                "checkpoints"}, x \in Changeset}
  \cup {StoreKey(NameOf[x]) : x \in DOMAIN NameOf}

\* Sequences joined, of whatever kind.
LEMMA Joined ==
  ASSUME NEW a, NEW b, IsSequence(a), IsSequence(b)
  PROVE  IsSequence(a \o b) /\ Range(a \o b) = Range(a) \cup Range(b)
<1> DEFINE S == Range(a) \cup Range(b)
<1>1. a \in Seq(S) /\ b \in Seq(S)
  BY DEF IsSequence
<1>2. a \o b \in Seq(S) /\ Range(a \o b) = S
  <2> HIDE DEF S
  <2>1. a \o b \in Seq(S) /\ Range(a \o b) = Range(a) \cup Range(b)
    BY <1>1, ConcatProperties, RangeConcatenation
  <2> QED
    BY <2>1 DEF S
<1> QED
  BY <1>2 DEF IsSequence

\* A list by index.
LEMMA Tabled ==
  ASSUME NEW n \in Nat, NEW q, q = [i \in 1..n |-> q[i]]
  PROVE  IsSequence(q) /\ Range(q) = {q[i] : i \in 1..n}
<1>1. q \in Seq({q[i] : i \in 1..n}) /\ DOMAIN q = 1..n
  OBVIOUS
<1>2. Range(q) = {q[i] : i \in 1..n}
  BY <1>1 DEF Range
<1> QED
  BY <1>1, <1>2 DEF IsSequence

\* A finite set in some order.
LEMMA SetInOrder ==
  ASSUME NEW S, IsFiniteSet(S)
  PROVE  IsSequence(SetToSeq(S)) /\ Range(SetToSeq(S)) = S
<1>1. PICK n \in Nat : n = Cardinality(S)
  BY FS_CardinalityType
<1>2. \E f \in [1..n -> S] : IsInjective(f)
  <2>1. ExistsBijection(1..n, S)
    BY <1>1, FS_CardinalityType
  <2> QED
    BY <2>1 DEF ExistsBijection, Bijection, Injection
<1>3. SetToSeq(S) \in [1..n -> S] /\ IsInjective(SetToSeq(S))
  BY <1>1, <1>2 DEF SetToSeq
<1>4. PICK q \in [1..n -> S] : q = SetToSeq(S)
  BY <1>3
<1>5. q \in Injection(1..n, S)
  BY <1>3, <1>4 DEF Injection
<1>6. Cardinality(1..n) = n
  BY FS_Interval
<1>7. q \in Surjection(1..n, S)
  BY <1>1, <1>5, <1>6, FS_Injection
<1>8. IsSequence(q) /\ Range(q) = {q[i] : i \in 1..n}
  BY Tabled
<1> QED
  BY <1>4, <1>7, <1>8 DEF Surjection

\* Two files of each changeset.
LEMMA PairsInOrder ==
  ASSUME NEW kind, NEW other
  PROVE  /\ IsSequence(InPairs(kind, other))
         /\ Range(InPairs(kind, other)) = {<<k, x>> : k \in {kind, other}, x \in Changeset}
<1> DEFINE n == Len(Changesets)
           q == InPairs(kind, other)
           paths == {<<k, x>> : k \in {kind, other}, x \in Changeset}
<1>1. /\ n \in Nat /\ 2 * n \in Nat /\ DOMAIN Changesets = 1..n
      /\ \A i \in 1..n : Changesets[i] \in Changeset
      /\ \A x \in Changeset : \E i \in 1..n : Changesets[i] = x
  BY ChangesetAssumption DEF Changeset, Range
<1>2. \A i \in 1..(2 * n) :
        q[i] = <<IF i % 2 = 1 THEN kind ELSE other, Changesets[(i + 1) \div 2]>>
  BY DEF InPairs
<1>3. q = [i \in 1..(2 * n) |-> q[i]]
  BY DEF InPairs
<1> HIDE DEF n, q
<1>4. IsSequence(q) /\ Range(q) = {q[i] : i \in 1..(2 * n)}
  BY <1>1, <1>3, Tabled
<1>5. ASSUME NEW i \in 1..(2 * n) PROVE q[i] \in paths
  <2>1. (i + 1) \div 2 \in 1..n
    BY <1>1
  <2>2. PICK x \in Changeset : x = Changesets[(i + 1) \div 2]
    BY <1>1, <2>1
  <2>3. q[i] = <<kind, x>> \/ q[i] = <<other, x>>
    BY <1>2, <2>2
  <2> QED
    BY <2>3
<1>6. ASSUME NEW i \in 1..n
      PROVE  /\ <<kind, Changesets[i]>> \in {q[j] : j \in 1..(2 * n)}
             /\ <<other, Changesets[i]>> \in {q[j] : j \in 1..(2 * n)}
  <2>1. /\ 2 * i - 1 \in 1..(2 * n) /\ (2 * i - 1) % 2 = 1 /\ ((2 * i - 1) + 1) \div 2 = i
        /\ 2 * i \in 1..(2 * n) /\ (2 * i) % 2 # 1 /\ (2 * i + 1) \div 2 = i
    BY <1>1
  <2>2. q[2 * i - 1] = <<kind, Changesets[i]>> /\ q[2 * i] = <<other, Changesets[i]>>
    BY <1>2, <2>1
  <2> QED
    BY <2>1, <2>2
<1>7. {q[i] : i \in 1..(2 * n)} = paths
  <2>1. ASSUME NEW k \in {kind, other}, NEW x \in Changeset
        PROVE  <<k, x>> \in {q[i] : i \in 1..(2 * n)}
    <3>1. PICK i \in 1..n : Changesets[i] = x
      BY <1>1
    <3> QED
      BY <1>6, <3>1
  <2> QED
    BY <1>5, <2>1
<1> QED
  BY <1>4, <1>7 DEF q

\* The order has all of them, and nothing else.
LEMMA PathOrderIsPlaces ==
  PathOrder \in Seq(Range(PathOrder)) /\ Range(PathOrder) = Places
<1> DEFINE n == Len(Changesets)
           keys == {StoreKey(NameOf[x]) : x \in DOMAIN NameOf}
           checkpoints == [i \in DOMAIN Changesets |-> CheckpointFile(Changesets[i])]
           a == <<HeadFile>>
           b == InPairs("evidence", "changesets")
           c == <<GraphYaml>>
           d == SetToSeq(keys)
           e == InPairs("pending", "proposals")
<1>1. /\ n \in Nat /\ DOMAIN Changesets = 1..n /\ Changeset = {Changesets[i] : i \in 1..n}
  BY ChangesetAssumption DEF Changeset, Range
<1>2. IsSequence(checkpoints) /\ Range(checkpoints) = {CheckpointFile(x) : x \in Changeset}
  <2>1. checkpoints = [i \in 1..n |-> checkpoints[i]]
    BY <1>1
  <2>2. \A i \in 1..n : checkpoints[i] = CheckpointFile(Changesets[i])
    BY <1>1
  <2> HIDE DEF checkpoints
  <2>3. IsSequence(checkpoints) /\ Range(checkpoints) = {checkpoints[i] : i \in 1..n}
    BY <1>1, <2>1, Tabled
  <2> QED
    BY <1>1, <2>2, <2>3
<1>3. IsFiniteSet(keys)
  <2>1. IsFiniteSet(Changeset)
    <3>1. IsFiniteSet(1..n)
      <4> HIDE DEF n
      <4> QED
        BY <1>1, FS_Interval
    <3>2. Changesets \in Surjection(1..n, Changeset)
      BY <1>1, ChangesetAssumption DEF Surjection
    <3> QED
      BY <3>1, <3>2, FS_Surjection
  <2>2. IsFiniteSet(DOMAIN NameOf)
    BY <2>1, ChangesetAssumption, FS_Subset
  <2> DEFINE f == [x \in DOMAIN NameOf |-> StoreKey(NameOf[x])]
  <2>3. f \in Surjection(DOMAIN NameOf, keys)
    BY DEF Surjection
  <2> QED
    BY <2>2, <2>3, FS_Surjection
<1>4. IsSequence(d) /\ Range(d) = keys
  <2> HIDE DEF keys
  <2> QED
    BY <1>3, SetInOrder
<1>5. /\ IsSequence(a) /\ Range(a) = {HeadFile}
      /\ IsSequence(c) /\ Range(c) = {GraphYaml}
  <2>1. \A x : IsSequence(<<x>>) /\ Range(<<x>>) = {x}
    <3> TAKE x
    <3>1. PICK q : q = <<x>>
      OBVIOUS
    <3>2. q \in Seq({x}) /\ DOMAIN q = 1..1 /\ q[1] = x
      BY <3>1
    <3>3. Range(q) = {x}
      BY <3>2 DEF Range
    <3> QED
      BY <3>1, <3>2, <3>3 DEF IsSequence
  <2> QED
    BY <2>1
<1>6. /\ IsSequence(b) /\ Range(b) = {<<k, x>> : k \in {"evidence", "changesets"}, x \in Changeset}
      /\ IsSequence(e) /\ Range(e) = {<<k, x>> : k \in {"pending", "proposals"}, x \in Changeset}
  BY PairsInOrder
<1>7. PathOrder = ((((a \o b) \o checkpoints) \o c) \o d) \o e
  BY DEF PathOrder
<1> HIDE DEF a, b, c, d, e, checkpoints, n
<1>8. /\ IsSequence(PathOrder)
      /\ Range(PathOrder) = ((((Range(a) \cup Range(b)) \cup Range(checkpoints))
                              \cup Range(c)) \cup Range(d)) \cup Range(e)
  BY <1>2, <1>4, <1>5, <1>6, <1>7, Joined
<1>9. Range(PathOrder) = Places
  <2>1. {CheckpointFile(x) : x \in Changeset} = {<<"checkpoints", x>> : x \in Changeset}
    BY DEF CheckpointFile
  <2> QED
    BY <1>2, <1>4, <1>5, <1>6, <1>8, <2>1 DEF Places
<1> QED
  BY <1>8, <1>9 DEF IsSequence

\* persist goes through what the set has.
LEMMA ListedIsRight ==
  ASSUME NEW paths \in SUBSET Places
  PROVE  IsSequence(Listed(paths)) /\ Range(Listed(paths)) = paths
BY ListedAll, PathOrderIsPlaces

-----------------------------------------------------------------------------
\* Proper documents.

\* What the path of a document promises, given the ancestors of changesets.
Proper(lin, path, text) ==
  /\ path = HeadFile => text \in Changeset
  /\ \A x \in Changeset :
       path \in {ChangesetFile(x), ProposalFile(x)} => text = x /\ x \in lin[x]
  /\ path = GraphYaml => GraphDoc(text)

\* A document is proper, or it is one of those that were left empty.
Fine(places, lin, empty, path, text) ==
  /\ path \in places
  /\ text = Torn => path \in empty
  /\ text # Torn => Proper(lin, path, text)

Docs(places, lin, empty, f) ==
  /\ f = [path \in DOMAIN f |-> f[path]]
  /\ \A path \in DOMAIN f : Fine(places, lin, empty, path, f[path])

FineStep(places, lin, empty, step) ==
  \/ step.verb = "remove"
  \/ step.verb = "write" /\ Fine(places, lin, empty, step.path, step.text)

FineSteps(places, lin, empty, s) ==
  IsSequence(s) /\ \A step \in Range(s) : FineStep(places, lin, empty, step)

\* Sets of ancestors only gain changesets that descend from themselves.
Grew(lin, more) == \A x \in Changeset : x \in lin[x] => x \in more[x]

LEMMA FineStays ==
  ASSUME NEW places, NEW lin, NEW more, Grew(lin, more), NEW empty, NEW larger,
         empty \subseteq larger, NEW path, NEW text, Fine(places, lin, empty, path, text)
  PROVE  Fine(places, more, larger, path, text)
BY DEF Fine, Proper, Grew

\* Files and calls stay fine while others become changesets or are left empty.
LEMMA FineAnyway ==
  ASSUME NEW places, NEW lin, NEW more, Grew(lin, more), NEW empty, NEW larger,
         empty \subseteq larger
  PROVE  /\ \A f : Docs(places, lin, empty, f) => Docs(places, more, larger, f)
         /\ \A s : FineSteps(places, lin, empty, s) => FineSteps(places, more, larger, s)
<1>1. ASSUME NEW f, Docs(places, lin, empty, f) PROVE Docs(places, more, larger, f)
  BY <1>1, FineStays DEF Docs
<1>2. ASSUME NEW s, FineSteps(places, lin, empty, s)
      PROVE  FineSteps(places, more, larger, s)
  BY <1>2, FineStays DEF FineSteps, FineStep
<1> QED
  BY <1>1, <1>2

\* One write, and one removal, in a map or a directory.
LEMMA PutFine ==
  ASSUME NEW places, NEW lin, NEW empty, NEW f, Docs(places, lin, empty, f),
         NEW path, NEW text, Fine(places, lin, empty, path, text)
  PROVE  Docs(places, lin, empty, Put(f, path, text))
BY DEF Docs, Put

LEMMA DropFine ==
  ASSUME NEW places, NEW lin, NEW empty, NEW f, Docs(places, lin, empty, f), NEW path
  PROVE  Docs(places, lin, empty, Drop(f, path))
BY DEF Docs, Drop

\* Documents are not empty.
LEMMA Documents ==
  /\ \A x \in Changeset : x # Torn
  /\ \A d, e : [decisions |-> d, envelopes |-> e] # Torn
  /\ \A doc : GraphDoc(doc) => doc # Torn /\ doc.id \in Founding
<1>1. \A x \in Changeset : x # Torn
  BY ChangesetAssumption
<1>2. ASSUME NEW d, NEW e PROVE [decisions |-> d, envelopes |-> e] # Torn
  <2>1. "torn" \notin DOMAIN [decisions |-> d, envelopes |-> e] /\ "torn" \in DOMAIN Torn
    BY DEF Torn
  <2> QED
    BY <2>1
<1>3. ASSUME NEW doc, GraphDoc(doc) PROVE doc # Torn /\ doc.id \in Founding
  <2>1. PICK g, t : g \in Founding /\ doc = [id |-> g, trusted |-> t]
    BY <1>3 DEF GraphDoc
  <2>2. "torn" \notin DOMAIN doc /\ "torn" \in DOMAIN Torn
    BY <2>1 DEF Torn
  <2> QED
    BY <2>1, <2>2
<1> QED
  BY <1>1, <1>2, <1>3

\* The steps of the flows.
LEMMA FineWrites ==
  ASSUME NEW places, Places \subseteq places, NEW lin, NEW empty, NEW x \in Changeset
  PROVE  /\ \A text : text # Torn =>
              /\ FineStep(places, lin, empty, Write(EvidenceFile(x), text))
              /\ FineStep(places, lin, empty, Write(ProposalEvidenceFile(x), text))
              /\ FineStep(places, lin, empty, Write(CheckpointFile(x), text))
         /\ FineStep(places, lin, empty, Write(HeadFile, x))
         /\ x \in lin[x] => /\ FineStep(places, lin, empty, Write(ChangesetFile(x), x))
                            /\ FineStep(places, lin, empty, Write(ProposalFile(x), x))
         /\ \A doc : GraphDoc(doc) => FineStep(places, lin, empty, Write(GraphYaml, doc))
         /\ \A path \in places : \A text : text # Torn /\ path[1] \in {"keys", "xdg"} =>
              FineStep(places, lin, empty, Write(path, text))
         /\ \A path : FineStep(places, lin, empty, Erase(path))
<1>1. /\ {HeadFile, GraphYaml, ChangesetFile(x), EvidenceFile(x), ProposalFile(x),
          ProposalEvidenceFile(x), CheckpointFile(x)} \subseteq places
  BY DEF Places, ChangesetFile, EvidenceFile, ProposalFile, ProposalEvidenceFile,
         CheckpointFile
<1>2. \A path, text : /\ Write(path, text).verb = "write" /\ Write(path, text).path = path
                      /\ Write(path, text).text = text
                      /\ Erase(path).verb = "remove"
  BY DEF Write, Erase
<1>3. /\ HeadFile[1] = "HEAD" /\ GraphYaml[1] = "graph"
      /\ \A y : /\ ChangesetFile(y)[1] = "changesets" /\ EvidenceFile(y)[1] = "evidence"
                /\ ProposalFile(y)[1] = "proposals" /\ ProposalEvidenceFile(y)[1] = "pending"
                /\ CheckpointFile(y)[1] = "checkpoints"
                /\ ProposalFile(x) = ProposalFile(y) => x = y
                /\ ChangesetFile(x) = ChangesetFile(y) => x = y
  BY MoreKinds
<1>4. ASSUME NEW path \in places, NEW text, text # Torn,
             path[1] \in {"evidence", "pending", "checkpoints", "keys", "xdg"}
      PROVE  FineStep(places, lin, empty, Write(path, text))
  BY <1>2, <1>3, <1>4 DEF FineStep, Fine, Proper
<1>5. FineStep(places, lin, empty, Write(HeadFile, x))
  BY <1>1, <1>2, <1>3, Documents DEF FineStep, Fine, Proper
<1>6. ASSUME x \in lin[x]
      PROVE  /\ FineStep(places, lin, empty, Write(ChangesetFile(x), x))
             /\ FineStep(places, lin, empty, Write(ProposalFile(x), x))
  BY <1>1, <1>2, <1>3, <1>6, Documents DEF FineStep, Fine, Proper
<1>7. ASSUME NEW doc, GraphDoc(doc)
      PROVE  FineStep(places, lin, empty, Write(GraphYaml, doc))
  BY <1>1, <1>2, <1>3, <1>7, Documents DEF FineStep, Fine, Proper
<1>8. \A path : FineStep(places, lin, empty, Erase(path))
  BY <1>2 DEF FineStep
<1> QED
  BY <1>1, <1>3, <1>4, <1>5, <1>6, <1>7, <1>8

\* Few steps, or some after others.
LEMMA FineTuples ==
  ASSUME NEW places, NEW lin, NEW empty
  PROVE  /\ FineSteps(places, lin, empty, <<>>)
         /\ \A a : FineStep(places, lin, empty, a) => FineSteps(places, lin, empty, <<a>>)
         /\ \A a, b : FineStep(places, lin, empty, a) /\ FineStep(places, lin, empty, b)
              => FineSteps(places, lin, empty, <<a, b>>)
         /\ \A a, b, c : /\ FineStep(places, lin, empty, a)
                         /\ FineStep(places, lin, empty, b)
                         /\ FineStep(places, lin, empty, c)
              => FineSteps(places, lin, empty, <<a, b, c>>)
         /\ \A s, t : FineSteps(places, lin, empty, s) /\ FineSteps(places, lin, empty, t)
              => FineSteps(places, lin, empty, s \o t)
<1>1. ASSUME NEW n \in 0..3, NEW q, q = [i \in 1..n |-> q[i]],
             \A i \in 1..n : FineStep(places, lin, empty, q[i])
      PROVE  FineSteps(places, lin, empty, q)
  <2>1. IsSequence(q) /\ Range(q) = {q[i] : i \in 1..n}
    BY <1>1, Tabled
  <2> QED
    BY <1>1, <2>1 DEF FineSteps
<1>2. FineSteps(places, lin, empty, <<>>)
  <2>1. IsSequence(<<>>) /\ Range(<<>>) = {}
    BY DEF IsSequence, Range
  <2> QED
    BY <2>1 DEF FineSteps
<1>3. ASSUME NEW a, FineStep(places, lin, empty, a)
      PROVE  FineSteps(places, lin, empty, <<a>>)
  <2>1. PICK q : q = <<a>>
    OBVIOUS
  <2>2. q = [i \in 1..1 |-> q[i]] /\ q[1] = a
    BY <2>1
  <2> QED
    BY <1>1, <1>3, <2>1, <2>2
<1>4. ASSUME NEW a, NEW b, FineStep(places, lin, empty, a), FineStep(places, lin, empty, b)
      PROVE  FineSteps(places, lin, empty, <<a, b>>)
  <2>1. PICK q : q = <<a, b>>
    OBVIOUS
  <2>2. q = [i \in 1..2 |-> q[i]] /\ q[1] = a /\ q[2] = b
    BY <2>1
  <2>3. \A i \in 1..2 : i = 1 \/ i = 2
    OBVIOUS
  <2> QED
    BY <1>1, <1>4, <2>1, <2>2, <2>3
<1>5. ASSUME NEW a, NEW b, NEW c, FineStep(places, lin, empty, a),
             FineStep(places, lin, empty, b), FineStep(places, lin, empty, c)
      PROVE  FineSteps(places, lin, empty, <<a, b, c>>)
  <2>1. PICK q : q = <<a, b, c>>
    OBVIOUS
  <2>2. q = [i \in 1..3 |-> q[i]] /\ q[1] = a /\ q[2] = b /\ q[3] = c
    BY <2>1
  <2>3. \A i \in 1..3 : i = 1 \/ i = 2 \/ i = 3
    OBVIOUS
  <2> QED
    BY <1>1, <1>5, <2>1, <2>2, <2>3
<1>6. ASSUME NEW s, NEW t, FineSteps(places, lin, empty, s), FineSteps(places, lin, empty, t)
      PROVE  FineSteps(places, lin, empty, s \o t)
  BY <1>6, Joined DEF FineSteps
<1> QED
  BY <1>2, <1>3, <1>4, <1>5, <1>6

-----------------------------------------------------------------------------
\* What the flows write.

\* Where documents can be: a native process has those of the user as well.
Spots(host) == IF host = "native" THEN Places \cup UserKeys ELSE Places

\* What a flow reads, and the ancestors when it has built a changeset.
Reads(host, empty, f, more) ==
  Docs(Spots(host), lineage, empty, f) /\ Grew(lineage, more)

\* What it yields: it builds on a HEAD that it has read, if there is one.
Yields(host, empty, f, more, done) ==
  /\ FineSteps(Spots(host), more, empty, done.steps)
  /\ done.builds \in Changeset \cup {None}
  /\ done.builds # None => Intact(f, HeadFile) \/ ~Exists(f, HeadFile)

\* What is built is its own ancestor.
Builds(done, more) == done.builds \in Changeset => done.builds \in more[done.builds]

LEMMA Results ==
  ASSUME NEW x, NEW s, NEW fact
  PROVE  /\ Building(x, s, fact).steps = s /\ Building(x, s, fact).builds = x
         /\ Outcome(s, fact).steps = s /\ Outcome(s, fact).builds = None
         /\ Failure(s).steps = s /\ Failure(s).builds = None
BY DEF Building, Outcome, Failure

\* A flow that fails before it writes, or that only writes.
LEMMA YieldsSteps ==
  ASSUME NEW host, NEW empty, NEW f, NEW more, NEW s, NEW fact
  PROVE  /\ Yields(host, empty, f, more, Failure(<<>>))
         /\ FineSteps(Spots(host), more, empty, s) =>
              /\ Yields(host, empty, f, more, Outcome(s, fact))
              /\ Yields(host, empty, f, more, Building(None, s, fact))
<1>1. FineSteps(Spots(host), more, empty, <<>>)
  BY FineTuples
<1> QED
  BY <1>1, Results DEF Yields

\* Names and paths of keys.
LEMMA KeyPlaces ==
  /\ \A x \in Founding \cup Adding :
       /\ x \in Changeset /\ StoreKey(NameOf[x]) \in Places
       /\ NameOf[x] \in Range(NameOf)
  /\ \A g \in Founding \cup {None}, name \in Range(NameOf) : UserKey(g, name) \in UserKeys
  /\ \A name, host : StoreKey(name) \in Spots(host) => name \in Range(NameOf)
  /\ \A host : Places \subseteq Spots(host)
<1>1. \A x \in Founding \cup Adding : /\ x \in Changeset /\ StoreKey(NameOf[x]) \in Places
                                      /\ NameOf[x] \in Range(NameOf)
  BY ChangesetAssumption DEF Places, Range
<1>2. \A g \in Founding \cup {None}, name \in Range(NameOf) : UserKey(g, name) \in UserKeys
  BY DEF UserKeys
<1>3. ASSUME NEW name, StoreKey(name) \in Places \cup UserKeys
      PROVE  name \in Range(NameOf)
  <2>1. StoreKey(name)[1] = "keys" /\ StoreKey(name)[2] = name
    BY DEF StoreKey
  <2>2. StoreKey(name) \notin UserKeys
    BY <2>1, KeyKinds
  <2>3. PICK x \in DOMAIN NameOf : StoreKey(name) = StoreKey(NameOf[x])
    BY <1>3, <2>1, <2>2 DEF Places, HeadFile, GraphYaml
  <2> QED
    BY <2>3 DEF StoreKey, Range
<1> QED
  BY <1>1, <1>2, <1>3 DEF Spots

\* The step that stores a key.
LEMMA CreateKeyIsFine ==
  ASSUME NEW host, NEW empty, NEW f, NEW more, NEW graph \in Founding \cup {None},
         NEW x \in Founding \cup Adding
  PROVE  FineSteps(Spots(host), more, empty, CreateKey(host, f, graph, x))
<1> DEFINE path == IF host = "native" THEN UserKey(graph, NameOf[x]) ELSE StoreKey(NameOf[x])
<1>1. path \in Spots(host)
  BY KeyPlaces DEF Spots
<1>2. path[1] \in {"keys", "xdg"} /\ x \in Changeset /\ x # Torn
  BY KeyPlaces, Documents DEF UserKey, StoreKey
<1>3. FineStep(Spots(host), more, empty, Write(path, x))
  BY <1>1, <1>2, FineWrites, KeyPlaces
<1> QED
  BY <1>3, FineTuples DEF CreateKey

\* The graph that a caller can tell.
LEMMA GraphIdIsFounding ==
  ASSUME NEW host, NEW empty, NEW f, Docs(Spots(host), lineage, empty, f)
  PROVE  GraphId(f) \in Founding \cup {None}
<1>1. Intact(f, GraphYaml) => GraphDoc(f[GraphYaml])
  BY DEF Docs, Fine, Proper, Intact
<1> QED
  BY <1>1, Documents DEF GraphId

\* init
LEMMA InitYields ==
  ASSUME NEW host, NEW empty, NEW f, NEW more, Reads(host, empty, f, more),
         NEW x \in Founding, NEW done, done = InitFlow(host, f, x), Builds(done, more)
  PROVE  Yields(host, empty, f, more, done)
<1>1. CASE lineage[x] # {} \/ (Exists(f, HeadFile) /\ ~Folds(f))
  BY <1>1, YieldsSteps DEF InitFlow
<1>2. CASE ~(lineage[x] # {} \/ (Exists(f, HeadFile) /\ ~Folds(f)))
  <2>1. done = Building(x, InitSteps(host, f, x), <<"admitted", x>>)
    BY <1>2 DEF InitFlow
  <2>2. x \in Changeset /\ x # None /\ x \in more[x]
    BY <2>1, Results, ChangesetAssumption DEF Builds
  <2>3. GraphDoc([id |-> x, trusted |-> {}])
    BY DEF GraphDoc
  <2>4. /\ FineStep(Spots(host), more, empty, Write(GraphYaml, [id |-> x, trusted |-> {}]))
        /\ FineStep(Spots(host), more, empty, Write(ChangesetFile(x), x))
        /\ FineStep(Spots(host), more, empty, Write(HeadFile, x))
    BY <2>2, <2>3, FineWrites, KeyPlaces
  <2>5. FineSteps(Spots(host), more, empty, CreateKey(host, f, x, x))
    BY CreateKeyIsFine
  <2>6. FineSteps(Spots(host), more, empty, InitSteps(host, f, x))
    <3>1. /\ FineSteps(Spots(host), more, empty, <<Write(GraphYaml, [id |-> x, trusted |-> {}])>>)
          /\ FineSteps(Spots(host), more, empty, <<Write(ChangesetFile(x), x), Write(HeadFile, x)>>)
      BY <2>4, FineTuples
    <3>2. FineSteps(Spots(host), more, empty,
            <<Write(GraphYaml, [id |-> x, trusted |-> {}])>> \o CreateKey(host, f, x, x))
      BY <2>5, <3>1, FineTuples
    <3> QED
      BY <3>1, <3>2, FineTuples DEF InitSteps
  <2>7. Intact(f, HeadFile) \/ ~Exists(f, HeadFile)
    BY <1>2 DEF Folds
  <2> QED
    BY <1>2, <2>1, <2>2, <2>6, <2>7, Results DEF Yields
<1> QED
  BY <1>1, <1>2

\* Build a changeset on HEAD, and admit or hold it.
LEMMA SubmitYields ==
  ASSUME NEW host, NEW empty, NEW f, NEW more, Reads(host, empty, f, more),
         NEW x \in Changeset, NEW done, done = SubmitFlow(host, f, x), Builds(done, more)
  PROVE  Yields(host, empty, f, more, done)
<1> DEFINE admits == AppendChangeset(x, NoEvidence)
           holds == <<Write(ProposalFile(x), x), Write(ProposalEvidenceFile(x), NoEvidence)>>
<1>1. \/ done = Failure(<<>>)
      \/ Loads(f) /\ done = Building(x, admits, <<"admitted", x>>)
      \/ Loads(f) /\ done = Building(x, holds, <<"held", x>>)
  BY DEF SubmitFlow
<1>2. x # None /\ NoEvidence # Torn
  BY ChangesetAssumption, Documents DEF NoEvidence
<1>3. ASSUME x \in more[x]
      PROVE  /\ FineSteps(Spots(host), more, empty, admits)
             /\ FineSteps(Spots(host), more, empty, holds)
  <2>1. /\ FineStep(Spots(host), more, empty, Write(ChangesetFile(x), x))
        /\ FineStep(Spots(host), more, empty, Write(EvidenceFile(x), NoEvidence))
        /\ FineStep(Spots(host), more, empty, Write(HeadFile, x))
        /\ FineStep(Spots(host), more, empty, Write(ProposalFile(x), x))
        /\ FineStep(Spots(host), more, empty, Write(ProposalEvidenceFile(x), NoEvidence))
    BY <1>2, <1>3, FineWrites, KeyPlaces
  <2> QED
    BY <2>1, FineTuples DEF AppendChangeset
<1> HIDE DEF admits, holds
<1>4. CASE done = Failure(<<>>)
  BY <1>4, YieldsSteps
<1>5. CASE Loads(f) /\ \E s, fact : s \in {admits, holds} /\ done = Building(x, s, fact)
  <2>1. PICK s, fact : s \in {admits, holds} /\ done = Building(x, s, fact)
    BY <1>5
  <2>2. done.steps = s /\ done.builds = x
    BY <2>1, Results
  <2>3. x \in more[x]
    BY <1>2, <2>2 DEF Builds
  <2> QED
    BY <1>3, <1>5, <2>1, <2>2, <2>3 DEF Yields, Loads, Folds
<1> QED
  BY <1>1, <1>4, <1>5

\* principal_add
LEMMA PrincipalYields ==
  ASSUME NEW host, NEW empty, NEW f, NEW more, Reads(host, empty, f, more),
         NEW x \in Adding, NEW done, done = PrincipalAddFlow(host, f, x), Builds(done, more)
  PROVE  Yields(host, empty, f, more, done)
<1>1. CASE lineage[x] # {} \/ ~Exists(f, GraphYaml)
  BY <1>1, YieldsSteps DEF PrincipalAddFlow
<1>2. CASE ~(lineage[x] # {} \/ ~Exists(f, GraphYaml))
  <2>1. PICK submitted : submitted = SubmitFlow(host, f, x)
    OBVIOUS
  <2>2. PICK b, s, fact :
          /\ b = submitted.builds
          /\ s = CreateKey(host, f, GraphId(f), x) \o submitted.steps
          /\ done = Building(b, s, fact)
    BY <1>2, <2>1 DEF PrincipalAddFlow
  <2>3. /\ done.builds = submitted.builds
        /\ done.steps = CreateKey(host, f, GraphId(f), x) \o submitted.steps
    <3>1. done = Building(b, s, fact)
      BY <2>2
    <3>2. done.builds = b /\ done.steps = s
      BY <3>1, Results
    <3> QED
      BY <2>2, <3>2
  <2>4. Yields(host, empty, f, more, submitted)
    <3>1. Builds(submitted, more)
      BY <2>3 DEF Builds
    <3> QED
      BY <2>1, <3>1, KeyPlaces, SubmitYields
  <2>5. FineSteps(Spots(host), more, empty, CreateKey(host, f, GraphId(f), x))
    BY CreateKeyIsFine, GraphIdIsFounding DEF Reads
  <2> QED
    BY <2>3, <2>4, <2>5, FineTuples DEF Yields
<1> QED
  BY <1>1, <1>2

\* decide: what is admitted is the proposal that was read.
LEMMA DecideYields ==
  ASSUME NEW host, NEW empty, NEW f, NEW more, Reads(host, empty, f, more),
         NEW x \in Changeset, NEW by, NEW verdict
  PROVE  Yields(host, empty, f, more, DecideFlow(f, x, by, verdict))
<1> DEFINE doc == WithDecision(f, x, <<by, verdict>>)
           records == <<Write(ProposalEvidenceFile(x), doc)>>
           admits == AdmitSteps(x, doc)
<1>1. \/ DecideFlow(f, x, by, verdict) = Failure(<<>>)
      \/ DecideFlow(f, x, by, verdict) = Outcome(records, <<verdict, x, by>>)
      \/ /\ Intact(f, ProposalFile(x))
         /\ DecideFlow(f, x, by, verdict) = Outcome(admits, <<verdict, x, by>>)
  BY DEF DecideFlow
<1>2. doc # Torn
  BY Documents DEF WithDecision
<1> HIDE DEF doc
<1>3. FineSteps(Spots(host), more, empty, records)
  <2>1. FineStep(Spots(host), more, empty, Write(ProposalEvidenceFile(x), doc))
    BY <1>2, FineWrites, KeyPlaces
  <2> QED
    BY <2>1, FineTuples
<1>4. ASSUME Intact(f, ProposalFile(x))
      PROVE  FineSteps(Spots(host), more, empty, admits)
  <2>1. x \in more[x]
    BY <1>4 DEF Reads, Docs, Fine, Proper, Grew, Intact
  <2>2. /\ FineStep(Spots(host), more, empty, Write(ChangesetFile(x), x))
        /\ FineStep(Spots(host), more, empty, Write(EvidenceFile(x), doc))
        /\ FineStep(Spots(host), more, empty, Write(HeadFile, x))
        /\ FineStep(Spots(host), more, empty, Erase(ProposalFile(x)))
        /\ FineStep(Spots(host), more, empty, Erase(ProposalEvidenceFile(x)))
    BY <1>2, <2>1, FineWrites, KeyPlaces
  <2>3. /\ FineSteps(Spots(host), more, empty, AppendChangeset(x, doc))
        /\ FineSteps(Spots(host), more, empty, RemoveProposal(x))
    BY <2>2, FineTuples DEF AppendChangeset, RemoveProposal
  <2> QED
    BY <2>3, FineTuples DEF AdmitSteps
<1> QED
  BY <1>1, <1>3, <1>4, YieldsSteps

\* envelope: what is written back for an empty file is as empty as it.
LEMMA AttestYields ==
  ASSUME NEW host, NEW empty, NEW f, NEW more, Reads(host, empty, f, more),
         NEW x \in Changeset, NEW by
  PROVE  Yields(host, empty, f, more, AttestFlow(host, f, x, by))
<1> DEFINE doc == WithEnvelope(f, x, by)
           s == <<Write(EvidenceFile(x), doc)>>
<1>1. \/ AttestFlow(host, f, x, by) = Failure(<<>>)
      \/ \E fact : AttestFlow(host, f, x, by) = Outcome(s, fact)
  BY DEF AttestFlow
<1>2. FineStep(Spots(host), more, empty, Write(EvidenceFile(x), doc))
  <2>1. CASE Exists(f, EvidenceFile(x)) /\ ~Intact(f, EvidenceFile(x))
    <3>1. doc = Torn /\ EvidenceFile(x) \in empty /\ EvidenceFile(x) \in Spots(host)
      BY <2>1 DEF WithEnvelope, Reads, Docs, Fine, Exists, Intact
    <3> QED
      BY <3>1 DEF FineStep, Fine, Write
  <2>2. CASE ~(Exists(f, EvidenceFile(x)) /\ ~Intact(f, EvidenceFile(x)))
    <3>1. doc # Torn
      BY <2>2, Documents DEF WithEnvelope, AddEnvelope
    <3> QED
      BY <3>1, FineWrites, KeyPlaces
  <2> QED
    BY <2>1, <2>2
<1> HIDE DEF doc
<1>3. FineSteps(Spots(host), more, empty, s)
  BY <1>2, FineTuples
<1> QED
  BY <1>1, <1>3, YieldsSteps

\* trust_measurement and checkpoint
LEMMA OtherYields ==
  ASSUME NEW host, NEW empty, NEW f, NEW more, Reads(host, empty, f, more), NEW m
  PROVE  /\ Yields(host, empty, f, more, TrustFlow(f, m))
         /\ Yields(host, empty, f, more, CheckpointFlow(host, f))
<1>1. Yields(host, empty, f, more, TrustFlow(f, m))
  <2> DEFINE doc == WithTrusted(f, m)
             s == <<Write(GraphYaml, doc)>>
  <2>1. \/ TrustFlow(f, m) = Failure(<<>>)
        \/ /\ Intact(f, GraphYaml)
           /\ \E fact : TrustFlow(f, m) = Outcome(s, fact)
    BY DEF TrustFlow
  <2>2. ASSUME Intact(f, GraphYaml) PROVE FineSteps(Spots(host), more, empty, s)
    <3>1. PICK g, t : g \in Founding /\ f[GraphYaml] = [id |-> g, trusted |-> t]
      BY <2>2 DEF Reads, Docs, Fine, Proper, Intact, GraphDoc
    <3>2. doc = [id |-> g, trusted |-> t \cup {m}]
      BY <3>1 DEF WithTrusted
    <3>3. GraphDoc(doc)
      BY <3>1, <3>2 DEF GraphDoc
    <3> HIDE DEF doc
    <3>4. FineStep(Spots(host), more, empty, Write(GraphYaml, doc))
      BY <3>3, FineWrites, KeyPlaces, ChangesetAssumption
    <3> QED
      BY <3>4, FineTuples
  <2> HIDE DEF s
  <2> QED
    BY <2>1, <2>2, YieldsSteps
<1>2. Yields(host, empty, f, more, CheckpointFlow(host, f))
  <2> DEFINE y == f[HeadFile]
             s == <<Write(CheckpointFile(y), y)>>
  <2>1. \/ CheckpointFlow(host, f) = Failure(<<>>)
        \/ Intact(f, HeadFile) /\ \E fact : CheckpointFlow(host, f) = Outcome(s, fact)
    BY DEF CheckpointFlow, Loads, Folds
  <2>2. ASSUME Intact(f, HeadFile) PROVE FineSteps(Spots(host), more, empty, s)
    <3>1. y \in Changeset /\ y # Torn
      BY <2>2 DEF Reads, Docs, Fine, Proper, Intact
    <3> HIDE DEF y
    <3>2. FineStep(Spots(host), more, empty, Write(CheckpointFile(y), y))
      BY <3>1, FineWrites, KeyPlaces
    <3> QED
      BY <3>2, FineTuples
  <2> HIDE DEF s
  <2> QED
    BY <2>1, <2>2, YieldsSteps
<1> QED
  BY <1>1, <1>2

\* allod key migrate: a key that is in the directory is of somebody named.
LEMMA MigrateYields ==
  ASSUME NEW empty, NEW f, NEW more, Reads("native", empty, f, more), NEW name
  PROVE  Yields("native", empty, f, more, MigrateFlow(f, name))
<1> DEFINE k == Write(UserKey(GraphId(f), name), f[StoreKey(name)])
           e == Erase(StoreKey(name))
<1>1. \/ MigrateFlow(f, name) = Failure(<<>>)
      \/ Intact(f, StoreKey(name)) /\ \E fact : MigrateFlow(f, name) = Outcome(<<k, e>>, fact)
  BY DEF MigrateFlow, MigrateSteps
<1>2. ASSUME Intact(f, StoreKey(name)) PROVE FineSteps(Spots("native"), more, empty, <<k, e>>)
  <2>1. name \in Range(NameOf) /\ f[StoreKey(name)] # Torn
    BY <1>2, KeyPlaces DEF Reads, Docs, Fine, Intact
  <2>2. UserKey(GraphId(f), name) \in Spots("native")
    BY <2>1, KeyPlaces, GraphIdIsFounding DEF Reads, Spots
  <2>3. UserKey(GraphId(f), name)[1] = "xdg"
    BY DEF UserKey
  <2>4. FineStep(Spots("native"), more, empty, k) /\ FineStep(Spots("native"), more, empty, e)
    BY <2>1, <2>2, <2>3, FineWrites, KeyPlaces, NamedFacts DEF Named
  <2> HIDE DEF k, e
  <2> QED
    BY <2>4, FineTuples
<1> HIDE DEF k, e
<1> QED
  BY <1>1, <1>2, YieldsSteps

\* So every flow of a host writes proper documents.
LEMMA FlowYields ==
  ASSUME NEW sc \in Scenarios, NEW r \in sc.requests, NEW empty, NEW f, NEW more,
         Reads(sc.host, empty, f, more),
         NEW done, done = Flow(sc.host, f, r), Builds(done, more)
  PROVE  Yields(sc.host, empty, f, more, done)
<1> DEFINE host == sc.host
           x == r.on
<1>1. /\ r.op = "init" => x \in Founding
      /\ r.op = "principal" => x \in Adding
      /\ r.op \in {"submit", "approve", "reject", "attest"} => x \in Changeset
      /\ host = "mirror" => r.op \in {"init", "submit", "principal", "approve", "reject"}
      /\ host \in {"native", "mirror"}
  BY ScenarioAssumption
<1> HIDE DEF host, x
<1>2. \/ r.op = "init" /\ done = InitFlow(host, f, x)
      \/ r.op = "submit" /\ done = SubmitFlow(host, f, x)
      \/ r.op = "principal" /\ done = PrincipalAddFlow(host, f, x)
      \/ r.op \in {"approve", "reject"} /\ done = DecideFlow(f, x, r.by, r.op)
      \/ r.op = "attest" /\ done = AttestFlow(host, f, x, r.by)
      \/ done = TrustFlow(f, x)
      \/ done = CheckpointFlow(host, f)
      \/ /\ r.op \notin {"init", "submit", "principal", "approve", "reject"}
         /\ done = MigrateFlow(f, x)
  BY DEF Flow, host, x
<1>3. Reads(host, empty, f, more)
  BY DEF host
<1>4. SUFFICES Yields(host, empty, f, more, done)
  BY DEF host
<1>5. CASE r.op = "init" /\ done = InitFlow(host, f, x)
  BY <1>1, <1>3, <1>5, InitYields
<1>6. CASE r.op = "submit" /\ done = SubmitFlow(host, f, x)
  BY <1>1, <1>3, <1>6, SubmitYields
<1>7. CASE r.op = "principal" /\ done = PrincipalAddFlow(host, f, x)
  BY <1>1, <1>3, <1>7, PrincipalYields
<1>8. CASE r.op \in {"approve", "reject"} /\ done = DecideFlow(f, x, r.by, r.op)
  BY <1>1, <1>3, <1>8, DecideYields
<1>9. CASE r.op = "attest" /\ done = AttestFlow(host, f, x, r.by)
  BY <1>1, <1>3, <1>9, AttestYields
<1>10. CASE done = TrustFlow(f, x) \/ done = CheckpointFlow(host, f)
  BY <1>3, <1>10, OtherYields
<1>11. CASE /\ r.op \notin {"init", "submit", "principal", "approve", "reject"}
            /\ done = MigrateFlow(f, x)
  BY <1>1, <1>3, <1>11, MigrateYields
<1> QED
  BY <1>2, <1>5, <1>6, <1>7, <1>8, <1>9, <1>10, <1>11

-----------------------------------------------------------------------------
\* The map of a mirror changes at once.

\* The maps after the first n steps.
Performs(f, s, n, after) ==
  after = [i \in 0..n |-> IF i = 0 THEN f ELSE Perform(after[i-1], s[i])]

\* Again by induction on the length.
LEMMA PerformsExists ==
  ASSUME NEW f, NEW s, NEW n \in Nat
  PROVE  \E after : Performs(f, s, n, after)
<1> DEFINE good == {m \in Nat : \E after : Performs(f, s, m, after)}
<1>1. 0 \in good
  <2>1. Performs(f, s, 0, [i \in 0..0 |-> f])
    BY DEF Performs
  <2> QED
    BY <2>1
<1>2. ASSUME NEW m \in 1..n, m - 1 \in good
      PROVE  m \in good
  <2>1. PICK after : Performs(f, s, m - 1, after)
    BY <1>2
  <2> DEFINE longer == [i \in 0..m |-> IF i = m THEN Perform(after[m-1], s[m]) ELSE after[i]]
  <2>2. ASSUME NEW i \in 0..m
        PROVE  longer[i] = IF i = 0 THEN f ELSE Perform(longer[i-1], s[i])
    <3>1. CASE i = m
      BY <3>1
    <3>2. CASE i # m
      <4>1. i \in 0..(m-1) /\ (i # 0 => i - 1 \in 0..(m-1) /\ i - 1 # m)
        BY <3>2
      <4>2. after[i] = IF i = 0 THEN f ELSE Perform(after[i-1], s[i])
        BY <2>1, <4>1 DEF Performs
      <4> QED
        BY <4>1, <4>2
    <3> QED
      BY <3>1, <3>2
  <2>3. Performs(f, s, m, longer)
    <3>1. longer = [i \in 0..m |-> longer[i]]
      OBVIOUS
    <3> HIDE DEF longer
    <3> QED
      BY <2>2, <3>1 DEF Performs
  <2> QED
    BY <2>3
<1>3. 0..n \subseteq good
  <2> HIDE DEF good
  <2> QED
    BY <1>1, <1>2, Induction
<1> QED
  BY <1>3

\* Proper steps on proper documents give proper documents.
LEMMA ApplyFine ==
  ASSUME NEW places, NEW lin, NEW empty, NEW f, Docs(places, lin, empty, f),
         NEW s, FineSteps(places, lin, empty, s)
  PROVE  Docs(places, lin, empty, Apply(f, s))
<1> DEFINE n == Len(s)
           after == CHOOSE g : Performs(f, s, n, g)
           T == {i \in Nat : Docs(places, lin, empty, after[i])}
<1>1. /\ n \in Nat /\ DOMAIN s = 1..n
      /\ \A i \in 1..n : FineStep(places, lin, empty, s[i])
  BY DEF FineSteps, IsSequence, Range
<1>2. Performs(f, s, n, after)
  BY <1>1, PerformsExists
<1>3. Apply(f, s) = after[n]
  BY DEF Apply, Performs
<1> HIDE DEF after
<1>4. after[0] = f /\ \A i \in 1..n : after[i] = Perform(after[i-1], s[i])
  BY <1>1, <1>2 DEF Performs
<1>5. 0 \in T
  BY <1>4
<1>6. ASSUME NEW i \in 1..n, i - 1 \in T PROVE i \in T
  <2>1. PICK g : g = after[i-1] /\ Docs(places, lin, empty, g)
    BY <1>6
  <2>2. FineStep(places, lin, empty, s[i]) /\ after[i] = Perform(g, s[i])
    BY <1>1, <1>4, <2>1
  <2>3. Docs(places, lin, empty, Perform(g, s[i]))
    BY <2>1, <2>2, PutFine, DropFine DEF Perform, FineStep
  <2> QED
    BY <1>1, <2>2, <2>3
<1>7. 0..n \subseteq T
  <2> HIDE DEF T, n
  <2> QED
    BY <1>1, <1>5, <1>6, Induction
<1> QED
  BY <1>1, <1>3, <1>7

-----------------------------------------------------------------------------
\* A changeset that is built descends from what was read.

LEMMA BuiltGrows ==
  ASSUME lineage \in [Changeset -> SUBSET Changeset],
         NEW host, NEW empty, NEW f, Docs(Spots(host), lineage, empty, f), NEW b,
         b \in Changeset \cup {None},
         b # None => Intact(f, HeadFile) \/ ~Exists(f, HeadFile),
         Built(f, b)
  PROVE  lineage' \in [Changeset -> SUBSET Changeset]
<1>1. CASE b = None
  BY <1>1 DEF Built
<1>2. CASE b # None
  <2>1. PICK below : /\ lineage' = [lineage EXCEPT ![b] = {b} \cup below]
                     /\ below = IF Exists(f, HeadFile) THEN lineage[f[HeadFile]] ELSE {}
    BY <1>2 DEF Built
  <2>2. Exists(f, HeadFile) => f[HeadFile] \in Changeset
    BY <1>2 DEF Docs, Fine, Proper, Intact, Exists
  <2>3. below \subseteq Changeset
    BY <2>1, <2>2
  <2> QED
    BY <1>2, <2>1, <2>3
<1> QED
  BY <1>1, <1>2

\* Whatever is built, sets of ancestors only grow, and it is its own ancestor.
LEMMA BuiltIsAncestor ==
  ASSUME lineage \in [Changeset -> SUBSET Changeset], NEW f, NEW done,
         Built(f, done.builds)
  PROVE  Grew(lineage, lineage') /\ Builds(done, lineage')
<1>1. PICK b : b = done.builds
  OBVIOUS
<1>2. CASE b = None
  BY <1>1, <1>2, ChangesetAssumption DEF Built, Grew, Builds
<1>3. CASE b # None
  <2>1. PICK below : lineage' = [lineage EXCEPT ![b] = {b} \cup below]
    BY <1>1, <1>3 DEF Built
  <2> QED
    BY <1>1, <2>1 DEF Grew, Builds
<1> QED
  BY <1>2, <1>3

-----------------------------------------------------------------------------
\* Native: the documents of the directory, and those that calls will write.

\* Which files are empty is said by AckInv.
Everywhere == Spots("native")

NativeDocs ==
  /\ lineage \in [Changeset -> SUBSET Changeset]
  /\ memory = NoFiles
  /\ Docs(Everywhere, lineage, Everywhere, files)
  /\ \A p \in Processes : FineSteps(Everywhere, lineage, Everywhere, call[p].steps)

\* The first step, and those that are left after it.
LEMMA FirstFine ==
  ASSUME NEW places, NEW lin, NEW empty, NEW s, FineSteps(places, lin, empty, s), s # <<>>
  PROVE  /\ FineStep(places, lin, empty, Head(s))
         /\ FineSteps(places, lin, empty, Tail(s))
         /\ IsSequence(Tail(s)) /\ Range(s) = {Head(s)} \cup Range(Tail(s))
         /\ Head(s) \in Range(s) /\ Range(Tail(s)) \subseteq Range(s)
<1>1. /\ Len(s) \in Nat \ {0} /\ DOMAIN s = 1..Len(s) /\ Head(s) = s[1]
      /\ IsSequence(Tail(s)) /\ DOMAIN Tail(s) = 1..(Len(s) - 1)
      /\ \A i \in DOMAIN Tail(s) : Tail(s)[i] = s[i + 1]
  BY Rest DEF FineSteps, IsSequence
<1>2. Range(s) = {Head(s)} \cup Range(Tail(s))
  <2>1. \A i \in DOMAIN s : i = 1 \/ (i - 1 \in DOMAIN Tail(s) /\ (i - 1) + 1 = i)
    BY <1>1
  <2>2. \A i \in DOMAIN Tail(s) : i + 1 \in DOMAIN s
    BY <1>1
  <2>3. 1 \in DOMAIN s
    BY <1>1
  <2> QED
    BY <1>1, <2>1, <2>2, <2>3 DEF Range
<1> QED
  BY <1>1, <1>2 DEF FineSteps

\* What a step writes is fine, if it may be empty where it is being written.
LEMMA StepWritesFine ==
  ASSUME NEW places, NEW lin, NEW empty, places \subseteq empty, Docs(places, lin, empty, files),
         NEW p \in Processes, FineSteps(places, lin, empty, call[p].steps), ~Idle(p),
         call[p].opened => Next1(p).verb = "write",
         Open(p) \/ Fill(p) \/ Unlink(p) \/ KeyExists(p) \/ Interrupt(p)
  PROVE  Docs(places, lin, empty, files')
<1>1. FineStep(places, lin, empty, Next1(p))
  BY FirstFine DEF Idle, Next1
<1>2. CASE Open(p)
  <2>1. Fine(places, lin, empty, Next1(p).path, Torn)
    BY <1>1, <1>2 DEF Open, FineStep, Fine
  <2> QED
    BY <1>2, <2>1, PutFine DEF Open
<1>3. CASE Fill(p)
  <2>1. Fine(places, lin, empty, Next1(p).path, Next1(p).text)
    BY <1>1, <1>3 DEF Fill, FineStep
  <2> QED
    BY <1>3, <2>1, PutFine DEF Fill
<1>4. CASE Unlink(p)
  BY <1>4, DropFine DEF Unlink
<1>5. CASE KeyExists(p) \/ Interrupt(p)
  BY <1>5 DEF KeyExists, Interrupt
<1> QED
  BY <1>2, <1>3, <1>4, <1>5

\* What is left of a call is what was there.
LEMMA StepLeavesFine ==
  ASSUME NEW places, NEW lin, NEW empty, NEW p \in Processes,
         call = [q \in Processes |-> call[q]],
         FineSteps(places, lin, empty, call[p].steps), ~Idle(p),
         Open(p) \/ Fill(p) \/ Unlink(p) \/ KeyExists(p) \/ Interrupt(p)
  PROVE  /\ call' = [call EXCEPT ![p] = call'[p]]
         /\ FineSteps(places, lin, empty, call'[p].steps)
<1> DEFINE rest == Tail(call[p].steps)
<1>1. Returned.steps = <<>>
  BY DEF Doing, Returned
<1>2. FineSteps(places, lin, empty, rest) /\ FineSteps(places, lin, empty, <<>>)
  BY FirstFine, FineTuples DEF Idle
<1>3. PICK c : call' = [call EXCEPT ![p] = c] /\ c.steps \in {call[p].steps, rest, <<>>}
  <2>1. CASE Open(p)
    <3>1. call' = [call EXCEPT ![p] = Doing(call[p].steps, TRUE, call[p].reports,
                                            call[p].paths)]
      BY <2>1 DEF Open
    <3>2. PICK c : c = Doing(call[p].steps, TRUE, call[p].reports, call[p].paths)
      OBVIOUS
    <3>3. c.steps = call[p].steps
      BY <3>2 DEF Doing
    <3> QED
      BY <3>1, <3>2, <3>3
  <2>2. CASE KeyExists(p) \/ Interrupt(p)
    BY <1>1, <2>2 DEF KeyExists, Interrupt
  <2>3. CASE Fill(p) \/ Unlink(p)
    <3>1. call' = [call EXCEPT ![p] =
                     IF rest = <<>> THEN Returned
                     ELSE Doing(rest, FALSE, call[p].reports, call[p].paths)]
      BY <2>3 DEF Fill, Unlink, Advance
    <3>2. CASE rest = <<>>
      BY <1>1, <3>1, <3>2
    <3>3. CASE rest # <<>>
      <4>1. call' = [call EXCEPT ![p] = Doing(rest, FALSE, call[p].reports, call[p].paths)]
        BY <3>1, <3>3
      <4> HIDE DEF rest
      <4>2. PICK c : c = Doing(rest, FALSE, call[p].reports, call[p].paths)
        OBVIOUS
      <4>3. c.steps = rest
        BY <4>2 DEF Doing
      <4> QED
        BY <4>1, <4>2, <4>3
    <3> QED
      BY <3>2, <3>3
  <2> QED
    BY <2>1, <2>2, <2>3
<1>4. call'[p] = c
  BY <1>3
<1> QED
  BY <1>2, <1>3, <1>4

\* So files stay proper, and calls go on to write proper documents.
LEMMA StepKeepsDocs ==
  ASSUME AckInv, NativeDocs, scenario.host = "native", NEW p \in Processes,
         (Step(p) \/ Interrupt(p))
  PROVE  NativeDocs'
<1>1. /\ ~Idle(p)
      /\ Open(p) \/ Fill(p) \/ Unlink(p) \/ KeyExists(p) \/ Interrupt(p)
      /\ UNCHANGED <<memory, lineage>>
  BY DEF Step, Interrupt, Open, Fill, Unlink, KeyExists
<1>2. /\ call = [q \in Processes |-> call[q]]
      /\ call[p].opened => Next1(p).verb = "write"
  BY DEF AckInv, KeyInv, StoreInv, Calls, Next1
<1>3. Docs(Everywhere, lineage, Everywhere, files')
  BY <1>1, <1>2, StepWritesFine DEF NativeDocs
<1>4. \A q \in Processes : FineSteps(Everywhere, lineage, Everywhere, call'[q].steps)
  <2>1. /\ call' = [call EXCEPT ![p] = call'[p]]
        /\ FineSteps(Everywhere, lineage, Everywhere, call'[p].steps)
    BY <1>1, <1>2, StepLeavesFine DEF NativeDocs
  <2>2. PICK c : call' = [call EXCEPT ![p] = c] /\ c = call'[p]
    BY <2>1
  <2>3. \A q \in Processes : q # p => call'[q] = call[q]
    BY <1>2, <2>2
  <2> QED
    BY <2>1, <2>3 DEF NativeDocs
<1> QED
  BY <1>1, <1>3, <1>4 DEF NativeDocs

\* A new call builds on HEAD and will write proper documents.
LEMMA CallKeepsDocs ==
  ASSUME AckInv, NativeDocs, scenario \in Scenarios,
         NEW p \in Processes, NEW r \in scenario.requests, NativeCall(p, r)
  PROVE  NativeDocs'
<1>1. PICK done :
        /\ done = Flow("native", files, r) /\ scenario.host = "native"
        /\ call' = [call EXCEPT ![p] = Doing(done.steps, FALSE, done.reports,
                                            Paths(done.steps))]
        /\ Built(files, done.builds)
        /\ UNCHANGED <<files, memory>>
  BY DEF NativeCall
<1>2. Grew(lineage, lineage') /\ Builds(done, lineage')
  BY <1>1, BuiltIsAncestor DEF NativeDocs
<1>3. Reads("native", Everywhere, files, lineage')
  BY <1>2 DEF Reads, NativeDocs, Everywhere
<1>4. Yields("native", Everywhere, files, lineage', done)
  BY <1>1, <1>2, <1>3, FlowYields
<1>5. lineage' \in [Changeset -> SUBSET Changeset]
  BY <1>1, <1>4, BuiltGrows DEF Yields, NativeDocs, Everywhere
<1>6. Docs(Everywhere, lineage', Everywhere, files')
  BY <1>1, <1>2, FineAnyway DEF NativeDocs
<1>7. ASSUME NEW q \in Processes
      PROVE  FineSteps(Everywhere, lineage', Everywhere, call'[q].steps)
  <2>1. CASE q # p
    <3>1. call'[q] = call[q]
      BY <1>1, <2>1 DEF AckInv, KeyInv, StoreInv
    <3> QED
      BY <1>2, <3>1, FineAnyway DEF NativeDocs
  <2>2. CASE q = p
    <3>1. call'[q].steps = done.steps
      BY <1>1, <2>2 DEF AckInv, KeyInv, StoreInv, Doing
    <3> QED
      BY <1>4, <3>1 DEF Yields, Everywhere
  <2> QED
    BY <2>1, <2>2
<1> QED
  BY <1>1, <1>5, <1>6, <1>7 DEF NativeDocs

-----------------------------------------------------------------------------
\* Mirror: the directory is what the map was, and is made what the map is.

\* The map and the directory do not agree on a path.
Differs(map, dir, path) ==
  \/ path \in DOMAIN dir /\ path \notin DOMAIN map
  \/ path \in DOMAIN map /\ path \notin DOMAIN dir
  \/ path \in DOMAIN dir /\ path \in DOMAIN map /\ dir[path] # map[path]

\* A step of persist: it makes them agree.
Agrees(map, step) ==
  \/ step.verb = "write" /\ step.path \in DOMAIN map /\ step.text = map[step.path]
  \/ step.verb = "remove" /\ step.path \notin DOMAIN map

\* The steps that are left are such, and enough.
Persists(map, dir, s) ==
  /\ IsSequence(s) /\ \A step \in Range(s) : Agrees(map, step)
  /\ s # <<>> =>
       \A path : Differs(map, dir, path) => \E step \in Range(s) : step.path = path

\* The file that a call has open.
OpenIn(c) == IF c.opened THEN {Head(c.steps).path} ELSE {}

\* One call at a time is mirrored.  Until it is, the directory is behind; and
\* no file of the map is empty but for those that were left empty.
MirrorInv ==
  /\ call = [p \in Processes |-> call[p]]
  /\ lineage \in [Changeset -> SUBSET Changeset]
  /\ Docs(Places, lineage, torn, memory)
  /\ Docs(Places, lineage, torn \cup Opened, files)
  /\ \A p, q \in Processes : Idle(p) \/ Idle(q) \/ p = q
  /\ \A p \in Processes : \A c : c = call[p] =>
       /\ Persists(memory, files, c.steps)
       /\ c.opened => c.steps # <<>> /\ Head(c.steps).verb = "write"
       /\ c.steps # <<>> => behind
  /\ ~behind => files = memory

\* What is to be shown of a step of the only call there is.
LEMMA OnlyCall ==
  ASSUME MirrorInv, NEW p \in Processes, NEW c, call' = [call EXCEPT ![p] = c],
         \A q \in Processes : q # p => Idle(q),
         Persists(memory', files', c.steps), c.opened => c.steps # <<>> /\ Head(c.steps).verb = "write",
         c.steps # <<>> => behind', ~behind' => files' = memory',
         lineage' \in [Changeset -> SUBSET Changeset],
         Docs(Places, lineage', torn', memory'),
         Docs(Places, lineage', torn' \cup OpenIn(c), files')
  PROVE  MirrorInv'
<1>1. call'[p] = c /\ \A q \in Processes : q # p => call'[q] = call[q]
  BY DEF MirrorInv
<1>2. call' = [q \in Processes |-> call'[q]]
  BY DEF MirrorInv
<1>3. OpenIn(c) \subseteq Opened'
  <2>1. SUFFICES ASSUME c.opened PROVE Head(c.steps).path \in Opened'
    BY DEF OpenIn
  <2>2. LeftEmpty(p)' = {Head(c.steps).path}
    BY <1>1, <2>1 DEF LeftEmpty, Next1
  <2>3. p \in Running'
    BY <1>1, <2>1 DEF Running, Idle
  <2> QED
    BY <2>2, <2>3 DEF Opened
<1>4. Docs(Places, lineage', torn' \cup Opened', files')
  <2>1. Grew(lineage', lineage')
    BY DEF Grew
  <2> QED
    BY <1>3, <2>1, FineAnyway
<1>5. \A q \in Processes : q # p => call'[q].steps = <<>>
  BY <1>1 DEF Idle
<1>6. \A q, r \in Processes : Idle(q)' \/ Idle(r)' \/ q = r
  BY <1>5 DEF Idle
<1>7. Persists(memory', files', <<>>)
  <2>1. IsSequence(<<>>) /\ Range(<<>>) = {}
    BY DEF IsSequence, Range
  <2> QED
    BY <2>1 DEF Persists
<1>8. ASSUME NEW q \in Processes, NEW d, d = call'[q]
      PROVE  /\ Persists(memory', files', d.steps)
             /\ d.opened => d.steps # <<>> /\ Head(d.steps).verb = "write"
             /\ d.steps # <<>> => behind'
  <2>1. CASE q = p
    BY <1>1, <1>8, <2>1
  <2>2. CASE q # p
    <3>1. d.steps = <<>> /\ d = call[q]
      BY <1>1, <1>5, <1>8, <2>2
    <3>2. d.opened => FALSE
      BY <3>1 DEF MirrorInv
    <3> QED
      BY <1>7, <3>1, <3>2
  <2> QED
    BY <2>1, <2>2
<1> QED
  BY <1>2, <1>4, <1>6, <1>8 DEF MirrorInv

\* What is known before a step of the call of p.
LEMMA OneCall ==
  ASSUME MirrorInv, NEW p \in Processes, ~Idle(p)
  PROVE  /\ \A q \in Processes : q # p => Idle(q)
         /\ behind /\ call[p].steps # <<>> /\ Persists(memory, files, call[p].steps)
         /\ FineSteps(Places, lineage, torn, call[p].steps)
         /\ Opened \subseteq OpenIn(call[p])
         /\ call[p].opened => Next1(p).verb = "write"
<1>1. /\ \A q \in Processes : q # p => Idle(q)
      /\ behind /\ call[p].steps # <<>> /\ Persists(memory, files, call[p].steps)
      /\ call[p].opened => Next1(p).verb = "write"
  BY DEF MirrorInv, Idle, Next1
<1>2. \A step : Agrees(memory, step) => FineStep(Places, lineage, torn, step)
  BY DEF MirrorInv, Docs, Agrees, FineStep
<1>3. FineSteps(Places, lineage, torn, call[p].steps)
  BY <1>1, <1>2 DEF Persists, FineSteps
<1>4. Opened \subseteq OpenIn(call[p])
  <2>1. \A q \in Running : q = p
    BY <1>1 DEF Running
  <2> QED
    BY <2>1 DEF Opened, LeftEmpty, OpenIn, Next1
<1> QED
  BY <1>1, <1>3, <1>4

\* When the first step is done, the others are enough; if there are none, the
\* directory is the map.
LEMMA StepAgrees ==
  ASSUME MirrorInv, NEW p \in Processes, ~Idle(p), UNCHANGED memory,
         NEW rest, rest = Tail(call[p].steps), NEW step, step = Next1(p),
         \/ step.verb = "write" /\ files' = Put(files, step.path, step.text)
         \/ step.verb = "remove" /\ files' = Drop(files, step.path)
  PROVE  /\ Persists(memory', files', rest)
         /\ rest = <<>> => files' = memory
         /\ step.verb = "write" => Fine(Places, lineage, torn, step.path, step.text)
<1>1. /\ Persists(memory, files, call[p].steps) /\ call[p].steps # <<>>
      /\ FineSteps(Places, lineage, torn, call[p].steps)
  BY OneCall
<1>2. /\ IsSequence(rest) /\ Range(call[p].steps) = {step} \cup Range(rest)
      /\ FineStep(Places, lineage, torn, step)
  BY <1>1, FirstFine DEF Next1
<1>3. Agrees(memory, step)
  BY <1>1, <1>2 DEF Persists
<1>4. \A path : Differs(memory', files', path) => Differs(memory, files, path) /\ path # step.path
  <2>1. CASE step.verb = "write" /\ files' = Put(files, step.path, step.text)
    BY <1>3, <2>1 DEF Differs, Put, Agrees
  <2>2. CASE step.verb = "remove" /\ files' = Drop(files, step.path)
    BY <1>3, <2>2 DEF Differs, Drop, Agrees
  <2> QED
    BY <2>1, <2>2
<1>5. \A path : Differs(memory', files', path) => \E t \in Range(rest) : t.path = path
  BY <1>1, <1>2, <1>4 DEF Persists
<1>6. \A t \in Range(rest) : Agrees(memory', t)
  BY <1>1, <1>2 DEF Persists, Agrees
<1>7. ASSUME rest = <<>> PROVE files' = memory
  <2>1. \A path : ~Differs(memory', files', path)
    <3>1. Range(<<>>) = {}
      BY DEF Range
    <3> QED
      BY <1>5, <1>7, <3>1
  <2>2. DOMAIN files' = DOMAIN memory /\ \A path \in DOMAIN memory : files'[path] = memory[path]
    BY <2>1 DEF Differs
  <2>3. files' = [path \in DOMAIN files' |-> files'[path]]
    BY DEF Put, Drop
  <2>4. memory = [path \in DOMAIN memory |-> memory[path]]
    BY DEF MirrorInv, Docs
  <2> QED
    BY <2>2, <2>3, <2>4
<1>8. step.verb = "write" => Fine(Places, lineage, torn, step.path, step.text)
  BY <1>2 DEF FineStep
<1> QED
  BY <1>2, <1>5, <1>6, <1>7, <1>8 DEF Persists

\* The file is opened.
LEMMA OpenMirrors ==
  ASSUME MirrorInv, NEW p \in Processes, ~Idle(p), Open(p)
  PROVE  MirrorInv'
<1>1. PICK c : c = Doing(call[p].steps, TRUE, call[p].reports, call[p].paths)
  OBVIOUS
<1>2. c.steps = call[p].steps /\ c.opened = TRUE
  BY <1>1 DEF Doing
<1>3. /\ call' = [call EXCEPT ![p] = c] /\ ~call[p].opened
      /\ UNCHANGED <<memory, lineage, torn, behind>>
      /\ Next1(p).verb = "write" /\ files' = Put(files, Next1(p).path, Torn)
  BY <1>1 DEF Open
<1>4. /\ \A q \in Processes : q # p => Idle(q)
      /\ behind /\ c.steps # <<>> /\ Persists(memory, files, c.steps)
      /\ FineSteps(Places, lineage, torn, c.steps) /\ Opened \subseteq {}
  BY <1>2, <1>3, OneCall DEF OpenIn
<1>5. PICK path : path = Next1(p).path /\ path = Head(c.steps).path
  BY <1>2 DEF Next1
<1>6. Head(c.steps) \in Range(c.steps) /\ FineStep(Places, lineage, torn, Head(c.steps))
  BY <1>4, FirstFine
<1>7. Persists(memory', files', c.steps)
  <2>1. \A other : Differs(memory', files', other) => Differs(memory, files, other) \/ other = path
    BY <1>3, <1>5 DEF Differs, Put
  <2>2. \A step \in Range(c.steps) : Agrees(memory', step)
    BY <1>3, <1>4 DEF Persists, Agrees
  <2> QED
    BY <1>4, <1>5, <1>6, <2>1, <2>2 DEF Persists
<1>8. Docs(Places, lineage, torn \cup {path}, files')
  <2>1. Docs(Places, lineage, torn \cup {path}, files)
    <3>1. Grew(lineage, lineage)
      BY DEF Grew
    <3> QED
      BY <1>4, <3>1, FineAnyway DEF MirrorInv
  <2>2. Fine(Places, lineage, torn \cup {path}, path, Torn)
    BY <1>2, <1>3, <1>5, <1>6 DEF FineStep, Fine, Next1
  <2> QED
    BY <1>3, <1>5, <2>1, <2>2, PutFine
<1>9. OpenIn(c) = {path}
  BY <1>2, <1>5 DEF OpenIn
<1>10. Head(c.steps).verb = "write"
  BY <1>2, <1>3 DEF Next1
<1> QED
  BY <1>3, <1>4, <1>7, <1>8, <1>9, <1>10, OnlyCall DEF MirrorInv

\* The file is filled, or unlinked.
LEMMA WriteMirrors ==
  ASSUME MirrorInv, NEW p \in Processes, ~Idle(p), Fill(p) \/ Unlink(p)
  PROVE  MirrorInv'
<1>1. PICK rest, step : rest = Tail(call[p].steps) /\ step = Next1(p)
  OBVIOUS
<1>2. /\ \A q \in Processes : q # p => Idle(q)
      /\ behind /\ Opened \subseteq OpenIn(call[p])
      /\ call[p].opened => step.verb = "write"
  BY <1>1, OneCall
<1>3. PICK c : c = IF rest = <<>> THEN Returned
                   ELSE Doing(rest, FALSE, call[p].reports, call[p].paths)
  OBVIOUS
<1>4. c.steps = rest /\ c.opened = FALSE
  BY <1>3 DEF Returned, Doing
<1>5. /\ call' = [call EXCEPT ![p] = c] /\ behind' = (behind /\ rest # <<>>)
      /\ UNCHANGED <<memory, lineage, torn>>
      /\ \/ step.verb = "write" /\ files' = Put(files, step.path, step.text)
         \/ step.verb = "remove" /\ files' = Drop(files, step.path)
  BY <1>1, <1>2, <1>3 DEF Fill, Unlink, Advance
<1>6. /\ Persists(memory', files', rest)
      /\ rest = <<>> => files' = memory
      /\ step.verb = "write" => Fine(Places, lineage, torn, step.path, step.text)
  BY <1>1, <1>5, StepAgrees
<1>7. Docs(Places, lineage, torn, files')
  <2>1. \A other \in DOMAIN files : other \in torn \/ files[other] # Torn \/ other = step.path
    BY <1>1, <1>2 DEF MirrorInv, Docs, Fine, OpenIn, Next1
  <2>2. CASE step.verb = "write" /\ files' = Put(files, step.path, step.text)
    <3>1. \A other \in DOMAIN files : other # step.path
            => Fine(Places, lineage, torn, other, files[other])
      BY <2>1 DEF MirrorInv, Docs, Fine
    <3> QED
      BY <1>6, <2>2, <3>1 DEF Docs, Put
  <2>3. CASE step.verb = "remove" /\ files' = Drop(files, step.path)
    <3>1. \A other \in DOMAIN files : other # step.path
            => Fine(Places, lineage, torn, other, files[other])
      BY <2>1 DEF MirrorInv, Docs, Fine
    <3> QED
      BY <2>3, <3>1 DEF Docs, Drop
  <2> QED
    BY <1>5, <2>2, <2>3
<1>8. OpenIn(c) = {} /\ torn \cup {} = torn
  BY <1>4 DEF OpenIn
<1> QED
  BY <1>2, <1>4, <1>5, <1>6, <1>7, <1>8, OnlyCall DEF MirrorInv

\* The call fails, or the write does: the directory stays behind.
LEMMA StopMirrors ==
  ASSUME MirrorInv, NEW p \in Processes, ~Idle(p), KeyExists(p) \/ Interrupt(p)
  PROVE  MirrorInv'
<1>1. PICK c : c = Returned
  OBVIOUS
<1>2. c.steps = <<>> /\ c.opened = FALSE
  BY <1>1 DEF Returned, Doing
<1>3. /\ \A q \in Processes : q # p => Idle(q)
      /\ behind /\ Opened \subseteq OpenIn(call[p])
  BY OneCall
<1>4. /\ call' = [call EXCEPT ![p] = c] /\ UNCHANGED <<files, memory, lineage, behind>>
      /\ torn \subseteq torn' /\ OpenIn(call[p]) \subseteq torn'
  BY <1>1 DEF KeyExists, Interrupt, LeftEmpty, OpenIn, Next1
<1>5. Grew(lineage, lineage)
  BY DEF Grew
<1>6. Docs(Places, lineage, torn', memory)
  BY <1>4, <1>5, FineAnyway DEF MirrorInv
<1>7. Docs(Places, lineage, torn' \cup OpenIn(c), files)
  <2>1. torn \cup Opened \subseteq torn' \cup OpenIn(c)
    BY <1>3, <1>4
  <2> QED
    BY <1>5, <2>1, FineAnyway DEF MirrorInv
<1>8. Persists(memory', files', c.steps)
  <2>1. IsSequence(<<>>) /\ Range(<<>>) = {}
    BY DEF IsSequence, Range
  <2> QED
    BY <1>2, <2>1 DEF Persists
<1> QED
  BY <1>2, <1>3, <1>4, <1>6, <1>7, <1>8, OnlyCall DEF MirrorInv

\* What persist is given to do makes the directory what the map is.
LEMMA MirrorPersists ==
  ASSUME NEW map, NEW dir, NEW s, s = Mirror(map, dir),
         DOMAIN map \subseteq Places, DOMAIN dir \subseteq Places
  PROVE  Persists(map, dir, s)
<1> DEFINE held == Listed(DOMAIN map)
           stray == Listed(DOMAIN dir \ DOMAIN map)
           writes == [i \in DOMAIN held |-> Write(held[i], map[held[i]])]
           erases == [i \in DOMAIN stray |-> Erase(stray[i])]
<1>1. /\ IsSequence(held) /\ Range(held) = DOMAIN map
      /\ IsSequence(stray) /\ Range(stray) = DOMAIN dir \ DOMAIN map
  BY ListedIsRight
<1>2. s = writes \o erases
  BY DEF Mirror
<1> HIDE DEF held, stray
<1>3. IsSequence(writes) /\ Range(writes) = {Write(path, map[path]) : path \in DOMAIN map}
  <2>1. Len(held) \in Nat /\ DOMAIN held = 1..Len(held)
    BY <1>1 DEF IsSequence
  <2>2. writes = [i \in 1..Len(held) |-> writes[i]]
    BY <2>1
  <2>3. \A i \in 1..Len(held) : writes[i] = Write(held[i], map[held[i]])
    BY <2>1
  <2>4. Range(held) = {held[i] : i \in 1..Len(held)}
    BY <2>1 DEF Range
  <2> HIDE DEF writes
  <2>5. IsSequence(writes) /\ Range(writes) = {writes[i] : i \in 1..Len(held)}
    BY <2>1, <2>2, Tabled
  <2> QED
    BY <1>1, <2>3, <2>4, <2>5
<1>4. IsSequence(erases) /\ Range(erases) = {Erase(path) : path \in DOMAIN dir \ DOMAIN map}
  <2>1. Len(stray) \in Nat /\ DOMAIN stray = 1..Len(stray)
    BY <1>1 DEF IsSequence
  <2>2. erases = [i \in 1..Len(stray) |-> erases[i]]
    BY <2>1
  <2>3. \A i \in 1..Len(stray) : erases[i] = Erase(stray[i])
    BY <2>1
  <2>4. Range(stray) = {stray[i] : i \in 1..Len(stray)}
    BY <2>1 DEF Range
  <2> HIDE DEF erases
  <2>5. IsSequence(erases) /\ Range(erases) = {erases[i] : i \in 1..Len(stray)}
    BY <2>1, <2>2, Tabled
  <2> QED
    BY <1>1, <2>3, <2>4, <2>5
<1> HIDE DEF writes, erases
<1>5. /\ IsSequence(s)
      /\ Range(s) = {Write(path, map[path]) : path \in DOMAIN map}
                    \cup {Erase(path) : path \in DOMAIN dir \ DOMAIN map}
  BY <1>2, <1>3, <1>4, Joined
<1>6. \A path, text : /\ Write(path, text).verb = "write" /\ Write(path, text).path = path
                      /\ Write(path, text).text = text
                      /\ Erase(path).verb = "remove" /\ Erase(path).path = path
  BY DEF Write, Erase
<1>7. ASSUME NEW step \in Range(s) PROVE Agrees(map, step)
  <2>1. CASE \E path \in DOMAIN map : step = Write(path, map[path])
    BY <1>6, <2>1 DEF Agrees
  <2>2. CASE \E path \in DOMAIN dir \ DOMAIN map : step = Erase(path)
    BY <1>6, <2>2 DEF Agrees
  <2> QED
    BY <1>5, <1>7, <2>1, <2>2
<1>8. ASSUME NEW path, Differs(map, dir, path) PROVE \E step \in Range(s) : step.path = path
  <2>1. CASE path \in DOMAIN map
    <3>1. Write(path, map[path]) \in Range(s)
      BY <1>5, <2>1
    <3> QED
      BY <1>6, <3>1
  <2>2. CASE path \notin DOMAIN map
    <3>1. path \in DOMAIN dir \ DOMAIN map
      BY <1>8, <2>2 DEF Differs
    <3>2. Erase(path) \in Range(s)
      BY <1>5, <3>1
    <3> QED
      BY <1>6, <3>2
  <2> QED
    BY <2>1, <2>2
<1> QED
  BY <1>5, <1>7, <1>8 DEF Persists

\* A call changes the map, and the whole of it is then to be mirrored.
LEMMA CallMirrors ==
  ASSUME MirrorInv, scenario \in Scenarios,
         NEW p \in Processes, NEW r \in scenario.requests, MirrorCall(p, r)
  PROVE  MirrorInv'
<1>1. PICK done :
        /\ done = Flow("mirror", memory, r) /\ scenario.host = "mirror"
        /\ Running = {} /\ behind' = TRUE
        /\ memory' = Apply(memory, done.steps)
        /\ call' = IF done.reports = None THEN call
                   ELSE [call EXCEPT ![p] = Doing(Mirror(memory', files), FALSE,
                                                  done.reports, {})]
        /\ Built(memory, done.builds)
        /\ UNCHANGED <<files, torn>>
  BY DEF MirrorCall
<1>2. Grew(lineage, lineage') /\ Builds(done, lineage')
  BY <1>1, BuiltIsAncestor DEF MirrorInv
<1>3. Spots("mirror") = Places
  BY DEF Spots
<1>4. Reads("mirror", torn, memory, lineage')
  BY <1>2, <1>3 DEF Reads, MirrorInv
<1>5. Yields("mirror", torn, memory, lineage', done)
  BY <1>1, <1>2, <1>4, FlowYields
<1>6. lineage' \in [Changeset -> SUBSET Changeset]
  BY <1>1, <1>3, <1>5, BuiltGrows DEF Yields, MirrorInv
<1>7. Docs(Places, lineage', torn, memory')
  <2>1. Docs(Places, lineage', torn, memory)
    BY <1>2, FineAnyway DEF MirrorInv
  <2>2. FineSteps(Places, lineage', torn, done.steps)
    BY <1>3, <1>5 DEF Yields
  <2> QED
    BY <1>1, <2>1, <2>2, ApplyFine
<1>8. Opened = {} /\ \A q \in Processes : Idle(q)
  BY <1>1 DEF Opened, Running
<1>9. Docs(Places, lineage', torn, files')
  <2>1. Docs(Places, lineage, torn, files)
    BY <1>8 DEF MirrorInv
  <2> QED
    BY <1>1, <1>2, <2>1, FineAnyway
<1>10. PICK c : c = IF done.reports = None THEN call[p]
                    ELSE Doing(Mirror(memory', files), FALSE, done.reports, {})
  OBVIOUS
<1>11. call' = [call EXCEPT ![p] = c]
  BY <1>1, <1>10 DEF MirrorInv
<1>12. c.steps = <<>> \/ c.steps = Mirror(memory', files')
  BY <1>1, <1>8, <1>10 DEF Doing, Idle
<1>13. Persists(memory', files', c.steps)
  <2>1. CASE c.steps = <<>>
    <3>1. IsSequence(<<>>) /\ Range(<<>>) = {}
      BY DEF IsSequence, Range
    <3> QED
      BY <2>1, <3>1 DEF Persists
  <2>2. CASE c.steps = Mirror(memory', files')
    <3>1. DOMAIN memory' \subseteq Places /\ DOMAIN files' \subseteq Places
      BY <1>7, <1>9 DEF Docs, Fine
    <3> QED
      BY <2>2, <3>1, MirrorPersists
  <2> QED
    BY <1>12, <2>1, <2>2
<1>14. ~c.opened
  <2>1. ~call[p].opened
    BY <1>8 DEF MirrorInv, Idle
  <2> QED
    BY <1>10, <2>1 DEF Doing
<1>15. OpenIn(c) = {} /\ torn' \cup OpenIn(c) = torn /\ torn' = torn
  BY <1>1, <1>14 DEF OpenIn
<1>16. Docs(Places, lineage', torn', memory')
  BY <1>7, <1>15
<1>17. Docs(Places, lineage', torn' \cup OpenIn(c), files')
  BY <1>9, <1>15
<1>18. \A q \in Processes : q # p => Idle(q)
  BY <1>8
<1> QED
  BY <1>1, <1>6, <1>11, <1>13, <1>14, <1>16, <1>17, <1>18, OnlyCall

\* The host stops, and starts again with what the directory holds.
LEMMA ReloadMirrors ==
  ASSUME MirrorInv, Reload
  PROVE  MirrorInv'
<1>1. /\ memory' = files /\ call' = [p \in Processes |-> Returned] /\ behind' = FALSE
      /\ torn \subseteq torn' /\ Opened \subseteq torn' /\ UNCHANGED <<files, lineage>>
  BY DEF Reload, Opened
<1>2. PICK c : c = Returned
  OBVIOUS
<1>3. c.steps = <<>> /\ c.opened = FALSE
  BY <1>2 DEF Returned, Doing
<1>4. \A p \in Processes : call'[p] = c
  BY <1>1, <1>2
<1>5. \A p \in Processes : Idle(p)'
  BY <1>3, <1>4 DEF Idle
<1>6. Docs(Places, lineage, torn', files) /\ Docs(Places, lineage, torn' \cup Opened', files)
  <2>1. Grew(lineage, lineage) /\ torn \cup Opened \subseteq torn'
        /\ torn \cup Opened \subseteq torn' \cup Opened'
    BY <1>1 DEF Grew
  <2> QED
    BY <2>1, FineAnyway DEF MirrorInv
<1>7. Persists(memory', files', <<>>)
  <2>1. IsSequence(<<>>) /\ Range(<<>>) = {}
    BY DEF IsSequence, Range
  <2> QED
    BY <2>1 DEF Persists
<1>8. call' = [p \in Processes |-> call'[p]]
  BY <1>1
<1> QED
  BY <1>1, <1>3, <1>4, <1>5, <1>6, <1>7, <1>8 DEF MirrorInv

-----------------------------------------------------------------------------
\* The invariant, and what it comes to.

TypeInv ==
  /\ scenario \in Scenarios /\ faults \in 0..scenario.faults
  /\ scenario.host = "native" => NativeDocs
  /\ scenario.host = "mirror" => MirrorInv

\* The documents of a directory that is fresh, or holds a graph.
LEMMA InitTypes == Init => TypeInv
<1> SUFFICES ASSUME Init PROVE TypeInv
  OBVIOUS
<1>1. /\ scenario \in Scenarios /\ scenario.faults \in Nat
      /\ files = IF scenario.start = "fresh" THEN NoFiles ELSE Graph0
      /\ memory = IF scenario.host = "mirror" THEN files ELSE NoFiles
      /\ call = [p \in Processes |-> Returned]
      /\ lineage = [x \in Changeset |-> IF scenario.start = "fresh" THEN {}
                                        ELSE {x} \cap {Genesis}]
      /\ torn = {} /\ behind = FALSE /\ faults = 0
  BY ScenarioAssumption DEF Init
<1>2. PICK c : c = Returned
  OBVIOUS
<1>3. c.steps = <<>> /\ c.opened = FALSE
  BY <1>2 DEF Returned, Doing
<1>4. \A p \in Processes : call[p] = c
  BY <1>1, <1>2
<1>5. lineage \in [Changeset -> SUBSET Changeset]
  BY <1>1
<1>6. Genesis \in Founding /\ Genesis \in Changeset /\ Genesis # Torn
  BY NamedFacts, ChangesetAssumption
<1>7. ASSUME NEW places, Places \subseteq places, NEW empty
      PROVE  Docs(places, lineage, empty, files)
  <2>1. CASE scenario.start = "fresh"
    BY <1>1, <2>1 DEF Docs, NoFiles
  <2>2. CASE scenario.start # "fresh"
    <3>1. /\ DOMAIN files = {GraphYaml, StoreKey(NameOf[Genesis]), ChangesetFile(Genesis), HeadFile}
          /\ files[GraphYaml] = [id |-> Genesis, trusted |-> {}]
          /\ \A path \in DOMAIN files : path # GraphYaml => files[path] = Genesis
          /\ files = [path \in DOMAIN files |-> files[path]]
      BY <1>1, <2>2 DEF Graph0
    <3>2. GraphDoc([id |-> Genesis, trusted |-> {}])
      BY <1>6 DEF GraphDoc
    <3>3. DOMAIN files \subseteq places
      <4>1. StoreKey(NameOf[Genesis]) \in Places
        BY <1>6, KeyPlaces
      <4>2. {HeadFile, GraphYaml, ChangesetFile(Genesis)} \subseteq Places
        BY <1>6 DEF Places, ChangesetFile
      <4> QED
        BY <1>7, <3>1, <4>1, <4>2
    <3>4. Genesis \in lineage[Genesis]
      BY <1>1, <1>6, <2>2
    <3>5. ASSUME NEW path \in DOMAIN files PROVE Fine(places, lineage, empty, path, files[path])
      <4>1. files[path] # Torn
        BY <1>6, <3>1, <3>2, Documents
      <4>2. \A x : ChangesetFile(x) = path => x = Genesis
        BY <3>1, MoreKinds
      <4>3. \A x : ProposalFile(x) # path
        BY <3>1, MoreKinds
      <4>4. path = HeadFile => files[path] \in Changeset
        BY <1>6, <3>1, MoreKinds
      <4>5. path = GraphYaml => GraphDoc(files[path])
        BY <3>1, <3>2
      <4>6. ASSUME NEW x \in Changeset, path \in {ChangesetFile(x), ProposalFile(x)}
            PROVE  files[path] = x /\ x \in lineage[x]
        <5>1. x = Genesis /\ path = ChangesetFile(Genesis)
          BY <4>2, <4>3, <4>6
        <5>2. path # GraphYaml
          BY <5>1, MoreKinds
        <5> QED
          BY <3>1, <3>4, <5>1, <5>2
      <4> QED
        BY <3>3, <4>1, <4>4, <4>5, <4>6 DEF Fine, Proper
    <3> QED
      BY <3>1, <3>5 DEF Docs
  <2> QED
    BY <2>1, <2>2
<1>8. scenario.host = "native" => NativeDocs
  <2>1. Docs(Everywhere, lineage, Everywhere, files)
    BY <1>7, KeyPlaces DEF Everywhere
  <2>2. FineSteps(Everywhere, lineage, Everywhere, <<>>)
    BY FineTuples
  <2> QED
    BY <1>1, <1>3, <1>4, <1>5, <2>1, <2>2 DEF NativeDocs
<1>9. ASSUME scenario.host = "mirror" PROVE MirrorInv
  <2>1. Docs(Places, lineage, torn, files) /\ Docs(Places, lineage, torn \cup Opened, files)
    BY <1>7
  <2>2. Persists(memory, files, <<>>)
    <3>1. IsSequence(<<>>) /\ Range(<<>>) = {}
      BY DEF IsSequence, Range
    <3> QED
      BY <3>1 DEF Persists
  <2>3. memory = files
    BY <1>1, <1>9
  <2>4. \A p \in Processes : Idle(p)
    BY <1>3, <1>4 DEF Idle
  <2>5. call = [p \in Processes |-> call[p]]
    BY <1>1
  <2> QED
    BY <1>3, <1>4, <1>5, <2>1, <2>2, <2>3, <2>4, <2>5 DEF MirrorInv
<1> QED
  BY <1>1, <1>8, <1>9 DEF TypeInv

\* Every step preserves it.
LEMMA NextTypes == NativeAckInv /\ TypeInv /\ [Next]_vars => TypeInv'
<1> SUFFICES ASSUME NativeAckInv, TypeInv, [Next]_vars PROVE TypeInv'
  OBVIOUS
<1>1. /\ scenario' = scenario /\ scenario \in Scenarios /\ scenario.faults \in Nat
      /\ scenario.host \in {"native", "mirror"}
  BY ScenarioAssumption DEF NativeAckInv, Next, vars, Call, NativeCall, MirrorCall, Step,
     Open, Fill, Unlink, KeyExists, Interrupt, Reload
<1>2. faults' \in 0..scenario.faults
  <2>1. faults' = faults \/ (faults < scenario.faults /\ faults' = faults + 1)
    BY DEF Next, vars, Call, NativeCall, MirrorCall, Step, Open, Fill, Unlink, KeyExists,
           Interrupt, Reload
  <2> QED
    BY <1>1, <2>1 DEF TypeInv
<1>3. ASSUME scenario.host = "native" PROVE NativeDocs'
  <2>1. AckInv /\ NativeDocs
    BY <1>3 DEF NativeAckInv, TypeInv
  <2>2. ASSUME NEW p \in Processes, NEW r \in scenario.requests, Call(p, r)
        PROVE  NativeDocs'
    BY <1>1, <1>3, <2>1, <2>2, CallKeepsDocs DEF Call, MirrorCall
  <2>3. ASSUME NEW p \in Processes, Step(p) \/ Interrupt(p) PROVE NativeDocs'
    BY <1>3, <2>1, <2>3, StepKeepsDocs
  <2>4. ~Reload
    BY <1>3 DEF Reload
  <2>5. CASE UNCHANGED vars
    BY <2>1, <2>5 DEF vars, NativeDocs
  <2> QED
    BY <2>2, <2>3, <2>4, <2>5 DEF Next
<1>4. ASSUME scenario.host = "mirror" PROVE MirrorInv'
  <2>1. MirrorInv
    BY <1>4 DEF TypeInv
  <2>2. ASSUME NEW p \in Processes, NEW r \in scenario.requests, Call(p, r)
        PROVE  MirrorInv'
    BY <1>1, <1>4, <2>1, <2>2, CallMirrors DEF Call, NativeCall
  <2>3. ASSUME NEW p \in Processes, Step(p) \/ Interrupt(p) PROVE MirrorInv'
    BY <2>1, <2>3, OpenMirrors, WriteMirrors, StopMirrors DEF Step, Interrupt
  <2>4. CASE Reload
    BY <2>1, <2>4, ReloadMirrors
  <2>5. CASE UNCHANGED vars
    <3>1. UNCHANGED <<files, memory, call, lineage, torn, behind>>
      BY <2>5 DEF vars
    <3>2. Opened' = Opened /\ \A p \in Processes : Idle(p)' = Idle(p)
      BY <3>1 DEF Opened, Running, Idle, LeftEmpty, Next1
    <3> QED
      BY <2>1, <3>1, <3>2 DEF MirrorInv
  <2> QED
    BY <2>2, <2>3, <2>4, <2>5 DEF Next
<1> QED
  BY <1>1, <1>2, <1>3, <1>4 DEF TypeInv

\* The invariants of the calls and of the documents, together.
LEMMA Types == Spec => [](NativeAckInv /\ TypeInv)
<1>1. Init => NativeAckInv /\ TypeInv
  BY InitNativeAcks, InitTypes
<1>2. NativeAckInv /\ TypeInv /\ [Next]_vars => (NativeAckInv /\ TypeInv)'
  BY NextNativeAcks, NextTypes
<1> QED
  BY <1>1, <1>2, PTL DEF Spec

\* Files hold what their names say, and only those are empty that were left so.
LEMMA TypeInvTypes == NativeAckInv /\ TypeInv => TypeOK
<1> SUFFICES ASSUME NativeAckInv, TypeInv PROVE TypeOK
  OBVIOUS
<1>1. scenario.host \in {"native", "mirror"} /\ Range(PathOrder) = Places
  BY ScenarioAssumption, PathOrderIsPlaces DEF TypeInv
<1>2. /\ DOMAIN files \subseteq Places \cup UserKeys
      /\ DOMAIN memory \subseteq Places
      /\ \A path \in DOMAIN files : files[path] = Torn => path \in torn \cup contended \cup Opened
      /\ \A path \in DOMAIN files : files[path] # Torn => Proper(lineage, path, files[path])
      /\ lineage \in [Changeset -> SUBSET Changeset]
  <2>1. CASE scenario.host = "native"
    <3>1. NativeDocs /\ AckInv
      BY <2>1 DEF TypeInv, NativeAckInv
    <3>2. DOMAIN files \subseteq Places \cup UserKeys /\ DOMAIN memory \subseteq Places
      BY <3>1 DEF NativeDocs, Docs, Fine, Everywhere, Spots, NoFiles
    <3>3. \A path \in DOMAIN files : files[path] = Torn => path \in torn \cup contended \cup Opened
      BY <3>1 DEF AckInv, EmptyIsShaken, Shaken
    <3> QED
      BY <3>1, <3>2, <3>3 DEF NativeDocs, Docs, Fine
  <2>2. CASE scenario.host = "mirror"
    BY <2>2 DEF TypeInv, MirrorInv, Docs, Fine
  <2> QED
    BY <1>1, <2>1, <2>2
<1>3. ASSUME NEW x \in Changeset, Intact(files, ChangesetFile(x))
      PROVE  files[ChangesetFile(x)] = x /\ x \in lineage[x]
  BY <1>2, <1>3 DEF Proper, Intact
<1> QED
  BY <1>1, <1>2, <1>3 DEF TypeOK, TypeInv

\* Files hold what their names say, on every host: a changeset's own file holds
\* it, and only files that a crash, an error or a second writer broke, or that
\* are being written, are empty.
THEOREM TypeCorrect == Spec => []TypeOK
BY Types, TypeInvTypes, PTL

\* Once a mirrored call has returned, the directory is the map, whatever calls
\* and writes failed before it and wherever the host stopped.
THEOREM MirrorIsCaughtUp == Spec => []MirrorCatchesUp
<1>1. TypeInv => MirrorCatchesUp
  BY DEF TypeInv, MirrorInv, MirrorCatchesUp
<1> QED
  BY <1>1, Types, PTL
=============================================================================
