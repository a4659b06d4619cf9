-------------------------- MODULE FederationProofs --------------------------
(***************************************************************************)
(* Federation for every set of graphs, policies and bundles.  First Merkle *)
(* paths, for trees of every size.  Then what federation cannot do to a    *)
(* graph: overwrite what is there, or bring back what was deleted.  Then   *)
(* where what a graph holds comes from, and what bundles prove: SourceInv  *)
(* is the invariant, its parts say of a state, an operation or a bundle    *)
(* what they owe to what was shared and handed out.                        *)
(***************************************************************************)
EXTENDS Federation, FoldProofs, SequenceTheorems

-----------------------------------------------------------------------------
\* Merkle paths.

IsSeq(q) == \E S : q \in Seq(S)

\* Sequences, without saying of what.
LEMMA SeqFacts ==
  ASSUME NEW q, IsSeq(q)
  PROVE  /\ Len(q) \in Nat
         /\ DOMAIN q = 1..Len(q)
         /\ q = [i \in 1..Len(q) |-> q[i]]
BY DEF IsSeq

\* What climbing computes on the way, in n steps of a path.
Climbs(leaf, path, n, hash) ==
  hash = [i \in 0..n |-> IF i = 0 THEN leaf ELSE Paired(hash[i-1], path[i])]

\* The recursion that PathHash is has a value: by induction on its length.
LEMMA ClimbExists ==
  ASSUME NEW leaf, NEW path, NEW n \in Nat
  PROVE  \E hash : Climbs(leaf, path, n, hash)
<1> DEFINE good == {m \in Nat : \E hash : Climbs(leaf, path, m, hash)}
<1>1. 0 \in good
  <2>1. Climbs(leaf, path, 0, [i \in 0..0 |-> leaf])
    BY DEF Climbs
  <2> QED
    BY <2>1
<1>2. ASSUME NEW m \in 1..n, m - 1 \in good
      PROVE  m \in good
  <2>1. PICK hash : Climbs(leaf, path, m - 1, hash)
    BY <1>2
  <2> DEFINE longer == [i \in 0..m |-> IF i = m THEN Paired(hash[m-1], path[m])
                                       ELSE hash[i]]
  <2>2. ASSUME NEW i \in 0..m
        PROVE  longer[i] = IF i = 0 THEN leaf ELSE Paired(longer[i-1], path[i])
    <3>1. CASE i = m
      BY <3>1
    <3>2. CASE i # m
      <4>1. i \in 0..(m-1) /\ (i # 0 => i - 1 \in 0..(m-1) /\ i - 1 # m)
        BY <3>2
      <4>2. hash[i] = IF i = 0 THEN leaf ELSE Paired(hash[i-1], path[i])
        BY <2>1, <4>1 DEF Climbs
      <4> QED
        BY <4>1, <4>2
    <3> QED
      BY <3>1, <3>2
  <2>3. Climbs(leaf, path, m, longer)
    <3>1. longer = [i \in 0..m |-> longer[i]]
      OBVIOUS
    <3> HIDE DEF longer
    <3> QED
      BY <2>2, <3>1 DEF Climbs
  <2> QED
    BY <2>3
<1>3. 0..n \subseteq good
  <2> HIDE DEF good
  <2> QED
    BY <1>1, <1>2, Induction
<1> QED
  BY <1>3

\* The hashes on the way up a path.
IsClimb(leaf, path, hash) ==
  /\ hash[0] = leaf
  /\ \A i \in 1..Len(path) : hash[i] = Paired(hash[i-1], path[i])

\* PathHash is the last of the hashes on the way.
LEMMA PathHashClimbs ==
  ASSUME NEW leaf, NEW path, Len(path) \in Nat
  PROVE  \E hash : IsClimb(leaf, path, hash) /\ PathHash(leaf, path) = hash[Len(path)]
<1> DEFINE hash == CHOOSE f : Climbs(leaf, path, Len(path), f)
<1>1. Climbs(leaf, path, Len(path), hash)
  BY ClimbExists
<1>2. PathHash(leaf, path) = hash[Len(path)]
  BY DEF PathHash, Climbs
<1> HIDE DEF hash
<1>3. IsClimb(leaf, path, hash)
  BY <1>1 DEF Climbs, IsClimb
<1> QED
  BY <1>2, <1>3

\* A pair and a step tell which hash was paired.
LEMMA PairedApart ==
  ASSUME NEW a, NEW b, NEW step, Paired(a, step) = Paired(b, step)
  PROVE  a = b
BY DEF Paired

\* A path leads no two leaves to the same hash.
LEMMA PathHashInjective ==
  ASSUME NEW path, Len(path) \in Nat, NEW a, NEW b, PathHash(a, path) = PathHash(b, path)
  PROVE  a = b
<1> DEFINE n == Len(path)
<1>1. PICK f : IsClimb(a, path, f) /\ PathHash(a, path) = f[n]
  BY PathHashClimbs
<1>2. PICK g : IsClimb(b, path, g) /\ PathHash(b, path) = g[n]
  BY PathHashClimbs
<1>3. n \in Nat /\ f[n] = g[n]
  BY <1>1, <1>2
<1>4. \A i \in 1..n : /\ f[i] = Paired(f[i-1], path[i])
                     /\ g[i] = Paired(g[i-1], path[i])
  BY <1>1, <1>2 DEF IsClimb
<1> HIDE DEF n
<1> DEFINE T == {k \in Nat : k <= n => f[n - k] = g[n - k]}
<1>5. 0 \in T
  <2>1. n - 0 = n
    BY <1>3
  <2> QED
    BY <1>3, <2>1
<1>6. ASSUME NEW k \in 1..n, k - 1 \in T PROVE k \in T
  <2> DEFINE i == n - (k - 1)
  <2>1. i \in 1..n /\ i - 1 = n - k /\ f[i] = g[i]
    BY <1>3, <1>6
  <2> HIDE DEF i
  <2>2. f[i-1] = g[i-1]
    BY <1>4, <2>1, PairedApart
  <2> QED
    BY <2>1, <2>2
<1>7. 0..n \subseteq T
  <2> HIDE DEF T
  <2> QED
    BY <1>3, <1>5, <1>6, Induction
<1>8. f[0] = g[0]
  <2>1. n \in T /\ n - n = 0
    BY <1>3, <1>7
  <2> QED
    BY <1>3, <2>1
<1> QED
  BY <1>1, <1>2, <1>8 DEF IsClimb

\* One more step of a path takes the hash one step further.
LEMMA PathHashExtends ==
  ASSUME NEW leaf, NEW path, NEW longer, Len(path) \in Nat, Len(longer) \in Nat,
         Len(longer) = Len(path) + 1, \A i \in 1..Len(path) : longer[i] = path[i]
  PROVE  PathHash(leaf, longer) = Paired(PathHash(leaf, path), longer[Len(longer)])
<1> DEFINE n == Len(path)
           m == Len(longer)
<1>1. \E f : IsClimb(leaf, path, f) /\ PathHash(leaf, path) = f[n]
  <2> HIDE DEF n
  <2> QED
    BY PathHashClimbs DEF n
<1>2. PICK f : IsClimb(leaf, path, f) /\ PathHash(leaf, path) = f[n]
  BY <1>1
<1>3. PICK g : IsClimb(leaf, longer, g) /\ PathHash(leaf, longer) = g[m]
  BY PathHashClimbs
<1>4. /\ f[0] = g[0]
      /\ \A i \in 1..n : f[i] = Paired(f[i-1], path[i])
      /\ \A i \in 1..m : g[i] = Paired(g[i-1], longer[i])
  BY <1>2, <1>3 DEF IsClimb
<1>5. n \in Nat /\ m = n + 1 /\ \A i \in 1..n : longer[i] = path[i]
  OBVIOUS
<1> HIDE DEF n, m
<1> DEFINE T == {k \in Nat : f[k] = g[k]}
<1>6. 0 \in T
  BY <1>4
<1>7. ASSUME NEW k \in 1..n, k - 1 \in T PROVE k \in T
  BY <1>4, <1>5, <1>7
<1>8. 0..n \subseteq T
  <2> HIDE DEF T
  <2> QED
    BY <1>5, <1>6, <1>7, Induction
<1>9. f[n] = g[n]
  BY <1>5, <1>8
<1>10. g[m] = Paired(g[n], longer[m])
  BY <1>4, <1>5
<1> QED
  BY <1>2, <1>3, <1>9, <1>10 DEF m

\* A number is even or odd.
LEMMA Halves ==
  ASSUME NEW n \in Nat
  PROVE  \E h \in Nat : \/ n = 2 * h /\ n % 2 = 0 /\ n \div 2 = h /\ (n + 1) \div 2 = h
                        \/ n = 2 * h + 1 /\ n % 2 = 1 /\ n \div 2 = h /\ (n + 1) \div 2 = h + 1
BY Z3

\* What the library says of concatenation, for sequences of anything.
LEMMA Concatenated ==
  ASSUME NEW q, NEW r, IsSeq(q), IsSeq(r)
  PROVE  /\ IsSeq(q \o r)
         /\ Len(q \o r) = Len(q) + Len(r)
         /\ \A i \in 1..Len(q) : (q \o r)[i] = q[i]
         /\ \A i \in 1..Len(r) : (q \o r)[Len(q) + i] = r[i]
<1>1. PICK S : q \in Seq(S)
  BY DEF IsSeq
<1>2. PICK T : r \in Seq(T)
  BY DEF IsSeq
<1> DEFINE U == S \cup T
<1>3. q \in Seq(U) /\ r \in Seq(U) /\ Len(q) \in Nat /\ Len(r) \in Nat
  BY <1>1, <1>2
<1> HIDE DEF U
<1>4. /\ q \o r \in Seq(U)
      /\ Len(q \o r) = Len(q) + Len(r)
      /\ \A i \in 1..Len(q) + Len(r) :
           (q \o r)[i] = IF i <= Len(q) THEN q[i] ELSE r[i - Len(q)]
  BY <1>3, ConcatProperties
<1>5. \A i \in 1..Len(q) : (q \o r)[i] = q[i]
  <2> TAKE i \in 1..Len(q)
  <2>1. i \in 1..Len(q) + Len(r) /\ i <= Len(q)
    BY <1>3
  <2> QED
    BY <1>4, <2>1
<1>6. \A i \in 1..Len(r) : (q \o r)[Len(q) + i] = r[i]
  <2> TAKE i \in 1..Len(r)
  <2>1. Len(q) + i \in 1..Len(q) + Len(r) /\ ~(Len(q) + i <= Len(q))
        /\ Len(q) + i - Len(q) = i
    BY <1>3
  <2> QED
    BY <1>4, <2>1
<1> QED
  BY <1>4, <1>5, <1>6 DEF IsSeq

\* A function on 1..n is a sequence of length n.
LEMMA Tabulated ==
  ASSUME NEW n \in Nat, NEW f, f = [i \in 1..n |-> f[i]]
  PROVE  IsSeq(f) /\ Len(f) = n
<1> DEFINE S == {f[i] : i \in 1..n}
<1>1. f \in [1..n -> S]
  OBVIOUS
<1> HIDE DEF S
<1>2. f \in Seq(S)
  BY <1>1, SeqDef
<1>3. Len(f) \in Nat /\ 1..Len(f) = 1..n
  BY <1>1, <1>2, LenProperties
<1>4. Len(f) = n
  BY <1>3
<1> QED
  BY <1>2, <1>4 DEF IsSeq

\* A level above: half as many hashes, rounded up, the odd one unchanged.
LEMMA AboveFacts ==
  ASSUME NEW level, IsSeq(level), NEW h \in Nat,
         Len(level) \div 2 = h
  PROVE  /\ IsSeq(Above(level))
         /\ Len(level) % 2 = 0 => Len(Above(level)) = h
         /\ Len(level) % 2 = 1 => /\ Len(Above(level)) = h + 1
                                  /\ Above(level)[h + 1] = level[Len(level)]
         /\ \A i \in 1..h : Above(level)[i] = <<level[2 * i - 1], level[2 * i]>>
<1> DEFINE pairs == [i \in 1..h |-> <<level[2 * i - 1], level[2 * i]>>]
           last == level[Len(level)]
           rest == IF Len(level) % 2 = 1 THEN <<last>> ELSE <<>>
<1>1. Above(level) = pairs \o rest
  BY DEF Above
<1>2. IsSeq(pairs) /\ Len(pairs) = h
  <2>1. pairs = [i \in 1..h |-> pairs[i]]
    OBVIOUS
  <2> HIDE DEF pairs
  <2> QED
    BY <2>1, Tabulated
<1>3. IsSeq(rest)
  <2> HIDE DEF last
  <2>1. <<last>> \in Seq({last}) /\ <<>> \in Seq({})
    OBVIOUS
  <2> QED
    BY <2>1 DEF IsSeq
<1>4. \A i \in 1..h : pairs[i] = <<level[2 * i - 1], level[2 * i]>>
  OBVIOUS
<1>5. /\ Len(level) % 2 = 0 => Len(rest) = 0
      /\ Len(level) % 2 = 1 => Len(rest) = 1 /\ rest[1] = level[Len(level)]
  OBVIOUS
<1> HIDE DEF pairs, rest
<1>6. /\ IsSeq(pairs \o rest)
      /\ Len(pairs \o rest) = h + Len(rest)
      /\ \A i \in 1..h : (pairs \o rest)[i] = pairs[i]
      /\ \A i \in 1..Len(rest) : (pairs \o rest)[h + i] = rest[i]
  BY <1>2, <1>3, Concatenated
<1>7. CASE Len(level) % 2 = 0
  BY <1>1, <1>4, <1>5, <1>6, <1>7
<1>8. CASE Len(level) % 2 = 1
  <2>1. Len(rest) = 1 /\ 1 \in 1..Len(rest) /\ rest[1] = level[Len(level)]
    BY <1>5, <1>8
  <2>2. (pairs \o rest)[h + 1] = level[Len(level)]
    BY <1>6, <2>1
  <2>3. Len(pairs \o rest) = h + 1
    BY <1>6, <2>1
  <2>4. ~(Len(level) % 2 = 0)
    BY <1>8
  <2>5. \A i \in 1..h : (pairs \o rest)[i] = <<level[2 * i - 1], level[2 * i]>>
    BY <1>4, <1>6
  <2> QED
    BY <1>1, <1>6, <2>2, <2>3, <2>4, <2>5, Zenon
<1>9. Len(level) % 2 \in {0, 1}
  <2>1. Len(level) \in Nat
    BY SeqFacts
  <2> QED
    BY <2>1, Halves
<1> QED
  BY <1>7, <1>8, <1>9

\* The position in a level: left of a pair, right of a pair, or promoted.
LEMMA Places ==
  ASSUME NEW n \in Nat, NEW at \in 1..n
  PROVE  \E h \in Nat : /\ n \div 2 = h
                        /\ \/ n = 2 * h /\ n % 2 = 0 /\ (n + 1) \div 2 = h
                           \/ n = 2 * h + 1 /\ n % 2 = 1 /\ (n + 1) \div 2 = h + 1
                        /\ \/ \E j \in 1..h : /\ at = 2 * j /\ (at + 1) \div 2 = j
                                              /\ Sibling(at) = 2 * j - 1
                           \/ \E j \in 1..h : /\ at = 2 * j - 1 /\ (at + 1) \div 2 = j
                                              /\ Sibling(at) = 2 * j
                           \/ /\ n = 2 * h + 1 /\ at = n /\ (at + 1) \div 2 = h + 1
                              /\ Sibling(at) = n + 1
<1>1. PICK h \in Nat :
        \/ n = 2 * h /\ n % 2 = 0 /\ n \div 2 = h /\ (n + 1) \div 2 = h
        \/ n = 2 * h + 1 /\ n % 2 = 1 /\ n \div 2 = h /\ (n + 1) \div 2 = h + 1
  BY Halves
<1>2. PICK j \in Nat :
        \/ at = 2 * j /\ at % 2 = 0 /\ at \div 2 = j /\ (at + 1) \div 2 = j
        \/ at = 2 * j + 1 /\ at % 2 = 1 /\ at \div 2 = j /\ (at + 1) \div 2 = j + 1
  BY Halves
<1>3. CASE at = 2 * j /\ at % 2 = 0 /\ (at + 1) \div 2 = j
  <2>1. j \in 1..h /\ Sibling(at) = 2 * j - 1
    BY <1>1, <1>3 DEF Sibling
  <2> QED
    BY <1>1, <1>3, <2>1
<1>4. CASE at = 2 * j + 1 /\ at % 2 = 1 /\ (at + 1) \div 2 = j + 1 /\ at # n
  <2> DEFINE i == j + 1
  <2>1. i \in 1..h /\ at = 2 * i - 1 /\ Sibling(at) = 2 * i /\ (at + 1) \div 2 = i
    BY <1>1, <1>4 DEF Sibling
  <2> QED
    BY <1>1, <2>1
<1>5. CASE at = 2 * j + 1 /\ at % 2 = 1 /\ (at + 1) \div 2 = j + 1 /\ at = n
  <2>1. j = h /\ n = 2 * h + 1 /\ Sibling(at) = n + 1
    BY <1>1, <1>5 DEF Sibling
  <2> QED
    BY <1>1, <1>5, <2>1
<1> QED
  BY <1>2, <1>3, <1>4, <1>5

\* On the way from a leaf: the path so far leads to the hash reached.
OnTheWay(leaf, w) ==
  /\ IsSeq(w.level) /\ IsSeq(w.path)
  /\ w.at \in 1..Len(w.level)
  /\ PathHash(leaf, w.path) = w.level[w.at]

\* A path that gets one step longer leads one pair further.
LEMMA OneStep ==
  ASSUME NEW leaf, NEW path, IsSeq(path), NEW step
  PROVE  /\ IsSeq(path \o <<step>>)
         /\ PathHash(leaf, path \o <<step>>) = Paired(PathHash(leaf, path), step)
<1> DEFINE one == <<step>>
           longer == path \o one
<1>0. IsSeq(one)
  <2>1. <<step>> \in Seq({step})
    OBVIOUS
  <2> QED
    BY <2>1 DEF IsSeq
<1>1. Len(one) = 1 /\ one[1] = step
  OBVIOUS
<1> HIDE DEF one
<1>2. /\ IsSeq(longer) /\ Len(longer) = Len(path) + 1
      /\ \A i \in 1..Len(path) : longer[i] = path[i]
      /\ longer[Len(path) + 1] = step
  <2>1. 1 \in 1..Len(one)
    BY <1>1
  <2>2. /\ IsSeq(longer) /\ Len(longer) = Len(path) + Len(one)
        /\ \A i \in 1..Len(path) : longer[i] = path[i]
        /\ \A i \in 1..Len(one) : longer[Len(path) + i] = one[i]
    BY <1>0, Concatenated
  <2> HIDE DEF longer
  <2> QED
    BY <1>1, <2>1, <2>2
<1>3. Len(path) \in Nat /\ Len(longer) \in Nat
  BY <1>2, SeqFacts
<1> HIDE DEF longer
<1>4. PathHash(leaf, longer) = Paired(PathHash(leaf, path), longer[Len(longer)])
  BY <1>2, <1>3, PathHashExtends
<1> QED
  BY <1>2, <1>4 DEF longer, one

\* A round of the loop stays on the way, and halves the level.
LEMMA UpKeeps ==
  ASSUME NEW leaf, NEW w, OnTheWay(leaf, w)
  PROVE  OnTheWay(leaf, Up(w)) /\ Len(Up(w).level) = (Len(w.level) + 1) \div 2
<1> DEFINE level == w.level
           at == w.at
           path == w.path
           n == Len(level)
           up == Up(w)
<1>1. n \in Nat /\ at \in 1..n /\ IsSeq(level) /\ IsSeq(path)
  BY SeqFacts DEF OnTheWay
<1>2. /\ up.level = Above(level) /\ up.at = (at + 1) \div 2
      /\ up.path = path \o PathStep(level, at)
  BY DEF Up
<1>3. PathHash(leaf, path) = level[at]
  BY DEF OnTheWay
<1> HIDE DEF up, level, at, path
<1>4. PICK h \in Nat :
        /\ n \div 2 = h
        /\ \/ n = 2 * h /\ n % 2 = 0 /\ (n + 1) \div 2 = h
           \/ n = 2 * h + 1 /\ n % 2 = 1 /\ (n + 1) \div 2 = h + 1
        /\ \/ \E j \in 1..h : /\ at = 2 * j /\ (at + 1) \div 2 = j
                              /\ Sibling(at) = 2 * j - 1
           \/ \E j \in 1..h : /\ at = 2 * j - 1 /\ (at + 1) \div 2 = j
                              /\ Sibling(at) = 2 * j
           \/ /\ n = 2 * h + 1 /\ at = n /\ (at + 1) \div 2 = h + 1
              /\ Sibling(at) = n + 1
  <2> HIDE DEF n
  <2> QED
    BY <1>1, Places
<1>5. /\ IsSeq(Above(level))
      /\ n % 2 = 0 => Len(Above(level)) = h
      /\ n % 2 = 1 => Len(Above(level)) = h + 1 /\ Above(level)[h + 1] = level[n]
      /\ \A i \in 1..h : Above(level)[i] = <<level[2 * i - 1], level[2 * i]>>
  BY <1>1, <1>4, AboveFacts
<1> HIDE DEF n
<1>6. Len(Above(level)) = (n + 1) \div 2
  BY <1>4, <1>5
<1>7. h <= Len(Above(level))
  BY <1>4, <1>5
<1>8. ASSUME NEW j \in 1..h, NEW step, PathStep(level, at) = <<step>>,
             Paired(level[at], step) = <<level[2 * j - 1], level[2 * j]>>,
             (at + 1) \div 2 = j
      PROVE  OnTheWay(leaf, up)
  <2>1. IsSeq(up.path) /\ PathHash(leaf, up.path) = Paired(level[at], step)
    BY <1>1, <1>2, <1>3, <1>8, OneStep
  <2>2. up.at = j /\ up.level[up.at] = Paired(level[at], step)
    BY <1>2, <1>5, <1>8
  <2>3. up.at \in 1..Len(up.level)
    <3>1. Len(Above(level)) \in Nat
      BY <1>5, SeqFacts
    <3>2. j \in 1..Len(Above(level))
      BY <1>7, <3>1
    <3> QED
      BY <1>2, <1>8, <3>2
  <2> QED
    BY <1>2, <1>5, <2>1, <2>2, <2>3 DEF OnTheWay
<1>9. ASSUME NEW j \in 1..h, at = 2 * j, (at + 1) \div 2 = j, Sibling(at) = 2 * j - 1
      PROVE  OnTheWay(leaf, up)
  <2> DEFINE step == [sibling |-> level[2 * j - 1], left |-> TRUE]
  <2>1. ~(Sibling(at) > n) /\ (Sibling(at) < at) = TRUE
    BY <1>1, <1>4, <1>9
  <2>2. PathStep(level, at) = <<step>>
    BY <2>1, <1>9 DEF PathStep, n
  <2>3. Paired(level[at], step) = <<level[2 * j - 1], level[2 * j]>>
    BY <1>9 DEF Paired
  <2> HIDE DEF step
  <2> QED
    BY <1>8, <1>9, <2>2, <2>3
<1>10. ASSUME NEW j \in 1..h, at = 2 * j - 1, (at + 1) \div 2 = j, Sibling(at) = 2 * j
       PROVE  OnTheWay(leaf, up)
  <2> DEFINE step == [sibling |-> level[2 * j], left |-> FALSE]
  <2>1. ~(Sibling(at) > n) /\ (Sibling(at) < at) = FALSE
    BY <1>1, <1>4, <1>10
  <2>2. PathStep(level, at) = <<step>>
    BY <2>1, <1>10 DEF PathStep, n
  <2>3. Paired(level[at], step) = <<level[2 * j - 1], level[2 * j]>>
    BY <1>10 DEF Paired
  <2> HIDE DEF step
  <2> QED
    BY <1>8, <1>10, <2>2, <2>3
<1>11. ASSUME n = 2 * h + 1, at = n, (at + 1) \div 2 = h + 1, Sibling(at) = n + 1
       PROVE  OnTheWay(leaf, up)
  <2>1. PathStep(level, at) = <<>>
    BY <1>1, <1>11 DEF PathStep, n
  <2>2. path \o <<>> = path
    BY <1>1, ConcatEmptySeq DEF IsSeq
  <2>3. n % 2 = 1
    BY <1>4, <1>11
  <2>4. up.path = path /\ up.level = Above(level) /\ up.at = h + 1
    BY <1>2, <1>11, <2>1, <2>2
  <2>5. Len(up.level) = h + 1 /\ up.level[h + 1] = level[n]
    BY <1>5, <2>3, <2>4
  <2>6. up.at \in 1..Len(up.level) /\ up.level[up.at] = PathHash(leaf, up.path)
    BY <1>3, <1>11, <2>4, <2>5
  <2> QED
    BY <1>1, <1>5, <2>4, <2>6 DEF OnTheWay
<1>12. OnTheWay(leaf, up)
  BY <1>4, <1>9, <1>10, <1>11
<1> QED
  BY <1>2, <1>6, <1>12 DEF up, level, n

\* The rounds of the loop, n of them.
Walks(leaves, index, n, walk) ==
  walk = [k \in 0..n |-> IF k = 0 THEN [level |-> leaves, at |-> index, path |-> <<>>]
                         ELSE Up(walk[k-1])]

\* The recursion that Walk is has a value: by induction on its length.
LEMMA WalkExists ==
  ASSUME NEW leaves, NEW index, NEW n \in Nat
  PROVE  \E walk : Walks(leaves, index, n, walk)
<1> DEFINE start == [level |-> leaves, at |-> index, path |-> <<>>]
           good == {m \in Nat : \E walk : Walks(leaves, index, m, walk)}
<1>1. 0 \in good
  <2>1. Walks(leaves, index, 0, [k \in 0..0 |-> start])
    BY DEF Walks
  <2> QED
    BY <2>1
<1>2. ASSUME NEW m \in 1..n, m - 1 \in good
      PROVE  m \in good
  <2>1. PICK walk : Walks(leaves, index, m - 1, walk)
    BY <1>2
  <2> DEFINE longer == [k \in 0..m |-> IF k = m THEN Up(walk[m-1]) ELSE walk[k]]
  <2>2. ASSUME NEW k \in 0..m
        PROVE  longer[k] = IF k = 0 THEN start ELSE Up(longer[k-1])
    <3>1. CASE k = m
      BY <3>1
    <3>2. CASE k # m
      <4>1. k \in 0..(m-1) /\ (k # 0 => k - 1 \in 0..(m-1) /\ k - 1 # m)
        BY <3>2
      <4>2. walk[k] = IF k = 0 THEN start ELSE Up(walk[k-1])
        BY <2>1, <4>1 DEF Walks
      <4> QED
        BY <4>1, <4>2
    <3> QED
      BY <3>1, <3>2
  <2>3. Walks(leaves, index, m, longer)
    <3>1. longer = [k \in 0..m |-> longer[k]]
      OBVIOUS
    <3> HIDE DEF longer
    <3> QED
      BY <2>2, <3>1 DEF Walks
  <2> QED
    BY <2>3
<1>3. 0..n \subseteq good
  <2> HIDE DEF good
  <2> QED
    BY <1>1, <1>2, Induction
<1> QED
  BY <1>3

IsWalk(leaves, index, walk) ==
  /\ walk[0] = [level |-> leaves, at |-> index, path |-> <<>>]
  /\ \A k \in 1..Len(leaves) : walk[k] = Up(walk[k-1])

\* Walk ends where its last round does.
LEMMA WalkRuns ==
  ASSUME NEW leaves, NEW index, Len(leaves) \in Nat
  PROVE  \E walk : /\ IsWalk(leaves, index, walk)
                   /\ Walk(leaves, index) = walk[Len(leaves)]
<1> DEFINE walk == CHOOSE f : Walks(leaves, index, Len(leaves), f)
<1>1. Walks(leaves, index, Len(leaves), walk)
  BY WalkExists
<1>2. Walk(leaves, index) = walk[Len(leaves)]
  BY DEF Walk, Walks
<1> HIDE DEF walk
<1>3. IsWalk(leaves, index, walk)
  BY <1>1 DEF Walks, IsWalk
<1> QED
  BY <1>2, <1>3

\* The walk ends at the root, and its path leads there too.
LEMMA WalkArrives ==
  ASSUME NEW leaves, IsSeq(leaves), NEW index \in 1..Len(leaves)
  PROVE  /\ IsSeq(MerklePath(leaves, index))
         /\ PathHash(leaves[index], MerklePath(leaves, index)) = MerkleRoot(leaves)
<1> DEFINE n == Len(leaves)
           leaf == leaves[index]
<1>1. n \in Nat /\ n >= 1 /\ 1 \in 1..n
  BY SeqFacts
<1>2. PICK f : IsWalk(leaves, index, f) /\ Walk(leaves, index) = f[n]
  BY <1>1, WalkRuns
<1>3. PICK g : IsWalk(leaves, 1, g) /\ Walk(leaves, 1) = g[n]
  BY <1>1, WalkRuns
<1>4. /\ f[0] = [level |-> leaves, at |-> index, path |-> <<>>]
      /\ g[0].level = leaves
      /\ \A k \in 1..n : f[k] = Up(f[k-1]) /\ g[k] = Up(g[k-1])
  BY <1>2, <1>3 DEF IsWalk
<1> HIDE DEF n
<1> DEFINE Shrunk(m, k) == m <= 1 \/ m <= n - k
           T == {k \in Nat : /\ OnTheWay(leaf, f[k])
                             /\ g[k].level = f[k].level
                             /\ Shrunk(Len(f[k].level), k)}
<1>5. 0 \in T
  <2>1. PathHash(leaf, <<>>) = leaf
    <3>1. Len(<<>>) = 0 /\ Len(<<>>) \in Nat
      OBVIOUS
    <3>2. PICK hash : IsClimb(leaf, <<>>, hash) /\ PathHash(leaf, <<>>) = hash[Len(<<>>)]
      BY <3>1, PathHashClimbs
    <3> QED
      BY <3>1, <3>2 DEF IsClimb
  <2>2. <<>> \in Seq({})
    OBVIOUS
  <2>3. IsSeq(<<>>)
    BY <2>2 DEF IsSeq
  <2>4. f[0].level = leaves /\ f[0].at = index /\ f[0].path = <<>>
    BY <1>4
  <2>5. OnTheWay(leaf, f[0])
    BY <2>1, <2>3, <2>4 DEF OnTheWay
  <2>6. Shrunk(Len(f[0].level), 0)
    BY <1>1, <2>4 DEF n
  <2> QED
    BY <1>4, <2>4, <2>5, <2>6
<1>6. ASSUME NEW k \in 1..n, k - 1 \in T PROVE k \in T
  <2>1. /\ OnTheWay(leaf, f[k-1]) /\ g[k-1].level = f[k-1].level
        /\ Shrunk(Len(f[k-1].level), k-1)
    BY <1>6
  <2>2. OnTheWay(leaf, f[k]) /\ Len(f[k].level) = (Len(f[k-1].level) + 1) \div 2
    BY <1>4, <2>1, UpKeeps
  <2>3. g[k].level = Above(g[k-1].level) /\ f[k].level = Above(f[k-1].level)
    <3>1. f[k] = Up(f[k-1]) /\ g[k] = Up(g[k-1])
      BY <1>4
    <3>2. \A w : Up(w).level = Above(w.level)
      BY DEF Up
    <3> QED
      BY <3>1, <3>2
  <2>4. Len(f[k-1].level) \in Nat
    BY <2>1, SeqFacts DEF OnTheWay
  <2>5. \A m \in Nat : Shrunk(m, k - 1) => Shrunk((m + 1) \div 2, k)
    BY <1>1
  <2>6. Shrunk(Len(f[k].level), k)
    BY <2>1, <2>2, <2>4, <2>5
  <2>7. k \in Nat /\ g[k].level = f[k].level
    BY <1>1, <2>1, <2>3
  <2> HIDE DEF Shrunk
  <2> QED
    BY <2>2, <2>6, <2>7
<1>7. 0..n \subseteq T
  <2> HIDE DEF T
  <2> QED
    BY <1>1, <1>5, <1>6, Induction
<1>8. /\ OnTheWay(leaf, f[n]) /\ g[n].level = f[n].level
      /\ Shrunk(Len(f[n].level), n)
  <2>1. n \in T
    BY <1>1, <1>7
  <2> HIDE DEF Shrunk
  <2> QED
    BY <2>1
<1>9. f[n].at = 1
  <2>1. f[n].at \in 1..Len(f[n].level) /\ Len(f[n].level) \in Nat
    BY <1>8, SeqFacts DEF OnTheWay
  <2> QED
    BY <1>1, <1>8, <2>1
<1>10. MerklePath(leaves, index) = f[n].path /\ MerkleRoot(leaves) = g[n].level[1]
  BY <1>2, <1>3 DEF MerklePath, MerkleRoot
<1>11. IsSeq(f[n].path) /\ PathHash(leaf, f[n].path) = f[n].level[1]
  BY <1>8, <1>9 DEF OnTheWay
<1> QED
  BY <1>8, <1>10, <1>11

\* A path leads from its leaf to the root, whatever the tree looks like: full
\* or with hashes promoted on any of its levels.
THEOREM PathsLeadToTheRoot ==
  ASSUME NEW leaves, IsSeq(leaves), NEW index \in 1..Len(leaves)
  PROVE  VerifyMerklePath(leaves[index], MerklePath(leaves, index), MerkleRoot(leaves))
BY WalkArrives DEF VerifyMerklePath

\* A path proves no other leaf than the one it was made for.
THEOREM PathsProveOneLeaf ==
  ASSUME NEW leaves, IsSeq(leaves), NEW index \in 1..Len(leaves), NEW other,
         VerifyMerklePath(other, MerklePath(leaves, index), MerkleRoot(leaves))
  PROVE  other = leaves[index]
<1>1. Len(MerklePath(leaves, index)) \in Nat
  BY WalkArrives, SeqFacts
<1> QED
  BY <1>1, WalkArrives, PathHashInjective DEF VerifyMerklePath

-----------------------------------------------------------------------------
\* Operations that give an object no lineage that it did not have.

Mild(s, op) ==
  op.verb = "update" => Lineage(op.body) \subseteq Lineage(s[op.id].content)

\* A sequence of one such operation.
MildOps(s, ops) == \E op : ops = <<op>> /\ Mild(s, op)

\* From one state of a graph to the next.
Sovereign(s, r) ==
  \A id \in DOMAIN s :
    /\ id \in DOMAIN r
    /\ s[id].deleted => r[id].deleted
    /\ r[id].content # s[id].content =>
         Lineage(r[id].content) \subseteq Lineage(s[id].content)

\* What waits in a graph is mild too, at the state it was made for.
FedInv ==
  /\ objects = [g \in Graph |-> objects[g]]
  /\ held = [g \in Graph |-> held[g]]
  /\ \A g \in Graph : /\ IsState(objects[g])
                      /\ \A p \in held[g] : MildOps(p.base, p.ops)

LEMMA MildEffect ==
  ASSUME NEW reg, NEW s, NEW op, IsState(s), Mild(s, op), OpAllowed(reg, s, op)
  PROVE  IsState(OpEffect(s, op)) /\ Sovereign(s, OpEffect(s, op))
<1> USE DEF OpEffect, OpAllowed, Put, Obj, PriorMatches, Live, IsState, Sovereign
<1>1. CASE op.verb = "create"
  BY <1>1
<1>2. CASE op.verb = "update"
  BY <1>2 DEF Mild
<1>3. CASE op.verb = "delete"
  BY <1>3
<1>4. CASE op.verb = "redact-document"
  <2>1. Lineage(RedactedContent) = {}
    BY DEF Lineage, RedactedContent
  <2> QED
    BY <1>4, <2>1
<1>5. CASE op.verb \notin {"create", "update", "delete", "redact-document"}
  BY <1>5
<1> QED
  BY <1>1, <1>2, <1>3, <1>4, <1>5

\* A changeset of one operation.
LEMMA MildChangeset ==
  ASSUME NEW reg, NEW s, NEW ops, IsState(s), MildOps(s, ops),
         ApplyChangeset(reg, s, ops).ok
  PROVE  LET r == ApplyChangeset(reg, s, ops).objects
         IN  IsState(r) /\ Sovereign(s, r)
<1>1. PICK op : ops = <<op>> /\ Mild(s, op)
  BY DEF MildOps
<1>2. ApplyOps(reg, s, ops).ok /\ ApplyChangeset(reg, s, ops) = ApplyOps(reg, s, ops)
  BY DEF ApplyChangeset
<1>3. Len(ops) = 1 /\ ops[1] = op
  BY <1>1
<1>4. PICK states : /\ Accepts(reg, s, ops, states)
                    /\ ApplyOps(reg, s, ops) = [ok |-> TRUE, objects |-> states[1]]
  <2>1. Len(ops) \in Nat
    BY <1>3
  <2>2. PICK states : /\ Accepts(reg, s, ops, states)
                      /\ ApplyOps(reg, s, ops) = [ok |-> TRUE, objects |-> states[Len(ops)]]
    BY <1>2, <2>1, AcceptedStates
  <2> QED
    BY <1>3, <2>2
<1>5. OpAllowed(reg, s, op) /\ states[1] = OpEffect(s, op)
  <2>1. 1 \in 1..Len(ops) /\ 1 - 1 = 0
    BY <1>3
  <2> QED
    BY <2>1, <1>3, <1>4 DEF Accepts
<1> QED
  BY <1>1, <1>2, <1>4, <1>5, MildEffect

\* What a step does to one graph.
Moves(g) ==
  /\ \E s : /\ objects' = [objects EXCEPT ![g] = s]
            /\ IsState(s) /\ Sovereign(objects[g], s)
  /\ \E h : /\ held' = [held EXCEPT ![g] = h]
            /\ \A p \in h : MildOps(p.base, p.ops)

LEMMA SelfSovereign == \A s : Sovereign(s, s)
  BY DEF Sovereign

LEMMA ApplyMoves ==
  ASSUME FedInv, NEW g \in Graph, NEW ops, MildOps(objects[g], ops), Apply(g, ops)
  PROVE  \E s : /\ objects' = [objects EXCEPT ![g] = s]
                /\ IsState(s) /\ Sovereign(objects[g], s)
<1>1. /\ ApplyChangeset(Registry(g), objects[g], ops).ok
      /\ objects' = [objects EXCEPT
                       ![g] = ApplyChangeset(Registry(g), objects[g], ops).objects]
  BY DEF Apply, Advance
<1> QED
  BY <1>1, MildChangeset DEF FedInv

LEMMA CommitMoves ==
  ASSUME FedInv, NEW g \in Graph, NEW author, NEW op, Mild(objects[g], op),
         Commit(g, author, <<op>>)
  PROVE  Moves(g)
<1>1. MildOps(objects[g], <<op>>)
  BY DEF MildOps
<1>2. CASE Apply(g, <<op>>) /\ UNCHANGED held
  <2>1. held' = [held EXCEPT ![g] = held[g]]
    BY <1>2 DEF FedInv
  <2> QED
    BY <1>1, <1>2, <2>1, ApplyMoves DEF Moves, FedInv
<1>3. CASE /\ held' = [held EXCEPT ![g] = @ \cup
                        {[author |-> author, ops |-> <<op>>, base |-> objects[g]]}]
           /\ UNCHANGED objects
  <2>1. objects' = [objects EXCEPT ![g] = objects[g]]
    BY <1>3 DEF FedInv
  <2>2. \E h : /\ held' = [held EXCEPT ![g] = h]
               /\ \A p \in h : MildOps(p.base, p.ops)
    <3> DEFINE new == [author |-> author, ops |-> <<op>>, base |-> objects[g]]
               h == held[g] \cup {new}
    <3>1. MildOps(new.base, new.ops)
      BY <1>1
    <3>2. \A p \in h : MildOps(p.base, p.ops)
      BY <3>1 DEF FedInv
    <3> QED
      BY <1>3, <3>2
  <2> QED
    BY <2>1, <2>2, SelfSovereign DEF Moves, FedInv
<1> QED
  BY <1>2, <1>3 DEF Commit

LEMMA ApproveMoves ==
  ASSUME FedInv, NEW g \in Graph, NEW p \in held[g], Approve(g, p)
  PROVE  Moves(g)
<1>1. MildOps(objects[g], p.ops) /\ Apply(g, p.ops)
      /\ held' = [held EXCEPT ![g] = @ \ {p}]
  BY DEF Approve, FedInv
<1>2. \E h : /\ held' = [held EXCEPT ![g] = h]
             /\ \A q \in h : MildOps(q.base, q.ops)
  <2> DEFINE h == held[g] \ {p}
  <2>1. \A q \in h : MildOps(q.base, q.ops)
    BY DEF FedInv
  <2> QED
    BY <1>1, <2>1
<1> QED
  BY <1>1, <1>2, ApplyMoves DEF Moves

\* Every step moves one graph on, or makes a bundle.
LEMMA StepMoves ==
  ASSUME FedInv, NEW g \in Graph,
         Exchange(g) \/ Work(g) \/ (\E p \in held[g] : Approve(g, p))
  PROVE  Moves(g) \/ UNCHANGED <<objects, held>>
<1> DEFINE Goal == Moves(g) \/ UNCHANGED <<objects, held>>
<1>1. ASSUME NEW content, CreateNode(g, content)
      PROVE  Goal
  <2> DEFINE op == [verb |-> "create", id |-> NodeIds[minted + 1], body |-> content]
  <2>1. Mild(objects[g], op)
    BY DEF Mild
  <2>2. Commit(g, Owner[g], <<op>>)
    BY <1>1 DEF CreateNode
  <2> HIDE DEF op
  <2> QED
    BY <2>1, <2>2, CommitMoves
<1>2. ASSUME NEW id, Delete(g, id)
      PROVE  Goal
  <2> DEFINE op == [verb |-> "delete", id |-> id, prior |-> objects[g][id].rev]
  <2>1. Mild(objects[g], op) /\ Commit(g, Owner[g], <<op>>)
    BY <1>2 DEF Mild, Delete
  <2> HIDE DEF op
  <2> QED
    BY <2>1, CommitMoves
<1>3. ASSUME NEW b, NEW o, NEW by, Import(g, b, o, by)
      PROVE  Goal
  <2> DEFINE op == ImportOp(g, b, o)
  <2>1. Mild(objects[g], op) /\ Commit(g, by, <<op>>)
    BY <1>3 DEF Mild, Import, ImportOp
  <2> HIDE DEF op
  <2> QED
    BY <2>1, CommitMoves
<1>4. ASSUME NEW id, Update(g, id)
      PROVE  Goal
  <2> DEFINE old == objects[g][id].content
             op == UpdateOp(objects[g], id)
  <2>1. Lineage([old EXCEPT !.val = "edited"]) \subseteq Lineage(old)
    BY Zenon DEF Lineage
  <2>2. op.id = id /\ op.body = [old EXCEPT !.val = "edited"]
    BY DEF UpdateOp
  <2>3. Commit(g, Owner[g], <<op>>)
    BY <1>4 DEF Update
  <2> HIDE DEF op
  <2>4. Mild(objects[g], op)
    BY <2>1, <2>2 DEF Mild
  <2> QED
    BY <2>3, <2>4, CommitMoves
<1>5. ASSUME NEW k, NEW id, NEW term, Classify(g, k, id, term)
      PROVE  Goal
  <2> DEFINE op == [verb |-> "create", id |-> k, body |-> [subject |-> id, term |-> term]]
  <2>1. Mild(objects[g], op) /\ Commit(g, Owner[g], <<op>>)
    BY <1>5 DEF Mild, Classify
  <2> HIDE DEF op
  <2> QED
    BY <2>1, CommitMoves
<1>6. ASSUME NEW id, Redact(g, id)
      PROVE  Goal
  <2> DEFINE op == [verb |-> "redact-document", id |-> id]
  <2>1. Mild(objects[g], op) /\ Commit(g, Owner[g], <<op>>)
    BY <1>6 DEF Mild, Redact
  <2> HIDE DEF op
  <2> QED
    BY <2>1, CommitMoves
<1>7. ASSUME NEW k, NEW by, MakeBundle(g, k, by)
      PROVE  Goal
  BY <1>7 DEF MakeBundle
<1>8. ASSUME Exchange(g) PROVE Goal
  BY <1>8, <1>1, <1>2, <1>3, <1>7 DEF Exchange, PeerAdd, Grant, Revoke, Write
<1>9. ASSUME Work(g) PROVE Goal
  BY <1>9, <1>2, <1>4, <1>5, <1>6 DEF Work
<1>10. ASSUME NEW p \in held[g], Approve(g, p) PROVE Goal
  BY <1>10, ApproveMoves
<1> QED
  BY <1>8, <1>9, <1>10

-----------------------------------------------------------------------------
\* The invariant.

LEMMA InitFedInv == Init => FedInv
  BY DEF Init, FedInv, IsState

LEMMA MovesFedInv ==
  ASSUME FedInv, NEW g \in Graph, Moves(g)
  PROVE  /\ FedInv'
         /\ \A h \in Graph : Sovereign(objects[h], objects'[h])
<1>1. PICK s : /\ objects' = [objects EXCEPT ![g] = s]
               /\ IsState(s) /\ Sovereign(objects[g], s)
  BY DEF Moves
<1>2. PICK w : /\ held' = [held EXCEPT ![g] = w]
               /\ \A p \in w : MildOps(p.base, p.ops)
  BY DEF Moves
<1>3. /\ objects' = [h \in Graph |-> IF h = g THEN s ELSE objects[h]]
      /\ held' = [h \in Graph |-> IF h = g THEN w ELSE held[h]]
  BY <1>1, <1>2 DEF FedInv
<1> QED
  BY <1>1, <1>2, <1>3, SelfSovereign DEF FedInv

LEMMA StepFedInv ==
  ASSUME FedInv, [Next]_vars
  PROVE  /\ FedInv'
         /\ \A h \in Graph : Sovereign(objects[h], objects'[h])
<1>1. CASE UNCHANGED <<objects, held>>
  BY <1>1, SelfSovereign DEF FedInv
<1>2. CASE UNCHANGED vars
  BY <1>1, <1>2 DEF vars
<1>3. CASE Next
  BY <1>1, <1>3, StepMoves, MovesFedInv DEF Next
<1> QED
  BY <1>2, <1>3

\* Whatever peers share, whatever is imported and whoever approves it: a
\* graph loses no object, a tombstone stays, and content is only replaced by
\* the graph itself, never by what a peer has under the same id.
THEOREM GraphsAreSovereign == Spec => GraphsStaySovereign
<1>1. FedInv /\ [Next]_vars => FedInv'
  BY StepFedInv
<1>2. FedInv /\ [Next]_vars =>
        [\A g \in Graph : \A id \in DOMAIN objects[g] :
           /\ id \in DOMAIN objects'[g]
           /\ objects[g][id].deleted => objects'[g][id].deleted
           /\ objects'[g][id].content # objects[g][id].content =>
                Lineage(objects'[g][id].content) \subseteq Lineage(objects[g][id].content)
        ]_objects
  BY StepFedInv DEF Sovereign
<1> QED
  BY <1>1, <1>2, InitFedInv, PTL DEF Spec, GraphsStaySovereign

-----------------------------------------------------------------------------
\* The ids of a set, in key order.

\* The ids of a set in key order, the first n keys seen.
Orders(ids, n, first) ==
  first = [i \in 0..n |-> IF i = 0 THEN <<>> ELSE KeepIn(ids, first[i-1], Order[i])]

\* The recursion that InOrder is has a value: by induction on its length.
LEMMA OrderExists ==
  ASSUME NEW ids, NEW n \in Nat
  PROVE  \E first : Orders(ids, n, first)
<1> DEFINE good == {m \in Nat : \E first : Orders(ids, m, first)}
<1>1. 0 \in good
  <2>1. Orders(ids, 0, [i \in 0..0 |-> <<>>])
    BY DEF Orders
  <2> QED
    BY <2>1
<1>2. ASSUME NEW m \in 1..n, m - 1 \in good
      PROVE  m \in good
  <2>1. PICK first : Orders(ids, m - 1, first)
    BY <1>2
  <2> DEFINE longer == [i \in 0..m |-> IF i = m THEN KeepIn(ids, first[m-1], Order[m])
                                       ELSE first[i]]
  <2>2. ASSUME NEW i \in 0..m
        PROVE  longer[i] = IF i = 0 THEN <<>> ELSE KeepIn(ids, longer[i-1], Order[i])
    <3>1. CASE i = m
      BY <3>1
    <3>2. CASE i # m
      <4>1. i \in 0..(m-1) /\ (i # 0 => i - 1 \in 0..(m-1) /\ i - 1 # m)
        BY <3>2
      <4>2. first[i] = IF i = 0 THEN <<>> ELSE KeepIn(ids, first[i-1], Order[i])
        BY <2>1, <4>1 DEF Orders
      <4> QED
        BY <4>1, <4>2
    <3> QED
      BY <3>1, <3>2
  <2>3. Orders(ids, m, longer)
    <3>1. longer = [i \in 0..m |-> longer[i]]
      OBVIOUS
    <3> HIDE DEF longer
    <3> QED
      BY <2>2, <3>1 DEF Orders
  <2> QED
    BY <2>3
<1>3. 0..n \subseteq good
  <2> HIDE DEF good
  <2> QED
    BY <1>1, <1>2, Induction
<1> QED
  BY <1>3

\* Append, for sequences of anything.
LEMMA Appended ==
  ASSUME NEW q, IsSeq(q), NEW x
  PROVE  /\ IsSeq(Append(q, x))
         /\ Len(Append(q, x)) = Len(q) + 1
         /\ \A i \in 1..Len(q) : Append(q, x)[i] = q[i]
         /\ Append(q, x)[Len(q) + 1] = x
<1>1. PICK S : q \in Seq(S)
  BY DEF IsSeq
<1>2. Append(q, x) \in Seq(S \cup {x})
  BY <1>1
<1> QED
  BY <1>1, <1>2 DEF IsSeq

\* q lists the members of ids among the first n keys, in key order and once.
Listing(ids, n, q) ==
  /\ IsSeq(q)
  /\ \A a \in 1..Len(q) : \E k \in 1..n : q[a] = Order[k] /\ Order[k] \in ids
  /\ \A k \in 1..n : Order[k] \in ids => \E a \in 1..Len(q) : q[a] = Order[k]
  /\ \A a, b \in 1..Len(q) : q[a] = q[b] => a = b
  /\ Len(q) >= 1 => \E k \in 1..n : /\ q[1] = Order[k]
                                    /\ \A j \in 1..n : j < k => Order[j] \notin ids

\* One more key seen: it is appended if it is wanted, and skipped if not.
LEMMA ListingGrows ==
  ASSUME NEW ids, NEW q, NEW n \in 1..Len(Order), Listing(ids, n - 1, q)
  PROVE  /\ Order[n] \in ids => Listing(ids, n, Append(q, Order[n]))
         /\ Order[n] \notin ids => Listing(ids, n, q)
<1>1. Len(Order) \in Nat /\ n \in Nat /\ DOMAIN Order = 1..Len(Order)
  BY OrderAssumption
<1>2. ASSUME NEW k \in 1..n PROVE k = n \/ k \in 1..(n-1)
  BY <1>1
<1>3. 1..(n-1) \subseteq 1..n /\ n \in 1..n
  BY <1>1
<1>4. IsSeq(q) /\ Len(q) \in Nat
  BY SeqFacts DEF Listing
<1>5. CASE Order[n] \in ids
  <2> DEFINE r == Append(q, Order[n])
             m == Len(q)
  <2>1. IsSeq(r) /\ Len(r) = m + 1 /\ r[m + 1] = Order[n] /\ \A i \in 1..m : r[i] = q[i]
    BY <1>4, Appended
  <2> HIDE DEF r
  <2>2. \A a \in 1..Len(r) : a = m + 1 \/ a \in 1..m
    BY <1>4, <2>1
  <2>3. \A a \in 1..Len(r) : \E k \in 1..n : r[a] = Order[k] /\ Order[k] \in ids
    BY <1>3, <1>5, <2>1, <2>2 DEF Listing
  <2>4. \A k \in 1..n : Order[k] \in ids => \E a \in 1..Len(r) : r[a] = Order[k]
    <3>1. m + 1 \in 1..Len(r) /\ 1..m \subseteq 1..Len(r)
      BY <1>4, <2>1
    <3> QED
      BY <1>2, <2>1, <3>1 DEF Listing
  <2>5. \A a \in 1..m : r[a] # r[m + 1]
    <3> TAKE a \in 1..m
    <3>1. PICK k \in 1..(n-1) : q[a] = Order[k]
      BY DEF Listing
    <3>2. Order[k] # Order[n]
      <4>1. k \in 1..Len(Order) /\ n \in 1..Len(Order) /\ k # n
        BY <1>1
      <4> QED
        BY <1>1, <4>1, OrderAssumption
    <3> QED
      BY <2>1, <3>1, <3>2
  <2>6. \A a, b \in 1..Len(r) : r[a] = r[b] => a = b
    BY <2>1, <2>2, <2>5 DEF Listing
  <2>7. \E k \in 1..n : r[1] = Order[k] /\ \A j \in 1..n : j < k => Order[j] \notin ids
    <3>1. CASE m = 0
      <4>1. r[1] = Order[n]
        BY <2>1, <3>1
      <4>2. \A j \in 1..(n-1) : Order[j] \notin ids
        <5>1. 1..m = {}
          BY <3>1
        <5> QED
          BY <5>1 DEF Listing
      <4>3. \A j \in 1..n : j < n => j \in 1..(n-1)
        BY <1>1
      <4> QED
        BY <1>3, <4>1, <4>2, <4>3
    <3>2. CASE m # 0
      <4>1. m >= 1 /\ 1 \in 1..m /\ r[1] = q[1]
        BY <1>4, <2>1, <3>2
      <4>2. PICK k \in 1..(n-1) : /\ q[1] = Order[k]
                                  /\ \A j \in 1..(n-1) : j < k => Order[j] \notin ids
        BY <4>1 DEF Listing
      <4>3. \A j \in 1..n : j < k => j \in 1..(n-1)
        BY <1>1
      <4> QED
        BY <1>3, <4>1, <4>2, <4>3
    <3> QED
      BY <3>1, <3>2
  <2>8. Listing(ids, n, r)
    BY <2>1, <2>3, <2>4, <2>6, <2>7 DEF Listing
  <2> QED
    BY <1>5, <2>8 DEF r
<1>6. CASE Order[n] \notin ids
  <2>1. \A a \in 1..Len(q) : \E k \in 1..n : q[a] = Order[k] /\ Order[k] \in ids
    BY <1>3 DEF Listing
  <2>2. \A k \in 1..n : Order[k] \in ids => \E a \in 1..Len(q) : q[a] = Order[k]
    BY <1>2, <1>6 DEF Listing
  <2>3. ASSUME Len(q) >= 1
        PROVE  \E k \in 1..n : q[1] = Order[k] /\ \A j \in 1..n : j < k => Order[j] \notin ids
    <3>1. PICK k \in 1..(n-1) : /\ q[1] = Order[k]
                                /\ \A j \in 1..(n-1) : j < k => Order[j] \notin ids
      BY <2>3 DEF Listing
    <3>2. \A j \in 1..n : j < k => j \in 1..(n-1)
      BY <1>1
    <3> QED
      BY <1>3, <3>1, <3>2
  <2> QED
    BY <1>4, <1>6, <2>1, <2>2, <2>3 DEF Listing
<1> QED
  BY <1>5, <1>6

\* What InOrder returns.
LEMMA InOrderLists ==
  ASSUME NEW ids
  PROVE  Listing(ids, Len(Order), InOrder(ids))
<1> DEFINE n == Len(Order)
           first == CHOOSE f : Orders(ids, n, f)
<1>1. n \in Nat
  BY OrderAssumption
<1>2. Orders(ids, n, first)
  BY <1>1, OrderExists
<1>3. InOrder(ids) = first[n]
  BY DEF InOrder, Orders
<1> HIDE DEF first
<1>4. /\ first[0] = <<>>
      /\ \A i \in 1..n : first[i] = KeepIn(ids, first[i-1], Order[i])
  BY <1>1, <1>2 DEF Orders
<1> DEFINE T == {i \in Nat : Listing(ids, i, first[i])}
<1>5. 0 \in T
  <2>1. <<>> \in Seq({}) /\ Len(<<>>) = 0
    OBVIOUS
  <2>2. IsSeq(<<>>) /\ 1..Len(<<>>) = {}
    BY <2>1 DEF IsSeq
  <2>3. 1..0 = {} /\ ~(0 >= 1)
    OBVIOUS
  <2>4. Listing(ids, 0, <<>>)
    BY <2>1, <2>2, <2>3 DEF Listing
  <2> QED
    BY <1>4, <2>4
<1>6. ASSUME NEW i \in 1..n, i - 1 \in T PROVE i \in T
  <2>1. Listing(ids, i - 1, first[i-1])
    BY <1>6
  <2>2. Listing(ids, i, first[i])
    BY <1>4, <2>1, ListingGrows DEF KeepIn
  <2> QED
    BY <2>2
<1>7. 0..n \subseteq T
  <2> HIDE DEF T, n
  <2> QED
    BY <1>1, <1>5, <1>6, Induction
<1> QED
  BY <1>1, <1>3, <1>7

-----------------------------------------------------------------------------
\* Where the objects of a graph come from.  What is said of an operation or a
\* state depends on what was shared and handed out by then, and on the start.

\* Ids that have not been handed out when m have been.
Fresh(m) == {NodeIds[i] : i \in (m + 1)..Len(NodeIds)}

Foreign(start) == UNION {DOMAIN start[g] : g \in Graph}

\* The lineage of a content of g, if it has one, was shared with g.
Told(shared, g, id, content) ==
  (id \in NodeId /\ TypeOf(content) \notin MetaTypes) =>
    \A l \in Lineage(content) :
      \E audience \in {g, "public"} : <<l[1], audience, l[2], l[3]>> \in shared

\* An operation that g may be asked for: it creates nothing under an id still
\* to be handed out, nothing foreign but by an import, has no lineage that was
\* not shared, leaves the policy alone, and redacts only by redacting.
Proper(shared, m, start, g, op) ==
  /\ op.verb = "create" => /\ op.id \notin Fresh(m)
                           /\ "imported" \in DOMAIN op \/ op.id \notin Foreign(start)
  /\ op.verb \in {"create", "update"} => /\ Told(shared, g, op.id, op.body)
                                         /\ op.body # RedactedContent
  /\ op.verb \in {"update", "redact-document"} => op.id # PolicyNode[g]

ProperHeld(shared, m, start, g, p) ==
  /\ p.author \in DOMAIN KeyOf[g]
  /\ \E op : p.ops = <<op>> /\ Proper(shared, m, start, g, op)

\* Every content is what its revision says, or was redacted.
Intact(s) ==
  \A id \in DOMAIN s : /\ s[id].rev # RedactedContent
                       /\ s[id].content \in {s[id].rev, RedactedContent}

\* A state of g: intact, under ids handed out, with content that was shared
\* and the policy of genesis.
Sourced(shared, m, start, g, s) ==
  /\ Intact(s)
  /\ DOMAIN s \subseteq Id \ Fresh(m)
  /\ \A id \in DOMAIN s : Told(shared, g, id, s[id].content)
  /\ PolicyNode[g] \in DOMAIN s
  /\ s[PolicyNode[g]].content.definition = start[g][PolicyNode[g]].definition

\* What a bundle discloses existed, and of nodes other than schema, what is
\* as its revision says was covered by the grant.
Disclosed(shared, m, b) ==
  \A o \in b.objects :
    /\ o.entry.id \in Id \ Fresh(m)
    /\ (o.content = o.entry.rev /\ o.entry.id \in NodeId
          /\ TypeOf(o.content) \notin MetaTypes) =>
         <<b.graph, b.audience, o.entry.id, o.entry.rev>> \in shared

\* A bundle is made of a state.
BuiltFrom(b) ==
  \E s, ids : /\ Intact(s) /\ ids \subseteq DOMAIN s /\ DOMAIN s \subseteq Id
              /\ b.root = MerkleRoot(Leaves(Entries(s)))
              /\ b.objects = BundleObjects(s, Entries(s), ids)

\* What is foreign in a graph that reviews imports was approved.
Reviewed(approvals, start, g, s) ==
  ReviewsImports(start[g][PolicyNode[g]].definition) =>
    DOMAIN s \cap Foreign(start) \subseteq DOMAIN start[g] \cup approvals

SourceInv ==
  /\ FedInv
  /\ scenario \in Scenarios
  /\ minted \in 0..Len(NodeIds)
  /\ approved = [g \in Graph |-> approved[g]]
  /\ \A g \in Graph :
       /\ Sourced(shareable, minted, scenario.start, g, objects[g])
       /\ Covered(g, objects[g]) \subseteq shareable
       /\ Reviewed(approved[g], scenario.start, g, objects[g])
       /\ \A p \in held[g] : ProperHeld(shareable, minted, scenario.start, g, p)
  /\ \A b \in bundles : BuiltFrom(b) /\ Disclosed(shareable, minted, b)

\* At genesis nothing was imported, minted, held or bundled.
LEMMA InitSourceInv == Init => SourceInv
<1> SUFFICES ASSUME Init PROVE SourceInv
  OBVIOUS
<1> USE DEF Init
<1>1. FedInv
  BY InitFedInv
<1>2. Len(NodeIds) \in Nat /\ DOMAIN NodeIds = 1..Len(NodeIds)
  BY FederationAssumption
<1>3. Fresh(minted) = {NodeIds[i] : i \in DOMAIN NodeIds}
  BY <1>2 DEF Fresh
<1>4. ASSUME NEW g \in Graph
      PROVE  LET genesis == scenario.start[g]
             IN  /\ DOMAIN objects[g] = DOMAIN genesis
                 /\ \A id \in DOMAIN genesis : objects[g][id].content = genesis[id]
  OBVIOUS
<1>5. ASSUME NEW g \in Graph
      PROVE  Sourced(shareable, minted, scenario.start, g, objects[g])
  <2> DEFINE genesis == scenario.start[g]
  <2>1. DOMAIN genesis \subseteq Id \ Fresh(minted) /\ PolicyNode[g] \in DOMAIN genesis
    BY <1>3, FederationAssumption
  <2>2. ASSUME NEW id \in DOMAIN genesis
        PROVE  Told(shareable, g, id, objects[g][id].content)
    BY <1>4, FederationAssumption DEF Told, Lineage
  <2>3. Intact(objects[g])
    BY FederationAssumption DEF Intact
  <2> QED
    BY <1>4, <2>1, <2>2, <2>3 DEF Sourced
<1>6. ASSUME NEW g \in Graph PROVE Covered(g, objects[g]) \subseteq shareable
  OBVIOUS
<1>7. ASSUME NEW g \in Graph PROVE Reviewed(approved[g], scenario.start, g, objects[g])
  BY <1>4 DEF Reviewed
<1>8. scenario \in Scenarios /\ minted \in 0..Len(NodeIds)
  BY <1>2
<1>9. /\ approved = [g \in Graph |-> approved[g]]
      /\ \A g \in Graph : held[g] = {}
      /\ bundles = {}
  OBVIOUS
<1> QED
  BY <1>1, <1>5, <1>6, <1>7, <1>8, <1>9 DEF SourceInv

\* The more is handed out, the less is left.
LEMMA FreshShrinks ==
  ASSUME NEW m \in Nat, NEW n \in Nat, m <= n
  PROVE  Fresh(n) \subseteq Fresh(m)
<1>1. Len(NodeIds) \in Nat
  BY FederationAssumption
<1> QED
  BY <1>1 DEF Fresh

\* What was shared stays shared, and what was handed out stays handed out.
LEMMA SourcesStay ==
  ASSUME NEW shared, NEW more, NEW m \in Nat, NEW n \in Nat, NEW start, NEW g,
         shared \subseteq more, m <= n
  PROVE  /\ \A id, c : Told(shared, g, id, c) => Told(more, g, id, c)
         /\ \A op : Proper(shared, m, start, g, op) => Proper(more, n, start, g, op)
         /\ \A p : ProperHeld(shared, m, start, g, p) => ProperHeld(more, n, start, g, p)
         /\ \A s : Sourced(shared, m, start, g, s) => Sourced(more, n, start, g, s)
         /\ \A b : Disclosed(shared, m, b) => Disclosed(more, n, b)
<1>1. Fresh(n) \subseteq Fresh(m)
  BY FreshShrinks
<1>2. \A id, c : Told(shared, g, id, c) => Told(more, g, id, c)
  BY DEF Told
<1>3. \A op : Proper(shared, m, start, g, op) => Proper(more, n, start, g, op)
  BY <1>1, <1>2 DEF Proper
<1>4. \A p : ProperHeld(shared, m, start, g, p) => ProperHeld(more, n, start, g, p)
  BY <1>3 DEF ProperHeld
<1>5. \A s : Sourced(shared, m, start, g, s) => Sourced(more, n, start, g, s)
  BY <1>1, <1>2 DEF Sourced
<1>6. \A b : Disclosed(shared, m, b) => Disclosed(more, n, b)
  BY <1>1 DEF Disclosed
<1> QED
  BY <1>2, <1>3, <1>4, <1>5, <1>6

\* A changeset of one operation does what the operation does.
LEMMA OneOperation ==
  ASSUME NEW reg, NEW s, NEW op, ApplyChangeset(reg, s, <<op>>).ok
  PROVE  /\ OpAllowed(reg, s, op)
         /\ ApplyChangeset(reg, s, <<op>>).objects = OpEffect(s, op)
<1> DEFINE ops == <<op>>
<1>1. ApplyOps(reg, s, ops).ok /\ ApplyChangeset(reg, s, ops) = ApplyOps(reg, s, ops)
  BY DEF ApplyChangeset
<1>2. Len(ops) = 1 /\ Len(ops) \in Nat /\ ops[1] = op
  OBVIOUS
<1> HIDE DEF ops
<1>3. PICK states : /\ Accepts(reg, s, ops, states)
                    /\ ApplyOps(reg, s, ops) = [ok |-> TRUE, objects |-> states[1]]
  <2>1. PICK states : /\ Accepts(reg, s, ops, states)
                      /\ ApplyOps(reg, s, ops) = [ok |-> TRUE, objects |-> states[Len(ops)]]
    BY <1>1, <1>2, AcceptedStates
  <2> QED
    BY <1>2, <2>1
<1>4. 1 \in 1..Len(ops) /\ 1 - 1 = 0
  BY <1>2
<1>5. OpAllowed(reg, s, op) /\ states[1] = OpEffect(s, op)
  BY <1>2, <1>3, <1>4 DEF Accepts
<1> QED
  BY <1>1, <1>3, <1>5 DEF ops

\* What an operation may add to the objects of a state.
Creates(op) == IF op.verb = "create" THEN {op.id} ELSE {}

\* A proper operation leads from a sourced state to one.
LEMMA ProperEffect ==
  ASSUME NEW shared, NEW m, NEW start, NEW g, NEW reg, NEW s, NEW op, IsState(s),
         Sourced(shared, m, start, g, s), Proper(shared, m, start, g, op),
         OpAllowed(reg, s, op)
  PROVE  /\ Sourced(shared, m, start, g, OpEffect(s, op))
         /\ DOMAIN OpEffect(s, op) = DOMAIN s \cup Creates(op)
<1> USE DEF OpEffect, OpAllowed, Put, Obj, PriorMatches, Live, IsState, Sourced, Proper,
            Intact, Creates
<1>1. CASE op.verb = "create"
  <2>1. op.id \in Id
    BY <1>1 DEF ValidPayload, Id
  <2> QED
    BY <1>1, <2>1
<1>2. CASE op.verb = "update"
  BY <1>2
<1>3. CASE op.verb = "delete"
  BY <1>3
<1>4. CASE op.verb = "redact-document"
  <2>1. \A id : Told(shared, g, id, RedactedContent)
    BY DEF Told, Lineage, RedactedContent
  <2> QED
    BY <1>4, <2>1
<1>5. CASE op.verb \notin {"create", "update", "delete", "redact-document"}
  BY <1>5
<1> QED
  BY <1>1, <1>2, <1>3, <1>4, <1>5

-----------------------------------------------------------------------------
\* A rule on imports that asks for an approval holds back what is imported.
LEMMA ImportsAreHeld ==
  ASSUME NEW g, NEW author, NEW op, "imported" \in DOMAIN op,
         ReviewsImports(ThePolicy(g))
  PROVE  ~Admissible(g, author, <<op>>, {})
<1> DEFINE reg == Registry(g)
           policy == ThePolicy(g)
           s == objects[g]
           ops == <<op>>
           kind == AuthorKind(s, author)
           checklist == Evaluate(reg, policy, s, ops, kind)
<1>1. PICK rule \in policy.rules :
        /\ rule.select = {{[negated |-> FALSE, map |-> [imported |-> TRUE]]}}
        /\ \E need \in rule.reviewers : need[2] \in Nat \ {0}
  BY DEF ReviewsImports
<1>2. PICK need \in rule.reviewers : need[2] \in Nat \ {0}
  BY <1>1
<1>3. OpContext(reg, s, ops, op).imported = TRUE
  BY DEF OpContext
<1>4. SelectorMatches(reg, rule.select, kind, OpContext(reg, s, ops, op))
  <2> DEFINE literal == [negated |-> FALSE, map |-> [imported |-> TRUE]]
             ctx == OpContext(reg, s, ops, op)
  <2>1. ctx.imported = TRUE
    BY <1>3
  <2> HIDE DEF ctx, kind, reg
  <2>2. MapMatches(reg, [imported |-> TRUE], kind, ctx) = TRUE
    BY <2>1 DEF MapMatches
  <2>3. {literal} \in rule.select
    BY <1>1
  <2>4. literal.map = [imported |-> TRUE] /\ literal.negated = FALSE
    OBVIOUS
  <2> HIDE DEF literal
  <2>5. \A l \in {literal} : MapMatches(reg, l.map, kind, ctx) # l.negated
    BY <2>2, <2>4
  <2> QED
    BY <2>3, <2>5 DEF SelectorMatches, ctx
<1>5. 1 \in DOMAIN ops /\ ops[1] = op
  OBVIOUS
<1>6. rule \in MatchingRules(reg, policy, s, ops, ops[1], kind)
  BY <1>1, <1>4, <1>5 DEF MatchingRules
<1> HIDE DEF reg, policy, s, ops, kind
<1>7. need \in checklist.reviewers
  BY <1>2, <1>5, <1>6 DEF Evaluate
<1>8. Approvals(s, policy, "proposal", need[1], {}) = {}
  BY DEF Approvals
<1>9. ~ReviewersMet(s, policy, "proposal", checklist, {})
  <2>1. ~(Cardinality({}) >= need[2])
    BY <1>2, FS_EmptySet
  <2> HIDE DEF checklist
  <2>2. ReviewersMet(s, policy, "proposal", checklist, {}) =>
          Cardinality(Approvals(s, policy, "proposal", need[1], {})) >= need[2]
    BY <1>7, Zenon DEF ReviewersMet
  <2> QED
    BY <1>8, <2>1, <2>2
<1>10. ~Satisfied(s, policy, {Owner[g]}, author, "proposal", checklist,
                  [decisions |-> {}, envelopes |-> {}], {})
  BY <1>9 DEF Satisfied
<1> QED
  BY <1>10 DEF Admissible, reg, policy, s, ops, kind

-----------------------------------------------------------------------------
\* What a graph may be asked for.

\* A commit of one proper operation, with what it hands out.
Asked(g) ==
  /\ minted' \in minted..Len(NodeIds)
  /\ \E op : \E author \in DOMAIN KeyOf[g] :
       /\ Proper(shareable, minted', scenario.start, g, op)
       /\ Commit(g, author, <<op>>)

\* How many ids were handed out is a number.
LEMMA MintedIsNat == SourceInv => minted \in Nat /\ Len(NodeIds) \in Nat
  BY FederationAssumption DEF SourceInv

\* peer add and grant create a node under the next id, with no lineage.
LEMMA CreateNodeAsked ==
  ASSUME SourceInv, NEW g \in Graph, NEW content, CreateNode(g, content),
         "derived" \notin DOMAIN content, content # RedactedContent
  PROVE  Asked(g)
<1> DEFINE op == [verb |-> "create", id |-> NodeIds[minted + 1], body |-> content]
<1>1. /\ minted' = minted + 1 /\ minted + 1 \in DOMAIN NodeIds
      /\ minted' \in minted..Len(NodeIds)
  <2>1. DOMAIN NodeIds = 1..Len(NodeIds)
    BY FederationAssumption
  <2> QED
    BY <2>1, MintedIsNat DEF CreateNode
<1>2. NodeIds[minted + 1] \notin Fresh(minted')
  <2>1. DOMAIN NodeIds = 1..Len(NodeIds)
    BY FederationAssumption
  <2>2. \A i \in (minted + 2)..Len(NodeIds) : i \in DOMAIN NodeIds /\ i # minted + 1
    BY <2>1, MintedIsNat
  <2>3. (minted + 1) + 1 = minted + 2
    BY MintedIsNat
  <2> QED
    BY <1>1, <2>2, <2>3, FederationAssumption DEF Fresh
<1>3. NodeIds[minted + 1] \notin Foreign(scenario.start)
  BY <1>1, FederationAssumption DEF Foreign, SourceInv
<1>4. Proper(shareable, minted', scenario.start, g, op)
  BY <1>2, <1>3 DEF Proper, Told, Lineage
<1>5. Commit(g, Owner[g], <<op>>) /\ Owner[g] \in DOMAIN KeyOf[g]
  BY FederationAssumption DEF CreateNode
<1> HIDE DEF op
<1> QED
  BY <1>1, <1>4, <1>5 DEF Asked

\* The other operations hand out nothing.
LEMMA AskedByKey ==
  ASSUME SourceInv, NEW g \in Graph, NEW author \in DOMAIN KeyOf[g], NEW op,
         Proper(shareable, minted, scenario.start, g, op), Commit(g, author, <<op>>),
         UNCHANGED minted
  PROVE  Asked(g)
<1>1. minted \in minted..Len(NodeIds)
  BY MintedIsNat DEF SourceInv
<1> QED
  BY <1>1 DEF Asked

\* Deleting creates nothing.
LEMMA DeleteAsked ==
  ASSUME SourceInv, NEW g \in Graph, NEW id, Delete(g, id)
  PROVE  Asked(g)
<1> DEFINE op == [verb |-> "delete", id |-> id, prior |-> objects[g][id].rev]
<1>1. Proper(shareable, minted, scenario.start, g, op)
  BY DEF Proper
<1>2. Commit(g, Owner[g], <<op>>) /\ Owner[g] \in DOMAIN KeyOf[g] /\ UNCHANGED minted
  BY FederationAssumption DEF Delete
<1> HIDE DEF op
<1> QED
  BY <1>1, <1>2, AskedByKey

\* An import is proper: what a bundle discloses was shared with the audience
\* it was verified for, and its content is as the revision says.
LEMMA ImportAsked ==
  ASSUME SourceInv, NEW g \in Graph, NEW b \in bundles, NEW o \in b.objects,
         NEW by \in DOMAIN KeyOf[g], Import(g, b, o, by)
  PROVE  Asked(g)
<1> DEFINE op == ImportOp(g, b, o)
           id == o.entry.id
           body == op.body
<1>1. o.content = o.entry.rev /\ b.audience \in {g, "public"}
  BY DEF Import, VerifyBundle, ObjectVerifies, AudienceIs
<1>2. /\ id \notin Fresh(minted)
      /\ (id \in NodeId /\ TypeOf(o.content) \notin MetaTypes) =>
           <<b.graph, b.audience, id, o.entry.rev>> \in shareable
  BY <1>1 DEF SourceInv, Disclosed
<1>3. /\ DOMAIN body = DOMAIN o.content \cup {"derived"}
      /\ body.derived = <<b.graph, id, o.entry.rev>>
      /\ "type" \in DOMAIN o.content => body.type = o.content.type
  BY DEF ImportOp
<1>4. op.verb = "create" /\ op.id = id /\ "imported" \in DOMAIN op
  BY DEF ImportOp
<1> HIDE DEF op
<1>5. TypeOf(body) = TypeOf(o.content) /\ Lineage(body) = {<<b.graph, id, o.entry.rev>>}
  BY <1>3 DEF TypeOf, Lineage
<1>6. Told(shareable, g, id, body)
  <2> DEFINE l == <<b.graph, id, o.entry.rev>>
  <2>1. l[1] = b.graph /\ l[2] = id /\ l[3] = o.entry.rev
    OBVIOUS
  <2> HIDE DEF l, id, body
  <2>2. Lineage(body) = {l}
    BY <1>5 DEF l
  <2> QED
    BY <1>1, <1>2, <1>5, <2>1, <2>2 DEF Told
<1>7. body # RedactedContent
  BY <1>3 DEF RedactedContent
<1>8. Proper(shareable, minted, scenario.start, g, op)
  BY <1>2, <1>4, <1>6, <1>7 DEF Proper
<1>9. Commit(g, by, <<op>>) /\ UNCHANGED minted
  BY DEF Import, op
<1> QED
  BY <1>8, <1>9, AskedByKey

\* An update keeps lineage and type.
LEMMA UpdateAsked ==
  ASSUME SourceInv, NEW g \in Graph, NEW id, Update(g, id), id # PolicyNode[g]
  PROVE  Asked(g)
<1> DEFINE old == objects[g][id].content
           new == [old EXCEPT !.val = "edited"]
           op == UpdateOp(objects[g], id)
<1>1. Told(shareable, g, id, old) /\ "val" \in DOMAIN old
  BY DEF Update, Live, SourceInv, Sourced
<1>2. Lineage(new) = Lineage(old) /\ TypeOf(new) = TypeOf(old)
  BY Zenon DEF Lineage, TypeOf
<1>3. new # RedactedContent
  <2>1. "val" \in DOMAIN new
    BY <1>1, Zenon
  <2> HIDE DEF new
  <2> QED
    BY <2>1 DEF RedactedContent
<1>4. Commit(g, Owner[g], <<op>>) /\ Owner[g] \in DOMAIN KeyOf[g] /\ UNCHANGED minted
  BY FederationAssumption DEF Update
<1>5. op.verb = "update" /\ op.id = id /\ op.body = new
  BY DEF UpdateOp
<1> HIDE DEF new, old, op
<1>6. Told(shareable, g, id, new)
  BY <1>1, <1>2 DEF Told
<1>7. Proper(shareable, minted, scenario.start, g, op)
  BY <1>3, <1>5, <1>6 DEF Proper
<1> QED
  BY <1>4, <1>7, AskedByKey

\* A classification has no lineage, and an id of its own.
LEMMA ClassifyAsked ==
  ASSUME SourceInv, NEW g \in Graph, NEW mark \in scenario.marks, NEW id,
         Classify(g, mark[2], id, mark[3])
  PROVE  Asked(g)
<1> DEFINE op == [verb |-> "create", id |-> mark[2],
                  body |-> [subject |-> id, term |-> mark[3]]]
<1>1. mark[2] \notin Fresh(minted) /\ mark[2] \notin Foreign(scenario.start)
  <2>1. DOMAIN NodeIds = 1..Len(NodeIds)
    BY FederationAssumption
  <2>2. \A i \in (minted + 1)..Len(NodeIds) : i \in DOMAIN NodeIds
    BY <2>1, MintedIsNat
  <2> QED
    BY <2>2, FederationAssumption DEF Fresh, Foreign, SourceInv
<1>2. [subject |-> id, term |-> mark[3]] # RedactedContent
  BY DEF RedactedContent
<1>3. Proper(shareable, minted, scenario.start, g, op)
  BY <1>1, <1>2 DEF Proper, Told, Lineage
<1>4. Commit(g, Owner[g], <<op>>) /\ Owner[g] \in DOMAIN KeyOf[g] /\ UNCHANGED minted
  BY FederationAssumption DEF Classify
<1> HIDE DEF op
<1> QED
  BY <1>3, <1>4, AskedByKey

\* Redacting creates nothing.
LEMMA RedactAsked ==
  ASSUME SourceInv, NEW g \in Graph, NEW id, Redact(g, id), id # PolicyNode[g]
  PROVE  Asked(g)
<1> DEFINE op == [verb |-> "redact-document", id |-> id]
<1>1. Proper(shareable, minted, scenario.start, g, op)
  BY DEF Proper
<1>2. Commit(g, Owner[g], <<op>>) /\ Owner[g] \in DOMAIN KeyOf[g] /\ UNCHANGED minted
  BY FederationAssumption DEF Redact
<1> HIDE DEF op
<1> QED
  BY <1>1, <1>2, AskedByKey

\* Every step is a proper request, an approval, or makes a bundle.
LEMMA StepAsks ==
  ASSUME SourceInv, NEW g \in Graph,
         Exchange(g) \/ Work(g) \/ (\E p \in held[g] : Approve(g, p))
  PROVE  \/ Asked(g)
         \/ \E p \in held[g] : Approve(g, p)
         \/ \E k, by : MakeBundle(g, k, by)
<1>1. ASSUME Exchange(g)
      PROVE  Asked(g) \/ \E k, by : MakeBundle(g, k, by)
  <2>1. ASSUME NEW peer, NEW key, PeerAdd(g, peer, key) PROVE Asked(g)
    <3> DEFINE content == [type |-> "core/Peer", graph |-> peer, root |-> key]
    <3>1. "derived" \notin DOMAIN content /\ content # RedactedContent
      BY DEF RedactedContent
    <3>2. CreateNode(g, content)
      BY <2>1 DEF PeerAdd
    <3> HIDE DEF content
    <3> QED
      BY <3>1, <3>2, CreateNodeAsked
  <2>2. ASSUME NEW audience, NEW region, Grant(g, audience, region) PROVE Asked(g)
    <3> DEFINE content == [type |-> "core/Grant", audience |-> audience, region |-> region]
    <3>1. "derived" \notin DOMAIN content /\ content # RedactedContent
      BY DEF RedactedContent
    <3>2. CreateNode(g, content)
      BY <2>2 DEF Grant
    <3> HIDE DEF content
    <3> QED
      BY <3>1, <3>2, CreateNodeAsked
  <2>3. ASSUME NEW k, Revoke(g, k) PROVE Asked(g)
    BY <2>3, DeleteAsked DEF Revoke
  <2>5. ASSUME NEW content \in scenario.writes, Write(g, content[2]) PROVE Asked(g)
    <3>1. "derived" \notin DOMAIN content[2] /\ content[2] # RedactedContent
      BY FederationAssumption DEF SourceInv
    <3> QED
      BY <2>5, <3>1, CreateNodeAsked DEF Write
  <2>4. ASSUME NEW b \in bundles, NEW o \in b.objects, NEW by \in DOMAIN KeyOf[g],
               Import(g, b, o, by)
        PROVE  Asked(g)
    BY <2>4, ImportAsked
  <2> QED
    BY <1>1, <2>1, <2>2, <2>3, <2>4, <2>5 DEF Exchange
<1>2. ASSUME Work(g) PROVE Asked(g)
  <2>1. PolicyNode[g] \notin scenario.subjects
    BY FederationAssumption DEF SourceInv
  <2>2. PICK id \in scenario.subjects :
          \/ Update(g, id) \/ Delete(g, id) \/ Redact(g, id)
          \/ \E c \in scenario.marks : Classify(g, c[2], id, c[3])
    BY <1>2 DEF Work
  <2>3. id # PolicyNode[g]
    BY <2>1
  <2> QED
    BY <2>2, <2>3, UpdateAsked, DeleteAsked, RedactAsked, ClassifyAsked
<1> QED
  BY <1>1, <1>2

-----------------------------------------------------------------------------
\* The invariant is kept.

\* Graphs that a step leaves alone, when more is shared, handed out and
\* approved than before.
LEMMA OthersStay ==
  ASSUME SourceInv, shareable \subseteq shareable', minted' \in minted..Len(NodeIds),
         UNCHANGED scenario, NEW h \in Graph, objects'[h] = objects[h],
         approved[h] \subseteq approved'[h]
  PROVE  /\ Sourced(shareable', minted', scenario'.start, h, objects'[h])
         /\ Covered(h, objects'[h]) \subseteq shareable'
         /\ Reviewed(approved'[h], scenario'.start, h, objects'[h])
         /\ \A p \in held[h] : ProperHeld(shareable', minted', scenario'.start, h, p)
<1>1. minted \in Nat /\ minted' \in Nat /\ minted <= minted'
  BY MintedIsNat
<1>2. Sourced(shareable', minted', scenario.start, h, objects[h])
  BY <1>1, SourcesStay DEF SourceInv
<1>3. \A p \in held[h] : ProperHeld(shareable', minted', scenario.start, h, p)
  BY <1>1, SourcesStay DEF SourceInv
<1>4. Covered(h, objects'[h]) \subseteq shareable'
  BY DEF SourceInv
<1>5. Reviewed(approved'[h], scenario.start, h, objects[h])
  BY DEF SourceInv, Reviewed
<1> QED
  BY <1>2, <1>3, <1>4, <1>5

\* A proper operation that applies keeps the invariant, whether it was
\* committed or approved.
LEMMA AppliedStays ==
  ASSUME SourceInv, FedInv', NEW g \in Graph, NEW op, NEW m \in minted..Len(NodeIds),
         minted' = m, Proper(shareable, m, scenario.start, g, op), Apply(g, <<op>>),
         UNCHANGED <<scenario, bundles>>,
         \A h \in Graph : held'[h] \subseteq held[h] /\ approved[h] \subseteq approved'[h],
         approved' = [h \in Graph |-> approved'[h]],
         ReviewsImports(ThePolicy(g)) /\ "imported" \in DOMAIN op => op.id \in approved'[g]
  PROVE  SourceInv'
<1> DEFINE start == scenario.start
           result == ApplyChangeset(Registry(g), objects[g], <<op>>)
           s == objects[g]
           t == OpEffect(s, op)
<1>1. /\ result.ok /\ objects' = [objects EXCEPT ![g] = result.objects]
      /\ shareable' = shareable \cup Covered(g, result.objects)
  BY DEF Apply, Advance
<1>2. OpAllowed(Registry(g), s, op) /\ result.objects = t
  BY <1>1, OneOperation
<1>3. objects' = [h \in Graph |-> IF h = g THEN t ELSE objects[h]]
  BY <1>1, <1>2 DEF SourceInv, FedInv
<1>4. /\ minted \in Nat /\ m \in Nat /\ minted <= m /\ m \in 0..Len(NodeIds)
      /\ shareable \subseteq shareable'
  BY <1>1, MintedIsNat
<1>5. Sourced(shareable', m, start, g, s) /\ Proper(shareable', m, start, g, op)
  <2>1. Sourced(shareable, minted, start, g, s)
    BY DEF SourceInv
  <2>2. Sourced(shareable', m, start, g, s)
    BY <1>4, <2>1, SourcesStay
  <2>3. m <= m
    BY <1>4
  <2> QED
    BY <1>4, <2>2, <2>3, SourcesStay
<1>6. IsState(s)
  BY DEF SourceInv, FedInv
<1> HIDE DEF t, result
<1>7. Sourced(shareable', m, start, g, t) /\ DOMAIN t = DOMAIN s \cup Creates(op)
  <2>1. PICK reg, s0, sh, begin : /\ reg = Registry(g) /\ s0 = s
                                  /\ sh = shareable' /\ begin = start
    OBVIOUS
  <2> HIDE DEF s, start
  <2>2. /\ OpAllowed(reg, s0, op) /\ IsState(s0)
        /\ Sourced(sh, m, begin, g, s0) /\ Proper(sh, m, begin, g, op)
    BY <1>2, <1>5, <1>6, <2>1
  <2>3. /\ Sourced(sh, m, begin, g, OpEffect(s0, op))
        /\ DOMAIN OpEffect(s0, op) = DOMAIN s0 \cup Creates(op)
    BY <2>2, ProperEffect
  <2> QED
    BY <2>1, <2>3 DEF t
<1>8. Covered(g, t) \subseteq shareable'
  BY <1>1, <1>2
<1>9. Reviewed(approved'[g], start, g, t)
  <2> SUFFICES ASSUME ReviewsImports(start[g][PolicyNode[g]].definition)
               PROVE  DOMAIN t \cap Foreign(start) \subseteq
                        DOMAIN start[g] \cup approved'[g]
    BY DEF Reviewed
  <2>1. ReviewsImports(ThePolicy(g))
    BY <1>5 DEF ThePolicy, Sourced
  <2>2. DOMAIN s \cap Foreign(start) \subseteq DOMAIN start[g] \cup approved[g]
    BY DEF SourceInv, Reviewed
  <2>3. Creates(op) \cap Foreign(start) \subseteq approved'[g]
    BY <1>5, <2>1 DEF Creates, Proper
  <2> QED
    BY <1>7, <2>2, <2>3
<1>10. ASSUME NEW h \in Graph
       PROVE  /\ Sourced(shareable', minted', scenario'.start, h, objects'[h])
              /\ Covered(h, objects'[h]) \subseteq shareable'
              /\ Reviewed(approved'[h], scenario'.start, h, objects'[h])
              /\ \A p \in held'[h] : ProperHeld(shareable', minted', scenario'.start, h, p)
  <2>1. CASE h # g
    <3>1. objects'[h] = objects[h]
      BY <1>3, <2>1
    <3> QED
      BY <1>4, <3>1, OthersStay
  <2>2. CASE h = g
    <3>1. objects'[h] = t
      BY <1>3, <2>2
    <3>2. \A p \in held[h] : ProperHeld(shareable', m, start, h, p)
      BY <1>4, SourcesStay DEF SourceInv
    <3> QED
      BY <1>7, <1>8, <1>9, <2>2, <3>1, <3>2
  <2> QED
    BY <2>1, <2>2
<1>11. \A b \in bundles' : BuiltFrom(b) /\ Disclosed(shareable', minted', b)
  BY <1>4, SourcesStay DEF SourceInv
<1>12. scenario' \in Scenarios /\ minted' \in 0..Len(NodeIds)
  BY <1>4 DEF SourceInv
<1> QED
  BY <1>10, <1>11, <1>12 DEF SourceInv

\* The sources say the same when nothing that they depend on changes.
LEMMA AskedStays ==
  ASSUME SourceInv, FedInv', NEW g \in Graph, Asked(g)
  PROVE  SourceInv'
<1>0. PICK m \in minted..Len(NodeIds) : m = minted'
  BY DEF Asked
<1>1. PICK op : \E author \in DOMAIN KeyOf[g] :
        /\ m = minted'
        /\ Proper(shareable, m, scenario.start, g, op)
        /\ Commit(g, author, <<op>>)
  BY <1>0 DEF Asked
<1> PICK author \in DOMAIN KeyOf[g] : Commit(g, author, <<op>>)
  BY <1>1
<1>2. approved' = approved /\ UNCHANGED <<scenario, bundles>>
  BY <1>1 DEF Commit
<1>3. approved = [h \in Graph |-> approved[h]]
  BY DEF SourceInv
<1>4. CASE Admissible(g, author, <<op>>, {}) /\ Apply(g, <<op>>) /\ UNCHANGED held
  <2>1. ~(ReviewsImports(ThePolicy(g)) /\ "imported" \in DOMAIN op)
    BY <1>4, ImportsAreHeld
  <2>2. minted' = m
    BY <1>1
  <2> QED
    BY <1>1, <1>2, <1>3, <1>4, <2>1, <2>2, AppliedStays
<1>5. CASE /\ held' = [held EXCEPT ![g] = @ \cup
                        {[author |-> author, ops |-> <<op>>, base |-> objects[g]]}]
           /\ UNCHANGED <<objects, shareable>>
  <2> DEFINE new == [author |-> author, ops |-> <<op>>, base |-> objects[g]]
  <2>1. ProperHeld(shareable, m, scenario.start, g, new)
    BY <1>1 DEF ProperHeld
  <2>2. held' = [h \in Graph |-> IF h = g THEN held[h] \cup {new} ELSE held[h]]
    BY <1>5 DEF SourceInv, FedInv
  <2>3. minted' \in minted..Len(NodeIds) /\ m \in 0..Len(NodeIds)
        /\ minted \in Nat /\ m \in Nat /\ minted <= m
    BY <1>1, MintedIsNat
  <2> HIDE DEF new
  <2>4. ASSUME NEW h \in Graph
        PROVE  /\ Sourced(shareable', minted', scenario'.start, h, objects'[h])
               /\ Covered(h, objects'[h]) \subseteq shareable'
               /\ Reviewed(approved'[h], scenario'.start, h, objects'[h])
               /\ \A p \in held[h] : ProperHeld(shareable', minted', scenario'.start, h, p)
    BY <1>2, <1>5, <2>3, OthersStay
  <2>5. \A h \in Graph : \A p \in held'[h] :
          ProperHeld(shareable', minted', scenario'.start, h, p)
    BY <1>1, <1>2, <1>5, <2>1, <2>2, <2>4
  <2>6. \A b \in bundles' : BuiltFrom(b) /\ Disclosed(shareable', minted', b)
    BY <1>1, <1>2, <1>5, <2>3, SourcesStay DEF SourceInv
  <2>7. scenario' \in Scenarios /\ minted' \in 0..Len(NodeIds)
    BY <1>1, <1>2, <2>3 DEF SourceInv
  <2> QED
    BY <1>2, <1>3, <2>4, <2>5, <2>6, <2>7 DEF SourceInv
<1> QED
  BY <1>1, <1>4, <1>5 DEF Commit

\* An approval applies what was held, which was proper when it was committed.
LEMMA ApproveStays ==
  ASSUME SourceInv, FedInv', NEW g \in Graph, NEW p \in held[g], Approve(g, p)
  PROVE  SourceInv'
<1>1. PICK op : p.ops = <<op>> /\ Proper(shareable, minted, scenario.start, g, op)
  BY DEF SourceInv, ProperHeld
<1>2. /\ Apply(g, <<op>>) /\ UNCHANGED <<scenario, minted, bundles>>
      /\ held' = [held EXCEPT ![g] = @ \ {p}]
      /\ approved' = [approved EXCEPT ![g] = @ \cup IdsIn(<<op>>)]
  BY <1>1 DEF Approve
<1>3. op.id \in IdsIn(<<op>>)
  BY DEF IdsIn
<1>4. approved' = [h \in Graph |-> IF h = g THEN approved[g] \cup IdsIn(<<op>>)
                                   ELSE approved[h]]
  BY <1>2 DEF SourceInv
<1>5. \A h \in Graph : held'[h] \subseteq held[h]
  BY <1>2 DEF SourceInv, FedInv
<1>6. minted \in minted..Len(NodeIds)
  BY MintedIsNat DEF SourceInv
<1>7. PICK m \in minted..Len(NodeIds) : m = minted
  BY <1>6
<1>8. minted' = m /\ Proper(shareable, m, scenario.start, g, op)
  BY <1>1, <1>2, <1>7
<1>9. /\ \A h \in Graph : approved[h] \subseteq approved'[h]
      /\ approved' = [h \in Graph |-> approved'[h]]
      /\ op.id \in approved'[g]
  BY <1>3, <1>4
<1> QED
  BY <1>2, <1>5, <1>8, <1>9, AppliedStays

-----------------------------------------------------------------------------
\* Bundles.

\* State entries: one for each object, with its id and revision.
LEMMA EntriesOfState ==
  ASSUME NEW s
  PROVE  LET entries == Entries(s)
         IN  /\ IsSeq(Leaves(entries)) /\ DOMAIN entries = 1..Len(entries)
             /\ Len(Leaves(entries)) = Len(entries)
             /\ \A i \in DOMAIN entries : /\ Leaves(entries)[i] = Leaf(entries[i])
                                          /\ entries[i].id \in DOMAIN s
                                          /\ entries[i].rev = s[entries[i].id].rev
             /\ \A i, j \in DOMAIN entries : entries[i].id = entries[j].id => i = j
<1> DEFINE ids == InOrder(DOMAIN s)
           entries == Entries(s)
           Entry(i) == [id |-> ids[i], rev |-> s[ids[i]].rev, deleted |-> s[ids[i]].deleted]
<1>1. Listing(DOMAIN s, Len(Order), ids)
  BY InOrderLists
<1>2. IsSeq(ids) /\ Len(ids) \in Nat /\ DOMAIN ids = 1..Len(ids)
  BY <1>1, SeqFacts DEF Listing
<1>3. /\ \A i \in 1..Len(ids) : ids[i] \in DOMAIN s
      /\ \A i, j \in 1..Len(ids) : ids[i] = ids[j] => i = j
  BY <1>1 DEF Listing
<1> HIDE DEF ids
<1>4. entries = [i \in 1..Len(ids) |-> Entry(i)]
  BY <1>2 DEF Entries, ids
<1>5. Len(entries) = Len(ids) /\ DOMAIN entries = 1..Len(ids)
  BY <1>2, <1>4
<1>6. \A i \in 1..Len(ids) : entries[i].id = ids[i] /\ entries[i].rev = s[ids[i]].rev
  BY <1>4
<1> HIDE DEF entries
<1>7. Leaves(entries) = [i \in 1..Len(ids) |-> Leaf(entries[i])]
  BY <1>5 DEF Leaves
<1>8. IsSeq(Leaves(entries)) /\ Len(Leaves(entries)) = Len(ids)
  <2> DEFINE q == [i \in 1..Len(ids) |-> Leaf(entries[i])]
  <2>1. q \in Seq({Leaf(entries[i]) : i \in 1..Len(ids)})
    BY <1>2
  <2>2. Len(q) = Len(ids)
    BY <1>2
  <2> QED
    BY <1>7, <2>1, <2>2 DEF IsSeq
<1>9. \A i \in 1..Len(ids) : Leaves(entries)[i] = Leaf(entries[i])
  BY <1>7
<1> QED
  BY <1>3, <1>5, <1>6, <1>8, <1>9 DEF entries

\* What a bundle made of a state discloses.
LEMMA ObjectsOfBundle ==
  ASSUME NEW s, NEW ids, NEW o \in BundleObjects(s, Entries(s), ids)
  PROVE  \E i \in DOMAIN Entries(s) :
           /\ o = [entry |-> Entries(s)[i], content |-> s[o.entry.id].content,
                   proof |-> MerklePath(Leaves(Entries(s)), i)]
           /\ o.entry.id \in ids \cap DOMAIN s /\ o.entry.rev = s[o.entry.id].rev
<1> DEFINE entries == Entries(s)
<1>1. PICK i \in DOMAIN entries :
        /\ entries[i].id \in ids
        /\ o = [entry |-> entries[i], content |-> s[entries[i].id].content,
                proof |-> MerklePath(Leaves(entries), i)]
  BY DEF BundleObjects
<1>2. entries[i].id \in DOMAIN s /\ entries[i].rev = s[entries[i].id].rev
  BY <1>1, EntriesOfState
<1> HIDE DEF entries
<1>3. o.entry = entries[i]
  BY <1>1
<1> QED
  BY <1>1, <1>2, <1>3 DEF entries

\* What make_bundle discloses is covered by a live grant, or is schema.
LEMMA BundlesAreMade ==
  ASSUME SourceInv, NEW g \in Graph, NEW k, NEW by, Serves(objects[g], k)
  PROVE  BuiltFrom(BundleOf(g, k, by)) /\ Disclosed(shareable, minted, BundleOf(g, k, by))
<1> DEFINE s == objects[g]
           region == s[k].content.region
           nodes == InRegion(s, Registry(g), region)
           ids == DisclosedIds(s, nodes)
           b == BundleOf(g, k, by)
<1>1. /\ b.objects = BundleObjects(s, Entries(s), ids)
      /\ b.root = MerkleRoot(Leaves(Entries(s)))
      /\ b.graph = g /\ b.audience = Audience(s[k].content)
  BY DEF BundleOf
<1>2. Intact(s) /\ DOMAIN s \subseteq Id \ Fresh(minted) /\ k \in Grants(s)
      /\ Covered(g, s) \subseteq shareable
  BY DEF SourceInv, Sourced, Serves
<1>3. nodes \subseteq DOMAIN s
  BY DEF InRegion, LiveNodes
<1>4. ids \subseteq DOMAIN s
  BY <1>3 DEF DisclosedIds, LiveNodes
<1>5. BuiltFrom(b)
  BY <1>1, <1>2, <1>4 DEF BuiltFrom
<1>6. \A n \in nodes : <<g, Audience(s[k].content), n, s[n].rev>> \in shareable
  BY <1>2 DEF Covered, Registry
<1>7. \A n \in ids \cap NodeId : TypeOf(s[n].content) \notin MetaTypes => n \in nodes
  BY KindsAreDisjoint DEF DisclosedIds
<1> HIDE DEF ids, nodes, b
<1>8. ASSUME NEW o \in b.objects
      PROVE  /\ o.entry.id \in Id \ Fresh(minted)
             /\ (o.content = o.entry.rev /\ o.entry.id \in NodeId
                   /\ TypeOf(o.content) \notin MetaTypes) =>
                  <<b.graph, b.audience, o.entry.id, o.entry.rev>> \in shareable
  <2>1. PICK i \in DOMAIN Entries(s) :
          /\ o = [entry |-> Entries(s)[i], content |-> s[o.entry.id].content,
                  proof |-> MerklePath(Leaves(Entries(s)), i)]
          /\ o.entry.id \in ids \cap DOMAIN s /\ o.entry.rev = s[o.entry.id].rev
    BY <1>1, ObjectsOfBundle
  <2>2. o.content = s[o.entry.id].content
    BY <2>1
  <2> QED
    BY <1>1, <1>2, <1>6, <1>7, <2>1, <2>2
<1> QED
  BY <1>5, <1>8 DEF Disclosed, b

\* Making a bundle changes nothing else.
LEMMA BundleStays ==
  ASSUME SourceInv, FedInv', NEW g \in Graph, NEW k, NEW by, MakeBundle(g, k, by)
  PROVE  SourceInv'
<1>1. /\ Serves(objects[g], k) /\ bundles' = bundles \cup {BundleOf(g, k, by)}
      /\ UNCHANGED <<scenario, objects, held, minted, shareable, approved>>
  BY DEF MakeBundle
<1>2. \A b \in bundles' : BuiltFrom(b) /\ Disclosed(shareable, minted, b)
  BY <1>1, BundlesAreMade DEF SourceInv
<1> QED
  BY <1>1, <1>2 DEF SourceInv

\* Every step keeps the invariant.
LEMMA StepSourceInv ==
  ASSUME SourceInv, [Next]_vars
  PROVE  SourceInv'
<1>1. FedInv'
  BY StepFedInv DEF SourceInv
<1>2. CASE UNCHANGED vars
  BY <1>1, <1>2 DEF vars, SourceInv
<1>3. CASE Next
  BY <1>1, <1>3, StepAsks, AskedStays, ApproveStays, BundleStays DEF Next
<1> QED
  BY <1>2, <1>3

\* The invariant holds always.
LEMMA SourceInvariance == Spec => []SourceInv
BY InitSourceInv, StepSourceInv, PTL DEF Spec

-----------------------------------------------------------------------------
\* What follows.

\* Federation is type correct: ids are handed out once, and who waits for
\* approval is a principal of the graph.
THEOREM TypeCorrect == Spec => []TypeOK
<1>1. SourceInv => TypeOK
  <2> SUFFICES ASSUME SourceInv PROVE TypeOK
    OBVIOUS
  <2>1. \A g \in Graph : DOMAIN objects[g] \subseteq Id \ Fresh(minted)
    BY DEF SourceInv, Sourced
  <2>2. \A g \in Graph : \A p \in held[g] : p.author \in DOMAIN KeyOf[g]
    BY DEF SourceInv, ProperHeld
  <2>3. \A b \in bundles : \A o \in b.objects : o.entry.id \in Id
    BY DEF SourceInv, Disclosed
  <2>4. minted \in 0..Len(NodeIds)
    BY DEF SourceInv
  <2> QED
    BY <2>1, <2>2, <2>3, <2>4 DEF TypeOK, Fresh
<1> QED
  BY <1>1, SourceInvariance, PTL

\* Whatever is imported was shared: for all graphs, grants and bundles, and
\* however long before the import the bundle was made.
THEOREM OnlySharedIsImported == Spec => []ImportsWereShared
<1>1. SourceInv => ImportsWereShared
  BY DEF SourceInv, Sourced, Told, ImportsWereShared, LiveNodes
<1> QED
  BY <1>1, SourceInvariance, PTL

\* A graph whose policy asks for a review of imports has nothing foreign that
\* its owner did not approve, whoever imports and whatever is in the bundle.
THEOREM OnlyReviewedIsImported == Spec => []ImportsWereReviewed
<1>1. SourceInv => ImportsWereReviewed
  <2> SUFFICES ASSUME SourceInv, NEW g \in Graph, ReviewsImports(ThePolicy(g))
               PROVE  DOMAIN objects[g] \cap Foreign(scenario.start)
                        \subseteq DOMAIN scenario.start[g] \cup approved[g]
    BY DEF ImportsWereReviewed, Foreign
  <2>1. ReviewsImports(scenario.start[g][PolicyNode[g]].definition)
    BY DEF SourceInv, Sourced, ThePolicy
  <2> QED
    BY <2>1 DEF SourceInv, Reviewed
<1> QED
  BY <1>1, SourceInvariance, PTL

\* Within one bundle a path proves its own object only.
LEMMA ExactProofs ==
  ASSUME NEW b, BuiltFrom(b), NEW o \in b.objects, NEW other \in b.objects
  PROVE  VerifyMerklePath(Leaf(other.entry), o.proof, b.root) <=> o = other
<1>1. PICK s, ids : /\ b.root = MerkleRoot(Leaves(Entries(s)))
                    /\ b.objects = BundleObjects(s, Entries(s), ids)
  BY DEF BuiltFrom
<1> DEFINE entries == Entries(s)
           leaves == Leaves(entries)
<1>2. PICK i \in DOMAIN entries :
        /\ o = [entry |-> entries[i], content |-> s[o.entry.id].content,
                proof |-> MerklePath(leaves, i)]
        /\ o.entry.id \in ids \cap DOMAIN s
  BY <1>1, ObjectsOfBundle
<1>3. PICK j \in DOMAIN entries :
        /\ other = [entry |-> entries[j], content |-> s[other.entry.id].content,
                    proof |-> MerklePath(leaves, j)]
        /\ other.entry.id \in ids \cap DOMAIN s
  BY <1>1, ObjectsOfBundle
<1>4. /\ IsSeq(leaves) /\ DOMAIN entries = 1..Len(entries) /\ Len(leaves) = Len(entries)
      /\ leaves[i] = Leaf(entries[i]) /\ leaves[j] = Leaf(entries[j])
      /\ entries[i].id = entries[j].id => i = j
  BY EntriesOfState
<1> HIDE DEF leaves, entries
<1>5. /\ o.proof = MerklePath(leaves, i) /\ o.entry = entries[i]
      /\ o.content = s[o.entry.id].content
      /\ other.proof = MerklePath(leaves, j) /\ other.entry = entries[j]
      /\ other.content = s[other.entry.id].content
  BY <1>2, <1>3
<1>6. b.root = MerkleRoot(leaves) /\ i \in 1..Len(leaves) /\ j \in 1..Len(leaves)
  BY <1>1, <1>4 DEF leaves, entries
<1>7. ASSUME VerifyMerklePath(Leaf(other.entry), o.proof, b.root)
      PROVE  o = other
  <2>1. leaves[j] = leaves[i]
    BY <1>4, <1>5, <1>6, <1>7, PathsProveOneLeaf
  <2>2. entries[j] = entries[i]
    BY <1>4, <2>1 DEF Leaf
  <2>3. i = j
    BY <1>4, <2>2
  <2> QED
    BY <1>2, <1>3, <1>5, <2>3
<1>8. ASSUME o = other
      PROVE  VerifyMerklePath(Leaf(other.entry), o.proof, b.root)
  BY <1>4, <1>5, <1>6, <1>8, PathsLeadToTheRoot
<1> QED
  BY <1>7, <1>8

\* The paths in a bundle are exact, for states of every size.
THEOREM BundleProofsAreExact == Spec => []ProofsAreExact
<1>1. SourceInv => ProofsAreExact
  BY ExactProofs DEF SourceInv, ProofsAreExact
<1> QED
  BY <1>1, SourceInvariance, PTL

\* An object verifies unless it is redacted.
LEMMA ObjectsVerify ==
  ASSUME NEW b, BuiltFrom(b), NEW o \in b.objects
  PROVE  ObjectVerifies(o, b.root) <=> o.content # RedactedContent
<1>1. VerifyMerklePath(Leaf(o.entry), o.proof, b.root)
  BY ExactProofs
<1>2. PICK s, ids : Intact(s) /\ b.objects = BundleObjects(s, Entries(s), ids)
  BY DEF BuiltFrom
<1>3. PICK i \in DOMAIN Entries(s) :
        /\ o = [entry |-> Entries(s)[i], content |-> s[o.entry.id].content,
                proof |-> MerklePath(Leaves(Entries(s)), i)]
        /\ o.entry.id \in ids \cap DOMAIN s /\ o.entry.rev = s[o.entry.id].rev
  BY <1>2, ObjectsOfBundle
<1>4. o.content = s[o.entry.id].content
  BY <1>3
<1>5. o.entry.rev # RedactedContent /\ o.content \in {o.entry.rev, RedactedContent}
  BY <1>2, <1>3, <1>4 DEF Intact
<1> QED
  BY <1>1, <1>5 DEF ObjectVerifies

\* The key that counts is that of the first record of the peer.
LEMMA FirstRecordCounts ==
  ASSUME NEW s, NEW peer, NEW key, DOMAIN s \subseteq Id
  PROVE  PeerKey(s, peer, key) <=>
           \E n \in LiveNodes(s) :
             /\ TypeOf(s[n].content) = "core/Peer" /\ s[n].content.graph = peer
             /\ s[n].content.root = key
             /\ \A m \in LiveNodes(s) :
                  (TypeOf(s[m].content) = "core/Peer" /\ s[m].content.graph = peer) =>
                    \E i, j \in DOMAIN Order : i <= j /\ Order[i] = n /\ Order[j] = m
<1> DEFINE ids == {id \in LiveNodes(s) : /\ TypeOf(s[id].content) = "core/Peer"
                                         /\ s[id].content.graph = peer}
           q == PeerRecords(s, peer)
<1>1. Listing(ids, Len(Order), q)
  BY InOrderLists DEF PeerRecords
<1>2. /\ Len(Order) \in Nat /\ DOMAIN Order = 1..Len(Order)
      /\ \A i, j \in DOMAIN Order : Order[i] = Order[j] => i = j
      /\ \A id \in ids : \E i \in DOMAIN Order : Order[i] = id
  BY OrderAssumption DEF LiveNodes
<1> HIDE DEF ids, q
<1>3. Len(q) \in Nat /\ (q # <<>> <=> Len(q) >= 1)
  <2>1. PICK S : q \in Seq(S)
    BY <1>1 DEF Listing, IsSeq
  <2> QED
    BY <2>1
<1>4. ASSUME q # <<>>
      PROVE  \E k \in DOMAIN Order : /\ q[1] = Order[k] /\ Order[k] \in ids
                                     /\ \A j \in DOMAIN Order : Order[j] \in ids => k <= j
  <2>1. 1 \in 1..Len(q) /\ Len(q) >= 1
    BY <1>3, <1>4
  <2>2. PICK a \in DOMAIN Order : q[1] = Order[a] /\ Order[a] \in ids
    BY <1>1, <1>2, <2>1 DEF Listing
  <2>3. PICK k \in DOMAIN Order : /\ q[1] = Order[k]
                                  /\ \A j \in DOMAIN Order : j < k => Order[j] \notin ids
    BY <1>1, <1>2, <2>1 DEF Listing
  <2> QED
    BY <1>2, <2>2, <2>3
<1>5. ASSUME NEW n \in ids PROVE q # <<>>
  <2>1. PICK k \in 1..Len(Order) : Order[k] = n
    BY <1>2
  <2>2. PICK a \in 1..Len(q) : q[a] = n
    BY <1>1, <2>1 DEF Listing
  <2> QED
    BY <1>3, <2>2
<1>6. PeerKey(s, peer, key) <=>
        \E n \in ids : /\ s[n].content.root = key
                       /\ \A m \in ids :
                            \E i, j \in DOMAIN Order : i <= j /\ Order[i] = n /\ Order[j] = m
  <2>1. ASSUME PeerKey(s, peer, key)
        PROVE  \E n \in ids : /\ s[n].content.root = key
                              /\ \A m \in ids : \E i, j \in DOMAIN Order :
                                   i <= j /\ Order[i] = n /\ Order[j] = m
    <3>1. q # <<>> /\ s[q[1]].content.root = key
      BY <2>1 DEF PeerKey, q
    <3>2. PICK k \in DOMAIN Order : /\ q[1] = Order[k] /\ Order[k] \in ids
                                    /\ \A j \in DOMAIN Order : Order[j] \in ids => k <= j
      BY <1>4, <3>1
    <3> QED
      BY <1>2, <3>1, <3>2
  <2>2. ASSUME NEW n \in ids, s[n].content.root = key,
               \A m \in ids :
                 \E i, j \in DOMAIN Order : i <= j /\ Order[i] = n /\ Order[j] = m
        PROVE  PeerKey(s, peer, key)
    <3>1. q # <<>>
      BY <1>5
    <3>2. PICK k \in DOMAIN Order : /\ q[1] = Order[k] /\ Order[k] \in ids
                                    /\ \A j \in DOMAIN Order : Order[j] \in ids => k <= j
      BY <1>4, <3>1
    <3>3. PICK i, j \in DOMAIN Order : i <= j /\ Order[i] = n /\ Order[j] = Order[k]
      BY <2>2, <3>2
    <3>4. i = k
      BY <1>2, <3>2, <3>3
    <3> QED
      BY <2>2, <3>1, <3>2, <3>3, <3>4 DEF PeerKey, q
  <2> QED
    BY <2>1, <2>2
<1> QED
  BY <1>6 DEF ids

\* verify_bundle accepts exactly what is addressed to the graph, signed by the
\* peer as the graph knows it, and not redacted: for every bundle ever made.
THEOREM BundleVerdicts == Spec => []BundlesVerify
<1>1. SourceInv => BundlesVerify
  <2> SUFFICES ASSUME SourceInv, NEW g \in Graph, NEW b \in bundles
               PROVE  VerifyBundle(g, b) <=>
                 /\ b.audience \in {g, "public"}
                 /\ \E n \in LiveNodes(objects[g]) :
                      /\ TypeOf(objects[g][n].content) = "core/Peer"
                      /\ objects[g][n].content.graph = b.graph
                      /\ objects[g][n].content.root = b.key
                      /\ \A m \in LiveNodes(objects[g]) :
                           (TypeOf(objects[g][m].content) = "core/Peer"
                              /\ objects[g][m].content.graph = b.graph) =>
                             \E i, j \in DOMAIN Order : i <= j /\ Order[i] = n /\ Order[j] = m
                 /\ \A o \in b.objects : o.content # RedactedContent
    BY DEF BundlesVerify
  <2>1. DOMAIN objects[g] \subseteq Id /\ BuiltFrom(b)
    BY DEF SourceInv, Sourced
  <2>2. \A o \in b.objects : ObjectVerifies(o, b.root) <=> o.content # RedactedContent
    BY <2>1, ObjectsVerify
  <2> QED
    BY <2>1, <2>2, FirstRecordCounts DEF VerifyBundle, AudienceIs
<1> QED
  BY <1>1, SourceInvariance, PTL
=============================================================================
