------------------------------ MODULE IndexProofs ------------------------------
(***************************************************************************)
(* What an import does to a graph: the ids that it mints, the shape of the *)
(* index, which every import keeps, and when it applies, for trees and     *)
(* graphs of any size.                                                     *)
(***************************************************************************)
EXTENDS CodeIndex, FoldProofs, TLAPS

-----------------------------------------------------------------------------
\* Lists of operations.

\* Operations that create none of some ids.
Spares(ops, ids) ==
  /\ IsSequence(ops)
  /\ \A i \in 1..Len(ops) : ops[i].verb = "create" => ops[i].id \notin ids

\* Two lists of operations, one after the other.
LEMMA SparesBoth ==
  ASSUME NEW a, NEW b, NEW ids, Spares(a, ids), Spares(b, ids)
  PROVE  Spares(a \o b, ids)
<1>1. PICK S : S = Range(a) \cup Range(b)
  OBVIOUS
<1>2. a \in Seq(S) /\ b \in Seq(S)
  BY <1>1 DEF Spares, IsSequence
<1>3. /\ a \o b \in Seq(S) /\ Len(a \o b) = Len(a) + Len(b)
      /\ Len(a) \in Nat /\ Len(b) \in Nat
  BY <1>2
<1>4. \A i \in 1..Len(a \o b) :
        (a \o b)[i] = IF i <= Len(a) THEN a[i] ELSE b[i - Len(a)]
  BY <1>2
<1>5. a \o b \in Seq(Range(a \o b))
  <2>1. PICK q \in Seq(S) : q = a \o b
    BY <1>3
  <2>2. \A i \in 1..Len(q) : q[i] \in Range(q)
    BY DEF Range
  <2>3. q \in Seq(Range(q))
    BY <2>2
  <2> QED
    BY <2>1, <2>3
<1>6. ASSUME NEW i \in 1..Len(a \o b), (a \o b)[i].verb = "create"
      PROVE  (a \o b)[i].id \notin ids
  <2>1. CASE i <= Len(a)
    BY <1>3, <1>4, <1>6, <2>1 DEF Spares
  <2>2. CASE ~(i <= Len(a))
    <3>1. i - Len(a) \in 1..Len(b) /\ (a \o b)[i] = b[i - Len(a)]
      BY <1>3, <1>4, <2>2
    <3> QED
      BY <1>6, <3>1 DEF Spares
  <2> QED
    BY <2>1, <2>2
<1> QED
  BY <1>5, <1>6 DEF Spares, IsSequence

\* A list of lists of operations, joined.
LEMMA SparesAll ==
  ASSUME NEW seqs, IsSequence(seqs), NEW ids,
         \A i \in 1..Len(seqs) : Spares(seqs[i], ids)
  PROVE  Spares(FlattenSeq(seqs), ids)
<1>1. Len(seqs) \in Nat
  BY DEF IsSequence
<1>2. CASE Len(seqs) = 0
  <2>1. FlattenSeq(seqs) = seqs
    BY <1>2 DEF FlattenSeq
  <2> QED
    BY <1>2, <2>1 DEF Spares
<1>3. CASE Len(seqs) # 0
  <2> DEFINE result == CHOOSE f : Joins(seqs, Len(seqs), f)
  <2>1. Joins(seqs, Len(seqs), result)
    BY <1>1, JoinExists
  <2>2. FlattenSeq(seqs) = result[Len(seqs)]
    BY <1>3 DEF FlattenSeq, Joins
  <2> HIDE DEF result
  <2>3. \A i \in 1..Len(seqs) :
          result[i] = IF i = 1 THEN seqs[i] ELSE result[i-1] \o seqs[i]
    BY <2>1 DEF Joins
  <2> DEFINE good == {i \in 0..Len(seqs) : i # 0 => Spares(result[i], ids)}
  <2>4. 0 \in good
    BY <1>1
  <2>5. ASSUME NEW i \in 1..Len(seqs), i - 1 \in good PROVE i \in good
    <3>1. CASE i = 1
      BY <2>3, <3>1
    <3>2. CASE i # 1
      <4>1. Spares(result[i-1], ids) /\ Spares(seqs[i], ids)
        BY <2>5, <3>2
      <4>2. Spares(result[i-1] \o seqs[i], ids)
        BY <4>1, SparesBoth
      <4> QED
        BY <2>3, <3>2, <4>2
    <3> QED
      BY <3>1, <3>2
  <2>6. 0..Len(seqs) \subseteq good
    <3> HIDE DEF good
    <3> QED
      BY <1>1, <2>4, <2>5, Induction
  <2> QED
    BY <1>1, <1>3, <2>2, <2>6
<1> QED
  BY <1>2, <1>3

-----------------------------------------------------------------------------
\* A commit holds finitely many entities, and finitely many calls.

\* The parser finds finitely many items in a file.
LEMMA FiniteItems ==
  ASSUME NEW c \in Commit
  PROVE  IsFiniteSet(Files(c)) /\ IsFiniteSet(Items(c))
<1>1. Tree[c] \in [DOMAIN Tree[c] -> DOMAIN SourceOf] /\ DOMAIN Tree[c] \subseteq Range(Paths)
  <2>1. PICK P \in SUBSET Range(Paths) : Tree[c] \in [P -> DOMAIN SourceOf]
    BY TreeAssumption
  <2> QED
    BY <2>1
<1>2. IsFiniteSet(Range(Paths))
  BY TreeAssumption, FiniteSequence DEF IsSequence
<1>3. IsFiniteSet(Files(c))
  <2>1. Files(c) \subseteq Range(Paths)
    BY <1>1 DEF Files
  <2> QED
    BY <1>2, <2>1, FS_Subset
<1>4. ASSUME NEW path \in Files(c) PROVE IsFiniteSet(ItemsOf(c, path))
  <2>1. IsSequence(Lines(c, path))
    BY <1>1, TreeAssumption DEF Files, Lines, IsSequence
  <2> DEFINE S == Declarations(Lines(c, path))
             f == [i \in S |-> Entity(Lines(c, path)[i].item[1], path,
                                      Lines(c, path)[i].item[2])]
  <2>2. IsFiniteSet(S)
    <3>1. S \subseteq DOMAIN Lines(c, path)
      BY DEF Declarations
    <3> QED
      BY <2>1, <3>1, FiniteSequence, FS_Subset
  <2>3. IsFiniteSet({f[i] : i \in S})
    <3>1. f = [i \in S |-> f[i]]
      OBVIOUS
    <3> HIDE DEF f, S
    <3> QED
      BY <2>2, <3>1, FiniteImage
  <2>4. ItemsOf(c, path) = {f[i] : i \in S}
    BY DEF ItemsOf
  <2> QED
    BY <2>3, <2>4
<1>5. IsFiniteSet({ItemsOf(c, path) : path \in Files(c)})
  <2> DEFINE f == [path \in Files(c) |-> ItemsOf(c, path)]
  <2>1. f = [path \in Files(c) |-> f[path]]
    OBVIOUS
  <2>2. {ItemsOf(c, path) : path \in Files(c)} = {f[path] : path \in Files(c)}
    OBVIOUS
  <2> HIDE DEF f
  <2> QED
    BY <1>3, <2>1, <2>2, FiniteImage
<1> QED
  BY <1>3, <1>4, <1>5, FS_UNION DEF Items

\* A commit has finitely many files, and finitely many items in all.
LEMMA FiniteCommit ==
  ASSUME NEW c \in Commit
  PROVE  IsFiniteSet(Entities[c]) /\ IsFiniteSet(Calls[c])
<1>1. IsFiniteSet(Entities[c])
  <2> DEFINE f == [path \in Files(c) |-> FileAt(path)]
  <2>1. f = [path \in Files(c) |-> f[path]]
    OBVIOUS
  <2>2. {FileAt(path) : path \in Files(c)} = {f[path] : path \in Files(c)}
    OBVIOUS
  <2> HIDE DEF f
  <2>3. IsFiniteSet({FileAt(path) : path \in Files(c)})
    <3>1. IsFiniteSet(Files(c))
      BY FiniteItems
    <3> QED
      BY <2>1, <2>2, <3>1, FiniteImage
  <2>4. IsFiniteSet({Repo} \cup {FileAt(path) : path \in Files(c)} \cup Items(c))
    BY <2>3, FiniteItems, FS_Singleton, FS_Union
  <2> QED
    BY <2>4 DEF Entities
<1>2. IsFiniteSet(Calls[c])
  <2> DEFINE functions == {g \in Items(c) : g.what = "fn"}
             names == {g.name : g \in functions}
             Callees(g) == {CalleeOf(c, name) : name \in names \cap NamesCalled(c, g)}
             Some(g) == {g} \X Callees(g)
  <2>1. IsFiniteSet(functions)
    <3>1. functions \subseteq Items(c)
      OBVIOUS
    <3> QED
      BY <3>1, FiniteItems, FS_Subset
  <2>2. IsFiniteSet(names)
    <3> DEFINE f == [g \in functions |-> g.name]
    <3>1. f = [g \in functions |-> f[g]]
      OBVIOUS
    <3>2. names = {f[g] : g \in functions}
      OBVIOUS
    <3> HIDE DEF f, functions, names
    <3> QED
      BY <2>1, <3>1, <3>2, FiniteImage
  <2>3. ASSUME NEW g PROVE IsFiniteSet(Some(g))
    <3> DEFINE S == names \cap NamesCalled(c, g)
               f == [name \in S |-> CalleeOf(c, name)]
    <3>1. IsFiniteSet(S)
      <4> HIDE DEF names
      <4> QED
        BY <2>2, FS_Intersection
    <3>2. f = [name \in S |-> f[name]]
      OBVIOUS
    <3>3. Callees(g) = {f[name] : name \in S}
      OBVIOUS
    <3> HIDE DEF f, S, Callees
    <3>4. IsFiniteSet(Callees(g)) /\ IsFiniteSet({g})
      BY <3>1, <3>2, <3>3, FiniteImage, FS_Singleton
    <3> QED
      BY <3>4, FS_Product
  <2>4. IsFiniteSet({Some(g) : g \in functions})
    <3> DEFINE f == [g \in functions |-> Some(g)]
    <3>1. f = [g \in functions |-> f[g]]
      OBVIOUS
    <3>2. {Some(g) : g \in functions} = {f[g] : g \in functions}
      OBVIOUS
    <3> HIDE DEF f, functions, Some
    <3> QED
      BY <2>1, <3>1, <3>2, FiniteImage
  <2>5. IsFiniteSet(UNION {Some(g) : g \in functions})
    <3> HIDE DEF functions, Some
    <3> QED
      BY <2>3, <2>4, FS_UNION
  <2>6. Calls[c] = UNION {Some(g) : g \in functions}
    BY DEF Calls
  <2> QED
    BY <2>5, <2>6
<1> QED
  BY <1>1, <1>2

-----------------------------------------------------------------------------
\* The ids that an import hands out are those it says it mints.

\* What is left to be minted after m ids of either kind.
Later(m) ==
  {NodeIds[i] : i \in (m + 1)..Len(NodeIds)} \cup
  {EdgeIds[i] : i \in (m + 1)..Len(EdgeIds)}

\* An id that uuid4 has given is not given again.
LEMMA MintedOnce ==
  ASSUME NEW m \in Nat, m <= Len(NodeIds), NEW i \in 1..m
  PROVE  NodeIds[i] \notin Later(m) /\ EdgeIds[i] \notin Later(m)
<1>1. /\ NodeIds \in Seq(NodeId) /\ EdgeIds \in Seq(EdgeId)
      /\ Len(NodeIds) = Len(EdgeIds) /\ Len(NodeIds) \in Nat
  BY IdAssumption
<1>2. \A a, b \in 1..Len(NodeIds) :
        /\ NodeIds[a] = NodeIds[b] => a = b
        /\ EdgeIds[a] = EdgeIds[b] => a = b
        /\ NodeIds[a] # EdgeIds[b]
  BY <1>1, IdAssumption, KindsAreDisjoint DEF IsInjective
<1>3. i \in 1..Len(NodeIds) /\ \A j \in (m + 1)..Len(NodeIds) : j \in 1..Len(NodeIds) /\ i # j
  BY <1>1
<1> QED
  BY <1>1, <1>2, <1>3 DEF Later

\* Whatever is minted later was not minted before.
LEMMA LaterShrinks ==
  ASSUME NEW m \in Nat, NEW k \in Nat, m <= k
  PROVE  Later(k) \subseteq Later(m)
<1>1. Len(NodeIds) \in Nat /\ Len(EdgeIds) \in Nat
  BY IdAssumption
<1>2. \A n \in Nat : (k + 1)..n \subseteq (m + 1)..n
  OBVIOUS
<1> QED
  BY <1>1, <1>2 DEF Later

\* The entities that get a node.
LEMMA NewInOrder ==
  ASSUME NEW c \in Commit, NEW idx
  PROVE  LET new == NewEntities(idx, c)
         IN  /\ IsSequence(new) /\ Len(new) = Cardinality(Entities[c] \ DOMAIN idx)
             /\ Len(new) \in Nat
             /\ \A i \in 1..Len(new) : new[i] \in Entities[c] \ DOMAIN idx
<1> DEFINE E == Entities[c] \ DOMAIN idx
           A == E \cap {Repo}
           B == {e \in E : e.what = "file"}
           C == E \ ({Repo} \cup B)
<1>1. IsFiniteSet(E)
  BY FiniteCommit, FS_Difference
<1>2. /\ A \cup B \cup C = E /\ A \cap B = {} /\ (A \cup B) \cap C = {}
      /\ A \subseteq E /\ B \subseteq E /\ C \subseteq E
  <2>1. Repo.what = "repo"
    BY DEF Repo, Entity
  <2>2. Repo \notin B
    BY <2>1
  <2>3. A \subseteq E /\ B \subseteq E /\ C \subseteq E /\ A \subseteq {Repo}
        /\ C = E \ ({Repo} \cup B) /\ A = E \cap {Repo}
    OBVIOUS
  <2> HIDE DEF A, B, C, E
  <2> QED
    BY <2>2, <2>3
<1>3. NewEntities(idx, c) = SetToSeq(A) \o SetToSeq(B) \o SetToSeq(C)
  BY DEF NewEntities
<1> HIDE DEF E, A, B, C
<1>4. IsFiniteSet(A) /\ IsFiniteSet(B) /\ IsFiniteSet(C) /\ IsFiniteSet(A \cup B)
  BY <1>1, <1>2, FS_Subset, FS_Union
<1>5. /\ Cardinality(A) \in Nat /\ Cardinality(B) \in Nat /\ Cardinality(C) \in Nat
      /\ Cardinality({}) = 0
  BY <1>4, FS_CardinalityType, FS_EmptySet
<1>6. Cardinality(E) = Cardinality(A) + Cardinality(B) + Cardinality(C)
  <2>1. Cardinality(A \cup B) = Cardinality(A) + Cardinality(B)
    <3>1. Cardinality(A \cup B) = Cardinality(A) + Cardinality(B) - Cardinality(A \cap B)
      BY <1>4, FS_Union
    <3>2. Cardinality(A \cap B) = 0
      BY <1>2, <1>5
    <3> QED
      BY <1>5, <3>1, <3>2
  <2>2. Cardinality((A \cup B) \cup C) = Cardinality(A \cup B) + Cardinality(C)
    <3>1. Cardinality((A \cup B) \cup C)
            = Cardinality(A \cup B) + Cardinality(C) - Cardinality((A \cup B) \cap C)
      BY <1>4, FS_Union
    <3>2. Cardinality((A \cup B) \cap C) = 0
      BY <1>2, <1>5
    <3> QED
      BY <1>5, <2>1, <3>1, <3>2
  <2> QED
    BY <1>2, <2>1, <2>2
<1>7. PICK a, b, d : a = SetToSeq(A) /\ b = SetToSeq(B) /\ d = SetToSeq(C)
  OBVIOUS
<1>8. /\ IsSequence(a) /\ Len(a) = Cardinality(A) /\ \A i \in 1..Len(a) : a[i] \in A
      /\ IsSequence(b) /\ Len(b) = Cardinality(B) /\ \A i \in 1..Len(b) : b[i] \in B
      /\ IsSequence(d) /\ Len(d) = Cardinality(C) /\ \A i \in 1..Len(d) : d[i] \in C
  BY <1>4, <1>7, SetInOrder
<1>9. a \in Seq(E) /\ b \in Seq(E) /\ d \in Seq(E)
  BY <1>2, <1>8 DEF IsSequence
<1>10. PICK q \in Seq(E) : /\ q = a \o b \o d
                          /\ Len(q) = Len(a) + Len(b) + Len(d)
  <2>1. a \o b \in Seq(E) /\ Len(a \o b) = Len(a) + Len(b)
    BY <1>9
  <2>2. (a \o b) \o d \in Seq(E) /\ Len((a \o b) \o d) = Len(a \o b) + Len(d)
    BY <1>9, <2>1
  <2> QED
    BY <2>1, <2>2
<1>11. Len(q) = Cardinality(E) /\ Len(q) \in Nat /\ \A i \in 1..Len(q) : q[i] \in E
  BY <1>5, <1>6, <1>8, <1>10
<1>12. IsSequence(q)
  <2>1. \A i \in 1..Len(q) : q[i] \in Range(q)
    BY DEF Range
  <2> QED
    BY <2>1 DEF IsSequence
<1> QED
  BY <1>3, <1>7, <1>10, <1>11, <1>12 DEF E

\* No operations create nothing.
LEMMA SparesNone == ASSUME NEW ids PROVE Spares(<<>>, ids)
  BY DEF Spares, IsSequence

\* One operation.
LEMMA SparesOne ==
  ASSUME NEW ids, NEW op, op.verb = "create" => op.id \notin ids
  PROVE  Spares(<<op>>, ids)
<1>1. PICK q : q = <<op>>
  OBVIOUS
<1>2. Len(q) = 1 /\ q[1] = op /\ q \in Seq({op}) /\ DOMAIN q = 1..1
  BY <1>1
<1>3. Range(q) = {op}
  BY <1>2 DEF Range
<1> QED
  BY <1>1, <1>2, <1>3 DEF Spares, IsSequence

\* Operations that create nothing, in some order.
LEMMA SparesSet ==
  ASSUME NEW S, IsFiniteSet(S), NEW ids, \A op \in S : op.verb # "create"
  PROVE  Spares(SetToSeq(S), ids)
  BY SetInOrder DEF Spares

\* What an import is about: the entities it gives a node and the ids it may use.
Imports(c, idx, new, m, k) ==
  /\ c \in Commit /\ m \in Nat /\ k \in Nat /\ k <= Len(NodeIds)
  /\ new = NewEntities(idx, c)
  /\ m + Len(new) + Cardinality(Calls[c]) <= k

\* An item that is new is created under an id of this import.
LEMMA CreateSpares ==
  ASSUME NEW c, NEW idx, NEW new, NEW m, NEW k, Imports(c, idx, new, m, k),
         NEW i \in 1..Len(new)
  PROVE  Spares(CreateOps(idx, c, new, m, i), Later(k))
<1>1. /\ IsSequence(new) /\ Len(new) \in Nat
      /\ \A j \in 1..Len(new) : new[j] \in Entities[c] \ DOMAIN idx
  BY NewInOrder DEF Imports
<1>2. Cardinality(Calls[c]) \in Nat
  BY FiniteCommit, FS_CardinalityType DEF Imports
<1>3. \A j \in 1..Len(new) : NodeIds[m + j] \notin Later(k) /\ EdgeIds[m + j] \notin Later(k)
  <2> TAKE j \in 1..Len(new)
  <2>1. m + j \in 1..k
    BY <1>1, <1>2 DEF Imports
  <2> QED
    BY <2>1, MintedOnce DEF Imports
<1>4. NodeFor(idx, new, m, new[i]) \notin Later(k)
  <2>1. DOMAIN new = 1..Len(new) /\ new[i] \notin DOMAIN idx
    BY <1>1 DEF IsSequence
  <2>2. PICK j \in DOMAIN new : j = CHOOSE l \in DOMAIN new : new[l] = new[i]
    BY <2>1
  <2>3. NodeFor(idx, new, m, new[i]) = NodeIds[m + j]
    BY <2>1, <2>2 DEF NodeFor
  <2> QED
    BY <1>3, <2>1, <2>3
<1>5. \A body : Spares(<<CreateOp(NodeFor(idx, new, m, new[i]), body)>>, Later(k))
  <2> TAKE body
  <2>1. CreateOp(NodeFor(idx, new, m, new[i]), body).id = NodeFor(idx, new, m, new[i])
    BY DEF CreateOp
  <2> QED
    BY <1>4, <2>1, SparesOne
<1>6. \A body : Spares(<<CreateOp(EdgeIds[m + i], body)>>, Later(k))
  <2> TAKE body
  <2>1. CreateOp(EdgeIds[m + i], body).id = EdgeIds[m + i]
    BY DEF CreateOp
  <2> QED
    BY <1>3, <2>1, SparesOne
<1>7. PICK first, rest : /\ CreateOps(idx, c, new, m, i) = first \o rest
                         /\ Spares(first, Later(k)) /\ Spares(rest, Later(k))
  <2> DEFINE e == new[i]
             node == NodeFor(idx, new, m, e)
             Tie(type, from, to) ==
               CreateOp(EdgeIds[m + i], [type |-> type, from |-> from, to |-> to,
                                         derived |-> c])
             one == <<CreateOp(node, Contents[c][e])>>
  <2>0. Spares(one, Later(k))
    BY <1>5
  <2>1. CASE e.what = "repo"
    <3>1. CreateOps(idx, c, new, m, i) = one \o <<>>
      BY <2>1 DEF CreateOps
    <3> QED
      BY <2>0, <3>1, SparesNone
  <2>2. CASE e.what # "repo" /\ e.what = "file"
    <3>1. CreateOps(idx, c, new, m, i)
            = one \o <<Tie("code/in_repo", node, NodeFor(idx, new, m, Repo))>>
      BY <2>2 DEF CreateOps
    <3> HIDE DEF one, node
    <3> QED
      BY <2>0, <3>1, <1>6
  <2>3. CASE e.what # "repo" /\ e.what # "file"
    <3>1. CreateOps(idx, c, new, m, i)
            = one \o <<Tie("code/declares", NodeFor(idx, new, m, FileAt(e.path)), node)>>
      BY <2>3 DEF CreateOps
    <3> HIDE DEF one, node
    <3> QED
      BY <2>0, <3>1, <1>6
  <2> QED
    BY <2>1, <2>2, <2>3
<1> QED
  BY <1>7, SparesBoth

\* An item that is known is updated, which creates nothing.
LEMMA UpdateSpares ==
  ASSUME NEW s, NEW c \in Commit, NEW idx, NEW ids
  PROVE  Spares(UpdateOps(s, idx, c), ids)
<1> DEFINE stale == {e \in (Entities[c] \cap DOMAIN idx) \ {Repo} :
                       ContentDiffers(s[idx[e]].content, Contents[c][e])}
           f == [e \in stale |-> UpdateOp(s, idx[e], Contents[c][e])]
           S == {f[e] : e \in stale}
<1>1. UpdateOps(s, idx, c) = SetToSeq(S)
  <2>1. S = {UpdateOp(s, idx[e], Contents[c][e]) : e \in stale}
    OBVIOUS
  <2> QED
    BY <2>1 DEF UpdateOps
<1>2. \A op \in S : op.verb # "create"
  <2>1. \A e \in stale : UpdateOp(s, idx[e], Contents[c][e]).verb # "create"
    BY DEF UpdateOp
  <2> HIDE DEF stale
  <2> QED
    BY <2>1
<1>3. stale \subseteq Entities[c] /\ f = [e \in stale |-> f[e]]
  OBVIOUS
<1> HIDE DEF stale, f
<1>4. IsFiniteSet(stale)
  BY <1>3, FiniteCommit, FS_Subset
<1>5. IsFiniteSet(S)
  BY <1>3, <1>4, FiniteImage
<1> HIDE DEF S
<1> QED
  BY <1>1, <1>2, <1>5, SparesSet

\* An edge of a call is created under an id of this import.
LEMMA CallSpares ==
  ASSUME NEW s, IsFiniteSet(DOMAIN s), NEW c, NEW idx, NEW new, NEW m, NEW k,
         Imports(c, idx, new, m, k)
  PROVE  Spares(CallOps(s, idx, c, new, m), Later(k))
<1> DEFINE f == [call \in Calls[c] |-> <<NodeFor(idx, new, m, call[1]),
                                         NodeFor(idx, new, m, call[2])>>]
           desired == {f[call] : call \in Calls[c]}
           added == SetToSeq(desired \ CallPairs(s))
           pairs == CallPairs(s) \ desired
           g == [pair \in pairs |-> DeleteOp(s, CallEdge(s, pair))]
           gone == {g[pair] : pair \in pairs}
           creates == [i \in DOMAIN added |->
                         CreateOp(EdgeIds[m + Len(new) + i],
                                  [type |-> "code/calls", from |-> added[i][1],
                                   to |-> added[i][2], derived |-> c])]
<1>1. CallOps(s, idx, c, new, m) = creates \o SetToSeq(gone)
  <2>1. desired = {<<NodeFor(idx, new, m, call[1]), NodeFor(idx, new, m, call[2])>> :
                     call \in Calls[c]}
    OBVIOUS
  <2>2. gone = {DeleteOp(s, e) : e \in {CallEdge(s, pair) : pair \in pairs}}
    OBVIOUS
  <2> QED
    BY <2>1, <2>2 DEF CallOps
<1>2. /\ IsFiniteSet(desired) /\ Cardinality(desired) \in Nat
      /\ Cardinality(desired) <= Cardinality(Calls[c])
  <2>1. f = [call \in Calls[c] |-> f[call]]
    OBVIOUS
  <2> HIDE DEF f
  <2> QED
    BY <2>1, FiniteCommit, FiniteImage DEF Imports
<1> HIDE DEF desired
<1>3. /\ IsSequence(added) /\ Len(added) \in Nat
      /\ Len(added) <= Cardinality(Calls[c])
  <2>1. /\ IsFiniteSet(desired \ CallPairs(s))
        /\ Cardinality(desired \ CallPairs(s)) <= Cardinality(desired)
    BY <1>2, FS_Subset
  <2>2. IsSequence(added) /\ Len(added) = Cardinality(desired \ CallPairs(s)) /\ Len(added) \in Nat
    BY <2>1, SetInOrder
  <2>3. Cardinality(Calls[c]) \in Nat
    BY FiniteCommit, FS_CardinalityType DEF Imports
  <2> HIDE DEF added
  <2> QED
    BY <1>2, <2>1, <2>2, <2>3
<1>4. Spares(creates, Later(k))
  <2> HIDE DEF added
  <2>1. DOMAIN added = 1..Len(added)
    BY <1>3 DEF IsSequence
  <2>2. creates \in Seq({creates[i] : i \in 1..Len(added)}) /\ Len(creates) = Len(added)
    BY <1>3, <2>1
  <2>3. \A i \in 1..Len(added) : creates[i].id = EdgeIds[m + Len(new) + i]
    BY <2>1 DEF CreateOp
  <2>4. \A i \in 1..Len(added) : EdgeIds[m + Len(new) + i] \notin Later(k)
    <3> TAKE i \in 1..Len(added)
    <3>1. Len(new) \in Nat /\ Cardinality(Calls[c]) \in Nat
      BY NewInOrder, FiniteCommit, FS_CardinalityType DEF Imports
    <3>2. m + Len(new) + i \in 1..k
      BY <1>3, <3>1 DEF Imports
    <3> QED
      BY <3>2, MintedOnce DEF Imports
  <2>5. Range(creates) = {creates[i] : i \in 1..Len(added)}
    BY <2>1 DEF Range
  <2> HIDE DEF creates
  <2> QED
    BY <2>2, <2>3, <2>4, <2>5 DEF Spares, IsSequence
<1>5. Spares(SetToSeq(gone), Later(k))
  <2>1. IsFiniteSet(pairs)
    <3> DEFINE edges == LiveEdges(s, "code/calls")
               h == [e \in edges |-> <<s[e].content.from, s[e].content.to>>]
    <3>1. edges \subseteq DOMAIN s
      BY DEF LiveEdges
    <3>2. CallPairs(s) = {h[e] : e \in edges} /\ h = [e \in edges |-> h[e]]
      BY DEF CallPairs
    <3> HIDE DEF edges, h
    <3>3. IsFiniteSet(edges)
      BY <3>1, FS_Subset
    <3>4. IsFiniteSet({h[e] : e \in edges})
      BY <3>2, <3>3, FiniteImage
    <3>5. IsFiniteSet(CallPairs(s))
      BY <3>2, <3>4
    <3> QED
      BY <3>5, FS_Difference
  <2>2. g = [pair \in pairs |-> g[pair]] /\ \A op \in gone : op.verb # "create"
    BY DEF DeleteOp
  <2> HIDE DEF g, pairs
  <2>3. IsFiniteSet(gone)
    BY <2>1, <2>2, FiniteImage
  <2> HIDE DEF gone
  <2> QED
    BY <2>2, <2>3, SparesSet
<1> HIDE DEF creates, gone
<1> QED
  BY <1>1, <1>4, <1>5, SparesBoth

\* What has vanished is deleted, which creates nothing.
LEMMA RemovalSpares ==
  ASSUME NEW s, NEW node, NEW ids
  PROVE  Spares(RemovalOps(s, node), ids)
<1>1. \A e : Spares(<<DeleteOp(s, e)>>, ids)
  <2> TAKE e
  <2>1. DeleteOp(s, e).verb # "create"
    BY DEF DeleteOp
  <2> QED
    BY <2>1, SparesOne
<1>2. PICK first : Spares(first, ids) /\ RemovalOps(s, node) = first \o <<DeleteOp(s, node)>>
  <2>1. CASE TiesOf(s, node) = {}
    BY <2>1, SparesNone DEF RemovalOps
  <2>2. CASE TiesOf(s, node) # {}
    BY <2>2, <1>1 DEF RemovalOps
  <2> QED
    BY <2>1, <2>2
<1> QED
  BY <1>1, <1>2, SparesBoth

\* SetToSeq of a finite set is a sequence.
LEMMA ListedSequence ==
  ASSUME NEW n \in Nat, NEW q, q = [i \in 1..n |-> q[i]]
  PROVE  IsSequence(q) /\ Len(q) = n
<1>1. q \in Seq({q[i] : i \in 1..n}) /\ Len(q) = n /\ DOMAIN q = 1..n
  OBVIOUS
<1>2. Range(q) = {q[i] : i \in 1..n}
  BY <1>1 DEF Range
<1> QED
  BY <1>1, <1>2 DEF IsSequence

\* An import creates objects only under ids that were never given before.
LEMMA ImportSpares ==
  ASSUME NEW s, IsFiniteSet(DOMAIN s), NEW c \in Commit, NEW m \in Nat,
         m + MintedBy(s, c) <= Len(NodeIds)
  PROVE  /\ MintedBy(s, c) \in Nat
         /\ Spares(ImportOps(s, c, m), Later(m + MintedBy(s, c)))
<1>1. PICK idx : idx = Indexed(s)
  OBVIOUS
<1>2. PICK new : new = NewEntities(idx, c)
  OBVIOUS
<1>3. PICK k : k = m + MintedBy(s, c)
  OBVIOUS
<1>4. /\ Len(new) = Cardinality(Entities[c] \ DOMAIN idx) /\ Len(new) \in Nat
      /\ IsSequence(new) /\ Cardinality(Calls[c]) \in Nat
  BY <1>2, NewInOrder, FiniteCommit, FS_CardinalityType
<1>5. MintedBy(s, c) = Len(new) + Cardinality(Calls[c])
  BY <1>1, <1>4 DEF MintedBy
<1>6. Imports(c, idx, new, m, k)
  BY <1>2, <1>3, <1>4, <1>5 DEF Imports
<1>7. IsFiniteSet(Vanished(idx, c))
  <2> DEFINE entity == [n \in CodeNodes(s) |-> EntityOf(s, n)]
             old == DOMAIN idx \ Entities[c]
  <2>1. CodeNodes(s) \subseteq DOMAIN s
    BY DEF CodeNodes, LiveNodes
  <2>2. IsFiniteSet(CodeNodes(s))
    BY <2>1, FS_Subset
  <2>3. DOMAIN idx = {entity[n] : n \in CodeNodes(s)}
    BY <1>1 DEF Indexed, Range
  <2>4. entity = [n \in CodeNodes(s) |-> entity[n]]
    OBVIOUS
  <2> HIDE DEF entity
  <2>5. IsFiniteSet(DOMAIN idx)
    BY <2>2, <2>3, <2>4, FiniteImage
  <2>6. IsFiniteSet(old)
    BY <2>5, FS_Difference
  <2> DEFINE f == [e \in old |-> idx[e]]
  <2>7. f = [e \in old |-> f[e]] /\ Vanished(idx, c) = {f[e] : e \in old}
    BY DEF Vanished
  <2> HIDE DEF f, old
  <2> QED
    BY <2>6, <2>7, FiniteImage
<1>8. PICK gone : gone = SetToSeq(Vanished(idx, c)) /\ IsSequence(gone) /\ Len(gone) \in Nat
  BY <1>7, SetInOrder
<1> DEFINE creations == [i \in DOMAIN new |-> CreateOps(idx, c, new, m, i)]
           removals == [i \in DOMAIN gone |-> RemovalOps(s, gone[i])]
<1>9. Spares(FlattenSeq(creations), Later(k))
  <2>1. DOMAIN new = 1..Len(new)
    BY <1>4 DEF IsSequence
  <2>2. creations = [i \in 1..Len(new) |-> creations[i]]
    BY <2>1
  <2>3. \A i \in 1..Len(new) : creations[i] = CreateOps(idx, c, new, m, i)
    BY <2>1
  <2> HIDE DEF creations
  <2>4. IsSequence(creations) /\ Len(creations) = Len(new)
    BY <1>4, <2>2, ListedSequence
  <2>5. \A i \in 1..Len(creations) : Spares(creations[i], Later(k))
    BY <1>6, <2>3, <2>4, CreateSpares
  <2> QED
    BY <2>4, <2>5, SparesAll
<1>10. Spares(FlattenSeq(removals), Later(k))
  <2>1. DOMAIN gone = 1..Len(gone)
    BY <1>8 DEF IsSequence
  <2>2. removals = [i \in 1..Len(gone) |-> removals[i]]
    BY <2>1
  <2>3. \A i \in 1..Len(gone) : removals[i] = RemovalOps(s, gone[i])
    BY <2>1
  <2> HIDE DEF removals
  <2>4. IsSequence(removals) /\ Len(removals) = Len(gone)
    BY <1>8, <2>2, ListedSequence
  <2>5. \A i \in 1..Len(removals) : Spares(removals[i], Later(k))
    BY <2>3, <2>4, RemovalSpares
  <2> QED
    BY <2>4, <2>5, SparesAll
<1>11. Spares(UpdateOps(s, idx, c), Later(k)) /\ Spares(CallOps(s, idx, c, new, m), Later(k))
  BY <1>6, UpdateSpares, CallSpares
<1>12. ImportOps(s, c, m)
         = ((FlattenSeq(creations) \o UpdateOps(s, idx, c))
              \o CallOps(s, idx, c, new, m)) \o FlattenSeq(removals)
  BY <1>1, <1>2, <1>8 DEF ImportOps, OpsFrom, OpsFor
<1> HIDE DEF creations, removals
<1>13. Spares(ImportOps(s, c, m), Later(k))
  BY <1>9, <1>10, <1>11, <1>12, SparesBoth
<1> QED
  BY <1>3, <1>4, <1>5, <1>13

-----------------------------------------------------------------------------
\* What a commit holds.

Kinds == {"fn", "struct", "enum", "trait"}

\* Entities and calls that can be tied: an item to its file, a file to the
\* repository, and a call from one function to another.
Closed(X, P) ==
  /\ \A e \in X :
       /\ Repo \in X
       /\ \/ e = Repo
          \/ e = FileAt(e.path) /\ e.path # ""
          \/ /\ e = Entity(e.what, e.path, e.name) /\ e.what \in Kinds
             /\ FileAt(e.path) \in X
  /\ \A p \in P : /\ p = <<p[1], p[2]>> /\ p[1] \in X /\ p[2] \in X
                  /\ p[1].what = "fn" /\ p[2].what = "fn"

\* The parts of an entity.
LEMMA EntityParts ==
  ASSUME NEW what, NEW path, NEW name
  PROVE  /\ Entity(what, path, name).what = what
         /\ Entity(what, path, name).path = path
         /\ Entity(what, path, name).name = name
         /\ Repo.what = "repo" /\ Repo.path = ""
         /\ FileAt(path).what = "file" /\ FileAt(path).path = path
  BY DEF Entity, Repo, FileAt

\* The items of a commit.
LEMMA ItemKinds ==
  ASSUME NEW c \in Commit, NEW e \in Items(c)
  PROVE  /\ e = Entity(e.what, e.path, e.name) /\ e.what \in Kinds
         /\ e.path \in Files(c)
<1>1. PICK path \in Files(c) : e \in ItemsOf(c, path)
  BY DEF Items
<1>2. PICK lines : lines = Lines(c, path)
  OBVIOUS
<1>3. PICK i \in Declarations(lines) :
        e = Entity(lines[i].item[1], path, lines[i].item[2])
  BY <1>1, <1>2 DEF ItemsOf
<1>4. i \in DOMAIN lines /\ lines[i].item # <<>>
  BY <1>3 DEF Declarations
<1>5. \E blob \in DOMAIN SourceOf : lines = SourceOf[blob]
  <2>1. PICK P \in SUBSET Range(Paths) : Tree[c] \in [P -> DOMAIN SourceOf]
    BY TreeAssumption
  <2>2. Tree[c][path] \in DOMAIN SourceOf
    BY <2>1 DEF Files
  <2> QED
    BY <1>2, <2>2 DEF Lines
<1>6. lines[i].item[1] \in Kinds
  BY <1>4, <1>5, NameAssumption DEF Kinds
<1>7. PICK kind, name : e = Entity(kind, path, name) /\ kind \in Kinds
  BY <1>3, <1>6
<1>8. e.what = kind /\ e.path = path /\ e.name = name
  BY <1>7 DEF Entity
<1> QED
  BY <1>1, <1>7, <1>8

\* The files of a commit.
LEMMA FileNames ==
  ASSUME NEW c \in Commit
  PROVE  /\ Files(c) \subseteq Range(Paths) /\ DOMAIN Tree[c] \subseteq Range(Paths)
         /\ \A path \in Files(c) : path # ""
<1>1. PICK P \in SUBSET Range(Paths) : Tree[c] \in [P -> DOMAIN SourceOf]
  BY TreeAssumption
<1>2. Files(c) \subseteq Range(Paths) /\ DOMAIN Tree[c] \subseteq Range(Paths)
  BY <1>1 DEF Files
<1> QED
  BY <1>2, NameAssumption

\* A name that some function has is resolved to one of them.
LEMMA CalleeNamed ==
  ASSUME NEW c \in Commit, NEW name,
         \E f \in Items(c) : f.what = "fn" /\ f.name = name
  PROVE  CalleeOf(c, name) \in {f \in Items(c) : f.what = "fn" /\ f.name = name}
<1> DEFINE named == {f \in Items(c) : f.what = "fn" /\ f.name = name}
           Rank(f) == CHOOSE i \in DOMAIN Paths : Paths[i] = f.path
           ranks == {Rank(f) : f \in named}
<1>1. DOMAIN Paths \subseteq Nat
  <2>1. DOMAIN Paths = 1..Len(Paths) /\ Len(Paths) \in Nat
    BY TreeAssumption
  <2> QED
    BY <2>1
<1>2. \A f \in named : Rank(f) \in Nat
  <2> TAKE f \in named
  <2>1. f.path \in Range(Paths)
    BY ItemKinds, FileNames
  <2>2. \E i \in DOMAIN Paths : Paths[i] = f.path
    BY <2>1 DEF Range
  <2> QED
    BY <1>1, <2>2
<1>3. ranks \in SUBSET Nat /\ ranks # {}
  BY <1>2
<1>4. PICK n \in ranks : \A m \in ranks : n <= m
  <2> HIDE DEF ranks
  <2> QED
    BY <1>3, LeastNumber
<1>5. \E f \in named : \A g \in named : Rank(f) <= Rank(g)
  <2>1. PICK f \in named : n = Rank(f)
    BY <1>4
  <2>2. \A g \in named : Rank(g) \in ranks
    OBVIOUS
  <2> HIDE DEF Rank, ranks, named
  <2>3. \A g \in named : Rank(f) <= Rank(g)
    BY <1>4, <2>1, <2>2
  <2> QED
    BY <2>3
<1>6. CalleeOf(c, name) = CHOOSE f \in named : \A g \in named : Rank(f) <= Rank(g)
  BY DEF CalleeOf
<1> HIDE DEF Rank
<1> QED
  BY <1>5, <1>6

\* A commit's entities and calls can be tied.
LEMMA CommitClosed ==
  ASSUME NEW c \in Commit
  PROVE  /\ Closed(Entities[c], Calls[c]) /\ Repo \in Entities[c]
         /\ \A path \in Files(c) : FileAt(path) \in Entities[c]
         /\ Items(c) \subseteq Entities[c]
<1>1. Entities[c] = {Repo} \cup {FileAt(path) : path \in Files(c)} \cup Items(c)
  BY DEF Entities
<1>2. ASSUME NEW e \in Entities[c]
      PROVE  \/ e = Repo
             \/ e = FileAt(e.path) /\ e.path # ""
             \/ /\ e = Entity(e.what, e.path, e.name) /\ e.what \in Kinds
                /\ FileAt(e.path) \in Entities[c]
  <2>1. CASE \E path \in Files(c) : e = FileAt(path)
    <3>1. PICK path \in Files(c) : e = FileAt(path) /\ path # ""
      BY <2>1, FileNames
    <3>2. e.path = path
      BY <3>1, EntityParts
    <3> QED
      BY <3>1, <3>2
  <2>2. CASE e \in Items(c)
    BY <1>1, <2>2, ItemKinds
  <2> QED
    BY <1>1, <2>1, <2>2
<1>3. ASSUME NEW p \in Calls[c]
      PROVE  /\ p = <<p[1], p[2]>> /\ p[1] \in Items(c) /\ p[2] \in Items(c)
             /\ p[1].what = "fn" /\ p[2].what = "fn"
  <2> DEFINE functions == {f \in Items(c) : f.what = "fn"}
             names == {f.name : f \in functions}
             Callees(f) == {CalleeOf(c, name) : name \in names \cap NamesCalled(c, f)}
  <2>1. Calls[c] = UNION {{f} \X Callees(f) : f \in functions}
    BY DEF Calls
  <2>2. PICK f \in functions : p \in {f} \X Callees(f)
    BY <2>1
  <2>3. PICK name \in names : p = <<f, CalleeOf(c, name)>>
    BY <2>2
  <2>4. CalleeOf(c, name) \in {g \in Items(c) : g.what = "fn" /\ g.name = name}
    BY <2>3, CalleeNamed
  <2> QED
    BY <2>2, <2>3, <2>4
<1> QED
  BY <1>1, <1>2, <1>3 DEF Closed

\* What the node of an entity tells of it.
Stands(content, e) ==
  CASE e.what = "repo" -> TypeOf(content) = "code/Repository"
    [] e.what = "file" -> TypeOf(content) = "code/SourceFile" /\ content.path = e.path
    [] e.what = "fn"   -> TypeOf(content) = "code/Function" /\ content.name = e.name
    [] OTHER -> /\ TypeOf(content) = "code/Type" /\ content.name = e.name
                /\ content.kind = IF e.what = "trait" THEN "interface" ELSE e.what

\* An import writes into a node what tells the entity.
LEMMA ContentStands ==
  ASSUME NEW c \in Commit, NEW e \in Entities[c]
  PROVE  /\ Stands(Contents[c][e], e) /\ DOMAIN Contents[c] = Entities[c]
         /\ Contents[c][e] = Content(c, e)
<1>1. Contents[c][e] = Content(c, e) /\ DOMAIN Contents[c] = Entities[c]
  BY DEF Contents
<1>2. Stands(Content(c, e), e)
  <2>1. CASE e.what = "repo"
    BY <2>1 DEF Content, Stands, TypeOf
  <2>2. CASE e.what = "file"
    BY <2>2 DEF Content, Stands, TypeOf
  <2>3. CASE e.what = "fn"
    BY <2>3 DEF Content, Stands, TypeOf
  <2>4. CASE e.what \notin {"repo", "file", "fn"}
    BY <2>4 DEF Content, Stands, TypeOf
  <2> QED
    BY <2>1, <2>2, <2>3, <2>4
<1> QED
  BY <1>1, <1>2

-----------------------------------------------------------------------------
\* The shape of an index.  A slot is what one object of the graph stands for:
\* an entity, the edge that ties one, or a call; home gives the object of each.

Slots(X, P) ==
  ({"node"} \X X) \cup ({"tie"} \X (X \ {Repo})) \cup ({"call"} \X P)

\* The type of the edge in a slot, and the entities that it ties.
Tie(slot) ==
  IF slot[1] = "call" THEN <<"code/calls", slot[2][1], slot[2][2]>>
  ELSE IF slot[2].what = "file" THEN <<"code/in_repo", slot[2], Repo>>
  ELSE <<"code/declares", FileAt(slot[2].path), slot[2]>>

NodeTypes == {"code/Repository", "code/SourceFile", "code/Function", "code/Type"}
EdgeTypes == {"code/in_repo", "code/declares", "code/calls"}
DerivedEdges(s) == UNION {LiveEdges(s, type) : type \in EdgeTypes}
Derived(s) == CodeNodes(s) \cup DerivedEdges(s)

Fits(content, home, slot) ==
  IF slot[1] = "node" THEN Stands(content, slot[2])
  ELSE /\ TypeOf(content) = Tie(slot)[1]
       /\ content.from = home[<<"node", Tie(slot)[2]>>]
       /\ content.to = home[<<"node", Tie(slot)[3]>>]

\* The live code nodes and derived edges of a graph are one object for each
\* entity, tie and call, and nothing besides.
Shape(s, X, P, home) ==
  /\ Closed(X, P)
  /\ home \in Bijection(Slots(X, P), Derived(s))
  /\ \A slot \in Slots(X, P) : Fits(s[home[slot]].content, home, slot)

\* The three sorts of slots.
LEMMA SlotSorts ==
  ASSUME NEW X, NEW P, NEW slot \in Slots(X, P)
  PROVE  \/ \E e \in X : slot = <<"node", e>> /\ slot[1] = "node" /\ slot[2] = e
         \/ \E e \in X \ {Repo} : slot = <<"tie", e>> /\ slot[1] = "tie" /\ slot[2] = e
         \/ \E p \in P : slot = <<"call", p>> /\ slot[1] = "call" /\ slot[2] = p
  BY DEF Slots

\* A file is told by what it is.
LEMMA FileWhat == ASSUME NEW e, e = FileAt(e.path) PROVE e.what = "file"
<1>1. PICK path : path = e.path
  OBVIOUS
<1>2. e = FileAt(path)
  BY <1>1
<1> QED
  BY <1>2 DEF FileAt, Entity

\* What an edge ties.
LEMMA TieEnds ==
  ASSUME NEW X, NEW P, Closed(X, P), NEW slot \in Slots(X, P), slot[1] # "node"
  PROVE  /\ Tie(slot) = <<Tie(slot)[1], Tie(slot)[2], Tie(slot)[3]>>
         /\ Tie(slot)[1] \in EdgeTypes
         /\ Tie(slot)[2] \in X /\ <<"node", Tie(slot)[2]>> \in Slots(X, P)
         /\ Tie(slot)[3] \in X /\ <<"node", Tie(slot)[3]>> \in Slots(X, P)
<1>1. \A e \in X : <<"node", e>> \in Slots(X, P)
  BY DEF Slots
<1>2. CASE slot[1] = "call"
  <2>1. PICK p \in P : slot[2] = p
    BY <1>2, SlotSorts
  <2> QED
    BY <1>1, <1>2, <2>1 DEF Tie, Closed, EdgeTypes
<1>3. CASE slot[1] # "call"
  <2>1. PICK e \in X \ {Repo} : slot[2] = e
    BY <1>3, SlotSorts
  <2>2. Repo \in X /\ (e.what = "file" \/ FileAt(e.path) \in X)
    <3>1. e = FileAt(e.path) => e.what = "file"
      BY FileWhat
    <3> QED
      BY <2>1, <3>1 DEF Closed
  <2> QED
    BY <1>1, <1>3, <2>1, <2>2 DEF Tie, EdgeTypes
<1> QED
  BY <1>2, <1>3

\* Different edges tie different things.
LEMMA TieOnce ==
  ASSUME NEW X, NEW P, Closed(X, P), NEW a \in Slots(X, P), NEW b \in Slots(X, P),
         a[1] # "node", b[1] # "node", Tie(a) = Tie(b)
  PROVE  a = b
<1>1. a[1] = "call" <=> b[1] = "call"
  BY DEF Tie
<1>2. CASE a[1] = "call"
  <2>1. PICK p \in P, q \in P : a = <<"call", p>> /\ b = <<"call", q>>
    BY <1>1, <1>2, SlotSorts
  <2>2. p = <<p[1], p[2]>> /\ q = <<q[1], q[2]>>
    BY DEF Closed
  <2>3. p[1] = q[1] /\ p[2] = q[2]
    BY <2>1 DEF Tie
  <2> QED
    BY <2>1, <2>2, <2>3
<1>3. CASE a[1] # "call"
  <2>1. PICK d \in X, e \in X : a = <<"tie", d>> /\ b = <<"tie", e>>
    BY <1>1, <1>3, SlotSorts
  <2>2. d = e
    BY <2>1 DEF Tie
  <2> QED
    BY <2>1, <2>2
<1> QED
  BY <1>2, <1>3

\* What home is, member by member.
LEMMA HomeIs ==
  ASSUME NEW s, NEW X, NEW P, NEW home, Shape(s, X, P, home)
  PROVE  /\ home = [slot \in Slots(X, P) |-> home[slot]] /\ DOMAIN home = Slots(X, P)
         /\ \A slot \in Slots(X, P) : home[slot] \in Derived(s)
         /\ \A a, b \in Slots(X, P) : home[a] = home[b] => a = b
         /\ \A id \in Derived(s) : \E slot \in Slots(X, P) : home[slot] = id
  BY DEF Shape, Bijection, Injection, Surjection, IsInjective

\* The type tells a node from an edge.
LEMMA FitTypes ==
  ASSUME NEW X, NEW P, Closed(X, P), NEW slot \in Slots(X, P), NEW content, NEW home,
         Fits(content, home, slot)
  PROVE  /\ slot[1] = "node" => TypeOf(content) \in NodeTypes /\ content.type = TypeOf(content)
         /\ slot[1] # "node" => TypeOf(content) = Tie(slot)[1] /\ content.type = TypeOf(content)
         /\ slot[1] # "node" => TypeOf(content) \in EdgeTypes /\ TypeOf(content) \notin NodeTypes
         /\ slot[1] = "node" => TypeOf(content) \notin EdgeTypes
<1>1. TypeOf(content) # "none" => content.type = TypeOf(content)
  BY DEF TypeOf
<1>2. CASE slot[1] = "node"
  <2>1. TypeOf(content) \in NodeTypes
    BY <1>2 DEF Fits, Stands, NodeTypes
  <2> QED
    BY <1>1, <1>2, <2>1 DEF NodeTypes, EdgeTypes
<1>3. CASE slot[1] # "node"
  <2>1. TypeOf(content) = Tie(slot)[1] /\ Tie(slot)[1] \in EdgeTypes
    BY <1>3, TieEnds DEF Fits
  <2> QED
    BY <1>1, <1>3, <2>1 DEF NodeTypes, EdgeTypes
<1> QED
  BY <1>2, <1>3

\* The nodes and the edges of a graph of that shape.
LEMMA ShapeNodes ==
  ASSUME NEW s, NEW X, NEW P, NEW home, Shape(s, X, P, home)
  PROVE  /\ \A e \in X : <<"node", e>> \in Slots(X, P) /\ home[<<"node", e>>] \in CodeNodes(s)
         /\ \A n \in CodeNodes(s) : \E e \in X : home[<<"node", e>>] = n
         /\ \A slot \in Slots(X, P) :
              slot[1] # "node" => home[slot] \in LiveEdges(s, Tie(slot)[1])
         /\ \A type \in EdgeTypes : \A d \in LiveEdges(s, type) :
              \E slot \in Slots(X, P) : /\ slot[1] # "node" /\ home[slot] = d
                                        /\ Tie(slot)[1] = type
<1>1. /\ \A slot \in Slots(X, P) : home[slot] \in Derived(s)
      /\ \A id \in Derived(s) : \E slot \in Slots(X, P) : home[slot] = id
  BY HomeIs
<1>2. Closed(X, P) /\ \A slot \in Slots(X, P) : Fits(s[home[slot]].content, home, slot)
  BY DEF Shape
<1>3. /\ \A n \in CodeNodes(s) : TypeOf(s[n].content) \in NodeTypes
      /\ \A type : \A d \in LiveEdges(s, type) : TypeOf(s[d].content) = type
  BY DEF CodeNodes, LiveEdges, NodeTypes
<1>4. ASSUME NEW e \in X
      PROVE  <<"node", e>> \in Slots(X, P) /\ home[<<"node", e>>] \in CodeNodes(s)
  <2>1. <<"node", e>> \in Slots(X, P)
    BY DEF Slots
  <2>2. TypeOf(s[home[<<"node", e>>]].content) \notin EdgeTypes
    BY <1>2, <2>1, FitTypes
  <2>3. home[<<"node", e>>] \notin DerivedEdges(s)
    BY <1>3, <2>2 DEF DerivedEdges
  <2> QED
    BY <1>1, <2>1, <2>3 DEF Derived
<1>5. ASSUME NEW n \in CodeNodes(s) PROVE \E e \in X : home[<<"node", e>>] = n
  <2>1. PICK slot \in Slots(X, P) : home[slot] = n
    BY <1>1 DEF Derived
  <2>2. slot[1] = "node"
    BY <1>2, <1>3, <2>1, FitTypes
  <2> QED
    BY <2>1, <2>2, SlotSorts
<1>6. ASSUME NEW slot \in Slots(X, P), slot[1] # "node"
      PROVE  home[slot] \in LiveEdges(s, Tie(slot)[1])
  <2>1. /\ TypeOf(s[home[slot]].content) = Tie(slot)[1]
        /\ TypeOf(s[home[slot]].content) \notin NodeTypes
    BY <1>2, <1>6, FitTypes
  <2>2. PICK type \in EdgeTypes : home[slot] \in LiveEdges(s, type)
    BY <1>1, <1>3, <2>1 DEF Derived, DerivedEdges
  <2> QED
    BY <1>3, <2>1, <2>2
<1>7. ASSUME NEW type \in EdgeTypes, NEW d \in LiveEdges(s, type)
      PROVE  \E slot \in Slots(X, P) : /\ slot[1] # "node" /\ home[slot] = d
                                       /\ Tie(slot)[1] = type
  <2>1. PICK slot \in Slots(X, P) : home[slot] = d
    BY <1>1 DEF Derived, DerivedEdges
  <2>2. slot[1] # "node"
    BY <1>2, <1>3, <2>1, FitTypes
  <2> QED
    BY <1>2, <1>3, <2>1, <2>2, FitTypes
<1> QED
  BY <1>4, <1>5, <1>6, <1>7

\* The edges that declare a node to be of a file.
Declaring(s, n) == {d \in LiveEdges(s, "code/declares") : s[d].content.to = n}

\* The edges at a node.
LEMMA TiesAtNode ==
  ASSUME NEW s, NEW X, NEW P, NEW home, Shape(s, X, P, home), NEW e \in X
  PROVE  /\ e.what \in Kinds => Declaring(s, home[<<"node", e>>]) = {home[<<"tie", e>>]}
         /\ e # Repo => TiesOf(s, home[<<"node", e>>]) = {home[<<"tie", e>>]}
         /\ e = Repo => TiesOf(s, home[<<"node", e>>]) = {}
<1>1. /\ Closed(X, P)
      /\ \A slot \in Slots(X, P) : Fits(s[home[slot]].content, home, slot)
      /\ \A a, b \in Slots(X, P) : home[a] = home[b] => a = b
      /\ \A x \in X : <<"node", x>> \in Slots(X, P)
      /\ \A x \in X \ {Repo} : <<"tie", x>> \in Slots(X, P)
  BY HomeIs DEF Shape, Slots
<1>2. \A x \in X : home[<<"node", x>>] = home[<<"node", e>>] => x = e
  <2> TAKE x \in X
  <2>1. <<"node", x>> = <<"node", e>> => x = e
    OBVIOUS
  <2> QED
    BY <1>1, <2>1
<1>3. ASSUME NEW d \in LiveEdges(s, "code/declares"), s[d].content.to = home[<<"node", e>>]
      PROVE  e # Repo /\ e.what # "file" /\ d = home[<<"tie", e>>]
  <2>1. PICK slot \in Slots(X, P) : /\ slot[1] # "node" /\ home[slot] = d
                                    /\ Tie(slot)[1] = "code/declares"
    BY ShapeNodes DEF EdgeTypes
  <2>2. slot[1] # "call" /\ slot[2].what # "file"
    BY <2>1 DEF Tie
  <2>3. PICK x \in X \ {Repo} : slot = <<"tie", x>> /\ slot[2] = x
    BY <2>1, <2>2, SlotSorts
  <2>4. s[d].content.to = home[<<"node", x>>]
    BY <1>1, <2>1, <2>2, <2>3 DEF Fits, Tie
  <2> QED
    BY <1>2, <1>3, <2>1, <2>2, <2>3, <2>4
<1>4. ASSUME NEW d \in LiveEdges(s, "code/in_repo"), s[d].content.from = home[<<"node", e>>]
      PROVE  e # Repo /\ e.what = "file" /\ d = home[<<"tie", e>>]
  <2>1. PICK slot \in Slots(X, P) : /\ slot[1] # "node" /\ home[slot] = d
                                    /\ Tie(slot)[1] = "code/in_repo"
    BY ShapeNodes DEF EdgeTypes
  <2>2. slot[1] # "call" /\ slot[2].what = "file"
    BY <2>1 DEF Tie
  <2>3. PICK x \in X \ {Repo} : slot = <<"tie", x>> /\ slot[2] = x
    BY <2>1, <2>2, SlotSorts
  <2>4. s[d].content.from = home[<<"node", x>>]
    BY <1>1, <2>1, <2>2, <2>3 DEF Fits, Tie
  <2> QED
    BY <1>2, <1>4, <2>1, <2>2, <2>3, <2>4
<1>5. ASSUME e # Repo
      PROVE  /\ e.what = "file" =>
                  /\ home[<<"tie", e>>] \in LiveEdges(s, "code/in_repo")
                  /\ s[home[<<"tie", e>>]].content.from = home[<<"node", e>>]
             /\ e.what # "file" =>
                  /\ home[<<"tie", e>>] \in LiveEdges(s, "code/declares")
                  /\ s[home[<<"tie", e>>]].content.to = home[<<"node", e>>]
  <2>0. PICK slot : slot = <<"tie", e>>
    OBVIOUS
  <2>1. slot \in Slots(X, P) /\ slot = <<"tie", e>> /\ slot[1] = "tie" /\ slot[2] = e
    <3>1. <<"tie", e>> \in Slots(X, P)
      BY <1>1, <1>5
    <3> QED
      BY <2>0, <3>1
  <2>2. /\ home[slot] \in LiveEdges(s, Tie(slot)[1])
        /\ Fits(s[home[slot]].content, home, slot)
    BY <1>1, <2>1, ShapeNodes
  <2>3. Tie(slot) = IF e.what = "file" THEN <<"code/in_repo", e, Repo>>
                    ELSE <<"code/declares", FileAt(e.path), e>>
    BY <2>1 DEF Tie
  <2> QED
    BY <2>1, <2>2, <2>3 DEF Fits
<1>6. e.what \in Kinds => e # Repo /\ e.what # "file"
  BY EntityParts DEF Kinds
<1> QED
  BY <1>3, <1>4, <1>5, <1>6 DEF TiesOf, Declaring

\* The graph is read back as what it stands for.
LEMMA ReadBack ==
  ASSUME NEW s, NEW X, NEW P, NEW home, Shape(s, X, P, home), NEW e \in X
  PROVE  EntityOf(s, home[<<"node", e>>]) = e
<1>1. PICK n : n = home[<<"node", e>>] /\ n \in CodeNodes(s)
  BY ShapeNodes
<1>2. Stands(s[n].content, e)
  <2>1. PICK slot \in Slots(X, P) : slot = <<"node", e>>
    BY ShapeNodes
  <2> QED
    BY <1>1, <2>1 DEF Shape, Fits
<1>3. TypeOf(s[n].content) # "none" => s[n].content.type = TypeOf(s[n].content)
  BY DEF TypeOf
<1>4. CASE e = Repo
  <2>1. s[n].content.type = "code/Repository"
    BY <1>2, <1>3, <1>4, EntityParts DEF Stands
  <2> QED
    BY <1>1, <1>4, <2>1 DEF EntityOf
<1>5. CASE e = FileAt(e.path)
  <2>1. s[n].content.type = "code/SourceFile" /\ s[n].content.path = e.path
    <3>1. e.what = "file"
      BY <1>5, FileWhat
    <3> QED
      BY <1>2, <1>3, <3>1 DEF Stands
  <2> QED
    BY <1>1, <1>5, <2>1 DEF EntityOf
<1>6. CASE e = Entity(e.what, e.path, e.name) /\ e.what \in Kinds /\ FileAt(e.path) \in X
  <2>1. {d \in LiveEdges(s, "code/declares") : s[d].content.to = n} = {home[<<"tie", e>>]}
    BY <1>1, <1>6, TiesAtNode DEF Declaring
  <2>2. PICK slot : slot = <<"tie", e>> /\ slot[1] = "tie" /\ slot[2] = e /\ slot \in Slots(X, P)
    <3>1. e # Repo
      BY <1>6, EntityParts DEF Kinds
    <3>2. PICK slot : slot = <<"tie", e>>
      OBVIOUS
    <3>3. slot[1] = "tie" /\ slot[2] = e /\ slot \in Slots(X, P)
      BY <3>1, <3>2 DEF Slots
    <3> QED
      BY <3>2, <3>3
  <2>3. Tie(slot) = <<"code/declares", FileAt(e.path), e>>
    BY <1>6, <2>2 DEF Tie, Kinds
  <2>4. s[home[slot]].content.from = home[<<"node", FileAt(e.path)>>]
    <3>1. Fits(s[home[slot]].content, home, slot) /\ slot[1] # "node"
      BY <2>2 DEF Shape
    <3> QED
      BY <2>3, <3>1 DEF Fits
  <2>5. s[home[<<"node", FileAt(e.path)>>]].content.path = e.path
    <3>1. PICK f : f = FileAt(e.path) /\ f \in X /\ f.what = "file" /\ f.path = e.path
      <4>1. PICK path : path = e.path
        OBVIOUS
      <4>2. PICK f : f = FileAt(path)
        OBVIOUS
      <4>3. f.what = "file" /\ f.path = path
        BY <4>2, EntityParts
      <4> QED
        BY <1>6, <4>1, <4>2, <4>3
    <3>2. PICK place : place = <<"node", f>>
      OBVIOUS
    <3>3. Stands(s[home[place]].content, f)
      <4>1. place[1] = "node" /\ place[2] = f /\ place \in Slots(X, P)
        BY <3>1, <3>2 DEF Slots
      <4>2. Fits(s[home[place]].content, home, place)
        BY <4>1 DEF Shape
      <4> QED
        BY <4>1, <4>2 DEF Fits
    <3> QED
      BY <3>1, <3>2, <3>3 DEF Stands
  <2>6. PathOfItem(s, n) = e.path
    BY <2>1, <2>2, <2>4, <2>5 DEF PathOfItem
  <2>7. CASE e.what = "fn"
    <3>1. s[n].content.type = "code/Function" /\ s[n].content.name = e.name
      BY <1>2, <1>3, <2>7 DEF Stands
    <3> QED
      BY <1>1, <1>6, <2>6, <2>7, <3>1 DEF EntityOf
  <2>8. CASE e.what # "fn"
    <3>1. /\ s[n].content.type = "code/Type" /\ s[n].content.name = e.name
          /\ s[n].content.kind = IF e.what = "trait" THEN "interface" ELSE e.what
      BY <1>2, <1>3, <1>6, <2>8 DEF Stands, Kinds
    <3>2. (IF s[n].content.kind = "interface" THEN "trait" ELSE s[n].content.kind) = e.what
      BY <1>6, <3>1 DEF Kinds
    <3> QED
      BY <1>1, <1>6, <2>6, <3>1, <3>2 DEF EntityOf
  <2> QED
    BY <2>7, <2>8
<1> QED
  BY <1>4, <1>5, <1>6 DEF Shape, Closed

\* The index of such a graph is the node of each entity.
LEMMA ShapeIndexed ==
  ASSUME NEW s, NEW X, NEW P, NEW home, Shape(s, X, P, home)
  PROVE  /\ DOMAIN Indexed(s) = X
         /\ \A e \in X : Indexed(s)[e] = home[<<"node", e>>]
         /\ \A n \in CodeNodes(s) :
              EntityOf(s, n) \in X /\ home[<<"node", EntityOf(s, n)>>] = n
<1> DEFINE entity == [n \in CodeNodes(s) |-> EntityOf(s, n)]
<1>1. /\ \A e \in X : home[<<"node", e>>] \in CodeNodes(s)
      /\ \A n \in CodeNodes(s) : \E e \in X : home[<<"node", e>>] = n
      /\ \A e \in X : EntityOf(s, home[<<"node", e>>]) = e
  BY ShapeNodes, ReadBack
<1>2. Range(entity) = X
  <2>1. \A n \in CodeNodes(s) : entity[n] \in X
    BY <1>1
  <2>2. \A e \in X : \E n \in CodeNodes(s) : entity[n] = e
    BY <1>1
  <2> HIDE DEF entity
  <2>3. DOMAIN entity = CodeNodes(s)
    BY DEF entity
  <2> QED
    BY <2>1, <2>2, <2>3 DEF Range
<1>3. ASSUME NEW e \in X
      PROVE  (CHOOSE n \in DOMAIN entity : entity[n] = e) = home[<<"node", e>>]
  <2>1. \A n \in CodeNodes(s) : entity[n] = e <=> n = home[<<"node", e>>]
    BY <1>1
  <2>2. DOMAIN entity = CodeNodes(s) /\ home[<<"node", e>>] \in CodeNodes(s)
    BY <1>1
  <2> HIDE DEF entity
  <2> QED
    BY <2>1, <2>2
<1>4. Indexed(s) = [e \in Range(entity) |-> CHOOSE n \in DOMAIN entity : entity[n] = e]
  BY DEF Indexed
<1> HIDE DEF entity
<1>5. DOMAIN Indexed(s) = X /\ \A e \in X : Indexed(s)[e] = home[<<"node", e>>]
  BY <1>2, <1>3, <1>4
<1>6. \A n \in CodeNodes(s) :
              EntityOf(s, n) \in X /\ home[<<"node", EntityOf(s, n)>>] = n
  BY <1>1
<1> QED
  BY <1>5, <1>6

-----------------------------------------------------------------------------
\* The ids of an import: what each slot of a commit has for its object, the
\* one it had or one that is minted for it.

\* Where an element comes in a list.
Pos(q, x) == CHOOSE i \in DOMAIN q : q[i] = x

\* The entities that get a node, the node of each, and the calls that get an
\* edge, as pairs of nodes.
New(s, c) == NewEntities(Indexed(s), c)
NodeIn(s, c, m, e) == NodeFor(Indexed(s), New(s, c), m, e)
PairIn(s, c, m, p) == <<NodeIn(s, c, m, p[1]), NodeIn(s, c, m, p[2])>>
Added(s, c, m) == SetToSeq({PairIn(s, c, m, p) : p \in Calls[c]} \ CallPairs(s))

MintedFor(s, c, m, slot) ==
  CASE slot[1] = "node" -> NodeIds[m + Pos(New(s, c), slot[2])]
    [] slot[1] = "tie"  -> EdgeIds[m + Pos(New(s, c), slot[2])]
    [] OTHER -> EdgeIds[m + Len(New(s, c))
                          + Pos(Added(s, c, m), PairIn(s, c, m, slot[2]))]

NextHome(s, X, P, home, c, m) ==
  [slot \in Slots(Entities[c], Calls[c]) |->
     IF slot \in Slots(X, P) THEN home[slot] ELSE MintedFor(s, c, m, slot)]

\* An import that has ids enough, and none of them is in use.
Importing(s, X, P, home, c, m) ==
  /\ IsFiniteSet(DOMAIN s) /\ Shape(s, X, P, home)
  /\ c \in Commit /\ m \in Nat /\ m + MintedBy(s, c) <= Len(NodeIds)
  /\ DOMAIN s \cap Later(m) = {}

\* Where a list has its members.
LEMMA PosIs ==
  ASSUME NEW q, NEW x \in Range(q)
  PROVE  Pos(q, x) \in DOMAIN q /\ q[Pos(q, x)] = x
  BY DEF Pos, Range

\* The new entities, each once.
LEMMA NewListed ==
  ASSUME NEW c \in Commit, NEW idx
  PROVE  LET new == NewEntities(idx, c)
         IN  /\ IsSequence(new) /\ Range(new) = Entities[c] \ DOMAIN idx
             /\ DOMAIN new = 1..Len(new) /\ Len(new) \in Nat /\ IsInjective(new)
<1> DEFINE E == Entities[c] \ DOMAIN idx
           A == E \cap {Repo}
           B == {e \in E : e.what = "file"}
           D == E \ ({Repo} \cup B)
<1>1. PICK new : new = NewEntities(idx, c)
  OBVIOUS
<1>2. /\ IsSequence(new) /\ Len(new) = Cardinality(E) /\ Len(new) \in Nat
  BY <1>1, NewInOrder
<1>3. IsFiniteSet(E) /\ IsFiniteSet(A) /\ IsFiniteSet(B) /\ IsFiniteSet(D)
  <2>1. IsFiniteSet(E)
    BY FiniteCommit, FS_Difference
  <2>2. A \subseteq E /\ B \subseteq E /\ D \subseteq E
    OBVIOUS
  <2> HIDE DEF E, A, B, D
  <2> QED
    BY <2>1, <2>2, FS_Subset
<1>4. A \cup B \cup D = E
  OBVIOUS
<1>5. new = (SetToSeq(A) \o SetToSeq(B)) \o SetToSeq(D)
  BY <1>1 DEF NewEntities
<1> HIDE DEF E, A, B, D
<1>6. Range(new) = E
  <2>1. /\ IsSequence(SetToSeq(A)) /\ Range(SetToSeq(A)) = A
        /\ IsSequence(SetToSeq(B)) /\ Range(SetToSeq(B)) = B
        /\ IsSequence(SetToSeq(D)) /\ Range(SetToSeq(D)) = D
    BY <1>3, SetListed
  <2>2. /\ IsSequence(SetToSeq(A) \o SetToSeq(B))
        /\ Range(SetToSeq(A) \o SetToSeq(B)) = A \cup B
    BY <2>1, RangeBoth
  <2>3. Range(new) = (A \cup B) \cup D
    BY <1>5, <2>1, <2>2, RangeBoth
  <2> QED
    BY <1>4, <2>3
<1>7. DOMAIN new = 1..Len(new) /\ new \in [1..Len(new) -> Range(new)]
  BY <1>2 DEF IsSequence
<1>8. IsInjective(new)
  <2>1. PICK n \in Nat : n = Len(new) /\ IsFiniteSet(1..n) /\ Cardinality(1..n) = n
    BY <1>2, FS_Interval
  <2>2. new \in Surjection(1..n, E)
    BY <1>6, <1>7, <2>1 DEF Surjection, Range
  <2>3. new \in Injection(1..n, E)
    BY <1>2, <2>1, <2>2, FS_Surjection
  <2> QED
    BY <2>3 DEF Injection
<1> QED
  BY <1>1, <1>2, <1>6, <1>7, <1>8 DEF E

\* The entities that get a node, as the index tells them.
LEMMA NewIs ==
  ASSUME NEW s, NEW X, NEW P, NEW home, NEW c, NEW m, Importing(s, X, P, home, c, m)
  PROVE  /\ IsSequence(New(s, c)) /\ Range(New(s, c)) = Entities[c] \ X
         /\ DOMAIN New(s, c) = 1..Len(New(s, c)) /\ Len(New(s, c)) \in Nat
         /\ IsInjective(New(s, c))
         /\ DOMAIN Indexed(s) = X /\ \A e \in X : Indexed(s)[e] = home[<<"node", e>>]
         /\ m + Len(New(s, c)) + Cardinality(Calls[c]) <= Len(NodeIds)
         /\ Cardinality(Calls[c]) \in Nat
<1>1. DOMAIN Indexed(s) = X /\ \A e \in X : Indexed(s)[e] = home[<<"node", e>>]
  BY ShapeIndexed DEF Importing
<1>2. /\ IsSequence(New(s, c)) /\ Range(New(s, c)) = Entities[c] \ X
      /\ DOMAIN New(s, c) = 1..Len(New(s, c)) /\ Len(New(s, c)) \in Nat
      /\ IsInjective(New(s, c))
  BY <1>1, NewListed DEF Importing, New
<1>3. Len(New(s, c)) = Cardinality(Entities[c] \ DOMAIN Indexed(s))
  BY NewInOrder DEF Importing, New
<1>4. Cardinality(Calls[c]) \in Nat
  BY FiniteCommit, FS_CardinalityType DEF Importing
<1> QED
  BY <1>1, <1>2, <1>3, <1>4 DEF Importing, MintedBy

\* The numbers of the ids that are left.
Left(m) == (m + 1)..Len(NodeIds)

\* An id that this import mints is new, and different numbers are different ids.
LEMMA MintedIds ==
  ASSUME NEW s, NEW X, NEW P, NEW home, NEW c, NEW m, Importing(s, X, P, home, c, m),
         NEW i \in Left(m), NEW j \in Left(m)
  PROVE  /\ NodeIds[i] \notin DOMAIN s /\ EdgeIds[i] \notin DOMAIN s
         /\ NodeIds[i] \in NodeId /\ EdgeIds[i] \in EdgeId /\ NodeIds[i] # EdgeIds[j]
         /\ NodeIds[i] = NodeIds[j] => i = j
         /\ EdgeIds[i] = EdgeIds[j] => i = j
<1>1. /\ NodeIds \in Seq(NodeId) /\ EdgeIds \in Seq(EdgeId) /\ m \in Nat
      /\ Len(NodeIds) = Len(EdgeIds) /\ Len(NodeIds) \in Nat
      /\ DOMAIN NodeIds = 1..Len(NodeIds) /\ DOMAIN EdgeIds = 1..Len(NodeIds)
  BY IdAssumption DEF Importing
<1>2. i \in 1..Len(NodeIds) /\ j \in 1..Len(NodeIds)
  BY <1>1 DEF Left
<1>3. NodeIds[i] \in Later(m) /\ EdgeIds[i] \in Later(m)
  BY <1>1 DEF Later, Left
<1>4. NodeIds[i] \in NodeId /\ EdgeIds[i] \in EdgeId /\ EdgeIds[j] \in EdgeId
  BY <1>1, <1>2
<1>5. /\ NodeIds[i] = NodeIds[j] => i = j
      /\ EdgeIds[i] = EdgeIds[j] => i = j
  BY <1>1, <1>2, IdAssumption DEF IsInjective
<1> QED
  BY <1>3, <1>4, <1>5, KindsAreDisjoint DEF Importing

\* The node of an entity.
LEMMA NodeInIs ==
  ASSUME NEW s, NEW X, NEW P, NEW home, NEW c, NEW m, Importing(s, X, P, home, c, m),
         NEW e \in Entities[c]
  PROVE  /\ e \in X => NodeIn(s, c, m, e) = home[<<"node", e>>]
         /\ e \notin X => /\ NodeIn(s, c, m, e) = NodeIds[m + Pos(New(s, c), e)]
                          /\ Pos(New(s, c), e) \in 1..Len(New(s, c))
                          /\ New(s, c)[Pos(New(s, c), e)] = e
                          /\ m + Pos(New(s, c), e) \in Left(m)
<1>1. /\ Range(New(s, c)) = Entities[c] \ X /\ DOMAIN New(s, c) = 1..Len(New(s, c))
      /\ DOMAIN Indexed(s) = X /\ \A x \in X : Indexed(s)[x] = home[<<"node", x>>]
      /\ m + Len(New(s, c)) + Cardinality(Calls[c]) <= Len(NodeIds)
      /\ Cardinality(Calls[c]) \in Nat /\ Len(New(s, c)) \in Nat
      /\ m \in Nat /\ Len(NodeIds) \in Nat
  BY NewIs, IdAssumption DEF Importing
<1>2. CASE e \in X
  BY <1>1, <1>2 DEF NodeIn, NodeFor
<1>3. CASE e \notin X
  <2>1. Pos(New(s, c), e) \in 1..Len(New(s, c)) /\ New(s, c)[Pos(New(s, c), e)] = e
    BY <1>1, <1>3, PosIs
  <2>2. NodeIn(s, c, m, e) = NodeIds[m + Pos(New(s, c), e)]
    BY <1>1, <1>3 DEF NodeIn, NodeFor, Pos
  <2> QED
    BY <1>1, <1>3, <2>1, <2>2 DEF Left
<1> QED
  BY <1>2, <1>3

\* Different entities have different nodes, and those of the new ones are new.
LEMMA NodeInOnce ==
  ASSUME NEW s, NEW X, NEW P, NEW home, NEW c, NEW m, Importing(s, X, P, home, c, m),
         NEW d \in Entities[c], NEW e \in Entities[c]
  PROVE  /\ NodeIn(s, c, m, d) = NodeIn(s, c, m, e) => d = e
         /\ NodeIn(s, c, m, e) \in NodeId
         /\ e \in X <=> NodeIn(s, c, m, e) \in DOMAIN s
<1>1. \A x \in Entities[c] :
        /\ x \in X => NodeIn(s, c, m, x) = home[<<"node", x>>]
        /\ x \notin X => /\ NodeIn(s, c, m, x) = NodeIds[m + Pos(New(s, c), x)]
                         /\ New(s, c)[Pos(New(s, c), x)] = x
                         /\ m + Pos(New(s, c), x) \in Left(m)
                         /\ Pos(New(s, c), x) \in Nat /\ m \in Nat
  <2> TAKE x \in Entities[c]
  <2>1. Len(New(s, c)) \in Nat /\ m \in Nat
    BY NewIs DEF Importing
  <2> QED
    BY <2>1, NodeInIs
<1>2. /\ \A x \in X : <<"node", x>> \in Slots(X, P) /\ home[<<"node", x>>] \in CodeNodes(s)
      /\ CodeNodes(s) \subseteq DOMAIN s \cap NodeId
      /\ \A a, b \in Slots(X, P) : home[a] = home[b] => a = b
  BY ShapeNodes, HomeIs DEF Importing, CodeNodes, LiveNodes
<1>3. \A x \in Entities[c] :
        /\ x \in X <=> NodeIn(s, c, m, x) \in DOMAIN s
        /\ NodeIn(s, c, m, x) \in NodeId
  <2> TAKE x \in Entities[c]
  <2>1. CASE x \in X
    <3>1. PICK n : n = home[<<"node", x>>] /\ n \in CodeNodes(s)
      BY <1>2, <2>1
    <3>2. n \in DOMAIN s /\ n \in NodeId /\ NodeIn(s, c, m, x) = n
      BY <1>1, <1>2, <2>1, <3>1
    <3> QED
      BY <2>1, <3>2
  <2>2. CASE x \notin X
    <3>1. PICK i \in Left(m) : NodeIn(s, c, m, x) = NodeIds[i]
      BY <1>1, <2>2
    <3>2. NodeIds[i] \notin DOMAIN s /\ NodeIds[i] \in NodeId
      BY <3>1, MintedIds
    <3> QED
      BY <2>2, <3>1, <3>2
  <2> QED
    BY <2>1, <2>2
<1>4. ASSUME NodeIn(s, c, m, d) = NodeIn(s, c, m, e) PROVE d = e
  <2>1. d \in X <=> e \in X
    BY <1>3, <1>4
  <2>2. CASE d \in X
    <3>1. home[<<"node", d>>] = home[<<"node", e>>]
      BY <1>1, <1>4, <2>1, <2>2
    <3>2. <<"node", d>> = <<"node", e>>
      BY <1>2, <2>1, <2>2, <3>1
    <3> QED
      BY <3>2
  <2>3. CASE d \notin X
    <3>1. PICK i \in Nat, j \in Nat : i = Pos(New(s, c), d) /\ j = Pos(New(s, c), e)
      BY <1>1, <2>1, <2>3
    <3>2. /\ m + i \in Left(m) /\ m + j \in Left(m)
          /\ NodeIds[m + i] = NodeIds[m + j] /\ m \in Nat
      BY <1>1, <1>4, <2>1, <2>3, <3>1
    <3>3. m + i = m + j
      <4>1. PICK a, b : a = m + i /\ b = m + j
        OBVIOUS
      <4>2. a \in Left(m) /\ b \in Left(m)
        BY <3>2, <4>1
      <4>3. NodeIds[a] = NodeIds[b] => a = b
        BY <4>2, MintedIds
      <4> QED
        BY <3>2, <4>1, <4>3
    <3>4. Pos(New(s, c), d) = Pos(New(s, c), e)
      BY <3>1, <3>2, <3>3
    <3> QED
      BY <1>1, <2>1, <2>3, <3>4
  <2> QED
    BY <2>2, <2>3
<1> QED
  BY <1>3, <1>4

\* The nodes of the two ends of a call.
HomePair(home, q) == <<home[<<"node", q[1]>>], home[<<"node", q[2]>>]>>

\* The calls that the graph has.
LEMMA CallsRead ==
  ASSUME NEW s, NEW X, NEW P, NEW home, Shape(s, X, P, home)
  PROVE  /\ \A q \in P : /\ HomePair(home, q) \in CallPairs(s)
                         /\ CallEdge(s, HomePair(home, q)) = home[<<"call", q>>]
         /\ \A pair \in CallPairs(s) : \E q \in P : pair = HomePair(home, q)
<1> DEFINE Pair(q) == <<home[<<"node", q[1]>>], home[<<"node", q[2]>>]>>
           calls == LiveEdges(s, "code/calls")
<1>1. /\ Closed(X, P)
      /\ \A slot \in Slots(X, P) : Fits(s[home[slot]].content, home, slot)
      /\ \A a, b \in Slots(X, P) : home[a] = home[b] => a = b
      /\ \A x \in X : <<"node", x>> \in Slots(X, P)
  BY HomeIs DEF Shape, Slots
<1>2. ASSUME NEW q \in P
      PROVE  /\ home[<<"call", q>>] \in calls
             /\ s[home[<<"call", q>>]].content.from = home[<<"node", q[1]>>]
             /\ s[home[<<"call", q>>]].content.to = home[<<"node", q[2]>>]
  <2>1. PICK slot : slot = <<"call", q>>
    OBVIOUS
  <2>2. /\ slot \in Slots(X, P) /\ slot[1] # "node"
        /\ Tie(slot) = <<"code/calls", q[1], q[2]>>
    BY <2>1 DEF Slots, Tie
  <2>3. home[slot] \in LiveEdges(s, Tie(slot)[1]) /\ Fits(s[home[slot]].content, home, slot)
    BY <1>1, <2>2, ShapeNodes
  <2> QED
    BY <2>1, <2>2, <2>3 DEF Fits
<1>3. ASSUME NEW d \in calls
      PROVE  \E q \in P : /\ d = home[<<"call", q>>] /\ s[d].content.from = home[<<"node", q[1]>>]
                          /\ s[d].content.to = home[<<"node", q[2]>>]
  <2>1. PICK slot \in Slots(X, P) : /\ slot[1] # "node" /\ home[slot] = d
                                    /\ Tie(slot)[1] = "code/calls"
    BY ShapeNodes DEF EdgeTypes
  <2>2. slot[1] = "call"
    BY <2>1 DEF Tie
  <2>3. PICK q \in P : slot = <<"call", q>>
    BY <2>2, SlotSorts
  <2> QED
    BY <1>2, <2>1, <2>3
<1>4. \A q \in P, r \in P : Pair(q) = Pair(r) => q = r
  <2> SUFFICES ASSUME NEW q \in P, NEW r \in P, Pair(q) = Pair(r) PROVE q = r
    OBVIOUS
  <2>1. /\ q = <<q[1], q[2]>> /\ r = <<r[1], r[2]>>
        /\ q[1] \in X /\ q[2] \in X /\ r[1] \in X /\ r[2] \in X
    BY <1>1 DEF Closed
  <2>2. /\ home[<<"node", q[1]>>] = home[<<"node", r[1]>>]
        /\ home[<<"node", q[2]>>] = home[<<"node", r[2]>>]
    OBVIOUS
  <2>3. <<"node", q[1]>> = <<"node", r[1]>> /\ <<"node", q[2]>> = <<"node", r[2]>>
    BY <1>1, <2>1, <2>2
  <2>4. q[1] = r[1] /\ q[2] = r[2]
    BY <2>3
  <2> QED
    BY <2>1, <2>4
<1>5. ASSUME NEW q \in P PROVE Pair(q) \in CallPairs(s) /\ CallEdge(s, Pair(q)) = home[<<"call", q>>]
  <2>1. Pair(q) \in CallPairs(s)
    BY <1>2 DEF CallPairs
  <2>2. \A d \in calls : Pair(q) = <<s[d].content.from, s[d].content.to>>
                           <=> d = home[<<"call", q>>]
    <3> TAKE d \in calls
    <3>1. PICK r \in P : /\ d = home[<<"call", r>>] /\ s[d].content.from = home[<<"node", r[1]>>]
                         /\ s[d].content.to = home[<<"node", r[2]>>]
      BY <1>3
    <3>2. <<s[d].content.from, s[d].content.to>> = Pair(r)
      BY <3>1
    <3>3. ASSUME Pair(q) = <<s[d].content.from, s[d].content.to>> PROVE d = home[<<"call", q>>]
      <4>1. q = r
        BY <1>4, <3>2, <3>3
      <4> QED
        BY <3>1, <4>1
    <3>4. ASSUME d = home[<<"call", q>>] PROVE Pair(q) = <<s[d].content.from, s[d].content.to>>
      BY <1>2, <3>4
    <3> QED
      BY <3>3, <3>4
  <2>3. CallEdge(s, Pair(q)) = home[<<"call", q>>]
    <3> HIDE DEF Pair
    <3> QED
      BY <1>2, <2>2 DEF CallEdge
  <2> QED
    BY <2>1, <2>3
<1>6. ASSUME NEW pair \in CallPairs(s) PROVE \E q \in P : pair = Pair(q)
  <2>1. PICK d \in calls : pair = <<s[d].content.from, s[d].content.to>>
    BY DEF CallPairs
  <2> QED
    BY <1>3, <2>1
<1>7. \A q : HomePair(home, q) = Pair(q)
  BY DEF HomePair
<1> HIDE DEF Pair
<1>8. ASSUME NEW pair \in CallPairs(s) PROVE \E q \in P : pair = HomePair(home, q)
  <2>1. PICK q \in P : pair = Pair(q)
    BY <1>6
  <2> QED
    BY <1>7, <2>1
<1>9. ASSUME NEW q \in P PROVE /\ HomePair(home, q) \in CallPairs(s)
                              /\ CallEdge(s, HomePair(home, q)) = home[<<"call", q>>]
  BY <1>5, <1>7
<1> QED
  BY <1>8, <1>9

\* Which calls of the commit the graph has, and which it must get.
LEMMA PairsIn ==
  ASSUME NEW s, NEW X, NEW P, NEW home, NEW c, NEW m, Importing(s, X, P, home, c, m)
  PROVE  /\ \A p \in Calls[c] : PairIn(s, c, m, p) \in CallPairs(s) <=> p \in P
         /\ \A p, q \in Calls[c] : PairIn(s, c, m, p) = PairIn(s, c, m, q) => p = q
         /\ \A q \in P \cap Calls[c] : PairIn(s, c, m, q) = HomePair(home, q)
<1>1. /\ Closed(X, P) /\ Closed(Entities[c], Calls[c]) /\ c \in Commit
      /\ Shape(s, X, P, home)
  BY CommitClosed DEF Importing, Shape
<1>2. \A p, q \in Calls[c] : PairIn(s, c, m, p) = PairIn(s, c, m, q) => p = q
  <2> SUFFICES ASSUME NEW p \in Calls[c], NEW q \in Calls[c],
                      PairIn(s, c, m, p) = PairIn(s, c, m, q)
               PROVE  p = q
    OBVIOUS
  <2>1. /\ p = <<p[1], p[2]>> /\ q = <<q[1], q[2]>>
        /\ p[1] \in Entities[c] /\ p[2] \in Entities[c]
        /\ q[1] \in Entities[c] /\ q[2] \in Entities[c]
    BY <1>1 DEF Closed
  <2>2. /\ NodeIn(s, c, m, p[1]) = NodeIn(s, c, m, q[1])
        /\ NodeIn(s, c, m, p[2]) = NodeIn(s, c, m, q[2])
    BY DEF PairIn
  <2>3. p[1] = q[1] /\ p[2] = q[2]
    BY <2>1, <2>2, NodeInOnce
  <2> QED
    BY <2>1, <2>3
<1>3. ASSUME NEW q \in P \cap Calls[c]
      PROVE  PairIn(s, c, m, q) = HomePair(home, q)
  <2>1. q[1] \in X \cap Entities[c] /\ q[2] \in X \cap Entities[c]
    BY <1>1 DEF Closed
  <2>2. /\ NodeIn(s, c, m, q[1]) = home[<<"node", q[1]>>]
        /\ NodeIn(s, c, m, q[2]) = home[<<"node", q[2]>>]
    BY <2>1, NodeInIs
  <2> QED
    BY <2>2 DEF PairIn, HomePair
<1>4. ASSUME NEW p \in Calls[c], PairIn(s, c, m, p) \in CallPairs(s) PROVE p \in P
  <2>1. PICK q \in P : PairIn(s, c, m, p) = HomePair(home, q)
    BY <1>1, <1>4, CallsRead
  <2>2. /\ p = <<p[1], p[2]>> /\ q = <<q[1], q[2]>>
        /\ p[1] \in Entities[c] /\ p[2] \in Entities[c] /\ q[1] \in X /\ q[2] \in X
    BY <1>1 DEF Closed
  <2>3. /\ NodeIn(s, c, m, p[1]) = home[<<"node", q[1]>>]
        /\ NodeIn(s, c, m, p[2]) = home[<<"node", q[2]>>]
    BY <2>1 DEF PairIn, HomePair
  <2>4. \A e \in Entities[c], x \in X : NodeIn(s, c, m, e) = home[<<"node", x>>] => e = x
    <3> SUFFICES ASSUME NEW e \in Entities[c], NEW x \in X,
                        NodeIn(s, c, m, e) = home[<<"node", x>>]
                 PROVE  e = x
      OBVIOUS
    <3>1. home[<<"node", x>>] \in DOMAIN s
      BY <1>1, ShapeNodes DEF CodeNodes, LiveNodes
    <3>2. e \in X
      BY <3>1, NodeInOnce
    <3>3. home[<<"node", e>>] = home[<<"node", x>>]
      BY <3>2, NodeInIs
    <3>4. <<"node", e>> \in Slots(X, P) /\ <<"node", x>> \in Slots(X, P)
      BY <3>2 DEF Slots
    <3>5. <<"node", e>> = <<"node", x>>
      BY <1>1, <3>3, <3>4, HomeIs
    <3> QED
      BY <3>5
  <2>5. p[1] = q[1] /\ p[2] = q[2]
    BY <2>2, <2>3, <2>4
  <2> QED
    BY <2>2, <2>5
<1>5. ASSUME NEW p \in Calls[c], p \in P PROVE PairIn(s, c, m, p) \in CallPairs(s)
  <2>1. HomePair(home, p) \in CallPairs(s)
    BY <1>1, <1>5, CallsRead
  <2>2. p \in P \cap Calls[c]
    BY <1>5
  <2> QED
    BY <1>3, <2>1, <2>2
<1> QED
  BY <1>2, <1>3, <1>4, <1>5

\* The calls that get an edge, each once.
LEMMA AddedListed ==
  ASSUME NEW s, NEW X, NEW P, NEW home, NEW c, NEW m, Importing(s, X, P, home, c, m)
  PROVE  LET added == Added(s, c, m)
         IN  /\ IsSequence(added) /\ Len(added) \in Nat /\ DOMAIN added = 1..Len(added)
             /\ Len(added) <= Cardinality(Calls[c])
             /\ Range(added) = {PairIn(s, c, m, p) : p \in Calls[c] \ P}
             /\ IsInjective(added)
<1> DEFINE f == [p \in Calls[c] |-> PairIn(s, c, m, p)]
           desired == {f[p] : p \in Calls[c]}
           missing == desired \ CallPairs(s)
<1>1. desired = {PairIn(s, c, m, p) : p \in Calls[c]} /\ f = [p \in Calls[c] |-> f[p]]
  OBVIOUS
<1>2. Added(s, c, m) = SetToSeq(missing)
  BY <1>1 DEF Added
<1>3. missing = {PairIn(s, c, m, p) : p \in Calls[c] \ P}
  <2>1. \A p \in Calls[c] : PairIn(s, c, m, p) \in CallPairs(s) <=> p \in P
    BY PairsIn
  <2> QED
    BY <1>1, <2>1
<1> HIDE DEF f
<1>4. IsFiniteSet(Calls[c]) /\ Cardinality(Calls[c]) \in Nat
  BY FiniteCommit, FS_CardinalityType DEF Importing
<1>5. IsFiniteSet(desired) /\ Cardinality(desired) <= Cardinality(Calls[c])
      /\ Cardinality(desired) \in Nat
  BY <1>1, <1>4, FiniteImage
<1> HIDE DEF desired
<1>6. IsFiniteSet(missing) /\ Cardinality(missing) <= Cardinality(desired)
  BY <1>5, FS_Subset
<1> HIDE DEF missing
<1>7. /\ IsSequence(Added(s, c, m)) /\ Len(Added(s, c, m)) = Cardinality(missing)
      /\ Len(Added(s, c, m)) \in Nat
      /\ DOMAIN Added(s, c, m) = 1..Len(Added(s, c, m)) /\ Range(Added(s, c, m)) = missing
      /\ IsInjective(Added(s, c, m))
  BY <1>2, <1>6, SetListed
<1> QED
  BY <1>3, <1>4, <1>5, <1>6, <1>7

\* What a slot of the commit that is not in the graph is.
LEMMA FreshSlots ==
  ASSUME NEW s, NEW X, NEW P, NEW home, NEW c, NEW m, Importing(s, X, P, home, c, m),
         NEW slot \in Slots(Entities[c], Calls[c]), slot \notin Slots(X, P)
  PROVE  \/ \E e \in Entities[c] \ X : slot = <<"node", e>>
         \/ \E e \in Entities[c] \ X : e # Repo /\ slot = <<"tie", e>>
         \/ \E p \in Calls[c] \ P : slot = <<"call", p>>
  BY DEF Slots

\* The number of the id that is minted for a slot.
Number(s, c, m, slot) ==
  IF slot[1] = "call"
  THEN m + Len(New(s, c)) + Pos(Added(s, c, m), PairIn(s, c, m, slot[2]))
  ELSE m + Pos(New(s, c), slot[2])

LEMMA NumberIs ==
  ASSUME NEW s, NEW X, NEW P, NEW home, NEW c, NEW m, Importing(s, X, P, home, c, m),
         NEW slot \in Slots(Entities[c], Calls[c]), slot \notin Slots(X, P)
  PROVE  /\ Number(s, c, m, slot) \in Left(m)
         /\ slot[1] = "node" => MintedFor(s, c, m, slot) = NodeIds[Number(s, c, m, slot)]
         /\ slot[1] # "node" => MintedFor(s, c, m, slot) = EdgeIds[Number(s, c, m, slot)]
         /\ slot[1] = "call" => Number(s, c, m, slot) - m > Len(New(s, c))
         /\ slot[1] # "call" => Number(s, c, m, slot) - m <= Len(New(s, c))
<1>1. /\ Len(New(s, c)) \in Nat /\ Range(New(s, c)) = Entities[c] \ X
      /\ DOMAIN New(s, c) = 1..Len(New(s, c))
      /\ m + Len(New(s, c)) + Cardinality(Calls[c]) <= Len(NodeIds)
      /\ Cardinality(Calls[c]) \in Nat /\ m \in Nat /\ Len(NodeIds) \in Nat
  BY NewIs, IdAssumption DEF Importing
<1>2. CASE slot[1] = "call"
  <2>1. PICK p \in Calls[c] \ P : slot = <<"call", p>> /\ slot[2] = p
    BY <1>2, FreshSlots
  <2>2. PICK added : added = Added(s, c, m)
    OBVIOUS
  <2>3. /\ Len(added) \in Nat /\ DOMAIN added = 1..Len(added)
        /\ Len(added) <= Cardinality(Calls[c])
        /\ Range(added) = {PairIn(s, c, m, q) : q \in Calls[c] \ P}
    BY <2>2, AddedListed
  <2>4. PICK i : i = Pos(added, PairIn(s, c, m, p)) /\ i \in 1..Len(added)
    BY <2>3, PosIs
  <2>5. Number(s, c, m, slot) = m + Len(New(s, c)) + i
    BY <1>2, <2>1, <2>2, <2>4 DEF Number
  <2>6. MintedFor(s, c, m, slot) = EdgeIds[Number(s, c, m, slot)]
    BY <1>2 DEF MintedFor, Number
  <2> QED
    BY <1>1, <1>2, <2>3, <2>4, <2>5, <2>6 DEF Left
<1>3. CASE slot[1] # "call"
  <2>1. PICK e \in Entities[c] \ X : slot[2] = e /\ slot[1] \in {"node", "tie"}
    BY <1>3, FreshSlots
  <2>2. PICK i : i = Pos(New(s, c), e) /\ i \in 1..Len(New(s, c))
    BY <1>1, PosIs
  <2>3. Number(s, c, m, slot) = m + i
    BY <1>3, <2>1, <2>2 DEF Number
  <2>4. /\ slot[1] = "node" => MintedFor(s, c, m, slot) = NodeIds[Number(s, c, m, slot)]
        /\ slot[1] # "node" => MintedFor(s, c, m, slot) = EdgeIds[Number(s, c, m, slot)]
    BY <1>3, <2>1 DEF MintedFor, Number
  <2> QED
    BY <1>1, <1>3, <2>2, <2>3, <2>4 DEF Left
<1> QED
  BY <1>2, <1>3

\* Slots of one sort that have one number are one.
LEMMA NumberOnce ==
  ASSUME NEW s, NEW X, NEW P, NEW home, NEW c, NEW m, Importing(s, X, P, home, c, m),
         NEW a \in Slots(Entities[c], Calls[c]), a \notin Slots(X, P),
         NEW b \in Slots(Entities[c], Calls[c]), b \notin Slots(X, P),
         a[1] = "node" <=> b[1] = "node", Number(s, c, m, a) = Number(s, c, m, b)
  PROVE  a = b
<1>1. a[1] = "call" <=> b[1] = "call"
  <2>1. PICK n, l : n = Number(s, c, m, a) - m /\ l = Len(New(s, c))
    OBVIOUS
  <2>2. /\ a[1] = "call" => n > l
        /\ a[1] # "call" => n <= l
        /\ b[1] = "call" => n > l
        /\ b[1] # "call" => n <= l
    BY <2>1, NumberIs
  <2>3. n \in Int /\ l \in Nat
    <3>1. Number(s, c, m, a) \in Left(m) /\ m \in Nat /\ Len(NodeIds) \in Nat
      BY NumberIs, IdAssumption DEF Importing
    <3>2. l \in Nat
      BY <2>1, NewIs
    <3> QED
      BY <2>1, <3>1, <3>2 DEF Left
  <2>4. ~(n > l /\ n <= l)
    BY <2>3
  <2> QED
    BY <2>2, <2>4
<1>2. CASE a[1] = "call"
  <2>1. PICK p \in Calls[c] \ P : a = <<"call", p>> /\ a[2] = p
    BY <1>2, FreshSlots
  <2>2. PICK q \in Calls[c] \ P : b = <<"call", q>> /\ b[2] = q
    BY <1>1, <1>2, FreshSlots
  <2>3. PICK added : added = Added(s, c, m)
    OBVIOUS
  <2>4. /\ Len(added) \in Nat /\ DOMAIN added = 1..Len(added)
        /\ Range(added) = {PairIn(s, c, m, r) : r \in Calls[c] \ P}
    BY <2>3, AddedListed
  <2>5. PICK i : /\ i = Pos(added, PairIn(s, c, m, p)) /\ i \in 1..Len(added)
                 /\ added[i] = PairIn(s, c, m, p)
    BY <2>4, PosIs
  <2>6. PICK j : /\ j = Pos(added, PairIn(s, c, m, q)) /\ j \in 1..Len(added)
                 /\ added[j] = PairIn(s, c, m, q)
    BY <2>4, PosIs
  <2>7. m + Len(New(s, c)) + i = m + Len(New(s, c)) + j
    BY <1>1, <1>2, <2>1, <2>2, <2>3, <2>5, <2>6 DEF Number
  <2>8. i = j
    BY <2>4, <2>5, <2>6, <2>7, NewIs DEF Importing
  <2>9. PairIn(s, c, m, p) = PairIn(s, c, m, q)
    BY <2>5, <2>6, <2>8
  <2>10. p = q
    BY <2>9, PairsIn
  <2> QED
    BY <2>1, <2>2, <2>10
<1>3. CASE a[1] # "call"
  <2>1. PICK d \in Entities[c] \ X : a = <<a[1], d>> /\ a[2] = d /\ a[1] \in {"node", "tie"}
    BY <1>3, FreshSlots
  <2>2. PICK e \in Entities[c] \ X : b = <<b[1], e>> /\ b[2] = e /\ b[1] \in {"node", "tie"}
    BY <1>1, <1>3, FreshSlots
  <2>3. PICK new : new = New(s, c)
    OBVIOUS
  <2>4. Len(new) \in Nat /\ Range(new) = Entities[c] \ X /\ DOMAIN new = 1..Len(new)
    BY <2>3, NewIs
  <2>5. PICK i : i = Pos(new, d) /\ i \in 1..Len(new) /\ new[i] = d
    BY <2>4, PosIs
  <2>6. PICK j : j = Pos(new, e) /\ j \in 1..Len(new) /\ new[j] = e
    BY <2>4, PosIs
  <2>7. m + i = m + j
    BY <1>1, <1>3, <2>1, <2>2, <2>3, <2>5, <2>6 DEF Number
  <2>8. i = j
    BY <2>4, <2>5, <2>6, <2>7 DEF Importing
  <2> QED
    BY <2>1, <2>2, <2>5, <2>6, <2>8
<1> QED
  BY <1>2, <1>3

\* The object of each slot after the import: what it was, or new.
LEMMA NextIs ==
  ASSUME NEW s, NEW X, NEW P, NEW home, NEW c, NEW m, Importing(s, X, P, home, c, m),
         NEW next, next = NextHome(s, X, P, home, c, m),
         NEW slot \in Slots(Entities[c], Calls[c])
  PROVE  /\ slot \in Slots(X, P) => next[slot] = home[slot]
         /\ slot \notin Slots(X, P) => next[slot] = MintedFor(s, c, m, slot)
         /\ next[slot] \in DOMAIN s <=> slot \in Slots(X, P)
         /\ slot[1] = "node" => next[slot] \in NodeId
         /\ slot[1] # "node" => next[slot] \in EdgeId
         /\ slot[1] \in {"node", "tie", "call"}
         /\ DOMAIN next = Slots(Entities[c], Calls[c])
<1>1. /\ slot \in Slots(X, P) => next[slot] = home[slot]
      /\ slot \notin Slots(X, P) => next[slot] = MintedFor(s, c, m, slot)
      /\ DOMAIN next = Slots(Entities[c], Calls[c])
  BY DEF NextHome
<1>2. CASE slot \in Slots(X, P)
  <2>1. Shape(s, X, P, home)
    BY DEF Importing
  <2>2. CASE slot[1] = "node"
    <3>1. PICK e \in X : slot = <<"node", e>>
      BY <1>2, <2>2, SlotSorts
    <3>2. home[slot] \in CodeNodes(s)
      BY <2>1, <3>1, ShapeNodes
    <3> QED
      BY <1>1, <1>2, <2>2, <3>2 DEF CodeNodes, LiveNodes
  <2>3. CASE slot[1] # "node"
    <3>1. home[slot] \in LiveEdges(s, Tie(slot)[1])
      BY <1>2, <2>1, <2>3, ShapeNodes
    <3>2. slot[1] \in {"tie", "call"}
      BY <2>3, SlotSorts
    <3> QED
      BY <1>1, <1>2, <2>3, <3>1, <3>2 DEF LiveEdges
  <2> QED
    BY <2>2, <2>3
<1>3. CASE slot \notin Slots(X, P)
  <2>1. PICK i \in Left(m) :
          /\ slot[1] = "node" => MintedFor(s, c, m, slot) = NodeIds[i]
          /\ slot[1] # "node" => MintedFor(s, c, m, slot) = EdgeIds[i]
    BY <1>3, NumberIs
  <2>2. /\ NodeIds[i] \notin DOMAIN s /\ EdgeIds[i] \notin DOMAIN s
        /\ NodeIds[i] \in NodeId /\ EdgeIds[i] \in EdgeId
    BY MintedIds
  <2>3. slot[1] \in {"node", "tie", "call"}
    BY SlotSorts
  <2> QED
    BY <1>1, <1>3, <2>1, <2>2, <2>3
<1> QED
  BY <1>1, <1>2, <1>3

\* One object for each slot.
LEMMA NextOnce ==
  ASSUME NEW s, NEW X, NEW P, NEW home, NEW c, NEW m, Importing(s, X, P, home, c, m),
         NEW next, next = NextHome(s, X, P, home, c, m),
         NEW a \in Slots(Entities[c], Calls[c]), NEW b \in Slots(Entities[c], Calls[c]),
         next[a] = next[b]
  PROVE  a = b
<1>1. (a \in Slots(X, P) <=> b \in Slots(X, P)) /\ (a[1] = "node" <=> b[1] = "node")
  <2>1. next[a] \in DOMAIN s <=> a \in Slots(X, P)
    BY NextIs
  <2>2. next[b] \in DOMAIN s <=> b \in Slots(X, P)
    BY NextIs
  <2>3. (a[1] = "node" => next[a] \in NodeId) /\ (a[1] # "node" => next[a] \in EdgeId)
    BY NextIs
  <2>4. (b[1] = "node" => next[b] \in NodeId) /\ (b[1] # "node" => next[b] \in EdgeId)
    BY NextIs
  <2> QED
    BY <2>1, <2>2, <2>3, <2>4, KindsAreDisjoint
<1>2. CASE a \in Slots(X, P)
  <2>1. home[a] = home[b]
    BY <1>1, <1>2, NextIs
  <2> QED
    BY <1>1, <1>2, <2>1, HomeIs DEF Importing
<1>3. CASE a \notin Slots(X, P)
  <2>1. PICK i, j : i = Number(s, c, m, a) /\ j = Number(s, c, m, b)
    OBVIOUS
  <2>2. /\ i \in Left(m)
        /\ a[1] = "node" => next[a] = NodeIds[i]
        /\ a[1] # "node" => next[a] = EdgeIds[i]
    BY <1>3, <2>1, NextIs, NumberIs
  <2>3. /\ j \in Left(m)
        /\ b[1] = "node" => next[b] = NodeIds[j]
        /\ b[1] # "node" => next[b] = EdgeIds[j]
    BY <1>1, <1>3, <2>1, NextIs, NumberIs
  <2>4. i = j
    <3>1. (NodeIds[i] = NodeIds[j] => i = j) /\ (EdgeIds[i] = EdgeIds[j] => i = j)
      BY <2>2, <2>3, MintedIds
    <3> QED
      BY <1>1, <2>2, <2>3, <3>1
  <2>5. Number(s, c, m, a) = Number(s, c, m, b) /\ b \notin Slots(X, P)
    BY <1>1, <1>3, <2>1, <2>4
  <2> QED
    BY <1>1, <1>3, <2>5, NumberOnce
<1> QED
  BY <1>2, <1>3

\* The node of an entity after the import.
LEMMA NextNode ==
  ASSUME NEW s, NEW X, NEW P, NEW home, NEW c, NEW m, Importing(s, X, P, home, c, m),
         NEW next, next = NextHome(s, X, P, home, c, m), NEW e \in Entities[c]
  PROVE  next[<<"node", e>>] = NodeIn(s, c, m, e)
<1>1. PICK slot : slot = <<"node", e>>
  OBVIOUS
<1>2. /\ slot \in Slots(Entities[c], Calls[c]) /\ slot[1] = "node" /\ slot[2] = e
      /\ slot \in Slots(X, P) <=> e \in X
  BY <1>1 DEF Slots
<1>3. CASE e \in X
  BY <1>1, <1>2, <1>3, NextIs, NodeInIs
<1>4. CASE e \notin X
  <2>1. next[slot] = MintedFor(s, c, m, slot)
    BY <1>2, <1>4, NextIs
  <2>2. MintedFor(s, c, m, slot) = NodeIds[m + Pos(New(s, c), e)]
    BY <1>2 DEF MintedFor
  <2> QED
    BY <1>1, <1>4, <2>1, <2>2, NodeInIs
<1> QED
  BY <1>3, <1>4

-----------------------------------------------------------------------------
\* The operations of an import, slot by slot.

\* What an import writes of a slot, and the operation that does.
SlotBody(c, next, slot) ==
  IF slot[1] = "node" THEN Contents[c][slot[2]]
  ELSE [type |-> Tie(slot)[1], from |-> next[<<"node", Tie(slot)[2]>>],
        to |-> next[<<"node", Tie(slot)[3]>>], derived |-> c]
SlotCreate(c, next, slot) == CreateOp(next[slot], SlotBody(c, next, slot))

\* The entities whose node is not up to date with a commit.
Stale(s, X, home, c) ==
  {e \in (Entities[c] \cap X) \ {Repo} :
     ContentDiffers(s[home[<<"node", e>>]].content, Contents[c][e])}
SlotUpdate(s, c, home, e) == UpdateOp(s, home[<<"node", e>>], Contents[c][e])
SlotDelete(s, home, slot) == DeleteOp(s, home[slot])

\* What comes, what is brought up to date, and what goes.
Creates(X, P, c, next, op) ==
  \E slot \in Slots(Entities[c], Calls[c]) \ Slots(X, P) : op = SlotCreate(c, next, slot)
Updates(s, X, home, c, op) == \E e \in Stale(s, X, home, c) : op = SlotUpdate(s, c, home, e)
Deletes(s, X, P, home, c, op) ==
  \E slot \in Slots(X, P) \ Slots(Entities[c], Calls[c]) : op = SlotDelete(s, home, slot)

\* Only the repository is one.
LEMMA OnlyRepo ==
  ASSUME NEW X, NEW P, Closed(X, P), NEW e \in X
  PROVE  e.what = "repo" <=> e = Repo
<1>1. e = FileAt(e.path) => e.what = "file"
  BY FileWhat
<1>2. Repo.what = "repo"
  BY EntityParts
<1> QED
  BY <1>1, <1>2 DEF Closed, Kinds

\* The object that an operation of an import is on.
LEMMA CreateIs ==
  ASSUME NEW c, NEW next, NEW slot
  PROVE  /\ SlotCreate(c, next, slot).id = next[slot]
         /\ SlotCreate(c, next, slot).verb = "create"
         /\ SlotCreate(c, next, slot).body = SlotBody(c, next, slot)
  BY DEF SlotCreate, CreateOp

LEMMA UpdateIs ==
  ASSUME NEW s, NEW c, NEW home, NEW e
  PROVE  /\ SlotUpdate(s, c, home, e).id = home[<<"node", e>>]
         /\ SlotUpdate(s, c, home, e).verb = "update"
         /\ SlotUpdate(s, c, home, e).body = Contents[c][e]
  BY DEF SlotUpdate, UpdateOp

LEMMA DeleteIs ==
  ASSUME NEW s, NEW home, NEW slot
  PROVE  /\ SlotDelete(s, home, slot).id = home[slot]
         /\ SlotDelete(s, home, slot).verb = "delete"
  BY DEF SlotDelete, DeleteOp

\* The operations for one new entity: its node, and the edge that ties it.
Brings(ops, c, next, e) ==
  ops = IF e = Repo THEN <<SlotCreate(c, next, <<"node", e>>)>> \o <<>>
        ELSE <<SlotCreate(c, next, <<"node", e>>)>> \o <<SlotCreate(c, next, <<"tie", e>>)>>

LEMMA CreateRange ==
  ASSUME NEW s, NEW X, NEW P, NEW home, NEW c, NEW m, Importing(s, X, P, home, c, m),
         NEW next, next = NextHome(s, X, P, home, c, m),
         NEW i \in 1..Len(New(s, c))
  PROVE  LET ops == CreateOps(Indexed(s), c, New(s, c), m, i)
             e == New(s, c)[i]
         IN  /\ IsSequence(ops)
             /\ \A op : op \in Range(ops) <=>
                  \/ op = SlotCreate(c, next, <<"node", e>>)
                  \/ e # Repo /\ op = SlotCreate(c, next, <<"tie", e>>)
             /\ Brings(ops, c, next, e)
<1>1. PICK e : e = New(s, c)[i]
  OBVIOUS
<1>2. /\ IsInjective(New(s, c)) /\ DOMAIN New(s, c) = 1..Len(New(s, c))
      /\ Range(New(s, c)) = Entities[c] \ X
  BY NewIs
<1>3. e \in Entities[c] \ X /\ Pos(New(s, c), e) = i
  <2>1. e \in Entities[c] \ X
    BY <1>1, <1>2 DEF Range
  <2>2. Pos(New(s, c), e) \in 1..Len(New(s, c)) /\ New(s, c)[Pos(New(s, c), e)] = e
    BY <1>2, <2>1, PosIs
  <2> QED
    BY <1>1, <1>2, <2>1, <2>2 DEF IsInjective
<1>4. /\ Closed(Entities[c], Calls[c]) /\ Repo \in Entities[c]
      /\ e.what = "repo" <=> e = Repo
      /\ e.what # "file" /\ e # Repo => FileAt(e.path) \in Entities[c]
  <2>1. Closed(Entities[c], Calls[c]) /\ Repo \in Entities[c]
    BY CommitClosed DEF Importing
  <2>2. e = FileAt(e.path) => e.what = "file"
    BY FileWhat
  <2> QED
    BY <1>3, <2>1, <2>2, OnlyRepo DEF Closed
<1>5. \A d \in Entities[c] :
        NodeFor(Indexed(s), New(s, c), m, d) = next[<<"node", d>>]
  <2> TAKE d \in Entities[c]
  <2>1. next[<<"node", d>>] = NodeIn(s, c, m, d)
    BY NextNode
  <2> QED
    BY <2>1 DEF NodeIn
<1>6. PICK node : node = SlotCreate(c, next, <<"node", e>>)
  OBVIOUS
<1>7. node = CreateOp(NodeFor(Indexed(s), New(s, c), m, e), Contents[c][e])
  <2>1. PICK slot : slot = <<"node", e>>
    OBVIOUS
  <2>2. slot[1] = "node" /\ slot[2] = e
    BY <2>1
  <2>3. NodeFor(Indexed(s), New(s, c), m, e) = next[slot]
    BY <1>3, <1>5, <2>1
  <2>4. SlotCreate(c, next, slot) = CreateOp(next[slot], Contents[c][e])
    BY <2>2 DEF SlotCreate, SlotBody
  <2> QED
    BY <1>6, <2>1, <2>3, <2>4
<1>8. PICK tie : tie = SlotCreate(c, next, <<"tie", e>>)
  OBVIOUS
<1>9. ASSUME e # Repo
      PROVE  tie = CreateOp(EdgeIds[m + i],
                      IF e.what = "file"
                      THEN [type |-> "code/in_repo", from |-> next[<<"node", e>>],
                            to |-> next[<<"node", Repo>>], derived |-> c]
                      ELSE [type |-> "code/declares", from |-> next[<<"node", FileAt(e.path)>>],
                            to |-> next[<<"node", e>>], derived |-> c])
  <2>1. PICK slot : slot = <<"tie", e>>
    OBVIOUS
  <2>2. /\ slot[1] = "tie" /\ slot[2] = e
        /\ slot \in Slots(Entities[c], Calls[c]) /\ slot \notin Slots(X, P)
    BY <1>3, <1>9, <2>1 DEF Slots
  <2>3. next[slot] = EdgeIds[m + i]
    <3>1. next[slot] = MintedFor(s, c, m, slot)
      BY <2>2, NextIs
    <3>2. MintedFor(s, c, m, slot) = EdgeIds[m + Pos(New(s, c), e)]
      BY <2>2 DEF MintedFor
    <3> QED
      BY <1>3, <3>1, <3>2
  <2>4. Tie(slot) = IF e.what = "file" THEN <<"code/in_repo", e, Repo>>
                    ELSE <<"code/declares", FileAt(e.path), e>>
    BY <2>2 DEF Tie
  <2>5. SlotBody(c, next, slot)
          = [type |-> Tie(slot)[1], from |-> next[<<"node", Tie(slot)[2]>>],
             to |-> next[<<"node", Tie(slot)[3]>>], derived |-> c]
    BY <2>2 DEF SlotBody
  <2>6. tie = CreateOp(next[slot], SlotBody(c, next, slot))
    BY <1>8, <2>1 DEF SlotCreate
  <2>7. CASE e.what = "file"
    BY <2>3, <2>4, <2>5, <2>6, <2>7
  <2>8. CASE e.what # "file"
    BY <2>3, <2>4, <2>5, <2>6, <2>8
  <2> QED
    BY <2>7, <2>8
<1>10. PICK ops : ops = CreateOps(Indexed(s), c, New(s, c), m, i)
  OBVIOUS
<1>11. ops = IF e = Repo THEN <<node>> \o <<>> ELSE <<node>> \o <<tie>>
  <2>1. CASE e = Repo
    BY <1>1, <1>4, <1>7, <1>10, <2>1 DEF CreateOps
  <2>2. CASE e # Repo /\ e.what = "file"
    <3>1. /\ NodeFor(Indexed(s), New(s, c), m, e) = next[<<"node", e>>]
          /\ NodeFor(Indexed(s), New(s, c), m, Repo) = next[<<"node", Repo>>]
      BY <1>3, <1>4, <1>5
    <3> QED
      BY <1>1, <1>4, <1>7, <1>9, <1>10, <2>2, <3>1 DEF CreateOps
  <2>3. CASE e # Repo /\ e.what # "file"
    <3>1. /\ NodeFor(Indexed(s), New(s, c), m, e) = next[<<"node", e>>]
          /\ NodeFor(Indexed(s), New(s, c), m, FileAt(e.path)) = next[<<"node", FileAt(e.path)>>]
      BY <1>3, <1>4, <1>5, <2>3
    <3> QED
      BY <1>1, <1>4, <1>7, <1>9, <1>10, <2>3, <3>1 DEF CreateOps
  <2> QED
    BY <2>1, <2>2, <2>3
<1>12. /\ IsSequence(ops)
       /\ Range(ops) = IF e = Repo THEN {node} ELSE {node, tie}
  <2>1. CASE e = Repo
    <3>1. IsSequence(<<node>>) /\ Range(<<node>>) = {node} /\ IsSequence(<<>>) /\ Range(<<>>) = {}
      BY RangeOne
    <3>2. IsSequence(<<node>> \o <<>>) /\ Range(<<node>> \o <<>>) = Range(<<node>>) \cup Range(<<>>)
      BY <3>1, RangeBoth
    <3> QED
      BY <1>11, <2>1, <3>1, <3>2
  <2>2. CASE e # Repo
    <3>1. IsSequence(<<node>>) /\ Range(<<node>>) = {node} /\ IsSequence(<<tie>>) /\ Range(<<tie>>) = {tie}
      BY RangeOne
    <3>2. IsSequence(<<node>> \o <<tie>>) /\ Range(<<node>> \o <<tie>>) = Range(<<node>>) \cup Range(<<tie>>)
      BY <3>1, RangeBoth
    <3> QED
      BY <1>11, <2>2, <3>1, <3>2
  <2> QED
    BY <2>1, <2>2
<1> QED
  BY <1>1, <1>6, <1>8, <1>10, <1>11, <1>12 DEF Brings

\* The operations for what is not up to date.
LEMMA UpdateRange ==
  ASSUME NEW s, NEW X, NEW P, NEW home, NEW c, NEW m, Importing(s, X, P, home, c, m)
  PROVE  LET ops == UpdateOps(s, Indexed(s), c)
         IN  /\ IsSequence(ops) /\ IsInjective(ops)
             /\ \A op : op \in Range(ops) <=> Updates(s, X, home, c, op)
<1> DEFINE idx == Indexed(s)
           stale == {e \in (Entities[c] \cap DOMAIN idx) \ {Repo} :
                       ContentDiffers(s[idx[e]].content, Contents[c][e])}
           S == {UpdateOp(s, idx[e], Contents[c][e]) : e \in stale}
<1>1. DOMAIN idx = X /\ \A e \in X : idx[e] = home[<<"node", e>>]
  BY NewIs
<1>2. stale = Stale(s, X, home, c)
  BY <1>1 DEF Stale
<1>3. \A op : op \in S <=> Updates(s, X, home, c, op)
  <2>1. \A e \in stale : UpdateOp(s, idx[e], Contents[c][e]) = SlotUpdate(s, c, home, e)
    BY <1>1, <1>2 DEF Stale, SlotUpdate
  <2> QED
    BY <1>2, <2>1 DEF Updates
<1>4. IsFiniteSet(S)
  <2> DEFINE f == [e \in stale |-> UpdateOp(s, idx[e], Contents[c][e])]
  <2>1. f = [e \in stale |-> f[e]] /\ S = {f[e] : e \in stale}
    OBVIOUS
  <2>2. stale \subseteq Entities[c]
    OBVIOUS
  <2> HIDE DEF stale, f
  <2>3. IsFiniteSet(stale)
    BY <2>2, FiniteCommit, FS_Subset DEF Importing
  <2> QED
    BY <2>1, <2>3, FiniteImage
<1>5. UpdateOps(s, idx, c) = SetToSeq(S)
  BY DEF UpdateOps
<1> HIDE DEF S
<1> QED
  BY <1>3, <1>4, <1>5, SetListed

\* The operations for the calls.
CallCreates(P, c, next, op) ==
  \E p \in Calls[c] \ P : op = SlotCreate(c, next, <<"call", p>>)
CallDeletes(s, P, home, c, op) ==
  \E q \in P \ Calls[c] : op = SlotDelete(s, home, <<"call", q>>)

\* First those that come, then those that go.
CallParts(ops, s, P, home, c, next) ==
  \E a, b : /\ ops = a \o b /\ IsSequence(a) /\ IsSequence(b)
            /\ IsInjective(a) /\ IsInjective(b)
            /\ \A op : op \in Range(a) <=> CallCreates(P, c, next, op)
            /\ \A op : op \in Range(b) <=> CallDeletes(s, P, home, c, op)

LEMMA CallRange ==
  ASSUME NEW s, NEW X, NEW P, NEW home, NEW c, NEW m, Importing(s, X, P, home, c, m),
         NEW next, next = NextHome(s, X, P, home, c, m)
  PROVE  LET ops == CallOps(s, Indexed(s), c, New(s, c), m)
         IN  /\ IsSequence(ops)
             /\ \A op : op \in Range(ops) <=>
                  CallCreates(P, c, next, op) \/ CallDeletes(s, P, home, c, op)
             /\ CallParts(ops, s, P, home, c, next)
<1> DEFINE desired == {PairIn(s, c, m, p) : p \in Calls[c]}
           added == Added(s, c, m)
           creates == [i \in DOMAIN added |->
                         CreateOp(EdgeIds[m + Len(New(s, c)) + i],
                                  [type |-> "code/calls", from |-> added[i][1],
                                   to |-> added[i][2], derived |-> c])]
           gone == {CallEdge(s, pair) : pair \in CallPairs(s) \ desired}
           S == {DeleteOp(s, e) : e \in gone}
<1>1. CallOps(s, Indexed(s), c, New(s, c), m) = creates \o SetToSeq(S)
  BY DEF CallOps, Added, PairIn, NodeIn
<1>2. \A op : op \in S <=> \E q \in P \ Calls[c] : op = SlotDelete(s, home, <<"call", q>>)
  <2>1. Shape(s, X, P, home)
    BY DEF Importing
  <2>2. ASSUME NEW q \in P PROVE HomePair(home, q) \in desired <=> q \in Calls[c]
    <3>1. ASSUME NEW p \in Calls[c], HomePair(home, q) = PairIn(s, c, m, p) PROVE q \in Calls[c]
      <4>1. HomePair(home, q) \in CallPairs(s)
        BY <2>1, CallsRead
      <4>2. p \in P
        BY <3>1, <4>1, PairsIn
      <4>3. PairIn(s, c, m, p) = HomePair(home, p)
        BY <4>2, PairsIn
      <4>4. home[<<"call", p>>] = home[<<"call", q>>]
        <5>1. CallEdge(s, HomePair(home, p)) = home[<<"call", p>>]
          BY <2>1, <4>2, CallsRead
        <5>2. CallEdge(s, HomePair(home, q)) = home[<<"call", q>>]
          BY <2>1, CallsRead
        <5> QED
          BY <3>1, <4>3, <5>1, <5>2
      <4>5. <<"call", p>> \in Slots(X, P) /\ <<"call", q>> \in Slots(X, P)
        BY <4>2 DEF Slots
      <4>6. <<"call", p>> = <<"call", q>>
        BY <2>1, <4>4, <4>5, HomeIs
      <4> QED
        BY <4>6
    <3>2. ASSUME q \in Calls[c] PROVE HomePair(home, q) \in desired
      <4>1. PairIn(s, c, m, q) = HomePair(home, q)
        BY <3>2, PairsIn
      <4> QED
        BY <3>2, <4>1
    <3> QED
      BY <3>1, <3>2
  <2>3. ASSUME NEW q \in P
        PROVE  /\ HomePair(home, q) \in CallPairs(s)
               /\ DeleteOp(s, CallEdge(s, HomePair(home, q))) = SlotDelete(s, home, <<"call", q>>)
    BY <2>1, CallsRead DEF SlotDelete
  <2>4. \A pair \in CallPairs(s) : \E q \in P : pair = HomePair(home, q)
    BY <2>1, CallsRead
  <2>5. ASSUME NEW op \in S PROVE \E q \in P \ Calls[c] : op = SlotDelete(s, home, <<"call", q>>)
    <3>1. PICK pair \in CallPairs(s) \ desired : op = DeleteOp(s, CallEdge(s, pair))
      OBVIOUS
    <3> HIDE DEF desired
    <3>2. PICK q \in P : pair = HomePair(home, q)
      BY <2>4, <3>1
    <3> QED
      BY <2>2, <2>3, <3>1, <3>2
  <2>6. ASSUME NEW q \in P \ Calls[c] PROVE SlotDelete(s, home, <<"call", q>>) \in S
    <3> HIDE DEF desired
    <3>1. HomePair(home, q) \in CallPairs(s) \ desired
      BY <2>2, <2>3
    <3>2. SlotDelete(s, home, <<"call", q>>) = DeleteOp(s, CallEdge(s, HomePair(home, q)))
      BY <2>3
    <3> QED
      BY <3>1, <3>2
  <2> HIDE DEF S
  <2> QED
    BY <2>5, <2>6
<1>3. IsFiniteSet(S)
  <2> DEFINE edges == LiveEdges(s, "code/calls")
             h == [e \in edges |-> <<s[e].content.from, s[e].content.to>>]
             pairs == CallPairs(s) \ desired
             g == [pair \in pairs |-> DeleteOp(s, CallEdge(s, pair))]
  <2>1. edges \subseteq DOMAIN s /\ IsFiniteSet(DOMAIN s)
    BY DEF LiveEdges, Importing
  <2>2. CallPairs(s) = {h[e] : e \in edges} /\ h = [e \in edges |-> h[e]]
    BY DEF CallPairs
  <2>3. S = {g[pair] : pair \in pairs} /\ g = [pair \in pairs |-> g[pair]]
    OBVIOUS
  <2> HIDE DEF edges, h, g, desired, S
  <2>4. IsFiniteSet(edges)
    BY <2>1, FS_Subset
  <2>5. IsFiniteSet(CallPairs(s))
    BY <2>2, <2>4, FiniteImage
  <2>6. IsFiniteSet(pairs)
    BY <2>5, FS_Difference
  <2> HIDE DEF pairs
  <2> QED
    BY <2>3, <2>6, FiniteImage
<1>4. /\ IsSequence(creates) /\ IsInjective(creates)
      /\ \A op : op \in Range(creates) <=>
                  \E p \in Calls[c] \ P : op = SlotCreate(c, next, <<"call", p>>)
  <2>1. /\ Len(added) \in Nat /\ DOMAIN added = 1..Len(added) /\ IsInjective(added)
        /\ Range(added) = {PairIn(s, c, m, p) : p \in Calls[c] \ P}
    BY AddedListed
  <2>2. ASSUME NEW i \in 1..Len(added), NEW p \in Calls[c] \ P, added[i] = PairIn(s, c, m, p)
        PROVE  creates[i] = SlotCreate(c, next, <<"call", p>>)
    <3>1. PICK slot : slot = <<"call", p>>
      OBVIOUS
    <3>2. /\ slot[1] = "call" /\ slot[2] = p
          /\ slot \in Slots(Entities[c], Calls[c]) /\ slot \notin Slots(X, P)
      BY <3>1 DEF Slots
    <3>3. Pos(added, PairIn(s, c, m, p)) = i
      <4>1. PairIn(s, c, m, p) \in Range(added)
        BY <2>1
      <4>2. PICK j : j = Pos(added, PairIn(s, c, m, p)) /\ j \in 1..Len(added)
                     /\ added[j] = PairIn(s, c, m, p)
        BY <2>1, <4>1, PosIs
      <4> QED
        BY <2>1, <2>2, <4>2 DEF IsInjective
    <3>4. next[slot] = EdgeIds[m + Len(New(s, c)) + i]
      <4>1. next[slot] = MintedFor(s, c, m, slot)
        BY <3>2, NextIs
      <4> QED
        BY <3>2, <3>3, <4>1 DEF MintedFor
    <3>5. SlotBody(c, next, slot)
            = [type |-> "code/calls", from |-> next[<<"node", p[1]>>],
               to |-> next[<<"node", p[2]>>], derived |-> c]
      <4>1. Tie(slot) = <<"code/calls", p[1], p[2]>>
        BY <3>2 DEF Tie
      <4> QED
        BY <3>2, <4>1 DEF SlotBody
    <3>6. added[i][1] = next[<<"node", p[1]>>] /\ added[i][2] = next[<<"node", p[2]>>]
      <4>1. p[1] \in Entities[c] /\ p[2] \in Entities[c]
        BY CommitClosed DEF Importing, Closed
      <4>2. next[<<"node", p[1]>>] = NodeIn(s, c, m, p[1])
        BY <4>1, NextNode
      <4>3. next[<<"node", p[2]>>] = NodeIn(s, c, m, p[2])
        BY <4>1, NextNode
      <4> QED
        BY <2>2, <4>2, <4>3 DEF PairIn
    <3>7. creates[i] = CreateOp(EdgeIds[m + Len(New(s, c)) + i],
                                [type |-> "code/calls", from |-> added[i][1],
                                 to |-> added[i][2], derived |-> c])
      BY <2>1
    <3>8. SlotCreate(c, next, slot) = CreateOp(next[slot], SlotBody(c, next, slot))
      BY DEF SlotCreate
    <3> HIDE DEF creates, added
    <3> QED
      BY <3>1, <3>4, <3>5, <3>6, <3>7, <3>8
  <2>3. creates = [i \in 1..Len(added) |-> creates[i]] /\ DOMAIN creates = 1..Len(added)
    BY <2>1
  <2> HIDE DEF creates
  <2>4. IsSequence(creates)
    BY <2>1, <2>3, ListedSequence
  <2>5. ASSUME NEW op \in Range(creates)
        PROVE  \E p \in Calls[c] \ P : op = SlotCreate(c, next, <<"call", p>>)
    <3>1. PICK i \in 1..Len(added) : op = creates[i]
      BY <2>3 DEF Range
    <3>2. added[i] \in Range(added)
      BY <2>1 DEF Range
    <3>3. PICK p \in Calls[c] \ P : added[i] = PairIn(s, c, m, p)
      BY <2>1, <3>2
    <3> QED
      BY <2>2, <3>1, <3>3
  <2>6. ASSUME NEW p \in Calls[c] \ P
        PROVE  SlotCreate(c, next, <<"call", p>>) \in Range(creates)
    <3>1. PairIn(s, c, m, p) \in Range(added)
      BY <2>1
    <3>2. PICK i \in 1..Len(added) : added[i] = PairIn(s, c, m, p)
      BY <2>1, <3>1 DEF Range
    <3>3. creates[i] = SlotCreate(c, next, <<"call", p>>)
      BY <2>2, <3>2
    <3> QED
      BY <2>3, <3>3 DEF Range
  <2>7. IsInjective(creates)
    <3>1. \A i \in 1..Len(added) : \E p \in Calls[c] \ P : added[i] = PairIn(s, c, m, p)
      BY <2>1 DEF Range
    <3>2. ASSUME NEW i \in 1..Len(added), NEW j \in 1..Len(added), creates[i] = creates[j]
          PROVE  i = j
      <4>1. PICK p \in Calls[c] \ P, q \in Calls[c] \ P :
              added[i] = PairIn(s, c, m, p) /\ added[j] = PairIn(s, c, m, q)
        BY <3>1
      <4>2. SlotCreate(c, next, <<"call", p>>).id = SlotCreate(c, next, <<"call", q>>).id
        BY <2>2, <3>2, <4>1
      <4>3. next[<<"call", p>>] = next[<<"call", q>>]
        BY <4>2, CreateIs
      <4>4. <<"call", p>> = <<"call", q>>
        <5>1. /\ <<"call", p>> \in Slots(Entities[c], Calls[c])
              /\ <<"call", q>> \in Slots(Entities[c], Calls[c])
          BY DEF Slots
        <5> QED
          BY <4>3, <5>1, NextOnce
      <4>5. added[i] = added[j]
        BY <4>1, <4>4
      <4> QED
        BY <2>1, <4>5 DEF IsInjective
    <3> QED
      BY <2>3, <3>2 DEF IsInjective
  <2> QED
    BY <2>4, <2>5, <2>6, <2>7
<1> HIDE DEF creates, S
<1>5. IsSequence(SetToSeq(S)) /\ Range(SetToSeq(S)) = S /\ IsInjective(SetToSeq(S))
  BY <1>3, SetListed
<1>7. PICK a, b : a = creates /\ b = SetToSeq(S)
  OBVIOUS
<1>8. /\ a \o b = CallOps(s, Indexed(s), c, New(s, c), m) /\ IsSequence(a) /\ IsSequence(b)
      /\ IsInjective(a) /\ IsInjective(b)
      /\ \A op : op \in Range(a) <=> CallCreates(P, c, next, op)
      /\ \A op : op \in Range(b) <=> CallDeletes(s, P, home, c, op)
  BY <1>1, <1>2, <1>4, <1>5, <1>7 DEF CallCreates, CallDeletes
<1>9. IsSequence(a \o b) /\ Range(a \o b) = Range(a) \cup Range(b)
  BY <1>8, RangeBoth
<1>10. \A op : op \in Range(a \o b) <=>
                 CallCreates(P, c, next, op) \/ CallDeletes(s, P, home, c, op)
  BY <1>8, <1>9
<1>11. CallParts(a \o b, s, P, home, c, next)
  BY <1>8 DEF CallParts
<1> QED
  BY <1>8, <1>9, <1>10, <1>11

\* The operations for one node that goes, and the edge that ties it.
Takes(ops, s, home, e) ==
  ops = <<SlotDelete(s, home, <<"tie", e>>)>> \o <<SlotDelete(s, home, <<"node", e>>)>>

\* What the operations on a node that goes come to.
Removes(ops, s, home, e) ==
  /\ IsSequence(ops)
  /\ \A op : op \in Range(ops) <=> \/ op = SlotDelete(s, home, <<"node", e>>)
                                   \/ op = SlotDelete(s, home, <<"tie", e>>)
  /\ Takes(ops, s, home, e)

LEMMA RemovalRange ==
  ASSUME NEW s, NEW X, NEW P, NEW home, Shape(s, X, P, home), NEW e \in X, e # Repo,
         NEW ops, ops = RemovalOps(s, home[<<"node", e>>])
  PROVE  Removes(ops, s, home, e)
<1>1. PICK a, b, n : /\ n = home[<<"node", e>>]
                     /\ a = SlotDelete(s, home, <<"node", e>>) /\ a = DeleteOp(s, n)
                     /\ b = SlotDelete(s, home, <<"tie", e>>)
                     /\ b = DeleteOp(s, home[<<"tie", e>>])
  BY DEF SlotDelete
<1>2. TiesOf(s, n) = {home[<<"tie", e>>]}
  BY <1>1, TiesAtNode
<1>3. RemovalOps(s, n) = <<b>> \o <<a>>
  BY <1>1, <1>2 DEF RemovalOps
<1>4. IsSequence(<<b>>) /\ Range(<<b>>) = {b} /\ IsSequence(<<a>>) /\ Range(<<a>>) = {a}
  BY RangeOne
<1>5. IsSequence(<<b>> \o <<a>>) /\ Range(<<b>> \o <<a>>) = Range(<<b>>) \cup Range(<<a>>)
  BY <1>4, RangeBoth
<1> QED
  BY <1>1, <1>3, <1>4, <1>5 DEF Takes, Removes

\* The nodes that go, in some order.
GoneList(gone, X, home, c) ==
  /\ IsSequence(gone) /\ Len(gone) \in Nat /\ DOMAIN gone = 1..Len(gone)
  /\ \A i \in 1..Len(gone) :
       \E e \in X \ Entities[c] : e # Repo /\ gone[i] = home[<<"node", e>>]
  /\ \A e \in X \ Entities[c] :
       e # Repo /\ \E i \in 1..Len(gone) : gone[i] = home[<<"node", e>>]

LEMMA GoneListed ==
  ASSUME NEW s, NEW X, NEW P, NEW home, NEW c, NEW m, Importing(s, X, P, home, c, m),
         NEW gone, gone = SetToSeq(Vanished(Indexed(s), c))
  PROVE  GoneList(gone, X, home, c)
<1>1. DOMAIN Indexed(s) = X /\ \A e \in X : Indexed(s)[e] = home[<<"node", e>>]
  BY NewIs
<1>2. PICK old : old = Vanished(Indexed(s), c)
  OBVIOUS
<1>3. /\ \A n \in old : \E e \in X \ Entities[c] : n = home[<<"node", e>>]
      /\ \A e \in X \ Entities[c] : home[<<"node", e>>] \in old
  BY <1>1, <1>2 DEF Vanished
<1>4. IsFiniteSet(old)
  <2>1. \A e \in X : home[<<"node", e>>] \in CodeNodes(s)
    BY ShapeNodes DEF Importing
  <2>2. CodeNodes(s) \subseteq DOMAIN s /\ IsFiniteSet(DOMAIN s)
    BY DEF Importing, CodeNodes, LiveNodes
  <2>3. old \subseteq DOMAIN s
    BY <1>3, <2>1, <2>2
  <2> QED
    BY <2>2, <2>3, FS_Subset
<1>5. gone = SetToSeq(old)
  BY <1>2
<1>6. /\ IsSequence(gone) /\ Len(gone) \in Nat /\ DOMAIN gone = 1..Len(gone)
      /\ Range(gone) = old /\ IsInjective(gone)
  BY <1>4, <1>5, SetListed
<1>7. Repo \in Entities[c]
  BY CommitClosed DEF Importing
<1>8. \A i \in 1..Len(gone) :
        \E e \in X \ Entities[c] : e # Repo /\ gone[i] = home[<<"node", e>>]
  BY <1>3, <1>6, <1>7 DEF Range
<1>9. \A e \in X \ Entities[c] :
        e # Repo /\ \E i \in 1..Len(gone) : gone[i] = home[<<"node", e>>]
  <2> TAKE e \in X \ Entities[c]
  <2>1. home[<<"node", e>>] \in Range(gone)
    BY <1>3, <1>6
  <2> QED
    BY <1>6, <1>7, <2>1 DEF Range
<1> QED
  BY <1>6, <1>8, <1>9 DEF GoneList

\* All of them.
LEMMA RemovalsRange ==
  ASSUME NEW s, NEW X, NEW P, NEW home, NEW c, NEW m, Importing(s, X, P, home, c, m),
         NEW gone, gone = SetToSeq(Vanished(Indexed(s), c)), NEW ops,
         ops = FlattenSeq([i \in DOMAIN gone |-> RemovalOps(s, gone[i])])
  PROVE  /\ IsSequence(ops)
         /\ \A op : op \in Range(ops) <=>
              \E e \in X \ Entities[c] : \/ op = SlotDelete(s, home, <<"node", e>>)
                                         \/ op = SlotDelete(s, home, <<"tie", e>>)
<1> DEFINE removals == [i \in DOMAIN gone |-> RemovalOps(s, gone[i])]
<1>0. GoneList(gone, X, home, c)
  BY GoneListed
<1>1. /\ IsSequence(gone) /\ Len(gone) \in Nat /\ DOMAIN gone = 1..Len(gone)
      /\ \A i \in 1..Len(gone) :
           \E e \in X \ Entities[c] : e # Repo /\ gone[i] = home[<<"node", e>>]
      /\ \A e \in X \ Entities[c] :
           e # Repo /\ \E i \in 1..Len(gone) : gone[i] = home[<<"node", e>>]
  BY <1>0 DEF GoneList
<1>2. removals = [i \in 1..Len(gone) |-> removals[i]]
  BY <1>1
<1>3. \A i \in 1..Len(gone) : removals[i] = RemovalOps(s, gone[i])
  BY <1>1
<1>4. ops = FlattenSeq(removals)
  OBVIOUS
<1> HIDE DEF removals
<1>5. IsSequence(removals) /\ Len(removals) = Len(gone)
  BY <1>1, <1>2, ListedSequence
<1>6. ASSUME NEW i \in 1..Len(gone), NEW e \in X \ Entities[c], e # Repo,
             gone[i] = home[<<"node", e>>]
      PROVE  /\ IsSequence(removals[i])
             /\ \A op : op \in Range(removals[i]) <=>
                  \/ op = SlotDelete(s, home, <<"node", e>>)
                  \/ op = SlotDelete(s, home, <<"tie", e>>)
  <2>1. Shape(s, X, P, home)
    BY DEF Importing
  <2>2. PICK q : q = RemovalOps(s, home[<<"node", e>>]) /\ removals[i] = q
    BY <1>3, <1>6
  <2>3. /\ IsSequence(q)
        /\ \A op : op \in Range(q) <=>
             \/ op = SlotDelete(s, home, <<"node", e>>)
             \/ op = SlotDelete(s, home, <<"tie", e>>)
    <3>1. Removes(q, s, home, e)
      BY <1>6, <2>1, <2>2, RemovalRange
    <3> QED
      BY <3>1 DEF Removes
  <2> QED
    BY <2>2, <2>3
<1>7. \A i \in 1..Len(removals) : IsSequence(removals[i])
  BY <1>1, <1>5, <1>6
<1>8. IsSequence(ops) /\ Range(ops) = UNION {Range(removals[i]) : i \in 1..Len(removals)}
  BY <1>4, <1>5, <1>7, RangeAll
<1>9. ASSUME NEW op \in Range(ops)
      PROVE  \E e \in X \ Entities[c] : \/ op = SlotDelete(s, home, <<"node", e>>)
                                        \/ op = SlotDelete(s, home, <<"tie", e>>)
  <2>1. PICK i \in 1..Len(gone) : op \in Range(removals[i])
    BY <1>5, <1>8
  <2>2. PICK e \in X \ Entities[c] : e # Repo /\ gone[i] = home[<<"node", e>>]
    BY <1>1
  <2> QED
    BY <1>6, <2>1, <2>2
<1>10. ASSUME NEW e \in X \ Entities[c], NEW op, \/ op = SlotDelete(s, home, <<"node", e>>)
                                                 \/ op = SlotDelete(s, home, <<"tie", e>>)
       PROVE  op \in Range(ops)
  <2>1. PICK i \in 1..Len(gone) : e # Repo /\ gone[i] = home[<<"node", e>>]
    BY <1>1
  <2>2. op \in Range(removals[i])
    BY <1>6, <1>10, <2>1
  <2> QED
    BY <1>5, <1>8, <2>2
<1> QED
  BY <1>8, <1>9, <1>10

\* All creations of nodes, and of the edges that tie them.
LEMMA CreatesRange ==
  ASSUME NEW s, NEW X, NEW P, NEW home, NEW c, NEW m, Importing(s, X, P, home, c, m),
         NEW next, next = NextHome(s, X, P, home, c, m),
         NEW new, new = New(s, c), NEW ops,
         ops = FlattenSeq([i \in DOMAIN new |-> CreateOps(Indexed(s), c, new, m, i)])
  PROVE  /\ IsSequence(ops)
         /\ \A op : op \in Range(ops) <=>
              \E e \in Entities[c] \ X :
                \/ op = SlotCreate(c, next, <<"node", e>>)
                \/ e # Repo /\ op = SlotCreate(c, next, <<"tie", e>>)
<1> DEFINE creations == [i \in DOMAIN new |-> CreateOps(Indexed(s), c, new, m, i)]
<1>1. /\ IsSequence(new) /\ Len(new) \in Nat /\ DOMAIN new = 1..Len(new)
      /\ Range(new) = Entities[c] \ X
  BY NewIs
<1>2. creations = [i \in 1..Len(new) |-> creations[i]]
  BY <1>1
<1>3. \A i \in 1..Len(new) : creations[i] = CreateOps(Indexed(s), c, new, m, i)
  BY <1>1
<1>4. ops = FlattenSeq(creations)
  OBVIOUS
<1> HIDE DEF creations
<1>5. IsSequence(creations) /\ Len(creations) = Len(new)
  BY <1>1, <1>2, ListedSequence
<1>6. ASSUME NEW i \in 1..Len(new)
      PROVE  /\ IsSequence(creations[i])
             /\ \A op : op \in Range(creations[i]) <=>
                  \/ op = SlotCreate(c, next, <<"node", new[i]>>)
                  \/ new[i] # Repo /\ op = SlotCreate(c, next, <<"tie", new[i]>>)
  <2>1. PICK q : q = CreateOps(Indexed(s), c, New(s, c), m, i)
    OBVIOUS
  <2>2. /\ IsSequence(q)
        /\ \A op : op \in Range(q) <=>
             \/ op = SlotCreate(c, next, <<"node", New(s, c)[i]>>)
             \/ New(s, c)[i] # Repo /\ op = SlotCreate(c, next, <<"tie", New(s, c)[i]>>)
    BY <2>1, CreateRange
  <2> QED
    BY <1>3, <2>1, <2>2
<1>7. \A i \in 1..Len(creations) : IsSequence(creations[i])
  BY <1>5, <1>6
<1>8. IsSequence(ops) /\ Range(ops) = UNION {Range(creations[i]) : i \in 1..Len(creations)}
  BY <1>4, <1>5, <1>7, RangeAll
<1>9. ASSUME NEW op \in Range(ops)
      PROVE  \E e \in Entities[c] \ X :
                \/ op = SlotCreate(c, next, <<"node", e>>)
                \/ e # Repo /\ op = SlotCreate(c, next, <<"tie", e>>)
  <2>1. PICK i \in 1..Len(new) : op \in Range(creations[i])
    BY <1>5, <1>8
  <2>2. new[i] \in Entities[c] \ X
    BY <1>1 DEF Range
  <2> QED
    BY <1>6, <2>1, <2>2
<1>10. ASSUME NEW e \in Entities[c] \ X, NEW op,
              \/ op = SlotCreate(c, next, <<"node", e>>)
              \/ e # Repo /\ op = SlotCreate(c, next, <<"tie", e>>)
       PROVE  op \in Range(ops)
  <2>1. PICK i \in 1..Len(new) : new[i] = e
    BY <1>1 DEF Range
  <2>2. op \in Range(creations[i])
    BY <1>6, <1>10, <2>1
  <2> QED
    BY <1>5, <1>8, <2>2
<1> QED
  BY <1>8, <1>9, <1>10

\* An import creates what comes, updates what is not up to date, and deletes
\* what goes.
LEMMA ImportPlan ==
  ASSUME NEW s, NEW X, NEW P, NEW home, NEW c, NEW m, Importing(s, X, P, home, c, m),
         NEW next, next = NextHome(s, X, P, home, c, m)
  PROVE  /\ IsSequence(ImportOps(s, c, m))
         /\ \A op : op \in Range(ImportOps(s, c, m)) <=>
              \/ Creates(X, P, c, next, op)
              \/ Updates(s, X, home, c, op)
              \/ Deletes(s, X, P, home, c, op)
<1>1. PICK new, gone : new = New(s, c) /\ gone = SetToSeq(Vanished(Indexed(s), c))
  OBVIOUS
<1>2. PICK a : a = FlattenSeq([i \in DOMAIN new |-> CreateOps(Indexed(s), c, new, m, i)])
  OBVIOUS
<1>3. PICK b : b = UpdateOps(s, Indexed(s), c)
  OBVIOUS
<1>4. PICK d : d = CallOps(s, Indexed(s), c, new, m)
  OBVIOUS
<1>5. PICK g : g = FlattenSeq([i \in DOMAIN gone |-> RemovalOps(s, gone[i])])
  OBVIOUS
<1>6. ImportOps(s, c, m) = ((a \o b) \o d) \o g
  BY <1>1, <1>2, <1>3, <1>4, <1>5 DEF ImportOps, OpsFrom, OpsFor, New
<1>7. /\ IsSequence(a)
      /\ \A op : op \in Range(a) <=>
              \E e \in Entities[c] \ X :
                \/ op = SlotCreate(c, next, <<"node", e>>)
                \/ e # Repo /\ op = SlotCreate(c, next, <<"tie", e>>)
  BY <1>1, <1>2, CreatesRange
<1>8. IsSequence(b) /\ \A op : op \in Range(b) <=> Updates(s, X, home, c, op)
  BY <1>3, UpdateRange
<1>9. /\ IsSequence(d)
      /\ \A op : op \in Range(d) <=>
                  CallCreates(P, c, next, op) \/ CallDeletes(s, P, home, c, op)
  <2>1. d = CallOps(s, Indexed(s), c, New(s, c), m)
    BY <1>1, <1>4
  <2> QED
    BY <2>1, CallRange
<1>10. /\ IsSequence(g)
       /\ \A op : op \in Range(g) <=>
              \E e \in X \ Entities[c] : \/ op = SlotDelete(s, home, <<"node", e>>)
                                         \/ op = SlotDelete(s, home, <<"tie", e>>)
  BY <1>1, <1>5, RemovalsRange
<1>11. IsSequence(a \o b) /\ Range(a \o b) = Range(a) \cup Range(b)
  BY <1>7, <1>8, RangeBoth
<1>12. IsSequence((a \o b) \o d) /\ Range((a \o b) \o d) = Range(a \o b) \cup Range(d)
  BY <1>9, <1>11, RangeBoth
<1>13. /\ IsSequence(((a \o b) \o d) \o g)
       /\ Range(((a \o b) \o d) \o g) = Range((a \o b) \o d) \cup Range(g)
  BY <1>10, <1>12, RangeBoth
<1>14. \A op : op \in Range(ImportOps(s, c, m)) <=>
         op \in Range(a) \/ op \in Range(b) \/ op \in Range(d) \/ op \in Range(g)
  BY <1>6, <1>11, <1>12, <1>13
<1>15. ASSUME NEW slot
       PROVE  /\ slot \in Slots(Entities[c], Calls[c]) \ Slots(X, P) <=>
                   \/ \E e \in Entities[c] \ X : slot = <<"node", e>>
                   \/ \E e \in Entities[c] \ X : e # Repo /\ slot = <<"tie", e>>
                   \/ \E p \in Calls[c] \ P : slot = <<"call", p>>
              /\ slot \in Slots(X, P) \ Slots(Entities[c], Calls[c]) <=>
                   \/ \E e \in X \ Entities[c] : slot = <<"node", e>>
                   \/ \E e \in X \ Entities[c] : slot = <<"tie", e>>
                   \/ \E p \in P \ Calls[c] : slot = <<"call", p>>
  <2>1. Repo \in Entities[c]
    BY CommitClosed DEF Importing
  <2> QED
    BY <2>1 DEF Slots
<1>16. ASSUME NEW op
       PROVE  Creates(X, P, c, next, op) <=>
                \/ op \in Range(a)
                \/ CallCreates(P, c, next, op)
  <2>1. ASSUME Creates(X, P, c, next, op)
        PROVE  \/ op \in Range(a)
               \/ CallCreates(P, c, next, op)
    <3>1. PICK slot \in Slots(Entities[c], Calls[c]) \ Slots(X, P) : op = SlotCreate(c, next, slot)
      BY <2>1 DEF Creates
    <3> QED
      BY <1>7, <1>15, <3>1 DEF CallCreates
  <2>2. ASSUME NEW e \in Entities[c] \ X, op = SlotCreate(c, next, <<"node", e>>)
        PROVE  Creates(X, P, c, next, op)
    <3>1. PICK slot : slot = <<"node", e>>
      OBVIOUS
    <3> QED
      BY <1>15, <2>2, <3>1 DEF Creates
  <2>3. ASSUME NEW e \in Entities[c] \ X, e # Repo, op = SlotCreate(c, next, <<"tie", e>>)
        PROVE  Creates(X, P, c, next, op)
    <3>1. PICK slot : slot = <<"tie", e>>
      OBVIOUS
    <3> QED
      BY <1>15, <2>3, <3>1 DEF Creates
  <2>4. ASSUME NEW p \in Calls[c] \ P, op = SlotCreate(c, next, <<"call", p>>)
        PROVE  Creates(X, P, c, next, op)
    <3>1. PICK slot : slot = <<"call", p>>
      OBVIOUS
    <3> QED
      BY <1>15, <2>4, <3>1 DEF Creates
  <2> QED
    BY <1>7, <2>1, <2>2, <2>3, <2>4 DEF CallCreates
<1>17. ASSUME NEW op
       PROVE  Deletes(s, X, P, home, c, op) <=>
                \/ op \in Range(g)
                \/ CallDeletes(s, P, home, c, op)
  <2>1. ASSUME Deletes(s, X, P, home, c, op)
        PROVE  \/ op \in Range(g)
               \/ CallDeletes(s, P, home, c, op)
    <3>1. PICK slot \in Slots(X, P) \ Slots(Entities[c], Calls[c]) : op = SlotDelete(s, home, slot)
      BY <2>1 DEF Deletes
    <3> QED
      BY <1>10, <1>15, <3>1 DEF CallDeletes
  <2>2. ASSUME NEW e \in X \ Entities[c], op = SlotDelete(s, home, <<"node", e>>)
        PROVE  Deletes(s, X, P, home, c, op)
    <3>1. PICK slot : slot = <<"node", e>>
      OBVIOUS
    <3> QED
      BY <1>15, <2>2, <3>1 DEF Deletes
  <2>3. ASSUME NEW e \in X \ Entities[c], op = SlotDelete(s, home, <<"tie", e>>)
        PROVE  Deletes(s, X, P, home, c, op)
    <3>1. PICK slot : slot = <<"tie", e>>
      OBVIOUS
    <3> QED
      BY <1>15, <2>3, <3>1 DEF Deletes
  <2>4. ASSUME NEW q \in P \ Calls[c], op = SlotDelete(s, home, <<"call", q>>)
        PROVE  Deletes(s, X, P, home, c, op)
    <3>1. PICK slot : slot = <<"call", q>>
      OBVIOUS
    <3> QED
      BY <1>15, <2>4, <3>1 DEF Deletes
  <2> QED
    BY <1>10, <2>1, <2>2, <2>3, <2>4 DEF CallDeletes
<1> QED
  BY <1>6, <1>8, <1>9, <1>13, <1>14, <1>16, <1>17

-----------------------------------------------------------------------------
\* What an import makes of a graph.

\* An object that is there, live, with some content.
Became(r, id, content) == id \in DOMAIN r /\ ~r[id].deleted /\ r[id].content = content

\* The objects that an import creates, updates and deletes are different ones.
LEMMA OpsApart ==
  ASSUME NEW s, NEW X, NEW P, NEW home, NEW c, NEW m, Importing(s, X, P, home, c, m),
         NEW next, next = NextHome(s, X, P, home, c, m), NEW op \in Range(ImportOps(s, c, m))
  PROVE  \/ /\ op.id \notin DOMAIN s
            /\ \E slot \in Slots(Entities[c], Calls[c]) \ Slots(X, P) :
                 op = SlotCreate(c, next, slot) /\ op.id = next[slot]
         \/ \E e \in Stale(s, X, home, c) :
              op = SlotUpdate(s, c, home, e) /\ op.id = home[<<"node", e>>]
         \/ \E slot \in Slots(X, P) \ Slots(Entities[c], Calls[c]) :
              op = SlotDelete(s, home, slot) /\ op.id = home[slot]
<1>1. \/ Creates(X, P, c, next, op)
      \/ Updates(s, X, home, c, op)
      \/ Deletes(s, X, P, home, c, op)
  BY ImportPlan
<1>2. CASE Creates(X, P, c, next, op)
  <2>1. PICK slot \in Slots(Entities[c], Calls[c]) \ Slots(X, P) :
          op = SlotCreate(c, next, slot)
    BY <1>2 DEF Creates
  <2>2. op.id = next[slot] /\ next[slot] \notin DOMAIN s
    BY <2>1, CreateIs, NextIs
  <2> QED
    BY <2>1, <2>2
<1>3. CASE Updates(s, X, home, c, op)
  <2>1. PICK e \in Stale(s, X, home, c) : op = SlotUpdate(s, c, home, e)
    BY <1>3 DEF Updates
  <2>2. op.id = home[<<"node", e>>]
    BY <2>1, UpdateIs
  <2> QED
    BY <2>1, <2>2
<1>4. CASE Deletes(s, X, P, home, c, op)
  <2>1. PICK slot \in Slots(X, P) \ Slots(Entities[c], Calls[c]) : op = SlotDelete(s, home, slot)
    BY <1>4 DEF Deletes
  <2>2. op.id = home[slot]
    BY <2>1, DeleteIs
  <2> QED
    BY <2>1, <2>2
<1> QED
  BY <1>1, <1>2, <1>3, <1>4

\* The slots of what an import brings up to date, and where every slot is.
LEMMA StaleSlots ==
  ASSUME NEW s, NEW X, NEW P, NEW home, NEW c, NEW m, Importing(s, X, P, home, c, m)
  PROVE  /\ \A e \in Stale(s, X, home, c) :
              /\ <<"node", e>> \in Slots(X, P) /\ <<"node", e>> \in Slots(Entities[c], Calls[c])
              /\ home[<<"node", e>>] \in DOMAIN s /\ home[<<"node", e>>] \in Derived(s)
              /\ \A b \in Slots(X, P) : home[<<"node", e>>] = home[b] => b = <<"node", e>>
              /\ e # Repo
         /\ \A slot \in Slots(X, P) : home[slot] \in DOMAIN s /\ home[slot] \in Derived(s)
         /\ \A a, b \in Slots(X, P) : home[a] = home[b] => a = b
<1>1. \A a, b \in Slots(X, P) : home[a] = home[b] => a = b
  BY HomeIs DEF Importing
<1>2. \A slot \in Slots(X, P) : home[slot] \in Derived(s)
  BY HomeIs DEF Importing
<1>3. Derived(s) \subseteq DOMAIN s
  BY DEF Derived, CodeNodes, LiveNodes, DerivedEdges, LiveEdges
<1>4. ASSUME NEW e \in Stale(s, X, home, c)
      PROVE  /\ <<"node", e>> \in Slots(X, P) /\ <<"node", e>> \in Slots(Entities[c], Calls[c])
             /\ e # Repo
  BY DEF Stale, Slots
<1>5. ASSUME NEW e \in Stale(s, X, home, c)
      PROVE  /\ home[<<"node", e>>] \in DOMAIN s /\ home[<<"node", e>>] \in Derived(s)
             /\ \A b \in Slots(X, P) : home[<<"node", e>>] = home[b] => b = <<"node", e>>
  <2>1. PICK slot \in Slots(X, P) : slot = <<"node", e>>
    BY <1>4
  <2> QED
    BY <1>1, <1>2, <1>3, <2>1
<1> QED
  BY <1>1, <1>2, <1>3, <1>4, <1>5

\* A slot that comes.
LEMMA ResultFresh ==
  ASSUME NEW s, NEW X, NEW P, NEW home, NEW c, NEW m, Importing(s, X, P, home, c, m),
         NEW next, next = NextHome(s, X, P, home, c, m),
         NEW reg, NEW ops, ops = ImportOps(s, c, m), ApplyOps(reg, s, ops).ok,
         NEW slot \in Slots(Entities[c], Calls[c]), slot \notin Slots(X, P)
  PROVE  Became(ApplyOps(reg, s, ops).objects, next[slot], SlotBody(c, next, slot))
<1>1. PICK one : one = SlotCreate(c, next, slot)
  OBVIOUS
<1>2. one.id = next[slot] /\ one.verb = "create" /\ one.body = SlotBody(c, next, slot)
  BY <1>1, CreateIs
<1>3. next[slot] \notin DOMAIN s
  BY NextIs
<1>4. IsSequence(ops) /\ one \in Range(ops)
  BY <1>1, ImportPlan DEF Creates
<1>5. ASSUME NEW op \in Range(ops), op.id = next[slot] PROVE op = one
  <2>1. ASSUME NEW e \in Stale(s, X, home, c) PROVE op.id # home[<<"node", e>>]
    <3>1. home[<<"node", e>>] \in DOMAIN s
      BY StaleSlots
    <3> QED
      BY <1>3, <1>5, <3>1
  <2>2. ~\E other \in Slots(X, P) \ Slots(Entities[c], Calls[c]) : op.id = home[other]
    BY <1>3, <1>5, StaleSlots
  <2>x. ~\E e \in Stale(s, X, home, c) :
           op = SlotUpdate(s, c, home, e) /\ op.id = home[<<"node", e>>]
    BY <2>1
  <2>3. PICK other \in Slots(Entities[c], Calls[c]) :
          op = SlotCreate(c, next, other) /\ op.id = next[other]
    BY <2>x, <2>2, OpsApart
  <2>4. other = slot
    BY <1>5, <2>3, NextOnce
  <2> QED
    BY <1>1, <2>3, <2>4
<1>6. On(ops, next[slot]) = {one}
  BY <1>2, <1>4, <1>5 DEF On
<1>7. Made(s, ApplyOps(reg, s, ops).objects, next[slot], one)
  BY <1>2, <1>4, <1>6, Touched DEF Verbs
<1> QED
  BY <1>2, <1>7 DEF Made, Became, Obj

\* An entity that is brought up to date.
LEMMA ResultStale ==
  ASSUME NEW s, NEW X, NEW P, NEW home, NEW c, NEW m, Importing(s, X, P, home, c, m),
         NEW reg, NEW ops, ops = ImportOps(s, c, m), ApplyOps(reg, s, ops).ok,
         NEW e \in Stale(s, X, home, c)
  PROVE  Became(ApplyOps(reg, s, ops).objects, home[<<"node", e>>], Contents[c][e])
<1>1. PICK one, id, next : /\ one = SlotUpdate(s, c, home, e) /\ id = home[<<"node", e>>]
                           /\ next = NextHome(s, X, P, home, c, m)
  OBVIOUS
<1>2. one.id = id /\ one.verb = "update" /\ one.body = Contents[c][e]
  BY <1>1, UpdateIs
<1>3. /\ <<"node", e>> \in Slots(X, P) /\ <<"node", e>> \in Slots(Entities[c], Calls[c])
      /\ id \in DOMAIN s
  BY <1>1, StaleSlots
<1>4. IsSequence(ops) /\ one \in Range(ops)
  BY <1>1, ImportPlan DEF Updates
<1>5. ASSUME NEW op \in Range(ops), op.id = id PROVE op = one
  <2>1. ~\E other \in Slots(X, P) \ Slots(Entities[c], Calls[c]) : op.id = home[other]
    BY <1>1, <1>3, <1>5, StaleSlots
  <2>2. PICK d \in Stale(s, X, home, c) :
          op = SlotUpdate(s, c, home, d) /\ op.id = home[<<"node", d>>]
    BY <1>1, <1>3, <1>5, <2>1, OpsApart
  <2>3. <<"node", d>> = <<"node", e>>
    <3>1. <<"node", d>> \in Slots(X, P)
      BY StaleSlots
    <3> QED
      BY <1>1, <1>3, <1>5, <2>2, <3>1, StaleSlots
  <2>4. d = e
    BY <2>3
  <2> QED
    BY <1>1, <2>2, <2>4
<1>6. On(ops, id) = {one}
  BY <1>2, <1>4, <1>5 DEF On
<1>7. Made(s, ApplyOps(reg, s, ops).objects, id, one)
  BY <1>2, <1>4, <1>6, Touched DEF Verbs
<1> QED
  BY <1>1, <1>2, <1>7 DEF Made, Became, Obj

\* A slot that goes.
LEMMA ResultGone ==
  ASSUME NEW s, NEW X, NEW P, NEW home, NEW c, NEW m, Importing(s, X, P, home, c, m),
         NEW reg, NEW ops, ops = ImportOps(s, c, m), ApplyOps(reg, s, ops).ok,
         NEW slot \in Slots(X, P), slot \notin Slots(Entities[c], Calls[c])
  PROVE  ApplyOps(reg, s, ops).objects[home[slot]].deleted
<1>1. PICK one, id, next : /\ one = SlotDelete(s, home, slot) /\ id = home[slot]
                           /\ next = NextHome(s, X, P, home, c, m)
  OBVIOUS
<1>2. one.id = id /\ one.verb = "delete"
  BY <1>1, DeleteIs
<1>3. id \in DOMAIN s
  BY <1>1, StaleSlots
<1>4. IsSequence(ops) /\ one \in Range(ops)
  BY <1>1, ImportPlan DEF Deletes
<1>5. ASSUME NEW op \in Range(ops), op.id = id PROVE op = one
  <2>1. ASSUME NEW e \in Stale(s, X, home, c) PROVE op.id # home[<<"node", e>>]
    <3>1. /\ home[<<"node", e>>] = home[slot] => slot = <<"node", e>>
          /\ <<"node", e>> \in Slots(Entities[c], Calls[c])
      BY StaleSlots
    <3> QED
      BY <1>1, <1>5, <3>1
  <2>x. ~\E e \in Stale(s, X, home, c) :
           op = SlotUpdate(s, c, home, e) /\ op.id = home[<<"node", e>>]
    BY <2>1
  <2>y. op.id \in DOMAIN s /\ op \in Range(ImportOps(s, c, m))
    BY <1>3, <1>5
  <2>2. \E other \in Slots(X, P) \ Slots(Entities[c], Calls[c]) :
          op = SlotDelete(s, home, other) /\ op.id = home[other]
    <3> HIDE <1>5
    <3> QED
      BY <1>1, <2>x, <2>y, OpsApart
  <2>3. PICK other \in Slots(X, P) \ Slots(Entities[c], Calls[c]) :
          op = SlotDelete(s, home, other) /\ op.id = home[other]
    BY <2>2
  <2>4. other = slot
    BY <1>1, <1>5, <2>3, StaleSlots
  <2> QED
    BY <1>1, <2>3, <2>4
<1>6. On(ops, id) = {one}
  BY <1>2, <1>4, <1>5 DEF On
<1>7. Made(s, ApplyOps(reg, s, ops).objects, id, one)
  BY <1>2, <1>4, <1>6, Touched DEF Verbs
<1> QED
  BY <1>1, <1>2, <1>7 DEF Made, Obj

\* A slot that stays, and is not to be brought up to date.
LEMMA ResultKept ==
  ASSUME NEW s, NEW X, NEW P, NEW home, NEW c, NEW m, Importing(s, X, P, home, c, m),
         NEW reg, NEW ops, ops = ImportOps(s, c, m), ApplyOps(reg, s, ops).ok,
         NEW slot \in Slots(X, P), slot \in Slots(Entities[c], Calls[c]),
         \A e \in Stale(s, X, home, c) : slot # <<"node", e>>
  PROVE  Same(s, ApplyOps(reg, s, ops).objects, home[slot])
<1>1. PICK id, next : id = home[slot] /\ next = NextHome(s, X, P, home, c, m)
  OBVIOUS
<1>2. id \in DOMAIN s
  BY <1>1, StaleSlots
<1>3. IsSequence(ops)
  BY <1>1, ImportPlan
<1>4. ASSUME NEW op \in Range(ops), op.id = id PROVE FALSE
  <2>1. ASSUME NEW e \in Stale(s, X, home, c) PROVE op.id # home[<<"node", e>>]
    <3>1. home[<<"node", e>>] = home[slot] => slot = <<"node", e>>
      BY StaleSlots
    <3> QED
      BY <1>1, <1>4, <3>1
  <2>2. ~\E other \in Slots(X, P) \ Slots(Entities[c], Calls[c]) : op.id = home[other]
    BY <1>1, <1>4, StaleSlots
  <2>x. ~\E e \in Stale(s, X, home, c) :
           op = SlotUpdate(s, c, home, e) /\ op.id = home[<<"node", e>>]
    BY <2>1
  <2> QED
    BY <1>1, <1>2, <1>4, <2>x, <2>2, OpsApart
<1>5. On(ops, id) = {}
  BY <1>4 DEF On
<1> QED
  BY <1>1, <1>3, <1>5, Untouched

\* Whatever is not of the index.
LEMMA ResultApart ==
  ASSUME NEW s, NEW X, NEW P, NEW home, NEW c, NEW m, Importing(s, X, P, home, c, m),
         NEW next, next = NextHome(s, X, P, home, c, m),
         NEW reg, NEW ops, ops = ImportOps(s, c, m), ApplyOps(reg, s, ops).ok,
         NEW id, id \notin Derived(s),
         \A slot \in Slots(Entities[c], Calls[c]) : id # next[slot]
  PROVE  Same(s, ApplyOps(reg, s, ops).objects, id)
<1>1. IsSequence(ops)
  BY ImportPlan
<1>2. ASSUME NEW op \in Range(ops), op.id = id PROVE FALSE
  <2>1. ~\E e \in Stale(s, X, home, c) : op.id = home[<<"node", e>>]
    BY <1>2, StaleSlots
  <2>2. ~\E other \in Slots(X, P) \ Slots(Entities[c], Calls[c]) : op.id = home[other]
    BY <1>2, StaleSlots
  <2> QED
    BY <1>2, <2>1, <2>2, OpsApart
<1>3. On(ops, id) = {}
  BY <1>2 DEF On
<1> QED
  BY <1>1, <1>3, Untouched

\* A live object that tells what a slot is belongs to the index.
LEMMA FitDerived ==
  ASSUME NEW s, NEW X, NEW P, Closed(X, P), NEW slot \in Slots(X, P), NEW home, NEW id,
         id \in DOMAIN s, ~s[id].deleted,
         slot[1] = "node" => id \in NodeId, slot[1] # "node" => id \in EdgeId,
         Fits(s[id].content, home, slot)
  PROVE  id \in Derived(s)
<1>1. CASE slot[1] = "node"
  <2>1. TypeOf(s[id].content) \in NodeTypes
    BY <1>1, FitTypes
  <2> QED
    BY <1>1, <2>1 DEF Derived, CodeNodes, LiveNodes, NodeTypes
<1>2. CASE slot[1] # "node"
  <2>1. TypeOf(s[id].content) \in EdgeTypes
    BY <1>2, FitTypes
  <2> QED
    BY <1>2, <2>1 DEF Derived, DerivedEdges, LiveEdges
<1> QED
  BY <1>1, <1>2

\* What is written of a slot tells what it is.
LEMMA BodyFits ==
  ASSUME NEW c \in Commit, NEW next, NEW slot \in Slots(Entities[c], Calls[c])
  PROVE  Fits(SlotBody(c, next, slot), next, slot)
<1>1. CASE slot[1] = "node"
  <2>1. PICK e \in Entities[c] : slot[2] = e
    BY <1>1, SlotSorts
  <2>2. Stands(Contents[c][e], e)
    BY ContentStands
  <2> QED
    BY <1>1, <2>1, <2>2 DEF Fits, SlotBody
<1>2. CASE slot[1] # "node"
  BY <1>2 DEF Fits, SlotBody, TypeOf
<1> QED
  BY <1>1, <1>2

\* After an import, the object of each slot is live and tells what it is.
LEMMA ResultFits ==
  ASSUME NEW s, NEW X, NEW P, NEW home, NEW c, NEW m, Importing(s, X, P, home, c, m),
         NEW next, next = NextHome(s, X, P, home, c, m),
         NEW reg, NEW ops, ops = ImportOps(s, c, m), ApplyOps(reg, s, ops).ok,
         NEW r, r = ApplyOps(reg, s, ops).objects,
         NEW slot \in Slots(Entities[c], Calls[c])
  PROVE  /\ next[slot] \in DOMAIN r /\ ~r[next[slot]].deleted
         /\ Fits(r[next[slot]].content, next, slot)
<1>1. c \in Commit /\ Closed(Entities[c], Calls[c]) /\ Closed(X, P) /\ Shape(s, X, P, home)
  BY CommitClosed DEF Importing, Shape
<1>2. CASE slot \notin Slots(X, P)
  <2>1. Became(r, next[slot], SlotBody(c, next, slot))
    BY <1>2, ResultFresh
  <2> QED
    BY <1>1, <2>1, BodyFits DEF Became
<1>3. CASE slot \in Slots(X, P) /\ \E e \in Stale(s, X, home, c) : slot = <<"node", e>>
  <2>1. PICK e \in Stale(s, X, home, c) : slot = <<"node", e>>
    BY <1>3
  <2>2. Became(r, home[<<"node", e>>], Contents[c][e])
    BY ResultStale
  <2>3. next[slot] = home[slot]
    BY <1>3, NextIs
  <2>4. slot[1] = "node" /\ slot[2] = e
    BY <2>1
  <2>5. Contents[c][e] = SlotBody(c, next, slot)
    BY <2>4 DEF SlotBody
  <2>6. Became(r, next[slot], SlotBody(c, next, slot))
    BY <2>1, <2>2, <2>3, <2>5
  <2> QED
    BY <1>1, <2>6, BodyFits DEF Became
<1>4. CASE slot \in Slots(X, P) /\ \A e \in Stale(s, X, home, c) : slot # <<"node", e>>
  <2>1. Same(s, r, home[slot])
    BY <1>4, ResultKept
  <2>2. next[slot] = home[slot]
    BY <1>4, NextIs
  <2>3. home[slot] \in DOMAIN s /\ home[slot] \in Derived(s)
    BY <1>4, StaleSlots
  <2>4. next[slot] \in DOMAIN r /\ ~r[next[slot]].deleted /\ r[next[slot]] = s[home[slot]]
    <3>1. ~s[home[slot]].deleted
      BY <2>3 DEF Derived, CodeNodes, LiveNodes, DerivedEdges, LiveEdges
    <3> QED
      BY <2>1, <2>2, <2>3, <3>1 DEF Same
  <2>5. Fits(s[home[slot]].content, home, slot)
    BY <1>1, <1>4 DEF Shape
  <2>6. CASE slot[1] = "node"
    BY <2>4, <2>5, <2>6 DEF Fits
  <2>7. CASE slot[1] # "node"
    <3>1. /\ Tie(slot)[2] \in X /\ Tie(slot)[3] \in X
          /\ Tie(slot)[2] \in Entities[c] /\ Tie(slot)[3] \in Entities[c]
      BY <1>1, <1>4, <2>7, TieEnds
    <3>2. \A e \in X \cap Entities[c] : next[<<"node", e>>] = home[<<"node", e>>]
      <4> TAKE e \in X \cap Entities[c]
      <4>1. next[<<"node", e>>] = NodeIn(s, c, m, e)
        BY NextNode
      <4>2. NodeIn(s, c, m, e) = home[<<"node", e>>]
        BY NodeInIs
      <4> QED
        BY <4>1, <4>2
    <3> QED
      BY <2>4, <2>5, <2>7, <3>1, <3>2 DEF Fits
  <2> QED
    BY <2>4, <2>6, <2>7
<1> QED
  BY <1>2, <1>3, <1>4

\* An import that is accepted leaves one object for each entity, tie and call
\* of its commit, and nothing besides.
LEMMA ResultShape ==
  ASSUME NEW s, NEW X, NEW P, NEW home, NEW c, NEW m, Importing(s, X, P, home, c, m),
         NEW next, next = NextHome(s, X, P, home, c, m),
         NEW reg, NEW ops, ops = ImportOps(s, c, m), ApplyOps(reg, s, ops).ok,
         NEW r, r = ApplyOps(reg, s, ops).objects
  PROVE  Shape(r, Entities[c], Calls[c], next)
<1> DEFINE slots == Slots(Entities[c], Calls[c])
<1>1. Closed(Entities[c], Calls[c])
  BY CommitClosed DEF Importing
<1>2. \A slot \in slots :
        /\ next[slot] \in DOMAIN r /\ ~r[next[slot]].deleted
        /\ Fits(r[next[slot]].content, next, slot)
  BY ResultFits
<1>3. ASSUME NEW slot \in slots PROVE next[slot] \in Derived(r)
  <2>1. /\ slot[1] = "node" => next[slot] \in NodeId
        /\ slot[1] # "node" => next[slot] \in EdgeId
    BY NextIs
  <2> QED
    BY <1>1, <1>2, <2>1, FitDerived
<1>4. ASSUME NEW a \in slots, NEW b \in slots, next[a] = next[b] PROVE a = b
  BY <1>4, NextOnce
<1>5. ASSUME NEW id \in Derived(r), \A slot \in slots : id # next[slot] PROVE FALSE
  <2>1. id \in DOMAIN r /\ ~r[id].deleted
    BY DEF Derived, CodeNodes, LiveNodes, DerivedEdges, LiveEdges
  <2>2. CASE id \in Derived(s)
    <3>1. PICK slot \in Slots(X, P) : home[slot] = id
      BY <2>2, HomeIs DEF Importing
    <3>2. CASE slot \in slots
      <4>1. next[slot] = home[slot]
        BY <3>2, NextIs
      <4> QED
        BY <1>5, <3>1, <3>2, <4>1
    <3>3. CASE slot \notin slots
      <4>1. r[home[slot]].deleted
        BY <3>3, ResultGone
      <4> QED
        BY <2>1, <3>1, <4>1
    <3> QED
      BY <3>2, <3>3
  <2>3. CASE id \notin Derived(s)
    <3>1. Same(s, r, id)
      BY <1>5, <2>3, ResultApart
    <3>2. id \in DOMAIN s /\ r[id] = s[id]
      BY <2>1, <3>1 DEF Same
    <3> QED
      BY <2>3, <3>2 DEF Derived, CodeNodes, LiveNodes, DerivedEdges, LiveEdges
  <2> QED
    BY <2>2, <2>3
<1>6. next = [slot \in slots |-> next[slot]]
  BY DEF NextHome
<1>7. next \in Bijection(slots, Derived(r))
  <2> HIDE DEF slots
  <2>1. next \in [slots -> Derived(r)]
    BY <1>3, <1>6
  <2>2. IsInjective(next)
    BY <1>4, <1>6 DEF IsInjective
  <2>3. next \in Surjection(slots, Derived(r))
    BY <1>5, <2>1 DEF Surjection
  <2> QED
    BY <2>1, <2>2, <2>3 DEF Bijection, Injection
<1> QED
  BY <1>1, <1>2, <1>7 DEF Shape

\* And the content of each node but the repository's.
LEMMA ResultShows ==
  ASSUME NEW s, NEW X, NEW P, NEW home, NEW c, NEW m, Importing(s, X, P, home, c, m),
         NEW next, next = NextHome(s, X, P, home, c, m),
         NEW reg, NEW ops, ops = ImportOps(s, c, m), ApplyOps(reg, s, ops).ok,
         NEW r, r = ApplyOps(reg, s, ops).objects,
         NEW e \in Entities[c], e # Repo
  PROVE  Shows(r[next[<<"node", e>>]].content, Contents[c][e])
<1>1. PICK slot \in Slots(Entities[c], Calls[c]) :
        /\ slot = <<"node", e>> /\ slot[1] = "node" /\ slot[2] = e
        /\ slot \in Slots(X, P) <=> e \in X
  <2>1. PICK slot : slot = <<"node", e>>
    OBVIOUS
  <2> QED
    BY <2>1 DEF Slots
<1>2. \A content : Shows(content, content)
  BY DEF Shows
<1>3. CASE e \notin X
  <2>1. Became(r, next[slot], SlotBody(c, next, slot))
    BY <1>1, <1>3, ResultFresh
  <2> QED
    BY <1>1, <1>2, <2>1 DEF Became, SlotBody
<1>4. CASE e \in Stale(s, X, home, c)
  <2>1. Became(r, home[<<"node", e>>], Contents[c][e])
    BY <1>4, ResultStale
  <2>2. next[slot] = home[slot]
    <3>1. slot \in Slots(X, P)
      BY <1>1, <1>4 DEF Stale
    <3> QED
      BY <3>1, NextIs
  <2> QED
    BY <1>1, <1>2, <2>1, <2>2 DEF Became
<1>5. CASE e \in X /\ e \notin Stale(s, X, home, c)
  <2>1. \A d \in Stale(s, X, home, c) : slot # <<"node", d>>
    BY <1>1, <1>5
  <2>2. Same(s, r, home[slot]) /\ home[slot] \in DOMAIN s
    BY <1>1, <1>5, <2>1, ResultKept, StaleSlots
  <2>3. next[slot] = home[slot]
    BY <1>1, <1>5, NextIs
  <2>4. ~ContentDiffers(s[home[slot]].content, Contents[c][e])
    BY <1>1, <1>5 DEF Stale
  <2>5. Shows(s[home[slot]].content, Contents[c][e])
    BY <2>4 DEF ContentDiffers, Shows
  <2> QED
    BY <1>1, <2>2, <2>3, <2>5 DEF Same
<1> QED
  BY <1>3, <1>4, <1>5

-----------------------------------------------------------------------------
\* A graph that mirrors a commit.

\* What an edge ties, as the graph reads it back.
TieRead(s, d) ==
  <<s[d].content.type, EntityOf(s, s[d].content.from), EntityOf(s, s[d].content.to)>>

EdgeSlots(X, P) == {slot \in Slots(X, P) : slot[1] # "node"}

LEMMA TieIsRead ==
  ASSUME NEW s, NEW X, NEW P, NEW home, Shape(s, X, P, home), NEW slot \in EdgeSlots(X, P)
  PROVE  /\ TieRead(s, home[slot]) = Tie(slot)
         /\ s[home[slot]].content.from \in CodeNodes(s)
         /\ s[home[slot]].content.to \in CodeNodes(s)
         /\ home[slot] \in DerivedEdges(s)
<1>1. /\ slot \in Slots(X, P) /\ slot[1] # "node"
      /\ Closed(X, P) /\ Fits(s[home[slot]].content, home, slot)
  BY DEF EdgeSlots, Shape
<1>2. /\ Tie(slot) = <<Tie(slot)[1], Tie(slot)[2], Tie(slot)[3]>>
      /\ Tie(slot)[1] \in EdgeTypes /\ Tie(slot)[2] \in X /\ Tie(slot)[3] \in X
  BY <1>1, TieEnds
<1>3. /\ s[home[slot]].content.type = Tie(slot)[1]
      /\ s[home[slot]].content.from = home[<<"node", Tie(slot)[2]>>]
      /\ s[home[slot]].content.to = home[<<"node", Tie(slot)[3]>>]
  BY <1>1, FitTypes DEF Fits
<1>4. /\ EntityOf(s, home[<<"node", Tie(slot)[2]>>]) = Tie(slot)[2]
      /\ EntityOf(s, home[<<"node", Tie(slot)[3]>>]) = Tie(slot)[3]
      /\ home[<<"node", Tie(slot)[2]>>] \in CodeNodes(s)
      /\ home[<<"node", Tie(slot)[3]>>] \in CodeNodes(s)
  BY <1>2, ReadBack, ShapeNodes
<1>5. home[slot] \in LiveEdges(s, Tie(slot)[1])
  BY <1>1, ShapeNodes
<1> QED
  BY <1>2, <1>3, <1>4, <1>5 DEF TieRead, DerivedEdges

\* Every derived edge is that of a slot.
LEMMA TieOfEdge ==
  ASSUME NEW s, NEW X, NEW P, NEW home, Shape(s, X, P, home), NEW d \in DerivedEdges(s)
  PROVE  \E slot \in EdgeSlots(X, P) : home[slot] = d
<1>1. PICK type \in EdgeTypes : d \in LiveEdges(s, type)
  BY DEF DerivedEdges
<1>2. PICK slot \in Slots(X, P) : slot[1] # "node" /\ home[slot] = d
  BY <1>1, ShapeNodes
<1> QED
  BY <1>2 DEF EdgeSlots

\* The ties of a commit are those of its slots.
LEMMA TieOfSlot ==
  ASSUME NEW c \in Commit, NEW slot \in EdgeSlots(Entities[c], Calls[c])
  PROVE  Tie(slot) \in TiesAt(c)
<1>1. slot \in Slots(Entities[c], Calls[c]) /\ slot[1] # "node"
  BY DEF EdgeSlots
<1>2. CASE slot[1] = "call"
  <2>1. PICK p \in Calls[c] : slot[2] = p
    BY <1>1, <1>2, SlotSorts
  <2> QED
    BY <1>2, <2>1 DEF Tie, TiesAt
<1>3. CASE slot[1] # "call"
  <2>1. PICK e \in Entities[c] \ {Repo} : slot[2] = e
    BY <1>1, <1>3, SlotSorts
  <2>2. Entities[c] = {Repo} \cup {FileAt(path) : path \in Files(c)} \cup Items(c)
    BY DEF Entities
  <2>3. CASE \E path \in Files(c) : e = FileAt(path)
    <3>1. PICK path \in Files(c) : e = FileAt(path)
      BY <2>3
    <3>2. e.what = "file"
      BY <3>1, EntityParts
    <3>3. Tie(slot) = <<"code/in_repo", FileAt(path), Repo>>
      BY <1>3, <2>1, <3>1, <3>2 DEF Tie
    <3> QED
      BY <3>3 DEF TiesAt
  <2>4. CASE e \in Items(c)
    <3>1. e.what # "file"
      BY <2>4, ItemKinds DEF Kinds
    <3>2. Tie(slot) = <<"code/declares", FileAt(e.path), e>>
      BY <1>3, <2>1, <3>1 DEF Tie
    <3> QED
      BY <2>4, <3>2 DEF TiesAt
  <2> QED
    BY <2>1, <2>2, <2>3, <2>4
<1> QED
  BY <1>2, <1>3

LEMMA SlotOfTie ==
  ASSUME NEW c \in Commit, NEW t \in TiesAt(c)
  PROVE  \E slot \in EdgeSlots(Entities[c], Calls[c]) : t = Tie(slot)
<1>1. /\ \A path \in Files(c) : FileAt(path) \in Entities[c]
      /\ Items(c) \subseteq Entities[c]
  BY CommitClosed
<1>2. CASE \E path \in Files(c) : t = <<"code/in_repo", FileAt(path), Repo>>
  <2>1. PICK path \in Files(c) : t = <<"code/in_repo", FileAt(path), Repo>>
    BY <1>2
  <2>2. PICK e : e = FileAt(path)
    OBVIOUS
  <2>3. e.what = "file" /\ e \in Entities[c] /\ e # Repo
    BY <1>1, <2>2, EntityParts
  <2>4. PICK slot : slot = <<"tie", e>>
    OBVIOUS
  <2>5. slot[1] = "tie" /\ slot[2] = e /\ slot \in Slots(Entities[c], Calls[c])
    BY <2>3, <2>4 DEF Slots
  <2> QED
    BY <2>1, <2>2, <2>3, <2>5 DEF Tie, EdgeSlots
<1>3. CASE \E e \in Items(c) : t = <<"code/declares", FileAt(e.path), e>>
  <2>1. PICK e \in Items(c) : t = <<"code/declares", FileAt(e.path), e>>
    BY <1>3
  <2>2. e.what # "file" /\ e \in Entities[c] /\ e # Repo
    <3>1. e.what \in Kinds
      BY ItemKinds
    <3> QED
      BY <1>1, <3>1, EntityParts DEF Kinds
  <2>3. PICK slot : slot = <<"tie", e>>
    OBVIOUS
  <2>4. slot[1] = "tie" /\ slot[2] = e /\ slot \in Slots(Entities[c], Calls[c])
    BY <2>2, <2>3 DEF Slots
  <2> QED
    BY <2>1, <2>2, <2>4 DEF Tie, EdgeSlots
<1>4. CASE \E call \in Calls[c] : t = <<"code/calls", call[1], call[2]>>
  <2>1. PICK call \in Calls[c] : t = <<"code/calls", call[1], call[2]>>
    BY <1>4
  <2>2. PICK slot : slot = <<"call", call>>
    OBVIOUS
  <2>3. slot[1] = "call" /\ slot[2] = call /\ slot \in Slots(Entities[c], Calls[c])
    BY <2>2 DEF Slots
  <2> QED
    BY <2>1, <2>3 DEF Tie, EdgeSlots
<1> QED
  BY <1>2, <1>3, <1>4 DEF TiesAt

\* As many edges as ties.
LEMMA EdgesCounted ==
  ASSUME NEW s, NEW c \in Commit, NEW home, Shape(s, Entities[c], Calls[c], home)
  PROVE  /\ Cardinality(DerivedEdges(s)) = Cardinality(TiesAt(c))
         /\ Cardinality(CodeNodes(s)) = Cardinality(Entities[c])
<1> DEFINE E == EdgeSlots(Entities[c], Calls[c])
           f == [slot \in E |-> home[slot]]
           g == [slot \in E |-> Tie(slot)]
           h == [e \in Entities[c] |-> home[<<"node", e>>]]
<1>1. IsFiniteSet(Entities[c]) /\ IsFiniteSet(E)
  <2>1. IsFiniteSet(Entities[c]) /\ IsFiniteSet(Calls[c])
    BY FiniteCommit
  <2>2. IsFiniteSet({"node"}) /\ IsFiniteSet({"tie"}) /\ IsFiniteSet({"call"})
    BY FS_Singleton
  <2>3. IsFiniteSet(Entities[c] \ {Repo})
    BY <2>1, FS_Subset
  <2>4. /\ IsFiniteSet({"node"} \X Entities[c])
        /\ IsFiniteSet({"tie"} \X (Entities[c] \ {Repo}))
        /\ IsFiniteSet({"call"} \X Calls[c])
    BY <2>1, <2>2, <2>3, FS_Product
  <2>5. IsFiniteSet(Slots(Entities[c], Calls[c]))
    BY <2>4, FS_Union DEF Slots
  <2>6. E \in SUBSET Slots(Entities[c], Calls[c])
    BY DEF EdgeSlots
  <2> QED
    BY <2>1, <2>5, <2>6, FS_Subset
<1>2. Closed(Entities[c], Calls[c])
  BY DEF Shape
<1>3. f \in Bijection(E, DerivedEdges(s))
  <2>1. /\ \A slot \in E : home[slot] \in DerivedEdges(s)
        /\ \A a, b \in E : home[a] = home[b] => a = b
        /\ \A d \in DerivedEdges(s) : \E slot \in E : home[slot] = d
    <3>1. E \subseteq Slots(Entities[c], Calls[c])
      BY DEF EdgeSlots
    <3> QED
      BY <3>1, TieIsRead, TieOfEdge, HomeIs
  <2> HIDE DEF E
  <2> QED
    BY <2>1 DEF Bijection, Injection, Surjection, IsInjective
<1>4. g \in Bijection(E, TiesAt(c))
  <2>1. /\ \A slot \in E : Tie(slot) \in TiesAt(c)
        /\ \A t \in TiesAt(c) : \E slot \in E : Tie(slot) = t
    BY TieOfSlot, SlotOfTie
  <2>2. ASSUME NEW a \in E, NEW b \in E, Tie(a) = Tie(b) PROVE a = b
    <3>1. a \in Slots(Entities[c], Calls[c]) /\ b \in Slots(Entities[c], Calls[c])
          /\ a[1] # "node" /\ b[1] # "node"
      BY DEF EdgeSlots
    <3> QED
      BY <1>2, <2>2, <3>1, TieOnce
  <2> HIDE DEF E
  <2> QED
    BY <2>1, <2>2 DEF Bijection, Injection, Surjection, IsInjective
<1>5. h \in Bijection(Entities[c], CodeNodes(s))
  <2>1. /\ \A e \in Entities[c] : home[<<"node", e>>] \in CodeNodes(s)
        /\ \A n \in CodeNodes(s) : \E e \in Entities[c] : home[<<"node", e>>] = n
    BY ShapeNodes
  <2>2. ASSUME NEW d \in Entities[c], NEW e \in Entities[c],
               home[<<"node", d>>] = home[<<"node", e>>]
        PROVE  d = e
    <3>1. EntityOf(s, home[<<"node", d>>]) = d /\ EntityOf(s, home[<<"node", e>>]) = e
      BY ReadBack
    <3> QED
      BY <2>2, <3>1
  <2> QED
    BY <2>1, <2>2 DEF Bijection, Injection, Surjection, IsInjective
<1> HIDE DEF E, f, g, h
<1>6. /\ ExistsBijection(E, DerivedEdges(s)) /\ ExistsBijection(E, TiesAt(c))
      /\ ExistsBijection(Entities[c], CodeNodes(s))
  BY <1>3, <1>4, <1>5 DEF ExistsBijection
<1>7. Cardinality(DerivedEdges(s)) = Cardinality(E)
  BY <1>1, <1>6, FS_Bijection
<1>8. Cardinality(TiesAt(c)) = Cardinality(E)
  BY <1>1, <1>6, FS_Bijection
<1>9. Cardinality(CodeNodes(s)) = Cardinality(Entities[c])
  BY <1>1, <1>6, FS_Bijection
<1> QED
  BY <1>7, <1>8, <1>9

\* What the entities of the nodes are.
EntityMap(s) == [n \in CodeNodes(s) |-> EntityOf(s, n)]

LEMMA MirrorsIs ==
  ASSUME NEW s, NEW c
  PROVE  Mirrors(s, c) <=> /\ NodesMirror(s, EntityMap(s), Contents[c])
                           /\ EdgesMirror(s, EntityMap(s), DerivedEdges(s), TiesAt(c))
<1>1. PICK map : map = [n \in CodeNodes(s) |-> EntityOf(s, n)] /\ map = EntityMap(s)
  BY DEF EntityMap
<1>2. PICK edges : /\ edges = UNION {LiveEdges(s, type) : type \in
                                       {"code/in_repo", "code/declares", "code/calls"}}
                   /\ edges = DerivedEdges(s)
  BY DEF DerivedEdges, EdgeTypes
<1> QED
  BY <1>1, <1>2 DEF Mirrors

\* The graph reads back as what it stands for.
LEMMA MapIs ==
  ASSUME NEW s, NEW X, NEW P, NEW home, Shape(s, X, P, home)
  PROVE  /\ DOMAIN EntityMap(s) = CodeNodes(s) /\ Range(EntityMap(s)) = X
         /\ \A n \in CodeNodes(s) : EntityMap(s)[n] = EntityOf(s, n)
<1>1. \A n \in CodeNodes(s) : EntityMap(s)[n] = EntityOf(s, n)
  BY DEF EntityMap
<1>2. DOMAIN EntityMap(s) = CodeNodes(s)
  BY DEF EntityMap
<1>3. \A n \in CodeNodes(s) : EntityOf(s, n) \in X
  BY ShapeIndexed
<1>4. \A e \in X : \E n \in CodeNodes(s) : EntityOf(s, n) = e
  <2> TAKE e \in X
  <2>1. home[<<"node", e>>] \in CodeNodes(s) /\ EntityOf(s, home[<<"node", e>>]) = e
    BY ShapeNodes, ReadBack
  <2> QED
    BY <2>1
<1> QED
  BY <1>1, <1>2, <1>3, <1>4 DEF Range

\* A graph whose index is that of a commit, with the content of each entity,
\* mirrors the commit.
LEMMA ShapeMirrors ==
  ASSUME NEW s, NEW c \in Commit, NEW home, Shape(s, Entities[c], Calls[c], home),
         \A e \in Entities[c] : e # Repo => Shows(s[home[<<"node", e>>]].content, Contents[c][e])
  PROVE  Mirrors(s, c)
<1>1. /\ DOMAIN EntityMap(s) = CodeNodes(s) /\ Range(EntityMap(s)) = Entities[c]
      /\ \A n \in CodeNodes(s) : EntityMap(s)[n] = EntityOf(s, n)
  BY MapIs
<1>2. /\ Cardinality(DerivedEdges(s)) = Cardinality(TiesAt(c))
      /\ Cardinality(CodeNodes(s)) = Cardinality(Entities[c])
  BY EdgesCounted
<1>3. DOMAIN Contents[c] = Entities[c]
  BY DEF Contents
<1>4. ASSUME NEW n \in CodeNodes(s), EntityOf(s, n) # Repo
      PROVE  Shows(s[n].content, Contents[c][EntityOf(s, n)])
  <2>1. EntityOf(s, n) \in Entities[c] /\ home[<<"node", EntityOf(s, n)>>] = n
    BY ShapeIndexed
  <2> QED
    BY <1>4, <2>1
<1>5. NodesMirror(s, EntityMap(s), Contents[c])
  BY <1>1, <1>2, <1>3, <1>4 DEF NodesMirror
<1>6. ASSUME NEW d \in DerivedEdges(s)
      PROVE  <<s[d].content.type, EntityMap(s)[s[d].content.from],
               EntityMap(s)[s[d].content.to]>> \in TiesAt(c)
  <2>1. PICK slot \in EdgeSlots(Entities[c], Calls[c]) : home[slot] = d
    BY TieOfEdge
  <2>2. /\ TieRead(s, d) = Tie(slot)
        /\ s[d].content.from \in CodeNodes(s) /\ s[d].content.to \in CodeNodes(s)
    BY <2>1, TieIsRead
  <2>3. Tie(slot) \in TiesAt(c)
    BY TieOfSlot
  <2> QED
    BY <1>1, <2>2, <2>3 DEF TieRead
<1>7. ASSUME NEW t \in TiesAt(c)
      PROVE  \E d \in DerivedEdges(s) :
               t = <<s[d].content.type, EntityMap(s)[s[d].content.from],
                     EntityMap(s)[s[d].content.to]>>
  <2>1. PICK slot \in EdgeSlots(Entities[c], Calls[c]) : t = Tie(slot)
    BY SlotOfTie
  <2>2. /\ TieRead(s, home[slot]) = Tie(slot) /\ home[slot] \in DerivedEdges(s)
        /\ s[home[slot]].content.from \in CodeNodes(s)
        /\ s[home[slot]].content.to \in CodeNodes(s)
    BY TieIsRead
  <2> QED
    BY <1>1, <2>1, <2>2 DEF TieRead
<1>8. EdgesMirror(s, EntityMap(s), DerivedEdges(s), TiesAt(c))
  BY <1>2, <1>6, <1>7 DEF EdgesMirror
<1> QED
  BY <1>5, <1>8, MirrorsIs

\* The other way around.
LEMMA MirrorsShape ==
  ASSUME NEW s, NEW c \in Commit, NEW X, NEW P, NEW home, Shape(s, X, P, home),
         Mirrors(s, c)
  PROVE  X = Entities[c] /\ P = Calls[c] /\ Stale(s, X, home, c) = {}
<1>1. /\ DOMAIN EntityMap(s) = CodeNodes(s) /\ Range(EntityMap(s)) = X
      /\ \A n \in CodeNodes(s) : EntityMap(s)[n] = EntityOf(s, n)
  BY MapIs
<1>2. /\ NodesMirror(s, EntityMap(s), Contents[c])
      /\ EdgesMirror(s, EntityMap(s), DerivedEdges(s), TiesAt(c))
  BY MirrorsIs
<1>3. DOMAIN Contents[c] = Entities[c] /\ X = Entities[c]
  <2>1. DOMAIN Contents[c] = Entities[c]
    BY DEF Contents
  <2> QED
    BY <1>1, <1>2, <2>1 DEF NodesMirror
<1>4. Closed(X, P) /\ Closed(Entities[c], Calls[c])
  BY CommitClosed DEF Shape
<1>5. ASSUME NEW q \in P PROVE q \in Calls[c]
  <2>0. PICK slot : slot = <<"call", q>>
    OBVIOUS
  <2>1. slot[1] = "call" /\ slot[2] = q
    BY <2>0
  <2>2. slot \in EdgeSlots(X, P) /\ Tie(slot) = <<"code/calls", q[1], q[2]>>
    BY <2>0, <2>1 DEF EdgeSlots, Slots, Tie
  <2>3. /\ TieRead(s, home[slot]) = Tie(slot) /\ home[slot] \in DerivedEdges(s)
        /\ s[home[slot]].content.from \in CodeNodes(s)
        /\ s[home[slot]].content.to \in CodeNodes(s)
    BY <2>2, TieIsRead
  <2>4. <<"code/calls", q[1], q[2]>> \in TiesAt(c)
    BY <1>1, <1>2, <2>2, <2>3 DEF TieRead, EdgesMirror
  <2>5. PICK call \in Calls[c] : call[1] = q[1] /\ call[2] = q[2]
    BY <2>4 DEF TiesAt
  <2>6. call = <<call[1], call[2]>> /\ q = <<q[1], q[2]>>
    BY <1>4 DEF Closed
  <2> QED
    BY <2>5, <2>6
<1>6. ASSUME NEW call \in Calls[c] PROVE call \in P
  <2>1. <<"code/calls", call[1], call[2]>> \in TiesAt(c)
    BY DEF TiesAt
  <2>2. PICK d \in DerivedEdges(s) :
          <<"code/calls", call[1], call[2]>>
            = <<s[d].content.type, EntityMap(s)[s[d].content.from],
                EntityMap(s)[s[d].content.to]>>
    BY <1>2, <2>1 DEF EdgesMirror
  <2>3. PICK slot \in EdgeSlots(X, P) : home[slot] = d
    BY TieOfEdge
  <2>4. /\ TieRead(s, d) = Tie(slot)
        /\ s[d].content.from \in CodeNodes(s) /\ s[d].content.to \in CodeNodes(s)
    BY <2>3, TieIsRead
  <2>5. Tie(slot) = <<"code/calls", call[1], call[2]>>
    BY <1>1, <2>2, <2>4 DEF TieRead
  <2>6. slot \in Slots(X, P) /\ slot[1] = "call"
    BY <2>3, <2>5 DEF EdgeSlots, Tie
  <2>7. PICK p \in P : slot[2] = p
    BY <2>6, SlotSorts
  <2>8. p[1] = call[1] /\ p[2] = call[2]
    BY <2>5, <2>6, <2>7 DEF Tie
  <2>9. call = <<call[1], call[2]>> /\ p = <<p[1], p[2]>>
    BY <1>4 DEF Closed
  <2> QED
    BY <2>8, <2>9
<1>7. ASSUME NEW e \in Stale(s, X, home, c) PROVE FALSE
  <2>1. /\ e \in Entities[c] /\ e \in X /\ e # Repo
        /\ ContentDiffers(s[home[<<"node", e>>]].content, Contents[c][e])
    BY DEF Stale
  <2>2. PICK n \in CodeNodes(s) : n = home[<<"node", e>>] /\ EntityOf(s, n) = e
    BY <2>1, ShapeNodes, ReadBack
  <2>3. Shows(s[n].content, Contents[c][e])
    BY <1>1, <1>2, <2>1, <2>2 DEF NodesMirror
  <2> QED
    BY <2>1, <2>2, <2>3 DEF Shows, ContentDiffers
<1> QED
  BY <1>3, <1>5, <1>6, <1>7

-----------------------------------------------------------------------------
\* What an import comes to.

\* Different entities and calls have different slots.
LEMMA SlotsTell ==
  ASSUME NEW X, NEW P, NEW Y, NEW Q, Slots(X, P) \subseteq Slots(Y, Q)
  PROVE  X \subseteq Y /\ P \subseteq Q
<1>1. ASSUME NEW e \in X PROVE e \in Y
  <2>1. PICK slot : slot = <<"node", e>>
    OBVIOUS
  <2>2. slot[1] = "node" /\ slot[2] = e /\ slot \in Slots(Y, Q)
    BY <2>1 DEF Slots
  <2> QED
    BY <2>2, SlotSorts
<1>2. ASSUME NEW p \in P PROVE p \in Q
  <2>1. PICK slot : slot = <<"call", p>>
    OBVIOUS
  <2>2. slot[1] = "call" /\ slot[2] = p /\ slot \in Slots(Y, Q)
    BY <2>1 DEF Slots
  <2> QED
    BY <2>2, SlotSorts
<1> QED
  BY <1>1, <1>2

\* Nothing is planned exactly if the graph mirrors the commit.
LEMMA NothingPlanned ==
  ASSUME NEW s, NEW X, NEW P, NEW home, NEW c, NEW m, Importing(s, X, P, home, c, m)
  PROVE  ImportOps(s, c, m) = <<>> <=> Mirrors(s, c)
<1>1. PICK next, ops : next = NextHome(s, X, P, home, c, m) /\ ops = ImportOps(s, c, m)
  OBVIOUS
<1>2. /\ IsSequence(ops)
      /\ \A op : op \in Range(ops) <=> \/ Creates(X, P, c, next, op)
                                       \/ Updates(s, X, home, c, op)
                                       \/ Deletes(s, X, P, home, c, op)
  BY <1>1, ImportPlan
<1>3. c \in Commit /\ Shape(s, X, P, home)
  BY DEF Importing
<1>4. ASSUME ops = <<>> PROVE Mirrors(s, c)
  <2>1. \A op : op \notin Range(ops)
    BY <1>4 DEF Range
  <2>2. Slots(Entities[c], Calls[c]) \subseteq Slots(X, P)
    <3>1. ASSUME NEW slot \in Slots(Entities[c], Calls[c]), slot \notin Slots(X, P) PROVE FALSE
      <4>1. Creates(X, P, c, next, SlotCreate(c, next, slot))
        BY <3>1 DEF Creates
      <4> QED
        BY <1>2, <2>1, <4>1
    <3> QED
      BY <3>1
  <2>3. Slots(X, P) \subseteq Slots(Entities[c], Calls[c])
    <3>1. ASSUME NEW slot \in Slots(X, P), slot \notin Slots(Entities[c], Calls[c]) PROVE FALSE
      <4>1. Deletes(s, X, P, home, c, SlotDelete(s, home, slot))
        BY <3>1 DEF Deletes
      <4> QED
        BY <1>2, <2>1, <4>1
    <3> QED
      BY <3>1
  <2>4. ASSUME NEW e \in Stale(s, X, home, c) PROVE FALSE
    <3>1. Updates(s, X, home, c, SlotUpdate(s, c, home, e))
      BY DEF Updates
    <3> QED
      BY <1>2, <2>1, <3>1
  <2>5. X = Entities[c] /\ P = Calls[c]
    <3>1. X \subseteq Entities[c] /\ P \subseteq Calls[c]
      <4>1. PICK Y, Q : Y = Entities[c] /\ Q = Calls[c]
        OBVIOUS
      <4>2. Slots(X, P) \subseteq Slots(Y, Q)
        BY <2>3, <4>1
      <4>3. X \subseteq Y /\ P \subseteq Q
        BY <4>2, SlotsTell
      <4> QED
        BY <4>1, <4>3
    <3>2. Entities[c] \subseteq X /\ Calls[c] \subseteq P
      BY <2>2, SlotsTell
    <3> QED
      BY <3>1, <3>2
  <2>6. ASSUME NEW e \in Entities[c], e # Repo
        PROVE  Shows(s[home[<<"node", e>>]].content, Contents[c][e])
    <3>1. ~ContentDiffers(s[home[<<"node", e>>]].content, Contents[c][e])
      BY <2>4, <2>5, <2>6 DEF Stale
    <3> QED
      BY <3>1 DEF ContentDiffers, Shows
  <2>7. Shape(s, Entities[c], Calls[c], home)
    BY <1>3, <2>5
  <2> QED
    BY <1>3, <2>6, <2>7, ShapeMirrors
<1>5. ASSUME Mirrors(s, c) PROVE ops = <<>>
  <2>1. X = Entities[c] /\ P = Calls[c] /\ Stale(s, X, home, c) = {}
    BY <1>3, <1>5, MirrorsShape
  <2>2. \A op : op \notin Range(ops)
    BY <1>2, <2>1 DEF Creates, Updates, Deletes
  <2>3. Range(ops) = {}
    BY <2>2
  <2> QED
    BY <1>2, <2>3 DEF IsSequence, Range
<1> QED
  BY <1>1, <1>4, <1>5

\* An accepted import leaves a mirror of its commit.
LEMMA ImportMirrors ==
  ASSUME NEW s, NEW X, NEW P, NEW home, NEW c, NEW m, Importing(s, X, P, home, c, m),
         NEW reg, NEW ops, ops = ImportOps(s, c, m), ApplyOps(reg, s, ops).ok,
         NEW r, r = ApplyOps(reg, s, ops).objects
  PROVE  Mirrors(r, c)
<1>1. PICK next : next = NextHome(s, X, P, home, c, m)
  OBVIOUS
<1>2. Shape(r, Entities[c], Calls[c], next) /\ c \in Commit
  BY <1>1, ResultShape DEF Importing
<1>3. \A e \in Entities[c] : e # Repo => Shows(r[next[<<"node", e>>]].content, Contents[c][e])
  BY <1>1, ResultShows
<1> QED
  BY <1>2, <1>3, ShapeMirrors

\* And it leaves every entity that both hold with the node it had.
LEMMA ImportKeeps ==
  ASSUME NEW s, NEW X, NEW P, NEW home, NEW c, NEW m, Importing(s, X, P, home, c, m),
         NEW reg, NEW ops, ops = ImportOps(s, c, m), ApplyOps(reg, s, ops).ok,
         NEW r, r = ApplyOps(reg, s, ops).objects,
         NEW e \in DOMAIN Indexed(s) \cap DOMAIN Indexed(r)
  PROVE  Indexed(r)[e] = Indexed(s)[e]
<1>1. PICK next : next = NextHome(s, X, P, home, c, m)
  OBVIOUS
<1>2. Shape(r, Entities[c], Calls[c], next) /\ Shape(s, X, P, home)
  BY <1>1, ResultShape DEF Importing
<1>3. e \in X /\ e \in Entities[c]
  BY <1>2, ShapeIndexed
<1>4. Indexed(r)[e] = next[<<"node", e>>] /\ Indexed(s)[e] = home[<<"node", e>>]
  BY <1>2, <1>3, ShapeIndexed
<1>5. next[<<"node", e>>] = NodeIn(s, c, m, e)
  BY <1>1, <1>3, NextNode
<1>6. NodeIn(s, c, m, e) = home[<<"node", e>>]
  BY <1>3, NodeInIs
<1> QED
  BY <1>4, <1>5, <1>6

\* Objects that are not of the index may change: it stays as it is.
LEMMA ShapeKept ==
  ASSUME NEW s, NEW r, NEW X, NEW P, NEW home, Shape(s, X, P, home),
         Derived(r) = Derived(s),
         \A slot \in Slots(X, P) :
           Fits(s[home[slot]].content, home, slot) => Fits(r[home[slot]].content, home, slot)
  PROVE  Shape(r, X, P, home)
  BY DEF Shape

-----------------------------------------------------------------------------
\* What an edit by hand makes of a graph.

\* One operation that writes an object.
LEMMA OneWritten ==
  ASSUME NEW reg, NEW s, NEW op, op.verb \in {"create", "update"},
         ApplyChangeset(reg, s, <<op>>).ok,
         NEW r, r = ApplyChangeset(reg, s, <<op>>).objects
  PROVE  /\ Became(r, op.id, op.body)
         /\ \A id : id # op.id => Same(s, r, id)
<1>1. PICK ops : ops = <<op>>
  OBVIOUS
<1>2. IsSequence(ops) /\ Range(ops) = {op}
  BY <1>1, RangeOne
<1>3. On(ops, op.id) = {op} /\ \A id : id # op.id => On(ops, id) = {}
  BY <1>2 DEF On
<1>4. ApplyOps(reg, s, ops).ok /\ r = ApplyOps(reg, s, ops).objects
  BY <1>1, Accepted
<1>5. Made(s, r, op.id, op)
  BY <1>2, <1>3, <1>4, Touched DEF Verbs
<1>6. \A id : id # op.id => Same(s, r, id)
  BY <1>2, <1>3, <1>4, Untouched
<1> QED
  BY <1>5, <1>6 DEF Made, Became, Obj

\* An object that is not of the index becomes another one.
LEMMA EditApart ==
  ASSUME NEW s, NEW X, NEW P, NEW home, Shape(s, X, P, home),
         NEW r, NEW id, NEW body, Became(r, id, body), \A other : other # id => Same(s, r, other),
         id \notin Derived(s), TypeOf(body) \notin NodeTypes \cup EdgeTypes
  PROVE  /\ Shape(r, X, P, home)
         /\ \A e \in X : r[home[<<"node", e>>]] = s[home[<<"node", e>>]]
<1>1. r[id].content = body
  BY DEF Became
<1>2. id \notin Derived(r)
  BY <1>1 DEF Derived, CodeNodes, DerivedEdges, LiveEdges, NodeTypes, EdgeTypes
<1>3. ASSUME NEW other PROVE other \in Derived(r) <=> other \in Derived(s)
  <2>1. CASE other = id
    BY <1>2, <2>1
  <2>2. CASE other # id
    <3>1. Same(s, r, other)
      BY <2>2
    <3>2. other \in CodeNodes(r) <=> other \in CodeNodes(s)
      BY <3>1 DEF Same, CodeNodes, LiveNodes
    <3>3. \A type : other \in LiveEdges(r, type) <=> other \in LiveEdges(s, type)
      BY <3>1 DEF Same, LiveEdges
    <3> QED
      BY <3>2, <3>3 DEF Derived, DerivedEdges
  <2> QED
    BY <2>1, <2>2
<1>4. Derived(r) = Derived(s)
  BY <1>3
<1>5. ASSUME NEW slot \in Slots(X, P) PROVE r[home[slot]] = s[home[slot]]
  <2>1. home[slot] \in Derived(s)
    BY HomeIs
  <2>2. home[slot] # id /\ home[slot] \in DOMAIN s
    BY <2>1 DEF Derived, CodeNodes, LiveNodes, DerivedEdges, LiveEdges
  <2> QED
    BY <2>2 DEF Same
<1>6. \A e \in X : <<"node", e>> \in Slots(X, P)
  BY ShapeNodes
<1>7. Shape(r, X, P, home)
  BY <1>4, <1>5, ShapeKept
<1>8. \A e \in X : r[home[<<"node", e>>]] = s[home[<<"node", e>>]]
  BY <1>5, <1>6
<1> QED
  BY <1>7, <1>8

\* The node of a function is written by hand, its name apart.
LEMMA EditFunction ==
  ASSUME NEW s, NEW X, NEW P, NEW home, Shape(s, X, P, home),
         NEW r, NEW id \in CodeNodes(s), NEW body, Became(r, id, body),
         \A other : other # id => Same(s, r, other),
         s[id].content.type = "code/Function", TypeOf(body) = "code/Function",
         body.name = s[id].content.name
  PROVE  Shape(r, X, P, home)
<1>1. r[id].content = body /\ id \in DOMAIN r /\ ~r[id].deleted
  BY DEF Became
<1>2. id \in CodeNodes(r) /\ id \in NodeId
  BY <1>1 DEF CodeNodes, LiveNodes
<1>3. ASSUME NEW other PROVE other \in Derived(r) <=> other \in Derived(s)
  <2>1. CASE other = id
    BY <1>2, <2>1 DEF Derived
  <2>2. CASE other # id
    <3>1. Same(s, r, other)
      BY <2>2
    <3>2. other \in CodeNodes(r) <=> other \in CodeNodes(s)
      BY <3>1 DEF Same, CodeNodes, LiveNodes
    <3>3. \A type : other \in LiveEdges(r, type) <=> other \in LiveEdges(s, type)
      BY <3>1 DEF Same, LiveEdges
    <3> QED
      BY <3>2, <3>3 DEF Derived, DerivedEdges
  <2> QED
    BY <2>1, <2>2
<1>4. Derived(r) = Derived(s)
  BY <1>3
<1>5. ASSUME NEW slot \in Slots(X, P), Fits(s[home[slot]].content, home, slot)
      PROVE  Fits(r[home[slot]].content, home, slot)
  <2>1. home[slot] \in Derived(s)
    BY HomeIs
  <2>2. home[slot] \in DOMAIN s
    BY <2>1 DEF Derived, CodeNodes, LiveNodes, DerivedEdges, LiveEdges
  <2>3. CASE home[slot] # id
    BY <1>5, <2>2, <2>3 DEF Same
  <2>4. CASE home[slot] = id
    <3>1. TypeOf(s[id].content) = "code/Function"
      BY DEF CodeNodes, TypeOf
    <3>2. slot[1] = "node"
      <4>1. Closed(X, P)
        BY DEF Shape
      <4>2. slot[1] # "node" => TypeOf(s[home[slot]].content) \in EdgeTypes
        BY <1>5, <4>1, FitTypes
      <4> QED
        BY <2>4, <3>1, <4>2 DEF EdgeTypes
    <3>3. Stands(s[id].content, slot[2])
      BY <1>5, <2>4, <3>2 DEF Fits
    <3>4. slot[2].what = "fn" /\ s[id].content.name = slot[2].name
      BY <3>1, <3>3 DEF Stands
    <3>5. Stands(body, slot[2])
      BY <3>4 DEF Stands
    <3> QED
      BY <1>1, <2>4, <3>2, <3>5 DEF Fits
  <2> QED
    BY <2>3, <2>4
<1> QED
  BY <1>4, <1>5, ShapeKept

\* A graph whose nodes are as they were mirrors what it did.
LEMMA MirrorsKept ==
  ASSUME NEW s, NEW X, NEW P, NEW home, Shape(s, X, P, home),
         NEW r, Shape(r, X, P, home),
         \A e \in X : r[home[<<"node", e>>]] = s[home[<<"node", e>>]],
         NEW c \in Commit, Mirrors(s, c)
  PROVE  Mirrors(r, c)
<1>1. X = Entities[c] /\ P = Calls[c] /\ Stale(s, X, home, c) = {}
  BY MirrorsShape
<1>2. ASSUME NEW e \in Entities[c], e # Repo
      PROVE  Shows(r[home[<<"node", e>>]].content, Contents[c][e])
  <2>1. ~ContentDiffers(s[home[<<"node", e>>]].content, Contents[c][e])
    BY <1>1, <1>2 DEF Stale
  <2> QED
    BY <1>1, <2>1 DEF ContentDiffers, Shows
<1>3. Shape(r, Entities[c], Calls[c], home)
  BY <1>1
<1> QED
  BY <1>2, <1>3, ShapeMirrors

\* Graphs of one shape have one index.
LEMMA IndexedKept ==
  ASSUME NEW s, NEW X, NEW P, NEW home, Shape(s, X, P, home),
         NEW r, Shape(r, X, P, home), NEW e \in DOMAIN Indexed(s)
  PROVE  Indexed(r)[e] = Indexed(s)[e]
<1>1. e \in X /\ Indexed(s)[e] = home[<<"node", e>>]
  BY ShapeIndexed
<1>2. Indexed(r)[e] = home[<<"node", e>>]
  BY <1>1, ShapeIndexed
<1> QED
  BY <1>1, <1>2

\* A graph that has no index yet.
LEMMA NoIndex ==
  ASSUME NEW s, Derived(s) = {}
  PROVE  Shape(s, {}, {}, [slot \in {} |-> 0])
<1>1. Slots({}, {}) = {}
  BY DEF Slots
<1>2. Closed({}, {})
  BY DEF Closed
<1>3. [slot \in {} |-> 0] \in Bijection({}, {})
  BY DEF Bijection, Injection, Surjection, IsInjective
<1> QED
  BY <1>1, <1>2, <1>3 DEF Shape

-----------------------------------------------------------------------------
\* When a derivation applies: its operations are each on an object of its own,
\* and an edge that is created comes after the nodes that it ties.

\* The nodes that an import creates.
Coming(X, c, next) == {next[<<"node", e>>] : e \in Entities[c] \ X}

\* What the edge of an entity ties it to.
Parent(e) == IF e.what = "file" THEN Repo ELSE FileAt(e.path)

\* The first part of a list.
LEMMA FirstPart ==
  ASSUME NEW a, NEW b, IsSequence(a), IsSequence(b), NEW q, q = a \o b
  PROVE  /\ Len(a) \in Nat /\ DOMAIN a = 1..Len(a) /\ Len(a) <= Len(q)
         /\ \A l \in 1..Len(a) : q[l] = a[l]
<1>1. a \in Seq(Range(a) \cup Range(b)) /\ b \in Seq(Range(a) \cup Range(b))
  BY DEF IsSequence
<1>2. PICK S : a \in Seq(S) /\ b \in Seq(S)
  BY <1>1
<1> QED
  BY <1>2

\* What is not of the first part comes after what is.
LEMMA PartBefore ==
  ASSUME NEW a, NEW q, Len(a) \in Nat, DOMAIN a = 1..Len(a), \A l \in 1..Len(a) : q[l] = a[l],
         NEW x \in Range(a), NEW i \in Nat, i # 0, q[i] \notin Range(a)
  PROVE  \E j \in 1..(i-1) : q[j] = x
<1>1. PICK l \in 1..Len(a) : a[l] = x
  BY DEF Range
<1>2. i \notin 1..Len(a)
  BY DEF Range
<1> QED
  BY <1>1, <1>2

\* The repository comes before files, and files before items.
LEMMA ParentsFirst ==
  ASSUME NEW s, NEW X, NEW P, NEW home, NEW c, NEW m, Importing(s, X, P, home, c, m),
         NEW i \in 1..Len(New(s, c)), NEW e, e = New(s, c)[i], e # Repo, Parent(e) \notin X
  PROVE  \E j \in 1..(i-1) : New(s, c)[j] = Parent(e)
<1> DEFINE E == Entities[c] \ X
           A == E \cap {Repo}
           B == {d \in E : d.what = "file"}
           D == E \ ({Repo} \cup B)
<1>1. PICK new : new = New(s, c)
  OBVIOUS
<1>2. /\ DOMAIN new = 1..Len(new) /\ Range(new) = E /\ IsInjective(new)
      /\ DOMAIN Indexed(s) = X /\ Len(new) \in Nat
  BY <1>1, NewIs
<1>3. IsFiniteSet(E) /\ IsFiniteSet(A) /\ IsFiniteSet(B) /\ IsFiniteSet(D)
  <2>1. IsFiniteSet(E)
    BY FiniteCommit, FS_Difference DEF Importing
  <2>2. A \subseteq E /\ B \subseteq E /\ D \subseteq E
    OBVIOUS
  <2> HIDE DEF E, A, B, D
  <2> QED
    BY <2>1, <2>2, FS_Subset
<1>4. PICK a, b, d : a = SetToSeq(A) /\ b = SetToSeq(B) /\ d = SetToSeq(D)
  OBVIOUS
<1>5. new = (a \o b) \o d
  BY <1>1, <1>2, <1>4 DEF New, NewEntities
<1>6. e \in E
  BY <1>1, <1>2 DEF Range
<1>7. /\ Parent(e) \in E
      /\ e.what = "file" => Parent(e) = Repo
      /\ e.what # "file" => Parent(e).what = "file"
  <2>1. Closed(Entities[c], Calls[c])
    BY CommitClosed DEF Importing
  <2>2. e = FileAt(e.path) => e.what = "file"
    BY FileWhat
  <2>3. FileAt(e.path).what = "file" /\ Repo.what = "repo"
    BY EntityParts
  <2> QED
    BY <1>6, <2>1, <2>2, <2>3 DEF Closed, Parent
<1>8. /\ e.what = "file" => Parent(e) \in A /\ e \in B /\ e \notin A
      /\ e.what # "file" => Parent(e) \in B /\ e \notin A /\ e \notin B
  <2>1. Repo.what = "repo"
    BY EntityParts
  <2> QED
    BY <1>6, <1>7, <2>1
<1> HIDE DEF E, A, B, D
<1>9. /\ IsSequence(a) /\ Range(a) = A
      /\ IsSequence(b) /\ Range(b) = B
      /\ IsSequence(d) /\ Range(d) = D
  BY <1>3, <1>4, SetListed
<1>10. PICK w : w = a \o b
  OBVIOUS
<1>11. IsSequence(w) /\ Range(w) = A \cup B
  BY <1>9, <1>10, RangeBoth
<1>12. new = w \o d /\ i \in 1..Len(new) /\ new[i] = e
  BY <1>1, <1>5, <1>10
<1>13. PICK x : x = Parent(e)
  OBVIOUS
<1>14. i \in Nat /\ i # 0
  BY <1>1, <1>2
<1>15. /\ Len(w) \in Nat /\ DOMAIN w = 1..Len(w) /\ Len(w) <= Len(new)
       /\ \A l \in 1..Len(w) : new[l] = w[l]
  BY <1>9, <1>11, <1>12, FirstPart
<1>16. /\ Len(a) \in Nat /\ DOMAIN a = 1..Len(a) /\ Len(a) <= Len(w)
       /\ \A l \in 1..Len(a) : w[l] = a[l]
  BY <1>9, <1>10, FirstPart
<1>17. CASE e.what # "file"
  <2>1. x \in Range(w) /\ new[i] \notin Range(w)
    BY <1>8, <1>11, <1>12, <1>13, <1>17
  <2>2. \E j \in 1..(i-1) : new[j] = x
    BY <1>14, <1>15, <2>1, PartBefore
  <2> QED
    BY <1>1, <1>13, <2>2
<1>18. CASE e.what = "file"
  <2>1. e \in Range(w)
    BY <1>8, <1>11, <1>18
  <2>2. PICK l \in 1..Len(w) : w[l] = e
    BY <1>15, <2>1 DEF Range
  <2>3. l = i
    <3>1. new[l] = e /\ l \in DOMAIN new /\ i \in DOMAIN new
      BY <1>2, <1>12, <1>15, <2>2
    <3> QED
      BY <1>2, <1>12, <3>1 DEF IsInjective
  <2>4. x \in Range(a) /\ w[i] \notin Range(a)
    BY <1>8, <1>9, <1>13, <1>18, <2>2, <2>3
  <2>5. PICK j \in 1..(i-1) : w[j] = x
    BY <1>14, <1>16, <2>4, PartBefore
  <2>6. j \in 1..Len(w)
    BY <1>15, <2>2, <2>3
  <2> QED
    BY <1>1, <1>13, <1>15, <2>5, <2>6
<1> QED
  BY <1>17, <1>18

\* The slots of an entity that comes.
LEMMA NewSlots ==
  ASSUME NEW X, NEW P, NEW c \in Commit, NEW e \in Entities[c] \ X
  PROVE  /\ <<"node", e>> \in Slots(Entities[c], Calls[c]) /\ <<"node", e>> \notin Slots(X, P)
         /\ e # Repo => /\ <<"tie", e>> \in Slots(Entities[c], Calls[c])
                        /\ <<"tie", e>> \notin Slots(X, P)
  BY DEF Slots

\* What the operations on it tie.
LEMMA CreateEnds ==
  ASSUME NEW s, NEW X, NEW P, NEW home, NEW c, NEW m, Importing(s, X, P, home, c, m),
         NEW next, next = NextHome(s, X, P, home, c, m),
         NEW e \in Entities[c] \ X
  PROVE  /\ Ends(SlotCreate(c, next, <<"node", e>>)) = {}
         /\ e # Repo => Ends(SlotCreate(c, next, <<"tie", e>>))
                          = {next[<<"node", e>>], next[<<"node", Parent(e)>>]}
<1>1. c \in Commit
  BY DEF Importing
<1>2. Ends(SlotCreate(c, next, <<"node", e>>)) = {}
  <2>0. PICK slot : slot = <<"node", e>>
    OBVIOUS
  <2>1. slot = <<"node", e>> /\ slot[1] = "node"
    BY <2>0
  <2>2. slot \in Slots(Entities[c], Calls[c])
    BY <1>1, <2>1, NewSlots
  <2>3. next[slot] \in NodeId
    BY <2>1, <2>2, NextIs
  <2>4. SlotCreate(c, next, slot).id \notin EdgeId
    BY <2>3, CreateIs, KindsAreDisjoint
  <2> QED
    BY <2>1, <2>4 DEF Ends
<1>3. ASSUME e # Repo
      PROVE  Ends(SlotCreate(c, next, <<"tie", e>>))
               = {next[<<"node", e>>], next[<<"node", Parent(e)>>]}
  <2>0. PICK slot : slot = <<"tie", e>>
    OBVIOUS
  <2>1. slot = <<"tie", e>> /\ slot[1] = "tie" /\ slot[2] = e
    BY <2>0
  <2>2. slot \in Slots(Entities[c], Calls[c])
    BY <1>1, <1>3, <2>1, NewSlots
  <2>3. next[slot] \in EdgeId
    BY <2>1, <2>2, NextIs
  <2>4. PICK op : op = SlotCreate(c, next, slot)
    OBVIOUS
  <2>5. op.id \in EdgeId /\ op.verb = "create" /\ op.body = SlotBody(c, next, slot)
    BY <2>3, <2>4, CreateIs
  <2>6. Ends(op) = {op.body.from, op.body.to}
    BY <2>5 DEF Ends
  <2>7. {Tie(slot)[2], Tie(slot)[3]} = {e, Parent(e)}
    BY <2>1 DEF Tie, Parent
  <2>8. op.body.from = next[<<"node", Tie(slot)[2]>>] /\ op.body.to = next[<<"node", Tie(slot)[3]>>]
    BY <2>1, <2>5 DEF SlotBody
  <2> QED
    BY <2>1, <2>4, <2>6, <2>7, <2>8
<1> QED
  BY <1>2, <1>3

\* The objects of one entity that comes.
NewIds(next, e) ==
  {next[<<"node", e>>]} \cup (IF e = Repo THEN {} ELSE {next[<<"tie", e>>]})

LEMMA CreateOrder ==
  ASSUME NEW s, NEW X, NEW P, NEW home, NEW c, NEW m, Importing(s, X, P, home, c, m),
         NEW next, next = NextHome(s, X, P, home, c, m),
         NEW e \in Entities[c] \ X, NEW ops, Brings(ops, c, next, e), NEW fresh, NEW done,
         NewIds(next, e) \cap done = {},
         e # Repo => (next[<<"node", Parent(e)>>] \in fresh => next[<<"node", Parent(e)>>] \in done)
  PROVE  OpsInOrder(ops, fresh, done) /\ Ids(ops) = NewIds(next, e)
<1>1. PICK a, b, n, t, parent :
        /\ a = SlotCreate(c, next, <<"node", e>>) /\ n = next[<<"node", e>>]
        /\ b = SlotCreate(c, next, <<"tie", e>>) /\ t = next[<<"tie", e>>]
        /\ parent = next[<<"node", Parent(e)>>]
  OBVIOUS
<1>2. a.id = n /\ b.id = t
  BY <1>1, CreateIs
<1>3. Ends(a) = {} /\ (e # Repo => Ends(b) = {n, parent})
  BY <1>1, CreateEnds
<1>4. e # Repo => n # t
  <2> SUFFICES ASSUME e # Repo, n = t PROVE FALSE
    OBVIOUS
  <2>0. PICK slot, other : slot = <<"node", e>> /\ other = <<"tie", e>>
    OBVIOUS
  <2>1. slot = <<"node", e>> /\ other = <<"tie", e>> /\ slot # other
    BY <2>0
  <2>2. slot \in Slots(Entities[c], Calls[c]) /\ other \in Slots(Entities[c], Calls[c])
    BY <2>1, NewSlots DEF Importing
  <2>3. next[slot] = next[other]
    BY <1>1, <2>1
  <2> QED
    BY <2>1, <2>2, <2>3, NextOnce
<1>5. /\ n \notin done
      /\ e # Repo => t \notin done /\ (parent \in fresh => parent \in done)
  BY <1>1 DEF NewIds
<1>6. OpsInOrder(<<a>>, fresh, done) /\ Ids(<<a>>) = {n}
  BY <1>2, <1>3, <1>5, OrderOne
<1>7. CASE e = Repo
  <2>1. ops = <<a>> \o <<>>
    BY <1>1, <1>7 DEF Brings
  <2>2. <<a>> \o <<>> = <<a>>
    OBVIOUS
  <2>3. NewIds(next, e) = {n}
    BY <1>1, <1>7 DEF NewIds
  <2> QED
    BY <1>6, <2>1, <2>2, <2>3
<1>8. CASE e # Repo
  <2>1. ops = <<a>> \o <<b>>
    BY <1>1, <1>8 DEF Brings
  <2>2. OpsInOrder(<<b>>, fresh, done \cup {n}) /\ Ids(<<b>>) = {t}
    <3>1. b.id \notin done \cup {n} /\ Ends(b) \cap fresh \subseteq done \cup {n}
      BY <1>2, <1>3, <1>4, <1>5, <1>8
    <3> QED
      BY <1>2, <3>1, OrderOne
  <2>3. NewIds(next, e) = {n} \cup {t}
    BY <1>1, <1>8 DEF NewIds
  <2>4. /\ OpsInOrder(<<a>> \o <<b>>, fresh, done)
        /\ Ids(<<a>> \o <<b>>) = Ids(<<a>>) \cup Ids(<<b>>)
    <3>1. PICK u, v : u = <<a>> /\ v = <<b>>
      OBVIOUS
    <3>2. OpsInOrder(u, fresh, done) /\ OpsInOrder(v, fresh, done \cup Ids(u))
      BY <1>6, <2>2, <3>1
    <3>3. OpsInOrder(u \o v, fresh, done) /\ Ids(u \o v) = Ids(u) \cup Ids(v)
      BY <3>2, OrderBoth
    <3> QED
      BY <3>1, <3>3
  <2> QED
    BY <1>6, <2>1, <2>2, <2>3, <2>4
<1> QED
  BY <1>7, <1>8

\* They are of no other entity.
LEMMA NewIdsOnce ==
  ASSUME NEW s, NEW X, NEW P, NEW home, NEW c, NEW m, Importing(s, X, P, home, c, m),
         NEW next, next = NextHome(s, X, P, home, c, m),
         NEW d \in Entities[c] \ X, NEW e \in Entities[c] \ X, d # e
  PROVE  NewIds(next, d) \cap NewIds(next, e) = {}
<1> SUFFICES ASSUME NEW id \in NewIds(next, d), id \in NewIds(next, e) PROVE FALSE
  OBVIOUS
<1>1. c \in Commit
  BY DEF Importing
<1>2. ASSUME NEW x \in {d, e}, id \in NewIds(next, x)
      PROVE  \E slot \in Slots(Entities[c], Calls[c]) : slot[2] = x /\ next[slot] = id
  <2>1. CASE id = next[<<"node", x>>]
    <3>1. <<"node", x>> \in Slots(Entities[c], Calls[c])
      BY <1>1, NewSlots
    <3>2. PICK slot \in Slots(Entities[c], Calls[c]) : slot = <<"node", x>>
      BY <3>1
    <3> QED
      BY <2>1, <3>2
  <2>2. CASE x # Repo /\ id = next[<<"tie", x>>]
    <3>1. <<"tie", x>> \in Slots(Entities[c], Calls[c])
      BY <1>1, <2>2, NewSlots
    <3>2. PICK slot \in Slots(Entities[c], Calls[c]) : slot = <<"tie", x>>
      BY <3>1
    <3> QED
      BY <2>2, <3>2
  <2> QED
    BY <1>2, <2>1, <2>2 DEF NewIds
<1>3. PICK a \in Slots(Entities[c], Calls[c]) : a[2] = d /\ next[a] = id
  BY <1>2
<1>4. PICK b \in Slots(Entities[c], Calls[c]) : b[2] = e /\ next[b] = id
  BY <1>2
<1>5. a = b
  BY <1>3, <1>4, NextOnce
<1> QED
  BY <1>3, <1>4, <1>5

\* None of them was there.
LEMMA NewUnused ==
  ASSUME NEW s, NEW X, NEW P, NEW home, NEW c, NEW m, Importing(s, X, P, home, c, m),
         NEW next, next = NextHome(s, X, P, home, c, m), NEW e \in Entities[c] \ X
  PROVE  NewIds(next, e) \cap DOMAIN s = {}
<1>1. /\ <<"node", e>> \in Slots(Entities[c], Calls[c]) /\ <<"node", e>> \notin Slots(X, P)
      /\ e # Repo => /\ <<"tie", e>> \in Slots(Entities[c], Calls[c])
                     /\ <<"tie", e>> \notin Slots(X, P)
  BY NewSlots DEF Importing
<1>2. next[<<"node", e>>] \notin DOMAIN s
  BY <1>1, NextIs
<1>3. e # Repo => next[<<"tie", e>>] \notin DOMAIN s
  BY <1>1, NextIs
<1> QED
  BY <1>2, <1>3 DEF NewIds

\* A node that comes is that of an entity that comes.
LEMMA ComingIs ==
  ASSUME NEW s, NEW X, NEW P, NEW home, NEW c, NEW m, Importing(s, X, P, home, c, m),
         NEW next, next = NextHome(s, X, P, home, c, m), NEW e \in Entities[c]
  PROVE  /\ next[<<"node", e>>] \in Coming(X, c, next) <=> e \notin X
         /\ next[<<"node", e>>] \in DOMAIN s <=> e \in X
<1>1. ASSUME NEW d \in Entities[c]
      PROVE  next[<<"node", d>>] \in DOMAIN s <=> d \in X
  <2>1. PICK slot : slot = <<"node", d>>
    OBVIOUS
  <2>2. slot \in Slots(Entities[c], Calls[c]) /\ (slot \in Slots(X, P) <=> d \in X)
    BY <2>1 DEF Slots
  <2>3. next[slot] \in DOMAIN s <=> slot \in Slots(X, P)
    BY <2>2, NextIs
  <2> QED
    BY <2>1, <2>2, <2>3
<1>2. Coming(X, c, next) \cap DOMAIN s = {}
  BY <1>1 DEF Coming
<1> QED
  BY <1>1, <1>2 DEF Coming

\* All operations on what comes.
LEMMA CreatesOrder ==
  ASSUME NEW s, NEW X, NEW P, NEW home, NEW c, NEW m, Importing(s, X, P, home, c, m),
         NEW next, next = NextHome(s, X, P, home, c, m),
         NEW new, new = New(s, c), NEW ops,
         ops = FlattenSeq([i \in DOMAIN new |-> CreateOps(Indexed(s), c, new, m, i)])
  PROVE  /\ OpsInOrder(ops, Coming(X, c, next), {})
         /\ Ids(ops) = UNION {NewIds(next, e) : e \in Entities[c] \ X}
<1> DEFINE creations == [i \in DOMAIN new |-> CreateOps(Indexed(s), c, new, m, i)]
           fresh == Coming(X, c, next)
<1>1. /\ IsSequence(new) /\ Len(new) \in Nat /\ DOMAIN new = 1..Len(new)
      /\ Range(new) = Entities[c] \ X /\ IsInjective(new)
  BY NewIs
<1>2. creations = [i \in 1..Len(new) |-> creations[i]]
  BY <1>1
<1>3. \A i \in 1..Len(new) : creations[i] = CreateOps(Indexed(s), c, new, m, i)
  BY <1>1
<1>4. ops = FlattenSeq(creations)
  OBVIOUS
<1> HIDE DEF creations, fresh
<1>5. IsSequence(creations) /\ Len(creations) = Len(new)
  BY <1>1, <1>2, ListedSequence
<1>6. ASSUME NEW i \in 1..Len(new), NEW done,
             \A j \in 1..(i-1) : NewIds(next, new[j]) \subseteq done,
             \A id \in done : \E j \in 1..(i-1) : id \in NewIds(next, new[j])
      PROVE  OpsInOrder(creations[i], fresh, done) /\ Ids(creations[i]) = NewIds(next, new[i])
  <2>1. PICK e, q : e = new[i] /\ q = CreateOps(Indexed(s), c, New(s, c), m, i)
    OBVIOUS
  <2>2. e \in Entities[c] \ X
    BY <1>1, <2>1 DEF Range
  <2>3. Brings(q, c, next, New(s, c)[i])
    BY <2>1, CreateRange
  <2>4. NewIds(next, e) \cap done = {}
    <3> SUFFICES ASSUME NEW id \in done, id \in NewIds(next, e) PROVE FALSE
      OBVIOUS
    <3>1. PICK j \in 1..(i-1) : id \in NewIds(next, new[j])
      BY <1>6
    <3>2. PICK d : d = new[j]
      OBVIOUS
    <3>3. j \in 1..Len(new) /\ j # i
      BY <1>1
    <3>4. d \in Entities[c] \ X /\ d # e
      BY <1>1, <2>1, <3>2, <3>3 DEF Range, IsInjective
    <3>5. NewIds(next, d) \cap NewIds(next, e) = {}
      BY <2>2, <3>4, NewIdsOnce
    <3> QED
      BY <3>1, <3>2, <3>5
  <2>5. ASSUME e # Repo, next[<<"node", Parent(e)>>] \in fresh
        PROVE  next[<<"node", Parent(e)>>] \in done
    <3>1. Parent(e) \in Entities[c]
      <4>1. Closed(Entities[c], Calls[c])
        BY CommitClosed DEF Importing
      <4>2. e = FileAt(e.path) => e.what = "file"
        BY FileWhat
      <4> QED
        BY <2>2, <2>5, <4>1, <4>2 DEF Closed, Parent
    <3>2. Parent(e) \notin X
      BY <2>5, <3>1, ComingIs DEF fresh
    <3>3. PICK j \in 1..(i-1) : New(s, c)[j] = Parent(e)
      BY <2>1, <2>5, <3>2, ParentsFirst
    <3>4. next[<<"node", new[j]>>] \in NewIds(next, new[j])
      BY DEF NewIds
    <3> QED
      BY <1>6, <3>3, <3>4
  <2>6. Brings(q, c, next, e) /\ creations[i] = q
    BY <1>3, <2>1, <2>3
  <2>7. OpsInOrder(q, fresh, done) /\ Ids(q) = NewIds(next, e)
    BY <2>2, <2>4, <2>5, <2>6, CreateOrder
  <2> QED
    BY <2>1, <2>6, <2>7
<1>7. \A i \in 1..Len(new) : Ids(creations[i]) = NewIds(next, new[i])
  <2> TAKE i \in 1..Len(new)
  <2>0. PICK done : done = UNION {NewIds(next, new[j]) : j \in 1..(i-1)}
    OBVIOUS
  <2>1. /\ \A j \in 1..(i-1) : NewIds(next, new[j]) \subseteq done
        /\ \A id \in done : \E j \in 1..(i-1) : id \in NewIds(next, new[j])
    BY <2>0
  <2> QED
    BY <1>6, <2>1
<1>8. \A i \in 1..Len(creations) :
        OpsInOrder(creations[i], fresh, {} \cup UNION {Ids(creations[j]) : j \in 1..(i-1)})
  <2> TAKE i \in 1..Len(creations)
  <2>1. PICK done : done = {} \cup UNION {Ids(creations[j]) : j \in 1..(i-1)}
    OBVIOUS
  <2>2. \A j \in 1..(i-1) : j \in 1..Len(new)
    BY <1>1, <1>5
  <2>3. /\ \A j \in 1..(i-1) : NewIds(next, new[j]) \subseteq done
        /\ \A id \in done : \E j \in 1..(i-1) : id \in NewIds(next, new[j])
    BY <1>7, <2>1, <2>2
  <2> QED
    BY <1>5, <1>6, <2>1, <2>3
<1>9. /\ OpsInOrder(ops, fresh, {})
      /\ Ids(ops) = UNION {Ids(creations[i]) : i \in 1..Len(creations)}
  BY <1>4, <1>5, <1>8, OrderAll
<1>10. Ids(ops) = UNION {NewIds(next, e) : e \in Entities[c] \ X}
  <2>1. \A i \in 1..Len(new) : new[i] \in Entities[c] \ X
    BY <1>1 DEF Range
  <2>2. \A e \in Entities[c] \ X : \E i \in 1..Len(new) : new[i] = e
    BY <1>1 DEF Range
  <2> QED
    BY <1>5, <1>7, <1>9, <2>1, <2>2
<1> QED
  BY <1>9, <1>10 DEF fresh

\* Operations of one kind: one F for each member of S, each on an object G of its own.
Each(ops, S, F, G, fresh, done) ==
  /\ IsSequence(ops) /\ IsInjective(ops)
  /\ \A op : op \in Range(ops) <=> \E x \in S : op = F[x]
  /\ \A x \in S : F[x].id = G[x] /\ G[x] \notin done /\ Ends(F[x]) \cap fresh \subseteq done
  /\ \A x, y \in S : G[x] = G[y] => x = y

LEMMA OrderEach ==
  ASSUME NEW ops, NEW S, NEW F, NEW G, NEW fresh, NEW done, Each(ops, S, F, G, fresh, done)
  PROVE  OpsInOrder(ops, fresh, done) /\ Ids(ops) = {G[x] : x \in S}
<1> USE DEF Each
<1>1. \A a, b \in Range(ops) : a.id = b.id => a = b
  <2> SUFFICES ASSUME NEW a \in Range(ops), NEW b \in Range(ops), a.id = b.id PROVE a = b
    OBVIOUS
  <2>1. PICK x \in S, y \in S : a = F[x] /\ b = F[y]
    OBVIOUS
  <2>2. x = y
    BY <2>1
  <2> QED
    BY <2>1, <2>2
<1>2. \A op \in Range(ops) : op.id \notin done /\ Ends(op) \cap fresh \subseteq done
  OBVIOUS
<1>3. Ids(ops) = {G[x] : x \in S}
  BY DEF Ids
<1> QED
  BY <1>1, <1>2, <1>3, OrderApart

\* The operations on what is not up to date.
LEMMA UpdatesOrder ==
  ASSUME NEW s, NEW X, NEW P, NEW home, NEW c, NEW m, Importing(s, X, P, home, c, m),
         NEW ops, ops = UpdateOps(s, Indexed(s), c), NEW fresh, NEW done,
         done \cap DOMAIN s = {}
  PROVE  /\ OpsInOrder(ops, fresh, done)
         /\ \A id \in Ids(ops) : \E e \in Stale(s, X, home, c) : id = home[<<"node", e>>]
<1>1. /\ IsSequence(ops) /\ IsInjective(ops)
      /\ \A op : op \in Range(ops) <=> Updates(s, X, home, c, op)
  BY UpdateRange
<1>2. PICK S, F, G : /\ S = Stale(s, X, home, c)
                     /\ F = [e \in S |-> SlotUpdate(s, c, home, e)]
                     /\ G = [e \in S |-> home[<<"node", e>>]]
  OBVIOUS
<1>3. \A e \in S : F[e] = SlotUpdate(s, c, home, e)
  BY <1>2
<1>4. \A op : op \in Range(ops) <=> \E e \in S : op = F[e]
  BY <1>1, <1>2, <1>3 DEF Updates
<1>5. ASSUME NEW e \in S
      PROVE  /\ G[e] \in DOMAIN s /\ F[e].id = G[e] /\ F[e].verb = "update"
             /\ G[e] = home[<<"node", e>>]
  <2>1. G[e] = home[<<"node", e>>] /\ F[e] = SlotUpdate(s, c, home, e)
    BY <1>2
  <2>2. home[<<"node", e>>] \in DOMAIN s
    BY <1>2, StaleSlots
  <2> QED
    BY <2>1, <2>2, UpdateIs
<1>6. ASSUME NEW d \in S, NEW e \in S, G[d] = G[e] PROVE d = e
  <2>1. home[<<"node", d>>] = home[<<"node", e>>]
    BY <1>5, <1>6
  <2>2. PICK slot \in Slots(X, P) : slot = <<"node", d>>
    BY <1>2, StaleSlots
  <2>3. slot = <<"node", e>>
    BY <1>2, <2>1, <2>2, StaleSlots
  <2> QED
    BY <2>2, <2>3
<1>7. \A e \in S : F[e].id = G[e] /\ G[e] \notin done /\ Ends(F[e]) \cap fresh \subseteq done
  BY <1>5 DEF Ends
<1>8. OpsInOrder(ops, fresh, done) /\ Ids(ops) = {G[e] : e \in S}
  <2>1. Each(ops, S, F, G, fresh, done)
    BY <1>1, <1>4, <1>6, <1>7 DEF Each
  <2> QED
    BY <2>1, OrderEach
<1>9. \A id \in Ids(ops) : \E e \in S : id = G[e]
  BY <1>8
<1> QED
  BY <1>2, <1>5, <1>8, <1>9

\* The operations on calls.
LEMMA CallsOrder ==
  ASSUME NEW s, NEW X, NEW P, NEW home, NEW c, NEW m, Importing(s, X, P, home, c, m),
         NEW next, next = NextHome(s, X, P, home, c, m),
         NEW ops, ops = CallOps(s, Indexed(s), c, New(s, c), m), NEW done,
         Coming(X, c, next) \subseteq done,
         \A id \in done : \/ \E e \in Entities[c] \ X : id \in NewIds(next, e)
                          \/ \E e \in Stale(s, X, home, c) : id = home[<<"node", e>>]
  PROVE  /\ OpsInOrder(ops, Coming(X, c, next), done)
         /\ \A id \in Ids(ops) : \/ \E p \in Calls[c] \ P : id = next[<<"call", p>>]
                                 \/ \E q \in P \ Calls[c] : id = home[<<"call", q>>]
<1>1. PICK a, b : /\ ops = a \o b /\ IsSequence(a) /\ IsSequence(b)
                  /\ IsInjective(a) /\ IsInjective(b)
                  /\ \A op : op \in Range(a) <=> CallCreates(P, c, next, op)
                  /\ \A op : op \in Range(b) <=> CallDeletes(s, P, home, c, op)
  <2>1. CallParts(ops, s, P, home, c, next)
    BY CallRange
  <2> QED
    BY <2>1 DEF CallParts
<1>2. c \in Commit /\ Shape(s, X, P, home)
  BY DEF Importing
<1>3. PICK fresh : fresh = Coming(X, c, next)
  OBVIOUS
<1>4. PICK S, F, G : /\ S = Calls[c] \ P
                     /\ F = [p \in S |-> SlotCreate(c, next, <<"call", p>>)]
                     /\ G = [p \in S |-> next[<<"call", p>>]]
  OBVIOUS
<1>5. PICK T, H, J : /\ T = P \ Calls[c]
                     /\ H = [q \in T |-> SlotDelete(s, home, <<"call", q>>)]
                     /\ J = [q \in T |-> home[<<"call", q>>]]
  OBVIOUS
<1>6. ASSUME NEW p \in S
      PROVE  /\ <<"call", p>> \in Slots(Entities[c], Calls[c])
             /\ G[p] = next[<<"call", p>>]
             /\ G[p] \notin DOMAIN s /\ G[p] \notin done
             /\ F[p].id = G[p]
  <2>1. PICK slot : slot = <<"call", p>>
    OBVIOUS
  <2>2. slot \in Slots(Entities[c], Calls[c]) /\ slot \notin Slots(X, P)
        /\ slot[1] = "call"
    BY <1>4, <2>1 DEF Slots
  <2>3. next[slot] \notin DOMAIN s
    BY <2>2, NextIs
  <2>4. ASSUME next[slot] \in done PROVE FALSE
    <3>1. ASSUME NEW e \in Stale(s, X, home, c) PROVE next[slot] # home[<<"node", e>>]
      BY <2>3, StaleSlots
    <3>2. PICK e \in Entities[c] \ X : next[slot] \in NewIds(next, e)
      BY <2>4, <3>1
    <3>3. /\ <<"node", e>> \in Slots(Entities[c], Calls[c])
          /\ e # Repo => <<"tie", e>> \in Slots(Entities[c], Calls[c])
      BY <1>2, NewSlots
    <3>4. \E other \in Slots(Entities[c], Calls[c]) : other[1] # "call" /\ next[slot] = next[other]
      <4>1. CASE next[slot] = next[<<"node", e>>]
        <5>1. PICK other \in Slots(Entities[c], Calls[c]) : other = <<"node", e>>
          BY <3>3
        <5> QED
          BY <4>1, <5>1
      <4>2. CASE e # Repo /\ next[slot] = next[<<"tie", e>>]
        <5>1. PICK other \in Slots(Entities[c], Calls[c]) : other = <<"tie", e>>
          BY <3>3, <4>2
        <5> QED
          BY <4>2, <5>1
      <4> QED
        BY <3>2, <4>1, <4>2 DEF NewIds
    <3> QED
      BY <2>2, <3>4, NextOnce
  <2>5. G[p] = next[slot] /\ F[p] = SlotCreate(c, next, slot)
    BY <1>4, <2>1
  <2> QED
    BY <2>1, <2>2, <2>3, <2>4, <2>5, CreateIs
<1>7. ASSUME NEW q \in T
      PROVE  /\ <<"call", q>> \in Slots(X, P)
             /\ J[q] = home[<<"call", q>>]
             /\ J[q] \in DOMAIN s /\ J[q] \notin done
             /\ H[q].id = J[q] /\ Ends(H[q]) = {}
  <2>1. PICK slot : slot = <<"call", q>>
    OBVIOUS
  <2>2. slot \in Slots(X, P) /\ slot[1] = "call"
    BY <1>5, <2>1 DEF Slots
  <2>3. home[slot] \in DOMAIN s
    BY <2>2, StaleSlots
  <2>4. ASSUME home[slot] \in done PROVE FALSE
    <3>1. ASSUME NEW e \in Stale(s, X, home, c) PROVE home[slot] # home[<<"node", e>>]
      <4>1. home[slot] = home[<<"node", e>>] => slot = <<"node", e>>
        BY <2>2, StaleSlots
      <4>2. slot # <<"node", e>>
        BY <2>2
      <4> QED
        BY <4>1, <4>2
    <3>2. PICK e \in Entities[c] \ X : home[slot] \in NewIds(next, e)
      BY <2>4, <3>1
    <3>3. NewIds(next, e) \cap DOMAIN s = {}
      BY <1>2, NewUnused
    <3> QED
      BY <2>3, <3>2, <3>3
  <2>5. SlotDelete(s, home, slot).id = home[slot] /\ Ends(SlotDelete(s, home, slot)) = {}
    BY DeleteIs DEF Ends
  <2>6. J[q] = home[slot] /\ H[q] = SlotDelete(s, home, slot)
    BY <1>5, <2>1
  <2> QED
    BY <2>1, <2>2, <2>3, <2>4, <2>5, <2>6
<1>8. OpsInOrder(a, fresh, done) /\ Ids(a) = {G[p] : p \in S}
  <2>1. \A op : op \in Range(a) <=> \E p \in S : op = F[p]
    <3>1. \A p \in S : F[p] = SlotCreate(c, next, <<"call", p>>)
      BY <1>4
    <3> QED
      BY <1>1, <1>4, <3>1 DEF CallCreates
  <2>2. ASSUME NEW p \in S, NEW q \in S, G[p] = G[q] PROVE p = q
    <3>1. PICK x, y : x = <<"call", p>> /\ y = <<"call", q>>
      OBVIOUS
    <3>2. /\ x \in Slots(Entities[c], Calls[c]) /\ y \in Slots(Entities[c], Calls[c])
          /\ next[x] = next[y]
      BY <1>6, <2>2, <3>1
    <3>3. x = y
      BY <3>2, NextOnce
    <3> QED
      BY <3>1, <3>3
  <2>3. \A p \in S : F[p].id = G[p] /\ G[p] \notin done /\ Ends(F[p]) \cap fresh \subseteq done
    BY <1>3, <1>6
  <2>4. Each(a, S, F, G, fresh, done)
    BY <1>1, <2>1, <2>2, <2>3 DEF Each
  <2> QED
    BY <2>4, OrderEach
<1>9. OpsInOrder(b, fresh, done \cup Ids(a)) /\ Ids(b) = {J[q] : q \in T}
  <2>1. \A op : op \in Range(b) <=> \E q \in T : op = H[q]
    <3>1. \A q \in T : H[q] = SlotDelete(s, home, <<"call", q>>)
      BY <1>5
    <3> QED
      BY <1>1, <1>5, <3>1 DEF CallDeletes
  <2>2. ASSUME NEW p \in T, NEW q \in T, J[p] = J[q] PROVE p = q
    <3>1. PICK x, y : x = <<"call", p>> /\ y = <<"call", q>>
      OBVIOUS
    <3>2. x \in Slots(X, P) /\ y \in Slots(X, P) /\ home[x] = home[y]
      BY <1>7, <2>2, <3>1
    <3>3. x = y
      BY <3>2, StaleSlots
    <3> QED
      BY <3>1, <3>3
  <2>3. \A q \in T : /\ H[q].id = J[q] /\ J[q] \notin done \cup Ids(a)
                     /\ Ends(H[q]) \cap fresh \subseteq done \cup Ids(a)
    BY <1>6, <1>7, <1>8
  <2>4. Each(b, T, H, J, fresh, done \cup Ids(a))
    BY <1>1, <2>1, <2>2, <2>3 DEF Each
  <2> QED
    BY <2>4, OrderEach
<1>10. OpsInOrder(a \o b, fresh, done) /\ Ids(a \o b) = Ids(a) \cup Ids(b)
  BY <1>8, <1>9, OrderBoth
<1>11. ASSUME NEW id \in Ids(ops)
       PROVE  \/ \E p \in Calls[c] \ P : id = next[<<"call", p>>]
              \/ \E q \in P \ Calls[c] : id = home[<<"call", q>>]
  <2>1. (\E p \in S : id = G[p]) \/ \E q \in T : id = J[q]
    BY <1>1, <1>8, <1>9, <1>10
  <2> QED
    BY <1>4, <1>5, <1>6, <1>7, <2>1
<1> QED
  BY <1>1, <1>3, <1>10, <1>11

\* Each of the nodes that go is listed once.
LEMMA GoneOnce ==
  ASSUME NEW s, NEW X, NEW P, NEW home, NEW c, NEW m, Importing(s, X, P, home, c, m),
         NEW gone, gone = SetToSeq(Vanished(Indexed(s), c)),
         NEW i \in DOMAIN gone, NEW j \in DOMAIN gone, gone[i] = gone[j]
  PROVE  i = j
<1>1. DOMAIN Indexed(s) = X /\ \A e \in X : Indexed(s)[e] = home[<<"node", e>>]
  BY NewIs
<1>2. PICK old : old = Vanished(Indexed(s), c)
  OBVIOUS
<1>3. \A n \in old : \E e \in X \ Entities[c] : n = home[<<"node", e>>]
  BY <1>1, <1>2 DEF Vanished
<1>4. IsFiniteSet(old)
  <2>1. \A e \in X : home[<<"node", e>>] \in CodeNodes(s)
    BY ShapeNodes DEF Importing
  <2>2. CodeNodes(s) \subseteq DOMAIN s /\ IsFiniteSet(DOMAIN s)
    BY DEF Importing, CodeNodes, LiveNodes
  <2>3. old \subseteq DOMAIN s
    BY <1>3, <2>1, <2>2
  <2> QED
    BY <2>2, <2>3, FS_Subset
<1>5. gone = SetToSeq(old)
  BY <1>2
<1>6. IsInjective(gone)
  BY <1>4, <1>5, SetListed
<1> QED
  BY <1>6 DEF IsInjective

\* The objects that are deleted with an entity.
OldIds(home, e) == {home[<<"node", e>>], home[<<"tie", e>>]}

\* The slots of an entity that goes.
LEMMA OldSlots ==
  ASSUME NEW s, NEW X, NEW P, NEW home, NEW c, NEW m, Importing(s, X, P, home, c, m),
         NEW e \in X \ Entities[c]
  PROVE  /\ e # Repo
         /\ <<"node", e>> \in Slots(X, P) /\ <<"node", e>> \notin Slots(Entities[c], Calls[c])
         /\ <<"tie", e>> \in Slots(X, P) /\ <<"tie", e>> \notin Slots(Entities[c], Calls[c])
<1>1. Repo \in Entities[c]
  BY CommitClosed DEF Importing
<1> QED
  BY <1>1 DEF Slots

\* They are those of that entity alone.
LEMMA OldIdsOnce ==
  ASSUME NEW s, NEW X, NEW P, NEW home, NEW c, NEW m, Importing(s, X, P, home, c, m),
         NEW d \in X \ Entities[c], NEW e \in X \ Entities[c], NEW id \in OldIds(home, d),
         id \in OldIds(home, e)
  PROVE  d = e
<1>1. PICK a \in Slots(X, P) : id = home[a] /\ a[2] = d
  <2>1. CASE id = home[<<"node", d>>]
    <3>1. PICK a \in Slots(X, P) : a = <<"node", d>>
      BY OldSlots
    <3> QED
      BY <2>1, <3>1
  <2>2. CASE id = home[<<"tie", d>>]
    <3>1. PICK a \in Slots(X, P) : a = <<"tie", d>>
      BY OldSlots
    <3> QED
      BY <2>2, <3>1
  <2> QED
    BY <2>1, <2>2 DEF OldIds
<1>2. PICK b \in Slots(X, P) : id = home[b] /\ b[2] = e
  <2>1. CASE id = home[<<"node", e>>]
    <3>1. PICK b \in Slots(X, P) : b = <<"node", e>>
      BY OldSlots
    <3> QED
      BY <2>1, <3>1
  <2>2. CASE id = home[<<"tie", e>>]
    <3>1. PICK b \in Slots(X, P) : b = <<"tie", e>>
      BY OldSlots
    <3> QED
      BY <2>2, <3>1
  <2> QED
    BY <2>1, <2>2 DEF OldIds
<1>3. \A x, y \in Slots(X, P) : home[x] = home[y] => x = y
  BY StaleSlots
<1> QED
  BY <1>1, <1>2, <1>3

\* The operations on one entity that goes.
LEMMA RemovalOrder ==
  ASSUME NEW s, NEW X, NEW P, NEW home, NEW c, NEW m, Importing(s, X, P, home, c, m),
         NEW e \in X \ Entities[c], NEW ops, Takes(ops, s, home, e), NEW fresh, NEW done,
         OldIds(home, e) \cap done = {}
  PROVE  OpsInOrder(ops, fresh, done) /\ Ids(ops) = OldIds(home, e)
<1>1. PICK a, b : a = SlotDelete(s, home, <<"tie", e>>) /\ b = SlotDelete(s, home, <<"node", e>>)
  OBVIOUS
<1>2. /\ a.id = home[<<"tie", e>>] /\ Ends(a) = {}
      /\ b.id = home[<<"node", e>>] /\ Ends(b) = {}
  BY <1>1, DeleteIs DEF Ends
<1>3. a.id # b.id
  <2>1. PICK x \in Slots(X, P) : x = <<"tie", e>>
    BY OldSlots
  <2>2. PICK y \in Slots(X, P) : y = <<"node", e>>
    BY OldSlots
  <2>3. x # y
    BY <2>1, <2>2
  <2>4. home[x] # home[y]
    BY <2>3, StaleSlots
  <2> QED
    BY <1>2, <2>1, <2>2, <2>4
<1>4. a.id \notin done /\ b.id \notin done
  BY <1>2 DEF OldIds
<1>5. ops = <<a>> \o <<b>>
  BY <1>1 DEF Takes
<1>6. OpsInOrder(<<a>>, fresh, done) /\ Ids(<<a>>) = {a.id}
  BY <1>2, <1>4, OrderOne
<1>7. OpsInOrder(<<b>>, fresh, done \cup Ids(<<a>>)) /\ Ids(<<b>>) = {b.id}
  <2>1. PICK more : more = done \cup Ids(<<a>>)
    OBVIOUS
  <2>2. b.id \notin more /\ Ends(b) \cap fresh \subseteq more
    BY <1>2, <1>3, <1>4, <1>6, <2>1
  <2> QED
    BY <2>1, <2>2, OrderOne
<1>8. OpsInOrder(<<a>> \o <<b>>, fresh, done) /\ Ids(<<a>> \o <<b>>) = Ids(<<a>>) \cup Ids(<<b>>)
  BY <1>6, <1>7, OrderBoth
<1> QED
  BY <1>2, <1>5, <1>6, <1>7, <1>8 DEF OldIds

\* All of them.
LEMMA RemovalsOrder ==
  ASSUME NEW s, NEW X, NEW P, NEW home, NEW c, NEW m, Importing(s, X, P, home, c, m),
         NEW gone, gone = SetToSeq(Vanished(Indexed(s), c)), NEW ops,
         ops = FlattenSeq([i \in DOMAIN gone |-> RemovalOps(s, gone[i])]),
         NEW fresh, NEW done,
         \A e \in X \ Entities[c] : OldIds(home, e) \cap done = {}
  PROVE  /\ OpsInOrder(ops, fresh, done)
         /\ \A id \in Ids(ops) : \E e \in X \ Entities[c] : id \in OldIds(home, e)
<1> DEFINE removals == [i \in DOMAIN gone |-> RemovalOps(s, gone[i])]
<1>0. GoneList(gone, X, home, c)
  BY GoneListed
<1>1. /\ IsSequence(gone) /\ Len(gone) \in Nat /\ DOMAIN gone = 1..Len(gone)
      /\ \A i \in 1..Len(gone) :
           \E e \in X \ Entities[c] : e # Repo /\ gone[i] = home[<<"node", e>>]
      /\ \A e \in X \ Entities[c] :
           e # Repo /\ \E i \in 1..Len(gone) : gone[i] = home[<<"node", e>>]
  BY <1>0 DEF GoneList
<1>2. removals = [i \in 1..Len(gone) |-> removals[i]]
  BY <1>1
<1>3. \A i \in 1..Len(gone) : removals[i] = RemovalOps(s, gone[i])
  BY <1>1
<1>4. ops = FlattenSeq(removals)
  OBVIOUS
<1> HIDE DEF removals
<1>5. IsSequence(removals) /\ Len(removals) = Len(gone)
  BY <1>1, <1>2, ListedSequence
<1>6. ASSUME NEW i \in 1..Len(gone), NEW more, \A e \in X \ Entities[c] :
               gone[i] = home[<<"node", e>>] => OldIds(home, e) \cap more = {}
      PROVE  /\ OpsInOrder(removals[i], fresh, more)
             /\ \E e \in X \ Entities[c] : /\ gone[i] = home[<<"node", e>>]
                                           /\ Ids(removals[i]) = OldIds(home, e)
  <2>1. PICK e \in X \ Entities[c] : e # Repo /\ gone[i] = home[<<"node", e>>]
    BY <1>1
  <2>2. PICK q : q = RemovalOps(s, home[<<"node", e>>]) /\ removals[i] = q
    BY <1>3, <2>1
  <2>3. Takes(q, s, home, e)
    <3>1. Shape(s, X, P, home)
      BY DEF Importing
    <3>2. Removes(q, s, home, e)
      BY <2>1, <2>2, <3>1, RemovalRange
    <3> QED
      BY <3>2 DEF Removes
  <2>4. OpsInOrder(q, fresh, more) /\ Ids(q) = OldIds(home, e)
    BY <1>6, <2>1, <2>3, RemovalOrder
  <2> QED
    BY <2>1, <2>2, <2>4
<1>7. ASSUME NEW i \in 1..Len(gone)
      PROVE  \E e \in X \ Entities[c] : /\ gone[i] = home[<<"node", e>>]
                                        /\ Ids(removals[i]) = OldIds(home, e)
  <2>1. \A e \in X \ Entities[c] : gone[i] = home[<<"node", e>>] => OldIds(home, e) \cap {} = {}
    OBVIOUS
  <2> QED
    BY <1>6, <2>1
<1>8. \A i \in 1..Len(removals) :
        OpsInOrder(removals[i], fresh, done \cup UNION {Ids(removals[j]) : j \in 1..(i-1)})
  <2> TAKE i \in 1..Len(removals)
  <2>1. PICK more : more = done \cup UNION {Ids(removals[j]) : j \in 1..(i-1)}
    OBVIOUS
  <2>2. ASSUME NEW e \in X \ Entities[c], gone[i] = home[<<"node", e>>],
               NEW id \in OldIds(home, e), id \in more
        PROVE  FALSE
    <3>1. PICK j \in 1..(i-1) : id \in Ids(removals[j])
      BY <2>1, <2>2
    <3>2. j \in 1..Len(gone) /\ i \in 1..Len(gone) /\ j # i
      BY <1>1, <1>5
    <3>3. PICK d \in X \ Entities[c] : /\ gone[j] = home[<<"node", d>>]
                                       /\ Ids(removals[j]) = OldIds(home, d)
      BY <1>7, <3>2
    <3>4. id \in OldIds(home, d)
      BY <3>1, <3>3
    <3>5. d = e
      BY <2>2, <3>4, OldIdsOnce
    <3>6. gone[j] = gone[i]
      BY <2>2, <3>3, <3>5
    <3> QED
      BY <1>1, <3>2, <3>6, GoneOnce
  <2>3. i \in 1..Len(gone)
    BY <1>5
  <2>4. OpsInOrder(removals[i], fresh, more)
    BY <1>6, <2>2, <2>3
  <2> QED
    BY <2>1, <2>4
<1>9. /\ OpsInOrder(FlattenSeq(removals), fresh, done)
      /\ Ids(FlattenSeq(removals)) = UNION {Ids(removals[i]) : i \in 1..Len(removals)}
  BY <1>5, <1>8, OrderAll
<1>10. ASSUME NEW id \in Ids(ops) PROVE \E e \in X \ Entities[c] : id \in OldIds(home, e)
  <2>1. PICK i \in 1..Len(gone) : id \in Ids(removals[i])
    BY <1>4, <1>5, <1>9
  <2> QED
    BY <1>7, <2>1
<1> QED
  BY <1>4, <1>9, <1>10

\* What is deleted with an entity is not what comes, nor what is brought up to
\* date, nor a call.
LEMMA OldIdsApart ==
  ASSUME NEW s, NEW X, NEW P, NEW home, NEW c, NEW m, Importing(s, X, P, home, c, m),
         NEW next, next = NextHome(s, X, P, home, c, m),
         NEW e \in X \ Entities[c], NEW id \in OldIds(home, e)
  PROVE  /\ \A d \in Entities[c] \ X : id \notin NewIds(next, d)
         /\ \A d \in Stale(s, X, home, c) : id # home[<<"node", d>>]
         /\ \A p \in Calls[c] \ P : id # next[<<"call", p>>]
         /\ \A q \in P \ Calls[c] : id # home[<<"call", q>>]
<1>1. PICK a \in Slots(X, P) : /\ id = home[a] /\ a[1] \in {"node", "tie"} /\ a[2] = e
  <2>1. CASE id = home[<<"node", e>>]
    <3>1. PICK a \in Slots(X, P) : a = <<"node", e>>
      BY OldSlots
    <3> QED
      BY <2>1, <3>1
  <2>2. CASE id = home[<<"tie", e>>]
    <3>1. PICK a \in Slots(X, P) : a = <<"tie", e>>
      BY OldSlots
    <3> QED
      BY <2>2, <3>1
  <2> QED
    BY <2>1, <2>2 DEF OldIds
<1>2. id \in DOMAIN s
  <2>1. \A slot \in Slots(X, P) : home[slot] \in DOMAIN s
    BY StaleSlots
  <2> QED
    BY <1>1, <2>1
<1>3. ASSUME NEW d \in Entities[c] \ X PROVE id \notin NewIds(next, d)
  <2>1. NewIds(next, d) \cap DOMAIN s = {}
    BY NewUnused
  <2> QED
    BY <1>2, <2>1
<1>4. ASSUME NEW d \in Stale(s, X, home, c) PROVE id # home[<<"node", d>>]
  <2>1. \A b \in Slots(X, P) : home[<<"node", d>>] = home[b] => b = <<"node", d>>
    BY StaleSlots
  <2>2. d \in Entities[c]
    BY DEF Stale
  <2>3. a # <<"node", d>>
    BY <1>1, <2>2
  <2> QED
    BY <1>1, <2>1, <2>3
<1>5. ASSUME NEW p \in Calls[c] \ P PROVE id # next[<<"call", p>>]
  <2>1. PICK slot : slot = <<"call", p>>
    OBVIOUS
  <2>2. slot \in Slots(Entities[c], Calls[c]) /\ slot \notin Slots(X, P)
    BY <2>1 DEF Slots
  <2>3. next[slot] \notin DOMAIN s
    BY <2>2, NextIs
  <2> QED
    BY <1>2, <2>1, <2>3
<1>6. ASSUME NEW q \in P \ Calls[c] PROVE id # home[<<"call", q>>]
  <2>1. PICK slot : slot = <<"call", q>>
    OBVIOUS
  <2>2. slot \in Slots(X, P)
    BY <2>1 DEF Slots
  <2>3. \A x, y \in Slots(X, P) : home[x] = home[y] => x = y
    BY StaleSlots
  <2>4. slot # a
    BY <1>1, <2>1
  <2> QED
    BY <1>1, <2>1, <2>2, <2>3, <2>4
<1> QED
  BY <1>3, <1>4, <1>5, <1>6

\* An import is in order: each operation is on an object of its own, and an
\* edge comes after the new nodes that it ties.
LEMMA ImportOrder ==
  ASSUME NEW s, NEW X, NEW P, NEW home, NEW c, NEW m, Importing(s, X, P, home, c, m),
         NEW next, next = NextHome(s, X, P, home, c, m)
  PROVE  OpsInOrder(ImportOps(s, c, m), Coming(X, c, next), {})
<1>1. PICK new, gone : new = New(s, c) /\ gone = SetToSeq(Vanished(Indexed(s), c))
  OBVIOUS
<1>2. PICK a : a = FlattenSeq([i \in DOMAIN new |-> CreateOps(Indexed(s), c, new, m, i)])
  OBVIOUS
<1>3. PICK b : b = UpdateOps(s, Indexed(s), c)
  OBVIOUS
<1>4. PICK d : d = CallOps(s, Indexed(s), c, new, m)
  OBVIOUS
<1>5. PICK g : g = FlattenSeq([i \in DOMAIN gone |-> RemovalOps(s, gone[i])])
  OBVIOUS
<1>6. ImportOps(s, c, m) = ((a \o b) \o d) \o g
  BY <1>1, <1>2, <1>3, <1>4, <1>5 DEF ImportOps, OpsFrom, OpsFor, New
<1>7. PICK fresh : fresh = Coming(X, c, next)
  OBVIOUS
<1>8. OpsInOrder(a, fresh, {}) /\ Ids(a) = UNION {NewIds(next, e) : e \in Entities[c] \ X}
  BY <1>1, <1>2, <1>7, CreatesOrder
<1>9. Ids(a) \cap DOMAIN s = {}
  <2>1. \A e \in Entities[c] \ X : NewIds(next, e) \cap DOMAIN s = {}
    BY NewUnused
  <2> QED
    BY <1>8, <2>1
<1>10. PICK da : da = {} \cup Ids(a)
  OBVIOUS
<1>11. /\ OpsInOrder(b, fresh, da)
       /\ \A id \in Ids(b) : \E e \in Stale(s, X, home, c) : id = home[<<"node", e>>]
  <2>1. da \cap DOMAIN s = {}
    BY <1>9, <1>10
  <2> QED
    BY <1>3, <2>1, UpdatesOrder
<1>12. OpsInOrder(a \o b, fresh, {}) /\ Ids(a \o b) = Ids(a) \cup Ids(b)
  BY <1>8, <1>10, <1>11, OrderBoth
<1>13. PICK dab : dab = {} \cup Ids(a \o b)
  OBVIOUS
<1>14. \A id \in dab : \/ \E e \in Entities[c] \ X : id \in NewIds(next, e)
                       \/ \E e \in Stale(s, X, home, c) : id = home[<<"node", e>>]
  BY <1>8, <1>11, <1>12, <1>13
<1>15. Coming(X, c, next) \subseteq dab
  <2> SUFFICES ASSUME NEW e \in Entities[c] \ X PROVE next[<<"node", e>>] \in dab
    BY DEF Coming
  <2>1. PICK n : n = next[<<"node", e>>]
    OBVIOUS
  <2>2. n \in NewIds(next, e)
    BY <2>1 DEF NewIds
  <2>3. n \in Ids(a)
    BY <1>8, <2>2
  <2> QED
    BY <1>12, <1>13, <2>1, <2>3
<1>16. /\ OpsInOrder(d, fresh, dab)
       /\ \A id \in Ids(d) : \/ \E p \in Calls[c] \ P : id = next[<<"call", p>>]
                             \/ \E q \in P \ Calls[c] : id = home[<<"call", q>>]
  <2>1. d = CallOps(s, Indexed(s), c, New(s, c), m)
    BY <1>1, <1>4
  <2> QED
    BY <1>7, <1>14, <1>15, <2>1, CallsOrder
<1>17. OpsInOrder((a \o b) \o d, fresh, {}) /\ Ids((a \o b) \o d) = Ids(a \o b) \cup Ids(d)
  BY <1>12, <1>13, <1>16, OrderBoth
<1>18. PICK dabd : dabd = {} \cup Ids((a \o b) \o d)
  OBVIOUS
<1>19. \A e \in X \ Entities[c] : OldIds(home, e) \cap dabd = {}
  <2> SUFFICES ASSUME NEW e \in X \ Entities[c], NEW id \in OldIds(home, e), id \in dabd
               PROVE  FALSE
    OBVIOUS
  <2>1. /\ \A x \in Entities[c] \ X : id \notin NewIds(next, x)
        /\ \A x \in Stale(s, X, home, c) : id # home[<<"node", x>>]
        /\ \A p \in Calls[c] \ P : id # next[<<"call", p>>]
        /\ \A q \in P \ Calls[c] : id # home[<<"call", q>>]
    BY OldIdsApart
  <2>2. id \in dab \/ id \in Ids(d)
    BY <1>13, <1>17, <1>18
  <2> QED
    BY <1>14, <1>16, <2>1, <2>2
<1>20. OpsInOrder(g, fresh, dabd)
  BY <1>1, <1>5, <1>19, RemovalsOrder
<1>21. OpsInOrder(((a \o b) \o d) \o g, fresh, {})
  BY <1>17, <1>18, <1>20, OrderBoth
<1> QED
  BY <1>6, <1>7, <1>21

-----------------------------------------------------------------------------
\* Each operation of an import is allowed when its turn comes.

\* A type is a subtype of itself.
LEMMA SatisfiesSelf ==
  ASSUME NEW reg, NEW type \in reg.types
  PROVE  TypeSatisfies(reg, type, type)
  BY DEF TypeSatisfies, Ancestors

\* A definition of an edge that may tie nodes of some types.
MayTie(reg, edge, from, to) ==
  \E def \in reg.edges : /\ def.name = edge
                         /\ \E t \in def.domain : TypeSatisfies(reg, from, t)
                         /\ \E t \in def.range : TypeSatisfies(reg, to, t)

\* The code ontology has one for each edge of an import.
LEMMA OntologyTies ==
  ASSUME NEW reg, CodeOntology(reg), NEW X, NEW P, Closed(X, P),
         NEW slot \in Slots(X, P), slot[1] # "node", NEW from, NEW to,
         Stands(from, Tie(slot)[2]), Stands(to, Tie(slot)[3])
  PROVE  MayTie(reg, Tie(slot)[1], TypeOf(from), TypeOf(to))
<1>1. ASSUME NEW edge, NEW a, NEW b, a \in NodeTypes, b \in NodeTypes,
             \E def \in reg.edges : def.name = edge /\ a \in def.domain /\ b \in def.range
      PROVE  MayTie(reg, edge, a, b)
  <2>1. a \in reg.types /\ b \in reg.types
    BY <1>1 DEF CodeOntology, NodeTypes
  <2>2. TypeSatisfies(reg, a, a) /\ TypeSatisfies(reg, b, b)
    BY <2>1, SatisfiesSelf
  <2> QED
    BY <1>1, <2>2 DEF MayTie
<1>2. /\ MayTie(reg, "code/in_repo", "code/SourceFile", "code/Repository")
      /\ MayTie(reg, "code/declares", "code/SourceFile", "code/Function")
      /\ MayTie(reg, "code/declares", "code/SourceFile", "code/Type")
      /\ MayTie(reg, "code/calls", "code/Function", "code/Function")
  BY <1>1 DEF CodeOntology, NodeTypes
<1>3. CASE slot[1] = "call"
  <2>1. PICK p \in P : slot[2] = p
    BY <1>3, SlotSorts
  <2>2. p[1].what = "fn" /\ p[2].what = "fn"
    BY DEF Closed
  <2>3. Tie(slot) = <<"code/calls", p[1], p[2]>>
    BY <1>3, <2>1 DEF Tie
  <2>4. TypeOf(from) = "code/Function" /\ TypeOf(to) = "code/Function"
    BY <2>2, <2>3 DEF Stands
  <2> QED
    BY <1>2, <2>3, <2>4
<1>4. CASE slot[1] # "call"
  <2>1. PICK e \in X : e # Repo /\ slot[2] = e
    BY <1>4, SlotSorts
  <2>2. CASE e.what = "file"
    <3>1. Tie(slot) = <<"code/in_repo", e, Repo>>
      BY <1>4, <2>1, <2>2 DEF Tie
    <3>2. TypeOf(from) = "code/SourceFile" /\ TypeOf(to) = "code/Repository"
      <4>1. Stands(from, e) /\ Stands(to, Repo)
        BY <3>1
      <4>2. Repo.what = "repo"
        BY EntityParts
      <4> QED
        BY <2>2, <4>1, <4>2 DEF Stands
    <3> QED
      BY <1>2, <3>1, <3>2
  <2>3. CASE e.what # "file"
    <3>1. e.what \in Kinds
      BY <2>1, <2>3, FileWhat DEF Closed
    <3>2. Tie(slot) = <<"code/declares", FileAt(e.path), e>>
      BY <1>4, <2>1, <2>3 DEF Tie
    <3>3. FileAt(e.path).what = "file"
      BY EntityParts
    <3>4. TypeOf(from) = "code/SourceFile"
      BY <3>2, <3>3 DEF Stands
    <3>5. TypeOf(to) \in {"code/Function", "code/Type"}
      BY <3>1, <3>2 DEF Stands, Kinds
    <3> QED
      BY <1>2, <3>2, <3>4, <3>5
  <2> QED
    BY <2>2, <2>3
<1> QED
  BY <1>3, <1>4

\* The node of an entity is there when an edge that ties it is created.
LEMMA NodeThere ==
  ASSUME NEW s, NEW X, NEW P, NEW home, NEW c, NEW m, Importing(s, X, P, home, c, m),
         NEW next, next = NextHome(s, X, P, home, c, m),
         NEW ops, ops = ImportOps(s, c, m), NEW i \in 1..Len(ops),
         NEW t, Reached(s, t, ops, i - 1),
         NEW x \in Entities[c], NEW id, id = next[<<"node", x>>],
         x \notin X => \E j \in 1..(i-1) : ops[j].id = id
  PROVE  id \in LiveNodes(t) /\ Stands(t[id].content, x)
<1>1. PICK slot : slot = <<"node", x>>
  OBVIOUS
<1>2. c \in Commit /\ Shape(s, X, P, home) /\ Repo \in Entities[c]
  BY CommitClosed DEF Importing
<1>3. slot \in Slots(Entities[c], Calls[c]) /\ slot[1] = "node" /\ slot[2] = x /\ id = next[slot]
  BY <1>1 DEF Slots
<1>4. x \in X <=> slot \in Slots(X, P)
  BY <1>1 DEF Slots
<1>5. /\ id \in NodeId
      /\ x \in X => id = home[slot]
  BY <1>3, <1>4, NextIs
<1>6. IsSequence(ops)
  BY ImportPlan
<1>7. SUFFICES ASSUME TRUE PROVE id \in DOMAIN t /\ ~t[id].deleted /\ Stands(t[id].content, x)
  BY <1>5 DEF LiveNodes
<1>8. CASE \E j \in 1..(i-1) : ops[j].id = id
  <2>1. PICK j \in 1..(i-1) : ops[j].id = id
    BY <1>8
  <2>2. Made(s, t, id, ops[j])
    BY <2>1 DEF Reached
  <2>3. PICK op : op = ops[j]
    OBVIOUS
  <2>4. op \in Range(ops) /\ op.id = id
    BY <1>6, <2>1, <2>3 DEF Range, IsSequence
  <2>5. ASSUME op.verb \in {"create", "update"}, op.body = Contents[c][x]
        PROVE  id \in DOMAIN t /\ ~t[id].deleted /\ Stands(t[id].content, x)
    <3>1. id \in DOMAIN t /\ t[id] = Obj(op.body, op.body, FALSE, FALSE)
      BY <2>2, <2>3, <2>5 DEF Made
    <3>2. ~t[id].deleted /\ t[id].content = Contents[c][x]
      BY <2>5, <3>1 DEF Obj
    <3>3. Stands(Contents[c][x], x)
      BY <1>2, ContentStands
    <3> QED
      BY <3>1, <3>2, <3>3
  <2>6. ASSUME NEW other \in Slots(Entities[c], Calls[c]),
               op = SlotCreate(c, next, other), op.id = next[other]
        PROVE  op.verb \in {"create", "update"} /\ op.body = Contents[c][x]
    <3>1. other = slot
      BY <1>3, <2>4, <2>6, NextOnce
    <3>2. SlotBody(c, next, slot) = Contents[c][x]
      BY <1>3 DEF SlotBody
    <3> QED
      BY <2>6, <3>1, <3>2, CreateIs
  <2>7. ASSUME NEW e \in Stale(s, X, home, c), op = SlotUpdate(s, c, home, e),
               op.id = home[<<"node", e>>]
        PROVE  op.verb \in {"create", "update"} /\ op.body = Contents[c][x]
    <3>1. e = x
      <4>1. PICK other \in Slots(X, P) : other = <<"node", e>>
        BY StaleSlots
      <4>2. home[other] \in DOMAIN s
        BY StaleSlots
      <4>3. slot \in Slots(X, P)
        BY <1>3, <2>4, <2>7, <4>1, <4>2, NextIs
      <4>4. home[slot] = home[other]
        BY <1>4, <1>5, <2>4, <2>7, <4>1, <4>3
      <4>5. \A a, b \in Slots(X, P) : home[a] = home[b] => a = b
        BY StaleSlots
      <4> QED
        BY <1>1, <4>1, <4>3, <4>4, <4>5
    <3> QED
      BY <2>7, <3>1, UpdateIs
  <2>8. ASSUME NEW other \in Slots(X, P) \ Slots(Entities[c], Calls[c]), op.id = home[other]
        PROVE  FALSE
    <3>1. home[other] \in DOMAIN s
      BY <2>8, StaleSlots
    <3>2. slot \in Slots(X, P)
      <4>1. next[slot] \in DOMAIN s
        BY <1>3, <2>4, <2>8, <3>1
      <4> QED
        BY <1>3, <4>1, NextIs
    <3>3. home[slot] = home[other]
      BY <1>4, <1>5, <2>4, <2>8, <3>2
    <3>4. \A a, b \in Slots(X, P) : home[a] = home[b] => a = b
      BY StaleSlots
    <3> QED
      BY <1>3, <2>8, <3>2, <3>3, <3>4
  <2>9. \/ \E other \in Slots(Entities[c], Calls[c]) :
             op = SlotCreate(c, next, other) /\ op.id = next[other]
        \/ \E e \in Stale(s, X, home, c) :
             op = SlotUpdate(s, c, home, e) /\ op.id = home[<<"node", e>>]
        \/ \E other \in Slots(X, P) \ Slots(Entities[c], Calls[c]) : op.id = home[other]
    BY <2>4, OpsApart
  <2> QED
    BY <2>5, <2>6, <2>7, <2>8, <2>9
<1>9. CASE \A j \in 1..(i-1) : ops[j].id # id
  <2>1. x \in X /\ Same(s, t, id)
    BY <1>9 DEF Reached
  <2>2. id = home[slot] /\ slot \in Slots(X, P)
    BY <1>4, <1>5, <2>1
  <2>3. id \in CodeNodes(s)
    BY <1>1, <1>2, <2>1, <2>2, ShapeNodes
  <2>4. id \in DOMAIN s /\ ~s[id].deleted
    BY <2>3 DEF CodeNodes, LiveNodes
  <2>5. Stands(s[id].content, x)
    BY <1>2, <1>3, <2>2 DEF Shape, Fits
  <2> QED
    BY <2>1, <2>4, <2>5 DEF Same
<1> QED
  BY <1>8, <1>9

\* What an import writes has the type of what it stands for.
Written(body, next, slot) ==
  /\ slot[1] = "node" => TypeOf(body) \in NodeTypes
  /\ slot[1] # "node" => /\ TypeOf(body) = Tie(slot)[1]
                         /\ {"from", "to"} \subseteq DOMAIN body
                         /\ body.from = next[<<"node", Tie(slot)[2]>>]
                         /\ body.to = next[<<"node", Tie(slot)[3]>>]

LEMMA WrittenType ==
  ASSUME NEW c \in Commit, NEW next, NEW slot \in Slots(Entities[c], Calls[c]), NEW body,
         body = SlotBody(c, next, slot)
  PROVE  Written(body, next, slot)
<1>1. Fits(body, next, slot) /\ Closed(Entities[c], Calls[c])
  BY BodyFits, CommitClosed
<1>2. slot[1] # "node" => {"from", "to"} \subseteq DOMAIN body
  BY DEF SlotBody
<1> QED
  BY <1>1, <1>2, FitTypes DEF Fits, Written

\* A creation.
LEMMA CreateAllowed ==
  ASSUME NEW s, NEW X, NEW P, NEW home, NEW c, NEW m, Importing(s, X, P, home, c, m),
         NEW next, next = NextHome(s, X, P, home, c, m), NEW reg, CodeOntology(reg),
         NEW ops, ops = ImportOps(s, c, m), NEW i \in 1..Len(ops),
         NEW t, Reached(s, t, ops, i - 1),
         NEW slot \in Slots(Entities[c], Calls[c]), slot \notin Slots(X, P),
         NEW op, op = ops[i], op = SlotCreate(c, next, slot)
  PROVE  OpAllowed(reg, t, op)
<1>1. c \in Commit /\ Closed(Entities[c], Calls[c])
  BY CommitClosed DEF Importing
<1>2. /\ op.verb = "create" /\ op.id = next[slot] /\ op.body = SlotBody(c, next, slot)
  BY CreateIs
<1>3. /\ next[slot] \notin DOMAIN s
      /\ slot[1] = "node" => next[slot] \in NodeId
      /\ slot[1] # "node" => next[slot] \in EdgeId
  BY NextIs
<1>4. OpsInOrder(ops, Coming(X, c, next), {})
  BY ImportOrder
<1>5. \A j \in 1..(i-1) : ops[j].id # op.id
  <2>1. Len(ops) \in Nat
    BY <1>4 DEF OpsInOrder, IsSequence
  <2> SUFFICES ASSUME NEW j \in 1..(i-1), ops[j].id = op.id PROVE FALSE
    OBVIOUS
  <2>2. j \in 1..Len(ops) /\ j # i
    BY <2>1
  <2> QED
    BY <1>4, <2>2 DEF OpsInOrder
<1>6. op.id \notin DOMAIN t
  <2>1. Same(s, t, op.id)
    BY <1>5 DEF Reached
  <2> QED
    BY <1>2, <1>3, <2>1 DEF Same
<1>7. ValidPayload(reg, t, op.id, op.body)
  <2>0. Written(op.body, next, slot)
    <3>1. PICK body : body = op.body
      OBVIOUS
    <3>2. body = SlotBody(c, next, slot)
      BY <1>2, <3>1
    <3>3. Written(body, next, slot)
      BY <1>1, <3>2, WrittenType
    <3> QED
      BY <3>1, <3>3
  <2>1. CASE slot[1] = "node"
    <3>1. TypeOf(op.body) \in NodeTypes
      BY <2>0, <2>1 DEF Written
    <3>2. TypeOf(op.body) \in reg.types
      BY <3>1 DEF CodeOntology, NodeTypes
    <3> QED
      BY <1>2, <1>3, <2>1, <3>2 DEF ValidPayload
  <2>2. CASE slot[1] # "node"
    <3>1. PICK from, to : from = op.body.from /\ to = op.body.to
      OBVIOUS
    <3>2. /\ TypeOf(op.body) = Tie(slot)[1]
          /\ from = next[<<"node", Tie(slot)[2]>>] /\ to = next[<<"node", Tie(slot)[3]>>]
      <4>1. /\ TypeOf(op.body) = Tie(slot)[1]
            /\ op.body.from = next[<<"node", Tie(slot)[2]>>]
            /\ op.body.to = next[<<"node", Tie(slot)[3]>>]
        BY <2>0, <2>2 DEF Written
      <4> QED
        BY <3>1, <4>1
    <3>3. Tie(slot)[2] \in Entities[c] /\ Tie(slot)[3] \in Entities[c]
      BY <1>1, <2>2, TieEnds
    <3>4. Ends(op) = {from, to}
      BY <1>2, <1>3, <2>2, <3>1 DEF Ends
    <3>5. \A id \in {from, to} : id \in Coming(X, c, next) => \E j \in 1..(i-1) : ops[j].id = id
      <4>1. Ends(op) \cap Coming(X, c, next) \subseteq {} \cup {ops[j].id : j \in 1..(i-1)}
        BY <1>4 DEF OpsInOrder
      <4> QED
        BY <3>4, <4>1
    <3>6. /\ Tie(slot)[2] \notin X => from \in Coming(X, c, next)
          /\ Tie(slot)[3] \notin X => to \in Coming(X, c, next)
      BY <3>2, <3>3, ComingIs
    <3>7. from \in LiveNodes(t) /\ Stands(t[from].content, Tie(slot)[2])
      BY <3>2, <3>3, <3>5, <3>6, NodeThere
    <3>8. to \in LiveNodes(t) /\ Stands(t[to].content, Tie(slot)[3])
      BY <3>2, <3>3, <3>5, <3>6, NodeThere
    <3>9. MayTie(reg, TypeOf(op.body), TypeOf(t[from].content), TypeOf(t[to].content))
      BY <1>1, <2>2, <3>2, <3>7, <3>8, OntologyTies
    <3> QED
      BY <1>2, <1>3, <2>2, <3>1, <3>7, <3>8, <3>9 DEF ValidPayload, MayTie
  <2> QED
    BY <2>1, <2>2
<1> QED
  BY <1>2, <1>6, <1>7 DEF OpAllowed

\* An update or a deletion, of what is still as it was.
LEMMA ChangeAllowed ==
  ASSUME NEW s, NEW X, NEW P, NEW home, NEW c, NEW m, Importing(s, X, P, home, c, m),
         NEW reg, CodeOntology(reg), NEW t, NEW slot \in Slots(X, P), Same(s, t, home[slot]),
         NEW op, \/ op = SlotDelete(s, home, slot)
                 \/ \E e \in Stale(s, X, home, c) :
                      slot = <<"node", e>> /\ op = SlotUpdate(s, c, home, e)
  PROVE  OpAllowed(reg, t, op)
<1>1. home[slot] \in DOMAIN s /\ ~s[home[slot]].deleted
  <2>1. \A b \in Slots(X, P) : home[b] \in DOMAIN s /\ home[b] \in Derived(s)
    BY StaleSlots
  <2> QED
    BY <2>1 DEF Derived, CodeNodes, LiveNodes, DerivedEdges, LiveEdges
<1>2. home[slot] \in DOMAIN t /\ t[home[slot]] = s[home[slot]]
  BY <1>1 DEF Same
<1>3. CASE op = SlotDelete(s, home, slot)
  <2>1. op.verb = "delete" /\ op.id = home[slot]
    BY <1>3, DeleteIs
  <2>2. "prior" \in DOMAIN op /\ op.prior = s[home[slot]].rev
    BY <1>3 DEF SlotDelete, DeleteOp
  <2> QED
    BY <1>1, <1>2, <2>1, <2>2 DEF OpAllowed, PriorMatches, Live
<1>4. CASE \E e \in Stale(s, X, home, c) : slot = <<"node", e>> /\ op = SlotUpdate(s, c, home, e)
  <2>1. PICK e \in Stale(s, X, home, c) : slot = <<"node", e>> /\ op = SlotUpdate(s, c, home, e)
    BY <1>4
  <2>2. op.verb = "update" /\ op.id = home[slot] /\ op.body = Contents[c][e]
    BY <2>1, UpdateIs
  <2>3. "prior" \in DOMAIN op /\ op.prior = s[home[slot]].rev
    BY <2>1 DEF SlotUpdate, UpdateOp
  <2>4. c \in Commit /\ e \in Entities[c] /\ Shape(s, X, P, home) /\ e \in X
    BY <2>1 DEF Importing, Stale
  <2>5. home[slot] \in NodeId
    <3>1. home[slot] \in CodeNodes(s)
      BY <2>1, <2>4, ShapeNodes
    <3> QED
      BY <3>1 DEF CodeNodes, LiveNodes
  <2>6. TypeOf(op.body) \in NodeTypes
    BY <2>2, <2>4, ContentStands DEF Stands, NodeTypes
  <2>7. ValidPayload(reg, t, op.id, op.body)
    BY <2>2, <2>5, <2>6 DEF ValidPayload, CodeOntology, NodeTypes
  <2> QED
    BY <1>1, <1>2, <2>2, <2>3, <2>7 DEF OpAllowed, PriorMatches, Live
<1> QED
  BY <1>3, <1>4

\* All of them apply.
LEMMA ImportAllowed ==
  ASSUME NEW s, NEW X, NEW P, NEW home, NEW c, NEW m, Importing(s, X, P, home, c, m),
         NEW reg, CodeOntology(reg), NEW ops, ops = ImportOps(s, c, m)
  PROVE  ApplyOps(reg, s, ops).ok
<1>1. PICK next : next = NextHome(s, X, P, home, c, m)
  OBVIOUS
<1>2. OpsInOrder(ops, Coming(X, c, next), {})
  BY <1>1, ImportOrder
<1>3. Len(ops) \in Nat /\ \A i \in 1..Len(ops) : ops[i] \in Range(ops)
  BY <1>2 DEF OpsInOrder, IsSequence, Range
<1>4. \A i, j \in 1..Len(ops) : ops[i].id = ops[j].id => i = j
  BY <1>2 DEF OpsInOrder
<1>5. ASSUME NEW i \in 1..Len(ops)
      PROVE  /\ ops[i].verb \in Verbs
             /\ \A t : Reached(s, t, ops, i - 1) => OpAllowed(reg, t, ops[i])
  <2>1. PICK op : op = ops[i] /\ op \in Range(ops)
    BY <1>3
  <2>2. ASSUME NEW t, Reached(s, t, ops, i - 1) PROVE Same(s, t, op.id)
    <3>1. \A j \in 1..(i-1) : ops[j].id # op.id
      <4> SUFFICES ASSUME NEW j \in 1..(i-1), ops[j].id = op.id PROVE FALSE
        OBVIOUS
      <4>1. j \in 1..Len(ops) /\ j # i
        BY <1>3
      <4> QED
        BY <1>4, <2>1, <4>1
    <3> QED
      BY <2>2, <3>1 DEF Reached
  <2>3. \/ \E slot \in Slots(Entities[c], Calls[c]) \ Slots(X, P) : op = SlotCreate(c, next, slot)
        \/ \E e \in Stale(s, X, home, c) :
             op = SlotUpdate(s, c, home, e) /\ op.id = home[<<"node", e>>]
        \/ \E slot \in Slots(X, P) \ Slots(Entities[c], Calls[c]) :
             op = SlotDelete(s, home, slot) /\ op.id = home[slot]
    <3>1. op \in Range(ImportOps(s, c, m))
      BY <2>1
    <3>2. \/ /\ op.id \notin DOMAIN s
             /\ \E slot \in Slots(Entities[c], Calls[c]) \ Slots(X, P) :
                  op = SlotCreate(c, next, slot) /\ op.id = next[slot]
          \/ \E e \in Stale(s, X, home, c) :
               op = SlotUpdate(s, c, home, e) /\ op.id = home[<<"node", e>>]
          \/ \E slot \in Slots(X, P) \ Slots(Entities[c], Calls[c]) :
               op = SlotDelete(s, home, slot) /\ op.id = home[slot]
      BY <1>1, <3>1, OpsApart
    <3> QED
      BY <3>2
  <2>4. CASE \E slot \in Slots(Entities[c], Calls[c]) \ Slots(X, P) :
               op = SlotCreate(c, next, slot)
    <3>1. PICK slot \in Slots(Entities[c], Calls[c]) \ Slots(X, P) :
            op = SlotCreate(c, next, slot)
      BY <2>4
    <3>2. op.verb = "create"
      BY <3>1, CreateIs
    <3>3. \A t : Reached(s, t, ops, i - 1) => OpAllowed(reg, t, op)
      BY <1>1, <2>1, <3>1, CreateAllowed
    <3> QED
      BY <2>1, <3>2, <3>3 DEF Verbs
  <2>5. CASE \E e \in Stale(s, X, home, c) :
               op = SlotUpdate(s, c, home, e) /\ op.id = home[<<"node", e>>]
    <3>1. PICK e \in Stale(s, X, home, c) :
            op = SlotUpdate(s, c, home, e) /\ op.id = home[<<"node", e>>]
      BY <2>5
    <3>2. PICK slot \in Slots(X, P) : slot = <<"node", e>>
      BY StaleSlots
    <3>3. op.verb = "update"
      BY <3>1, UpdateIs
    <3>4. \A t : Reached(s, t, ops, i - 1) => OpAllowed(reg, t, op)
      BY <2>2, <3>1, <3>2, ChangeAllowed
    <3> QED
      BY <2>1, <3>3, <3>4 DEF Verbs
  <2>6. CASE \E slot \in Slots(X, P) \ Slots(Entities[c], Calls[c]) :
               op = SlotDelete(s, home, slot) /\ op.id = home[slot]
    <3>1. PICK slot \in Slots(X, P) \ Slots(Entities[c], Calls[c]) :
            op = SlotDelete(s, home, slot) /\ op.id = home[slot]
      BY <2>6
    <3>2. op.verb = "delete"
      BY <3>1, DeleteIs
    <3>3. \A t : Reached(s, t, ops, i - 1) => OpAllowed(reg, t, op)
      BY <2>2, <3>1, ChangeAllowed
    <3> QED
      BY <2>1, <3>2, <3>3 DEF Verbs
  <2> QED
    BY <2>3, <2>4, <2>5, <2>6
<1>6. /\ \A i \in 1..Len(ops) : ops[i].verb \in Verbs
      /\ \A i \in 1..Len(ops) : \A t : Reached(s, t, ops, i - 1) => OpAllowed(reg, t, ops[i])
  BY <1>5
<1> QED
  BY <1>3, <1>4, <1>6, AllApply

-----------------------------------------------------------------------------
\* When the result of an import resolves: the edges that are not of the index
\* keep the nodes that they tie.

\* The live edges that are not of the index, and the nodes that go.
Outer(s) == {d \in DOMAIN s \cap EdgeId : ~s[d].deleted /\ d \notin Derived(s)}
GoneNodes(X, home, c) == {home[<<"node", e>>] : e \in X \ Entities[c]}

\* What is in the graph but not of the index stays as it is.
LEMMA OuterKept ==
  ASSUME NEW s, NEW X, NEW P, NEW home, NEW c, NEW m, Importing(s, X, P, home, c, m),
         NEW reg, NEW ops, ops = ImportOps(s, c, m), ApplyOps(reg, s, ops).ok,
         NEW r, r = ApplyOps(reg, s, ops).objects,
         NEW id \in DOMAIN s, id \notin Derived(s)
  PROVE  Same(s, r, id)
<1>1. PICK next : next = NextHome(s, X, P, home, c, m)
  OBVIOUS
<1>2. ASSUME NEW slot \in Slots(Entities[c], Calls[c]) PROVE id # next[slot]
  <2>1. CASE slot \in Slots(X, P)
    <3>1. next[slot] = home[slot]
      BY <1>1, <2>1, NextIs
    <3>2. home[slot] \in Derived(s)
      BY <2>1, StaleSlots
    <3> QED
      BY <3>1, <3>2
  <2>2. CASE slot \notin Slots(X, P)
    <3>1. next[slot] \notin DOMAIN s
      BY <1>1, <2>2, NextIs
    <3> QED
      BY <3>1
  <2> QED
    BY <2>1, <2>2
<1> QED
  BY <1>1, <1>2, ResultApart

\* A node is live after the import if it was, and does not go.
LEMMA ResultLive ==
  ASSUME NEW s, NEW X, NEW P, NEW home, NEW c, NEW m, Importing(s, X, P, home, c, m),
         NEW reg, NEW ops, ops = ImportOps(s, c, m), ApplyOps(reg, s, ops).ok,
         NEW r, r = ApplyOps(reg, s, ops).objects,
         NEW n \in NodeId, Live(s, n)
  PROVE  Live(r, n) <=> n \notin GoneNodes(X, home, c)
<1>1. PICK next : next = NextHome(s, X, P, home, c, m)
  OBVIOUS
<1>2. Shape(s, X, P, home) /\ n \in DOMAIN s /\ ~s[n].deleted
  BY DEF Importing, Live
<1>3. CASE n \notin Derived(s)
  <2>1. Same(s, r, n)
    BY <1>2, <1>3, OuterKept
  <2>2. n \notin GoneNodes(X, home, c)
    <3>1. \A e \in X : home[<<"node", e>>] \in CodeNodes(s)
      BY <1>2, ShapeNodes
    <3> QED
      BY <1>3, <3>1 DEF GoneNodes, Derived
  <2> QED
    BY <1>2, <2>1, <2>2 DEF Same, Live
<1>4. CASE n \in Derived(s)
  <2>1. n \in CodeNodes(s)
    BY <1>4, KindsAreDisjoint DEF Derived, DerivedEdges, LiveEdges
  <2>2. PICK e \in X : home[<<"node", e>>] = n
    BY <1>2, <2>1, ShapeNodes
  <2>3. PICK slot \in Slots(X, P) : slot = <<"node", e>>
    BY <1>2, ShapeNodes
  <2>4. n \in GoneNodes(X, home, c) <=> e \notin Entities[c]
    <3>1. ASSUME NEW d \in X, home[<<"node", d>>] = n PROVE d = e
      <4>1. PICK other \in Slots(X, P) : other = <<"node", d>>
        BY <1>2, ShapeNodes
      <4>2. \A a, b \in Slots(X, P) : home[a] = home[b] => a = b
        BY StaleSlots
      <4>3. slot = other
        BY <2>2, <2>3, <3>1, <4>1, <4>2
      <4> QED
        BY <2>3, <4>1, <4>3
    <3> QED
      BY <2>2, <3>1 DEF GoneNodes
  <2>5. CASE e \in Entities[c]
    <3>1. slot \in Slots(Entities[c], Calls[c])
      BY <2>3, <2>5 DEF Slots
    <3>2. next[slot] = home[slot]
      BY <1>1, <3>1, NextIs
    <3>3. next[slot] \in DOMAIN r /\ ~r[next[slot]].deleted
      BY <1>1, <3>1, ResultFits
    <3> QED
      BY <2>2, <2>3, <2>4, <2>5, <3>2, <3>3 DEF Live
  <2>6. CASE e \notin Entities[c]
    <3>1. slot \notin Slots(Entities[c], Calls[c])
      BY <2>3, <2>6 DEF Slots
    <3>2. r[home[slot]].deleted
      BY <3>1, ResultGone
    <3> QED
      BY <2>2, <2>3, <2>4, <2>6, <3>2 DEF Live
  <2> QED
    BY <2>5, <2>6
<1> QED
  BY <1>3, <1>4

\* The derived edges that an import leaves tie live nodes.
LEMMA ResultTies ==
  ASSUME NEW s, NEW X, NEW P, NEW home, NEW c, NEW m, Importing(s, X, P, home, c, m),
         NEW reg, NEW ops, ops = ImportOps(s, c, m), ApplyOps(reg, s, ops).ok,
         NEW r, r = ApplyOps(reg, s, ops).objects, EdgesResolve(s),
         NEW d \in DOMAIN r \cap EdgeId, d \in Derived(r)
  PROVE  /\ {"from", "to"} \subseteq DOMAIN r[d].content
         /\ Live(r, r[d].content.from) /\ Live(r, r[d].content.to)
<1>1. PICK next : next = NextHome(s, X, P, home, c, m)
  OBVIOUS
<1>2. Shape(r, Entities[c], Calls[c], next) /\ c \in Commit
  BY <1>1, ResultShape DEF Importing
<1>3. d \in DerivedEdges(r)
  BY KindsAreDisjoint DEF Derived, CodeNodes, LiveNodes
<1>4. PICK slot \in EdgeSlots(Entities[c], Calls[c]) : next[slot] = d
  BY <1>2, <1>3, TieOfEdge
<1>5. slot \in Slots(Entities[c], Calls[c]) /\ slot[1] # "node"
  BY <1>4 DEF EdgeSlots
<1>6. r[d].content.from \in CodeNodes(r) /\ r[d].content.to \in CodeNodes(r)
  BY <1>2, <1>4, TieIsRead
<1>7. {"from", "to"} \subseteq DOMAIN r[d].content
  <2>1. CASE slot \notin Slots(X, P)
    <3>1. Became(r, next[slot], SlotBody(c, next, slot))
      BY <1>1, <1>5, <2>1, ResultFresh
    <3>2. {"from", "to"} \subseteq DOMAIN SlotBody(c, next, slot)
      <4>1. PICK body : body = SlotBody(c, next, slot)
        OBVIOUS
      <4>2. Written(body, next, slot)
        BY <1>2, <1>5, <4>1, WrittenType
      <4> QED
        BY <1>5, <4>1, <4>2 DEF Written
    <3> QED
      BY <1>4, <3>1, <3>2 DEF Became
  <2>2. CASE slot \in Slots(X, P)
    <3>1. \A e \in Stale(s, X, home, c) : slot # <<"node", e>>
      BY <1>5
    <3>2. Same(s, r, home[slot])
      BY <1>5, <2>2, <3>1, ResultKept
    <3>3. home[slot] = d
      BY <1>1, <1>4, <1>5, <2>2, NextIs
    <3>4. d \in DOMAIN s /\ d \in Derived(s)
      BY <2>2, <3>3, StaleSlots
    <3>5. ~s[d].deleted
      BY <3>4 DEF Derived, CodeNodes, LiveNodes, DerivedEdges, LiveEdges
    <3>6. {"from", "to"} \subseteq DOMAIN s[d].content
      BY <3>4, <3>5 DEF EdgesResolve
    <3> QED
      BY <3>2, <3>3, <3>4, <3>6 DEF Same
  <2> QED
    BY <2>1, <2>2
<1> QED
  BY <1>6, <1>7 DEF CodeNodes, LiveNodes, Live

\* The other edges that an import leaves are those there were.
LEMMA ResultOuter ==
  ASSUME NEW s, NEW X, NEW P, NEW home, NEW c, NEW m, Importing(s, X, P, home, c, m),
         NEW reg, NEW ops, ops = ImportOps(s, c, m), ApplyOps(reg, s, ops).ok,
         NEW r, r = ApplyOps(reg, s, ops).objects,
         NEW d \in DOMAIN r \cap EdgeId, ~r[d].deleted, d \notin Derived(r)
  PROVE  d \in Outer(s) /\ r[d] = s[d]
<1>1. PICK next : next = NextHome(s, X, P, home, c, m)
  OBVIOUS
<1>2. Shape(r, Entities[c], Calls[c], next) /\ Shape(s, X, P, home)
  BY <1>1, ResultShape DEF Importing
<1>3. \A slot \in Slots(Entities[c], Calls[c]) : d # next[slot]
  BY <1>2, HomeIs
<1>4. d \notin Derived(s)
  <2> SUFFICES ASSUME d \in Derived(s) PROVE FALSE
    OBVIOUS
  <2>1. PICK slot \in Slots(X, P) : home[slot] = d
    BY <1>2, HomeIs
  <2>2. CASE slot \in Slots(Entities[c], Calls[c])
    <3>1. next[slot] = home[slot]
      BY <1>1, <2>2, NextIs
    <3> QED
      BY <1>3, <2>1, <2>2, <3>1
  <2>3. CASE slot \notin Slots(Entities[c], Calls[c])
    <3>1. r[home[slot]].deleted
      BY <2>3, ResultGone
    <3> QED
      BY <2>1, <3>1
  <2> QED
    BY <2>2, <2>3
<1>5. Same(s, r, d)
  BY <1>1, <1>3, <1>4, ResultApart
<1> QED
  BY <1>4, <1>5 DEF Same, Outer

\* The result resolves unless an edge that is not of the index ties what goes.
LEMMA ImportResolves ==
  ASSUME NEW s, NEW X, NEW P, NEW home, NEW c, NEW m, Importing(s, X, P, home, c, m),
         NEW reg, NEW ops, ops = ImportOps(s, c, m), ApplyOps(reg, s, ops).ok,
         NEW r, r = ApplyOps(reg, s, ops).objects, EdgesResolve(s),
         \A d \in Outer(s) : s[d].content.from \in NodeId /\ s[d].content.to \in NodeId
  PROVE  EdgesResolve(r) <=>
           \A d \in Outer(s) : /\ s[d].content.from \notin GoneNodes(X, home, c)
                               /\ s[d].content.to \notin GoneNodes(X, home, c)
<1>1. ASSUME NEW d \in Outer(s)
      PROVE  /\ d \in DOMAIN r \cap EdgeId /\ ~r[d].deleted /\ r[d] = s[d]
             /\ {"from", "to"} \subseteq DOMAIN s[d].content
             /\ Live(r, s[d].content.from) <=> s[d].content.from \notin GoneNodes(X, home, c)
             /\ Live(r, s[d].content.to) <=> s[d].content.to \notin GoneNodes(X, home, c)
  <2>1. d \in DOMAIN s /\ d \in EdgeId /\ ~s[d].deleted /\ d \notin Derived(s)
    BY DEF Outer
  <2>2. Same(s, r, d)
    BY <2>1, OuterKept
  <2>3. /\ {"from", "to"} \subseteq DOMAIN s[d].content
        /\ Live(s, s[d].content.from) /\ Live(s, s[d].content.to)
    BY <2>1 DEF EdgesResolve
  <2>4. Live(r, s[d].content.from) <=> s[d].content.from \notin GoneNodes(X, home, c)
    BY <2>3, ResultLive
  <2>5. Live(r, s[d].content.to) <=> s[d].content.to \notin GoneNodes(X, home, c)
    BY <2>3, ResultLive
  <2> QED
    BY <2>1, <2>2, <2>3, <2>4, <2>5 DEF Same
<1>2. ASSUME EdgesResolve(r), NEW d \in Outer(s)
      PROVE  /\ s[d].content.from \notin GoneNodes(X, home, c)
             /\ s[d].content.to \notin GoneNodes(X, home, c)
  BY <1>1, <1>2 DEF EdgesResolve
<1>3. ASSUME \A d \in Outer(s) : /\ s[d].content.from \notin GoneNodes(X, home, c)
                                 /\ s[d].content.to \notin GoneNodes(X, home, c),
             NEW d \in DOMAIN r \cap EdgeId, ~r[d].deleted
      PROVE  /\ {"from", "to"} \subseteq DOMAIN r[d].content
             /\ Live(r, r[d].content.from) /\ Live(r, r[d].content.to)
  <2>1. CASE d \in Derived(r)
    BY <2>1, ResultTies
  <2>2. CASE d \notin Derived(r)
    <3>1. d \in Outer(s) /\ r[d] = s[d]
      BY <1>3, <2>2, ResultOuter
    <3> QED
      BY <1>1, <1>3, <3>1
  <2> QED
    BY <2>1, <2>2
<1> QED
  BY <1>2, <1>3 DEF EdgesResolve

\* No rule is about what an import does.
LEMMA ImportRules ==
  ASSUME NEW s, NEW X, NEW P, NEW home, NEW c, NEW m, Importing(s, X, P, home, c, m),
         NEW reg, CodeOntology(reg), NEW ops, ops = ImportOps(s, c, m), ApplyOps(reg, s, ops).ok,
         NEW r, r = ApplyOps(reg, s, ops).objects, NEW rule \in reg.rules
  PROVE  RuleHolds(reg, r, ops, rule)
<1>1. PICK next : next = NextHome(s, X, P, home, c, m)
  OBVIOUS
<1>2. IsSequence(ops) /\ c \in Commit
  BY ImportPlan DEF Importing
<1>3. SUFFICES ASSUME NEW i \in DOMAIN ops, ops[i].id \in NodeId,
                      TypeSatisfies(reg, OpType(ops[i]), rule.on), Live(r, ops[i].id)
               PROVE  FALSE
  BY DEF RuleHolds
<1>4. PICK op : op = ops[i] /\ op \in Range(ops)
  BY <1>2 DEF Range
<1>5. OpType(op) \notin NodeTypes
  BY <1>3, <1>4 DEF CodeOntology, NodeTypes
<1>6. ASSUME NEW slot \in Slots(Entities[c], Calls[c]), op = SlotCreate(c, next, slot)
      PROVE  FALSE
  <2>1. op.id = next[slot] /\ op.body = SlotBody(c, next, slot)
    BY <1>6, CreateIs
  <2>2. slot[1] = "node"
    BY <1>1, <1>3, <1>4, <1>6, <2>1, NextIs, KindsAreDisjoint
  <2>3. TypeOf(op.body) \in NodeTypes
    <3>1. PICK body : body = op.body
      OBVIOUS
    <3>2. body = SlotBody(c, next, slot)
      BY <2>1, <3>1
    <3>3. Written(body, next, slot)
      BY <1>2, <1>6, <3>2, WrittenType
    <3> QED
      BY <2>2, <3>1, <3>3 DEF Written
  <2>4. "body" \in DOMAIN op
    BY <1>6 DEF SlotCreate, CreateOp
  <2> QED
    BY <1>5, <2>3, <2>4 DEF OpType
<1>7. ASSUME NEW e \in Stale(s, X, home, c), op = SlotUpdate(s, c, home, e) PROVE FALSE
  <2>1. op.body = Contents[c][e] /\ e \in Entities[c]
    BY <1>7, UpdateIs DEF Stale
  <2>2. TypeOf(op.body) \in NodeTypes
    BY <1>2, <2>1, ContentStands DEF Stands, NodeTypes
  <2>3. "body" \in DOMAIN op
    BY <1>7 DEF SlotUpdate, UpdateOp
  <2> QED
    BY <1>5, <2>2, <2>3 DEF OpType
<1>8. ASSUME NEW slot \in Slots(X, P) \ Slots(Entities[c], Calls[c]), op.id = home[slot]
      PROVE  FALSE
  <2>1. r[home[slot]].deleted
    BY <1>8, ResultGone
  <2> QED
    BY <1>3, <1>4, <1>8, <2>1 DEF Live
<1>9. \/ /\ op.id \notin DOMAIN s
         /\ \E slot \in Slots(Entities[c], Calls[c]) \ Slots(X, P) :
              op = SlotCreate(c, next, slot) /\ op.id = next[slot]
      \/ \E e \in Stale(s, X, home, c) :
           op = SlotUpdate(s, c, home, e) /\ op.id = home[<<"node", e>>]
      \/ \E slot \in Slots(X, P) \ Slots(Entities[c], Calls[c]) :
           op = SlotDelete(s, home, slot) /\ op.id = home[slot]
  <2>1. op \in Range(ImportOps(s, c, m))
    BY <1>4
  <2> QED
    BY <1>1, <2>1, OpsApart
<1> QED
  BY <1>6, <1>7, <1>8, <1>9

\* An import applies exactly if no edge of somebody else's ties what goes.
LEMMA ImportAccepted ==
  ASSUME NEW s, NEW X, NEW P, NEW home, NEW c, NEW m, Importing(s, X, P, home, c, m),
         NEW reg, CodeOntology(reg), EdgesResolve(s),
         \A d \in Outer(s) : s[d].content.from \in NodeId /\ s[d].content.to \in NodeId
  PROVE  ApplyChangeset(reg, s, ImportOps(s, c, m)).ok <=>
           \A d \in Outer(s) : /\ s[d].content.from \notin Vanished(Indexed(s), c)
                               /\ s[d].content.to \notin Vanished(Indexed(s), c)
<1>1. PICK ops : ops = ImportOps(s, c, m)
  OBVIOUS
<1>2. ApplyOps(reg, s, ops).ok
  BY <1>1, ImportAllowed
<1>3. PICK r : r = ApplyOps(reg, s, ops).objects
  OBVIOUS
<1>4. \A rule \in reg.rules : RuleHolds(reg, r, ops, rule)
  BY <1>1, <1>2, <1>3, ImportRules
<1>5. ApplyChangeset(reg, s, ops).ok <=> EdgesResolve(r)
  BY <1>2, <1>3, <1>4 DEF ApplyChangeset
<1>6. Vanished(Indexed(s), c) = GoneNodes(X, home, c)
  <2>1. DOMAIN Indexed(s) = X /\ \A e \in X : Indexed(s)[e] = home[<<"node", e>>]
    BY NewIs
  <2> QED
    BY <2>1 DEF Vanished, GoneNodes
<1>7. EdgesResolve(r) <=>
        \A d \in Outer(s) : /\ s[d].content.from \notin GoneNodes(X, home, c)
                            /\ s[d].content.to \notin GoneNodes(X, home, c)
  BY <1>1, <1>2, <1>3, ImportResolves
<1> QED
  BY <1>1, <1>5, <1>6, <1>7
=============================================================================
