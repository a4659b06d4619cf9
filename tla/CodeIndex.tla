------------------------------ MODULE CodeIndex ------------------------------
(***************************************************************************)
(* The derived code graph of allod-graph (repo.rs): what a commit holds,   *)
(* what the live nodes and edges of a graph say about it, and the changeset*)
(* that takes the graph from what it says to what the commit holds.        *)
(*                                                                         *)
(* An entity is the repository, a file, or an item (a function or a type)  *)
(* of a file.  It is named by what it is and where, never by a node id:    *)
(* ids are minted when an entity is first seen.  Text is a sequence of     *)
(* lines, and a line is what the scanner sees of it.                       *)
(***************************************************************************)
EXTENDS Fold, SequencesExt


CONSTANTS
  Commit,
  Paths,       \* the paths of all commits, in their order
  OwnPaths,    \* those under .allod/
  Tree,        \* Tree[c]: the blob at each path of commit c
  SourceOf,    \* the lines of each blob that is Rust; no lines for others
  FirstParent, \* the first parent of each commit, or None
  NodeIds,     \* ids that uuid4 may mint, in the order it does
  EdgeIds

\* A line is [deep, item, text, marks, names]: whether it is indented by more
\* than 4, the kind and name it declares if any, its text, its braces and
\* semicolons in order, and the names it has directly before a parenthesis,
\* as the end of a longer name too.
ASSUME TreeAssumption ==
  /\ Paths \in Seq(Range(Paths))
  /\ \A blob \in DOMAIN SourceOf : SourceOf[blob] \in Seq(Range(SourceOf[blob]))
  /\ Tree \in [Commit -> UNION {[P -> DOMAIN SourceOf] : P \in SUBSET Range(Paths)}]
  /\ FirstParent \in [Commit -> Commit \cup {None}]

\* A path has a name, and the scanner looks for four kinds of items.
ASSUME NameAssumption ==
  /\ "" \notin Range(Paths)
  /\ \A blob \in DOMAIN SourceOf : \A i \in DOMAIN SourceOf[blob] :
       LET item == SourceOf[blob][i].item
       IN  item = <<>> \/ item[1] \in {"fn", "struct", "enum", "trait"}

\* An id is minted once: uuid4 repeats none of its own, and none is in use.
ASSUME IdAssumption ==
  /\ NodeIds \in Seq(NodeId) /\ EdgeIds \in Seq(EdgeId)
  /\ Len(NodeIds) = Len(EdgeIds)
  /\ IsInjective(NodeIds) /\ IsInjective(EdgeIds)

-----------------------------------------------------------------------------
\* The scanner.

\* One brace or semicolon, while the end of the item is not known.
ScanMark(st, mark) ==
  CASE st.ended     -> st
    [] mark = "{"   -> [st EXCEPT !.depth = @ + 1, !.opened = TRUE]
    [] mark = "}"   -> [st EXCEPT !.depth = @ - 1]
    [] OTHER        -> [st EXCEPT !.ended = ~st.opened /\ st.depth = 0]

\* item_end: the line that closes the braces the item opens, or the
\* semicolon of an item that opens none; the last line if there is neither.
ItemEnd(lines, start) ==
  LET scan[i \in (start - 1)..Len(lines)] ==
        IF i < start THEN [depth |-> 0, opened |-> FALSE, ended |-> FALSE]
        ELSE LET st == FoldLeft(ScanMark, scan[i - 1], lines[i].marks)
             IN  [st EXCEPT !.ended = @ \/ (st.opened /\ st.depth <= 0)]
      ends == {i \in start..Len(lines) : scan[i].ended}
  IN  IF ends = {} THEN Len(lines)
      ELSE CHOOSE i \in ends : \A j \in ends : i <= j

Entity(what, path, name) == [what |-> what, path |-> path, name |-> name]
Repo == Entity("repo", "", "")
FileAt(path) == Entity("file", path, "")

\* Files(c): ls-tree without .allod/, which must not index itself.
Files(c) == DOMAIN Tree[c] \ OwnPaths
Lines(c, path) == SourceOf[Tree[c][path]]

\* extract_items: the lines of a file that declare an item.
Declarations(lines) == {i \in DOMAIN lines : ~lines[i].deep /\ lines[i].item # <<>>}

ItemsOf(c, path) ==
  {Entity(Lines(c, path)[i].item[1], path, Lines(c, path)[i].item[2]) :
     i \in Declarations(Lines(c, path))}

Items(c) == UNION {ItemsOf(c, path) : path \in Files(c)}

\* Of two items of one kind and name in a file, the last is kept.
DeclaredAt(c, item) ==
  LET lines == Lines(c, item.path)
      all == {i \in Declarations(lines) : lines[i].item = <<item.what, item.name>>}
  IN  CHOOSE i \in all : \A j \in all : j <= i

\* find_calls: in the lines after the declaration, the names of functions of
\* any file, except the function's own.
NamesCalled(c, fn) ==
  LET lines == Lines(c, fn.path)
      start == DeclaredAt(c, fn)
  IN  UNION {lines[i].names : i \in (start + 1)..ItemEnd(lines, start)} \ {fn.name}

\* A name is resolved to the function of that name with the least path.
CalleeOf(c, name) ==
  LET named == {f \in Items(c) : f.what = "fn" /\ f.name = name}
      Rank(f) == CHOOSE i \in DOMAIN Paths : Paths[i] = f.path
  IN  CHOOSE f \in named : \A g \in named : Rank(f) <= Rank(g)

Calls ==
  [c \in Commit |->
     LET functions == {f \in Items(c) : f.what = "fn"}
         names == {f.name : f \in functions}
         Callees(f) == {CalleeOf(c, name) : name \in names \cap NamesCalled(c, f)}
     IN  UNION {{f} \X Callees(f) : f \in functions}]

Entities ==
  [c \in Commit |->
     {Repo} \cup {FileAt(path) : path \in Files(c)} \cup Items(c)]

\* The content of the node that stands for an entity at commit c; derived is
\* its provenance.
Content(c, e) ==
  CASE e.what = "repo" -> [type |-> "code/Repository", derived |-> c]
    [] e.what = "file" -> [type |-> "code/SourceFile", path |-> e.path,
                           blob |-> Tree[c][e.path], derived |-> c]
    [] e.what = "fn" ->
         LET start == DeclaredAt(c, e)
             lines == Lines(c, e.path)
         IN  [type |-> "code/Function", name |-> e.name,
              signature |-> lines[start].text,
              span |-> <<start, ItemEnd(lines, start)>>, derived |-> c]
    [] OTHER ->
         [type |-> "code/Type", name |-> e.name,
          kind |-> IF e.what = "trait" THEN "interface" ELSE e.what,
          derived |-> c]

Contents == [c \in Commit |-> [e \in Entities[c] |-> Content(c, e)]]

-----------------------------------------------------------------------------
\* index_state: what the graph says.

CodeNodes(s) ==
  {n \in LiveNodes(s) : TypeOf(s[n].content) \in
     {"code/Repository", "code/SourceFile", "code/Function", "code/Type"}}

LiveEdges(s, type) ==
  {e \in DOMAIN s \cap EdgeId : ~s[e].deleted /\ TypeOf(s[e].content) = type}

\* The file an item belongs to is the one that declares it; an item that
\* none declares belongs to no file.
PathOfItem(s, n) ==
  LET edges == {e \in LiveEdges(s, "code/declares") : s[e].content.to = n}
  IN  IF edges = {} THEN ""
      ELSE s[s[CHOOSE e \in edges : TRUE].content.from].content.path

\* Mutation: a trait, stored as an interface, is read back as one.
EntityAsStored(s, n) ==
  LET content == s[n].content
  IN  CASE content.type = "code/Repository" -> Repo
        [] content.type = "code/SourceFile" -> FileAt(content.path)
        [] content.type = "code/Function" ->
             Entity("fn", PathOfItem(s, n), content.name)
        [] OTHER -> Entity(content.kind, PathOfItem(s, n), content.name)

EntityOf(s, n) ==
  LET content == s[n].content
  IN  CASE content.type = "code/Repository" -> Repo
        [] content.type = "code/SourceFile" -> FileAt(content.path)
        [] content.type = "code/Function" ->
             Entity("fn", PathOfItem(s, n), content.name)
        [] OTHER ->
             Entity(IF content.kind = "interface" THEN "trait" ELSE content.kind,
                    PathOfItem(s, n), content.name)

\* The node of each entity.  Of two nodes of one entity it is the one whose
\* id sorts last, and ids are random.
Indexed(s) ==
  LET entity == [n \in CodeNodes(s) |-> EntityOf(s, n)]
  IN  [e \in Range(entity) |-> CHOOSE n \in DOMAIN entity : entity[n] = e]

\* The edge that ties a file to the repository, or an item to its file.
TiesOf(s, n) ==
  {e \in LiveEdges(s, "code/in_repo") : s[e].content.from = n} \cup
  {e \in LiveEdges(s, "code/declares") : s[e].content.to = n}

CallPairs(s) ==
  {<<s[e].content.from, s[e].content.to>> : e \in LiveEdges(s, "code/calls")}

CallEdge(s, pair) ==
  CHOOSE e \in LiveEdges(s, "code/calls") :
    pair = <<s[e].content.from, s[e].content.to>>

-----------------------------------------------------------------------------
\* import_commit: the operations of the derived changeset.  Those that carry
\* provenance have a basis, "deterministic"; a deletion carries none.

CreateOp(id, body) ==
  [verb |-> "create", id |-> id, body |-> body, basis |-> "deterministic"]
UpdateOp(s, id, body) ==
  [verb |-> "update", id |-> id, prior |-> s[id].rev, body |-> body,
   basis |-> "deterministic"]
DeleteOp(s, id) == [verb |-> "delete", id |-> id, prior |-> s[id].rev]

\* Mutation: a node is also brought up to date with the commit's hash.
AnythingDiffers(old, new) == old # new

\* Whether a node must be updated: its provenance is not looked at.
ContentDiffers(old, new) ==
  \E field \in DOMAIN new \ {"derived"} :
    field \notin DOMAIN old \/ old[field] # new[field]

\* In what follows idx is Indexed(s), new the entities that get a node, in
\* order, and minted how many ids were minted before.

\* The entities of c that have no node yet, files before items.
NewEntities(idx, c) ==
  LET new == Entities[c] \ DOMAIN idx
      files == {e \in new : e.what = "file"}
  IN  SetToSeq(new \cap {Repo}) \o SetToSeq(files)
        \o SetToSeq(new \ ({Repo} \cup files))

\* The node of an entity, its own or the one it gets.
NodeFor(idx, new, minted, e) ==
  IF e \in DOMAIN idx THEN idx[e]
  ELSE NodeIds[minted + CHOOSE i \in DOMAIN new : new[i] = e]

\* Mutation: the edges of calls take ids that are handed out again.
MintedByNodes(s, c) == Cardinality(Entities[c] \ DOMAIN Indexed(s))

\* How many ids of either kind an import of c mints at most.
MintedBy(s, c) ==
  Cardinality(Entities[c] \ DOMAIN Indexed(s)) + Cardinality(Calls[c])

CreateOps(idx, c, new, minted, i) ==
  LET e == new[i]
      node == NodeFor(idx, new, minted, e)
      Tie(type, from, to) ==
        CreateOp(EdgeIds[minted + i],
                 [type |-> type, from |-> from, to |-> to, derived |-> c])
  IN  <<CreateOp(node, Contents[c][e])>> \o
      CASE e.what = "repo" -> <<>>
        [] e.what = "file" ->
             <<Tie("code/in_repo", node, NodeFor(idx, new, minted, Repo))>>
        [] OTHER ->
             <<Tie("code/declares", NodeFor(idx, new, minted, FileAt(e.path)), node)>>

UpdateOps(s, idx, c) ==
  LET stale == {e \in (Entities[c] \cap DOMAIN idx) \ {Repo} :
                  ContentDiffers(s[idx[e]].content, Contents[c][e])}
  IN  SetToSeq({UpdateOp(s, idx[e], Contents[c][e]) : e \in stale})

\* Mutation: call edges are only ever added.
CallsAdded(s, idx, c, new, minted) ==
  LET Node(e) == NodeFor(idx, new, minted, e)
      desired == {<<Node(call[1]), Node(call[2])>> : call \in Calls[c]}
      added == SetToSeq(desired \ CallPairs(s))
  IN  [i \in DOMAIN added |->
         CreateOp(EdgeIds[minted + Len(new) + i],
                  [type |-> "code/calls", from |-> added[i][1],
                   to |-> added[i][2], derived |-> c])]

CallOps(s, idx, c, new, minted) ==
  LET Node(e) == NodeFor(idx, new, minted, e)
      desired == {<<Node(call[1]), Node(call[2])>> : call \in Calls[c]}
      added == SetToSeq(desired \ CallPairs(s))
      gone == {CallEdge(s, pair) : pair \in CallPairs(s) \ desired}
  IN  [i \in DOMAIN added |->
         CreateOp(EdgeIds[minted + Len(new) + i],
                  [type |-> "code/calls", from |-> added[i][1],
                   to |-> added[i][2], derived |-> c])]
        \o SetToSeq({DeleteOp(s, e) : e \in gone})

\* Mutation: a vanished item's node is deleted, its declares edge is not.
NodeOnly(s, node) == <<DeleteOp(s, node)>>

\* What vanished goes with the edge that ties it.
RemovalOps(s, node) ==
  LET ties == TiesOf(s, node)
  IN  (IF ties = {} THEN <<>> ELSE <<DeleteOp(s, CHOOSE t \in ties : TRUE)>>)
        \o <<DeleteOp(s, node)>>

Vanished(idx, c) == {idx[e] : e \in DOMAIN idx \ Entities[c]}

\* The order in which operations on different objects come does not matter,
\* but that nodes are created before the edges between them.
OpsFor(s, c, minted, idx, new, gone) ==
  FlattenSeq([i \in DOMAIN new |-> CreateOps(idx, c, new, minted, i)])
    \o UpdateOps(s, idx, c)
    \o CallOps(s, idx, c, new, minted)
    \o FlattenSeq([i \in DOMAIN gone |-> RemovalOps(s, gone[i])])

OpsFrom(s, c, minted, idx) ==
  OpsFor(s, c, minted, idx, NewEntities(idx, c), SetToSeq(Vanished(idx, c)))

ImportOps(s, c, minted) == OpsFrom(s, c, minted, Indexed(s))

-----------------------------------------------------------------------------
\* The code ontology, as a registry that has it: the types of the nodes, what
\* each edge may tie, and no rule that selects one of those nodes.
CodeOntology(reg) ==
  LET types == {"code/Repository", "code/SourceFile", "code/Function", "code/Type"}
      Ties(edge, from, to) ==
        \E def \in reg.edges : def.name = edge /\ from \in def.domain /\ to \in def.range
  IN  /\ types \subseteq reg.types
      /\ Ties("code/in_repo", "code/SourceFile", "code/Repository")
      /\ Ties("code/declares", "code/SourceFile", "code/Function")
      /\ Ties("code/declares", "code/SourceFile", "code/Type")
      /\ Ties("code/calls", "code/Function", "code/Function")
      /\ \A rule \in reg.rules, type \in types : ~TypeSatisfies(reg, type, rule.on)

-----------------------------------------------------------------------------
\* Whether a node shows what an entity is at commit c, its provenance apart.
Shows(content, entity) ==
  \A field \in DOMAIN entity \ {"derived"} :
    field \in DOMAIN content /\ content[field] = entity[field]

\* The ties and the calls of a commit, between entities.
TiesAt(c) ==
  {<<"code/in_repo", FileAt(path), Repo>> : path \in Files(c)} \cup
  {<<"code/declares", FileAt(e.path), e>> : e \in Items(c)} \cup
  {<<"code/calls", call[1], call[2]>> : call \in Calls[c]}

EdgesMirror(s, entity, edges, ties) ==
  /\ {<<s[e].content.type, entity[s[e].content.from],
        entity[s[e].content.to]>> : e \in edges} = ties
  /\ Cardinality(edges) = Cardinality(ties)

NodesMirror(s, entity, contents) ==
  /\ Range(entity) = DOMAIN contents
  /\ Cardinality(DOMAIN entity) = Cardinality(DOMAIN contents)
  /\ \A n \in DOMAIN entity :
       entity[n] = Repo \/ Shows(s[n].content, contents[entity[n]])

\* The graph mirrors commit c: one node per entity and none besides, with the
\* entity's content; one edge for each tie and each call, and none besides.
Mirrors(s, c) ==
  \E entity \in {[n \in CodeNodes(s) |-> EntityOf(s, n)]} :
    /\ NodesMirror(s, entity, Contents[c])
    /\ EdgesMirror(s, entity,
                   UNION {LiveEdges(s, type) : type \in
                            {"code/in_repo", "code/declares", "code/calls"}},
                   TiesAt(c))
=============================================================================
