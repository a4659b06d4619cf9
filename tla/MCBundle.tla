------------------------------ MODULE MCBundle ------------------------------
(***************************************************************************)
(* Small instances of MarkdownBundle: packages that define the same names  *)
(* differently, installed in any order, and a graph of two routines that   *)
(* is exported, edited on both sides and imported again.                   *)
(***************************************************************************)
EXTENDS MarkdownBundle

Nothing == [name \in {} |-> None]

Defs(types, structs) ==
  "meta/EntityType" :> types @@ "meta/EdgeType" :> Nothing @@ "meta/Struct" :> structs

\* A type that extends another one and marks long as its long text.
Type(extends, attrs, long) ==
  [extends |-> extends, attrs |-> [a \in attrs |-> a = long]]

Core ==
  [ontology |-> "core", imports |-> {}, rules |-> <<>>,
   defs |-> Defs([Item |-> Type({}, {"cadence"}, None)], Nothing)]

Rule(name) ==
  [name |-> name, on |-> "memory/Routine", operations |-> {"delete"}, edge |-> "about",
   direction |-> "out", within |-> "changeset", min |-> 1]

\* The memory package, and one in which another text is the long one.
Memory ==
  [ontology |-> "memory", imports |-> {"core"}, rules |-> <<Rule("cited")>>,
   defs |-> Defs([Routine |-> Type({"core/Item"}, {"description"}, "description")],
                 Nothing)]

Memory2 ==
  [ontology |-> "memory", imports |-> {"core", "time"}, rules |-> <<Rule("dated")>>,
   defs |-> Defs([Routine |-> Type({"core/Item"}, {"description", "cadence"}, "cadence")],
                 [Span |-> [fields |-> {"from", "to"}]])]

\* The memory package without a long text.
Memory3 == [Memory EXCEPT !.defs = Defs([Routine |-> Type({}, {"cadence"}, None)], Nothing)]

Policies == <<[policy |-> "first"], [policy |-> "second"], [policy |-> "third"]>>

TermDoc(name, parents) == [name |-> name, parents |-> parents, status |-> "active"]
Topics == [taxonomy |-> "topics",
           terms |-> <<TermDoc("work", {}), TermDoc("home", {})>>]
\* A package of one rule, which needs the types of another.
Habits == [ontology |-> "habits", imports |-> {"memory"}, rules |-> <<Rule("kept")>>,
           defs |-> Defs(Nothing, Nothing)]
\* One that defines nothing.
Later == [ontology |-> "later", imports |-> {"habits"}, rules |-> <<>>,
          defs |-> Defs(Nothing, Nothing)]
Topics2 == [taxonomy |-> "topics", terms |-> <<TermDoc("home", {"work"})>>]

MCPackages == {[docs |-> <<Memory, Topics>>, policy |-> Policies[2]],
             [docs |-> <<Memory2>>, policy |-> Policies[3]],
             [docs |-> <<Habits, Topics2, Later>>, policy |-> None]}

-----------------------------------------------------------------------------
Ids == {<<"b1", "b3", "b2", "b4", "b5">>, <<"a3", "a1", "a2", "a4", "a5">>,
        <<"c1", "c2", "c3", "c4", "c5">>}

MCOrder ==
  <<"k1", "a1", "a2", "a3", "a4", "a5", "b1", "b2", "b3", "b4", "b5",
    "c1", "c2", "c3", "c4", "c5", "g1", "g2", "g3", "g4", "h1", "h2", "h3",
    "p", "r1", "r2">>
MCNodeId == Range(MCOrder) \ {"k1"}
MCAttrOrder == <<"cadence", "description">>
MCTermOrder == <<"_unclassified", "home", "work">>

Genesis == "p" :> CompilePolicy(Policies[1])[1] @@ "g1" :> CompileOntology(Core)[1]

Installing ==
  [start |-> Genesis, docs |-> {Core}, policy |-> "p", packages |-> MCPackages,
   ids |-> Ids, nodes |-> {}, updates |-> {}, deletes |-> {"a1", "b2", "p"},
   redacts |-> {"b1"}, marks |-> {}, texts |-> {}, bundle |-> FALSE, steps |-> 5]

-----------------------------------------------------------------------------
Routine(attrs) == [type |-> "memory/Routine", attrs |-> attrs]
Text(text) == "description" :> text
Both(text) == Text(text) @@ "cadence" :> <<"weekly">>

Memory1 == [Memory EXCEPT !.rules = <<>>]

AtWork ==
  Genesis @@ "g2" :> CompileOntology(Memory1)[1]
          @@ "g3" :> CompileTaxonomy(Topics)[1] @@ "g4" :> CompileTaxonomy(Topics)[2]
          @@ "r1" :> Routine(Both(<<"run">>))

\* Both sides edit, a routine is filed and redacted.
Editing ==
  [Installing EXCEPT
     !.start = AtWork, !.docs = {Core, Memory1}, !.packages = {}, !.ids = {},
     !.nodes = {<<"r2", Routine(Text(<<"rest">>))>>},
     !.updates = {<<"r1", Both(<<"walk">>)>>},
     !.deletes = {"r2"}, !.redacts = {"r1"}, !.marks = {<<"k1", "r1", "work">>},
     !.texts = {<<"rest">>, <<"run", "walk">>}, !.bundle = TRUE, !.steps = 7]

\* Texts with blanks, texts that are missing, and a schema that moves on: of two
\* nodes for one type, the later id counts.
Blanking ==
  [Editing EXCEPT
     !.packages = {[docs |-> <<Memory2>>, policy |-> None],
                   [docs |-> <<Memory3>>, policy |-> None]},
     !.ids = {<<"a1", "a2", "a3">>, <<"h1", "h2", "h3">>},
     !.nodes = {<<"r2", Routine("cadence" :> <<"daily", "nl">>)>>},
     !.updates = {<<"r1", Both(<<"sp", "run">>)>>, <<"r1", Both(<<"run", "nl">>)>>,
                  <<"r1", Both(<<"nl", "sp">>)>>},
     !.deletes = {}, !.redacts = {}, !.marks = {}, !.texts = {<<"sp", "run">>},
     !.steps = 6]

\* A routine is done one way, then the other, then again; files of both lie
\* under different terms.
Chaining ==
  [Editing EXCEPT
     !.nodes = {}, !.deletes = {}, !.redacts = {},
     !.updates = {<<"r1", Both(<<"run">>)>>, <<"r1", Both(<<"walk">>)>>},
     !.texts = {<<"walk">>, <<"rest">>}, !.steps = 8]

BundleScenarios == {Installing, Editing, Blanking, Chaining}
=============================================================================
