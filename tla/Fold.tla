-------------------------------- MODULE Fold --------------------------------
(***************************************************************************)
(* The fold of allod-core: the graph state, the registry derived from it,  *)
(* what one changeset does to both, and one step of Graph::fold_to.        *)
(*                                                                         *)
(* A revision hash is modelled by the content it hashes, so two revisions  *)
(* of an object are equal exactly when their contents are.  A content is a *)
(* record whose fields are the ones the definitions below read; attribute  *)
(* values that no definition reads are one opaque field.                   *)
(***************************************************************************)
EXTENDS Naturals, Sequences, FiniteSets

CONSTANTS
  NodeId,            \* logical ids of nodes
  EdgeId,            \* logical ids of edges
  ClassificationId,  \* logical ids of classifications
  None               \* the absent value

\* A key is (kind, logical id); here the id alone determines the kind.
ASSUME KindsAreDisjoint ==
  /\ NodeId \cap EdgeId = {}
  /\ NodeId \cap ClassificationId = {}
  /\ EdgeId \cap ClassificationId = {}

Id == NodeId \cup EdgeId \cup ClassificationId

-----------------------------------------------------------------------------
\* State: a function from the keys ever created to objects.

MetaTypes == {"meta/EntityType", "meta/EdgeType", "meta/Struct",
              "meta/TaxonomyTerm", "meta/ValidationRule", "meta/Policy"}

PrincipalTypes == {"core/User", "core/Agent", "core/Service"}

EmptyState == [id \in {} |-> None]

\* The envelope left by a redaction: no type, no references.
RedactedContent == [redacted |-> TRUE]

TypeOf(content) == IF "type" \in DOMAIN content THEN content.type ELSE "none"

Live(s, id) == id \in DOMAIN s /\ ~s[id].deleted

LiveNodes(s) == {id \in DOMAIN s \cap NodeId : ~s[id].deleted}

LiveContents(s, type) ==
  {s[id].content : id \in {n \in LiveNodes(s) : TypeOf(s[n].content) = type}}

\* What the fold keeps of an object.
Obj(content, rev, deleted, redacted) ==
  [content |-> content, rev |-> rev, deleted |-> deleted, redacted |-> redacted]

Put(s, id, obj) ==
  [i \in DOMAIN s \cup {id} |-> IF i = id THEN obj ELSE s[i]]

\* Nodes that a principal name may denote; find_principal takes the first.
PrincipalNodes(s, name) ==
  {id \in LiveNodes(s) : /\ TypeOf(s[id].content) \in PrincipalTypes
                         /\ s[id].content.name = name}

FindPrincipal(s, name) == s[CHOOSE id \in PrincipalNodes(s, name) : TRUE]

AuthorKind(s, name) ==
  CASE FindPrincipal(s, name).content.type = "core/User"  -> "user"
    [] FindPrincipal(s, name).content.type = "core/Agent" -> "agent"
    [] OTHER -> "service"

\* Terms of the live classifications of subject.
ClassificationsOf(s, subject) ==
  {s[c].content.term : c \in
     {k \in DOMAIN s \cap ClassificationId :
        /\ ~s[k].deleted
        /\ "subject" \in DOMAIN s[k].content
        /\ s[k].content.subject = subject}}

-----------------------------------------------------------------------------
\* The registry: what the live meta nodes of a state define.

RegistryOf(s) ==
  [types |-> MetaTypes \cup
             UNION {c.defines : c \in LiveContents(s, "meta/EntityType")},
   extends |-> UNION {c.defines \X c.extends :
                        c \in LiveContents(s, "meta/EntityType")},
   edges |-> LiveContents(s, "meta/EdgeType"),
   terms |-> LiveContents(s, "meta/TaxonomyTerm"),
   rules |-> LiveContents(s, "meta/ValidationRule")]

\* x and whatever it reaches along links, a set of pairs: the least set that
\* holds x and the target of each link from one of its members.
Ancestors(links, x) ==
  LET reachable == {x} \cup {l[2] : l \in links}
      Closed(S) == \A l \in links : l[1] \in S => l[2] \in S
  IN  {y \in reachable :
         \A S \in SUBSET reachable : (x \in S /\ Closed(S)) => y \in S}

\* actual is allowed or a transitive subtype of it.
TypeSatisfies(reg, actual, allowed) ==
  /\ {actual, allowed} \subseteq reg.types
  /\ allowed \in Ancestors(reg.extends, actual)

TermExists(reg, term) == \E c \in reg.terms : c.term = term

\* The ancestors of a term, across the taxonomies.
TermClosure(reg, term) ==
  Ancestors(UNION {{c.term} \X c.parents : c \in reg.terms}, term)

-----------------------------------------------------------------------------
\* One operation of a changeset, applied to the working copy of the state.

\* validate_payload: a type that resolves, endpoints that are live nodes of
\* allowed types, a live subject and a defined term.
ValidPayload(reg, s, id, body) ==
  \/ /\ id \in NodeId
     /\ TypeOf(body) \in reg.types
  \/ /\ id \in EdgeId
     /\ \E def \in reg.edges :
          /\ def.name = TypeOf(body)
          /\ body.from \in LiveNodes(s)
          /\ body.to \in LiveNodes(s)
          /\ \E t \in def.domain :
               TypeSatisfies(reg, TypeOf(s[body.from].content), t)
          /\ \E t \in def.range :
               TypeSatisfies(reg, TypeOf(s[body.to].content), t)
  \/ /\ id \in ClassificationId
     /\ Live(s, body.subject)
     /\ TermExists(reg, body.term)

\* Optimistic concurrency: the operation names the revision it replaces.
PriorMatches(s, op) ==
  /\ "prior" \in DOMAIN op
  /\ Live(s, op.id)
  /\ s[op.id].rev = op.prior

\* Mutation: what was deleted can be created again.
OpAllowedAgain(reg, s, op) ==
  \/ op.verb = "create" /\ ~Live(s, op.id)
                        /\ ValidPayload(reg, s, op.id, op.body)
  \/ op.verb = "update" /\ PriorMatches(s, op)
                        /\ ValidPayload(reg, s, op.id, op.body)
  \/ op.verb = "delete" /\ PriorMatches(s, op)
  \/ op.verb = "redact-document" /\ op.id \in DOMAIN s
  \/ op.verb = "redact-operation" /\ "target" \in DOMAIN op

OpAllowed(reg, s, op) ==
  \/ op.verb = "create" /\ op.id \notin DOMAIN s
                        /\ ValidPayload(reg, s, op.id, op.body)
  \/ op.verb = "update" /\ PriorMatches(s, op)
                        /\ ValidPayload(reg, s, op.id, op.body)
  \/ op.verb = "delete" /\ PriorMatches(s, op)
  \/ op.verb = "redact-document" /\ op.id \in DOMAIN s
  \/ op.verb = "redact-operation" /\ "target" \in DOMAIN op

OpEffect(s, op) ==
  LET o == s[op.id]
  IN  CASE op.verb \in {"create", "update"} ->
             Put(s, op.id, Obj(op.body, op.body, FALSE, FALSE))
        [] op.verb = "delete" ->
             Put(s, op.id, Obj(o.content, o.rev, TRUE, o.redacted))
        [] op.verb = "redact-document" ->
             Put(s, op.id, Obj(RedactedContent, o.rev, o.deleted, TRUE))
        [] OTHER -> s

\* The operations in order; the first that is refused stops the loop.
ApplyOps(reg, s, ops) ==
  LET run[i \in 0..Len(ops)] ==
        IF i = 0 THEN [ok |-> TRUE, objects |-> s]
        ELSE LET before == run[i-1]
             IN  IF before.ok /\ OpAllowed(reg, before.objects, ops[i])
                 THEN [ok |-> TRUE, objects |-> OpEffect(before.objects, ops[i])]
                 ELSE [ok |-> FALSE, objects |-> s]
  IN  run[Len(ops)]

-----------------------------------------------------------------------------
\* What must hold of the result of a whole changeset.

\* Dangling references: both ends of every live edge are live.
EdgesResolve(s) ==
  \A e \in DOMAIN s \cap EdgeId :
    ~s[e].deleted => /\ {"from", "to"} \subseteq DOMAIN s[e].content
                     /\ Live(s, s[e].content.from)
                     /\ Live(s, s[e].content.to)

OpType(op) == IF "body" \in DOMAIN op THEN TypeOf(op.body) ELSE "none"

\* The edges a rule's condition counts for node n: those of the state, or
\* only those the changeset creates.
RuleEdges(s, ops, rule, n) ==
  LET touching(body) ==
        /\ TypeOf(body) = rule.edge
        /\ n = IF rule.direction = "out" THEN body.from ELSE body.to
  IN  IF rule.within = "changeset"
      THEN {i \in DOMAIN ops : /\ ops[i].verb = "create"
                               /\ ops[i].id \in EdgeId
                               /\ touching(ops[i].body)}
      ELSE {e \in DOMAIN s \cap EdgeId : Live(s, e) /\ touching(s[e].content)}

\* A validation rule, for every node operation that selects it.
RuleHolds(reg, s, ops, rule) ==
  \A i \in DOMAIN ops :
    (/\ ops[i].id \in NodeId
     /\ ops[i].verb \in rule.operations
     /\ TypeSatisfies(reg, OpType(ops[i]), rule.on)
     /\ Live(s, ops[i].id))
    => Cardinality(RuleEdges(s, ops, rule, ops[i].id)) >= rule.min

\* State::apply_changeset: all of the changeset or none of it.
ApplyChangeset(reg, s, ops) ==
  LET w == ApplyOps(reg, s, ops)
  IN  IF /\ w.ok
         /\ EdgesResolve(w.objects)
         /\ \A rule \in reg.rules : RuleHolds(reg, w.objects, ops, rule)
      THEN w
      ELSE [ok |-> FALSE, objects |-> s]

-----------------------------------------------------------------------------
\* Graph::fold_to, one changeset at a time.  A fold is the state reached,
\* the registry cached for the next changeset that touches no schema, and
\* whether every changeset so far was accepted.

TouchesMeta(s, ops) ==
  \E i \in DOMAIN ops :
    /\ ops[i].id \in NodeId
    /\ \/ ops[i].verb \in {"create", "update"} /\ OpType(ops[i]) \in MetaTypes
       \/ /\ ops[i].verb = "delete"
          /\ Live(s, ops[i].id)
          /\ TypeOf(s[ops[i].id].content) \in MetaTypes

\* The registry for genesis: its own schema operations, applied first.
SpeculativeRegistry(ops) ==
  LET defined == {i \in DOMAIN ops : /\ ops[i].id \in NodeId
                                     /\ ops[i].verb \in {"create", "update"}
                                     /\ OpType(ops[i]) \in MetaTypes}
      Last(id) == CHOOSE i \in defined :
                    ops[i].id = id /\ \A j \in defined : ops[j].id = id => j <= i
  IN  RegistryOf([id \in {ops[i].id : i \in defined} |->
                    Obj(ops[Last(id)].body, ops[Last(id)].body, FALSE, FALSE)])

EmptyFold == [ok |-> TRUE, objects |-> EmptyState, cache |-> None]

\* The registry a changeset is validated against.
EffectiveRegistry(f, ops) ==
  IF TouchesMeta(f.objects, ops) \/ f.cache = None
  THEN RegistryOf(f.objects)
  ELSE f.cache

\* Mutation: the cache is not dropped by a changeset that alters the schema.
FoldStepKeeps(f, ops, reg) ==
  LET applied == ApplyChangeset(reg, f.objects, ops)
  IN  [ok |-> f.ok /\ applied.ok, objects |-> applied.objects, cache |-> reg]

\* One iteration of the loop; a rejected changeset fails the whole fold.
FoldStep(f, ops, reg) ==
  LET applied == ApplyChangeset(reg, f.objects, ops)
  IN  [ok |-> f.ok /\ applied.ok,
       objects |-> applied.objects,
       cache |-> IF TouchesMeta(f.objects, ops) THEN None ELSE reg]

FoldGenesis(ops) ==
  FoldStep(EmptyFold, ops,
           IF TouchesMeta(EmptyState, ops) THEN SpeculativeRegistry(ops)
           ELSE RegistryOf(EmptyState))

FoldNext(f, ops) == FoldStep(f, ops, EffectiveRegistry(f, ops))
=============================================================================
