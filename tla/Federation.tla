----------------------------- MODULE Federation -----------------------------
(***************************************************************************)
(* Federation (fed.rs): graphs that know one another as peers, grant one   *)
(* another regions of themselves, hand over bundles of what a grant covers,*)
(* and import from a bundle what their own policy admits.                  *)
(*                                                                         *)
(* A bundle is a file, carried over any channel: once made it may arrive   *)
(* late, twice, out of order or never, so bundles are only ever added.     *)
(* A call on one graph is one atomic action.  What a graph holds is        *)
(* decided while it is still on the tip (Governance has the rest).         *)
(***************************************************************************)
EXTENDS Policy, MerkleTree

CONSTANTS
  Graph,       \* graph ids
  PolicyNode,  \* PolicyNode[g]: the node that holds the policy of g
  Owner,       \* Owner[g]: the root of g, who approves what g holds
  KeyOf,       \* KeyOf[g]: the keys its principals sign with
  Order,       \* all ids, in the order of state entries: kind, then id
  NodeIds,     \* ids that uuid4 may mint, in the order it does
  Scenarios    \* where the graphs start and what may happen, see Init and Next

\* State entries are in the order of their keys.
ASSUME OrderAssumption ==
  /\ Order \in Seq(Id)
  /\ \A i, j \in DOMAIN Order : Order[i] = Order[j] => i = j
  /\ \A id \in Id : \E i \in DOMAIN Order : Order[i] = id

\* Ids that are handed out are new, those given to classifications too; the
\* owner of a graph has a key; what is there from genesis, and what an owner
\* writes, was not imported and is not redacted.
\* Amending the policy is left to Governance.
ASSUME FederationAssumption ==
  LET fresh == {NodeIds[i] : i \in DOMAIN NodeIds}
  IN  /\ NodeIds \in Seq(NodeId)
      /\ \A i, j \in DOMAIN NodeIds : NodeIds[i] = NodeIds[j] => i = j
      /\ \A g \in Graph : Owner[g] \in DOMAIN KeyOf[g]
      /\ \A sc \in Scenarios, g \in Graph :
           LET genesis == sc.start[g]
           IN  /\ DOMAIN genesis \subseteq Id \ fresh
               /\ \A id \in DOMAIN genesis : /\ "derived" \notin DOMAIN genesis[id]
                                             /\ genesis[id] # RedactedContent
               /\ PolicyNode[g] \in DOMAIN genesis \ sc.subjects
               /\ \A mark \in sc.marks : mark[2] \notin DOMAIN genesis \cup fresh
               /\ \A w \in sc.writes : /\ "derived" \notin DOMAIN w[2]
                                       /\ w[2] # RedactedContent

VARIABLES
  scenario,   \* fixed at the start
  objects,    \* objects[g]: the state of g at its head
  held,       \* held[g]: proposals of g that wait: [author, ops, base]
  minted,     \* how many of NodeIds have been used
  bundles,    \* every bundle that was ever made
  shareable,  \* <<graph, audience, id, rev>> that a grant once covered
  approved,   \* approved[g]: imports that the owner of g approved
  steps       \* how many changesets and bundles were made

vars == <<scenario, objects, held, minted, bundles, shareable, approved, steps>>

Registry(g) == RegistryOf(objects[g])
ThePolicy(g) == objects[g][PolicyNode[g]].content.definition

-----------------------------------------------------------------------------
\* admit_or_hold, and the approval of what is held.

Admissible(g, author, ops, decisions) ==
  Satisfied(objects[g], ThePolicy(g), {Owner[g]}, author, "proposal",
            Evaluate(Registry(g), ThePolicy(g), objects[g], ops,
                     AuthorKind(objects[g], author)),
            [decisions |-> decisions, envelopes |-> {}], {})

Approval(g) ==
  [subject |-> "proposal", verdict |-> "approve", context |-> ThePolicy(g),
   deciders |-> {[principal |-> Owner[g], key |-> KeyOf[g][Owner[g]]]}]

\* What a bundle can be asked for by: a node with a region in its scope.  Its
\* type is not looked at, and it need not name an audience.
GrantsEver(s) == {n \in DOMAIN s \cap NodeId : "region" \in DOMAIN s[n].content}
Grants(s) == GrantsEver(s) \cap LiveNodes(s)

Audience(content) == IF "audience" \in DOMAIN content THEN content.audience ELSE None

\* Nodes that a region covers: a live classification puts them at or below it.
InRegion(s, reg, region) ==
  {n \in LiveNodes(s) :
     \E term \in ClassificationsOf(s, n) : region \in TermClosure(reg, term)}

\* What the grants of a graph cover in one of its states.
Covered(g, s) ==
  UNION {{<<g, Audience(s[k].content), n, s[n].rev>> :
            n \in InRegion(s, RegistryOf(s), s[k].content.region)} : k \in Grants(s)}

\* The state of g moves on.
Advance(g, s) ==
  /\ objects' = [objects EXCEPT ![g] = s]
  /\ shareable' = shareable \cup Covered(g, s)

\* A changeset that is admissible applies, or it is refused.
Apply(g, ops) ==
  \E result \in {ApplyChangeset(Registry(g), objects[g], ops)} :
    /\ result.ok
    /\ Advance(g, result.objects)

CanStep == steps < scenario.steps /\ steps' = steps + 1

\* What is held is neither validated nor applied before it is approved.
\* (Bound: two proposals in a graph; they stay until they are approved.)
Commit(g, author, ops) ==
  /\ CanStep
  /\ \/ /\ Admissible(g, author, ops, {})
        /\ Apply(g, ops)
        /\ UNCHANGED held
     \/ /\ ~Admissible(g, author, ops, {})
        /\ Cardinality(held[g]) < 2
        /\ held' = [held EXCEPT ![g] =
                      @ \cup {[author |-> author, ops |-> ops, base |-> objects[g]]}]
        /\ UNCHANGED <<objects, shareable>>
  /\ UNCHANGED <<scenario, bundles, approved>>

IdsIn(ops) == {ops[i].id : i \in DOMAIN ops}

Approve(g, p) ==
  /\ p.base = objects[g]
  /\ Admissible(g, p.author, p.ops, {Approval(g)})
  /\ Apply(g, p.ops)
  /\ held' = [held EXCEPT ![g] = @ \ {p}]
  /\ approved' = [approved EXCEPT ![g] = @ \cup IdsIn(p.ops)]
  /\ UNCHANGED <<scenario, minted, bundles, steps>>

-----------------------------------------------------------------------------
\* Peers and grants.

\* Mutation: an id is handed out again.
CreateNodeAgain(g, content) ==
  /\ minted < Len(NodeIds)
  /\ Commit(g, Owner[g], <<[verb |-> "create", id |-> NodeIds[minted + 1],
                            body |-> content]>>)
  /\ UNCHANGED minted

CreateNode(g, content) ==
  /\ minted < Len(NodeIds)
  /\ minted' = minted + 1
  /\ Commit(g, Owner[g], <<[verb |-> "create", id |-> NodeIds[minted + 1],
                            body |-> content]>>)

PeerAdd(g, peer, key) ==
  CreateNode(g, [type |-> "core/Peer", graph |-> peer, root |-> key])

Grant(g, audience, region) ==
  CreateNode(g, [type |-> "core/Grant", audience |-> audience, region |-> region])

Delete(g, id) ==
  /\ Live(objects[g], id)
  /\ Commit(g, Owner[g], <<[verb |-> "delete", id |-> id,
                            prior |-> objects[g][id].rev]>>)
  /\ UNCHANGED minted

\* Any live node goes, be it a grant or not.
Revoke(g, id) == id \in NodeId /\ Delete(g, id)

-----------------------------------------------------------------------------
\* make_bundle.

\* With the nodes go the live schema, classifications of the nodes, and edges
\* between them.
DisclosedIds(s, nodes) ==
  nodes
  \cup {n \in LiveNodes(s) : TypeOf(s[n].content) \in MetaTypes}
  \cup {k \in DOMAIN s \cap ClassificationId :
          /\ ~s[k].deleted
          /\ "subject" \in DOMAIN s[k].content
          /\ s[k].content.subject \in nodes}
  \cup {e \in DOMAIN s \cap EdgeId :
          /\ ~s[e].deleted
          /\ {"from", "to"} \subseteq DOMAIN s[e].content
          /\ {s[e].content.from, s[e].content.to} \subseteq nodes}

KeepIn(ids, kept, id) == IF id \in ids THEN Append(kept, id) ELSE kept

\* The ids that are in a set, in key order.
InOrder(ids) ==
  LET first[i \in 0..Len(Order)] ==
        IF i = 0 THEN <<>> ELSE KeepIn(ids, first[i-1], Order[i])
  IN  first[Len(Order)]

\* State::entries: every object, tombstones included, in key order.
Entries(s) ==
  LET ids == InOrder(DOMAIN s)
  IN  [i \in DOMAIN ids |-> [id |-> ids[i], rev |-> s[ids[i]].rev,
                             deleted |-> s[ids[i]].deleted]]

Leaves(entries) == [i \in DOMAIN entries |-> Leaf(entries[i])]

\* The disclosed objects with their content and a path to the state hash.
BundleObjects(s, entries, ids) ==
  {[entry |-> entries[i], content |-> s[entries[i].id].content,
    proof |-> MerklePath(Leaves(entries), i)] :
     i \in {j \in DOMAIN entries : entries[j].id \in ids}}

\* The grant must be live now; the checkpoint is signed by whoever asks.
BundleOf(g, grant, by) ==
  LET s == objects[g]
  IN  [graph |-> g,
       grant |-> grant,
       audience |-> Audience(s[grant].content),
       key |-> KeyOf[g][by],
       root |-> MerkleRoot(Leaves(Entries(s))),
       objects |-> BundleObjects(s, Entries(s),
                     DisclosedIds(s, InRegion(s, Registry(g), s[grant].content.region)))]

\* Mutation: a grant that was revoked is still served.
ServesEver(s, grant) == grant \in GrantsEver(s)
Serves(s, grant) == grant \in Grants(s)

MakeBundle(g, grant, by) ==
  /\ Serves(objects[g], grant)
  /\ CanStep
  /\ bundles' = bundles \cup {BundleOf(g, grant, by)}
  /\ UNCHANGED <<scenario, objects, held, minted, shareable, approved>>

-----------------------------------------------------------------------------
\* verify_bundle and import.

\* The live records of a peer, in the order of their ids; the first counts.
PeerRecords(s, peer) ==
  InOrder({id \in LiveNodes(s) : /\ TypeOf(s[id].content) = "core/Peer"
                                 /\ s[id].content.graph = peer})

\* Mutation: any record of the peer will do, a later one as well as the first.
AnyPeerKey(s, peer, key) ==
  \E i \in DOMAIN PeerRecords(s, peer) : s[PeerRecords(s, peer)[i]].content.root = key

PeerKey(s, peer, key) ==
  /\ PeerRecords(s, peer) # <<>>
  /\ s[PeerRecords(s, peer)[1]].content.root = key

\* Content matches its revision, and its entry is in the checkpoint's state.
ObjectVerifies(o, root) ==
  /\ o.content = o.entry.rev
  /\ VerifyMerklePath(Leaf(o.entry), o.proof, root)

AudienceIs(g, audience) == audience \in {g, "public"}

VerifyBundle(g, b) ==
  /\ PeerKey(objects[g], b.graph, b.key)
  /\ AudienceIs(g, b.audience)
  /\ \A o \in b.objects : ObjectVerifies(o, b.root)

\* Mutation: the lineage is left out.
ImportOpBare(g, b, o) == [verb |-> "create", id |-> o.entry.id, body |-> o.content]

\* The payload is the content, with lineage to the revision in the peer's
\* graph in place of its own.
ImportOp(g, b, o) ==
  [verb |-> "create", id |-> o.entry.id, imported |-> TRUE,
   basis |-> "deterministic",
   body |-> [field \in DOMAIN o.content \cup {"derived"} |->
               IF field = "derived" THEN <<b.graph, o.entry.id, o.entry.rev>>
               ELSE o.content[field]]]

Import(g, b, o, by) ==
  /\ VerifyBundle(g, b)
  /\ Commit(g, by, <<ImportOp(g, b, o)>>)
  /\ UNCHANGED minted

-----------------------------------------------------------------------------
\* Local work on what is shared.

\* A payload keeps its lineage, and with it what marks an operation imported.
UpdateOp(s, id) ==
  LET body == [s[id].content EXCEPT !.val = "edited"]
  IN  IF "derived" \in DOMAIN body
      THEN [verb |-> "update", id |-> id, prior |-> s[id].rev, body |-> body,
            imported |-> TRUE, basis |-> "deterministic"]
      ELSE [verb |-> "update", id |-> id, prior |-> s[id].rev, body |-> body]

Update(g, id) ==
  /\ Live(objects[g], id) /\ "val" \in DOMAIN objects[g][id].content
  /\ Commit(g, Owner[g], <<UpdateOp(objects[g], id)>>)
  /\ UNCHANGED minted

\* What has a region of its own, as a grant has, whatever else it is.
Write(g, content) == CreateNode(g, content)

Classify(g, k, id, term) ==
  /\ Commit(g, Owner[g], <<[verb |-> "create", id |-> k,
                            body |-> [subject |-> id, term |-> term]]>>)
  /\ UNCHANGED minted

Redact(g, id) ==
  /\ Live(objects[g], id) /\ ~objects[g][id].redacted
  /\ Commit(g, Owner[g], <<[verb |-> "redact-document", id |-> id]>>)
  /\ UNCHANGED minted

-----------------------------------------------------------------------------
Init ==
  /\ scenario \in Scenarios
  /\ objects = [g \in Graph |->
                  [id \in DOMAIN scenario.start[g] |->
                     [content |-> scenario.start[g][id], rev |-> scenario.start[g][id],
                      deleted |-> FALSE, redacted |-> FALSE]]]
  /\ held = [g \in Graph |-> {}]
  /\ minted = 0
  /\ bundles = {}
  /\ shareable = UNION {Covered(g, objects[g]) : g \in Graph}
  /\ approved = [g \in Graph |-> {}]
  /\ steps = 0

\* Whether scenario.do has the step, whatever its arguments.
Does(step) == step \in scenario.do

Exchange(g) ==
  \/ \E p \in scenario.peers : p[1] = g /\ PeerAdd(g, p[2], p[3])
  \/ \E t \in scenario.grants : t[1] = g /\ Grant(g, t[2], t[3])
  \/ \E content \in scenario.writes : content[1] = g /\ Write(g, content[2])
  \/ \E k \in GrantsEver(objects[g]) :
       \/ Does("revoke") /\ Revoke(g, k)
       \/ \E by \in scenario.signers : by \in DOMAIN KeyOf[g] /\ MakeBundle(g, k, by)
  \/ \E b \in bundles, by \in scenario.importers :
       /\ by \in DOMAIN KeyOf[g]
       /\ \E o \in b.objects : o.entry.id \in scenario.wanted /\ Import(g, b, o, by)

Work(g) ==
  \E id \in scenario.subjects :
    \/ Does("update") /\ Update(g, id)
    \/ Does("delete") /\ Delete(g, id)
    \/ Does("redact") /\ Redact(g, id)
    \/ \E c \in scenario.marks : c[1] = g /\ Classify(g, c[2], id, c[3])

Next ==
  \E g \in Graph :
    \/ Exchange(g)
    \/ Work(g)
    \/ \E p \in held[g] : Approve(g, p)

Spec == Init /\ [][Next]_vars

-----------------------------------------------------------------------------
\* Properties.

\* The type invariant: an id that has not been minted names nothing, and what
\* a graph holds is of one of its principals.
TypeOK ==
  /\ \A g \in Graph : DOMAIN objects[g] \subseteq Id
  /\ minted \in 0..Len(NodeIds)
  /\ \A i \in (minted + 1)..Len(NodeIds), g \in Graph : NodeIds[i] \notin DOMAIN objects[g]
  /\ \A g \in Graph : \A p \in held[g] : p.author \in DOMAIN KeyOf[g]
  /\ \A b \in bundles : \A o \in b.objects : o.entry.id \in Id

Lineage(content) == IF "derived" \in DOMAIN content THEN {content.derived} ELSE {}

\* What a graph holds with a peer's lineage, the peer did share with it: it
\* had that very revision, in a region that a node live at the time named, with
\* this graph or the public as its audience (spec/09 9.4, which
\* asks for a grant; make_bundle does not, fed.rs:134).  It stays true after that
\* node is deleted and the original changed.  Schema is disclosed with any.
ImportsWereShared ==
  \A g \in Graph : \A n \in LiveNodes(objects[g]) :
    TypeOf(objects[g][n].content) \notin MetaTypes =>
      \A l \in Lineage(objects[g][n].content) :
        \E audience \in {g, "public"} : <<l[1], audience, l[2], l[3]>> \in shareable

\* The policy has a rule on imports that asks for somebody's approval.
ReviewsImports(policy) ==
  \E rule \in policy.rules :
    /\ rule.select = {{[negated |-> FALSE, map |-> [imported |-> TRUE]]}}
    /\ \E need \in rule.reviewers : need[2] \in Nat \ {0}

\* Foreign objects enter by local review alone, if local policy asks for it:
\* what a graph has that it did not have at genesis nor mint came by an import
\* that its owner approved (spec/09 9.6).
ImportsWereReviewed ==
  \A g \in Graph : ReviewsImports(ThePolicy(g)) =>
    (DOMAIN objects[g] \cap UNION {DOMAIN scenario.start[h] : h \in Graph})
      \subseteq (DOMAIN scenario.start[g] \cup approved[g])

\* A bundle verifies at a graph exactly if it is meant for it or for all, was
\* signed with the key the graph knows the peer by, and discloses nothing
\* redacted; however late it arrives and whatever its source did since.
BundlesVerify ==
  \A g \in Graph, b \in bundles :
    VerifyBundle(g, b) <=>
      /\ b.audience \in {g, "public"}
      /\ \E n \in LiveNodes(objects[g]) :
           /\ TypeOf(objects[g][n].content) = "core/Peer"
           /\ objects[g][n].content.graph = b.graph
           /\ objects[g][n].content.root = b.key
           /\ \A m \in LiveNodes(objects[g]) :
                (TypeOf(objects[g][m].content) = "core/Peer"
                   /\ objects[g][m].content.graph = b.graph) =>
                  \E i, j \in DOMAIN Order : i <= j /\ Order[i] = n /\ Order[j] = m
      /\ \A o \in b.objects : o.content # RedactedContent

\* The path a bundle gives for an object proves that object to be in the state
\* of the checkpoint, and proves it of no other object (spec/05 5.4).
ProofsAreExact ==
  \A b \in bundles : \A o, other \in b.objects :
    VerifyMerklePath(Leaf(other.entry), o.proof, b.root) <=> o = other

\* A graph stays its own, whatever it imports and however often: what it has
\* is not overwritten, and what it deleted does not come back (spec/09 9.1).
GraphsStaySovereign ==
  [][\A g \in Graph : \A id \in DOMAIN objects[g] :
       /\ id \in DOMAIN objects'[g]
       /\ objects[g][id].deleted => objects'[g][id].deleted
       /\ objects'[g][id].content # objects[g][id].content =>
            Lineage(objects'[g][id].content) \subseteq Lineage(objects[g][id].content)
     ]_objects
=============================================================================
