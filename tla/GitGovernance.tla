---------------------------- MODULE GitGovernance ----------------------------
(***************************************************************************)
(* Review of git commits by a governed graph.  The graph indexes commits   *)
(* (CodeIndex), its policy says which commits need which reviewers, by     *)
(* branch, path, and the regions in which the graph classifies the code,   *)
(* and decisions about a commit are kept in its git note.                  *)
(*                                                                         *)
(* A call on the graph is one atomic action, and held changesets are       *)
(* decided before anything else is admitted (Governance has the rest).     *)
(* `allod git decide` is taken apart: it reads the note, writes a file,    *)
(* has git add the file, and removes it, with no lock around them.         *)
(***************************************************************************)
EXTENDS Policy, CodeIndex


CONSTANTS
  StartNodes,   \* the nodes of the graph at the start
  PolicyNode,   \* the one that holds the policy
  Roots,
  KeyOf,        \* the key each principal signs with
  Owner,        \* the principal that edits, classifies and approves
  Spelled,      \* repositories, refs and paths as sequences of characters
  RepoName,
  Refs,         \* refs that a change may target
  Scenarios     \* what may happen, see Init

VARIABLES
  scenario,   \* fixed at the start
  objects,    \* the state of the graph at its head
  held,       \* derived changesets that wait for approval: [author, commit, ops, base]
  minted,     \* how many ids of NodeIds and EdgeIds have been used
  at,         \* the commit that the graph was last brought to, or None
  asserted,   \* whether derived content was edited by hand since
  notes,      \* the decision records in the note of each commit
  temp,       \* allod-note-SHA.yaml in the temporary directory
  deciding,   \* what each running `git decide` is about to do
  acked,      \* decision records that were reported as recorded
  crowded,    \* commits that two processes decided at the same time
  changes     \* how many changesets the graph admitted or holds

\* The graph starts with nodes, a policy among them, and with none that is of
\* code or still to be minted.
ASSUME GitAssumption ==
  /\ IsFiniteSet(DOMAIN StartNodes)
  /\ DOMAIN StartNodes \subseteq NodeId \ Range(NodeIds)
  /\ PolicyNode \in DOMAIN StartNodes
  /\ TypeOf(StartNodes[PolicyNode]) = "meta/Policy"
  /\ \A n \in DOMAIN StartNodes : TypeOf(StartNodes[n]) \notin
       {"code/Repository", "code/SourceFile", "code/Function", "code/Type"}
  /\ \A sc \in Scenarios : /\ sc.commits \subseteq Commit
                           /\ \A t \in sc.marks : t[1] \in ClassificationId

\* What genesis makes of them.
StartObjects ==
  [n \in DOMAIN StartNodes |-> [content |-> StartNodes[n], rev |-> StartNodes[n],
                                deleted |-> FALSE, redacted |-> FALSE]]

\* It installs the code ontology, and no package has a rule about code.
ASSUME OntologyAssumption == CodeOntology(RegistryOf(StartObjects))

\* The policies that may come into force.
Policies == {StartNodes[PolicyNode].definition} \cup UNION {sc.policies : sc \in Scenarios}

\* A role is a list of principals and a quorum is unsigned; patterns and what
\* they are matched against are texts; decisions are about commits.
ASSUME PolicyAssumption ==
  /\ \A name \in {RepoName} \cup Refs \cup Range(Paths) :
       Spelled[name] \in Seq(Range(Spelled[name]))
  /\ \A sc \in Scenarios : \A v \in sc.votes : v[1] \in Commit
  /\ \A policy \in Policies :
       /\ \A role \in DOMAIN policy.roles : IsFiniteSet(policy.roles[role])
       /\ \A rule \in policy.rules :
            /\ \A need \in rule.reviewers : need[2] \in Nat
            /\ \A lit \in UNION rule.select :
                 \A key \in DOMAIN lit.map \cap {"repo", "target_ref", "path"} :
                   lit.map[key] \in Seq(Range(lit.map[key]))

graph == <<objects, held, minted, at, asserted, changes>>
git == <<notes, temp, deciding, acked, crowded>>
vars == <<scenario, graph, git>>

Registry == RegistryOf(objects)
ThePolicy == objects[PolicyNode].content.definition

-----------------------------------------------------------------------------
\* Admission of a changeset of author's, with the decisions made about it.

Admissible(author, subject, ops, decisions) ==
  Satisfied(objects, ThePolicy, Roots, author, subject,
            Evaluate(Registry, ThePolicy, objects, ops,
                     AuthorKind(objects, author)),
            [decisions |-> decisions, envelopes |-> {}], {})

Applied(ops) == ApplyChangeset(Registry, objects, ops)

Approval(subject, name) ==
  [subject |-> subject, verdict |-> "approve", context |-> ThePolicy,
   deciders |-> {[principal |-> name, key |-> KeyOf[name]]}]

CanChange == changes < scenario.changes

\* Mutation: only the file's own classifications count.
RegionsOfFileOnly(s, reg, file) ==
  UNION {TermClosure(reg, term) : term \in ClassificationsOf(s, file)}

\* The regions in which a change to a path falls (path_regions): the terms of
\* the file and of the items it declares, and what lies above them.
RegionsOf(s, reg, file) ==
  LET declared == {s[e].content.to : e \in
                     {d \in LiveEdges(s, "code/declares") : s[d].content.from = file}}
      terms == UNION {ClassificationsOf(s, n) : n \in {file} \cup declared}
  IN  UNION {TermClosure(reg, term) : term \in terms}

PathRegions(s) ==
  LET files == {n \in CodeNodes(s) : s[n].content.type = "code/SourceFile"}
  IN  [path \in {s[n].content.path : n \in files} |->
         RegionsOf(s, RegistryOf(s),
                   CHOOSE n \in files : s[n].content.path = path)]

\* A changeset that is admissible applies, or it is refused.
Apply(ops, commit) ==
  \E result \in {Applied(ops)} :
    /\ result.ok
    /\ objects' = result.objects
    /\ at' = commit

\* allod git index: nothing to do, admitted outright, or held.
Derive(c, author, ops, mints) ==
  /\ minted + mints <= Len(NodeIds)
  /\ ops # <<>>
  /\ minted' = minted + mints
  /\ \E admissible \in {Admissible(author, c, ops, {})} :
       \/ /\ admissible
          /\ Apply(ops, c)
          /\ asserted' = FALSE
          /\ UNCHANGED held
       \/ /\ ~admissible
          /\ held = {}
          /\ held' = {[author |-> author, commit |-> c, ops |-> ops,
                       base |-> objects]}
          /\ UNCHANGED <<objects, at, asserted>>

Index(c, author) ==
  /\ CanChange
  /\ changes' = changes + 1
  /\ Derive(c, author, ImportOps(objects, c, minted), MintedBy(objects, c))
  /\ UNCHANGED <<scenario, git>>

\* The owner approves a derivation that is held, while it is still on the tip.
ApproveHeld(p) ==
  /\ p.base = objects
  /\ Admissible(p.author, p.commit, p.ops, {Approval(p.commit, Owner)})
  /\ Apply(p.ops, p.commit)
  /\ held' = held \ {p}
  /\ asserted' = FALSE
  /\ UNCHANGED <<scenario, git, minted, changes>>

\* The owner commits ops and approves them, if that is needed.
OwnerCommits(ops) ==
  /\ CanChange
  /\ Admissible(Owner, "edit", ops, {Approval("edit", Owner)})
  /\ Apply(ops, at)
  /\ changes' = changes + 1
  /\ UNCHANGED <<scenario, git, held>>

Fresh == minted < Len(NodeIds)

\* allod classify, on a file or an item.
Classify(n, id, term) ==
  /\ OwnerCommits(<<[verb |-> "create", id |-> id,
                     body |-> [subject |-> n, term |-> term]]>>)
  /\ UNCHANGED <<minted, asserted>>

\* An edge of the owner's between two derived nodes.
Relate(n, m) ==
  /\ Fresh
  /\ OwnerCommits(<<[verb |-> "create", id |-> EdgeIds[minted + 1],
                     body |-> [type |-> "code/references", from |-> n, to |-> m]]>>)
  /\ minted' = minted + 1
  /\ UNCHANGED asserted

\* The owner writes what the signature of a function really is.
Correct(n) ==
  /\ OwnerCommits(<<[verb |-> "update", id |-> n, prior |-> objects[n].rev,
                     body |-> [type |-> "code/Function",
                               name |-> objects[n].content.name,
                               signature |-> "asserted", span |-> <<0, 0>>]]>>)
  /\ asserted' = TRUE
  /\ UNCHANGED minted

\* allod install-policy, when the graph has a policy: an update of its node.
InstallPolicy(doc) ==
  /\ OwnerCommits(<<[verb |-> "update", id |-> PolicyNode,
                     prior |-> objects[PolicyNode].rev,
                     body |-> [type |-> "meta/Policy", definition |-> doc]]>>)
  /\ UNCHANGED <<minted, asserted>>

-----------------------------------------------------------------------------
\* allod git eval: the requirements of a commit, and whether its note meets
\* them.

\* Mutation: a star stands for at least one character.
GlobMatchSome(pattern, text) ==
  LET rest[i \in 1..(Len(pattern) + 1)] ==
        IF i > Len(pattern) THEN {Len(text) + 1}
        ELSE IF pattern[i] = "*"
             THEN {j \in 1..(Len(text) + 1) : \E k \in rest[i + 1] : j < k}
             ELSE {j \in 1..Len(text) : text[j] = pattern[i] /\ j + 1 \in rest[i + 1]}
  IN  1 \in rest[1]

\* glob_match: a star stands for any characters, a slash among them.  rest[i]
\* is where what remains of the text may begin, when i begins what remains of
\* the pattern.
GlobMatch(pattern, text) ==
  LET rest[i \in 1..(Len(pattern) + 1)] ==
        IF i > Len(pattern) THEN {Len(text) + 1}
        ELSE IF pattern[i] = "*"
             THEN {j \in 1..(Len(text) + 1) : \E k \in rest[i + 1] : j <= k}
             ELSE {j \in 1..Len(text) : text[j] = pattern[i] /\ j + 1 \in rest[i + 1]}
  IN  1 \in rest[1]

\* The operation set: what changed against the first parent, or against
\* nothing, a moved file as a deletion and a creation.
OperationSet(c) ==
  LET before == IF FirstParent[c] = None THEN EmptyState ELSE Tree[FirstParent[c]]
      after == Tree[c]
  IN  {<<"create", p>> : p \in DOMAIN after \ DOMAIN before} \cup
      {<<"delete", p>> : p \in DOMAIN before \ DOMAIN after} \cup
      {<<"update", p>> : p \in {q \in DOMAIN before \cap DOMAIN after :
                                  before[q] # after[q]}}

\* A git rule's selector is one bare map; others are passed over.
GitRules(policy) ==
  {rule \in policy.rules :
     \E map \in {lit.map : lit \in UNION rule.select} :
       /\ rule.select = {{[negated |-> FALSE, map |-> map]}}
       /\ "substrate" \in DOMAIN map /\ map.substrate = "git"}

MapOf(rule) == CHOOSE map \in {lit.map : lit \in UNION rule.select} : TRUE

\* Mutation: the path and the verb may match different operations.
ChangeMatchesApart(map, regions, ref, changed) ==
  LET has(key) == key \in DOMAIN map
  IN  /\ has("repo") => GlobMatch(map.repo, Spelled[RepoName])
      /\ has("target_ref") => GlobMatch(map.target_ref, Spelled[ref])
      /\ \E op \in changed : has("operation") => op[1] \in map.operation
      /\ \E op \in changed :
           /\ has("path") => GlobMatch(map.path, Spelled[op[2]])
           /\ has("region") => /\ op[2] \in DOMAIN regions
                               /\ map.region \in regions[op[2]]

\* The keys of a rule about one operation are met by one operation.
ChangeMatches(map, regions, ref, changed) ==
  LET has(key) == key \in DOMAIN map
  IN  /\ has("repo") => GlobMatch(map.repo, Spelled[RepoName])
      /\ has("target_ref") => GlobMatch(map.target_ref, Spelled[ref])
      /\ \E op \in changed :
           /\ has("operation") => op[1] \in map.operation
           /\ has("path") => GlobMatch(map.path, Spelled[op[2]])
           /\ has("region") => /\ op[2] \in DOMAIN regions
                               /\ map.region \in regions[op[2]]

\* evaluate_git: root authority is never required.
EvaluateGit(policy, regions, c, ref) ==
  LET matched == {rule \in GitRules(policy) :
                    ChangeMatches(MapOf(rule), regions, ref, OperationSet(c))}
  IN  [reviewers    |-> UNION {rule.reviewers : rule \in matched},
       attestations |-> UNION {rule.attestations : rule \in matched},
       rootRequired |-> FALSE]

NoteOf(c) == IF c \in DOMAIN notes THEN notes[c] ELSE {}

\* The verdict.  Attestations that a git rule requires are not looked at.
Passes(c, ref) ==
  ReviewersMet(objects, ThePolicy, c,
               EvaluateGit(ThePolicy, PathRegions(objects), c, ref), NoteOf(c))

-----------------------------------------------------------------------------
\* allod git decide, step by step.

Idle == [step |-> "idle"]
Busy(p) == deciding[p].step # "idle"

\* What a process is about to do, and with what: the record it was given, what
\* the note is to become, and whether git refused it.
Doing(step, record, body, failed) ==
  [step |-> step, commit |-> record.subject, record |-> record, body |-> body,
   failed |-> failed]

Reviewers == DOMAIN KeyOf

\* The record is built and signed under the policy in force now.  (Bound: no
\* decision is given again once it was recorded.)
StartDecide(p, c, name, verdict) ==
  LET record == [Approval(c, name) EXCEPT !.verdict = verdict]
      others == {q \in scenario.processes : Busy(q) /\ deciding[q].commit = c}
  IN  /\ ~Busy(p)
      /\ record \notin acked
      /\ deciding' = [deciding EXCEPT ![p] = Doing("read", record, {}, FALSE)]
      /\ crowded' = IF others = {} THEN crowded ELSE crowded \cup {c}
      /\ UNCHANGED <<scenario, graph, notes, temp, acked>>

\* Mutation: the note starts over with each decision.
RecordAlone(existing, record) == {record}
WithRecord(existing, record) == existing \cup {record}

ReadNote(p) ==
  LET d == deciding[p]
  IN  /\ d.step = "read"
      /\ deciding' = [deciding EXCEPT ![p] =
           Doing("write", d.record, WithRecord(NoteOf(d.commit), d.record), FALSE)]
      /\ UNCHANGED <<scenario, graph, notes, temp, acked, crowded>>

\* The file is named after the commit, so two processes share it.
WriteTemp(p) ==
  LET d == deciding[p]
  IN  /\ d.step = "write"
      /\ temp' = Put(temp, d.commit, d.body)
      /\ deciding' = [deciding EXCEPT ![p] = Doing("add", d.record, d.body, FALSE)]
      /\ UNCHANGED <<scenario, graph, notes, acked, crowded>>

\* git notes add -f -F: whatever the file holds by now; an error without it.
AddNote(p) ==
  LET d == deciding[p]
      there == d.commit \in DOMAIN temp
  IN  /\ d.step = "add"
      /\ notes' = IF there THEN Put(notes, d.commit, temp[d.commit]) ELSE notes
      /\ deciding' = [deciding EXCEPT ![p] = Doing("remove", d.record, d.body, ~there)]
      /\ UNCHANGED <<scenario, graph, temp, acked, crowded>>

RemoveTemp(p) ==
  LET d == deciding[p]
  IN  /\ d.step = "remove"
      /\ temp' = [c \in DOMAIN temp \ {d.commit} |-> temp[c]]
      /\ acked' = IF d.failed THEN acked ELSE acked \cup {d.record}
      /\ deciding' = [deciding EXCEPT ![p] = Idle]
      /\ UNCHANGED <<scenario, graph, notes, crowded>>

\* The process dies between two steps; the file stays.
Die(p) ==
  /\ Busy(p)
  /\ scenario.crashes
  /\ deciding' = [deciding EXCEPT ![p] = Idle]
  /\ UNCHANGED <<scenario, graph, notes, temp, acked, crowded>>

-----------------------------------------------------------------------------
\* A graph whose genesis installed the code ontology and a policy, before it
\* knows of any commit.
Init ==
  /\ scenario \in Scenarios
  /\ objects = StartObjects
  /\ held = {}
  /\ minted = 0
  /\ at = None
  /\ asserted = FALSE
  /\ notes = EmptyState
  /\ temp = EmptyState
  /\ deciding = [p \in scenario.processes |-> Idle]
  /\ acked = {}
  /\ crowded = {}
  /\ changes = 0

NodesOf(type) == {n \in CodeNodes(objects) : objects[n].content.type = type}
Functions == NodesOf("code/Function")

Edit ==
  \/ \E n \in Functions \cup NodesOf("code/SourceFile"), t \in scenario.marks :
       Classify(n, t[1], t[2])
  \/ scenario.relates /\ \E n, m \in Functions : n # m /\ Relate(n, m)
  \/ scenario.asserts /\ \E n \in Functions : Correct(n)
  \/ \E doc \in scenario.policies : doc # ThePolicy /\ InstallPolicy(doc)

Next ==
  \/ \E c \in scenario.commits, author \in scenario.indexers : Index(c, author)
  \/ \E p \in held : ApproveHeld(p)
  \/ Edit
  \/ \E p \in scenario.processes :
       \/ \E v \in scenario.votes : StartDecide(p, v[1], v[2], v[3])
       \/ ReadNote(p) \/ WriteTemp(p) \/ AddNote(p) \/ RemoveTemp(p) \/ Die(p)

Spec == Init /\ [][Next]_vars

-----------------------------------------------------------------------------
\* Properties.

\* The type invariant: ids are minted once, and a note holds decisions about
\* its own commit.
TypeOK ==
  /\ DOMAIN objects \subseteq Id
  /\ minted \in 0..Len(NodeIds)
  /\ at \in Commit \cup {None}
  /\ \A i \in (minted + 1)..Len(NodeIds) :
       NodeIds[i] \notin DOMAIN objects /\ EdgeIds[i] \notin DOMAIN objects
  /\ \A f \in {notes, temp} :
       \A c \in DOMAIN f : \A record \in f[c] : record.subject = c

\* After a derivation is admitted the graph mirrors its commit, from whatever
\* commit it came and whatever was related, classified or corrected in between
\* (spec/08 8.3: materializable as of any commit).  What was corrected by hand
\* is derived afresh, where spec/08-indexing.md:112 has regeneration spare what
\* somebody asserted: the code compares attributes and asks not who wrote them.
IndexMatches == (at # None /\ ~asserted) => Mirrors(objects, at)

\* Indexing is idempotent and complete (spec/08 8.1.3): a commit is reported
\* to be up to date exactly if the graph mirrors it.
UpToDate ==
  \A c \in scenario.commits :
    minted + MintedBy(objects, c) <= Len(NodeIds) =>
      (ImportOps(objects, c, minted) = <<>> <=> Mirrors(objects, c))

\* Whether an edge of somebody else's ties one of the nodes.
Pinned(nodes) ==
  \E e \in LiveEdges(objects, "code/references") :
    objects[e].content.from \in nodes \/ objects[e].content.to \in nodes

\* A derivation applies to the graph it was derived on, unless an edge of
\* somebody else's ties what the commit no longer holds.
ImportApplies ==
  \A c \in scenario.commits :
    minted + MintedBy(objects, c) <= Len(NodeIds) =>
      (Applied(ImportOps(objects, c, minted)).ok
         <=> ~Pinned(Vanished(Indexed(objects), c)))

\* What two successive states of the graph both speak of is the same node in
\* both, so that a classification, once made, outlives every commit that
\* keeps the classified code.
IdentityKept ==
  [][LET before == Indexed(objects)
         after == Indexed(objects')
     IN  \A e \in DOMAIN before \cap DOMAIN after : after[e] = before[e]]_objects

\* Whether text is pattern with each star replaced by some run of characters.
Spells(pattern, text) ==
  LET stars == {i \in DOMAIN pattern : pattern[i] = "*"}
      runs == {SubSeq(text, i, j) : i \in 1..(Len(text) + 1), j \in 0..Len(text)}
  IN  \E part \in [stars -> runs] :
        text = FlattenSeq([i \in DOMAIN pattern |->
                             IF i \in stars THEN part[i] ELSE <<pattern[i]>>])

\* What a git rule asks of one changed path, said of the graph directly: some
\* classification at or below the region marks the file or an item of it.
InRegion(path, region) ==
  \E n \in DOMAIN objects \cap NodeId, k \in DOMAIN objects \cap ClassificationId :
    /\ n \in CodeNodes(objects) /\ EntityOf(objects, n).path = path
    /\ ~objects[k].deleted /\ objects[k].content.subject = n
    /\ region \in TermClosure(Registry, objects[k].content.term)

\* A commit passes exactly if every rule that covers one of its changes has
\* its quorum: distinct members of the role, each with an approval of this
\* commit under this very policy, in the note, by a key active now.
VerdictJustified ==
  \A c \in {v[1] : v \in scenario.votes}, ref \in Refs :
    Passes(c, ref) <=>
      \A rule \in GitRules(ThePolicy) :
        LET map == MapOf(rule)
            has(key) == key \in DOMAIN map
            covers(op) ==
              /\ has("repo") => Spells(map.repo, Spelled[RepoName])
              /\ has("target_ref") => Spells(map.target_ref, Spelled[ref])
              /\ has("path") => Spells(map.path, Spelled[op[2]])
              /\ has("operation") => op[1] \in map.operation
              /\ has("region") => InRegion(op[2], map.region)
            approved(name) ==
              \E r \in NoteOf(c) :
                /\ r.verdict = "approve" /\ r.subject = c /\ r.context = ThePolicy
                /\ \E d \in r.deciders : /\ d.principal = name
                                         /\ d.key \in ActiveKeys(objects, name)
        IN  (\E op \in OperationSet(c) : covers(op)) =>
              \A need \in rule.reviewers :
                \E team \in SUBSET Bindings(ThePolicy, need[1]) :
                  Cardinality(team) = need[2] /\ \A name \in team : approved(name)

\* A decision that was reported as recorded stays in the note, whatever
\* processes died before and after it, unless two decided the commit at once
\* (docs of append_decision: decisions accumulate).
NotesKeepDecisions ==
  \A r \in acked : r.subject \in crowded \/ r \in NoteOf(r.subject)
=============================================================================
