----------------------------- MODULE GraphStore -----------------------------
(***************************************************************************)
(* The files of a graph at the grain at which they are written.  A call of *)
(* a flow reads what it needs and then writes its files one at a time, in  *)
(* the order of the code, each by emptying it and filling it again; there  *)
(* is no lock and no transaction.  Two hosts run the same flows:           *)
(*                                                                         *)
(*   native  processes of the command line, directly on the directory      *)
(*           (FsStore); any number of them, and each may die at any point; *)
(*   mirror  a program that embeds the WASM binding: a call changes a map  *)
(*           in memory at once (MemStore) and then mirrors the whole map   *)
(*           to the directory (store.ts), which may fail or be cut short.  *)
(*                                                                         *)
(* Governance says what a call does to the graph as a whole.  Here a       *)
(* changeset is an identity with a parent, and needs a number of approvals.*)
(***************************************************************************)
EXTENDS Naturals, Sequences, SequencesExt, FiniteSets

CONSTANTS
  Processes,
  Changesets,   \* every changeset that can be built, as a sequence by name
  Founding,     \* those that flows::init builds
  Adding,       \* those that flows::principal_add builds
  NameOf,       \* whom a founding or adding changeset gives a key
  Quorum,       \* how many approvals each changeset needs
  Scenarios,    \* what may happen: [host, start, requests, atOnce, faults]
  None

Changeset == Range(Changesets)

\* The content of a file that was emptied and not filled.
Torn == [torn |-> TRUE]

\* Genesis is not reviewed.
ASSUME ChangesetAssumption ==
  /\ Changesets \in Seq(Changeset)
  /\ Founding \cap Adding = {}
  /\ Founding # {}
  /\ Founding \cup Adding \subseteq Changeset
  /\ DOMAIN NameOf = Founding \cup Adding
  /\ \A x, y \in Founding : NameOf[x] = NameOf[y]
  /\ Quorum \in [Changeset -> Nat]
  /\ \A x \in Founding : Quorum[x] = 0
  /\ {Torn, None} \cap Changeset = {}

\* A request is about a changeset that its flow is for; of those that
\* change a graph, the binding has five.
ASSUME ScenarioAssumption ==
  \A sc \in Scenarios :
    /\ sc.host \in {"native", "mirror"} /\ sc.start \in {"fresh", "graph"}
    /\ sc.faults \in Nat
    /\ \A r \in sc.requests :
         /\ r.op = "init" => r.on \in Founding
         /\ r.op = "principal" => r.on \in Adding
         /\ r.op = "submit" => r.on \in Changeset \ (Founding \cup Adding)
         /\ r.op \in {"approve", "reject", "attest"} => r.on \in Changeset
         /\ sc.host = "mirror" => r.op \in {"init", "submit", "principal", "approve", "reject"}

VARIABLES
  scenario,   \* fixed at the start
  files,      \* the directory: a function from paths to contents
  memory,     \* the map of a mirror
  call,       \* the call each process is in the middle of, or Returned
  lineage,    \* lineage[x]: the ancestors of a built changeset, and itself
  acked,      \* what callers were told has been done
  contended,  \* files that two calls under way both meant to write
  torn,       \* files that a crash or an error left empty
  behind,     \* whether the last mirroring was cut short
  faults

vars == <<scenario, files, memory, call, lineage, acked, contended, torn,
          behind, faults>>

-----------------------------------------------------------------------------
\* Paths, in the order in which a BTreeMap lists them.

HeadFile == <<"HEAD", None>>
GraphYaml == <<"graph", None>>
ChangesetFile(x) == <<"changesets", x>>
EvidenceFile(x) == <<"evidence", x>>
ProposalFile(x) == <<"proposals", x>>
ProposalEvidenceFile(x) == <<"pending", x>>
CheckpointFile(x) == <<"checkpoints", x>>
StoreKey(name) == <<"keys", name>>             \* inside the directory
UserKey(graph, name) == <<"xdg", <<graph, name>>>>   \* outside of it

\* The graph has no id, as far as a caller can tell, while graph.yaml is empty.
UserKeys == {UserKey(g, name) : g \in Founding \cup {None}, name \in Range(NameOf)}

\* Two files of each changeset, next to each other.
InPairs(kind, other) ==
  [i \in 1..(2 * Len(Changesets)) |->
     <<IF i % 2 = 1 THEN kind ELSE other, Changesets[(i + 1) \div 2]>>]

PathOrder ==
  <<HeadFile>>
    \o InPairs("evidence", "changesets")
    \o [i \in DOMAIN Changesets |-> CheckpointFile(Changesets[i])]
    \o <<GraphYaml>>
    \o SetToSeq({StoreKey(NameOf[x]) : x \in DOMAIN NameOf})
    \o InPairs("pending", "proposals")

KeepIn(paths, kept, path) == IF path \in paths THEN Append(kept, path) ELSE kept

\* The paths that are in a set, in that order.
Listed(paths) ==
  LET first[i \in 0..Len(PathOrder)] ==
        IF i = 0 THEN <<>> ELSE KeepIn(paths, first[i-1], PathOrder[i])
  IN  first[Len(PathOrder)]

NoFiles == [path \in {} |-> None]
Put(f, path, text) ==
  [p \in DOMAIN f \cup {path} |-> IF p = path THEN text ELSE f[p]]
Drop(f, path) == [p \in DOMAIN f \ {path} |-> f[p]]

Exists(f, path) == path \in DOMAIN f
Intact(f, path) == path \in DOMAIN f /\ f[path] # Torn

\* One document operation of a flow.
Write(path, text) == [verb |-> "write", path |-> path, text |-> text]
Erase(path) == [verb |-> "remove", path |-> path, text |-> None]

\* MemStore: the operations take effect at once.
Perform(f, step) ==
  IF step.verb = "remove" THEN Drop(f, step.path) ELSE Put(f, step.path, step.text)

Apply(f, steps) ==
  LET after[i \in 0..Len(steps)] ==
        IF i = 0 THEN f ELSE Perform(after[i-1], steps[i])
  IN  after[Len(steps)]

-----------------------------------------------------------------------------
\* What a flow reads.  An empty file parses as YAML null, which holds no
\* decisions, no envelopes, no measurements and no parents.

NoEvidence == [decisions |-> {}, envelopes |-> {}]

EvidenceIn(f, path) ==
  IF Intact(f, path) THEN f[path] ELSE NoEvidence

GraphId(f) == IF Intact(f, GraphYaml) THEN f[GraphYaml].id ELSE None

\* Graph::chain and fold: HEAD and every changeset it descends from.
Folds(f) ==
  /\ Intact(f, HeadFile)
  /\ \A x \in lineage[f[HeadFile]] : Intact(f, ChangesetFile(x))

\* Graph::open looks for graph.yaml first.
Loads(f) == Exists(f, GraphYaml) /\ Folds(f)

\* Graph::signer: the file that a name resolves to, the first that exists.
KeyFile(host, f, name) ==
  IF host = "native" /\ Exists(f, UserKey(GraphId(f), name))
  THEN UserKey(GraphId(f), name)
  ELSE StoreKey(name)

CanSign(host, f, name) == Intact(f, KeyFile(host, f, name))

\* The principal that signs the changesets of clients.
Owner == NameOf[CHOOSE x \in Founding : TRUE]

Rejected(doc) == \E d \in doc.decisions : d[2] = "reject"
Approvals(doc) == {d[1] : d \in {e \in doc.decisions : e[2] = "approve"}}

\* A changeset needs more approvals than a document holds.
Short(doc, x) == Quorum[x] # 0 /\ Cardinality(Approvals(doc)) < Quorum[x]

\* The dry run: the objects that x creates do not exist yet.
Applies(f, x) == x \notin lineage[f[HeadFile]]

-----------------------------------------------------------------------------
\* The flows.  Each yields the document operations it performs, in order,
\* what it reports, and the changeset it builds; a flow that fails reports
\* None, possibly after some operations.

Building(x, steps, reports) == [steps |-> steps, reports |-> reports, builds |-> x]
Outcome(steps, reports) == Building(None, steps, reports)
Failure(steps) == Outcome(steps, None)

\* Mutation: HEAD is written first.
HeadFirst(x, doc) ==
  <<Write(HeadFile, x), Write(ChangesetFile(x), x), Write(EvidenceFile(x), doc)>>

\* append_changeset
AppendChangeset(x, doc) ==
  <<Write(ChangesetFile(x), x), Write(EvidenceFile(x), doc), Write(HeadFile, x)>>

RemoveProposal(x) == <<Erase(ProposalFile(x)), Erase(ProposalEvidenceFile(x))>>

\* create_key: where the host keeps new keys.
CreateKey(host, f, graph, x) ==
  <<Write(IF host = "native" THEN UserKey(graph, NameOf[x])
          ELSE StoreKey(NameOf[x]), x)>>

\* Mutation: the key is created when the genesis changeset is in the log.
KeyAfterGenesis(host, f, x) ==
  <<Write(GraphYaml, [id |-> x, trusted |-> {}]),
    Write(ChangesetFile(x), x), Write(HeadFile, x)>>
  \o CreateKey(host, f, x, x)

\* flows::init: graph.yaml, the owner's key, genesis without evidence, HEAD.
InitSteps(host, f, x) ==
  <<Write(GraphYaml, [id |-> x, trusted |-> {}])>>
  \o CreateKey(host, f, x, x)
  \o <<Write(ChangesetFile(x), x), Write(HeadFile, x)>>

\* A log that is there has to fold, since genesis is built on HEAD like any
\* other changeset.  Nothing asks whether there is one: a graph that is founded
\* again gets another graph.yaml, and goes on with the log that it had.
InitFlow(host, f, x) ==
  IF lineage[x] # {} \/ (Exists(f, HeadFile) /\ ~Folds(f)) THEN Failure(<<>>)
  ELSE Building(x, InitSteps(host, f, x), <<"admitted", x>>)

\* Build a changeset on HEAD, then admit_or_hold.
SubmitFlow(host, f, x) ==
  IF lineage[x] # {} \/ ~Loads(f) \/ ~CanSign(host, f, Owner)
  THEN Failure(<<>>)
  ELSE IF Quorum[x] = 0
  THEN Building(x, AppendChangeset(x, NoEvidence), <<"admitted", x>>)
  ELSE Building(x, <<Write(ProposalFile(x), x),
                     Write(ProposalEvidenceFile(x), NoEvidence)>>, <<"held", x>>)

\* principal_add: the new key is stored before anything else is looked at.
PrincipalAddFlow(host, f, x) ==
  IF lineage[x] # {} \/ ~Exists(f, GraphYaml) THEN Failure(<<>>)
  ELSE LET submitted == SubmitFlow(host, f, x)
       IN  Building(submitted.builds,
                    CreateKey(host, f, GraphId(f), x) \o submitted.steps,
                    submitted.reports)

\* Mutation: a decision starts the evidence of the proposal over.
OnlyDecision(f, x, decision) == [decisions |-> {decision}, envelopes |-> {}]

WithDecision(f, x, decision) ==
  LET doc == EvidenceIn(f, ProposalEvidenceFile(x))
  IN  [decisions |-> doc.decisions \cup {decision}, envelopes |-> doc.envelopes]

\* Mutation: the proposal leaves the inbox before it enters the log.
RemoveThenAppend(x, doc) == RemoveProposal(x) \o AppendChangeset(x, doc)

AdmitSteps(x, doc) == AppendChangeset(x, doc) \o RemoveProposal(x)

\* decide: decide_payload, the signature, decide_with_record.  An empty
\* proposal has no author; only a rejection does not look.
DecideFlow(f, x, by, verdict) ==
  LET doc == WithDecision(f, x, <<by, verdict>>)
      Recording(steps) == Outcome(steps, <<verdict, x, by>>)
      recorded == Recording(<<Write(ProposalEvidenceFile(x), doc)>>)
  IN  IF \/ ~Exists(f, ProposalFile(x))
         \/ Rejected(EvidenceIn(f, ProposalEvidenceFile(x)))
         \/ ~Loads(f)
      THEN Failure(<<>>)
      ELSE IF verdict = "reject" THEN recorded
      ELSE IF ~Intact(f, ProposalFile(x)) THEN Failure(<<>>)
      ELSE IF Short(doc, x) THEN recorded
      ELSE IF ~Applies(f, x) THEN Failure(<<>>)
      ELSE Recording(AdmitSteps(x, doc))

AddEnvelope(doc, by) ==
  [decisions |-> doc.decisions, envelopes |-> doc.envelopes \cup {by}]

\* Mutation: an envelope for a changeset without evidence is not kept.
NullUnlessThere(f, x, by) ==
  IF Intact(f, EvidenceFile(x)) THEN AddEnvelope(f[EvidenceFile(x)], by) ELSE Torn

\* The envelope goes into the evidence read, if that is a document at all; if
\* not, null is written back, which reads as the empty file does.
WithEnvelope(f, x, by) ==
  IF Exists(f, EvidenceFile(x)) /\ ~Intact(f, EvidenceFile(x)) THEN Torn
  ELSE AddEnvelope(EvidenceIn(f, EvidenceFile(x)), by)

\* envelope.  Nothing asks whether x is in the log yet, for good: while it may
\* still be admitted, or admitted again after a crash, its evidence will be
\* started over.
AttestFlow(host, f, x, by) ==
  IF ~Loads(f) \/ ~CanSign(host, f, Owner) THEN Failure(<<>>)
  ELSE Outcome(
    <<Write(EvidenceFile(x), WithEnvelope(f, x, by))>>,
    <<IF Exists(f, ChangesetFile(x)) /\ ~Exists(f, ProposalFile(x))
      THEN "attested" ELSE "attested early", x, by>>)

\* Mutation: the measurement replaces those trusted before.
TrustOnly(f, m) == [f[GraphYaml] EXCEPT !.trusted = {m}]

WithTrusted(f, m) == [f[GraphYaml] EXCEPT !.trusted = @ \cup {m}]

\* trust_measurement: an empty graph.yaml is not a map.  What is trusted is so
\* in the graph that the file names.
TrustFlow(f, m) ==
  IF ~Intact(f, GraphYaml) THEN Failure(<<>>)
  ELSE Outcome(<<Write(GraphYaml, WithTrusted(f, m))>>,
               <<"trusted", m, GraphId(f)>>)

CheckpointFlow(host, f) ==
  IF ~Loads(f) \/ ~CanSign(host, f, Owner) THEN Failure(<<>>)
  ELSE Outcome(<<Write(CheckpointFile(f[HeadFile]), f[HeadFile])>>,
               <<"checkpoint", f[HeadFile]>>)

\* Mutation: the old copy of a key is removed before the new one is stored.
RemoveThenStore(f, name) ==
  <<Erase(StoreKey(name)),
    Write(UserKey(GraphId(f), name), f[StoreKey(name)])>>

MigrateSteps(f, name) ==
  <<Write(UserKey(GraphId(f), name), f[StoreKey(name)]),
    Erase(StoreKey(name))>>

\* allod key migrate: from the directory of the graph to that of the user.
MigrateFlow(f, name) ==
  IF ~Intact(f, GraphYaml) \/ ~Intact(f, StoreKey(name)) THEN Failure(<<>>)
  ELSE Outcome(MigrateSteps(f, name), <<"migrated", name>>)

Flow(host, f, r) ==
  CASE r.op = "init"       -> InitFlow(host, f, r.on)
    [] r.op = "submit"     -> SubmitFlow(host, f, r.on)
    [] r.op = "principal"  -> PrincipalAddFlow(host, f, r.on)
    [] r.op \in {"approve", "reject"} -> DecideFlow(f, r.on, r.by, r.op)
    [] r.op = "attest"     -> AttestFlow(host, f, r.on, r.by)
    [] r.op = "trust"      -> TrustFlow(f, r.on)
    [] r.op = "checkpoint" -> CheckpointFlow(host, f)
    [] OTHER               -> MigrateFlow(f, r.on)

-----------------------------------------------------------------------------
\* Native: FsStore.

\* A call under way: the steps it has left, whether the file of the first is
\* open, what it will report, and the paths of all its steps.
Doing(steps, opened, reports, paths) ==
  [steps |-> steps, opened |-> opened, reports |-> reports, paths |-> paths]

Returned == Doing(<<>>, FALSE, None, {})

Idle(p) == call[p].steps = <<>>
Running == {p \in Processes : ~Idle(p)}
Paths(steps) == {steps[i].path : i \in DOMAIN steps}

\* The changeset that a flow builds descends from HEAD.
Built(f, x) ==
  lineage' = IF x = None THEN lineage
             ELSE [lineage EXCEPT ![x] =
                     {x} \cup IF Exists(f, HeadFile) THEN lineage[f[HeadFile]] ELSE {}]

\* A flow has read and decided; its writes are still to come.
NativeCall(p, r) ==
  LET done == Flow("native", files, r)
  IN  /\ scenario.host = "native"
      /\ Idle(p)
      /\ Cardinality(Running) < scenario.atOnce
      /\ done.steps # <<>>
      /\ call' = [call EXCEPT ![p] = Doing(done.steps, FALSE, done.reports,
                                          Paths(done.steps))]
      /\ Built(files, done.builds)
      /\ contended' = contended \cup
           (Paths(done.steps) \cap UNION {call[q].paths : q \in Running})
      /\ UNCHANGED <<scenario, files, memory, acked, torn, behind, faults>>

-----------------------------------------------------------------------------
\* The writes of the call that p is in.

Next1(p) == Head(call[p].steps)

\* The call goes on with what is left to do, or returns what it reports.
Advance(p) ==
  LET rest == Tail(call[p].steps)
  IN  /\ call' = [call EXCEPT ![p] =
                     IF rest = <<>> THEN Returned
                     ELSE Doing(rest, FALSE, call[p].reports, call[p].paths)]
      /\ acked' = acked \cup IF rest = <<>> THEN {call[p].reports} \ {None} ELSE {}
      /\ behind' = (behind /\ rest # <<>>)

\* FileBackend::store never overwrites a key; fs::write does.
Creates(step) == step.path[1] = "xdg"

\* The file is there, and empty.
Open(p) ==
  /\ Next1(p).verb = "write"
  /\ ~call[p].opened
  /\ Creates(Next1(p)) => ~Exists(files, Next1(p).path)
  /\ files' = Put(files, Next1(p).path, Torn)
  /\ call' = [call EXCEPT ![p] = Doing(call[p].steps, TRUE, call[p].reports,
                                      call[p].paths)]
  /\ UNCHANGED <<scenario, memory, lineage, acked, contended, torn, behind, faults>>

Fill(p) ==
  /\ call[p].opened
  /\ files' = Put(files, Next1(p).path, Next1(p).text)
  /\ Advance(p)
  /\ UNCHANGED <<scenario, memory, lineage, contended, torn, faults>>

Unlink(p) ==
  /\ Next1(p).verb = "remove"
  /\ files' = Drop(files, Next1(p).path)
  /\ Advance(p)
  /\ UNCHANGED <<scenario, memory, lineage, contended, torn, faults>>

\* The call fails: there is such a key already.
KeyExists(p) ==
  /\ ~call[p].opened
  /\ Creates(Next1(p)) /\ Exists(files, Next1(p).path)
  /\ call' = [call EXCEPT ![p] = Returned]
  /\ UNCHANGED <<scenario, files, memory, lineage, acked, contended, torn,
                 behind, faults>>

Step(p) == ~Idle(p) /\ (Open(p) \/ Fill(p) \/ Unlink(p) \/ KeyExists(p))

LeftEmpty(p) == IF call[p].opened THEN {Next1(p).path} ELSE {}

\* A process dies, or a write fails and the call with it.  A mirror keeps
\* what is in its memory, and is behind on disk.
Interrupt(p) ==
  /\ ~Idle(p)
  /\ faults < scenario.faults
  /\ faults' = faults + 1
  /\ call' = [call EXCEPT ![p] = Returned]
  /\ torn' = torn \cup LeftEmpty(p)
  /\ UNCHANGED <<scenario, files, memory, lineage, acked, contended, behind>>

-----------------------------------------------------------------------------
\* Mirror: MemStore and store.ts.

\* Mutation: files that the map does not hold are not pruned.
MirrorWithoutPruning(map, dir) ==
  LET held == Listed(DOMAIN map)
  IN  [i \in DOMAIN held |-> Write(held[i], map[held[i]])]

\* persist: every file of the map in the order of the paths, then the files
\* that the map does not hold are unlinked.
Mirror(map, dir) ==
  LET held == Listed(DOMAIN map)
      stray == Listed(DOMAIN dir \ DOMAIN map)
  IN  [i \in DOMAIN held |-> Write(held[i], map[held[i]])]
      \o [i \in DOMAIN stray |-> Erase(stray[i])]

\* A mutating method.  The binding borrows the graph until its promise is
\* settled, so there is one call at a time; one that throws is not mirrored.
MirrorCall(p, r) ==
  LET done == Flow("mirror", memory, r)
  IN  /\ scenario.host = "mirror"
      /\ Running = {}
      /\ done.steps # <<>>
      /\ memory' = Apply(memory, done.steps)
      /\ behind' = TRUE
      /\ call' = IF done.reports = None THEN call
                 ELSE [call EXCEPT ![p] = Doing(Mirror(memory', files), FALSE,
                                                done.reports, {})]
      /\ Built(memory, done.builds)
      /\ UNCHANGED <<scenario, files, acked, contended, torn, faults>>

\* The host stops, and loads the directory when it starts again.
Reload ==
  /\ scenario.host = "mirror"
  /\ faults < scenario.faults
  /\ faults' = faults + 1
  /\ memory' = files
  /\ call' = [p \in Processes |-> Returned]
  /\ torn' = torn \cup UNION {LeftEmpty(p) : p \in Running}
  /\ behind' = FALSE
  /\ UNCHANGED <<scenario, files, lineage, acked, contended>>

-----------------------------------------------------------------------------
\* A directory is fresh, or holds a graph with its owner's key still inside.
Genesis == CHOOSE x \in Founding : TRUE

Graph0 ==
  [path \in {GraphYaml, StoreKey(NameOf[Genesis]), ChangesetFile(Genesis), HeadFile} |->
     IF path = GraphYaml THEN [id |-> Genesis, trusted |-> {}] ELSE Genesis]

Init ==
  /\ scenario \in Scenarios
  /\ files = IF scenario.start = "fresh" THEN NoFiles
             ELSE Graph0
  /\ memory = IF scenario.host = "mirror" THEN files ELSE NoFiles
  /\ call = [p \in Processes |-> Returned]
  /\ lineage = [x \in Changeset |->
                  IF scenario.start = "fresh" THEN {}
                  ELSE {x} \cap {Genesis}]
  /\ acked = {}
  /\ contended = {}
  /\ torn = {}
  /\ behind = FALSE
  /\ faults = 0

Call(p, r) == NativeCall(p, r) \/ MirrorCall(p, r)

Next ==
  \/ \E p \in Processes, r \in scenario.requests : Call(p, r)
  \/ \E p \in Processes : Step(p) \/ Interrupt(p)
  \/ Reload

\* A process that runs goes on writing; the environment's own steps are not
\* fair, except that somebody who was asked to approve goes on trying.
Approving == {r \in UNION {sc.requests : sc \in Scenarios} : r.op = "approve"}

Fairness ==
  /\ \A p \in Processes : WF_vars(Step(p))
  /\ \A r \in Approving :
       SF_vars(r \in scenario.requests /\ \E p \in Processes : NativeCall(p, r))

Spec == Init /\ [][Next]_vars /\ Fairness

-----------------------------------------------------------------------------
\* Properties.

\* Files that a call is in the middle of rewriting.
Opened == UNION {LeftEmpty(p) : p \in Running}

\* The type invariant.
TypeOK ==
  /\ scenario \in Scenarios
  /\ DOMAIN files \subseteq Range(PathOrder) \cup UserKeys
  /\ DOMAIN memory \subseteq Range(PathOrder)
  /\ \A x \in Changeset :
       /\ lineage[x] \subseteq Changeset
       /\ Intact(files, ChangesetFile(x)) => files[ChangesetFile(x)] = x
       /\ Intact(files, ChangesetFile(x)) => x \in lineage[x]
  /\ \A path \in DOMAIN files :
       files[path] = Torn => path \in torn \cup contended \cup Opened
  /\ faults \in 0..scenario.faults

\* Where the effect of a call is recorded, and whether it is.
Recorded(fact) ==
  CASE fact[1] = "admitted" -> Intact(files, ChangesetFile(fact[2]))
    [] fact[1] = "held" -> \/ Intact(files, ProposalFile(fact[2]))
                           \/ Intact(files, ChangesetFile(fact[2]))
    [] fact[1] \in {"approve", "reject"} ->
         \E path \in {ProposalEvidenceFile(fact[2]), EvidenceFile(fact[2])} :
           <<fact[3], fact[1]>> \in EvidenceIn(files, path).decisions
    [] fact[1] = "attested" ->
         fact[3] \in EvidenceIn(files, EvidenceFile(fact[2])).envelopes
    [] fact[1] = "trusted" ->
         Intact(files, GraphYaml) /\ fact[2] \in files[GraphYaml].trusted
    [] fact[1] = "attested early" -> TRUE
    [] fact[1] = "checkpoint" -> Intact(files, CheckpointFile(fact[2]))
    [] OTHER -> \E x \in Founding : Intact(files, UserKey(x, fact[2]))

Keepers(fact) ==
  CASE fact[1] = "admitted" -> {ChangesetFile(fact[2])}
    [] fact[1] = "held" -> {ProposalFile(fact[2]), ChangesetFile(fact[2])}
    [] fact[1] \in {"approve", "reject"} ->
         {ProposalEvidenceFile(fact[2]), EvidenceFile(fact[2])}
    [] fact[1] \in {"attested", "attested early"} -> {EvidenceFile(fact[2])}
    [] fact[1] = "trusted" -> {GraphYaml}
    [] fact[1] = "checkpoint" -> {CheckpointFile(fact[2])}
    [] OTHER -> {UserKey(x, fact[2]) : x \in Founding}

\* Some other changeset neither descends from x nor is one of its ancestors.
Branched(x) ==
  \E y \in Changeset :
    /\ lineage[x] # {} /\ lineage[y] # {}
    /\ x \notin lineage[y] /\ y \notin lineage[x]

\* A mirror is cut short when the decisions on x are unlinked but x itself is
\* not; on another branch x is then decided and admitted afresh.
DecidedAfresh(fact) ==
  scenario.host = "mirror" /\ fact[1] = "approve" /\ Branched(fact[2])

\* The graph that a measurement was trusted in has been founded again, whole
\* or in part: flows::init does not carry measurements over.
FoundedAnew(fact) ==
  /\ fact[1] = "trusted"
  /\ Intact(files, GraphYaml)
  /\ files[GraphYaml].id # fact[3]

\* What a caller was told has been done is on disk, whatever died since and
\* wherever: it is lost only with the very file that holds it, if a call was
\* interrupted in it, or if two calls rewrote it at once; or, in a mirror, when
\* a changeset that was decided is decided afresh; or, for measurements, when
\* the directory has been made another graph by founding it again.
AckedSurvives ==
  \A fact \in acked :
    \/ Recorded(fact)
    \/ Keepers(fact) \cap (torn \cup contended \cup Opened) # {}
    \/ DecidedAfresh(fact)
    \/ FoundedAnew(fact)

\* HEAD never gets ahead of the history it names (native): whenever it can be
\* read, every changeset it descends from is on disk, and came with evidence of
\* the approvals it needed, however the admission was interrupted; whole, but
\* for a file that was itself interrupted or contended when written once more.
HeadIsDurable ==
  (scenario.host = "native" /\ Intact(files, HeadFile)) =>
    \A x \in lineage[files[HeadFile]] :
      /\ Exists(files, ChangesetFile(x))
      /\ \/ Intact(files, ChangesetFile(x))
         \/ ChangesetFile(x) \in torn \cup contended \cup Opened
      /\ \/ ~Short(EvidenceIn(files, EvidenceFile(x)), x)
         \/ EvidenceFile(x) \in torn \cup contended \cup Opened

\* The private key that a founding or adding changeset makes known the public
\* half of.
KeyOf(f, x) ==
  \E path \in {StoreKey(NameOf[x])} \cup UserKeys :
    Intact(f, path) /\ f[path] = x

\* The private key of a principal in the log or in the inbox is on disk, also
\* when the call that created it was cut short: it is stored before the changeset
\* and never moved by removing it first (native).
KeysComeFirst ==
  scenario.host = "native" =>
    \A x \in Founding \cup Adding :
      Intact(files, ChangesetFile(x)) \/ Intact(files, ProposalFile(x))
      => KeyOf(files, x)

\* Once a mirrored call has returned, the directory is the map: what failed
\* to be mirrored before has been caught up with, and nothing else is left.
MirrorCatchesUp ==
  (scenario.host = "mirror" /\ ~behind) => files = memory

\* A proposal that its author was told is held gets into the log, if those
\* whose approval it needs go on trying, one at a time (native).  Their calls
\* may die between any two steps and leave files empty: what a retry finds is
\* enough to go on, unless the empty file is the proposal itself or HEAD.
EnoughAreAsked(x) ==
  Cardinality({r.by : r \in {q \in scenario.requests \cap Approving : q.on = x}})
    >= Quorum[x]

HeldIsDecided ==
  \A x \in {y \in Changeset : Quorum[y] # 0} :
    /\ scenario.host = "native" /\ scenario.atOnce = 1
    /\ <<"held", x>> \in acked /\ EnoughAreAsked(x)
    ~> \/ Intact(files, HeadFile) /\ x \in lineage[files[HeadFile]]
       \/ torn \cap {ProposalFile(x), HeadFile} # {}
=============================================================================
