# A verification project for Allod

Allod keeps a knowledge graph as a log of signed changesets, and governs the
log by a policy that is itself part of the graph. This directory holds TLA+
models of that system, the TLC configurations that check them, and theorems
about them proved with TLAPS. Paths such as `store.rs:419` are under
`crates/*/src/`; `spec/` is the repository's own specification.

## 1. The system

| Component | State it keeps | Operations | What makes it correct | Modelled in |
|---|---|---|---|---|
| **State and fold** (`allod-core/fold.rs`) | objects by (kind, id): content, revision, tombstone and redaction flags | `apply_changeset` (create, update, delete, redact-document, redact-operation; dangling references; validation rules) | all of a changeset or none; no dangling edges; ids are never reused; optimistic concurrency by `prior` | Fold |
| **Registry** (`registry.rs`, `meta.rs`) | none: derived from the live `meta/*` nodes | `from_state`, `type_satisfies`, `term_closure`, `term_exists` | it is the one in force at the parent of each changeset | Fold, SchemaPackage |
| **Log and proposals** (`store.rs`) | `graph.yaml`, `HEAD`, `changesets/`, `proposals/`, evidence beside each, `checkpoints/` | `append_changeset`, `chain`, `fold_to`, `write_proposal*`, `remove_proposal`, `write_evidence`, `trust_measurement` | HEAD can be walked to genesis and folds; the log only grows; evidence stays with what it justifies | Governance (whole calls), GraphStore (file by file) |
| **Policy evaluator** (`policy.rs`) | none | `evaluate`, `check_satisfied_with`, `path_regions`, `evaluate_git` | the checklist is what the matching rules require; only active keys of bound principals count | Policy, GitGovernance |
| **Building and admission** (`allod-graph/ops.rs`) | none | `build_changeset*`, `admit_or_hold`, `commit*` | a changeset enters the log only with its justification | Governance |
| **Flows** (`flows.rs`) | none | `init`, `decide_payload`, `decide_with_record`, `envelope`, `trust`, `verify`, `checkpoint`, `principal_add`, `install_package` | rejections are final; an audit accepts what was admitted and nothing else | Governance, Audit, GraphStore, SchemaPackage |
| **Native substrate** (`allod-substrate`) | none | `verify_authorship`, ... | the author's key at the parent | Audit |
| **Document store** (`docstore.rs`) | files, or a map in memory | read, write, list, remove | order and durability of single writes | GraphStore |
| **Keys** (`keys.rs`, `sign.rs`) | key files | `store`, `resolve`, `key migrate` | the right key signs; no principal without its key | GraphStore |
| **Hashing** (`hash.rs`) | none | `merkle_root`, `merkle_path`, `verify_merkle_path` | a path proves its leaf and no other | MerkleTree |
| **Federation** (`fed.rs`) | peers and grants as nodes of the graph | `peer_add`, `grant`, `revoke`, `make_bundle`, `verify_bundle`, `import` | only granted regions are disclosed; imports are governed locally | Federation |
| **Git substrate** (`allod-substrate-git`, `gitcmd.rs`) | git notes, a temporary file | `append_decision`, `read_decisions`, `git index`, `git eval`, `git decide` | no decision is lost; a verdict is what the rules ask for | GitGovernance |
| **Code index** (`repo.rs`) | derived nodes of the graph | `import_commit` | the graph mirrors a commit; identity survives re-indexing | CodeIndex |
| **Schema operations** (`schemaops.rs`, `loader.rs`) | none | `compile_schema_ops`, `project_schema`, `load_docs` | the round trip through documents | SchemaPackage |
| **Markdown projection** (`md.rs`) | a directory of files | `export`, `import` | the round trip through files; edits do not overwrite edits | MarkdownBundle |
| **WASM binding** (`allod-wasm`) | a graph in memory, mirrored by a callback | every flow, followed by `persist` | what was acknowledged is durable; the mirror catches up | GraphStore |

How they interact. A client *builds* a changeset on HEAD (`build_changeset`),
then *submits* it (`admit_or_hold`). Submission folds the log (`fold_to`, which
replays the chain through `apply_changeset` with a registry per changeset),
reads the policy out of the folded state, evaluates the operations to a
checklist, and either appends the changeset with its evidence and moves HEAD, or
stores it as a proposal. A decision is prepared (`decide_payload`), signed by
the client, and applied (`decide_with_record`), which re-evaluates the proposal
and admits it once the checklist is met. `envelope` adds attestations to
evidence files, `trust` widens the set of trusted measurements, `verify`
replays everything. Everything else submits changesets of its own making: the
index of a commit, an import from a peer or from a Markdown bundle, the
installation of a package. There are no locks and no transactions: what two
calls of one client or of several agree on is the files.

The hard behaviours are in between calls: a parent that is stale when its
changeset is admitted; policy, roles and keys that change between a signature
and its use; late, replayed and repeated submissions and decisions; a registry
cached across changesets; an audit with today's policy of yesterday's
admissions. One level down they are in between the file writes of one call:
crashes, torn files, two processes at once, a mirror that fails. And across
graphs they are in what arrives late: a bundle after its grant was revoked, a
file of an export after its node was redacted, a commit before the policy that
judges it. PROJECT.json lists them as hazards, each at its line.

## 2. The modules

    Fold <- Policy <- Governance <- Audit <- MCGovernance          the governed log
                          |-- RevisionTree, AppendOnlyLog (INSTANCE)
                    GraphStore <- MCStore                          its files
    Fold, Policy <- CodeIndex <- GitGovernance <- MCGit            code and commits
    MerkleTree, Policy <- Federation <- MCFederation               several graphs
    Fold <- SchemaPackage <- MarkdownBundle <- MCBundle            documents

    FoldProofs <- GovernanceProofs, FederationProofs               theorems
    FoldProofs <- IndexProofs <- GitProofs;  FoldProofs <- MarkdownProofs
    StoreProofs <- MirrorProofs

`A <- B` says that B extends A. Three operators are shared by all: a changeset
is applied by `Fold!ApplyChangeset` everywhere but in GraphStore, judged by
`Policy!Evaluate` and `Policy!Satisfied` wherever authority matters, and the
registry is always derived from the objects.

What is abstracted everywhere. A hash is modelled by the content it hashes, a
changeset's hash by its position or its name, `policy_context` by the policy
document, a signature by the key that made it. Attribute values that nothing
reads are one opaque field, names are resolved, selectors are in disjunctive
normal form, and a validation rule has one edge condition. An id determines the
kind of its object, and `uuid4` takes the next unused id of a constant
sequence, whose order is one the ids may sort in. Documents, merge changesets
(which the code refuses), registry errors and malformed input are left out. A
call that returns an error and changes nothing is no step.

Operators commented *Mutation* are plausible slips of the definition they stand
before. They are used nowhere; replacing the definition by its mutation breaks
the property that PROJECT.json names.

### The governed log

**Fold** has objects, the registry derived from them, `ApplyChangeset`, and one
iteration of `fold_to` (`FoldStep`) with its registry cache; **Policy** has
selectors, `Evaluate` and `Satisfied`. Both are pure operators. **Governance** is
the state machine. Its variables are the files (`changesets`, `evidence`, `head`,
`proposals`, `propEvidence`, `trusted`) and what is not in a file: changesets
that were built (`built`) and decisions that were signed (`signed`). `folded` and
`chain` are functions of `built`; they are variables so that a fold is computed
once per changeset.

| Action | Code |
|---|---|
| `Build` | `build_changeset_body`, `ops.rs:87` |
| `Admit`, `Hold` | the two branches of `admit_or_hold`, `ops.rs:215` |
| `SignDecision` | `decide_payload`, `flows.rs:441`, and the client's signature |
| `Reject`, `StillUnmet`, `AdmitDecided` | the three outcomes of `decide_with_record`, `flows.rs:473` |
| `Attest` | `envelope`, `flows.rs:746` |
| `Trust` | `trust_measurement`, `store.rs:278` |

`principal_add`, `note`, `classify`, `propose_preference`, `commit` and the
federation's `peer_add`, `grant`, `revoke` and `import` are `Build` and then
`Admit` or `Hold`, with operations of their own.

**RevisionTree** is what a content-addressed store promises: revisions are added
below revisions, nothing is removed or re-parented. **AppendOnlyLog** is what the
documentation promises: one entry more at the end. Both are abstract
specifications that Governance is compared with by a refinement mapping.
**Audit** is `flows::verify` as a fold over HEAD's chain with the tip's registry
and policy, and `verify_authorship`.

### The files

**GraphStore** takes the calls of Governance apart. A flow reads what it needs
and yields the document operations it performs, in order (`Flow`); a process
then performs them one at a time, each write by emptying the file (`Open`) and
filling it (`Fill`), as `fs::write` does. `files` is the directory, `call[p]` what
process p has left to do, `memory` the map of a program that embeds the WASM
binding. A changeset is only an identity with ancestors (`lineage`) and a number
of approvals it needs. `acked`, `contended` and `torn` only record what callers
were told, which files two calls rewrote at once, and which were left empty.
`envelope` can report early: it attests what an interrupted admission has left
half done, and finishing that admission writes the same file again. Such a report
is recorded as such (`"attested early"`). `init` has a doc comment that the graph
must be freshly created (`flows.rs:103`) and no check of it, so `InitFlow` has
none either: it writes `graph.yaml` anew over whatever graph is there and appends
its changeset to the log. A measurement is therefore reported as trusted in the
graph that `graph.yaml` named at the time.

| Action | Code |
|---|---|
| `NativeCall` with `InitFlow`, `SubmitFlow`, `PrincipalAddFlow`, `DecideFlow`, `AttestFlow`, `TrustFlow`, `CheckpointFlow`, `MigrateFlow` | the reads and decisions of each flow (`flows.rs:104`, `ops.rs:215`, `flows.rs:297`, `473`, `746`, `740`, `700`, `main.rs:173`) |
| `Open`, `Fill`, `Unlink` | `FsStore::write` and `remove`, `docstore.rs:60`, `90` |
| `KeyExists` | `FileBackend::store`, which never overwrites a key, `keys.rs:145` |
| `Interrupt` | the process dies, or the write fails (external) |
| `MirrorCall` | a mutating method of the binding and its `persist`, `allod-wasm/src/lib.rs:153` |
| `Reload` | the host stops and loads the directory, `store.ts:41` |

### Code and commits

**CodeIndex** is `import_commit` (`repo.rs`): the scanner that finds items, their
ends and calls; what the live nodes of a graph say about entities (`Indexed`);
and the changeset that takes the graph from there to a commit (`ImportOps`), with
the ontology that it is written for (`CodeOntology`, an assumption of the proofs).
**GitGovernance** is a graph that indexes commits, classifies code, changes its
policy, evaluates commits (`Passes`, `EvaluateGit`, `GlobMatch`), and keeps
decisions in their notes.

| Action | Code |
|---|---|
| `Index`, `ApproveHeld` | `allod git index`, `gitcmd.rs`, and the owner's approval of what it holds |
| `Classify`, `Relate`, `Correct`, `InstallPolicy` | the owner's own changesets |
| `StartDecide`, `ReadNote`, `WriteTemp`, `AddNote`, `RemoveTemp` | `allod git decide` and `append_decision`, `allod-substrate-git/src/lib.rs:356`, step by step |
| `Die` | the process dies between two steps (external) |

A call on the graph itself is one action here, and what is held is decided on the
tip it was held on; Governance has the rest.

### Several graphs

**MerkleTree** is `hash.rs`: roots, paths and their verification, with hashes as
pairs, and the loops over levels as recursive functions (`Walk`, `Up`).
**Federation** has several graphs, each with its objects, its policy and
what it holds, and the set of all bundles ever made: a bundle is a file, carried
by any channel, so that it may arrive late, twice, in any order or never. A bundle
is asked for by the id of a grant, but `make_bundle` only looks for a live node
with a region in its scope (`fed.rs:134`); `Serves` is that, and `Write` makes such
nodes that are no grants. The grant and the audience in a bundle are signed by
nobody, so a bundle could be forged or readdressed; the model has only the bundles
that `make_bundle` makes.

| Action | Code |
|---|---|
| `PeerAdd`, `Grant`, `Revoke` | `fed.rs`, changesets of the owner |
| `MakeBundle` | `make_bundle` |
| `Import` | `verify_bundle` and `import` |
| `Update`, `Delete`, `Classify`, `Redact`, `Write` | what owners do meanwhile |
| `Approve` | the owner's approval of what is held |

### Documents

**SchemaPackage** translates schema between documents, nodes and registries:
`compile_schema_ops`, `install_package_ops`, `Registry::from_state`,
`project_schema`, `load_docs`, and `collected_attrs`, which follows a type's
ancestors as far as there are types. **MarkdownBundle** is a graph whose packages
are installed and whose nodes are exported to a directory, edited there
(`EditFile`) and in the graph, and imported.

| Action | Code |
|---|---|
| `Install` | `install_package`, `flows.rs:206` |
| `Export`, `Import` | `md.rs` |
| `EditFile` | somebody with an editor (external) |
| `CreateNode`, `UpdateNode`, `Delete`, `Redact`, `Classify` | changesets on the nodes |

Who may commit what is not asked here: a changeset is admitted if it applies and
there is a policy at all.

## 3. What the runs check

`CHECK_DEADLOCK FALSE` because a graph may simply come to rest; with the bounds
every behaviour does. Every passing run starts in one state per scenario.

| Run | Model, specification | Bounds | Shows |
|---|---|---|---|
| `review` | MCGovernance, `Spec` | 4 changesets (genesis and 3), 2 decisions signed, 2 reviewers, 2 verdicts | Two maintainers must approve notes; the policy is relaxed and made strict again and bob's key rotated meanwhile: `TypeOK`, `HistoryComplete`, `EvidenceIsClean`, `AdmissionJustified`, and that the graph implements `RevisionTree` (`StoresATree`) |
| `attest` | MCGovernance, `Spec` | 3 changesets, 2 attester keys, 1 measurement | A region that needs attestation, reached by a classification made in the same proposal: `AdmissionJustified`, `EvidenceKept` |
| `serial` | MCGovernance, `SerialSpec` | 4 changesets, 2 decisions | Policy, keys, notes and schema change in turn: `TipFolds`, `AuditHolds`, `CacheCoherent`, `VerifyAcceptsStable`, `VerifyReplaysFold` |
| `store` | MCStore, `Spec` | 14 scenarios; at most 2 calls under way and 2 faults | `TypeOK`, `AckedSurvives`, `HeadIsDurable`, `KeysComeFirst`, `MirrorCatchesUp`, and the liveness `HeldIsDecided` |
| `git` | MCGit, `Spec` | 5 scenarios; 4 commits, at most 4 changesets, 2 processes | `TypeOK`, `IndexMatches`, `UpToDate`, `ImportApplies`, `IdentityKept`, `VerdictJustified`, `NotesKeepDecisions` |
| `federation` | MCFederation, `Spec` | 5 scenarios; 2 graphs, at most 7 steps, 2 proposals held per graph | `TypeOK`, `ImportsWereShared`, `ImportsWereReviewed`, `BundlesVerify`, `ProofsAreExact`, `GraphsStaySovereign` |
| `bundle` | MCBundle, `Spec` | 4 scenarios; at most 3 packages, at most 8 steps | `TypeOK`, `ProjectionRoundTrips`, `DocsInForce`, `OnePolicyNode`, `CleanFilesRoundTrip`, `ImportsReplaceWhatWasRead` |
| `log_forks` | MCGovernance, `Spec` | 3 changesets | **violated**: `LogIsAppendOnly` |
| `stale_registry` | MCGovernance, `Spec` | 3 changesets | **violated**: `CacheCoherent` |
| `tip_policy` | MCGovernance, `Spec` | 3 changesets, 2 decisions | **violated**: `AuditHolds` |
| `rejection_lost` | MCGovernance, `Spec` | 3 changesets, 2 decisions | **violated**: `RejectionKept` |
| `unedited_bundle` | MCBundle, `Spec` | 4 scenarios | **violated**: `CleanBundleIsNoEdit` |

The properties in words. Each module has a type invariant besides.

*The governed log.*

- `HistoryComplete`: every admitted changeset has all its ancestors stored.
- `EvidenceIsClean`: no changeset of the log carries a rejection or somebody
  else's decision.
- `AdmissionJustified`: when a changeset enters the log, its evidence gives each
  operation what each rule that matches it asks for, under the tip's policy and
  the keys active there. It is written rule by rule and team by team
  (`Justified`), not by the checklist the code computes, so that it checks
  `Evaluate` and `Satisfied` as well as the handlers. An attestation counts
  whoever the attester is and whichever of their keys signed it, as in the code;
  the documentation asks for more (section 5).
- `AuditHolds`: the same for every changeset of the log, later, under the policy
  of its parent.
- `TipFolds`, `CacheCoherent`: the log can be read; the registry cached for the
  next changeset is the one in force at its parent.
- `EvidenceKept`, `RejectionKept`: what was recorded stays recorded.
- `VerifyAcceptsStable`, `VerifyReplaysFold`: the audit accepts histories whose
  rules have not changed, and ends in the state readers see.

*The files.*

- `AckedSurvives`: what a caller was told has been done is on disk, unless the
  very file that holds it was torn or rewritten by two calls at once; or, for a
  trusted measurement, unless the graph was founded again and `graph.yaml` names
  another (`FoundedAnew`); or, in a mirror that was cut short, unless the changeset
  was then decided afresh on another branch. An early report promises nothing.
- `HeadIsDurable`: HEAD is never ahead of the history it names: every changeset
  it descends from is there, with evidence of the approvals it needed.
- `KeysComeFirst`: no principal is in the log or the inbox whose key is lost.
- `MirrorCatchesUp`: once a mirrored call has returned, the directory is the map.
- `HeldIsDecided`: a held proposal gets into the log if those whose approval it
  needs go on trying, though their calls may die between any two steps.

*Code and commits.*

- `IndexMatches`: after a derivation the graph mirrors its commit: one node per
  entity, one edge per tie and call, and none besides. What was corrected by hand
  is derived afresh, as the code does; the documentation has it spared (section 5).
- `UpToDate`: the index has nothing to do exactly if the graph mirrors the commit.
- `ImportApplies`: a derivation applies to the graph it was made on, unless a
  person's edge ties what vanished.
- `IdentityKept`: an entity keeps its node across commits, and so whatever was
  said of it.
- `VerdictJustified`: a commit passes exactly if every git rule that covers one
  of its changes has its quorum, said of the graph and the note directly.
- `NotesKeepDecisions`: a recorded decision stays in the note, unless two
  processes decided the commit at once.

*Several graphs.*

- `ImportsWereShared`: what a graph has with a peer's lineage, the peer had at
  that revision, in a region that a node live then named, with this graph or the
  public as its audience. The code does not ask for a grant (section 5).
- `ImportsWereReviewed`: where the policy has imports reviewed
  (`ReviewsImports`), foreign objects enter by local review alone.
- `BundlesVerify`: exactly the bundles verify that are meant for the graph, come
  from the key it knows the peer by, and disclose nothing redacted.
- `ProofsAreExact`: the path of an object proves it and no other object.
- `GraphsStaySovereign`: nothing a graph has is overwritten by an import, and
  nothing it deleted comes back.

*Documents.*

- `ProjectionRoundTrips`: projected schema loads as the registry of the state.
- `DocsInForce`: what was installed is in force until its nodes are gone. A
  document that defines nothing makes no node, so what it imports is forgotten.
  Of several documents that define one name, any may be in force, since the code
  has the last node by id decide; the documentation has the next version replace
  the last (section 5).
- `OnePolicyNode`: no package adds a policy node to the one of genesis.
- `CleanFilesRoundTrip`: says exactly which files that nobody edited are taken
  for edits: those that do not say all of their revision (`SaysAll`), because the
  text has blanks at its ends, or because the type has another long text than at
  the export. If that is an empty text which the file has in its front matter, it
  is still no edit. `CleanBundleIsNoEdit` is what the documentation says, that
  no such file is an edit.
- `ImportsReplaceWhatWasRead`: an import overwrites only what was exported. A node
  can have several files, since a classification moves the next export of it to
  another path and nothing removes the old one. Their updates are one changeset,
  in the order of their paths, and the second applies if it was exported from
  what the first one says: so at least one file was exported from the revision
  that is replaced, at least one says what replaces it, and the others say or
  were exported from one of each other.

**The discipline of `SerialSpec`.** Some violated properties hold of a more
careful use of the same code, which `SerialSpec` describes: nothing else is
admitted between the building of a changeset and its own admission, and schema
is altered only by operations that `changeset_touches_meta` notices. The first
is what one command-line user gets, because `commit` builds and submits in one
call and only a proposal can be overtaken; nothing in the code enforces it. The
`review` and `attest` runs and the theorems about `Spec` do without it.

**Bounds.** In the Governance runs `MaxBuilt` bounds the changesets ever built
and `MaxSigned` the decisions ever signed. Three changesets after genesis are
enough for a proposal to be overtaken by a policy change and by a rotation, for
HEAD to go to another branch and back, and for a cache to be filled, kept and
used. Two decisions meet a quorum of two, or reject and approve; a signed record
can be replayed any number of times.

In the other runs a *scenario* is a record that says where the system starts,
what may be asked of it, and how far it may go; the initial state picks one.
This keeps unlike concerns from multiplying, and the bound of each next to the
reason for it.

- `store`: two processes are the fewest that contend, and one fault the fewest
  that leave something behind; Retrying has a second fault in the retry, and
  Migrating two so that both a migration and its repetition are cut short. A
  request about a changeset can be made again at any time, so a call meets
  everything an earlier one left. Readmitting attests an admission that was cut
  short, Refounding trusts a measurement in a graph that has only been half
  founded, and both then finish what was begun; InUse and Renamed found a graph
  again that is in use, while measurements are trusted, keys moved and a principal
  added; in Mirrored a second proposal,
  which needs one approval, moves HEAD while the first is still held, so that the
  log branches. Each changeset can be built once. Mirrored and
  MirroredInit have one host, because the binding borrows its graph until a call
  has settled. The identities are two graphs and two keys of one name, so that a
  second founding or enrolment meets what the first left.
- `git`: Indexing lets the graph follow three commits while it is edited,
  Following four of them back and forth, Crawling is the derivation by a service
  whose rule the policy has, Reviewing has votes on a commit while policy and
  classifications change, Deciding has two processes that may die. The commits
  add, change, move and remove functions, types and files, have two items of one
  name, and one has changes under `.allod/` only. Ids are bounded by `NodeIds`;
  there are enough for the changes allowed.
- `federation`: Sharing hands a note over while it is edited, deleted and the
  grant revoked; in Straying bundles reach the wrong graph or come with another
  key; Reaching discloses by classification, edge and redaction; in Returning an
  import is handed back; in Mislaid notes that name a region, and one of them an
  audience, stand in for grants. Seven steps are a grant, a bundle, an import, its
  approval (which is no step), a classification of what was imported, a grant, a
  bundle and the import back.
- `bundle`: Installing installs three packages in any order, with deletions of
  what they made, a document that defines nothing among them; Editing and Blanking
  export, edit on both sides and import. In Blanking texts begin and end with
  blanks, or are missing, and packages with smaller and larger ids than the
  type's first node change its long text or take it away. In Chaining a routine
  is classified between exports, so that one import has two files of it; eight
  steps are two updates, two exports with a classification between them, edits
  and the import.

**Fairness.** Only GraphStore has liveness, and so fairness. A process that runs
goes on writing (`WF_vars(Step(p))`): the code between two writes of one call is
straight-line. Somebody who was asked to approve goes on trying (`SF` of the
approving calls): that is an assumption about people, and the property says what
their trying is good for; strong, because between tries the call may not be
possible while another is under way. Faults are bounded, so a call dies only
finitely often. Nothing else in the library runs by itself; a proposal waits
until somebody decides it, and all other properties are safety properties.

**External.** The file system (`Interrupt`), the editor (`EditFile`) and git
(commits, trees and `git notes add`) are modelled by how the code uses them.
`fs::write` is an open that truncates and a write; a crash of the machine that
reorders writes to different files is not modelled.

## 4. What is proved

Each theorem holds for every value of the constants, under the assumptions
named in the modules: kinds of objects are disjoint (`KindsAreDisjoint`), genesis
folds by its own schema, the catalogue of requests is well formed
(`GenesisAssumption`, `CatalogueAssumption`), new ids are fresh and distinct
(`IdAssumption`, `FederationAssumption`), ids have an order in which hashes are
taken (`OrderAssumption`), trees and scenarios are made of what they are said to
be made of (`TreeAssumption`, `GitAssumption`, `ChangesetAssumption`,
`ScenarioAssumption`), genesis installs the code ontology and no package has a
validation rule about code (`OntologyAssumption`; the profile `code` of
`flows.rs:77` installs `core` and `code`, and neither has rules), a policy's roles are finite, its quorums unsigned and its
patterns texts (`PolicyAssumption`; `policy.rs:305`), a path has a name and the
scanner knows four kinds of items (`NameAssumption`; `repo.rs:61`), a graph
starts with the schema its documents define and one policy node, documents define
finitely much, and blocks of minted ids are new and disjoint (`BundleAssumption`;
`flows.rs:104`). TLC checks the assumptions on every instance.

**FoldProofs**, about `ApplyChangeset` for changesets of any length, any state
and any registry. `TombstonesAreFinal`: no object disappears, is undeleted, or
gets content that the changeset does not write. `AcceptedAlike`: two registries
that accept a changeset make the same of it. `CreationIsOnce`: a changeset that
creates or deletes applies at most once on a history. The operations are folded
by a function on an interval, and the proofs are by induction on it. The module
also has what the others need of sequences (what `SetToSeq` and `FlattenSeq`
give, for any set and any list of lists) and of one object's way through a
changeset (`Touched`, `Untouched`). The
library's induction theorems take an operator as a parameter and cannot be
used, so `Induction` is proved for sets of numbers from the well-foundedness of
strict inclusion of finite sets, by the least counterexample.

**GovernanceProofs**. Of `Spec`: `TypeCorrect`, `HistoryIsComplete`,
`EvidenceStaysClean`, and `StoreIsATree`, that the graph implements
`RevisionTree`. Of `SerialSpec`: `TipAlwaysFolds`, `CacheIsCoherent` and
`LogAppends`, that HEAD's history is an append-only log. The inductive
invariant `IInv` is the type invariant, strengthened by what `built` and `chain`
owe each other: a changeset's parent was in the log when it was built, and its
chain is its parent's chain with itself at the end. `HistoryComplete` needs this
because admission checks neither the parent nor the chain; it is the building on
HEAD that makes it true, and no file is ever removed from `changesets/`.
`EvidenceIsClean` needs that evidence moves from a proposal to the log only past
the guard of `decide_with_record`, that an envelope adds no decision, and that a
proposal's decisions all name it. The refinement maps a revision to its parent
and HEAD to the tip. `SerialInv` adds that the tip folds: the admission's dry run
uses the tip's registry, the fold the cached one, and the two are the same
because a cache is dropped or still right after every changeset.
`EveryAdmissionIsJustified`: of `Spec`, `AdmissionJustified`, for every
catalogue, policy and interleaving; that is, the checklist of `Evaluate` and the
test of `Satisfied` together imply the declarative `Justified`. It needs
`FoldInv` (folded states are made of what the catalogue writes), and
`TeamExists`, that a set of n approvers has a subset of each smaller size.
`EvidenceIsKept`: of `Spec`, `EvidenceKept`.

Its second half is about the audit. `LogStaysAuditable`: of `SerialSpec`,
`AuditHolds`. It assumes
`RequestsCreate`, that every request creates or deletes something. Without it a
changeset of updates that undo one another can be submitted again and applied
again, and its evidence is then written over with whatever admits it under the
policy of today; `CreationIsOnce` rules that out. The invariant also needs that
HEAD is a leaf of the tree (`HeadIsLeaf`). `VerifiedReplayIsTheFold`: of `Spec`,
`VerifyReplaysFold`, by induction along HEAD's chain: verify applies every
changeset by the tip's registry, the fold by another, and what both accept they
make alike. `StableHistoriesVerify`: of `SerialSpec`, `VerifyAcceptsStable`.
Here the audit has to pass on purpose: each changeset of the chain is accepted by
the tip's registry and policy because, in a stable history, they are those it was
admitted by. The invariant (`AllFine`) says that what `admit_or_hold` and
`decide_with_record` asked of the tip still holds of each stored changeset at its
parent, author included. Genesis was never asked anything, hence the assumption
`GenesisStands`, that its own schema accepts it.

**FederationProofs**. `GraphsAreSovereign`: of `Spec`, `GraphsStaySovereign`. The
invariant (`FedInv`) says that what a graph holds are single *mild* operations: an
update among them names no lineage that its object did not have. An import names
one, but it is a creation, and creating is refused for an id that was ever used.
The other five theorems are of `Spec` as well and rest on `SourceInv`. It follows
an object with a peer's lineage back to where it comes from: what is stored, held
or bundled with that lineage is something the peer had, at that revision, in a
region that a node, live then, named with the reader as its audience
(`OnlySharedIsImported`, `TypeCorrect`; that this node was a grant is false of the
code, see section 5); where a policy has imports reviewed, what is foreign got in
through `Approve` and nothing else (`OnlyReviewedIsImported`); and a bundle is the
checkpoint it was made at, so that its verdict can be told from it at any later
time (`BundleVerdicts`). Two theorems are about Merkle trees of every size.
`PathsLeadToTheRoot`: the path of each leaf leads to the root, by induction on
the levels, with odd hashes promoted on any of them. `PathsProveOneLeaf`: no
other leaf leads there along the same path, since a hash is what it hashes.
`BundleProofsAreExact` is both of them for the leaves of a state in the order of
their hashes.

**GitProofs**. `DecisionsAccumulate`: of `Spec`, `NotesKeepDecisions`, for any number
of processes. The invariant says that two processes on one commit have been
recorded as such, and that a process alone with its commit is on its way: what it
is about to write, what its file holds, or what the note holds is the note as it
was with its record added. `TypeCorrect`: of `Spec`, `TypeOK`, from `TypeInv`. Its
larger part is about ids (`IdInv`): `ImportOps` mints ids that neither an object,
alive or deleted, nor a held import has, so that what is held can be applied
later, whatever was applied before it. It rests on what a changeset may add to a
state (the last section of FoldProofs).

`IndexMirrorsCommit`, `IndexingIsIdempotent` and `NodesOutliveCommits`: of `Spec`,
`IndexMatches`, `UpToDate` and `IdentityKept`, for commits of any size. What the
graph says of code is an operator of its objects (`Indexed`), found by walking
edges, so that one extra edge or a node of the wrong type would make it say
something else; none of the three is inductive. The invariant (`IndexInv`) says
that the live derived objects have a *shape* (`Shape`): there are a set of
entities, a set of pairs, and a home for each of their *slots* (an entity, the
edge that ties it to its file or the repository, a pair that is drawn), such that
homes are live objects, each slot has its own, no live derived object is the home
of nothing, and each home's content is that of its slot. IndexProofs has it as a
bijection between the slots and the live objects: `Indexed` is then the entities
with their homes (`EntityMap`), and an import is the shape of the commit
(`ImportKeeps`, `ImportMirrors`), where entities that were there before keep
their homes. The import's operations are folded in one go, by ids that are not
in use (`IdInv`), for deletions, updates and creations in the order in which
`repo.rs` puts them. What the owner does meanwhile stays outside the shape: a
reference is an edge of another type, a classification is no node, and the policy
node is no code (`PolicyInv`). A derivation that is held is that of the graph it was
held on, which `ApproveHeld` asks for (`HeldInv`). An edit of a signature keeps
the shape but not the mirror, which is what `asserted` excuses in `IndexMatches`.

`DerivationsApply`: of `Spec`, `ImportApplies`. That a derivation is refused for no
other reason than a reference that a person drew is a statement about every
operation of it, at the point of the fold where it is checked (`ImportAllowed`).
For that `ImportOrder` says that no two operations are on the same object, so that
each finds its object as it was in the graph, with the revision that it names, and
that an edge is created after the new nodes it ties; `NodeThere`, that the nodes it
ties are then live and of types that the ontology lets it tie; `ImportResolves`,
that no edge of the index is left dangling, so that the result resolves exactly if
no other edge does; `ImportRules`, that no validation rule has a say. The invariant
(`SchemaInv`) adds that the registry is the one genesis made, since neither
derivations nor edits touch nodes that define something (`SameRegistry`), that
every edge resolves, and that live edges outside the index are references between
nodes.

`VerdictsAreJustified`: of `Spec`, `VerdictJustified`. Evaluator and property say
the same of a commit in different words, and each difference is a lemma.
`GlobsSpell`: the matcher's table of positions accepts what `Spells` describes,
by induction on the pattern; both are led back to *cuts* of the text, one before
each character of the pattern (`GlobCuts`, `CutsSpell`, `SpellCuts`).
`PathInRegion`: the evaluator looks a path up among the files of the graph and
follows declaration edges from there, the property asks what entity each node
stands for; that both reach the same nodes is what the shape of the index says.
It also needs that classifications have a subject (`Marked`, kept by every step
because imports only touch nodes and edges). `QuorumIs`: enough approvals are a
team of as many (`TeamExists`).

**StoreProofs**, of `Spec` with native hosts, for any number of processes,
changesets and interruptions. Three invariants, each on top of the one before.

`HeadStaysDurable`: `HeadIsDurable`. It speaks of the changesets that HEAD
descends from; it is not inductive, because HEAD moves to what a call decided
long before. The invariant (`StoreInv`) says of every changeset that has been
HEAD that it is there with its evidence, and of every call under way that what it
has left is *orderly*: a write of HEAD comes after the changeset and enough
evidence, on disk or among the call's own earlier writes, and a write that would
take evidence away is of a changeset not yet in the log, or of a file that is
contended. A new changeset descends from HEAD, so building one makes nothing else
an ancestor. The proof has one lemma on what each kind of step does to the files
(`OpenEffect`, `FillEffect`, `UnlinkEffect`, `StopEffect`), one that such an
effect preserves the invariant (`StepKeepsInv`), and one that the steps of every
flow are orderly when they are decided on (`FlowIsTame`, `AttestIsOrderly`).

`PrincipalsCanSign`: `KeysComeFirst`. `KeyInv` adds that a call which will publish
a founding or adding changeset has its private key on disk or writes it first;
that a key is removed from the directory only when the same call has put it in
that of the user; and that the file of a user's key, which is created and never
overwritten, is filled by the process that created it.

`AckedStays`: `AckedSurvives`. A measurement may also go when its graph is founded
again, and in no other way: every write of `graph.yaml` that a call has left either
has the measurement or names another graph. `AckInv` adds where each report, made or still to be
made, is recorded (`Kept`): in a file, or among the writes that its own call has
left, while no other call will take it away unless the file is contended or torn.
For a decision this follows it from the evidence of the proposal to that of the
changeset (`Inboxed`, `InLog`); for what is held, from the inbox to the log. It
needs that an empty file is one that was broken (`EmptyIsShaken`), that changesets
are written by calls that may (`Born`), and that a proposal is removed when its
changeset is stored (`Ordered`). `KeptStays` has the steps of calls,
`KeptWithCall` and `ReportWithCall` a new call, `FlowIsFine` what flows ask for.

**MirrorProofs**, of `Spec`, on both hosts. `TypeCorrect`: `TypeOK`. A document is
*proper* if it is what its path promises (HEAD a changeset, a changeset's file
that changeset, `graph.yaml` a founded graph), and the invariant (`TypeInv`) says
so of the files, of the map, and of everything that calls have left to write; a
flow that reads proper documents yields proper writes (`FlowYields`).
`MirrorIsCaughtUp`: `MirrorCatchesUp`. Not inductive by itself, since the directory
differs from the map while a call is mirrored. `MirrorInv` says that then every
step left makes the two agree on a path, and that on every path where they differ
there is a step left; when none is, they are equal. That `persist` starts so needs
that it goes through exactly the paths of the map and of the directory
(`ListedIsRight`), for any number of changesets.

**MarkdownProofs**, of `Spec`, for packages, graphs and directories of any size
and texts of any length. It begins with what recursive functions compute:
`SelectedIs`, that a selection from a sequence has exactly the chosen members in
their order; `SchemaCompiled`, that the bodies of an installation are the elements
of the documents, their terms and the policy; `TextComesBack`, that a text
survives export and import exactly if it neither begins nor ends in a blank.

The invariant (`IInv`) follows revisions back to where they come from. Content is
the revision, or was redacted (`Honest`). A node is schema or content, never one
after the other; schema of a package comes from an installed document, and a
policy is at the policy's node (`NodesOK`); each element of an installed document
has a node (`Standing`); and a file that nobody edited says its revision, all but
one attribute, which is the body (`FileOK`). Neither `OnePolicyNode` nor
`DocsInForce` is inductive without it: an import is of content only because files
are exported from content, so it cannot turn a note into a policy; and an
installation finds the policy node by its type.
`NoPolicyJoins`: `OnePolicyNode`, for which `InstallOpIs` says that a policy
replaces the policy and anything else gets an id of its own.
`InstalledIsInForce`: `DocsInForce`. Each element of the document has a live node,
and of several nodes for one name the one that counts is in turn an element of a
document of that package (`AssembledIs`, `FoundIsDefined`).
`ProjectedSchemaLoads`: `ProjectionRoundTrips`, which holds of every state. Terms
are sorted by name on the way out, which keeps the last one of each name
(`ByNameKeeps`), and the last one counts on the way in.
`UneditedFilesAreKnown`: `CleanFilesRoundTrip`, by cases on the long text of the
export and that of the import. `ImportsKeepWhatTheyDidNotRead`: the action
property `ImportsReplaceWhatWasRead`. The changeset has one update for each edited
file (`ImportOpsAre`, `SortedIs`); by induction on it, each object on the way is
what it was, or some update was from there and some to what it is (`Updated`), so
that each update is from what was there or from what another one says (`Founded`).
What `collected_attrs` makes of a type is never needed: the theorems hold whatever
attribute a type marks as its long text. `FilesNameTheirNodes`: `TypeOK`.

**Only model-checked.**

- The part of `AckedSurvives` about mirrors. Its proof would need what a mirror
  writes to stay between the reports and the map through any number of cut-short
  mirrorings on branches of the log; `MirrorIsCaughtUp` is the half of it that is
  about the files.
- `HeldIsDecided`: liveness is out of the prover's reach.

## 5. Disagreements between the code and its documentation

Five are runs that are expected to find a violation; PROJECT.json quotes the
documentation. A stale parent takes changesets out of the log (`log_forks`);
redacting a schema node does not refresh the registry (`stale_registry`); the
tip's policy decides, not the parent's (`tip_policy`); resubmission erases a
rejection (`rejection_lost`); and a file of a bundle that nobody touched may
count as edited (`unedited_bundle`).

Others were met while modelling and have no run of their own. The models have the
code's behaviour, and the properties are stated so that they hold of it:

- **Founding again.** `init` has the doc comment that the graph must be freshly
  created (`flows.rs:103`) and no check. On a graph in use it writes `graph.yaml`
  with the hash of the changeset it has just built on HEAD, which drops the trusted
  measurements, and appends that changeset (`flows.rs:153`, `161`). The graph's id is
  then not the hash of its genesis, against `spec/09-federation.md:29`, and a key
  stored in the user's directory stays under the old id, where `signer` no longer
  looks for it (`store.rs:378`). `AckedSurvives` allows for it (`FoundedAnew`).
- **What discloses.** Any live node with a region in its scope is taken for a grant
  of that region (`fed.rs:134`): a note that names one discloses it, and if it names
  an audience too, what it discloses is imported there. `spec/00-preliminaries.md:101`
  has disclosure authorized by a grant, and `spec/09-federation.md:74` has a graph
  require owner sign-off on grants. `ImportsWereShared` is of such nodes.
- **Who attests.** An envelope counts if it is signed by any key its attester ever
  had (`policy.rs:794`), where `spec/06-principals.md:41` ends the trust in what a
  key signs after it was revoked. `Justified`, and so `AdmissionJustified` and
  `AuditHolds`, accept it as the code does.
- **What an index may write over.** A derivation updates each derived node that
  differs from the commit, also where its owner corrected it (`repo.rs:489`), and a
  rule for services lets that in unseen; `spec/08-indexing.md:112` says that
  regeneration must never silently overwrite an asserted claim. `IndexMatches` and
  `UpToDate` are of the code.
- **Versions of a type.** Of two definitions of one name the one whose node has the
  last id is in force (`meta.rs:195`); ids are random, versions are written (always
  1, `schemaops.rs:352`) but never compared, and nothing keeps an admitted version
  from being defined otherwise. `spec/02-schema.md:12` and `109` make versions
  immutable, and a change the admission of version N+1. `DocsInForce` asks only that
  some installed document gave the definition.
- **Terms of one name.** Of two declarations of a term in one taxonomy the last
  replaces the others (`registry.rs:71`), so an installation can take parents away
  and with them requirements; `spec/02-schema.md:81` to `86` unite the parents.
  `ProjectionRoundTrips` is of the code's rule.
- A rule can name the class of attester it wants (`spec/04:74`); the evaluator
  puts the class in its report and compares it with nothing (`policy.rs:822`), so
  `Justified` accepts an envelope by anybody.
- One changeset that does not apply makes every later fold fail
  (`store.rs:546`), where `spec/03` has it skipped and flagged. It gets into the
  log on a stale parent; `TipFolds` is checked under `SerialSpec` only.
- `verify` judges the past by the present policy, which its FIXME at
  `flows.rs:925` concedes; `VerifyAcceptsStable` says what is left.
- A redacted object that a bundle discloses makes the whole bundle fail
  (`fed.rs:382`), where `spec/05` degrades the result for that content only.
- The mirror writes files in the order of their names, so a host that stops
  during the first `persist` can leave genesis without its owner's key, against
  the comment in `init` (`flows.rs:148`); `KeysComeFirst` is of native hosts.
- `git eval` takes regions from the graph's tip, where `spec/08` has the state
  at the parent; `VerdictJustified` is of the tip.
- One stale file makes the whole import of a bundle fail (`md.rs:338`), where
  `spec/07` has the rest ingested.
- An admitted changeset that only updates or redacts, submitted once more, may
  apply once more and have its evidence written over. `EvidenceKept` allows for
  it, and `LogStaysAuditable` assumes it away (`RequestsCreate`).

## 6. Not modelled

- The **linter**, the **test vectors** and the **substrate conformance suite**:
  they check documents or implementations and change no state.
- **Text**: formatting and parsing of YAML, Markdown and front matter, type
  expressions, vocabularies, intents and reports; of `repo.rs`, `semantic_diff`,
  a report. They are pure functions of one argument, within reach of tests.
- **Cryptography and encodings**: signatures and hashes are ideal; canonical
  bytes are what the vectors are for.
- The **keychain** backend, which is the operating system's, and the conversion
  of values between Rust and JavaScript.
- **Forged bundles**: a bundle's grant and audience are signed by nobody, and
  every bundle of the model was made by `make_bundle`.
- **Details that no property depends on.** `Fold!RegistryOf` unites several
  definitions of one name, where `meta.rs:195` keeps the last by id; no instance of
  Governance has two, and SchemaPackage has the code's rule. `RedactedContent`
  drops the provenance, which `fold.rs:238` keeps. `ContentDiffers` compares the
  attributes that a derivation writes, `repo.rs:328` the whole maps; an edit of the
  models adds no attribute. In GraphStore the keys that approvals are made with
  are not files, as those of founders and added principals are.
- The comparison of a **checkpoint** with the replayed state in `verify`, and
  attribute types of payloads in `validate_payload`: equalities of data that the
  models do not have.
- The **command line**, but for `decide` and `key migrate`, which do several
  things of their own; the rest parses arguments and calls a flow.

## 7. Where to go from here

In the order of what it would add: `AckedSurvives` for mirrors; a composition of
GitGovernance with Governance, in which derivations are overtaken while they are
held; an owner who installs packages in between, whose validation rules may then
refuse a derivation; a machine crash that reorders writes.
