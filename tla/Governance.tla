----------------------------- MODULE Governance -----------------------------
(***************************************************************************)
(* One graph and its clients: changesets are built on the head, submitted, *)
(* admitted or held as proposals, decided, and attested, each handler of   *)
(* allod-graph one atomic action.  What interleaves is the clients: a      *)
(* changeset is built in one call and submitted in a later one, a decision *)
(* is fetched, signed and applied in three, and any of them may be late,   *)
(* repeated, or overtaken by other admissions.                             *)
(*                                                                         *)
(* A changeset's hash is its position in built; the parent it names was    *)
(* built before it.  Building twice on the same parent within the second   *)
(* of the timestamp yields the same changeset, so built has no duplicates. *)
(***************************************************************************)
EXTENDS Policy

CONSTANTS
  Genesis,       \* the changeset that flows::init appends: [author, key, ops]
  Requests,      \* what clients ask to commit: a set of [author, key, ops]
  Roots,         \* names with root authority in graph.yaml
  Signers,       \* who holds which private key: a set of [principal, key]
  Attesters,     \* the signers that make attestation envelopes
  Verdicts,      \* verdicts that clients give
  Measurements,  \* tool measurements of simulated evidence
  MaxBuilt,      \* bound: changesets ever built
  MaxSigned      \* bound: decision records ever signed

ASSUME BoundsAssumption == MaxBuilt \in Nat \ {0} /\ MaxSigned \in Nat

\* Genesis installs the policy, and is accepted by its own schema.
ASSUME GenesisAssumption ==
  /\ FoldGenesis(Genesis.ops).ok
  /\ TouchesMeta(EmptyState, Genesis.ops)

\* Operations come in a sequence; a policy binds each role to finitely many
\* names and asks for a natural number of approvals.
ASSUME CatalogueAssumption ==
  \A request \in Requests \cup {Genesis} :
    /\ Len(request.ops) \in Nat
    /\ \A i \in 1..Len(request.ops) :
         LET op == request.ops[i]
         IN  op.verb \in {"create", "update"} /\ TypeOf(op.body) = "meta/Policy"
             => LET policy == op.body.definition
                IN  /\ \A role \in DOMAIN policy.roles :
                         IsFiniteSet(policy.roles[role])
                    /\ \A rule \in policy.rules : \A need \in rule.reviewers :
                         need[2] \in Nat

VARIABLES
  built,         \* the changesets, as a sequence of [request, parent]
  folded,        \* folded[h]: what fold_to computes for the chain up to h
  chain,         \* chain[h]: the hashes from genesis to h
  changesets,    \* hashes with a file changesets/H.yaml
  evidence,      \* the files changesets/H.evidence.yaml, by hash
  head,          \* the file HEAD
  proposals,     \* hashes with a file proposals/H.yaml
  propEvidence,  \* the files proposals/H.evidence.yaml, by hash
  signed,        \* decision records that clients have signed
  trusted        \* trusted_measurements of graph.yaml

log  == <<changesets, evidence, head>>
inbox == <<proposals, propEvidence>>
vars == <<built, folded, chain, log, inbox, signed, trusted>>

Hashes == DOMAIN built
Ops(h) == built[h].request.ops
Author(h) == built[h].request.author

-----------------------------------------------------------------------------
\* What every handler loads first: the state, registry and policy of the
\* tip.  A log that does not fold, or holds no policy, fails them all.

Tip == folded[head].objects
TipRegistry == RegistryOf(Tip)

PolicyNodes(s) == {id \in LiveNodes(s) : TypeOf(s[id].content) = "meta/Policy"}
PolicyOf(s) == s[CHOOSE id \in PolicyNodes(s) : TRUE].content.definition

Loads == folded[head].ok /\ PolicyNodes(Tip) # {}

NoEvidence == [decisions |-> {}, envelopes |-> {}]

ProposalEvidence(h) ==
  IF h \in DOMAIN propEvidence THEN propEvidence[h] ELSE NoEvidence

Rejected(doc) == \E record \in doc.decisions : record.verdict = "reject"

\* Mutation: remove_proposal forgets the evidence file.
WithoutNothing(f, h) == f
Without(f, h) == [x \in DOMAIN f \ {h} |-> f[x]]

\* admit_or_hold and decide_with_record ask the same question of the tip.
Admissible(h, doc) ==
  /\ PrincipalNodes(Tip, Author(h)) # {}
  /\ LET policy == PolicyOf(Tip)
     IN  Satisfied(Tip, policy, Roots, Author(h), h,
                   Evaluate(TipRegistry, policy, Tip, Ops(h),
                            AuthorKind(Tip, Author(h))),
                   doc, trusted)

Unmet(h, doc) == PrincipalNodes(Tip, Author(h)) # {} /\ ~Admissible(h, doc)

\* Mutation: the changeset is appended without the validation dry run.
NeverValidated(h) == TRUE
AppliesToTip(h) == ApplyChangeset(TipRegistry, Tip, Ops(h)).ok

\* append_changeset: the changeset, its evidence, then HEAD.
AppendChangeset(h, doc) ==
  /\ changesets' = changesets \cup {h}
  /\ evidence' = Put(evidence, h, doc)
  /\ head' = h

-----------------------------------------------------------------------------
\* Mutation: a client chains its changesets locally, on what it built last.
BuildOnLast(request) ==
  LET cs == [request |-> request, parent |-> Len(built)]
  IN  /\ Len(built) < MaxBuilt
      /\ folded[head].ok
      /\ cs \notin {built[h] : h \in Hashes}
      /\ built' = Append(built, cs)
      /\ folded' = Put(folded, Len(built) + 1,
                       FoldNext(folded[Len(built)], request.ops))
      /\ chain' = Append(chain, Append(chain[Len(built)], Len(built) + 1))
      /\ UNCHANGED <<log, inbox, signed, trusted>>

\* build_changeset: the parent is the head at the time of the call.
Build(request) ==
  LET cs == [request |-> request, parent |-> head]
  IN  /\ Len(built) < MaxBuilt
      /\ folded[head].ok
      /\ cs \notin {built[h] : h \in Hashes}
      /\ built' = Append(built, cs)
      /\ folded' = Put(folded, Len(built) + 1, FoldNext(folded[head], request.ops))
      /\ chain' = Append(chain, Append(chain[head], Len(built) + 1))
      /\ UNCHANGED <<log, inbox, signed, trusted>>

\* admit_or_hold when nothing is unmet.  Neither the parent nor an earlier
\* submission of the same changeset is looked at.
Admit(h, envelopes) ==
  LET doc == [NoEvidence EXCEPT !.envelopes = envelopes]
  IN  /\ Loads
      /\ Admissible(h, doc)
      /\ AppliesToTip(h)
      /\ AppendChangeset(h, doc)
      /\ UNCHANGED <<built, folded, chain, inbox, signed, trusted>>

\* admit_or_hold otherwise: the proposal is not validated, and its evidence
\* file starts over.
Hold(h, envelopes) ==
  LET doc == [NoEvidence EXCEPT !.envelopes = envelopes]
  IN  /\ Loads
      /\ Unmet(h, doc)
      /\ proposals' = proposals \cup {h}
      /\ propEvidence' = Put(propEvidence, h, doc)
      /\ UNCHANGED <<built, folded, chain, log, signed, trusted>>

\* decide_payload, then the client's signature over the payload.
SignDecision(h, verdict, signer) ==
  /\ h \in proposals
  /\ ~Rejected(ProposalEvidence(h))
  /\ Loads
  /\ Cardinality(signed) < MaxSigned
  /\ signed' = signed \cup {[subject  |-> h,
                             context  |-> PolicyOf(Tip),
                             verdict  |-> verdict,
                             deciders |-> {signer}]}
  /\ UNCHANGED <<built, folded, chain, log, inbox, trusted>>

\* Mutation: a decision is accepted although another one rejected.
DecisionAlwaysAccepted(h, record) ==
  record.subject = h /\ h \in proposals

\* decide_with_record, up to the verdict.
DecisionAccepted(h, record) ==
  /\ record.subject = h
  /\ h \in proposals
  /\ ~Rejected(ProposalEvidence(h))

WithDecision(h, record) ==
  [ProposalEvidence(h) EXCEPT !.decisions = @ \cup {record}]

\* A rejection is recorded before the graph is even loaded.
Reject(h, record) ==
  /\ DecisionAccepted(h, record)
  /\ record.verdict = "reject"
  /\ propEvidence' = Put(propEvidence, h, WithDecision(h, record))
  /\ UNCHANGED <<built, folded, chain, log, proposals, signed, trusted>>

StillUnmet(h, record) ==
  /\ DecisionAccepted(h, record)
  /\ record.verdict # "reject"
  /\ Loads
  /\ Unmet(h, WithDecision(h, record))
  /\ propEvidence' = Put(propEvidence, h, WithDecision(h, record))
  /\ UNCHANGED <<built, folded, chain, log, proposals, signed, trusted>>

\* The changeset is appended with the parent it was built on.
AdmitDecided(h, record) ==
  /\ DecisionAccepted(h, record)
  /\ record.verdict # "reject"
  /\ Loads
  /\ Admissible(h, WithDecision(h, record))
  /\ AppliesToTip(h)
  /\ AppendChangeset(h, WithDecision(h, record))
  /\ proposals' = proposals \ {h}
  /\ propEvidence' = Without(propEvidence, h)
  /\ UNCHANGED <<built, folded, chain, signed, trusted>>

\* Mutation: an envelope starts the evidence file over.
AttestAfresh(h, signer, measurement) ==
  LET new == [subject |-> h, attester |-> signer.principal,
              key |-> signer.key, evidence_type |-> "simulated",
              measurement |-> measurement]
  IN  /\ folded[head].ok
      /\ PrincipalNodes(Tip, signer.principal) # {}
      /\ signer.key = FindPrincipal(Tip, signer.principal).content.firstKey
      /\ EvidenceHolds(new, trusted)
      /\ evidence' = Put(evidence, h, [NoEvidence EXCEPT !.envelopes = {new}])
      /\ UNCHANGED <<built, folded, chain, changesets, head, inbox, signed,
                     trusted>>

\* flows::envelope checks the attester's signature against the key listed
\* first, whatever its status, and writes to the evidence of an admitted
\* changeset, whether or not h was admitted.
Attest(h, signer, measurement) ==
  LET old == IF h \in DOMAIN evidence THEN evidence[h] ELSE NoEvidence
      new == [subject |-> h, attester |-> signer.principal,
              key |-> signer.key, evidence_type |-> "simulated",
              measurement |-> measurement]
  IN  /\ folded[head].ok
      /\ PrincipalNodes(Tip, signer.principal) # {}
      /\ signer.key = FindPrincipal(Tip, signer.principal).content.firstKey
      /\ EvidenceHolds(new, trusted)
      /\ evidence' = Put(evidence, h, [old EXCEPT !.envelopes = @ \cup {new}])
      /\ UNCHANGED <<built, folded, chain, changesets, head, inbox, signed,
                     trusted>>

Trust(measurement) ==
  /\ trusted' = trusted \cup {measurement}
  /\ UNCHANGED <<built, folded, chain, log, inbox, signed>>

\* Envelopes that may accompany a submission carry no evidence.
PlainEnvelopes(h) ==
  {[subject |-> h, attester |-> signer.principal, key |-> signer.key,
    evidence_type |-> "none", measurement |-> None] : signer \in Attesters}

-----------------------------------------------------------------------------
\* flows::init has written graph.yaml and appended genesis.
Init ==
  /\ built = <<[request |-> Genesis, parent |-> 0]>>
  /\ folded = <<FoldGenesis(Genesis.ops)>>
  /\ chain = <<<<1>>>>
  /\ changesets = {1}
  /\ evidence = EmptyState
  /\ head = 1
  /\ proposals = {}
  /\ propEvidence = EmptyState
  /\ signed = {}
  /\ trusted = {}

Submit(h) ==
  \E envelopes \in {{}} \cup {{e} : e \in PlainEnvelopes(h)} :
    Admit(h, envelopes) \/ Hold(h, envelopes)

Decide(h) ==
  \E record \in signed :
    Reject(h, record) \/ StillUnmet(h, record) \/ AdmitDecided(h, record)

Next ==
  \/ \E request \in Requests : Build(request)
  \/ \E h \in Hashes \ {1} : Submit(h)
  \/ \E h \in Hashes, verdict \in Verdicts, signer \in Signers :
       SignDecision(h, verdict, signer)
  \/ \E h \in Hashes : Decide(h)
  \/ \E h \in Hashes, signer \in Attesters, m \in Measurements :
       Attest(h, signer, m)
  \/ \E m \in Measurements : Trust(m)

Spec == Init /\ [][Next]_vars

-----------------------------------------------------------------------------
\* The use of the graph under which its log is what the documentation says:
\* nothing is admitted between the building of a changeset and its own
\* admission, and schema is only redefined by operations that the fold's
\* registry cache notices.

Serial == head' # head => built'[head'].parent = head

\* The fold re-derives the registry whenever the changeset alters it.
NoticesSchema(f, ops) ==
  TouchesMeta(f.objects, ops)
  \/ RegistryOf(FoldNext(f, ops).objects) = RegistryOf(f.objects)

SerialNext ==
  /\ Next
  /\ Serial
  /\ \A request \in Requests :
       built' = Append(built, [request |-> request, parent |-> head])
       => NoticesSchema(folded[head], request.ops)

SerialSpec == Init /\ [][SerialNext]_vars

-----------------------------------------------------------------------------
\* Properties.

EvidenceDocs == {evidence[h] : h \in DOMAIN evidence} \cup
                {propEvidence[h] : h \in DOMAIN propEvidence}

\* The type invariant: every file is named after a changeset that was built,
\* and every proposal has exactly one evidence file.
TypeOK ==
  /\ built \in Seq([request : Requests \cup {Genesis}, parent : 0..MaxBuilt])
  /\ DOMAIN folded = Hashes
  /\ DOMAIN chain = Hashes
  /\ changesets \subseteq Hashes
  /\ head \in changesets
  /\ DOMAIN evidence \subseteq Hashes
  /\ proposals \subseteq Hashes
  /\ DOMAIN propEvidence = proposals
  /\ \A doc \in EvidenceDocs : DOMAIN doc = {"decisions", "envelopes"}
  /\ \A record \in signed : record.subject \in Hashes
  /\ trusted \subseteq Measurements

\* HEAD can always be walked back to genesis (Graph::chain): the files of
\* all its ancestors are stored, however admissions interleave.
HistoryComplete ==
  \A h \in changesets :
    /\ Len(chain[h]) > 0 /\ chain[h][1] = 1 /\ chain[h][Len(chain[h])] = h
    /\ \A i \in DOMAIN chain[h] : chain[h][i] \in changesets

\* The evidence stored with a changeset holds no rejection, and no decision
\* about another changeset: a rejected proposal is not admitted by a decision
\* that comes late, is replayed, or belongs to another proposal.
EvidenceIsClean ==
  \A h \in DOMAIN evidence :
    /\ ~Rejected(evidence[h])
    /\ \A record \in evidence[h].decisions : record.subject = h

\* What a changeset needs, operation by operation and rule by rule, from the
\* policy of state s: root authority for an operation no rule covers under a
\* restricted posture; for each reviewing role a quorum of its principals
\* whose approvals of this changeset, under this very policy, are signed by
\* keys active in s; for each attestation an envelope signed by the attester,
\* whoever that is and by any key of theirs, be it retired (spec/04:74 and
\* spec/06:41 ask for more than the code, policy.rs:794).
Justified(s, h, doc) ==
  LET policy == PolicyOf(s)
      rules(i) == MatchingRules(RegistryOf(s), policy, s, Ops(h), Ops(h)[i],
                                AuthorKind(s, Author(h)))
      approved(name) ==
        \E r \in doc.decisions : \E d \in r.deciders :
          /\ r.verdict = "approve" /\ r.subject = h /\ r.context = policy
          /\ d.principal = name /\ d.key \in ActiveKeys(s, name)
      attested ==
        \E e \in doc.envelopes :
          /\ e.subject = h /\ e.key \in AllKeys(s, e.attester)
          /\ e.evidence_type # "none" => e.measurement \in trusted
  IN  /\ PrincipalNodes(s, Author(h)) # {}
      /\ \A i \in DOMAIN Ops(h) :
        /\ rules(i) = {} => policy.posture # "restricted" \/ Author(h) \in Roots
        /\ \A rule \in rules(i) :
             /\ \A need \in rule.reviewers :
                  \E team \in SUBSET Bindings(policy, need[1]) :
                    /\ Cardinality(team) = need[2]
                    /\ \A name \in team : approved(name)
             /\ rule.attestations # {} => attested

\* Every changeset enters the log with its own justification (spec/04 4.3
\* step 4), under the policy and keys of the tip it is applied to.
AdmissionJustified ==
  [][\A h \in changesets' \ changesets : Justified(Tip, h, evidence'[h])]_vars

\* The log folds, so the graph can be read and written (Graph::fold).
TipFolds == folded[head].ok

\* The registry cached for the next changeset is the one in force at its
\* parent (spec/02 2.5).
CacheCoherent ==
  \A h \in changesets :
    folded[h].cache \in {None, RegistryOf(folded[h].objects)}

\* The log and its evidence can be audited afterwards: every changeset of the
\* log is justified under the policy of its parent revision.
AuditHolds ==
  \A h \in changesets \ {1} :
    Justified(folded[built[h].parent].objects, h, evidence[h])

\* What was recorded about an admitted changeset is only added to, by whoever
\* attests it and however late, unless the changeset itself is appended anew
\* with evidence that admits it once more (spec/04 4.5: the audit question).
EvidenceKept ==
  [][\A h \in changesets \cap DOMAIN evidence :
       \/ /\ evidence[h].decisions \subseteq evidence'[h].decisions
          /\ evidence[h].envelopes \subseteq evidence'[h].envelopes
       \/ h = head' /\ Admissible(h, evidence'[h]) /\ AppliesToTip(h)]_vars

\* The stored changesets form a tree that is never pruned, and HEAD is one of
\* its revisions.
Tree == INSTANCE RevisionTree
          WITH Revision <- 1..MaxBuilt,
               parentOf <- [h \in changesets |-> built[h].parent],
               tip <- head
StoresATree == Tree!Spec

\* HEAD's history is an append-only log: no admitted changeset leaves it.
Log == INSTANCE AppendOnlyLog WITH Entry <- 1..MaxBuilt, entries <- chain[head]
LogIsAppendOnly == Log!Spec

\* A rejection is final: what was rejected stays rejected, on disk, for audit.
RejectionKept ==
  [][\A h \in proposals :
       Rejected(propEvidence[h]) =>
         h \in proposals' /\ propEvidence[h].decisions \subseteq
                              propEvidence'[h].decisions]_vars
=============================================================================
