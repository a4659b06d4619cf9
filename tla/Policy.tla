------------------------------- MODULE Policy -------------------------------
(***************************************************************************)
(* The policy evaluator of allod-core: the requirements a policy puts on   *)
(* the operations of a proposal, and whether decision records and          *)
(* attestation envelopes meet them.                                        *)
(*                                                                         *)
(* A policy document is [posture, rules, roles].  A rule's selector is in  *)
(* disjunctive normal form: a set of clauses, each a set of literals       *)
(* [negated, map] over the bare maps the code reads.  The hash of a policy *)
(* document (policy_context) is modelled by the document.  A signature is  *)
(* modelled by the key that made it, over the record that carries it.      *)
(***************************************************************************)
EXTENDS Fold

-----------------------------------------------------------------------------
\* What the selectors see of one operation.

KindOf(id) ==
  CASE id \in NodeId -> "node"
    [] id \in EdgeId -> "edge"
    [] OTHER -> "classification"

\* The payload's type; the node's, when the operation deletes it.
SelectedType(s, op) ==
  IF op.verb = "delete" /\ op.id \in LiveNodes(s)
  THEN TypeOf(s[op.id].content)
  ELSE OpType(op)

\* The verb, and the schema verb a meta type lets it stand for.
SelectedVerbs(s, op) ==
  {op.verb} \cup
  (IF op.id \notin NodeId THEN {}
   ELSE CASE SelectedType(s, op) \in
               {"meta/EntityType", "meta/EdgeType", "meta/Struct"} ->
               {"define-type"}
          [] SelectedType(s, op) = "meta/Policy" -> {"set-policy"}
          [] /\ SelectedType(s, op) = "meta/TaxonomyTerm"
             /\ "body" \in DOMAIN op
             /\ op.body.status = "deprecated" -> {"deprecate-term"}
          [] OTHER -> {})

\* Terms of the classifications that the proposal itself creates.
CreatedTerms(ops, subject) ==
  {ops[i].body.term : i \in {j \in DOMAIN ops : /\ ops[j].verb = "create"
                                                /\ ops[j].id \in ClassificationId
                                                /\ ops[j].body.subject = subject}}

\* The regions an operation lies in, ancestors included.
Regions(reg, s, ops, op) ==
  LET terms ==
        IF op.id \in ClassificationId
        THEN IF "body" \in DOMAIN op THEN {op.body.term} ELSE {}
        ELSE ClassificationsOf(s, op.id) \cup CreatedTerms(ops, op.id)
  IN  UNION {TermClosure(reg, t) : t \in terms}

OpContext(reg, s, ops, op) ==
  [kind     |-> KindOf(op.id),
   type     |-> SelectedType(s, op),
   verbs    |-> SelectedVerbs(s, op),
   regions  |-> Regions(reg, s, ops, op),
   basis    |-> IF "basis" \in DOMAIN op THEN op.basis ELSE None,
   imported |-> "imported" \in DOMAIN op,
   val      |-> IF "body" \in DOMAIN op /\ "val" \in DOMAIN op.body
                THEN op.body.val ELSE None]

-----------------------------------------------------------------------------
\* Selectors and evaluation.

\* A bare map conjoins its keys; a git selector matches no native operation.
MapMatches(reg, map, authorKind, ctx) ==
  LET has(key) == key \in DOMAIN map
  IN  /\ has("author_kind") => map.author_kind = authorKind
      /\ has("basis") => map.basis = ctx.basis
      /\ has("region") => map.region \in ctx.regions
      /\ has("type") => /\ ctx.kind \in {"node", "edge"}
                        /\ TypeSatisfies(reg, ctx.type, map.type)
      /\ has("operation") => map.operation \cap ctx.verbs # {}
      /\ has("imported") => ctx.imported
      /\ has("where") => ctx.val \in map.where
      /\ ~has("substrate")

SelectorMatches(reg, select, authorKind, ctx) ==
  \E clause \in select : \A literal \in clause :
    MapMatches(reg, literal.map, authorKind, ctx) # literal.negated

MatchingRules(reg, policy, s, ops, op, authorKind) ==
  {rule \in policy.rules :
     SelectorMatches(reg, rule.select, authorKind, OpContext(reg, s, ops, op))}

\* The checklist: the union of what the matching rules require, and root
\* authority when a restricted posture leaves an operation unmatched.
Evaluate(reg, policy, s, ops, authorKind) ==
  LET matched(i) == MatchingRules(reg, policy, s, ops, ops[i], authorKind)
      all == UNION {matched(i) : i \in DOMAIN ops}
  IN  [reviewers    |-> UNION {rule.reviewers : rule \in all},
       attestations |-> UNION {rule.attestations : rule \in all},
       rootRequired |-> /\ policy.posture = "restricted"
                        /\ \E i \in DOMAIN ops : matched(i) = {}]

-----------------------------------------------------------------------------
\* Whether the evidence satisfies the checklist.  A principal's key records
\* are its active keys, its keys of any other status, and which key is listed
\* first.

ActiveKeys(s, name) ==
  IF PrincipalNodes(s, name) = {} THEN {} ELSE FindPrincipal(s, name).content.keys

\* An attester's signature is checked against keys of any status.
AllKeys(s, name) ==
  IF PrincipalNodes(s, name) = {} THEN {}
  ELSE FindPrincipal(s, name).content.keys \cup
       FindPrincipal(s, name).content.retired

Bindings(policy, role) ==
  IF role \in DOMAIN policy.roles THEN policy.roles[role] ELSE {}

\* Mutation: an approval counts whatever policy it was given under.
ApprovalsOfAnyPolicy(s, policy, subject, role, decisions) ==
  {name \in Bindings(policy, role) :
     \E record \in decisions :
       /\ record.subject = subject
       /\ record.verdict = "approve"
       /\ \E d \in record.deciders : /\ d.principal = name
                                     /\ d.key \in ActiveKeys(s, name)}

\* Mutation: a retired key still signs approvals.
ApprovalsByAnyKey(s, policy, subject, role, decisions) ==
  {name \in Bindings(policy, role) :
     \E record \in decisions :
       /\ record.subject = subject
       /\ record.verdict = "approve"
       /\ record.context = policy
       /\ \E d \in record.deciders : /\ d.principal = name
                                     /\ d.key \in AllKeys(s, name)}

\* The principals of a role whose approval of subject counts.
Approvals(s, policy, subject, role, decisions) ==
  {name \in Bindings(policy, role) :
     \E record \in decisions :
       /\ record.subject = subject
       /\ record.verdict = "approve"
       /\ record.context = policy
       /\ \E d \in record.deciders : /\ d.principal = name
                                     /\ d.key \in ActiveKeys(s, name)}

ReviewersMet(s, policy, subject, checklist, decisions) ==
  \A need \in checklist.reviewers :
    Cardinality(Approvals(s, policy, subject, need[1], decisions)) >= need[2]

\* verify_evidence, where Verified and Degraded both pass.
EvidenceHolds(envelope, trusted) ==
  \/ envelope.evidence_type = "none"
  \/ envelope.evidence_type = "simulated" /\ envelope.measurement \in trusted

\* Mutation: the envelopes supplied are checked, not the classes required.
EnvelopesHold(s, subject, checklist, envelopes, trusted) ==
  \A envelope \in envelopes :
    /\ envelope.subject = subject
    /\ envelope.key \in AllKeys(s, envelope.attester)
    /\ EvidenceHolds(envelope, trusted)

AttestationsMet(s, subject, checklist, envelopes, trusted) ==
  \A class \in checklist.attestations :
    \E envelope \in envelopes :
      /\ envelope.subject = subject
      /\ envelope.key \in AllKeys(s, envelope.attester)
      /\ EvidenceHolds(envelope, trusted)

\* check_satisfied_with: nothing of the checklist is unmet.
Satisfied(s, policy, roots, author, subject, checklist, evidence, trusted) ==
  /\ checklist.rootRequired => author \in roots
  /\ ReviewersMet(s, policy, subject, checklist, evidence.decisions)
  /\ AttestationsMet(s, subject, checklist, evidence.envelopes, trusted)
=============================================================================
