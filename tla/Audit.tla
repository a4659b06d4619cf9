-------------------------------- MODULE Audit --------------------------------
(***************************************************************************)
(* flows::verify: an audit of HEAD's history by replay.  Every changeset   *)
(* is evaluated again and applied again, in order, from the empty state;   *)
(* but the registry and the policy are those of the tip throughout, and    *)
(* the trusted measurements are those of the day of the audit.             *)
(***************************************************************************)
EXTENDS Governance

\* A replay: whether every level passed so far, and the state reached.
EmptyReplay == [ok |-> TRUE, objects |-> EmptyState]

EvidenceOf(h) == IF h \in DOMAIN evidence THEN evidence[h] ELSE NoEvidence

\* Mutation: decisions are checked against the keys of the tip.
GovernedAtTip(s, h) ==
  /\ PrincipalNodes(s, Author(h)) # {}
  /\ LET policy == PolicyOf(Tip)
     IN  Satisfied(Tip, policy, Roots, Author(h), h,
                   Evaluate(TipRegistry, policy, s, Ops(h),
                            AuthorKind(s, Author(h))),
                   EvidenceOf(h), trusted)

\* Level 3, for any changeset but genesis.
Governed(s, h) ==
  /\ PrincipalNodes(s, Author(h)) # {}
  /\ LET policy == PolicyOf(Tip)
     IN  Satisfied(s, policy, Roots, Author(h), h,
                   Evaluate(TipRegistry, policy, s, Ops(h),
                            AuthorKind(s, Author(h))),
                   EvidenceOf(h), trusted)

\* Level 2, verify_authorship: the signing key is one the author had when the
\* changeset was built, or has after it.
Authentic(h) ==
  LET active(s) == built[h].request.key \in ActiveKeys(s, Author(h))
      before == IF h = 1 THEN EmptyState ELSE folded[built[h].parent].objects
  IN  /\ active(before) \/ active(folded[h].objects)
      /\ h = 1 => Author(h) \in Roots

\* Mutation: a changeset that fails level 3 is skipped, and not reported.
AuditedOrSkipped(replay, h) ==
  LET applied == ApplyChangeset(TipRegistry, replay.objects, Ops(h))
  IN  IF h = 1 \/ Governed(replay.objects, h)
      THEN [ok |-> replay.ok /\ applied.ok /\ Authentic(h),
            objects |-> applied.objects]
      ELSE replay

\* One changeset.  One that fails level 3 is not applied.
Audited(replay, h) ==
  LET applied == ApplyChangeset(TipRegistry, replay.objects, Ops(h))
  IN  IF h = 1 \/ Governed(replay.objects, h)
      THEN [ok |-> replay.ok /\ applied.ok /\ Authentic(h),
            objects |-> applied.objects]
      ELSE [ok |-> FALSE, objects |-> replay.objects]

Replay ==
  LET run[i \in 0..Len(chain[head])] ==
        IF i = 0 THEN EmptyReplay ELSE Audited(run[i-1], chain[head][i])
  IN  run[Len(chain[head])]

Verified == Loads /\ Replay.ok

-----------------------------------------------------------------------------
\* Whether the schema and the policy were the tip's when each changeset of
\* HEAD's history was built.
RulesUnchanged ==
  \A i \in 2..Len(chain[head]) :
    LET s == folded[built[chain[head][i]].parent].objects
    IN  /\ PolicyOf(s) = PolicyOf(Tip)
        /\ RegistryOf(s) = TipRegistry

\* Whether clients sign with keys of theirs that are active.
SignedByAuthors ==
  \A i \in 1..Len(chain[head]) : Authentic(chain[head][i])

\* Verification accepts every history that was admitted under the rules the
\* tip still has, whatever happened to keys and roles meanwhile.
VerifyAcceptsStable ==
  (Loads /\ RulesUnchanged /\ SignedByAuthors) => Verified

\* A history that verifies is the one the graph's readers see: the replay
\* ends in the state that the fold computed, although the fold used the
\* registry of each parent and the replay that of the tip.
VerifyReplaysFold == Verified => Replay.objects = Tip
=============================================================================
