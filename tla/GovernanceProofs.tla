-------------------------- MODULE GovernanceProofs --------------------------
(***************************************************************************)
(* What holds of Governance for every catalogue of requests, set of        *)
(* signers and policy.  Invariants of Spec first, then of SerialSpec; then *)
(* what admission guarantees: that each changeset enters the log with its  *)
(* own justification, and that what is recorded about it is kept.          *)
(***************************************************************************)
EXTENDS Audit, FoldProofs

-----------------------------------------------------------------------------
\* The inductive invariant of Spec.

\* A chain is its parent's chain and one more hash, and parents are stored.
Lineage ==
  /\ Len(built) \in 1..MaxBuilt
  /\ 1 \in changesets /\ 1 \notin proposals
  /\ built[1].parent = 0 /\ chain[1] = <<1>>
  /\ chain \in Seq(Seq(Nat))
  /\ \A h \in Hashes \ {1} : /\ built[h].parent \in changesets
                             /\ chain[h] = Append(chain[built[h].parent], h)

\* Decisions are about the proposal they are filed with.
FiledRight ==
  \A h \in DOMAIN propEvidence :
    \A record \in propEvidence[h].decisions : record.subject = h

IInv == TypeOK /\ Lineage /\ HistoryComplete /\ EvidenceIsClean /\ FiledRight

LEMMA InitIInv == Init => IInv
<1> SUFFICES ASSUME Init PROVE IInv
  OBVIOUS
<1> USE DEF Init, Hashes, EmptyState
<1>1. TypeOK
  BY BoundsAssumption DEF TypeOK, EvidenceDocs
<1>2. Lineage
  BY BoundsAssumption DEF Lineage
<1>3. HistoryComplete
  BY DEF HistoryComplete
<1>4. EvidenceIsClean /\ FiledRight
  BY DEF EvidenceIsClean, FiledRight
<1> QED
  BY <1>1, <1>2, <1>3, <1>4 DEF IInv
\* The new changeset's parent is the head, which is stored.
LEMMA BuildIInv ==
  ASSUME IInv, NEW request \in Requests, Build(request)
  PROVE  IInv'
<1> DEFINE n == Len(built) + 1
           cs == [request |-> request, parent |-> head]
<1> USE DEF Hashes
<1>1. /\ built' = Append(built, cs) /\ chain' = Append(chain, Append(chain[head], n))
      /\ folded' = Put(folded, n, FoldNext(folded[head], request.ops))
      /\ UNCHANGED <<changesets, evidence, head, proposals, propEvidence,
                     signed, trusted>>
      /\ Len(built) < MaxBuilt
  BY DEF Build, log, inbox
<1>2. /\ built \in Seq([request : Requests \cup {Genesis}, parent : 0..MaxBuilt])
      /\ DOMAIN chain = 1..Len(built) /\ DOMAIN folded = 1..Len(built)
      /\ changesets \subseteq 1..Len(built) /\ head \in changesets
      /\ chain \in Seq(Seq(Nat)) /\ Len(built) \in 1..MaxBuilt
  BY DEF IInv, TypeOK, Lineage
<1>3. /\ Len(built') = n /\ DOMAIN built' = 1..n
      /\ \A h \in 1..Len(built) : built'[h] = built[h]
      /\ built'[n] = cs
  BY <1>1, <1>2
<1>4. Len(chain) = Len(built) /\ chain[head] \in Seq(Nat)
  BY <1>2
<1>5. /\ chain' \in Seq(Seq(Nat)) /\ DOMAIN chain' = 1..n
      /\ \A h \in 1..Len(built) : chain'[h] = chain[h]
      /\ chain'[n] = Append(chain[head], n)
  BY <1>1, <1>2, <1>4
<1>6. TypeOK'
  <2>1. built' \in Seq([request : Requests \cup {Genesis}, parent : 0..MaxBuilt])
    BY <1>1, <1>2, BoundsAssumption
  <2>2. DOMAIN folded' = 1..n
    BY <1>1, <1>2 DEF IInv, TypeOK, Put
  <2> QED
    BY <1>1, <1>2, <1>3, <1>5, <2>1, <2>2 DEF IInv, TypeOK, EvidenceDocs
<1>7. Lineage'
  <2>1. /\ 1 \in changesets /\ 1 \notin proposals
        /\ built[1].parent = 0 /\ chain[1] = <<1>>
        /\ \A h \in (1..Len(built)) \ {1} :
             /\ built[h].parent \in changesets
             /\ chain[h] = Append(chain[built[h].parent], h)
    <3>1. DOMAIN built = 1..Len(built)
      BY <1>2
    <3> QED
      BY <3>1 DEF IInv, Lineage
  <2>2. Len(built') \in 1..MaxBuilt
    BY <1>1, <1>2, <1>3, BoundsAssumption
  <2>3. built'[1].parent = 0 /\ chain'[1] = <<1>>
    BY <2>1, <1>2, <1>3, <1>5
  <2>4. ASSUME NEW h \in (1..n) \ {1}
        PROVE  /\ built'[h].parent \in changesets
               /\ chain'[h] = Append(chain'[built'[h].parent], h)
    <3>1. CASE h = n
      <4>1. built'[h].parent = head /\ chain'[h] = Append(chain[head], n)
        BY <3>1, <1>3, <1>5
      <4>2. head \in changesets /\ chain'[head] = chain[head]
        BY <1>2, <1>5
      <4> QED
        BY <3>1, <4>1, <4>2
    <3>2. CASE h \in (1..Len(built)) \ {1}
      <4>1. PICK x \in changesets :
              x = built[h].parent /\ chain[h] = Append(chain[x], h)
        BY <3>2, <2>1
      <4>2. built'[h] = built[h] /\ chain'[h] = chain[h] /\ chain'[x] = chain[x]
        BY <3>2, <4>1, <1>2, <1>3, <1>5
      <4> QED
        BY <4>1, <4>2
    <3> QED
      BY <3>1, <3>2, <1>2
  <2> QED
    BY <1>1, <1>3, <1>5, <2>1, <2>2, <2>3, <2>4 DEF Lineage
<1>8. HistoryComplete'
  BY <1>1, <1>2, <1>5 DEF IInv, HistoryComplete
<1>9. EvidenceIsClean' /\ FiledRight'
  BY <1>1 DEF IInv, EvidenceIsClean, FiledRight, Rejected
<1> QED
  BY <1>6, <1>7, <1>8, <1>9 DEF IInv

-----------------------------------------------------------------------------
\* The handlers change the log, the inbox, or both.

\* A file of decisions and envelopes about h that may enter the log.
CleanDoc(h, doc) ==
  /\ DOMAIN doc = {"decisions", "envelopes"}
  /\ ~Rejected(doc)
  /\ \A record \in doc.decisions : record.subject = h

InboxOK ==
  /\ proposals \subseteq Hashes \ {1}
  /\ DOMAIN propEvidence = proposals
  /\ \A h \in proposals : DOMAIN propEvidence[h] = {"decisions", "envelopes"}
  /\ FiledRight

LEMMA IInvInbox == IInv => InboxOK
  BY DEF IInv, InboxOK, TypeOK, Lineage, EvidenceDocs

\* A step that leaves the log alone and the inbox in order.
LEMMA InboxStep ==
  ASSUME IInv, InboxOK',
         UNCHANGED <<built, folded, chain, log, trusted>>,
         \A record \in signed' : record.subject \in Hashes
  PROVE  IInv'
<1> USE DEF log, Hashes
<1>1. TypeOK'
  BY DEF IInv, TypeOK, InboxOK, EvidenceDocs
<1>2. Lineage'
  BY DEF IInv, Lineage, InboxOK
<1>3. HistoryComplete' /\ EvidenceIsClean' /\ FiledRight'
  BY DEF IInv, HistoryComplete, EvidenceIsClean, Rejected, InboxOK
<1> QED
  BY <1>1, <1>2, <1>3 DEF IInv

\* A step that files a clean document with h, and perhaps appends h.
LEMMA LogStep ==
  ASSUME IInv, InboxOK', NEW h \in Hashes, NEW doc, CleanDoc(h, doc),
         evidence' = Put(evidence, h, doc),
         \/ h # 1 /\ changesets' = changesets \cup {h} /\ head' = h
         \/ UNCHANGED <<changesets, head>>,
         UNCHANGED <<built, folded, chain, signed, trusted>>
  PROVE  IInv'
<1> USE DEF Hashes
<1>1. /\ DOMAIN evidence' = DOMAIN evidence \cup {h}
      /\ evidence'[h] = doc
      /\ \A x \in DOMAIN evidence \ {h} : evidence'[x] = evidence[x]
  BY DEF Put
<1>2. TypeOK'
  <2>1. \A x \in DOMAIN evidence' :
          DOMAIN evidence'[x] = {"decisions", "envelopes"}
    BY <1>1 DEF IInv, TypeOK, EvidenceDocs, CleanDoc
  <2>2. \A d \in EvidenceDocs' : DOMAIN d = {"decisions", "envelopes"}
    BY <2>1 DEF EvidenceDocs, InboxOK
  <2>3. DOMAIN evidence' \subseteq Hashes /\ head' \in changesets'
        /\ changesets' \subseteq Hashes
    BY <1>1 DEF IInv, TypeOK
  <2> QED
    BY <2>2, <2>3 DEF IInv, TypeOK, InboxOK
<1>3. Lineage'
  BY DEF IInv, Lineage, InboxOK
<1>4. EvidenceIsClean' /\ FiledRight'
  BY <1>1 DEF IInv, EvidenceIsClean, Rejected, InboxOK, CleanDoc
<1>5. CASE UNCHANGED <<changesets, head>>
  BY <1>5, <1>2, <1>3, <1>4 DEF IInv, HistoryComplete
<1>6. CASE h # 1 /\ changesets' = changesets \cup {h} /\ head' = h
  <2>1. /\ chain \in Seq(Seq(Nat)) /\ DOMAIN chain = DOMAIN built
        /\ built[h].parent \in changesets
        /\ changesets \subseteq DOMAIN built
        /\ chain[h] = Append(chain[built[h].parent], h)
        /\ h \in Nat
    <3>1. DOMAIN built \subseteq Nat /\ changesets \subseteq DOMAIN built
          /\ DOMAIN chain = DOMAIN built
      BY DEF IInv, TypeOK
    <3> QED
      BY <1>6, <3>1 DEF IInv, Lineage
  <2> DEFINE mine == chain[h]
             above == chain[built[h].parent]
  <2>2. above \in Seq(Nat) /\ Len(above) > 0 /\ above[1] = 1
        /\ \A i \in DOMAIN above : above[i] \in changesets
    <3>1. PICK x \in changesets : x = built[h].parent /\ above = chain[x]
      BY <2>1
    <3>2. /\ Len(chain[x]) > 0 /\ chain[x][1] = 1
          /\ \A i \in DOMAIN chain[x] : chain[x][i] \in changesets
      BY DEF IInv, HistoryComplete
    <3>3. chain[x] \in Seq(Nat)
      BY <2>1
    <3> QED
      BY <3>1, <3>2, <3>3
  <2>3. /\ Len(mine) > 0 /\ mine[1] = 1 /\ mine[Len(mine)] = h
        /\ \A i \in DOMAIN mine : mine[i] \in changesets \cup {h}
    <3>1. mine = Append(above, h) /\ h \in Nat
      BY <2>1
    <3> HIDE DEF mine, above
    <3>2. /\ Len(mine) = Len(above) + 1 /\ DOMAIN mine = 1..Len(mine)
          /\ mine[Len(mine)] = h
          /\ \A i \in 1..Len(above) : mine[i] = above[i]
      BY <3>1, <2>2
    <3> QED
      BY <3>2, <2>2
  <2>4. HistoryComplete'
    BY <2>3, <1>6 DEF IInv, HistoryComplete
  <2> QED
    BY <2>4, <1>2, <1>3, <1>4 DEF IInv
<1> QED
  BY <1>5, <1>6

-----------------------------------------------------------------------------
\* Every step preserves the invariant, handler by handler.

LEMMA HandlersIInv ==
  ASSUME IInv, Next PROVE IInv'
<1> USE DEF Hashes
<1>0. InboxOK /\ (\A record \in signed : record.subject \in Hashes)
  BY IInvInbox DEF IInv, TypeOK
<1>1. ASSUME NEW request \in Requests, Build(request)
      PROVE  IInv'
  BY <1>1, BuildIInv
<1>2. ASSUME NEW h \in Hashes \ {1}, NEW envelopes, Admit(h, envelopes)
      PROVE  IInv'
  <2> DEFINE doc == [NoEvidence EXCEPT !.envelopes = envelopes]
  <2>1. CleanDoc(h, doc)
    BY DEF CleanDoc, NoEvidence, Rejected
  <2>2. InboxOK'
    BY <1>0, <1>2 DEF Admit, inbox, InboxOK, FiledRight
  <2> QED
    BY <2>1, <2>2, <1>2, LogStep DEF Admit, AppendChangeset
<1>3. ASSUME NEW h \in Hashes \ {1}, NEW envelopes, Hold(h, envelopes)
      PROVE  IInv'
  <2> DEFINE doc == [NoEvidence EXCEPT !.envelopes = envelopes]
  <2>1. CleanDoc(h, doc)
    BY DEF CleanDoc, NoEvidence, Rejected
  <2>2. InboxOK'
    BY <1>0, <1>3, <2>1 DEF Hold, InboxOK, FiledRight, Put, CleanDoc
  <2> QED
    BY <2>2, <1>0, <1>3, InboxStep DEF Hold
<1>4. ASSUME NEW h \in Hashes, NEW verdict \in Verdicts, NEW signer \in Signers,
             SignDecision(h, verdict, signer)
      PROVE  IInv'
  <2>1. InboxOK'
    BY <1>0, <1>4 DEF SignDecision, inbox, InboxOK, FiledRight
  <2>2. \A record \in signed' : record.subject \in Hashes
    BY <1>0, <1>4 DEF SignDecision
  <2> QED
    BY <2>1, <2>2, <1>4, InboxStep DEF SignDecision
<1>5. ASSUME NEW h \in Hashes, NEW record \in signed, DecisionAccepted(h, record)
      PROVE  /\ h # 1
             /\ DOMAIN WithDecision(h, record) = {"decisions", "envelopes"}
             /\ \A r \in WithDecision(h, record).decisions : r.subject = h
             /\ record.verdict # "reject" => ~Rejected(WithDecision(h, record))
  BY <1>0, <1>5 DEF InboxOK, FiledRight, DecisionAccepted, WithDecision,
                    ProposalEvidence, Rejected
<1>6. ASSUME NEW h \in Hashes, NEW record \in signed,
             Reject(h, record) \/ StillUnmet(h, record)
      PROVE  IInv'
  <2> DEFINE doc == WithDecision(h, record)
  <2>1. /\ DecisionAccepted(h, record)
        /\ propEvidence' = Put(propEvidence, h, doc)
        /\ UNCHANGED <<built, folded, chain, log, proposals, signed, trusted>>
    BY <1>6 DEF Reject, StillUnmet
  <2>2. InboxOK'
    <3>1. h \in proposals /\ DOMAIN doc = {"decisions", "envelopes"}
          /\ \A r \in doc.decisions : r.subject = h
      BY <1>5, <2>1 DEF DecisionAccepted
    <3> HIDE DEF doc
    <3> QED
      BY <1>0, <2>1, <3>1 DEF InboxOK, FiledRight, Put
  <2> QED
    BY <2>1, <2>2, <1>0, InboxStep
<1>7. ASSUME NEW h \in Hashes, NEW record \in signed, AdmitDecided(h, record)
      PROVE  IInv'
  <2> DEFINE doc == WithDecision(h, record)
  <2>1. /\ DecisionAccepted(h, record) /\ record.verdict # "reject"
        /\ AppendChangeset(h, doc)
        /\ proposals' = proposals \ {h}
        /\ propEvidence' = Without(propEvidence, h)
        /\ UNCHANGED <<built, folded, chain, signed, trusted>>
    BY <1>7 DEF AdmitDecided
  <2>2. h # 1 /\ CleanDoc(h, doc)
    BY <1>5, <2>1 DEF CleanDoc
  <2>3. InboxOK'
    BY <1>0, <2>1 DEF InboxOK, FiledRight, Without
  <2> HIDE DEF doc
  <2> QED
    BY <2>1, <2>2, <2>3, LogStep DEF AppendChangeset
<1>8. ASSUME NEW h \in Hashes, NEW signer \in Attesters, NEW m \in Measurements,
             Attest(h, signer, m)
      PROVE  IInv'
  <2>1. PICK doc : /\ evidence' = Put(evidence, h, doc)
                   /\ DOMAIN doc = {"decisions", "envelopes"}
                   /\ doc.decisions = IF h \in DOMAIN evidence
                                      THEN evidence[h].decisions ELSE {}
    <3> DEFINE old == IF h \in DOMAIN evidence THEN evidence[h] ELSE NoEvidence
               env == [subject |-> h, attester |-> signer.principal,
                       key |-> signer.key, evidence_type |-> "simulated",
                       measurement |-> m]
               new == [old EXCEPT !.envelopes = @ \cup {env}]
    <3>1. evidence' = Put(evidence, h, new)
      BY <1>8 DEF Attest
    <3>2. DOMAIN old = {"decisions", "envelopes"}
      BY DEF IInv, TypeOK, EvidenceDocs, NoEvidence
    <3>3. DOMAIN new = {"decisions", "envelopes"} /\ new.decisions = old.decisions
      BY <3>2
    <3> QED
      BY <3>1, <3>3 DEF NoEvidence
  <2>2. CleanDoc(h, doc)
    BY <2>1 DEF CleanDoc, IInv, EvidenceIsClean, Rejected
  <2>3. InboxOK'
    BY <1>0, <1>8 DEF Attest, inbox, InboxOK, FiledRight
  <2> QED
    BY <2>1, <2>2, <2>3, <1>8, LogStep DEF Attest
<1>9. ASSUME NEW m \in Measurements, Trust(m)
      PROVE  IInv'
  BY <1>9 DEF Trust, log, inbox, IInv, TypeOK, Lineage, HistoryComplete,
              EvidenceIsClean, FiledRight, Rejected, EvidenceDocs
<1> QED
  BY <1>1, <1>2, <1>3, <1>4, <1>6, <1>7, <1>8, <1>9 DEF Next, Submit, Decide

LEMMA StutterIInv == IInv /\ UNCHANGED vars => IInv'
  BY DEF vars, log, inbox, IInv, TypeOK, Lineage, HistoryComplete, Hashes,
         EvidenceIsClean, FiledRight, Rejected, EvidenceDocs

\* The inductive invariant holds throughout, whatever the clients do.
THEOREM Invariance == Spec => []IInv
<1>1. IInv /\ [Next]_vars => IInv'
  BY HandlersIInv, StutterIInv
<1> QED
  BY InitIInv, <1>1, PTL DEF Spec

\* The files are what the handlers take them to be.
THEOREM TypeCorrect == Spec => []TypeOK
  BY Invariance, PTL DEF IInv

\* However the clients interleave, HEAD can be walked back to genesis.
THEOREM HistoryIsComplete == Spec => []HistoryComplete
  BY Invariance, PTL DEF IInv

\* No rejection, and no decision about another changeset, is ever filed with
\* a changeset of the log.
THEOREM EvidenceStaysClean == Spec => []EvidenceIsClean
  BY Invariance, PTL DEF IInv

-----------------------------------------------------------------------------
\* What a step does to the log: it appends a built changeset that applies to
\* the tip, it builds one, or it leaves HEAD's history alone.

Appends(h) ==
  /\ AppliesToTip(h)
  /\ changesets' = changesets \cup {h}
  /\ head' = h
  /\ UNCHANGED <<built, folded, chain>>

LEMMA NextCases ==
  ASSUME IInv, [Next]_vars
  PROVE  \/ \E request \in Requests : Build(request)
         \/ \E h \in Hashes \ {1} : Appends(h)
         \/ UNCHANGED <<built, folded, chain, changesets, head>>
<1> DEFINE Goal == \/ \E request \in Requests : Build(request)
                   \/ \E h \in Hashes \ {1} : Appends(h)
                   \/ UNCHANGED <<built, folded, chain, changesets, head>>
<1>1. CASE UNCHANGED vars
  BY <1>1 DEF vars, log
<1>2. ASSUME NEW h \in Hashes \ {1}, Submit(h) PROVE Goal
  BY <1>2 DEF Submit, Admit, Hold, AppendChangeset, Appends, log
<1>3. ASSUME NEW h \in Hashes, Decide(h) PROVE Goal
  <2>1. 1 \notin proposals
    BY DEF IInv, Lineage
  <2> QED
    BY <1>3, <2>1 DEF Decide, DecisionAccepted, Reject, StillUnmet, AdmitDecided,
                      AppendChangeset, Appends, log
<1>4. CASE \E h \in Hashes, verdict \in Verdicts, signer \in Signers :
             SignDecision(h, verdict, signer)
  BY <1>4 DEF SignDecision, log
<1>5. CASE \/ \E h \in Hashes, signer \in Attesters, m \in Measurements :
                Attest(h, signer, m)
           \/ \E m \in Measurements : Trust(m)
  BY <1>5 DEF Attest, Trust, log
<1> QED
  BY <1>1, <1>2, <1>3, <1>4, <1>5 DEF Next

\* Whatever the clients do, the store implements a tree of revisions that is
\* never pruned, and HEAD is one of them: what leaves HEAD's history through a
\* late admission is still stored.
THEOREM StoreIsATree == Spec => StoresATree
<1> DEFINE par == [h \in changesets |-> built[h].parent]
<1>1. Init => Tree!Init
  BY BoundsAssumption DEF Init, Tree!Init
<1>2. ASSUME IInv, [Next]_vars PROVE [Tree!Next]_<<par, head>>
  <2>0. /\ changesets \subseteq DOMAIN built /\ Len(built) \in 1..MaxBuilt
        /\ DOMAIN built = 1..Len(built)
        /\ built \in Seq([request : Requests \cup {Genesis}, parent : 0..MaxBuilt])
    BY <1>2 DEF IInv, TypeOK, Lineage, Hashes
  <2>1. CASE \E request \in Requests : Build(request)
    <3>1. /\ UNCHANGED <<changesets, head>>
          /\ \A h \in changesets : built'[h] = built[h]
      BY <2>1, <2>0 DEF Build, log
    <3> QED
      BY <3>1
  <2>2. ASSUME NEW h \in Hashes \ {1}, Appends(h)
        PROVE  Tree!Next
    <3>1. built[h].parent \in changesets /\ h \in 1..MaxBuilt
      BY <1>2, <2>0, BoundsAssumption DEF IInv, Lineage, Hashes
    <3>2. built[h].parent \in 1..MaxBuilt
      BY <3>1, <2>0, BoundsAssumption
    <3> QED
      BY <3>1, <3>2, <2>2 DEF Appends, Tree!Next, Tree!MoveTo
  <2>3. CASE UNCHANGED <<built, folded, chain, changesets, head>>
    BY <2>3
  <2> QED
    BY <2>1, <2>2, <2>3, <1>2, NextCases
<1> QED
  BY <1>1, <1>2, Invariance, PTL DEF Spec, StoresATree, Tree!Spec

-----------------------------------------------------------------------------
\* The invariant of SerialSpec: every fold is its parent's fold and one step,
\* and the cached registry is the one in force.

SerialInv ==
  /\ IInv
  /\ \A h \in Hashes \ {1} :
       folded[h] = FoldNext(folded[built[h].parent], Ops(h))
  /\ \A h \in Hashes : folded[h].cache \in {None, RegistryOf(folded[h].objects)}
  /\ TipFolds

\* A step that the fold notices keeps a coherent cache coherent.
LEMMA FoldNextCoherent ==
  ASSUME NEW f, NEW ops, f.cache \in {None, RegistryOf(f.objects)},
         NoticesSchema(f, ops)
  PROVE  FoldNext(f, ops).cache \in {None, RegistryOf(FoldNext(f, ops).objects)}
  BY DEF FoldNext, FoldStep, EffectiveRegistry, NoticesSchema

\* With a coherent cache, the fold accepts what was applied to the tip.
LEMMA FoldNextAccepts ==
  ASSUME NEW f, NEW ops, f.cache \in {None, RegistryOf(f.objects)}, f.ok,
         ApplyChangeset(RegistryOf(f.objects), f.objects, ops).ok
  PROVE  FoldNext(f, ops).ok
  BY DEF FoldNext, FoldStep, EffectiveRegistry

LEMMA InitSerialInv == Init => SerialInv
<1> SUFFICES ASSUME Init PROVE SerialInv
  OBVIOUS
<1>1. folded[1] = FoldGenesis(Genesis.ops) /\ head = 1 /\ Hashes = {1}
  BY DEF Init, Hashes
<1>2. FoldGenesis(Genesis.ops).cache = None /\ FoldGenesis(Genesis.ops).ok
  BY GenesisAssumption DEF FoldGenesis, FoldStep, EmptyFold
<1> QED
  BY <1>1, <1>2, InitIInv DEF SerialInv, TipFolds

LEMMA SerialStep == ASSUME SerialInv, [SerialNext]_vars PROVE SerialInv'
<1>1. IInv'
  BY HandlersIInv, StutterIInv DEF SerialInv, SerialNext
<1>2. /\ head \in Hashes /\ DOMAIN folded = Hashes /\ Hashes = 1..Len(built)
      /\ folded[head].ok
      /\ folded[head].cache \in {None, RegistryOf(Tip)}
  BY DEF SerialInv, IInv, TypeOK, TipFolds, Hashes, Tip
<1>3. ASSUME NEW request \in Requests, Build(request), SerialNext
      PROVE  SerialInv'
  <2> DEFINE n == Len(built) + 1
             new == FoldNext(folded[head], request.ops)
  <2>1. /\ built' = Append(built, [request |-> request, parent |-> head])
        /\ folded' = Put(folded, n, new)
        /\ head' = head
    BY <1>3 DEF Build, log
  <2>2. /\ Hashes' = Hashes \cup {n} /\ n \notin Hashes /\ n # 1
        /\ built'[n] = [request |-> request, parent |-> head]
        /\ folded'[n] = new
        /\ \A h \in Hashes : built'[h] = built[h] /\ folded'[h] = folded[h]
    <3>1. /\ built \in Seq([request : Requests \cup {Genesis}, parent : 0..MaxBuilt])
          /\ Len(built) \in 1..MaxBuilt
      BY DEF SerialInv, IInv, TypeOK, Lineage
    <3>2. DOMAIN folded = 1..Len(built)
      BY <1>2
    <3> QED
      BY <1>2, <2>1, <3>1, <3>2, BoundsAssumption DEF Hashes, Put
  <2>3. \A h \in Hashes \ {1} : built[h].parent \in Hashes
    BY DEF SerialInv, IInv, Lineage, TypeOK
  <2>4. new.cache \in {None, RegistryOf(new.objects)}
    <3>1. NoticesSchema(folded[head], request.ops)
      BY <1>3, <2>1 DEF SerialNext
    <3> QED
      BY <1>2, <3>1, FoldNextCoherent DEF Tip
  <2>5. \A h \in Hashes' \ {1} :
          folded'[h] = FoldNext(folded'[built'[h].parent], Ops(h)')
    BY <1>2, <2>2, <2>3 DEF SerialInv, Ops
  <2>6. \A h \in Hashes' : folded'[h].cache \in {None, RegistryOf(folded'[h].objects)}
    BY <2>2, <2>4 DEF SerialInv
  <2>7. TipFolds'
    BY <1>2, <2>1, <2>2 DEF TipFolds
  <2> QED
    BY <1>1, <2>5, <2>6, <2>7 DEF SerialInv
<1>4. ASSUME NEW h \in Hashes \ {1}, Appends(h), SerialNext
      PROVE  SerialInv'
  <2>1. folded'[head'].ok
    <3>1. CASE h = head
      BY <3>1, <1>2, <1>4 DEF Appends
    <3>2. CASE h # head
      <4>1. built[h].parent = head
        BY <3>2, <1>4 DEF Appends, SerialNext, Serial
      <4>2. folded[h] = FoldNext(folded[head], Ops(h))
        BY <4>1 DEF SerialInv
      <4> QED
        BY <4>2, <1>2, <1>4, FoldNextAccepts DEF Appends, AppliesToTip, TipRegistry, Tip
    <3> QED
      BY <3>1, <3>2
  <2> QED
    BY <1>1, <1>4, <2>1 DEF SerialInv, Appends, Hashes, Ops, TipFolds
<1>5. CASE UNCHANGED <<built, folded, chain, changesets, head>>
  BY <1>1, <1>5 DEF SerialInv, TipFolds, Hashes, Ops
<1>6. SerialNext \/ UNCHANGED vars
  OBVIOUS
<1>7. CASE UNCHANGED vars
  BY <1>5, <1>7 DEF vars, log
<1> QED
  BY <1>3, <1>4, <1>5, <1>6, <1>7, NextCases DEF SerialInv, SerialNext

THEOREM SerialInvariance == SerialSpec => []SerialInv
  BY InitSerialInv, SerialStep, PTL DEF SerialSpec

\* With nothing admitted between a changeset's building and its admission, and
\* no schema change that the fold's cache misses, every admission leaves a log
\* that folds: what was validated at the tip is what the fold computes.
THEOREM TipAlwaysFolds == SerialSpec => []TipFolds
  BY SerialInvariance, PTL DEF SerialInv

\* And the fold validates each changeset by the schema in force at its parent.
THEOREM CacheIsCoherent == SerialSpec => []CacheCoherent
<1>1. SerialInv => CacheCoherent
  BY DEF SerialInv, IInv, TypeOK, CacheCoherent
<1> QED
  BY <1>1, SerialInvariance, PTL

\* And HEAD's history implements the append-only log of the documentation.
THEOREM LogAppends == SerialSpec => LogIsAppendOnly
<1>1. Init => Log!Init
  BY BoundsAssumption DEF Init, Log!Init
<1>2. ASSUME SerialInv, [SerialNext]_vars
      PROVE  [Log!Next]_(chain[head])
  <2>1. /\ head \in Hashes /\ DOMAIN chain = Hashes /\ Hashes = 1..Len(built)
        /\ Len(built) \in 1..MaxBuilt /\ chain \in Seq(Seq(Nat))
        /\ \A h \in Hashes \ {1} : chain[h] = Append(chain[built[h].parent], h)
    BY <1>2 DEF SerialInv, IInv, TypeOK, Lineage, Hashes
  <2>2. CASE \E request \in Requests : Build(request)
    BY <2>1, <2>2 DEF Build, log
  <2>3. CASE UNCHANGED <<built, folded, chain, changesets, head>>
    BY <2>3
  <2>4. ASSUME NEW h \in Hashes \ {1}, Appends(h)
        PROVE  [Log!Next]_(chain[head])
    <3>1. CASE h = head
      BY <3>1, <2>4 DEF Appends
    <3>2. CASE h # head
      <4>1. built[h].parent = head
        BY <3>2, <2>4, <1>2 DEF Appends, SerialNext, Serial, vars, log
      <4>2. chain'[head'] = Append(chain[head], h)
        BY <2>1, <2>4, <4>1 DEF Appends
      <4>3. h \in 1..MaxBuilt
        BY <2>1, BoundsAssumption
      <4> QED
        BY <4>2, <4>3 DEF Log!Next
    <3> QED
      BY <3>1, <3>2
  <2> QED
    BY <2>2, <2>3, <2>4, <1>2, NextCases DEF SerialInv, SerialNext
<1> QED
  BY <1>1, <1>2, SerialInvariance, PTL DEF SerialSpec, LogIsAppendOnly, Log!Spec

-----------------------------------------------------------------------------
\* Where the contents of the fold come from.

\* Contents that the catalogue writes.
Catalogue ==
  UNION {Bodies(request.ops) : request \in Requests \cup {Genesis}}

\* Every content of s was written by a request, or is redacted.
FromCatalogue(s) ==
  \A id \in DOMAIN s : s[id].content \in Catalogue \cup {RedactedContent}

\* Folds hold states made of what was asked for; the evidence of a changeset
\* of the log is on file.
FoldInv ==
  /\ \A h \in Hashes : IsState(folded[h].objects) /\ FromCatalogue(folded[h].objects)
  /\ changesets \ {1} \subseteq DOMAIN evidence

LEMMA StepFromCatalogue ==
  ASSUME NEW f, NEW reg, NEW request \in Requests \cup {Genesis},
         IsState(f.objects), FromCatalogue(f.objects)
  PROVE  /\ IsState(FoldStep(f, request.ops, reg).objects)
         /\ FromCatalogue(FoldStep(f, request.ops, reg).objects)
<1> DEFINE r == ApplyChangeset(reg, f.objects, request.ops).objects
<1>1. FoldStep(f, request.ops, reg).objects = r
  BY DEF FoldStep
<1>2. Len(request.ops) \in Nat
  BY CatalogueAssumption
<1>3. IsState(r) /\ WrittenBy(f.objects, request.ops, r)
  BY <1>2, TombstonesAreFinal
<1>4. Bodies(request.ops) \subseteq Catalogue
  BY DEF Catalogue
<1> HIDE DEF r
<1> QED
  BY <1>1, <1>3, <1>4 DEF FromCatalogue, WrittenBy

LEMMA InitFoldInv == Init => FoldInv
<1> SUFFICES ASSUME Init PROVE FoldInv
  OBVIOUS
<1>1. IsState(EmptyFold.objects) /\ FromCatalogue(EmptyFold.objects)
  BY DEF EmptyFold, EmptyState, IsState, FromCatalogue
<1>2. /\ IsState(FoldGenesis(Genesis.ops).objects)
      /\ FromCatalogue(FoldGenesis(Genesis.ops).objects)
  BY <1>1, StepFromCatalogue DEF FoldGenesis
<1> QED
  BY <1>2 DEF Init, Hashes, FoldInv

\* Every step leaves what it must of the folds and the files of the log: it
\* builds, or files evidence, appending a changeset or not, or neither.
LEMMA StepFoldInv ==
  ASSUME IInv, FoldInv, [Next]_vars
  PROVE  FoldInv'
<1>1. CASE UNCHANGED vars
  BY <1>1 DEF vars, log, FoldInv, Hashes
<1>2. ASSUME NEW request \in Requests, Build(request)
      PROVE  FoldInv'
  <2> DEFINE n == Len(built) + 1
             new == FoldNext(folded[head], request.ops)
  <2>1. /\ built' = Append(built, [request |-> request, parent |-> head])
        /\ folded' = Put(folded, n, new)
        /\ UNCHANGED <<changesets, evidence>>
    BY <1>2 DEF Build, log
  <2>2. built \in Seq([request : Requests \cup {Genesis}, parent : 0..MaxBuilt])
        /\ DOMAIN folded = Hashes /\ head \in Hashes
    BY DEF IInv, TypeOK
  <2>3. Hashes' = Hashes \cup {n} /\ n \notin Hashes
    BY <2>1, <2>2 DEF Hashes
  <2>4. IsState(new.objects) /\ FromCatalogue(new.objects)
    BY <2>2, StepFromCatalogue DEF FoldInv, FoldNext
  <2> HIDE DEF new
  <2> QED
    BY <2>1, <2>2, <2>3, <2>4 DEF FoldInv, Put
<1>3. ASSUME UNCHANGED <<built, folded>>,
             \/ UNCHANGED <<changesets, evidence>>
             \/ \E h, doc : /\ changesets' \subseteq changesets \cup {h}
                            /\ evidence' = Put(evidence, h, doc)
      PROVE  FoldInv'
  BY <1>3 DEF FoldInv, Hashes, Put
<1>4. ASSUME NEW h \in Hashes \ {1}, Submit(h) PROVE FoldInv'
  BY <1>4, <1>3 DEF Submit, Admit, Hold, AppendChangeset, log
<1>5. ASSUME NEW h \in Hashes, Decide(h) PROVE FoldInv'
  BY <1>5, <1>3 DEF Decide, Reject, StillUnmet, AdmitDecided, AppendChangeset, log
<1>6. ASSUME NEW h \in Hashes, NEW verdict \in Verdicts, NEW signer \in Signers,
             SignDecision(h, verdict, signer)
      PROVE  FoldInv'
  BY <1>6, <1>3 DEF SignDecision, log
<1>7. ASSUME NEW h \in Hashes, NEW signer \in Attesters, NEW m \in Measurements,
             Attest(h, signer, m)
      PROVE  FoldInv'
  BY <1>7, <1>3 DEF Attest
<1>8. ASSUME NEW m \in Measurements, Trust(m) PROVE FoldInv'
  BY <1>8, <1>3 DEF Trust, log
<1> QED
  BY <1>1, <1>2, <1>4, <1>5, <1>6, <1>7, <1>8 DEF Next

LEMMA FoldInvariance == Spec => [](IInv /\ FoldInv)
<1>1. Init => IInv /\ FoldInv
  BY InitIInv, InitFoldInv
<1>2. IInv /\ FoldInv /\ [Next]_vars => (IInv /\ FoldInv)'
  BY HandlersIInv, StutterIInv, StepFoldInv
<1> QED
  BY <1>1, <1>2, PTL DEF Spec

-----------------------------------------------------------------------------
\* Admission.

\* The policy in force is one that a request wrote.
LEMMA PolicyWellFormed ==
  ASSUME NEW s, FromCatalogue(s), PolicyNodes(s) # {}
  PROVE  /\ \A role : IsFiniteSet(Bindings(PolicyOf(s), role))
         /\ \A rule \in PolicyOf(s).rules : \A need \in rule.reviewers :
              need[2] \in Nat
<1> DEFINE id == CHOOSE n \in PolicyNodes(s) : TRUE
           policy == PolicyOf(s)
<1>1. id \in DOMAIN s /\ TypeOf(s[id].content) = "meta/Policy"
  BY DEF PolicyNodes, LiveNodes
<1>2. s[id].content # RedactedContent
  <2>1. TypeOf(RedactedContent) = "none"
    BY DEF TypeOf, RedactedContent
  <2> HIDE DEF id
  <2> QED
    BY <1>1, <2>1
<1>3. s[id].content \in Catalogue
  BY <1>1, <1>2 DEF FromCatalogue
<1>4. PICK request \in Requests \cup {Genesis} : s[id].content \in Bodies(request.ops)
  BY <1>3 DEF Catalogue
<1>5. PICK i \in 1..Len(request.ops) : /\ request.ops[i].verb \in {"create", "update"}
                                       /\ s[id].content = request.ops[i].body
  BY <1>4 DEF Bodies
<1>6. policy = request.ops[i].body.definition
  BY <1>5 DEF PolicyOf
<1>7. TypeOf(request.ops[i].body) = "meta/Policy"
  BY <1>1, <1>5
<1>8. /\ \A role \in DOMAIN policy.roles : IsFiniteSet(policy.roles[role])
      /\ \A rule \in policy.rules : \A need \in rule.reviewers : need[2] \in Nat
  BY <1>5, <1>6, <1>7, CatalogueAssumption
<1> HIDE DEF policy
<1>9. \A role : IsFiniteSet(Bindings(policy, role))
  BY <1>8, FS_EmptySet DEF Bindings
<1> QED
  BY <1>8, <1>9 DEF policy

\* A decision of doc approves of h, in the name of name, under policy.
Approves(s, policy, h, doc, name) ==
  \E r \in doc.decisions : \E d \in r.deciders :
    /\ r.verdict = "approve" /\ r.subject = h /\ r.context = policy
    /\ d.principal = name /\ d.key \in ActiveKeys(s, name)

\* An envelope of doc attests h.
Attested(s, h, doc, trust) ==
  \E e \in doc.envelopes :
    /\ e.subject = h /\ e.key \in AllKeys(s, e.attester)
    /\ e.evidence_type # "none" => e.measurement \in trust

\* What a rule that matches an operation asks of doc.
RuleMet(s, h, doc, trust, rule) ==
  /\ \A need \in rule.reviewers :
       \E team \in SUBSET Bindings(PolicyOf(s), need[1]) :
         /\ Cardinality(team) = need[2]
         /\ \A name \in team : Approves(s, PolicyOf(s), h, doc, name)
  /\ rule.attestations # {} => Attested(s, h, doc, trust)

\* The rules for one operation of a request.
RulesFor(s, request, i) ==
  MatchingRules(RegistryOf(s), PolicyOf(s), s, request.ops, request.ops[i],
                AuthorKind(s, request.author))

\* Justified, as a relation of the request and the trusted measurements.
JustifiedBy(s, request, h, doc, trust) ==
  /\ PrincipalNodes(s, request.author) # {}
  /\ \A i \in DOMAIN request.ops :
       /\ RulesFor(s, request, i) = {} =>
            PolicyOf(s).posture # "restricted" \/ request.author \in Roots
       /\ \A rule \in RulesFor(s, request, i) : RuleMet(s, h, doc, trust, rule)

LEMMA JustifiedParts ==
  ASSUME NEW s, NEW h, NEW doc
  PROVE  Justified(s, h, doc) <=> JustifiedBy(s, built[h].request, h, doc, trusted)
  BY DEF Justified, JustifiedBy, RulesFor, RuleMet, Approves, Attested, Ops, Author

\* What the handlers ask, as a relation of the state, the request, its
\* evidence and the trusted measurements.
Admits(s, request, h, doc, trust) ==
  /\ PolicyNodes(s) # {} /\ PrincipalNodes(s, request.author) # {}
  /\ Satisfied(s, PolicyOf(s), Roots, request.author, h,
               Evaluate(RegistryOf(s), PolicyOf(s), s, request.ops,
                        AuthorKind(s, request.author)),
               doc, trust)

\* It is what admit_or_hold and decide_with_record ask of the tip.
LEMMA AdmissibleAdmits ==
  ASSUME PolicyNodes(Tip) # {}, NEW h, NEW doc, Admissible(h, doc)
  PROVE  Admits(Tip, built[h].request, h, doc, trusted)
  BY DEF Admissible, Admits, TipRegistry, Ops, Author

\* More evidence and more trust admit no less.
LEMMA AdmitsGrows ==
  ASSUME NEW s, FromCatalogue(s), NEW request, NEW h, NEW doc, NEW more, NEW trust,
         NEW wider, Admits(s, request, h, doc, trust), trust \subseteq wider,
         doc.decisions \subseteq more.decisions, doc.envelopes \subseteq more.envelopes
  PROVE  Admits(s, request, h, more, wider)
<1> DEFINE policy == PolicyOf(s)
           checklist == Evaluate(RegistryOf(s), policy, s, request.ops,
                                 AuthorKind(s, request.author))
<1>1. /\ PolicyNodes(s) # {} /\ PrincipalNodes(s, request.author) # {}
      /\ checklist.rootRequired => request.author \in Roots
      /\ ReviewersMet(s, policy, h, checklist, doc.decisions)
      /\ AttestationsMet(s, h, checklist, doc.envelopes, trust)
  BY DEF Admits, Satisfied
<1>2. \A need \in checklist.reviewers : need[2] \in Nat
  BY <1>1, PolicyWellFormed DEF Evaluate, MatchingRules
<1>3. \A role : IsFiniteSet(Bindings(policy, role))
  BY <1>1, PolicyWellFormed
<1> HIDE DEF checklist, policy
<1>4. ReviewersMet(s, policy, h, checklist, more.decisions)
  <2> SUFFICES ASSUME NEW need \in checklist.reviewers
               PROVE  Cardinality(Approvals(s, policy, h, need[1], more.decisions)) >= need[2]
    BY DEF ReviewersMet
  <2> DEFINE few == Approvals(s, policy, h, need[1], doc.decisions)
             many == Approvals(s, policy, h, need[1], more.decisions)
  <2>1. few \subseteq many /\ many \subseteq Bindings(policy, need[1])
    BY DEF Approvals
  <2>2. Cardinality(few) >= need[2] /\ need[2] \in Nat
    BY <1>1, <1>2 DEF ReviewersMet
  <2> HIDE DEF few, many
  <2>3. IsFiniteSet(many)
    BY <1>3, <2>1, FS_Subset
  <2>4. Cardinality(few) <= Cardinality(many) /\ Cardinality(many) \in Nat
        /\ Cardinality(few) \in Nat
    BY <2>1, <2>3, FS_Subset, FS_CardinalityType
  <2>5. Cardinality(many) >= need[2]
    BY <2>2, <2>4
  <2> QED
    BY <2>5 DEF many
<1>5. AttestationsMet(s, h, checklist, more.envelopes, wider)
  BY <1>1 DEF AttestationsMet, EvidenceHolds
<1>6. Satisfied(s, policy, Roots, request.author, h, checklist, more, wider)
  BY <1>1, <1>4, <1>5 DEF Satisfied
<1> QED
  BY <1>1, <1>6 DEF Admits, policy, checklist

\* What is admitted is justified, rule by rule.
LEMMA AdmitsJustified ==
  ASSUME NEW s, FromCatalogue(s), NEW request, NEW h, NEW doc, NEW trust,
         Admits(s, request, h, doc, trust)
  PROVE  JustifiedBy(s, request, h, doc, trust)
<1> DEFINE policy == PolicyOf(s)
           checklist == Evaluate(RegistryOf(s), policy, s, request.ops,
                                 AuthorKind(s, request.author))
<1>1. /\ PolicyNodes(s) # {} /\ PrincipalNodes(s, request.author) # {}
      /\ checklist.rootRequired => request.author \in Roots
      /\ ReviewersMet(s, policy, h, checklist, doc.decisions)
      /\ AttestationsMet(s, h, checklist, doc.envelopes, trust)
  BY DEF Admits, Satisfied
<1>2. ASSUME NEW i \in DOMAIN request.ops, RulesFor(s, request, i) = {}
      PROVE  policy.posture # "restricted" \/ request.author \in Roots
  BY <1>1, <1>2 DEF Evaluate, RulesFor
<1>3. ASSUME NEW i \in DOMAIN request.ops, NEW rule \in RulesFor(s, request, i)
      PROVE  RuleMet(s, h, doc, trust, rule)
  <2>1. /\ rule.reviewers \subseteq checklist.reviewers
        /\ rule.attestations \subseteq checklist.attestations
        /\ rule \in policy.rules
    BY DEF Evaluate, RulesFor, MatchingRules
  <2> HIDE DEF checklist
  <2>2. ASSUME NEW need \in rule.reviewers
        PROVE  \E team \in SUBSET Bindings(policy, need[1]) :
                 /\ Cardinality(team) = need[2]
                 /\ \A name \in team : Approves(s, policy, h, doc, name)
    <3> DEFINE approvals == Approvals(s, policy, h, need[1], doc.decisions)
    <3>1. Cardinality(approvals) >= need[2]
      BY <1>1, <2>1 DEF ReviewersMet
    <3>2. /\ approvals \subseteq Bindings(policy, need[1])
          /\ \A name \in approvals : Approves(s, policy, h, doc, name)
      BY DEF Approvals, Approves
    <3>3. need[2] \in Nat /\ IsFiniteSet(Bindings(policy, need[1]))
      BY <1>1, <2>1, PolicyWellFormed
    <3> HIDE DEF approvals, policy
    <3>4. IsFiniteSet(approvals) /\ Cardinality(approvals) \in Nat
      BY <3>2, <3>3, FS_Subset, FS_CardinalityType
    <3>5. PICK team \in SUBSET approvals : Cardinality(team) = need[2]
      BY <3>1, <3>3, <3>4, TeamExists
    <3> QED
      BY <3>2, <3>5
  <2>3. ASSUME rule.attestations # {} PROVE Attested(s, h, doc, trust)
    <3>1. PICK class \in checklist.attestations : TRUE
      BY <2>1, <2>3
    <3> QED
      BY <1>1, <3>1 DEF AttestationsMet, EvidenceHolds, Attested
  <2> QED
    BY <2>2, <2>3 DEF RuleMet
<1> QED
  BY <1>1, <1>2, <1>3 DEF JustifiedBy

\* What the handlers ask is what a justification takes.
LEMMA AdmissibleJustified ==
  ASSUME FromCatalogue(Tip), PolicyNodes(Tip) # {}, NEW h, NEW doc,
         Admissible(h, doc)
  PROVE  Justified(Tip, h, doc)
  BY AdmissibleAdmits, AdmitsJustified, JustifiedParts

\* What a step files with a changeset: the evidence that admits it, or one
\* more envelope.
LEMMA FiledCases ==
  ASSUME IInv, [Next]_vars
  PROVE  \/ \E h \in Hashes \ {1} : \E doc :
              /\ Loads /\ Admissible(h, doc) /\ AppliesToTip(h)
              /\ AppendChangeset(h, doc)
              /\ UNCHANGED <<built, folded, chain, trusted>>
         \/ \E h \in Hashes : \E new :
              LET old == IF h \in DOMAIN evidence THEN evidence[h] ELSE NoEvidence
              IN  /\ evidence' = Put(evidence, h, [old EXCEPT !.envelopes = @ \cup {new}])
                  /\ UNCHANGED <<built, folded, chain, changesets, head, trusted>>
         \/ /\ UNCHANGED log /\ trusted \subseteq trusted'
            /\ UNCHANGED <<built, folded>> \/ \E request \in Requests : Build(request)
<1> DEFINE Goal ==
         \/ \E h \in Hashes \ {1} : \E doc :
              /\ Loads /\ Admissible(h, doc) /\ AppliesToTip(h)
              /\ AppendChangeset(h, doc)
              /\ UNCHANGED <<built, folded, chain, trusted>>
         \/ \E h \in Hashes : \E new :
              LET old == IF h \in DOMAIN evidence THEN evidence[h] ELSE NoEvidence
              IN  /\ evidence' = Put(evidence, h, [old EXCEPT !.envelopes = @ \cup {new}])
                  /\ UNCHANGED <<built, folded, chain, changesets, head, trusted>>
         \/ /\ UNCHANGED log /\ trusted \subseteq trusted'
            /\ UNCHANGED <<built, folded>> \/ \E request \in Requests : Build(request)
<1>1. ASSUME UNCHANGED vars PROVE Goal
  BY <1>1 DEF vars, log
<1>2. ASSUME NEW request \in Requests, Build(request) PROVE Goal
  BY <1>2 DEF Build, log
<1>3. ASSUME NEW h \in Hashes \ {1}, NEW envelopes, Admit(h, envelopes)
      PROVE  Goal
  BY <1>3 DEF Admit
<1>4. ASSUME NEW h \in Hashes \ {1}, NEW envelopes, Hold(h, envelopes)
      PROVE  Goal
  BY <1>4 DEF Hold
<1>5. ASSUME NEW h \in Hashes, NEW record \in signed, AdmitDecided(h, record)
      PROVE  Goal
  BY <1>5 DEF AdmitDecided, DecisionAccepted, IInv, Lineage
<1>6. ASSUME NEW h \in Hashes, NEW record \in signed,
             Reject(h, record) \/ StillUnmet(h, record)
      PROVE  Goal
  BY <1>6 DEF Reject, StillUnmet
<1>7. ASSUME NEW h \in Hashes, NEW verdict \in Verdicts, NEW signer \in Signers,
             SignDecision(h, verdict, signer)
      PROVE  Goal
  BY <1>7 DEF SignDecision
<1>8. ASSUME NEW h \in Hashes, NEW signer \in Attesters, NEW m \in Measurements,
             Attest(h, signer, m)
      PROVE  Goal
  BY <1>8 DEF Attest
<1>9. ASSUME NEW m \in Measurements, Trust(m) PROVE Goal
  BY <1>9 DEF Trust, log
<1> HIDE DEF Goal
<1>10. ASSUME NEW h \in Hashes \ {1}, Submit(h) PROVE Goal
  BY <1>3, <1>4, <1>10 DEF Submit
<1>11. ASSUME NEW h \in Hashes, Decide(h) PROVE Goal
  BY <1>5, <1>6, <1>11 DEF Decide
<1>12. ASSUME Next PROVE Goal
  BY <1>2, <1>7, <1>8, <1>9, <1>10, <1>11, <1>12 DEF Next
<1>13. Goal
  BY <1>1, <1>12
<1> QED
  BY <1>13 DEF Goal

\* However submissions, decisions and attestations interleave, no changeset
\* enters the log without its own justification, rule by rule.
THEOREM EveryAdmissionIsJustified == Spec => AdmissionJustified
<1>1. ASSUME IInv, FoldInv, [Next]_vars, NEW h \in changesets' \ changesets
      PROVE  Justified(Tip, h, evidence'[h])
  <2>1. PICK g \in Hashes : \E doc : /\ Loads /\ Admissible(g, doc)
                                     /\ AppendChangeset(g, doc)
    <3>1. UNCHANGED log => changesets' = changesets
      BY DEF log
    <3> QED
      BY <1>1, <3>1, FiledCases
  <2>2. PICK doc : Loads /\ Admissible(g, doc) /\ AppendChangeset(g, doc)
    BY <2>1
  <2>3. FromCatalogue(Tip) /\ PolicyNodes(Tip) # {}
    BY <1>1, <2>2 DEF IInv, TypeOK, FoldInv, Tip, Loads
  <2>4. h = g /\ evidence'[h] = doc
    BY <2>2, <1>1 DEF AppendChangeset, Put
  <2> QED
    BY <2>2, <2>3, <2>4, AdmissibleJustified
<1>2. IInv /\ FoldInv /\ [Next]_vars =>
        [\A h \in changesets' \ changesets : Justified(Tip, h, evidence'[h])]_vars
  BY <1>1
<1> QED
  BY <1>2, FoldInvariance, PTL DEF Spec, AdmissionJustified

\* What was recorded about an admitted changeset is only added to, unless the
\* changeset itself is appended again on evidence that admits it once more.
THEOREM EvidenceIsKept == Spec => EvidenceKept
<1>1. ASSUME IInv, [Next]_vars, NEW h \in changesets \cap DOMAIN evidence
      PROVE  \/ /\ evidence[h].decisions \subseteq evidence'[h].decisions
                /\ evidence[h].envelopes \subseteq evidence'[h].envelopes
             \/ h = head' /\ Admissible(h, evidence'[h]) /\ AppliesToTip(h)
  <2> DEFINE Grown == /\ evidence[h].decisions \subseteq evidence'[h].decisions
                      /\ evidence[h].envelopes \subseteq evidence'[h].envelopes
  <2>1. ASSUME NEW g \in Hashes, NEW doc, Admissible(g, doc), AppliesToTip(g),
               AppendChangeset(g, doc)
        PROVE  Grown \/ (h = head' /\ Admissible(h, evidence'[h]) /\ AppliesToTip(h))
    <3>1. evidence' = Put(evidence, g, doc) /\ head' = g
      BY <2>1 DEF AppendChangeset
    <3>2. evidence'[h] = IF h = g THEN doc ELSE evidence[h]
      BY <3>1, <1>1 DEF Put
    <3> QED
      BY <2>1, <3>1, <3>2
  <2>2. ASSUME NEW g \in Hashes, NEW new,
               LET old == IF g \in DOMAIN evidence THEN evidence[g] ELSE NoEvidence
               IN  evidence' = Put(evidence, g, [old EXCEPT !.envelopes = @ \cup {new}])
        PROVE  Grown
    <3>1. CASE g = h
      <4>1. evidence'[h] = [evidence[h] EXCEPT !.envelopes = @ \cup {new}]
        BY <2>2, <3>1, <1>1 DEF Put
      <4>2. DOMAIN evidence[h] = {"decisions", "envelopes"}
        BY <1>1 DEF IInv, TypeOK, EvidenceDocs
      <4> QED
        BY <4>1, <4>2
    <3>2. CASE g # h
      BY <2>2, <3>2, <1>1 DEF Put
    <3> QED
      BY <3>1, <3>2
  <2>3. UNCHANGED log => Grown
    BY DEF log
  <2> QED
    BY <1>1, <2>1, <2>2, <2>3, FiledCases
<1>2. IInv /\ [Next]_vars =>
        [\A h \in changesets \cap DOMAIN evidence :
           \/ /\ evidence[h].decisions \subseteq evidence'[h].decisions
              /\ evidence[h].envelopes \subseteq evidence'[h].envelopes
           \/ h = head' /\ Admissible(h, evidence'[h]) /\ AppliesToTip(h)]_vars
  BY <1>1
<1> QED
  BY <1>2, Invariance, PTL DEF Spec, EvidenceKept

-----------------------------------------------------------------------------
\* The log as an auditor finds it.

\* No stored changeset was built on HEAD: its history is the whole log.
HeadIsLeaf == \A h \in changesets \ {1} : built[h].parent # head

\* Every request makes or unmakes something, so that it applies once.
RequestsCreate ==
  \A request \in Requests \cup {Genesis} :
    \E i \in 1..Len(request.ops) : request.ops[i].verb \in {"create", "delete"}

\* What the handlers asked of the tip holds at the parent of each changeset.
Fine(h) == Admits(folded[built[h].parent].objects, built[h].request, h,
                  evidence[h], trusted)

AllFine == \A h \in changesets \ {1} : Fine(h)

AuditInv == SerialInv /\ FoldInv /\ HeadIsLeaf /\ AllFine

\* So each is justified there.
LEMMA FineIsJustified ==
  ASSUME AuditInv
  PROVE  AuditHolds
<1> SUFFICES ASSUME NEW h \in changesets \ {1}
             PROVE  Justified(folded[built[h].parent].objects, h, evidence[h])
  BY DEF AuditHolds
<1>1. built[h].parent \in Hashes
  BY DEF AuditInv, SerialInv, IInv, TypeOK, Lineage
<1>2. FromCatalogue(folded[built[h].parent].objects)
  BY <1>1 DEF AuditInv, FoldInv
<1> QED
  BY <1>2, AdmitsJustified, JustifiedParts DEF AuditInv, AllFine, Fine

\* An accepted step of the fold is an accepted changeset.
LEMMA FoldStepParts ==
  ASSUME NEW f, NEW ops, NEW reg, FoldStep(f, ops, reg).ok
  PROVE  /\ f.ok /\ ApplyChangeset(reg, f.objects, ops).ok
         /\ FoldStep(f, ops, reg).objects = ApplyChangeset(reg, f.objects, ops).objects
  BY DEF FoldStep

LEMMA FoldNextParts ==
  ASSUME NEW f, NEW ops, FoldNext(f, ops).ok
  PROVE  LET applied == ApplyChangeset(EffectiveRegistry(f, ops), f.objects, ops)
         IN  /\ f.ok /\ applied.ok
             /\ FoldNext(f, ops).objects = applied.objects
  BY FoldStepParts DEF FoldNext

LEMMA InitAuditInv == Init => AuditInv
  BY InitSerialInv, InitFoldInv DEF Init, AuditInv, HeadIsLeaf, AllFine

\* HEAD does not apply to what it has already made.
LEMMA HeadAppliesOnce ==
  ASSUME AuditInv, RequestsCreate, head # 1
  PROVE  ~AppliesToTip(head)
<1> DEFINE request == built[head].request
           before == folded[built[head].parent]
<1>1. /\ head \in Hashes /\ built[head].parent \in Hashes
      /\ request \in Requests \cup {Genesis}
  <2>1. /\ head \in changesets /\ changesets \subseteq Hashes
        /\ \A h \in Hashes \ {1} : built[h].parent \in changesets
        /\ built \in Seq([request : Requests \cup {Genesis}, parent : 0..MaxBuilt])
    BY DEF AuditInv, SerialInv, IInv, TypeOK, Lineage
  <2>2. \A h \in Hashes : built[h] \in [request : Requests \cup {Genesis},
                                       parent : 0..MaxBuilt]
    <3> DEFINE CS == [request : Requests \cup {Genesis}, parent : 0..MaxBuilt]
    <3>1. built \in Seq(CS)
      BY <2>1
    <3> HIDE DEF CS
    <3>2. \A h \in DOMAIN built : built[h] \in CS
      BY <3>1
    <3> QED
      BY <3>2 DEF Hashes, CS
  <2>3. built[head] \in [request : Requests \cup {Genesis}, parent : 0..MaxBuilt]
    BY <2>1, <2>2
  <2> QED
    BY <2>1, <2>3
<1>2. folded[head] = FoldNext(before, request.ops) /\ folded[head].ok
  BY <1>1 DEF AuditInv, SerialInv, TipFolds, Ops
<1>3. PICK reg : /\ ApplyChangeset(reg, before.objects, request.ops).ok
                 /\ Tip = ApplyChangeset(reg, before.objects, request.ops).objects
  BY <1>2, FoldNextParts DEF Tip
<1>4. IsState(before.objects) /\ IsState(Tip) /\ Keeps(Tip, Tip)
  BY <1>1 DEF AuditInv, FoldInv, Tip, Keeps
<1>5. PICK i \in 1..Len(request.ops) : request.ops[i].verb \in {"create", "delete"}
  BY <1>1 DEF RequestsCreate
<1>6. Len(request.ops) \in Nat
  BY <1>1, CatalogueAssumption
<1> HIDE DEF request, before
<1>7. ~ApplyChangeset(TipRegistry, Tip, request.ops).ok
  BY <1>3, <1>4, <1>5, <1>6, CreationIsOnce
<1> QED
  BY <1>7 DEF AppliesToTip, Ops, request

LEMMA StepAuditInv ==
  ASSUME AuditInv, RequestsCreate, [SerialNext]_vars
  PROVE  AuditInv'
<1>1. SerialInv' /\ FoldInv'
  BY SerialStep, StepFoldInv DEF AuditInv, SerialInv, SerialNext
<1>2. /\ IInv /\ [Next]_vars /\ changesets \subseteq Hashes
      /\ \A h \in changesets \ {1} :
           /\ Fine(h) /\ h \in DOMAIN evidence
           /\ FromCatalogue(folded[built[h].parent].objects)
  BY DEF Lineage, AllFine, AuditInv, SerialInv, SerialNext, IInv, TypeOK, FoldInv
<1>3. SUFFICES HeadIsLeaf' /\ \A h \in changesets' \ {1} : Fine(h)'
  BY <1>1 DEF AuditInv, AllFine
<1>4. ASSUME NEW h \in Hashes \ {1}, NEW doc, Loads, Admissible(h, doc),
             AppliesToTip(h), AppendChangeset(h, doc),
             UNCHANGED <<built, folded, chain, trusted>>
      PROVE  HeadIsLeaf' /\ \A g \in changesets' \ {1} : Fine(g)'
  <2>1. h # head
    BY <1>4, HeadAppliesOnce
  <2>2. built[h].parent = head /\ h \notin changesets
    <3>1. head' = h
      BY <1>4 DEF AppendChangeset
    <3>2. SerialNext
      BY <2>1, <3>1 DEF vars, log
    <3>3. built'[h].parent = head
      BY <2>1, <3>1, <3>2 DEF SerialNext, Serial
    <3> QED
      BY <1>4, <3>3 DEF AuditInv, HeadIsLeaf
  <2>3. HeadIsLeaf'
    BY <1>2, <1>4, <2>1, <2>2 DEF HeadIsLeaf, AppendChangeset, IInv, Lineage
  <2>4. Admits(Tip, built[h].request, h, doc, trusted)
    BY <1>4, AdmissibleAdmits DEF Loads
  <2>5. Admits(folded[built[h].parent].objects, built[h].request, h, doc, trusted)
    BY <2>2, <2>4 DEF Tip
  <2>6. /\ evidence'[h] = doc
        /\ \A g \in changesets \ {1} : evidence'[g] = evidence[g]
    BY <1>2, <1>4, <2>2 DEF AppendChangeset, Put
  <2> QED
    BY <1>2, <1>4, <2>3, <2>5, <2>6 DEF AppendChangeset, Fine
<1>5. ASSUME UNCHANGED <<changesets, head>>,
             \A h \in changesets \ {1} :
               /\ built'[h] = built[h]
               /\ folded'[built[h].parent] = folded[built[h].parent]
               /\ evidence[h].decisions \subseteq evidence'[h].decisions
               /\ evidence[h].envelopes \subseteq evidence'[h].envelopes,
             trusted \subseteq trusted'
      PROVE  HeadIsLeaf' /\ \A h \in changesets' \ {1} : Fine(h)'
  <2>1. HeadIsLeaf'
    BY <1>5 DEF AuditInv, HeadIsLeaf
  <2>2. ASSUME NEW h \in changesets \ {1} PROVE Fine(h)'
    <3>1. Admits(folded[built[h].parent].objects, built[h].request, h, evidence'[h],
                 trusted')
      BY <1>2, <1>5, AdmitsGrows DEF Fine
    <3> QED
      BY <1>5, <3>1 DEF Fine
  <2> QED
    BY <1>5, <2>1, <2>2
<1>6. ASSUME NEW h \in Hashes, NEW new,
             evidence' = Put(evidence, h,
               [(IF h \in DOMAIN evidence THEN evidence[h] ELSE NoEvidence)
                  EXCEPT !.envelopes = @ \cup {new}]),
             UNCHANGED <<built, folded, chain, changesets, head, trusted>>
      PROVE  HeadIsLeaf' /\ \A g \in changesets' \ {1} : Fine(g)'
  <2>1. ASSUME NEW g \in changesets \ {1}
        PROVE  /\ evidence[g].decisions \subseteq evidence'[g].decisions
               /\ evidence[g].envelopes \subseteq evidence'[g].envelopes
    <3>1. g \in DOMAIN evidence /\ DOMAIN evidence[g] = {"decisions", "envelopes"}
      BY <1>2 DEF IInv, TypeOK, EvidenceDocs
    <3>2. CASE g = h
      <4>1. evidence'[g] = [evidence[g] EXCEPT !.envelopes = @ \cup {new}]
        BY <1>6, <3>1, <3>2 DEF Put
      <4> QED
        BY <3>1, <4>1
    <3>3. CASE g # h
      BY <1>6, <3>1, <3>3 DEF Put
    <3> QED
      BY <3>2, <3>3
  <2> QED
    BY <1>5, <1>6, <2>1
<1>7. ASSUME NEW request \in Requests, Build(request)
      PROVE  HeadIsLeaf' /\ \A h \in changesets' \ {1} : Fine(h)'
  <2>1. /\ built' = Append(built, [request |-> request, parent |-> head])
        /\ folded' = Put(folded, Len(built) + 1, FoldNext(folded[head], request.ops))
        /\ UNCHANGED <<changesets, head, evidence, trusted>>
    BY <1>7 DEF Build, log
  <2>2. /\ built \in Seq([request : Requests \cup {Genesis}, parent : 0..MaxBuilt])
        /\ DOMAIN folded = Hashes
        /\ \A h \in changesets \ {1} : h \in Hashes /\ built[h].parent \in Hashes
    BY <1>2 DEF IInv, TypeOK, Lineage
  <2>3. \A h \in Hashes : built'[h] = built[h] /\ folded'[h] = folded[h]
    BY <2>1, <2>2 DEF Hashes, Put
  <2> QED
    BY <1>5, <2>1, <2>2, <2>3
<1>8. CASE UNCHANGED log /\ trusted \subseteq trusted' /\ UNCHANGED <<built, folded>>
  BY <1>5, <1>8 DEF log
<1> QED
  BY <1>2, <1>4, <1>6, <1>7, <1>8, FiledCases

\* When nothing is admitted between a changeset's building and its own
\* admission, and every changeset makes or unmakes something, every changeset
\* of the log stays justified under the policy of its parent revision,
\* whatever is attested, trusted or submitted again later.
THEOREM LogStaysAuditable ==
  ASSUME RequestsCreate
  PROVE  SerialSpec => []AuditHolds
<1>1. AuditInv /\ [SerialNext]_vars => AuditInv'
  BY StepAuditInv
<1>2. AuditInv => AuditHolds
  BY FineIsJustified
<1> QED
  BY <1>1, <1>2, InitAuditInv, PTL DEF SerialSpec

-----------------------------------------------------------------------------
\* The histories that a replay walks.

\* A chain starts at genesis and steps from parent to child, and the fold of
\* each changeset is one step from its parent's.
Linked ==
  /\ built[1].request = Genesis /\ folded[1] = FoldGenesis(Genesis.ops)
  /\ \A h \in Hashes \ {1} :
       folded[h] = FoldNext(folded[built[h].parent], built[h].request.ops)
  /\ \A h \in Hashes :
       /\ Len(chain[h]) > 0 /\ chain[h][1] = 1 /\ chain[h][Len(chain[h])] = h
       /\ \A i \in 2..Len(chain[h]) :
            /\ chain[h][i] \in Hashes \ {1}
            /\ built[chain[h][i]].parent = chain[h][i-1]

LEMMA InitLinked == Init => Linked
<1> SUFFICES ASSUME Init PROVE Linked
  OBVIOUS
<1>1. Hashes = {1} /\ chain[1] = <<1>> /\ Len(chain[1]) = 1
  BY DEF Init, Hashes
<1>2. built[1].request = Genesis /\ folded[1] = FoldGenesis(Genesis.ops)
  BY DEF Init
<1>3. 2..Len(chain[1]) = {} /\ Len(chain[1]) > 0 /\ chain[1][1] = 1
  BY <1>1
<1> QED
  BY <1>1, <1>2, <1>3 DEF Linked

LEMMA StepLinked ==
  ASSUME IInv, Linked, [Next]_vars
  PROVE  Linked'
<1>1. ASSUME NEW request \in Requests, Build(request)
      PROVE  Linked'
  <2> DEFINE n == Len(built) + 1
             mine == Append(chain[head], n)
             cs == [request |-> request, parent |-> head]
  <2>1. /\ built' = Append(built, cs) /\ chain' = Append(chain, mine)
        /\ folded' = Put(folded, n, FoldNext(folded[head], request.ops))
    BY <1>1 DEF Build
  <2>2. /\ Hashes = 1..Len(built) /\ Len(built) \in Nat /\ Len(built) > 0
        /\ DOMAIN chain = Hashes /\ DOMAIN folded = Hashes
        /\ chain \in Seq(Seq(Nat)) /\ head \in Hashes
        /\ \A h \in Hashes \ {1} : built[h].parent \in Hashes
    BY BoundsAssumption DEF IInv, TypeOK, Lineage, Hashes
  <2>3. /\ Hashes' = Hashes \cup {n} /\ n \notin Hashes /\ n # 1
        /\ built'[n] = cs /\ chain'[n] = mine
        /\ folded'[n] = FoldNext(folded[head], request.ops)
        /\ \A h \in Hashes : /\ built'[h] = built[h] /\ chain'[h] = chain[h]
                              /\ folded'[h] = folded[h]
    <3>1. built \in Seq([request : Requests \cup {Genesis}, parent : 0..MaxBuilt])
          /\ Len(chain) = Len(built)
      BY <2>2 DEF IInv, TypeOK
    <3>2. /\ Len(built') = n /\ DOMAIN built' = 1..n /\ built'[n] = cs
          /\ \A h \in 1..Len(built) : built'[h] = built[h]
      BY <2>1, <2>2, <3>1
    <3>3. chain'[n] = mine /\ \A h \in 1..Len(built) : chain'[h] = chain[h]
      BY <2>1, <2>2, <3>1
    <3>4. /\ folded'[n] = FoldNext(folded[head], request.ops)
          /\ \A h \in Hashes : folded'[h] = folded[h]
      BY <2>1, <2>2 DEF Put
    <3> QED
      BY <2>2, <3>2, <3>3, <3>4 DEF Hashes
  <2>4. /\ Len(mine) = Len(chain[head]) + 1 /\ mine[Len(mine)] = n
        /\ \A i \in 1..Len(chain[head]) : mine[i] = chain[head][i]
        /\ Len(chain[head]) \in Nat
    <3>1. chain[head] \in Seq(Nat)
      BY <2>2
    <3> QED
      BY <3>1
  <2> HIDE DEF mine
  <2>5. \A h \in Hashes' \ {1} :
          folded'[h] = FoldNext(folded'[built'[h].parent], built'[h].request.ops)
    <3> HIDE DEF n
    <3>1. folded'[n] = FoldNext(folded'[built'[n].parent], built'[n].request.ops)
      BY <2>2, <2>3
    <3>2. \A h \in Hashes \ {1} :
            folded'[h] = FoldNext(folded'[built'[h].parent], built'[h].request.ops)
      <4> SUFFICES ASSUME NEW h \in Hashes \ {1}
                   PROVE  folded'[h] = FoldNext(folded'[built'[h].parent],
                                                built'[h].request.ops)
        OBVIOUS
      <4>1. PICK made : made = built[h] /\ built'[h] = made /\ made.parent \in Hashes
        BY <2>2, <2>3
      <4>2. folded'[h] = folded[h] /\ folded'[made.parent] = folded[made.parent]
        BY <2>3, <4>1
      <4>3. folded[h] = FoldNext(folded[made.parent], made.request.ops)
        BY <4>1 DEF Linked
      <4> QED
        BY <4>1, <4>2, <4>3
    <3> QED
      BY <2>3, <3>1, <3>2
  <2>6. ASSUME NEW h \in Hashes
        PROVE  /\ Len(chain'[h]) > 0 /\ chain'[h][1] = 1 /\ chain'[h][Len(chain'[h])] = h
               /\ \A i \in 2..Len(chain'[h]) :
                    /\ chain'[h][i] \in Hashes' \ {1}
                    /\ built'[chain'[h][i]].parent = chain'[h][i-1]
    <3> HIDE DEF n, cs
    <3>1. PICK trail : trail = chain[h] /\ chain'[h] = trail
      BY <2>3
    <3>2. /\ Len(trail) > 0 /\ trail[1] = 1 /\ trail[Len(trail)] = h
          /\ \A i \in 2..Len(trail) : /\ trail[i] \in Hashes \ {1}
                                       /\ built[trail[i]].parent = trail[i-1]
      BY <3>1 DEF Linked
    <3>3. \A i \in 2..Len(trail) : /\ trail[i] \in Hashes' \ {1}
                                   /\ built'[trail[i]].parent = trail[i-1]
      BY <2>3, <3>2
    <3> QED
      BY <3>1, <3>2, <3>3
  <2>7. /\ Len(mine) > 0 /\ mine[1] = 1 /\ mine[Len(mine)] = n
        /\ \A i \in 2..Len(mine) : /\ mine[i] \in Hashes' \ {1}
                                   /\ built'[mine[i]].parent = mine[i-1]
    <3>1. Len(chain[head]) > 0 /\ chain[head][1] = 1 /\ chain[head][Len(chain[head])] = head
      BY <2>2 DEF Linked
    <3>2. ASSUME NEW i \in 2..Len(mine)
          PROVE  mine[i] \in Hashes' \ {1} /\ built'[mine[i]].parent = mine[i-1]
      <4>1. CASE i = Len(mine)
        <5>1. i - 1 = Len(chain[head]) /\ mine[i-1] = head
          BY <2>4, <3>1, <4>1
        <5> QED
          BY <2>3, <2>4, <4>1, <5>1
      <4>2. CASE i \in 2..Len(chain[head])
        <5>1. mine[i] = chain[head][i] /\ mine[i-1] = chain[head][i-1]
          BY <2>4, <4>2
        <5>2. chain[head][i] \in Hashes \ {1} /\ built[chain[head][i]].parent = chain[head][i-1]
          <6> HIDE DEF n, cs
          <6>1. PICK trail : head \in Hashes /\ trail = chain[head]
            BY <2>2
          <6>2. \A j \in 2..Len(trail) : /\ trail[j] \in Hashes \ {1}
                                         /\ built[trail[j]].parent = trail[j-1]
            BY <6>1 DEF Linked
          <6> QED
            BY <4>2, <6>1, <6>2
        <5> QED
          BY <2>3, <5>1, <5>2
      <4> QED
        BY <2>4, <4>1, <4>2
    <3> QED
      BY <2>4, <3>1, <3>2
  <2>8. built'[1].request = Genesis /\ folded'[1] = FoldGenesis(Genesis.ops)
    <3>1. 1 \in Hashes
      BY <2>2
    <3> QED
      BY <2>3, <3>1 DEF Linked
  <2> QED
    BY <2>3, <2>5, <2>6, <2>7, <2>8 DEF Linked
<1>2. CASE UNCHANGED <<built, folded, chain>>
  BY <1>2 DEF Linked, Hashes
<1> QED
  BY <1>1, <1>2, NextCases DEF Appends

-----------------------------------------------------------------------------
\* The replay.

\* run holds the results of auditing the first 0, 1, ..., n of hashes.
Audits(hashes, n, run) ==
  run = [i \in 0..n |-> IF i = 0 THEN EmptyReplay ELSE Audited(run[i-1], hashes[i])]

LEMMA AuditsExist ==
  ASSUME NEW hashes, NEW n \in Nat
  PROVE  \E run : Audits(hashes, n, run)
<1> DEFINE good == {m \in Nat : \E run : Audits(hashes, m, run)}
<1>1. 0 \in good
  <2>1. Audits(hashes, 0, [i \in 0..0 |-> EmptyReplay])
    BY DEF Audits
  <2> QED
    BY <2>1
<1>2. ASSUME NEW m \in 1..n, m - 1 \in good
      PROVE  m \in good
  <2>1. PICK run : Audits(hashes, m - 1, run)
    BY <1>2
  <2> DEFINE longer == [i \in 0..m |-> IF i = m THEN Audited(run[m-1], hashes[m])
                                       ELSE run[i]]
  <2>2. ASSUME NEW i \in 0..m
        PROVE  longer[i] = IF i = 0 THEN EmptyReplay
                           ELSE Audited(longer[i-1], hashes[i])
    <3>1. CASE i = m
      BY <3>1
    <3>2. CASE i # m
      <4>1. i \in 0..(m-1) /\ (i # 0 => i - 1 \in 0..(m-1) /\ i - 1 # m)
        BY <3>2
      <4>2. run[i] = IF i = 0 THEN EmptyReplay ELSE Audited(run[i-1], hashes[i])
        BY <2>1, <4>1 DEF Audits
      <4> QED
        BY <4>1, <4>2
    <3> QED
      BY <3>1, <3>2
  <2>3. Audits(hashes, m, longer)
    <3>1. longer = [i \in 0..m |-> longer[i]]
      OBVIOUS
    <3> HIDE DEF longer
    <3> QED
      BY <2>2, <3>1 DEF Audits
  <2> QED
    BY <2>3
<1>3. 0..n \subseteq good
  <2> HIDE DEF good
  <2> QED
    BY <1>1, <1>2, Induction
<1> QED
  BY <1>3

\* A changeset that passes is one that the tip's registry accepts.
LEMMA AuditedPasses ==
  ASSUME NEW replay, NEW h, Audited(replay, h).ok
  PROVE  LET applied == ApplyChangeset(TipRegistry, replay.objects, Ops(h))
         IN  /\ replay.ok /\ applied.ok
             /\ Audited(replay, h).objects = applied.objects
  BY DEF Audited

\* Replaying one changeset of a chain that folds.
LEMMA ReplayStep ==
  ASSUME IInv, Linked, NEW c, c = chain[head], NEW i \in 1..Len(c),
         NEW replay, Audited(replay, c[i]).ok, folded[c[i]].ok,
         replay.objects = IF i = 1 THEN EmptyState ELSE folded[c[i-1]].objects
  PROVE  Audited(replay, c[i]).objects = folded[c[i]].objects
<1> DEFINE h == c[i]
           before == IF i = 1 THEN EmptyFold ELSE folded[c[i-1]]
<1>1. h \in Hashes /\ Len(Ops(h)) \in Nat
  <2>1. head \in Hashes /\ 1 \in Hashes
        /\ built \in Seq([request : Requests \cup {Genesis}, parent : 0..MaxBuilt])
    BY DEF IInv, TypeOK, Lineage, Hashes
  <2>2. h \in Hashes
    <3>1. CASE i = 1
      BY <2>1, <3>1 DEF Linked
    <3>2. CASE i \in 2..Len(c)
      BY <2>1, <3>2 DEF Linked
    <3> QED
      BY <3>1, <3>2
  <2>3. built[h].request \in Requests \cup {Genesis}
    <3> DEFINE CS == [request : Requests \cup {Genesis}, parent : 0..MaxBuilt]
    <3>1. built \in Seq(CS)
      BY <2>1
    <3> HIDE DEF CS, h
    <3>2. built[h] \in CS
      BY <2>2, <3>1 DEF Hashes
    <3> QED
      BY <3>2 DEF CS
  <2> QED
    BY <2>2, <2>3, CatalogueAssumption DEF Ops
<1>2. PICK reg : /\ ApplyChangeset(reg, before.objects, Ops(h)).ok
                 /\ folded[h].objects = ApplyChangeset(reg, before.objects, Ops(h)).objects
  <2>1. CASE i = 1
    <3>1. h = 1 /\ Ops(h) = Genesis.ops /\ folded[h] = FoldGenesis(Ops(h))
      BY <2>1 DEF Linked, IInv, TypeOK, Ops
    <3>2. PICK reg : FoldGenesis(Ops(h)) = FoldStep(EmptyFold, Ops(h), reg)
      BY DEF FoldGenesis
    <3> HIDE DEF h
    <3>3. /\ ApplyChangeset(reg, EmptyFold.objects, Ops(h)).ok
          /\ folded[h].objects = ApplyChangeset(reg, EmptyFold.objects, Ops(h)).objects
      BY <3>1, <3>2, FoldStepParts DEF h
    <3> QED
      BY <2>1, <3>3
  <2>2. CASE i # 1
    <3>1. /\ h \in Hashes \ {1} /\ built[h].parent = c[i-1]
      BY <2>2 DEF Linked, IInv, TypeOK
    <3>2. folded[h] = FoldNext(before, Ops(h)) /\ folded[h].ok
      BY <2>2, <3>1 DEF Linked, Ops
    <3> HIDE DEF h, before
    <3> QED
      BY <3>2, FoldNextParts
  <2> QED
    BY <2>1, <2>2
<1>3. replay.objects = before.objects
  BY DEF EmptyFold
<1> HIDE DEF h, before
<1>4. /\ ApplyChangeset(TipRegistry, before.objects, Ops(h)).ok
      /\ Audited(replay, h).objects = ApplyChangeset(TipRegistry, before.objects, Ops(h)).objects
  BY <1>3, AuditedPasses DEF h
<1> QED
  BY <1>1, <1>2, <1>4, AcceptedAlike DEF h

LEMMA ReplayIsFold == ASSUME IInv, Linked PROVE VerifyReplaysFold
<1> SUFFICES ASSUME Verified PROVE Replay.objects = Tip
  BY DEF VerifyReplaysFold
<1> DEFINE c == chain[head]
           n == Len(c)
<1>1. n \in Nat /\ n > 0 /\ c[n] = head
  BY DEF IInv, TypeOK, Linked
<1>2. PICK run : Audits(c, n, run) /\ Replay = run[n]
  <2> DEFINE f == CHOOSE run : Audits(c, n, run)
  <2>1. Audits(c, n, f)
    BY <1>1, AuditsExist
  <2>2. Replay = f[n]
    BY DEF Replay, Audits
  <2> QED
    BY <2>1, <2>2
<1>3. run[0] = EmptyReplay /\ \A i \in 1..n : run[i] = Audited(run[i-1], c[i])
  BY <1>1, <1>2 DEF Audits
<1>4. run[n].ok /\ folded[c[n]].ok
  BY <1>1, <1>2 DEF Verified, Loads
\* Backwards: every changeset of the history passes, and is accepted.
<1>5. \A i \in 1..n : run[i].ok /\ folded[c[i]].ok
  <2> DEFINE good == {k \in Nat : n - k \in 1..n => run[n-k].ok /\ folded[c[n-k]].ok}
  <2>1. 0 \in good
    BY <1>1, <1>4
  <2>2. ASSUME NEW k \in 1..n, k - 1 \in good
        PROVE  k \in good
    <3> SUFFICES ASSUME n - k \in 1..n PROVE run[n-k].ok /\ folded[c[n-k]].ok
      OBVIOUS
    <3>1. PICK i \in 2..n : i = n - (k - 1) /\ i - 1 = n - k /\ i \in 1..n
      <4> HIDE DEF n
      <4>1. n - (k - 1) \in 2..n /\ n - (k - 1) - 1 = n - k
        BY <1>1
      <4> QED
        BY <4>1
    <3>2. run[i].ok /\ folded[c[i]].ok
      BY <2>2, <3>1
    <3>3. run[i-1].ok
      <4>1. run[i] = Audited(run[i-1], c[i])
        BY <1>3, <3>1
      <4> QED
        BY <3>2, <4>1, AuditedPasses
    <3>4. folded[c[i-1]].ok
      <4>1. folded[c[i]] = FoldNext(folded[c[i-1]], Ops(c[i]))
        <5>1. head \in Hashes
          BY DEF IInv, TypeOK
        <5>2. c[i] \in Hashes \ {1} /\ built[c[i]].parent = c[i-1]
          BY <3>1, <5>1 DEF Linked
        <5> HIDE DEF c
        <5> QED
          BY <5>2 DEF Linked, Ops
      <4> QED
        BY <3>2, <4>1, FoldNextParts
    <3> QED
      BY <3>1, <3>3, <3>4
  <2>3. 0..n \subseteq good
    <3> HIDE DEF good, n
    <3> QED
      BY <1>1, <2>1, <2>2, Induction
  <2> QED
    <3> SUFFICES ASSUME NEW i \in 1..n PROVE run[i].ok /\ folded[c[i]].ok
      OBVIOUS
    <3>1. n - i \in 0..n /\ n - (n - i) = i
      BY <1>1
    <3> QED
      BY <2>3, <3>1
\* Forwards: the replay and the fold reach the same states.
<1>6. run[n].objects = folded[c[n]].objects
  <2> DEFINE good == {i \in 0..n : run[i].objects =
                                     IF i = 0 THEN EmptyState ELSE folded[c[i]].objects}
  <2>1. 0 \in good
    BY <1>1, <1>3 DEF EmptyReplay
  <2>2. ASSUME NEW i \in 1..n, i - 1 \in good
        PROVE  i \in good
    <3>1. run[i] = Audited(run[i-1], c[i]) /\ run[i].ok /\ folded[c[i]].ok
      BY <1>3, <1>5
    <3>2. run[i-1].objects = IF i = 1 THEN EmptyState ELSE folded[c[i-1]].objects
      BY <2>2
    <3>3. run[i].objects = folded[c[i]].objects
      BY <3>1, <3>2, ReplayStep
    <3> QED
      BY <3>3
  <2>3. 0..n \subseteq good
    <3> HIDE DEF good, n
    <3> QED
      BY <1>1, <2>1, <2>2, Induction
  <2>4. n \in good
    BY <1>1, <2>3
  <2> QED
    BY <1>1, <2>4
<1> QED
  BY <1>1, <1>2, <1>6 DEF Tip

-----------------------------------------------------------------------------
\* What an audit accepts.

\* Genesis is accepted by the schema that it leaves, and not only by the one
\* it is taken to define while it is applied.
GenesisStands ==
  ApplyChangeset(RegistryOf(FoldGenesis(Genesis.ops).objects), EmptyState, Genesis.ops).ok

\* With a coherent cache, the fold judges a changeset by its parent's schema.
LEMMA EffectiveIsCurrent ==
  ASSUME NEW f, NEW ops, f.cache \in {None, RegistryOf(f.objects)}
  PROVE  EffectiveRegistry(f, ops) = RegistryOf(f.objects)
  BY DEF EffectiveRegistry

\* A history whose last changeset folds, folds at every changeset.
LEMMA HistoryFolds ==
  ASSUME IInv, Linked, NEW c, c = chain[head], NEW n, n = Len(c), folded[head].ok
  PROVE  /\ n \in Nat /\ n > 0 /\ c[1] = 1 /\ c[n] = head
         /\ \A i \in 1..n : c[i] \in changesets /\ folded[c[i]].ok
         /\ \A i \in 2..n : /\ c[i] \in Hashes \ {1} /\ built[c[i]].parent = c[i-1]
                            /\ folded[c[i]] = FoldNext(folded[c[i-1]], Ops(c[i]))
<1>1. /\ n \in Nat /\ n > 0 /\ c[1] = 1 /\ c[n] = head
      /\ \A i \in 1..n : c[i] \in changesets
      /\ head \in Hashes
  <2>1. /\ head \in changesets /\ head \in Hashes /\ DOMAIN chain = Hashes
        /\ chain \in Seq(Seq(Nat))
    BY DEF IInv, TypeOK, Lineage
  <2>2. c \in Seq(Nat) /\ DOMAIN c = 1..n /\ n \in Nat
    BY <2>1
  <2> QED
    BY <2>1, <2>2 DEF IInv, HistoryComplete
<1>2. \A i \in 2..n : /\ c[i] \in Hashes \ {1} /\ built[c[i]].parent = c[i-1]
                      /\ folded[c[i]] = FoldNext(folded[c[i-1]], Ops(c[i]))
  <2> TAKE i \in 2..n
  <2>1. c[i] \in Hashes \ {1} /\ built[c[i]].parent = c[i-1]
    BY <1>1 DEF Linked
  <2> QED
    BY <2>1 DEF Linked, Ops
<1> DEFINE good == {k \in Nat : n - k \in 1..n => folded[c[n-k]].ok}
<1>3. 0 \in good
  BY <1>1
<1>4. ASSUME NEW k \in 1..n, k - 1 \in good
      PROVE  k \in good
  <2> SUFFICES ASSUME n - k \in 1..n PROVE folded[c[n-k]].ok
    OBVIOUS
  <2>1. /\ n - (k - 1) \in 2..n /\ n - (k - 1) \in 1..n
        /\ (n - (k - 1)) - 1 = n - k
    BY <1>1
  <2>2. PICK i : i = n - (k - 1) /\ i \in 2..n /\ i \in 1..n /\ i - 1 = n - k
    BY <2>1
  <2>3. folded[c[i]].ok
    BY <1>4, <2>2
  <2>4. folded[c[i]] = FoldNext(folded[c[i-1]], Ops(c[i]))
    BY <1>2, <2>2
  <2>5. folded[c[i-1]].ok
    BY <2>3, <2>4, FoldNextParts
  <2> QED
    BY <2>2, <2>5
<1>5. 0..n \subseteq good
  <2> HIDE DEF good
  <2> QED
    BY <1>1, <1>3, <1>4, Induction
<1>6. \A i \in 1..n : folded[c[i]].ok
  <2> SUFFICES ASSUME NEW i \in 1..n PROVE folded[c[i]].ok
    OBVIOUS
  <2>1. n - i \in 0..n /\ n - (n - i) = i
    BY <1>1
  <2> QED
    BY <1>5, <2>1
<1> QED
  BY <1>1, <1>2, <1>6

\* Every changeset passes when the tip's rules are those of its parent.
LEMMA StableStep ==
  ASSUME AuditInv, Linked, GenesisStands, Loads, RulesUnchanged, SignedByAuthors,
         NEW c, c = chain[head], NEW i \in 1..Len(c), NEW replay, replay.ok,
         replay.objects = IF i = 1 THEN EmptyState ELSE folded[c[i-1]].objects
  PROVE  Audited(replay, c[i]).ok /\ Audited(replay, c[i]).objects = folded[c[i]].objects
<1> DEFINE h == c[i]
           n == Len(c)
           applied == ApplyChangeset(TipRegistry, replay.objects, Ops(h))
<1>0. IInv
  BY DEF AuditInv, SerialInv
<1>1. /\ n \in Nat /\ n > 0 /\ c[1] = 1 /\ c[n] = head
      /\ \A j \in 1..n : c[j] \in changesets /\ folded[c[j]].ok
      /\ \A j \in 2..n : /\ c[j] \in Hashes \ {1} /\ built[c[j]].parent = c[j-1]
                         /\ folded[c[j]] = FoldNext(folded[c[j-1]], Ops(c[j]))
  BY <1>0, HistoryFolds DEF Loads
<1>2. \A j \in 2..n : LET s == folded[c[j-1]].objects
                      IN  PolicyOf(s) = PolicyOf(Tip) /\ RegistryOf(s) = TipRegistry
  <2> TAKE j \in 2..n
  <2>1. LET s == folded[built[c[j]].parent].objects
        IN  PolicyOf(s) = PolicyOf(Tip) /\ RegistryOf(s) = TipRegistry
    BY DEF RulesUnchanged
  <2>2. built[c[j]].parent = c[j-1]
    BY <1>1
  <2> QED
    BY <2>1, <2>2
<1>3. Authentic(h)
  BY DEF SignedByAuthors
<1>4. CASE i = 1
  <2>1. h = 1 /\ Ops(h) = Genesis.ops /\ folded[1] = FoldGenesis(Genesis.ops)
    BY <1>1, <1>4 DEF Linked, Ops
  <2>2. TipRegistry = RegistryOf(folded[1].objects)
    <3>1. CASE n = 1
      BY <1>1, <3>1 DEF TipRegistry, Tip
    <3>2. CASE n # 1
      <4>1. 2 \in 2..n /\ 2 - 1 = 1
        <5> HIDE DEF n
        <5>1. n \in Nat /\ n > 0 /\ n # 1
          BY <1>1, <3>2
        <5> QED
          BY <5>1
      <4>2. c[2-1] = 1
        BY <1>1, <4>1
      <4> QED
        BY <1>2, <4>1, <4>2
    <3> QED
      BY <3>1, <3>2
  <2>3. applied.ok
    BY <1>4, <2>1, <2>2 DEF GenesisStands
  <2>4. Audited(replay, h).ok /\ Audited(replay, h).objects = applied.objects
    BY <1>3, <2>1, <2>3 DEF Audited
  <2> QED
    BY <1>0, <1>1, <1>4, <2>4, ReplayStep
<1>5. CASE i # 1
  <2>1. i \in 2..n /\ i - 1 \in 1..n
    BY <1>1, <1>5
  <2> DEFINE s == folded[c[i-1]].objects
  <2>2. /\ h \in changesets \ {1} /\ built[h].parent = c[i-1] /\ replay.objects = s
        /\ folded[h] = FoldNext(folded[c[i-1]], Ops(h)) /\ folded[h].ok
        /\ c[i-1] \in Hashes
    BY <1>0, <1>1, <1>5, <2>1 DEF IInv, TypeOK
  <2>3. PolicyOf(s) = PolicyOf(Tip) /\ RegistryOf(s) = TipRegistry
    BY <1>2, <2>1
  <2>4. folded[c[i-1]].cache \in {None, RegistryOf(s)}
    BY <2>2 DEF AuditInv, SerialInv
  <2>5. EffectiveRegistry(folded[c[i-1]], Ops(h)) = TipRegistry
    BY <2>3, <2>4, EffectiveIsCurrent
  <2> HIDE DEF h, s
  <2>6. ApplyChangeset(TipRegistry, s, Ops(h)).ok
    BY <2>2, <2>5, FoldNextParts DEF s
  <2>7. Admits(s, built[h].request, h, evidence[h], trusted) /\ EvidenceOf(h) = evidence[h]
    BY <2>2 DEF s, AuditInv, AllFine, Fine, FoldInv, EvidenceOf
  <2>8. Governed(s, h)
    BY <2>3, <2>7 DEF Admits, Governed, Ops, Author
  <2>9. Audited(replay, h).ok
    BY <1>3, <2>2, <2>6, <2>8 DEF Audited, h
  <2> QED
    BY <1>0, <2>2, <2>9, ReplayStep DEF h
<1> QED
  BY <1>4, <1>5

\* So the replay passes, and is the fold, changeset by changeset.
LEMMA StableIsAccepted ==
  ASSUME AuditInv, Linked, GenesisStands
  PROVE  VerifyAcceptsStable
<1> SUFFICES ASSUME Loads, RulesUnchanged, SignedByAuthors PROVE Replay.ok
  BY DEF VerifyAcceptsStable, Verified
<1> DEFINE c == chain[head]
           n == Len(c)
<1>1. n \in Nat /\ n > 0
  BY HistoryFolds DEF AuditInv, SerialInv, Loads
<1>2. PICK run : Audits(c, n, run) /\ Replay = run[n]
  <2> DEFINE f == CHOOSE run : Audits(c, n, run)
  <2>1. Audits(c, n, f)
    BY <1>1, AuditsExist
  <2>2. Replay = f[n]
    BY DEF Replay, Audits
  <2> QED
    BY <2>1, <2>2
<1>3. run[0] = EmptyReplay /\ \A i \in 1..n : run[i] = Audited(run[i-1], c[i])
  <2> HIDE DEF c, n
  <2>1. \A i \in 0..n : run[i] = IF i = 0 THEN EmptyReplay ELSE Audited(run[i-1], c[i])
    BY <1>2 DEF Audits
  <2>2. 0 \in 0..n /\ \A i \in 1..n : i \in 0..n /\ i # 0
    BY <1>1
  <2> QED
    BY <2>1, <2>2
<1> DEFINE good == {i \in 0..n :
                      /\ run[i].ok
                      /\ run[i].objects = IF i = 0 THEN EmptyState ELSE folded[c[i]].objects}
<1>4. 0 \in good
  BY <1>1, <1>3 DEF EmptyReplay
<1>5. ASSUME NEW i \in 1..n, i - 1 \in good
      PROVE  i \in good
  <2>1. /\ run[i-1].ok
        /\ run[i-1].objects = IF i = 1 THEN EmptyState ELSE folded[c[i-1]].objects
    BY <1>5
  <2>2. PICK replay : replay = run[i-1]
    OBVIOUS
  <2>3. i \in 1..Len(c) /\ run[i] = Audited(replay, c[i]) /\ replay.ok
        /\ replay.objects = IF i = 1 THEN EmptyState ELSE folded[c[i-1]].objects
    BY <1>3, <2>1, <2>2
  <2>4. Audited(replay, c[i]).ok /\ Audited(replay, c[i]).objects = folded[c[i]].objects
    BY <2>3, StableStep
  <2>5. run[i].ok /\ run[i].objects = folded[c[i]].objects
    BY <2>3, <2>4
  <2> QED
    BY <2>5
<1>6. 0..n \subseteq good
  <2> HIDE DEF good, n
  <2> QED
    BY <1>1, <1>4, <1>5, Induction
<1>7. n \in good
  BY <1>1, <1>6
<1> QED
  BY <1>2, <1>7

\* Under the serial use of the graph, an audit accepts every history that was
\* admitted under the rules that the tip still has, whatever became of keys,
\* roles and other objects since each changeset was admitted.
THEOREM StableHistoriesVerify ==
  ASSUME RequestsCreate, GenesisStands
  PROVE  SerialSpec => []VerifyAcceptsStable
<1>1. Init => AuditInv /\ Linked
  BY InitAuditInv, InitLinked
<1>2. AuditInv /\ Linked /\ [SerialNext]_vars => (AuditInv /\ Linked)'
  BY StepAuditInv, StepLinked DEF AuditInv, SerialInv, SerialNext
<1>3. AuditInv /\ Linked => VerifyAcceptsStable
  BY StableIsAccepted
<1> QED
  BY <1>1, <1>2, <1>3, PTL DEF SerialSpec

\* A history that verifies is the one the graph's readers see, however it
\* came about: the replay ends in the state that the fold computed, although
\* it judged every changeset by the tip's schema.
THEOREM VerifiedReplayIsTheFold == Spec => []VerifyReplaysFold
<1>1. Init => IInv /\ Linked
  BY InitIInv, InitLinked
<1>2. IInv /\ Linked /\ [Next]_vars => (IInv /\ Linked)'
  BY HandlersIInv, StutterIInv, StepLinked
<1>3. IInv /\ Linked => VerifyReplaysFold
  BY ReplayIsFold
<1> QED
  BY <1>1, <1>2, <1>3, PTL DEF Spec
=============================================================================
