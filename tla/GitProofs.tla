------------------------------ MODULE GitProofs ------------------------------
(***************************************************************************)
(* That decisions about commits accumulate, that the graph and the notes   *)
(* keep their types, that the graph mirrors the commit it was brought to,  *)
(* that derivations apply, and that verdicts on commits are justified, for *)
(* every set of processes, commits, policies and reviewers, wherever the   *)
(* processes die and whatever the owner edits in between.  The types rest  *)
(* on ids: an import mints ids that nothing has had before.                *)
(***************************************************************************)
EXTENDS GitGovernance, IndexProofs, TLAPS

-----------------------------------------------------------------------------
\* Why a reported decision is in the note: as long as one process at a time
\* decides a commit, nobody else touches its note or its file, and what the
\* process is about to write is the note with its record added.

Processes == scenario.processes

\* Two processes that decide a commit at once have been seen to.
Seen ==
  \A p, q \in Processes :
    (p # q /\ Busy(p) /\ Busy(q) /\ deciding[p].commit = deciding[q].commit)
      => deciding[p].commit \in crowded

\* How far a process has come with a commit that it alone decides.
OnTrack(d) ==
  LET next == NoteOf(d.commit) \cup {d.record}
  IN  CASE d.step = "write"  -> d.body = next
        [] d.step = "add"    -> d.commit \in DOMAIN temp /\ temp[d.commit] = next
        [] d.step = "remove" -> d.record \in NoteOf(d.commit)
        [] OTHER             -> TRUE

Alone ==
  \A p \in Processes :
    Busy(p) => /\ deciding[p].commit = deciding[p].record.subject
               /\ deciding[p].commit \in crowded \/ OnTrack(deciding[p])

DecideInv ==
  /\ deciding = [p \in Processes |-> deciding[p]]
  /\ Seen
  /\ Alone
  /\ NotesKeepDecisions

\* No decision is under way at first.
LEMMA InitDecideInv == Init => DecideInv
  BY DEF Init, DecideInv, Seen, Alone, NotesKeepDecisions, Busy, Idle, Processes

\* One process goes on with its commit, or stops; every other stays where it is.
GoesOn(p, d) ==
  /\ deciding' = [deciding EXCEPT ![p] = d]
  /\ UNCHANGED <<scenario, crowded>>
  /\ d.step # "idle" => Busy(p) /\ d.commit = deciding[p].commit
                                /\ d.record = deciding[p].record

\* The note and the file of other commits stay as they are.
Apart(c) ==
  \A other : other # c =>
    /\ NoteOf(other)' = NoteOf(other)
    /\ other \in DOMAIN temp' <=> other \in DOMAIN temp
    /\ other \in DOMAIN temp => temp'[other] = temp[other]

\* What a step owes the commit that it is about.
LEMMA GoesOnInv ==
  ASSUME DecideInv, NEW p \in Processes, Busy(p), NEW d, GoesOn(p, d),
         NEW c, c = deciding[p].commit, Apart(c),
         c \notin crowded => NoteOf(c) \subseteq NoteOf(c)',
         (d.step # "idle" /\ c \notin crowded) => OnTrack(d)',
         \A r \in acked' \ acked : r.subject \in crowded \/ r \in NoteOf(r.subject)'
  PROVE  DecideInv'
<1>1. /\ deciding' = [q \in Processes |-> IF q = p THEN d ELSE deciding[q]]
      /\ Processes' = Processes /\ crowded' = crowded
  BY DEF GoesOn, DecideInv, Processes
<1>2. Seen'
  BY <1>1 DEF DecideInv, Seen, GoesOn, Busy
<1>3. Alone'
  <2> SUFFICES ASSUME NEW q \in Processes, Busy(q)'
               PROVE  /\ (deciding[q].commit = deciding[q].record.subject)'
                      /\ (deciding[q].commit \in crowded \/ OnTrack(deciding[q]))'
    BY <1>1 DEF Alone
  <2>1. CASE q = p
    BY <1>1, <2>1 DEF DecideInv, Alone, GoesOn, Busy
  <2>2. CASE q # p
    <3>1. deciding'[q] = deciding[q] /\ Busy(q)
      BY <1>1, <2>2 DEF Busy
    <3>2. CASE deciding[q].commit = c
      BY <1>1, <3>1, <3>2, <2>2 DEF DecideInv, Seen, Alone
    <3>3. CASE deciding[q].commit # c
      <4>1. /\ NoteOf(deciding[q].commit)' = NoteOf(deciding[q].commit)
            /\ deciding[q].commit \in DOMAIN temp' <=> deciding[q].commit \in DOMAIN temp
            /\ deciding[q].commit \in DOMAIN temp =>
                 temp'[deciding[q].commit] = temp[deciding[q].commit]
        BY <3>1, <3>3 DEF Apart
      <4>2. OnTrack(deciding[q]) => OnTrack(deciding[q])'
        BY <3>1, <4>1 DEF OnTrack
      <4> QED
        BY <1>1, <3>1, <4>2 DEF DecideInv, Alone
    <3> QED
      BY <3>2, <3>3
  <2> QED
    BY <2>1, <2>2
<1>4. NotesKeepDecisions'
  <2> SUFFICES ASSUME NEW r \in acked'
               PROVE  r.subject \in crowded \/ r \in NoteOf(r.subject)'
    BY <1>1 DEF NotesKeepDecisions
  <2>1. CASE r \in acked
    <3>1. r.subject \in crowded \/ r \in NoteOf(r.subject)
      BY <2>1 DEF DecideInv, NotesKeepDecisions
    <3>2. CASE r.subject = c
      BY <3>1, <3>2
    <3>3. CASE r.subject # c
      BY <3>1, <3>3 DEF Apart
    <3> QED
      BY <3>2, <3>3
  <2> QED
    BY <2>1
<1>5. (deciding = [q \in Processes |-> deciding[q]])'
  BY <1>1
<1> QED
  BY <1>2, <1>3, <1>4, <1>5 DEF DecideInv

-----------------------------------------------------------------------------
\* The steps of a process.

LEMMA StartInv ==
  ASSUME DecideInv, NEW p \in Processes, NEW c, NEW name, NEW verdict,
         StartDecide(p, c, name, verdict)
  PROVE  DecideInv'
<1> DEFINE others == {q \in Processes : Busy(q) /\ deciding[q].commit = c}
<1>1. PICK record : /\ record = [Approval(c, name) EXCEPT !.verdict = verdict]
                    /\ record.subject = c
  <2>1. [Approval(c, name) EXCEPT !.verdict = verdict].subject = c
    BY DEF Approval
  <2> QED
    BY <2>1
<1>2. PICK d : /\ d = Doing("read", record, {}, FALSE)
               /\ d.step = "read" /\ d.commit = c /\ d.record = record
  <2> DEFINE new == Doing("read", record, {}, FALSE)
  <2>1. new.step = "read" /\ new.commit = c /\ new.record = record
    BY <1>1 DEF Doing
  <2> HIDE DEF new
  <2>2. \E d : /\ d = new
               /\ d.step = "read" /\ d.commit = c /\ d.record = record
    BY <2>1
  <2> QED
    BY <2>2 DEF new
<1>3. d.commit = d.record.subject
  BY <1>1, <1>2
<1>4. /\ ~Busy(p)
      /\ deciding' = [deciding EXCEPT ![p] = d]
      /\ crowded' = IF others = {} THEN crowded ELSE crowded \cup {c}
      /\ UNCHANGED <<scenario, notes, temp, acked>>
  BY <1>1, <1>2 DEF StartDecide, Processes
<1>5. /\ deciding' = [q \in Processes |-> IF q = p THEN d ELSE deciding[q]]
      /\ Processes' = Processes
  BY <1>4 DEF DecideInv, Processes
<1>6. Seen'
  <2> SUFFICES ASSUME NEW a \in Processes, NEW b \in Processes, a # b,
                      Busy(a)', Busy(b)', deciding'[a].commit = deciding'[b].commit
               PROVE  deciding'[a].commit \in crowded'
    BY <1>5 DEF Seen
  <2>1. CASE a # p /\ b # p
    BY <1>4, <1>5, <2>1 DEF DecideInv, Seen, Busy
  <2>2. ASSUME NEW q \in Processes, q # p, Busy(q)', deciding'[q].commit = c
        PROVE  c \in crowded'
    <3>1. q \in others
      BY <1>5, <2>2 DEF Busy
    <3> QED
      BY <1>4, <3>1
  <2>3. deciding'[p].commit = c
    BY <1>2, <1>5
  <2>4. CASE a = p
    BY <2>2, <2>3, <2>4
  <2>5. CASE b = p
    BY <2>2, <2>3, <2>5
  <2> QED
    BY <2>1, <2>4, <2>5
<1>7. Alone'
  <2> SUFFICES ASSUME NEW q \in Processes, Busy(q)'
               PROVE  /\ (deciding[q].commit = deciding[q].record.subject)'
                      /\ (deciding[q].commit \in crowded \/ OnTrack(deciding[q]))'
    BY <1>5 DEF Alone
  <2>1. CASE q = p
    BY <1>2, <1>3, <1>5, <2>1 DEF OnTrack
  <2>2. CASE q # p
    BY <1>4, <1>5, <2>2 DEF DecideInv, Alone, OnTrack, NoteOf, Busy
  <2> QED
    BY <2>1, <2>2
<1>8. NotesKeepDecisions'
  BY <1>4 DEF DecideInv, NotesKeepDecisions, NoteOf
<1> QED
  BY <1>5, <1>6, <1>7, <1>8 DEF DecideInv

LEMMA ReadInv ==
  ASSUME DecideInv, NEW p \in Processes, ReadNote(p)
  PROVE  DecideInv'
<1>1. PICK c, record : c = deciding[p].commit /\ record = deciding[p].record
  OBVIOUS
<1>2. PICK d : d = Doing("write", record, NoteOf(c) \cup {record}, FALSE)
  OBVIOUS
<1>3. /\ Busy(p) /\ deciding' = [deciding EXCEPT ![p] = d]
      /\ UNCHANGED <<scenario, notes, temp, acked, crowded>>
  BY <1>1, <1>2 DEF ReadNote, WithRecord, Busy
<1>4. c = record.subject
  BY <1>1, <1>3 DEF DecideInv, Alone
<1>5. /\ d.step = "write" /\ d.commit = c /\ d.record = record
      /\ d.body = NoteOf(c) \cup {record}
  BY <1>2, <1>4 DEF Doing
<1>6. OnTrack(d)'
  BY <1>3, <1>5 DEF OnTrack, NoteOf
<1>7. GoesOn(p, d)
  BY <1>1, <1>3, <1>5 DEF GoesOn
<1>8. Apart(c) /\ NoteOf(c)' = NoteOf(c)
  BY <1>3 DEF Apart, NoteOf
<1> QED
  BY <1>1, <1>3, <1>6, <1>7, <1>8, GoesOnInv

LEMMA WriteInv ==
  ASSUME DecideInv, NEW p \in Processes, WriteTemp(p)
  PROVE  DecideInv'
<1>1. PICK c, record, body :
        c = deciding[p].commit /\ record = deciding[p].record /\ body = deciding[p].body
  OBVIOUS
<1>2. PICK d : d = Doing("add", record, body, FALSE)
  OBVIOUS
<1>3. /\ Busy(p) /\ deciding[p].step = "write" /\ deciding' = [deciding EXCEPT ![p] = d]
      /\ temp' = Put(temp, c, body)
      /\ UNCHANGED <<scenario, notes, acked, crowded>>
  BY <1>1, <1>2 DEF WriteTemp, Busy
<1>4. c = record.subject /\ (c \in crowded \/ body = NoteOf(c) \cup {record})
  BY <1>1, <1>3 DEF DecideInv, Alone, OnTrack
<1>5. d.step = "add" /\ d.commit = c /\ d.record = record
  BY <1>2, <1>4 DEF Doing
<1>6. Apart(c) /\ NoteOf(c)' = NoteOf(c)
  BY <1>3 DEF Apart, Put, NoteOf
<1>7. temp'[c] = body /\ c \in DOMAIN temp'
  BY <1>3 DEF Put
<1>8. c \notin crowded => OnTrack(d)'
  BY <1>4, <1>5, <1>6, <1>7 DEF OnTrack
<1>9. GoesOn(p, d)
  BY <1>1, <1>3, <1>5 DEF GoesOn
<1> QED
  BY <1>1, <1>3, <1>6, <1>8, <1>9, GoesOnInv

LEMMA AddInv ==
  ASSUME DecideInv, NEW p \in Processes, AddNote(p)
  PROVE  DecideInv'
<1>1. PICK c, record, body :
        c = deciding[p].commit /\ record = deciding[p].record /\ body = deciding[p].body
  OBVIOUS
<1>2. PICK d : d = Doing("remove", record, body, c \notin DOMAIN temp)
  OBVIOUS
<1>3. /\ Busy(p) /\ deciding[p].step = "add" /\ deciding' = [deciding EXCEPT ![p] = d]
      /\ notes' = IF c \in DOMAIN temp THEN Put(notes, c, temp[c]) ELSE notes
      /\ UNCHANGED <<scenario, temp, acked, crowded>>
  BY <1>1, <1>2 DEF AddNote, Busy
<1>4. /\ c = record.subject
      /\ c \notin crowded => /\ c \in DOMAIN temp
                             /\ temp[c] = NoteOf(c) \cup {record}
  BY <1>1, <1>3 DEF DecideInv, Alone, OnTrack
<1>5. d.step = "remove" /\ d.commit = c /\ d.record = record
  BY <1>2, <1>4 DEF Doing
<1>6. Apart(c)
  BY <1>3 DEF Apart, Put, NoteOf
<1>7. c \notin crowded => NoteOf(c)' = NoteOf(c) \cup {record}
  <2>1. c \in DOMAIN temp => NoteOf(c)' = temp[c]
    BY <1>3 DEF NoteOf, Put
  <2> QED
    BY <1>4, <2>1
<1>8. c \notin crowded => OnTrack(d)'
  BY <1>5, <1>7 DEF OnTrack
<1>9. GoesOn(p, d)
  BY <1>1, <1>3, <1>5 DEF GoesOn
<1> QED
  BY <1>1, <1>3, <1>6, <1>7, <1>8, <1>9, GoesOnInv

LEMMA RemoveInv ==
  ASSUME DecideInv, NEW p \in Processes, RemoveTemp(p)
  PROVE  DecideInv'
<1>1. PICK c, record : c = deciding[p].commit /\ record = deciding[p].record
  OBVIOUS
<1>2. /\ Busy(p) /\ deciding[p].step = "remove" /\ deciding' = [deciding EXCEPT ![p] = Idle]
      /\ temp' = [x \in DOMAIN temp \ {c} |-> temp[x]]
      /\ acked' \subseteq acked \cup {record}
      /\ UNCHANGED <<scenario, notes, crowded>>
  BY <1>1 DEF RemoveTemp, Busy
<1>3. c = record.subject /\ (c \in crowded \/ record \in NoteOf(c))
  BY <1>1, <1>2 DEF DecideInv, Alone, OnTrack
<1>4. Apart(c) /\ NoteOf(c)' = NoteOf(c)
  BY <1>2 DEF Apart, NoteOf
<1>5. GoesOn(p, Idle) /\ Idle.step = "idle"
  BY <1>2 DEF GoesOn, Idle
<1>6. \A r \in acked' \ acked : r.subject \in crowded \/ r \in NoteOf(r.subject)'
  BY <1>2, <1>3, <1>4
<1> QED
  BY <1>1, <1>2, <1>4, <1>5, <1>6, GoesOnInv

LEMMA DieInv ==
  ASSUME DecideInv, NEW p \in Processes, Die(p)
  PROVE  DecideInv'
<1>1. PICK c : c = deciding[p].commit
  OBVIOUS
<1>2. /\ Busy(p) /\ deciding' = [deciding EXCEPT ![p] = Idle]
      /\ UNCHANGED <<scenario, notes, temp, acked, crowded>>
  BY DEF Die
<1>3. GoesOn(p, Idle) /\ Idle.step = "idle"
  BY <1>2 DEF GoesOn, Idle
<1>4. Apart(c) /\ NoteOf(c)' = NoteOf(c)
  BY <1>2 DEF Apart, NoteOf
<1> QED
  BY <1>1, <1>2, <1>3, <1>4, GoesOnInv

\* What is done to the graph changes no note.
LEMMA OthersKeep ==
  ASSUME DecideInv, UNCHANGED <<scenario, git>>
  PROVE  DecideInv'
  BY DEF git, DecideInv, Seen, Alone, OnTrack, NotesKeepDecisions, NoteOf, Busy,
         Processes

\* Every step keeps the decisions apart that must be.
LEMMA StepDecideInv == ASSUME DecideInv, [Next]_vars PROVE DecideInv'
<1>1. ASSUME UNCHANGED vars PROVE DecideInv'
  BY <1>1, OthersKeep DEF vars
<1>2. ASSUME NEW c, NEW author, Index(c, author) PROVE DecideInv'
  BY <1>2, OthersKeep DEF Index
<1>3. ASSUME NEW h, ApproveHeld(h) PROVE DecideInv'
  BY <1>3, OthersKeep DEF ApproveHeld
<1>4. ASSUME Edit PROVE DecideInv'
  BY <1>4, OthersKeep DEF Edit, Classify, Relate, Correct, InstallPolicy, OwnerCommits
<1>5. ASSUME NEW p \in Processes,
             \/ \E v \in scenario.votes : StartDecide(p, v[1], v[2], v[3])
             \/ ReadNote(p) \/ WriteTemp(p) \/ AddNote(p) \/ RemoveTemp(p) \/ Die(p)
      PROVE  DecideInv'
  BY <1>5, StartInv, ReadInv, WriteInv, AddInv, RemoveInv, DieInv
<1> QED
  BY <1>1, <1>2, <1>3, <1>4, <1>5 DEF Next, Processes

\* A decision about a commit that was reported as recorded is in the note for
\* good, however many processes decide and wherever they die, as long as no
\* two of them decide the same commit at once.
THEOREM DecisionsAccumulate == Spec => []NotesKeepDecisions
<1>1. DecideInv /\ [Next]_vars => DecideInv'
  BY StepDecideInv
<1>2. DecideInv => NotesKeepDecisions
  BY DEF DecideInv
<1> QED
  BY <1>1, <1>2, InitDecideInv, PTL DEF Spec

-----------------------------------------------------------------------------
\* Why ids are minted once: what is in the graph, and what a derivation that
\* is held would create, took its ids before the ones that are left.

IdInv ==
  /\ scenario \in Scenarios
  /\ DOMAIN objects \subseteq Id /\ IsFiniteSet(DOMAIN objects)
  /\ minted \in 0..Len(NodeIds) /\ at \in Commit \cup {None}
  /\ DOMAIN objects \cap Later(minted) = {}
  /\ \A p \in held : p.commit \in Commit /\ Spares(p.ops, Later(minted))

\* At first no id of an import has been given.
LEMMA InitIdInv == Init => IdInv
<1> SUFFICES ASSUME Init PROVE IdInv
  OBVIOUS
<1>1. DOMAIN objects = DOMAIN StartNodes /\ minted = 0 /\ held = {} /\ at = None
      /\ scenario \in Scenarios
  BY DEF Init, StartObjects
<1>2. 0 \in 0..Len(NodeIds) /\ Later(0) \subseteq Range(NodeIds) \cup EdgeId
  BY IdAssumption DEF Later, Range
<1> QED
  BY <1>1, <1>2, GitAssumption, KindsAreDisjoint DEF IdInv, Id

\* What operations bring into the graph, if they create none of some ids.
LEMMA ApplyKeepsIds ==
  ASSUME IdInv, NEW ops, NEW ids, Spares(ops, ids), DOMAIN objects \cap ids = {},
         NEW commit, Apply(ops, commit)
  PROVE  /\ DOMAIN objects' \subseteq Id /\ IsFiniteSet(DOMAIN objects')
         /\ DOMAIN objects' \cap ids = {}
         /\ at' = commit
<1>1. PICK n \in Nat : n = Len(ops)
  BY DEF Spares, IsSequence
<1>2. DOMAIN objects' \subseteq DOMAIN objects \cup (Id \cap Created(ops)) /\ at' = commit
  BY <1>1, OnlyCreated DEF Apply, Applied
<1>3. IsFiniteSet(Created(ops))
  <2> DEFINE S == {j \in 1..n : ops[j].verb = "create"}
             f == [i \in S |-> ops[i].id]
  <2>1. Created(ops) = {f[i] : i \in S} /\ f = [i \in S |-> f[i]] /\ S \subseteq 1..n
    BY <1>1 DEF Created
  <2> HIDE DEF S, f
  <2>2. IsFiniteSet(S)
    BY <2>1, FS_Interval, FS_Subset
  <2> QED
    BY <2>1, <2>2, FiniteImage
<1>4. IsFiniteSet(DOMAIN objects')
  <2>1. IsFiniteSet(DOMAIN objects \cup Created(ops))
    BY <1>3, FS_Union DEF IdInv
  <2> QED
    BY <1>2, <2>1, FS_Subset
<1>5. Created(ops) \cap ids = {}
  BY DEF Created, Spares
<1> QED
  BY <1>2, <1>4, <1>5 DEF IdInv

\* Operations that spare some ids spare fewer.
LEMMA SparesFewer ==
  ASSUME NEW ops, NEW ids, NEW fewer \in SUBSET ids, Spares(ops, ids)
  PROVE  Spares(ops, fewer)
  BY DEF Spares

\* An import, admitted at once or held, uses ids of its own.
LEMMA IndexIds ==
  ASSUME IdInv, NEW c \in scenario.commits, NEW author, Index(c, author)
  PROVE  IdInv'
<1>1. PICK ops, mints : ops = ImportOps(objects, c, minted) /\ mints = MintedBy(objects, c)
  OBVIOUS
<1>2. /\ minted + mints <= Len(NodeIds) /\ minted' = minted + mints
      /\ scenario' = scenario
      /\ \/ Apply(ops, c) /\ held' = held
         \/ /\ held' = {[author |-> author, commit |-> c, ops |-> ops,
                         base |-> objects]}
            /\ UNCHANGED <<objects, at>>
  BY <1>1 DEF Index, Derive
<1>3. c \in Commit /\ minted \in Nat /\ Len(NodeIds) \in Nat
  BY GitAssumption, IdAssumption DEF IdInv
<1>4. mints \in Nat /\ Spares(ops, Later(minted'))
  BY <1>1, <1>2, <1>3, ImportSpares DEF IdInv
<1>5. minted' \in 0..Len(NodeIds) /\ Later(minted') \subseteq Later(minted)
  <2>1. minted' \in Nat /\ minted <= minted' /\ minted' <= Len(NodeIds)
    BY <1>2, <1>3, <1>4
  <2> QED
    BY <1>3, <2>1, LaterShrinks
<1>6. DOMAIN objects \cap Later(minted') = {}
  BY <1>5 DEF IdInv
<1>7. CASE Apply(ops, c) /\ held' = held
  <2>1. /\ DOMAIN objects' \subseteq Id /\ IsFiniteSet(DOMAIN objects')
        /\ DOMAIN objects' \cap Later(minted') = {} /\ at' = c
    BY <1>4, <1>6, <1>7, ApplyKeepsIds
  <2>2. \A p \in held' : p.commit \in Commit /\ Spares(p.ops, Later(minted'))
    BY <1>5, <1>7, SparesFewer DEF IdInv
  <2> QED
    BY <1>2, <1>3, <1>5, <2>1, <2>2 DEF IdInv
<1>8. CASE /\ held' = {[author |-> author, commit |-> c, ops |-> ops, base |-> objects]}
           /\ UNCHANGED <<objects, at>>
  <2>1. \A p \in held' : p.commit \in Commit /\ Spares(p.ops, Later(minted'))
    BY <1>3, <1>4, <1>8
  <2> QED
    BY <1>2, <1>5, <1>6, <1>8, <2>1 DEF IdInv
<1> QED
  BY <1>2, <1>7, <1>8

\* The approval of a held import creates what the import minted.
LEMMA ApproveIds ==
  ASSUME IdInv, NEW p \in held, ApproveHeld(p)
  PROVE  IdInv'
<1>1. /\ Apply(p.ops, p.commit) /\ held' \subseteq held
      /\ UNCHANGED <<scenario, minted>>
  BY DEF ApproveHeld
<1>2. PICK ids : ids = Later(minted)
  OBVIOUS
<1>3. Spares(p.ops, ids) /\ p.commit \in Commit /\ DOMAIN objects \cap ids = {}
  BY <1>2 DEF IdInv
<1>4. /\ DOMAIN objects' \subseteq Id /\ IsFiniteSet(DOMAIN objects')
      /\ DOMAIN objects' \cap ids = {} /\ at' = p.commit
  BY <1>1, <1>3, ApplyKeepsIds
<1> QED
  BY <1>1, <1>2, <1>3, <1>4 DEF IdInv

\* What the owner commits, if it creates nothing that is left to be minted.
LEMMA OwnerIds ==
  ASSUME IdInv, NEW ops, OwnerCommits(ops), minted' \in minted..Len(NodeIds),
         Spares(ops, Later(minted'))
  PROVE  IdInv'
<1>1. Apply(ops, at) /\ UNCHANGED <<scenario, held>>
  BY DEF OwnerCommits
<1>2. minted \in Nat /\ minted' \in Nat /\ minted <= minted' /\ minted' \in 0..Len(NodeIds)
  BY IdAssumption DEF IdInv
<1>3. PICK ids : ids = Later(minted') /\ ids \subseteq Later(minted)
  BY <1>2, LaterShrinks
<1>4. DOMAIN objects \cap ids = {}
  BY <1>3 DEF IdInv
<1>5. /\ DOMAIN objects' \subseteq Id /\ IsFiniteSet(DOMAIN objects')
      /\ DOMAIN objects' \cap ids = {} /\ at' = at
  BY <1>1, <1>3, <1>4, ApplyKeepsIds
<1>6. \A p \in held' : p.commit \in Commit /\ Spares(p.ops, ids)
  BY <1>1, <1>3, SparesFewer DEF IdInv
<1> QED
  BY <1>1, <1>2, <1>3, <1>5, <1>6 DEF IdInv

\* A person's edit creates under ids that are not those of imports.
LEMMA EditIds == ASSUME IdInv, Edit PROVE IdInv'
<1>1. minted \in Nat /\ Len(NodeIds) \in Nat /\ minted <= Len(NodeIds)
  BY IdAssumption DEF IdInv
<1>2. Later(minted) \subseteq NodeId \cup EdgeId
  BY <1>1, IdAssumption DEF Later
<1>3. ASSUME NEW n, NEW t \in scenario.marks, Classify(n, t[1], t[2]) PROVE IdInv'
  <2>1. t[1] \in ClassificationId
    BY GitAssumption DEF IdInv
  <2>2. PICK op : op = [verb |-> "create", id |-> t[1],
                        body |-> [subject |-> n, term |-> t[2]]]
    OBVIOUS
  <2>3. OwnerCommits(<<op>>) /\ minted' = minted
    BY <1>3, <2>2 DEF Classify
  <2>4. op.id \notin Later(minted)
    BY <1>2, <2>1, <2>2, KindsAreDisjoint
  <2>5. Spares(<<op>>, Later(minted')) /\ minted' \in minted..Len(NodeIds)
    <3>1. PICK ids : ids = Later(minted') /\ op.id \notin ids
      BY <2>3, <2>4
    <3>2. Spares(<<op>>, ids)
      BY <3>1, <2>3, SparesOne
    <3>3. minted' \in minted..Len(NodeIds)
      BY <1>1, <2>3
    <3> QED
      BY <3>1, <3>2, <3>3
  <2> QED
    BY <2>3, <2>5, OwnerIds
<1>4. ASSUME NEW n, NEW m, Relate(n, m) PROVE IdInv'
  <2>1. PICK op : op = [verb |-> "create", id |-> EdgeIds[minted + 1],
                        body |-> [type |-> "code/references", from |-> n, to |-> m]]
    OBVIOUS
  <2>2. OwnerCommits(<<op>>) /\ minted' = minted + 1 /\ minted < Len(NodeIds)
    BY <1>4, <2>1 DEF Relate, Fresh
  <2>3. op.id \notin Later(minted')
    BY <1>1, <2>1, <2>2, MintedOnce
  <2>4. Spares(<<op>>, Later(minted')) /\ minted' \in minted..Len(NodeIds)
    <3>1. PICK ids : ids = Later(minted') /\ op.id \notin ids
      BY <2>3
    <3>2. Spares(<<op>>, ids)
      BY <3>1, <2>2, SparesOne
    <3>3. minted' \in minted..Len(NodeIds)
      BY <1>1, <2>2
    <3> QED
      BY <3>1, <3>2, <3>3
  <2> QED
    BY <2>2, <2>4, OwnerIds
<1>5. ASSUME NEW op, OwnerCommits(<<op>>), op.verb # "create", minted' = minted
      PROVE  IdInv'
  <2>1. Spares(<<op>>, Later(minted')) /\ minted' \in minted..Len(NodeIds)
    <3>1. PICK ids : ids = Later(minted')
      OBVIOUS
    <3>2. Spares(<<op>>, ids)
      BY <3>1, <1>5, SparesOne
    <3>3. minted' \in minted..Len(NodeIds)
      BY <1>1, <1>5
    <3> QED
      BY <3>1, <3>2, <3>3
  <2> QED
    BY <1>5, <2>1, OwnerIds
<1>6. ASSUME NEW n, Correct(n) PROVE IdInv'
  <2>1. PICK op : op = [verb |-> "update", id |-> n, prior |-> objects[n].rev,
                        body |-> [type |-> "code/Function",
                                  name |-> objects[n].content.name,
                                  signature |-> "asserted", span |-> <<0, 0>>]]
    OBVIOUS
  <2>2. op.verb # "create"
    BY <2>1
  <2> QED
    BY <1>5, <1>6, <2>1, <2>2 DEF Correct
<1>7. ASSUME NEW doc, InstallPolicy(doc) PROVE IdInv'
  <2>1. PICK op : op = [verb |-> "update", id |-> PolicyNode,
                        prior |-> objects[PolicyNode].rev,
                        body |-> [type |-> "meta/Policy", definition |-> doc]]
    OBVIOUS
  <2>2. op.verb # "create"
    BY <2>1
  <2> QED
    BY <1>5, <1>7, <2>1, <2>2 DEF InstallPolicy
<1> QED
  BY <1>3, <1>4, <1>6, <1>7 DEF Edit

\* Every step keeps the ids apart.
LEMMA StepIdInv == ASSUME IdInv, [Next]_vars PROVE IdInv'
<1>1. ASSUME UNCHANGED <<scenario, graph>> PROVE IdInv'
  BY <1>1 DEF IdInv, graph
<1>2. ASSUME NEW c \in scenario.commits, NEW author, Index(c, author) PROVE IdInv'
  BY <1>2, IndexIds
<1>3. ASSUME NEW h \in held, ApproveHeld(h) PROVE IdInv'
  BY <1>3, ApproveIds
<1>4. ASSUME NEW p,
             \/ \E v \in scenario.votes : StartDecide(p, v[1], v[2], v[3])
             \/ ReadNote(p) \/ WriteTemp(p) \/ AddNote(p) \/ RemoveTemp(p) \/ Die(p)
      PROVE  IdInv'
  BY <1>1, <1>4 DEF StartDecide, ReadNote, WriteTemp, AddNote, RemoveTemp, Die
<1>5. CASE UNCHANGED vars
  BY <1>1, <1>5 DEF vars
<1> QED
  BY <1>2, <1>3, <1>4, <1>5, EditIds DEF Next

\* A note, a file, and what a process is about to write hold decisions about
\* their own commit.
About(records, c) == \A record \in records : record.subject = c

RecordsInv ==
  /\ \A c \in DOMAIN notes : About(notes[c], c)
  /\ \A c \in DOMAIN temp : About(temp[c], c)
  /\ \A p \in Processes :
       deciding[p].step \in {"write", "add"} => About(deciding[p].body, deciding[p].commit)

\* One process goes on; notes and files that change hold what they should.
LEMMA GoesOnRecords ==
  ASSUME DecideInv, RecordsInv, NEW p \in Processes, NEW d,
         deciding' = [deciding EXCEPT ![p] = d], scenario' = scenario,
         d.step \in {"write", "add"} => About(d.body, d.commit),
         \A c \in DOMAIN notes' : About(notes'[c], c),
         \A c \in DOMAIN temp' : About(temp'[c], c)
  PROVE  RecordsInv'
<1>1. deciding' = [q \in Processes |-> IF q = p THEN d ELSE deciding[q]]
      /\ Processes' = Processes
  BY DEF DecideInv, Processes
<1>2. ASSUME NEW q \in Processes, deciding'[q].step \in {"write", "add"}
      PROVE  About(deciding'[q].body, deciding'[q].commit)
  <2>1. CASE q = p
    BY <1>1, <1>2, <2>1
  <2>2. CASE q # p
    BY <1>1, <1>2, <2>2 DEF RecordsInv
  <2> QED
    BY <2>1, <2>2
<1> QED
  BY <1>1, <1>2 DEF RecordsInv

\* What a process is in the middle of is a record.
LEMMA ProcessRecords ==
  ASSUME DecideInv, RecordsInv, NEW p \in Processes,
         \/ \E v \in scenario.votes : StartDecide(p, v[1], v[2], v[3])
         \/ ReadNote(p) \/ WriteTemp(p) \/ AddNote(p) \/ RemoveTemp(p) \/ Die(p)
  PROVE  RecordsInv'
<1>1. ASSUME NEW d, d.step \notin {"write", "add"},
             deciding' = [deciding EXCEPT ![p] = d],
             UNCHANGED <<scenario, notes, temp>>
      PROVE  RecordsInv'
  BY <1>1, GoesOnRecords DEF RecordsInv
<1>2. ASSUME NEW v, StartDecide(p, v[1], v[2], v[3]) PROVE RecordsInv'
  <2>1. PICK record : deciding' = [deciding EXCEPT ![p] = Doing("read", record, {}, FALSE)]
    BY <1>2 DEF StartDecide
  <2>2. Doing("read", record, {}, FALSE).step = "read"
    BY DEF Doing
  <2> QED
    BY <1>1, <1>2, <2>1, <2>2 DEF StartDecide
<1>3. ASSUME ReadNote(p) PROVE RecordsInv'
  <2>1. PICK c, record : c = deciding[p].commit /\ record = deciding[p].record
    OBVIOUS
  <2>2. c = record.subject
    BY <1>3, <2>1 DEF ReadNote, DecideInv, Alone, Busy
  <2>3. PICK d : d = Doing("write", record, NoteOf(c) \cup {record}, FALSE)
    OBVIOUS
  <2>4. d.commit = c /\ d.body = NoteOf(c) \cup {record}
    BY <2>2, <2>3 DEF Doing
  <2>5. About(d.body, d.commit)
    BY <2>2, <2>4 DEF About, NoteOf, RecordsInv
  <2>6. deciding' = [deciding EXCEPT ![p] = d] /\ UNCHANGED <<scenario, notes, temp>>
    BY <1>3, <2>1, <2>3 DEF ReadNote, WithRecord
  <2> QED
    BY <2>5, <2>6, GoesOnRecords DEF RecordsInv
<1>4. ASSUME WriteTemp(p) PROVE RecordsInv'
  <2>1. PICK c, record, body :
          c = deciding[p].commit /\ record = deciding[p].record /\ body = deciding[p].body
    OBVIOUS
  <2>2. c = record.subject /\ About(body, c)
    BY <1>4, <2>1 DEF WriteTemp, DecideInv, Alone, Busy, RecordsInv
  <2>3. PICK d : d = Doing("add", record, body, FALSE)
    OBVIOUS
  <2>4. d.commit = c /\ d.body = body
    BY <2>2, <2>3 DEF Doing
  <2>5. /\ deciding' = [deciding EXCEPT ![p] = d] /\ UNCHANGED <<scenario, notes>>
        /\ temp' = Put(temp, c, body)
    BY <1>4, <2>1, <2>3 DEF WriteTemp
  <2>6. \A x \in DOMAIN temp' : About(temp'[x], x)
    BY <2>2, <2>5 DEF RecordsInv, Put
  <2> QED
    BY <2>2, <2>4, <2>5, <2>6, GoesOnRecords DEF RecordsInv
<1>5. ASSUME AddNote(p) PROVE RecordsInv'
  <2>1. PICK c, record, body :
          c = deciding[p].commit /\ record = deciding[p].record /\ body = deciding[p].body
    OBVIOUS
  <2>2. PICK d : d = Doing("remove", record, body, c \notin DOMAIN temp)
    OBVIOUS
  <2>3. d.step = "remove"
    BY <2>2 DEF Doing
  <2>4. /\ deciding' = [deciding EXCEPT ![p] = d] /\ UNCHANGED <<scenario, temp>>
        /\ notes' = IF c \in DOMAIN temp THEN Put(notes, c, temp[c]) ELSE notes
    BY <1>5, <2>1, <2>2 DEF AddNote
  <2>5. \A x \in DOMAIN notes' : About(notes'[x], x)
    BY <2>4 DEF RecordsInv, Put
  <2> QED
    BY <2>3, <2>4, <2>5, GoesOnRecords DEF RecordsInv
<1>6. ASSUME RemoveTemp(p) PROVE RecordsInv'
  <2>1. /\ deciding' = [deciding EXCEPT ![p] = Idle] /\ UNCHANGED <<scenario, notes>>
        /\ DOMAIN temp' \subseteq DOMAIN temp /\ \A x \in DOMAIN temp' : temp'[x] = temp[x]
    BY <1>6 DEF RemoveTemp
  <2>2. Idle.step \notin {"write", "add"}
    BY DEF Idle
  <2> QED
    BY <2>1, <2>2, GoesOnRecords DEF RecordsInv
<1>7. ASSUME Die(p) PROVE RecordsInv'
  BY <1>1, <1>7 DEF Die, Idle
<1> QED
  BY <1>2, <1>3, <1>4, <1>5, <1>6, <1>7

TypeInv == DecideInv /\ RecordsInv /\ IdInv

\* The invariant holds at first.
LEMMA InitTypeInv == Init => TypeInv
<1>1. Init => RecordsInv
  BY DEF Init, RecordsInv, Processes, Idle, EmptyState
<1> QED
  BY <1>1, InitDecideInv, InitIdInv DEF TypeInv

\* Every step keeps the invariant.
LEMMA StepTypeInv == ASSUME TypeInv, [Next]_vars PROVE TypeInv'
<1>1. ASSUME UNCHANGED <<scenario, git>> PROVE RecordsInv'
  BY <1>1 DEF TypeInv, RecordsInv, git, Processes
<1>2. ASSUME NEW c, NEW author, Index(c, author) PROVE RecordsInv'
  BY <1>1, <1>2 DEF Index
<1>3. ASSUME NEW h, ApproveHeld(h) PROVE RecordsInv'
  BY <1>1, <1>3 DEF ApproveHeld
<1>4. ASSUME Edit PROVE RecordsInv'
  BY <1>1, <1>4 DEF Edit, Classify, Relate, Correct, InstallPolicy, OwnerCommits
<1>5. ASSUME UNCHANGED vars PROVE RecordsInv'
  BY <1>1, <1>5 DEF vars
<1>6. RecordsInv'
  BY <1>2, <1>3, <1>4, <1>5, ProcessRecords DEF Next, TypeInv, Processes
<1> QED
  BY <1>6, StepDecideInv, StepIdInv DEF TypeInv

\* The invariant implies the type invariant.
LEMMA TypeInvTyped == TypeInv => TypeOK
<1> SUFFICES ASSUME TypeInv PROVE TypeOK
  OBVIOUS
<1>1. /\ DOMAIN objects \subseteq Id /\ minted \in 0..Len(NodeIds)
      /\ at \in Commit \cup {None}
  BY DEF TypeInv, IdInv
<1>2. \A i \in (minted + 1)..Len(NodeIds) :
        NodeIds[i] \notin DOMAIN objects /\ EdgeIds[i] \notin DOMAIN objects
  BY IdAssumption DEF TypeInv, IdInv, Later
<1>3. \A f \in {notes, temp} : \A c \in DOMAIN f : \A record \in f[c] : record.subject = c
  BY DEF TypeInv, RecordsInv, About
<1> QED
  BY <1>1, <1>2, <1>3 DEF TypeOK

\* The files of the index, the held imports, the marks and the notes of decisions
\* are what their readers take them to be after every step: no import is ever
\* refused for an id that is taken, since each mints ids that no object, alive or
\* deleted, in the graph or in a held import, has had.
THEOREM TypeCorrect == Spec => []TypeOK
<1>1. TypeInv /\ [Next]_vars => TypeInv'
  BY StepTypeInv
<1> QED
  BY <1>1, InitTypeInv, TypeInvTyped, PTL DEF Spec
-----------------------------------------------------------------------------
\* Why the index can be trusted: its live nodes and edges are always one object
\* for each entity, tie and call of one commit, or of none, whatever the owner
\* edits; a derivation that is held is that of the state it was derived on; and
\* the policy is not of the index.

HeldInv ==
  \A p \in held :
    \E m \in Nat : /\ m + MintedBy(p.base, p.commit) <= Len(NodeIds)
                   /\ p.ops = ImportOps(p.base, p.commit, m)
                   /\ DOMAIN p.base \cap Later(m) = {}

PolicyInv ==
  /\ PolicyNode \in DOMAIN objects /\ ~objects[PolicyNode].deleted
  /\ TypeOf(objects[PolicyNode].content) = "meta/Policy"
  /\ ThePolicy \in {StartNodes[PolicyNode].definition} \cup scenario.policies

IndexInv ==
  /\ TypeInv
  /\ HeldInv
  /\ PolicyInv
  /\ \E X, P, home : Shape(objects, X, P, home)
  /\ IndexMatches

\* What two states both have an entity of has one node in both.
Kept(s, r) ==
  \A e \in DOMAIN Indexed(s) \cap DOMAIN Indexed(r) : Indexed(r)[e] = Indexed(s)[e]

\* At first there is no index.
LEMMA InitIndexInv == Init => IndexInv
<1> SUFFICES ASSUME Init PROVE IndexInv
  OBVIOUS
<1>1. /\ DOMAIN objects = DOMAIN StartNodes /\ held = {} /\ at = None
      /\ \A n \in DOMAIN StartNodes : /\ objects[n].content = StartNodes[n]
                                      /\ ~objects[n].deleted
  BY DEF Init, StartObjects
<1>2. Derived(objects) = {}
  <2>1. DOMAIN objects \cap EdgeId = {}
    BY <1>1, GitAssumption, KindsAreDisjoint
  <2>2. CodeNodes(objects) = {}
    BY <1>1, GitAssumption DEF CodeNodes, LiveNodes
  <2> QED
    BY <2>1, <2>2 DEF Derived, DerivedEdges, LiveEdges
<1>3. \E X, P, home : Shape(objects, X, P, home)
  BY <1>2, NoIndex
<1>4. PolicyInv
  BY <1>1, GitAssumption DEF PolicyInv, ThePolicy
<1>5. HeldInv /\ IndexMatches
  BY <1>1 DEF HeldInv, IndexMatches
<1> QED
  BY <1>3, <1>4, <1>5, InitTypeInv DEF IndexInv

\* The policy is not of the index.
LEMMA PolicyApart == ASSUME PolicyInv PROVE PolicyNode \notin Derived(objects)
<1>1. PolicyNode \in NodeId
  BY GitAssumption
<1>2. PolicyNode \notin EdgeId
  BY <1>1, KindsAreDisjoint
<1> QED
  BY <1>2 DEF PolicyInv, Derived, CodeNodes, DerivedEdges, LiveEdges

\* An import that applies.
LEMMA ImportStep ==
  ASSUME IndexInv, NEW c \in Commit, NEW m \in Nat,
         m + MintedBy(objects, c) <= Len(NodeIds), DOMAIN objects \cap Later(m) = {},
         Apply(ImportOps(objects, c, m), c), scenario' = scenario
  PROVE  /\ \E X, P, home : Shape(objects', X, P, home)
         /\ Mirrors(objects', c) /\ at' = c
         /\ PolicyInv'
         /\ Kept(objects, objects')
<1>1. PICK X, P, home : Shape(objects, X, P, home)
  BY DEF IndexInv
<1>2. Importing(objects, X, P, home, c, m)
  BY <1>1 DEF Importing, IndexInv, TypeInv, IdInv
<1>3. PICK reg, s, ops : reg = Registry /\ s = objects /\ ops = ImportOps(objects, c, m)
  OBVIOUS
<1>4. /\ ApplyOps(reg, s, ops).ok
      /\ objects' = ApplyOps(reg, s, ops).objects
      /\ at' = c
  BY <1>3, Accepted DEF Apply, Applied
<1>5. PICK r, next : r = objects' /\ next = NextHome(s, X, P, home, c, m)
  OBVIOUS
<1>6. Importing(s, X, P, home, c, m) /\ ops = ImportOps(s, c, m)
      /\ r = ApplyOps(reg, s, ops).objects
  BY <1>2, <1>3, <1>4, <1>5
<1>7. Shape(r, Entities[c], Calls[c], next)
  BY <1>4, <1>5, <1>6, ResultShape
<1>8. Mirrors(r, c)
  BY <1>4, <1>6, ImportMirrors
<1>9. \A e \in DOMAIN Indexed(s) \cap DOMAIN Indexed(r) : Indexed(r)[e] = Indexed(s)[e]
  BY <1>4, <1>6, ImportKeeps
<1>10. PolicyInv'
  <2>1. PICK id : id = PolicyNode
    OBVIOUS
  <2>2. id \in DOMAIN s /\ id \notin Derived(s) /\ PolicyInv
    BY <1>3, <2>1, PolicyApart DEF IndexInv, PolicyInv
  <2>3. \A slot \in Slots(Entities[c], Calls[c]) : id # next[slot]
    <3> TAKE slot \in Slots(Entities[c], Calls[c])
    <3>1. next[slot] \in DOMAIN s <=> slot \in Slots(X, P)
      BY <1>5, <1>6, NextIs
    <3>2. slot \in Slots(X, P) => next[slot] = home[slot] /\ home[slot] \in Derived(s)
      <4>1. slot \in Slots(X, P) => next[slot] = home[slot]
        BY <1>5, <1>6, NextIs
      <4>2. slot \in Slots(X, P) => home[slot] \in Derived(s)
        BY <1>6, HomeIs DEF Importing
      <4> QED
        BY <4>1, <4>2
    <3> QED
      BY <2>2, <3>1, <3>2
  <2>4. Same(s, ApplyOps(reg, s, ops).objects, id)
    BY <1>4, <1>5, <1>6, <2>2, <2>3, ResultApart
  <2>5. id \in DOMAIN r /\ r[id] = s[id]
    BY <1>6, <2>2, <2>4 DEF Same
  <2> QED
    BY <1>3, <1>5, <2>1, <2>2, <2>5 DEF PolicyInv, ThePolicy
<1> QED
  BY <1>3, <1>4, <1>5, <1>7, <1>8, <1>9, <1>10 DEF Kept

\* An edit of the owner's of what is not of the index.
LEMMA OwnerStep ==
  ASSUME IndexInv, NEW op, op.verb \in {"create", "update"}, OwnerCommits(<<op>>),
         op.id \notin Derived(objects), TypeOf(op.body) \notin NodeTypes \cup EdgeTypes
  PROVE  /\ \E X, P, home : Shape(objects', X, P, home)
         /\ \A c \in Commit : Mirrors(objects, c) => Mirrors(objects', c)
         /\ Kept(objects, objects')
         /\ at' = at /\ held' = held /\ scenario' = scenario
         /\ Became(objects', op.id, op.body)
         /\ \A id : id # op.id => Same(objects, objects', id)
<1>1. PICK X, P, home : Shape(objects, X, P, home)
  BY DEF IndexInv
<1>2. PICK reg, s, r : reg = Registry /\ s = objects /\ r = objects'
  OBVIOUS
<1>3. /\ ApplyChangeset(reg, s, <<op>>).ok
      /\ r = ApplyChangeset(reg, s, <<op>>).objects
      /\ at' = at /\ held' = held /\ scenario' = scenario
  BY <1>2 DEF OwnerCommits, Apply, Applied
<1>4. Became(r, op.id, op.body) /\ \A id : id # op.id => Same(s, r, id)
  BY <1>3, OneWritten
<1>5. PICK id, body : id = op.id /\ body = op.body
  OBVIOUS
<1>6. /\ Shape(r, X, P, home)
      /\ \A e \in X : r[home[<<"node", e>>]] = s[home[<<"node", e>>]]
  BY <1>1, <1>2, <1>4, <1>5, EditApart
<1>7. \A c \in Commit : Mirrors(s, c) => Mirrors(r, c)
  <2> SUFFICES ASSUME NEW c \in Commit, Mirrors(s, c) PROVE Mirrors(r, c)
    OBVIOUS
  <2> QED
    BY <1>1, <1>2, <1>6, MirrorsKept
<1>8. Kept(s, r)
  BY <1>1, <1>2, <1>6, IndexedKept DEF Kept
<1> QED
  BY <1>2, <1>3, <1>4, <1>6, <1>7, <1>8

\* An edit that leaves the policy alone.
LEMMA PolicyKept ==
  ASSUME PolicyInv, scenario' = scenario, Same(objects, objects', PolicyNode)
  PROVE  PolicyInv'
  BY DEF PolicyInv, ThePolicy, Same

\* What every step comes to.
Stepped ==
  /\ HeldInv' /\ PolicyInv'
  /\ \E X, P, home : Shape(objects', X, P, home)
  /\ IndexMatches'
  /\ Kept(objects, objects')

LEMMA IndexStepped ==
  ASSUME IndexInv, NEW c \in scenario.commits, NEW author, Index(c, author)
  PROVE  Stepped
<1>1. PICK ops, mints : ops = ImportOps(objects, c, minted) /\ mints = MintedBy(objects, c)
  OBVIOUS
<1>2. /\ minted + mints <= Len(NodeIds) /\ scenario' = scenario
      /\ \/ Apply(ops, c) /\ asserted' = FALSE /\ held' = held
         \/ /\ held' = {[author |-> author, commit |-> c, ops |-> ops, base |-> objects]}
            /\ UNCHANGED <<objects, at, asserted>>
  BY <1>1 DEF Index, Derive
<1>3. /\ c \in Commit /\ minted \in Nat /\ DOMAIN objects \cap Later(minted) = {}
  BY GitAssumption DEF IndexInv, TypeInv, IdInv
<1>4. CASE Apply(ops, c) /\ asserted' = FALSE /\ held' = held
  <2>1. /\ \E X, P, home : Shape(objects', X, P, home)
        /\ Mirrors(objects', c) /\ at' = c
        /\ PolicyInv'
        /\ Kept(objects, objects')
    BY <1>1, <1>2, <1>3, <1>4, ImportStep
  <2>2. HeldInv' /\ IndexMatches'
    BY <1>4, <2>1 DEF IndexInv, HeldInv, IndexMatches
  <2> QED
    BY <2>1, <2>2 DEF Stepped
<1>5. CASE /\ held' = {[author |-> author, commit |-> c, ops |-> ops, base |-> objects]}
           /\ UNCHANGED <<objects, at, asserted>>
  <2>1. HeldInv'
    BY <1>1, <1>2, <1>3, <1>5 DEF HeldInv
  <2>2. Kept(objects, objects')
    BY <1>5 DEF Kept
  <2>3. PolicyInv' /\ IndexMatches'
    BY <1>2, <1>5 DEF IndexInv, PolicyInv, ThePolicy, IndexMatches
  <2>4. \E X, P, home : Shape(objects', X, P, home)
    BY <1>5 DEF IndexInv
  <2> QED
    BY <2>1, <2>2, <2>3, <2>4 DEF Stepped
<1> QED
  BY <1>2, <1>4, <1>5

LEMMA ApproveStepped == ASSUME IndexInv, NEW p \in held, ApproveHeld(p) PROVE Stepped
<1>1. /\ p.base = objects /\ Apply(p.ops, p.commit) /\ held' \subseteq held
      /\ asserted' = FALSE /\ scenario' = scenario
  BY DEF ApproveHeld
<1>2. PICK m \in Nat : /\ m + MintedBy(objects, p.commit) <= Len(NodeIds)
                       /\ p.ops = ImportOps(objects, p.commit, m)
                       /\ DOMAIN objects \cap Later(m) = {}
  BY <1>1 DEF IndexInv, HeldInv
<1>3. PICK c \in Commit : c = p.commit
  BY DEF IndexInv, TypeInv, IdInv
<1>4. /\ \E X, P, home : Shape(objects', X, P, home)
      /\ Mirrors(objects', c) /\ at' = c
      /\ PolicyInv'
      /\ Kept(objects, objects')
  BY <1>1, <1>2, <1>3, ImportStep
<1>5. HeldInv' /\ IndexMatches'
  BY <1>1, <1>4 DEF IndexInv, HeldInv, IndexMatches
<1> QED
  BY <1>4, <1>5 DEF Stepped

\* What an edit comes to that changes nothing of the index.
LEMMA OwnerStepped ==
  ASSUME IndexInv, NEW op, op.verb \in {"create", "update"}, OwnerCommits(<<op>>),
         op.id \notin Derived(objects), TypeOf(op.body) \notin NodeTypes \cup EdgeTypes,
         asserted' = asserted,
         op.id = PolicyNode =>
           /\ TypeOf(op.body) = "meta/Policy"
           /\ op.body.definition \in scenario.policies
  PROVE  Stepped
<1>1. /\ \E X, P, home : Shape(objects', X, P, home)
      /\ \A c \in Commit : Mirrors(objects, c) => Mirrors(objects', c)
      /\ Kept(objects, objects')
      /\ at' = at /\ held' = held /\ scenario' = scenario
      /\ Became(objects', op.id, op.body)
      /\ \A id : id # op.id => Same(objects, objects', id)
  BY OwnerStep
<1>2. HeldInv'
  BY <1>1 DEF IndexInv, HeldInv
<1>3. IndexMatches'
  <2>1. at \in Commit \cup {None}
    BY DEF IndexInv, TypeInv, IdInv
  <2> QED
    BY <1>1, <2>1 DEF IndexInv, IndexMatches
<1>4. PolicyInv'
  <2>1. CASE op.id = PolicyNode
    BY <1>1, <2>1 DEF Became, PolicyInv, ThePolicy
  <2>2. CASE op.id # PolicyNode
    BY <1>1, <2>2, PolicyKept DEF IndexInv
  <2> QED
    BY <2>1, <2>2
<1> QED
  BY <1>1, <1>2, <1>3, <1>4 DEF Stepped

\* The kinds of an id.
LEMMA DerivedIds == \A id \in Derived(objects) : id \in DOMAIN objects /\ id \in NodeId \cup EdgeId
  BY DEF Derived, CodeNodes, LiveNodes, DerivedEdges, LiveEdges

LEMMA ClassifyStepped ==
  ASSUME IndexInv, NEW n, NEW t \in scenario.marks, Classify(n, t[1], t[2])
  PROVE  Stepped
<1>1. PICK op : op = [verb |-> "create", id |-> t[1],
                      body |-> [subject |-> n, term |-> t[2]]]
  OBVIOUS
<1>2. OwnerCommits(<<op>>) /\ asserted' = asserted
  BY <1>1 DEF Classify
<1>3. op.verb = "create" /\ op.id = t[1] /\ op.body = [subject |-> n, term |-> t[2]]
  BY <1>1
<1>4. op.id \in ClassificationId
  BY <1>3, GitAssumption DEF IndexInv, TypeInv, IdInv
<1>5. op.id \notin Derived(objects) /\ op.id # PolicyNode
  BY <1>4, DerivedIds, KindsAreDisjoint, GitAssumption
<1>6. TypeOf(op.body) \notin NodeTypes \cup EdgeTypes
  BY <1>3 DEF TypeOf, NodeTypes, EdgeTypes
<1> QED
  BY <1>2, <1>3, <1>5, <1>6, OwnerStepped

LEMMA RelateStepped == ASSUME IndexInv, NEW n, NEW m, Relate(n, m) PROVE Stepped
<1>1. PICK op : op = [verb |-> "create", id |-> EdgeIds[minted + 1],
                      body |-> [type |-> "code/references", from |-> n, to |-> m]]
  OBVIOUS
<1>2. OwnerCommits(<<op>>) /\ asserted' = asserted /\ minted < Len(NodeIds)
  BY <1>1 DEF Relate, Fresh
<1>3. /\ op.verb = "create" /\ op.id = EdgeIds[minted + 1]
      /\ op.body = [type |-> "code/references", from |-> n, to |-> m]
  BY <1>1
<1>4. op.id \notin DOMAIN objects /\ op.id \in EdgeId
  <2>1. minted \in Nat /\ Len(NodeIds) \in Nat /\ Len(NodeIds) = Len(EdgeIds)
        /\ EdgeIds \in Seq(EdgeId)
    BY IdAssumption DEF IndexInv, TypeInv, IdInv
  <2>2. minted + 1 \in (minted + 1)..Len(EdgeIds) /\ minted + 1 \in 1..Len(EdgeIds)
    BY <1>2, <2>1
  <2>3. op.id \in Later(minted) /\ op.id \in EdgeId
    BY <1>3, <2>1, <2>2 DEF Later
  <2> QED
    BY <2>3 DEF IndexInv, TypeInv, IdInv
<1>5. op.id \notin Derived(objects) /\ op.id # PolicyNode
  BY <1>4, DerivedIds, KindsAreDisjoint, GitAssumption
<1>6. TypeOf(op.body) \notin NodeTypes \cup EdgeTypes
  BY <1>3 DEF TypeOf, NodeTypes, EdgeTypes
<1> QED
  BY <1>2, <1>3, <1>5, <1>6, OwnerStepped

LEMMA InstallStepped ==
  ASSUME IndexInv, NEW doc \in scenario.policies, InstallPolicy(doc) PROVE Stepped
<1>1. PICK op : op = [verb |-> "update", id |-> PolicyNode,
                      prior |-> objects[PolicyNode].rev,
                      body |-> [type |-> "meta/Policy", definition |-> doc]]
  OBVIOUS
<1>2. OwnerCommits(<<op>>) /\ asserted' = asserted
  BY <1>1 DEF InstallPolicy
<1>3. /\ op.verb = "update" /\ op.id = PolicyNode
      /\ op.body = [type |-> "meta/Policy", definition |-> doc]
  BY <1>1
<1>4. op.id \notin Derived(objects)
  BY <1>3, PolicyApart DEF IndexInv
<1>5. TypeOf(op.body) = "meta/Policy" /\ op.body.definition = doc
  BY <1>3 DEF TypeOf
<1>6. TypeOf(op.body) \notin NodeTypes \cup EdgeTypes
  BY <1>5 DEF NodeTypes, EdgeTypes
<1> QED
  BY <1>2, <1>3, <1>4, <1>5, <1>6, OwnerStepped

\* A function's node, written by hand, keeps its name, so it stays its node.
LEMMA CorrectStepped == ASSUME IndexInv, NEW n \in Functions, Correct(n) PROVE Stepped
<1>1. PICK op, body :
        /\ body = [type |-> "code/Function", name |-> objects[n].content.name,
                   signature |-> "asserted", span |-> <<0, 0>>]
        /\ op = [verb |-> "update", id |-> n, prior |-> objects[n].rev, body |-> body]
  OBVIOUS
<1>2. OwnerCommits(<<op>>) /\ asserted' = TRUE
  BY <1>1 DEF Correct
<1>3. op.verb = "update" /\ op.id = n /\ op.body = body
  BY <1>1
<1>4. PICK X, P, home : Shape(objects, X, P, home)
  BY DEF IndexInv
<1>5. PICK reg, s, r : reg = Registry /\ s = objects /\ r = objects'
  OBVIOUS
<1>6. /\ ApplyChangeset(reg, s, <<op>>).ok
      /\ r = ApplyChangeset(reg, s, <<op>>).objects
      /\ at' = at /\ held' = held /\ scenario' = scenario
  BY <1>2, <1>5 DEF OwnerCommits, Apply, Applied
<1>7. Became(r, n, body) /\ \A id : id # n => Same(s, r, id)
  BY <1>3, <1>6, OneWritten
<1>8. n \in CodeNodes(s) /\ s[n].content.type = "code/Function"
  BY <1>5 DEF Functions, NodesOf
<1>9. TypeOf(body) = "code/Function" /\ body.name = s[n].content.name
  BY <1>1, <1>5 DEF TypeOf
<1>10. Shape(r, X, P, home)
  BY <1>4, <1>5, <1>7, <1>8, <1>9, EditFunction
<1>11. Kept(s, r)
  BY <1>4, <1>5, <1>10, IndexedKept DEF Kept
<1>12. PolicyInv'
  <2>1. PolicyNode # n
    BY <1>5, <1>8, PolicyApart DEF IndexInv, Derived
  <2> QED
    BY <1>5, <1>6, <1>7, <2>1, PolicyKept DEF IndexInv
<1>13. HeldInv' /\ IndexMatches'
  BY <1>2, <1>6 DEF IndexInv, HeldInv, IndexMatches
<1> QED
  BY <1>5, <1>10, <1>11, <1>12, <1>13 DEF Stepped

\* Every step keeps the index in order, and nodes with their entities.
LEMMA StepIndexInv == ASSUME IndexInv, [Next]_vars PROVE IndexInv' /\ Kept(objects, objects')
<1>1. TypeInv'
  BY StepTypeInv DEF IndexInv
<1>2. ASSUME UNCHANGED <<scenario, graph>> PROVE Stepped
  <2>1. UNCHANGED <<scenario, objects, held, at, asserted>>
    BY <1>2 DEF graph
  <2>2. HeldInv' /\ PolicyInv' /\ IndexMatches'
    BY <2>1 DEF IndexInv, HeldInv, PolicyInv, ThePolicy, IndexMatches
  <2>3. \E X, P, home : Shape(objects', X, P, home)
    BY <2>1 DEF IndexInv
  <2>4. Kept(objects, objects')
    BY <2>1 DEF Kept
  <2> QED
    BY <2>2, <2>3, <2>4 DEF Stepped
<1>3. ASSUME NEW c \in scenario.commits, NEW author, Index(c, author) PROVE Stepped
  BY <1>3, IndexStepped
<1>4. ASSUME NEW h \in held, ApproveHeld(h) PROVE Stepped
  BY <1>4, ApproveStepped
<1>5. ASSUME Edit PROVE Stepped
  BY <1>5, ClassifyStepped, RelateStepped, CorrectStepped, InstallStepped DEF Edit
<1>6. ASSUME NEW p,
             \/ \E v \in scenario.votes : StartDecide(p, v[1], v[2], v[3])
             \/ ReadNote(p) \/ WriteTemp(p) \/ AddNote(p) \/ RemoveTemp(p) \/ Die(p)
      PROVE  Stepped
  BY <1>2, <1>6 DEF StartDecide, ReadNote, WriteTemp, AddNote, RemoveTemp, Die
<1>7. Stepped
  BY <1>2, <1>3, <1>4, <1>5, <1>6 DEF Next, vars
<1> QED
  BY <1>1, <1>7 DEF Stepped, IndexInv

\* Whatever the owner classifies, relates or installs, and from whatever commit a
\* derivation starts, what it leaves mirrors its commit: one node for each entity
\* with the entity's content, one edge for each tie and call, nothing besides.
THEOREM IndexMirrorsCommit == Spec => []IndexMatches
<1>1. IndexInv /\ [Next]_vars => IndexInv'
  BY StepIndexInv
<1>2. IndexInv => IndexMatches
  BY DEF IndexInv
<1> QED
  BY <1>1, <1>2, InitIndexInv, PTL DEF Spec

\* A commit is reported to be up to date exactly if the graph mirrors it.
LEMMA IndexInvUpToDate == IndexInv => UpToDate
<1> SUFFICES ASSUME IndexInv, NEW c \in scenario.commits,
                    minted + MintedBy(objects, c) <= Len(NodeIds)
             PROVE  ImportOps(objects, c, minted) = <<>> <=> Mirrors(objects, c)
  BY DEF UpToDate
<1>1. PICK X, P, home : Shape(objects, X, P, home)
  BY DEF IndexInv
<1>2. Importing(objects, X, P, home, c, minted)
  BY <1>1, GitAssumption DEF Importing, IndexInv, TypeInv, IdInv
<1> QED
  BY <1>2, NothingPlanned

\* Indexing stops exactly when there is nothing left to bring up to date: no
\* commit is reported as indexed that the graph does not mirror, and none that it
\* mirrors is derived again.
THEOREM IndexingIsIdempotent == Spec => []UpToDate
<1>1. IndexInv /\ [Next]_vars => IndexInv'
  BY StepIndexInv
<1> QED
  BY <1>1, InitIndexInv, IndexInvUpToDate, PTL DEF Spec

\* No step of an import, an approval or an edit gives an entity of the code that is
\* there before and after it another node, so that what was said of it still is.
THEOREM NodesOutliveCommits == Spec => IdentityKept
<1> DEFINE A == LET before == Indexed(objects)
                    after == Indexed(objects')
                IN  \A e \in DOMAIN before \cap DOMAIN after : after[e] = before[e]
<1>1. IndexInv /\ [Next]_vars => IndexInv'
  BY StepIndexInv
<1>2. IndexInv /\ [Next]_vars => [A]_objects
  BY StepIndexInv DEF Kept
<1>3. IdentityKept <=> [][A]_objects
  BY DEF IdentityKept
<1> HIDE DEF A
<1> QED
  BY <1>1, <1>2, <1>3, InitIndexInv, PTL DEF Spec

-----------------------------------------------------------------------------
\* What the matching of globs means: a pattern matches a text exactly if it
\* can be cut at positions of the text, each star at any place that is not
\* before the one it follows.

LEMMA TextFacts ==
  ASSUME NEW q, IsSequence(q)
  PROVE  Len(q) \in Nat /\ DOMAIN q = 1..Len(q)
  BY DEF IsSequence

\* The i-th character of the pattern stands for the text from j up to k.
Covers(pattern, text, i, j, k) ==
  /\ pattern[i] = "*" => j <= k
  /\ pattern[i] # "*" => k = j + 1 /\ j <= Len(text) /\ text[j] = pattern[i]

\* From its i-th character on, the pattern is cut at pos.
Cuts(pattern, text, i, pos) ==
  /\ \A l \in i..(Len(pattern) + 1) : pos[l] \in 1..(Len(text) + 1)
  /\ pos[Len(pattern) + 1] = Len(text) + 1
  /\ \A l \in i..Len(pattern) : Covers(pattern, text, l, pos[l], pos[l+1])

\* The step of GlobMatch: where the text may begin for the i-th character.
Begins(pattern, text, i, next) ==
  IF pattern[i] = "*"
  THEN {j \in 1..(Len(text) + 1) : \E k \in next : j <= k}
  ELSE {j \in 1..Len(text) : text[j] = pattern[i] /\ j + 1 \in next}

LEMMA BeginsWithin ==
  ASSUME NEW pattern, NEW text, Len(text) \in Nat, NEW i, NEW next
  PROVE  Begins(pattern, text, i, next) \subseteq 1..(Len(text) + 1)
  BY DEF Begins

LEMMA BeginsIs ==
  ASSUME NEW pattern, NEW text, Len(text) \in Nat, NEW i, NEW next,
         next \subseteq 1..(Len(text) + 1), NEW j \in 1..(Len(text) + 1)
  PROVE  j \in Begins(pattern, text, i, next)
           <=> \E k \in next : Covers(pattern, text, i, j, k)
<1>1. CASE pattern[i] = "*"
  BY <1>1 DEF Begins, Covers
<1>2. CASE pattern[i] # "*"
  BY <1>2 DEF Begins, Covers
<1> QED
  BY <1>1, <1>2

\* The recursion of GlobMatch, from the character before the m last ones on.
Rests(pattern, text, m, rest) ==
  rest = [i \in (Len(pattern) + 1 - m)..(Len(pattern) + 1) |->
            IF i > Len(pattern) THEN {Len(text) + 1}
            ELSE Begins(pattern, text, i, rest[i + 1])]

LEMMA RestsExist ==
  ASSUME NEW pattern, IsSequence(pattern), NEW text
  PROVE  \E rest : Rests(pattern, text, Len(pattern), rest)
<1>0. PICK n \in Nat : n = Len(pattern)
  BY TextFacts
<1> DEFINE good == {m \in 0..n : \E rest : Rests(pattern, text, m, rest)}
<1>1. 0 \in good
  <2>1. Rests(pattern, text, 0, [i \in (n + 1)..(n + 1) |-> {Len(text) + 1}])
    BY <1>0 DEF Rests
  <2> QED
    BY <2>1
<1>2. ASSUME NEW m \in 1..n, m - 1 \in good PROVE m \in good
  <2>1. PICK rest : Rests(pattern, text, m - 1, rest)
    BY <1>2
  <2> DEFINE a == n + 1 - m
             longer == [i \in a..(n + 1) |->
                          IF i = a THEN Begins(pattern, text, a, rest[a + 1]) ELSE rest[i]]
  <2>2. ASSUME NEW i \in a..(n + 1)
        PROVE  longer[i] = IF i > n THEN {Len(text) + 1}
                           ELSE Begins(pattern, text, i, longer[i + 1])
    <3>1. CASE i = a
      <4>1. longer[a + 1] = rest[a + 1] /\ ~(a > n)
        OBVIOUS
      <4>2. longer[a] = Begins(pattern, text, a, rest[a + 1])
        OBVIOUS
      <4> HIDE DEF longer
      <4> QED
        BY <3>1, <4>1, <4>2
    <3>2. CASE i # a
      <4>1. i \in (n + 1 - (m - 1))..(n + 1)
        BY <3>2
      <4>2. rest[i] = IF i > n THEN {Len(text) + 1} ELSE Begins(pattern, text, i, rest[i + 1])
        BY <1>0, <2>1, <4>1 DEF Rests
      <4>3. longer[i] = rest[i] /\ (i <= n => longer[i + 1] = rest[i + 1])
        BY <3>2
      <4> HIDE DEF longer
      <4> QED
        BY <4>2, <4>3
    <3> QED
      BY <3>1, <3>2
  <2>3. longer = [i \in a..(n + 1) |-> longer[i]]
    OBVIOUS
  <2>4. Rests(pattern, text, m, longer)
    <3> HIDE DEF longer
    <3> QED
      BY <1>0, <2>2, <2>3 DEF Rests
  <2> QED
    BY <2>4
<1>3. 0..n \subseteq good
  <2> HIDE DEF good
  <2> QED
    BY <1>1, <1>2, Induction
<1> QED
  BY <1>0, <1>3

\* GlobMatch, as the recursion that defines it.
LEMMA GlobRests ==
  ASSUME NEW pattern, IsSequence(pattern), NEW text
  PROVE  \E rest : Rests(pattern, text, Len(pattern), rest)
                   /\ (GlobMatch(pattern, text) <=> 1 \in rest[1])
<1> DEFINE rest == CHOOSE f : f = [i \in 1..(Len(pattern) + 1) |->
              IF i > Len(pattern) THEN {Len(text) + 1}
              ELSE Begins(pattern, text, i, f[i + 1])]
<1>0. Len(pattern) + 1 - Len(pattern) = 1
  BY TextFacts
<1>1. Rests(pattern, text, Len(pattern), rest)
  <2>1. PICK f : Rests(pattern, text, Len(pattern), f)
    BY RestsExist
  <2>2. f = [i \in 1..(Len(pattern) + 1) |->
              IF i > Len(pattern) THEN {Len(text) + 1}
              ELSE Begins(pattern, text, i, f[i + 1])]
    BY <1>0, <2>1 DEF Rests
  <2>3. rest = [i \in 1..(Len(pattern) + 1) |->
              IF i > Len(pattern) THEN {Len(text) + 1}
              ELSE Begins(pattern, text, i, rest[i + 1])]
    BY <2>2, Zenon
  <2> QED
    BY <1>0, <2>3 DEF Rests
<1>2. GlobMatch(pattern, text) <=> 1 \in rest[1]
  BY DEF GlobMatch, Begins
<1> QED
  BY <1>1, <1>2

\* A text matches exactly if the pattern can be cut along it.
LEMMA GlobCuts ==
  ASSUME NEW pattern, IsSequence(pattern), NEW text, IsSequence(text)
  PROVE  GlobMatch(pattern, text) <=> \E pos : pos[1] = 1 /\ Cuts(pattern, text, 1, pos)
<1>0. PICK n \in Nat, t \in Nat : n = Len(pattern) /\ t = Len(text)
  BY TextFacts
<1>1. PICK rest : /\ Rests(pattern, text, n, rest)
                  /\ GlobMatch(pattern, text) <=> 1 \in rest[1]
  BY <1>0, GlobRests
<1>2. /\ rest[n + 1] = {t + 1}
      /\ \A i \in 1..n : rest[i] = Begins(pattern, text, i, rest[i + 1])
  <2>1. n + 1 - n = 1
    OBVIOUS
  <2>2. rest = [i \in 1..(n + 1) |->
            IF i > n THEN {t + 1} ELSE Begins(pattern, text, i, rest[i + 1])]
    BY <1>0, <1>1, <2>1 DEF Rests
  <2>3. \A i \in 1..(n + 1) :
          rest[i] = IF i > n THEN {t + 1} ELSE Begins(pattern, text, i, rest[i + 1])
    BY <2>2
  <2> QED
    BY <2>3
<1> DEFINE Cut(i, j) == \E pos : pos[i] = j /\ Cuts(pattern, text, i, pos)
           Right(i) == /\ rest[i] \subseteq 1..(t + 1)
                       /\ \A j \in 1..(t + 1) : j \in rest[i] <=> Cut(i, j)
           good == {m \in 0..n : Right(n + 1 - m)}
<1>3. 0 \in good
  <2>1. rest[n + 1] \subseteq 1..(t + 1)
    BY <1>2
  <2>2. ASSUME NEW j \in 1..(t + 1) PROVE j \in rest[n + 1] <=> Cut(n + 1, j)
    <3>1. ASSUME j = t + 1 PROVE Cut(n + 1, j)
      <4>1. Cuts(pattern, text, n + 1, [l \in {n + 1} |-> t + 1])
        BY <1>0 DEF Cuts
      <4> QED
        BY <3>1, <4>1
    <3>2. ASSUME Cut(n + 1, j) PROVE j = t + 1
      BY <1>0, <3>2 DEF Cuts
    <3> QED
      BY <1>2, <3>1, <3>2
  <2> QED
    BY <2>1, <2>2
<1>4. ASSUME NEW m \in 1..n, m - 1 \in good PROVE m \in good
  <2> DEFINE a == n + 1 - m
  <2>1. Right(a + 1) /\ a \in 1..n
    BY <1>4
  <2>2. rest[a] = Begins(pattern, text, a, rest[a + 1])
    BY <1>2, <2>1
  <2>0. rest[a + 1] \subseteq 1..(t + 1)
    BY <2>1
  <2>3. rest[a] \subseteq 1..(t + 1)
    BY <1>0, <2>2, BeginsWithin
  <2>4. ASSUME NEW j \in 1..(t + 1) PROVE j \in rest[a] <=> Cut(a, j)
    <3>1. j \in rest[a] <=> \E k \in rest[a + 1] : Covers(pattern, text, a, j, k)
      <4>1. PICK next : next = rest[a + 1]
        OBVIOUS
      <4>2. next \subseteq 1..(Len(text) + 1) /\ j \in 1..(Len(text) + 1)
        BY <1>0, <2>0, <4>1
      <4>3. j \in Begins(pattern, text, a, next)
              <=> \E k \in next : Covers(pattern, text, a, j, k)
        BY <1>0, <4>2, BeginsIs
      <4> QED
        BY <2>2, <4>1, <4>3
    <3>2. ASSUME NEW k \in rest[a + 1], Covers(pattern, text, a, j, k) PROVE Cut(a, j)
      <4>1. k \in 1..(t + 1) /\ Cut(a + 1, k)
        BY <2>1
      <4>2. PICK pos : pos[a + 1] = k /\ Cuts(pattern, text, a + 1, pos)
        BY <4>1
      <4> DEFINE longer == [l \in a..(n + 1) |-> IF l = a THEN j ELSE pos[l]]
      <4>3. longer[a] = j /\ \A l \in (a + 1)..(n + 1) : longer[l] = pos[l]
        OBVIOUS
      <4> HIDE DEF longer
      <4>4. \A l \in a..(n + 1) : longer[l] \in 1..(t + 1)
        <5>1. \A l \in (a + 1)..(n + 1) : pos[l] \in 1..(t + 1)
          BY <1>0, <4>2 DEF Cuts
        <5>2. \A l \in a..(n + 1) : l = a \/ l \in (a + 1)..(n + 1)
          OBVIOUS
        <5> QED
          BY <4>3, <5>1, <5>2
      <4>5. longer[n + 1] = t + 1
        BY <1>0, <2>1, <4>2, <4>3 DEF Cuts
      <4>6. ASSUME NEW l \in a..n
            PROVE  Covers(pattern, text, l, longer[l], longer[l+1])
        <5>1. CASE l = a
          BY <2>1, <3>2, <4>2, <4>3, <5>1
        <5>2. CASE l # a
          <6>1. l \in (a + 1)..n /\ l + 1 \in (a + 1)..(n + 1) /\ l \in (a + 1)..(n + 1)
            BY <2>1, <5>2
          <6>2. Covers(pattern, text, l, pos[l], pos[l+1])
            BY <1>0, <4>2, <6>1 DEF Cuts
          <6> QED
            BY <4>3, <6>1, <6>2
        <5> QED
          BY <5>1, <5>2
      <4>7. Cuts(pattern, text, a, longer)
        BY <1>0, <4>4, <4>5, <4>6 DEF Cuts
      <4> QED
        BY <4>3, <4>7
    <3>3. ASSUME Cut(a, j) PROVE \E k \in rest[a + 1] : Covers(pattern, text, a, j, k)
      <4>1. PICK pos : pos[a] = j /\ Cuts(pattern, text, a, pos)
        BY <3>3
      <4>2. Cuts(pattern, text, a + 1, pos)
        BY <1>0, <2>1, <4>1 DEF Cuts
      <4>3. pos[a + 1] \in 1..(t + 1) /\ Covers(pattern, text, a, j, pos[a + 1])
        <5>1. a \in a..n /\ a + 1 \in a..(n + 1)
          BY <2>1
        <5>2. pos[a + 1] \in 1..(t + 1)
          BY <1>0, <4>1, <5>1 DEF Cuts
        <5>3. Covers(pattern, text, a, pos[a], pos[a + 1])
          BY <1>0, <4>1, <5>1 DEF Cuts
        <5> QED
          BY <4>1, <5>2, <5>3
      <4>4. Cut(a + 1, pos[a + 1])
        BY <4>2
      <4> QED
        BY <2>1, <4>3, <4>4
    <3> QED
      BY <3>1, <3>2, <3>3
  <2> QED
    BY <2>3, <2>4
<1>5. 0..n \subseteq good
  <2> HIDE DEF good
  <2> QED
    BY <1>3, <1>4, Induction
<1>6. Right(1)
  <2>1. n \in good
    BY <1>5
  <2>2. n + 1 - n = 1
    OBVIOUS
  <2> HIDE DEF Right
  <2> QED
    BY <2>1, <2>2
<1>7. 1 \in 1..(t + 1)
  OBVIOUS
<1> QED
  BY <1>1, <1>6, <1>7

\* A list of texts, joined one after the other.
LEMMA FlattenIs ==
  ASSUME NEW S, NEW seqs \in Seq(Seq(S))
  PROVE  \E pre : /\ pre[0] = <<>> /\ FlattenSeq(seqs) = pre[Len(seqs)]
                  /\ \A i \in 1..Len(seqs) : pre[i] = pre[i-1] \o seqs[i]
                  /\ \A i \in 0..Len(seqs) : pre[i] \in Seq(S)
<1>0. PICK n \in Nat : n = Len(seqs)
  OBVIOUS
<1>1. PICK nil : nil = <<>>
  OBVIOUS
<1>4. nil \in Seq(S) /\ \A q \in Seq(S) : nil \o q = q
  BY <1>1
<1>2. CASE n = 0
  <2>1. Len(seqs) = 0
    BY <1>0, <1>2
  <2>2. seqs = <<>>
    BY <2>1
  <2>3. FlattenSeq(seqs) = nil
    BY <1>1, <2>1, <2>2 DEF FlattenSeq
  <2> DEFINE joined == [i \in 0..0 |-> nil]
  <2>4. joined[0] = nil
    OBVIOUS
  <2> HIDE DEF joined
  <2>5. joined[0] \in Seq(S)
    BY <1>4, <2>4
  <2>6. \A i \in 0..0 : joined[i] \in Seq(S)
    BY <2>5
  <2> QED
    BY <1>1, <2>1, <2>3, <2>4, <2>6
<1>3. CASE n # 0
  <2>1. PICK result : Joins(seqs, n, result) /\ FlattenSeq(seqs) = result[n]
    <3> DEFINE f == CHOOSE g : Joins(seqs, n, g)
    <3>1. Joins(seqs, n, f)
      BY <1>0, JoinExists
    <3>2. FlattenSeq(seqs) = f[n]
      BY <1>0, <1>3 DEF FlattenSeq, Joins
    <3> QED
      BY <3>1, <3>2
  <2>2. \A i \in 1..n : result[i] = IF i = 1 THEN seqs[i] ELSE result[i-1] \o seqs[i]
    BY <2>1 DEF Joins
  <2>3. PICK joined : joined[0] = nil /\ \A i \in 1..n : joined[i] = result[i]
    <3> DEFINE f == [i \in 0..n |-> IF i = 0 THEN nil ELSE result[i]]
    <3>1. f[0] = nil /\ \A i \in 1..n : f[i] = result[i]
      OBVIOUS
    <3> HIDE DEF f
    <3> QED
      BY <3>1
  <2>4. ASSUME NEW i \in 1..n PROVE joined[i] = joined[i-1] \o seqs[i]
    <3>1. seqs[i] \in Seq(S)
      BY <1>0
    <3>2. CASE i = 1
      <4>1. joined[1] = seqs[1] /\ joined[0] = nil /\ 1 - 1 = 0
        BY <2>2, <2>3, <3>2
      <4>2. nil \o seqs[1] = seqs[1]
        BY <1>4, <3>1, <3>2
      <4> QED
        BY <3>2, <4>1, <4>2
    <3>3. CASE i # 1
      <4>1. i - 1 \in 1..n
        BY <3>3
      <4> QED
        BY <2>2, <2>3, <3>3, <4>1
    <3> QED
      BY <3>2, <3>3
  <2> DEFINE good == {i \in 0..n : joined[i] \in Seq(S)}
  <2>5. 0 \in good
    BY <1>4, <2>3
  <2>6. ASSUME NEW i \in 1..n, i - 1 \in good PROVE i \in good
    <3>1. seqs[i] \in Seq(S) /\ joined[i-1] \in Seq(S)
      BY <1>0, <2>6
    <3>2. joined[i-1] \o seqs[i] \in Seq(S)
      BY <3>1
    <3>3. joined[i] \in Seq(S)
      BY <2>4, <3>2
    <3> QED
      BY <3>3
  <2>7. 0..n \subseteq good
    <3> HIDE DEF good
    <3> QED
      BY <2>5, <2>6, Induction
  <2>8. FlattenSeq(seqs) = joined[n]
    BY <1>3, <2>1, <2>3
  <2>9. \A i \in 0..n : joined[i] \in Seq(S)
    BY <2>7
  <2> QED
    BY <1>0, <1>1, <2>3, <2>4, <2>8, <2>9
<1> QED
  BY <1>2, <1>3

Stars(pattern) == {i \in DOMAIN pattern : pattern[i] = "*"}
RunsIn(text) == {SubSeq(text, i, j) : i \in 1..(Len(text) + 1), j \in 0..Len(text)}
Pieces(pattern, part) ==
  [i \in DOMAIN pattern |-> IF i \in Stars(pattern) THEN part[i] ELSE <<pattern[i]>>]

LEMMA SpellsPieces ==
  ASSUME NEW pattern, NEW text
  PROVE  Spells(pattern, text)
           <=> \E part \in [Stars(pattern) -> RunsIn(text)] :
                 text = FlattenSeq(Pieces(pattern, part))
  BY DEF Spells, Pieces, Stars, RunsIn

\* A part of a text.
LEMMA RunIs ==
  ASSUME NEW text, IsSequence(text), NEW i \in 1..(Len(text) + 1), NEW j \in 0..Len(text),
         NEW run, run = SubSeq(text, i, j)
  PROVE  /\ run \in Seq(Range(text))
         /\ j >= i - 1 => Len(run) = j + 1 - i
         /\ \A k \in 1..(j + 1 - i) : run[k] = text[i + k - 1]
<1> USE DEF IsSequence
<1>1. CASE j < i
  <2>1. run = <<>>
    BY <1>1
  <2> QED
    BY <1>1, <2>1
<1>2. CASE j >= i
  BY <1>2
<1> QED
  BY <1>1, <1>2

LEMMA PiecesAreTexts ==
  ASSUME NEW pattern, IsSequence(pattern), NEW text, IsSequence(text),
         NEW part \in [Stars(pattern) -> RunsIn(text)]
  PROVE  /\ Pieces(pattern, part) \in Seq(Seq(Range(text) \cup Range(pattern)))
         /\ Len(Pieces(pattern, part)) = Len(pattern)
<1> DEFINE S == Range(text) \cup Range(pattern)
           q == Pieces(pattern, part)
<1>1. DOMAIN pattern = 1..Len(pattern) /\ Len(pattern) \in Nat
  BY TextFacts
<1>2. ASSUME NEW i \in 1..Len(pattern)
      PROVE  q[i] \in Seq(S) 
  <2>1. CASE i \in Stars(pattern)
    <3>1. q[i] = part[i] /\ part[i] \in RunsIn(text)
      BY <1>1, <2>1 DEF Pieces
    <3>2. PICK a \in 1..(Len(text) + 1), b \in 0..Len(text) : part[i] = SubSeq(text, a, b)
      BY <3>1 DEF RunsIn
    <3>3. part[i] \in Seq(Range(text))
      BY <3>2, RunIs
    <3>4. Seq(Range(text)) \subseteq Seq(S)
      OBVIOUS
    <3> QED
      BY <3>1, <3>3, <3>4
  <2>2. CASE i \notin Stars(pattern)
    <3>1. q[i] = <<pattern[i]>>
      BY <1>1, <2>2 DEF Pieces
    <3>2. pattern[i] \in S
      BY <1>1 DEF Range
    <3> QED
      BY <3>1, <3>2
  <2> QED
    BY <2>1, <2>2
<1>3. q = [i \in 1..Len(pattern) |-> q[i]]
  BY <1>1 DEF Pieces
<1> HIDE DEF q, S
<1>4. q \in [1..Len(pattern) -> Seq(S)]
  BY <1>2, <1>3
<1> QED
  BY <1>1, <1>4 DEF q, S

\* Two texts, one after the other.
LEMMA ConcatIs ==
  ASSUME NEW S, NEW p \in Seq(S), NEW q \in Seq(S), NEW r, r = p \o q,
         NEW a, a = Len(p), NEW b, b = Len(q)
  PROVE  /\ a \in Nat /\ b \in Nat /\ r \in Seq(S) /\ Len(r) = a + b
         /\ \A k \in 1..a : r[k] = p[k]
         /\ \A k \in (a + 1)..(a + b) : r[k] = q[k - a] /\ k - a \in 1..b
<1>1. a \in Nat /\ b \in Nat /\ r \in Seq(S) /\ Len(r) = a + b
  OBVIOUS
<1>2. ASSUME NEW k \in 1..a PROVE r[k] = p[k]
  BY <1>1
<1>3. ASSUME NEW k \in (a + 1)..(a + b) PROVE r[k] = q[k - a] /\ k - a \in 1..b
  BY <1>1
<1> QED
  BY <1>1, <1>2, <1>3

\* A text is told by its characters.
LEMMA SameText ==
  ASSUME NEW S, NEW p \in Seq(S), NEW q, IsSequence(q), Len(p) = Len(q),
         \A k \in 1..Len(q) : p[k] = q[k]
  PROVE  p = q
<1>1. DOMAIN p = 1..Len(q) /\ DOMAIN q = 1..Len(q)
  BY DEF IsSequence
<1>2. p = [k \in 1..Len(q) |-> p[k]] /\ q = [k \in 1..Len(q) |-> q[k]]
  BY <1>1 DEF IsSequence
<1> QED
  BY <1>2

\* Where a pattern is cut, each part is a run of the text.
LEMMA CutsSpell ==
  ASSUME NEW pattern, IsSequence(pattern), NEW text, IsSequence(text), NEW pos,
         pos[1] = 1, Cuts(pattern, text, 1, pos)
  PROVE  Spells(pattern, text)
<1>0. PICK n \in Nat, t \in Nat : n = Len(pattern) /\ t = Len(text)
  BY TextFacts
<1>1. /\ DOMAIN pattern = 1..n /\ DOMAIN text = 1..t
      /\ \A i \in 1..(n + 1) : pos[i] \in 1..(t + 1)
      /\ pos[n + 1] = t + 1
      /\ \A i \in 1..n : Covers(pattern, text, i, pos[i], pos[i+1])
  BY <1>0, TextFacts DEF Cuts
<1>2. PICK part : part = [i \in Stars(pattern) |-> SubSeq(text, pos[i], pos[i+1] - 1)]
  OBVIOUS
<1>3. part \in [Stars(pattern) -> RunsIn(text)]
  <2>1. ASSUME NEW i \in Stars(pattern)
        PROVE  SubSeq(text, pos[i], pos[i+1] - 1) \in RunsIn(text)
    <3>1. i \in 1..n /\ i + 1 \in 1..(n + 1) /\ i \in 1..(n + 1)
      BY <1>1 DEF Stars
    <3>2. pos[i] \in 1..(Len(text) + 1) /\ pos[i+1] - 1 \in 0..Len(text)
      BY <1>0, <1>1, <3>1
    <3>3. PICK a \in 1..(Len(text) + 1), b \in 0..Len(text) :
               a = pos[i] /\ b = pos[i+1] - 1
      BY <3>2
    <3>4. SubSeq(text, a, b) \in RunsIn(text)
      BY DEF RunsIn
    <3> QED
      BY <3>3, <3>4
  <2> QED
    BY <1>2, <2>1
<1>4. PICK q : q = Pieces(pattern, part)
  OBVIOUS
<1> DEFINE S == Range(text) \cup Range(pattern)
<1>5. q \in Seq(Seq(S)) /\ Len(q) = n
  BY <1>0, <1>3, <1>4, PiecesAreTexts
<1>6. ASSUME NEW i \in 1..n
      PROVE  /\ Len(q[i]) = pos[i+1] - pos[i]
             /\ \A k \in 1..Len(q[i]) : q[i][k] = text[pos[i] + k - 1]
  <2>0. i + 1 \in 1..(n + 1) /\ i \in 1..(n + 1)
    OBVIOUS
  <2>1. PICK u \in 1..(t + 1), v \in 1..(t + 1) : u = pos[i] /\ v = pos[i+1]
    BY <1>1, <2>0
  <2>2. Covers(pattern, text, i, u, v)
    BY <1>1, <2>1
  <2>3. CASE pattern[i] = "*"
    <3>1. q[i] = SubSeq(text, u, v - 1)
      BY <1>1, <1>2, <1>4, <2>1, <2>3 DEF Pieces, Stars
    <3>2. u <= v
      BY <2>2, <2>3 DEF Covers
    <3>3. PICK b \in 0..Len(text) : b = v - 1
      BY <1>0
    <3>4. u \in 1..(Len(text) + 1) /\ b >= u - 1 /\ b + 1 - u = v - u
      BY <1>0, <3>2, <3>3
    <3>5. q[i] = SubSeq(text, u, b)
      BY <3>1, <3>3
    <3>6. /\ Len(q[i]) = b + 1 - u
          /\ \A k \in 1..(b + 1 - u) : q[i][k] = text[u + k - 1]
      <4>1. PICK run : run = q[i] /\ run = SubSeq(text, u, b)
        BY <3>5
      <4>2. /\ b >= u - 1 => Len(run) = b + 1 - u
            /\ \A k \in 1..(b + 1 - u) : run[k] = text[u + k - 1]
        BY ONLY IsSequence(text), <3>4, <4>1, RunIs
      <4> QED
        BY <3>4, <4>1, <4>2
    <3> QED
      BY <2>1, <3>4, <3>6
  <2>4. CASE pattern[i] # "*"
    <3>1. q[i] = <<pattern[i]>>
      BY <1>1, <1>4, <2>4 DEF Pieces, Stars
    <3>2. v = u + 1 /\ text[u] = pattern[i]
      BY <2>2, <2>4 DEF Covers
    <3>3. Len(q[i]) = 1 /\ q[i][1] = pattern[i]
      BY <3>1
    <3>4. v - u = 1 /\ u + 1 - 1 = u
      BY <3>2
    <3>5. ASSUME NEW k \in 1..1 PROVE q[i][k] = text[u + k - 1]
      <4>1. k = 1
        OBVIOUS
      <4> QED
        BY <3>2, <3>3, <3>4, <4>1
    <3> QED
      BY <2>1, <3>3, <3>4, <3>5
  <2> QED
    BY <2>3, <2>4
<1>7. PICK pre : /\ pre[0] = <<>> /\ FlattenSeq(q) = pre[Len(q)]
                 /\ \A i \in 1..Len(q) : pre[i] = pre[i-1] \o q[i]
                 /\ \A i \in 0..Len(q) : pre[i] \in Seq(S)
  BY <1>5, FlattenIs
<1> DEFINE Spelt(i) == /\ Len(pre[i]) = pos[i+1] - 1
                       /\ \A k \in 1..Len(pre[i]) : pre[i][k] = text[k]
           good == {i \in 0..n : Spelt(i)}
<1>8. 0 \in good
  <2>1. Len(pre[0]) = 0
    BY <1>7
  <2> QED
    BY <2>1
<1>9. ASSUME NEW i \in 1..n, i - 1 \in good PROVE i \in good
  <2>1. Spelt(i - 1) /\ i - 1 + 1 = i
    BY <1>9
  <2>2. PICK u \in 1..(t + 1), v \in 1..(t + 1) : u = pos[i] /\ v = pos[i+1]
    <3>1. i \in 1..(n + 1) /\ i + 1 \in 1..(n + 1)
      OBVIOUS
    <3>2. pos[i] \in 1..(t + 1) /\ pos[i+1] \in 1..(t + 1)
      BY <1>1, <3>1
    <3> QED
      BY <3>2
  <2>3. PICK before, piece : before = pre[i-1] /\ piece = q[i]
    OBVIOUS
  <2>4. before \in Seq(S) /\ piece \in Seq(S) /\ pre[i] = before \o piece
    <3>1. i - 1 \in 0..Len(q) /\ i \in 1..Len(q)
      BY <1>5
    <3>2. q[i] \in Seq(S)
      BY <1>5, <3>1
    <3>3. pre[i-1] \in Seq(S) /\ pre[i] = pre[i-1] \o q[i]
      BY <1>7, <3>1
    <3> QED
      BY <2>3, <3>2, <3>3
  <2>5. PICK a, b : a = Len(before) /\ b = Len(piece)
    OBVIOUS
  <2>6. /\ a \in Nat /\ b \in Nat /\ Len(pre[i]) = a + b
        /\ \A k \in 1..a : pre[i][k] = before[k]
        /\ \A k \in (a + 1)..(a + b) : pre[i][k] = piece[k - a] /\ k - a \in 1..b
    BY <2>4, <2>5, ConcatIs
  <2>7. a = u - 1 /\ \A k \in 1..a : before[k] = text[k]
    BY <2>1, <2>2, <2>3, <2>5
  <2>8. b = v - u /\ \A k \in 1..b : piece[k] = text[u + k - 1]
    BY <1>6, <2>2, <2>3, <2>5
  <2>9. ASSUME NEW k \in 1..(a + b) PROVE pre[i][k] = text[k]
    <3>1. CASE k <= a
      BY <2>6, <2>7, <3>1
    <3>2. CASE k > a
      <4>1. k \in (a + 1)..(a + b)
        BY <2>6, <3>2
      <4>2. pre[i][k] = piece[k - a] /\ k - a \in 1..b
        BY <2>6, <4>1
      <4>3. u + (k - a) - 1 = k
        BY <2>6, <2>7
      <4> QED
        BY <2>8, <4>2, <4>3
    <3> QED
      BY <2>6, <3>1, <3>2
  <2>10. a + b = v - 1
    BY <2>6, <2>7, <2>8
  <2> QED
    BY <2>2, <2>6, <2>9, <2>10
<1>10. 0..n \subseteq good
  <2> HIDE DEF good
  <2> QED
    BY <1>8, <1>9, Induction
<1>11. Spelt(n)
  BY <1>10
<1>12. pre[n] = text
  <2>1. pre[n] \in Seq(S) /\ Len(pre[n]) = t
    BY <1>1, <1>5, <1>7, <1>11
  <2>2. \A k \in 1..t : pre[n][k] = text[k]
    BY <1>11, <2>1
  <2> QED
    BY <1>0, <2>1, <2>2, SameText
<1> QED
  BY <1>3, <1>4, <1>5, <1>7, <1>12, SpellsPieces

\* A text that is spelt by a pattern can be cut along it.
LEMMA SpellCuts ==
  ASSUME NEW pattern, IsSequence(pattern), NEW text, IsSequence(text), Spells(pattern, text)
  PROVE  \E pos : pos[1] = 1 /\ Cuts(pattern, text, 1, pos)
<1>0. PICK n \in Nat, t \in Nat : n = Len(pattern) /\ t = Len(text)
  BY TextFacts
<1>1. DOMAIN pattern = 1..n /\ DOMAIN text = 1..t
  BY <1>0, TextFacts
<1>2. PICK part \in [Stars(pattern) -> RunsIn(text)] :
         text = FlattenSeq(Pieces(pattern, part))
  BY SpellsPieces
<1>4. PICK q : q = Pieces(pattern, part)
  OBVIOUS
<1> DEFINE S == Range(text) \cup Range(pattern)
<1>5. q \in Seq(Seq(S)) /\ Len(q) = n
  BY <1>0, <1>4, PiecesAreTexts
<1>6. PICK pre : /\ pre[0] = <<>> /\ FlattenSeq(q) = pre[Len(q)]
                 /\ \A i \in 1..Len(q) : pre[i] = pre[i-1] \o q[i]
                 /\ \A i \in 0..Len(q) : pre[i] \in Seq(S)
  BY <1>5, FlattenIs
<1>7. pre[n] = text
  BY <1>2, <1>4, <1>5, <1>6
<1>8. ASSUME NEW i \in 1..n
      PROVE  \E before, piece, after :
               /\ before = pre[i-1] /\ piece = q[i] /\ after = pre[i]
               /\ before \in Seq(S) /\ piece \in Seq(S) /\ after = before \o piece
  <2>1. i - 1 \in 0..Len(q) /\ i \in 1..Len(q)
    BY <1>5
  <2>2. q[i] \in Seq(S)
    BY <1>5, <2>1
  <2> QED
    BY <1>6, <2>1, <2>2
<1> HIDE DEF S
<1> DEFINE Prefix(i) == /\ Len(pre[i]) \in 0..t
                        /\ \A k \in 1..Len(pre[i]) : pre[i][k] = text[k]
           good == {m \in 0..n : Prefix(n - m)}
<1>9. 0 \in good
  <2>1. n - 0 = n
    OBVIOUS
  <2> QED
    BY <1>0, <1>7, <2>1
<1>10. ASSUME NEW m \in 1..n, m - 1 \in good PROVE m \in good
  <2> DEFINE i == n - (m - 1)
  <2>1. i \in 1..n /\ i - 1 = n - m /\ Prefix(i)
    BY <1>10
  <2>2. PICK before, piece, after :
           /\ before = pre[i-1] /\ piece = q[i] /\ after = pre[i]
           /\ before \in Seq(S) /\ piece \in Seq(S) /\ after = before \o piece
    BY <1>8, <2>1
  <2>3. PICK a, b : a = Len(before) /\ b = Len(piece)
    OBVIOUS
  <2>4. /\ a \in Nat /\ b \in Nat /\ Len(after) = a + b
        /\ \A k \in 1..a : after[k] = before[k]
    <3>1. before \in Seq(S) /\ piece \in Seq(S) /\ after = before \o piece
      BY <2>2
    <3> QED
      BY <2>3, <3>1, ConcatIs
  <2>5. a \in 0..t
    BY <2>1, <2>2, <2>4
  <2>6. ASSUME NEW k \in 1..a PROVE before[k] = text[k]
    <3>1. k \in 1..Len(pre[i])
      BY <2>2, <2>4
    <3> QED
      BY <2>1, <2>2, <2>4, <3>1
  <2>7. Prefix(i - 1)
    BY <2>2, <2>3, <2>5, <2>6
  <2> QED
    BY <2>1, <2>7
<1>11. 0..n \subseteq good
  <2> HIDE DEF good
  <2> QED
    BY <1>9, <1>10, Induction
<1>12. ASSUME NEW i \in 0..n PROVE Prefix(i)
  <2>1. n - i \in 0..n /\ n - (n - i) = i
    OBVIOUS
  <2>2. n - i \in good
    BY <1>11, <2>1
  <2>3. Prefix(n - (n - i))
    BY <2>2
  <2> HIDE DEF Prefix
  <2> QED
    BY <2>1, <2>3
<1> HIDE DEF good
<1>13. PICK pos : pos = [i \in 1..(n + 1) |-> Len(pre[i-1]) + 1]
  OBVIOUS
<1>14. \A i \in 1..(n + 1) : pos[i] = Len(pre[i-1]) + 1
  BY <1>13
<1>15. pos[1] = 1
  <2>1. 1 - 1 = 0 /\ 1 \in 1..(n + 1)
    OBVIOUS
  <2>2. Len(pre[0]) = 0
    BY <1>6
  <2> QED
    BY <1>14, <2>1, <2>2
<1>16. pos[n + 1] = t + 1
  <2>1. n + 1 - 1 = n /\ n + 1 \in 1..(n + 1)
    OBVIOUS
  <2> QED
    BY <1>0, <1>7, <1>14, <2>1
<1>17. ASSUME NEW i \in 1..(n + 1) PROVE pos[i] \in 1..(t + 1)
  <2>1. i - 1 \in 0..n
    OBVIOUS
  <2>2. Len(pre[i-1]) \in 0..t
    BY <1>12, <2>1
  <2> QED
    BY <1>14, <2>2
<1>18. ASSUME NEW i \in 1..n PROVE Covers(pattern, text, i, pos[i], pos[i+1])
  <2>1. PICK before, piece, after :
           /\ before = pre[i-1] /\ piece = q[i] /\ after = pre[i]
           /\ before \in Seq(S) /\ piece \in Seq(S) /\ after = before \o piece
    BY <1>8
  <2>2. PICK a, b : a = Len(before) /\ b = Len(piece)
    OBVIOUS
  <2>3. /\ a \in Nat /\ b \in Nat /\ Len(after) = a + b
        /\ \A k \in (a + 1)..(a + b) : after[k] = piece[k - a] /\ k - a \in 1..b
    <3>1. before \in Seq(S) /\ piece \in Seq(S) /\ after = before \o piece
      BY <2>1
    <3> QED
      BY <2>2, <3>1, ConcatIs
  <2>4. i \in 1..(n + 1) /\ i + 1 \in 1..(n + 1) /\ i + 1 - 1 = i
    OBVIOUS
  <2>5. pos[i] = a + 1 /\ pos[i+1] = a + b + 1
    <3>1. pos[i] = Len(pre[i-1]) + 1 /\ pos[i+1] = Len(pre[i+1-1]) + 1
      BY <1>14, <2>4
    <3> QED
      BY <2>1, <2>2, <2>3, <2>4, <3>1
  <2>6. CASE pattern[i] = "*"
    BY <2>3, <2>5, <2>6 DEF Covers
  <2>7. CASE pattern[i] # "*"
    <3>1. piece = <<pattern[i]>>
      BY <1>1, <1>4, <2>1, <2>7 DEF Pieces, Stars
    <3>2. b = 1 /\ piece[1] = pattern[i]
      BY <2>2, <3>1
    <3>3. a + 1 \in (a + 1)..(a + b) /\ a + 1 - a = 1
      BY <2>3, <3>2
    <3>4. after[a + 1] = pattern[i]
      <4>1. after[a + 1] = piece[a + 1 - a]
        BY <2>3, <3>3
      <4> QED
        BY <3>2, <3>3, <4>1
    <3>5. Prefix(i) /\ a + 1 \in 1..Len(after)
      <4>1. Prefix(i)
        BY <1>12
      <4>2. a + 1 \in 1..Len(after)
        BY <2>3, <3>2
      <4> QED
        BY <4>1, <4>2
    <3>6. text[a + 1] = pattern[i] /\ a + 1 <= t
      <4>1. a + 1 \in 1..Len(pre[i]) /\ pre[i][a + 1] = pattern[i]
        BY <2>1, <3>4, <3>5
      <4>2. text[a + 1] = pattern[i]
        BY <3>5, <4>1
      <4>3. Len(after) \in 0..t
        BY <2>1, <3>5
      <4> QED
        BY <2>3, <3>5, <4>2, <4>3
    <3> QED
      BY <1>0, <2>3, <2>5, <2>7, <3>2, <3>6 DEF Covers
  <2> QED
    BY <2>6, <2>7
<1>19. Cuts(pattern, text, 1, pos)
  BY <1>0, <1>16, <1>17, <1>18 DEF Cuts
<1> QED
  BY <1>15, <1>19

\* GlobMatch means what glob_match is documented to mean, for patterns and texts
\* of any length: the text is the pattern with each star replaced by some run of
\* characters (policy.rs:333).
THEOREM GlobsSpell ==
  ASSUME NEW pattern, IsSequence(pattern), NEW text, IsSequence(text)
  PROVE  GlobMatch(pattern, text) <=> Spells(pattern, text)
<1>1. ASSUME GlobMatch(pattern, text) PROVE Spells(pattern, text)
  <2>1. PICK pos : pos[1] = 1 /\ Cuts(pattern, text, 1, pos)
    BY <1>1, GlobCuts
  <2> QED
    BY <2>1, CutsSpell
<1>2. ASSUME Spells(pattern, text) PROVE GlobMatch(pattern, text)
  BY <1>2, SpellCuts, GlobCuts
<1> QED
  BY <1>1, <1>2

-----------------------------------------------------------------------------
\* The regions of a path are those of the marks on its file and on the items
\* of its file, as the graph of the shape of an index has them.

\* The file at a path, if the graph has it.
FilesOf(s) == {n \in CodeNodes(s) : s[n].content.type = "code/SourceFile"}
FileIn(s, path) == \E n \in FilesOf(s) : s[n].content.path = path

LEMMA FileNode ==
  ASSUME NEW s, NEW X, NEW P, NEW home, Shape(s, X, P, home), NEW n \in FilesOf(s)
  PROVE  n = home[<<"node", FileAt(s[n].content.path)>>]
<1>1. n \in CodeNodes(s) /\ EntityOf(s, n) = FileAt(s[n].content.path)
  BY DEF FilesOf, EntityOf
<1> QED
  BY <1>1, ShapeIndexed

LEMMA FileIsIn ==
  ASSUME NEW s, NEW X, NEW P, NEW home, Shape(s, X, P, home), NEW path, FileAt(path) \in X
  PROVE  FileIn(s, path)
<1>1. PICK n : n = home[<<"node", FileAt(path)>>]
  OBVIOUS
<1>2. PICK slot : slot = <<"node", FileAt(path)>>
  OBVIOUS
<1>3. slot \in Slots(X, P) /\ slot[1] = "node" /\ slot[2] = FileAt(path) /\ n = home[slot]
  BY <1>1, <1>2 DEF Slots
<1>4. Fits(s[home[slot]].content, home, slot)
  BY <1>3 DEF Shape
<1>5. Stands(s[n].content, FileAt(path))
  BY <1>3, <1>4 DEF Fits
<1>6. n \in CodeNodes(s)
  BY <1>1, ShapeNodes
<1>7. TypeOf(s[n].content) = "code/SourceFile" /\ s[n].content.path = path
  BY <1>5, EntityParts DEF Stands
<1> QED
  BY <1>6, <1>7 DEF TypeOf, FileIn, FilesOf

\* The nodes that stand for a file and its items.
AtPath(s, path) == {n \in CodeNodes(s) : EntityOf(s, n).path = path}
DeclaredBy(s, file) ==
  {s[e].content.to : e \in {d \in LiveEdges(s, "code/declares") : s[d].content.from = file}}

\* Two files differ in their paths.
LEMMA FilesDiffer == ASSUME NEW p, NEW q, FileAt(p) = FileAt(q) PROVE p = q
<1>1. FileAt(p).path = p /\ FileAt(q).path = q
  BY EntityParts
<1> QED
  BY <1>1

\* What a file declares is an item of it, and each item is declared by its file.
LEMMA DeclaresRead ==
  ASSUME NEW s, NEW X, NEW P, NEW home, Shape(s, X, P, home),
         NEW d \in LiveEdges(s, "code/declares")
  PROVE  /\ s[d].content.to \in CodeNodes(s)
         /\ EntityOf(s, s[d].content.from) = FileAt(EntityOf(s, s[d].content.to).path)
<1>1. d \in DerivedEdges(s)
  BY DEF DerivedEdges, EdgeTypes
<1>2. TypeOf(s[d].content) = "code/declares"
  BY DEF LiveEdges
<1>3. s[d].content.type = "code/declares"
  BY <1>2 DEF TypeOf
<1>4. PICK slot \in EdgeSlots(X, P) : home[slot] = d
  BY <1>1, TieOfEdge
<1>5. TieRead(s, d) = Tie(slot) /\ s[d].content.to \in CodeNodes(s)
  BY <1>4, TieIsRead
<1>6. PICK u, v : u = EntityOf(s, s[d].content.from) /\ v = EntityOf(s, s[d].content.to)
  OBVIOUS
<1>7. TieRead(s, d) = <<"code/declares", u, v>>
  BY <1>3, <1>6 DEF TieRead
<1>8. Tie(slot) = <<"code/declares", u, v>>
  BY <1>5, <1>7
<1>9. u = FileAt(slot[2].path) /\ v = slot[2]
  BY <1>8 DEF Tie
<1> QED
  BY <1>5, <1>6, <1>9

DeclaredIn(s, n, u) ==
  \E d \in LiveEdges(s, "code/declares") :
    /\ s[d].content.to = n /\ s[d].content.from \in CodeNodes(s)
    /\ EntityOf(s, s[d].content.from) = u

LEMMA ItemDeclared ==
  ASSUME NEW s, NEW X, NEW P, NEW home, Shape(s, X, P, home), NEW n \in CodeNodes(s),
         NEW e, e = EntityOf(s, n), e # Repo, NEW u, u = FileAt(e.path), e # u
  PROVE  DeclaredIn(s, n, u)
<1>1. Closed(X, P)
  BY DEF Shape
<1>2. e \in X /\ home[<<"node", e>>] = n
  BY ShapeIndexed
<1>3. e.what \in Kinds /\ FileAt(e.path) \in X
  BY <1>1, <1>2 DEF Closed
<1>4. e.what # "file"
  BY <1>3 DEF Kinds
<1>5. PICK slot : slot = <<"tie", e>>
  OBVIOUS
<1>6. slot \in Slots(X, P) /\ slot[1] = "tie" /\ slot[2] = e
  BY <1>2, <1>5 DEF Slots
<1>7. Tie(slot) = <<"code/declares", u, e>>
  BY <1>4, <1>5, <1>6 DEF Tie
<1>8. Tie(slot)[1] = "code/declares" /\ Tie(slot)[2] = u /\ Tie(slot)[3] = e
  BY <1>7
<1>9. home[slot] \in LiveEdges(s, Tie(slot)[1])
  BY <1>6, ShapeNodes
<1>10. PICK d : d = home[slot]
  OBVIOUS
<1>11. d \in LiveEdges(s, "code/declares")
  BY <1>8, <1>9, <1>10
<1>12. Fits(s[d].content, home, slot)
  BY <1>6, <1>10 DEF Shape
<1>13. /\ s[d].content.from = home[<<"node", Tie(slot)[2]>>]
       /\ s[d].content.to = home[<<"node", Tie(slot)[3]>>]
  BY <1>6, <1>12 DEF Fits
<1>14. s[d].content.from = home[<<"node", u>>] /\ s[d].content.to = n
  BY <1>2, <1>8, <1>13
<1>15. u \in X
  BY <1>3, <1>5
<1>16. home[<<"node", u>>] \in CodeNodes(s) /\ EntityOf(s, home[<<"node", u>>]) = u
  BY <1>15, ShapeNodes, ReadBack
<1> QED
  BY <1>5, <1>11, <1>14, <1>16 DEF DeclaredIn

\* A node is told by its entity.
LEMMA EntityTells ==
  ASSUME NEW s, NEW X, NEW P, NEW home, Shape(s, X, P, home),
         NEW n \in CodeNodes(s), NEW m \in CodeNodes(s), EntityOf(s, n) = EntityOf(s, m)
  PROVE  n = m
<1>1. home[<<"node", EntityOf(s, n)>>] = n /\ home[<<"node", EntityOf(s, m)>>] = m
  BY ShapeIndexed
<1> QED
  BY <1>1

LEMMA NodesAtPath ==
  ASSUME NEW s, NEW X, NEW P, NEW home, Shape(s, X, P, home), NEW path, path # "",
         NEW file \in CodeNodes(s), EntityOf(s, file) = FileAt(path)
  PROVE  AtPath(s, path) = {file} \cup DeclaredBy(s, file)
<1>1. ASSUME NEW d \in LiveEdges(s, "code/declares"), s[d].content.from = file
      PROVE  s[d].content.to \in AtPath(s, path)
  <2>1. /\ s[d].content.to \in CodeNodes(s)
        /\ FileAt(EntityOf(s, s[d].content.to).path) = FileAt(path)
    BY <1>1, DeclaresRead
  <2>2. EntityOf(s, s[d].content.to).path = path
    BY <2>1, FilesDiffer
  <2> QED
    BY <2>1, <2>2 DEF AtPath
<1>2. ASSUME NEW n \in AtPath(s, path), n # file PROVE n \in DeclaredBy(s, file)
  <2>1. n \in CodeNodes(s)
    BY DEF AtPath
  <2>2. EntityOf(s, n) # FileAt(path)
    BY <1>2, <2>1, EntityTells
  <2>3. PICK e, u : e = EntityOf(s, n) /\ u = FileAt(path)
    OBVIOUS
  <2>4. e.path = path /\ e # Repo /\ u = FileAt(e.path) /\ e # u
    BY <2>2, <2>3, EntityParts DEF AtPath
  <2>5. DeclaredIn(s, n, u)
    BY <2>1, <2>3, <2>4, ItemDeclared
  <2>6. PICK d \in LiveEdges(s, "code/declares") :
          /\ s[d].content.to = n /\ s[d].content.from \in CodeNodes(s)
          /\ EntityOf(s, s[d].content.from) = u
    BY <2>5 DEF DeclaredIn
  <2>7. s[d].content.from = file
    BY <2>3, <2>6, EntityTells
  <2> QED
    BY <2>6, <2>7 DEF DeclaredBy
<1>3. file \in AtPath(s, path)
  BY EntityParts DEF AtPath
<1> QED
  BY <1>1, <1>2, <1>3 DEF DeclaredBy

\* Without the file nothing of it is there.
LEMMA NothingAtPath ==
  ASSUME NEW s, NEW X, NEW P, NEW home, Shape(s, X, P, home), NEW path, path # "",
         FileAt(path) \notin X
  PROVE  AtPath(s, path) = {}
<1>1. ASSUME NEW n \in AtPath(s, path) PROVE FALSE
  <2>1. PICK e \in X : e = EntityOf(s, n) /\ e.path = path
    BY ShapeIndexed DEF AtPath
  <2>2. e # Repo
    BY <2>1, EntityParts
  <2> QED
    BY <2>1, <2>2 DEF Shape, Closed
<1> QED
  BY <1>1

\* The marks on a node that put it in a region.
Marks(s, n, region) ==
  \E k \in DOMAIN s \cap ClassificationId :
    /\ ~s[k].deleted /\ s[k].content.subject = n
    /\ region \in TermClosure(RegistryOf(s), s[k].content.term)

\* A classification has a subject.
Marked(s) == \A k \in DOMAIN s \cap ClassificationId : "subject" \in DOMAIN s[k].content

LEMMA MarksAreRegions ==
  ASSUME NEW s, Marked(s), NEW n, NEW region
  PROVE  Marks(s, n, region)
           <=> region \in UNION {TermClosure(RegistryOf(s), t) : t \in ClassificationsOf(s, n)}
<1>1. ASSUME Marks(s, n, region)
      PROVE  region \in UNION {TermClosure(RegistryOf(s), t) : t \in ClassificationsOf(s, n)}
  <2>1. PICK k \in DOMAIN s \cap ClassificationId :
          /\ ~s[k].deleted /\ s[k].content.subject = n
          /\ region \in TermClosure(RegistryOf(s), s[k].content.term)
    BY <1>1 DEF Marks
  <2>2. "subject" \in DOMAIN s[k].content
    BY DEF Marked
  <2>3. PICK t : t = s[k].content.term
    OBVIOUS
  <2>4. t \in ClassificationsOf(s, n)
    BY <2>1, <2>2, <2>3 DEF ClassificationsOf
  <2> QED
    BY <2>1, <2>3, <2>4
<1>2. ASSUME region \in UNION {TermClosure(RegistryOf(s), t) : t \in ClassificationsOf(s, n)}
      PROVE  Marks(s, n, region)
  <2>1. PICK t \in ClassificationsOf(s, n) : region \in TermClosure(RegistryOf(s), t)
    BY <1>2
  <2>2. PICK k \in DOMAIN s \cap ClassificationId :
          ~s[k].deleted /\ s[k].content.subject = n /\ t = s[k].content.term
    BY DEF ClassificationsOf
  <2> QED
    BY <2>1, <2>2 DEF Marks
<1> QED
  BY <1>1, <1>2

LEMMA RegionsOfIs ==
  ASSUME NEW s, Marked(s), NEW file, NEW region
  PROVE  region \in RegionsOf(s, RegistryOf(s), file)
           <=> \E n \in {file} \cup DeclaredBy(s, file) : Marks(s, n, region)
<1> DEFINE of(n) == UNION {TermClosure(RegistryOf(s), t) : t \in ClassificationsOf(s, n)}
<1>1. region \in RegionsOf(s, RegistryOf(s), file)
        <=> \E n \in {file} \cup DeclaredBy(s, file) : region \in of(n)
  BY DEF RegionsOf, DeclaredBy
<1>2. \A n : Marks(s, n, region) <=> region \in of(n)
  BY MarksAreRegions
<1> HIDE DEF of
<1> QED
  BY <1>1, <1>2

\* The paths of the regions are those of the files of the graph.
LEMMA PathRegionsAt ==
  ASSUME NEW s, NEW X, NEW P, NEW home, Shape(s, X, P, home), NEW file \in FilesOf(s)
  PROVE  /\ s[file].content.path \in DOMAIN PathRegions(s)
         /\ PathRegions(s)[s[file].content.path] = RegionsOf(s, RegistryOf(s), file)
<1> DEFINE path == s[file].content.path
<1>1. \A n \in FilesOf(s) : s[n].content.path = path => n = file
  <2>1. ASSUME NEW n \in FilesOf(s), s[n].content.path = path PROVE n = file
    <3>1. n = home[<<"node", FileAt(path)>>] /\ file = home[<<"node", FileAt(path)>>]
      BY <2>1, FileNode
    <3> QED
      BY <3>1
  <2> QED
    BY <2>1
<1>2. (CHOOSE n \in FilesOf(s) : s[n].content.path = path) = file
  BY <1>1
<1> QED
  BY <1>2 DEF PathRegions, FilesOf

LEMMA PathOfRegions ==
  ASSUME NEW s, NEW path \in DOMAIN PathRegions(s)
  PROVE  \E file \in FilesOf(s) : s[file].content.path = path
  BY DEF PathRegions, FilesOf

\* A path lies in the regions of the marks on its nodes.
LEMMA PathInRegion ==
  ASSUME NEW s, Marked(s), NEW X, NEW P, NEW home, Shape(s, X, P, home),
         NEW path, path # "", NEW region
  PROVE  path \in DOMAIN PathRegions(s) /\ region \in PathRegions(s)[path]
           <=> \E n \in AtPath(s, path) : Marks(s, n, region)
<1>1. ASSUME NEW file \in FilesOf(s), s[file].content.path = path
      PROVE  path \in DOMAIN PathRegions(s) /\ region \in PathRegions(s)[path]
               <=> \E n \in AtPath(s, path) : Marks(s, n, region)
  <2>1. /\ path \in DOMAIN PathRegions(s)
        /\ PathRegions(s)[path] = RegionsOf(s, RegistryOf(s), file)
    BY <1>1, PathRegionsAt
  <2>2. file \in CodeNodes(s) /\ EntityOf(s, file) = FileAt(path)
    BY <1>1 DEF FilesOf, EntityOf
  <2>3. AtPath(s, path) = {file} \cup DeclaredBy(s, file)
    BY <2>2, NodesAtPath
  <2>4. region \in RegionsOf(s, RegistryOf(s), file)
          <=> \E n \in {file} \cup DeclaredBy(s, file) : Marks(s, n, region)
    BY RegionsOfIs
  <2> QED
    BY <2>1, <2>3, <2>4
<1>2. CASE ~\E file \in FilesOf(s) : s[file].content.path = path
  <2>1. path \notin DOMAIN PathRegions(s)
    BY <1>2, PathOfRegions
  <2>2. FileAt(path) \notin X
    BY <1>2, FileIsIn DEF FileIn
  <2>3. AtPath(s, path) = {}
    BY <2>2, NothingAtPath
  <2> QED
    BY <2>1, <2>3
<1> QED
  BY <1>1, <1>2

LEMMA InRegionIs ==
  ASSUME NEW path, NEW region
  PROVE  InRegion(path, region) <=> \E n \in AtPath(objects, path) : Marks(objects, n, region)
<1>1. ASSUME InRegion(path, region)
      PROVE  \E n \in AtPath(objects, path) : Marks(objects, n, region)
  BY <1>1 DEF InRegion, AtPath, Marks, Registry
<1>2. ASSUME NEW n \in AtPath(objects, path), Marks(objects, n, region)
      PROVE  InRegion(path, region)
  BY <1>2 DEF InRegion, AtPath, Marks, Registry, CodeNodes, LiveNodes
<1> QED
  BY <1>1, <1>2

-----------------------------------------------------------------------------
\* A classification always has a subject: only the owner makes them.

LEMMA ImportMarked ==
  ASSUME IndexInv, Marked(objects), NEW c \in Commit, NEW m \in Nat,
         m + MintedBy(objects, c) <= Len(NodeIds), DOMAIN objects \cap Later(m) = {},
         Apply(ImportOps(objects, c, m), c)
  PROVE  Marked(objects')
<1>1. PICK X, P, home : Shape(objects, X, P, home)
  BY DEF IndexInv
<1>2. Importing(objects, X, P, home, c, m)
  BY <1>1 DEF Importing, IndexInv, TypeInv, IdInv
<1>3. PICK reg, s, ops : reg = Registry /\ s = objects /\ ops = ImportOps(objects, c, m)
  OBVIOUS
<1>4. /\ ApplyOps(reg, s, ops).ok
      /\ objects' = ApplyOps(reg, s, ops).objects
  BY <1>3, Accepted DEF Apply, Applied
<1>5. PICK r, next : r = objects' /\ next = NextHome(s, X, P, home, c, m)
  OBVIOUS
<1>6. Importing(s, X, P, home, c, m) /\ ops = ImportOps(s, c, m)
      /\ r = ApplyOps(reg, s, ops).objects /\ Marked(s)
  BY <1>2, <1>3, <1>4, <1>5
<1>7. ASSUME NEW k \in DOMAIN r \cap ClassificationId PROVE "subject" \in DOMAIN r[k].content
  <2>1. k \notin NodeId /\ k \notin EdgeId
    BY KindsAreDisjoint
  <2>2. k \notin Derived(s)
    BY <2>1 DEF Derived, CodeNodes, LiveNodes, DerivedEdges, LiveEdges
  <2>3. ASSUME NEW slot \in Slots(Entities[c], Calls[c]) PROVE k # next[slot]
    BY <1>5, <1>6, <2>1, NextIs
  <2>4. Same(s, ApplyOps(reg, s, ops).objects, k)
    BY <1>4, <1>5, <1>6, <2>2, <2>3, ResultApart
  <2>5. k \in DOMAIN s /\ r[k] = s[k]
    BY <1>6, <2>4 DEF Same
  <2> QED
    BY <1>6, <2>5 DEF Marked
<1> QED
  BY <1>5, <1>7 DEF Marked

LEMMA OwnerMarked ==
  ASSUME Marked(objects), NEW op, op.verb \in {"create", "update"}, OwnerCommits(<<op>>),
         op.id \in ClassificationId => "subject" \in DOMAIN op.body
  PROVE  Marked(objects')
<1>1. PICK reg, s, r : reg = Registry /\ s = objects /\ r = objects'
  OBVIOUS
<1>2. /\ ApplyChangeset(reg, s, <<op>>).ok
      /\ r = ApplyChangeset(reg, s, <<op>>).objects
  BY <1>1 DEF OwnerCommits, Apply, Applied
<1>3. Became(r, op.id, op.body) /\ \A id : id # op.id => Same(s, r, id)
  BY <1>2, OneWritten
<1>4. ASSUME NEW k \in DOMAIN r \cap ClassificationId PROVE "subject" \in DOMAIN r[k].content
  BY <1>1, <1>3 DEF Became, Same, Marked
<1> QED
  BY <1>1, <1>4 DEF Marked

LEMMA EditMarked == ASSUME IndexInv, Marked(objects), Edit PROVE Marked(objects')
<1>1. ASSUME NEW n, NEW t \in scenario.marks, Classify(n, t[1], t[2]) PROVE Marked(objects')
  <2>1. PICK op : op = [verb |-> "create", id |-> t[1],
                        body |-> [subject |-> n, term |-> t[2]]]
    OBVIOUS
  <2>2. OwnerCommits(<<op>>)
    BY <1>1, <2>1 DEF Classify
  <2>3. op.verb = "create" /\ "subject" \in DOMAIN op.body
    BY <2>1
  <2> QED
    BY <2>2, <2>3, OwnerMarked
<1>2. ASSUME NEW n, NEW m, Relate(n, m) PROVE Marked(objects')
  <2>1. PICK op : op = [verb |-> "create", id |-> EdgeIds[minted + 1],
                        body |-> [type |-> "code/references", from |-> n, to |-> m]]
    OBVIOUS
  <2>2. OwnerCommits(<<op>>) /\ minted < Len(NodeIds)
    BY <1>2, <2>1 DEF Relate, Fresh
  <2>3. op.verb = "create" /\ op.id = EdgeIds[minted + 1]
    BY <2>1
  <2>4. minted \in Nat /\ Len(NodeIds) \in Nat /\ Len(NodeIds) = Len(EdgeIds)
        /\ EdgeIds \in Seq(EdgeId)
    BY IdAssumption DEF IndexInv, TypeInv, IdInv
  <2>5. minted + 1 \in 1..Len(EdgeIds)
    BY <2>2, <2>4
  <2>6. op.id \in EdgeId
    BY <2>3, <2>4, <2>5
  <2>7. op.id \notin ClassificationId
    BY <2>6, KindsAreDisjoint
  <2> QED
    BY <2>2, <2>3, <2>7, OwnerMarked
<1>3. ASSUME NEW n \in Functions, Correct(n) PROVE Marked(objects')
  <2>1. PICK op : op = [verb |-> "update", id |-> n, prior |-> objects[n].rev,
                        body |-> [type |-> "code/Function", name |-> objects[n].content.name,
                                  signature |-> "asserted", span |-> <<0, 0>>]]
    OBVIOUS
  <2>2. OwnerCommits(<<op>>)
    BY <1>3, <2>1 DEF Correct
  <2>3. op.verb = "update" /\ op.id = n
    BY <2>1
  <2>4. n \in NodeId
    BY DEF Functions, NodesOf, CodeNodes, LiveNodes
  <2>5. op.id \notin ClassificationId
    BY <2>3, <2>4, KindsAreDisjoint
  <2> QED
    BY <2>2, <2>3, <2>5, OwnerMarked
<1>4. ASSUME NEW doc, InstallPolicy(doc) PROVE Marked(objects')
  <2>1. PICK op : op = [verb |-> "update", id |-> PolicyNode,
                        prior |-> objects[PolicyNode].rev,
                        body |-> [type |-> "meta/Policy", definition |-> doc]]
    OBVIOUS
  <2>2. OwnerCommits(<<op>>)
    BY <1>4, <2>1 DEF InstallPolicy
  <2>3. op.verb = "update" /\ op.id = PolicyNode
    BY <2>1
  <2>4. op.id \notin ClassificationId
    BY <2>3, KindsAreDisjoint, GitAssumption
  <2> QED
    BY <2>2, <2>3, <2>4, OwnerMarked
<1> QED
  BY <1>1, <1>2, <1>3, <1>4 DEF Edit

LEMMA StepMarked == ASSUME IndexInv, Marked(objects), [Next]_vars PROVE Marked(objects')
<1>1. ASSUME UNCHANGED objects PROVE Marked(objects')
  BY <1>1 DEF Marked
<1>2. ASSUME NEW c \in scenario.commits, NEW author, Index(c, author) PROVE Marked(objects')
  <2>1. PICK ops, mints : ops = ImportOps(objects, c, minted) /\ mints = MintedBy(objects, c)
    OBVIOUS
  <2>2. minted + mints <= Len(NodeIds) /\ (Apply(ops, c) \/ UNCHANGED objects)
    BY <1>2, <2>1 DEF Index, Derive
  <2>3. c \in Commit /\ minted \in Nat /\ DOMAIN objects \cap Later(minted) = {}
    BY GitAssumption DEF IndexInv, TypeInv, IdInv
  <2> QED
    BY <1>1, <2>1, <2>2, <2>3, ImportMarked
<1>3. ASSUME NEW p \in held, ApproveHeld(p) PROVE Marked(objects')
  <2>1. p.base = objects /\ Apply(p.ops, p.commit)
    BY <1>3 DEF ApproveHeld
  <2>2. PICK m \in Nat : /\ m + MintedBy(objects, p.commit) <= Len(NodeIds)
                         /\ p.ops = ImportOps(objects, p.commit, m)
                         /\ DOMAIN objects \cap Later(m) = {}
    BY <2>1 DEF IndexInv, HeldInv
  <2>3. PICK c \in Commit : c = p.commit
    BY DEF IndexInv, TypeInv, IdInv
  <2> QED
    BY <2>1, <2>2, <2>3, ImportMarked
<1>4. ASSUME NEW p,
             \/ \E v \in scenario.votes : StartDecide(p, v[1], v[2], v[3])
             \/ ReadNote(p) \/ WriteTemp(p) \/ AddNote(p) \/ RemoveTemp(p) \/ Die(p)
      PROVE  UNCHANGED objects
  BY <1>4 DEF StartDecide, ReadNote, WriteTemp, AddNote, RemoveTemp, Die, graph
<1>5. ASSUME UNCHANGED vars PROVE UNCHANGED objects
  BY <1>5 DEF vars, graph
<1> QED
  BY <1>1, <1>2, <1>3, <1>4, <1>5, EditMarked DEF Next

LEMMA InitMarked == Init => Marked(objects)
  BY GitAssumption, KindsAreDisjoint DEF Init, StartObjects, Marked

-----------------------------------------------------------------------------
\* What a git rule asks of one change, and who approved a commit, as the property
\* says it.

Covering(map, ref, op) ==
  /\ "repo" \in DOMAIN map => Spells(map.repo, Spelled[RepoName])
  /\ "target_ref" \in DOMAIN map => Spells(map.target_ref, Spelled[ref])
  /\ "path" \in DOMAIN map => Spells(map.path, Spelled[op[2]])
  /\ "operation" \in DOMAIN map => op[1] \in map.operation
  /\ "region" \in DOMAIN map => InRegion(op[2], map.region)

Approved(c, name) ==
  \E r \in NoteOf(c) :
    /\ r.verdict = "approve" /\ r.subject = c /\ r.context = ThePolicy
    /\ \E d \in r.deciders : d.principal = name /\ d.key \in ActiveKeys(objects, name)

Decided(c, need) ==
  \E team \in SUBSET Bindings(ThePolicy, need[1]) :
    Cardinality(team) = need[2] /\ \A name \in team : Approved(c, name)

Covered(c, ref, rule) == \E op \in OperationSet(c) : Covering(MapOf(rule), ref, op)

Justified(c, ref) ==
  Passes(c, ref)
    <=> \A rule \in GitRules(ThePolicy) :
          Covered(c, ref, rule) => \A need \in rule.reviewers : Decided(c, need)

LEMMA VerdictIs ==
  (\A c \in {v[1] : v \in scenario.votes}, ref \in Refs : Justified(c, ref))
    => VerdictJustified
  BY DEF VerdictJustified, Justified, Covered, Covering, Decided, Approved

\* The paths that a commit changes.
LEMMA ChangedPaths ==
  ASSUME NEW c \in Commit, NEW op \in OperationSet(c)
  PROVE  op[2] \in Range(Paths) /\ op[2] # ""
<1>1. \A b \in Commit : DOMAIN Tree[b] \subseteq Range(Paths)
  BY TreeAssumption
<1>2. FirstParent[c] \in Commit \cup {None}
  BY TreeAssumption
<1>3. PICK before, after :
        /\ before = (IF FirstParent[c] = None THEN EmptyState ELSE Tree[FirstParent[c]])
        /\ after = Tree[c]
  OBVIOUS
<1>4. DOMAIN before \subseteq Range(Paths) /\ DOMAIN after \subseteq Range(Paths)
  BY <1>1, <1>2, <1>3 DEF EmptyState
<1>5. op[2] \in DOMAIN before \cup DOMAIN after
  BY <1>3 DEF OperationSet
<1> QED
  BY <1>4, <1>5, NameAssumption

\* The keys of a git rule that hold patterns.
Patterns == {"repo", "target_ref", "path"}
Readable(map) == \A key \in DOMAIN map \cap Patterns : IsSequence(map[key])

LEMMA RulesReadable ==
  ASSUME NEW policy \in Policies, NEW rule \in GitRules(policy)
  PROVE  /\ Readable(MapOf(rule)) /\ rule \in policy.rules
         /\ \A need \in rule.reviewers : need[2] \in Nat
<1>1. PICK map \in {lit.map : lit \in UNION rule.select} : rule \in policy.rules
  BY DEF GitRules
<1>2. MapOf(rule) \in {lit.map : lit \in UNION rule.select}
  BY <1>1 DEF MapOf
<1>3. PICK lit \in UNION rule.select : MapOf(rule) = lit.map
  BY <1>2
<1>4. Readable(lit.map)
  BY <1>1, PolicyAssumption DEF Readable, Patterns, IsSequence
<1> QED
  BY <1>1, <1>3, <1>4, PolicyAssumption

\* A rule matches a commit if it covers one of its changes.
LEMMA MatchesIs ==
  ASSUME Marked(objects), NEW X, NEW P, NEW home, Shape(objects, X, P, home),
         NEW c \in Commit, NEW ref \in Refs, NEW map, Readable(map)
  PROVE  ChangeMatches(map, PathRegions(objects), ref, OperationSet(c))
           <=> \E op \in OperationSet(c) : Covering(map, ref, op)
<1> DEFINE Here(op) ==
      /\ "operation" \in DOMAIN map => op[1] \in map.operation
      /\ "path" \in DOMAIN map => GlobMatch(map.path, Spelled[op[2]])
      /\ "region" \in DOMAIN map => /\ op[2] \in DOMAIN PathRegions(objects)
                                    /\ map.region \in PathRegions(objects)[op[2]]
    Everywhere ==
      /\ "repo" \in DOMAIN map => GlobMatch(map.repo, Spelled[RepoName])
      /\ "target_ref" \in DOMAIN map => GlobMatch(map.target_ref, Spelled[ref])
<1>1. ChangeMatches(map, PathRegions(objects), ref, OperationSet(c))
        <=> Everywhere /\ \E op \in OperationSet(c) : Here(op)
  BY DEF ChangeMatches
<1>2. \A name \in {RepoName} \cup Refs \cup Range(Paths) : IsSequence(Spelled[name])
  BY PolicyAssumption DEF IsSequence
<1>3. "repo" \in DOMAIN map =>
        (GlobMatch(map.repo, Spelled[RepoName]) <=> Spells(map.repo, Spelled[RepoName]))
  BY <1>2, GlobsSpell DEF Readable, Patterns
<1>4. "target_ref" \in DOMAIN map =>
        (GlobMatch(map.target_ref, Spelled[ref]) <=> Spells(map.target_ref, Spelled[ref]))
  BY <1>2, GlobsSpell DEF Readable, Patterns
<1>5. ASSUME NEW op \in OperationSet(c)
      PROVE  Everywhere /\ Here(op) <=> Covering(map, ref, op)
  <2>1. op[2] \in Range(Paths) /\ op[2] # ""
    BY ChangedPaths
  <2>2. "path" \in DOMAIN map =>
          (GlobMatch(map.path, Spelled[op[2]]) <=> Spells(map.path, Spelled[op[2]]))
    BY <1>2, <2>1, GlobsSpell DEF Readable, Patterns
  <2>3. PICK path, region : path = op[2] /\ region = map.region
    OBVIOUS
  <2>4. path # ""
    BY <2>1, <2>3
  <2>5. path \in DOMAIN PathRegions(objects) /\ region \in PathRegions(objects)[path]
          <=> InRegion(path, region)
    BY <2>4, PathInRegion, InRegionIs
  <2> QED
    BY <1>3, <1>4, <2>2, <2>3, <2>5 DEF Covering
<1> HIDE DEF Here, Everywhere
<1> QED
  BY <1>1, <1>5

\* A role has its quorum of approvals if so many of its members approved.
LEMMA QuorumIs ==
  ASSUME NEW c, NEW need, need[2] \in Nat, IsFiniteSet(Bindings(ThePolicy, need[1]))
  PROVE  Cardinality(Approvals(objects, ThePolicy, c, need[1], NoteOf(c))) >= need[2]
           <=> Decided(c, need)
<1>1. PICK all, mine : /\ all = Bindings(ThePolicy, need[1])
                       /\ mine = Approvals(objects, ThePolicy, c, need[1], NoteOf(c))
  OBVIOUS
<1>2. mine = {name \in all : Approved(c, name)}
  BY <1>1 DEF Approvals, Approved
<1>3. mine \subseteq all /\ IsFiniteSet(all)
  BY <1>1, <1>2
<1>4. IsFiniteSet(mine) /\ Cardinality(mine) \in Nat
  BY <1>3, FS_Subset, FS_CardinalityType
<1>5. PICK k \in Nat : k = need[2]
  OBVIOUS
<1>6. ASSUME Cardinality(mine) >= k PROVE Decided(c, need)
  <2>1. PICK team \in SUBSET mine : Cardinality(team) = k
    BY <1>4, <1>5, <1>6, TeamExists
  <2>2. team \in SUBSET all /\ \A name \in team : Approved(c, name)
    BY <1>2, <2>1
  <2> QED
    BY <1>1, <1>5, <2>1, <2>2 DEF Decided
<1>7. ASSUME Decided(c, need) PROVE Cardinality(mine) >= k
  <2>1. PICK team \in SUBSET all : Cardinality(team) = k /\ \A name \in team : Approved(c, name)
    BY <1>1, <1>5, <1>7 DEF Decided
  <2>2. team \subseteq mine
    BY <1>2, <2>1
  <2>3. Cardinality(team) <= Cardinality(mine)
    BY <1>4, <2>2, FS_Subset
  <2> QED
    BY <1>4, <1>5, <2>1, <2>3
<1> QED
  BY <1>1, <1>5, <1>6, <1>7

LEMMA VerdictHolds == IndexInv /\ Marked(objects) => VerdictJustified
<1> SUFFICES ASSUME IndexInv, Marked(objects),
                    NEW c \in {v[1] : v \in scenario.votes}, NEW ref \in Refs
             PROVE  Justified(c, ref)
  BY VerdictIs
<1>1. scenario \in Scenarios /\ ThePolicy \in Policies
  BY DEF IndexInv, TypeInv, IdInv, PolicyInv, Policies
<1>2. c \in Commit
  BY <1>1, PolicyAssumption
<1>3. PICK X, P, home : Shape(objects, X, P, home)
  BY DEF IndexInv
<1>4. PICK policy : policy = ThePolicy
  OBVIOUS
<1> DEFINE matched == {rule \in GitRules(policy) :
              ChangeMatches(MapOf(rule), PathRegions(objects), ref, OperationSet(c))}
           Met(need) == Cardinality(Approvals(objects, policy, c, need[1], NoteOf(c))) >= need[2]
<1>5. Passes(c, ref) <=> \A need \in UNION {rule.reviewers : rule \in matched} : Met(need)
  BY <1>4 DEF Passes, ReviewersMet, EvaluateGit
<1>6. \A rule \in GitRules(policy) : rule \in matched <=> Covered(c, ref, rule)
  <2> SUFFICES ASSUME NEW rule \in GitRules(policy)
               PROVE  rule \in matched <=> Covered(c, ref, rule)
    OBVIOUS
  <2>1. PICK map : map = MapOf(rule)
    OBVIOUS
  <2>2. Readable(map)
    BY <1>1, <1>4, <2>1, RulesReadable
  <2>3. ChangeMatches(map, PathRegions(objects), ref, OperationSet(c))
          <=> \E op \in OperationSet(c) : Covering(map, ref, op)
    BY <1>2, <1>3, <2>2, MatchesIs
  <2> QED
    BY <2>1, <2>3 DEF Covered
<1>7. \A rule \in GitRules(policy) : \A need \in rule.reviewers : Met(need) <=> Decided(c, need)
  <2> SUFFICES ASSUME NEW rule \in GitRules(policy), NEW need \in rule.reviewers
               PROVE  Met(need) <=> Decided(c, need)
    OBVIOUS
  <2>1. need[2] \in Nat
    BY <1>1, <1>4, RulesReadable
  <2>2. IsFiniteSet(Bindings(ThePolicy, need[1]))
    BY <1>1, PolicyAssumption, FS_EmptySet DEF Bindings
  <2> QED
    BY <1>4, <2>1, <2>2, QuorumIs
<1>8. matched \subseteq GitRules(policy)
  OBVIOUS
<1> HIDE DEF matched, Met
<1>9. (\A need \in UNION {rule.reviewers : rule \in matched} : Met(need))
        <=> \A rule \in matched : \A need \in rule.reviewers : Met(need)
  OBVIOUS
<1> QED
  BY <1>4, <1>5, <1>6, <1>7, <1>8, <1>9 DEF Justified

\* A commit passes its review exactly when each rule of the policy in force that
\* covers one of its changes - by what its patterns mean, and by the marks on the
\* nodes at the changed path - has its quorum of distinct members of the role who
\* each approved this commit, under this very policy, by a key active now; whatever
\* is indexed, classified, installed and decided in between, by however many
\* processes at a time.
THEOREM VerdictsAreJustified == Spec => []VerdictJustified
<1> DEFINE Inv == IndexInv /\ Marked(objects)
<1>1. Init => Inv
  BY InitIndexInv, InitMarked
<1>2. Inv /\ [Next]_vars => Inv'
  BY StepIndexInv, StepMarked
<1>3. Inv => VerdictJustified
  BY VerdictHolds
<1> HIDE DEF Inv
<1> QED
  BY <1>1, <1>2, <1>3, PTL DEF Spec
-----------------------------------------------------------------------------
\* Why derivations apply: nobody who edits or derives touches the schema, so the
\* registry is the one genesis made, and the edges that are not of the index are
\* references between nodes.

SchemaTypes == {"meta/EntityType", "meta/EdgeType", "meta/TaxonomyTerm", "meta/ValidationRule"}

\* That an object defines nothing.
NoSchema(s, id) == ~(id \in LiveNodes(s) /\ TypeOf(s[id].content) \in SchemaTypes)

References(s) ==
  \A d \in Outer(s) : /\ TypeOf(s[d].content) = "code/references"
                      /\ s[d].content.from \in NodeId /\ s[d].content.to \in NodeId

SchemaInv ==
  /\ RegistryOf(objects) = RegistryOf(StartObjects)
  /\ EdgesResolve(objects)
  /\ References(objects)

\* States with the same schema nodes have the same registry.
LEMMA SameRegistry ==
  ASSUME NEW s, NEW r, \A id : Same(s, r, id) \/ (NoSchema(s, id) /\ NoSchema(r, id))
  PROVE  RegistryOf(r) = RegistryOf(s)
<1>1. ASSUME NEW type \in SchemaTypes PROVE LiveContents(r, type) = LiveContents(s, type)
  <2>1. ASSUME NEW id
        PROVE  /\ (id \in LiveNodes(r) /\ TypeOf(r[id].content) = type)
                    <=> (id \in LiveNodes(s) /\ TypeOf(s[id].content) = type)
               /\ (id \in LiveNodes(s) /\ TypeOf(s[id].content) = type)
                    => r[id].content = s[id].content
    BY DEF Same, NoSchema, LiveNodes
  <2> QED
    BY <2>1 DEF LiveContents
<1>2. /\ LiveContents(r, "meta/EntityType") = LiveContents(s, "meta/EntityType")
      /\ LiveContents(r, "meta/EdgeType") = LiveContents(s, "meta/EdgeType")
      /\ LiveContents(r, "meta/TaxonomyTerm") = LiveContents(s, "meta/TaxonomyTerm")
      /\ LiveContents(r, "meta/ValidationRule") = LiveContents(s, "meta/ValidationRule")
  BY <1>1 DEF SchemaTypes
<1> QED
  BY <1>2 DEF RegistryOf

\* What is of the index defines nothing.
LEMMA DerivedNoSchema == ASSUME NEW s, NEW id \in Derived(s) PROVE NoSchema(s, id)
<1>1. CASE id \in CodeNodes(s)
  BY <1>1 DEF NoSchema, CodeNodes, SchemaTypes
<1>2. CASE id \in DerivedEdges(s)
  BY <1>2, KindsAreDisjoint DEF NoSchema, DerivedEdges, LiveEdges, LiveNodes
<1> QED
  BY <1>1, <1>2 DEF Derived

\* An import that applies.
LEMMA ImportSchema ==
  ASSUME IndexInv, SchemaInv, NEW c \in Commit, NEW m \in Nat,
         m + MintedBy(objects, c) <= Len(NodeIds), DOMAIN objects \cap Later(m) = {},
         Apply(ImportOps(objects, c, m), c)
  PROVE  SchemaInv'
<1>1. PICK X, P, home : Shape(objects, X, P, home)
  BY DEF IndexInv
<1>2. Importing(objects, X, P, home, c, m)
  BY <1>1 DEF Importing, IndexInv, TypeInv, IdInv
<1>3. PICK reg, s, ops : reg = Registry /\ s = objects /\ ops = ImportOps(objects, c, m)
  OBVIOUS
<1>4. /\ ApplyOps(reg, s, ops).ok
      /\ objects' = ApplyOps(reg, s, ops).objects
      /\ EdgesResolve(objects')
  BY <1>3, Accepted DEF Apply, Applied
<1>5. PICK r, next : r = objects' /\ next = NextHome(s, X, P, home, c, m)
  OBVIOUS
<1>6. Importing(s, X, P, home, c, m) /\ ops = ImportOps(s, c, m)
      /\ r = ApplyOps(reg, s, ops).objects
  BY <1>2, <1>3, <1>4, <1>5
<1>7. Shape(r, Entities[c], Calls[c], next)
  BY <1>4, <1>5, <1>6, ResultShape
<1>8. ASSUME NEW slot \in Slots(Entities[c], Calls[c]) PROVE NoSchema(r, next[slot])
  <2>1. next[slot] \in Derived(r)
    BY <1>7, HomeIs
  <2> QED
    BY <2>1, DerivedNoSchema
<1>9. ASSUME NEW id PROVE Same(s, r, id) \/ (NoSchema(s, id) /\ NoSchema(r, id))
  <2>1. CASE id \in Derived(s)
    <3>1. NoSchema(s, id)
      BY <2>1, DerivedNoSchema
    <3>2. PICK slot \in Slots(X, P) : home[slot] = id
      BY <1>6, <2>1, HomeIs DEF Importing
    <3>3. CASE slot \in Slots(Entities[c], Calls[c])
      <4>1. next[slot] = id
        BY <1>5, <1>6, <3>2, <3>3, NextIs
      <4> QED
        BY <1>8, <3>1, <3>3, <4>1
    <3>4. CASE slot \notin Slots(Entities[c], Calls[c])
      <4>1. ApplyOps(reg, s, ops).objects[home[slot]].deleted
        BY <1>4, <1>6, <3>4, ResultGone
      <4>2. r[id].deleted
        BY <1>6, <3>2, <4>1
      <4> QED
        BY <3>1, <4>2 DEF NoSchema, LiveNodes
    <3> QED
      BY <3>3, <3>4
  <2>2. ASSUME id \notin Derived(s), NEW slot \in Slots(Entities[c], Calls[c]), id = next[slot]
        PROVE  NoSchema(s, id) /\ NoSchema(r, id)
    <3>1. NoSchema(r, id)
      BY <1>8, <2>2
    <3>2. slot \in Slots(X, P) => next[slot] = home[slot] /\ home[slot] \in Derived(s)
      <4>1. slot \in Slots(X, P) => next[slot] = home[slot]
        BY <1>5, <1>6, NextIs
      <4>2. slot \in Slots(X, P) => home[slot] \in Derived(s)
        BY <1>6, HomeIs DEF Importing
      <4> QED
        BY <4>1, <4>2
    <3>3. next[slot] \in DOMAIN s <=> slot \in Slots(X, P)
      BY <1>5, <1>6, NextIs
    <3>4. id \notin DOMAIN s
      BY <2>2, <3>2, <3>3
    <3> QED
      BY <3>1, <3>4 DEF NoSchema, LiveNodes
  <2>3. ASSUME id \notin Derived(s), \A slot \in Slots(Entities[c], Calls[c]) : id # next[slot]
        PROVE  Same(s, r, id)
    <3>1. Same(s, ApplyOps(reg, s, ops).objects, id)
      BY <1>4, <1>5, <1>6, <2>3, ResultApart
    <3> QED
      BY <1>6, <3>1
  <2> QED
    BY <2>1, <2>2, <2>3
<1>10. RegistryOf(r) = RegistryOf(s)
  BY <1>9, SameRegistry
<1>11. References(r)
  <2> SUFFICES ASSUME NEW d \in Outer(r)
               PROVE  /\ TypeOf(r[d].content) = "code/references"
                      /\ r[d].content.from \in NodeId /\ r[d].content.to \in NodeId
    BY DEF References
  <2>1. d \in DOMAIN r \cap EdgeId /\ ~r[d].deleted /\ d \notin Derived(r)
    BY DEF Outer
  <2>2. d \in Outer(s) /\ r[d] = s[d]
    BY <1>4, <1>6, <2>1, ResultOuter
  <2> QED
    BY <1>3, <2>2 DEF SchemaInv, References
<1> QED
  BY <1>3, <1>4, <1>5, <1>10, <1>11 DEF SchemaInv

\* What an edit of the owner's comes to.
LEMMA OwnerWrites ==
  ASSUME NEW op, op.verb \in {"create", "update"}, OwnerCommits(<<op>>),
         NEW s, s = objects, NEW r, r = objects'
  PROVE  /\ Became(r, op.id, op.body) /\ \A id : id # op.id => Same(s, r, id)
         /\ EdgesResolve(r)
<1>1. PICK reg : reg = Registry
  OBVIOUS
<1>2. /\ ApplyChangeset(reg, s, <<op>>).ok
      /\ r = ApplyChangeset(reg, s, <<op>>).objects
  BY <1>1 DEF OwnerCommits, Apply, Applied
<1>3. Became(r, op.id, op.body) /\ \A id : id # op.id => Same(s, r, id)
  BY <1>2, OneWritten
<1>4. EdgesResolve(r)
  BY <1>2, Accepted
<1> QED
  BY <1>3, <1>4

\* An edit of the owner's that defines nothing and undefines nothing.
LEMMA OwnerSchema ==
  ASSUME SchemaInv, NEW op, op.verb \in {"create", "update"}, OwnerCommits(<<op>>),
         op.id \in NodeId => TypeOf(op.body) \notin SchemaTypes /\ NoSchema(objects, op.id),
         op.id \in EdgeId => /\ TypeOf(op.body) = "code/references"
                             /\ op.body.from \in NodeId /\ op.body.to \in NodeId
  PROVE  SchemaInv'
<1>1. PICK s, r : s = objects /\ r = objects'
  OBVIOUS
<1>3. /\ Became(r, op.id, op.body) /\ \A id : id # op.id => Same(s, r, id)
      /\ EdgesResolve(r)
  BY <1>1, OwnerWrites
<1>5. NoSchema(s, op.id) /\ NoSchema(r, op.id)
  BY <1>1, <1>3 DEF NoSchema, LiveNodes, Became
<1>6. RegistryOf(r) = RegistryOf(s)
  BY <1>3, <1>5, SameRegistry
<1>7. References(r)
  <2> SUFFICES ASSUME NEW d \in Outer(r)
               PROVE  /\ TypeOf(r[d].content) = "code/references"
                      /\ r[d].content.from \in NodeId /\ r[d].content.to \in NodeId
    BY DEF References
  <2>1. d \in DOMAIN r /\ d \in EdgeId /\ ~r[d].deleted /\ d \notin Derived(r)
    BY DEF Outer
  <2>2. CASE d = op.id
    BY <1>3, <2>1, <2>2 DEF Became
  <2>3. CASE d # op.id
    <3>1. d \in DOMAIN s /\ r[d] = s[d]
      BY <1>3, <2>1, <2>3 DEF Same
    <3>2. d \notin Derived(s)
      BY <2>1, <3>1, KindsAreDisjoint
         DEF Derived, CodeNodes, LiveNodes, DerivedEdges, LiveEdges
    <3>3. d \in Outer(s)
      BY <2>1, <3>1, <3>2 DEF Outer
    <3> QED
      BY <1>1, <3>1, <3>3 DEF SchemaInv, References
  <2> QED
    BY <2>2, <2>3
<1> QED
  BY <1>1, <1>3, <1>6, <1>7 DEF SchemaInv

LEMMA EditSchema == ASSUME IndexInv, SchemaInv, Edit PROVE SchemaInv'
<1>1. ASSUME NEW n, NEW t \in scenario.marks, Classify(n, t[1], t[2]) PROVE SchemaInv'
  <2>1. PICK op : op = [verb |-> "create", id |-> t[1],
                        body |-> [subject |-> n, term |-> t[2]]]
    OBVIOUS
  <2>2. OwnerCommits(<<op>>)
    BY <1>1, <2>1 DEF Classify
  <2>3. op.verb = "create" /\ op.id = t[1]
    BY <2>1
  <2>4. op.id \in ClassificationId
    BY <2>3, GitAssumption DEF IndexInv, TypeInv, IdInv
  <2>5. op.id \notin NodeId /\ op.id \notin EdgeId
    BY <2>4, KindsAreDisjoint
  <2> QED
    BY <2>2, <2>3, <2>5, OwnerSchema
<1>2. ASSUME NEW n \in Functions, NEW m \in Functions, Relate(n, m) PROVE SchemaInv'
  <2>1. PICK op : op = [verb |-> "create", id |-> EdgeIds[minted + 1],
                        body |-> [type |-> "code/references", from |-> n, to |-> m]]
    OBVIOUS
  <2>2. OwnerCommits(<<op>>) /\ minted < Len(NodeIds)
    BY <1>2, <2>1 DEF Relate, Fresh
  <2>3. /\ op.verb = "create" /\ op.id = EdgeIds[minted + 1]
        /\ TypeOf(op.body) = "code/references" /\ op.body.from = n /\ op.body.to = m
    BY <2>1 DEF TypeOf
  <2>4. minted \in Nat /\ Len(NodeIds) \in Nat /\ Len(NodeIds) = Len(EdgeIds)
        /\ EdgeIds \in Seq(EdgeId)
    BY IdAssumption DEF IndexInv, TypeInv, IdInv
  <2>5. minted + 1 \in 1..Len(EdgeIds)
    BY <2>2, <2>4
  <2>6. op.id \in EdgeId
    BY <2>3, <2>4, <2>5
  <2>7. op.id \notin NodeId
    BY <2>6, KindsAreDisjoint
  <2>8. n \in NodeId /\ m \in NodeId
    BY DEF Functions, NodesOf, CodeNodes, LiveNodes
  <2> QED
    BY <2>2, <2>3, <2>7, <2>8, OwnerSchema
<1>3. ASSUME NEW n \in Functions, Correct(n) PROVE SchemaInv'
  <2>1. PICK op : op = [verb |-> "update", id |-> n, prior |-> objects[n].rev,
                        body |-> [type |-> "code/Function", name |-> objects[n].content.name,
                                  signature |-> "asserted", span |-> <<0, 0>>]]
    OBVIOUS
  <2>2. OwnerCommits(<<op>>)
    BY <1>3, <2>1 DEF Correct
  <2>3. op.verb = "update" /\ op.id = n /\ TypeOf(op.body) = "code/Function"
    BY <2>1 DEF TypeOf
  <2>4. n \in CodeNodes(objects) /\ n \in NodeId
    BY DEF Functions, NodesOf, CodeNodes, LiveNodes
  <2>5. NoSchema(objects, n)
    BY <2>4, DerivedNoSchema DEF Derived
  <2>6. op.id \notin EdgeId /\ TypeOf(op.body) \notin SchemaTypes
    BY <2>3, <2>4, KindsAreDisjoint DEF SchemaTypes
  <2> QED
    BY <2>2, <2>3, <2>5, <2>6, OwnerSchema
<1>4. ASSUME NEW doc, InstallPolicy(doc) PROVE SchemaInv'
  <2>1. PICK op : op = [verb |-> "update", id |-> PolicyNode,
                        prior |-> objects[PolicyNode].rev,
                        body |-> [type |-> "meta/Policy", definition |-> doc]]
    OBVIOUS
  <2>2. OwnerCommits(<<op>>)
    BY <1>4, <2>1 DEF InstallPolicy
  <2>3. op.verb = "update" /\ op.id = PolicyNode /\ TypeOf(op.body) = "meta/Policy"
    BY <2>1 DEF TypeOf
  <2>4. NoSchema(objects, PolicyNode)
    BY DEF IndexInv, PolicyInv, NoSchema, SchemaTypes
  <2>5. op.id \notin EdgeId /\ TypeOf(op.body) \notin SchemaTypes
    BY <2>3, KindsAreDisjoint, GitAssumption DEF SchemaTypes
  <2> QED
    BY <2>2, <2>3, <2>4, <2>5, OwnerSchema
<1> QED
  BY <1>1, <1>2, <1>3, <1>4 DEF Edit

LEMMA StepSchema == ASSUME IndexInv, SchemaInv, [Next]_vars PROVE SchemaInv'
<1>1. ASSUME UNCHANGED objects PROVE SchemaInv'
  BY <1>1 DEF SchemaInv
<1>2. ASSUME NEW c \in scenario.commits, NEW author, Index(c, author) PROVE SchemaInv'
  <2>1. PICK ops, mints : ops = ImportOps(objects, c, minted) /\ mints = MintedBy(objects, c)
    OBVIOUS
  <2>2. minted + mints <= Len(NodeIds) /\ (Apply(ops, c) \/ UNCHANGED objects)
    BY <1>2, <2>1 DEF Index, Derive
  <2>3. c \in Commit /\ minted \in Nat /\ DOMAIN objects \cap Later(minted) = {}
    BY GitAssumption DEF IndexInv, TypeInv, IdInv
  <2> QED
    BY <1>1, <2>1, <2>2, <2>3, ImportSchema
<1>3. ASSUME NEW p \in held, ApproveHeld(p) PROVE SchemaInv'
  <2>1. p.base = objects /\ Apply(p.ops, p.commit)
    BY <1>3 DEF ApproveHeld
  <2>2. PICK m \in Nat : /\ m + MintedBy(objects, p.commit) <= Len(NodeIds)
                         /\ p.ops = ImportOps(objects, p.commit, m)
                         /\ DOMAIN objects \cap Later(m) = {}
    BY <2>1 DEF IndexInv, HeldInv
  <2>3. PICK c \in Commit : c = p.commit
    BY DEF IndexInv, TypeInv, IdInv
  <2> QED
    BY <2>1, <2>2, <2>3, ImportSchema
<1>4. ASSUME NEW p,
             \/ \E v \in scenario.votes : StartDecide(p, v[1], v[2], v[3])
             \/ ReadNote(p) \/ WriteTemp(p) \/ AddNote(p) \/ RemoveTemp(p) \/ Die(p)
      PROVE  UNCHANGED objects
  BY <1>4 DEF StartDecide, ReadNote, WriteTemp, AddNote, RemoveTemp, Die, graph
<1>5. ASSUME UNCHANGED vars PROVE UNCHANGED objects
  BY <1>5 DEF vars, graph
<1> QED
  BY <1>1, <1>2, <1>3, <1>4, <1>5, EditSchema DEF Next

LEMMA InitSchema == Init => SchemaInv
<1> SUFFICES ASSUME Init PROVE SchemaInv
  OBVIOUS
<1>1. objects = StartObjects /\ DOMAIN objects = DOMAIN StartNodes
  BY DEF Init, StartObjects
<1>2. DOMAIN objects \cap EdgeId = {}
  BY <1>1, GitAssumption, KindsAreDisjoint
<1> QED
  BY <1>1, <1>2 DEF SchemaInv, EdgesResolve, References, Outer

\* Only references can tie what goes, and they are the edges not of the index.
LEMMA DerivationsHold == IndexInv /\ SchemaInv => ImportApplies
<1> SUFFICES ASSUME IndexInv, SchemaInv, NEW c \in scenario.commits,
                    minted + MintedBy(objects, c) <= Len(NodeIds)
             PROVE  Applied(ImportOps(objects, c, minted)).ok
                      <=> ~Pinned(Vanished(Indexed(objects), c))
  BY DEF ImportApplies
<1>1. PICK X, P, home : Shape(objects, X, P, home)
  BY DEF IndexInv
<1>2. PICK m, s, reg, gone : /\ m = minted /\ s = objects /\ reg = Registry
                             /\ gone = Vanished(Indexed(objects), c)
  OBVIOUS
<1>3. Importing(s, X, P, home, c, m)
  BY <1>1, <1>2, GitAssumption DEF Importing, IndexInv, TypeInv, IdInv
<1>4. CodeOntology(reg) /\ EdgesResolve(s) /\ References(s)
  BY <1>2, OntologyAssumption DEF SchemaInv, Registry
<1>5. \A d \in Outer(s) : s[d].content.from \in NodeId /\ s[d].content.to \in NodeId
  BY <1>4 DEF References
<1>6. ApplyChangeset(reg, s, ImportOps(s, c, m)).ok <=>
        \A d \in Outer(s) : /\ s[d].content.from \notin Vanished(Indexed(s), c)
                            /\ s[d].content.to \notin Vanished(Indexed(s), c)
  BY <1>3, <1>4, <1>5, ImportAccepted
<1>7. \A d : d \in Outer(s) <=> d \in LiveEdges(s, "code/references")
  <2> TAKE d
  <2>1. d \in Outer(s) => d \in LiveEdges(s, "code/references")
    BY <1>4 DEF References, Outer, LiveEdges
  <2>2. d \in LiveEdges(s, "code/references") => d \in Outer(s)
    BY KindsAreDisjoint
       DEF Outer, Derived, CodeNodes, LiveNodes, DerivedEdges, LiveEdges, EdgeTypes
  <2> QED
    BY <2>1, <2>2
<1>8. Pinned(gone) <=>
        \E d \in Outer(s) : s[d].content.from \in gone \/ s[d].content.to \in gone
  BY <1>2, <1>7 DEF Pinned
<1> QED
  BY <1>2, <1>6, <1>8 DEF Applied

\* A derivation is refused only for the one reason the owner can act on: an edge of
\* somebody else's ties a node that the commit no longer has.  No type, no endpoint,
\* no revision and no id of the operations it plans is ever refused, however the
\* graph came to what it says.
THEOREM DerivationsApply == Spec => []ImportApplies
<1> DEFINE Inv == IndexInv /\ SchemaInv
<1>1. Init => Inv
  BY InitIndexInv, InitSchema
<1>2. Inv /\ [Next]_vars => Inv'
  BY StepIndexInv, StepSchema
<1>3. Inv => ImportApplies
  BY DerivationsHold
<1> HIDE DEF Inv
<1> QED
  BY <1>1, <1>2, <1>3, PTL DEF Spec
=============================================================================
