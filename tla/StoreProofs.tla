----------------------------- MODULE StoreProofs -----------------------------
(***************************************************************************)
(* That HEAD never gets ahead of its history, nor a principal of its key,  *)
(* nor a report of what is on disk, for every number of native processes   *)
(* and changesets, wherever the processes die.  The first invariant says   *)
(* so of every changeset that another descends from, and that each call    *)
(* still holds enough writes, before that of HEAD, to keep it so.  The     *)
(* second adds where the private keys are, and that each call stores the   *)
(* key of a principal before it publishes the public half.  The third adds *)
(* that whatever was or will be reported is in a file, or among the writes *)
(* that the reporting call has left, and that no other call will take it   *)
(* away, unless the file is one that a crash or a second writer broke.     *)
(***************************************************************************)
EXTENDS GraphStore, SequenceTheorems, TLAPS

-----------------------------------------------------------------------------
\* The invariant.

\* Files that are not held to be whole.
Shaken == torn \cup contended \cup Opened

\* A document that lacks approvals, as it will be read.
Weak(doc, x) == Short(IF doc = Torn THEN NoEvidence ELSE doc, x)

\* The evidence of x on file is enough, or was broken when written once more.
Evident(x) ==
  ~Short(EvidenceIn(files, EvidenceFile(x)), x) \/ EvidenceFile(x) \in Shaken

\* The file of x is there, whole or not.
Stored(x) == Exists(files, ChangesetFile(x))

\* z has been HEAD: a changeset was built on it, or HEAD names it.
Ancestral(z) == \E x \in Changeset : z \in lineage[x] \ {x}

Logged(z) == Ancestral(z) \/ (Intact(files, HeadFile) /\ files[HeadFile] = z)

\* The step writes the path.
Writes(step, path) == step.verb = "write" /\ step.path = path

\* Before HEAD is written to name y, y and its evidence are.
Prepared(s, j, y) ==
  /\ Stored(y) \/ \E i \in 1..(j - 1) : Writes(s[i], ChangesetFile(y))
  /\ \/ Evident(y)
     \/ \E i \in 1..(j - 1) : Writes(s[i], EvidenceFile(y)) /\ ~Weak(s[i].text, y)

\* A call that names x as HEAD writes enough evidence of it, or none is needed.
Grounded(s, paths, x) ==
  /\ x \in Changeset
  /\ Quorum[x] = 0 \/ EvidenceFile(x) \in paths
  /\ \A i \in DOMAIN s : Writes(s[i], EvidenceFile(x)) => ~Weak(s[i].text, x)

\* An envelope written over evidence that has been read may take it away only
\* before the changeset is in the log.
Careful(step) ==
  /\ \A x \in Changeset :
       Writes(step, ChangesetFile(x)) => step.text # Torn
  /\ \A x \in Changeset :
       Writes(step, EvidenceFile(x)) =>
         \/ EvidenceFile(x) \in torn \cup contended
         \/ step.text # Torn /\ (Weak(step.text, x) => ~Logged(x))

\* What flows remove: proposals, and keys that have moved.
Removable == {"proposals", "pending", "keys"}

\* The steps that a call has left, which began as a call of the paths.
Orderly(s, paths) ==
  /\ s \in Seq(Range(s))
  /\ \A i \in DOMAIN s :
       /\ s[i].verb \in {"write", "remove"}
       /\ s[i].verb = "remove" => s[i].path[1] \in Removable
       /\ s[i].path \in paths
       /\ Careful(s[i])
       /\ Writes(s[i], HeadFile) =>
            Grounded(s, paths, s[i].text) /\ Prepared(s, i, s[i].text)

\* The call of a process, as a value: what is primed is only what it is held to.
Calls ==
  \A p \in Processes : \A c :
    c = call[p] =>
      /\ c = Doing(c.steps, c.opened, c.reports, c.paths)
      /\ Orderly(c.steps, c.paths)
      /\ c.opened => c.steps # <<>> /\ Head(c.steps).verb = "write"
      /\ c.steps = <<>> => c.paths = {}

\* Two calls write one file only if it is contended.
Apart ==
  \A p, q \in Processes : p # q => call[p].paths \cap call[q].paths \subseteq contended

\* An empty file of the log is one that was broken, or is being written.
TornIsShaken ==
  \A x \in Changeset : \A path \in {ChangesetFile(x), EvidenceFile(x)} :
    Exists(files, path) /\ files[path] = Torn => path \in Shaken

\* What has been HEAD is stored with its evidence.
LoggedIsThere == \A z \in Changeset : Logged(z) => Stored(z) /\ Evident(z)

StoreInv ==
  /\ call = [p \in Processes |-> call[p]]
  /\ lineage \in [Changeset -> SUBSET Changeset]
  /\ Intact(files, HeadFile) => files[HeadFile] \in Changeset
  /\ Calls
  /\ Apart
  /\ TornIsShaken
  /\ LoggedIsThere

-----------------------------------------------------------------------------
\* Sequences of steps.

\* The first step, and the steps that are left when it is done.
LEMMA Rest ==
  ASSUME NEW s, s \in Seq(Range(s)), s # <<>>
  PROVE  /\ Len(s) \in Nat \ {0} /\ DOMAIN s = 1..Len(s) /\ Head(s) = s[1]
         /\ Tail(s) \in Seq(Range(Tail(s))) /\ DOMAIN Tail(s) = 1..(Len(s) - 1)
         /\ \A i \in DOMAIN Tail(s) : Tail(s)[i] = s[i + 1]
<1> DEFINE S == Range(s)
           t == Tail(s)
<1>1. /\ Len(s) \in Nat \ {0} /\ DOMAIN s = 1..Len(s) /\ Head(s) = s[1]
      /\ t \in Seq(S) /\ Len(t) = Len(s) - 1
      /\ \A i \in 1..Len(t) : t[i] = s[i + 1]
  <2> HIDE DEF S
  <2>1. s \in Seq(S)
    BY DEF S
  <2> QED
    BY <2>1
<1>2. t \in [1..Len(t) -> Range(t)] /\ DOMAIN t = 1..Len(t)
  <2> HIDE DEF S, t
  <2>1. DOMAIN t = 1..Len(t) /\ t = [i \in 1..Len(t) |-> t[i]]
    BY <1>1
  <2> QED
    BY <2>1 DEF Range
<1>3. t \in Seq(Range(t))
  <2> HIDE DEF t
  <2> QED
    BY <1>1, <1>2
<1> QED
  BY <1>1, <1>2, <1>3

-----------------------------------------------------------------------------
\* What a step of a process does to what the invariant speaks of; filled says
\* whether it fills the file it has open.

Effect(p, filled) ==
  /\ \A x \in Changeset : Stored(x) => Stored(x)'
  /\ \A x \in Changeset :
       Evident(x) => \/ Evident(x)'
                     \/ /\ filled /\ Writes(Next1(p), EvidenceFile(x))
                        /\ Weak(Next1(p).text, x)
                        /\ EvidenceFile(x) \notin torn \cup contended
  /\ \A z \in Changeset :
       Logged(z)' => \/ Logged(z)
                     \/ filled /\ Writes(Next1(p), HeadFile) /\ Next1(p).text = z
  /\ filled => \A x \in Changeset :
                 /\ Writes(Next1(p), ChangesetFile(x)) => Stored(x)'
                 /\ (Writes(Next1(p), EvidenceFile(x)) /\ ~Weak(Next1(p).text, x))
                      => Evident(x)'
  /\ TornIsShaken'
  /\ Intact(files', HeadFile) => files'[HeadFile] \in Changeset

\* The call goes on with the same steps, with one less, or not at all.
GoesOn(p, filled) ==
  \E c : /\ call' = [call EXCEPT ![p] = c]
         /\ \/ c = Returned
            \/ /\ ~filled /\ c.steps = call[p].steps
               /\ c = Doing(c.steps, TRUE, call[p].reports, call[p].paths)
               /\ Next1(p).verb = "write"
            \/ /\ filled \/ Next1(p).verb = "remove"
               /\ c.steps = Tail(call[p].steps) /\ c.steps # <<>>
               /\ c = Doing(c.steps, FALSE, call[p].reports, call[p].paths)

\* Paths of different kinds are different, and so are those of different changesets.
LEMMA Kinds ==
  ASSUME NEW x, NEW y
  PROVE  /\ HeadFile # ChangesetFile(x) /\ HeadFile # EvidenceFile(x)
         /\ ChangesetFile(x) # EvidenceFile(y)
         /\ ChangesetFile(x) = ChangesetFile(y) => x = y
         /\ EvidenceFile(x) = EvidenceFile(y) => x = y
         /\ HeadFile[1] = "HEAD" /\ ChangesetFile(x)[1] = "changesets"
         /\ EvidenceFile(x)[1] = "evidence"
  BY DEF HeadFile, ChangesetFile, EvidenceFile

\* A file that is not held to be whole stays so while its call is in it.
LEMMA ShakenStays ==
  ASSUME StoreInv, NEW p \in Processes, NEW c,
         call' = [call EXCEPT ![p] = c],
         contended \subseteq contended', torn \subseteq torn'
  PROVE  /\ \A path \in Shaken : path \in Shaken' \/ path \in LeftEmpty(p)
         /\ torn \cup contended \subseteq Shaken'
<1>1. \A q \in Processes : q # p => call'[q] = call[q]
  BY DEF StoreInv
<1>2. ASSUME NEW path \in Opened, path \notin LeftEmpty(p) PROVE path \in Opened'
  <2>1. PICK q \in Running : path \in LeftEmpty(q)
    BY <1>2 DEF Opened
  <2>2. q # p /\ q \in Processes /\ ~Idle(q)
    BY <1>2, <2>1 DEF Running
  <2>3. q \in Running' /\ LeftEmpty(q)' = LeftEmpty(q)
    BY <2>2, <1>1 DEF Running, Idle, LeftEmpty, Next1
  <2> QED
    BY <2>1, <2>3 DEF Opened
<1> QED
  BY <1>2 DEF Shaken

\* The step that a process is about to make.
LEMMA First ==
  ASSUME StoreInv, NEW p \in Processes, ~Idle(p)
  PROVE  /\ Next1(p) = call[p].steps[1]
         /\ Next1(p).verb \in {"write", "remove"}
         /\ Next1(p).verb = "remove" => Next1(p).path[1] \in Removable
         /\ Next1(p).path \in call[p].paths
         /\ Careful(Next1(p))
         /\ Writes(Next1(p), HeadFile) =>
              /\ Grounded(call[p].steps, call[p].paths, Next1(p).text)
              /\ Stored(Next1(p).text) /\ Evident(Next1(p).text)
<1> DEFINE s == call[p].steps
<1>1. Orderly(s, call[p].paths) /\ s # <<>>
  BY DEF StoreInv, Calls, Idle
<1>2. 1 \in DOMAIN s /\ Next1(p) = s[1]
  BY <1>1, Rest DEF Orderly, Next1
<1>3. Writes(s[1], HeadFile) =>
        Grounded(s, call[p].paths, s[1].text) /\ Stored(s[1].text) /\ Evident(s[1].text)
  BY <1>1, <1>2 DEF Orderly, Prepared
<1> QED
  BY <1>1, <1>2, <1>3 DEF Orderly

\* Opening empties a file, which from then on is not held to be whole.
LEMMA OpenEffect ==
  ASSUME StoreInv, NEW p \in Processes, ~Idle(p), Open(p)
  PROVE  Effect(p, FALSE) /\ GoesOn(p, FALSE)
<1> DEFINE path == Next1(p).path
           c == Doing(call[p].steps, TRUE, call[p].reports, call[p].paths)
<1>1. /\ files' = Put(files, path, Torn) /\ call' = [call EXCEPT ![p] = c]
      /\ ~call[p].opened /\ UNCHANGED <<lineage, contended, torn>>
      /\ Next1(p).verb = "write"
  BY DEF Open
<1>2. GoesOn(p, FALSE)
  <2>1. c.steps = call[p].steps /\ c = Doing(c.steps, TRUE, call[p].reports, call[p].paths)
    BY DEF Doing
  <2> HIDE DEF c
  <2> QED
    BY <1>1, <2>1 DEF GoesOn
<1>3. Shaken \subseteq Shaken'
  BY <1>1, ShakenStays DEF LeftEmpty
<1>4. path \in Shaken'
  <2>1. call'[p] = c
    BY <1>1 DEF StoreInv
  <2>2. /\ ~Idle(p)' /\ Next1(p)' = Next1(p)
        /\ call'[p].opened
    BY <2>1 DEF Idle, Next1, Doing
  <2> QED
    BY <2>2 DEF Shaken, Opened, Running, LeftEmpty
<1>5. \A x \in Changeset : Evident(x) => Evident(x)'
  BY <1>1, <1>3, <1>4 DEF Evident, EvidenceIn, Intact, Put
<1>6. \A x \in Changeset : Stored(x) => Stored(x)'
  BY <1>1 DEF Stored, Exists, Put
<1>7. \A z \in Changeset : Logged(z)' => Logged(z)
  BY <1>1 DEF Logged, Ancestral, Intact, Put
<1>8. TornIsShaken'
  BY <1>1, <1>3, <1>4 DEF TornIsShaken, StoreInv, Exists, Put
<1>9. Intact(files', HeadFile) => files'[HeadFile] \in Changeset
  BY <1>1 DEF StoreInv, Intact, Put
<1> QED
  BY <1>2, <1>5, <1>6, <1>7, <1>8, <1>9 DEF Effect

\* A step that is done leaves the rest of the call.
LEMMA AdvanceGoesOn ==
  ASSUME StoreInv, NEW p \in Processes, Advance(p), NEW filled,
         filled \/ Next1(p).verb = "remove"
  PROVE  GoesOn(p, filled)
<1> DEFINE rest == Tail(call[p].steps)
           d == Doing(rest, FALSE, call[p].reports, call[p].paths)
           c == IF rest = <<>> THEN Returned ELSE d
<1>1. call' = [call EXCEPT ![p] = c]
  BY DEF Advance
<1>2. d.steps = rest /\ d = Doing(d.steps, FALSE, call[p].reports, call[p].paths)
  BY DEF Doing
<1>3. CASE rest = <<>>
  BY <1>1, <1>3 DEF GoesOn
<1>4. CASE rest # <<>>
  <2> HIDE DEF d
  <2> QED
    BY <1>1, <1>2, <1>4 DEF GoesOn
<1> QED
  BY <1>3, <1>4

\* Filling makes a file whole, and does to it what the step says.
LEMMA FillEffect ==
  ASSUME StoreInv, NEW p \in Processes, ~Idle(p), Fill(p)
  PROVE  Effect(p, TRUE) /\ GoesOn(p, TRUE)
<1> DEFINE path == Next1(p).path
           text == Next1(p).text
<1>1. /\ files' = Put(files, path, text)
      /\ call[p].opened /\ UNCHANGED <<lineage, contended, torn>>
  BY DEF Fill
<1>2. PICK c : call' = [call EXCEPT ![p] = c]
  BY DEF Fill, Advance
<1>3. GoesOn(p, TRUE)
  BY AdvanceGoesOn DEF Fill
<1>4. /\ \A x \in Shaken : x \in Shaken' \/ x = path
      /\ torn \cup contended \subseteq Shaken'
  BY <1>1, <1>2, ShakenStays DEF LeftEmpty
<1>5. Next1(p).verb = "write" /\ Careful(Next1(p))
  BY <1>1, First DEF StoreInv, Calls
<1>6. \A x \in Changeset : Evident(x) =>
        \/ Evident(x)'
        \/ /\ Writes(Next1(p), EvidenceFile(x)) /\ Weak(text, x)
           /\ EvidenceFile(x) \notin torn \cup contended
  BY <1>1, <1>4, <1>5 DEF Evident, EvidenceIn, Intact, Put, Writes, Weak
<1>7. \A x \in Changeset : Stored(x) => Stored(x)'
  BY <1>1 DEF Stored, Exists, Put
<1>8. \A z \in Changeset :
        Logged(z)' => Logged(z) \/ (Writes(Next1(p), HeadFile) /\ text = z)
  BY <1>1, <1>5 DEF Logged, Ancestral, Intact, Put, Writes
<1>9. \A x \in Changeset :
        /\ Writes(Next1(p), ChangesetFile(x)) => Stored(x)'
        /\ (Writes(Next1(p), EvidenceFile(x)) /\ ~Weak(text, x)) => Evident(x)'
  BY <1>1 DEF Writes, Stored, Exists, Put, Evident, EvidenceIn, Intact, Weak
<1>10. TornIsShaken'
  BY <1>1, <1>4, <1>5 DEF TornIsShaken, StoreInv, Exists, Put, Careful, Writes
<1>11. Intact(files', HeadFile) => files'[HeadFile] \in Changeset
  BY <1>1, <1>5, First DEF StoreInv, Intact, Put, Writes, Grounded
<1> QED
  BY <1>3, <1>6, <1>7, <1>8, <1>9, <1>10, <1>11 DEF Effect

\* What a flow removes is neither in the log nor its HEAD.
LEMMA UnlinkEffect ==
  ASSUME StoreInv, NEW p \in Processes, ~Idle(p), Unlink(p)
  PROVE  Effect(p, FALSE) /\ GoesOn(p, FALSE)
<1> DEFINE path == Next1(p).path
<1>1. /\ files' = Drop(files, path)
      /\ ~call[p].opened /\ UNCHANGED <<lineage, contended, torn>>
      /\ path[1] \in Removable
  BY First DEF Unlink, StoreInv, Calls
<1>2. PICK c : call' = [call EXCEPT ![p] = c]
  BY DEF Unlink, Advance
<1>3. GoesOn(p, FALSE)
  BY AdvanceGoesOn DEF Unlink
<1>4. Shaken \subseteq Shaken'
  BY <1>1, <1>2, ShakenStays DEF LeftEmpty
<1>5. /\ path # HeadFile
      /\ \A x : path # ChangesetFile(x) /\ path # EvidenceFile(x)
  BY <1>1, Kinds DEF Removable
<1>6. \A x \in Changeset : Evident(x) => Evident(x)'
  BY <1>1, <1>4, <1>5 DEF Evident, EvidenceIn, Intact, Drop
<1>7. \A x \in Changeset : Stored(x) => Stored(x)'
  BY <1>1, <1>5 DEF Stored, Exists, Drop
<1>8. \A z \in Changeset : Logged(z)' => Logged(z)
  BY <1>1, <1>5 DEF Logged, Ancestral, Intact, Drop
<1>9. TornIsShaken'
  BY <1>1, <1>4, <1>5 DEF TornIsShaken, StoreInv, Exists, Drop
<1>10. Intact(files', HeadFile) => files'[HeadFile] \in Changeset
  BY <1>1, <1>5 DEF StoreInv, Intact, Drop
<1> QED
  BY <1>3, <1>6, <1>7, <1>8, <1>9, <1>10 DEF Effect

\* A process that fails or dies writes nothing more.
LEMMA StopEffect ==
  ASSUME StoreInv, NEW p \in Processes, ~Idle(p), KeyExists(p) \/ Interrupt(p)
  PROVE  Effect(p, FALSE) /\ GoesOn(p, FALSE)
<1>1. /\ call' = [call EXCEPT ![p] = Returned]
      /\ UNCHANGED <<files, lineage, contended>>
      /\ torn \cup LeftEmpty(p) \subseteq torn'
  BY DEF KeyExists, Interrupt, LeftEmpty
<1>2. GoesOn(p, FALSE)
  BY <1>1 DEF GoesOn
<1>3. Shaken \subseteq Shaken'
  BY <1>1, ShakenStays DEF Shaken
<1>4. \A x \in Changeset : Evident(x) => Evident(x)'
  BY <1>1, <1>3 DEF Evident
<1>5. \A z \in Changeset : Stored(z)' = Stored(z) /\ Logged(z)' = Logged(z)
  BY <1>1 DEF Stored, Logged, Ancestral
<1>6. TornIsShaken' /\ (Intact(files', HeadFile) => files'[HeadFile] \in Changeset)
  BY <1>1, <1>3 DEF TornIsShaken, StoreInv
<1> QED
  BY <1>2, <1>4, <1>5, <1>6 DEF Effect

-----------------------------------------------------------------------------
\* A step preserves the invariant.

\* Of two calls that write the same file, the file is contended.
LEMMA Contended ==
  ASSUME StoreInv, NEW p \in Processes, NEW q \in Processes, p # q, ~Idle(p),
         Next1(p).path \in call[q].paths
  PROVE  Next1(p).path \in contended
  BY First DEF StoreInv, Apart

\* A step that was careful still is, unless HEAD comes to name a changeset
\* whose evidence it takes away.
LEMMA CarefulStays ==
  ASSUME NEW p \in Processes, NEW filled, Effect(p, filled),
         UNCHANGED contended, torn \subseteq torn',
         NEW step, Careful(step),
         \A x \in Changeset :
           /\ Writes(step, EvidenceFile(x)) /\ Weak(step.text, x)
           /\ Writes(Next1(p), HeadFile) /\ Next1(p).text = x
           => EvidenceFile(x) \in contended
  PROVE  Careful(step)'
<1>1. ASSUME NEW x \in Changeset, Writes(step, EvidenceFile(x))
      PROVE  \/ EvidenceFile(x) \in torn' \cup contended'
             \/ step.text # Torn /\ (Weak(step.text, x) => ~Logged(x)')
  <2>1. Logged(x)' => \/ Logged(x)
                      \/ Writes(Next1(p), HeadFile) /\ Next1(p).text = x
    BY DEF Effect
  <2>2. \/ EvidenceFile(x) \in torn \cup contended
        \/ step.text # Torn /\ (Weak(step.text, x) => ~Logged(x))
    BY <1>1 DEF Careful
  <2> QED
    BY <1>1, <2>1, <2>2
<1>2. \A x \in Changeset : Writes(step, ChangesetFile(x)) => step.text # Torn
  BY DEF Careful
<1> QED
  BY <1>1, <1>2 DEF Careful, Writes, Weak

\* A call that is prepared to move HEAD still is.
LEMMA PreparedStays ==
  ASSUME NEW s, NEW j, NEW y, Prepared(s, j, y),
         Stored(y) => Stored(y)', Evident(y) => Evident(y)'
  PROVE  Prepared(s, j, y)'
  BY DEF Prepared, Writes, Weak

\* What another call relies on, or is careful about, is not disturbed.
LEMMA OthersStayOrderly ==
  ASSUME StoreInv, NEW p \in Processes, NEW q \in Processes, p # q, ~Idle(p),
         NEW filled, Effect(p, filled),
         UNCHANGED contended, torn \subseteq torn',
         NEW s, NEW paths, Orderly(s, paths), paths = call[q].paths
  PROVE  Orderly(s, paths)'
<1>1. ASSUME NEW i \in DOMAIN s PROVE Careful(s[i])'
  <2>1. PICK step : step = s[i]
    OBVIOUS
  <2>2. Careful(step) /\ step.path \in paths
    BY <2>1 DEF Orderly
  <2>3. ASSUME NEW x \in Changeset, Writes(step, EvidenceFile(x)), Weak(step.text, x),
               Writes(Next1(p), HeadFile), Next1(p).text = x
        PROVE  EvidenceFile(x) \in contended
    <3>1. Grounded(call[p].steps, call[p].paths, x)
      BY <2>3, First
    <3>2. Quorum[x] # 0
      BY <2>3 DEF Weak, Short
    <3>3. EvidenceFile(x) \in call[p].paths /\ EvidenceFile(x) \in call[q].paths
      BY <3>1, <3>2, <2>2, <2>3 DEF Grounded, Writes
    <3> QED
      BY <3>3 DEF StoreInv, Apart
  <2>4. Careful(step)'
    BY <2>2, <2>3, CarefulStays
  <2> QED
    BY <2>1, <2>4
<1>2. ASSUME NEW i \in DOMAIN s, Writes(s[i], HeadFile)
      PROVE  Grounded(s, paths, s[i].text) /\ Prepared(s, i, s[i].text)'
  <2>1. PICK y : y = s[i].text
    OBVIOUS
  <2>2. Grounded(s, paths, y) /\ Prepared(s, i, y)
    BY <1>2, <2>1 DEF Orderly
  <2>3. y \in Changeset /\ (Quorum[y] = 0 \/ EvidenceFile(y) \in paths)
    BY <2>2 DEF Grounded
  <2>4. Stored(y) => Stored(y)'
    BY <2>3 DEF Effect
  <2>5. Evident(y) => Evident(y)'
    <3>1. Weak(Next1(p).text, y) => Quorum[y] # 0
      BY DEF Weak, Short
    <3>2. Writes(Next1(p), EvidenceFile(y)) /\ EvidenceFile(y) \in paths
            => EvidenceFile(y) \in contended
      BY Contended DEF Writes
    <3> QED
      BY <2>3, <3>1, <3>2 DEF Effect
  <2>6. Prepared(s, i, y)'
    BY <2>2, <2>4, <2>5, PreparedStays
  <2> QED
    BY <2>1, <2>2, <2>6
<1> QED
  BY <1>1, <1>2 DEF Orderly, Writes, Grounded, Weak

\* The rest of a call is as orderly as the whole, now that its first step is done.
LEMMA OwnStaysOrderly ==
  ASSUME StoreInv, NEW p \in Processes, ~Idle(p),
         NEW filled, Effect(p, filled),
         UNCHANGED contended, torn \subseteq torn',
         NEW s, NEW paths, s = call[p].steps, paths = call[p].paths,
         NEW t,
         \/ ~filled /\ t = s
         \/ /\ filled \/ Next1(p).verb = "remove"
            /\ t = Tail(s)
  PROVE  Orderly(t, paths)'
<1>1. Orderly(s, paths) /\ s # <<>>
  BY DEF StoreInv, Calls, Idle
<1>2. s \in Seq(Range(s)) /\ Next1(p) = s[1]
  BY <1>1, First DEF Orderly
<1>3. ASSUME NEW i \in DOMAIN s PROVE Careful(s[i])'
  <2>1. PICK step : step = s[i]
    OBVIOUS
  <2>2. Careful(step)
    BY <1>1, <2>1 DEF Orderly
  <2>3. ASSUME NEW x \in Changeset, Writes(step, EvidenceFile(x)), Weak(step.text, x),
               Writes(Next1(p), HeadFile), Next1(p).text = x
        PROVE  FALSE
    <3>1. Grounded(s, paths, x)
      BY <2>3, First
    <3> QED
      BY <2>1, <2>3, <3>1 DEF Grounded
  <2>4. Careful(step)'
    BY <2>2, <2>3, CarefulStays
  <2> QED
    BY <2>1, <2>4
<1>4. ASSUME NEW i \in DOMAIN s, NEW y, y = s[i].text, Writes(s[i], HeadFile)
      PROVE  /\ Grounded(s, paths, y) /\ y \in Changeset
             /\ Prepared(s, i, y)
             /\ Stored(y) => Stored(y)'
             /\ Evident(y) => Evident(y)'
  <2>1. Grounded(s, paths, y) /\ Prepared(s, i, y)
    BY <1>1, <1>4 DEF Orderly
  <2>2. y \in Changeset
    BY <2>1 DEF Grounded
  <2>3. Writes(Next1(p), EvidenceFile(y)) => ~Weak(Next1(p).text, y)
    BY <1>1, <1>2, <2>1, Rest DEF Grounded
  <2> QED
    BY <2>1, <2>2, <2>3 DEF Effect
<1>5. CASE ~filled /\ t = s
  <2>1. ASSUME NEW i \in DOMAIN s, Writes(s[i], HeadFile)
        PROVE  Grounded(s, paths, s[i].text) /\ Prepared(s, i, s[i].text)'
    <3>1. PICK y : y = s[i].text
      OBVIOUS
    <3>2. Grounded(s, paths, y) /\ Prepared(s, i, y)'
      BY <1>4, <2>1, <3>1, PreparedStays
    <3> QED
      BY <3>1, <3>2
  <2> QED
    BY <1>1, <1>3, <1>5, <2>1 DEF Orderly, Writes, Grounded, Weak
<1>6. CASE (filled \/ Next1(p).verb = "remove") /\ t = Tail(s)
  <2>1. /\ Len(s) \in Nat \ {0} /\ DOMAIN s = 1..Len(s)
        /\ t \in Seq(Range(t)) /\ DOMAIN t = 1..(Len(s) - 1)
        /\ \A i \in DOMAIN t : t[i] = s[i + 1]
    BY <1>1, <1>2, <1>6, Rest
  <2>2. ASSUME NEW i \in DOMAIN t
        PROVE  /\ i + 1 \in DOMAIN s /\ t[i] = s[i + 1]
    BY <2>1
  <2>3. ASSUME NEW i \in DOMAIN t, Writes(t[i], HeadFile)
        PROVE  Grounded(t, paths, t[i].text) /\ Prepared(t, i, t[i].text)'
    <3>0. PICK y : y = t[i].text
      OBVIOUS
    <3>1. /\ Grounded(s, paths, y) /\ Prepared(s, i + 1, y) /\ y \in Changeset
          /\ Stored(y) => Stored(y)'
          /\ Evident(y) => Evident(y)'
      BY <1>4, <2>2, <2>3, <3>0
    <3>2. Grounded(t, paths, y)
      BY <3>1, <2>2 DEF Grounded
    <3>3. i \in Nat /\ (i + 1) - 1 = i
      BY <2>1
    <3>4. ASSUME NEW k \in 1..i PROVE k = 1 \/ (k - 1 \in 1..(i - 1) /\ t[k - 1] = s[k])
      <4>1. k = 1 \/ (k - 1 \in 1..(i - 1) /\ k - 1 \in DOMAIN t /\ (k - 1) + 1 = k)
        BY <2>1
      <4> QED
        BY <2>1, <4>1
    <3>5. ASSUME Writes(s[1], ChangesetFile(y)) PROVE Stored(y)'
      BY <3>1, <3>5, <1>2, <1>6 DEF Effect, Writes
    <3>6. ASSUME Writes(s[1], EvidenceFile(y)), ~Weak(s[1].text, y) PROVE Evident(y)'
      BY <3>1, <3>6, <1>2, <1>6 DEF Effect, Writes
    <3>7. Stored(y)' \/ \E k \in 1..(i - 1) : Writes(t[k], ChangesetFile(y))
      BY <3>1, <3>3, <3>4, <3>5 DEF Prepared
    <3>8. \/ Evident(y)'
          \/ \E k \in 1..(i - 1) : Writes(t[k], EvidenceFile(y)) /\ ~Weak(t[k].text, y)
      BY <3>1, <3>3, <3>4, <3>6 DEF Prepared
    <3>9. Prepared(t, i, y)'
      BY <3>7, <3>8 DEF Prepared, Writes, Weak
    <3> QED
      BY <3>0, <3>2, <3>9
  <2>4. ASSUME NEW i \in DOMAIN t
        PROVE  /\ t[i].verb \in {"write", "remove"}
               /\ t[i].verb = "remove" => t[i].path[1] \in Removable
               /\ t[i].path \in paths
               /\ Careful(t[i])'
    BY <1>1, <1>3, <2>2 DEF Orderly
  <2> QED
    BY <2>1, <2>3, <2>4 DEF Orderly, Writes, Grounded, Weak
<1> QED
  BY <1>5, <1>6

\* A process with nothing to do is orderly.
LEMMA NothingIsOrderly == Orderly(<<>>, {})'
  BY DEF Orderly, Range

\* A step of a call under way.
LEMMA StepKeepsInv ==
  ASSUME StoreInv, NEW p \in Processes, ~Idle(p),
         NEW filled, Effect(p, filled), GoesOn(p, filled),
         UNCHANGED <<lineage, contended>>, torn \subseteq torn'
  PROVE  StoreInv'
<1>1. PICK c :
        /\ call' = [call EXCEPT ![p] = c]
        /\ \/ c = Returned
           \/ /\ ~filled /\ c.steps = call[p].steps
              /\ c = Doing(c.steps, TRUE, call[p].reports, call[p].paths)
              /\ Next1(p).verb = "write"
           \/ /\ filled \/ Next1(p).verb = "remove"
              /\ c.steps = Tail(call[p].steps) /\ c.steps # <<>>
              /\ c = Doing(c.steps, FALSE, call[p].reports, call[p].paths)
  BY DEF GoesOn
<1>2. /\ call'[p] = c
      /\ \A q \in Processes : q # p => call'[q] = call[q]
      /\ call' = [q \in Processes |-> call'[q]]
  BY <1>1 DEF StoreInv
<1>3. c.paths = {} \/ c.paths = call[p].paths
  BY <1>1 DEF Returned, Doing
<1>4. Calls'
  <2>1. ASSUME NEW q \in Processes, q # p, NEW d, d = call'[q]
        PROVE  /\ d = Doing(d.steps, d.opened, d.reports, d.paths)
               /\ Orderly(d.steps, d.paths)'
               /\ d.opened => d.steps # <<>> /\ Head(d.steps).verb = "write"
               /\ d.steps = <<>> => d.paths = {}
    <3>1. d = call[q]
      BY <1>2, <2>1
    <3>2. /\ d = Doing(d.steps, d.opened, d.reports, d.paths)
          /\ Orderly(d.steps, d.paths)
          /\ d.opened => d.steps # <<>> /\ Head(d.steps).verb = "write"
          /\ d.steps = <<>> => d.paths = {}
      BY <3>1 DEF StoreInv, Calls
    <3>3. Orderly(d.steps, d.paths)'
      <4>1. PICK s, paths : s = d.steps /\ paths = d.paths
        OBVIOUS
      <4>2. Orderly(s, paths)'
        BY <2>1, <3>1, <3>2, <4>1, OthersStayOrderly
      <4> QED
        BY <4>1, <4>2
    <3> QED
      BY <3>2, <3>3
  <2>2. CASE c = Returned
    <3>1. c.steps = <<>> /\ c.opened = FALSE /\ c.paths = {}
          /\ c = Doing(c.steps, c.opened, c.reports, c.paths)
      BY <2>2 DEF Returned, Doing
    <3> QED
      BY <1>2, <2>1, <3>1, NothingIsOrderly DEF Calls
  <2>3. CASE c # Returned
    <3>1. /\ c = Doing(c.steps, c.opened, c.reports, c.paths)
          /\ c.paths = call[p].paths /\ c.steps # <<>>
          /\ c.opened => Head(c.steps).verb = "write"
      BY <1>1, <2>3 DEF Doing, Next1, Idle
    <3>2. PICK s, paths, t : s = call[p].steps /\ paths = call[p].paths /\ t = c.steps
      OBVIOUS
    <3>3. Orderly(t, paths)'
      <4>1. \/ ~filled /\ t = s
            \/ (filled \/ Next1(p).verb = "remove") /\ t = Tail(s)
        BY <1>1, <2>3, <3>2
      <4>2. CASE ~filled /\ t = s
        BY <3>2, <4>2, OwnStaysOrderly
      <4>3. CASE (filled \/ Next1(p).verb = "remove") /\ t = Tail(s)
        BY <3>2, <4>3, OwnStaysOrderly
      <4> QED
        BY <4>1, <4>2, <4>3
    <3>4. Orderly(c.steps, c.paths)'
      BY <3>1, <3>2, <3>3
    <3> QED
      BY <1>2, <2>1, <3>1, <3>4 DEF Calls
  <2> QED
    BY <2>2, <2>3
<1>5. Apart'
  <2>1. \A q \in Processes : call'[q].paths \subseteq call[q].paths
    BY <1>2, <1>3
  <2> QED
    BY <2>1 DEF StoreInv, Apart
<1>6. LoggedIsThere'
  <2>1. ASSUME NEW z \in Changeset, Logged(z)' PROVE Stored(z)' /\ Evident(z)'
    <3>1. CASE Logged(z)
      <4>1. Stored(z) /\ Evident(z) /\ Careful(Next1(p))
        BY <3>1, First DEF StoreInv, LoggedIsThere
      <4> QED
        BY <3>1, <4>1 DEF Effect, Careful
    <3>2. CASE filled /\ Writes(Next1(p), HeadFile) /\ Next1(p).text = z
      <4>1. Stored(z) /\ Evident(z)
        BY <3>2, First
      <4>2. ~Writes(Next1(p), EvidenceFile(z))
        BY <3>2, Kinds DEF Writes
      <4> QED
        BY <4>1, <4>2 DEF Effect
    <3> QED
      BY <2>1, <3>1, <3>2 DEF Effect
  <2> QED
    BY <2>1 DEF LoggedIsThere
<1>7. TornIsShaken' /\ (Intact(files', HeadFile) => files'[HeadFile] \in Changeset)
  BY DEF Effect
<1> QED
  BY <1>2, <1>4, <1>5, <1>6, <1>7 DEF StoreInv

-----------------------------------------------------------------------------
\* A new call.

\* What the files say does not change, and no more is known to be logged.
Undisturbed ==
  /\ \A x \in Changeset : /\ Stored(x) => Stored(x)'
                          /\ Evident(x) => Evident(x)'
                          /\ Logged(x)' => Logged(x)
  /\ torn \cup contended \subseteq torn' \cup contended'

\* What the flows yield, by request.
LEMMA Flows ==
  ASSUME NEW r
  PROVE  LET done == Flow("native", files, r)
         IN  \/ r.op = "init" /\ done = InitFlow("native", files, r.on)
             \/ r.op = "submit" /\ done = SubmitFlow("native", files, r.on)
             \/ r.op = "principal" /\ done = PrincipalAddFlow("native", files, r.on)
             \/ /\ r.op \in {"approve", "reject"}
                /\ done = DecideFlow(files, r.on, r.by, r.op)
             \/ r.op = "attest" /\ done = AttestFlow("native", files, r.on, r.by)
             \/ done = TrustFlow(files, r.on)
             \/ done = CheckpointFlow("native", files)
             \/ done = MigrateFlow(files, r.on)
  BY DEF Flow

\* A flow that builds a changeset has read HEAD, or there is none.
LEMMA FlowBuilds ==
  ASSUME NEW r
  PROVE  LET done == Flow("native", files, r)
         IN  done.builds = None \/ Intact(files, HeadFile) \/ ~Exists(files, HeadFile)
<1> DEFINE done == Flow("native", files, r)
           Fine(d) == d.builds = None \/ Intact(files, HeadFile) \/ ~Exists(files, HeadFile)
<1>1. \A steps, reports : Fine(Outcome(steps, reports)) /\ Fine(Failure(steps))
  BY DEF Outcome, Failure, Building
<1>2. \A steps, reports, x : Building(x, steps, reports).builds = x
  BY DEF Building
<1>3. \A x : Fine(InitFlow("native", files, x))
  <2> TAKE x
  <2>1. CASE lineage[x] # {} \/ (Exists(files, HeadFile) /\ ~Folds(files))
    BY <1>1, <2>1 DEF InitFlow
  <2>2. CASE ~Exists(files, HeadFile) \/ Folds(files)
    BY <2>2 DEF Folds
  <2> QED
    BY <2>1, <2>2
<1>4. \A x : Fine(SubmitFlow("native", files, x))
  <2> TAKE x
  <2>1. CASE Loads(files)
    BY <2>1 DEF Loads, Folds
  <2>2. CASE ~Loads(files)
    BY <1>1, <2>2 DEF SubmitFlow
  <2> QED
    BY <2>1, <2>2
<1>5. \A x : Fine(PrincipalAddFlow("native", files, x))
  <2> TAKE x
  <2>1. CASE lineage[x] # {} \/ ~Exists(files, GraphYaml)
    BY <1>1, <2>1 DEF PrincipalAddFlow
  <2>2. CASE ~(lineage[x] # {} \/ ~Exists(files, GraphYaml))
    <3>1. PrincipalAddFlow("native", files, x).builds
            = SubmitFlow("native", files, x).builds
      BY <1>2, <2>2 DEF PrincipalAddFlow
    <3> QED
      BY <1>4, <3>1
  <2> QED
    BY <2>1, <2>2
<1>6. \A x, by, verdict : Fine(DecideFlow(files, x, by, verdict))
  <2> HIDE DEF Fine
  <2> QED
    BY <1>1 DEF DecideFlow
<1>7. \A x, by : Fine(AttestFlow("native", files, x, by))
  <2> HIDE DEF Fine
  <2> QED
    BY <1>1 DEF AttestFlow
<1>8. \A x : Fine(TrustFlow(files, x)) /\ Fine(MigrateFlow(files, x))
             /\ Fine(CheckpointFlow("native", files))
  <2> HIDE DEF Fine
  <2> QED
    BY <1>1 DEF TrustFlow, MigrateFlow, CheckpointFlow
<1> HIDE DEF done, Fine
<1>9. Fine(done)
  BY Flows, <1>3, <1>4, <1>5, <1>6, <1>7, <1>8 DEF done
<1> QED
  BY <1>9 DEF done, Fine

\* A new call descends from HEAD, so that no more is known to be logged.
LEMMA CallDisturbsNothing ==
  ASSUME StoreInv, NEW p \in Processes, NEW r, NativeCall(p, r)
  PROVE  /\ Undisturbed
         /\ Shaken \subseteq Shaken'
         /\ lineage' \in [Changeset -> SUBSET Changeset]
<1> DEFINE done == Flow("native", files, r)
           head == files[HeadFile]
<1>1. PICK c : call' = [call EXCEPT ![p] = c]
  BY DEF NativeCall
<1>2. /\ UNCHANGED <<files, torn>> /\ contended \subseteq contended'
      /\ Idle(p) /\ Built(files, done.builds)
  BY DEF NativeCall
<1>3. Shaken \subseteq Shaken'
  <2>1. LeftEmpty(p) = {}
    BY <1>2, Rest DEF StoreInv, Calls, LeftEmpty, Idle
  <2> QED
    BY <1>1, <1>2, <2>1, ShakenStays
<1>4. /\ lineage' \in [Changeset -> SUBSET Changeset]
      /\ \A z \in Changeset : Logged(z)' => Logged(z)
  <2>1. PICK b : b = done.builds
    OBVIOUS
  <2>2. CASE lineage' = lineage
    BY <1>2, <2>2 DEF StoreInv, Logged, Ancestral
  <2>3. CASE b # None
    <3>1. Intact(files, HeadFile) \/ ~Exists(files, HeadFile)
      BY FlowBuilds, <2>1, <2>3
    <3>2. PICK below :
            /\ lineage' = [lineage EXCEPT ![b] = {b} \cup below]
            /\ below = IF Exists(files, HeadFile) THEN lineage[head] ELSE {}
      BY <1>2, <2>1, <2>3 DEF Built
    <3>3. Exists(files, HeadFile) => Intact(files, HeadFile) /\ head \in Changeset
      BY <3>1 DEF StoreInv
    <3>4. below \subseteq Changeset /\ \A z \in below : Logged(z)
      BY <3>2, <3>3 DEF StoreInv, Logged, Ancestral
    <3>5. lineage' \in [Changeset -> SUBSET Changeset]
      BY <3>2, <3>4 DEF StoreInv
    <3>6. ASSUME NEW z \in Changeset, Ancestral(z)' PROVE Logged(z)
      <4>1. PICK x \in Changeset : z \in lineage'[x] \ {x}
        BY <3>6 DEF Ancestral
      <4>2. CASE x = b
        BY <3>2, <3>4, <4>1, <4>2 DEF StoreInv
      <4>3. CASE x # b
        BY <3>2, <4>1, <4>3 DEF StoreInv, Logged, Ancestral
      <4> QED
        BY <4>2, <4>3
    <3>7. \A z \in Changeset : Logged(z)' => Logged(z)
      BY <1>2, <3>6 DEF Logged
    <3> QED
      BY <3>5, <3>7
  <2> QED
    BY <1>2, <2>1, <2>2, <2>3 DEF Built
<1>5. \A x \in Changeset : Stored(x) => Stored(x)'
  BY <1>2 DEF Stored
<1>6. \A x \in Changeset : Evident(x) => Evident(x)'
  BY <1>2, <1>3 DEF Evident
<1> QED
  BY <1>2, <1>3, <1>4, <1>5, <1>6 DEF Undisturbed

\* Steps that write neither to the log nor HEAD.
Safe(step) ==
  /\ step.verb \in {"write", "remove"}
  /\ step.verb = "remove" => step.path[1] \in Removable
  /\ step.path[1] \notin {"HEAD", "changesets", "evidence"}

Harmless(s) == s \in Seq(Range(s)) /\ \A i \in DOMAIN s : Safe(s[i])

\* Steps that do not touch the log are orderly.
LEMMA HarmlessIsOrderly ==
  ASSUME NEW s, Harmless(s)
  PROVE  Orderly(s, Paths(s))'
<1>1. \A i \in DOMAIN s : s[i].path \in Paths(s)
  BY DEF Paths
<1>2. \A i \in DOMAIN s : ~Writes(s[i], HeadFile)
  BY Kinds DEF Harmless, Safe, Writes
<1>3. \A i \in DOMAIN s, x \in Changeset :
        ~Writes(s[i], ChangesetFile(x)) /\ ~Writes(s[i], EvidenceFile(x))
  BY Kinds DEF Harmless, Safe, Writes
<1>4. \A i \in DOMAIN s : Careful(s[i])'
  BY <1>3 DEF Careful, Writes
<1> QED
  BY <1>1, <1>2, <1>4 DEF Orderly, Harmless, Safe, Writes

\* Steps that admit x: its changeset and, if approvals are needed, evidence
\* of them come before HEAD, and no other evidence is written.
Admitting(s, n, x) ==
  /\ s \in Seq(Range(s))
  /\ n \in DOMAIN s /\ x \in Changeset
  /\ \A i \in DOMAIN s :
       /\ s[i].verb \in {"write", "remove"}
       /\ s[i].verb = "remove" => s[i].path[1] \in Removable
       /\ Writes(s[i], HeadFile) => i = n /\ s[i].text = x
       /\ \A z \in Changeset :
            /\ Writes(s[i], ChangesetFile(z)) => s[i].text # Torn
            /\ Writes(s[i], EvidenceFile(z)) =>
                 z = x /\ s[i].text # Torn /\ ~Weak(s[i].text, z)
  /\ \E i \in 1..(n - 1) : Writes(s[i], ChangesetFile(x))
  /\ Quorum[x] = 0 \/ \E i \in 1..(n - 1) : Writes(s[i], EvidenceFile(x))

\* The steps of an admission are orderly.
LEMMA AdmittingIsOrderly ==
  ASSUME NEW s, NEW n, NEW x, Admitting(s, n, x)
  PROVE  Orderly(s, Paths(s))'
<1>0. s \in Seq(Range(s)) /\ DOMAIN s = 1..Len(s) /\ Len(s) \in Nat
  <2>1. \A R : s \in Seq(R) => DOMAIN s = 1..Len(s) /\ Len(s) \in Nat
    OBVIOUS
  <2> QED
    BY <2>1 DEF Admitting
<1>1. \A i \in DOMAIN s : s[i].path \in Paths(s)
  BY DEF Paths
<1>2. \A i \in 1..(n - 1) : i \in DOMAIN s
  BY <1>0 DEF Admitting
<1>3. \A i \in DOMAIN s : Careful(s[i])'
  BY DEF Admitting, Careful, Writes, Weak
<1>4. Grounded(s, Paths(s), x)
  BY <1>1, <1>2 DEF Admitting, Grounded, Writes
<1>5. Prepared(s, n, x)'
  <2>1. Quorum[x] = 0 => Evident(x)'
    BY DEF Evident, Short
  <2>2. \A i \in 1..(n - 1) : Writes(s[i], EvidenceFile(x)) => ~Weak(s[i].text, x)
    BY <1>2 DEF Admitting
  <2> QED
    BY <2>1, <2>2 DEF Prepared, Admitting, Writes, Weak
<1>6. \A i \in DOMAIN s : Writes(s[i], HeadFile) => i = n /\ s[i].text = x
  BY DEF Admitting
<1>7. \A i \in DOMAIN s : /\ s[i].verb \in {"write", "remove"}
                          /\ s[i].verb = "remove" => s[i].path[1] \in Removable
  BY DEF Admitting
<1> QED
  BY <1>0, <1>1, <1>3, <1>4, <1>5, <1>6, <1>7 DEF Orderly, Writes, Grounded, Weak


-----------------------------------------------------------------------------
\* The steps of each flow.

\* A concatenation is the sequence with the elements of both.
LEMMA Join ==
  ASSUME NEW S, NEW x \in Seq(S), NEW y \in Seq(S), NEW z \in Seq(S),
         Len(z) = Len(x) + Len(y),
         \A i \in 1..Len(x) : z[i] = x[i],
         \A i \in 1..Len(y) : z[Len(x) + i] = y[i]
  PROVE  x \o y = z
<1>1. ASSUME NEW i \in 1..Len(z) PROVE (x \o y)[i] = z[i]
  <2>1. CASE i <= Len(x)
    BY <2>1, ConcatProperties
  <2>2. CASE i > Len(x)
    <3>1. Len(x) \in Nat /\ Len(y) \in Nat /\ i \in Nat
       OBVIOUS
    <3>2. i - Len(x) \in 1..Len(y) /\ Len(x) + (i - Len(x)) = i
      BY <3>1, <2>2, <1>1
    <3>3. (x \o y)[i] = y[i - Len(x)]
      BY <3>1, <2>2, ConcatProperties
    <3> QED
      BY <3>2, <3>3
  <2> QED
    BY <2>1, <2>2
<1>2. x \o y \in Seq(S) /\ Len(x \o y) = Len(z)
  BY ConcatProperties
<1> QED
  BY <1>1, <1>2, SeqEqual

\* Concatenations of the lengths that the flows put together.
LEMMA OneAndOne ==
  ASSUME NEW a, NEW b
  PROVE  <<a>> \o <<b>> = <<a, b>>
<1> DEFINE S == {a, b}
           x == <<a>>
           y == <<b>>
           z == <<a, b>>
<1>1. /\ x \in Seq(S) /\ y \in Seq(S) /\ z \in Seq(S)
      /\ Len(z) = Len(x) + Len(y)
  OBVIOUS
<1>2. \A i \in 1..Len(x) : z[i] = x[i]
  OBVIOUS
<1>3. \A i \in 1..Len(y) : z[Len(x) + i] = y[i]
  OBVIOUS
<1> HIDE DEF x, y, z, S
<1>4. x \o y = z
  BY <1>1, <1>2, <1>3, Join
<1> QED
  BY <1>4 DEF x, y, z

LEMMA OneAndTwo ==
  ASSUME NEW a, NEW b, NEW c
  PROVE  <<a>> \o <<b, c>> = <<a, b, c>>
<1> DEFINE S == {a, b, c}
           x == <<a>>
           y == <<b, c>>
           z == <<a, b, c>>
<1>1. /\ x \in Seq(S) /\ y \in Seq(S) /\ z \in Seq(S)
      /\ Len(z) = Len(x) + Len(y)
  OBVIOUS
<1>2. \A i \in 1..Len(x) : z[i] = x[i]
  OBVIOUS
<1>3. \A i \in 1..Len(y) : z[Len(x) + i] = y[i]
  OBVIOUS
<1> HIDE DEF x, y, z, S
<1>4. x \o y = z
  BY <1>1, <1>2, <1>3, Join
<1> QED
  BY <1>4 DEF x, y, z

LEMMA OneAndThree ==
  ASSUME NEW a, NEW b, NEW c, NEW d
  PROVE  <<a>> \o <<b, c, d>> = <<a, b, c, d>>
<1> DEFINE S == {a, b, c, d}
           x == <<a>>
           y == <<b, c, d>>
           z == <<a, b, c, d>>
<1>1. /\ x \in Seq(S) /\ y \in Seq(S) /\ z \in Seq(S)
      /\ Len(z) = Len(x) + Len(y)
  OBVIOUS
<1>2. \A i \in 1..Len(x) : z[i] = x[i]
  OBVIOUS
<1>3. \A i \in 1..Len(y) : z[Len(x) + i] = y[i]
  OBVIOUS
<1> HIDE DEF x, y, z, S
<1>4. x \o y = z
  BY <1>1, <1>2, <1>3, Join
<1> QED
  BY <1>4 DEF x, y, z

LEMMA TwoAndTwo ==
  ASSUME NEW a, NEW b, NEW c, NEW d
  PROVE  <<a, b>> \o <<c, d>> = <<a, b, c, d>>
<1> DEFINE S == {a, b, c, d}
           x == <<a, b>>
           y == <<c, d>>
           z == <<a, b, c, d>>
<1>1. /\ x \in Seq(S) /\ y \in Seq(S) /\ z \in Seq(S)
      /\ Len(z) = Len(x) + Len(y)
  OBVIOUS
<1>2. \A i \in 1..Len(x) : z[i] = x[i]
  OBVIOUS
<1>3. \A i \in 1..Len(y) : z[Len(x) + i] = y[i]
  OBVIOUS
<1> HIDE DEF x, y, z, S
<1>4. x \o y = z
  BY <1>1, <1>2, <1>3, Join
<1> QED
  BY <1>4 DEF x, y, z

LEMMA ThreeAndTwo ==
  ASSUME NEW a, NEW b, NEW c, NEW d, NEW e
  PROVE  <<a, b, c>> \o <<d, e>> = <<a, b, c, d, e>>
<1> DEFINE S == {a, b, c, d, e}
           x == <<a, b, c>>
           y == <<d, e>>
           z == <<a, b, c, d, e>>
<1>1. /\ x \in Seq(S) /\ y \in Seq(S) /\ z \in Seq(S)
      /\ Len(z) = Len(x) + Len(y)
  OBVIOUS
<1>2. \A i \in 1..Len(x) : z[i] = x[i]
  OBVIOUS
<1>3. \A i \in 1..Len(y) : z[Len(x) + i] = y[i]
  OBVIOUS
<1> HIDE DEF x, y, z, S
<1>4. x \o y = z
  BY <1>1, <1>2, <1>3, Join
<1> QED
  BY <1>4 DEF x, y, z

\* The steps of the flows outside of the log.
LEMMA SafeSteps ==
  ASSUME NEW x, NEW y, NEW text
  PROVE  /\ Safe(Write(GraphYaml, text)) /\ Safe(Write(UserKey(x, y), text))
         /\ Safe(Write(ProposalFile(x), text))
         /\ Safe(Write(ProposalEvidenceFile(x), text))
         /\ Safe(Write(CheckpointFile(x), text)) /\ Safe(Erase(StoreKey(x)))
         /\ Safe(Erase(ProposalFile(x))) /\ Safe(Erase(ProposalEvidenceFile(x)))
  BY DEF Safe, Write, Erase, GraphYaml, UserKey, ProposalFile, ProposalEvidenceFile,
         CheckpointFile, StoreKey, Removable

\* Sequences of such steps.
LEMMA HarmlessTuples ==
  ASSUME NEW a, NEW b, NEW c, Safe(a), Safe(b), Safe(c)
  PROVE  Harmless(<<>>) /\ Harmless(<<a>>) /\ Harmless(<<a, b>>) /\ Harmless(<<a, b, c>>)
<1> DEFINE S == {a, b, c}
<1>1. /\ <<>> \in Seq(S) /\ <<a>> \in Seq(S) /\ <<a, b>> \in Seq(S)
      /\ <<a, b, c>> \in Seq(S)
  OBVIOUS
<1>2. ASSUME NEW s \in Seq(S), \A i \in DOMAIN s : Safe(s[i]) PROVE Harmless(s)
  <2> HIDE DEF S
  <2> QED
    BY <1>2, SeqOfRange DEF Harmless
<1>3. /\ \A i \in DOMAIN <<>> : Safe(<<>>[i])
      /\ \A i \in DOMAIN <<a>> : Safe(<<a>>[i])
      /\ \A i \in DOMAIN <<a, b>> : Safe(<<a, b>>[i])
      /\ \A i \in DOMAIN <<a, b, c>> : Safe(<<a, b, c>>[i])
  OBVIOUS
<1> QED
  BY <1>1, <1>2, <1>3

\* What a step of an admission may be.
Admits(step, x) ==
  \/ Safe(step)
  \/ step = Write(ChangesetFile(x), x)
  \/ step = Write(HeadFile, x)
  \/ \E doc : step = Write(EvidenceFile(x), doc) /\ doc # Torn /\ ~Short(doc, x)

\* An admission, step by step.
LEMMA AdmittingByStep ==
  ASSUME NEW R, NEW s \in Seq(R), NEW n \in DOMAIN s, NEW x \in Changeset,
         \A i \in DOMAIN s : Admits(s[i], x) /\ (s[i].path = HeadFile => i = n),
         \E i \in 1..(n - 1) : s[i] = Write(ChangesetFile(x), x),
         Quorum[x] = 0 \/ \E i \in 1..(n - 1) : \E doc : s[i] = Write(EvidenceFile(x), doc)
  PROVE  Admitting(s, n, x)
<1>1. x # Torn
  BY ChangesetAssumption
<1>2. ASSUME NEW i \in DOMAIN s
      PROVE  /\ s[i].verb \in {"write", "remove"}
             /\ s[i].verb = "remove" => s[i].path[1] \in Removable
             /\ Writes(s[i], HeadFile) => i = n /\ s[i].text = x
             /\ \A z \in Changeset :
                  /\ Writes(s[i], ChangesetFile(z)) => s[i].text # Torn
                  /\ Writes(s[i], EvidenceFile(z)) =>
                       z = x /\ s[i].text # Torn /\ ~Weak(s[i].text, z)
  <2>1. CASE Safe(s[i])
    BY <2>1, Kinds DEF Safe, Writes
  <2>2. CASE s[i] = Write(ChangesetFile(x), x)
    BY <1>1, <2>2, Kinds DEF Write, Writes
  <2>3. CASE s[i] = Write(HeadFile, x)
    BY <2>3, Kinds DEF Write, Writes
  <2>4. CASE \E doc : s[i] = Write(EvidenceFile(x), doc) /\ doc # Torn /\ ~Short(doc, x)
    BY <2>4, Kinds DEF Write, Writes, Weak
  <2> QED
    BY <2>1, <2>2, <2>3, <2>4 DEF Admits
<1>3. \A z, text : Writes(Write(z, text), z)
  BY DEF Write, Writes
<1> QED
  BY <1>2, <1>3, SeqOfRange DEF Admitting

\* Steps that another call can rely on.
Tame(s) == Harmless(s) \/ \E n, x : Admitting(s, n, x)

\* Tame steps are orderly.
LEMMA TameIsOrderly ==
  ASSUME NEW s, Tame(s)
  PROVE  Orderly(s, Paths(s))'
  BY HarmlessIsOrderly, AdmittingIsOrderly DEF Tame

\* The three steps of append_changeset, also with the key of a principal
\* before them or the end of the proposal after them.
LEMMA AppendIsTame ==
  ASSUME NEW x \in Changeset, NEW doc, doc # Torn, ~Short(doc, x),
         NEW a, NEW d, NEW e, Safe(a), Safe(d), Safe(e)
  PROVE  /\ Tame(AppendChangeset(x, doc)) /\ Tame(<<a>> \o AppendChangeset(x, doc))
         /\ Tame(AppendChangeset(x, doc) \o <<d, e>>)
<1> DEFINE c == Write(ChangesetFile(x), x)
           v == Write(EvidenceFile(x), doc)
           h == Write(HeadFile, x)
           S == {a, c, v, h, d, e}
<1>1. /\ AppendChangeset(x, doc) = <<c, v, h>>
      /\ <<a>> \o AppendChangeset(x, doc) = <<a, c, v, h>>
      /\ AppendChangeset(x, doc) \o <<d, e>> = <<c, v, h, d, e>>
  BY OneAndThree, ThreeAndTwo DEF AppendChangeset
<1>2. /\ \A s \in S : Admits(s, x)
      /\ \A s \in {a, c, v, d, e} : s.path # HeadFile
  <2>1. /\ Admits(v, x) /\ Admits(h, x) /\ Admits(c, x)
        /\ Admits(a, x) /\ Admits(d, x) /\ Admits(e, x)
    BY DEF Admits
  <2>2. c.path # HeadFile /\ v.path # HeadFile
    BY Kinds DEF Write
  <2>3. a.path # HeadFile /\ d.path # HeadFile /\ e.path # HeadFile
    BY Kinds DEF Safe
  <2> QED
    BY <2>1, <2>2, <2>3
<1>3. c = Write(ChangesetFile(x), x) /\ v = Write(EvidenceFile(x), doc)
  OBVIOUS
<1> HIDE DEF c, v, h
<1>4. Tame(<<c, v, h>>)
  <2> DEFINE s == <<c, v, h>>
  <2>1. /\ s \in Seq(S) /\ DOMAIN s = 1..3
        /\ s[1] = c /\ s[2] = v /\ s[3] = h
    OBVIOUS
  <2> HIDE DEF s, S
  <2>2. \A i \in 1..3 : s[i] \in S /\ (s[i].path = HeadFile => i = 3)
    BY <1>2, <2>1 DEF S
  <2>3. /\ 3 \in DOMAIN s /\ 1 \in 1..(3 - 1) /\ 2 \in 1..(3 - 1)
        /\ \A i \in DOMAIN s : Admits(s[i], x) /\ (s[i].path = HeadFile => i = 3)
    BY <1>2, <2>1, <2>2
  <2>4. Admitting(s, 3, x)
    BY <1>3, <2>1, <2>3, AdmittingByStep
  <2> QED
    BY <2>4 DEF Tame, s
<1>5. Tame(<<a, c, v, h>>)
  <2> DEFINE s == <<a, c, v, h>>
  <2>1. /\ s \in Seq(S) /\ DOMAIN s = 1..4
        /\ s[1] = a /\ s[2] = c /\ s[3] = v /\ s[4] = h
    OBVIOUS
  <2> HIDE DEF s, S
  <2>2. \A i \in 1..4 : s[i] \in S /\ (s[i].path = HeadFile => i = 4)
    BY <1>2, <2>1 DEF S
  <2>3. /\ 4 \in DOMAIN s /\ 2 \in 1..(4 - 1) /\ 3 \in 1..(4 - 1)
        /\ \A i \in DOMAIN s : Admits(s[i], x) /\ (s[i].path = HeadFile => i = 4)
    BY <1>2, <2>1, <2>2
  <2>4. Admitting(s, 4, x)
    BY <1>3, <2>1, <2>3, AdmittingByStep
  <2> QED
    BY <2>4 DEF Tame, s
<1>6. Tame(<<c, v, h, d, e>>)
  <2> DEFINE s == <<c, v, h, d, e>>
  <2>1. /\ s \in Seq(S) /\ DOMAIN s = 1..5
        /\ s[1] = c /\ s[2] = v /\ s[3] = h /\ s[4] = d /\ s[5] = e
    OBVIOUS
  <2> HIDE DEF s, S
  <2>2. \A i \in 1..5 : s[i] \in S /\ (s[i].path = HeadFile => i = 3)
    BY <1>2, <2>1 DEF S
  <2>3. /\ 3 \in DOMAIN s /\ 1 \in 1..(3 - 1) /\ 2 \in 1..(3 - 1)
        /\ \A i \in DOMAIN s : Admits(s[i], x) /\ (s[i].path = HeadFile => i = 3)
    BY <1>2, <2>1, <2>2
  <2>4. Admitting(s, 3, x)
    BY <1>3, <2>1, <2>3, AdmittingByStep
  <2> QED
    BY <2>4 DEF Tame, s
<1> QED
  BY <1>1, <1>4, <1>5, <1>6

\* flows::init names genesis as HEAD when graph.yaml, the key and genesis are there.
LEMMA InitIsTame ==
  ASSUME NEW x \in Founding
  PROVE  Tame(InitSteps("native", files, x))
<1> DEFINE g == Write(GraphYaml, [id |-> x, trusted |-> {}])
           k == Write(UserKey(x, NameOf[x]), x)
           c == Write(ChangesetFile(x), x)
           h == Write(HeadFile, x)
           S == {g, k, c, h}
           s == <<g, k, c, h>>
<1>1. InitSteps("native", files, x) = s
  <2>1. InitSteps("native", files, x) = <<g>> \o <<k>> \o <<c, h>>
    BY DEF InitSteps, CreateKey
  <2> HIDE DEF g, k, c, h, s
  <2>2. <<g>> \o <<k>> = <<g, k>>
    BY OneAndOne
  <2> QED
    BY <2>1, <2>2, TwoAndTwo DEF s
<1>2. /\ Admits(g, x) /\ Admits(k, x) /\ Admits(c, x) /\ Admits(h, x)
      /\ g.path # HeadFile /\ k.path # HeadFile /\ c.path # HeadFile
  <2>1. Safe(g) /\ Safe(k)
    BY SafeSteps
  <2>2. g.path # HeadFile /\ k.path # HeadFile /\ c.path # HeadFile
    BY Kinds DEF Write, GraphYaml, UserKey, HeadFile
  <2> QED
    BY <2>1, <2>2 DEF Admits
<1>3. x \in Changeset /\ Quorum[x] = 0
  BY ChangesetAssumption
<1>4. c = Write(ChangesetFile(x), x)
  OBVIOUS
<1> HIDE DEF g, k, c, h
<1>5. /\ s \in Seq(S) /\ DOMAIN s = 1..4
      /\ s[1] = g /\ s[2] = k /\ s[3] = c /\ s[4] = h
  OBVIOUS
<1> HIDE DEF s, S
<1>6. \A i \in 1..4 : Admits(s[i], x) /\ (s[i].path = HeadFile => i = 4)
  BY <1>2, <1>5
<1>7. Admitting(s, 4, x)
  BY <1>3, <1>4, <1>5, <1>6, AdmittingByStep
<1> QED
  BY <1>1, <1>7 DEF Tame

\* The steps of every flow are tame, but for those of attest.
LEMMA FlowIsTame ==
  ASSUME NEW r, scenario \in Scenarios, r \in scenario.requests
  PROVE  LET done == Flow("native", files, r)
         IN  \/ Tame(done.steps)
             \/ /\ r.on \in Changeset
                /\ done.steps =
                     <<Write(EvidenceFile(r.on), WithEnvelope(files, r.on, r.by))>>
<1> DEFINE done == Flow("native", files, r)
           x == r.on
<1>1. \A s, reports, y :
        /\ Outcome(s, reports).steps = s /\ Failure(s).steps = s
        /\ Building(y, s, reports).steps = s
  BY DEF Outcome, Failure, Building
<1>2. /\ r.op = "init" => x \in Founding
      /\ r.op = "principal" => x \in Changeset
      /\ r.op \in {"submit", "approve", "reject", "attest"} => x \in Changeset
  BY ScenarioAssumption, ChangesetAssumption
<1>3. ASSUME NEW a, NEW b, NEW c, Safe(a), Safe(b), Safe(c)
      PROVE  Tame(<<>>) /\ Tame(<<a>>) /\ Tame(<<a, b>>) /\ Tame(<<a, b, c>>)
  BY <1>3, HarmlessTuples DEF Tame
<1>4. \E a : Safe(a)
  BY SafeSteps
<1>5. Tame(<<>>)
  BY <1>3, <1>4
<1>6. x \in Founding => Tame(InitFlow("native", files, x).steps)
  BY <1>1, <1>5, InitIsTame DEF InitFlow
<1>7. ASSUME x \in Changeset, NEW a, Safe(a)
      PROVE  /\ Tame(SubmitFlow("native", files, x).steps)
             /\ Tame(<<a>> \o SubmitFlow("native", files, x).steps)
  <2> DEFINE s == SubmitFlow("native", files, x).steps
             b == Write(ProposalFile(x), x)
             c == Write(ProposalEvidenceFile(x), NoEvidence)
  <2>1. \/ s = <<>>
        \/ Quorum[x] = 0 /\ s = AppendChangeset(x, NoEvidence)
        \/ s = <<b, c>>
    BY <1>1 DEF SubmitFlow
  <2>2. Safe(b) /\ Safe(c)
    BY SafeSteps
  <2>3. Quorum[x] = 0 => ~Short(NoEvidence, x)
    BY DEF Short
  <2>4. NoEvidence # Torn
    BY DEF NoEvidence, Torn
  <2> HIDE DEF s, b, c
  <2>5. CASE s = <<>>
    <3>1. <<a>> \o s = <<a>>
      BY <2>5
    <3> QED
      BY <1>3, <1>7, <2>5, <3>1 DEF s
  <2>6. CASE Quorum[x] = 0 /\ s = AppendChangeset(x, NoEvidence)
    BY <1>7, <2>3, <2>4, <2>6, AppendIsTame DEF s
  <2>7. CASE s = <<b, c>>
    <3>1. <<a>> \o s = <<a, b, c>>
      BY <2>7, OneAndTwo
    <3>2. Tame(<<b, c>>) /\ Tame(<<a, b, c>>)
      BY <1>3, <1>7, <2>2
    <3> QED
      BY <2>7, <3>1, <3>2 DEF s
  <2> QED
    BY <2>1, <2>5, <2>6, <2>7
<1>8. x \in Changeset => Tame(PrincipalAddFlow("native", files, x).steps)
  <2> DEFINE k == Write(UserKey(GraphId(files), NameOf[x]), x)
  <2>1. Safe(k)
    BY SafeSteps
  <2>2. CreateKey("native", files, GraphId(files), x) = <<k>>
    BY DEF CreateKey
  <2>3. \/ PrincipalAddFlow("native", files, x).steps = <<>>
        \/ PrincipalAddFlow("native", files, x).steps
             = <<k>> \o SubmitFlow("native", files, x).steps
    <3>1. PICK submitted : submitted = SubmitFlow("native", files, x)
      OBVIOUS
    <3>2. \/ PrincipalAddFlow("native", files, x) = Failure(<<>>)
          \/ PrincipalAddFlow("native", files, x)
               = Building(submitted.builds, <<k>> \o submitted.steps, submitted.reports)
      BY <2>2, <3>1 DEF PrincipalAddFlow
    <3>3. PICK t : t = <<k>> \o submitted.steps
      OBVIOUS
    <3>4. \/ PrincipalAddFlow("native", files, x) = Failure(<<>>)
          \/ PrincipalAddFlow("native", files, x)
               = Building(submitted.builds, t, submitted.reports)
      BY <3>2, <3>3
    <3>5. PrincipalAddFlow("native", files, x).steps \in {<<>>, t}
      BY <1>1, <3>4
    <3> QED
      BY <3>1, <3>3, <3>5
  <2> HIDE DEF k
  <2> QED
    BY <1>5, <1>7, <2>1, <2>3
<1>9. ASSUME x \in Changeset, NEW by, NEW verdict
      PROVE  Tame(DecideFlow(files, x, by, verdict).steps)
  <2> DEFINE s == DecideFlow(files, x, by, verdict).steps
             doc == WithDecision(files, x, <<by, verdict>>)
             a == Write(ProposalEvidenceFile(x), doc)
             d == Erase(ProposalFile(x))
             e == Erase(ProposalEvidenceFile(x))
  <2>1. \/ s = <<>>
        \/ s = <<a>>
        \/ ~Short(doc, x) /\ s = AdmitSteps(x, doc)
    BY <1>1 DEF DecideFlow
  <2>2. AdmitSteps(x, doc) = AppendChangeset(x, doc) \o <<d, e>>
    BY DEF AdmitSteps, RemoveProposal
  <2>3. Safe(a) /\ Safe(d) /\ Safe(e)
    BY SafeSteps
  <2>4. doc # Torn
    BY DEF WithDecision, Torn
  <2> HIDE DEF s, doc, a, d, e
  <2> QED
    BY <1>3, <1>5, <1>9, <2>1, <2>2, <2>3, <2>4, AppendIsTame DEF s
<1>10. \/ AttestFlow("native", files, x, r.by).steps = <<>>
       \/ AttestFlow("native", files, x, r.by).steps
            = <<Write(EvidenceFile(x), WithEnvelope(files, x, r.by))>>
  BY <1>1 DEF AttestFlow
<1>11. Tame(TrustFlow(files, x).steps)
  <2>1. \/ TrustFlow(files, x).steps = <<>>
        \/ TrustFlow(files, x).steps = <<Write(GraphYaml, WithTrusted(files, x))>>
    BY <1>1 DEF TrustFlow
  <2> QED
    BY <1>3, <1>5, <2>1, SafeSteps
<1>12. Tame(CheckpointFlow("native", files).steps)
  <2>1. \E y, text : CheckpointFlow("native", files).steps
                       \in {<<>>, <<Write(CheckpointFile(y), text)>>}
    BY <1>1 DEF CheckpointFlow
  <2> QED
    BY <1>3, <1>5, <2>1, SafeSteps
<1>13. Tame(MigrateFlow(files, x).steps)
  <2>1. \E y, text : MigrateFlow(files, x).steps
          \in {<<>>, <<Write(UserKey(y, x), text), Erase(StoreKey(x))>>}
    BY <1>1 DEF MigrateFlow, MigrateSteps
  <2> QED
    BY <1>3, <1>5, <2>1, SafeSteps
<1> HIDE DEF done, x
<1>14. \/ r.op = "init" /\ done = InitFlow("native", files, x)
       \/ r.op = "submit" /\ done = SubmitFlow("native", files, x)
       \/ r.op = "principal" /\ done = PrincipalAddFlow("native", files, x)
       \/ r.op \in {"approve", "reject"} /\ done = DecideFlow(files, x, r.by, r.op)
       \/ r.op = "attest" /\ done = AttestFlow("native", files, x, r.by)
       \/ done = TrustFlow(files, x)
       \/ done = CheckpointFlow("native", files)
       \/ done = MigrateFlow(files, x)
  BY Flows DEF done, x
<1>15. \/ Tame(done.steps)
       \/ /\ x \in Changeset
          /\ done.steps = <<Write(EvidenceFile(x), WithEnvelope(files, x, r.by))>>
  BY <1>2, <1>4, <1>5, <1>6, <1>7, <1>8, <1>9, <1>10, <1>11, <1>12, <1>13, <1>14
<1> QED
  BY <1>15 DEF done, x

\* An envelope is written over evidence of what is in the log without taking
\* it away, unless another call rewrites it.
LEMMA AttestIsOrderly ==
  ASSUME StoreInv, Undisturbed, NEW x \in Changeset, NEW by,
         NEW doc, doc = WithEnvelope(files, x, by),
         NEW s, s = <<Write(EvidenceFile(x), doc)>>,
         EvidenceFile(x) \in Shaken => EvidenceFile(x) \in torn' \cup contended'
  PROVE  Orderly(s, Paths(s))'
<1>1. PICK step : step = Write(EvidenceFile(x), doc)
  OBVIOUS
<1>2. s \in Seq({step}) /\ DOMAIN s = 1..1 /\ s[1] = step
  BY <1>1
<1>3. /\ step.verb = "write" /\ step.path = EvidenceFile(x) /\ step.text = doc
  BY <1>1 DEF Write
<1>4. ~Writes(step, HeadFile) /\ \A z : ~Writes(step, ChangesetFile(z))
  BY <1>3, Kinds DEF Writes
<1>5. ASSUME EvidenceFile(x) \notin torn' \cup contended'
      PROVE  doc # Torn /\ (Weak(doc, x) => ~Logged(x)')
  <2>1. EvidenceFile(x) \notin Shaken
    BY <1>5
  <2>2. ~Exists(files, EvidenceFile(x)) \/ Intact(files, EvidenceFile(x))
    BY <2>1 DEF StoreInv, TornIsShaken, Exists, Intact
  <2>3. PICK old : old = EvidenceIn(files, EvidenceFile(x))
    OBVIOUS
  <2>4. doc = AddEnvelope(old, by)
    BY <2>2, <2>3 DEF WithEnvelope
  <2>5. doc # Torn /\ doc.decisions = old.decisions
    BY <2>4 DEF AddEnvelope, Torn
  <2>6. Weak(doc, x) => Short(old, x)
    BY <2>5 DEF Weak, Short, Approvals
  <2>7. Logged(x)' => ~Short(old, x)
    BY <2>1, <2>3 DEF Undisturbed, StoreInv, LoggedIsThere, Evident
  <2> QED
    BY <2>5, <2>6, <2>7
<1>6. Careful(step)'
  <2>1. \A z \in Changeset : Writes(step, EvidenceFile(z)) => z = x
    BY <1>3, Kinds DEF Writes
  <2> QED
    BY <1>3, <1>4, <1>5, <2>1 DEF Careful, Writes, Weak
<1>7. s \in Seq(Range(s))
  BY <1>2, SeqOfRange
<1>8. \A i \in DOMAIN s : s[i] = step
  BY <1>2
<1>9. \A i \in DOMAIN s : s[i].path \in Paths(s)
  BY DEF Paths
<1> QED
  BY <1>3, <1>4, <1>6, <1>7, <1>8, <1>9 DEF Orderly, Writes, Grounded, Weak

\* A call that was prepared still is when another one begins.
LEMMA UndisturbedStaysOrderly ==
  ASSUME Undisturbed, NEW s, NEW paths, Orderly(s, paths)
  PROVE  Orderly(s, paths)'
<1>1. ASSUME NEW i \in DOMAIN s PROVE Careful(s[i])'
  <2>1. PICK step : step = s[i]
    OBVIOUS
  <2>2. Careful(step)
    BY <2>1 DEF Orderly
  <2>3. Careful(step)'
    BY <2>2 DEF Careful, Undisturbed, Writes, Weak
  <2> QED
    BY <2>1, <2>3
<1>2. ASSUME NEW i \in DOMAIN s, Writes(s[i], HeadFile)
      PROVE  Grounded(s, paths, s[i].text) /\ Prepared(s, i, s[i].text)'
  <2>1. PICK y : y = s[i].text
    OBVIOUS
  <2>2. Grounded(s, paths, y) /\ Prepared(s, i, y) /\ y \in Changeset
    BY <1>2, <2>1 DEF Orderly, Grounded
  <2>3. Prepared(s, i, y)'
    BY <2>2, PreparedStays DEF Undisturbed
  <2> QED
    BY <2>1, <2>2, <2>3
<1> QED
  BY <1>1, <1>2 DEF Orderly, Writes, Grounded, Weak

\* A new call preserves the invariant.
LEMMA CallKeepsInv ==
  ASSUME StoreInv, scenario \in Scenarios,
         NEW p \in Processes, NEW r \in scenario.requests, NativeCall(p, r)
  PROVE  StoreInv'
<1>1. PICK s, reports :
        /\ s = Flow("native", files, r).steps
        /\ call' = [call EXCEPT ![p] = Doing(s, FALSE, reports, Paths(s))]
        /\ contended' = contended
             \cup (Paths(s) \cap UNION {call[q].paths : q \in Running})
        /\ s # <<>> /\ Idle(p) /\ UNCHANGED <<files, torn>>
  BY DEF NativeCall
<1>2. PICK c : c = Doing(s, FALSE, reports, Paths(s))
  OBVIOUS
<1>3. /\ c.steps = s /\ c.paths = Paths(s) /\ c.opened = FALSE
      /\ c = Doing(c.steps, c.opened, c.reports, c.paths)
  BY <1>2 DEF Doing
<1>4. /\ call'[p] = c
      /\ \A q \in Processes : q # p => call'[q] = call[q]
      /\ call' = [q \in Processes |-> call'[q]]
  BY <1>1, <1>2 DEF StoreInv
<1>5. /\ Undisturbed /\ Shaken \subseteq Shaken'
      /\ lineage' \in [Changeset -> SUBSET Changeset]
  BY CallDisturbsNothing
<1>6. \A q \in Processes : q # p => Paths(s) \cap call[q].paths \subseteq contended'
  <2>1. \A q \in Processes \ Running : call[q].paths = {}
    BY DEF StoreInv, Calls, Running, Idle
  <2> QED
    BY <1>1, <2>1
<1>7. Orderly(s, Paths(s))'
  <2>1. CASE Tame(s)
    BY <2>1, TameIsOrderly
  <2>2. CASE /\ r.on \in Changeset
             /\ s = <<Write(EvidenceFile(r.on), WithEnvelope(files, r.on, r.by))>>
    <3>1. PICK x, doc : /\ x \in Changeset /\ doc = WithEnvelope(files, x, r.by)
                        /\ s = <<Write(EvidenceFile(x), doc)>>
      BY <2>2
    <3>2. EvidenceFile(x) \in Paths(s)
      BY <3>1 DEF Paths, Write
    <3>3. ASSUME EvidenceFile(x) \in Opened PROVE EvidenceFile(x) \in contended'
      <4>1. PICK q \in Running : EvidenceFile(x) \in LeftEmpty(q)
        BY <3>3 DEF Opened
      <4>2. q \in Processes /\ ~Idle(q) /\ q # p /\ EvidenceFile(x) = Next1(q).path
        BY <1>1, <4>1 DEF Running, LeftEmpty
      <4>3. EvidenceFile(x) \in call[q].paths
        BY <4>2, First
      <4> QED
        BY <1>6, <3>2, <4>2, <4>3
    <3>4. EvidenceFile(x) \in Shaken => EvidenceFile(x) \in torn' \cup contended'
      BY <1>1, <3>3 DEF Shaken
    <3> QED
      BY <1>5, <3>1, <3>4, AttestIsOrderly
  <2> QED
    BY <1>1, <2>1, <2>2, FlowIsTame
<1>8. Calls'
  <2>1. ASSUME NEW q \in Processes, q # p, NEW d, d = call'[q]
        PROVE  /\ d = Doing(d.steps, d.opened, d.reports, d.paths)
               /\ Orderly(d.steps, d.paths)'
               /\ d.opened => d.steps # <<>> /\ Head(d.steps).verb = "write"
               /\ d.steps = <<>> => d.paths = {}
    <3>1. /\ d = Doing(d.steps, d.opened, d.reports, d.paths)
          /\ Orderly(d.steps, d.paths)
          /\ d.opened => d.steps # <<>> /\ Head(d.steps).verb = "write"
          /\ d.steps = <<>> => d.paths = {}
      BY <1>4, <2>1 DEF StoreInv, Calls
    <3>2. Orderly(d.steps, d.paths)'
      <4>1. PICK t, paths : t = d.steps /\ paths = d.paths
        OBVIOUS
      <4>2. Orderly(t, paths)'
        BY <1>5, <3>1, <4>1, UndisturbedStaysOrderly
      <4> QED
        BY <4>1, <4>2
    <3> QED
      BY <3>1, <3>2
  <2>2. Orderly(c.steps, c.paths)'
    BY <1>3, <1>7
  <2> QED
    BY <1>1, <1>3, <1>4, <2>1, <2>2 DEF Calls
<1>9. Apart'
  <2>1. contended \subseteq contended'
    BY <1>1
  <2> QED
    BY <1>3, <1>4, <1>6, <2>1 DEF StoreInv, Apart
<1>10. TornIsShaken' /\ (Intact(files', HeadFile) => files'[HeadFile] \in Changeset)
  BY <1>1, <1>5 DEF StoreInv, TornIsShaken
<1>11. LoggedIsThere'
  BY <1>5 DEF StoreInv, LoggedIsThere, Undisturbed
<1> QED
  BY <1>4, <1>5, <1>8, <1>9, <1>10, <1>11 DEF StoreInv

-----------------------------------------------------------------------------
\* The invariant is about what native processes write.
NativeInv == scenario \in Scenarios /\ (scenario.host = "native" => StoreInv)

\* A directory is fresh, or holds genesis, at the start.
LEMMA InitNative == Init => NativeInv
<1> SUFFICES ASSUME Init, scenario.host = "native" PROVE StoreInv
  BY DEF Init, NativeInv
<1>1. /\ call = [p \in Processes |-> Returned]
      /\ lineage = [x \in Changeset |->
                      IF scenario.start = "fresh" THEN {} ELSE {x} \cap {Genesis}]
      /\ files = NoFiles \/ files = Graph0
  BY DEF Init
<1>2. Genesis \in Founding /\ Genesis \in Changeset /\ Quorum[Genesis] = 0
      /\ Genesis # Torn
  BY ChangesetAssumption DEF Genesis
<1>3. call = [p \in Processes |-> call[p]] /\ lineage \in [Changeset -> SUBSET Changeset]
  BY <1>1
<1>4. Exists(files, HeadFile) => files[HeadFile] = Genesis /\ Stored(Genesis)
  BY <1>1, Kinds DEF NoFiles, Graph0, Exists, Stored, GraphYaml, HeadFile
<1>5. Calls
  <2>1. /\ Returned.steps = <<>> /\ Returned.opened = FALSE /\ Returned.paths = {}
        /\ Returned = Doing(Returned.steps, Returned.opened, Returned.reports, Returned.paths)
    BY DEF Returned, Doing
  <2>2. Orderly(<<>>, {})
    BY DEF Orderly, Range
  <2> QED
    BY <1>1, <2>1, <2>2 DEF Calls
<1>6. Apart
  BY <1>1 DEF Apart, Returned, Doing
<1>7. TornIsShaken
  BY <1>1, <1>2, Kinds DEF TornIsShaken, NoFiles, Graph0, Exists, GraphYaml,
     StoreKey, EvidenceFile, ChangesetFile
<1>8. LoggedIsThere
  <2>1. \A z : ~Ancestral(z)
    BY <1>1 DEF Ancestral
  <2>2. Evident(Genesis)
    BY <1>2 DEF Evident, Short
  <2> QED
    BY <1>4, <2>1, <2>2 DEF LoggedIsThere, Logged, Intact, Exists
<1> QED
  BY <1>2, <1>3, <1>4, <1>5, <1>6, <1>7, <1>8 DEF StoreInv, Intact, Exists

\* Every step preserves the invariant; a mirror's are not those of a native host.
LEMMA NextNative == NativeInv /\ [Next]_vars => NativeInv'
<1> SUFFICES ASSUME NativeInv, [Next]_vars PROVE NativeInv'
  OBVIOUS
<1>1. scenario' = scenario /\ scenario \in Scenarios
  BY DEF NativeInv, Next, vars, Call, NativeCall, MirrorCall, Step, Open, Fill,
     Unlink, KeyExists, Interrupt, Reload
<1>2. SUFFICES ASSUME scenario.host = "native", StoreInv PROVE StoreInv'
  BY <1>1 DEF NativeInv
<1>3. ASSUME NEW p \in Processes, NEW r \in scenario.requests, Call(p, r)
      PROVE  StoreInv'
  BY <1>1, <1>2, <1>3, CallKeepsInv DEF Call, MirrorCall
<1>4. ASSUME NEW p \in Processes, Step(p) PROVE StoreInv'
  <2>1. ~Idle(p)
    BY <1>4 DEF Step
  <2>2. CASE Open(p)
    <3>1. Effect(p, FALSE) /\ GoesOn(p, FALSE)
      BY <1>2, <2>1, <2>2, OpenEffect
    <3> QED
      BY <1>2, <2>1, <2>2, <3>1, StepKeepsInv DEF Open
  <2>3. CASE Fill(p)
    <3>1. Effect(p, TRUE) /\ GoesOn(p, TRUE)
      BY <1>2, <2>1, <2>3, FillEffect
    <3> QED
      BY <1>2, <2>1, <2>3, <3>1, StepKeepsInv DEF Fill
  <2>4. CASE Unlink(p)
    <3>1. Effect(p, FALSE) /\ GoesOn(p, FALSE)
      BY <1>2, <2>1, <2>4, UnlinkEffect
    <3> QED
      BY <1>2, <2>1, <2>4, <3>1, StepKeepsInv DEF Unlink
  <2>5. CASE KeyExists(p)
    <3>1. Effect(p, FALSE) /\ GoesOn(p, FALSE)
      BY <1>2, <2>1, <2>5, StopEffect
    <3> QED
      BY <1>2, <2>1, <2>5, <3>1, StepKeepsInv DEF KeyExists
  <2> QED
    BY <1>4, <2>2, <2>3, <2>4, <2>5 DEF Step
<1>5. ASSUME NEW p \in Processes, Interrupt(p) PROVE StoreInv'
  <2>1. ~Idle(p) /\ UNCHANGED <<lineage, contended>> /\ torn \subseteq torn'
    BY <1>5 DEF Interrupt
  <2>2. Effect(p, FALSE) /\ GoesOn(p, FALSE)
    BY <1>2, <1>5, <2>1, StopEffect
  <2> QED
    BY <1>2, <2>1, <2>2, StepKeepsInv
<1>6. ~Reload
  BY <1>2 DEF Reload
<1>7. CASE UNCHANGED vars
  <2>1. UNCHANGED <<files, call, lineage, contended, torn>>
    BY <1>7 DEF vars
  <2>2. Shaken' = Shaken
    BY <2>1 DEF Shaken, Opened, Running, LeftEmpty, Next1, Idle
  <2>3. \A x \in Changeset : /\ Stored(x)' = Stored(x) /\ Evident(x)' = Evident(x)
                             /\ Logged(x)' = Logged(x)
    BY <2>1, <2>2 DEF Stored, Evident, Logged, Ancestral
  <2>4. Undisturbed
    BY <2>1, <2>3 DEF Undisturbed
  <2>5. ASSUME NEW q \in Processes, NEW d, d = call'[q]
        PROVE  /\ d = Doing(d.steps, d.opened, d.reports, d.paths)
               /\ Orderly(d.steps, d.paths)'
               /\ d.opened => d.steps # <<>> /\ Head(d.steps).verb = "write"
               /\ d.steps = <<>> => d.paths = {}
    <3>1. d = call[q]
      BY <2>1, <2>5
    <3>2. PICK s, paths : s = d.steps /\ paths = d.paths
      OBVIOUS
    <3>3. Orderly(s, paths)'
      BY <1>2, <2>4, <3>1, <3>2, UndisturbedStaysOrderly DEF StoreInv, Calls
    <3>4. Orderly(d.steps, d.paths)'
      BY <3>2, <3>3
    <3> QED
      BY <1>2, <3>1, <3>4 DEF StoreInv, Calls
  <2>6. Calls'
    BY <2>5 DEF Calls
  <2>7. Apart' /\ TornIsShaken' /\ LoggedIsThere'
    BY <1>2, <2>1, <2>2, <2>3 DEF StoreInv, Apart, TornIsShaken, LoggedIsThere
  <2> QED
    BY <1>2, <2>1, <2>6, <2>7 DEF StoreInv
<1> QED
  BY <1>3, <1>4, <1>5, <1>6, <1>7 DEF Next

\* What HEAD descends from is logged, so it is stored and evident.
LEMMA NativeIsDurable == NativeInv => HeadIsDurable
<1> SUFFICES ASSUME StoreInv, Intact(files, HeadFile), NEW x \in lineage[files[HeadFile]]
             PROVE  /\ Exists(files, ChangesetFile(x))
                    /\ \/ Intact(files, ChangesetFile(x))
                       \/ ChangesetFile(x) \in torn \cup contended \cup Opened
                    /\ \/ ~Short(EvidenceIn(files, EvidenceFile(x)), x)
                       \/ EvidenceFile(x) \in torn \cup contended \cup Opened
  BY DEF NativeInv, HeadIsDurable
<1>1. files[HeadFile] \in Changeset /\ x \in Changeset
  BY DEF StoreInv
<1>2. Logged(x)
  BY <1>1 DEF Logged, Ancestral
<1>3. Stored(x) /\ Evident(x)
  BY <1>1, <1>2 DEF StoreInv, LoggedIsThere
<1> QED
  BY <1>1, <1>3 DEF StoreInv, TornIsShaken, Stored, Evident, Exists, Intact, Shaken

\* HEAD never gets ahead of the history it names, on a directory that native
\* processes write: whatever their number, whatever their requests and
\* wherever they die, each changeset that HEAD descends from is on disk with
\* the evidence of its approvals.
THEOREM HeadStaysDurable == Spec => []HeadIsDurable
<1>1. Spec => []NativeInv
  BY InitNative, NextNative, PTL DEF Spec
<1> QED
  BY <1>1, NativeIsDurable, PTL

-----------------------------------------------------------------------------
\* Keys.  Those of the user are created and never touched again; one that is
\* inside the directory can only be the key of genesis, and it is removed only
\* when the user has it too.

Named == Founding \cup Adding

HasUserKey(f, x) == \E path \in UserKeys : Intact(f, path) /\ f[path] = x

\* Before its n-th step, the call stores the private key of x.
StoresKey(s, n, x) ==
  \E j \in 1..(n - 1), path \in UserKeys : Writes(s[j], path) /\ s[j].text = x

Publishes(step, x) == Writes(step, ChangesetFile(x)) \/ Writes(step, ProposalFile(x))

\* The content of graph.yaml, once it is there.
GraphDoc(doc) == \E g \in Founding : \E t : doc = [id |-> g, trusted |-> t]

\* The steps that a call has left, over the files f.
KeysFirst(f, s) ==
  \A i \in DOMAIN s :
    /\ s[i].verb = "write" => s[i].path[1] # "keys"
    /\ Writes(s[i], GraphYaml) => GraphDoc(s[i].text)
    /\ s[i].verb = "remove" /\ s[i].path[1] = "keys" =>
         HasUserKey(f, Genesis) \/ StoresKey(s, i, Genesis)
    /\ \A x \in Named : Publishes(s[i], x) => KeyOf(f, x) \/ StoresKey(s, i, x)

\* The call of p is in the middle of a file that only it can create.
Creating(p) == call[p].opened /\ Creates(Next1(p))

KeyInv ==
  /\ StoreInv
  /\ \A p \in Processes : KeysFirst(files, call[p].steps)
  /\ \A p \in Processes : Creating(p) => /\ Exists(files, Next1(p).path)
                                         /\ files[Next1(p).path] = Torn
  /\ \A p, q \in Processes :
       Creating(p) /\ Creating(q) /\ Next1(p).path = Next1(q).path => p = q
  /\ \A path \in DOMAIN files :
       path[1] = "keys" => path = StoreKey(NameOf[Genesis]) /\ files[path] = Genesis
  /\ Intact(files, GraphYaml) => GraphDoc(files[GraphYaml])
  /\ \A x \in Named :
       Intact(files, ChangesetFile(x)) \/ Intact(files, ProposalFile(x)) => KeyOf(files, x)

\* Paths of keys, and those of other kinds.
LEMMA KeyKinds ==
  /\ \A path \in UserKeys : path[1] = "xdg"
  /\ \A n : StoreKey(n)[1] = "keys"
  /\ \A x : ChangesetFile(x)[1] = "changesets" /\ ProposalFile(x)[1] = "proposals"
  /\ \A x, y : ProposalFile(x) = ProposalFile(y) => x = y
  /\ GraphYaml[1] = "graph"
  BY DEF UserKeys, UserKey, StoreKey, ChangesetFile, ProposalFile, GraphYaml

\* Those who are given a key, by what the constants are assumed to be.
LEMMA NamedFacts ==
  /\ Genesis \in Founding
  /\ \A x \in Named : x # Torn /\ x \in Changeset /\ NameOf[x] \in Range(NameOf)
  BY ChangesetAssumption DEF Named, Genesis, Range

\* The keys of the user stay, and so does that of every principal.
KeysStay ==
  \A x \in Named : /\ HasUserKey(files, x) => HasUserKey(files', x)
                   /\ KeyOf(files, x) => KeyOf(files', x)

\* Other calls may rely on the keys that they relied on.
LEMMA KeysStayFirst ==
  ASSUME KeysStay, NEW s, KeysFirst(files, s)
  PROVE  KeysFirst(files', s)
<1>1. Genesis \in Named
  BY NamedFacts DEF Named
<1> QED
  BY <1>1 DEF KeysStay, KeysFirst

\* So may the rest of a call, when the key that it was to store is stored.
LEMMA KeysFirstRest ==
  ASSUME KeysStay, NEW s, s \in Seq(Range(s)), s # <<>>, KeysFirst(files, s),
         \A x \in Named, path \in UserKeys :
           Writes(s[1], path) /\ s[1].text = x => HasUserKey(files', x)
  PROVE  KeysFirst(files', Tail(s))
<1> DEFINE t == Tail(s)
<1>1. /\ Len(s) \in Nat \ {0} /\ DOMAIN s = 1..Len(s)
      /\ DOMAIN t = 1..(Len(s) - 1) /\ \A i \in DOMAIN t : t[i] = s[i + 1]
  BY Rest
<1> HIDE DEF t
<1>2. Genesis \in Named
  BY NamedFacts DEF Named
<1>3. ASSUME NEW i \in DOMAIN t, NEW x \in Named, StoresKey(s, i + 1, x)
      PROVE  HasUserKey(files', x) \/ StoresKey(t, i, x)
  <2>1. PICK j \in 1..((i + 1) - 1), path \in UserKeys : Writes(s[j], path) /\ s[j].text = x
    BY <1>3 DEF StoresKey
  <2>2. i \in Nat /\ (i + 1) - 1 = i
    BY <1>1
  <2>3. j = 1 \/ (j - 1 \in 1..(i - 1) /\ j - 1 \in DOMAIN t /\ (j - 1) + 1 = j)
    BY <1>1, <2>1, <2>2
  <2>4. CASE j = 1
    BY <2>1, <2>4
  <2>5. CASE j - 1 \in 1..(i - 1) /\ t[j - 1] = s[j]
    BY <2>1, <2>5 DEF StoresKey
  <2> QED
    BY <1>1, <2>3, <2>4, <2>5
<1>4. \A x \in Named : HasUserKey(files', x) => KeyOf(files', x)
  BY DEF HasUserKey, KeyOf
<1>5. ASSUME NEW i \in DOMAIN t
      PROVE  /\ t[i].verb = "write" => t[i].path[1] # "keys"
             /\ Writes(t[i], GraphYaml) => GraphDoc(t[i].text)
             /\ t[i].verb = "remove" /\ t[i].path[1] = "keys" =>
                  HasUserKey(files', Genesis) \/ StoresKey(t, i, Genesis)
             /\ \A x \in Named : Publishes(t[i], x) => KeyOf(files', x) \/ StoresKey(t, i, x)
  <2>1. i + 1 \in DOMAIN s /\ t[i] = s[i + 1]
    BY <1>1
  <2>2. /\ s[i + 1].verb = "write" => s[i + 1].path[1] # "keys"
        /\ Writes(s[i + 1], GraphYaml) => GraphDoc(s[i + 1].text)
        /\ s[i + 1].verb = "remove" /\ s[i + 1].path[1] = "keys" =>
             HasUserKey(files, Genesis) \/ StoresKey(s, i + 1, Genesis)
        /\ \A x \in Named :
             Publishes(s[i + 1], x) => KeyOf(files, x) \/ StoresKey(s, i + 1, x)
    BY <2>1 DEF KeysFirst
  <2> QED
    BY <1>2, <1>3, <1>4, <2>1, <2>2 DEF KeysStay
<1> QED
  BY <1>5 DEF KeysFirst, t

\* What a step of p does to the keys and to what the invariant says of them.
KeyEffect(p, filled) ==
  /\ KeysStay
  /\ filled => \A x \in Named, path \in UserKeys :
                 Writes(Next1(p), path) /\ Next1(p).text = x => HasUserKey(files', x)
  /\ \A path \in DOMAIN files' :
       path[1] = "keys" => path = StoreKey(NameOf[Genesis]) /\ files'[path] = Genesis
  /\ Intact(files', GraphYaml) => GraphDoc(files'[GraphYaml])
  /\ \A x \in Named :
       Intact(files', ChangesetFile(x)) \/ Intact(files', ProposalFile(x)) => KeyOf(files', x)

\* The step that a process is about to make.
LEMMA FirstKeys ==
  ASSUME KeyInv, NEW p \in Processes, ~Idle(p)
  PROVE  /\ Next1(p).verb \in {"write", "remove"}
         /\ Next1(p).verb = "remove" => Next1(p).path[1] \in Removable
         /\ Next1(p).verb = "write" => Next1(p).path[1] # "keys"
         /\ Writes(Next1(p), GraphYaml) => GraphDoc(Next1(p).text)
         /\ Next1(p).verb = "remove" /\ Next1(p).path[1] = "keys" =>
              HasUserKey(files, Genesis)
         /\ \A x \in Named : Publishes(Next1(p), x) => KeyOf(files, x)
<1> DEFINE s == call[p].steps
<1>1. Orderly(s, call[p].paths) /\ s # <<>> /\ KeysFirst(files, s)
  BY DEF KeyInv, StoreInv, Calls, Idle
<1>2. 1 \in DOMAIN s /\ Next1(p) = s[1]
  BY <1>1, Rest DEF Orderly, Next1
<1>3. \A x : ~StoresKey(s, 1, x)
  BY DEF StoresKey
<1>4. StoreInv
  BY DEF KeyInv
<1> HIDE DEF s
<1> QED
  BY <1>1, <1>2, <1>3, <1>4, First DEF KeysFirst

\* Opening touches no key that is there.
LEMMA OpenKeys ==
  ASSUME KeyInv, NEW p \in Processes, ~Idle(p), Open(p)
  PROVE  KeyEffect(p, FALSE)
<1> DEFINE path == Next1(p).path
<1>1. /\ files' = Put(files, path, Torn)
      /\ path[1] = "xdg" => path \notin DOMAIN files
      /\ path[1] # "keys"
  BY FirstKeys DEF Open, Creates, Exists
<1> HIDE DEF path
<1>2. \A q : Intact(files', q) <=> q # path /\ Intact(files, q)
  BY <1>1 DEF Intact, Put
<1>3. \A q \in DOMAIN files : q # path => q \in DOMAIN files' /\ files'[q] = files[q]
  BY <1>1 DEF Put
<1>4. \A q \in UserKeys : Intact(files, q) => Intact(files', q) /\ files'[q] = files[q]
  BY <1>1, <1>2, <1>3, KeyKinds DEF Intact
<1>5. \A n : Intact(files, StoreKey(n)) =>
               Intact(files', StoreKey(n)) /\ files'[StoreKey(n)] = files[StoreKey(n)]
  BY <1>1, <1>2, <1>3, KeyKinds DEF Intact
<1>6. KeysStay
  BY <1>4, <1>5 DEF KeysStay, HasUserKey, KeyOf
<1>7. \A q \in DOMAIN files' : q[1] = "keys" => q \in DOMAIN files /\ files'[q] = files[q]
  BY <1>1 DEF Put
<1>8. \A q : Intact(files', q) => Intact(files, q) /\ files'[q] = files[q]
  BY <1>2, <1>3 DEF Intact
<1> QED
  BY <1>6, <1>7, <1>8 DEF KeyEffect, KeyInv, KeysStay

\* Filling touches no key but the one that the call creates, and what it
\* publishes has its key.
LEMMA FillKeys ==
  ASSUME KeyInv, NEW p \in Processes, ~Idle(p), Fill(p)
  PROVE  KeyEffect(p, TRUE)
<1> DEFINE path == Next1(p).path
           text == Next1(p).text
<1>0. StoreInv
  BY DEF KeyInv
<1>1. /\ files' = Put(files, path, text)
      /\ Next1(p).verb = "write"
      /\ path[1] = "xdg" => files[path] = Torn
      /\ path[1] # "keys"
      /\ path = GraphYaml => GraphDoc(text)
      /\ \A x \in Named : path \in {ChangesetFile(x), ProposalFile(x)} => KeyOf(files, x)
  BY <1>0, FirstKeys DEF Fill, Creates, Creating, KeyInv, Writes, Publishes, StoreInv, Calls, Next1
<1>2. \A x \in Named, q \in UserKeys :
        Writes(Next1(p), q) /\ text = x => HasUserKey(files', x)
  BY <1>1, NamedFacts DEF HasUserKey, Writes, Intact, Put
<1> HIDE DEF path, text
<1>3. \A q : q # path => /\ Intact(files', q) <=> Intact(files, q)
                         /\ q \in DOMAIN files' <=> q \in DOMAIN files
                         /\ q \in DOMAIN files => files'[q] = files[q]
  BY <1>1 DEF Intact, Put
<1>4. \A q \in UserKeys : Intact(files, q) => Intact(files', q) /\ files'[q] = files[q]
  BY <1>1, <1>3, KeyKinds DEF Intact
<1>5. \A n : Intact(files, StoreKey(n)) =>
               Intact(files', StoreKey(n)) /\ files'[StoreKey(n)] = files[StoreKey(n)]
  BY <1>1, <1>3, KeyKinds DEF Intact
<1>6. KeysStay
  BY <1>4, <1>5 DEF KeysStay, HasUserKey, KeyOf
<1>7. \A q \in DOMAIN files' : q[1] = "keys" => q \in DOMAIN files /\ files'[q] = files[q]
  BY <1>1, <1>3
<1>8. Intact(files', GraphYaml) => GraphDoc(files'[GraphYaml])
  <2>1. CASE path = GraphYaml
    BY <1>1, <2>1 DEF Put
  <2>2. CASE path # GraphYaml
    BY <1>3, <2>2 DEF KeyInv, Intact
  <2> QED
    BY <2>1, <2>2
<1>9. ASSUME NEW x \in Named,
             Intact(files', ChangesetFile(x)) \/ Intact(files', ProposalFile(x))
      PROVE  KeyOf(files', x)
  <2>1. KeyOf(files, x)
    BY <1>1, <1>3, <1>9 DEF KeyInv
  <2> QED
    BY <1>6, <2>1 DEF KeysStay
<1> QED
  BY <1>2, <1>6, <1>7, <1>8, <1>9 DEF KeyEffect, KeyInv, text

\* A key is removed from the directory when the user has it.
LEMMA UnlinkKeys ==
  ASSUME KeyInv, NEW p \in Processes, ~Idle(p), Unlink(p)
  PROVE  KeyEffect(p, FALSE)
<1> DEFINE path == Next1(p).path
<1>1. /\ files' = Drop(files, path)
      /\ path[1] \in Removable
      /\ path[1] = "keys" => HasUserKey(files, Genesis)
  BY FirstKeys DEF Unlink
<1> HIDE DEF path
<1>2. \A q : /\ Intact(files', q) <=> q # path /\ Intact(files, q)
             /\ q \in DOMAIN files' <=> q # path /\ q \in DOMAIN files
             /\ q \in DOMAIN files' => files'[q] = files[q]
  BY <1>1 DEF Intact, Drop
<1>3. \A q \in UserKeys : Intact(files, q) => Intact(files', q) /\ files'[q] = files[q]
  BY <1>1, <1>2, KeyKinds DEF Removable, Intact
<1>4. \A x : HasUserKey(files, x) => HasUserKey(files', x)
  BY <1>3 DEF HasUserKey
<1>5. ASSUME NEW x \in Named, KeyOf(files, x) PROVE KeyOf(files', x)
  <2>1. CASE HasUserKey(files, x)
    BY <1>4, <2>1 DEF HasUserKey, KeyOf
  <2>2. CASE ~HasUserKey(files, x)
    <3> DEFINE key == StoreKey(NameOf[x])
    <3>1. Intact(files, key) /\ files[key] = x
      BY <1>5, <2>2 DEF HasUserKey, KeyOf
    <3>2. x = Genesis
      BY <3>1, KeyKinds DEF KeyInv, Intact
    <3>3. key # path
      BY <1>1, <2>2, <3>2, KeyKinds
    <3>4. Intact(files', key) /\ files'[key] = x
      BY <1>2, <3>1, <3>3 DEF Intact
    <3> QED
      BY <3>4 DEF KeyOf
  <2> QED
    BY <2>1, <2>2
<1>6. KeysStay
  BY <1>4, <1>5 DEF KeysStay
<1>7. \A q : Intact(files', q) => Intact(files, q) /\ files'[q] = files[q]
  BY <1>2 DEF Intact
<1> QED
  BY <1>2, <1>6, <1>7 DEF KeyEffect, KeyInv, KeysStay

\* No file changes when a call ends early.
LEMMA SameKeys ==
  ASSUME KeyInv, UNCHANGED files, NEW p
  PROVE  KeyEffect(p, FALSE)
<1>1. KeysStay
  BY DEF KeysStay
<1> QED
  BY <1>1 DEF KeyEffect, KeyInv

\* A step of a call under way.
LEMMA StepKeys ==
  ASSUME KeyInv, StoreInv', NEW p \in Processes, ~Idle(p),
         Open(p) \/ Fill(p) \/ Unlink(p) \/ KeyExists(p) \/ Interrupt(p)
  PROVE  KeyInv'
<1>0. StoreInv
  BY DEF KeyInv
<1>1. PICK filled : filled \in BOOLEAN /\ KeyEffect(p, filled) /\ GoesOn(p, filled)
  BY <1>0, OpenKeys, FillKeys, UnlinkKeys, SameKeys, OpenEffect, FillEffect,
     UnlinkEffect, StopEffect DEF KeyExists, Interrupt
<1>2. PICK c :
        /\ call' = [call EXCEPT ![p] = c]
        /\ \/ c = Returned
           \/ /\ ~filled /\ c.steps = call[p].steps
              /\ c = Doing(c.steps, TRUE, call[p].reports, call[p].paths)
              /\ Next1(p).verb = "write"
           \/ /\ filled \/ Next1(p).verb = "remove"
              /\ c.steps = Tail(call[p].steps) /\ c.steps # <<>>
              /\ c = Doing(c.steps, FALSE, call[p].reports, call[p].paths)
  BY <1>1 DEF GoesOn
<1>3. /\ call'[p] = c
      /\ \A q \in Processes : q # p => call'[q] = call[q]
  BY <1>0, <1>2 DEF StoreInv
<1>4. KeysStay
  BY <1>1 DEF KeyEffect
<1>5. KeysFirst(files', c.steps)
  <2> DEFINE s == call[p].steps
  <2>1. /\ KeysFirst(files, s) /\ s # <<>> /\ Next1(p) = s[1]
        /\ s \in Seq(Range(s)) /\ Next1(p).verb \in {"write", "remove"}
    BY <1>0, FirstKeys, Rest DEF KeyInv, StoreInv, Calls, Orderly, Idle, Next1
  <2> HIDE DEF s
  <2>2. CASE c = Returned
    <3>1. c.steps = <<>>
      BY <2>2 DEF Returned, Doing
    <3> QED
      BY <3>1 DEF KeysFirst
  <2>3. CASE c.steps = s
    BY <1>4, <2>1, <2>3, KeysStayFirst
  <2>4. CASE (filled \/ Next1(p).verb = "remove") /\ c.steps = Tail(s)
    <3>1. \A x \in Named, path \in UserKeys :
            Writes(s[1], path) /\ s[1].text = x => HasUserKey(files', x)
      BY <1>1, <2>1, <2>4 DEF KeyEffect, Writes
    <3> QED
      BY <1>4, <2>1, <2>4, <3>1, KeysFirstRest
  <2> QED
    BY <1>2, <2>2, <2>3, <2>4 DEF s
<1>6. ASSUME NEW q \in Processes PROVE KeysFirst(files', call'[q].steps)
  <2>1. CASE q = p
    BY <1>3, <1>5, <2>1
  <2>2. CASE q # p
    BY <1>3, <1>4, <2>2, KeysStayFirst DEF KeyInv
  <2> QED
    BY <2>1, <2>2
<1>7. \A q \in Processes : q # p => Creating(q)' = Creating(q) /\ Next1(q)' = Next1(q)
  BY <1>3 DEF Creating, Next1
<1>8. ASSUME Creating(p)'
      PROVE  /\ Open(p) /\ Next1(p)' = Next1(p) /\ Creates(Next1(p))
  <2>1. c.opened
    BY <1>3, <1>8 DEF Creating
  <2>2. ~filled /\ c.steps = call[p].steps
    BY <1>2, <2>1 DEF Returned, Doing
  <2>3. Next1(p)' = Next1(p)
    BY <1>3, <2>2 DEF Next1
  <2>4. Open(p)
    <3>1. call'[p].opened
      BY <1>3, <2>1
    <3>2. ~KeyExists(p) /\ ~Interrupt(p)
      BY <1>0, <3>1 DEF KeyExists, Interrupt, StoreInv, Returned, Doing
    <3>3. ~(Fill(p) \/ Unlink(p))
      <4>1. Advance(p) => ~call'[p].opened
        BY DEF Advance, StoreInv, Returned, Doing
      <4> QED
        BY <3>1, <4>1 DEF Fill, Unlink
    <3> QED
      BY <1>0, <3>2, <3>3
  <2> QED
    BY <1>8, <2>3, <2>4 DEF Creating
<1>9. ASSUME NEW q \in Processes, Creating(q)'
      PROVE  Exists(files', Next1(q)'.path) /\ files'[Next1(q)'.path] = Torn
  <2>1. CASE q = p
    BY <1>8, <1>9, <2>1 DEF Open, Put, Exists
  <2>2. CASE q # p
    <3>1. /\ Creating(q) /\ Next1(q)' = Next1(q)
          /\ Exists(files, Next1(q).path) /\ files[Next1(q).path] = Torn
          /\ Next1(q).path[1] = "xdg"
      BY <1>7, <1>9, <2>2 DEF KeyInv, Creating, Creates
    <3>2. CASE Open(p)
      BY <3>1, <3>2 DEF Open, Put, Exists
    <3>3. CASE Fill(p)
      <4>1. Next1(p).path # Next1(q).path
        BY <2>2, <3>1, <3>3 DEF Fill, KeyInv, Creating, Creates
      <4> QED
        BY <3>1, <3>3, <4>1 DEF Fill, Put, Exists
    <3>4. CASE Unlink(p)
      <4>1. Next1(p).path[1] \in Removable
        BY <3>4, FirstKeys DEF Unlink
      <4> QED
        BY <3>1, <3>4, <4>1 DEF Unlink, Drop, Exists, Removable
    <3>5. CASE KeyExists(p) \/ Interrupt(p)
      BY <3>1, <3>5 DEF KeyExists, Interrupt
    <3> QED
      BY <3>2, <3>3, <3>4, <3>5
  <2> QED
    BY <2>1, <2>2
<1>10. ASSUME NEW q \in Processes, NEW r \in Processes, Creating(q)', Creating(r)',
              Next1(q)'.path = Next1(r)'.path
       PROVE  q = r
  <2>1. ASSUME NEW a \in Processes, a # p, Creating(a)', Creating(p)'
        PROVE  Next1(a)'.path # Next1(p)'.path
    <3>1. Creating(a) /\ Next1(a)' = Next1(a) /\ Exists(files, Next1(a).path)
      BY <1>7, <2>1 DEF KeyInv
    <3>2. ~Exists(files, Next1(p).path) /\ Next1(p)' = Next1(p)
      BY <1>8, <2>1 DEF Open
    <3> QED
      BY <3>1, <3>2
  <2>2. CASE q # p /\ r # p
    BY <1>7, <1>10, <2>2 DEF KeyInv
  <2> QED
    BY <1>10, <2>1, <2>2
<1> QED
  BY <1>1, <1>6, <1>9, <1>10 DEF KeyInv, KeyEffect

\* Steps that publish nothing and touch no key.
Quiet(step) ==
  /\ step.path[1] # "keys"
  /\ step.path # GraphYaml
  /\ \A x \in Named : ~Publishes(step, x)

\* They need no key.
LEMMA QuietIsFirst ==
  ASSUME NEW f, NEW s, \A i \in DOMAIN s : Quiet(s[i])
  PROVE  KeysFirst(f, s)
  BY DEF KeysFirst, Quiet, Writes

\* Most steps of the flows are so.
LEMMA QuietSteps ==
  ASSUME NEW x, NEW text
  PROVE  /\ Quiet(Write(HeadFile, text)) /\ Quiet(Write(EvidenceFile(x), text))
         /\ Quiet(Write(ProposalEvidenceFile(x), text))
         /\ Quiet(Write(CheckpointFile(x), text))
         /\ Quiet(Erase(ProposalFile(x))) /\ Quiet(Erase(ProposalEvidenceFile(x)))
         /\ Quiet(Write(UserKey(x, text), x))
         /\ x \notin Named => Quiet(Write(ChangesetFile(x), text))
                              /\ Quiet(Write(ProposalFile(x), text))
  BY DEF Quiet, Publishes, Writes, Write, Erase, HeadFile, EvidenceFile, CheckpointFile,
         ProposalEvidenceFile, ProposalFile, ChangesetFile, UserKey, GraphYaml

\* append_changeset, when the key of what it admits is there.
LEMMA AppendKeys ==
  ASSUME NEW f, NEW x, NEW doc, x \in Named => KeyOf(f, x), NEW d, NEW e, Quiet(d), Quiet(e)
  PROVE  /\ KeysFirst(f, AppendChangeset(x, doc))
         /\ KeysFirst(f, AppendChangeset(x, doc) \o <<d, e>>)
<1> DEFINE c == Write(ChangesetFile(x), x)
           v == Write(EvidenceFile(x), doc)
           h == Write(HeadFile, x)
           Fine(step) == /\ step.path[1] # "keys" /\ step.path # GraphYaml
                         /\ \A y \in Named : Publishes(step, y) => KeyOf(f, y)
<1>1. /\ AppendChangeset(x, doc) = <<c, v, h>>
      /\ AppendChangeset(x, doc) \o <<d, e>> = <<c, v, h, d, e>>
  BY ThreeAndTwo DEF AppendChangeset
<1>2. Fine(c)
  BY DEF Publishes, Writes, Write, ChangesetFile, ProposalFile, GraphYaml
<1>3. Fine(v) /\ Fine(h) /\ Fine(d) /\ Fine(e)
  BY QuietSteps DEF Quiet
<1> HIDE DEF c, v, h
<1>4. ASSUME NEW s, \A i \in DOMAIN s : Fine(s[i]) PROVE KeysFirst(f, s)
  BY <1>4 DEF KeysFirst, Writes
<1> HIDE DEF Fine
<1>5. /\ \A i \in DOMAIN <<c, v, h>> : Fine(<<c, v, h>>[i])
      /\ \A i \in DOMAIN <<c, v, h, d, e>> : Fine(<<c, v, h, d, e>>[i])
  BY <1>2, <1>3
<1> QED
  BY <1>1, <1>4, <1>5

\* A call that stores the key of x before anything else may publish x.
LEMMA KeyThenPublish ==
  ASSUME NEW f, NEW s, NEW k \in Nat, DOMAIN s = 1..Len(s), Len(s) \in Nat,
         NEW x \in Named, NEW path \in UserKeys, k \in DOMAIN s, s[k] = Write(path, x),
         \A i \in DOMAIN s :
           /\ s[i].path[1] # "keys"
           /\ Writes(s[i], GraphYaml) => GraphDoc(s[i].text)
           /\ \A y \in Named : Publishes(s[i], y) => y = x /\ i > k
  PROVE  KeysFirst(f, s)
<1>1. Writes(s[k], path) /\ s[k].text = x
  BY DEF Write, Writes
<1>2. \A i \in DOMAIN s : i > k => StoresKey(s, i, x)
  <2> TAKE i \in DOMAIN s
  <2>1. i > k => k \in 1..(i - 1)
    OBVIOUS
  <2> QED
    BY <1>1, <2>1 DEF StoresKey
<1> QED
  BY <1>2 DEF KeysFirst

\* Where create_key stores a key is known.
LEMMA UserKeyIsOne ==
  ASSUME NEW x \in Named, NEW g, g \in Founding \cup {None}
  PROVE  UserKey(g, NameOf[x]) \in UserKeys
  BY NamedFacts DEF UserKeys

\* init: the key of the owner goes before genesis.
LEMMA InitKeys ==
  ASSUME NEW f, NEW x \in Founding
  PROVE  KeysFirst(f, InitSteps("native", f, x))
<1> DEFINE g == Write(GraphYaml, [id |-> x, trusted |-> {}])
           path == UserKey(x, NameOf[x])
           k == Write(path, x)
           c == Write(ChangesetFile(x), x)
           h == Write(HeadFile, x)
           s == <<g, k, c, h>>
<1>1. InitSteps("native", f, x) = s
  <2>1. InitSteps("native", f, x) = <<g>> \o <<k>> \o <<c, h>>
    BY DEF InitSteps, CreateKey
  <2> HIDE DEF g, k, c, h, s
  <2>2. <<g>> \o <<k>> = <<g, k>>
    BY OneAndOne
  <2> QED
    BY <2>1, <2>2, TwoAndTwo DEF s
<1>2. x \in Named /\ path \in UserKeys
  BY UserKeyIsOne DEF Named
<1>3. /\ g.path[1] # "keys" /\ GraphDoc(g.text) /\ \A y \in Named : ~Publishes(g, y)
  BY DEF Write, GraphYaml, GraphDoc, Publishes, Writes, ChangesetFile, ProposalFile
<1>4. Quiet(h)
  BY QuietSteps
<1>5. /\ c.path[1] # "keys" /\ c.path # GraphYaml /\ \A y \in Named : Publishes(c, y) => y = x
      /\ k.path[1] # "keys" /\ k.path # GraphYaml /\ \A y \in Named : ~Publishes(k, y)
  BY DEF Write, GraphYaml, Publishes, Writes, ChangesetFile, ProposalFile, UserKey
<1>6. k = Write(path, x)
  OBVIOUS
<1> HIDE DEF g, k, c, h, path
<1>7. DOMAIN s = 1..Len(s) /\ Len(s) = 4 /\ s[1] = g /\ s[2] = k /\ s[3] = c /\ s[4] = h
  OBVIOUS
<1> HIDE DEF s
<1>8. \A i \in DOMAIN s : /\ s[i].path[1] # "keys"
                          /\ Writes(s[i], GraphYaml) => GraphDoc(s[i].text)
                          /\ \A y \in Named : Publishes(s[i], y) => y = x /\ i > 2
  <2> TAKE i \in DOMAIN s
  <2>1. i \in {1, 2, 3, 4}
    BY <1>7
  <2> QED
    BY <1>3, <1>4, <1>5, <1>7, <2>1 DEF Quiet, Writes
<1>9. KeysFirst(f, s)
  BY <1>2, <1>6, <1>7, <1>8, KeyThenPublish
<1> QED
  BY <1>1, <1>9

\* Calls that publish nothing, or only what has its key.
LEMMA QuietTuples ==
  ASSUME NEW f, NEW a, NEW b, Quiet(a), Quiet(b)
  PROVE  KeysFirst(f, <<>>) /\ KeysFirst(f, <<a>>) /\ KeysFirst(f, <<a, b>>)
<1>1. KeysFirst(f, <<>>)
  BY DEF KeysFirst
<1>2. \A i \in DOMAIN <<a>> : Quiet(<<a>>[i])
  <2> HIDE DEF Quiet
  <2> QED
    OBVIOUS
<1>3. \A i \in DOMAIN <<a, b>> : Quiet(<<a, b>>[i])
  <2> HIDE DEF Quiet
  <2> QED
    OBVIOUS
<1> QED
  BY <1>1, <1>2, <1>3, QuietIsFirst

\* The steps of a call that may publish x.
About(step, x) ==
  /\ step.path[1] # "keys" /\ step.path # GraphYaml
  /\ \A y \in Named : Publishes(step, y) => y = x

\* Every step about x is so, but that of graph.yaml.
LEMMA AboutSteps ==
  ASSUME NEW x, NEW text, NEW path
  PROVE  /\ About(Write(ChangesetFile(x), text), x) /\ About(Write(ProposalFile(x), text), x)
         /\ About(Write(EvidenceFile(x), text), x) /\ About(Write(HeadFile, text), x)
         /\ About(Write(ProposalEvidenceFile(x), text), x)
         /\ About(Write(UserKey(path, text), x), x)
  BY DEF About, Publishes, Writes, Write, HeadFile, EvidenceFile, ProposalEvidenceFile,
         ProposalFile, ChangesetFile, UserKey, GraphYaml

\* graph.yaml says which genesis the graph has.
LEMMA GraphIdIs ==
  ASSUME KeyInv
  PROVE  /\ Intact(files, GraphYaml) => GraphId(files) \in Founding
         /\ ~Intact(files, GraphYaml) => GraphId(files) = None
         /\ GraphId(files) \in Founding \cup {None}
<1>1. CASE Intact(files, GraphYaml)
  <2>1. PICK g, t : g \in Founding /\ files[GraphYaml] = [id |-> g, trusted |-> t]
    BY <1>1 DEF KeyInv, GraphDoc
  <2>2. files[GraphYaml].id = g
    BY <2>1
  <2>3. GraphId(files) = g
    BY <1>1, <2>2 DEF GraphId
  <2> QED
    BY <1>1, <2>1, <2>3
<1>2. CASE ~Intact(files, GraphYaml)
  BY <1>2 DEF GraphId
<1> QED
  BY <1>1, <1>2

\* principal_add: the key goes before what is built.
LEMMA PrincipalKeys ==
  ASSUME KeyInv, NEW x \in Named
  PROVE  KeysFirst(files, PrincipalAddFlow("native", files, x).steps)
<1>1. \A s, reports, y :
        /\ Outcome(s, reports).steps = s /\ Failure(s).steps = s
        /\ Building(y, s, reports).steps = s
  BY DEF Outcome, Failure, Building
<1> DEFINE path == UserKey(GraphId(files), NameOf[x])
           k == Write(path, x)
           b == Write(ProposalFile(x), x)
           e == Write(ProposalEvidenceFile(x), NoEvidence)
           c == Write(ChangesetFile(x), x)
           v == Write(EvidenceFile(x), NoEvidence)
           h == Write(HeadFile, x)
           s == PrincipalAddFlow("native", files, x).steps
<1>2. GraphId(files) \in Founding \cup {None}
  BY GraphIdIs
<1>3. path \in UserKeys
  BY <1>2, UserKeyIsOne
<1>4. CreateKey("native", files, GraphId(files), x) = <<k>>
  BY DEF CreateKey
<1>5. PICK submitted : submitted = SubmitFlow("native", files, x)
  OBVIOUS
<1>6. submitted.steps \in {<<>>, <<c, v, h>>, <<b, e>>}
  BY <1>1, <1>5 DEF SubmitFlow, AppendChangeset
<1>7. s = <<>> \/ s = <<k>> \o submitted.steps
  <2>1. \/ PrincipalAddFlow("native", files, x) = Failure(<<>>)
        \/ PrincipalAddFlow("native", files, x)
             = Building(submitted.builds, <<k>> \o submitted.steps, submitted.reports)
    BY <1>4, <1>5 DEF PrincipalAddFlow
  <2>2. PICK t, y, reports :
          /\ t = <<k>> \o submitted.steps /\ y = submitted.builds
          /\ reports = submitted.reports
    OBVIOUS
  <2>3. Building(y, t, reports).steps = t /\ Failure(<<>>).steps = <<>>
    BY <1>1
  <2>4. PICK flow : flow = PrincipalAddFlow("native", files, x)
    OBVIOUS
  <2>5. flow = Failure(<<>>) \/ flow = Building(y, t, reports)
    BY <2>1, <2>2, <2>4
  <2>6. flow.steps = <<>> \/ flow.steps = t
    BY <2>3, <2>5
  <2> QED
    BY <2>2, <2>4, <2>6
<1>8. /\ About(k, x) /\ About(b, x) /\ About(e, x) /\ About(c, x) /\ About(v, x)
      /\ About(h, x)
  BY AboutSteps
<1>9. k = Write(path, x) /\ \A y \in Named : ~Publishes(k, y)
  BY QuietSteps DEF Quiet, Publishes, Writes, Write, UserKey, ChangesetFile, ProposalFile
<1> HIDE DEF path, k, b, e, c, v, h, s
<1>10. s \in {<<>>, <<k>>, <<k, c, v, h>>, <<k, b, e>>}
  <2>1. /\ <<k>> \o <<>> = <<k>>
        /\ <<k>> \o <<c, v, h>> = <<k, c, v, h>> /\ <<k>> \o <<b, e>> = <<k, b, e>>
    BY OneAndTwo, OneAndThree
  <2>2. PICK t : t = submitted.steps
    OBVIOUS
  <2>3. t = <<>> \/ t = <<c, v, h>> \/ t = <<b, e>>
    BY <1>6, <2>2
  <2>4. <<k>> \o t = <<k>> \/ <<k>> \o t = <<k, c, v, h>> \/ <<k>> \o t = <<k, b, e>>
    BY <2>1, <2>3
  <2> QED
    BY <1>7, <2>2, <2>4
<1>11. ASSUME s # <<>>
       PROVE  /\ DOMAIN s = 1..Len(s) /\ Len(s) \in Nat /\ 1 \in DOMAIN s /\ s[1] = k
              /\ \A i \in DOMAIN s : i \in Nat /\ s[i] \in {k, b, e, c, v, h}
              /\ \A i \in DOMAIN s : i > 1 \/ s[i] = k
  <2>1. CASE s = <<k>>
    BY <2>1
  <2>2. CASE s = <<k, c, v, h>>
    BY <2>2
  <2>3. CASE s = <<k, b, e>>
    BY <2>3
  <2> QED
    BY <1>10, <1>11, <2>1, <2>2, <2>3
<1>12. CASE s = <<>>
  BY <1>12 DEF KeysFirst, s
<1>13. CASE s # <<>>
  <2>1. \A i \in DOMAIN s :
          /\ s[i].path[1] # "keys"
          /\ Writes(s[i], GraphYaml) => GraphDoc(s[i].text)
          /\ \A y \in Named : Publishes(s[i], y) => y = x /\ i > 1
    <3> TAKE i \in DOMAIN s
    <3>1. s[i] \in {k, b, e, c, v, h} /\ (i > 1 \/ s[i] = k)
      BY <1>11, <1>13
    <3>2. About(s[i], x)
      BY <1>8, <3>1
    <3> QED
      BY <1>9, <3>1, <3>2 DEF About, Writes
  <2>2. KeysFirst(files, s)
    BY <1>3, <1>9, <1>11, <1>13, <2>1, KeyThenPublish
  <2> QED
    BY <2>2 DEF s
<1> QED
  BY <1>12, <1>13

\* allod key migrate: the user has the key before it is removed.
LEMMA MigrateKeys ==
  ASSUME KeyInv, NEW name
  PROVE  KeysFirst(files, MigrateFlow(files, name).steps)
<1>1. \A s, reports : Outcome(s, reports).steps = s /\ Failure(s).steps = s
  BY DEF Outcome, Failure, Building
<1> DEFINE path == UserKey(GraphId(files), name)
           k == Write(path, files[StoreKey(name)])
           e == Erase(StoreKey(name))
           s == MigrateFlow(files, name).steps
<1>2. CASE ~Intact(files, GraphYaml) \/ ~Intact(files, StoreKey(name))
  <2>1. s = <<>>
    BY <1>1, <1>2 DEF MigrateFlow
  <2> QED
    BY <2>1 DEF KeysFirst
<1>3. CASE Intact(files, GraphYaml) /\ Intact(files, StoreKey(name))
  <2>1. s = <<k, e>>
    BY <1>1, <1>3 DEF MigrateFlow, MigrateSteps
  <2>2. StoreKey(name) = StoreKey(NameOf[Genesis]) /\ files[StoreKey(name)] = Genesis
    BY <1>3, KeyKinds DEF KeyInv, Intact
  <2>3. name = NameOf[Genesis]
    BY <2>2 DEF StoreKey
  <2>4. GraphId(files) \in Founding
    BY <1>3, GraphIdIs
  <2>5. path \in UserKeys
    BY <2>3, <2>4, NamedFacts, UserKeyIsOne DEF Named
  <2>6. Writes(k, path) /\ k.text = Genesis
    BY <2>2 DEF Write, Writes
  <2>7. Quiet(k)
    BY QuietSteps DEF Quiet, Publishes, Writes, Write, UserKey, GraphYaml, ChangesetFile,
       ProposalFile
  <2>8. e.verb = "remove" /\ e.path[1] = "keys"
    BY DEF Erase, StoreKey
  <2> HIDE DEF path, k, e, s
  <2>9. DOMAIN s = 1..2 /\ s[1] = k /\ s[2] = e
    BY <2>1
  <2>10. StoresKey(s, 2, Genesis)
    <3>1. 1 \in 1..(2 - 1)
      OBVIOUS
    <3> QED
      BY <2>5, <2>6, <2>9, <3>1 DEF StoresKey
  <2>11. KeysFirst(files, s)
    <3> SUFFICES ASSUME NEW i \in DOMAIN s
                 PROVE  /\ s[i].verb = "write" => s[i].path[1] # "keys"
                        /\ Writes(s[i], GraphYaml) => GraphDoc(s[i].text)
                        /\ s[i].verb = "remove" /\ s[i].path[1] = "keys" =>
                             HasUserKey(files, Genesis) \/ StoresKey(s, i, Genesis)
                        /\ \A x \in Named :
                             Publishes(s[i], x) => KeyOf(files, x) \/ StoresKey(s, i, x)
      BY DEF KeysFirst
    <3>1. i = 1 \/ i = 2
      BY <2>9
    <3>2. CASE i = 1
      BY <2>7, <2>9, <3>2 DEF Quiet, Writes
    <3>3. CASE i = 2
      BY <2>8, <2>9, <2>10, <3>3 DEF Publishes, Writes
    <3> QED
      BY <3>1, <3>2, <3>3
  <2> QED
    BY <2>11 DEF s
<1> QED
  BY <1>2, <1>3

\* A proposal is admitted when it can be read, so its key is there.
LEMMA DecideKeys ==
  ASSUME KeyInv, NEW x, NEW by, NEW verdict
  PROVE  KeysFirst(files, DecideFlow(files, x, by, verdict).steps)
<1>1. \A s, reports : Outcome(s, reports).steps = s /\ Failure(s).steps = s
  BY DEF Outcome, Failure, Building
<1> DEFINE s == DecideFlow(files, x, by, verdict).steps
           doc == WithDecision(files, x, <<by, verdict>>)
           a == Write(ProposalEvidenceFile(x), doc)
           d == Erase(ProposalFile(x))
           e == Erase(ProposalEvidenceFile(x))
<1>2. \/ s = <<>>
      \/ s = <<a>>
      \/ Intact(files, ProposalFile(x)) /\ s = AppendChangeset(x, doc) \o <<d, e>>
  BY <1>1 DEF DecideFlow, AdmitSteps, RemoveProposal
<1>3. Quiet(a) /\ Quiet(d) /\ Quiet(e)
  BY QuietSteps
<1>4. x \in Named /\ Intact(files, ProposalFile(x)) => KeyOf(files, x)
  BY DEF KeyInv
<1> HIDE DEF s, doc, a, d, e
<1> QED
  BY <1>2, <1>3, <1>4, QuietTuples, AppendKeys DEF s

\* What a client submits makes no key known.
LEMMA SubmitKeys ==
  ASSUME NEW f, NEW x, x \notin Named
  PROVE  KeysFirst(f, SubmitFlow("native", f, x).steps)
<1>1. \A s, reports, y :
        /\ Failure(s).steps = s
        /\ Building(y, s, reports).steps = s
  BY DEF Outcome, Failure, Building
<1> DEFINE s == SubmitFlow("native", f, x).steps
           b == Write(ProposalFile(x), x)
           c == Write(ProposalEvidenceFile(x), NoEvidence)
<1>2. s = <<>> \/ s = AppendChangeset(x, NoEvidence) \/ s = <<b, c>>
  BY <1>1 DEF SubmitFlow
<1>3. Quiet(b) /\ Quiet(c)
  BY QuietSteps
<1> HIDE DEF s, b, c
<1> QED
  BY <1>2, <1>3, QuietTuples, AppendKeys DEF s

\* What a flow is about to write has the keys it needs.
LEMMA FlowKeys ==
  ASSUME KeyInv, NEW r, scenario \in Scenarios, r \in scenario.requests
  PROVE  KeysFirst(files, Flow("native", files, r).steps)
<1> DEFINE done == Flow("native", files, r)
           x == r.on
<1>1. \A s, reports, y :
        /\ Outcome(s, reports).steps = s /\ Failure(s).steps = s
        /\ Building(y, s, reports).steps = s
  BY DEF Outcome, Failure, Building
<1>2. /\ r.op = "init" => x \in Founding
      /\ r.op = "principal" => x \in Named
      /\ r.op = "submit" => x \notin Named
  BY ScenarioAssumption DEF Named
<1>3. \A y, text : Quiet(Write(CheckpointFile(y), text)) /\ Quiet(Write(EvidenceFile(y), text))
  BY QuietSteps
<1>4. KeysFirst(files, <<>>)
  BY DEF KeysFirst
<1>5. x \in Founding => KeysFirst(files, InitFlow("native", files, x).steps)
  BY <1>1, <1>4, InitKeys DEF InitFlow
<1>6. KeysFirst(files, AttestFlow("native", files, x, r.by).steps)
  <2>1. PICK text : text = WithEnvelope(files, x, r.by)
    OBVIOUS
  <2>2. AttestFlow("native", files, x, r.by).steps
          \in {<<>>, <<Write(EvidenceFile(x), text)>>}
    BY <1>1, <2>1 DEF AttestFlow
  <2> QED
    BY <1>3, <2>2, QuietTuples
<1>7. KeysFirst(files, CheckpointFlow("native", files).steps)
  <2>1. \E y, text : CheckpointFlow("native", files).steps
                       \in {<<>>, <<Write(CheckpointFile(y), text)>>}
    BY <1>1 DEF CheckpointFlow
  <2> QED
    BY <1>3, <2>1, QuietTuples
<1>8. KeysFirst(files, TrustFlow(files, x).steps)
  <2>1. CASE ~Intact(files, GraphYaml)
    BY <1>1, <1>4, <2>1 DEF TrustFlow
  <2>2. CASE Intact(files, GraphYaml)
    <3>1. PICK g, t : g \in Founding /\ files[GraphYaml] = [id |-> g, trusted |-> t]
      BY <2>2 DEF KeyInv, GraphDoc
    <3>2. PICK step : step = Write(GraphYaml, WithTrusted(files, x))
      OBVIOUS
    <3>3. TrustFlow(files, x).steps = <<step>>
      BY <1>1, <2>2, <3>2 DEF TrustFlow
    <3>4. WithTrusted(files, x) = [id |-> g, trusted |-> t \cup {x}]
      BY <3>1 DEF WithTrusted
    <3>5. step.verb = "write" /\ step.path = GraphYaml
          /\ step.text = WithTrusted(files, x)
      BY <3>2 DEF Write
    <3>6. GraphDoc(step.text)
      <4>1. GraphDoc(WithTrusted(files, x))
        BY <3>1, <3>4, Zenon DEF GraphDoc
      <4> QED
        BY <3>5, <4>1
    <3>7. step.path[1] # "keys" /\ \A y \in Named : ~Publishes(step, y)
      BY <3>5 DEF Publishes, Writes, GraphYaml, ChangesetFile, ProposalFile
    <3>8. KeysFirst(files, <<step>>)
      BY <3>5, <3>6, <3>7 DEF KeysFirst
    <3> QED
      BY <3>3, <3>8
  <2> QED
    BY <2>1, <2>2
<1>9. /\ KeysFirst(files, MigrateFlow(files, x).steps)
      /\ KeysFirst(files, DecideFlow(files, x, r.by, r.op).steps)
      /\ x \in Named => KeysFirst(files, PrincipalAddFlow("native", files, x).steps)
      /\ x \notin Named => KeysFirst(files, SubmitFlow("native", files, x).steps)
  BY MigrateKeys, DecideKeys, PrincipalKeys, SubmitKeys
<1> HIDE DEF done, x
<1>10. \/ r.op = "init" /\ done = InitFlow("native", files, x)
       \/ r.op = "submit" /\ done = SubmitFlow("native", files, x)
       \/ r.op = "principal" /\ done = PrincipalAddFlow("native", files, x)
       \/ r.op \in {"approve", "reject"} /\ done = DecideFlow(files, x, r.by, r.op)
       \/ r.op = "attest" /\ done = AttestFlow("native", files, x, r.by)
       \/ done = TrustFlow(files, x)
       \/ done = CheckpointFlow("native", files)
       \/ done = MigrateFlow(files, x)
  BY Flows DEF done, x
<1> QED
  BY <1>2, <1>5, <1>6, <1>7, <1>8, <1>9, <1>10 DEF done

\* A new call has the keys it needs, and is in the middle of no file.
LEMMA CallKeys ==
  ASSUME KeyInv, StoreInv', scenario \in Scenarios,
         NEW p \in Processes, NEW r \in scenario.requests, NativeCall(p, r)
  PROVE  KeyInv'
<1>1. PICK s, reports :
        /\ s = Flow("native", files, r).steps
        /\ call' = [call EXCEPT ![p] = Doing(s, FALSE, reports, Paths(s))]
        /\ UNCHANGED files
  BY DEF NativeCall
<1>2. PICK c : c = Doing(s, FALSE, reports, Paths(s))
  OBVIOUS
<1>3. c.steps = s /\ c.opened = FALSE
  BY <1>2 DEF Doing
<1>4. call'[p] = c /\ \A q \in Processes : q # p => call'[q] = call[q]
  BY <1>1, <1>2 DEF KeyInv, StoreInv
<1>5. KeysFirst(files, s)
  BY <1>1, FlowKeys
<1>6. \A q \in Processes : KeysFirst(files', call'[q].steps)
  BY <1>1, <1>3, <1>4, <1>5 DEF KeyInv
<1>7. ~Creating(p)' /\ \A q \in Processes : q # p =>
        Creating(q)' = Creating(q) /\ Next1(q)' = Next1(q)
  BY <1>3, <1>4 DEF Creating, Next1
<1> QED
  BY <1>1, <1>6, <1>7 DEF KeyInv

\* The invariant is about what native processes write.
NativeKeyInv == scenario \in Scenarios /\ (scenario.host = "native" => KeyInv)

\* A directory is fresh, or holds genesis and the key of its owner.
LEMMA InitNativeKeys == Init => NativeKeyInv
<1> SUFFICES ASSUME Init, scenario.host = "native" PROVE KeyInv
  BY DEF Init, NativeKeyInv
<1>1. StoreInv
  BY InitNative DEF NativeInv
<1>2. /\ call = [p \in Processes |-> Returned]
      /\ files = NoFiles \/ files = Graph0
  BY DEF Init
<1>3. Returned.steps = <<>> /\ Returned.opened = FALSE
  BY DEF Returned, Doing
<1>4. \A p \in Processes : KeysFirst(files, call[p].steps) /\ ~Creating(p)
  BY <1>2, <1>3 DEF KeysFirst, Creating
<1>5. CASE files = NoFiles
  BY <1>1, <1>4, <1>5 DEF KeyInv, NoFiles, Intact
<1>6. CASE files = Graph0
  <2>1. /\ DOMAIN files = {GraphYaml, StoreKey(NameOf[Genesis]), ChangesetFile(Genesis), HeadFile}
        /\ files[GraphYaml] = [id |-> Genesis, trusted |-> {}]
        /\ \A path \in DOMAIN files : path # GraphYaml => files[path] = Genesis
    BY <1>6 DEF Graph0
  <2>2. /\ \A path \in DOMAIN files : path[1] = "keys" => path = StoreKey(NameOf[Genesis])
        /\ StoreKey(NameOf[Genesis]) # GraphYaml
        /\ \A x : ProposalFile(x) \notin DOMAIN files
        /\ \A x : ChangesetFile(x) \in DOMAIN files => x = Genesis
    BY <2>1 DEF StoreKey, GraphYaml, ChangesetFile, ProposalFile, HeadFile
  <2>3. GraphDoc(files[GraphYaml])
    BY <2>1, NamedFacts DEF GraphDoc
  <2>4. KeyOf(files, Genesis)
    BY <2>1, <2>2, NamedFacts DEF KeyOf, Intact, Named
  <2>5. \A path \in DOMAIN files :
          path[1] = "keys" => path = StoreKey(NameOf[Genesis]) /\ files[path] = Genesis
    BY <2>1, <2>2
  <2> QED
    BY <1>1, <1>4, <2>2, <2>3, <2>4, <2>5 DEF KeyInv, Intact
<1> QED
  BY <1>2, <1>5, <1>6

\* Every step preserves it.
LEMMA NextNativeKeys == NativeKeyInv /\ [Next]_vars => NativeKeyInv'
<1> SUFFICES ASSUME NativeKeyInv, [Next]_vars PROVE NativeKeyInv'
  OBVIOUS
<1>1. scenario' = scenario /\ scenario \in Scenarios
  BY DEF NativeKeyInv, Next, vars, Call, NativeCall, MirrorCall, Step, Open, Fill,
     Unlink, KeyExists, Interrupt, Reload
<1>2. SUFFICES ASSUME scenario.host = "native", KeyInv PROVE KeyInv'
  BY <1>1 DEF NativeKeyInv
<1>3. StoreInv'
  BY <1>1, <1>2, NextNative DEF NativeKeyInv, NativeInv, KeyInv
<1>4. ASSUME NEW p \in Processes, NEW r \in scenario.requests, Call(p, r)
      PROVE  KeyInv'
  BY <1>1, <1>2, <1>3, <1>4, CallKeys DEF Call, MirrorCall
<1>5. ASSUME NEW p \in Processes, Step(p) \/ Interrupt(p) PROVE KeyInv'
  BY <1>2, <1>3, <1>5, StepKeys DEF Step, Interrupt
<1>6. ~Reload
  BY <1>2 DEF Reload
<1>7. CASE UNCHANGED vars
  <2>1. UNCHANGED <<files, call>>
    BY <1>7 DEF vars
  <2>2. \A q \in Processes : Creating(q)' = Creating(q) /\ Next1(q)' = Next1(q)
    BY <2>1 DEF Creating, Next1
  <2> QED
    BY <1>2, <1>3, <2>1, <2>2 DEF KeyInv
<1> QED
  BY <1>4, <1>5, <1>6, <1>7 DEF Next

\* A principal whose public half is in the log or in the inbox can sign, on a
\* directory that native processes write, wherever one of them dies.
THEOREM PrincipalsCanSign == Spec => []KeysComeFirst
<1>1. Spec => []NativeKeyInv
  BY InitNativeKeys, NextNativeKeys, PTL DEF Spec
<1>2. NativeKeyInv => KeysComeFirst
  BY DEF NativeKeyInv, KeyInv, KeysComeFirst, Named
<1> QED
  BY <1>1, <1>2, PTL

-----------------------------------------------------------------------------
\* What was reported.  Each fact is kept in a file, or will be by the steps s
\* that the call which is to report it has left (none, once it is acked); and
\* no call that is under way will take it away.

\* Files that a crash left empty, or that two calls meant to write.
Broken == torn \cup contended

Erases(step, path) == step.verb = "remove" /\ step.path = path

\* The content of a file that keeps the fact.
Bears(text, fact) ==
  CASE fact[1] \in {"approve", "reject"} -> <<fact[3], fact[1]>> \in text.decisions
    [] fact[1] = "attested" -> fact[3] \in text.envelopes
    [] fact[1] = "trusted" -> fact[2] \in text.trusted \/ text.id # fact[3]
    [] OTHER -> TRUE

Has(path, fact) ==
  Exists(files, path) /\ (files[path] # Torn => Bears(files[path], fact))

Will(s, path, fact) ==
  Has(path, fact) \/ \E i \in DOMAIN s : Writes(s[i], path) /\ Bears(s[i].text, fact)

AllBear(path, fact) ==
  \A p \in Processes : \A i \in DOMAIN call[p].steps :
    Writes(call[p].steps[i], path) => Bears(call[p].steps[i].text, fact)

\* Nobody will propose x anew.
Closed(x) ==
  /\ lineage[x] # {}
  /\ \A p \in Processes : \A i \in DOMAIN call[p].steps :
       ~Writes(call[p].steps[i], ProposalFile(x))

Gone(s, x) ==
  \/ ~Exists(files, ProposalFile(x))
  \/ \E i \in DOMAIN s : Erases(s[i], ProposalFile(x))

\* A call that removes the decisions on a proposal has moved this one to the
\* evidence in the log, and removed the proposal.
Settles(s, paths, fact, x) ==
  \A i \in DOMAIN s :
    Erases(s[i], ProposalEvidenceFile(x)) =>
      /\ EvidenceFile(x) \in paths
      /\ \A j \in DOMAIN s : /\ Writes(s[j], EvidenceFile(x)) => Bears(s[j].text, fact)
                             /\ ~Writes(s[j], ProposalFile(x))
      /\ \/ Has(EvidenceFile(x), fact)
         \/ \E j \in 1..(i - 1) : Writes(s[j], EvidenceFile(x))
      /\ \/ ~Exists(files, ProposalFile(x))
         \/ \E j \in 1..(i - 1) : Erases(s[j], ProposalFile(x))

\* A decision with the proposal, and a decision or an envelope in the log.
Inboxed(s, fact, x) ==
  /\ x \in Changeset /\ lineage[x] # {}
  /\ Will(s, ProposalEvidenceFile(x), fact)
  /\ AllBear(ProposalEvidenceFile(x), fact)
  /\ \A p \in Processes : Settles(call[p].steps, call[p].paths, fact, x)

InLog(s, fact, x) ==
  /\ x \in Changeset /\ Closed(x) /\ Gone(s, x)
  /\ Will(s, EvidenceFile(x), fact)
  /\ AllBear(EvidenceFile(x), fact)

IsBuilt(x) == x \in Changeset /\ lineage[x] # {}

Kept(fact, s) ==
  CASE fact[1] = "admitted" -> Will(s, ChangesetFile(fact[2]), fact)
    [] fact[1] = "held" -> \/ Will(s, ChangesetFile(fact[2]), fact)
                           \/ Will(s, ProposalFile(fact[2]), fact)
    [] fact[1] \in {"approve", "reject"} ->
         \/ ProposalEvidenceFile(fact[2]) \in Broken \/ EvidenceFile(fact[2]) \in Broken
         \/ Inboxed(s, fact, fact[2])
         \/ InLog(s, fact, fact[2])
    [] fact[1] = "attested" ->
         EvidenceFile(fact[2]) \in Broken \/ InLog(s, fact, fact[2])
    [] fact[1] = "trusted" ->
         \/ GraphYaml \in Broken
         \/ /\ IsBuilt(fact[3])
            /\ Will(s, GraphYaml, fact)
            /\ AllBear(GraphYaml, fact)
    [] fact[1] = "attested early" -> TRUE
    [] fact[1] = "checkpoint" -> Will(s, CheckpointFile(fact[2]), fact)
    [] OTHER -> \E g \in Founding : Will(s, UserKey(g, fact[2]), fact)

\* A changeset is proposed once, when it is built; while it is being
\* proposed nobody admits it.
Born ==
  \A x \in Changeset :
    /\ (Exists(files, ProposalFile(x)) \/ Stored(x)) => lineage[x] # {}
    /\ \A p \in Processes : \A i \in DOMAIN call[p].steps :
         LET step == call[p].steps[i]
         IN  /\ Writes(step, ChangesetFile(x)) => lineage[x] # {}
             /\ Writes(step, ProposalFile(x)) =>
                  /\ lineage[x] # {}
                  /\ ~Intact(files, ProposalFile(x)) /\ ~Stored(x)
                  /\ ProposalEvidenceFile(x) \in call[p].paths
                  /\ \A q \in Processes : \A j \in DOMAIN call[q].steps :
                       /\ ~Writes(call[q].steps[j], ChangesetFile(x))
                       /\ Writes(call[q].steps[j], ProposalFile(x)) => q = p /\ j = i

\* graph.yaml names a changeset that was built, and will.
Known ==
  /\ Intact(files, GraphYaml) => IsBuilt(files[GraphYaml].id)
  /\ \A p \in Processes : \A i \in DOMAIN call[p].steps :
       Writes(call[p].steps[i], GraphYaml) => IsBuilt(call[p].steps[i].text.id)

\* A proposal is removed when its changeset is in the log.
Ordered(s, paths) ==
  \A i \in DOMAIN s :
    /\ s[i].verb = "write" => s[i].text # Torn \/ s[i].path \in Broken
    /\ \A x : Erases(s[i], ProposalFile(x)) =>
         /\ EvidenceFile(x) \in paths
         /\ Stored(x) \/ \E j \in 1..(i - 1) : Writes(s[j], ChangesetFile(x))

EmptyIsShaken == \A path \in DOMAIN files : files[path] = Torn => path \in Shaken

AckInv ==
  /\ KeyInv
  /\ EmptyIsShaken
  /\ Born
  /\ Known
  /\ \A p \in Processes : Ordered(call[p].steps, call[p].paths)
  /\ \A fact \in acked : Kept(fact, <<>>)
  /\ \A p \in Processes :
       ~Idle(p) /\ call[p].reports # None => Kept(call[p].reports, call[p].steps)

-----------------------------------------------------------------------------
\* A step of a call under way.

\* What a step of p does to the files; t are the steps it has left.
Wrote(p, text) == Next1(p).verb = "write" /\ files' = Put(files, Next1(p).path, text)
Removed(p) == Next1(p).verb = "remove" /\ files' = Drop(files, Next1(p).path)

Moves(p, t) ==
  /\ \A q \in Processes : q # p => call'[q] = call[q]
  /\ call'[p].steps = t
  /\ t # <<>> => call'[p].paths = call[p].paths
  /\ UNCHANGED <<lineage, contended>> /\ torn \subseteq torn'
  /\ \/ t = call[p].steps /\ Wrote(p, Torn)
     \/ t = Tail(call[p].steps) /\ (Wrote(p, Next1(p).text) \/ Removed(p))
     \/ t = <<>> /\ UNCHANGED files

\* The steps u of a call become v by a step of p, or they are another's.
Become(p, u, v) ==
  \/ u = v
  \/ /\ u = call[p].steps /\ v = Tail(u)
     /\ Wrote(p, Next1(p).text) \/ Removed(p)

\* The steps of a process that has some.
LEMMA Underway ==
  ASSUME StoreInv, NEW p \in Processes, ~Idle(p), NEW s, s = call[p].steps
  PROVE  /\ s # <<>> /\ s \in Seq(Range(s)) /\ Next1(p) = s[1] /\ 1 \in DOMAIN s
         /\ Len(s) \in Nat \ {0} /\ DOMAIN s = 1..Len(s)
         /\ DOMAIN Tail(s) = 1..(Len(s) - 1)
         /\ \A i \in DOMAIN Tail(s) : i + 1 \in DOMAIN s /\ Tail(s)[i] = s[i + 1]
         /\ Next1(p).verb \in {"write", "remove"}
         /\ Next1(p).verb = "remove" => Next1(p).path[1] \in Removable
         /\ \A i \in DOMAIN s : s[i].path \in call[p].paths
<1>1. s # <<>> /\ s \in Seq(Range(s)) /\ \A i \in DOMAIN s : s[i].path \in call[p].paths
  BY DEF StoreInv, Calls, Idle, Orderly
<1>2. /\ Next1(p) = s[1] /\ 1 \in DOMAIN s
      /\ Len(s) \in Nat \ {0} /\ DOMAIN s = 1..Len(s)
      /\ DOMAIN Tail(s) = 1..(Len(s) - 1)
      /\ \A i \in DOMAIN Tail(s) : Tail(s)[i] = s[i + 1]
  BY <1>1, Rest DEF Next1
<1>3. \A i \in DOMAIN Tail(s) : i + 1 \in DOMAIN s
  BY <1>2
<1>4. /\ Next1(p).verb \in {"write", "remove"}
      /\ Next1(p).verb = "remove" => Next1(p).path[1] \in Removable
  BY First
<1> QED
  BY <1>1, <1>2, <1>3, <1>4

\* The steps of a process that has none.
LEMMA Advanced ==
  ASSUME StoreInv, NEW p \in Processes, Advance(p)
  PROVE  /\ \A q \in Processes : q # p => call'[q] = call[q]
         /\ call'[p].steps = Tail(call[p].steps)
         /\ Tail(call[p].steps) # <<>> => call'[p].paths = call[p].paths
                                          /\ call'[p].reports = call[p].reports
         /\ acked' = acked \cup IF Tail(call[p].steps) = <<>>
                                THEN {call[p].reports} \ {None} ELSE {}
<1>1. /\ Doing(Tail(call[p].steps), FALSE, call[p].reports, call[p].paths).steps
           = Tail(call[p].steps)
      /\ Doing(Tail(call[p].steps), FALSE, call[p].reports, call[p].paths).paths
           = call[p].paths
      /\ Doing(Tail(call[p].steps), FALSE, call[p].reports, call[p].paths).reports
           = call[p].reports
      /\ Returned.steps = <<>>
  BY DEF Doing, Returned
<1> QED
  BY <1>1 DEF Advance, StoreInv

\* Every step is such a move; what is acked is what the call was to report.
LEMMA StepMoves ==
  ASSUME StoreInv, NEW p \in Processes, ~Idle(p),
         Open(p) \/ Fill(p) \/ Unlink(p) \/ KeyExists(p) \/ Interrupt(p)
  PROVE  \E t : /\ Moves(p, t)
                /\ t # <<>> =>
                     call'[p].reports = call[p].reports /\ Become(p, call[p].steps, t)
                /\ \/ acked' = acked
                   \/ /\ t = <<>> /\ Become(p, call[p].steps, t)
                      /\ acked' = acked \cup ({call[p].reports} \ {None})
<1> DEFINE s == call[p].steps
           opened == Doing(s, TRUE, call[p].reports, call[p].paths)
<1>1. /\ opened.steps = s /\ opened.paths = call[p].paths /\ opened.reports = call[p].reports
      /\ Returned.steps = <<>>
  BY DEF Doing, Returned
<1>2. /\ s # <<>> /\ Next1(p).verb \in {"write", "remove"}
      /\ call[p].opened => Next1(p).verb = "write"
  BY First DEF Idle, StoreInv, Calls, Next1
<1> HIDE DEF opened, s
<1>3. CASE Open(p)
  <2>1. /\ call' = [call EXCEPT ![p] = opened]
        /\ Next1(p).verb = "write" /\ files' = Put(files, Next1(p).path, Torn)
        /\ UNCHANGED <<lineage, contended, torn, acked>>
    BY <1>3 DEF Open, opened, s
  <2>2. call'[p] = opened /\ \A q \in Processes : q # p => call'[q] = call[q]
    BY <2>1 DEF StoreInv
  <2>3. Moves(p, s)
    BY <1>1, <2>1, <2>2 DEF Moves, Wrote, s
  <2>4. call'[p].reports = call[p].reports /\ Become(p, s, s)
    BY <1>1, <2>2 DEF Become
  <2> QED
    BY <2>1, <2>3, <2>4 DEF s
<1>4. CASE Fill(p) \/ Unlink(p)
  <2>1. /\ Advance(p) /\ UNCHANGED <<lineage, contended, torn>>
        /\ Wrote(p, Next1(p).text) \/ Removed(p)
    BY <1>2, <1>4 DEF Fill, Unlink, Wrote, Removed
  <2>2. /\ \A q \in Processes : q # p => call'[q] = call[q]
        /\ call'[p].steps = Tail(s)
        /\ Tail(s) # <<>> => call'[p].paths = call[p].paths
                             /\ call'[p].reports = call[p].reports
        /\ acked' = acked \cup IF Tail(s) = <<>> THEN {call[p].reports} \ {None} ELSE {}
    BY <2>1, Advanced DEF s
  <2>3. Moves(p, Tail(s))
    BY <2>1, <2>2 DEF Moves, s
  <2>4. Become(p, s, Tail(s))
    BY <2>1 DEF Become, s
  <2> QED
    BY <2>2, <2>3, <2>4 DEF s
<1>5. CASE KeyExists(p) \/ Interrupt(p)
  <2>1. /\ call' = [call EXCEPT ![p] = Returned]
        /\ UNCHANGED <<files, lineage, contended, acked>> /\ torn \subseteq torn'
    BY <1>5 DEF KeyExists, Interrupt
  <2>2. call'[p] = Returned /\ \A q \in Processes : q # p => call'[q] = call[q]
    BY <2>1 DEF StoreInv
  <2>3. Moves(p, <<>>)
    BY <1>1, <2>1, <2>2 DEF Moves
  <2> QED
    BY <2>1, <2>3
<1> QED
  BY <1>3, <1>4, <1>5

\* The steps that are left were there before.
LEMMA FewerSteps ==
  ASSUME StoreInv, NEW p \in Processes, ~Idle(p), NEW t, Moves(p, t),
         NEW q \in Processes, NEW i \in DOMAIN call'[q].steps
  PROVE  /\ call'[q].paths = call[q].paths
         /\ \E k \in DOMAIN call[q].steps : call'[q].steps[i] = call[q].steps[k]
         /\ \/ call'[q].steps = call[q].steps
            \/ /\ q = p /\ call'[q].steps = Tail(call[q].steps)
               /\ Wrote(p, Next1(p).text) \/ Removed(p)
<1>1. CASE q # p
  BY <1>1 DEF Moves
<1>2. CASE q = p
  <2>1. i \in DOMAIN t /\ call'[q].steps = t
    BY <1>2 DEF Moves
  <2>2. t # <<>> /\ call'[q].paths = call[q].paths
    BY <1>2, <2>1 DEF Moves
  <2>3. CASE t = call[p].steps
    BY <1>2, <2>1, <2>2, <2>3
  <2>4. CASE t = Tail(call[p].steps) /\ (Wrote(p, Next1(p).text) \/ Removed(p))
    BY <1>2, <2>1, <2>2, <2>4, Underway
  <2> QED
    BY <2>2, <2>3, <2>4 DEF Moves
<1> QED
  BY <1>1, <1>2

\* So whatever all steps do is still what all steps do.
LEMMA BearStays ==
  ASSUME StoreInv, NEW p \in Processes, ~Idle(p), NEW t, Moves(p, t)
  PROVE  /\ \A path, fact : AllBear(path, fact) => AllBear(path, fact)'
         /\ \A x : Closed(x) => Closed(x)'
<1>1. ASSUME NEW path, NEW fact, AllBear(path, fact), NEW q \in Processes,
             NEW i \in DOMAIN call'[q].steps
      PROVE  Writes(call'[q].steps[i], path) => Bears(call'[q].steps[i].text, fact)
  BY <1>1, FewerSteps DEF AllBear
<1>2. ASSUME NEW x, Closed(x), NEW q \in Processes, NEW i \in DOMAIN call'[q].steps
      PROVE  ~Writes(call'[q].steps[i], ProposalFile(x))
  BY <1>2, FewerSteps DEF Closed
<1>3. lineage' = lineage
  BY DEF Moves
<1> QED
  BY <1>1, <1>2, <1>3 DEF AllBear, Closed, Writes, Bears

\* A file keeps a fact unless the step writes it without the fact, or removes it.
LEMMA HasStays ==
  ASSUME NEW p \in Processes, NEW t, Moves(p, t),
         NEW path, NEW fact, Has(path, fact),
         Writes(Next1(p), path) => Bears(Next1(p).text, fact),
         ~Erases(Next1(p), path)
  PROVE  Has(path, fact)'
<1>1. \A text : Bears(text, fact)' = Bears(text, fact)
  BY DEF Bears
<1>2. CASE UNCHANGED files
  BY <1>2 DEF Has, Exists, Bears
<1>3. ASSUME NEW text, Wrote(p, text), text \in {Torn, Next1(p).text}
      PROVE  Has(path, fact)'
  <2>1. /\ path \in DOMAIN files'
        /\ files'[path] = IF path = Next1(p).path THEN text ELSE files[path]
    BY <1>3 DEF Wrote, Put, Has, Exists
  <2> QED
    BY <1>3, <2>1 DEF Has, Exists, Writes, Wrote, Bears
<1>4. CASE Removed(p)
  <2>1. path # Next1(p).path
    BY <1>4 DEF Removed, Erases
  <2>2. path \in DOMAIN files' /\ files'[path] = files[path]
    BY <1>4, <2>1 DEF Removed, Drop, Has, Exists
  <2> QED
    BY <2>2 DEF Has, Exists, Bears
<1> QED
  BY <1>2, <1>3, <1>4 DEF Moves

\* What will be kept there is or will be.
LEMMA WillStays ==
  ASSUME StoreInv, NEW p \in Processes, ~Idle(p), NEW t, Moves(p, t),
         NEW u, NEW v, Become(p, u, v),
         NEW path, NEW fact, Will(u, path, fact),
         Writes(Next1(p), path) => Bears(Next1(p).text, fact),
         ~Erases(Next1(p), path)
  PROVE  Will(v, path, fact)'
<1>1. CASE Has(path, fact)
  <2>1. Has(path, fact)'
    BY <1>1, HasStays
  <2> QED
    BY <2>1 DEF Will
<1>2. ASSUME NEW i \in DOMAIN u, Writes(u[i], path), Bears(u[i].text, fact)
      PROVE  Will(v, path, fact)'
  <2>1. CASE u = v
    BY <1>2, <2>1 DEF Will, Writes, Bears
  <2>2. CASE u = call[p].steps /\ v = Tail(u) /\ (Wrote(p, Next1(p).text) \/ Removed(p))
    <3>1. /\ DOMAIN u = 1..Len(u) /\ Len(u) \in Nat /\ Next1(p) = u[1]
          /\ DOMAIN v = 1..(Len(u) - 1) /\ \A k \in DOMAIN v : v[k] = u[k + 1]
      BY <2>2, Underway
    <3>2. CASE i = 1
      <4>1. Wrote(p, Next1(p).text) /\ Next1(p).path = path
        BY <1>2, <2>2, <3>1, <3>2 DEF Removed, Writes
      <4>2. path \in DOMAIN files' /\ files'[path] = Next1(p).text
        BY <4>1 DEF Wrote, Put
      <4>3. Has(path, fact)'
        BY <1>2, <3>1, <3>2, <4>2 DEF Has, Exists, Bears
      <4> QED
        BY <4>3 DEF Will
    <3>3. CASE i # 1
      <4>1. i - 1 \in DOMAIN v /\ (i - 1) + 1 = i
        BY <3>1, <3>3
      <4>2. v[i - 1] = u[i]
        BY <3>1, <4>1
      <4> QED
        BY <1>2, <4>1, <4>2 DEF Will, Writes, Bears
    <3> QED
      BY <3>2, <3>3
  <2> QED
    BY <2>1, <2>2 DEF Become
<1> QED
  BY <1>1, <1>2 DEF Will

\* A proposal that is gone, or will be, is not proposed again.
LEMMA GoneStays ==
  ASSUME StoreInv, NEW p \in Processes, ~Idle(p), NEW t, Moves(p, t),
         NEW u, NEW v, Become(p, u, v),
         NEW x, Gone(u, x), Closed(x)
  PROVE  Gone(v, x)'
<1> DEFINE path == ProposalFile(x)
<1>1. ~Writes(Next1(p), path)
  BY Underway DEF Closed
<1> HIDE DEF path
<1>2. ASSUME ~Exists(files, path) PROVE ~Exists(files', path)
  BY <1>1, <1>2 DEF Moves, Wrote, Removed, Put, Drop, Exists, Writes
<1>3. ASSUME NEW i \in DOMAIN u, Erases(u[i], path)
      PROVE  ~Exists(files', path) \/ \E k \in DOMAIN v : Erases(v[k], path)
  <2>1. CASE u = v
    BY <1>3, <2>1
  <2>2. CASE u = call[p].steps /\ v = Tail(u) /\ (Wrote(p, Next1(p).text) \/ Removed(p))
    <3>1. /\ DOMAIN u = 1..Len(u) /\ Len(u) \in Nat /\ Next1(p) = u[1]
          /\ DOMAIN v = 1..(Len(u) - 1) /\ \A k \in DOMAIN v : v[k] = u[k + 1]
      BY <2>2, Underway
    <3>2. CASE i = 1
      BY <1>3, <2>2, <3>1, <3>2 DEF Wrote, Removed, Drop, Exists, Erases
    <3>3. CASE i # 1
      <4>1. i - 1 \in DOMAIN v /\ (i - 1) + 1 = i
        BY <3>1, <3>3
      <4>2. v[i - 1] = u[i]
        BY <3>1, <4>1
      <4> QED
        BY <1>3, <4>1, <4>2
    <3> QED
      BY <3>2, <3>3
  <2> QED
    BY <2>1, <2>2 DEF Become
<1> QED
  BY <1>2, <1>3 DEF Gone, path, Erases

\* Two calls that are to write one file have broken it.
LEMMA SharedIsBroken ==
  ASSUME StoreInv, NEW p \in Processes, NEW q \in Processes, p # q,
         NEW path, path \in call[p].paths, path \in call[q].paths
  PROVE  path \in Broken
  BY DEF StoreInv, Apart, Broken

\* What removes decisions still does so in order.
LEMMA SettlesStays ==
  ASSUME StoreInv, Born, NEW p \in Processes, ~Idle(p), NEW t, Moves(p, t),
         NEW fact, NEW x \in Changeset,
         ProposalEvidenceFile(x) \notin Broken, EvidenceFile(x) \notin Broken,
         NEW q \in Processes, Settles(call[q].steps, call[q].paths, fact, x),
         NEW v, v = call'[q].steps, NEW paths, paths = call'[q].paths
  PROVE  Settles(v, paths, fact, x)'
<1> DEFINE u == call[q].steps
           pend == ProposalEvidenceFile(x)
           ev == EvidenceFile(x)
           prop == ProposalFile(x)
<1>0. ev # pend /\ ev # prop /\ pend # prop /\ ev[1] = "evidence"
  BY DEF EvidenceFile, ProposalEvidenceFile, ProposalFile
<1> SUFFICES ASSUME NEW i \in DOMAIN v, Erases(v[i], pend)
             PROVE  /\ ev \in paths
                    /\ \A j \in DOMAIN v : /\ Writes(v[j], ev) => Bears(v[j].text, fact)
                                           /\ ~Writes(v[j], prop)
                    /\ Has(ev, fact)' \/ \E j \in 1..(i - 1) : Writes(v[j], ev)
                    /\ \/ ~Exists(files', prop)
                       \/ \E j \in 1..(i - 1) : Erases(v[j], prop)
  BY DEF Settles, Writes, Erases, Bears
<1>1. /\ call'[q].paths = call[q].paths
      /\ \A j \in DOMAIN v : \E k \in DOMAIN u : v[j] = u[k]
      /\ \/ v = u
         \/ q = p /\ v = Tail(u) /\ (Wrote(p, Next1(p).text) \/ Removed(p))
  BY FewerSteps
<1>2. PICK n \in DOMAIN u :
        /\ v[i] = u[n]
        /\ \/ v = u /\ n = i
           \/ /\ q = p /\ v = Tail(u) /\ n = i + 1
              /\ Wrote(p, Next1(p).text) \/ Removed(p)
  <2>1. CASE v = u
    BY <2>1
  <2>2. CASE q = p /\ v = Tail(u) /\ (Wrote(p, Next1(p).text) \/ Removed(p))
    <3>1. i + 1 \in DOMAIN u /\ v[i] = u[i + 1]
      <4>1. \A j \in DOMAIN Tail(u) : j + 1 \in DOMAIN u /\ Tail(u)[j] = u[j + 1]
        BY <2>2, Underway
      <4> QED
        BY <2>2, <4>1
    <3> QED
      BY <2>2, <3>1
  <2> QED
    BY <1>1, <2>1, <2>2
<1>3. /\ ev \in call[q].paths
      /\ \A j \in DOMAIN u : /\ Writes(u[j], ev) => Bears(u[j].text, fact)
                             /\ ~Writes(u[j], prop)
      /\ Has(ev, fact) \/ \E j \in 1..(n - 1) : Writes(u[j], ev)
      /\ ~Exists(files, prop) \/ \E j \in 1..(n - 1) : Erases(u[j], prop)
  BY <1>2 DEF Settles
<1>4. ~Idle(q) /\ pend \in call[q].paths
  <2>1. u # <<>>
    BY <1>2
  <2>2. ~Idle(q)
    BY <2>1 DEF Idle
  <2>3. u[n].path \in call[q].paths
    BY <2>2, Underway
  <2> QED
    BY <1>2, <2>2, <2>3 DEF Erases
<1>5. /\ ev \in call'[q].paths
      /\ \A j \in DOMAIN v : /\ Writes(v[j], ev) => Bears(v[j].text, fact)
                             /\ ~Writes(v[j], prop)
  BY <1>1, <1>3
<1>6. /\ Next1(p).path \in call[p].paths
      /\ Next1(p) = call[p].steps[1] /\ 1 \in DOMAIN call[p].steps
      /\ Next1(p).verb = "remove" => Next1(p).path[1] \in Removable
  BY Underway
<1>7. Writes(Next1(p), ev) => Bears(Next1(p).text, fact)
  <2>1. CASE q = p
    BY <1>3, <1>6, <2>1
  <2>2. CASE q # p
    BY <1>3, <1>6, <2>2, SharedIsBroken DEF Writes
  <2> QED
    BY <2>1, <2>2
<1>8. ~Erases(Next1(p), ev)
  BY <1>0, <1>6 DEF Erases, Removable
<1>9. ~Writes(Next1(p), prop)
  <2>1. CASE q = p
    BY <1>3, <1>6, <2>1
  <2>2. CASE q # p
    <3>1. Writes(Next1(p), prop) => pend \in call[p].paths
      BY <1>6 DEF Born
    <3> QED
      BY <1>4, <2>2, <3>1, SharedIsBroken
  <2> QED
    BY <2>1, <2>2
<1>10. Has(ev, fact) => Has(ev, fact)'
  BY <1>7, <1>8, HasStays
<1>11. ~Exists(files, prop) => ~Exists(files', prop)
  BY <1>9 DEF Moves, Wrote, Removed, Put, Drop, Exists, Writes
<1>12. CASE n = i /\ v = u
  BY <1>3, <1>5, <1>10, <1>11, <1>12
<1>13. CASE /\ q = p /\ v = Tail(u) /\ n = i + 1
            /\ Wrote(p, Next1(p).text) \/ Removed(p)
  <2>2. /\ DOMAIN u = 1..Len(u) /\ Len(u) \in Nat /\ Next1(p) = u[1]
        /\ DOMAIN v = 1..(Len(u) - 1) /\ \A k \in DOMAIN v : v[k] = u[k + 1]
    <3>1. u = call[p].steps /\ v = Tail(u)
      BY <1>13
    <3> QED
      BY <3>1, Underway
  <2>3. Wrote(p, Next1(p).text) \/ Removed(p)
    BY <1>13
  <2>4. i \in Nat /\ (i + 1) - 1 = i
    BY <2>2
  <2>5. \A j \in 1..(n - 1) : j = 1 \/ (j - 1 \in 1..(i - 1) /\ v[j - 1] = u[j])
    <3> TAKE j \in 1..(n - 1)
    <3>1. i \in 1..(Len(u) - 1) /\ n = i + 1
      BY <1>13, <2>2
    <3>2. i \in Nat /\ i <= Len(u) - 1 /\ Len(u) \in Nat /\ j \in 1..i
      BY <2>2, <3>1
    <3>3. j = 1 \/ (j - 1 \in 1..(i - 1) /\ j - 1 \in 1..(Len(u) - 1) /\ (j - 1) + 1 = j)
      BY <3>2
    <3> QED
      BY <2>2, <3>3
  <2>6. Writes(u[1], ev) => Has(ev, fact)'
    <3> SUFFICES ASSUME Writes(u[1], ev) PROVE Has(ev, fact)'
      OBVIOUS
    <3>1. Wrote(p, Next1(p).text) /\ Next1(p).path = ev /\ Bears(Next1(p).text, fact)
      BY <1>7, <2>2, <2>3 DEF Removed, Writes
    <3>2. ev \in DOMAIN files' /\ files'[ev] = Next1(p).text
      BY <3>1 DEF Wrote, Put
    <3> QED
      BY <3>1, <3>2 DEF Has, Exists, Bears
  <2>7. Erases(u[1], prop) => ~Exists(files', prop)
    BY <2>2, <2>3 DEF Wrote, Removed, Drop, Exists, Erases
  <2>8. Has(ev, fact)' \/ \E j \in 1..(i - 1) : Writes(v[j], ev)
    <3>1. CASE Has(ev, fact)
      BY <1>10, <3>1
    <3>2. ASSUME NEW j \in 1..(n - 1), Writes(u[j], ev)
          PROVE  Has(ev, fact)' \/ \E k \in 1..(i - 1) : Writes(v[k], ev)
      BY <2>5, <2>6, <3>2
    <3> QED
      BY <1>3, <3>1, <3>2
  <2>9. ~Exists(files', prop) \/ \E j \in 1..(i - 1) : Erases(v[j], prop)
    <3>1. ASSUME NEW j \in 1..(n - 1), Erases(u[j], prop)
          PROVE  ~Exists(files', prop) \/ \E k \in 1..(i - 1) : Erases(v[k], prop)
      BY <2>5, <2>7, <3>1
    <3> QED
      BY <1>3, <1>11, <3>1
  <2> QED
    BY <1>5, <2>8, <2>9
<1> QED
  BY <1>2, <1>12, <1>13

\* Kinds of paths.
LEMMA MoreKinds ==
  ASSUME NEW x, NEW y
  PROVE  /\ HeadFile[1] = "HEAD" /\ GraphYaml[1] = "graph"
         /\ ChangesetFile(x)[1] = "changesets" /\ EvidenceFile(x)[1] = "evidence"
         /\ ProposalFile(x)[1] = "proposals" /\ ProposalEvidenceFile(x)[1] = "pending"
         /\ CheckpointFile(x)[1] = "checkpoints" /\ UserKey(x, y)[1] = "xdg"
         /\ StoreKey(x)[1] = "keys"
         /\ ProposalFile(x) = ProposalFile(y) => x = y
         /\ ProposalEvidenceFile(x) = ProposalEvidenceFile(y) => x = y
         /\ ChangesetFile(x) = ChangesetFile(y) => x = y
         /\ EvidenceFile(x) = EvidenceFile(y) => x = y
  BY DEF HeadFile, GraphYaml, ChangesetFile, EvidenceFile, ProposalFile,
         ProposalEvidenceFile, CheckpointFile, UserKey, StoreKey

\* What is in the log stays in the log.
LEMMA InLogStays ==
  ASSUME StoreInv, NEW p \in Processes, ~Idle(p), NEW t, Moves(p, t),
         NEW u, NEW v, Become(p, u, v), NEW fact, NEW x, InLog(u, fact, x)
  PROVE  InLog(v, fact, x)'
<1>1. /\ x \in Changeset /\ Closed(x) /\ Gone(u, x) /\ Will(u, EvidenceFile(x), fact)
      /\ AllBear(EvidenceFile(x), fact)
  BY DEF InLog
<1>2. Closed(x)' /\ AllBear(EvidenceFile(x), fact)' /\ Gone(v, x)'
  BY <1>1, BearStays, GoneStays
<1>3. /\ Writes(Next1(p), EvidenceFile(x)) => Bears(Next1(p).text, fact)
      /\ ~Erases(Next1(p), EvidenceFile(x))
  BY <1>1, Underway, MoreKinds DEF AllBear, Erases, Removable
<1>4. Will(v, EvidenceFile(x), fact)'
  BY <1>1, <1>3, WillStays
<1> QED
  BY <1>1, <1>2, <1>4 DEF InLog

\* A decision in the inbox stays there, or moves to the log.
LEMMA InboxedStays ==
  ASSUME StoreInv, Born, NEW p \in Processes, ~Idle(p), NEW t, Moves(p, t),
         NEW u, NEW v, Become(p, u, v), NEW fact, NEW x, Inboxed(u, fact, x),
         ProposalEvidenceFile(x) \notin Broken, EvidenceFile(x) \notin Broken
  PROVE  Inboxed(v, fact, x)' \/ InLog(v, fact, x)'
<1> DEFINE pend == ProposalEvidenceFile(x)
           ev == EvidenceFile(x)
           prop == ProposalFile(x)
<1>1. /\ x \in Changeset /\ lineage[x] # {} /\ Will(u, pend, fact) /\ AllBear(pend, fact)
      /\ \A q \in Processes : Settles(call[q].steps, call[q].paths, fact, x)
      /\ lineage'[x] # {}
  BY DEF Inboxed, Moves
<1>2. /\ Next1(p) = call[p].steps[1] /\ 1 \in DOMAIN call[p].steps
      /\ Next1(p).path \in call[p].paths
  BY Underway
<1>3. CASE ~Erases(Next1(p), pend)
  <2>1. Writes(Next1(p), pend) => Bears(Next1(p).text, fact)
    BY <1>1, <1>2 DEF AllBear
  <2>2. Will(v, pend, fact)'
    BY <1>1, <1>3, <2>1, WillStays
  <2>3. AllBear(pend, fact)'
    BY <1>1, BearStays
  <2>4. ASSUME NEW q \in Processes, NEW s, s = call'[q].steps, NEW paths, paths = call'[q].paths
        PROVE  Settles(s, paths, fact, x)'
    BY <1>1, <2>4, SettlesStays
  <2>5. \A q \in Processes : Settles(call[q].steps, call[q].paths, fact, x)'
    BY <2>4
  <2> QED
    BY <1>1, <2>2, <2>3, <2>5 DEF Inboxed
<1>4. CASE Erases(Next1(p), pend)
  <2>1. /\ ev \in call[p].paths
        /\ \A j \in DOMAIN call[p].steps :
             /\ Writes(call[p].steps[j], ev) => Bears(call[p].steps[j].text, fact)
             /\ ~Writes(call[p].steps[j], prop)
        /\ Has(ev, fact) \/ \E j \in 1..(1 - 1) : Writes(call[p].steps[j], ev)
        /\ ~Exists(files, prop) \/ \E j \in 1..(1 - 1) : Erases(call[p].steps[j], prop)
    BY <1>1, <1>2, <1>4 DEF Settles
  <2>2. Has(ev, fact) /\ ~Exists(files, prop)
    BY <2>1
  <2>3. pend \in call[p].paths
    BY <1>2, <1>4 DEF Erases
  <2>4. ASSUME NEW q \in Processes, NEW i \in DOMAIN call[q].steps
        PROVE  /\ ~Writes(call[q].steps[i], prop)
               /\ Writes(call[q].steps[i], ev) => Bears(call[q].steps[i].text, fact)
    <3>1. CASE q = p
      BY <2>1, <3>1
    <3>2. CASE q # p
      <4>1. pend \notin call[q].paths /\ ev \notin call[q].paths
        BY <2>1, <2>3, <3>2, SharedIsBroken
      <4>2. Writes(call[q].steps[i], prop) => pend \in call[q].paths
        BY <1>1, <2>4 DEF Born
      <4>3. ~Idle(q)
        BY <2>4 DEF Idle
      <4>4. call[q].steps[i].path \in call[q].paths
        BY <2>4, <4>3, Underway
      <4> QED
        BY <4>1, <4>2, <4>4 DEF Writes
    <3> QED
      BY <3>1, <3>2
  <2>5. InLog(u, fact, x)
    BY <1>1, <2>2, <2>4 DEF InLog, Closed, Gone, Will, AllBear
  <2> QED
    BY <2>5, InLogStays
<1> QED
  BY <1>3, <1>4

\* What was reported, or will be, stays kept.
LEMMA KeptStays ==
  ASSUME StoreInv, Born, NEW p \in Processes, ~Idle(p), NEW t, Moves(p, t),
         Ordered(call[p].steps, call[p].paths),
         NEW u, NEW v, Become(p, u, v), NEW fact, Kept(fact, u)
  PROVE  Kept(fact, v)'
<1> DEFINE x == fact[2]
<1>1. Broken \subseteq Broken'
  BY DEF Moves, Broken
<1>2. /\ Next1(p) = call[p].steps[1] /\ 1 \in DOMAIN call[p].steps
      /\ Next1(p).verb = "remove" => Next1(p).path[1] \in Removable
  BY Underway
<1>3. ASSUME NEW path, path[1] \notin Removable, \A text : Bears(text, fact),
             Will(u, path, fact)
      PROVE  Will(v, path, fact)'
  BY <1>2, <1>3, WillStays DEF Erases
<1>4. CASE fact[1] = "admitted"
  <2>1. \A text : Bears(text, fact)
    BY <1>4 DEF Bears
  <2>2. Will(v, ChangesetFile(x), fact)'
    BY <1>3, <1>4, <2>1, MoreKinds DEF Removable, Kept
  <2> QED
    BY <1>4, <2>2 DEF Kept
<1>5. CASE fact[1] = "held"
  <2>1. \A text : Bears(text, fact)
    BY <1>5 DEF Bears
  <2>2. Will(u, ChangesetFile(x), fact) => Will(v, ChangesetFile(x), fact)'
    BY <1>3, <2>1, MoreKinds DEF Removable
  <2>3. ASSUME Will(u, ProposalFile(x), fact)
        PROVE  Will(v, ChangesetFile(x), fact)' \/ Will(v, ProposalFile(x), fact)'
    <3>1. CASE Erases(Next1(p), ProposalFile(x))
      <4>1. Stored(x)
        BY <1>2, <3>1 DEF Ordered
      <4>2. Will(u, ChangesetFile(x), fact)
        BY <2>1, <4>1 DEF Will, Has, Stored
      <4> QED
        BY <2>2, <4>2
    <3>2. CASE ~Erases(Next1(p), ProposalFile(x))
      BY <2>1, <2>3, <3>2, WillStays
    <3> QED
      BY <3>1, <3>2
  <2>4. Will(v, ChangesetFile(x), fact)' \/ Will(v, ProposalFile(x), fact)'
    BY <1>5, <2>2, <2>3 DEF Kept
  <2> QED
    BY <1>5, <2>4 DEF Kept
<1>6. CASE fact[1] \in {"approve", "reject"}
  <2>1. \/ ProposalEvidenceFile(x) \in Broken' \/ EvidenceFile(x) \in Broken'
        \/ Inboxed(v, fact, x)' \/ InLog(v, fact, x)'
    BY <1>1, <1>6, InboxedStays, InLogStays DEF Kept
  <2> QED
    BY <1>6, <2>1 DEF Kept
<1>7. CASE fact[1] = "attested"
  <2>1. EvidenceFile(x) \in Broken' \/ InLog(v, fact, x)'
    BY <1>1, <1>7, InLogStays DEF Kept
  <2> QED
    BY <1>7, <2>1 DEF Kept
<1>8. CASE fact[1] = "trusted"
  <2>1. CASE GraphYaml \in Broken
    BY <1>1, <1>8, <2>1 DEF Kept
  <2>2. CASE /\ IsBuilt(fact[3]) /\ Will(u, GraphYaml, fact)
             /\ AllBear(GraphYaml, fact)
    <3>1. /\ Writes(Next1(p), GraphYaml) => Bears(Next1(p).text, fact)
          /\ ~Erases(Next1(p), GraphYaml)
      BY <1>2, <2>2, MoreKinds DEF AllBear, Erases, Removable
    <3>2. Will(v, GraphYaml, fact)' /\ AllBear(GraphYaml, fact)'
      BY <2>2, <3>1, WillStays, BearStays
    <3>3. IsBuilt(fact[3])'
      BY <2>2 DEF Moves, IsBuilt
    <3> QED
      BY <1>8, <3>2, <3>3 DEF Kept
  <2> QED
    BY <1>8, <2>1, <2>2 DEF Kept
<1>9. CASE fact[1] = "attested early"
  BY <1>9 DEF Kept
<1>10. CASE fact[1] = "checkpoint"
  <2>1. \A text : Bears(text, fact)
    BY <1>10 DEF Bears
  <2>2. Will(v, CheckpointFile(x), fact)'
    BY <1>3, <1>10, <2>1, MoreKinds DEF Removable, Kept
  <2> QED
    BY <1>10, <2>2 DEF Kept
<1>11. CASE fact[1] \notin {"admitted", "held", "approve", "reject", "attested", "trusted",
                            "attested early", "checkpoint"}
  <2>1. \A text : Bears(text, fact)
    BY <1>11 DEF Bears
  <2>2. PICK g \in Founding : Will(u, UserKey(g, x), fact)
    BY <1>11 DEF Kept
  <2>3. Will(v, UserKey(g, x), fact)'
    BY <1>3, <2>1, <2>2, MoreKinds DEF Removable
  <2>4. \E h \in Founding : Will(v, UserKey(h, x), fact)'
    BY <2>3
  <2> QED
    BY <1>11, <2>4 DEF Kept
<1> QED
  BY <1>4, <1>5, <1>6, <1>7, <1>8, <1>9, <1>10, <1>11

\* What is being proposed is still that, and by nobody else.
LEMMA BornStays ==
  ASSUME StoreInv, Born, NEW p \in Processes, ~Idle(p), NEW t, Moves(p, t)
  PROVE  Born'
<1> USE DEF Writes
<1>1. ASSUME NEW path, \A q \in Processes : \A i \in DOMAIN call[q].steps :
                         ~Writes(call[q].steps[i], path)
      PROVE  Exists(files', path) => Exists(files, path)
  BY <1>1, Underway DEF Moves, Wrote, Removed, Put, Drop, Exists
<1>2. ASSUME NEW x \in Changeset
      PROVE  (Exists(files', ProposalFile(x)) \/ Exists(files', ChangesetFile(x)))
             => lineage'[x] # {}
  <2>1. lineage' = lineage
    BY DEF Moves
  <2>2. CASE lineage[x] = {}
    BY <1>1, <2>1, <2>2 DEF Born, Stored
  <2> QED
    BY <2>1, <2>2
<1>3. ASSUME NEW x \in Changeset, NEW q \in Processes, NEW i \in DOMAIN call'[q].steps,
             Writes(call'[q].steps[i], ChangesetFile(x))
      PROVE  lineage'[x] # {}
  <2>1. PICK k \in DOMAIN call[q].steps : call'[q].steps[i] = call[q].steps[k]
    BY FewerSteps
  <2> QED
    BY <1>3, <2>1 DEF Born, Moves
<1>4. ASSUME NEW x \in Changeset, NEW q \in Processes, NEW i \in DOMAIN call'[q].steps,
             Writes(call'[q].steps[i], ProposalFile(x))
      PROVE  /\ lineage'[x] # {}
             /\ ~Intact(files', ProposalFile(x)) /\ ~Exists(files', ChangesetFile(x))
             /\ ProposalEvidenceFile(x) \in call'[q].paths
             /\ \A r \in Processes : \A j \in DOMAIN call'[r].steps :
                  /\ ~Writes(call'[r].steps[j], ChangesetFile(x))
                  /\ Writes(call'[r].steps[j], ProposalFile(x)) => r = q /\ j = i
  <2>1. PICK k \in DOMAIN call[q].steps :
          /\ call'[q].steps[i] = call[q].steps[k]
          /\ \/ call'[q].steps = call[q].steps /\ k = i
             \/ /\ q = p /\ call'[q].steps = Tail(call[q].steps) /\ k = i + 1
                /\ Wrote(p, Next1(p).text) \/ Removed(p)
    <3>1. CASE call'[q].steps = call[q].steps
      BY <3>1
    <3>2. CASE /\ q = p /\ call'[q].steps = Tail(call[q].steps)
               /\ Wrote(p, Next1(p).text) \/ Removed(p)
      <4>1. i + 1 \in DOMAIN call[q].steps /\ call'[q].steps[i] = call[q].steps[i + 1]
        BY <3>2, Underway
      <4> QED
        BY <3>2, <4>1
    <3> QED
      BY <3>1, <3>2, FewerSteps
  <2>2. /\ lineage[x] # {} /\ ~Intact(files, ProposalFile(x)) /\ ~Stored(x)
        /\ ProposalEvidenceFile(x) \in call[q].paths
        /\ \A r \in Processes : \A j \in DOMAIN call[r].steps :
             /\ ~Writes(call[r].steps[j], ChangesetFile(x))
             /\ Writes(call[r].steps[j], ProposalFile(x)) => r = q /\ j = k
    BY <1>4, <2>1 DEF Born
  <2>3. ~Exists(files', ChangesetFile(x))
    BY <1>1, <2>2 DEF Stored
  <2>4. ~Intact(files', ProposalFile(x))
    <3>1. ASSUME Intact(files', ProposalFile(x)) PROVE FALSE
      <4>1. Wrote(p, Next1(p).text) /\ Next1(p).path = ProposalFile(x)
        <5>1. ~UNCHANGED files
          BY <2>2, <3>1
        <5>2. CASE Wrote(p, Torn)
          BY <2>2, <3>1, <5>2 DEF Wrote, Put, Intact
        <5>3. CASE Removed(p)
          BY <2>2, <3>1, <5>3 DEF Removed, Drop, Intact
        <5>4. CASE Wrote(p, Next1(p).text)
          BY <2>2, <3>1, <5>4 DEF Wrote, Put, Intact
        <5> QED
          BY <5>1, <5>2, <5>3, <5>4 DEF Moves
      <4>2. p = q /\ k = 1
        <5>1. Next1(p) = call[p].steps[1] /\ 1 \in DOMAIN call[p].steps
          BY Underway
        <5> QED
          BY <2>2, <4>1, <5>1 DEF Wrote
      <4>3. CASE call'[q].steps = call[q].steps
        <5>1. t = call[p].steps
          BY <4>2, <4>3 DEF Moves
        <5>2. Len(call[p].steps) \in Nat \ {0} /\ DOMAIN call[p].steps = 1..Len(call[p].steps)
              /\ DOMAIN Tail(call[p].steps) = 1..(Len(call[p].steps) - 1)
              /\ call[p].steps # <<>>
          BY Underway
        <5>3. t # Tail(call[p].steps) /\ t # <<>>
          <6>1. Len(call[p].steps) \in 1..Len(call[p].steps)
                /\ Len(call[p].steps) \notin 1..(Len(call[p].steps) - 1)
            BY <5>2
          <6> QED
            BY <5>1, <5>2, <6>1
        <5>4. Wrote(p, Torn)
          BY <5>3 DEF Moves
        <5> QED
          BY <2>2, <3>1, <5>4 DEF Wrote, Put, Intact
      <4>4. CASE k = i + 1 /\ call'[q].steps = Tail(call[q].steps)
        <5>1. i \in Nat \ {0}
          BY <4>2, <4>4, <1>4, Underway
        <5> QED
          BY <4>2, <4>4, <5>1
      <4> QED
        BY <2>1, <4>3, <4>4
    <3> QED
      BY <3>1
  <2>5. ASSUME NEW r \in Processes, NEW j \in DOMAIN call'[r].steps
        PROVE  /\ ~Writes(call'[r].steps[j], ChangesetFile(x))
               /\ Writes(call'[r].steps[j], ProposalFile(x)) => r = q /\ j = i
    <3>1. PICK n \in DOMAIN call[r].steps : call'[r].steps[j] = call[r].steps[n]
      BY FewerSteps
    <3>2. ~Writes(call'[r].steps[j], ChangesetFile(x))
      BY <2>2, <3>1
    <3>3. ASSUME Writes(call'[r].steps[j], ProposalFile(x)) PROVE r = q /\ j = i
      <4>1. r = q /\ n = k
        BY <2>2, <3>1, <3>3
      <4>2. CASE call'[q].steps = call[q].steps /\ k = i
        BY <2>2, <3>3, <4>1, <4>2
      <4>3. CASE q = p /\ call'[q].steps = Tail(call[q].steps) /\ k = i + 1
        <5>1. j + 1 \in DOMAIN call[q].steps /\ call'[q].steps[j] = call[q].steps[j + 1]
              /\ i \in Nat /\ j \in Nat
          BY <4>1, <4>3, Underway
        <5>2. j + 1 = k
          BY <2>2, <3>3, <4>1, <5>1
        <5> QED
          BY <4>1, <4>3, <5>1, <5>2
      <4> QED
        BY <2>1, <4>1, <4>2, <4>3
    <3> QED
      BY <3>2, <3>3
  <2>6. ProposalEvidenceFile(x) \in call'[q].paths /\ lineage' = lineage
    BY <2>2, FewerSteps DEF Moves
  <2> QED
    BY <2>2, <2>3, <2>4, <2>5, <2>6
<1> QED
  BY <1>2, <1>3, <1>4 DEF Born, Stored

\* What graph.yaml names was built when the call began that writes it.
LEMMA KnownStays ==
  ASSUME StoreInv, Known, NEW p \in Processes, ~Idle(p), NEW t, Moves(p, t)
  PROVE  Known'
<1>1. lineage' = lineage
  BY DEF Moves
<1>2. Intact(files', GraphYaml) => IsBuilt(files'[GraphYaml].id)
  <2>1. /\ Next1(p) = call[p].steps[1] /\ 1 \in DOMAIN call[p].steps
    BY Underway
  <2>2. Writes(Next1(p), GraphYaml) => IsBuilt(Next1(p).text.id)
    BY <2>1 DEF Known
  <2>3. CASE files' = files
    BY <2>3 DEF Known
  <2>4. CASE Wrote(p, Torn)
    BY <2>4 DEF Known, Wrote, Put, Intact
  <2>5. CASE Wrote(p, Next1(p).text)
    BY <2>2, <2>5 DEF Known, Wrote, Put, Intact, Writes
  <2>6. CASE Removed(p)
    BY <2>6 DEF Known, Removed, Drop, Intact
  <2> QED
    BY <2>3, <2>4, <2>5, <2>6 DEF Moves
<1>3. ASSUME NEW q \in Processes, NEW i \in DOMAIN call'[q].steps,
             Writes(call'[q].steps[i], GraphYaml)
      PROVE  IsBuilt(call'[q].steps[i].text.id)
  <2>1. PICK k \in DOMAIN call[q].steps : call'[q].steps[i] = call[q].steps[k]
    BY FewerSteps
  <2> QED
    BY <1>3, <2>1 DEF Known
<1> QED
  BY <1>1, <1>2, <1>3 DEF Known, IsBuilt, Writes

\* What is removed has been admitted before.
LEMMA OrderedStays ==
  ASSUME StoreInv, NEW p \in Processes, ~Idle(p), NEW t, Moves(p, t),
         NEW q \in Processes, Ordered(call[q].steps, call[q].paths),
         NEW v, v = call'[q].steps, NEW paths, paths = call'[q].paths
  PROVE  Ordered(v, paths)'
<1> DEFINE u == call[q].steps
<1>1. Broken \subseteq Broken'
  BY DEF Moves, Broken
<1>2. \A x : Stored(x) => Exists(files', ChangesetFile(x))
  <2>1. \A x : ~Erases(Next1(p), ChangesetFile(x))
    BY Underway, MoreKinds DEF Erases, Removable
  <2> QED
    BY <2>1 DEF Moves, Wrote, Removed, Put, Drop, Exists, Erases, Stored
<1> SUFFICES ASSUME NEW i \in DOMAIN v
             PROVE  /\ v[i].verb = "write" => v[i].text # Torn \/ v[i].path \in Broken'
                    /\ \A x : Erases(v[i], ProposalFile(x)) =>
                         /\ EvidenceFile(x) \in paths
                         /\ \/ Exists(files', ChangesetFile(x))
                            \/ \E j \in 1..(i - 1) : Writes(v[j], ChangesetFile(x))
  BY DEF Ordered, Erases, Writes, Stored
<1>3. CASE v = u
  <2>1. paths = call[q].paths
    BY FewerSteps
  <2> QED
    BY <1>1, <1>2, <1>3, <2>1 DEF Ordered
<1>4. CASE q = p /\ v = Tail(u) /\ (Wrote(p, Next1(p).text) \/ Removed(p))
  <2>1. /\ DOMAIN u = 1..Len(u) /\ Len(u) \in Nat /\ Next1(p) = u[1]
        /\ DOMAIN v = 1..(Len(u) - 1) /\ \A k \in DOMAIN v : v[k] = u[k + 1]
    <3>1. u = call[p].steps /\ v = Tail(u)
      BY <1>4
    <3> QED
      BY <3>1, Underway
  <2>2. i \in Nat /\ (i + 1) - 1 = i /\ i + 1 \in DOMAIN u /\ v[i] = u[i + 1]
    <3>1. i \in 1..(Len(u) - 1)
      BY <2>1
    <3>2. i \in Nat /\ (i + 1) - 1 = i /\ i + 1 \in 1..Len(u)
      BY <2>1, <3>1
    <3> QED
      BY <2>1, <3>2
  <2>3. paths = call[q].paths
    BY FewerSteps
  <2>4. ASSUME NEW x, NEW j \in 1..i, Writes(u[j], ChangesetFile(x))
        PROVE  \/ Exists(files', ChangesetFile(x))
               \/ \E k \in 1..(i - 1) : Writes(v[k], ChangesetFile(x))
    <3>1. CASE j = 1
      BY <1>4, <2>1, <2>4, <3>1 DEF Wrote, Removed, Put, Exists, Writes
    <3>2. CASE j # 1
      <4>0. i \in 1..(Len(u) - 1)
        BY <2>1
      <4>1. j - 1 \in 1..(i - 1) /\ j - 1 \in 1..(Len(u) - 1) /\ (j - 1) + 1 = j
        BY <2>1, <3>2, <4>0
      <4> QED
        BY <2>1, <2>4, <4>1
    <3> QED
      BY <3>1, <3>2
  <2> QED
    BY <1>1, <1>2, <2>2, <2>3, <2>4 DEF Ordered
<1> QED
  BY <1>3, <1>4, FewerSteps

\* An empty file is one that is being written, or was left so.
LEMMA EmptyStays ==
  ASSUME StoreInv, EmptyIsShaken, NEW p \in Processes, ~Idle(p),
         Ordered(call[p].steps, call[p].paths),
         Open(p) \/ Fill(p) \/ Unlink(p) \/ KeyExists(p) \/ Interrupt(p)
  PROVE  EmptyIsShaken'
<1> DEFINE path == Next1(p).path
<1>1. PICK c : call' = [call EXCEPT ![p] = c]
  BY DEF Open, Fill, Unlink, KeyExists, Interrupt, Advance
<1>2. contended' = contended /\ torn \subseteq torn'
  BY DEF Open, Fill, Unlink, KeyExists, Interrupt
<1>3. /\ \A y \in Shaken : y \in Shaken' \/ y \in LeftEmpty(p)
      /\ torn \cup contended \subseteq Shaken'
  BY <1>1, <1>2, ShakenStays
<1>4. call[p].opened => Next1(p).verb = "write"
  BY DEF StoreInv, Calls, Next1
<1>5. CASE Open(p)
  <2>1. files' = Put(files, path, Torn) /\ ~call[p].opened
    BY <1>5 DEF Open
  <2>2. call'[p] = Doing(call[p].steps, TRUE, call[p].reports, call[p].paths)
    BY <1>5 DEF Open, StoreInv
  <2>3. ~Idle(p)' /\ Next1(p)' = Next1(p) /\ call'[p].opened
    BY <2>2 DEF Idle, Next1, Doing
  <2>4. path \in Shaken'
    BY <2>3 DEF Shaken, Opened, Running, LeftEmpty
  <2>5. LeftEmpty(p) = {}
    BY <2>1 DEF LeftEmpty
  <2> QED
    BY <1>3, <2>1, <2>4, <2>5 DEF EmptyIsShaken, Put
<1>6. CASE Fill(p)
  <2>1. files' = Put(files, path, Next1(p).text) /\ LeftEmpty(p) = {path}
    BY <1>6 DEF Fill, LeftEmpty
  <2>2. Next1(p).text # Torn \/ path \in Broken
    BY <1>4, <1>6, Underway DEF Ordered, Fill
  <2> QED
    BY <1>3, <2>1, <2>2 DEF EmptyIsShaken, Put, Broken
<1>7. CASE Unlink(p)
  <2>1. files' = Drop(files, path) /\ LeftEmpty(p) = {}
    BY <1>4, <1>7 DEF Unlink, LeftEmpty
  <2> QED
    BY <1>3, <2>1 DEF EmptyIsShaken, Drop
<1>8. CASE KeyExists(p) \/ Interrupt(p)
  <2>1. files' = files /\ LeftEmpty(p) \subseteq torn'
    BY <1>8 DEF KeyExists, Interrupt, LeftEmpty
  <2> QED
    BY <1>2, <1>3, <2>1 DEF EmptyIsShaken, Shaken
<1> QED
  BY <1>5, <1>6, <1>7, <1>8

\* A step keeps what was reported, and what is yet to be.
LEMMA AckStep ==
  ASSUME AckInv, KeyInv', NEW p \in Processes, ~Idle(p),
         Open(p) \/ Fill(p) \/ Unlink(p) \/ KeyExists(p) \/ Interrupt(p)
  PROVE  AckInv'
<1>1. StoreInv /\ Born /\ Known /\ Ordered(call[p].steps, call[p].paths)
  BY DEF AckInv, KeyInv
<1>2. PICK t : /\ Moves(p, t)
               /\ t # <<>> =>
                    call'[p].reports = call[p].reports /\ Become(p, call[p].steps, t)
               /\ \/ acked' = acked
                  \/ /\ t = <<>> /\ Become(p, call[p].steps, t)
                     /\ acked' = acked \cup ({call[p].reports} \ {None})
  BY <1>1, StepMoves
<1>3. EmptyIsShaken' /\ Born' /\ Known'
  BY <1>1, <1>2, EmptyStays, BornStays, KnownStays DEF AckInv
<1>4. \A q \in Processes : Ordered(call[q].steps, call[q].paths)'
  <2>1. ASSUME NEW q \in Processes, NEW v, v = call'[q].steps,
               NEW paths, paths = call'[q].paths
        PROVE  Ordered(v, paths)'
    BY <1>1, <1>2, <2>1, OrderedStays DEF AckInv
  <2> QED
    BY <2>1
<1>5. ASSUME NEW fact \in acked' PROVE Kept(fact, <<>>)'
  <2>1. CASE fact \in acked
    BY <1>1, <1>2, <2>1, KeptStays DEF AckInv, Become
  <2>2. CASE fact \notin acked
    <3>1. t = <<>> /\ Become(p, call[p].steps, t) /\ fact = call[p].reports /\ fact # None
      BY <1>2, <1>5, <2>2
    <3>2. Kept(fact, call[p].steps)
      BY <3>1 DEF AckInv
    <3> QED
      BY <1>1, <1>2, <3>1, <3>2, KeptStays
  <2> QED
    BY <2>1, <2>2
<1>6. ASSUME NEW q \in Processes, call'[q].steps # <<>>, call'[q].reports # None,
             NEW fact, fact = call'[q].reports, NEW v, v = call'[q].steps
      PROVE  Kept(fact, v)'
  <2>1. CASE q # p
    <3>1. call'[q] = call[q]
      BY <1>2, <2>1 DEF Moves
    <3>2. Kept(fact, v)
      BY <1>6, <3>1 DEF AckInv, Idle
    <3> QED
      BY <1>1, <1>2, <3>2, KeptStays DEF Become
  <2>2. CASE q = p
    <3>1. t = v /\ t # <<>>
      BY <1>2, <1>6, <2>2 DEF Moves
    <3>2. fact = call[p].reports /\ Become(p, call[p].steps, t)
      BY <1>2, <1>6, <2>2, <3>1
    <3>3. Kept(fact, call[p].steps)
      BY <1>6, <2>2, <3>2 DEF AckInv
    <3> QED
      BY <1>1, <1>2, <3>1, <3>2, <3>3, KeptStays
  <2> QED
    BY <2>1, <2>2
<1>7. \A q \in Processes :
        (~Idle(q) /\ call[q].reports # None => Kept(call[q].reports, call[q].steps))'
  BY <1>6 DEF Idle
<1> QED
  BY <1>3, <1>4, <1>5, <1>7 DEF AckInv

-----------------------------------------------------------------------------
\* A new call: the steps s of a flow that builds b, and what it is to report.

\* A write leaves the files that other calls rely on as they must be: the text
\* is a document, what was built may be stored, and what is written over
\* decisions, envelopes and measurements on file is derived from them.
Heedful(step, b) ==
  step.verb = "write" =>
    /\ step.text # Torn \/ (Exists(files, step.path) /\ ~Intact(files, step.path))
    /\ \A x : step.path = ChangesetFile(x) =>
                (x = b /\ lineage[x] = {}) \/ Intact(files, ProposalFile(x))
    /\ \A x : step.path = ProposalEvidenceFile(x) =>
                lineage[x] = {} \/ \E d : step.text = WithDecision(files, x, d)
    /\ \A x : step.path = EvidenceFile(x) =>
                \/ lineage[x] = {} \/ Intact(files, ProposalFile(x))
                \/ \E by : step.text = WithEnvelope(files, x, by)
    /\ step.path = GraphYaml =>
         \/ step.text.id = b /\ b \in Changeset /\ lineage[b] = {}
         \/ Intact(files, GraphYaml) /\ \E m : step.text = WithTrusted(files, m)

\* A proposal is of what is built, and stored with its decisions and nothing else.
Proposed(s, b, i, x) ==
  /\ x = b /\ lineage[x] = {} /\ ProposalEvidenceFile(x) \in Paths(s)
  /\ \A j \in DOMAIN s : /\ ~Writes(s[j], ChangesetFile(x))
                         /\ Writes(s[j], ProposalFile(x)) => j = i

\* The decisions on x move to the log before they are removed.
Moved(s, i, x) ==
  /\ EvidenceFile(x) \in Paths(s)
  /\ \E d : \A j \in DOMAIN s :
       /\ Writes(s[j], EvidenceFile(x)) => s[j].text = WithDecision(files, x, d)
       /\ ~Writes(s[j], ProposalFile(x))
  /\ \E j \in 1..(i - 1) : Writes(s[j], EvidenceFile(x))
  /\ \E j \in 1..(i - 1) : Erases(s[j], ProposalFile(x))

Sound(s, b) ==
  \A i \in DOMAIN s :
    /\ Heedful(s[i], b)
    /\ \A x : Writes(s[i], ProposalFile(x)) => Proposed(s, b, i, x)
    /\ \A x : Erases(s[i], ProposalEvidenceFile(x)) => Moved(s, i, x)
    /\ \A x : Erases(s[i], ProposalFile(x)) =>
         /\ EvidenceFile(x) \in Paths(s)
         /\ \E j \in 1..(i - 1) : Writes(s[j], ChangesetFile(x))

\* The steps write the path, and always that text.
WritesOnly(s, path, text) ==
  /\ \E i \in DOMAIN s : Writes(s[i], path)
  /\ \A i \in DOMAIN s : Writes(s[i], path) => s[i].text = text

\* What is reported will have been written.
Honest(s, fact) ==
  LET x == fact[2]
      with == WithDecision(files, x, <<fact[3], fact[1]>>)
  IN
  CASE fact[1] = "admitted" -> \E i \in DOMAIN s : Writes(s[i], ChangesetFile(x))
    [] fact[1] = "held" -> \E i \in DOMAIN s : Writes(s[i], ProposalFile(x))
    [] fact[1] \in {"approve", "reject"} ->
         /\ x \in Changeset /\ Exists(files, ProposalFile(x))
         /\ \/ /\ WritesOnly(s, ProposalEvidenceFile(x), with)
               /\ \A i \in DOMAIN s : ~Erases(s[i], ProposalEvidenceFile(x))
            \/ /\ Intact(files, ProposalFile(x))
               /\ WritesOnly(s, EvidenceFile(x), with)
               /\ \E i \in DOMAIN s : Erases(s[i], ProposalFile(x))
    [] fact[1] = "attested" ->
         /\ x \in Changeset /\ Stored(x) /\ ~Exists(files, ProposalFile(x))
         /\ WritesOnly(s, EvidenceFile(x), WithEnvelope(files, x, fact[3]))
    [] fact[1] = "trusted" ->
         /\ IsBuilt(fact[3]) /\ Intact(files, GraphYaml)
         /\ WritesOnly(s, GraphYaml, WithTrusted(files, x))
    [] fact[1] = "attested early" -> TRUE
    [] fact[1] = "checkpoint" -> \E i \in DOMAIN s : Writes(s[i], CheckpointFile(x))
    [] OTHER -> \E g \in Founding : \E i \in DOMAIN s : Writes(s[i], UserKey(g, x))

\* Process p begins a call; a file of another call, or one that is empty, is
\* broken from now on.
Starts(p, s, reports, b) ==
  /\ Idle(p)
  /\ \A q \in Processes : q # p => call'[q] = call[q]
  /\ call'[p].steps = s /\ call'[p].paths = Paths(s) /\ call'[p].reports = reports
  /\ UNCHANGED <<files, acked>>
  /\ Broken \subseteq Broken'
  /\ \A x \in Changeset : lineage[x] # {} \/ x = b => lineage'[x] # {}
  /\ \A q \in Processes : q # p => Paths(s) \cap call[q].paths \subseteq Broken'
  /\ \A path \in Paths(s) :
       Exists(files, path) /\ ~Intact(files, path) => path \in Broken'
  /\ s # <<>>

\* The call of another process writes a file that this one writes too.
LEMMA OthersBreak ==
  ASSUME StoreInv, NEW p \in Processes, NEW s, NEW reports, NEW b,
         Starts(p, s, reports, b),
         NEW q \in Processes, q # p, NEW i \in DOMAIN call[q].steps,
         call[q].steps[i].path \in Paths(s)
  PROVE  call[q].steps[i].path \in Broken'
<1>1. ~Idle(q)
  BY DEF Idle
<1>2. call[q].steps[i].path \in call[q].paths
  BY <1>1, Underway
<1> QED
  BY <1>2 DEF Starts

\* A process that begins a call keeps what is proposed to itself.
LEMMA BornWithCall ==
  ASSUME StoreInv, Born, NEW p \in Processes, NEW s, NEW reports, NEW b,
         Starts(p, s, reports, b), Sound(s, b)
  PROVE  Born'
<1>1. files' = files /\ \A q \in Processes : q # p => call'[q] = call[q]
  BY DEF Starts
<1>2. ASSUME NEW x \in Changeset, NEW q \in Processes, NEW i \in DOMAIN call'[q].steps,
             Writes(call'[q].steps[i], ChangesetFile(x))
      PROVE  lineage'[x] # {}
  <2>1. CASE q = p
    <3>1. i \in DOMAIN s /\ Writes(s[i], ChangesetFile(x))
      BY <1>2, <2>1 DEF Starts
    <3>2. (x = b /\ lineage[x] = {}) \/ Intact(files, ProposalFile(x))
      BY <3>1 DEF Sound, Heedful, Writes
    <3> QED
      BY <3>2 DEF Born, Starts, Intact, Exists
  <2>2. CASE q # p
    BY <1>1, <1>2, <2>2 DEF Born, Starts
  <2> QED
    BY <2>1, <2>2
<1>3. ASSUME NEW x \in Changeset, NEW q \in Processes, NEW i \in DOMAIN call'[q].steps,
             Writes(call'[q].steps[i], ProposalFile(x))
      PROVE  /\ lineage'[x] # {}
             /\ ~Intact(files', ProposalFile(x)) /\ ~Exists(files', ChangesetFile(x))
             /\ ProposalEvidenceFile(x) \in call'[q].paths
             /\ \A w \in Processes : \A j \in DOMAIN call'[w].steps :
                  /\ ~Writes(call'[w].steps[j], ChangesetFile(x))
                  /\ Writes(call'[w].steps[j], ProposalFile(x)) => w = q /\ j = i
  <2>1. CASE q = p
    <3>1. Proposed(s, b, i, x) /\ i \in DOMAIN s
      BY <1>3, <2>1 DEF Starts, Sound
    <3>2. ~Exists(files, ProposalFile(x)) /\ ~Stored(x)
      BY <3>1 DEF Born, Proposed
    <3>3. \A w \in Processes : w # p => \A j \in DOMAIN call[w].steps :
            /\ ~Writes(call[w].steps[j], ChangesetFile(x))
            /\ ~Writes(call[w].steps[j], ProposalFile(x))
      BY <3>1 DEF Born, Proposed
    <3> QED
      BY <1>1, <2>1, <3>1, <3>2, <3>3 DEF Proposed, Starts, Exists, Intact, Stored
  <2>2. CASE q # p
    <3>1. /\ lineage[x] # {} /\ ~Intact(files, ProposalFile(x)) /\ ~Stored(x)
          /\ ProposalEvidenceFile(x) \in call[q].paths
          /\ \A w \in Processes : \A j \in DOMAIN call[w].steps :
               /\ ~Writes(call[w].steps[j], ChangesetFile(x))
               /\ Writes(call[w].steps[j], ProposalFile(x)) => w = q /\ j = i
      BY <1>1, <1>3, <2>2 DEF Born
    <3>2. \A j \in DOMAIN s : /\ ~Writes(s[j], ChangesetFile(x))
                              /\ ~Writes(s[j], ProposalFile(x))
      BY <3>1 DEF Sound, Heedful, Proposed, Writes
    <3> QED
      BY <1>1, <2>2, <3>1, <3>2 DEF Starts, Stored
  <2> QED
    BY <2>1, <2>2
<1>4. \A x \in Changeset : (Exists(files', ProposalFile(x)) \/ Exists(files', ChangesetFile(x)))
                           => lineage'[x] # {}
  BY <1>1 DEF Born, Starts, Stored
<1> QED
  BY <1>2, <1>3, <1>4 DEF Born, Stored

\* A measurement is added to those there are.
LEMMA TrustedBear ==
  ASSUME KeyInv, NEW m, Intact(files, GraphYaml)
  PROVE  /\ WithTrusted(files, m) # Torn
         /\ WithTrusted(files, m).id = files[GraphYaml].id
         /\ \A fact : fact[1] = "trusted" =>
              /\ fact[2] = m => Bears(WithTrusted(files, m), fact)
              /\ Bears(files[GraphYaml], fact) => Bears(WithTrusted(files, m), fact)
<1>1. PICK g, t : g \in Founding /\ files[GraphYaml] = [id |-> g, trusted |-> t]
  BY DEF KeyInv, GraphDoc
<1>2. WithTrusted(files, m) = [id |-> g, trusted |-> t \cup {m}]
  BY <1>1 DEF WithTrusted
<1>3. /\ WithTrusted(files, m).trusted = t \cup {m} /\ files[GraphYaml].trusted = t
      /\ WithTrusted(files, m).id = g /\ files[GraphYaml].id = g
  BY <1>1, <1>2
<1>4. WithTrusted(files, m) # Torn
  <2>1. [id |-> g, trusted |-> t \cup {m}] # Torn
    BY DEF Torn
  <2> QED
    BY <1>2, <2>1
<1> QED
  BY <1>3, <1>4 DEF Bears

\* It has graph.yaml name what it builds, or what was named already.
LEMMA KnownWithCall ==
  ASSUME KeyInv, Known, NEW p \in Processes, NEW s, NEW reports, NEW b,
         Starts(p, s, reports, b), Sound(s, b)
  PROVE  Known'
<1>1. files' = files /\ \A q \in Processes : q # p => call'[q] = call[q]
  BY DEF Starts
<1>2. \A x : IsBuilt(x) => IsBuilt(x)'
  BY DEF Starts, IsBuilt
<1>3. b \in Changeset => IsBuilt(b)'
  BY DEF Starts, IsBuilt
<1>4. ASSUME NEW q \in Processes, NEW i \in DOMAIN call'[q].steps,
             Writes(call'[q].steps[i], GraphYaml), NEW g, g = call'[q].steps[i].text.id
      PROVE  IsBuilt(g)'
  <2>1. CASE q = p
    <3>1. i \in DOMAIN s /\ Writes(s[i], GraphYaml) /\ g = s[i].text.id
      BY <1>4, <2>1 DEF Starts
    <3>2. CASE g = b /\ b \in Changeset
      BY <1>3, <3>2
    <3>3. CASE Intact(files, GraphYaml) /\ \E m : s[i].text = WithTrusted(files, m)
      <4>1. g = files[GraphYaml].id
        BY <3>1, <3>3, TrustedBear
      <4>2. IsBuilt(g)
        BY <3>3, <4>1 DEF Known
      <4> QED
        BY <1>2, <4>2
    <3> QED
      BY <3>1, <3>2, <3>3 DEF Sound, Heedful, Writes
  <2>2. CASE q # p
    BY <1>1, <1>2, <1>4, <2>2 DEF Known
  <2> QED
    BY <2>1, <2>2
<1> QED
  BY <1>1, <1>2, <1>4 DEF Known, Writes

\* It removes a proposal that is in the log by then.
LEMMA OrderedWithCall ==
  ASSUME NEW p \in Processes, NEW s, NEW reports, NEW b,
         Starts(p, s, reports, b), Sound(s, b),
         \A q \in Processes : Ordered(call[q].steps, call[q].paths)
  PROVE  \A q \in Processes : Ordered(call[q].steps, call[q].paths)'
<1>1. files' = files /\ Broken \subseteq Broken'
  BY DEF Starts
<1>2. ASSUME NEW u, NEW paths, Ordered(u, paths) PROVE Ordered(u, paths)'
  BY <1>1, <1>2 DEF Ordered, Stored, Erases, Writes
<1>3. Ordered(s, Paths(s))'
  <2>1. \A i \in DOMAIN s : s[i].path \in Paths(s)
    BY DEF Paths
  <2> QED
    BY <2>1 DEF Ordered, Sound, Heedful, Starts, Erases, Writes
<1>4. ASSUME NEW q \in Processes, NEW u, u = call'[q].steps, NEW paths, paths = call'[q].paths
      PROVE  Ordered(u, paths)'
  <2>1. CASE q = p
    BY <1>3, <1>4, <2>1 DEF Starts
  <2>2. CASE q # p
    <3>1. u = call[q].steps /\ paths = call[q].paths
      BY <1>4, <2>2 DEF Starts
    <3> QED
      BY <1>2, <3>1
  <2> QED
    BY <2>1, <2>2
<1> QED
  BY <1>4

\* The steps that another call has left, or none.
Elsewhere(p, u) ==
  u = <<>> \/ \E q \in Processes \ {p} : u = call[q].steps /\ Ordered(u, call[q].paths)

\* What is to be kept in a file that the new call writes is there already,
\* for the call to read.
LEMMA AlreadyThere ==
  ASSUME StoreInv, NEW p \in Processes, NEW s, NEW reports, NEW b,
         Starts(p, s, reports, b), NEW u, Elsewhere(p, u),
         NEW path \in Paths(s), path \notin Broken', NEW fact, Will(u, path, fact)
  PROVE  Intact(files, path) /\ Bears(files[path], fact)
<1>1. ASSUME NEW i \in DOMAIN u, Writes(u[i], path) PROVE FALSE
  <2>1. PICK q \in Processes \ {p} : u = call[q].steps
    BY <1>1 DEF Elsewhere
  <2> QED
    BY <1>1, <2>1, OthersBreak DEF Writes
<1>2. Has(path, fact)
  BY <1>1 DEF Will
<1>3. Intact(files, path)
  BY <1>2 DEF Starts, Has
<1> QED
  BY <1>2, <1>3 DEF Has, Intact

\* A decision or an envelope is derived from what is there.
LEMMA DerivedBear ==
  ASSUME NEW x, NEW fact, NEW d
  PROVE  /\ (/\ fact[1] \in {"approve", "reject"}
             /\ Intact(files, ProposalEvidenceFile(x))
             /\ Bears(files[ProposalEvidenceFile(x)], fact))
            => Bears(WithDecision(files, x, d), fact)
         /\ (/\ fact[1] \in {"approve", "reject", "attested"}
             /\ Intact(files, EvidenceFile(x)) /\ Bears(files[EvidenceFile(x)], fact))
            => Bears(WithEnvelope(files, x, d), fact)
<1>1. /\ \A y : y \in EvidenceIn(files, ProposalEvidenceFile(x)).decisions
                => y \in WithDecision(files, x, d).decisions
  BY DEF WithDecision
<1>2. ASSUME Intact(files, EvidenceFile(x))
      PROVE  /\ \A y : y \in files[EvidenceFile(x)].decisions
                       => y \in WithEnvelope(files, x, d).decisions
             /\ \A y : y \in files[EvidenceFile(x)].envelopes
                       => y \in WithEnvelope(files, x, d).envelopes
  <2>1. PICK old : old = files[EvidenceFile(x)]
    OBVIOUS
  <2>2. WithEnvelope(files, x, d) = AddEnvelope(old, d)
    BY <1>2, <2>1 DEF WithEnvelope, EvidenceIn
  <2>3. /\ AddEnvelope(old, d).decisions = old.decisions
        /\ AddEnvelope(old, d).envelopes = old.envelopes \cup {d}
    BY DEF AddEnvelope
  <2> QED
    BY <2>1, <2>2, <2>3
<1> QED
  BY <1>1, <1>2 DEF Bears, EvidenceIn

\* A new call takes nothing away that is kept.
LEMMA KeptWithCall ==
  ASSUME KeyInv, Born, NEW p \in Processes, NEW s, NEW reports, NEW b,
         Starts(p, s, reports, b), Sound(s, b),
         NEW u, Elsewhere(p, u), NEW fact, Kept(fact, u)
  PROVE  Kept(fact, u)'
<1> DEFINE x == fact[2]
           pend == ProposalEvidenceFile(x)
           ev == EvidenceFile(x)
<1>0. StoreInv
  BY DEF KeyInv
<1>1. files' = files /\ Broken \subseteq Broken'
  BY DEF Starts
<1>2. \A path : Will(u, path, fact) => Will(u, path, fact)'
  BY <1>1 DEF Will, Has, Writes, Bears
<1>3. \A path : Has(path, fact) => Has(path, fact)'
  BY <1>1 DEF Has, Bears
<1>4. \A y \in Changeset : lineage[y] # {} => lineage'[y] # {}
  BY DEF Starts
<1>5. \A q \in Processes : q # p => call'[q] = call[q]
  BY DEF Starts
<1>6. \A i \in DOMAIN s : s[i].path \in Paths(s)
  BY DEF Paths
<1>7. ASSUME NEW path, AllBear(path, fact),
             \A i \in DOMAIN s : Writes(s[i], path) => Bears(s[i].text, fact)
      PROVE  AllBear(path, fact)'
  <2>1. ASSUME NEW q \in Processes, NEW i \in DOMAIN call'[q].steps,
               Writes(call'[q].steps[i], path)
        PROVE  Bears(call'[q].steps[i].text, fact)
    <3>1. CASE q = p
      BY <1>7, <2>1, <3>1 DEF Starts
    <3>2. CASE q # p
      BY <1>5, <1>7, <2>1, <3>2 DEF AllBear
    <3> QED
      BY <3>1, <3>2
  <2> QED
    BY <2>1 DEF AllBear, Writes, Bears
<1>8. ASSUME fact[1] \in {"approve", "reject"}, Inboxed(u, fact, x), pend \notin Broken'
      PROVE  Inboxed(u, fact, x)'
  <2>1. /\ x \in Changeset /\ lineage[x] # {} /\ Will(u, pend, fact) /\ AllBear(pend, fact)
        /\ \A q \in Processes : Settles(call[q].steps, call[q].paths, fact, x)
    BY <1>8 DEF Inboxed
  <2>2. \A d : pend \in Paths(s) => Bears(WithDecision(files, x, d), fact)
    BY <1>0, <1>8, <2>1, AlreadyThere, DerivedBear
  <2>3. ASSUME NEW i \in DOMAIN s, Writes(s[i], pend) PROVE Bears(s[i].text, fact)
    <3>1. \E d : s[i].text = WithDecision(files, x, d)
      BY <2>1, <2>3 DEF Sound, Heedful, Writes
    <3>2. pend \in Paths(s)
      BY <1>6, <2>3 DEF Writes
    <3> QED
      BY <2>2, <3>1, <3>2
  <2>4. AllBear(pend, fact)'
    BY <1>7, <2>1, <2>3
  <2>5. ASSUME NEW i \in DOMAIN s, Erases(s[i], pend)
        PROVE  /\ ev \in Paths(s)
               /\ \A j \in DOMAIN s : /\ Writes(s[j], ev) => Bears(s[j].text, fact)
                                      /\ ~Writes(s[j], ProposalFile(x))
               /\ \E j \in 1..(i - 1) : Writes(s[j], ev)
               /\ \E j \in 1..(i - 1) : Erases(s[j], ProposalFile(x))
    <3>1. Moved(s, i, x)
      BY <2>5 DEF Sound
    <3>2. pend \in Paths(s)
      BY <1>6, <2>5 DEF Erases
    <3> QED
      BY <2>2, <3>1, <3>2 DEF Moved
  <2>6. Settles(s, Paths(s), fact, x)'
    BY <2>5 DEF Settles, Erases, Writes, Bears
  <2>7. ASSUME NEW q \in Processes, NEW v, v = call'[q].steps,
               NEW paths, paths = call'[q].paths
        PROVE  Settles(v, paths, fact, x)'
    <3>1. CASE q = p
      BY <2>6, <2>7, <3>1 DEF Starts
    <3>2. CASE q # p
      <4>1. Settles(v, paths, fact, x)
        BY <1>5, <2>1, <2>7, <3>2
      <4> QED
        BY <1>1, <1>3, <4>1 DEF Settles, Erases, Writes, Bears
    <3> QED
      BY <3>1, <3>2
  <2>8. \A q \in Processes : Settles(call[q].steps, call[q].paths, fact, x)'
    BY <2>7
  <2> QED
    BY <1>2, <1>4, <2>1, <2>4, <2>8 DEF Inboxed
<1>9. ASSUME fact[1] \in {"approve", "reject", "attested"}, InLog(u, fact, x),
             ev \notin Broken'
      PROVE  InLog(u, fact, x)'
  <2>1. /\ x \in Changeset /\ Closed(x) /\ Gone(u, x) /\ Will(u, ev, fact)
        /\ AllBear(ev, fact)
    BY <1>9 DEF InLog
  <2>2. lineage[x] # {}
    BY <2>1 DEF Closed
  <2>3. \A i \in DOMAIN s : ~Writes(s[i], ProposalFile(x))
    BY <2>2 DEF Sound, Proposed
  <2>4. Closed(x)'
    <3>1. ASSUME NEW q \in Processes, NEW i \in DOMAIN call'[q].steps
          PROVE  ~Writes(call'[q].steps[i], ProposalFile(x))
      <4>1. CASE q = p
        BY <2>3, <3>1, <4>1 DEF Starts
      <4>2. CASE q # p
        BY <1>5, <2>1, <3>1, <4>2 DEF Closed
      <4> QED
        BY <4>1, <4>2
    <3> QED
      BY <1>4, <2>1, <2>2, <3>1 DEF Closed, Writes
  <2>5. ev \in Paths(s) => ~Intact(files, ProposalFile(x))
    <3> SUFFICES ASSUME ev \in Paths(s), Exists(files, ProposalFile(x)) PROVE FALSE
      BY DEF Exists, Intact
    <3>1. PICK i \in DOMAIN u : Erases(u[i], ProposalFile(x))
      BY <2>1 DEF Gone
    <3>2. PICK q \in Processes \ {p} : u = call[q].steps /\ Ordered(u, call[q].paths)
      BY <3>1 DEF Elsewhere
    <3>3. ev \in call[q].paths
      BY <3>1, <3>2 DEF Ordered
    <3> QED
      BY <1>9, <3>2, <3>3 DEF Starts
  <2>6. ASSUME NEW i \in DOMAIN s, Writes(s[i], ev) PROVE Bears(s[i].text, fact)
    <3>1. ev \in Paths(s)
      BY <1>6, <2>6 DEF Writes
    <3>2. \E by : s[i].text = WithEnvelope(files, x, by)
      BY <2>2, <2>5, <2>6, <3>1 DEF Sound, Heedful, Writes
    <3>3. Intact(files, ev) /\ Bears(files[ev], fact)
      BY <1>0, <1>9, <2>1, <3>1, AlreadyThere
    <3> QED
      BY <1>9, <3>2, <3>3, DerivedBear
  <2>7. AllBear(ev, fact)'
    BY <1>7, <2>1, <2>6
  <2>8. Gone(u, x)'
    BY <1>1, <2>1 DEF Gone, Erases
  <2> QED
    BY <1>2, <2>1, <2>4, <2>7, <2>8 DEF InLog
<1>10. CASE fact[1] = "admitted"
  BY <1>2, <1>10 DEF Kept
<1>11. CASE fact[1] = "held"
  BY <1>2, <1>11 DEF Kept
<1>12. CASE fact[1] \in {"approve", "reject"}
  <2>1. pend \in Broken' \/ ev \in Broken' \/ Inboxed(u, fact, x)' \/ InLog(u, fact, x)'
    BY <1>1, <1>8, <1>9, <1>12 DEF Kept
  <2> QED
    BY <1>12, <2>1 DEF Kept
<1>13. CASE fact[1] = "attested"
  <2>1. ev \in Broken' \/ InLog(u, fact, x)'
    BY <1>1, <1>9, <1>13 DEF Kept
  <2> QED
    BY <1>13, <2>1 DEF Kept
<1>14. CASE fact[1] = "trusted"
  <2>1. CASE GraphYaml \in Broken'
    BY <1>14, <2>1 DEF Kept
  <2>2. CASE GraphYaml \notin Broken'
    <3>1. IsBuilt(fact[3]) /\ Will(u, GraphYaml, fact) /\ AllBear(GraphYaml, fact)
      BY <1>1, <1>14, <2>2 DEF Kept
    <3>2. ASSUME NEW i \in DOMAIN s, Writes(s[i], GraphYaml) PROVE Bears(s[i].text, fact)
      <4>1. GraphYaml \in Paths(s)
        BY <1>6, <3>2 DEF Writes
      <4>2. Intact(files, GraphYaml) /\ Bears(files[GraphYaml], fact)
        BY <1>0, <2>2, <3>1, <4>1, AlreadyThere
      <4>3. \/ s[i].text.id = b /\ lineage[b] = {}
            \/ \E m : s[i].text = WithTrusted(files, m)
        BY <3>2 DEF Sound, Heedful, Writes
      <4>4. CASE s[i].text.id = b /\ lineage[b] = {}
        BY <1>14, <3>1, <4>4 DEF Bears, IsBuilt
      <4>5. CASE \E m : s[i].text = WithTrusted(files, m)
        BY <1>14, <4>2, <4>5, TrustedBear
      <4> QED
        BY <4>3, <4>4, <4>5
    <3>3. AllBear(GraphYaml, fact)'
      BY <1>7, <3>1, <3>2
    <3>4. IsBuilt(fact[3])'
      BY <1>4, <3>1 DEF IsBuilt
    <3> QED
      BY <1>2, <1>14, <3>1, <3>3, <3>4 DEF Kept
  <2> QED
    BY <2>1, <2>2
<1>15. CASE fact[1] = "attested early"
  BY <1>15 DEF Kept
<1>16. CASE fact[1] = "checkpoint"
  BY <1>2, <1>16 DEF Kept
<1>17. CASE fact[1] \notin {"admitted", "held", "approve", "reject", "attested", "trusted",
                            "attested early", "checkpoint"}
  BY <1>2, <1>17 DEF Kept
<1> QED
  BY <1>10, <1>11, <1>12, <1>13, <1>14, <1>15, <1>16, <1>17

\* What a call is to report will be kept.
LEMMA ReportWithCall ==
  ASSUME KeyInv, Born, NEW p \in Processes, NEW s, NEW reports, NEW b,
         Starts(p, s, reports, b), Sound(s, b),
         NEW fact, Honest(s, fact)
  PROVE  Kept(fact, s)'
<1> DEFINE x == fact[2]
           pend == ProposalEvidenceFile(x)
           ev == EvidenceFile(x)
           prop == ProposalFile(x)
<1>0. StoreInv
  BY DEF KeyInv
<1>1. files' = files /\ \A q \in Processes : q # p => call'[q] = call[q]
  BY DEF Starts
<1>2. ASSUME NEW path, NEW i \in DOMAIN s, Writes(s[i], path), Bears(s[i].text, fact)
      PROVE  Will(s, path, fact)'
  BY <1>2 DEF Will, Writes, Bears
<1>3. ASSUME NEW path, NEW i \in DOMAIN s, s[i].path = path, path \notin Broken',
             NEW q \in Processes, NEW j \in DOMAIN call'[q].steps, call'[q].steps[j].path = path
      PROVE  q = p
  <2>1. path \in Paths(s)
    BY <1>3 DEF Paths
  <2> QED
    BY <1>0, <1>1, <1>3, <2>1, OthersBreak
<1>4. ASSUME NEW path, path \notin Broken', NEW text, WritesOnly(s, path, text),
             Bears(text, fact)
      PROVE  Will(s, path, fact)' /\ AllBear(path, fact)'
  <2>1. PICK i \in DOMAIN s : Writes(s[i], path) /\ s[i].text = text
    BY <1>4 DEF WritesOnly
  <2>2. Will(s, path, fact)'
    BY <1>2, <1>4, <2>1
  <2>3. ASSUME NEW q \in Processes, NEW j \in DOMAIN call'[q].steps,
               Writes(call'[q].steps[j], path)
        PROVE  Bears(call'[q].steps[j].text, fact)
    <3>1. q = p
      BY <1>3, <1>4, <2>1, <2>3 DEF Writes
    <3> QED
      BY <1>4, <2>3, <3>1 DEF WritesOnly, Starts
  <2> QED
    BY <2>2, <2>3 DEF AllBear, Writes, Bears
<1>5. ASSUME x \in Changeset, lineage[x] # {},
             Stored(x) \/ Intact(files, prop)
      PROVE  Closed(x)'
  <2>1. ASSUME NEW q \in Processes, NEW i \in DOMAIN call'[q].steps
        PROVE  ~Writes(call'[q].steps[i], prop)
    <3>1. CASE q = p
      BY <1>5, <2>1, <3>1 DEF Starts, Sound, Proposed
    <3>2. CASE q # p
      BY <1>1, <1>5, <2>1, <3>2 DEF Born
    <3> QED
      BY <3>1, <3>2
  <2>2. lineage'[x] # {}
    BY <1>5 DEF Starts
  <2> QED
    BY <2>1, <2>2 DEF Closed, Writes
<1>6. CASE fact[1] = "admitted"
  <2>1. \A text : Bears(text, fact)
    BY <1>6 DEF Bears
  <2>2. Will(s, ChangesetFile(x), fact)'
    BY <1>2, <1>6, <2>1 DEF Honest
  <2> QED
    BY <1>6, <2>2 DEF Kept
<1>7. CASE fact[1] = "held"
  <2>1. \A text : Bears(text, fact)
    BY <1>7 DEF Bears
  <2>2. Will(s, ProposalFile(x), fact)'
    BY <1>2, <1>7, <2>1 DEF Honest
  <2> QED
    BY <1>7, <2>2 DEF Kept
<1>8. CASE fact[1] \in {"approve", "reject"}
  <2> DEFINE with == WithDecision(files, x, <<fact[3], fact[1]>>)
  <2>1. /\ x \in Changeset /\ Exists(files, prop)
        /\ \/ /\ WritesOnly(s, pend, with)
              /\ \A i \in DOMAIN s : ~Erases(s[i], pend)
           \/ /\ Intact(files, prop)
              /\ WritesOnly(s, ev, with)
              /\ \E i \in DOMAIN s : Erases(s[i], prop)
    BY <1>8 DEF Honest
  <2>2. lineage[x] # {} /\ lineage'[x] # {}
    BY <2>1 DEF Born, Starts
  <2>3. Bears(with, fact)
    BY <1>8 DEF Bears, WithDecision
  <2> HIDE DEF with
  <2>4. CASE /\ WritesOnly(s, pend, with) /\ pend \notin Broken'
             /\ \A i \in DOMAIN s : ~Erases(s[i], pend)
    <3>1. Will(s, pend, fact)' /\ AllBear(pend, fact)'
      BY <1>4, <2>3, <2>4
    <3>2. PICK i \in DOMAIN s : s[i].path = pend
      BY <2>4 DEF WritesOnly, Writes
    <3>3. ASSUME NEW q \in Processes, NEW v, v = call'[q].steps, NEW paths
          PROVE  Settles(v, paths, fact, x)'
      <4>1. ASSUME NEW j \in DOMAIN v, Erases(v[j], pend) PROVE FALSE
        <5>1. q = p
          BY <1>3, <2>4, <3>2, <3>3, <4>1 DEF Erases
        <5> QED
          BY <2>4, <3>3, <4>1, <5>1 DEF Starts
      <4> QED
        BY <4>1 DEF Settles, Erases
    <3>4. \A q \in Processes : Settles(call[q].steps, call[q].paths, fact, x)'
      BY <3>3
    <3>5. Inboxed(s, fact, x)'
      BY <2>1, <2>2, <3>1, <3>4 DEF Inboxed
    <3> QED
      BY <1>8, <3>5 DEF Kept
  <2>5. CASE /\ Intact(files, prop) /\ WritesOnly(s, ev, with) /\ ev \notin Broken'
             /\ \E i \in DOMAIN s : Erases(s[i], prop)
    <3>1. Will(s, ev, fact)' /\ AllBear(ev, fact)'
      BY <1>4, <2>3, <2>5
    <3>2. Closed(x)' /\ Gone(s, x)'
      BY <1>5, <2>1, <2>2, <2>5 DEF Gone, Erases
    <3>3. InLog(s, fact, x)'
      BY <2>1, <3>1, <3>2 DEF InLog
    <3> QED
      BY <1>8, <3>3 DEF Kept
  <2>6. CASE pend \in Broken' \/ ev \in Broken'
    BY <1>8, <2>6 DEF Kept
  <2> QED
    BY <2>1, <2>4, <2>5, <2>6
<1>9. CASE fact[1] = "attested"
  <2>1. CASE ev \in Broken'
    BY <1>9, <2>1 DEF Kept
  <2>2. CASE ev \notin Broken'
    <3>1. /\ x \in Changeset /\ Stored(x) /\ ~Exists(files, prop)
          /\ WritesOnly(s, ev, WithEnvelope(files, x, fact[3]))
      BY <1>9 DEF Honest
    <3>2. ev \in Paths(s)
      BY <3>1 DEF WritesOnly, Writes, Paths
    <3>3. Bears(WithEnvelope(files, x, fact[3]), fact)
      <4>1. Intact(files, ev) \/ ~Exists(files, ev)
        BY <2>2, <3>2 DEF Starts
      <4>2. PICK old : old = EvidenceIn(files, ev)
        OBVIOUS
      <4>3. WithEnvelope(files, x, fact[3]) = AddEnvelope(old, fact[3])
        BY <4>1, <4>2 DEF WithEnvelope
      <4> QED
        BY <1>9, <4>3 DEF AddEnvelope, Bears
    <3>4. Will(s, ev, fact)' /\ AllBear(ev, fact)'
      BY <1>4, <2>2, <3>1, <3>3
    <3>5. Closed(x)' /\ Gone(s, x)'
      BY <1>1, <1>5, <3>1 DEF Gone, Born
    <3>6. InLog(s, fact, x)'
      BY <3>1, <3>4, <3>5 DEF InLog
    <3> QED
      BY <1>9, <3>6 DEF Kept
  <2> QED
    BY <2>1, <2>2
<1>10. CASE fact[1] = "trusted"
  <2>1. CASE GraphYaml \in Broken'
    BY <1>10, <2>1 DEF Kept
  <2>2. CASE GraphYaml \notin Broken'
    <3>1. /\ IsBuilt(fact[3]) /\ Intact(files, GraphYaml)
          /\ WritesOnly(s, GraphYaml, WithTrusted(files, x))
      BY <1>10 DEF Honest
    <3>2. Bears(WithTrusted(files, x), fact)
      BY <1>10, <3>1, TrustedBear
    <3>3. Will(s, GraphYaml, fact)' /\ AllBear(GraphYaml, fact)'
      BY <1>4, <2>2, <3>1, <3>2
    <3>4. IsBuilt(fact[3])'
      BY <3>1 DEF Starts, IsBuilt
    <3> QED
      BY <1>10, <3>3, <3>4 DEF Kept
  <2> QED
    BY <2>1, <2>2
<1>11. CASE fact[1] = "attested early"
  BY <1>11 DEF Kept
<1>12. CASE fact[1] = "checkpoint"
  <2>1. \A text : Bears(text, fact)
    BY <1>12 DEF Bears
  <2>2. Will(s, CheckpointFile(x), fact)'
    BY <1>2, <1>12, <2>1 DEF Honest
  <2> QED
    BY <1>12, <2>2 DEF Kept
<1>13. CASE fact[1] \notin {"admitted", "held", "approve", "reject", "attested", "trusted",
                            "attested early", "checkpoint"}
  <2>1. \A text : Bears(text, fact)
    BY <1>13 DEF Bears
  <2>2. PICK g \in Founding : \E i \in DOMAIN s : Writes(s[i], UserKey(g, x))
    BY <1>13 DEF Honest
  <2>3. Will(s, UserKey(g, x), fact)'
    BY <1>2, <2>1, <2>2
  <2>4. \E h \in Founding : Will(s, UserKey(h, x), fact)'
    BY <2>3
  <2> QED
    BY <1>13, <2>4 DEF Kept
<1> QED
  BY <1>6, <1>7, <1>8, <1>9, <1>10, <1>11, <1>12, <1>13

\* The single steps of the flows heed what is there.
LEMMA HeedfulSteps ==
  ASSUME KeyInv, NEW x, NEW y, NEW b, NEW d, NEW text, text # Torn
  PROVE  /\ Heedful(Erase(x), b)
         /\ Heedful(Write(HeadFile, text), b) /\ Heedful(Write(UserKey(x, y), text), b)
         /\ Heedful(Write(CheckpointFile(x), text), b)
         /\ Heedful(Write(ProposalFile(x), text), b)
         /\ (x = b /\ lineage[x] = {}) \/ Intact(files, ProposalFile(x))
              => Heedful(Write(ChangesetFile(x), text), b)
         /\ lineage[x] = {} \/ Intact(files, ProposalFile(x))
              => Heedful(Write(EvidenceFile(x), text), b)
         /\ Heedful(Write(EvidenceFile(x), WithEnvelope(files, x, d)), b)
         /\ lineage[x] = {} => Heedful(Write(ProposalEvidenceFile(x), NoEvidence), b)
         /\ Heedful(Write(ProposalEvidenceFile(x), WithDecision(files, x, d)), b)
         /\ Intact(files, GraphYaml) => Heedful(Write(GraphYaml, WithTrusted(files, x)), b)
<1>1. \A path, z : /\ Write(path, z).verb = "write" /\ Write(path, z).path = path
                   /\ Write(path, z).text = z
  BY DEF Write
<1>2. Heedful(Erase(x), b)
  BY DEF Heedful, Erase
<1>3. /\ Heedful(Write(HeadFile, text), b) /\ Heedful(Write(UserKey(x, y), text), b)
      /\ Heedful(Write(CheckpointFile(x), text), b)
      /\ Heedful(Write(ProposalFile(x), text), b)
  <2>1. ASSUME NEW path, path[1] \in {"HEAD", "xdg", "checkpoints", "proposals"}
        PROVE  Heedful(Write(path, text), b)
    BY <1>1, <2>1, MoreKinds DEF Heedful
  <2> QED
    BY <2>1, MoreKinds
<1>4. (x = b /\ lineage[x] = {}) \/ Intact(files, ProposalFile(x))
        => Heedful(Write(ChangesetFile(x), text), b)
  BY <1>1, MoreKinds DEF Heedful
<1>5. lineage[x] = {} \/ Intact(files, ProposalFile(x))
        => Heedful(Write(EvidenceFile(x), text), b)
  BY <1>1, MoreKinds DEF Heedful
<1>6. Heedful(Write(EvidenceFile(x), WithEnvelope(files, x, d)), b)
  <2>1. PICK doc : doc = WithEnvelope(files, x, d)
    OBVIOUS
  <2>2. doc # Torn \/ (Exists(files, EvidenceFile(x)) /\ ~Intact(files, EvidenceFile(x)))
    BY <2>1 DEF WithEnvelope, AddEnvelope, Torn
  <2>3. Heedful(Write(EvidenceFile(x), doc), b)
    BY <1>1, <2>1, <2>2, MoreKinds DEF Heedful
  <2> QED
    BY <2>1, <2>3
<1>7. lineage[x] = {} => Heedful(Write(ProposalEvidenceFile(x), NoEvidence), b)
  <2>1. NoEvidence # Torn
    BY DEF NoEvidence, Torn
  <2> QED
    BY <1>1, <2>1, MoreKinds DEF Heedful
<1>8. Heedful(Write(ProposalEvidenceFile(x), WithDecision(files, x, d)), b)
  <2>1. PICK doc : doc = WithDecision(files, x, d)
    OBVIOUS
  <2>2. doc # Torn
    BY <2>1 DEF WithDecision, Torn
  <2>3. Heedful(Write(ProposalEvidenceFile(x), doc), b)
    BY <1>1, <2>1, <2>2, MoreKinds DEF Heedful
  <2> QED
    BY <2>1, <2>3
<1>9. Intact(files, GraphYaml) => Heedful(Write(GraphYaml, WithTrusted(files, x)), b)
  <2>1. PICK doc : doc = WithTrusted(files, x)
    OBVIOUS
  <2>2. Intact(files, GraphYaml) => doc # Torn
    BY <2>1, TrustedBear
  <2>3. Intact(files, GraphYaml) => Heedful(Write(GraphYaml, doc), b)
    BY <1>1, <2>1, <2>2, MoreKinds DEF Heedful
  <2> QED
    BY <2>1, <2>3
<1> QED
  BY <1>2, <1>3, <1>4, <1>5, <1>6, <1>7, <1>8, <1>9

LEMMA FoundingIsHeedful ==
  ASSUME NEW b \in Changeset, lineage[b] = {}, NEW text, text # Torn, text.id = b
  PROVE  Heedful(Write(GraphYaml, text), b)
<1>1. /\ Write(GraphYaml, text).verb = "write" /\ Write(GraphYaml, text).path = GraphYaml
      /\ Write(GraphYaml, text).text = text
  BY DEF Write
<1> QED
  BY <1>1, MoreKinds DEF Heedful

\* Steps that propose nothing, and remove nothing of a proposal.
Aloof(step) ==
  \A x : /\ ~Writes(step, ProposalFile(x)) /\ ~Erases(step, ProposalFile(x))
         /\ ~Erases(step, ProposalEvidenceFile(x))

LEMMA AloofSteps ==
  ASSUME NEW x, NEW y, NEW text
  PROVE  /\ Aloof(Write(HeadFile, text)) /\ Aloof(Write(UserKey(x, y), text))
         /\ Aloof(Write(CheckpointFile(x), text)) /\ Aloof(Write(ChangesetFile(x), text))
         /\ Aloof(Write(EvidenceFile(x), text)) /\ Aloof(Write(GraphYaml, text))
         /\ Aloof(Write(ProposalEvidenceFile(x), text)) /\ Aloof(Erase(StoreKey(x)))
<1>1. ASSUME NEW path, path[1] # "proposals" PROVE Aloof(Write(path, text))
  BY <1>1, MoreKinds DEF Aloof, Write, Writes, Erases
<1>2. Aloof(Erase(StoreKey(x)))
  BY MoreKinds DEF Aloof, Erase, Writes, Erases
<1> QED
  BY <1>1, <1>2, MoreKinds

\* A call of such steps is sound.
LEMMA AloofIsSound ==
  ASSUME NEW b, NEW g, NEW k, NEW c, NEW h,
         Heedful(g, b), Heedful(k, b), Heedful(c, b), Heedful(h, b),
         Aloof(g), Aloof(k), Aloof(c), Aloof(h)
  PROVE  /\ Sound(<<>>, b) /\ Sound(<<g>>, b) /\ Sound(<<g, k>>, b)
         /\ Sound(<<g, k, c>>, b) /\ Sound(<<g, k, c, h>>, b)
<1>1. ASSUME NEW s, \A i \in DOMAIN s : s[i] \in {g, k, c, h} PROVE Sound(s, b)
  BY <1>1 DEF Sound, Aloof
<1>2. /\ \A i \in DOMAIN <<>> : <<>>[i] \in {g, k, c, h}
      /\ \A i \in DOMAIN <<g>> : <<g>>[i] \in {g, k, c, h}
      /\ \A i \in DOMAIN <<g, k>> : <<g, k>>[i] \in {g, k, c, h}
      /\ \A i \in DOMAIN <<g, k, c>> : <<g, k, c>>[i] \in {g, k, c, h}
      /\ \A i \in DOMAIN <<g, k, c, h>> : <<g, k, c, h>>[i] \in {g, k, c, h}
  OBVIOUS
<1> QED
  BY <1>1, <1>2

\* So is a call that proposes x, also with a key before.
LEMMA ProposingIsSound ==
  ASSUME KeyInv, NEW x, x # Torn, lineage[x] = {}, NEW k, Heedful(k, x), Aloof(k),
         NEW path, NEW text, k = Write(path, text), path[1] = "xdg",
         NEW a, a = Write(ProposalFile(x), x),
         NEW e, e = Write(ProposalEvidenceFile(x), NoEvidence)
  PROVE  Sound(<<a, e>>, x) /\ Sound(<<k, a, e>>, x)
<1>1. Heedful(a, x) /\ Heedful(e, x)
  BY HeedfulSteps
<1>2. /\ a.verb = "write" /\ a.path = ProposalFile(x)
      /\ e.verb = "write" /\ e.path = ProposalEvidenceFile(x)
      /\ k.verb = "write" /\ k.path = path
  BY DEF Write
<1>3. /\ \A y : /\ ~Writes(k, ChangesetFile(y)) /\ ~Writes(a, ChangesetFile(y))
                /\ ~Writes(e, ChangesetFile(y))
                /\ ~Writes(k, ProposalFile(y)) /\ ~Writes(e, ProposalFile(y))
                /\ Writes(a, ProposalFile(y)) => y = x
      /\ \A z : ~Erases(k, z) /\ ~Erases(a, z) /\ ~Erases(e, z)
  BY <1>2, MoreKinds DEF Writes, Erases
<1>4. ASSUME NEW s, NEW n, n \in DOMAIN s, NEW m, m \in DOMAIN s, s[m] = e,
             \A i \in DOMAIN s : s[i] \in {k, a, e} /\ (s[i] = a => i = n)
      PROVE  Sound(s, x)
  <2>1. ProposalEvidenceFile(x) \in Paths(s)
    BY <1>2, <1>4 DEF Paths
  <2>2. a # k /\ a # e
    BY <1>2, <1>3 DEF Writes
  <2>3. ASSUME NEW i \in DOMAIN s, NEW y, Writes(s[i], ProposalFile(y))
        PROVE  Proposed(s, x, i, y)
    <3>1. s[i] = a /\ i = n /\ y = x
      BY <1>3, <1>4, <2>3
    <3> QED
      BY <1>3, <1>4, <2>1, <3>1 DEF Proposed
  <2>4. ASSUME NEW i \in DOMAIN s
        PROVE  Heedful(s[i], x) /\ \A z : ~Erases(s[i], z)
    BY <1>1, <1>3, <1>4
  <2> QED
    BY <2>3, <2>4 DEF Sound
<1>5. a # k /\ a # e
  BY <1>3, <1>2 DEF Writes
<1> HIDE DEF Sound
<1>6. Sound(<<a, e>>, x)
  <2> DEFINE s == <<a, e>>
  <2>1. DOMAIN s = 1..2 /\ s[1] = a /\ s[2] = e
    OBVIOUS
  <2> HIDE DEF s
  <2>2. 1 \in DOMAIN s /\ 2 \in DOMAIN s
        /\ \A i \in DOMAIN s : s[i] \in {k, a, e} /\ (s[i] = a => i = 1)
    BY <1>5, <2>1
  <2>3. Sound(s, x)
    BY <1>4, <2>1, <2>2
  <2> QED
    BY <2>3 DEF s
<1>7. Sound(<<k, a, e>>, x)
  <2> DEFINE s == <<k, a, e>>
  <2>1. DOMAIN s = 1..3 /\ s[1] = k /\ s[2] = a /\ s[3] = e
    OBVIOUS
  <2> HIDE DEF s
  <2>2. 2 \in DOMAIN s /\ 3 \in DOMAIN s
        /\ \A i \in DOMAIN s : s[i] \in {k, a, e} /\ (s[i] = a => i = 2)
    BY <1>5, <2>1
  <2>3. Sound(s, x)
    BY <1>4, <2>1, <2>2
  <2> QED
    BY <2>3 DEF s
<1> QED
  BY <1>6, <1>7

\* And a call that admits x and then removes its proposal.
LEMMA MovingIsSound ==
  ASSUME KeyInv, NEW x, x # Torn, Intact(files, ProposalFile(x)), NEW decision, NEW doc,
         doc = WithDecision(files, x, decision),
         NEW c, c = Write(ChangesetFile(x), x), NEW v, v = Write(EvidenceFile(x), doc),
         NEW h, h = Write(HeadFile, x), NEW d, d = Erase(ProposalFile(x)),
         NEW e, e = Erase(ProposalEvidenceFile(x)), NEW b
  PROVE  Sound(<<c, v, h, d, e>>, b)
<1>1. doc # Torn
  BY DEF WithDecision, Torn
<1>2. Heedful(c, b) /\ Heedful(v, b) /\ Heedful(h, b) /\ Heedful(d, b) /\ Heedful(e, b)
  BY <1>1, HeedfulSteps
<1>3. /\ c.verb = "write" /\ c.path = ChangesetFile(x)
      /\ v.verb = "write" /\ v.path = EvidenceFile(x) /\ v.text = doc
      /\ h.verb = "write" /\ h.path = HeadFile
      /\ d.verb = "remove" /\ d.path = ProposalFile(x)
      /\ e.verb = "remove" /\ e.path = ProposalEvidenceFile(x)
  BY DEF Write, Erase
<1> DEFINE s == <<c, v, h, d, e>>
<1>4. /\ DOMAIN s = 1..5 /\ s[1] = c /\ s[2] = v /\ s[3] = h /\ s[4] = d /\ s[5] = e
  OBVIOUS
<1> HIDE DEF s
<1>5. /\ Writes(s[1], ChangesetFile(x)) /\ Writes(s[2], EvidenceFile(x))
      /\ Erases(s[4], ProposalFile(x))
  BY <1>3, <1>4 DEF Writes, Erases
<1>6. EvidenceFile(x) \in Paths(s)
  BY <1>3, <1>4 DEF Paths
<1>7. ASSUME NEW i \in DOMAIN s
      PROVE  /\ s[i] \in {c, v, h, d, e}
             /\ s[i] = d => i = 4
             /\ s[i] = e => i = 5
             /\ \A y : /\ ~Writes(s[i], ProposalFile(y))
                       /\ Erases(s[i], ProposalFile(y)) => y = x /\ i = 4
                       /\ Erases(s[i], ProposalEvidenceFile(y)) => y = x /\ i = 5
             /\ Writes(s[i], EvidenceFile(x)) => s[i].text = doc
  <2>1. /\ d # c /\ d # v /\ d # h /\ e # c /\ e # v /\ e # h
    BY <1>3
  <2>2. d # e
    BY <1>3, MoreKinds
  <2>3. s[i] \in {c, v, h, d, e} /\ (s[i] = d => i = 4) /\ (s[i] = e => i = 5)
    BY <1>4, <2>1, <2>2
  <2>4. ASSUME NEW y
        PROVE  /\ ~Writes(s[i], ProposalFile(y))
               /\ Erases(s[i], ProposalFile(y)) => y = x /\ i = 4
               /\ Erases(s[i], ProposalEvidenceFile(y)) => y = x /\ i = 5
    BY <1>3, <2>3, MoreKinds DEF Writes, Erases
  <2>5. Writes(s[i], EvidenceFile(x)) => s[i].text = doc
    BY <1>3, <2>3, MoreKinds DEF Writes, Erases
  <2> QED
    BY <2>3, <2>4, <2>5
<1>8. 1 \in 1..(4 - 1) /\ 2 \in 1..(5 - 1) /\ 4 \in 1..(5 - 1)
  OBVIOUS
<1>9. Moved(s, 5, x)
  BY <1>5, <1>6, <1>7, <1>8 DEF Moved
<1>10. \E j \in 1..(4 - 1) : Writes(s[j], ChangesetFile(x))
  BY <1>5, <1>8
<1>11. ASSUME NEW i \in DOMAIN s PROVE Heedful(s[i], b)
  BY <1>2, <1>7
<1>12. Sound(s, b)
  BY <1>6, <1>7, <1>9, <1>10, <1>11 DEF Sound
<1> QED
  BY <1>12 DEF s

\* A flow whose steps leave what is reported kept.
FineCall(done) ==
  /\ Sound(done.steps, done.builds)
  /\ done.reports # None => Honest(done.steps, done.reports)

LEMMA FineCalls ==
  ASSUME NEW b, NEW s, NEW fact
  PROVE  /\ Sound(s, b) /\ Honest(s, fact) => FineCall(Building(b, s, fact))
         /\ Sound(s, None) /\ Honest(s, fact) => FineCall(Outcome(s, fact))
         /\ Sound(s, None) => FineCall(Failure(s))
         /\ Sound(s, b) => FineCall(Building(b, s, None))
         /\ FineCall(Failure(<<>>))
<1>1. /\ Building(b, s, fact).steps = s /\ Building(b, s, fact).builds = b
      /\ Building(b, s, fact).reports = fact
      /\ Building(b, s, None).steps = s /\ Building(b, s, None).builds = b
      /\ Building(b, s, None).reports = None
      /\ Outcome(s, fact).steps = s /\ Outcome(s, fact).builds = None
      /\ Outcome(s, fact).reports = fact
      /\ Failure(s).steps = s /\ Failure(s).builds = None /\ Failure(s).reports = None
      /\ Failure(<<>>).steps = <<>> /\ Failure(<<>>).builds = None
      /\ Failure(<<>>).reports = None
  BY DEF Building, Outcome, Failure
<1>2. Sound(<<>>, None)
  BY DEF Sound
<1> QED
  BY <1>1, <1>2 DEF FineCall

\* The reports of changesets that are stored.
LEMMA HonestSteps ==
  ASSUME NEW s, NEW x, NEW i \in DOMAIN s
  PROVE  /\ \A text : s[i] = Write(ChangesetFile(x), text) => Honest(s, <<"admitted", x>>)
         /\ \A text : s[i] = Write(ProposalFile(x), text) => Honest(s, <<"held", x>>)
         /\ \A text : s[i] = Write(CheckpointFile(x), text) => Honest(s, <<"checkpoint", x>>)
         /\ \A text : \A g \in Founding :
              s[i] = Write(UserKey(g, x), text) => Honest(s, <<"migrated", x>>)
<1>1. \A path, text : Writes(Write(path, text), path)
  BY DEF Writes, Write
<1>2. ASSUME NEW f, f = <<"admitted", x>>, NEW text, s[i] = Write(ChangesetFile(x), text)
      PROVE  Honest(s, f)
  <2>1. f[1] = "admitted" /\ f[2] = x
    BY <1>2
  <2> QED
    BY <1>1, <1>2, <2>1 DEF Honest
<1>3. ASSUME NEW f, f = <<"held", x>>, NEW text, s[i] = Write(ProposalFile(x), text)
      PROVE  Honest(s, f)
  <2>1. f[1] = "held" /\ f[2] = x
    BY <1>3
  <2> QED
    BY <1>1, <1>3, <2>1 DEF Honest
<1>4. ASSUME NEW f, f = <<"checkpoint", x>>, NEW text,
             s[i] = Write(CheckpointFile(x), text)
      PROVE  Honest(s, f)
  <2>1. f[1] = "checkpoint" /\ f[2] = x
    BY <1>4
  <2> QED
    BY <1>1, <1>4, <2>1 DEF Honest
<1>5. ASSUME NEW f, f = <<"migrated", x>>, NEW text, NEW g \in Founding,
             s[i] = Write(UserKey(g, x), text)
      PROVE  Honest(s, f)
  <2>1. f[1] = "migrated" /\ f[2] = x
    BY <1>5
  <2>2. \E z \in Founding : \E j \in DOMAIN s : Writes(s[j], UserKey(z, x))
    BY <1>1, <1>5
  <2> QED
    BY <2>1, <2>2 DEF Honest
<1> QED
  BY <1>2, <1>3, <1>4, <1>5

\* flows::init
LEMMA InitIsFine ==
  ASSUME KeyInv, NEW x \in Founding
  PROVE  FineCall(InitFlow("native", files, x))
<1> DEFINE doc == [id |-> x, trusted |-> {}]
           g == Write(GraphYaml, doc)
           k == Write(UserKey(x, NameOf[x]), x)
           c == Write(ChangesetFile(x), x)
           h == Write(HeadFile, x)
           s == <<g, k, c, h>>
<1>1. InitSteps("native", files, x) = s
  <2>1. InitSteps("native", files, x) = <<g>> \o <<k>> \o <<c, h>>
    BY DEF InitSteps, CreateKey
  <2> HIDE DEF g, k, c, h, s
  <2>2. <<g>> \o <<k>> = <<g, k>>
    BY OneAndOne
  <2> QED
    BY <2>1, <2>2, TwoAndTwo DEF s
<1>2. x # Torn /\ doc # Torn
  BY ChangesetAssumption DEF Torn
<1>3. CASE lineage[x] # {} \/ (Exists(files, HeadFile) /\ ~Folds(files))
  BY <1>3, FineCalls DEF InitFlow
<1>4. CASE lineage[x] = {} /\ ~(Exists(files, HeadFile) /\ ~Folds(files))
  <2>1. InitFlow("native", files, x) = Building(x, s, <<"admitted", x>>)
    BY <1>1, <1>4 DEF InitFlow
  <2>0. doc.id = x /\ x \in Changeset
    BY ChangesetAssumption
  <2> HIDE DEF doc
  <2>2. Heedful(g, x) /\ Heedful(k, x) /\ Heedful(c, x) /\ Heedful(h, x)
    BY <1>2, <1>4, <2>0, HeedfulSteps, FoundingIsHeedful
  <2>3. Aloof(g) /\ Aloof(k) /\ Aloof(c) /\ Aloof(h)
    BY AloofSteps
  <2>4. c = Write(ChangesetFile(x), x)
    OBVIOUS
  <2> HIDE DEF g, k, c, h
  <2>5. Sound(s, x)
    BY <2>2, <2>3, AloofIsSound
  <2>6. 3 \in DOMAIN s /\ s[3] = c
    OBVIOUS
  <2> HIDE DEF s
  <2>7. Honest(s, <<"admitted", x>>)
    BY <2>4, <2>6, HonestSteps
  <2> QED
    BY <2>1, <2>5, <2>7, FineCalls
<1> QED
  BY <1>3, <1>4

\* submit, on its own and after the key of a principal was stored.
LEMMA SubmitIsFine ==
  ASSUME KeyInv, NEW x \in Changeset, NEW g, NEW name,
         NEW k, k = Write(UserKey(g, name), x),
         NEW submitted, submitted = SubmitFlow("native", files, x)
  PROVE  /\ FineCall(submitted)
         /\ FineCall(Building(submitted.builds, <<k>> \o submitted.steps, submitted.reports))
<1> DEFINE c == Write(ChangesetFile(x), x)
           v == Write(EvidenceFile(x), NoEvidence)
           h == Write(HeadFile, x)
           a == Write(ProposalFile(x), x)
           e == Write(ProposalEvidenceFile(x), NoEvidence)
<1>1. x # Torn /\ NoEvidence # Torn
  BY ChangesetAssumption DEF NoEvidence, Torn
<1>2. \A b : Heedful(k, b)
  BY <1>1, HeedfulSteps
<1>3. Aloof(k) /\ Aloof(c) /\ Aloof(v) /\ Aloof(h)
  BY AloofSteps
<1>4. lineage[x] = {} => Heedful(c, x) /\ Heedful(v, x) /\ Heedful(h, x)
  BY <1>1, HeedfulSteps
<1>5. UserKey(g, name)[1] = "xdg"
  BY MoreKinds
<1>6. \/ submitted = Failure(<<>>)
      \/ lineage[x] = {} /\ submitted = Building(x, <<c, v, h>>, <<"admitted", x>>)
      \/ lineage[x] = {} /\ submitted = Building(x, <<a, e>>, <<"held", x>>)
  BY DEF SubmitFlow, AppendChangeset
<1>7. lineage[x] = {} => Sound(<<a, e>>, x) /\ Sound(<<k, a, e>>, x)
  BY <1>1, <1>2, <1>3, <1>5, ProposingIsSound
<1>8. c = Write(ChangesetFile(x), x) /\ a = Write(ProposalFile(x), x)
  OBVIOUS
<1>9. \A b, s, fact : /\ Building(b, s, fact).steps = s
                      /\ Building(b, s, fact).builds = b
                      /\ Building(b, s, fact).reports = fact
                      /\ Failure(s).steps = s /\ Failure(s).builds = None
                      /\ Failure(s).reports = None
  BY DEF Building, Outcome, Failure
<1> HIDE DEF c, v, h, a, e
<1>10. /\ <<k>> \o <<>> = <<k>> /\ <<k>> \o <<c, v, h>> = <<k, c, v, h>>
       /\ <<k>> \o <<a, e>> = <<k, a, e>>
  BY OneAndTwo, OneAndThree
<1>11. CASE submitted = Failure(<<>>)
  <2>1. Sound(<<k>>, None)
    BY <1>2, <1>3, AloofIsSound
  <2>2. /\ submitted.builds = None /\ submitted.steps = <<>>
        /\ submitted.reports = None
    BY <1>9, <1>11
  <2>3. FineCall(Building(submitted.builds, <<k>> \o submitted.steps, submitted.reports))
    BY <1>10, <2>1, <2>2, FineCalls
  <2> QED
    BY <1>11, <2>3, FineCalls
<1>12. CASE lineage[x] = {} /\ submitted = Building(x, <<c, v, h>>, <<"admitted", x>>)
  <2> DEFINE s == <<c, v, h>>
             z == <<k, c, v, h>>
  <2>1. Sound(s, x)
    BY <1>3, <1>4, <1>12, AloofIsSound
  <2>2. Sound(z, x)
    BY <1>2, <1>3, <1>4, <1>12, AloofIsSound
  <2>3. 1 \in DOMAIN s /\ s[1] = c /\ 2 \in DOMAIN z /\ z[2] = c
    OBVIOUS
  <2>4. submitted.builds = x /\ submitted.steps = s /\ submitted.reports = <<"admitted", x>>
    BY <1>9, <1>12
  <2>5. submitted = Building(x, s, <<"admitted", x>>) /\ <<k>> \o s = z
    BY <1>10, <1>12
  <2> HIDE DEF s, z
  <2>6. Honest(s, <<"admitted", x>>) /\ Honest(z, <<"admitted", x>>)
    BY <1>8, <2>3, HonestSteps
  <2>7. FineCall(Building(submitted.builds, <<k>> \o submitted.steps, submitted.reports))
    BY <2>2, <2>4, <2>5, <2>6, FineCalls
  <2> QED
    BY <2>1, <2>5, <2>6, <2>7, FineCalls
<1>13. CASE lineage[x] = {} /\ submitted = Building(x, <<a, e>>, <<"held", x>>)
  <2> DEFINE s == <<a, e>>
             z == <<k, a, e>>
  <2>1. Sound(s, x) /\ Sound(z, x)
    BY <1>7, <1>13
  <2>3. 1 \in DOMAIN s /\ s[1] = a /\ 2 \in DOMAIN z /\ z[2] = a
    OBVIOUS
  <2>4. submitted.builds = x /\ submitted.steps = s /\ submitted.reports = <<"held", x>>
    BY <1>9, <1>13
  <2>5. submitted = Building(x, s, <<"held", x>>) /\ <<k>> \o s = z
    BY <1>10, <1>13
  <2> HIDE DEF s, z
  <2>6. Honest(s, <<"held", x>>) /\ Honest(z, <<"held", x>>)
    BY <1>8, <2>3, HonestSteps
  <2>7. FineCall(Building(submitted.builds, <<k>> \o submitted.steps, submitted.reports))
    BY <2>1, <2>4, <2>5, <2>6, FineCalls
  <2> QED
    BY <2>1, <2>5, <2>6, <2>7, FineCalls
<1> QED
  BY <1>6, <1>11, <1>12, <1>13

\* principal_add
LEMMA PrincipalIsFine ==
  ASSUME KeyInv, NEW x \in Changeset
  PROVE  FineCall(PrincipalAddFlow("native", files, x))
<1> DEFINE k == Write(UserKey(GraphId(files), NameOf[x]), x)
<1>1. PICK submitted : submitted = SubmitFlow("native", files, x)
  OBVIOUS
<1>2. CreateKey("native", files, GraphId(files), x) = <<k>>
  BY DEF CreateKey
<1>3. \/ PrincipalAddFlow("native", files, x) = Failure(<<>>)
      \/ PrincipalAddFlow("native", files, x)
           = Building(submitted.builds, <<k>> \o submitted.steps, submitted.reports)
  BY <1>1, <1>2 DEF PrincipalAddFlow
<1> QED
  BY <1>1, <1>3, SubmitIsFine, FineCalls

\* A step that is the only one.
LEMMA SingleStep ==
  ASSUME NEW path, NEW text, NEW s, s = <<Write(path, text)>>
  PROVE  WritesOnly(s, path, text) /\ \A i \in DOMAIN s : ~Erases(s[i], path)
<1>1. PICK step : step = Write(path, text)
  OBVIOUS
<1>2. DOMAIN s = 1..1 /\ s[1] = step
  BY <1>1
<1>3. step.verb = "write" /\ step.path = path /\ step.text = text
  BY <1>1 DEF Write
<1> QED
  BY <1>2, <1>3 DEF WritesOnly, Writes, Erases

\* decide
LEMMA DecideIsFine ==
  ASSUME KeyInv, NEW x \in Changeset, NEW by, NEW verdict \in {"approve", "reject"}
  PROVE  FineCall(DecideFlow(files, x, by, verdict))
<1> DEFINE doc == WithDecision(files, x, <<by, verdict>>)
           a == Write(ProposalEvidenceFile(x), doc)
           c == Write(ChangesetFile(x), x)
           v == Write(EvidenceFile(x), doc)
           h == Write(HeadFile, x)
           d == Erase(ProposalFile(x))
           e == Erase(ProposalEvidenceFile(x))
           fact == <<verdict, x, by>>
<1>1. x # Torn
  BY ChangesetAssumption
<1>2. AdmitSteps(x, doc) = <<c, v, h, d, e>>
  <2>1. AdmitSteps(x, doc) = <<c, v, h>> \o <<d, e>>
    BY DEF AdmitSteps, AppendChangeset, RemoveProposal
  <2> HIDE DEF c, v, h, d, e
  <2> QED
    BY <2>1, ThreeAndTwo
<1>3. \/ DecideFlow(files, x, by, verdict) = Failure(<<>>)
      \/ /\ Exists(files, ProposalFile(x))
         /\ DecideFlow(files, x, by, verdict) = Outcome(<<a>>, fact)
      \/ /\ Intact(files, ProposalFile(x))
         /\ DecideFlow(files, x, by, verdict) = Outcome(<<c, v, h, d, e>>, fact)
  BY <1>2 DEF DecideFlow
<1>4. fact[1] = verdict /\ fact[2] = x /\ fact[3] = by
  OBVIOUS
<1>5. doc = WithDecision(files, x, <<fact[3], fact[1]>>)
  BY <1>4
<1> HIDE DEF doc, fact
<1>6. CASE /\ Exists(files, ProposalFile(x))
           /\ DecideFlow(files, x, by, verdict) = Outcome(<<a>>, fact)
  <2>1. Sound(<<a>>, None)
    <3>1. Heedful(a, None) /\ Aloof(a)
      BY <1>1, HeedfulSteps, AloofSteps DEF doc
    <3> QED
      BY <3>1, AloofIsSound
  <2>2. PICK s : s = <<a>>
    OBVIOUS
  <2>3. /\ WritesOnly(s, ProposalEvidenceFile(x), doc)
        /\ \A i \in DOMAIN s : ~Erases(s[i], ProposalEvidenceFile(x))
    BY <2>2, SingleStep
  <2>4. Honest(s, fact)
    BY <1>4, <1>5, <1>6, <2>3 DEF Honest
  <2> QED
    BY <1>6, <2>1, <2>2, <2>4, FineCalls
<1>7. CASE /\ Intact(files, ProposalFile(x))
           /\ DecideFlow(files, x, by, verdict) = Outcome(<<c, v, h, d, e>>, fact)
  <2>1. Sound(<<c, v, h, d, e>>, None)
    BY <1>1, <1>7, MovingIsSound DEF doc
  <2>2. /\ c.verb = "write" /\ c.path = ChangesetFile(x)
        /\ v.verb = "write" /\ v.path = EvidenceFile(x) /\ v.text = doc
        /\ h.verb = "write" /\ h.path = HeadFile
        /\ d.verb = "remove" /\ d.path = ProposalFile(x)
        /\ e.verb = "remove"
    BY DEF Write, Erase
  <2> DEFINE s == <<c, v, h, d, e>>
  <2> HIDE DEF c, v, h, d, e
  <2>3. DOMAIN s = 1..5 /\ s[1] = c /\ s[2] = v /\ s[3] = h /\ s[4] = d /\ s[5] = e
    OBVIOUS
  <2> HIDE DEF s
  <2>4. WritesOnly(s, EvidenceFile(x), doc)
    <3>1. \E i \in DOMAIN s : Writes(s[i], EvidenceFile(x))
      BY <2>2, <2>3 DEF Writes
    <3>2. \A i \in DOMAIN s : s[i] \in {c, v, h, d, e}
      BY <2>3
    <3>3. \A i \in DOMAIN s : Writes(s[i], EvidenceFile(x)) => s[i].text = doc
      BY <2>2, <3>2, MoreKinds DEF Writes
    <3> QED
      BY <3>1, <3>3 DEF WritesOnly
  <2>5. \E i \in DOMAIN s : Erases(s[i], ProposalFile(x))
    BY <2>2, <2>3 DEF Erases
  <2>6. Exists(files, ProposalFile(x))
    BY <1>7 DEF Intact, Exists
  <2>7. Honest(s, fact)
    BY <1>4, <1>5, <1>7, <2>4, <2>5, <2>6 DEF Honest
  <2>8. DecideFlow(files, x, by, verdict) = Outcome(s, fact) /\ Sound(s, None)
    BY <1>7, <2>1 DEF s
  <2> QED
    BY <2>7, <2>8, FineCalls
<1> QED
  BY <1>3, <1>6, <1>7, FineCalls

\* envelope
LEMMA AttestIsFine ==
  ASSUME KeyInv, NEW x \in Changeset, NEW by
  PROVE  FineCall(AttestFlow("native", files, x, by))
<1> DEFINE doc == WithEnvelope(files, x, by)
           a == Write(EvidenceFile(x), doc)
           s == <<a>>
<1>1. \/ AttestFlow("native", files, x, by) = Failure(<<>>)
      \/ AttestFlow("native", files, x, by) = Outcome(s, <<"attested early", x, by>>)
      \/ /\ Exists(files, ChangesetFile(x)) /\ ~Exists(files, ProposalFile(x))
         /\ AttestFlow("native", files, x, by) = Outcome(s, <<"attested", x, by>>)
  BY DEF AttestFlow
<1>2. x # Torn
  BY ChangesetAssumption
<1>3. Heedful(a, None) /\ Aloof(a)
  BY <1>2, HeedfulSteps, AloofSteps
<1>4. WritesOnly(s, EvidenceFile(x), doc)
  BY SingleStep
<1> HIDE DEF a
<1>5. Sound(s, None)
  BY <1>3, AloofIsSound
<1> HIDE DEF s
<1>6. Honest(s, <<"attested early", x, by>>)
  <2>1. PICK f : f = <<"attested early", x, by>>
    OBVIOUS
  <2>2. f[1] = "attested early"
    BY <2>1
  <2>3. Honest(s, f)
    BY <2>2 DEF Honest
  <2> QED
    BY <2>1, <2>3
<1>7. ASSUME Exists(files, ChangesetFile(x)), ~Exists(files, ProposalFile(x))
      PROVE  Honest(s, <<"attested", x, by>>)
  <2>1. PICK f : f = <<"attested", x, by>>
    OBVIOUS
  <2>2. f[1] = "attested" /\ f[2] = x /\ f[3] = by
    BY <2>1
  <2>3. Honest(s, f)
    BY <1>4, <1>7, <2>2 DEF Honest, Stored
  <2> QED
    BY <2>1, <2>3
<1> QED
  BY <1>1, <1>5, <1>6, <1>7, FineCalls

\* trust_measurement
LEMMA TrustIsFine ==
  ASSUME KeyInv, Known, NEW m
  PROVE  FineCall(TrustFlow(files, m))
<1> DEFINE doc == WithTrusted(files, m)
           a == Write(GraphYaml, doc)
           s == <<a>>
           g == files[GraphYaml].id
<1>1. \/ TrustFlow(files, m) = Failure(<<>>)
      \/ /\ Intact(files, GraphYaml)
         /\ TrustFlow(files, m) = Outcome(s, <<"trusted", m, g>>)
  BY DEF TrustFlow, GraphId
<1>2. NoEvidence # Torn
  BY DEF NoEvidence, Torn
<1>3. Intact(files, GraphYaml) => Heedful(a, None)
  BY <1>2, HeedfulSteps
<1>4. Aloof(a)
  BY AloofSteps
<1>5. WritesOnly(s, GraphYaml, doc)
  BY SingleStep
<1> HIDE DEF a
<1>6. Intact(files, GraphYaml) => Sound(s, None)
  BY <1>3, <1>4, AloofIsSound
<1> HIDE DEF s
<1>7. ASSUME Intact(files, GraphYaml) PROVE Honest(s, <<"trusted", m, g>>)
  <2>1. PICK f : f = <<"trusted", m, g>>
    OBVIOUS
  <2>2. f[1] = "trusted" /\ f[2] = m /\ f[3] = g
    BY <2>1
  <2>3. IsBuilt(f[3])
    BY <1>7, <2>2 DEF Known
  <2>4. Honest(s, f)
    BY <1>5, <1>7, <2>2, <2>3 DEF Honest
  <2> QED
    BY <2>1, <2>4
<1> QED
  BY <1>1, <1>6, <1>7, FineCalls

\* checkpoint
LEMMA CheckpointIsFine ==
  ASSUME KeyInv
  PROVE  FineCall(CheckpointFlow("native", files))
<1> DEFINE y == files[HeadFile]
           a == Write(CheckpointFile(y), y)
           s == <<a>>
<1>1. \/ CheckpointFlow("native", files) = Failure(<<>>)
      \/ /\ Intact(files, HeadFile)
         /\ CheckpointFlow("native", files) = Outcome(s, <<"checkpoint", y>>)
  BY DEF CheckpointFlow, Loads, Folds
<1>2. Intact(files, HeadFile) => Heedful(a, None)
  <2>1. Intact(files, HeadFile) => y # Torn
    BY DEF Intact
  <2> QED
    BY <2>1, HeedfulSteps
<1>3. Aloof(a)
  BY AloofSteps
<1>4. 1 \in DOMAIN s /\ s[1] = Write(CheckpointFile(y), y)
  OBVIOUS
<1> HIDE DEF a
<1>5. Intact(files, HeadFile) => Sound(s, None)
  BY <1>2, <1>3, AloofIsSound
<1> HIDE DEF s
<1>6. Honest(s, <<"checkpoint", y>>)
  BY <1>4, HonestSteps
<1> QED
  BY <1>1, <1>5, <1>6, FineCalls

\* allod key migrate
LEMMA MigrateIsFine ==
  ASSUME KeyInv, NEW name
  PROVE  FineCall(MigrateFlow(files, name))
<1> DEFINE text == files[StoreKey(name)]
           k == Write(UserKey(GraphId(files), name), text)
           e == Erase(StoreKey(name))
           s == <<k, e>>
<1>1. \/ MigrateFlow(files, name) = Failure(<<>>)
      \/ /\ Intact(files, GraphYaml) /\ text # Torn
         /\ MigrateFlow(files, name) = Outcome(s, <<"migrated", name>>)
  BY DEF MigrateFlow, MigrateSteps, Intact
<1>2. text # Torn => Heedful(k, None) /\ Heedful(e, None)
  BY HeedfulSteps
<1>3. Aloof(k) /\ Aloof(e)
  BY AloofSteps
<1>4. 1 \in DOMAIN s /\ s[1] = Write(UserKey(GraphId(files), name), text)
  OBVIOUS
<1> HIDE DEF k, e
<1>5. text # Torn => Sound(s, None)
  BY <1>2, <1>3, AloofIsSound
<1>6. Intact(files, GraphYaml) => GraphId(files) \in Founding
  BY GraphIdIs
<1> HIDE DEF s
<1>7. Intact(files, GraphYaml) => Honest(s, <<"migrated", name>>)
  BY <1>4, <1>6, HonestSteps
<1> QED
  BY <1>1, <1>5, <1>7, FineCalls

\* So every flow keeps what has been reported, and what it will report.
LEMMA FlowIsFine ==
  ASSUME KeyInv, Known, NEW r, scenario \in Scenarios, r \in scenario.requests
  PROVE  FineCall(Flow("native", files, r))
<1> DEFINE done == Flow("native", files, r)
           x == r.on
<1>1. /\ r.op = "init" => x \in Founding
      /\ r.op = "principal" => x \in Changeset
      /\ r.op \in {"submit", "approve", "reject", "attest"} => x \in Changeset
  BY ScenarioAssumption, ChangesetAssumption
<1> HIDE DEF done, x
<1>2. \/ r.op = "init" /\ done = InitFlow("native", files, x)
      \/ r.op = "submit" /\ done = SubmitFlow("native", files, x)
      \/ r.op = "principal" /\ done = PrincipalAddFlow("native", files, x)
      \/ r.op \in {"approve", "reject"} /\ done = DecideFlow(files, x, r.by, r.op)
      \/ r.op = "attest" /\ done = AttestFlow("native", files, x, r.by)
      \/ done = TrustFlow(files, x)
      \/ done = CheckpointFlow("native", files)
      \/ done = MigrateFlow(files, x)
  BY Flows DEF done, x
<1>3. x \in Changeset => FineCall(SubmitFlow("native", files, x))
  BY SubmitIsFine
<1>4. FineCall(done)
  BY <1>1, <1>2, <1>3, InitIsFine, PrincipalIsFine, DecideIsFine, AttestIsFine,
     TrustIsFine, CheckpointIsFine, MigrateIsFine
<1> QED
  BY <1>4 DEF done

\* A new call keeps what was reported, and prepares what it is to report.
LEMMA CallAcks ==
  ASSUME AckInv, KeyInv', scenario \in Scenarios,
         NEW p \in Processes, NEW r \in scenario.requests, NativeCall(p, r)
  PROVE  AckInv'
<1>1. PICK s, reports, b :
        /\ s = Flow("native", files, r).steps
        /\ reports = Flow("native", files, r).reports
        /\ b = Flow("native", files, r).builds
        /\ s # <<>> /\ Idle(p)
        /\ call' = [call EXCEPT ![p] = Doing(s, FALSE, reports, Paths(s))]
        /\ Built(files, b) /\ contended \subseteq contended'
        /\ UNCHANGED <<files, acked, torn>>
  BY DEF NativeCall
<1>2. Sound(s, b) /\ (reports # None => Honest(s, reports))
  BY <1>1, FlowIsFine DEF FineCall, AckInv
<1>3. PICK c : c = Doing(s, FALSE, reports, Paths(s))
  OBVIOUS
<1>4. c.steps = s /\ c.paths = Paths(s) /\ c.reports = reports
  BY <1>3 DEF Doing
<1>5. call'[p] = c /\ \A q \in Processes : q # p => call'[q] = call[q]
  BY <1>1, <1>3 DEF AckInv, KeyInv, StoreInv
<1>6. \A x \in Changeset : lineage[x] # {} \/ x = b => lineage'[x] # {}
  <2> TAKE x \in Changeset
  <2>1. x # None /\ lineage \in [Changeset -> SUBSET Changeset]
    BY ChangesetAssumption DEF AckInv, KeyInv, StoreInv
  <2>2. CASE b = None
    BY <1>1, <2>1, <2>2 DEF Built
  <2>3. CASE b # None
    <3>1. PICK below : lineage' = [lineage EXCEPT ![b] = {b} \cup below]
      BY <1>1, <2>3 DEF Built
    <3> QED
      BY <2>1, <3>1
  <2> QED
    BY <2>2, <2>3
<1>7. \A q \in Processes : q # p => Paths(s) \cap call[q].paths \subseteq Broken'
  BY <1>4, <1>5 DEF KeyInv, StoreInv, Apart, Broken
<1>8. ASSUME NEW path \in Paths(s), Exists(files, path), ~Intact(files, path)
      PROVE  path \in Broken'
  <2>1. path \in Shaken
    BY <1>8 DEF AckInv, EmptyIsShaken, Exists, Intact
  <2>2. CASE path \in torn \cup contended
    BY <1>1, <2>2 DEF Broken
  <2>3. CASE path \in Opened
    <3>1. PICK q \in Processes : ~Idle(q) /\ path = Next1(q).path
      BY <2>3 DEF Opened, Running, LeftEmpty
    <3>2. path \in call[q].paths /\ q # p
      BY <1>1, <3>1, First DEF AckInv, KeyInv
    <3> QED
      BY <1>7, <3>2
  <2> QED
    BY <2>1, <2>2, <2>3 DEF Shaken
<1>9. Starts(p, s, reports, b)
  BY <1>1, <1>4, <1>5, <1>6, <1>7, <1>8 DEF Starts, Broken
<1>10. EmptyIsShaken'
  <2>1. Shaken \subseteq Shaken'
    BY CallDisturbsNothing DEF AckInv, KeyInv
  <2> QED
    BY <1>1, <2>1 DEF AckInv, EmptyIsShaken
<1>11. Born'
  BY <1>2, <1>9, BornWithCall DEF AckInv, KeyInv
<1>12. /\ \A q \in Processes : Ordered(call[q].steps, call[q].paths)'
       /\ Known'
  BY <1>2, <1>9, OrderedWithCall, KnownWithCall DEF AckInv
<1>13. ASSUME NEW fact \in acked' PROVE Kept(fact, <<>>)'
  BY <1>1, <1>2, <1>9, <1>13, KeptWithCall DEF AckInv, Elsewhere
<1>14. ASSUME NEW q \in Processes, call'[q].steps # <<>>, call'[q].reports # None,
              NEW fact, fact = call'[q].reports, NEW v, v = call'[q].steps
       PROVE  Kept(fact, v)'
  <2>1. CASE q # p
    <3>1. call'[q] = call[q]
      BY <1>5, <2>1
    <3>2. Kept(fact, v) /\ Elsewhere(p, v)
      BY <1>14, <2>1, <3>1 DEF AckInv, Idle, Elsewhere
    <3> QED
      BY <1>2, <1>9, <3>2, KeptWithCall DEF AckInv
  <2>2. CASE q = p
    <3>1. fact = reports /\ v = s
      BY <1>4, <1>5, <1>14, <2>2
    <3> QED
      BY <1>2, <1>9, <1>14, <3>1, ReportWithCall DEF AckInv
  <2> QED
    BY <2>1, <2>2
<1>15. \A q \in Processes :
         (~Idle(q) /\ call[q].reports # None => Kept(call[q].reports, call[q].steps))'
  BY <1>14 DEF Idle
<1> QED
  BY <1>10, <1>11, <1>12, <1>13, <1>15 DEF AckInv

\* The invariant is about what native processes were told.
NativeAckInv == scenario \in Scenarios /\ (scenario.host = "native" => AckInv)

\* Nobody was told anything yet.
LEMMA InitNativeAcks == Init => NativeAckInv
<1> SUFFICES ASSUME Init, scenario.host = "native" PROVE AckInv
  BY DEF Init, NativeAckInv
<1>1. KeyInv
  BY InitNativeKeys DEF NativeKeyInv
<1>2. /\ call = [p \in Processes |-> Returned] /\ acked = {}
      /\ files = IF scenario.start = "fresh" THEN NoFiles ELSE Graph0
      /\ lineage = [x \in Changeset |-> IF scenario.start = "fresh" THEN {}
                                        ELSE {x} \cap {Genesis}]
  BY DEF Init
<1>3. Returned.steps = <<>>
  BY DEF Returned, Doing
<1>4. \A p \in Processes : call[p].steps = <<>>
  BY <1>2, <1>3
<1>5. \A p \in Processes : Ordered(call[p].steps, call[p].paths)
  BY <1>4 DEF Ordered
<1>6. Genesis \in Founding /\ Genesis # Torn
  BY NamedFacts, ChangesetAssumption
<1>7. EmptyIsShaken /\ Born /\ Known
  <2>1. CASE scenario.start = "fresh"
    BY <1>2, <1>4, <2>1 DEF EmptyIsShaken, Born, Known, NoFiles, Exists, Intact, Stored
  <2>2. CASE scenario.start # "fresh"
    <3>1. /\ DOMAIN files = {GraphYaml, StoreKey(NameOf[Genesis]), ChangesetFile(Genesis), HeadFile}
          /\ files[GraphYaml] = [id |-> Genesis, trusted |-> {}]
          /\ \A path \in DOMAIN files : path # GraphYaml => files[path] = Genesis
      BY <1>2, <2>2 DEF Graph0
    <3>2. [id |-> Genesis, trusted |-> {}] # Torn
      BY DEF Torn
    <3>3. EmptyIsShaken
      BY <1>6, <3>1, <3>2 DEF EmptyIsShaken
    <3>4. \A x : ProposalFile(x) \notin DOMAIN files
                 /\ (ChangesetFile(x) \in DOMAIN files => x = Genesis)
      BY <3>1, MoreKinds
    <3>5. Genesis \in Changeset /\ lineage[Genesis] # {}
      BY <1>2, <1>6, <2>2, ChangesetAssumption
    <3>6. Born
      BY <1>4, <3>4, <3>5 DEF Born, Exists, Stored
    <3>7. Known
      BY <1>4, <3>1, <3>5 DEF Known, IsBuilt
    <3> QED
      BY <3>3, <3>6, <3>7
  <2> QED
    BY <2>1, <2>2
<1> QED
  BY <1>1, <1>2, <1>4, <1>5, <1>7 DEF AckInv, Idle

\* Every step preserves it.
LEMMA NextNativeAcks == NativeAckInv /\ [Next]_vars => NativeAckInv'
<1> SUFFICES ASSUME NativeAckInv, [Next]_vars PROVE NativeAckInv'
  OBVIOUS
<1>1. scenario' = scenario /\ scenario \in Scenarios
  BY DEF NativeAckInv, Next, vars, Call, NativeCall, MirrorCall, Step, Open, Fill,
     Unlink, KeyExists, Interrupt, Reload
<1>2. SUFFICES ASSUME scenario.host = "native", AckInv PROVE AckInv'
  BY <1>1 DEF NativeAckInv
<1>3. KeyInv'
  BY <1>1, <1>2, NextNativeKeys DEF NativeKeyInv, AckInv
<1>4. ASSUME NEW p \in Processes, NEW r \in scenario.requests, Call(p, r)
      PROVE  AckInv'
  BY <1>1, <1>2, <1>3, <1>4, CallAcks DEF Call, MirrorCall
<1>5. ASSUME NEW p \in Processes, Step(p) \/ Interrupt(p) PROVE AckInv'
  BY <1>2, <1>3, <1>5, AckStep DEF Step, Interrupt
<1>6. ~Reload
  BY <1>2 DEF Reload
<1>7. CASE UNCHANGED vars
  <2>1. UNCHANGED <<files, call, lineage, acked, torn, contended>>
    BY <1>7 DEF vars
  <2>2. Shaken' = Shaken /\ Broken' = Broken
    BY <2>1 DEF Shaken, Broken, Opened, Running, Idle, LeftEmpty, Next1
  <2>3. EmptyIsShaken' /\ Born' /\ Known'
    BY <1>2, <2>1, <2>2 DEF AckInv, EmptyIsShaken, Born, Known, IsBuilt, Writes, Exists,
       Intact, Stored
  <2>4. ASSUME NEW s, NEW paths, Ordered(s, paths) PROVE Ordered(s, paths)'
    BY <2>1, <2>2, <2>4 DEF Ordered, Stored, Exists, Erases, Writes
  <2>5. ASSUME NEW s, NEW fact, Kept(fact, s) PROVE Kept(fact, s)'
    <3>1. /\ \A path : Will(s, path, fact) => Will(s, path, fact)'
          /\ \A path : AllBear(path, fact) => AllBear(path, fact)'
      BY <2>1 DEF Will, AllBear, Has, Writes, Bears, Exists
    <3>2. \A x : Inboxed(s, fact, x) => Inboxed(s, fact, x)'
      <4>1. ASSUME NEW x, NEW p \in Processes,
                   Settles(call[p].steps, call[p].paths, fact, x)
            PROVE  Settles(call[p].steps, call[p].paths, fact, x)'
        BY <2>1, <4>1 DEF Settles, Has, Writes, Bears, Exists, Erases
      <4> QED
        BY <2>1, <3>1, <4>1 DEF Inboxed
    <3>3. \A x : InLog(s, fact, x) => InLog(s, fact, x)'
      BY <2>1 DEF InLog, Closed, Gone, Will, AllBear, Has, Writes, Bears, Exists, Erases
    <3>4. \A x : IsBuilt(x)' = IsBuilt(x)
      BY <2>1 DEF IsBuilt
    <3> QED
      BY <2>2, <2>5, <3>1, <3>2, <3>3, <3>4 DEF Kept
  <2>6. \A p \in Processes : Idle(p)' = Idle(p)
    BY <2>1 DEF Idle
  <2> QED
    BY <1>2, <1>3, <2>1, <2>3, <2>4, <2>5, <2>6 DEF AckInv
<1> QED
  BY <1>4, <1>5, <1>6, <1>7 DEF Next

\* What is kept is recorded, or was broken with the file that kept it.
LEMMA KeptIsRecorded ==
  ASSUME EmptyIsShaken, NEW fact, Kept(fact, <<>>)
  PROVE  \/ Recorded(fact) \/ FoundedAnew(fact)
         \/ Keepers(fact) \cap (torn \cup contended \cup Opened) # {}
<1> DEFINE x == fact[2]
<1>1. ASSUME NEW path, Will(<<>>, path, fact)
      PROVE  path \in Shaken \/ (Intact(files, path) /\ Bears(files[path], fact))
  <2>1. Has(path, fact)
    BY <1>1 DEF Will
  <2> QED
    BY <2>1 DEF Has, EmptyIsShaken, Exists, Intact
<1>2. torn \cup contended \cup Opened = Shaken /\ Broken \subseteq Shaken
  BY DEF Shaken, Broken
<1>3. ASSUME NEW path \in Keepers(fact), path \in Shaken
      PROVE  Keepers(fact) \cap (torn \cup contended \cup Opened) # {}
  BY <1>2, <1>3
<1>4. CASE fact[1] = "admitted"
  BY <1>1, <1>2, <1>4 DEF Kept, Keepers, Recorded
<1>5. CASE fact[1] = "held"
  BY <1>1, <1>2, <1>5 DEF Kept, Keepers, Recorded
<1>6. CASE fact[1] \in {"approve", "reject"}
  <2>1. Keepers(fact) = {ProposalEvidenceFile(x), EvidenceFile(x)}
    BY <1>6 DEF Keepers
  <2>2. ASSUME NEW path \in {ProposalEvidenceFile(x), EvidenceFile(x)},
               Intact(files, path), Bears(files[path], fact)
        PROVE  Recorded(fact)
    BY <1>6, <2>2 DEF Recorded, Bears, EvidenceIn
  <2> QED
    BY <1>1, <1>2, <1>3, <1>6, <2>1, <2>2 DEF Kept, Inboxed, InLog
<1>7. CASE fact[1] = "attested"
  <2>1. Keepers(fact) = {EvidenceFile(x)}
    BY <1>7 DEF Keepers
  <2>2. Intact(files, EvidenceFile(x)) /\ Bears(files[EvidenceFile(x)], fact) => Recorded(fact)
    BY <1>7 DEF Recorded, Bears, EvidenceIn
  <2> QED
    BY <1>1, <1>2, <1>3, <1>7, <2>1, <2>2 DEF Kept, InLog
<1>8. CASE fact[1] = "trusted"
  <2>1. Keepers(fact) = {GraphYaml}
    BY <1>8 DEF Keepers
  <2>2. Intact(files, GraphYaml) /\ Bears(files[GraphYaml], fact)
          => Recorded(fact) \/ FoundedAnew(fact)
    BY <1>8 DEF Recorded, FoundedAnew, Bears
  <2> QED
    BY <1>1, <1>2, <1>3, <1>8, <2>1, <2>2 DEF Kept
<1>9. CASE fact[1] = "attested early"
  BY <1>9 DEF Recorded
<1>10. CASE fact[1] = "checkpoint"
  BY <1>1, <1>2, <1>10 DEF Kept, Keepers, Recorded
<1>11. CASE fact[1] \notin {"admitted", "held", "approve", "reject", "attested", "trusted",
                            "attested early", "checkpoint"}
  <2>1. PICK g \in Founding : Will(<<>>, UserKey(g, x), fact)
    BY <1>11 DEF Kept
  <2>2. Keepers(fact) = {UserKey(h, x) : h \in Founding}
    BY <1>11 DEF Keepers
  <2>3. Intact(files, UserKey(g, x)) => Recorded(fact)
    BY <1>11 DEF Recorded
  <2> QED
    BY <1>1, <1>3, <2>1, <2>2, <2>3
<1> QED
  BY <1>4, <1>5, <1>6, <1>7, <1>8, <1>9, <1>10, <1>11

\* What a caller of a native process was told has been done is on disk, or was
\* lost with the very file that kept it when a process died in that file or two
\* wrote it at once, or is a measurement trusted before the graph was founded
\* again; for any number of processes, wherever they die.
THEOREM AckedStays == Spec => [](scenario.host = "native" => AckedSurvives)
<1>1. Spec => []NativeAckInv
  BY InitNativeAcks, NextNativeAcks, PTL DEF Spec
<1>2. NativeAckInv => (scenario.host = "native" => AckedSurvives)
  BY KeptIsRecorded DEF NativeAckInv, AckInv, AckedSurvives
<1> QED
  BY <1>1, <1>2, PTL
=============================================================================
