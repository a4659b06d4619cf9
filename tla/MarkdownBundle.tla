--------------------------- MODULE MarkdownBundle ---------------------------
(***************************************************************************)
(* The markdown bundle of a graph (md.rs) and the packages it is installed *)
(* with (flows.rs): a directory of files that people edit, written by an   *)
(* export and read back by an import while the graph and its schema move   *)
(* on.                                                                     *)
(*                                                                         *)
(* A text is a sequence of words and blanks.  A file is kept as what its   *)
(* front matter and its body say: id, rev, type, the attributes that are   *)
(* not long text, and the body.  Links and classifications in the front    *)
(* matter are written but never read.  Who may commit what is left to      *)
(* Governance: the changesets here are admitted if they apply.             *)
(***************************************************************************)
EXTENDS SchemaPackage

CONSTANTS
  TermOrder,   \* "_unclassified" and all terms, in alphabetical order
  Newline,     \* the blanks of a text: the newline
  Space,       \*   and the others
  Scenarios    \* where the graph starts and what may happen, see Init and Next

\* A text, the attributes of a node, the content of one that is no schema, and
\* of one that is: it has no attributes.
IsText(text) == text \in Seq(Range(text))

IsAttrs(attrs) ==
  /\ attrs = [a \in DOMAIN attrs |-> attrs[a]] /\ None \notin DOMAIN attrs
  /\ \A a \in DOMAIN attrs : IsText(attrs[a])

IsContent(content) ==
  /\ DOMAIN content = {"type", "attrs"}
  /\ content = [type |-> content.type, attrs |-> content.attrs]
  /\ content.type \notin MetaTypes
  /\ IsAttrs(content.attrs)

IsSchema(content) ==
  /\ content = [field \in DOMAIN content |-> content[field]]
  /\ TypeOf(content) \in MetaTypes /\ "attrs" \notin DOMAIN content

\* A document defines finitely many names.
IsDoc(doc) ==
  IF IsOntology(doc)
  THEN /\ \A kind \in NamedTypes : IsFiniteSet(DOMAIN doc.defs[kind])
       /\ doc.rules \in Seq(Range(doc.rules))
       /\ \A rule \in Range(doc.rules) : "attrs" \notin DOMAIN rule
  ELSE doc.terms \in Seq(Range(doc.terms))

\* A graph starts with what its documents define and with one policy node; ids
\* that are minted name nothing yet, and none is minted twice.
IsScenario(sc) ==
  LET Nodes == DOMAIN sc.start \cap NodeId
      Elements == UNION {Range(CompileOntology(doc)) : doc \in {d \in sc.docs : IsOntology(d)}}
  IN  /\ sc.steps \in Nat
      /\ sc.start = [id \in DOMAIN sc.start |-> sc.start[id]] /\ DOMAIN sc.start \subseteq Id
      /\ \A id \in Nodes :
           /\ IsSchema(sc.start[id]) \/ IsContent(sc.start[id])
           /\ TypeOf(sc.start[id]) = "meta/Policy" => id = sc.policy
           /\ TypeOf(sc.start[id]) \in ElementTypes => sc.start[id] \in Elements
      /\ Elements \subseteq {sc.start[id] : id \in Nodes}
      /\ \A doc \in sc.docs : IsDoc(doc)
      /\ \A package \in sc.packages : /\ package.docs \in Seq(Range(package.docs))
                                     /\ \A doc \in Range(package.docs) : IsDoc(doc)
      /\ \A ids \in sc.ids :
           /\ ids \in Seq(NodeId \ (DOMAIN sc.start \cup {n[1] : n \in sc.nodes}))
           /\ IsInjective(ids)
           /\ \A other \in sc.ids : other # ids => Range(other) \cap Range(ids) = {}
      /\ \A n \in sc.nodes : n[1] \in NodeId /\ IsContent(n[2])
      /\ \A u \in sc.updates : u[1] \in NodeId /\ IsAttrs(u[2])
      /\ \A c \in sc.marks : c[1] \in ClassificationId
      /\ \A text \in sc.texts : IsText(text)

ASSUME BundleAssumption ==
  /\ Order \in Seq(Range(Order)) /\ NodeId \subseteq Range(Order)
  /\ TermOrder \in Seq(Range(TermOrder)) /\ "_unclassified" \in Range(TermOrder)
  /\ \A sc \in Scenarios : IsScenario(sc)

VARIABLES
  scenario,   \* fixed at the start
  objects,    \* the state at the head
  dir,        \* the bundle's directory: path -> file
  installed,  \* the documents that were ever installed
  unused,     \* ids that uuid4 may mint, in blocks, one for an install
  steps       \* how many steps were made

vars == <<scenario, objects, dir, installed, unused, steps>>

Registry == FromState(objects)

CanStep == steps < scenario.steps /\ steps' = steps + 1

\* A changeset that does not apply is refused, and nothing changes.  Without a
\* policy to admit it nothing applies.
Apply(ops) ==
  /\ PolicyNodes(objects) # <<>>
  /\ \E result \in {ApplyChangeset(RegistryOf(objects), objects, ops)} :
       result.ok /\ objects' = result.objects

-----------------------------------------------------------------------------
\* install_package.

\* Mutation: ids are minted again.
InstallAgain(package, ids) ==
  LET bodies == CompileSchemaOps(package.docs, package.policy)
  IN  /\ CanStep
      /\ Len(bodies) <= Len(ids)
      /\ Apply(InstallPackageOps(objects, bodies, ids))
      /\ installed' = installed \cup Range(package.docs)
      /\ UNCHANGED <<scenario, dir, unused>>

Install(package, ids) ==
  LET bodies == CompileSchemaOps(package.docs, package.policy)
  IN  /\ CanStep
      /\ Len(bodies) <= Len(ids)
      /\ Apply(InstallPackageOps(objects, bodies, ids))
      /\ installed' = installed \cup Range(package.docs)
      /\ unused' = unused \ {ids}
      /\ UNCHANGED <<scenario, dir>>

-----------------------------------------------------------------------------
\* Work in the graph itself.

Commit(ops) ==
  /\ CanStep
  /\ Apply(ops)
  /\ UNCHANGED <<scenario, dir, installed, unused>>

CreateNode(id, content) == Commit(<<[verb |-> "create", id |-> id, body |-> content]>>)

UpdateNode(id, attrs) ==
  /\ Live(objects, id) /\ ~objects[id].redacted
  /\ Commit(<<[verb |-> "update", id |-> id, prior |-> objects[id].rev,
               body |-> [objects[id].content EXCEPT !.attrs = attrs]]>>)

Delete(id) ==
  /\ Live(objects, id)
  /\ Commit(<<[verb |-> "delete", id |-> id, prior |-> objects[id].rev]>>)

Redact(id) ==
  /\ Live(objects, id) /\ ~objects[id].redacted
  /\ Commit(<<[verb |-> "redact-document", id |-> id]>>)

Classify(id, subject, term) ==
  Commit(<<[verb |-> "create", id |-> id, body |-> [subject |-> subject, term |-> term]]>>)

-----------------------------------------------------------------------------
\* Texts.

Blanks == {Newline, Space}

TrimEnd(text, blanks) ==
  SubSeq(text, 1, Max({0} \cup {i \in DOMAIN text : text[i] \notin blanks}))

\* Mutation: only newlines are trimmed.
TrimNewlines(text) == TrimEnd(text, {Newline})

Trim(text) == Reverse(TrimEnd(Reverse(TrimEnd(text, Blanks)), Blanks))

-----------------------------------------------------------------------------
\* export.

\* The nodes that become files.
Exported(s) ==
  {id \in LiveNodes(s) : ~s[id].redacted /\ TypeOf(s[id].content) \notin MetaTypes}

\* A file lies under its first term.
PathOf(s, id) ==
  LET terms == Selected(TermOrder, ClassificationsOf(s, id))
  IN  <<IF terms = <<>> THEN "_unclassified" ELSE terms[1], id>>

\* The content without its long text, which becomes the body.  What the last
\* two fields say is not in the file: the attribute that became the body, and
\* whether the file was edited since.
FileOf(s, reg, id) ==
  LET content == s[id].content
      long == LongTextAttr(reg, content.type)
  IN  [id |-> id, rev |-> s[id].rev, type |-> content.type,
       attrs |-> [a \in DOMAIN content.attrs \ {long} |-> content.attrs[a]],
       body |-> IF long \in DOMAIN content.attrs
                THEN TrimEnd(content.attrs[long], {Newline}) ELSE <<>>,
       long |-> long, edited |-> FALSE]

Bundle(s, reg) ==
  [path \in {PathOf(s, id) : id \in Exported(s)} |-> FileOf(s, reg, path[2])]

\* Files are written over what is there; nothing is removed.
Export ==
  /\ CanProject(objects)
  /\ CanStep
  /\ dir' = Over(Bundle(objects, Registry), dir)
  /\ UNCHANGED <<scenario, objects, installed, unused>>

\* Somebody edits the text of a file.
EditFile(path, text) ==
  /\ dir[path].body # text
  /\ CanStep
  /\ dir' = [dir EXCEPT ![path].body = text, ![path].edited = TRUE]
  /\ UNCHANGED <<scenario, objects, installed, unused>>

-----------------------------------------------------------------------------
\* import.

\* The content that a file says, by the schema of today.
Reconstruct(reg, file) ==
  LET long == LongTextAttr(reg, file.type)
  IN  [type |-> file.type,
       attrs |-> IF long = None THEN file.attrs
                 ELSE Put(file.attrs, long, Trim(file.body))]

IsEdited(reg, file) == Reconstruct(reg, file) # file.rev

\* Paths in their order: by the term, then by the id.
Under(paths, term) ==
  LET ids == Selected(Order, {path[2] : path \in {p \in paths : p[1] = term}})
  IN  [i \in DOMAIN ids |-> <<term, ids[i]>>]

Sorted(paths) == FlattenSeq([i \in DOMAIN TermOrder |-> Under(paths, TermOrder[i])])

\* The paths of the files that differ from their revision.
Edits(reg, d) == {path \in DOMAIN d : IsEdited(reg, d[path])}

\* Mutation: the update replaces whatever is there.
UpdateOfTip(reg, s, file) ==
  [verb |-> "update", id |-> file.id, body |-> Reconstruct(reg, file),
   prior |-> IF file.id \in DOMAIN s THEN s[file.id].rev ELSE None]

\* The update names the revision that was exported.
UpdateOf(reg, s, file) ==
  [verb |-> "update", id |-> file.id, body |-> Reconstruct(reg, file),
   prior |-> file.rev]

\* One changeset for all of them.
ImportOps(reg, s, d) ==
  LET edited == Sorted(Edits(reg, d))
  IN  [i \in DOMAIN edited |-> UpdateOf(reg, s, d[edited[i]])]

Import ==
  \E ops \in {ImportOps(Registry, objects, dir)} : ops # <<>> /\ Commit(ops)

-----------------------------------------------------------------------------
\* Genesis holds the core package and a policy (flows::init).
Init ==
  /\ scenario \in Scenarios
  /\ objects = [id \in DOMAIN scenario.start |->
                  [content |-> scenario.start[id], rev |-> scenario.start[id],
                   deleted |-> FALSE, redacted |-> FALSE]]
  /\ dir = [path \in {} |-> None]
  /\ installed = scenario.docs
  /\ unused = scenario.ids
  /\ steps = 0

Work ==
  \/ \E n \in scenario.nodes : CreateNode(n[1], n[2])
  \/ \E u \in scenario.updates : UpdateNode(u[1], u[2])
  \/ \E id \in scenario.deletes : Delete(id)
  \/ \E id \in scenario.redacts : Redact(id)
  \/ \E c \in scenario.marks : Classify(c[1], c[2], c[3])

Next ==
  \/ \E package \in scenario.packages, ids \in unused : Install(package, ids)
  \/ Work
  \/ scenario.bundle /\ Export
  \/ \E path \in DOMAIN dir, text \in scenario.texts : EditFile(path, text)
  \/ Import

Spec == Init /\ [][Next]_vars

-----------------------------------------------------------------------------
\* Properties.

\* The type invariant: what was not minted names nothing, files lie under
\* their ids and name revisions.
TypeOK ==
  /\ DOMAIN objects \subseteq Id
  /\ unused \subseteq scenario.ids
  /\ \A ids \in unused : Range(ids) \cap DOMAIN objects = {}
  /\ \A path \in DOMAIN dir : /\ path[1] \in Range(TermOrder)
                              /\ path[2] = dir[path].id
                              /\ path[2] \in DOMAIN objects \cap NodeId
                              /\ "attrs" \in DOMAIN dir[path].rev
  /\ steps \in 0..scenario.steps

\* What is projected loads as the registry that the state defines, though the
\* same names were installed more than once and nodes deleted in between
\* (schemaops.rs, on project_schema).
ProjectionRoundTrips ==
  CanProject(objects) => LoadDocs(ProjectSchema(objects)) = FromState(objects)

\* What was installed is in force until its nodes are gone: each name has a
\* definition that some document gave it, rules and imports are all there.  A
\* document that defines nothing leaves no trace, what it imports included.
\* Which document it is, a package installed later or an earlier one, is up to
\* random ids (meta.rs:195), where spec/02-schema.md:109 has the next version
\* replace the last: versions are written but never compared.
DocsInForce ==
  LET reg == Registry
      gone == {objects[id].rev : id \in {n \in DOMAIN objects :
                                           objects[n].deleted \/ objects[n].redacted}}
  IN  \A doc \in {d \in installed : IsOntology(d) /\ CompileOntology(d) # <<>>} :
        (\A c \in gone : "package" \in DOMAIN c => c.package # doc.ontology) =>
          /\ doc.ontology \in DOMAIN reg.packages
          /\ doc.imports \subseteq reg.packages[doc.ontology].imports
          /\ Range(doc.rules) \subseteq Range(reg.packages[doc.ontology].rules)
          /\ \A type \in NamedTypes : \A name \in DOMAIN doc.defs[type] :
               \E d \in {e \in installed : IsOntology(e)} :
                 /\ d.ontology = doc.ontology
                 /\ name \in DOMAIN d.defs[type]
                 /\ name \in DOMAIN reg.packages[doc.ontology].defs[type]
                 /\ d.defs[type][name] = reg.packages[doc.ontology].defs[type][name]

\* However often packages bring a policy along, no policy node joins the one of
\* genesis (flows.rs, on install_package), not even when that one is deleted.
OnePolicyNode == Range(PolicyNodes(objects)) \subseteq {scenario.policy}

BlankEnded(text) == text # <<>> /\ {text[1], text[Len(text)]} \cap Blanks # {}

\* A file that nobody edited is taken for what was exported if and only if it
\* says it: no text became the body that is an attribute now, and if there is a
\* long text now, it was one that does not begin or end in blanks, or an empty
\* one that the body does not hold.  The code and its tests promise the like of
\* every file that nobody edited.
SaysAll(file, now) ==
  LET said == file.rev.attrs
  IN  /\ file.long \in DOMAIN said => file.long = now
      /\ now # None =>
           /\ now \in DOMAIN said
           /\ IF now = file.long THEN ~BlankEnded(said[now]) ELSE said[now] = <<>>

CleanFilesRoundTrip ==
  LET reg == Registry
  IN  \A path \in DOMAIN dir :
        LET file == dir[path]
        IN  ~file.edited =>
              (IsEdited(reg, file) <=> ~SaysAll(file, LongTextAttr(reg, file.type)))

\* An import replaces only what the edited files were exported from: what
\* somebody did to a node since then is not lost.  Of several files of one
\* node, each is an edit of the node or of what another one says.
ImportsReplaceWhatWasRead ==
  [][Import =>
       \A id \in DOMAIN objects :
         objects'[id] # objects[id] =>
           LET files == {dir[path] : path \in {p \in Edits(Registry, dir) : dir[p].id = id}}
               Read(file) == file.rev = objects[id].rev
               Says(file, content) == Reconstruct(Registry, file) = content
           IN  /\ \E file \in files : Read(file)
               /\ \E file \in files : Says(file, objects'[id].content)
               /\ \A file \in files :
                    Read(file) \/ \E other \in files : Says(other, file.rev)]_vars

\* A bundle that nobody edited is not an edit (spec/07 7.2).
CleanBundleIsNoEdit ==
  \A path \in DOMAIN dir : ~dir[path].edited => ~IsEdited(Registry, dir[path])
=============================================================================
