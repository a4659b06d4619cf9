--------------------------- MODULE SchemaPackage ----------------------------
(***************************************************************************)
(* Schema as documents, as meta nodes and as a registry: schemaops.rs      *)
(* compiles documents to nodes and projects nodes to documents, meta.rs    *)
(* derives the registry from the nodes, loader.rs and registry.rs load it  *)
(* from documents.  What the code writes twice, to derive the registry and *)
(* to project it, is written once here.                                    *)
(*                                                                         *)
(* An ontology document is [ontology, imports, defs, rules]: defs[kind]    *)
(* maps the names of a kind to their definitions.  A taxonomy document is  *)
(* [taxonomy, terms].  A policy is one opaque definition.                  *)
(***************************************************************************)
EXTENDS Fold, SequencesExt

CONSTANTS
  Order,      \* all ids, in the order of state entries: kind, then id
  AttrOrder   \* all names of attributes, in alphabetical order

\* A function, and what another one says beyond it (TLC's @@).
Over(f, g) ==
  [x \in DOMAIN f \cup DOMAIN g |-> IF x \in DOMAIN f THEN f[x] ELSE g[x]]

NamedTypes == {"meta/EntityType", "meta/EdgeType", "meta/Struct"}
ElementTypes == NamedTypes \cup {"meta/ValidationRule"}

Qualified(package, name) == package \o "/" \o name

IsOntology(doc) == "ontology" \in DOMAIN doc

-----------------------------------------------------------------------------
\* compile_schema_ops: documents to the bodies of meta nodes.

\* The fields in which the fold looks up what an element defines.
Lookup(kind, name, definition) ==
  CASE kind = "meta/EntityType" ->
         [defines |-> {name}, extends |-> definition.extends]
    [] kind = "meta/EdgeType" ->
         [name |-> name, domain |-> definition.domain, range |-> definition.range]
    [] kind = "meta/ValidationRule" -> definition
    [] OTHER -> EmptyState

\* Mutation: imports go with the types only.
ElementOfTypes(doc, kind, name, definition) ==
  Over([type |-> kind, package |-> doc.ontology, element |-> name,
        definition |-> definition,
        imports |-> IF kind = "meta/EntityType" THEN doc.imports ELSE {}],
       Lookup(kind, Qualified(doc.ontology, name), definition))

Element(doc, kind, name, definition) ==
  Over([type |-> kind, package |-> doc.ontology, element |-> name,
        definition |-> definition, imports |-> doc.imports],
       Lookup(kind, Qualified(doc.ontology, name), definition))

CompileOntology(doc) ==
  SetToSeq(UNION {{Element(doc, kind, name, doc.defs[kind][name]) :
                     name \in DOMAIN doc.defs[kind]} : kind \in NamedTypes})
  \o [i \in DOMAIN doc.rules |->
        Element(doc, "meta/ValidationRule", doc.rules[i].name, doc.rules[i])]

CompileTaxonomy(doc) ==
  [i \in DOMAIN doc.terms |->
     [type |-> "meta/TaxonomyTerm", taxonomy |-> doc.taxonomy,
      term |-> doc.terms[i].name, parents |-> doc.terms[i].parents,
      status |-> doc.terms[i].status]]

CompilePolicy(policy) ==
  IF policy = None THEN <<>> ELSE <<[type |-> "meta/Policy", definition |-> policy]>>

CompileSchemaOps(docs, policy) ==
  FlattenSeq([i \in DOMAIN docs |-> IF IsOntology(docs[i])
                                    THEN CompileOntology(docs[i])
                                    ELSE CompileTaxonomy(docs[i])])
  \o CompilePolicy(policy)

\* The members of a sequence that are in a set, in their order.
Selected(seq, set) ==
  LET run[i \in 0..Len(seq)] ==
        IF i = 0 THEN <<>>
        ELSE IF seq[i] \in set THEN Append(run[i-1], seq[i]) ELSE run[i-1]
  IN  run[Len(seq)]

LiveOfType(s, type) == {id \in LiveNodes(s) : TypeOf(s[id].content) = type}

\* In the order of their ids.
PolicyNodes(s) == Selected(Order, LiveOfType(s, "meta/Policy"))

\* Mutation: the policy is created like everything else.
InstallOpAnew(s, id, body) == [verb |-> "create", id |-> id, body |-> body]

\* install_package_ops: a policy updates the live policy node, if there is one.
InstallOp(s, id, body) ==
  IF body.type = "meta/Policy" /\ PolicyNodes(s) # <<>>
  THEN [verb |-> "update", id |-> PolicyNodes(s)[1],
        prior |-> s[PolicyNodes(s)[1]].rev, body |-> body]
  ELSE [verb |-> "create", id |-> id, body |-> body]

InstallPackageOps(s, bodies, ids) ==
  [i \in DOMAIN bodies |-> InstallOp(s, ids[i], bodies[i])]

-----------------------------------------------------------------------------
\* Registry::from_state: of two nodes for one name the later id counts; rules
\* are kept all, imports are united.  The fixed meta package is left out.

InPackage(s, type, package) ==
  Selected(Order, {id \in LiveOfType(s, type) : s[id].content.package = package})

Packages(s) ==
  UNION {{s[id].content.package : id \in LiveOfType(s, type)} : type \in ElementTypes}

\* What a sequence of pairs says of each name; the last one counts.
LastOf(pairs) ==
  [name \in {pairs[i][1] : i \in DOMAIN pairs} |->
     pairs[CHOOSE i \in DOMAIN pairs :
             /\ pairs[i][1] = name
             /\ \A j \in DOMAIN pairs : pairs[j][1] = name => j <= i][2]]

Assembled(s, type, package) ==
  LET ids == InPackage(s, type, package)
  IN  LastOf([i \in DOMAIN ids |-> <<s[ids[i]].content.element,
                                    s[ids[i]].content.definition>>])

AssembledRules(s, package) ==
  LET ids == InPackage(s, "meta/ValidationRule", package)
  IN  [i \in DOMAIN ids |-> s[ids[i]].content.definition]

AssembledImports(s, package) ==
  UNION {UNION {s[id].content.imports :
                  id \in {n \in LiveOfType(s, type) : s[n].content.package = package}} :
           type \in ElementTypes}

Terms(s, taxonomy) ==
  LET ids == Selected(Order, {id \in LiveOfType(s, "meta/TaxonomyTerm") :
                                s[id].content.taxonomy = taxonomy})
  IN  [i \in DOMAIN ids |-> [name |-> s[ids[i]].content.term,
                             parents |-> s[ids[i]].content.parents,
                             status |-> s[ids[i]].content.status]]

Taxonomies(s) ==
  {s[id].content.taxonomy : id \in LiveOfType(s, "meta/TaxonomyTerm")}

\* insert_taxonomy keeps the parents alone.
TermMap(terms) == LastOf([i \in DOMAIN terms |-> <<terms[i].name, terms[i].parents>>])

FromState(s) ==
  [packages |-> [p \in Packages(s) |->
      [defs |-> [type \in NamedTypes |-> Assembled(s, type, p)],
       rules |-> AssembledRules(s, p), imports |-> AssembledImports(s, p)]],
   taxonomies |-> [t \in Taxonomies(s) |-> TermMap(Terms(s, t))]]

-----------------------------------------------------------------------------
\* project_schema: meta nodes to documents.  More than one policy is an error.

CanProject(s) == Len(PolicyNodes(s)) <= 1

\* The terms of one name, in the order of their nodes.
Named(terms, name) == Selected(terms, {t \in Range(terms) : t.name = name})

Names(terms) == SetToSeq({terms[i].name : i \in DOMAIN terms})

\* Mutation: of two terms of one name, the later comes first.
ByNameReversed(terms) ==
  FlattenSeq([i \in DOMAIN Names(terms) |-> Reverse(Named(terms, Names(terms)[i]))])

\* Terms by name.
ByName(terms) ==
  FlattenSeq([i \in DOMAIN Names(terms) |-> Named(terms, Names(terms)[i])])

ProjectPackage(s, package) ==
  [ontology |-> package,
   imports |-> AssembledImports(s, package),
   defs |-> [type \in NamedTypes |-> Assembled(s, type, package)],
   rules |-> AssembledRules(s, package)]

ProjectTaxonomy(s, taxonomy) ==
  [taxonomy |-> taxonomy, terms |-> ByName(Terms(s, taxonomy))]

ProjectSchema(s) ==
  SetToSeq({ProjectPackage(s, p) : p \in Packages(s)})
  \o SetToSeq({ProjectTaxonomy(s, t) : t \in Taxonomies(s)})

-----------------------------------------------------------------------------
\* load_docs: each document is registered in turn and replaces what was
\* registered under its name.

Ontologies(docs) == Selected(docs, {d \in Range(docs) : IsOntology(d)})
TaxonomyDocs(docs) == Selected(docs, {d \in Range(docs) : ~IsOntology(d)})

LoadDocs(docs) ==
  LET onts == Ontologies(docs)
      taxs == TaxonomyDocs(docs)
  IN  [packages |-> LastOf([i \in DOMAIN onts |->
                              <<onts[i].ontology,
                                [defs |-> onts[i].defs, rules |-> onts[i].rules,
                                 imports |-> onts[i].imports]>>]),
       taxonomies |-> LastOf([i \in DOMAIN taxs |->
                                <<taxs[i].taxonomy, TermMap(taxs[i].terms)>>])]

-----------------------------------------------------------------------------
\* Attributes of a type: its own, then what it inherits.

TypeDefs(reg) ==
  UNION {{[name |-> Qualified(p, n), def |-> reg.packages[p].defs["meta/EntityType"][n]] :
            n \in DOMAIN reg.packages[p].defs["meta/EntityType"]} :
           p \in DOMAIN reg.packages}

\* The definition of a type, or None, and the types it extends.
DefOf(reg, type) ==
  LET found == {t \in TypeDefs(reg) : t.name = type}
  IN  IF found = {} THEN None ELSE (CHOOSE t \in found : TRUE).def

\* collected[i] holds the attributes of the first i types in the line of
\* ancestors, and the next one.  A type met again adds nothing.
CollectAttrs(reg, type) ==
  LET collected[i \in 0..Cardinality(TypeDefs(reg))] ==
        IF i = 0 THEN [attrs |-> EmptyState, next |-> type]
        ELSE LET before == collected[i-1]
                 def == DefOf(reg, before.next)
             IN  IF def = None THEN before
                 ELSE [attrs |-> Over(before.attrs, def.attrs),
                       next |-> IF def.extends = {} THEN None
                                ELSE CHOOSE t \in def.extends : TRUE]
  IN  collected[Cardinality(TypeDefs(reg))].attrs

\* The first attribute that the type marks as its long text, if any.
LongTextAttr(reg, type) ==
  LET attrs == CollectAttrs(reg, type)
      marked == Selected(AttrOrder, {a \in DOMAIN attrs : attrs[a]})
  IN  IF marked = <<>> THEN None ELSE marked[1]
=============================================================================
