--------------------------- MODULE MarkdownProofs ---------------------------
(***************************************************************************)
(* Proofs about MarkdownBundle: the package installer, the projection of   *)
(* schema to documents, and the markdown bundle.                           *)
(*                                                                         *)
(* First what the recursive functions of the model compute: a selection    *)
(* from a sequence, the bodies that documents compile to, a trimmed text.  *)
(* Then the inductive invariant IInv, one lemma for each kind of step, and *)
(* at the end the theorems.  What IInv adds to the type invariant is where *)
(* revisions come from: schema only from installed documents, content only *)
(* from commits and files, and what a file says only from its revision as  *)
(* long as nobody edited it.                                               *)
(***************************************************************************)
EXTENDS MarkdownBundle, FoldProofs
-----------------------------------------------------------------------------
\* Selected: the recursion that defines it, one member at a time.

Picks(seq, set, n, run) ==
  run = [i \in 0..n |-> IF i = 0 THEN <<>>
                        ELSE IF seq[i] \in set THEN Append(run[i-1], seq[i]) ELSE run[i-1]]

LEMMA PicksExist ==
  ASSUME NEW seq, NEW set, NEW n \in Nat
  PROVE  \E run : Picks(seq, set, n, run)
<1> DEFINE good == {m \in 0..n : \E run : Picks(seq, set, m, run)}
<1>1. 0 \in good
  <2>1. Picks(seq, set, 0, [i \in 0..0 |-> <<>>])
    BY DEF Picks
  <2> QED
    BY <2>1
<1>2. ASSUME NEW m \in 1..n, m - 1 \in good PROVE m \in good
  <2>1. PICK run : Picks(seq, set, m - 1, run)
    BY <1>2
  <2> DEFINE last == IF seq[m] \in set THEN Append(run[m-1], seq[m]) ELSE run[m-1]
             longer == [i \in 0..m |-> IF i = m THEN last ELSE run[i]]
  <2>2. ASSUME NEW i \in 0..m
        PROVE  longer[i] = IF i = 0 THEN <<>>
                           ELSE IF seq[i] \in set THEN Append(longer[i-1], seq[i])
                                                  ELSE longer[i-1]
    <3>1. CASE i = m
      <4>1. longer[m-1] = run[m-1] /\ longer[m] = last /\ m # 0
        OBVIOUS
      <4> HIDE DEF longer
      <4> QED
        BY <3>1, <4>1
    <3>2. CASE i # m
      <4>1. i \in 0..(m-1) /\ (i # 0 => i - 1 \in 0..m /\ i - 1 # m)
        BY <3>2
      <4>2. run[i] = IF i = 0 THEN <<>>
                     ELSE IF seq[i] \in set THEN Append(run[i-1], seq[i]) ELSE run[i-1]
        BY <2>1, <4>1 DEF Picks
      <4>3. longer[i] = run[i] /\ (i # 0 => longer[i-1] = run[i-1])
        BY <3>2, <4>1
      <4> HIDE DEF longer
      <4> QED
        BY <4>2, <4>3
    <3> QED
      BY <3>1, <3>2
  <2>3. Picks(seq, set, m, longer)
    <3>1. longer = [i \in 0..m |-> longer[i]]
      OBVIOUS
    <3> HIDE DEF longer
    <3> QED
      BY <2>2, <3>1 DEF Picks
  <2> QED
    BY <2>3
<1>3. 0..n \subseteq good
  <2> HIDE DEF good
  <2> QED
    BY <1>1, <1>2, Induction
<1> QED
  BY <1>3

\* at says where in seq the members of some selection of its first n are.
Chooses(seq, set, n, q, at) ==
  /\ q \in Seq(Range(seq)) /\ at \in [1..Len(q) -> 1..n]
  /\ \A k \in 1..Len(q) : q[k] = seq[at[k]] /\ q[k] \in set
  /\ \A k, l \in 1..Len(q) : k < l => at[k] < at[l]
  /\ \A i \in 1..n : seq[i] \in set => \E k \in 1..Len(q) : at[k] = i

LEMMA ChoosesOneMore ==
  ASSUME NEW seq, IsSequence(seq), NEW set, NEW m \in 1..Len(seq), NEW q, NEW at,
         Chooses(seq, set, m - 1, q, at), seq[m] \in set
  PROVE  \E more : Chooses(seq, set, m, Append(q, seq[m]), more)
<1>1. seq \in Seq(Range(seq)) /\ seq[m] \in Range(seq) /\ Len(seq) \in Nat
  BY DEF IsSequence, Range
<1> DEFINE n == Len(q)
           r == Append(q, seq[m])
           more == [k \in 1..(n+1) |-> IF k = n + 1 THEN m ELSE at[k]]
<1>2. q \in Seq(Range(seq)) /\ n \in Nat /\ at \in [1..n -> 1..(m-1)]
  BY DEF Chooses
<1>3. /\ r \in Seq(Range(seq)) /\ Len(r) = n + 1
      /\ r[n+1] = seq[m] /\ \A k \in 1..n : r[k] = q[k]
  BY <1>1, <1>2
<1>4. more \in [1..(n+1) -> 1..m]
  BY <1>2
<1>5. more[n+1] = m /\ \A k \in 1..n : more[k] = at[k] /\ at[k] < m
  BY <1>2
<1> HIDE DEF more, r
<1>6. \A k \in 1..(n+1) : k = n + 1 \/ k \in 1..n
  BY <1>2
<1>7. \A k \in 1..n : q[k] = seq[at[k]] /\ q[k] \in set
  BY DEF Chooses
<1>8. \A k \in 1..(n+1) : r[k] = seq[more[k]] /\ r[k] \in set
  BY <1>3, <1>5, <1>6, <1>7
<1>9. ASSUME NEW k \in 1..(n+1), NEW l \in 1..(n+1), k < l PROVE more[k] < more[l]
  <2>1. k \in 1..n
    BY <1>2, <1>9
  <2>2. CASE l = n + 1
    BY <1>5, <2>1, <2>2
  <2>3. CASE l \in 1..n
    <3>1. at[k] < at[l]
      BY <1>9, <2>1, <2>3 DEF Chooses
    <3> QED
      BY <1>5, <2>1, <2>3, <3>1
  <2> QED
    BY <1>6, <2>2, <2>3
<1>10. ASSUME NEW i \in 1..m, seq[i] \in set PROVE \E k \in 1..(n+1) : more[k] = i
  <2>1. CASE i = m
    BY <1>2, <1>5, <2>1
  <2>2. CASE i \in 1..(m-1)
    <3>1. PICK k \in 1..n : at[k] = i
      BY <1>10, <2>2 DEF Chooses
    <3> QED
      BY <1>2, <1>5, <3>1
  <2> QED
    BY <2>1, <2>2
<1>11. Chooses(seq, set, m, r, more)
  BY <1>3, <1>4, <1>8, <1>9, <1>10 DEF Chooses
<1> QED
  BY <1>11 DEF r

\* What is selected of a sequence: exactly its members in the set, in its order.
LEMMA SelectedIs ==
  ASSUME NEW seq, IsSequence(seq), NEW set
  PROVE  \E at : Chooses(seq, set, Len(seq), Selected(seq, set), at)
<1>1. Len(seq) \in Nat /\ DOMAIN seq = 1..Len(seq)
  BY DEF IsSequence
<1> DEFINE run == CHOOSE f : Picks(seq, set, Len(seq), f)
<1>2. Picks(seq, set, Len(seq), run)
  BY <1>1, PicksExist
<1>3. Selected(seq, set) = run[Len(seq)]
  BY DEF Selected, Picks
<1> HIDE DEF run
<1>4. /\ run[0] = <<>>
      /\ \A i \in 1..Len(seq) : run[i] = IF seq[i] \in set THEN Append(run[i-1], seq[i])
                                                         ELSE run[i-1]
  <2>1. \A i \in 0..Len(seq) :
          run[i] = IF i = 0 THEN <<>>
                   ELSE IF seq[i] \in set THEN Append(run[i-1], seq[i]) ELSE run[i-1]
    BY <1>2 DEF Picks
  <2>2. \A i \in 1..Len(seq) : i \in 0..Len(seq) /\ i # 0
    BY <1>1
  <2>3. 0 \in 0..Len(seq)
    BY <1>1
  <2>4. run[0] = <<>>
    BY <2>1, <2>3
  <2> QED
    BY <2>1, <2>2, <2>4
<1> DEFINE good == {m \in 0..Len(seq) : \E at : Chooses(seq, set, m, run[m], at)}
<1>5. 0 \in good
  <2>1. Chooses(seq, set, 0, <<>>, <<>>)
    BY DEF Chooses
  <2> QED
    BY <1>1, <1>4, <2>1
<1>6. ASSUME NEW m \in 1..Len(seq), m - 1 \in good PROVE m \in good
  <2>1. PICK q, at : q = run[m-1] /\ Chooses(seq, set, m - 1, q, at)
    BY <1>6
  <2>2. CASE seq[m] \in set
    <3>1. PICK more : Chooses(seq, set, m, Append(q, seq[m]), more)
      BY <2>1, <2>2, ChoosesOneMore
    <3>2. run[m] = Append(q, seq[m])
      BY <1>4, <2>1, <2>2
    <3>3. Chooses(seq, set, m, run[m], more)
      BY <3>1, <3>2
    <3> QED
      BY <3>3
  <2>3. CASE seq[m] \notin set
    <3>1. Chooses(seq, set, m, q, at)
      <4>1. at \in [1..Len(q) -> 1..m]
        BY <2>1 DEF Chooses
      <4>2. \A i \in 1..m : seq[i] \in set => i \in 1..(m-1)
        BY <2>3
      <4> QED
        BY <2>1, <4>1, <4>2 DEF Chooses
    <3>2. run[m] = q
      BY <1>4, <2>1, <2>3
    <3>3. Chooses(seq, set, m, run[m], at)
      BY <3>1, <3>2
    <3> QED
      BY <3>3
  <2> QED
    BY <2>2, <2>3
<1>7. 0..Len(seq) \subseteq good
  <2> HIDE DEF good
  <2> QED
    BY <1>1, <1>5, <1>6, Induction
<1> QED
  BY <1>1, <1>3, <1>7

\* As a set.
LEMMA SelectedRange ==
  ASSUME NEW seq, IsSequence(seq), NEW set
  PROVE  /\ IsSequence(Selected(seq, set))
         /\ Range(Selected(seq, set)) = Range(seq) \cap set
<1>1. PICK at, q : q = Selected(seq, set) /\ Chooses(seq, set, Len(seq), q, at)
  BY SelectedIs
<1>2. /\ q \in Seq(Range(seq)) /\ DOMAIN q = 1..Len(q)
      /\ DOMAIN seq = 1..Len(seq) /\ Len(seq) \in Nat
  BY <1>1 DEF Chooses, IsSequence
<1>3. q \in Seq(Range(q))
  <2>1. \A k \in 1..Len(q) : q[k] \in Range(q)
    BY <1>2 DEF Range
  <2> QED
    BY <1>2, <2>1
<1>4. Range(q) \subseteq Range(seq) \cap set
  BY <1>1, <1>2 DEF Chooses, Range
<1>5. ASSUME NEW x \in Range(seq) \cap set PROVE x \in Range(q)
  <2>1. PICK i \in 1..Len(seq) : seq[i] = x
    BY <1>2 DEF Range
  <2>2. PICK k \in 1..Len(q) : at[k] = i
    BY <1>1, <2>1 DEF Chooses
  <2>3. q[k] = x
    BY <1>1, <2>1, <2>2 DEF Chooses
  <2> QED
    BY <1>2, <2>3 DEF Range
<1> QED
  BY <1>1, <1>3, <1>4, <1>5 DEF IsSequence

-----------------------------------------------------------------------------
\* What documents compile to.

NamedElements(doc, kind) ==
  {Element(doc, kind, name, doc.defs[kind][name]) : name \in DOMAIN doc.defs[kind]}

RuleElements(doc) ==
  {Element(doc, "meta/ValidationRule", doc.rules[i].name, doc.rules[i]) : i \in DOMAIN doc.rules}

ElementsOf(doc) ==
  (UNION {NamedElements(doc, kind) : kind \in NamedTypes}) \cup RuleElements(doc)

LEMMA ElementIs ==
  ASSUME NEW doc, NEW kind, NEW name, NEW definition
  PROVE  LET e == Element(doc, kind, name, definition)
         IN  /\ {"type", "package"} \subseteq DOMAIN e
             /\ e.type = kind /\ e.package = doc.ontology /\ e.element = name
             /\ e.definition = definition /\ e.imports = doc.imports
<1> DEFINE own == [type |-> kind, package |-> doc.ontology, element |-> name,
                   definition |-> definition, imports |-> doc.imports]
           looked == Lookup(kind, Qualified(doc.ontology, name), definition)
           e == Element(doc, kind, name, definition)
<1>1. e = [x \in DOMAIN own \cup DOMAIN looked |-> IF x \in DOMAIN own THEN own[x] ELSE looked[x]]
  BY DEF Element, Over
<1>2. /\ DOMAIN own = {"type", "package", "element", "definition", "imports"}
      /\ own.type = kind /\ own.package = doc.ontology /\ own.element = name
      /\ own.definition = definition /\ own.imports = doc.imports
  OBVIOUS
<1> HIDE DEF own, looked, e
<1>3. \A x \in DOMAIN own : x \in DOMAIN e /\ e[x] = own[x]
  BY <1>1
<1>4. /\ {"type", "package"} \subseteq DOMAIN e
      /\ e.type = kind /\ e.package = doc.ontology /\ e.element = name
      /\ e.definition = definition /\ e.imports = doc.imports
  BY <1>2, <1>3
<1> QED
  BY <1>4 DEF e

LEMMA ElementIsSchema ==
  ASSUME NEW doc, NEW kind \in ElementTypes, NEW name, NEW definition,
         kind = "meta/ValidationRule" => "attrs" \notin DOMAIN definition
  PROVE  IsSchema(Element(doc, kind, name, definition))
<1> DEFINE own == [type |-> kind, package |-> doc.ontology, element |-> name,
                   definition |-> definition, imports |-> doc.imports]
           looked == Lookup(kind, Qualified(doc.ontology, name), definition)
           e == Element(doc, kind, name, definition)
<1>1. e = [x \in DOMAIN own \cup DOMAIN looked |-> IF x \in DOMAIN own THEN own[x] ELSE looked[x]]
  BY DEF Element, Over
<1>2. "attrs" \notin DOMAIN own
  OBVIOUS
<1>3. "attrs" \notin DOMAIN looked
  BY DEF Lookup, EmptyState, ElementTypes, NamedTypes
<1>4. kind \in MetaTypes
  BY DEF ElementTypes, NamedTypes, MetaTypes
<1> HIDE DEF own, looked
<1>5. "attrs" \notin DOMAIN e
  BY <1>1, <1>2, <1>3
<1>6. "type" \in DOMAIN e /\ e.type = kind
  BY ElementIs
<1>7. e = [field \in DOMAIN e |-> e[field]]
  BY <1>1
<1> QED
  <2> HIDE DEF e
  <2>1. IsSchema(e)
    BY <1>4, <1>5, <1>6, <1>7 DEF IsSchema, TypeOf
  <2> QED
    BY <2>1 DEF e

LEMMA ElementsAreSchema ==
  ASSUME NEW doc, IsDoc(doc), IsOntology(doc), NEW e \in ElementsOf(doc)
  PROVE  IsSchema(e) /\ TypeOf(e) \in ElementTypes /\ e.package = doc.ontology
<1>1. PICK kind, name, definition :
        /\ kind \in ElementTypes /\ e = Element(doc, kind, name, definition)
        /\ kind = "meta/ValidationRule" => "attrs" \notin DOMAIN definition
  <2>1. CASE e \in RuleElements(doc)
    <3>1. PICK i \in DOMAIN doc.rules :
            e = Element(doc, "meta/ValidationRule", doc.rules[i].name, doc.rules[i])
      BY <2>1 DEF RuleElements
    <3>2. "attrs" \notin DOMAIN doc.rules[i]
      BY DEF IsDoc, Range
    <3> QED
      BY <3>1, <3>2 DEF ElementTypes
  <2>2. CASE e \notin RuleElements(doc)
    <3>1. PICK kind \in NamedTypes : e \in NamedElements(doc, kind)
      BY <2>2 DEF ElementsOf
    <3>2. PICK name : e = Element(doc, kind, name, doc.defs[kind][name])
      BY <3>1 DEF NamedElements
    <3>3. kind \in ElementTypes /\ kind # "meta/ValidationRule"
      BY DEF ElementTypes, NamedTypes
    <3> QED
      BY <3>2, <3>3
  <2> QED
    BY <2>1, <2>2
<1>2. IsSchema(e)
  BY <1>1, ElementIsSchema
<1>3. TypeOf(e) = kind /\ e.package = doc.ontology
  BY <1>1, ElementIs DEF TypeOf
<1> QED
  BY <1>1, <1>2, <1>3

LEMMA OntologyCompiled ==
  ASSUME NEW doc, IsDoc(doc), IsOntology(doc)
  PROVE  IsSequence(CompileOntology(doc)) /\ Range(CompileOntology(doc)) = ElementsOf(doc)
<1> DEFINE named == UNION {NamedElements(doc, kind) : kind \in NamedTypes}
           rules == [i \in DOMAIN doc.rules |->
                       Element(doc, "meta/ValidationRule", doc.rules[i].name, doc.rules[i])]
<1>1. IsFiniteSet(named)
  <2>1. ASSUME NEW kind \in NamedTypes PROVE IsFiniteSet(NamedElements(doc, kind))
    <3> DEFINE f == [name \in DOMAIN doc.defs[kind] |->
                       Element(doc, kind, name, doc.defs[kind][name])]
    <3>1. IsFiniteSet(DOMAIN doc.defs[kind])
      BY DEF IsDoc
    <3>2. NamedElements(doc, kind) = {f[name] : name \in DOMAIN doc.defs[kind]}
      BY DEF NamedElements
    <3>3. f = [name \in DOMAIN doc.defs[kind] |-> f[name]]
      OBVIOUS
    <3> HIDE DEF f
    <3>4. IsFiniteSet({f[name] : name \in DOMAIN doc.defs[kind]})
      BY <3>1, <3>3, FiniteImage
    <3> QED
      BY <3>2, <3>4
  <2>2. PICK a, b, c : /\ a = NamedElements(doc, "meta/EntityType")
                       /\ b = NamedElements(doc, "meta/EdgeType")
                       /\ c = NamedElements(doc, "meta/Struct")
    OBVIOUS
  <2>3. named = (a \cup b) \cup c
    BY <2>2 DEF NamedTypes
  <2>4. IsFiniteSet(a) /\ IsFiniteSet(b) /\ IsFiniteSet(c)
    BY <2>1, <2>2 DEF NamedTypes
  <2>5. IsFiniteSet(a \cup b)
    BY <2>4, FS_Union
  <2>6. IsFiniteSet((a \cup b) \cup c)
    BY <2>4, <2>5, FS_Union
  <2> QED
    BY <2>3, <2>6
<1>2. IsSequence(rules) /\ Range(rules) = RuleElements(doc)
  <2>1. doc.rules \in Seq(Range(doc.rules))
    BY DEF IsDoc
  <2>2. PICK n \in Nat : DOMAIN doc.rules = 1..n
    BY <2>1
  <2>3. PICK r : r = rules
    OBVIOUS
  <2>4. DOMAIN r = 1..n /\ r = [i \in 1..n |-> r[i]] /\ \A i \in 1..n : r[i] \in Range(r)
    BY <2>2, <2>3 DEF Range
  <2>5. r \in Seq(Range(r))
    BY <2>4
  <2>6. Range(rules) = RuleElements(doc)
    BY DEF Range, RuleElements
  <2> QED
    BY <2>3, <2>5, <2>6 DEF IsSequence
<1>3. CompileOntology(doc) = SetToSeq(named) \o rules
  BY DEF CompileOntology, NamedElements
<1>4. ElementsOf(doc) = named \cup RuleElements(doc)
  BY DEF ElementsOf
<1> HIDE DEF named, rules
<1>5. IsSequence(SetToSeq(named)) /\ Range(SetToSeq(named)) = named
  BY <1>1, SetListed
<1> QED
  BY <1>2, <1>3, <1>4, <1>5, RangeBoth

LEMMA TaxonomyCompiled ==
  ASSUME NEW doc, IsDoc(doc), ~IsOntology(doc)
  PROVE  /\ IsSequence(CompileTaxonomy(doc))
         /\ \A body \in Range(CompileTaxonomy(doc)) :
              IsSchema(body) /\ TypeOf(body) = "meta/TaxonomyTerm"
<1>1. doc.terms \in Seq(Range(doc.terms))
  BY DEF IsDoc
<1>2. PICK n \in Nat : DOMAIN doc.terms = 1..n
  BY <1>1
<1>3. PICK r : r = CompileTaxonomy(doc)
  OBVIOUS
<1>4. DOMAIN r = 1..n /\ r = [i \in 1..n |-> r[i]] /\ \A i \in 1..n : r[i] \in Range(r)
  BY <1>2, <1>3 DEF CompileTaxonomy, Range
<1>5. r \in Seq(Range(r))
  BY <1>4
<1>6. \A i \in 1..n : IsSchema(r[i]) /\ TypeOf(r[i]) = "meta/TaxonomyTerm"
  BY <1>2, <1>3 DEF CompileTaxonomy, IsSchema, MetaTypes, TypeOf
<1> QED
  BY <1>3, <1>4, <1>5, <1>6 DEF IsSequence, Range

LEMMA PolicyCompiled ==
  ASSUME NEW policy
  PROVE  /\ IsSequence(CompilePolicy(policy))
         /\ \A body \in Range(CompilePolicy(policy)) :
              IsSchema(body) /\ TypeOf(body) = "meta/Policy"
<1> DEFINE body == [type |-> "meta/Policy", definition |-> policy]
<1>1. IsSchema(body) /\ TypeOf(body) = "meta/Policy"
  BY DEF IsSchema, MetaTypes, TypeOf
<1>2. CompilePolicy(policy) = <<>> \/ CompilePolicy(policy) = <<body>>
  BY DEF CompilePolicy
<1> HIDE DEF body
<1> QED
  BY <1>1, <1>2, RangeOne

\* A schema operation's body is an element of a document, a term or a policy;
\* every element of every document is compiled.
LEMMA SchemaCompiled ==
  ASSUME NEW docs, IsSequence(docs), \A doc \in Range(docs) : IsDoc(doc), NEW policy
  PROVE  LET bodies == CompileSchemaOps(docs, policy)
         IN  /\ IsSequence(bodies)
             /\ \A body \in Range(bodies) :
                  /\ IsSchema(body)
                  /\ TypeOf(body) \in ElementTypes =>
                       \E doc \in Range(docs) : IsOntology(doc) /\ body \in ElementsOf(doc)
             /\ \A doc \in Range(docs) : IsOntology(doc) => ElementsOf(doc) \subseteq Range(bodies)
<1> DEFINE Compiled(doc) == IF IsOntology(doc) THEN CompileOntology(doc) ELSE CompileTaxonomy(doc)
           parts == [i \in DOMAIN docs |-> Compiled(docs[i])]
<1>1. Len(docs) \in Nat /\ DOMAIN docs = 1..Len(docs)
      /\ \A i \in 1..Len(docs) : docs[i] \in Range(docs)
  BY DEF IsSequence, Range
<1>2. /\ "meta/TaxonomyTerm" \notin ElementTypes /\ "meta/Policy" \notin ElementTypes
  BY DEF ElementTypes, NamedTypes
<1>3. ASSUME NEW doc \in Range(docs)
      PROVE  /\ IsSequence(Compiled(doc))
             /\ \A body \in Range(Compiled(doc)) :
                  /\ IsSchema(body)
                  /\ TypeOf(body) \in ElementTypes => IsOntology(doc) /\ body \in ElementsOf(doc)
             /\ IsOntology(doc) => ElementsOf(doc) \subseteq Range(Compiled(doc))
  <2>1. CASE IsOntology(doc)
    <3>1. IsSequence(CompileOntology(doc)) /\ Range(CompileOntology(doc)) = ElementsOf(doc)
      BY <2>1, OntologyCompiled
    <3>2. Compiled(doc) = CompileOntology(doc)
      BY <2>1
    <3> HIDE DEF Compiled
    <3>3. \A body \in ElementsOf(doc) : IsSchema(body)
      BY <2>1, ElementsAreSchema
    <3> QED
      BY <2>1, <3>1, <3>2, <3>3
  <2>2. CASE ~IsOntology(doc)
    <3>1. /\ IsSequence(CompileTaxonomy(doc))
          /\ \A body \in Range(CompileTaxonomy(doc)) :
               IsSchema(body) /\ TypeOf(body) = "meta/TaxonomyTerm"
      BY <2>2, TaxonomyCompiled
    <3>2. Compiled(doc) = CompileTaxonomy(doc)
      BY <2>2
    <3> HIDE DEF Compiled
    <3> QED
      BY <1>2, <2>2, <3>1, <3>2
  <2> QED
    BY <2>1, <2>2
<1>4. IsSequence(parts) /\ Len(parts) = Len(docs)
      /\ \A i \in 1..Len(docs) : parts[i] = Compiled(docs[i])
  <2>1. PICK r : r = parts
    OBVIOUS
  <2> HIDE DEF Compiled
  <2>2. DOMAIN r = 1..Len(docs) /\ r = [i \in 1..Len(docs) |-> r[i]]
        /\ \A i \in 1..Len(docs) : r[i] \in Range(r) /\ r[i] = Compiled(docs[i])
    BY <1>1, <2>1 DEF Range
  <2>3. r \in Seq(Range(r)) /\ Len(r) = Len(docs)
    BY <1>1, <2>2
  <2> QED
    BY <2>1, <2>2, <2>3 DEF IsSequence
<1>5. CompileSchemaOps(docs, policy) = FlattenSeq(parts) \o CompilePolicy(policy)
  BY DEF CompileSchemaOps
<1> HIDE DEF Compiled, parts
<1>6. /\ IsSequence(FlattenSeq(parts))
      /\ Range(FlattenSeq(parts)) = UNION {Range(parts[i]) : i \in 1..Len(parts)}
  BY <1>1, <1>3, <1>4, RangeAll
<1>7. PICK flat : flat = FlattenSeq(parts)
  OBVIOUS
<1>8. /\ IsSequence(CompileSchemaOps(docs, policy))
      /\ Range(CompileSchemaOps(docs, policy)) = Range(flat) \cup Range(CompilePolicy(policy))
  BY <1>5, <1>6, <1>7, PolicyCompiled, RangeBoth
<1>9. ASSUME NEW body \in Range(flat)
      PROVE  /\ IsSchema(body)
             /\ TypeOf(body) \in ElementTypes =>
                  \E doc \in Range(docs) : IsOntology(doc) /\ body \in ElementsOf(doc)
  <2>1. PICK i \in 1..Len(docs) : body \in Range(parts[i])
    BY <1>4, <1>6, <1>7
  <2>2. docs[i] \in Range(docs) /\ body \in Range(Compiled(docs[i]))
    BY <1>1, <1>4, <2>1
  <2> QED
    BY <1>3, <2>2
<1>10. ASSUME NEW doc \in Range(docs), IsOntology(doc)
       PROVE  ElementsOf(doc) \subseteq Range(flat)
  <2>1. PICK i \in 1..Len(docs) : docs[i] = doc
    BY <1>1 DEF Range
  <2>2. ElementsOf(doc) \subseteq Range(parts[i])
    BY <1>3, <1>4, <1>10, <2>1
  <2> QED
    BY <1>4, <1>6, <1>7, <2>2
<1> QED
  BY <1>2, <1>8, <1>9, <1>10, PolicyCompiled

-----------------------------------------------------------------------------
\* Revisions: what an object holds is its revision, unless it was redacted.

Honest(s) ==
  /\ IsState(s)
  /\ \A id \in DOMAIN s : /\ s[id].content \in {s[id].rev, RedactedContent}
                          /\ ~s[id].redacted => s[id].content = s[id].rev

Writes(op, id) == op.verb \in {"create", "update"} /\ op.id = id

Replaces(op, id, rev) == op.verb = "update" /\ op.id = id /\ op.prior = rev

\* One operation wrote the revision of an object, and if that was there before,
\* one replaced the revision it had.
Rewritten(s, r, ops, id) ==
  /\ \E i \in 1..Len(ops) : Writes(ops[i], id) /\ r[id].rev = ops[i].body
  /\ id \in DOMAIN s => \E i \in 1..Len(ops) : Replaces(ops[i], id, s[id].rev)

Revised(s, r, ops) ==
  \A id \in DOMAIN r : \/ id \in DOMAIN s /\ r[id].rev = s[id].rev
                       \/ Rewritten(s, r, ops, id)

LEMMA EffectHonest ==
  ASSUME NEW reg, NEW s, NEW op, Honest(s), OpAllowed(reg, s, op), NEW r, r = OpEffect(s, op)
  PROVE  /\ Honest(r) /\ DOMAIN s \subseteq DOMAIN r
         /\ \A id \in DOMAIN r :
              \/ id \in DOMAIN s /\ r[id].rev = s[id].rev
              \/ /\ Writes(op, id) /\ r[id].rev = op.body
                 /\ id \in DOMAIN s => Replaces(op, id, s[id].rev)
<1> USE DEF OpEffect, Put, Obj, IsState, Honest
<1>1. CASE op.verb = "create"
  <2>1. op.id \notin DOMAIN s
    BY <1>1 DEF OpAllowed
  <2>2. r = [i \in DOMAIN s \cup {op.id} |->
               IF i = op.id THEN [content |-> op.body, rev |-> op.body,
                                  deleted |-> FALSE, redacted |-> FALSE] ELSE s[i]]
    BY <1>1
  <2> QED
    BY <1>1, <2>1, <2>2 DEF Writes
<1>2. CASE op.verb = "update"
  <2>1. op.id \in DOMAIN s /\ s[op.id].rev = op.prior
    BY <1>2 DEF OpAllowed, PriorMatches, Live
  <2>2. r = [i \in DOMAIN s \cup {op.id} |->
               IF i = op.id THEN [content |-> op.body, rev |-> op.body,
                                  deleted |-> FALSE, redacted |-> FALSE] ELSE s[i]]
    BY <1>2
  <2> QED
    BY <1>2, <2>1, <2>2 DEF Writes, Replaces
<1>3. CASE op.verb = "delete"
  <2>1. op.id \in DOMAIN s
    BY <1>3 DEF OpAllowed, PriorMatches, Live
  <2> QED
    BY <1>3, <2>1
<1>4. CASE op.verb = "redact-document"
  <2>1. op.id \in DOMAIN s
    BY <1>4 DEF OpAllowed
  <2> QED
    BY <1>4, <2>1
<1>5. CASE op.verb \notin {"create", "update", "delete", "redact-document"}
  BY <1>5
<1> QED
  BY <1>1, <1>2, <1>3, <1>4, <1>5

LEMMA ApplyHonest ==
  ASSUME NEW reg, NEW s, NEW ops, Len(ops) \in Nat, Honest(s),
         ApplyChangeset(reg, s, ops).ok
  PROVE  LET r == ApplyChangeset(reg, s, ops).objects
         IN  Honest(r) /\ DOMAIN s \subseteq DOMAIN r /\ Revised(s, r, ops)
<1>1. /\ ApplyOps(reg, s, ops).ok
      /\ ApplyChangeset(reg, s, ops) = ApplyOps(reg, s, ops)
  BY DEF ApplyChangeset
<1>2. PICK states : /\ Accepts(reg, s, ops, states)
                    /\ ApplyOps(reg, s, ops) = [ok |-> TRUE, objects |-> states[Len(ops)]]
  BY <1>1, AcceptedStates
<1> DEFINE Good(t) == Honest(t) /\ DOMAIN s \subseteq DOMAIN t /\ Revised(s, t, ops)
           good == {i \in 0..Len(ops) : Good(states[i])}
<1>3. 0 \in good
  BY <1>2 DEF Accepts, Revised
<1>4. ASSUME NEW i \in 1..Len(ops), i - 1 \in good PROVE i \in good
  <2>1. PICK t : t = states[i-1] /\ Good(t)
    BY <1>4
  <2>2. PICK u : u = states[i] /\ u = OpEffect(t, ops[i]) /\ OpAllowed(reg, t, ops[i])
    BY <1>2, <2>1 DEF Accepts
  <2>3. /\ Honest(u) /\ DOMAIN t \subseteq DOMAIN u
        /\ \A id \in DOMAIN u :
             \/ id \in DOMAIN t /\ u[id].rev = t[id].rev
             \/ /\ Writes(ops[i], id) /\ u[id].rev = ops[i].body
                /\ id \in DOMAIN t => Replaces(ops[i], id, t[id].rev)
    BY <2>1, <2>2, EffectHonest
  <2>4. ASSUME NEW id \in DOMAIN u
        PROVE  \/ id \in DOMAIN s /\ u[id].rev = s[id].rev
               \/ Rewritten(s, u, ops, id)
    <3>1. CASE id \in DOMAIN t /\ u[id].rev = t[id].rev
      BY <2>1, <3>1 DEF Revised, Rewritten
    <3>2. CASE /\ Writes(ops[i], id) /\ u[id].rev = ops[i].body
               /\ id \in DOMAIN t => Replaces(ops[i], id, t[id].rev)
      <4>1. CASE id \in DOMAIN s
        <5>1. id \in DOMAIN t
          BY <2>1, <4>1
        <5>2. \/ t[id].rev = s[id].rev
              \/ \E j \in 1..Len(ops) : Replaces(ops[j], id, s[id].rev)
          BY <2>1, <4>1, <5>1 DEF Revised, Rewritten
        <5>3. \E j \in 1..Len(ops) : Replaces(ops[j], id, s[id].rev)
          BY <3>2, <5>1, <5>2
        <5> QED
          BY <3>2, <5>3 DEF Rewritten
      <4>2. CASE id \notin DOMAIN s
        BY <3>2, <4>2 DEF Rewritten
      <4> QED
        BY <4>1, <4>2
    <3> QED
      BY <2>3, <3>1, <3>2
  <2>5. Good(u)
    BY <2>1, <2>3, <2>4 DEF Revised
  <2> HIDE DEF Good
  <2>6. Good(states[i])
    BY <2>2, <2>5
  <2> QED
    BY <2>6
<1>5. 0..Len(ops) \subseteq good
  <2> HIDE DEF good
  <2> QED
    BY <1>3, <1>4, Induction
<1> QED
  BY <1>1, <1>2, <1>5

-----------------------------------------------------------------------------
\* Texts.

LEMMA TrimEndIs ==
  ASSUME NEW text, IsText(text), NEW blanks
  PROVE  \E m \in 0..Len(text) :
           /\ TrimEnd(text, blanks) = SubSeq(text, 1, m)
           /\ m # 0 => text[m] \notin blanks
           /\ \A i \in (m+1)..Len(text) : text[i] \in blanks
<1> DEFINE ends == {0} \cup {i \in DOMAIN text : text[i] \notin blanks}
<1>1. Len(text) \in Nat /\ DOMAIN text = 1..Len(text)
  BY DEF IsText
<1>2. \E m \in ends : \A i \in ends : m >= i
  <2> DEFINE left == {Len(text) - i : i \in ends}
  <2>1. left \in SUBSET Nat /\ left # {}
    BY <1>1
  <2>2. PICK l \in left : \A k \in left : l <= k
    <3> HIDE DEF left
    <3> QED
      BY <2>1, LeastNumber
  <2>3. PICK m \in ends : l = Len(text) - m
    BY <2>2
  <2>4. ASSUME NEW i \in ends PROVE m >= i
    <3>1. l <= Len(text) - i
      BY <2>2
    <3>2. m \in Int /\ i \in Int
      BY <1>1
    <3> QED
      BY <1>1, <2>3, <3>1, <3>2
  <2> QED
    BY <2>4
<1>3. PICK m \in ends : m = Max(ends) /\ \A i \in ends : m >= i
  BY <1>2 DEF Max
<1>4. m \in 0..Len(text) /\ (m # 0 => text[m] \notin blanks)
  BY <1>1, <1>3
<1>5. ASSUME NEW i \in (m+1)..Len(text) PROVE text[i] \in blanks
  <2>1. i \in DOMAIN text /\ ~(m >= i)
    BY <1>1, <1>4
  <2> QED
    BY <1>3, <2>1
<1>6. TrimEnd(text, blanks) = SubSeq(text, 1, m)
  BY <1>3 DEF TrimEnd
<1> QED
  BY <1>4, <1>5, <1>6

\* A prefix of a text, and a text backwards.
LEMMA PrefixIs ==
  ASSUME NEW text, IsText(text), NEW m \in 0..Len(text)
  PROVE  LET p == SubSeq(text, 1, m)
         IN  /\ IsText(p) /\ Len(p) = m
             /\ \A i \in 1..m : p[i] = text[i]
             /\ m = Len(text) => p = text
<1>1. PICK p : p = SubSeq(text, 1, m)
  OBVIOUS
<1>2. text \in Seq(Range(text)) /\ Len(text) \in Nat
  BY DEF IsText
<1>3. p \in Seq(Range(text)) /\ Len(p) = m /\ \A i \in 1..m : p[i] = text[i]
  BY <1>1, <1>2
<1>4. \A i \in 1..m : p[i] \in Range(p)
  BY <1>3 DEF Range
<1>5. p \in Seq(Range(p))
  BY <1>3, <1>4
<1>6. m = Len(text) => p = text
  BY <1>2, <1>3
<1> QED
  BY <1>1, <1>3, <1>5, <1>6 DEF IsText

LEMMA ReverseIs ==
  ASSUME NEW text, IsText(text)
  PROVE  LET r == Reverse(text)
         IN  /\ IsText(r) /\ Len(r) = Len(text)
             /\ \A i \in 1..Len(text) : r[i] = text[(Len(text) - i) + 1]
<1>1. PICK r : r = Reverse(text)
  OBVIOUS
<1>2. text \in Seq(Range(text)) /\ Len(text) \in Nat
  BY DEF IsText
<1>3. /\ r = [i \in 1..Len(text) |-> r[i]]
      /\ \A i \in 1..Len(text) : r[i] = text[(Len(text) - i) + 1]
  BY <1>1 DEF Reverse
<1>4. \A i \in 1..Len(text) : r[i] \in Range(r)
  BY <1>3 DEF Range
<1>5. r \in Seq(Range(r)) /\ Len(r) = Len(text)
  BY <1>2, <1>3, <1>4
<1> QED
  BY <1>1, <1>3, <1>5 DEF IsText

LEMMA ReverseTwice ==
  ASSUME NEW text, IsText(text)
  PROVE  Reverse(Reverse(text)) = text
<1>1. PICK r : r = Reverse(text)
  OBVIOUS
<1>2. PICK q : q = Reverse(r)
  OBVIOUS
<1>3. /\ IsText(r) /\ Len(r) = Len(text)
      /\ \A i \in 1..Len(text) : r[i] = text[(Len(text) - i) + 1]
  BY <1>1, ReverseIs
<1>4. /\ IsText(q) /\ Len(q) = Len(text)
      /\ \A i \in 1..Len(text) : q[i] = r[(Len(text) - i) + 1]
  BY <1>2, <1>3, ReverseIs
<1>5. Len(text) \in Nat /\ text \in Seq(Range(text)) /\ q \in Seq(Range(q))
  BY <1>4 DEF IsText
<1>6. ASSUME NEW i \in 1..Len(text) PROVE q[i] = text[i]
  <2>1. (Len(text) - i) + 1 \in 1..Len(text) /\ (Len(text) - ((Len(text) - i) + 1)) + 1 = i
    BY <1>5
  <2> QED
    BY <1>3, <1>4, <2>1
<1>7. q = text
  BY <1>4, <1>5, <1>6
<1> QED
  BY <1>1, <1>2, <1>7

\* What ends in a word is not trimmed at its end.
LEMMA TrimEndKeeps ==
  ASSUME NEW text, IsText(text), NEW blanks, text # <<>> => text[Len(text)] \notin blanks
  PROVE  TrimEnd(text, blanks) = text
<1>1. PICK m \in 0..Len(text) : /\ TrimEnd(text, blanks) = SubSeq(text, 1, m)
                                /\ \A i \in (m+1)..Len(text) : text[i] \in blanks
  BY TrimEndIs
<1>2. text \in Seq(Range(text)) /\ Len(text) \in Nat
  BY DEF IsText
<1>3. CASE m = Len(text)
  BY <1>1, <1>3, PrefixIs
<1>4. CASE m # Len(text)
  <2>1. Len(text) \in (m+1)..Len(text) /\ text # <<>>
    BY <1>2, <1>4
  <2> QED
    BY <1>1, <2>1
<1> QED
  BY <1>3, <1>4

\* What is trimmed at its end ends in a word, and begins as it did.
LEMMA TrimEndEnds ==
  ASSUME NEW text, IsText(text), NEW blanks
  PROVE  LET t == TrimEnd(text, blanks)
         IN  /\ IsText(t)
             /\ t # <<>> => t[Len(t)] \notin blanks /\ text # <<>> /\ t[1] = text[1]
<1>1. PICK m \in 0..Len(text) : /\ TrimEnd(text, blanks) = SubSeq(text, 1, m)
                                /\ m # 0 => text[m] \notin blanks
  BY TrimEndIs
<1>2. PICK p : p = SubSeq(text, 1, m)
  OBVIOUS
<1>3. /\ IsText(p) /\ Len(p) = m
      /\ \A i \in 1..m : p[i] = text[i]
  BY <1>2, PrefixIs
<1>4. Len(text) \in Nat /\ (p # <<>> => m \in 1..m /\ 1 \in 1..m /\ m # 0)
      /\ (m # 0 => text # <<>>)
  BY <1>3 DEF IsText
<1> QED
  BY <1>1, <1>2, <1>3, <1>4

\* The ends of a text change places.
LEMMA ReverseEnds ==
  ASSUME NEW text, IsText(text)
  PROVE  LET r == Reverse(text)
         IN  /\ IsText(r) /\ (r = <<>> <=> text = <<>>)
             /\ text # <<>> => r[1] = text[Len(text)] /\ r[Len(r)] = text[1]
<1>1. PICK r : r = Reverse(text)
  OBVIOUS
<1>2. /\ IsText(r) /\ Len(r) = Len(text)
      /\ \A i \in 1..Len(text) : r[i] = text[(Len(text) - i) + 1]
  BY <1>1, ReverseIs
<1>3. Len(text) \in Nat /\ text \in Seq(Range(text)) /\ r \in Seq(Range(r))
  BY <1>2 DEF IsText
<1>4. text # <<>> => /\ 1 \in 1..Len(text) /\ Len(text) \in 1..Len(text)
                     /\ (Len(text) - 1) + 1 = Len(text) /\ (Len(text) - Len(text)) + 1 = 1
  BY <1>3
<1>5. r = <<>> <=> text = <<>>
  BY <1>2, <1>3
<1> QED
  BY <1>1, <1>2, <1>4, <1>5

\* What is trimmed neither begins nor ends in blanks.
LEMMA TrimmedIsClean ==
  ASSUME NEW text, IsText(text)
  PROVE  IsText(Trim(text)) /\ ~BlankEnded(Trim(text))
<1>1. PICK u : u = TrimEnd(text, Blanks) /\ IsText(u) /\ (u # <<>> => u[Len(u)] \notin Blanks)
  BY TrimEndEnds
<1>2. PICK v : v = Reverse(u) /\ IsText(v) /\ (v # <<>> => v[1] \notin Blanks)
  BY <1>1, ReverseEnds
<1>3. PICK w : w = TrimEnd(v, Blanks) /\ IsText(w)
               /\ (w # <<>> => w[Len(w)] \notin Blanks /\ w[1] \notin Blanks)
  BY <1>2, TrimEndEnds
<1>4. PICK x : x = Reverse(w) /\ IsText(x)
               /\ (x # <<>> => x[Len(x)] \notin Blanks /\ x[1] \notin Blanks)
  BY <1>3, ReverseEnds
<1>5. Trim(text) = x
  BY <1>1, <1>2, <1>3, <1>4 DEF Trim
<1> QED
  BY <1>4, <1>5 DEF BlankEnded

\* What neither begins nor ends in blanks is not changed by trimming.
LEMMA CleanIsTrimmed ==
  ASSUME NEW text, IsText(text), ~BlankEnded(text)
  PROVE  Trim(text) = text
<1>1. text # <<>> => text[1] \notin Blanks /\ text[Len(text)] \notin Blanks
  BY DEF BlankEnded
<1>2. TrimEnd(text, Blanks) = text
  BY <1>1, TrimEndKeeps
<1>3. PICK v : v = Reverse(text)
  OBVIOUS
<1>4. IsText(v) /\ (v # <<>> => v[Len(v)] \notin Blanks)
  BY <1>1, <1>3, ReverseEnds
<1>5. TrimEnd(v, Blanks) = v
  BY <1>4, TrimEndKeeps
<1>6. Reverse(v) = text
  BY <1>3, ReverseTwice
<1> QED
  BY <1>2, <1>3, <1>5, <1>6 DEF Trim

\* A text comes back from a file as it was if and only if it neither begins nor
\* ends in blanks.
LEMMA TextComesBack ==
  ASSUME NEW text, IsText(text)
  PROVE  Trim(TrimEnd(text, {Newline})) = text <=> ~BlankEnded(text)
<1>1. IsText(TrimEnd(text, {Newline}))
  BY TrimEndEnds
<1>2. ASSUME Trim(TrimEnd(text, {Newline})) = text PROVE ~BlankEnded(text)
  BY <1>1, <1>2, TrimmedIsClean
<1>3. ASSUME ~BlankEnded(text) PROVE Trim(TrimEnd(text, {Newline})) = text
  <2>1. text # <<>> => text[Len(text)] \notin {Newline}
    BY <1>3 DEF BlankEnded, Blanks
  <2>2. TrimEnd(text, {Newline}) = text
    BY <2>1, TrimEndKeeps
  <2> QED
    BY <1>3, <2>2, CleanIsTrimmed
<1> QED
  BY <1>2, <1>3

-----------------------------------------------------------------------------
\* The inductive invariant.

\* Every schema element that an installed document defines.
Defined == UNION {ElementsOf(doc) : doc \in {d \in installed : IsOntology(d)}}

\* Nodes are schema or content, and schema comes from the documents.
NodesOK ==
  \A id \in DOMAIN objects \cap NodeId :
    /\ IsSchema(objects[id].rev) \/ IsContent(objects[id].rev)
    /\ TypeOf(objects[id].rev) = "meta/Policy" => id = scenario.policy
    /\ TypeOf(objects[id].rev) \in ElementTypes => objects[id].rev \in Defined

\* What the documents define has a node.
Standing == Defined \subseteq {objects[id].rev : id \in DOMAIN objects \cap NodeId}

\* What a file says beside its id.  As long as nobody edited it, it says what
\* was exported: all attributes but one, which became the body.
FileOK(file) ==
  /\ file = [id |-> file.id, rev |-> file.rev, type |-> file.type, attrs |-> file.attrs,
             body |-> file.body, long |-> file.long, edited |-> file.edited]
  /\ IsContent(file.rev) /\ file.type = file.rev.type
  /\ IsAttrs(file.attrs) /\ IsText(file.body)
  /\ ~file.edited =>
       LET said == file.rev.attrs
       IN  /\ file.attrs = [a \in DOMAIN said \ {file.long} |-> said[a]]
           /\ file.body = IF file.long \in DOMAIN said
                          THEN TrimEnd(said[file.long], {Newline}) ELSE <<>>

FilesOK ==
  /\ dir = [path \in DOMAIN dir |-> dir[path]]
  /\ \A path \in DOMAIN dir : path = <<path[1], path[2]>> /\ FileOK(dir[path])

IInv ==
  /\ TypeOK /\ scenario \in Scenarios /\ Honest(objects)
  /\ NodesOK /\ Standing /\ FilesOK
  /\ \A doc \in installed : IsDoc(doc)

\* Schema is not content.
LEMMA SchemaOrContent ==
  ASSUME NEW c, IsContent(c)
  PROVE  /\ ~IsSchema(c) /\ TypeOf(c) = c.type /\ TypeOf(c) \notin MetaTypes
         /\ TypeOf(c) # "meta/Policy" /\ TypeOf(c) \notin ElementTypes
  BY DEF IsContent, IsSchema, TypeOf, MetaTypes, ElementTypes, NamedTypes

LEMMA DefinedIsSchema ==
  ASSUME \A doc \in installed : IsDoc(doc), NEW e \in Defined
  PROVE  IsSchema(e) /\ TypeOf(e) \in ElementTypes
  BY ElementsAreSchema DEF Defined

LEMMA InitIInv == Init => IInv
<1> SUFFICES ASSUME Init PROVE IInv
  OBVIOUS
<1> DEFINE sc == scenario
           Elements == UNION {Range(CompileOntology(doc)) : doc \in {d \in sc.docs : IsOntology(d)}}
<1>1. /\ scenario \in Scenarios /\ IsScenario(scenario) /\ steps = 0
      /\ installed = sc.docs /\ unused = sc.ids /\ dir = [path \in {} |-> None]
  BY BundleAssumption DEF Init
<1>2. /\ DOMAIN objects = DOMAIN sc.start
      /\ \A id \in DOMAIN objects :
           objects[id].content = sc.start[id] /\ objects[id].rev = sc.start[id]
  BY DEF Init
<1>3. Honest(objects)
  <2>1. IsState(objects)
    BY DEF Init, IsState
  <2>2. ASSUME NEW id \in DOMAIN objects PROVE objects[id].content = objects[id].rev
    BY <1>2
  <2> QED
    BY <2>1, <2>2 DEF Honest
<1>4. \A doc \in installed : IsDoc(doc)
  BY <1>1 DEF IsScenario
<1>5. Defined = Elements
  BY <1>1, <1>4, OntologyCompiled DEF Defined
<1> HIDE DEF Elements
<1>6. /\ \A id \in DOMAIN sc.start \cap NodeId :
           /\ IsSchema(sc.start[id]) \/ IsContent(sc.start[id])
           /\ TypeOf(sc.start[id]) = "meta/Policy" => id = sc.policy
           /\ TypeOf(sc.start[id]) \in ElementTypes => sc.start[id] \in Elements
      /\ Elements \subseteq {sc.start[id] : id \in DOMAIN sc.start \cap NodeId}
  BY <1>1 DEF IsScenario, Elements
<1>7. \A id \in DOMAIN objects : objects[id].rev = sc.start[id]
  BY <1>2
<1>8. NodesOK /\ Standing
  <2>1. NodesOK
    BY <1>2, <1>5, <1>6, <1>7 DEF NodesOK
  <2>2. \A id \in DOMAIN objects \cap NodeId : objects[id].rev = sc.start[id]
    BY <1>7
  <2>3. Standing
    BY <1>2, <1>5, <1>6, <2>2 DEF Standing
  <2> QED
    BY <2>1, <2>3
<1>9. FilesOK
  BY <1>1 DEF FilesOK
<1>10. TypeOK
  <2>1. DOMAIN sc.start \subseteq Id /\ sc.steps \in Nat
    BY <1>1 DEF IsScenario
  <2>2. ASSUME NEW ids \in unused PROVE Range(ids) \cap DOMAIN objects = {}
    <3>1. ids \in Seq(NodeId \ (DOMAIN sc.start \cup {n[1] : n \in sc.nodes}))
      BY <1>1 DEF IsScenario
    <3> QED
      BY <1>2, <3>1 DEF Range
  <2> QED
    BY <1>1, <1>2, <2>1, <2>2 DEF TypeOK
<1> QED
  BY <1>1, <1>3, <1>4, <1>8, <1>9, <1>10 DEF IInv

-----------------------------------------------------------------------------
\* Changesets.

LEMMA Applied ==
  ASSUME Honest(objects), NEW ops, Len(ops) \in Nat, Apply(ops)
  PROVE  /\ Honest(objects') /\ DOMAIN objects \subseteq DOMAIN objects'
         /\ Revised(objects, objects', ops)
         /\ DOMAIN objects' \subseteq DOMAIN objects \cup (Id \cap Created(ops))
         /\ PolicyNodes(objects) # <<>>
<1>1. PICK reg : /\ reg = RegistryOf(objects) /\ ApplyChangeset(reg, objects, ops).ok
                 /\ objects' = ApplyChangeset(reg, objects, ops).objects
  BY DEF Apply
<1>2. PolicyNodes(objects) # <<>>
  BY DEF Apply
<1> QED
  BY <1>1, <1>2, ApplyHonest, OnlyCreated

\* Operations on content, and operations that say of a node what it is.
OnContent(ops) ==
  \A i \in 1..Len(ops), id \in NodeId :
    Writes(ops[i], id) =>
      IsContent(ops[i].body) /\ (ops[i].verb = "update" => IsContent(ops[i].prior))

Restating(ops) ==
  \A i \in 1..Len(ops), id \in NodeId :
    Writes(ops[i], id) => id \in DOMAIN objects /\ ops[i].body = objects[id].rev

LEMMA ContentChanges ==
  ASSUME IInv, NEW ops, Len(ops) \in Nat, Apply(ops), UNCHANGED <<scenario, installed>>,
         OnContent(ops) \/ Restating(ops)
  PROVE  NodesOK' /\ Standing'
<1>1. /\ DOMAIN objects \subseteq DOMAIN objects' /\ Revised(objects, objects', ops)
      /\ NodesOK /\ Standing /\ \A doc \in installed : IsDoc(doc)
  BY Applied DEF IInv
<1>2. Defined' = Defined
  BY DEF Defined
<1>3. ASSUME NEW id \in DOMAIN objects' \cap NodeId
      PROVE  \/ id \in DOMAIN objects /\ objects'[id].rev = objects[id].rev
             \/ /\ IsContent(objects'[id].rev)
                /\ id \in DOMAIN objects => IsContent(objects[id].rev)
  <2>1. CASE id \in DOMAIN objects /\ objects'[id].rev = objects[id].rev
    BY <2>1
  <2>2. CASE Rewritten(objects, objects', ops, id)
    <3>1. PICK i \in 1..Len(ops) : Writes(ops[i], id) /\ objects'[id].rev = ops[i].body
      BY <2>2 DEF Rewritten
    <3>2. CASE Restating(ops)
      BY <3>1, <3>2 DEF Restating
    <3>3. CASE OnContent(ops)
      <4>1. IsContent(objects'[id].rev)
        BY <3>1, <3>3 DEF OnContent
      <4>2. ASSUME id \in DOMAIN objects PROVE IsContent(objects[id].rev)
        <5>1. PICK j \in 1..Len(ops) : Replaces(ops[j], id, objects[id].rev)
          BY <2>2, <4>2 DEF Rewritten
        <5>2. Writes(ops[j], id) /\ ops[j].verb = "update" /\ ops[j].prior = objects[id].rev
          BY <5>1 DEF Replaces, Writes
        <5> QED
          BY <3>3, <5>2 DEF OnContent
      <4> QED
        BY <4>1, <4>2
    <3> QED
      BY <3>2, <3>3
  <2> QED
    BY <1>1, <2>1, <2>2 DEF Revised
<1>4. NodesOK'
  <2> SUFFICES ASSUME NEW id \in DOMAIN objects' \cap NodeId
               PROVE  /\ IsSchema(objects'[id].rev) \/ IsContent(objects'[id].rev)
                      /\ TypeOf(objects'[id].rev) = "meta/Policy" => id = scenario.policy
                      /\ TypeOf(objects'[id].rev) \in ElementTypes =>
                           objects'[id].rev \in Defined
    BY <1>2 DEF NodesOK
  <2>1. CASE id \in DOMAIN objects /\ objects'[id].rev = objects[id].rev
    BY <1>1, <2>1 DEF NodesOK
  <2>2. CASE IsContent(objects'[id].rev)
    BY <2>2, SchemaOrContent
  <2> QED
    BY <1>3, <2>1, <2>2
<1>5. Standing'
  <2> SUFFICES ASSUME NEW e \in Defined
               PROVE  \E id \in DOMAIN objects' \cap NodeId : objects'[id].rev = e
    BY <1>2 DEF Standing
  <2>1. PICK id \in DOMAIN objects \cap NodeId : objects[id].rev = e
    BY <1>1 DEF Standing
  <2>2. ~IsContent(e)
    BY <1>1, DefinedIsSchema, SchemaOrContent
  <2>3. id \in DOMAIN objects' \cap NodeId
    BY <1>1
  <2>4. objects'[id].rev = e
    BY <1>3, <2>1, <2>2, <2>3
  <2> QED
    BY <2>3, <2>4
<1> QED
  BY <1>4, <1>5

\* What a commit keeps, if it creates nothing under an id that may be minted.
LEMMA CommitKeeps ==
  ASSUME IInv, NEW ops, Len(ops) \in Nat, Commit(ops),
         OnContent(ops) \/ Restating(ops),
         \A ids \in unused : Range(ids) \cap Created(ops) = {}
  PROVE  IInv'
<1>1. CanStep /\ Apply(ops) /\ UNCHANGED <<scenario, dir, installed, unused>>
  BY DEF Commit
<1>2. /\ Honest(objects') /\ DOMAIN objects \subseteq DOMAIN objects'
      /\ DOMAIN objects' \subseteq DOMAIN objects \cup (Id \cap Created(ops))
  BY <1>1, Applied DEF IInv
<1>3. NodesOK' /\ Standing'
  BY <1>1, ContentChanges
<1>4. FilesOK' /\ \A doc \in installed' : IsDoc(doc)
  BY <1>1 DEF IInv, FilesOK
<1>5. TypeOK'
  <2>1. TypeOK /\ scenario \in Scenarios /\ scenario.steps \in Nat
    BY BundleAssumption DEF IInv, IsScenario
  <2>2. steps' \in 0..scenario.steps
    BY <1>1, <2>1 DEF CanStep, TypeOK
  <2>3. \A ids \in unused : Range(ids) \cap DOMAIN objects' = {}
    BY <1>2, <2>1 DEF TypeOK
  <2> QED
    BY <1>1, <1>2, <2>1, <2>2, <2>3 DEF TypeOK
<1> QED
  BY <1>1, <1>2, <1>3, <1>4, <1>5 DEF IInv

\* A changeset of one operation.
LEMMA OneOperation ==
  ASSUME NEW op
  PROVE  /\ Len(<<op>>) \in Nat /\ \A i \in 1..Len(<<op>>) : <<op>>[i] = op
         /\ \A id \in Created(<<op>>) : op.verb = "create" /\ op.id = id
  BY DEF Created

LEMMA WorkIInv ==
  ASSUME IInv, Work
  PROVE  IInv'
<1>1. IsScenario(scenario) /\ TypeOK /\ unused \subseteq scenario.ids
  BY BundleAssumption DEF IInv, TypeOK
<1>2. ASSUME NEW n \in scenario.nodes, CreateNode(n[1], n[2]) PROVE IInv'
  <2>1. PICK op : op = [verb |-> "create", id |-> n[1], body |-> n[2]]
    OBVIOUS
  <2>2. Commit(<<op>>) /\ op.verb = "create" /\ op.id = n[1] /\ op.body = n[2]
    BY <1>2, <2>1 DEF CreateNode
  <2>3. IsContent(n[2])
    BY <1>1 DEF IsScenario
  <2>4. OnContent(<<op>>)
    BY <2>2, <2>3, OneOperation DEF OnContent
  <2>5. ASSUME NEW ids \in unused PROVE Range(ids) \cap Created(<<op>>) = {}
    <3>1. ids \in Seq(NodeId \ (DOMAIN scenario.start \cup {m[1] : m \in scenario.nodes}))
      BY <1>1 DEF IsScenario
    <3>2. n[1] \notin Range(ids)
      BY <3>1 DEF Range
    <3> QED
      BY <2>2, <3>2, OneOperation
  <2> QED
    BY <2>2, <2>4, <2>5, OneOperation, CommitKeeps
<1>3. ASSUME NEW u \in scenario.updates, UpdateNode(u[1], u[2]) PROVE IInv'
  <2>1. PICK id, attrs, body, op :
          /\ id = u[1] /\ attrs = u[2] /\ body = [objects[id].content EXCEPT !.attrs = attrs]
          /\ op = [verb |-> "update", id |-> id, prior |-> objects[id].rev, body |-> body]
    OBVIOUS
  <2>2. /\ Commit(<<op>>) /\ op.verb = "update" /\ op.id = id /\ op.body = body
        /\ op.prior = objects[id].rev /\ id \in DOMAIN objects /\ ~objects[id].redacted
    BY <1>3, <2>1 DEF UpdateNode, Live
  <2>3. id \in NodeId /\ IsAttrs(attrs)
    BY <1>1, <2>1 DEF IsScenario
  <2>4. objects[id].content = objects[id].rev
    BY <2>2 DEF IInv, Honest
  <2>5. OnContent(<<op>>) \/ Restating(<<op>>)
    <3>1. CASE IsContent(objects[id].rev)
      <4>1. PICK c : c = objects[id].rev
        OBVIOUS
      <4>2. c = [type |-> c.type, attrs |-> c.attrs] /\ c.type \notin MetaTypes
        BY <3>1, <4>1 DEF IsContent
      <4>3. body = [c EXCEPT !.attrs = attrs]
        BY <2>1, <2>4, <4>1
      <4>4. body = [type |-> c.type, attrs |-> attrs]
        BY <4>2, <4>3
      <4>5. IsContent(body)
        BY <2>3, <4>2, <4>4 DEF IsContent
      <4>6. OnContent(<<op>>)
        BY <2>2, <3>1, <4>5, OneOperation DEF OnContent
      <4> QED
        BY <4>6
    <3>2. CASE IsSchema(objects[id].rev)
      <4>1. PICK c : c = objects[id].rev
        OBVIOUS
      <4>2. c = [field \in DOMAIN c |-> c[field]] /\ "attrs" \notin DOMAIN c
        BY <3>2, <4>1 DEF IsSchema
      <4>3. body = [c EXCEPT !.attrs = attrs]
        BY <2>1, <2>4, <4>1
      <4>4. body = c
        BY <4>2, <4>3
      <4>5. Restating(<<op>>)
        BY <2>2, <4>1, <4>4, OneOperation DEF Restating, Writes
      <4> QED
        BY <4>5
    <3> QED
      BY <2>2, <2>3, <3>1, <3>2 DEF IInv, NodesOK
  <2>6. Created(<<op>>) = {}
    BY <2>2, OneOperation
  <2> QED
    BY <2>2, <2>5, <2>6, OneOperation, CommitKeeps
<1>4. ASSUME NEW id, Delete(id) \/ Redact(id) PROVE IInv'
  <2>1. PICK op : Commit(<<op>>) /\ op.verb \in {"delete", "redact-document"}
    <3>1. CASE Delete(id)
      <4>1. PICK op : op = [verb |-> "delete", id |-> id, prior |-> objects[id].rev]
        OBVIOUS
      <4> QED
        BY <3>1, <4>1 DEF Delete
    <3>2. CASE Redact(id)
      <4>1. PICK op : op = [verb |-> "redact-document", id |-> id]
        OBVIOUS
      <4> QED
        BY <3>2, <4>1 DEF Redact
    <3> QED
      BY <1>4, <3>1, <3>2
  <2>2. OnContent(<<op>>)
    BY <2>1, OneOperation DEF OnContent, Writes
  <2>3. Created(<<op>>) = {}
    BY <2>1, OneOperation
  <2> QED
    BY <2>1, <2>2, <2>3, OneOperation, CommitKeeps
<1>5. ASSUME NEW c \in scenario.marks, Classify(c[1], c[2], c[3]) PROVE IInv'
  <2>1. PICK op : op = [verb |-> "create", id |-> c[1],
                        body |-> [subject |-> c[2], term |-> c[3]]]
    OBVIOUS
  <2>2. Commit(<<op>>) /\ op.verb = "create" /\ op.id = c[1]
    BY <1>5, <2>1 DEF Classify
  <2>3. c[1] \in ClassificationId /\ c[1] \notin NodeId
    BY <1>1, KindsAreDisjoint DEF IsScenario
  <2>4. OnContent(<<op>>)
    BY <2>2, <2>3, OneOperation DEF OnContent, Writes
  <2>5. ASSUME NEW ids \in unused PROVE Range(ids) \cap Created(<<op>>) = {}
    <3>1. ids \in Seq(NodeId \ (DOMAIN scenario.start \cup {m[1] : m \in scenario.nodes}))
      BY <1>1 DEF IsScenario
    <3>2. c[1] \notin Range(ids)
      BY <2>3, <3>1 DEF Range
    <3> QED
      BY <2>2, <3>2, OneOperation
  <2> QED
    BY <2>2, <2>4, <2>5, OneOperation, CommitKeeps
<1> QED
  BY <1>2, <1>3, <1>4, <1>5 DEF Work

-----------------------------------------------------------------------------
\* Installing.

\* The first policy node is genesis's.
LEMMA FirstPolicy ==
  ASSUME IInv, PolicyNodes(objects) # <<>>
  PROVE  LET p == PolicyNodes(objects)[1]
         IN  /\ p = scenario.policy /\ p \in DOMAIN objects \cap NodeId
             /\ TypeOf(objects[p].rev) = "meta/Policy"
<1>1. PICK q : q = PolicyNodes(objects)
  OBVIOUS
<1>2. PICK live : live = LiveOfType(objects, "meta/Policy")
  OBVIOUS
<1>3. IsSequence(q) /\ Range(q) = Range(Order) \cap live
  BY <1>1, <1>2, BundleAssumption, SelectedRange DEF PolicyNodes, IsSequence
<1>4. q[1] \in Range(q)
  BY <1>1, <1>3 DEF IsSequence, Range
<1>5. PICK p : p = q[1] /\ p \in DOMAIN objects \cap NodeId
               /\ TypeOf(objects[p].content) = "meta/Policy"
  BY <1>2, <1>3, <1>4 DEF LiveOfType, LiveNodes
<1>6. TypeOf(RedactedContent) # "meta/Policy"
  BY DEF TypeOf, RedactedContent
<1>7. objects[p].content \in {objects[p].rev, RedactedContent}
  BY <1>5 DEF IInv, Honest
<1>8. TypeOf(objects[p].rev) = "meta/Policy"
  BY <1>5, <1>6, <1>7
<1>9. p = scenario.policy
  BY <1>5, <1>8 DEF IInv, NodesOK
<1> QED
  BY <1>1, <1>5, <1>8, <1>9

\* What becomes of a compiled body: the policy replaces the policy, anything
\* else is created under an id of its own.
LEMMA InstallOpIs ==
  ASSUME IInv, PolicyNodes(objects) # <<>>, NEW id, NEW body, IsSchema(body),
         NEW op, op = InstallOp(objects, id, body)
  PROVE  /\ op.body = body
         /\ TypeOf(body) = "meta/Policy" =>
              op.verb = "update" /\ op.id = scenario.policy
         /\ TypeOf(body) # "meta/Policy" => op.verb = "create" /\ op.id = id
<1>1. TypeOf(body) = body.type
  BY DEF IsSchema, TypeOf, MetaTypes
<1>2. CASE TypeOf(body) = "meta/Policy"
  <2>1. op = [verb |-> "update", id |-> PolicyNodes(objects)[1],
              prior |-> objects[PolicyNodes(objects)[1]].rev, body |-> body]
    BY <1>1, <1>2 DEF InstallOp
  <2> QED
    BY <1>2, <2>1, FirstPolicy
<1>3. CASE TypeOf(body) # "meta/Policy"
  <2>1. op = [verb |-> "create", id |-> id, body |-> body]
    BY <1>1, <1>3 DEF InstallOp
  <2> QED
    BY <1>3, <2>1
<1> QED
  BY <1>2, <1>3

LEMMA InstallIInv ==
  ASSUME IInv, NEW package \in scenario.packages, NEW ids \in unused, Install(package, ids)
  PROVE  IInv'
<1>1. PICK bodies : bodies = CompileSchemaOps(package.docs, package.policy)
  OBVIOUS
<1>2. PICK ops : ops = InstallPackageOps(objects, bodies, ids)
  OBVIOUS
<1>3. /\ CanStep /\ Len(bodies) <= Len(ids) /\ Apply(ops)
      /\ installed' = installed \cup Range(package.docs)
      /\ unused' = unused \ {ids} /\ UNCHANGED <<scenario, dir>>
  BY <1>1, <1>2 DEF Install
<1>4. /\ IsScenario(scenario) /\ TypeOK /\ unused \subseteq scenario.ids
      /\ Range(ids) \cap DOMAIN objects = {}
  BY BundleAssumption DEF IInv, TypeOK
<1>5. /\ IsSequence(package.docs) /\ \A doc \in Range(package.docs) : IsDoc(doc)
  BY <1>4 DEF IsScenario, IsSequence
<1>6. /\ IsSequence(bodies)
      /\ \A body \in Range(bodies) :
           /\ IsSchema(body)
           /\ TypeOf(body) \in ElementTypes =>
                \E doc \in Range(package.docs) : IsOntology(doc) /\ body \in ElementsOf(doc)
      /\ \A doc \in Range(package.docs) : IsOntology(doc) => ElementsOf(doc) \subseteq Range(bodies)
  BY <1>1, <1>5, SchemaCompiled
<1>7. PICK n \in Nat : n = Len(bodies) /\ DOMAIN bodies = 1..n
  BY <1>6 DEF IsSequence
<1>8. ids \in Seq(NodeId) /\ IsInjective(ids)
      /\ \A other \in unused : other # ids => Range(other) \cap Range(ids) = {}
  <2>1. PICK taken : taken = DOMAIN scenario.start \cup {node[1] : node \in scenario.nodes}
    OBVIOUS
  <2>2. /\ ids \in Seq(NodeId \ taken) /\ IsInjective(ids)
        /\ \A other \in scenario.ids : other # ids => Range(other) \cap Range(ids) = {}
    BY <1>4, <2>1 DEF IsScenario
  <2>3. ids \in Seq(NodeId)
    BY <2>2
  <2> QED
    BY <1>4, <2>2, <2>3
<1>9. DOMAIN ids = 1..Len(ids) /\ 1..n \subseteq DOMAIN ids
  BY <1>3, <1>7, <1>8
<1>10. /\ ops = [i \in 1..n |-> ops[i]] /\ Len(ops) = n /\ DOMAIN ops = 1..n
       /\ \A i \in 1..n : ops[i] = InstallOp(objects, ids[i], bodies[i])
  BY <1>2, <1>7 DEF InstallPackageOps
<1>11. PolicyNodes(objects) # <<>>
  BY <1>3 DEF Apply
<1>12. ASSUME NEW i \in 1..n
       PROVE  /\ bodies[i] \in Range(bodies) /\ ids[i] \in Range(ids) \cap NodeId
              /\ ops[i].body = bodies[i]
              /\ TypeOf(bodies[i]) = "meta/Policy" =>
                   ops[i].verb = "update" /\ ops[i].id = scenario.policy
              /\ TypeOf(bodies[i]) # "meta/Policy" => ops[i].verb = "create" /\ ops[i].id = ids[i]
  <2>1. bodies[i] \in Range(bodies) /\ ids[i] \in Range(ids)
    BY <1>7, <1>9 DEF Range
  <2>2. ids[i] \in NodeId
    BY <1>8, <1>9
  <2>3. IsSchema(bodies[i])
    BY <1>6, <2>1
  <2>4. PICK op : op = ops[i] /\ op = InstallOp(objects, ids[i], bodies[i])
    BY <1>10
  <2> QED
    BY <1>11, <2>1, <2>2, <2>3, <2>4, InstallOpIs
<1>13. /\ Honest(objects') /\ DOMAIN objects \subseteq DOMAIN objects'
       /\ Revised(objects, objects', ops)
       /\ DOMAIN objects' \subseteq DOMAIN objects \cup (Id \cap Created(ops))
  BY <1>3, <1>10, Applied DEF IInv
<1>14. Created(ops) \subseteq Range(ids)
  <2> SUFFICES ASSUME NEW i \in 1..n, ops[i].verb = "create" PROVE ops[i].id \in Range(ids)
    BY <1>10 DEF Created
  <2> QED
    BY <1>12
<1>15. PICK p : p = scenario.policy /\ p \in DOMAIN objects \cap NodeId
               /\ TypeOf(objects[p].rev) = "meta/Policy"
  BY <1>11, FirstPolicy
<1>16. \A doc \in installed' : IsDoc(doc)
  BY <1>3, <1>5 DEF IInv
<1>17. /\ Defined \subseteq Defined'
       /\ \A doc \in Range(package.docs) : IsOntology(doc) => ElementsOf(doc) \subseteq Defined'
       /\ \A e \in Defined' : \/ e \in Defined
                              \/ \E doc \in Range(package.docs) : IsOntology(doc) /\ e \in ElementsOf(doc)
  BY <1>3 DEF Defined
<1>18. NodesOK'
  <2> SUFFICES ASSUME NEW id \in DOMAIN objects' \cap NodeId
               PROVE  /\ IsSchema(objects'[id].rev) \/ IsContent(objects'[id].rev)
                      /\ TypeOf(objects'[id].rev) = "meta/Policy" => id = scenario.policy
                      /\ TypeOf(objects'[id].rev) \in ElementTypes =>
                           objects'[id].rev \in Defined'
    BY <1>3 DEF NodesOK
  <2>1. CASE id \in DOMAIN objects /\ objects'[id].rev = objects[id].rev
    BY <1>17, <2>1 DEF IInv, NodesOK
  <2>2. CASE Rewritten(objects, objects', ops, id)
    <3>1. PICK i \in 1..n : Writes(ops[i], id) /\ objects'[id].rev = ops[i].body
      BY <1>10, <2>2 DEF Rewritten
    <3>2. objects'[id].rev \in Range(bodies) /\ objects'[id].rev = bodies[i]
      BY <1>12, <3>1
    <3>3. TypeOf(bodies[i]) = "meta/Policy" => id = scenario.policy
      BY <1>12, <3>1 DEF Writes
    <3> QED
      BY <1>6, <1>17, <3>2, <3>3
  <2> QED
    BY <1>13, <2>1, <2>2 DEF Revised
<1>19. Standing'
  <2> SUFFICES ASSUME NEW e \in Defined'
               PROVE  \E id \in DOMAIN objects' \cap NodeId : objects'[id].rev = e
    BY DEF Standing
  <2>1. CASE e \in Defined
    <3>1. PICK id \in DOMAIN objects \cap NodeId : objects[id].rev = e
      BY <2>1 DEF IInv, Standing
    <3>2. TypeOf(e) \in ElementTypes
      BY <2>1, DefinedIsSchema DEF IInv
    <3>3. id # p
      BY <1>15, <3>1, <3>2 DEF ElementTypes, NamedTypes
    <3>4. ASSUME NEW j \in 1..n, Replaces(ops[j], id, e) PROVE FALSE
      BY <1>12, <1>15, <3>3, <3>4 DEF Replaces
    <3>5. objects'[id].rev = e
      BY <1>10, <1>13, <3>1, <3>4 DEF Revised, Rewritten
    <3> QED
      BY <1>13, <3>1, <3>5
  <2>2. CASE e \notin Defined
    <3>1. PICK doc \in Range(package.docs) : IsOntology(doc) /\ e \in ElementsOf(doc)
      BY <1>17, <2>2
    <3>2. PICK i \in 1..n : bodies[i] = e
      BY <1>6, <1>7, <3>1 DEF Range
    <3>3. TypeOf(e) \in ElementTypes /\ TypeOf(e) # "meta/Policy"
      BY <1>5, <3>1, ElementsAreSchema DEF ElementTypes, NamedTypes
    <3>4. PICK id, op : /\ id = ids[i] /\ op = ops[i] /\ op.verb = "create" /\ op.id = id
                        /\ op.body = e /\ id \in Range(ids) \cap NodeId
      BY <1>12, <3>2, <3>3
    <3>5. ASSUME NEW k \in 1..n, ops[k].id = id PROVE k = i
      <4>1. p # id
        BY <1>4, <1>15, <3>4
      <4>2. ids[k] = ids[i]
        BY <1>12, <1>15, <3>4, <3>5, <4>1
      <4> QED
        BY <1>8, <1>9, <4>2 DEF IsInjective
    <3>6. IsSequence(ops)
      <4>1. \A k \in 1..n : ops[k] \in Range(ops)
        BY <1>10 DEF Range
      <4>2. ops \in Seq(Range(ops))
        BY <1>10, <4>1
      <4> QED
        BY <4>2 DEF IsSequence
    <3>7. On(ops, id) = {op}
      BY <1>10, <3>4, <3>5 DEF On, Range
    <3>8. PICK reg : /\ ApplyChangeset(reg, objects, ops).ok
                     /\ objects' = ApplyChangeset(reg, objects, ops).objects
      BY <1>3 DEF Apply
    <3>9. Made(objects, objects', id, op)
      <4>1. /\ ApplyOps(reg, objects, ops).ok
            /\ objects' = ApplyOps(reg, objects, ops).objects
        BY <3>8, Accepted
      <4> QED
        BY <3>4, <3>6, <3>7, <4>1, Touched DEF Verbs
    <3>10. id \in DOMAIN objects' /\ objects'[id].rev = e
      BY <3>4, <3>9 DEF Made, Obj
    <3> QED
      BY <3>4, <3>10
  <2> QED
    BY <2>1, <2>2
<1>20. FilesOK'
  BY <1>3 DEF IInv, FilesOK
<1>21. TypeOK'
  <2>1. scenario.steps \in Nat
    BY <1>4 DEF IsScenario
  <2>2. steps' \in 0..scenario.steps
    BY <1>3, <1>4, <2>1 DEF CanStep, TypeOK
  <2>3. \A other \in unused' : Range(other) \cap DOMAIN objects' = {}
    BY <1>3, <1>4, <1>8, <1>13, <1>14 DEF TypeOK
  <2> QED
    BY <1>3, <1>4, <1>13, <2>2, <2>3 DEF TypeOK
<1> QED
  BY <1>3, <1>13, <1>16, <1>18, <1>19, <1>20, <1>21 DEF IInv

-----------------------------------------------------------------------------
\* The bundle.

\* A node's file, and where it lies.
LEMMA FileOfIs ==
  ASSUME IInv, NEW reg, NEW id \in Exported(objects)
  PROVE  LET file == FileOf(objects, reg, id)
             path == PathOf(objects, id)
         IN  /\ FileOK(file) /\ file.id = id /\ file.rev = objects[id].rev
             /\ path = <<path[1], path[2]>> /\ path[1] \in Range(TermOrder) /\ path[2] = id
<1>1. id \in DOMAIN objects \cap NodeId /\ ~objects[id].redacted
      /\ TypeOf(objects[id].content) \notin MetaTypes
  BY DEF Exported, LiveNodes
<1>2. PICK c : c = objects[id].rev
  OBVIOUS
<1>3. objects[id].content = c
  BY <1>1, <1>2 DEF IInv, Honest
<1>4. IsContent(c)
  BY <1>1, <1>2, <1>3 DEF IInv, NodesOK, IsSchema
<1>5. PICK said, long : said = c.attrs /\ long = LongTextAttr(reg, c.type)
  OBVIOUS
<1>6. PICK attrs, body :
        /\ attrs = [a \in DOMAIN said \ {long} |-> said[a]]
        /\ body = IF long \in DOMAIN said THEN TrimEnd(said[long], {Newline}) ELSE <<>>
  OBVIOUS
<1>7. PICK file : file = [id |-> id, rev |-> c, type |-> c.type, attrs |-> attrs,
                          body |-> body, long |-> long, edited |-> FALSE]
  OBVIOUS
<1>8. FileOf(objects, reg, id) = file
  BY <1>2, <1>3, <1>5, <1>6, <1>7 DEF FileOf
<1>9. \A a \in DOMAIN said : IsText(said[a])
  BY <1>4, <1>5 DEF IsContent, IsAttrs
<1>10. IsAttrs(attrs)
  BY <1>4, <1>5, <1>6, <1>9 DEF IsContent, IsAttrs
<1>11. IsText(body)
  <2>1. CASE long \in DOMAIN said
    BY <1>6, <1>9, <2>1, TrimEndEnds
  <2>2. CASE long \notin DOMAIN said
    BY <1>6, <2>2 DEF IsText, Range
  <2> QED
    BY <2>1, <2>2
<1>12. /\ file.id = id /\ file.rev = c /\ file.type = c.type /\ file.attrs = attrs
       /\ file.body = body /\ file.long = long /\ file.edited = FALSE
       /\ file = [id |-> file.id, rev |-> file.rev, type |-> file.type, attrs |-> file.attrs,
                  body |-> file.body, long |-> file.long, edited |-> file.edited]
  BY <1>7
<1>13. FileOK(file)
  BY <1>4, <1>5, <1>6, <1>10, <1>11, <1>12 DEF FileOK
<1>14. PICK terms : terms = Selected(TermOrder, ClassificationsOf(objects, id))
  OBVIOUS
<1>15. IsSequence(terms) /\ Range(terms) \subseteq Range(TermOrder)
       /\ "_unclassified" \in Range(TermOrder)
  BY <1>14, BundleAssumption, SelectedRange DEF IsSequence
<1>16. terms # <<>> => terms[1] \in Range(TermOrder)
  <2>1. terms # <<>> => terms[1] \in Range(terms)
    BY <1>15 DEF IsSequence, Range
  <2> QED
    BY <1>15, <2>1
<1>17. PICK term : /\ term = IF terms = <<>> THEN "_unclassified" ELSE terms[1]
                   /\ term \in Range(TermOrder)
  BY <1>15, <1>16
<1>18. PathOf(objects, id) = <<term, id>>
  BY <1>14, <1>17 DEF PathOf
<1> QED
  BY <1>2, <1>8, <1>12, <1>13, <1>17, <1>18

LEMMA ExportIInv ==
  ASSUME IInv, Export
  PROVE  IInv'
<1>1. PICK reg, bundle : reg = Registry /\ bundle = Bundle(objects, reg)
  OBVIOUS
<1>2. /\ CanStep /\ dir' = Over(bundle, dir)
      /\ UNCHANGED <<scenario, objects, installed, unused>>
  BY <1>1 DEF Export
<1>3. ASSUME NEW path \in DOMAIN bundle
      PROVE  /\ path = <<path[1], path[2]>> /\ FileOK(bundle[path])
             /\ path[1] \in Range(TermOrder) /\ path[2] = bundle[path].id
             /\ path[2] \in DOMAIN objects \cap NodeId
  <2>1. PICK id \in Exported(objects) : path = PathOf(objects, id)
    BY <1>1 DEF Bundle
  <2>2. path[2] = id /\ bundle[path] = FileOf(objects, reg, id)
    <3>1. path[2] = id
      BY <2>1 DEF PathOf
    <3>2. bundle[path] = FileOf(objects, reg, path[2])
      BY <1>1, <1>3 DEF Bundle
    <3> QED
      BY <3>1, <3>2
  <2>3. id \in DOMAIN objects \cap NodeId
    BY DEF Exported, LiveNodes
  <2> QED
    BY <2>1, <2>2, <2>3, FileOfIs
<1>4. /\ dir' = [path \in DOMAIN dir' |-> dir'[path]]
      /\ \A path \in DOMAIN dir' : \/ path \in DOMAIN bundle /\ dir'[path] = bundle[path]
                                   \/ path \in DOMAIN dir /\ dir'[path] = dir[path]
  BY <1>2 DEF Over
<1>5. FilesOK'
  <2> SUFFICES ASSUME NEW path \in DOMAIN dir'
               PROVE  path = <<path[1], path[2]>> /\ FileOK(dir'[path])
    BY <1>4 DEF FilesOK
  <2>1. \A q \in DOMAIN dir : q = <<q[1], q[2]>> /\ FileOK(dir[q])
    BY DEF IInv, FilesOK
  <2>2. CASE path \in DOMAIN bundle /\ dir'[path] = bundle[path]
    BY <1>3, <2>2
  <2>3. CASE path \in DOMAIN dir /\ dir'[path] = dir[path]
    BY <2>1, <2>3
  <2> QED
    BY <1>4, <2>2, <2>3
<1>6. TypeOK'
  <2>1. TypeOK /\ scenario.steps \in Nat
    BY BundleAssumption DEF IInv, IsScenario
  <2>2. steps' \in 0..scenario.steps
    BY <1>2, <2>1 DEF CanStep, TypeOK
  <2>3. ASSUME NEW path \in DOMAIN dir'
        PROVE  /\ path[1] \in Range(TermOrder) /\ path[2] = dir'[path].id
               /\ path[2] \in DOMAIN objects \cap NodeId
               /\ "attrs" \in DOMAIN dir'[path].rev
    <3>1. FileOK(dir'[path])
      BY <1>5 DEF FilesOK
    <3>2. "attrs" \in DOMAIN dir'[path].rev
      BY <3>1 DEF FileOK, IsContent
    <3>3. CASE path \in DOMAIN bundle /\ dir'[path] = bundle[path]
      BY <1>3, <3>2, <3>3
    <3>4. CASE path \in DOMAIN dir /\ dir'[path] = dir[path]
      BY <2>1, <3>2, <3>4 DEF TypeOK
    <3> QED
      BY <1>4, <3>3, <3>4
  <2> QED
    BY <1>2, <2>1, <2>2, <2>3 DEF TypeOK
<1>7. NodesOK' /\ Standing' /\ Honest(objects') /\ \A doc \in installed' : IsDoc(doc)
  BY <1>2 DEF IInv, NodesOK, Standing, Defined
<1> QED
  BY <1>2, <1>5, <1>6, <1>7 DEF IInv

LEMMA EditIInv ==
  ASSUME IInv, NEW path \in DOMAIN dir, NEW text \in scenario.texts, EditFile(path, text)
  PROVE  IInv'
<1>1. /\ CanStep /\ dir' = [dir EXCEPT ![path].body = text, ![path].edited = TRUE]
      /\ UNCHANGED <<scenario, objects, installed, unused>>
  BY DEF EditFile
<1>2. PICK f : f = dir[path] /\ FileOK(f)
  BY DEF IInv, FilesOK
<1>3. PICK g : g = [id |-> f.id, rev |-> f.rev, type |-> f.type, attrs |-> f.attrs,
                    body |-> text, long |-> f.long, edited |-> TRUE]
  OBVIOUS
<1>4. dir = [q \in DOMAIN dir |-> dir[q]]
  BY DEF IInv, FilesOK
<1>5. /\ dir' = [q \in DOMAIN dir' |-> dir'[q]] /\ DOMAIN dir' = DOMAIN dir
      /\ \A q \in DOMAIN dir : q # path => dir'[q] = dir[q]
  BY <1>1, <1>4
<1>6. dir'[path] = g
  <2>1. f = [id |-> f.id, rev |-> f.rev, type |-> f.type, attrs |-> f.attrs,
             body |-> f.body, long |-> f.long, edited |-> f.edited]
    BY <1>2 DEF FileOK
  <2>2. dir'[path] = [[f EXCEPT !.body = text] EXCEPT !.edited = TRUE]
    BY <1>1, <1>2, <1>4
  <2> QED
    BY <1>3, <2>1, <2>2
<1>7. IsText(text)
  BY BundleAssumption DEF IInv, IsScenario
<1>8. /\ g.id = f.id /\ g.rev = f.rev /\ g.type = f.type /\ g.attrs = f.attrs
      /\ g.body = text /\ g.edited = TRUE
      /\ g = [id |-> g.id, rev |-> g.rev, type |-> g.type, attrs |-> g.attrs,
              body |-> g.body, long |-> g.long, edited |-> g.edited]
  BY <1>3
<1>9. FileOK(g)
  BY <1>2, <1>7, <1>8 DEF FileOK
<1>10. FilesOK'
  <2> SUFFICES ASSUME NEW q \in DOMAIN dir'
               PROVE  q = <<q[1], q[2]>> /\ FileOK(dir'[q])
    BY <1>5 DEF FilesOK
  <2>1. q = <<q[1], q[2]>> /\ FileOK(dir[q])
    BY <1>5 DEF IInv, FilesOK
  <2>2. CASE q = path
    BY <1>6, <1>9, <2>1, <2>2
  <2>3. CASE q # path
    BY <1>5, <2>1, <2>3
  <2> QED
    BY <2>2, <2>3
<1>11. TypeOK'
  <2>1. TypeOK /\ scenario.steps \in Nat
    BY BundleAssumption DEF IInv, IsScenario
  <2>2. steps' \in 0..scenario.steps
    BY <1>1, <2>1 DEF CanStep, TypeOK
  <2>3. \A q \in DOMAIN dir : dir'[q].id = dir[q].id /\ dir'[q].rev = dir[q].rev
    BY <1>2, <1>5, <1>6, <1>8
  <2> QED
    BY <1>1, <1>5, <2>1, <2>2, <2>3 DEF TypeOK
<1>12. NodesOK' /\ Standing' /\ Honest(objects') /\ \A doc \in installed' : IsDoc(doc)
  BY <1>1 DEF IInv, NodesOK, Standing, Defined
<1> QED
  BY <1>1, <1>10, <1>11, <1>12 DEF IInv

-----------------------------------------------------------------------------
\* Importing.

\* Every edited path is imported, and nothing else.
LEMMA SortedIs ==
  ASSUME NEW paths, \A path \in paths : /\ path = <<path[1], path[2]>>
                                        /\ path[1] \in Range(TermOrder)
                                        /\ path[2] \in Range(Order)
  PROVE  IsSequence(Sorted(paths)) /\ Range(Sorted(paths)) = paths
<1>1. IsSequence(Order) /\ IsSequence(TermOrder)
  BY BundleAssumption DEF IsSequence
<1>2. PICK n \in Nat : n = Len(TermOrder) /\ DOMAIN TermOrder = 1..n
  BY <1>1 DEF IsSequence
<1> DEFINE Here(term) == {path \in paths : path[1] = term}
<1>3. ASSUME NEW term
      PROVE  /\ IsSequence(Under(paths, term))
             /\ Range(Under(paths, term)) = Here(term)
  <2> DEFINE named == {path[2] : path \in {p \in paths : p[1] = term}}
  <2>1. PICK q : q = Selected(Order, named)
    OBVIOUS
  <2>2. IsSequence(q) /\ Range(q) = Range(Order) \cap named
    BY <1>1, <2>1, SelectedRange
  <2>3. PICK m \in Nat : m = Len(q) /\ DOMAIN q = 1..m
    BY <2>2 DEF IsSequence
  <2>4. PICK u : u = Under(paths, term)
    OBVIOUS
  <2>5. u = [i \in 1..m |-> u[i]] /\ \A i \in 1..m : u[i] = <<term, q[i]>>
    BY <2>1, <2>3, <2>4 DEF Under
  <2>6. IsSequence(u)
    <3>1. \A i \in 1..m : u[i] \in Range(u)
      BY <2>5 DEF Range
    <3>2. u \in Seq(Range(u))
      BY <2>5, <3>1
    <3> QED
      BY <3>2 DEF IsSequence
  <2>7. ASSUME NEW x \in Range(u) PROVE x \in Here(term)
    <3>5. PICK i \in 1..m : x = u[i]
      BY <2>5, <2>7 DEF Range
    <3>1. x = <<term, q[i]>>
      BY <2>5, <3>5
    <3>2. q[i] \in named
      BY <2>2, <2>3 DEF Range
    <3>3. PICK path \in paths : path[1] = term /\ path[2] = q[i]
      BY <3>2
    <3>4. path = <<term, q[i]>>
      BY <3>3
    <3> QED
      BY <3>1, <3>3, <3>4
  <2>8. ASSUME NEW x \in Here(term) PROVE x \in Range(u)
    <3>1. x = <<term, x[2]>> /\ x[2] \in Range(Order) /\ x[2] \in named
      BY <2>8
    <3>2. x[2] \in Range(q)
      BY <2>2, <3>1
    <3>3. PICK i \in 1..m : q[i] = x[2]
      BY <2>3, <3>2 DEF Range
    <3>4. u[i] = x
      BY <2>5, <3>1, <3>3
    <3> QED
      BY <2>5, <3>4 DEF Range
  <2> HIDE DEF Here
  <2> QED
    BY <2>4, <2>6, <2>7, <2>8
<1> DEFINE parts == [i \in DOMAIN TermOrder |-> Under(paths, TermOrder[i])]
<1>4. IsSequence(parts) /\ Len(parts) = n /\ \A i \in 1..n : parts[i] = Under(paths, TermOrder[i])
  <2>1. PICK r : r = parts
    OBVIOUS
  <2>2. r = [i \in 1..n |-> r[i]] /\ \A i \in 1..n : r[i] \in Range(r) /\ r[i] = Under(paths, TermOrder[i])
    BY <1>2, <2>1 DEF Range
  <2>3. r \in Seq(Range(r)) /\ Len(r) = n
    BY <2>2
  <2> QED
    BY <2>1, <2>2, <2>3 DEF IsSequence
<1>5. Sorted(paths) = FlattenSeq(parts)
  BY DEF Sorted
<1> HIDE DEF parts
<1>6. /\ IsSequence(FlattenSeq(parts))
      /\ Range(FlattenSeq(parts)) = UNION {Range(parts[i]) : i \in 1..Len(parts)}
  BY <1>3, <1>4, RangeAll
<1>7. PICK all : all = UNION {Range(parts[i]) : i \in 1..Len(parts)}
  OBVIOUS
<1>8. ASSUME NEW x \in all PROVE x \in paths
  <2>1. PICK i \in 1..n : x \in Range(parts[i])
    BY <1>4, <1>7, <1>8
  <2> QED
    BY <1>3, <1>4, <2>1
<1>9. ASSUME NEW x \in paths PROVE x \in all
  <2>1. PICK i \in 1..n : TermOrder[i] = x[1]
    BY <1>2 DEF Range
  <2>2. x \in Range(parts[i])
    BY <1>3, <1>4, <2>1
  <2> QED
    BY <1>4, <1>7, <2>2
<1> QED
  BY <1>5, <1>6, <1>7, <1>8, <1>9

\* What a file says is content.
LEMMA ReconstructIs ==
  ASSUME NEW reg, NEW file, FileOK(file)
  PROVE  IsContent(Reconstruct(reg, file))
<1>1. PICK long, attrs, text :
        /\ long = LongTextAttr(reg, file.type) /\ text = Trim(file.body)
        /\ attrs = IF long = None THEN file.attrs ELSE Put(file.attrs, long, text)
  OBVIOUS
<1>2. PICK c : c = Reconstruct(reg, file) /\ c = [type |-> file.type, attrs |-> attrs]
  BY <1>1 DEF Reconstruct
<1>3. IsAttrs(file.attrs) /\ IsText(text)
  BY <1>1, TrimmedIsClean DEF FileOK
<1>4. IsAttrs(attrs)
  <2>1. CASE long = None
    BY <1>1, <1>3, <2>1
  <2>2. CASE long # None
    BY <1>1, <1>3, <2>2 DEF IsAttrs, Put
  <2> QED
    BY <2>1, <2>2
<1>5. file.type \notin MetaTypes
  BY DEF FileOK, IsContent
<1> QED
  BY <1>2, <1>4, <1>5 DEF IsContent

\* The operations of an import: one for each edited file, against the revision
\* that the file was exported from.
LEMMA ImportOpsAre ==
  ASSUME IInv, NEW ops, ops = ImportOps(Registry, objects, dir)
  PROVE  /\ Len(ops) \in Nat
         /\ \A i \in 1..Len(ops) : \E path \in Edits(Registry, dir) :
              ops[i] = UpdateOf(Registry, objects, dir[path])
         /\ \A path \in Edits(Registry, dir) : \E i \in 1..Len(ops) :
              ops[i] = UpdateOf(Registry, objects, dir[path])
<1>1. PICK reg, edits, q : /\ reg = Registry /\ edits = Edits(reg, dir) /\ q = Sorted(edits)
  OBVIOUS
<1>2. \A path \in edits : path \in DOMAIN dir
  BY <1>1 DEF Edits
<1>3. \A path \in edits : /\ path = <<path[1], path[2]>>
                          /\ path[1] \in Range(TermOrder) /\ path[2] \in Range(Order)
  BY <1>2, BundleAssumption DEF IInv, FilesOK, TypeOK
<1>4. IsSequence(q) /\ Range(q) = edits
  BY <1>1, <1>3, SortedIs
<1>5. PICK n \in Nat : n = Len(q) /\ DOMAIN q = 1..n
  BY <1>4 DEF IsSequence
<1>6. ops = [i \in 1..n |-> ops[i]] /\ \A i \in 1..n : ops[i] = UpdateOf(reg, objects, dir[q[i]])
  BY <1>1, <1>5 DEF ImportOps
<1>7. Len(ops) = n
  BY <1>6
<1>8. \A i \in 1..n : q[i] \in edits
  BY <1>4, <1>5 DEF Range
<1>9. \A path \in edits : \E i \in 1..n : q[i] = path
  BY <1>4, <1>5 DEF Range
<1> QED
  BY <1>1, <1>6, <1>7, <1>8, <1>9

LEMMA ImportIInv ==
  ASSUME IInv, Import
  PROVE  IInv'
<1>1. PICK ops : ops = ImportOps(Registry, objects, dir) /\ Commit(ops)
  BY DEF Import
<1>2. ASSUME NEW i \in 1..Len(ops)
      PROVE  /\ ops[i].verb = "update" /\ IsContent(ops[i].body) /\ IsContent(ops[i].prior)
  <2>1. PICK path \in Edits(Registry, dir) : ops[i] = UpdateOf(Registry, objects, dir[path])
    BY <1>1, ImportOpsAre
  <2>2. PICK file : file = dir[path] /\ FileOK(file)
    BY DEF IInv, FilesOK, Edits
  <2>3. PICK body : body = Reconstruct(Registry, file) /\ IsContent(body)
    BY <2>2, ReconstructIs
  <2>4. ops[i] = [verb |-> "update", id |-> file.id, body |-> body, prior |-> file.rev]
    BY <2>1, <2>2, <2>3 DEF UpdateOf
  <2>5. IsContent(file.rev)
    BY <2>2 DEF FileOK
  <2> QED
    BY <2>3, <2>4, <2>5
<1>3. Len(ops) \in Nat
  BY <1>1, ImportOpsAre
<1>4. OnContent(ops)
  BY <1>2 DEF OnContent
<1>5. Created(ops) = {}
  BY <1>2 DEF Created
<1> QED
  BY <1>1, <1>3, <1>4, <1>5, CommitKeeps

LEMMA NextIInv ==
  ASSUME IInv, [Next]_vars
  PROVE  IInv'
<1>1. CASE UNCHANGED vars
  BY <1>1 DEF vars, IInv, TypeOK, NodesOK, Standing, Defined, FilesOK
<1>2. CASE Next
  BY <1>2, InstallIInv, WorkIInv, ExportIInv, EditIInv, ImportIInv DEF Next
<1> QED
  BY <1>1, <1>2

-----------------------------------------------------------------------------
\* Changesets of updates.

\* One of the operations updates id: from rev, or to content.
From(ops, id, rev) == \E i \in 1..Len(ops) : ops[i].id = id /\ ops[i].prior = rev
To(ops, id, content) == \E i \in 1..Len(ops) : ops[i].id = id /\ ops[i].body = content

\* Every object is what it was, or one operation updated it from there and one
\* to what it is.
Updated(s, r, ops) ==
  /\ DOMAIN r = DOMAIN s
  /\ \A id \in DOMAIN s :
       \/ r[id] = s[id]
       \/ From(ops, id, s[id].rev) /\ To(ops, id, r[id].content) /\ r[id].rev = r[id].content

\* What an operation updates is what was there, or what another one says.
Founded(s, ops, i) ==
  \/ ops[i].id \in DOMAIN s /\ ops[i].prior = s[ops[i].id].rev
  \/ To(ops, ops[i].id, ops[i].prior)

LEMMA OneUpdate ==
  ASSUME NEW reg, NEW s, NEW t, NEW u, NEW ops, NEW i \in 1..Len(ops),
         Updated(s, t, ops), ops[i].verb = "update",
         OpAllowed(reg, t, ops[i]), u = OpEffect(t, ops[i])
  PROVE  Updated(s, u, ops) /\ Founded(s, ops, i)
<1>1. PICK op, id, body : op = ops[i] /\ op.verb = "update" /\ id = op.id /\ body = op.body
  OBVIOUS
<1>2. id \in DOMAIN t /\ t[id].rev = op.prior
  BY <1>1 DEF OpAllowed, PriorMatches, Live
<1>3. /\ DOMAIN u = DOMAIN t /\ \A x \in DOMAIN t : x # id => u[x] = t[x]
      /\ u[id].rev = body /\ u[id].content = body
  <2>0. PICK o : o = Obj(body, body, FALSE, FALSE)
    OBVIOUS
  <2>1. o = Obj(body, body, FALSE, FALSE) /\ o.rev = body /\ o.content = body
    BY <2>0 DEF Obj
  <2>2. u = Put(t, id, o)
    BY <1>1, <2>1 DEF OpEffect
  <2>3. u = [x \in DOMAIN t \cup {id} |-> IF x = id THEN o ELSE t[x]]
    BY <2>2 DEF Put
  <2>4. DOMAIN u = DOMAIN t /\ u[id] = o /\ \A x \in DOMAIN t : x # id => u[x] = t[x]
    BY <1>2, <2>3
  <2> QED
    BY <2>1, <2>4
<1>4. id \in DOMAIN s /\ DOMAIN t = DOMAIN s
  BY <1>2 DEF Updated
<1>5. \/ t[id].rev = s[id].rev
      \/ From(ops, id, s[id].rev) /\ To(ops, id, t[id].rev)
  <2>1. \/ t[id] = s[id]
        \/ From(ops, id, s[id].rev) /\ To(ops, id, t[id].content) /\ t[id].rev = t[id].content
    BY <1>4 DEF Updated
  <2> QED
    BY <2>1
<1>6. From(ops, id, op.prior) /\ To(ops, id, body)
  BY <1>1 DEF From, To
<1>7. From(ops, id, s[id].rev)
  BY <1>2, <1>5, <1>6
<1>8. Founded(s, ops, i)
  BY <1>1, <1>2, <1>4, <1>5 DEF Founded
<1>9. ASSUME NEW x \in DOMAIN s
      PROVE  \/ u[x] = s[x]
             \/ From(ops, x, s[x].rev) /\ To(ops, x, u[x].content) /\ u[x].rev = u[x].content
  <2>1. CASE x = id
    BY <1>3, <1>6, <1>7, <2>1
  <2>2. CASE x # id
    <3>1. u[x] = t[x]
      BY <1>3, <1>4, <2>2
    <3>2. \/ t[x] = s[x]
          \/ From(ops, x, s[x].rev) /\ To(ops, x, t[x].content) /\ t[x].rev = t[x].content
      BY DEF Updated
    <3> QED
      BY <3>1, <3>2
  <2> QED
    BY <2>1, <2>2
<1> QED
  BY <1>3, <1>4, <1>8, <1>9 DEF Updated

LEMMA UpdatesApplied ==
  ASSUME NEW reg, NEW s, NEW ops, Len(ops) \in Nat,
         \A i \in 1..Len(ops) : ops[i].verb = "update",
         ApplyChangeset(reg, s, ops).ok
  PROVE  /\ Updated(s, ApplyChangeset(reg, s, ops).objects, ops)
         /\ \A i \in 1..Len(ops) : Founded(s, ops, i)
<1>1. /\ ApplyOps(reg, s, ops).ok
      /\ ApplyChangeset(reg, s, ops) = ApplyOps(reg, s, ops)
  BY DEF ApplyChangeset
<1>2. PICK states : /\ Accepts(reg, s, ops, states)
                    /\ ApplyOps(reg, s, ops) = [ok |-> TRUE, objects |-> states[Len(ops)]]
  BY <1>1, AcceptedStates
<1> DEFINE good == {i \in 0..Len(ops) : Updated(s, states[i], ops)}
<1>3. 0 \in good
  BY <1>2 DEF Accepts, Updated
<1>4. ASSUME NEW i \in 1..Len(ops), Updated(s, states[i-1], ops)
      PROVE  Updated(s, states[i], ops) /\ Founded(s, ops, i)
  <2>1. PICK t, u : t = states[i-1] /\ u = states[i]
    OBVIOUS
  <2>2. OpAllowed(reg, t, ops[i]) /\ u = OpEffect(t, ops[i])
    BY <1>2, <2>1 DEF Accepts
  <2>3. Updated(s, t, ops)
    BY <1>4, <2>1
  <2>4. Updated(s, u, ops) /\ Founded(s, ops, i)
    BY <2>2, <2>3, OneUpdate
  <2> QED
    BY <2>1, <2>4
<1>5. \A i \in 1..Len(ops) : i - 1 \in good => i \in good
  BY <1>4
<1>6. 0..Len(ops) \subseteq good
  <2> HIDE DEF good
  <2> QED
    BY <1>3, <1>5, Induction
<1>7. \A i \in 0..Len(ops) : Updated(s, states[i], ops)
  BY <1>6
<1>8. ASSUME NEW i \in 1..Len(ops) PROVE Founded(s, ops, i)
  <2>1. i - 1 \in 0..Len(ops)
    OBVIOUS
  <2>2. Updated(s, states[i-1], ops)
    BY <1>7, <2>1
  <2> QED
    BY <1>4, <2>2
<1>9. Updated(s, states[Len(ops)], ops)
  BY <1>7
<1> QED
  BY <1>1, <1>2, <1>8, <1>9

-----------------------------------------------------------------------------
\* What a file that nobody edited says.

LEMMA CleanFile ==
  ASSUME NEW reg, NEW file, FileOK(file), ~file.edited
  PROVE  IsEdited(reg, file) <=> ~SaysAll(file, LongTextAttr(reg, file.type))
<1>1. PICK said, was, now, rest, text :
        /\ said = file.rev.attrs /\ was = file.long /\ now = LongTextAttr(reg, file.type)
        /\ rest = [a \in DOMAIN said \ {was} |-> said[a]] /\ text = Trim(file.body)
  OBVIOUS
<1>2. /\ file.attrs = rest
      /\ file.body = IF was \in DOMAIN said THEN TrimEnd(said[was], {Newline}) ELSE <<>>
  BY <1>1 DEF FileOK
<1>3. /\ said = [a \in DOMAIN said |-> said[a]] /\ None \notin DOMAIN said
      /\ \A a \in DOMAIN said : IsText(said[a])
  BY <1>1 DEF FileOK, IsContent, IsAttrs
<1>4. PICK attrs : attrs = IF now = None THEN rest ELSE Put(rest, now, text)
  OBVIOUS
<1>5. IsEdited(reg, file) <=> attrs # said
  <2>1. Reconstruct(reg, file) = [type |-> file.type, attrs |-> attrs]
    BY <1>1, <1>2, <1>4 DEF Reconstruct
  <2>2. file.rev = [type |-> file.type, attrs |-> said]
    BY <1>1 DEF FileOK, IsContent
  <2>3. ([type |-> file.type, attrs |-> attrs] = [type |-> file.type, attrs |-> said])
          <=> attrs = said
    OBVIOUS
  <2> QED
    BY <2>1, <2>2, <2>3 DEF IsEdited
<1>6. SaysAll(file, now) <=>
        /\ was \in DOMAIN said => was = now
        /\ now # None => /\ now \in DOMAIN said
                         /\ IF now = was THEN ~BlankEnded(said[now]) ELSE said[now] = <<>>
  BY <1>1 DEF SaysAll
<1>7. CASE now = None
  <2>1. attrs = rest
    BY <1>4, <1>7
  <2>2. (rest = said) <=> was \notin DOMAIN said
    BY <1>1, <1>3
  <2> QED
    BY <1>1, <1>3, <1>5, <1>6, <1>7, <2>1, <2>2
<1>8. CASE now # None /\ now = was
  <2>1. attrs = [a \in (DOMAIN said \ {was}) \cup {now} |-> IF a = now THEN text ELSE rest[a]]
    BY <1>1, <1>4, <1>8 DEF Put
  <2>2. (attrs = said) <=> now \in DOMAIN said /\ text = said[now]
    BY <1>1, <1>3, <1>8, <2>1
  <2>3. now \in DOMAIN said => (text = said[now] <=> ~BlankEnded(said[now]))
    BY <1>1, <1>2, <1>3, <1>8, TextComesBack
  <2> QED
    BY <1>1, <1>5, <1>6, <1>8, <2>2, <2>3
<1>9. CASE now # None /\ now # was
  <2>1. attrs = [a \in (DOMAIN said \ {was}) \cup {now} |-> IF a = now THEN text ELSE rest[a]]
    BY <1>1, <1>4, <1>9 DEF Put
  <2>2. (attrs = said) <=> was \notin DOMAIN said /\ now \in DOMAIN said /\ text = said[now]
    BY <1>1, <1>3, <1>9, <2>1
  <2>3. was \notin DOMAIN said => text = <<>>
    <3>1. IsText(<<>>) /\ ~BlankEnded(<<>>)
      BY DEF IsText, BlankEnded, Range
    <3>2. Trim(<<>>) = <<>>
      BY <3>1, CleanIsTrimmed
    <3> QED
      BY <1>1, <1>2, <3>2
  <2> QED
    BY <1>1, <1>5, <1>6, <1>9, <2>2, <2>3
<1> QED
  BY <1>7, <1>8, <1>9

-----------------------------------------------------------------------------
\* What pairs say of names.

IsLast(pairs, name, k) ==
  /\ k \in DOMAIN pairs /\ pairs[k][1] = name
  /\ \A j \in DOMAIN pairs : pairs[j][1] = name => j <= k

LEMMA LastOfIs ==
  ASSUME NEW pairs, IsSequence(pairs)
  PROVE  /\ DOMAIN LastOf(pairs) = {pairs[i][1] : i \in DOMAIN pairs}
         /\ \A name \in DOMAIN LastOf(pairs) :
              \E k \in DOMAIN pairs :
                IsLast(pairs, name, k) /\ LastOf(pairs)[name] = pairs[k][2]
<1>1. PICK n \in Nat : n = Len(pairs) /\ DOMAIN pairs = 1..n
  BY DEF IsSequence
<1> DEFINE last(name) == CHOOSE i \in DOMAIN pairs :
                           /\ pairs[i][1] = name
                           /\ \A j \in DOMAIN pairs : pairs[j][1] = name => j <= i
           names == {pairs[i][1] : i \in DOMAIN pairs}
<1>2. LastOf(pairs) = [name \in names |-> pairs[last(name)][2]]
  BY DEF LastOf
<1>3. ASSUME NEW name \in names
      PROVE  last(name) \in DOMAIN pairs /\ IsLast(pairs, name, last(name))
  <2> DEFINE left == {n - i : i \in {j \in DOMAIN pairs : pairs[j][1] = name}}
  <2>1. left \in SUBSET Nat /\ left # {}
    BY <1>1
  <2>2. PICK l \in left : \A k \in left : l <= k
    <3> HIDE DEF left
    <3> QED
      BY <2>1, LeastNumber
  <2>3. PICK m \in DOMAIN pairs : l = n - m /\ pairs[m][1] = name
    BY <2>2
  <2>4. ASSUME NEW j \in DOMAIN pairs, pairs[j][1] = name PROVE j <= m
    <3>1. l <= n - j
      BY <2>2, <2>4
    <3> QED
      BY <1>1, <2>3, <3>1
  <2>5. \E i \in DOMAIN pairs : /\ pairs[i][1] = name
                                /\ \A j \in DOMAIN pairs : pairs[j][1] = name => j <= i
    BY <2>3, <2>4
  <2>6. PICK k : k = last(name)
    OBVIOUS
  <2>7. /\ k \in DOMAIN pairs /\ pairs[k][1] = name
        /\ \A j \in DOMAIN pairs : pairs[j][1] = name => j <= k
    BY <2>5, <2>6
  <2> HIDE DEF last
  <2> QED
    BY <2>6, <2>7 DEF IsLast
<1> HIDE DEF last
<1>4. DOMAIN LastOf(pairs) = names
  BY <1>2
<1>5. \A name \in names : LastOf(pairs)[name] = pairs[last(name)][2]
  BY <1>2
<1> QED
  BY <1>3, <1>4, <1>5

LEMMA LastOfFunction ==
  ASSUME NEW pairs
  PROVE  LastOf(pairs) = [name \in DOMAIN LastOf(pairs) |-> LastOf(pairs)[name]]
  BY DEF LastOf

-----------------------------------------------------------------------------
\* Elements in force.

\* A node with schema that is neither deleted nor redacted is found by its type
\* and its package.
LEMMA SchemaFound ==
  ASSUME IInv, NEW id \in DOMAIN objects \cap NodeId, NEW e, objects[id].rev = e,
         ~objects[id].deleted, ~objects[id].redacted
  PROVE  /\ id \in LiveOfType(objects, TypeOf(e)) /\ objects[id].content = e
         /\ id \in Range(InPackage(objects, TypeOf(e), e.package))
<1>1. PICK c, type : c = objects[id].content /\ type = TypeOf(e)
  OBVIOUS
<1>2. c = e
  BY <1>1 DEF IInv, Honest
<1>3. id \in LiveNodes(objects)
  BY DEF LiveNodes
<1>4. id \in LiveOfType(objects, type)
  BY <1>1, <1>2, <1>3 DEF LiveOfType
<1>5. PICK found : found = {n \in LiveOfType(objects, type) : objects[n].content.package = e.package}
  OBVIOUS
<1>6. id \in found
  BY <1>1, <1>2, <1>4, <1>5
<1>7. IsSequence(Order) /\ id \in Range(Order)
  BY BundleAssumption DEF IsSequence
<1>8. id \in Range(Selected(Order, found))
  BY <1>6, <1>7, SelectedRange
<1> QED
  BY <1>1, <1>2, <1>4, <1>5, <1>8 DEF InPackage

\* What is found is defined by a document.
LEMMA FoundIsDefined ==
  ASSUME IInv, NEW type \in ElementTypes, NEW package,
         NEW id \in Range(InPackage(objects, type, package))
  PROVE  /\ id \in LiveOfType(objects, type) /\ id \in DOMAIN objects
         /\ objects[id].content.package = package
         /\ objects[id].content \in Defined /\ TypeOf(objects[id].content) = type
<1>1. PICK found : found = {n \in LiveOfType(objects, type) : objects[n].content.package = package}
  OBVIOUS
<1>2. IsSequence(Order)
  BY BundleAssumption DEF IsSequence
<1>3. id \in found
  BY <1>1, <1>2, SelectedRange DEF InPackage
<1>4. id \in LiveOfType(objects, type) /\ objects[id].content.package = package
  BY <1>1, <1>3
<1>5. id \in DOMAIN objects \cap NodeId /\ TypeOf(objects[id].content) = type
  BY <1>4 DEF LiveOfType, LiveNodes
<1>6. TypeOf(RedactedContent) \notin ElementTypes
  BY DEF TypeOf, RedactedContent, ElementTypes, NamedTypes
<1>7. objects[id].content = objects[id].rev
  BY <1>5, <1>6 DEF IInv, Honest
<1>8. objects[id].content \in Defined
  BY <1>5, <1>7 DEF IInv, NodesOK
<1> QED
  BY <1>4, <1>5, <1>8

LEMMA InPackageIs ==
  ASSUME NEW s, NEW type, NEW package
  PROVE  IsSequence(InPackage(s, type, package))
  BY BundleAssumption, SelectedRange DEF InPackage, IsSequence

\* The names of a kind in a package: each is that of a node, which says what it is.
LEMMA AssembledIs ==
  ASSUME NEW s, NEW type, NEW package
  PROVE  LET ids == InPackage(s, type, package)
             all == Assembled(s, type, package)
         IN  /\ \A id \in Range(ids) : s[id].content.element \in DOMAIN all
             /\ \A name \in DOMAIN all :
                  \E id \in Range(ids) : /\ s[id].content.element = name
                                         /\ s[id].content.definition = all[name]
<1>1. PICK ids, all : ids = InPackage(s, type, package) /\ all = Assembled(s, type, package)
  OBVIOUS
<1>2. IsSequence(ids)
  BY <1>1, InPackageIs
<1>3. PICK n \in Nat : n = Len(ids) /\ DOMAIN ids = 1..n
  BY <1>2 DEF IsSequence
<1>4. PICK pairs : pairs = [i \in DOMAIN ids |-> <<s[ids[i]].content.element,
                                                   s[ids[i]].content.definition>>]
  OBVIOUS
<1>5. all = LastOf(pairs)
  BY <1>1, <1>4 DEF Assembled
<1>6. /\ DOMAIN pairs = 1..n /\ pairs = [i \in 1..n |-> pairs[i]]
      /\ \A i \in 1..n : /\ pairs[i] \in Range(pairs)
                         /\ pairs[i][1] = s[ids[i]].content.element
                         /\ pairs[i][2] = s[ids[i]].content.definition
                         /\ ids[i] \in Range(ids)
  BY <1>3, <1>4 DEF Range
<1>7. pairs \in Seq(Range(pairs))
  BY <1>6
<1>8. IsSequence(pairs)
  BY <1>7 DEF IsSequence
<1>9. /\ DOMAIN all = {pairs[i][1] : i \in DOMAIN pairs}
      /\ \A name \in DOMAIN all :
           \E k \in DOMAIN pairs : IsLast(pairs, name, k) /\ all[name] = pairs[k][2]
  BY <1>5, <1>8, LastOfIs
<1>10. ASSUME NEW id \in Range(ids) PROVE s[id].content.element \in DOMAIN all
  <2>1. PICK i \in 1..n : id = ids[i]
    BY <1>3 DEF Range
  <2> QED
    BY <1>6, <1>9, <2>1
<1>11. ASSUME NEW name \in DOMAIN all
       PROVE  \E id \in Range(ids) : /\ s[id].content.element = name
                                     /\ s[id].content.definition = all[name]
  <2>1. PICK k \in 1..n : IsLast(pairs, name, k) /\ all[name] = pairs[k][2]
    BY <1>6, <1>9
  <2>2. pairs[k][1] = name
    BY <2>1 DEF IsLast
  <2>3. /\ ids[k] \in Range(ids) /\ s[ids[k]].content.element = name
        /\ s[ids[k]].content.definition = all[name]
    BY <1>6, <2>1, <2>2
  <2> QED
    BY <2>3
<1> QED
  BY <1>1, <1>10, <1>11

\* What an element is of.
LEMMA NamedElementIs ==
  ASSUME NEW doc, NEW e \in ElementsOf(doc), NEW kind \in NamedTypes, e.type = kind
  PROVE  e.element \in DOMAIN doc.defs[kind] /\ e.definition = doc.defs[kind][e.element]
<1>1. e \notin RuleElements(doc)
  <2> SUFFICES ASSUME e \in RuleElements(doc) PROVE FALSE
    OBVIOUS
  <2>1. PICK i \in DOMAIN doc.rules :
          e = Element(doc, "meta/ValidationRule", doc.rules[i].name, doc.rules[i])
    BY DEF RuleElements
  <2>2. e.type = "meta/ValidationRule"
    BY <2>1, ElementIs
  <2> QED
    BY <2>2 DEF NamedTypes
<1>2. PICK k \in NamedTypes : e \in NamedElements(doc, k)
  BY <1>1 DEF ElementsOf
<1>3. PICK name \in DOMAIN doc.defs[k] : e = Element(doc, k, name, doc.defs[k][name])
  BY <1>2 DEF NamedElements
<1>4. e.type = k /\ e.element = name /\ e.definition = doc.defs[k][name]
  BY <1>3, ElementIs
<1> QED
  BY <1>3, <1>4

-----------------------------------------------------------------------------
\* Terms: those of one name may be moved together, as long as the last of them
\* stays the last of them.

\* x is the last of the terms of a name.
LastNamed(q, name, x) ==
  \E k \in DOMAIN q : /\ q[k] = x /\ x.name = name
                      /\ \A j \in DOMAIN q : q[j].name = name => j <= k

LEMMA OneEnd ==
  ASSUME NEW q, IsSequence(q), NEW name, NEW x, NEW y, LastNamed(q, name, x), LastNamed(q, name, y)
  PROVE  x = y
<1>1. PICK n \in Nat : n = Len(q) /\ DOMAIN q = 1..n
  BY DEF IsSequence
<1>2. PICK k \in 1..n : /\ q[k] = x /\ x.name = name
                        /\ \A j \in 1..n : q[j].name = name => j <= k
  BY <1>1 DEF LastNamed
<1>3. PICK l \in 1..n : /\ q[l] = y /\ y.name = name
                        /\ \A j \in 1..n : q[j].name = name => j <= l
  BY <1>1 DEF LastNamed
<1>4. k <= l /\ l <= k
  BY <1>2, <1>3
<1>5. k = l
  BY <1>4
<1> QED
  BY <1>2, <1>3, <1>5

LEMMA TermMapIs ==
  ASSUME NEW q, IsSequence(q)
  PROVE  /\ TermMap(q) = [name \in DOMAIN TermMap(q) |-> TermMap(q)[name]]
         /\ \A name : name \in DOMAIN TermMap(q) <=> \E x \in Range(q) : x.name = name
         /\ \A name \in DOMAIN TermMap(q) :
              \E x : LastNamed(q, name, x) /\ TermMap(q)[name] = x.parents
<1>1. PICK n \in Nat : n = Len(q) /\ DOMAIN q = 1..n
  BY DEF IsSequence
<1>2. PICK pairs : pairs = [i \in DOMAIN q |-> <<q[i].name, q[i].parents>>]
  OBVIOUS
<1>3. PICK m : m = TermMap(q) /\ m = LastOf(pairs)
  BY <1>2 DEF TermMap
<1>4. /\ DOMAIN pairs = 1..n /\ pairs = [i \in 1..n |-> pairs[i]]
      /\ \A i \in 1..n : /\ pairs[i] \in Range(pairs) /\ q[i] \in Range(q)
                         /\ pairs[i][1] = q[i].name /\ pairs[i][2] = q[i].parents
  BY <1>1, <1>2 DEF Range
<1>5. pairs \in Seq(Range(pairs))
  BY <1>4
<1>6. IsSequence(pairs)
  BY <1>5 DEF IsSequence
<1>7. /\ m = [name \in DOMAIN m |-> m[name]]
      /\ DOMAIN m = {pairs[i][1] : i \in DOMAIN pairs}
      /\ \A name \in DOMAIN m :
           \E k \in DOMAIN pairs : IsLast(pairs, name, k) /\ m[name] = pairs[k][2]
  <2>4. m = LastOf(pairs)
    BY <1>3
  <2>1. /\ DOMAIN m = {pairs[i][1] : i \in DOMAIN pairs}
        /\ \A name \in DOMAIN m :
             \E k \in DOMAIN pairs : IsLast(pairs, name, k) /\ m[name] = pairs[k][2]
    BY <1>6, <2>4, LastOfIs
  <2>2. LastOf(pairs) = [name \in DOMAIN LastOf(pairs) |-> LastOf(pairs)[name]]
    BY LastOfFunction
  <2>3. m = [name \in DOMAIN m |-> m[name]]
    BY <1>3, <2>2
  <2> QED
    BY <2>1, <2>3
<1>8. ASSUME NEW name PROVE name \in DOMAIN m <=> \E x \in Range(q) : x.name = name
  <2>1. ASSUME name \in DOMAIN m PROVE \E x \in Range(q) : x.name = name
    <3>1. PICK i \in 1..n : name = pairs[i][1]
      BY <1>4, <1>7, <2>1
    <3> QED
      BY <1>4, <3>1
  <2>2. ASSUME NEW x \in Range(q), x.name = name PROVE name \in DOMAIN m
    <3>1. PICK i \in 1..n : x = q[i]
      BY <1>1 DEF Range
    <3> QED
      BY <1>4, <1>7, <2>2, <3>1
  <2> QED
    BY <2>1, <2>2
<1>9. ASSUME NEW name \in DOMAIN m PROVE \E x : LastNamed(q, name, x) /\ m[name] = x.parents
  <2>1. PICK k \in 1..n : IsLast(pairs, name, k) /\ m[name] = pairs[k][2]
    BY <1>4, <1>7
  <2>2. pairs[k][1] = name /\ \A j \in 1..n : pairs[j][1] = name => j <= k
    BY <1>4, <2>1 DEF IsLast
  <2>3. PICK x : x = q[k]
    OBVIOUS
  <2>4. LastNamed(q, name, x)
    BY <1>1, <1>4, <2>2, <2>3 DEF LastNamed
  <2> QED
    BY <1>4, <2>1, <2>3, <2>4
<1> QED
  BY <1>3, <1>7, <1>8, <1>9

LEMMA NamedEnds ==
  ASSUME NEW terms, IsSequence(terms), NEW name
  PROVE  /\ IsSequence(Named(terms, name))
         /\ \A x : x \in Range(Named(terms, name)) <=> x \in Range(terms) /\ x.name = name
         /\ \A x : LastNamed(terms, name, x) => LastNamed(Named(terms, name), name, x)
<1>1. PICK set : set = {t \in Range(terms) : t.name = name}
  OBVIOUS
<1>2. PICK q : q = Named(terms, name) /\ q = Selected(terms, set)
  BY <1>1 DEF Named
<1>3. IsSequence(q) /\ Range(q) = Range(terms) \cap set
  BY <1>2, SelectedRange
<1>4. PICK at : Chooses(terms, set, Len(terms), q, at)
  BY <1>2, SelectedIs
<1>5. PICK n, m \in Nat : /\ n = Len(terms) /\ DOMAIN terms = 1..n
                          /\ m = Len(q) /\ DOMAIN q = 1..m
  BY <1>3 DEF IsSequence
<1>6. /\ at \in [1..m -> 1..n]
      /\ \A k \in 1..m : q[k] = terms[at[k]] /\ q[k] \in set
      /\ \A k, l \in 1..m : k < l => at[k] < at[l]
      /\ \A i \in 1..n : terms[i] \in set => \E k \in 1..m : at[k] = i
  BY <1>4, <1>5 DEF Chooses
<1>7. ASSUME NEW x, LastNamed(terms, name, x) PROVE LastNamed(q, name, x)
  <2>1. PICK i \in 1..n : /\ terms[i] = x /\ x.name = name
                          /\ \A j \in 1..n : terms[j].name = name => j <= i
    BY <1>5, <1>7 DEF LastNamed
  <2>2. terms[i] \in set
    BY <1>1, <1>5, <2>1 DEF Range
  <2>3. PICK k \in 1..m : at[k] = i
    BY <1>6, <2>2
  <2>4. ASSUME NEW j \in 1..m, ~(j <= k) PROVE FALSE
    <3>1. at[k] < at[j] /\ at[j] \in 1..n
      BY <1>6, <2>4
    <3>2. terms[at[j]].name = name
      BY <1>1, <1>6
    <3>3. at[j] <= i
      BY <2>1, <3>1, <3>2
    <3> QED
      BY <2>3, <3>1, <3>3
  <2>5. q[k] = x
    BY <1>6, <2>1, <2>3
  <2> QED
    BY <1>5, <2>1, <2>4, <2>5 DEF LastNamed
<1> QED
  BY <1>1, <1>2, <1>3, <1>7

\* One list of terms after another.
LEMMA EndsBoth ==
  ASSUME NEW a, NEW b, IsSequence(a), IsSequence(b), NEW name, NEW x,
         \/ LastNamed(b, name, x)
         \/ LastNamed(a, name, x) /\ \A y \in Range(b) : y.name # name
  PROVE  LastNamed(a \o b, name, x)
<1>1. PICK S : S = Range(a) \cup Range(b)
  OBVIOUS
<1>2. a \in Seq(S) /\ b \in Seq(S)
  BY <1>1 DEF IsSequence
<1>3. PICK m, n \in Nat : m = Len(a) /\ n = Len(b) /\ DOMAIN a = 1..m /\ DOMAIN b = 1..n
  BY <1>2
<1>4. PICK q : q = a \o b
  OBVIOUS
<1>5. /\ DOMAIN q = 1..(m + n)
      /\ \A i \in 1..(m + n) : q[i] = IF i <= m THEN a[i] ELSE b[i - m]
  BY <1>2, <1>3, <1>4
<1>6. /\ \A i \in 1..m : i \in DOMAIN q /\ q[i] = a[i]
      /\ \A i \in 1..n : m + i \in DOMAIN q /\ q[m + i] = b[i]
  BY <1>3, <1>5
<1>7. CASE LastNamed(b, name, x)
  <2>1. PICK k \in 1..n : /\ b[k] = x /\ x.name = name
                          /\ \A j \in 1..n : b[j].name = name => j <= k
    BY <1>3, <1>7 DEF LastNamed
  <2>2. ASSUME NEW j \in DOMAIN q, q[j].name = name PROVE j <= m + k
    <3>1. CASE j <= m
      BY <1>3, <1>5, <3>1
    <3>2. CASE ~(j <= m)
      <4>1. j - m \in 1..n /\ b[j - m].name = name
        BY <1>3, <1>5, <2>2, <3>2
      <4>2. j - m <= k
        BY <2>1, <4>1
      <4> QED
        BY <1>3, <1>5, <4>2
    <3> QED
      BY <3>1, <3>2
  <2>3. m + k \in DOMAIN q /\ q[m + k] = x
    BY <1>6, <2>1
  <2>4. LastNamed(q, name, x)
    BY <2>1, <2>2, <2>3 DEF LastNamed
  <2> QED
    BY <1>4, <2>4
<1>8. CASE LastNamed(a, name, x) /\ \A y \in Range(b) : y.name # name
  <2>1. PICK k \in 1..m : /\ a[k] = x /\ x.name = name
                          /\ \A j \in 1..m : a[j].name = name => j <= k
    BY <1>3, <1>8 DEF LastNamed
  <2>2. \A i \in 1..n : b[i].name # name
    BY <1>3, <1>8 DEF Range
  <2>3. ASSUME NEW j \in DOMAIN q, q[j].name = name PROVE j <= k
    <3>1. CASE j <= m
      BY <1>3, <1>5, <2>1, <2>3, <3>1
    <3>2. CASE ~(j <= m)
      <4>1. j - m \in 1..n /\ b[j - m].name = name
        BY <1>3, <1>5, <2>3, <3>2
      <4> QED
        BY <2>2, <4>1
    <3> QED
      BY <3>1, <3>2
  <2>4. k \in DOMAIN q /\ q[k] = x
    BY <1>6, <2>1
  <2>5. LastNamed(q, name, x)
    BY <2>1, <2>3, <2>4 DEF LastNamed
  <2> QED
    BY <1>4, <2>5
<1> QED
  BY <1>7, <1>8

\* Many lists of terms, of which one holds all of a name.
LEMMA EndsAll ==
  ASSUME NEW seqs, IsSequence(seqs), \A i \in 1..Len(seqs) : IsSequence(seqs[i]),
         NEW name, NEW x, NEW k \in 1..Len(seqs), LastNamed(seqs[k], name, x),
         \A i \in 1..Len(seqs) : i # k => \A y \in Range(seqs[i]) : y.name # name
  PROVE  LastNamed(FlattenSeq(seqs), name, x)
<1>1. Len(seqs) \in Nat /\ Len(seqs) # 0
  BY DEF IsSequence
<1> DEFINE result == CHOOSE f : Joins(seqs, Len(seqs), f)
<1>2. Joins(seqs, Len(seqs), result)
  BY <1>1, JoinExists
<1>3. FlattenSeq(seqs) = result[Len(seqs)]
  BY <1>1 DEF FlattenSeq, Joins
<1> HIDE DEF result
<1>4. \A i \in 1..Len(seqs) :
        result[i] = IF i = 1 THEN seqs[i] ELSE result[i-1] \o seqs[i]
  BY <1>2 DEF Joins
<1> DEFINE good == {i \in 0..Len(seqs) : /\ i # 0 => IsSequence(result[i])
                                         /\ i >= k => LastNamed(result[i], name, x)}
<1>5. 0 \in good
  BY <1>1
<1>6. ASSUME NEW i \in 1..Len(seqs), i - 1 \in good PROVE i \in good
  <2>1. CASE i = 1
    <3>1. result[i] = seqs[i]
      BY <1>4, <2>1
    <3>2. i >= k => i = k
      BY <2>1
    <3> QED
      BY <2>1, <3>1, <3>2
  <2>2. CASE i # 1
    <3>1. PICK a, b, r : a = result[i-1] /\ b = seqs[i] /\ r = result[i]
      OBVIOUS
    <3>2. r = a \o b
      BY <1>4, <2>2, <3>1
    <3>3. IsSequence(a) /\ IsSequence(b)
      BY <1>6, <2>2, <3>1
    <3>4. IsSequence(r)
      BY <3>2, <3>3, RangeBoth
    <3>5. CASE i = k
      <4>1. LastNamed(b, name, x)
        BY <3>1, <3>5
      <4>2. LastNamed(r, name, x)
        BY <3>2, <3>3, <4>1, EndsBoth
      <4> QED
        BY <3>1, <3>4, <4>2
    <3>6. CASE i > k
      <4>1. LastNamed(a, name, x)
        BY <1>6, <3>1, <3>6
      <4>2. \A y \in Range(b) : y.name # name
        BY <3>1, <3>6
      <4>3. LastNamed(r, name, x)
        BY <3>2, <3>3, <4>1, <4>2, EndsBoth
      <4> QED
        BY <3>1, <3>4, <4>3
    <3>7. CASE i < k
      BY <3>1, <3>4, <3>7
    <3> QED
      BY <3>5, <3>6, <3>7
  <2> QED
    BY <2>1, <2>2
<1>7. 0..Len(seqs) \subseteq good
  <2> HIDE DEF good
  <2> QED
    BY <1>1, <1>5, <1>6, Induction
<1>8. Len(seqs) \in good
  BY <1>1, <1>7
<1>9. LastNamed(result[Len(seqs)], name, x)
  BY <1>8
<1> QED
  BY <1>3, <1>9

\* Terms sorted by name say of each name what they said.
LEMMA ByNameKeeps ==
  ASSUME NEW terms, IsSequence(terms)
  PROVE  IsSequence(ByName(terms)) /\ TermMap(ByName(terms)) = TermMap(terms)
<1>1. PICK n \in Nat : n = Len(terms) /\ DOMAIN terms = 1..n
  BY DEF IsSequence
<1>2. PICK S : S = {terms[i].name : i \in DOMAIN terms}
  OBVIOUS
<1>3. IsFiniteSet(S)
  <2>1. IsFiniteSet(DOMAIN terms)
    BY FiniteSequence
  <2>2. PICK f : f = [i \in DOMAIN terms |-> terms[i].name]
    OBVIOUS
  <2>3. f = [i \in DOMAIN terms |-> f[i]] /\ S = {f[i] : i \in DOMAIN terms}
    BY <1>2, <2>2
  <2>4. IsFiniteSet({f[i] : i \in DOMAIN terms})
    BY <2>1, <2>3, FiniteImage
  <2> QED
    BY <2>3, <2>4
<1>4. PICK names : names = Names(terms) /\ names = SetToSeq(S)
  BY <1>2 DEF Names
<1>5. /\ IsSequence(names) /\ Len(names) \in Nat /\ DOMAIN names = 1..Len(names)
      /\ Range(names) = S /\ IsInjective(names)
  BY <1>3, <1>4, SetListed
<1>6. PICK m \in Nat : m = Len(names) /\ DOMAIN names = 1..m
  BY <1>5
<1>7. PICK parts : parts = [i \in DOMAIN names |-> Named(terms, names[i])]
  OBVIOUS
<1>8. /\ DOMAIN parts = 1..m /\ parts = [i \in 1..m |-> parts[i]]
      /\ \A i \in 1..m : parts[i] \in Range(parts) /\ parts[i] = Named(terms, names[i])
  BY <1>6, <1>7 DEF Range
<1>9. parts \in Seq(Range(parts)) /\ Len(parts) = m
  BY <1>8
<1>10. IsSequence(parts)
  BY <1>9 DEF IsSequence
<1>11. ASSUME NEW i \in 1..m
       PROVE  /\ IsSequence(parts[i])
              /\ \A x : x \in Range(parts[i]) <=> x \in Range(terms) /\ x.name = names[i]
              /\ \A x : LastNamed(terms, names[i], x) => LastNamed(parts[i], names[i], x)
  BY <1>8, NamedEnds
<1>12. PICK sorted : sorted = ByName(terms) /\ sorted = FlattenSeq(parts)
  BY <1>4, <1>7 DEF ByName
<1>13. /\ IsSequence(sorted)
       /\ Range(sorted) = UNION {Range(parts[i]) : i \in 1..Len(parts)}
  BY <1>9, <1>10, <1>11, <1>12, RangeAll
<1>14. ASSUME NEW name \in S PROVE \E i \in 1..m : names[i] = name
  BY <1>5, <1>6 DEF Range
<1>15. ASSUME NEW x PROVE x \in Range(sorted) <=> x \in Range(terms)
  <2>1. ASSUME x \in Range(sorted) PROVE x \in Range(terms)
    <3>1. PICK i \in 1..m : x \in Range(parts[i])
      BY <1>9, <1>13, <2>1
    <3> QED
      BY <1>11, <3>1
  <2>2. ASSUME x \in Range(terms) PROVE x \in Range(sorted)
    <3>1. x.name \in S
      BY <1>2, <2>2 DEF Range
    <3>2. PICK i \in 1..m : names[i] = x.name
      BY <1>14, <3>1
    <3>3. x \in Range(parts[i])
      BY <1>11, <2>2, <3>2
    <3> QED
      BY <1>9, <1>13, <3>3
  <2> QED
    BY <2>1, <2>2
<1>16. PICK was, now : was = TermMap(terms) /\ now = TermMap(sorted)
  OBVIOUS
<1>17. /\ was = [name \in DOMAIN was |-> was[name]]
       /\ \A name : name \in DOMAIN was <=> \E x \in Range(terms) : x.name = name
       /\ \A name \in DOMAIN was : \E x : LastNamed(terms, name, x) /\ was[name] = x.parents
  BY <1>16, TermMapIs
<1>18. /\ now = [name \in DOMAIN now |-> now[name]]
       /\ \A name : name \in DOMAIN now <=> \E x \in Range(sorted) : x.name = name
       /\ \A name \in DOMAIN now : \E x : LastNamed(sorted, name, x) /\ now[name] = x.parents
  BY <1>13, <1>16, TermMapIs
<1>19. DOMAIN was = DOMAIN now
  <2>1. \A name : name \in DOMAIN was <=> name \in DOMAIN now
    BY <1>15, <1>17, <1>18
  <2> QED
    BY <2>1
<1>20. ASSUME NEW name \in DOMAIN was PROVE now[name] = was[name]
  <2>1. PICK x : LastNamed(terms, name, x) /\ was[name] = x.parents
    BY <1>17
  <2>2. PICK y : LastNamed(sorted, name, y) /\ now[name] = y.parents
    BY <1>18, <1>19
  <2>3. PICK z \in Range(terms) : z.name = name
    BY <1>17
  <2>4. name \in S
    BY <1>2, <2>3 DEF Range
  <2>5. PICK k \in 1..m : names[k] = name
    BY <1>14, <2>4
  <2>6. LastNamed(parts[k], name, x)
    BY <1>11, <2>1, <2>5
  <2>7. ASSUME NEW i \in 1..m, i # k, NEW w \in Range(parts[i]) PROVE w.name # name
    <3>1. w.name = names[i]
      BY <1>11
    <3> QED
      BY <1>5, <1>6, <2>5, <2>7, <3>1 DEF IsInjective
  <2>8. LastNamed(FlattenSeq(parts), name, x)
    <3>1. \A i \in 1..Len(parts) : IsSequence(parts[i])
      BY <1>9, <1>11
    <3>2. \A i \in 1..Len(parts) : i # k => \A w \in Range(parts[i]) : w.name # name
      BY <1>9, <2>7
    <3>3. k \in 1..Len(parts)
      BY <1>9
    <3> QED
      BY <1>10, <2>6, <3>1, <3>2, <3>3, EndsAll
  <2>9. LastNamed(sorted, name, x)
    BY <1>12, <2>8
  <2>10. x = y
    BY <1>13, <2>2, <2>9, OneEnd
  <2> QED
    BY <2>1, <2>2, <2>10
<1>21. now = was
  BY <1>17, <1>18, <1>19, <1>20
<1> QED
  BY <1>12, <1>13, <1>16, <1>21

-----------------------------------------------------------------------------
\* Projecting and loading.

\* Pairs that follow a function say that function.
Follows(pairs, f) ==
  /\ f = [name \in DOMAIN f |-> f[name]]
  /\ \A i \in DOMAIN pairs : pairs[i][1] \in DOMAIN f /\ pairs[i][2] = f[pairs[i][1]]
  /\ \A name \in DOMAIN f : \E i \in DOMAIN pairs : pairs[i][1] = name

LEMMA LastOfFollows ==
  ASSUME NEW pairs, IsSequence(pairs), NEW f, Follows(pairs, f)
  PROVE  LastOf(pairs) = f
<1>1. PICK m : m = LastOf(pairs)
  OBVIOUS
<1>2. /\ DOMAIN m = {pairs[i][1] : i \in DOMAIN pairs}
      /\ \A name \in DOMAIN m :
           \E k \in DOMAIN pairs : IsLast(pairs, name, k) /\ m[name] = pairs[k][2]
  BY <1>1, LastOfIs
<1>3. LastOf(pairs) = [name \in DOMAIN LastOf(pairs) |-> LastOf(pairs)[name]]
  BY LastOfFunction
<1>4. m = [name \in DOMAIN m |-> m[name]]
  BY <1>1, <1>3
<1>5. DOMAIN m = DOMAIN f
  <2>1. \A name \in DOMAIN m : name \in DOMAIN f
    BY <1>2 DEF Follows
  <2>2. \A name \in DOMAIN f : name \in DOMAIN m
    BY <1>2 DEF Follows
  <2> QED
    BY <2>1, <2>2
<1>6. ASSUME NEW name \in DOMAIN m PROVE m[name] = f[name]
  <2>1. PICK k \in DOMAIN pairs : IsLast(pairs, name, k) /\ m[name] = pairs[k][2]
    BY <1>2
  <2>2. pairs[k][1] = name
    BY <2>1 DEF IsLast
  <2> QED
    BY <2>1, <2>2 DEF Follows
<1>7. m = f
  BY <1>4, <1>5, <1>6 DEF Follows
<1> QED
  BY <1>1, <1>7

\* Nodes are finitely many, and so is what they name.
LEMMA FiniteNames ==
  ASSUME NEW s
  PROVE  IsFiniteSet(Packages(s)) /\ IsFiniteSet(Taxonomies(s))
<1>1. PICK live : live = LiveNodes(s)
  OBVIOUS
<1>2. IsFiniteSet(live)
  <2>1. IsFiniteSet(Range(Order))
    BY BundleAssumption, FiniteSequence DEF IsSequence
  <2>2. live \subseteq Range(Order)
    BY <1>1, BundleAssumption DEF LiveNodes
  <2> QED
    BY <2>1, <2>2, FS_Subset
<1>3. IsFiniteSet(Packages(s))
  <2>1. PICK f : f = [id \in live |-> s[id].content.package]
    OBVIOUS
  <2>2. f = [id \in live |-> f[id]]
    BY <2>1
  <2>3. IsFiniteSet({f[id] : id \in live})
    BY <1>2, <2>2, FiniteImage
  <2>4. Packages(s) \subseteq {f[id] : id \in live}
    BY <1>1, <2>1 DEF Packages, LiveOfType
  <2> QED
    BY <2>3, <2>4, FS_Subset
<1>4. IsFiniteSet(Taxonomies(s))
  <2>1. PICK f : f = [id \in live |-> s[id].content.taxonomy]
    OBVIOUS
  <2>2. f = [id \in live |-> f[id]]
    BY <2>1
  <2>3. IsFiniteSet({f[id] : id \in live})
    BY <1>2, <2>2, FiniteImage
  <2>4. Taxonomies(s) \subseteq {f[id] : id \in live}
    BY <1>1, <2>1 DEF Taxonomies, LiveOfType
  <2> QED
    BY <2>3, <2>4, FS_Subset
<1> QED
  BY <1>3, <1>4

LEMMA TermsAre ==
  ASSUME NEW s, NEW taxonomy
  PROVE  IsSequence(Terms(s, taxonomy))
<1>1. PICK ids : ids = Selected(Order, {id \in LiveOfType(s, "meta/TaxonomyTerm") :
                                          s[id].content.taxonomy = taxonomy})
  OBVIOUS
<1>2. IsSequence(Order)
  BY BundleAssumption DEF IsSequence
<1>3. IsSequence(ids)
  BY <1>1, <1>2, SelectedRange
<1>4. PICK n \in Nat : DOMAIN ids = 1..n
  BY <1>3 DEF IsSequence
<1>5. PICK terms : terms = Terms(s, taxonomy)
  OBVIOUS
<1>6. terms = [i \in 1..n |-> [name |-> s[ids[i]].content.term,
                               parents |-> s[ids[i]].content.parents,
                               status |-> s[ids[i]].content.status]]
  BY <1>1, <1>4, <1>5 DEF Terms
<1>7. /\ DOMAIN terms = 1..n /\ terms = [i \in 1..n |-> terms[i]]
      /\ \A i \in 1..n : terms[i] \in Range(terms)
  BY <1>6 DEF Range
<1>8. terms \in Seq(Range(terms))
  BY <1>7
<1> QED
  BY <1>5, <1>8 DEF IsSequence

\* The documents of a state.
PackageDocs(s) == {ProjectPackage(s, p) : p \in Packages(s)}
TaxonomyTexts(s) == {ProjectTaxonomy(s, t) : t \in Taxonomies(s)}

LEMMA ProjectedDocs ==
  ASSUME NEW s
  PROVE  /\ IsSequence(ProjectSchema(s))
         /\ Range(ProjectSchema(s)) = PackageDocs(s) \cup TaxonomyTexts(s)
<1>1. PICK P, T, a, b : /\ P = Packages(s) /\ T = Taxonomies(s)
                        /\ a = PackageDocs(s) /\ b = TaxonomyTexts(s)
  OBVIOUS
<1>2. IsFiniteSet(P) /\ IsFiniteSet(T)
  BY <1>1, FiniteNames
<1>3. IsFiniteSet(a)
  <2>1. PICK f : f = [p \in P |-> ProjectPackage(s, p)]
    OBVIOUS
  <2>2. f = [p \in P |-> f[p]] /\ a = {f[p] : p \in P}
    BY <1>1, <2>1 DEF PackageDocs
  <2>3. IsFiniteSet({f[p] : p \in P})
    BY <1>2, <2>2, FiniteImage
  <2> QED
    BY <2>2, <2>3
<1>4. IsFiniteSet(b)
  <2>1. PICK f : f = [t \in T |-> ProjectTaxonomy(s, t)]
    OBVIOUS
  <2>2. f = [t \in T |-> f[t]] /\ b = {f[t] : t \in T}
    BY <1>1, <2>1 DEF TaxonomyTexts
  <2>3. IsFiniteSet({f[t] : t \in T})
    BY <1>2, <2>2, FiniteImage
  <2> QED
    BY <2>2, <2>3
<1>5. /\ IsSequence(SetToSeq(a)) /\ Range(SetToSeq(a)) = a
      /\ IsSequence(SetToSeq(b)) /\ Range(SetToSeq(b)) = b
  BY <1>3, <1>4, SetListed
<1>6. ProjectSchema(s) = SetToSeq(a) \o SetToSeq(b)
  BY <1>1 DEF ProjectSchema, PackageDocs, TaxonomyTexts
<1> QED
  BY <1>1, <1>5, <1>6, RangeBoth

LEMMA PackagesLoad ==
  ASSUME NEW s
  PROVE  LoadDocs(ProjectSchema(s)).packages = FromState(s).packages
<1>1. PICK docs, P : docs = ProjectSchema(s) /\ P = Packages(s)
  OBVIOUS
<1>2. IsSequence(docs) /\ Range(docs) = PackageDocs(s) \cup TaxonomyTexts(s)
  BY <1>1, ProjectedDocs
<1>3. PICK onts : onts = Ontologies(docs)
  OBVIOUS
<1>4. IsSequence(onts) /\ Range(onts) = Range(docs) \cap {d \in Range(docs) : IsOntology(d)}
  BY <1>2, <1>3, SelectedRange DEF Ontologies
<1>5. ASSUME NEW p \in P
      PROVE  /\ ProjectPackage(s, p) \in Range(onts)
             /\ ProjectPackage(s, p).ontology = p
  <2>1. IsOntology(ProjectPackage(s, p)) /\ ProjectPackage(s, p).ontology = p
    BY DEF IsOntology, ProjectPackage
  <2>2. ProjectPackage(s, p) \in PackageDocs(s)
    BY <1>1 DEF PackageDocs
  <2> QED
    BY <1>2, <1>4, <2>1, <2>2
<1>6. ASSUME NEW d \in Range(onts) PROVE \E p \in P : d = ProjectPackage(s, p)
  <2>1. d \in PackageDocs(s) \cup TaxonomyTexts(s) /\ IsOntology(d)
    BY <1>2, <1>4
  <2>2. d \notin TaxonomyTexts(s)
    BY <2>1 DEF TaxonomyTexts, ProjectTaxonomy, IsOntology
  <2> QED
    BY <1>1, <2>1, <2>2 DEF PackageDocs
<1>7. PICK n \in Nat : DOMAIN onts = 1..n
  BY <1>4 DEF IsSequence
<1>8. PICK pairs : pairs = [i \in DOMAIN onts |->
                              <<onts[i].ontology,
                                [defs |-> onts[i].defs, rules |-> onts[i].rules,
                                 imports |-> onts[i].imports]>>]
  OBVIOUS
<1>9. PICK f : f = [p \in P |->
                      [defs |-> [type \in NamedTypes |-> Assembled(s, type, p)],
                       rules |-> AssembledRules(s, p), imports |-> AssembledImports(s, p)]]
  OBVIOUS
<1>10. /\ DOMAIN pairs = 1..n /\ pairs = [i \in 1..n |-> pairs[i]]
       /\ \A i \in 1..n : pairs[i] \in Range(pairs) /\ onts[i] \in Range(onts)
  BY <1>7, <1>8 DEF Range
<1>11. pairs \in Seq(Range(pairs))
  BY <1>10
<1>12. ASSUME NEW i \in 1..n, NEW p \in P, onts[i] = ProjectPackage(s, p)
       PROVE  pairs[i][1] = p /\ pairs[i][2] = f[p]
  <2>1. PICK d : d = onts[i]
    OBVIOUS
  <2>2. PICK defs : defs = [type \in NamedTypes |-> Assembled(s, type, p)]
    OBVIOUS
  <2>3. d = [ontology |-> p, imports |-> AssembledImports(s, p), defs |-> defs,
             rules |-> AssembledRules(s, p)]
    BY <1>12, <2>1, <2>2 DEF ProjectPackage
  <2>4. pairs[i] = <<d.ontology, [defs |-> d.defs, rules |-> d.rules, imports |-> d.imports]>>
    BY <1>7, <1>8, <2>1
  <2>5. f[p] = [defs |-> defs, rules |-> AssembledRules(s, p),
                imports |-> AssembledImports(s, p)]
    BY <1>9, <2>2
  <2> QED
    BY <2>3, <2>4, <2>5
<1>13. \A i \in DOMAIN pairs : pairs[i][1] \in DOMAIN f /\ pairs[i][2] = f[pairs[i][1]]
  <2> SUFFICES ASSUME NEW i \in 1..n
               PROVE  pairs[i][1] \in DOMAIN f /\ pairs[i][2] = f[pairs[i][1]]
    BY <1>10
  <2>1. PICK p \in P : onts[i] = ProjectPackage(s, p)
    BY <1>6, <1>10
  <2>2. pairs[i][1] = p /\ pairs[i][2] = f[p]
    BY <1>12, <2>1
  <2> QED
    BY <1>9, <2>2
<1>14. \A p \in DOMAIN f : \E i \in DOMAIN pairs : pairs[i][1] = p
  <2> SUFFICES ASSUME NEW p \in P PROVE \E i \in 1..n : pairs[i][1] = p
    BY <1>9, <1>10
  <2>1. PICK i \in 1..n : onts[i] = ProjectPackage(s, p)
    BY <1>5, <1>7 DEF Range
  <2> QED
    BY <1>12, <2>1
<1>15. f = [p \in DOMAIN f |-> f[p]]
  BY <1>9
<1>16. LastOf(pairs) = f
  <2>1. IsSequence(pairs)
    BY <1>11 DEF IsSequence
  <2> QED
    BY <1>13, <1>14, <1>15, <2>1, LastOfFollows DEF Follows
<1>17. LoadDocs(docs).packages = LastOf(pairs)
  BY <1>3, <1>8 DEF LoadDocs
<1>18. FromState(s).packages = f
  BY <1>1, <1>9 DEF FromState
<1> QED
  BY <1>1, <1>16, <1>17, <1>18

LEMMA TaxonomiesLoad ==
  ASSUME NEW s
  PROVE  LoadDocs(ProjectSchema(s)).taxonomies = FromState(s).taxonomies
<1>1. PICK docs, T : docs = ProjectSchema(s) /\ T = Taxonomies(s)
  OBVIOUS
<1>2. IsSequence(docs) /\ Range(docs) = PackageDocs(s) \cup TaxonomyTexts(s)
  BY <1>1, ProjectedDocs
<1>3. PICK taxs : taxs = TaxonomyDocs(docs)
  OBVIOUS
<1>4. IsSequence(taxs) /\ Range(taxs) = Range(docs) \cap {d \in Range(docs) : ~IsOntology(d)}
  BY <1>2, <1>3, SelectedRange DEF TaxonomyDocs
<1>5. ASSUME NEW t \in T
      PROVE  ProjectTaxonomy(s, t) \in Range(taxs)
  <2>1. ~IsOntology(ProjectTaxonomy(s, t))
    BY DEF IsOntology, ProjectTaxonomy
  <2>2. ProjectTaxonomy(s, t) \in TaxonomyTexts(s)
    BY <1>1 DEF TaxonomyTexts
  <2> QED
    BY <1>2, <1>4, <2>1, <2>2
<1>6. ASSUME NEW d \in Range(taxs) PROVE \E t \in T : d = ProjectTaxonomy(s, t)
  <2>1. d \in PackageDocs(s) \cup TaxonomyTexts(s) /\ ~IsOntology(d)
    BY <1>2, <1>4
  <2>2. d \notin PackageDocs(s)
    BY <2>1 DEF PackageDocs, ProjectPackage, IsOntology
  <2> QED
    BY <1>1, <2>1, <2>2 DEF TaxonomyTexts
<1>7. PICK n \in Nat : DOMAIN taxs = 1..n
  BY <1>4 DEF IsSequence
<1>8. PICK pairs : pairs = [i \in DOMAIN taxs |-> <<taxs[i].taxonomy, TermMap(taxs[i].terms)>>]
  OBVIOUS
<1>9. PICK f : f = [t \in T |-> TermMap(Terms(s, t))]
  OBVIOUS
<1>10. /\ DOMAIN pairs = 1..n /\ pairs = [i \in 1..n |-> pairs[i]]
       /\ \A i \in 1..n : pairs[i] \in Range(pairs) /\ taxs[i] \in Range(taxs)
  BY <1>7, <1>8 DEF Range
<1>11. pairs \in Seq(Range(pairs))
  BY <1>10
<1>12. ASSUME NEW i \in 1..n, NEW t \in T, taxs[i] = ProjectTaxonomy(s, t)
       PROVE  pairs[i][1] = t /\ pairs[i][2] = f[t]
  <2>1. PICK terms, sorted : terms = Terms(s, t) /\ sorted = ByName(terms)
    OBVIOUS
  <2>2. TermMap(sorted) = TermMap(terms)
    BY <2>1, TermsAre, ByNameKeeps
  <2>3. taxs[i].taxonomy = t /\ taxs[i].terms = sorted
    BY <1>12, <2>1 DEF ProjectTaxonomy
  <2>4. pairs[i] = <<taxs[i].taxonomy, TermMap(taxs[i].terms)>>
    BY <1>7, <1>8
  <2> QED
    BY <1>9, <2>1, <2>2, <2>3, <2>4
<1>13. \A i \in DOMAIN pairs : pairs[i][1] \in DOMAIN f /\ pairs[i][2] = f[pairs[i][1]]
  <2> SUFFICES ASSUME NEW i \in 1..n
               PROVE  pairs[i][1] \in DOMAIN f /\ pairs[i][2] = f[pairs[i][1]]
    BY <1>10
  <2>1. PICK t \in T : taxs[i] = ProjectTaxonomy(s, t)
    BY <1>6, <1>10
  <2>2. pairs[i][1] = t /\ pairs[i][2] = f[t]
    BY <1>12, <2>1
  <2> QED
    BY <1>9, <2>2
<1>14. \A t \in DOMAIN f : \E i \in DOMAIN pairs : pairs[i][1] = t
  <2> SUFFICES ASSUME NEW t \in T PROVE \E i \in 1..n : pairs[i][1] = t
    BY <1>9, <1>10
  <2>1. PICK i \in 1..n : taxs[i] = ProjectTaxonomy(s, t)
    BY <1>5, <1>7 DEF Range
  <2> QED
    BY <1>12, <2>1
<1>15. f = [t \in DOMAIN f |-> f[t]]
  BY <1>9
<1>16. LastOf(pairs) = f
  <2>1. IsSequence(pairs)
    BY <1>11 DEF IsSequence
  <2> QED
    BY <1>13, <1>14, <1>15, <2>1, LastOfFollows DEF Follows
<1>17. LoadDocs(docs).taxonomies = LastOf(pairs)
  BY <1>3, <1>8 DEF LoadDocs
<1>18. FromState(s).taxonomies = f
  BY <1>1, <1>9 DEF FromState
<1> QED
  BY <1>1, <1>16, <1>17, <1>18

-----------------------------------------------------------------------------
\* Theorems.

\* IInv holds whatever packages are installed, whatever the graph and the files
\* become: of install_package, of commits, of export, of edits, and of import.
THEOREM BundleInvariant == Spec => []IInv
<1>1. Init => IInv
  BY InitIInv
<1>2. IInv /\ [Next]_vars => IInv'
  BY NextIInv
<1> QED
  BY <1>1, <1>2, PTL DEF Spec

\* Files lie under ids that the graph knows and under terms that exist, and name
\* revisions of content; an id that uuid4 has yet to mint names nothing
\* (md.rs, export; flows.rs, on install_package).
THEOREM FilesNameTheirNodes == Spec => []TypeOK
<1>1. IInv => TypeOK
  BY DEF IInv
<1> QED
  BY <1>1, BundleInvariant, PTL

\* No package brings a second policy node into the graph, though each may bring
\* a policy (flows.rs, on install_package_ops).
THEOREM NoPolicyJoins == Spec => []OnePolicyNode
<1>1. ASSUME IInv PROVE OnePolicyNode
  <2> SUFFICES ASSUME NEW x \in Range(PolicyNodes(objects)) PROVE x = scenario.policy
    BY DEF OnePolicyNode
  <2>1. PICK live : live = LiveOfType(objects, "meta/Policy")
    OBVIOUS
  <2>2. x \in live
    BY <2>1, BundleAssumption, SelectedRange DEF PolicyNodes, IsSequence
  <2>3. x \in DOMAIN objects \cap NodeId /\ TypeOf(objects[x].content) = "meta/Policy"
    BY <2>1, <2>2 DEF LiveOfType, LiveNodes
  <2>4. TypeOf(RedactedContent) # "meta/Policy"
    BY DEF TypeOf, RedactedContent
  <2>5. objects[x].content \in {objects[x].rev, RedactedContent}
    BY <1>1, <2>3 DEF IInv, Honest
  <2>6. TypeOf(objects[x].rev) = "meta/Policy"
    BY <2>3, <2>4, <2>5
  <2> QED
    BY <1>1, <2>3, <2>6 DEF IInv, NodesOK
<1> QED
  BY <1>1, BundleInvariant, PTL

\* What an installed document defines is in force as long as no node of its
\* package is deleted or redacted: its names have definitions, its rules and
\* imports are those of the package (schemaops.rs, compile_schema_ops; meta.rs,
\* Registry::from_state).
THEOREM InstalledIsInForce == Spec => []DocsInForce
<1> DEFINE Gone == {objects[id].rev : id \in {n \in DOMAIN objects :
                                        objects[n].deleted \/ objects[n].redacted}}
           Documents == {d \in installed : IsOntology(d)}
<1>1. ASSUME IInv, NEW doc \in Documents, CompileOntology(doc) # <<>>,
             \A c \in Gone : "package" \in DOMAIN c => c.package # doc.ontology,
             NEW reg, reg = Registry
      PROVE  /\ doc.ontology \in DOMAIN reg.packages
             /\ doc.imports \subseteq reg.packages[doc.ontology].imports
             /\ Range(doc.rules) \subseteq Range(reg.packages[doc.ontology].rules)
             /\ \A type \in NamedTypes : \A name \in DOMAIN doc.defs[type] :
                  \E d \in Documents :
                    /\ d.ontology = doc.ontology
                    /\ name \in DOMAIN d.defs[type]
                    /\ name \in DOMAIN reg.packages[doc.ontology].defs[type]
                    /\ d.defs[type][name] = reg.packages[doc.ontology].defs[type][name]
  <2>1. PICK o : o = doc.ontology
    OBVIOUS
  <2>2. IsDoc(doc) /\ IsOntology(doc)
    BY <1>1 DEF IInv
  <2>3. ASSUME NEW e \in ElementsOf(doc)
        PROVE  \E id \in DOMAIN objects :
                 /\ id \in LiveOfType(objects, e.type) /\ objects[id].content = e
                 /\ id \in Range(InPackage(objects, e.type, o))
                 /\ e.type \in ElementTypes /\ e.package = o
    <3>1. e \in Defined
      BY DEF Defined
    <3>2. PICK id \in DOMAIN objects \cap NodeId : objects[id].rev = e
      BY <1>1, <3>1 DEF IInv, Standing
    <3>3. IsSchema(e) /\ TypeOf(e) \in ElementTypes /\ e.package = o
      BY <2>1, <2>2, ElementsAreSchema
    <3>4. TypeOf(e) = e.type
      BY <3>3 DEF TypeOf, ElementTypes, NamedTypes
    <3>5. "package" \in DOMAIN e
      <4>1. CASE e \in RuleElements(doc)
        BY <4>1, ElementIs DEF RuleElements
      <4>2. CASE e \notin RuleElements(doc)
        BY <4>2, ElementIs DEF ElementsOf, NamedElements
      <4> QED
        BY <4>1, <4>2
    <3>6. e \notin Gone
      BY <1>1, <2>1, <3>3, <3>5
    <3>7. ~objects[id].deleted /\ ~objects[id].redacted
      BY <3>2, <3>6
    <3>8. /\ id \in LiveOfType(objects, TypeOf(e)) /\ objects[id].content = e
          /\ id \in Range(InPackage(objects, TypeOf(e), e.package))
      BY <1>1, <3>2, <3>7, SchemaFound
    <3> QED
      BY <3>2, <3>3, <3>4, <3>8
  <2>4. PICK first : first \in ElementsOf(doc)
    <3>1. IsSequence(CompileOntology(doc)) /\ Range(CompileOntology(doc)) = ElementsOf(doc)
      BY <2>2, OntologyCompiled
    <3>2. CompileOntology(doc)[1] \in Range(CompileOntology(doc))
      BY <1>1, <3>1 DEF IsSequence, Range
    <3> QED
      BY <3>1, <3>2
  <2>5. PICK id \in DOMAIN objects :
          /\ id \in LiveOfType(objects, first.type) /\ objects[id].content = first
          /\ first.type \in ElementTypes /\ first.package = o
    BY <2>3, <2>4
  <2>6. first.imports = doc.imports
    <3>1. CASE first \in RuleElements(doc)
      BY <3>1, ElementIs DEF RuleElements
    <3>2. CASE first \notin RuleElements(doc)
      BY <2>4, <3>2, ElementIs DEF ElementsOf, NamedElements
    <3> QED
      BY <3>1, <3>2
  <2>7. o \in Packages(objects)
    BY <2>5 DEF Packages
  <2>8. PICK pack : pack = reg.packages[o]
    OBVIOUS
  <2>9. /\ DOMAIN reg.packages = Packages(objects)
        /\ pack.imports = AssembledImports(objects, o)
        /\ pack.rules = AssembledRules(objects, o)
        /\ \A type \in NamedTypes : pack.defs[type] = Assembled(objects, type, o)
    <3>1. PICK packs : packs = reg.packages
      OBVIOUS
    <3>2. packs = [p \in Packages(objects) |->
                     [defs |-> [type \in NamedTypes |-> Assembled(objects, type, p)],
                      rules |-> AssembledRules(objects, p),
                      imports |-> AssembledImports(objects, p)]]
      BY <1>1, <3>1 DEF Registry, FromState
    <3>3. pack = [defs |-> [type \in NamedTypes |-> Assembled(objects, type, o)],
                  rules |-> AssembledRules(objects, o),
                  imports |-> AssembledImports(objects, o)]
      BY <2>7, <2>8, <3>1, <3>2
    <3>4. pack.defs = [type \in NamedTypes |-> Assembled(objects, type, o)]
      BY <3>3
    <3> QED
      BY <3>1, <3>2, <3>3, <3>4
  <2>10. doc.imports \subseteq AssembledImports(objects, o)
    BY <2>5, <2>6 DEF AssembledImports
  <2>11. ASSUME NEW rule \in Range(doc.rules) PROVE rule \in Range(AssembledRules(objects, o))
    <3>1. PICK i \in DOMAIN doc.rules : rule = doc.rules[i]
      BY <2>11 DEF Range
    <3>2. PICK e : e = Element(doc, "meta/ValidationRule", doc.rules[i].name, doc.rules[i])
      OBVIOUS
    <3>3. e \in ElementsOf(doc) /\ e.type = "meta/ValidationRule" /\ e.definition = rule
      BY <3>1, <3>2, ElementIs DEF ElementsOf, RuleElements
    <3>4. PICK node \in DOMAIN objects :
            /\ objects[node].content = e
            /\ node \in Range(InPackage(objects, "meta/ValidationRule", o))
      BY <2>3, <3>3
    <3>5. PICK ids : ids = InPackage(objects, "meta/ValidationRule", o)
      OBVIOUS
    <3>6. PICK k \in DOMAIN ids : ids[k] = node
      BY <3>4, <3>5 DEF Range
    <3>7. PICK rules : rules = AssembledRules(objects, o)
      OBVIOUS
    <3>8. k \in DOMAIN rules /\ rules[k] = rule
      BY <3>3, <3>4, <3>5, <3>6, <3>7 DEF AssembledRules
    <3> QED
      BY <3>7, <3>8 DEF Range
  <2>12. ASSUME NEW type \in NamedTypes, NEW name \in DOMAIN doc.defs[type]
         PROVE  \E d \in Documents :
                  /\ d.ontology = o
                  /\ name \in DOMAIN d.defs[type]
                  /\ name \in DOMAIN Assembled(objects, type, o)
                  /\ d.defs[type][name] = Assembled(objects, type, o)[name]
    <3>1. PICK e : e = Element(doc, type, name, doc.defs[type][name])
      OBVIOUS
    <3>2. e \in ElementsOf(doc) /\ e.type = type /\ e.element = name
      BY <3>1, ElementIs DEF ElementsOf, NamedElements
    <3>3. PICK node \in DOMAIN objects :
            /\ objects[node].content = e
            /\ node \in Range(InPackage(objects, type, o))
      BY <2>3, <3>2
    <3>4. PICK all : all = Assembled(objects, type, o)
      OBVIOUS
    <3>5. name \in DOMAIN all
      BY <3>2, <3>3, <3>4, AssembledIs
    <3>6. PICK last \in Range(InPackage(objects, type, o)) :
            /\ objects[last].content.element = name
            /\ objects[last].content.definition = all[name]
      BY <3>4, <3>5, AssembledIs
    <3>7. type \in ElementTypes
      BY DEF ElementTypes
    <3>8. PICK c : c = objects[last].content
      OBVIOUS
    <3>9. c.package = o /\ c \in Defined /\ TypeOf(c) = type
      BY <1>1, <3>7, <3>8, FoundIsDefined
    <3>10. PICK d \in Documents : c \in ElementsOf(d)
      BY <3>9 DEF Defined
    <3>11. IsDoc(d) /\ IsOntology(d)
      BY <1>1 DEF IInv
    <3>12. c.package = d.ontology
      BY <3>10, <3>11, ElementsAreSchema
    <3>13. c.type = type
      BY <3>9 DEF TypeOf, NamedTypes
    <3>14. c.element \in DOMAIN d.defs[type] /\ c.definition = d.defs[type][c.element]
      BY <3>10, <3>13, NamedElementIs
    <3> QED
      BY <3>4, <3>5, <3>6, <3>8, <3>9, <3>12, <3>14
  <2> QED
    BY <2>1, <2>7, <2>8, <2>9, <2>10, <2>11, <2>12
<1>2. IInv => DocsInForce
  <2> SUFFICES ASSUME IInv PROVE DocsInForce
    OBVIOUS
  <2>1. PICK reg : reg = Registry
    OBVIOUS
  <2> QED
    BY <1>1, <2>1 DEF DocsInForce
<1> QED
  BY <1>2, BundleInvariant, PTL

\* The documents that project_schema gives load as the registry that from_state
\* derives.  This holds of every state, whatever its schema nodes say.
THEOREM ProjectedSchemaLoads == Spec => []ProjectionRoundTrips
<1>1. ASSUME NEW s PROVE LoadDocs(ProjectSchema(s)) = FromState(s)
  <2>1. PICK a, b : a = LoadDocs(ProjectSchema(s)) /\ b = FromState(s)
    OBVIOUS
  <2>2. a = [packages |-> a.packages, taxonomies |-> a.taxonomies]
    BY <2>1 DEF LoadDocs
  <2>3. b = [packages |-> b.packages, taxonomies |-> b.taxonomies]
    BY <2>1 DEF FromState
  <2>4. a.packages = b.packages /\ a.taxonomies = b.taxonomies
    BY <2>1, PackagesLoad, TaxonomiesLoad
  <2> QED
    BY <2>1, <2>2, <2>3, <2>4
<1>2. ProjectionRoundTrips
  BY <1>1 DEF ProjectionRoundTrips
<1> QED
  BY <1>2, PTL

\* A file that nobody edited is no edit if and only if it says all of the content
\* it was exported from, by the schema of the import (md.rs, reconstruct).
THEOREM UneditedFilesAreKnown == Spec => []CleanFilesRoundTrip
<1>1. ASSUME IInv PROVE CleanFilesRoundTrip
  <2> SUFFICES ASSUME NEW path \in DOMAIN dir, ~dir[path].edited
               PROVE  IsEdited(Registry, dir[path]) <=>
                        ~SaysAll(dir[path], LongTextAttr(Registry, dir[path].type))
    BY DEF CleanFilesRoundTrip
  <2>1. PICK reg, file : reg = Registry /\ file = dir[path]
    OBVIOUS
  <2>2. FileOK(file) /\ ~file.edited
    BY <1>1, <2>1 DEF IInv, FilesOK
  <2>3. IsEdited(reg, file) <=> ~SaysAll(file, LongTextAttr(reg, file.type))
    BY <2>2, CleanFile
  <2> QED
    BY <2>1, <2>3
<1> QED
  BY <1>1, BundleInvariant, PTL

\* An import replaces no revision but the one that a file was exported from, or
\* what another file of the same changeset says (md.rs, import; the fold's
\* optimistic concurrency).
THEOREM ImportsKeepWhatTheyDidNotRead == Spec => ImportsReplaceWhatWasRead
<1> DEFINE Files(id) == {dir[path] : path \in {p \in Edits(Registry, dir) : dir[p].id = id}}
           Kept == Import =>
             \A id \in DOMAIN objects :
               objects'[id] # objects[id] =>
                 /\ \E file \in Files(id) : file.rev = objects[id].rev
                 /\ \E file \in Files(id) : Reconstruct(Registry, file) = objects'[id].content
                 /\ \A file \in Files(id) :
                      \/ file.rev = objects[id].rev
                      \/ \E other \in Files(id) : Reconstruct(Registry, other) = file.rev
<1>1. ASSUME IInv, Import, NEW id \in DOMAIN objects, objects'[id] # objects[id]
      PROVE  /\ \E file \in Files(id) : file.rev = objects[id].rev
             /\ \E file \in Files(id) : Reconstruct(Registry, file) = objects'[id].content
             /\ \A file \in Files(id) :
                  \/ file.rev = objects[id].rev
                  \/ \E other \in Files(id) : Reconstruct(Registry, other) = file.rev
  <2>1. PICK ops : ops = ImportOps(Registry, objects, dir) /\ Commit(ops)
    BY <1>1 DEF Import
  <2>2. PICK reg, edits : reg = Registry /\ edits = Edits(reg, dir)
    OBVIOUS
  <2>3. /\ Len(ops) \in Nat
        /\ \A i \in 1..Len(ops) : \E path \in edits : ops[i] = UpdateOf(reg, objects, dir[path])
        /\ \A path \in edits : \E i \in 1..Len(ops) : ops[i] = UpdateOf(reg, objects, dir[path])
    BY <1>1, <2>1, <2>2, ImportOpsAre
  <2>4. ASSUME NEW file, NEW op, op = UpdateOf(reg, objects, file)
        PROVE  /\ op.verb = "update" /\ op.id = file.id /\ op.prior = file.rev
               /\ op.body = Reconstruct(reg, file)
    BY <2>4 DEF UpdateOf
  <2>5. ASSUME NEW i \in 1..Len(ops)
        PROVE  \E file \in Files(ops[i].id) :
                 /\ ops[i].verb = "update" /\ ops[i].prior = file.rev
                 /\ ops[i].body = Reconstruct(reg, file)
    <3>1. PICK path \in edits : ops[i] = UpdateOf(reg, objects, dir[path])
      BY <2>3
    <3>2. PICK file : file = dir[path]
      OBVIOUS
    <3>3. /\ ops[i].verb = "update" /\ ops[i].id = file.id /\ ops[i].prior = file.rev
          /\ ops[i].body = Reconstruct(reg, file)
      BY <2>4, <3>1, <3>2
    <3>4. file \in Files(ops[i].id)
      BY <2>2, <3>2, <3>3
    <3> QED
      BY <3>3, <3>4
  <2> HIDE DEF Files
  <2>6. PICK apply : /\ ApplyChangeset(apply, objects, ops).ok
                     /\ objects' = ApplyChangeset(apply, objects, ops).objects
    BY <2>1 DEF Commit, Apply
  <2>7. Updated(objects, objects', ops) /\ \A i \in 1..Len(ops) : Founded(objects, ops, i)
    BY <2>3, <2>5, <2>6, UpdatesApplied
  <2>8. From(ops, id, objects[id].rev) /\ To(ops, id, objects'[id].content)
    BY <1>1, <2>7 DEF Updated
  <2>9. ASSUME NEW rev, From(ops, id, rev)
        PROVE  \E file \in Files(id) : file.rev = rev
    BY <2>5, <2>9 DEF From
  <2>10. ASSUME NEW content, To(ops, id, content)
         PROVE  \E file \in Files(id) : Reconstruct(reg, file) = content
    BY <2>5, <2>10 DEF To
  <2>11. ASSUME NEW file \in Files(id)
         PROVE  file.rev = objects[id].rev \/ To(ops, id, file.rev)
    <3>1. PICK path \in edits : file = dir[path] /\ file.id = id
      BY <2>2 DEF Files
    <3>2. PICK i \in 1..Len(ops) : ops[i] = UpdateOf(reg, objects, file)
      BY <2>3, <3>1
    <3>3. ops[i].id = id /\ ops[i].prior = file.rev
      BY <2>4, <3>1, <3>2
    <3> QED
      BY <2>7, <3>3 DEF Founded
  <2> QED
    BY <2>2, <2>8, <2>9, <2>10, <2>11
<1>2. IInv => Kept
  BY <1>1
<1>3. Kept => (Import =>
        \A id \in DOMAIN objects :
          objects'[id] # objects[id] =>
            LET files == {dir[path] : path \in {p \in Edits(Registry, dir) : dir[p].id = id}}
                Read(file) == file.rev = objects[id].rev
                Says(file, content) == Reconstruct(Registry, file) = content
            IN  /\ \E file \in files : Read(file)
                /\ \E file \in files : Says(file, objects'[id].content)
                /\ \A file \in files :
                     Read(file) \/ \E other \in files : Says(other, file.rev))
  BY DEF Files
<1> QED
  BY <1>2, <1>3, BundleInvariant, PTL DEF ImportsReplaceWhatWasRead
=============================================================================
