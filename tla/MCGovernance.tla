---------------------------- MODULE MCGovernance ----------------------------
(***************************************************************************)
(* Small instances of Governance.  A restricted graph with two people:     *)
(* alice holds root authority; notes need two maintainers, and either of   *)
(* the two policies can be in force.                                       *)
(***************************************************************************)
EXTENDS Audit

Create(id, body) == [verb |-> "create", id |-> id, body |-> body]
Update(id, prior, body) ==
  [verb |-> "update", id |-> id, prior |-> prior, body |-> body]
Delete(id, prior) == [verb |-> "delete", id |-> id, prior |-> prior]
Redact(id) == [verb |-> "redact-document", id |-> id]

\* Everyone signs changesets with the key they hold at first.
FirstKey == [alice |-> "a1", bob |-> "b1", crawler |-> "c1"]
Ask(author, ops) == [author |-> author, key |-> FirstKey[author], ops |-> ops]

User(name, keys, retired) ==
  [type |-> "core/User", name |-> name, keys |-> keys, retired |-> retired,
   firstKey |-> CHOOSE key \in keys \cup retired : TRUE]

Package == [type |-> "meta/EntityType",
            defines |-> {"core/User", "core/Agent", "Note", "Draft"},
            extends |-> {}]

Note(val) == [type |-> "Note", val |-> val]

Alice == User("alice", {"a1"}, {})
Bob == User("bob", {"b1"}, {})
BobRotated == User("bob", {"b2"}, {"b1"})

\* A selector with one positive bare map.
Matching(map) == {{[negated |-> FALSE, map |-> map]}}

NoteRule(quorum) ==
  [name |-> "notes", select |-> Matching([type |-> "Note"]),
   reviewers |-> {<<"maintainer", quorum>>}, attestations |-> {}]

Doc(rules, roles) ==
  [posture |-> "restricted", rules |-> rules, roles |-> roles]

Strict == Doc({NoteRule(2)}, [maintainer |-> {"alice", "bob"}])
Relaxed == Doc({NoteRule(1)}, [maintainer |-> {"alice", "bob"}])

PolicyNode(doc) == [type |-> "meta/Policy", definition |-> doc]

MCGenesis ==
  Ask("alice", <<Create("package", Package),
                 Create("policy", PolicyNode(Strict)),
                 Create("alice", Alice),
                 Create("bob", Bob)>>)

SetPolicy(old, new) ==
  Ask("alice", <<Update("policy", PolicyNode(old), PolicyNode(new))>>)

WriteNote(name) == Ask(name, <<Create("note", Note(name))>>)
Rotate == Ask("alice", <<Update("bob", Bob, BobRotated)>>)

-----------------------------------------------------------------------------
\* Decisions while the policy and the reviewers' keys change under them.
ReviewNodeId == {"package", "policy", "alice", "bob", "note"}
ReviewRequests ==
  {WriteNote("bob"), SetPolicy(Strict, Relaxed), SetPolicy(Relaxed, Strict),
   Rotate}
TwoReviewers ==
  {[principal |-> "alice", key |-> "a1"], [principal |-> "bob", key |-> "b1"]}
AliceIsRoot == {"alice"}

-----------------------------------------------------------------------------
\* Two writers whose operations name the same prior revision of bob's node.
Demote == Ask("alice", <<Update("bob", Bob, User("bob", {}, {"b1"}))>>)
AddDraft == Ask("alice", <<Create("draft", [type |-> "Draft", val |-> "v"])>>)
RaceNodeId == ReviewNodeId \cup {"draft"}
RaceRequests == {Rotate, Demote, AddDraft}

-----------------------------------------------------------------------------
\* An agent's notes in a region that needs an attestation.
Secret == [type |-> "meta/TaxonomyTerm", term |-> "secret",
           parents |-> {"restricted"}, status |-> "active"]
Crawler == [type |-> "core/Agent", name |-> "crawler",
            keys |-> {"c1"}, retired |-> {"c0"}, firstKey |-> "c1"]
AgentRule ==
  [name |-> "agent-drafts", select |-> Matching([author_kind |-> "agent"]),
   reviewers |-> {}, attestations |-> {}]
RegionRule ==
  [name |-> "restricted-region", select |-> Matching([region |-> "restricted"]),
   reviewers |-> {}, attestations |-> {"indexer"}]

AttestedGenesis ==
  Ask("alice", <<Create("package", Package),
                 Create("policy", PolicyNode(Doc({AgentRule, RegionRule}, <<>>))),
                 Create("alice", Alice),
                 Create("crawler", Crawler),
                 Create("secret", Secret)>>)

Mark == [subject |-> "note", term |-> "secret"]
AttestedNodeId == {"package", "policy", "alice", "crawler", "secret", "note"}
AttestedRequests ==
  {Ask("crawler", <<Create("note", Note("v")), Create("mark", Mark)>>),
   Ask("crawler", <<Update("note", Note("v"), Note("w"))>>),
   Ask("alice", <<Delete("mark", Mark)>>)}
CrawlerKeys == {[principal |-> "crawler", key |-> "c1"],
                [principal |-> "crawler", key |-> "c0"]}

-----------------------------------------------------------------------------
\* Schema changes, some of which the fold's registry cache does not notice.
TitleRule == [type |-> "meta/ValidationRule", on |-> "Note",
              operations |-> {"create"}, edge |-> "about", direction |-> "out",
              within |-> "changeset", min |-> 1]
About == [type |-> "meta/EdgeType", name |-> "about",
          domain |-> {"Note"}, range |-> {"core/User"}]

SchemaGenesis ==
  Ask("alice", <<Create("package", Package),
                 Create("policy", PolicyNode(Strict)),
                 Create("alice", Alice),
                 Create("bob", Bob),
                 Create("about", About),
                 Create("rule", TitleRule)>>)

SchemaNodeId == ReviewNodeId \cup {"about", "rule", "draft"}
Remark == Ask("alice", <<Create("note", Note("v")),
                         Create("link", [type |-> "about", from |-> "note",
                                         to |-> "alice"])>>)
DropRule == Ask("alice", <<Delete("rule", TitleRule)>>)
RedactRule == Ask("alice", <<Redact("rule")>>)
SchemaRequests == {AddDraft, DropRule, RedactRule, WriteNote("alice")}

SerialRequests ==
  {WriteNote("bob"), Remark, SetPolicy(Strict, Relaxed), Rotate, DropRule,
   RedactRule}
=============================================================================
