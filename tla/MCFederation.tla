---------------------------- MODULE MCFederation ----------------------------
(***************************************************************************)
(* Small instances of Federation: two graphs of one ontology, A with two   *)
(* notes of which one is at work and one is at home, B with an agent that  *)
(* imports.                                                                *)
(***************************************************************************)
EXTENDS Federation, SequencesExt

Person(type, name, key) ==
  [type |-> type, name |-> name, keys |-> {key}, retired |-> {}]
Package ==
  [type |-> "meta/EntityType", extends |-> {},
   defines |-> {"core/User", "core/Agent", "core/Peer", "core/Grant", "note"}]
Cites == [type |-> "meta/EdgeType", name |-> "cites", domain |-> {"note"},
          range |-> {"note"}]
Term(name, parents) ==
  [type |-> "meta/TaxonomyTerm", term |-> name, parents |-> parents,
   status |-> "active"]
Note == [type |-> "note", val |-> "new"]

Rule(map, reviewers) ==
  [name |-> "rule", select |-> {{[negated |-> FALSE, map |-> map]}},
   reviewers |-> reviewers, attestations |-> {}]
Policy(owner, rules) ==
  [type |-> "meta/Policy",
   definition |-> [posture |-> "restricted", rules |-> rules,
                   roles |-> [owner |-> {owner}]]]

\* A has its owner sign off on grants; B reviews imports, and lets its agent
\* write what it likes.
GrantsReviewed == Rule([type |-> "core/Grant"], {<<"owner", 1>>})
ImportsReviewed == Rule([imported |-> TRUE], {<<"owner", 1>>})
AgentWrites == Rule([author_kind |-> "agent"], {})

Strangers ==
  [A |-> [aP |-> Package, aPolicy |-> Policy("conner", {GrantsReviewed}),
          aConner |-> Person("core/User", "conner", "kc"),
          aJarvis |-> Person("core/Agent", "jarvis", "kj"),
          aCites |-> Cites, aWork |-> Term("work", {}),
          aTask |-> Term("task", {"work"}), aHome |-> Term("home", {}),
          n1 |-> Note, n2 |-> Note,
          k1 |-> [subject |-> "n1", term |-> "task"],
          k2 |-> [subject |-> "n2", term |-> "home"],
          e1 |-> [type |-> "cites", from |-> "n1", to |-> "n2"]],
   B |-> [bP |-> Package, bPolicy |-> Policy("dana", {ImportsReviewed, AgentWrites}),
          bDana |-> Person("core/User", "dana", "kd"),
          bBot |-> Person("core/Agent", "bot", "kb"),
          bCites |-> Cites, bTask |-> Term("task", {}),
          bHome |-> Term("home", {})]]

\* They know one another, and A shares its work with all.
Peer(g, key) == [type |-> "core/Peer", graph |-> g, root |-> key]
Public == [type |-> "core/Grant", audience |-> "public", region |-> "work"]
Friends ==
  [A |-> "aPeer" :> Peer("B", "kd") @@ Strangers.A,
   B |-> "bPeer" :> Peer("A", "kc") @@ Strangers.B]
Partners == [Friends EXCEPT !.A = "aGrant" :> Public @@ @]

MCNodeIds == <<"m1", "m2", "m3">>
NotNodes == <<"k1", "k2", "k3", "k4", "e1">>
MCOrder ==
  NotNodes \o
  <<"aCites", "aConner", "aGrant", "aHome", "aJarvis", "aP", "aPeer", "aPolicy",
    "aTask", "aWork", "bBot", "bCites", "bDana", "bHome", "bP", "bPeer",
    "bPolicy", "bTask", "m2", "m1", "m3", "n1", "n2">>
MCNodeId == Range(MCOrder) \ Range(NotNodes)

MCOwner == [A |-> "conner", B |-> "dana"]
MCPolicyNode == [A |-> "aPolicy", B |-> "bPolicy"]
MCKeyOf ==
  [A |-> [conner |-> "kc", jarvis |-> "kj"], B |-> [dana |-> "kd", bot |-> "kb"]]

-----------------------------------------------------------------------------
\* A note is handed over while A works on it and the grant is revoked.
Sharing ==
  [start |-> Friends, peers |-> {}, grants |-> {<<"A", "B", "work">>}, writes |-> {},
   signers |-> {"conner"}, importers |-> {"bot"}, wanted |-> {"n1", "k1"},
   do |-> {"revoke", "update", "delete"}, subjects |-> {"n1", "e1"}, marks |-> {},
   steps |-> 6]

\* A bundle goes astray, or is signed by somebody else; B learns A's key twice.
Straying ==
  [Sharing EXCEPT !.start = Strangers,
                  !.peers = {<<"B", "A", "kc">>, <<"B", "A", "kj">>},
                  !.grants = {<<"A", "A", "home">>, <<"A", "public", "home">>},
                  !.signers = {"conner", "jarvis"}, !.wanted = {},
                  !.do = {}, !.steps = 5]

\* The other note is put to work too, with the edge between both, and redacted.
Reaching ==
  [Sharing EXCEPT !.start = Partners, !.grants = {},
                  !.wanted = {"e1", "aWork", "n1", "n2"}, !.subjects = {"n2"},
                  !.marks = {<<"A", "k3", "work">>}, !.do = {"redact"},
                  !.steps = 6]

\* B files what it imported, and hands it back.
Returning ==
  [Sharing EXCEPT !.start = Partners, !.grants = {<<"B", "A", "home">>},
                  !.signers = {"conner", "dana"}, !.importers = {"conner", "dana"},
                  !.wanted = {"n1"}, !.marks = {<<"B", "k4", "home">>},
                  !.do = {"delete", "update"}, !.subjects = {"n1"}, !.steps = 7]

\* A files a note about the other one, with a region and at times an audience;
\* its owner signs off on grants, not on notes.
About(region) == [type |-> "note", val |-> "new", region |-> region]
Mislaid ==
  [Sharing EXCEPT !.grants = {<<"A", "B", "work">>},
                  !.writes = {<<"A", About("work")>>,
                              <<"A", "audience" :> "B" @@ About("home")>>},
                  !.wanted = {"n1", "n2"}, !.do = {"revoke"}, !.steps = 6]

FedScenarios == {Sharing, Straying, Reaching, Returning, Mislaid}
=============================================================================
