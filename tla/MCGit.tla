-------------------------------- MODULE MCGit --------------------------------
(***************************************************************************)
(* Small instances of GitGovernance: a repository of two Rust files and a  *)
(* text, whose second commit changes both files and drops a type, whose    *)
(* third moves a function and deletes the file it was in, and whose fourth *)
(* changes nothing but what the graph keeps in the repository.             *)
(***************************************************************************)
EXTENDS GitGovernance, SequencesExt

Line(item, text, marks, names) ==
  [deep |-> FALSE, item |-> item, text |-> text, marks |-> marks, names |-> names]
Fn(name) == Line(<<"fn", name>>, name, <<"{">>, {})
Body(names) == [Line(<<>>, "", <<"{", "}">>, names) EXCEPT !.deep = TRUE]
End == Line(<<>>, "", <<"}">>, {})

\* spend calls check; check has its body on the line that declares it.
Spend == <<Fn("spend"), Body({"check", "spend"}), End>>
Bare(name) == <<Fn(name), Body({}), End>>
Check == <<Line(<<"fn", "check">>, "check", <<"{", "}">>, {})>>
Refund == <<Fn("refund"), Body({"spend"}), End>>
Request == <<Line(<<"struct", "req">>, "req", <<";">>, {}),
             Line(<<"trait", "req">>, "req", <<"{", "}">>, {})>>

MCPaths == <<".allod", "r", "s/a", "s/b">>
MCSourceOf ==
  [a1 |-> Check \o Spend, a2 |-> Check \o Bare("spend"), b1 |-> Refund \o Request,
   b2 |-> Bare("refund") \o Tail(Request), b3 |-> Refund \o Spend, text |-> <<>>, log |-> <<>>]
MCTree ==
  [c1 |-> (".allod" :> "text" @@ "s/a" :> "a1" @@ "s/b" :> "b1"),
   c2 |-> (".allod" :> "log" @@ "s/a" :> "a2" @@ "s/b" :> "b2" @@ "r" :> "text"),
   c3 |-> (".allod" :> "log" @@ "s/b" :> "b3" @@ "r" :> "text"),
   c4 |-> (".allod" :> "text" @@ "s/b" :> "b3" @@ "r" :> "text")]
MCFirstParent == [c1 |-> None, c2 |-> "c1", c3 |-> "c2", c4 |-> "c3"]
MCSpelled ==
  ".allod" :> <<".", "l">> @@ "r" :> <<"r">> @@ "s/a" :> <<"s", "/", "a">>
    @@ "s/b" :> <<"s", "/", "b">> @@ "allod" :> <<"l">>
    @@ "main" :> <<"m">> @@ "topic" :> <<"t", "/", "m">>

Ids(prefix) == [i \in 1..24 |-> prefix \o ToString(i)]
MCNodeIds == Ids("n")
MCEdgeIds == Ids("e")

-----------------------------------------------------------------------------
\* The graph: conner owns it, dana reviews, a service indexes.
Person(name, keys) ==
  [type |-> "core/User", name |-> name, keys |-> keys, retired |-> {}]
Service == [Person("crawler", {"x"}) EXCEPT !.type = "core/Service"]

Package ==
  [type |-> "meta/EntityType", extends |-> {},
   defines |-> {"core/User", "core/Service", "code/Repository",
                "code/SourceFile", "code/Function", "code/Type"}]
EdgeDef(name, domain, range) ==
  [type |-> "meta/EdgeType", name |-> name, domain |-> domain, range |-> range]
Term(name, parents) ==
  [type |-> "meta/TaxonomyTerm", term |-> name, parents |-> parents,
   status |-> "active"]

Rule(map, role, quorum) ==
  [name |-> "rule", select |-> {{[negated |-> FALSE, map |-> map]}},
   reviewers |-> {<<role, quorum>>}, attestations |-> {}]
Doc(rules, owners) ==
  [posture |-> "restricted", rules |-> rules,
   roles |-> [owner |-> {"conner"}, reviewer |-> owners]]

Both == {"conner", "dana"}
SignOff == Rule([region |-> "security"], "owner", 1)
OnMain == Rule([substrate |-> "git", repo |-> <<"*", "l">>,
                target_ref |-> <<"m">>], "reviewer", 1)
OnPath == Rule([substrate |-> "git", target_ref |-> <<"*", "m">>,
                path |-> <<"s", "/", "*", "*">>, operation |-> {"create", "delete"}],
               "owner", 1)
InSecurity == Rule([substrate |-> "git", region |-> "security"], "reviewer", 2)
\* A selector that is no bare map governs no commit.
Compound == [OnMain EXCEPT !.select =
  {{[negated |-> FALSE, map |-> [substrate |-> "git"]],
    [negated |-> FALSE, map |-> [target_ref |-> <<"t", "*">>]]}}]
Writes == [Rule([author_kind |-> "service", basis |-> "deterministic"],
                "owner", 1) EXCEPT !.reviewers = {}]

Open == Doc({SignOff, Writes, OnMain, OnPath, InSecurity, Compound}, Both)
Closed == Doc({SignOff, Writes, OnPath, InSecurity}, {"conner"})

MCStartNodes ==
  [package |-> Package,
   policy |-> [type |-> "meta/Policy", definition |-> Open],
   conner |-> Person("conner", {"kc"}), dana |-> Person("dana", {"kd"}),
   crawler |-> Service,
   security |-> Term("security", {}),
   critical |-> Term("critical", {"security"}),
   in_repo |-> EdgeDef("code/in_repo", {"code/SourceFile"}, {"code/Repository"}),
   declares |-> EdgeDef("code/declares", {"code/SourceFile"},
                        {"code/Function", "code/Type"}),
   calls |-> EdgeDef("code/calls", {"code/Function"}, {"code/Function"}),
   references |-> EdgeDef("code/references", {"code/Function"}, {"code/Function"})]

MCNodeId == DOMAIN MCStartNodes \cup Range(MCNodeIds)
MCEdgeId == Range(MCEdgeIds)
MCRoots == {"conner"}
MCKeyOf == [conner |-> "kc", dana |-> "kd"]

-----------------------------------------------------------------------------
\* The graph follows commits in any order, while its owner edits it.
Indexing ==
  [commits |-> {"c1", "c2", "c3"}, indexers |-> {"conner"},
   marks |-> {<<"k1", "critical">>}, relates |-> TRUE, asserts |-> TRUE,
   policies |-> {}, processes |-> {}, votes |-> {}, crashes |-> FALSE,
   changes |-> 3]

\* It follows more commits, back and forth, with nothing edited.
Following ==
  [Indexing EXCEPT !.commits = {"c1", "c2", "c3", "c4"}, !.marks = {}, !.relates = FALSE, !.asserts = FALSE,
                   !.changes = 4]

\* A service follows commits that remove nothing.
Crawling ==
  [Indexing EXCEPT !.commits = {"c1"}, !.indexers = {"crawler"},
                   !.asserts = FALSE]

Approves(c, name) == <<c, name, "approve">>

\* A commit is decided one decision at a time while the graph changes.
Reviewing ==
  [Indexing EXCEPT !.commits = {"c1"}, !.relates = FALSE, !.asserts = FALSE,
                   !.policies = {Closed}, !.processes = {"p"},
                   !.votes = {Approves("c2", "conner"), Approves("c2", "dana"),
                              <<"c2", "conner", "reject">>}]

\* Two processes decide a commit, and may die.
Deciding ==
  [Indexing EXCEPT !.commits = {}, !.changes = 0, !.processes = {"p", "q"},
                   !.votes = {Approves("c3", "conner"), Approves("c3", "dana")},
                   !.crashes = TRUE]

GitScenarios == {Indexing, Following, Crawling, Reviewing, Deciding}
=============================================================================
