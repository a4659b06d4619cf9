------------------------------ MODULE MCStore ------------------------------
(***************************************************************************)
(* Small instances of GraphStore: what one or two processes, or one        *)
(* program with a mirror, may ask for in each scenario.                    *)
(***************************************************************************)
EXTENDS GraphStore

CONSTANTS g1, g2, bob1, bob2, memo, note, plan

Ask(op, on) == [op |-> op, on |-> on, by |-> None]
Vote(verdict, on, by) == [op |-> verdict, on |-> on, by |-> by]

MCChangesets == <<g1, g2, bob1, bob2, memo, note, plan>>
MCFounding == {g1, g2}
MCAdding == {bob1, bob2}
MCNameOf == [x \in MCFounding \cup MCAdding |->
               IF x \in MCFounding THEN "owner" ELSE "bob"]
MCQuorum == [x \in {g1, g2, bob1, bob2, memo, note, plan} |->
               CASE x = note -> 2 [] x = plan -> 1 [] OTHER -> 0]

\* Two processes hold and decide a proposal that needs two approvals.
Deciding ==
  [host |-> "native", start |-> "graph", atOnce |-> 2, faults |-> 1,
   requests |-> {Ask("submit", note), Vote("approve", note, "alice"),
                 Vote("approve", note, "bob")}]
Retrying == [Deciding EXCEPT !.atOnce = 1, !.faults = 2]
Rejecting ==
  [host |-> "native", start |-> "graph", atOnce |-> 2, faults |-> 0,
   requests |-> {Ask("submit", note), Vote("approve", note, "alice"),
                 Vote("reject", note, "bob")}]

\* A changeset admitted and attested; measurements trusted.
Attesting ==
  [host |-> "native", start |-> "graph", atOnce |-> 2, faults |-> 1,
   requests |-> {Ask("submit", memo), Vote("attest", memo, "alice")}]
Trusting ==
  [host |-> "native", start |-> "graph", atOnce |-> 2, faults |-> 1,
   requests |-> {Ask("trust", "m1"), Ask("trust", "m2"), Ask("checkpoint", None)}]

\* Graphs are founded, keys created, moved, and created again after a crash.
Founded ==
  [host |-> "native", start |-> "fresh", atOnce |-> 2, faults |-> 1,
   requests |-> {Ask("init", g1), Ask("init", g2)}]
Enrolling ==
  [host |-> "native", start |-> "graph", atOnce |-> 2, faults |-> 1,
   requests |-> {Ask("principal", bob1), Ask("principal", bob2)}]
Migrating ==
  [host |-> "native", start |-> "graph", atOnce |-> 2, faults |-> 2,
   requests |-> {Ask("migrate", "owner"), Ask("principal", bob1)}]

\* An admission cut short is attested and tried again; a graph whose founding
\* was cut short trusts a measurement and is founded again.
Readmitting ==
  [host |-> "native", start |-> "graph", atOnce |-> 1, faults |-> 1,
   requests |-> {Ask("submit", plan), Vote("approve", plan, "alice"),
                 Vote("approve", plan, "bob"), Vote("attest", plan, "carol")}]
Refounding ==
  [host |-> "native", start |-> "fresh", atOnce |-> 1, faults |-> 1,
   requests |-> {Ask("init", g1), Ask("init", g2), Ask("trust", "m1")}]

\* A graph that is in use is founded again, which gives it another id.
InUse ==
  [host |-> "native", start |-> "graph", atOnce |-> 2, faults |-> 1,
   requests |-> {Ask("init", g2), Ask("trust", "m1")}]
Renamed ==
  [host |-> "native", start |-> "graph", atOnce |-> 2, faults |-> 1,
   requests |-> {Ask("init", g2), Ask("migrate", "owner"), Ask("principal", bob1)}]

\* A mirrored graph whose persistence fails, or whose host stops; its log may
\* branch while a proposal is still held.
Mirrored ==
  [host |-> "mirror", start |-> "graph", atOnce |-> 1, faults |-> 1,
   requests |-> {Ask("submit", note), Ask("submit", plan),
                 Vote("approve", note, "alice"), Vote("approve", note, "bob"),
                 Vote("approve", note, "carol"), Vote("approve", plan, "alice")}]
MirroredInit ==
  [host |-> "mirror", start |-> "fresh", atOnce |-> 2, faults |-> 1,
   requests |-> {Ask("init", g1), Ask("init", g2), Ask("principal", bob1)}]

StoreScenarios == {Deciding, Retrying, Rejecting, Attesting, Trusting, Founded,
                   Enrolling, Migrating, Readmitting, Refounding, InUse,
                   Renamed, Mirrored, MirroredInit}
=============================================================================
