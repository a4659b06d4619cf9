---------------------------- MODULE RevisionTree ----------------------------
(***************************************************************************)
(* What a content-addressed store of changesets promises whoever moves     *)
(* HEAD, and however often: revisions are added under revisions that are   *)
(* already there, nothing is removed or re-parented, and the tip is always *)
(* one of them.                                                            *)
(***************************************************************************)
EXTENDS Naturals

CONSTANT Revision

VARIABLES
  parentOf,  \* the parent of each stored revision; 0 for the root
  tip        \* the revision in force

Init ==
  /\ \E root \in Revision : parentOf = [r \in {root} |-> 0] /\ tip = root

\* Store r under parent p unless it is there already, and make it the tip.
MoveTo(r, p) ==
  /\ p \in DOMAIN parentOf
  /\ r \in DOMAIN parentOf => parentOf[r] = p
  /\ parentOf' = [x \in DOMAIN parentOf \cup {r} |->
                    IF x = r THEN p ELSE parentOf[x]]
  /\ tip' = r

Next == \E r, p \in Revision : MoveTo(r, p)

Spec == Init /\ [][Next]_<<parentOf, tip>>
=============================================================================
