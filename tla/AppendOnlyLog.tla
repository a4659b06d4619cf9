--------------------------- MODULE AppendOnlyLog ---------------------------
(***************************************************************************)
(* The log the documentation promises (spec/03 3.2.1): it starts with one  *)
(* entry, and a step adds one entry at its end and changes nothing before. *)
(***************************************************************************)
EXTENDS Naturals, Sequences

CONSTANT Entry

VARIABLE entries

Init == \E e \in Entry : entries = <<e>>

Next == \E e \in Entry : entries' = Append(entries, e)

Spec == Init /\ [][Next]_entries
=============================================================================
