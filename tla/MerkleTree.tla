------------------------------ MODULE MerkleTree ------------------------------
(***************************************************************************)
(* The Merkle trees of allod-core (hash.rs): the root of a sequence of     *)
(* leaves, the path from one of them to the root, and its verification.    *)
(* The hash of a pair is modelled by the pair, and that of a leaf by the   *)
(* one-tuple of what it hashes, so the two domains are apart and hashes    *)
(* are equal exactly if what they hash is.                                 *)
(***************************************************************************)
EXTENDS Naturals, Sequences

Leaf(entry) == <<entry>>

\* The level above: neighbours are paired, an odd one out is promoted.
Above(level) ==
  [i \in 1..(Len(level) \div 2) |-> <<level[2 * i - 1], level[2 * i]>>]
    \o (IF Len(level) % 2 = 1 THEN <<level[Len(level)]>> ELSE <<>>)

Sibling(i) == IF i % 2 = 1 THEN i + 1 ELSE i - 1

\* What a hash adds to the path: its sibling, with its side, if it has one.
PathStep(level, i) ==
  IF Sibling(i) > Len(level) THEN <<>>
  ELSE <<[sibling |-> level[Sibling(i)], left |-> Sibling(i) < i]>>

\* Mutation: a leaf keeps its index on every level.
UpInPlace(w) ==
  [level |-> Above(w.level), at |-> w.at, path |-> w.path \o PathStep(w.level, w.at)]

\* One round of the loop in merkle_path.
Up(w) ==
  [level |-> Above(w.level),
   at    |-> (w.at + 1) \div 2,
   path  |-> w.path \o PathStep(w.level, w.at)]

\* From the leaf with an index to the root.  The loop ends when a level has
\* one hash; rounds beyond that change nothing, and there are enough of them.
Walk(leaves, index) ==
  LET walk[k \in 0..Len(leaves)] ==
        IF k = 0 THEN [level |-> leaves, at |-> index, path |-> <<>>]
        ELSE Up(walk[k-1])
  IN  walk[Len(leaves)]

\* merkle_root makes the same levels, and merkle_path keeps the path.
MerkleRoot(leaves) == Walk(leaves, 1).level[1]
MerklePath(leaves, index) == Walk(leaves, index).path

\* The hash of a pair, one of which is the hash below.
Paired(hash, step) ==
  IF step.left THEN <<step.sibling, hash>> ELSE <<hash, step.sibling>>

\* The hash that a path leads to.
PathHash(leaf, path) ==
  LET hash[i \in 0..Len(path)] ==
        IF i = 0 THEN leaf ELSE Paired(hash[i-1], path[i])
  IN  hash[Len(path)]

\* verify_merkle_path.
VerifyMerklePath(leaf, path, root) == PathHash(leaf, path) = root
=============================================================================
