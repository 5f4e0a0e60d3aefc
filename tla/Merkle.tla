------------------------------- MODULE Merkle -------------------------------
(***************************************************************************)
(* The Merkle tree over a log's entry hashes, with a hash function that    *)
(* never collides: the digest of some data is the data, tagged with the    *)
(* prefix that separates leaves from nodes.                                *)
(***************************************************************************)
EXTENDS Naturals, Sequences

(* An entry hash, itself collision-free: the calls whose events the chain  *)
(* up to that entry holds.                                                 *)
Hash == Seq(Nat)

Leaf(hash) == <<"leaf", hash>>
Node(left, right) == <<"node", left, right>>
EmptyTree == <<"empty">>

(* No odd number divides k but 1. *)
PowerOfTwo(k) == \A d, q \in 1 .. k : d * q = k => d = 1 \/ d % 2 = 0

(* The largest power of two strictly less than n, for n >= 2. *)
Split(n) == CHOOSE k \in 1 .. n - 1 : PowerOfTwo(k) /\ n <= 2 * k

Root[hashes \in Seq(Hash)] ==
    IF hashes = <<>> THEN EmptyTree
    ELSE IF Len(hashes) = 1 THEN Leaf(hashes[1])
    ELSE LET k == Split(Len(hashes))
         IN  Node(Root[SubSeq(hashes, 1, k)],
                  Root[SubSeq(hashes, k + 1, Len(hashes))])

-----------------------------------------------------------------------------
(* Mutant of WithSibling: the siblings top-down. *)
WithSiblingFirst(path, sibling) == <<sibling>> \o path

WithSibling(path, sibling) == Append(path, sibling)

Trees == Seq(Hash) \ {<<>>}

(* The audit path of the entry at index: the roots of the subtrees beside  *)
(* its way up, the lowest first.  An index outside of the tree is an error.*)
InclusionProof[hashes \in Trees] ==
    [index \in 0 .. Len(hashes) - 1 |->
        IF Len(hashes) = 1 THEN <<>>
        ELSE LET k     == Split(Len(hashes))
                 left  == SubSeq(hashes, 1, k)
                 right == SubSeq(hashes, k + 1, Len(hashes))
             IN  IF index < k
                 THEN WithSibling(InclusionProof[left][index], Root[right])
                 ELSE WithSibling(InclusionProof[right][index - k], Root[left])]

(* What a verifier computes without the log: in a subtree of n leaves, the *)
(* root above the i-th, from the first d siblings.  A proof that is too    *)
(* short or too long for the tree computes nothing.                        *)
NoRoot == <<"no root">>

VerifyInclusion(hash, index, size, proof, root) ==
    LET Above[n \in Nat \ {0}] ==
            [i \in 0 .. n - 1 |-> [d \in 0 .. Len(proof) |->
                IF n = 1 THEN (IF d = 0 THEN Leaf(hash) ELSE NoRoot)
                ELSE IF d = 0 THEN NoRoot
                ELSE LET k   == Split(n)
                         sub == IF i < k THEN Above[k][i][d - 1]
                                         ELSE Above[n - k][i - k][d - 1]
                     IN  IF sub = NoRoot THEN NoRoot
                         ELSE IF i < k THEN Node(sub, proof[d])
                                       ELSE Node(proof[d], sub)]]
    IN  index < size /\ Above[size][index][Len(proof)] = root

(* Against the root and the size of one checkpoint, an inclusion proof     *)
(* proves that its entry is in the tree at its index, and nothing else: no *)
(* other entry and no other index goes with it.  (The size has to come     *)
(* from the checkpoint: with another one, another index may fit.)  For all *)
(* trees of distinct entries up to `most' leaves.                          *)
InclusionExact(most) ==
    LET tree == [n \in 1 .. most |-> [i \in 1 .. n |-> <<i>>]]
    IN  \A n \in 1 .. most, i, j, h \in 0 .. most - 1 :
           i < n =>
             (VerifyInclusion(<<h + 1>>, j, n, InclusionProof[tree[n]][i],
                              Root[tree[n]])
              <=> h = i /\ j = i)
=============================================================================
