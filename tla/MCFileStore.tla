----------------------------- MODULE MCFileStore -----------------------------
(* Instances of FileStore for TLC. *)
EXTENDS FileStore, TLC

CONSTANTS p1, p2, p3, c1, c2, h1, h2

ThreeClients == {p1, p2, p3}
TwoCodes == {c1, c2}
TwoContents == {h1, h2}

Symmetry ==
    Permutations(Clients) \cup Permutations(Codes) \cup Permutations(Contents)
=============================================================================
