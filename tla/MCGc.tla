-------------------------------- MODULE MCGc --------------------------------
(* Small trees for TLC: a file at the root, a file in a directory, and (in *)
(* MCLinkEntries) a symbolic link.                                         *)
EXTENDS Gc, TLC

CONSTANTS empty, flat, deep, dir, b1, b2

Symm == Permutations(Changes)

MCTrees == {empty, flat, deep, dir}
MCBlobs == {b1, b2}

Entry(k, t) == [kind |-> k, target |-> t]

MCEntries ==
  (empty :> {}) @@ (flat :> {Entry("File", b1), Entry("Sealed", b2)})
  @@ (deep :> {Entry("Tree", dir)}) @@ (dir :> {Entry("File", b2)})
MCLinkEntries == [MCEntries EXCEPT ![flat] = {Entry("File", b1), Entry("Symlink", b2)}]
=============================================================================
