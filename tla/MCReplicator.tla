---------------------------- MODULE MCReplicator ----------------------------
(***************************************************************************)
(* Model-checking instance of Replicator.                                  *)
(*                                                                         *)
(* Two requests for chunk c1, so pre-emption and registry races happen.   *)
(* Sizes are in units: 2-unit checksum blocks, a read size of 3 rounded   *)
(* up to 4, 5-unit chunks.  A 5-unit chunk takes a                         *)
(* full read and a partial one, a 3-unit chunk a read longer than a block  *)
(* that ends the chunk (the tail split), 0 finalizes at once, and -1 and 6 *)
(* are sizes the replicator must refuse.                                  *)
(***************************************************************************)
EXTENDS Replicator, TLC

CONSTANTS r1, r2, c1

MCReq == {r1, r2}
MCChunks == {c1}
MCChunkOf == (r1 :> c1) @@ (r2 :> c1)
MCOpVersion == [r \in {r1, r2} |-> 1]
\* r1 takes the source's version, r2 asks for version 2.
MCTargetVersion == (r1 :> -1) @@ (r2 :> 2)
MCVersions == {1, 2}
MCSizes == {-1, 0, 3, 5, 6}
=============================================================================
