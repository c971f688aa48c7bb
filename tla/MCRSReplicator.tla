--------------------------- MODULE MCRSReplicator ---------------------------
(***************************************************************************)
(* Model-checking instance of RSReplicator.                                *)
(*                                                                         *)
(* Two recoveries of chunks c1 and c2 share one buffer slot, so the second *)
(* waits for Granted and can be cancelled while it waits.  Sizes are in    *)
(* units: 2-unit checksum blocks, a read size of 4 (a block multiple, as   *)
(* the constructor asserts), 8-unit chunks.  The stripes yield 0, 3, 5 or  *)
(* 8 units: nothing, one short read, a full read and a short one, and two  *)
(* full reads that reach the chunk size.                                   *)
(***************************************************************************)
EXTENDS RSReplicator

CONSTANTS r1, r2, c1, c2

MCReq == {r1, r2}
MCChunkOf == (r1 :> c1) @@ (r2 :> c2)
MCOpVersion == [r \in MCReq |-> 1]
MCTargetVersion == [r \in MCReq |-> -1]
MCDataSizes == {0, 3, 5, 8}
\* maxRecoveryThreads with two client threads: non-positive puts every
\* recovery on the main loop (slot 0), the default 16 gives each of the two
\* a client thread of its own, and 1 puts both on client thread 1.
MCMainLoop == {0}
MCClientThread == {16}
MCAnySlot == {0, 1, 16}
=============================================================================
