------------------------- MODULE MCRecoveryReadSize -------------------------
(* Sizes in units of 4 KiB: 64 KiB checksum blocks, 64 MiB chunks, a      *)
(* 16 KiB chunk header, stripes from 4 KiB to a whole chunk.  The quotas  *)
(* sit below, at and above the feasibility bound BLK * (numStripes + 1);  *)
(* the configured ceilings include the non-positive values SetParameters  *)
(* clamps to 1, a value that is not a block multiple, and the 1 MiB       *)
(* default.                                                               *)
EXTENDS RecoveryReadSize

MCQuotas == {0, 4, 32, 40, 96, 160, 1000, 4096}
MCReadCfgs == {-1, 0, 100, 256, 300}
=============================================================================
