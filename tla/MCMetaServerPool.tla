-------------------------- MODULE MCMetaServerPool --------------------------
(***************************************************************************)
(* Model-checking instance of MetaServerPool: two client threads (three   *)
(* slots), two values of each credential, three recoveries.               *)
(***************************************************************************)
EXTENDS MetaServerPool

CONSTANTS o1, o2, o3, k1, k2, s1, s2

MCOps == {o1, o2, o3}
MCKeyIds == {k1, k2}
MCKeys == {s1, s2}
\* maxRecoveryThreads: non-positive, one slot, two slots, the default 16.
MCMaxThreads == {-1, 1, 2, 16}
=============================================================================
