------------------------- MODULE ReplicationService -------------------------
(***************************************************************************)
(* What the chunk server promises the meta server about ReplicateChunkOps, *)
(* whatever the copying involves: each op is answered once and for good;   *)
(* an op either is refused at once or is accepted and becomes the one a    *)
(* cancel for its chunk reaches, pre-empting the op accepted before it;   *)
(* only an accepted op that was not cancelled installs a stable copy of    *)
(* its chunk, and it answers with success exactly when it did; a cancel,   *)
(* a pre-emption or a failure ends an op with an error answer, at once or  *)
(* later; an answered op leaves the chunk's entry, at once or once it is  *)
(* released.  Replicator and RSReplicator are shown to implement it.      *)
(***************************************************************************)
CONSTANTS Req, Chunks, ChunkOf, NoReq

VARIABLES
  op,         \* op[r]: "new", "active" or "answered"
  ok,         \* ok[r]: r was answered with success and a chunk version
  cancelled,  \* the ops a cancel or a pre-emption reached
  owner,      \* owner[c]: the op a cancel for chunk c reaches, or NoReq
  stable      \* the ops that installed a stable copy of their chunk

vars == <<op, ok, cancelled, owner, stable>>

Init ==
  /\ op = [r \in Req |-> "new"]
  /\ ok = [r \in Req |-> FALSE]
  /\ cancelled = {}
  /\ owner = [c \in Chunks |-> NoReq]
  /\ stable = {}

\* The ops in F are answered, and leave the chunk entries naming them now
\* or, while something still holds them, later (Release).
Ended(F) ==
  /\ op' = [r \in Req |-> IF r \in F THEN "answered" ELSE op[r]]
  /\ \/ owner' = [c \in Chunks |-> IF owner[c] \in F THEN NoReq ELSE owner[c]]
     \/ UNCHANGED owner

\* A malformed or unserviceable op is answered with an error at once.
Refuse(r) ==
  /\ op[r] = "new"
  /\ op' = [op EXCEPT ![r] = "answered"]
  /\ UNCHANGED <<ok, cancelled, owner, stable>>

\* The op is accepted for its chunk: the op the chunk's entry named is
\* cancelled (and may end at once), and the new op takes the entry unless
\* it fails at once.
Accept(r) ==
  /\ op[r] = "new"
  /\ LET c   == ChunkOf[r]
         pre == {owner[c]} \ {NoReq}
     IN /\ cancelled' = cancelled \cup pre
        /\ \E F \in SUBSET pre, now \in BOOLEAN :
             /\ op' = [q \in Req |-> IF q = r
                                       THEN IF now THEN "answered" ELSE "active"
                                     ELSE IF q \in F THEN "answered" ELSE op[q]]
             /\ owner' = [owner EXCEPT ![c] = IF now THEN NoReq ELSE r]
  /\ UNCHANGED <<ok, stable>>

\* Cancels for the chunks in C reach the ops their entries name; some of
\* those end at once.
Cancel(C) ==
  /\ C # {} /\ \A c \in C : owner[c] # NoReq
  /\ LET S == {owner[c] : c \in C} IN
       /\ cancelled' = cancelled \cup S
       /\ \E F \in SUBSET S :
            /\ op' = [r \in Req |-> IF r \in F THEN "answered" ELSE op[r]]
            /\ owner' = [c \in Chunks |-> IF c \in C THEN NoReq ELSE owner[c]]
  /\ UNCHANGED <<ok, stable>>

\* An accepted op ends with an error answer.
Fail(r) ==
  /\ op[r] = "active"
  /\ Ended({r})
  /\ UNCHANGED <<ok, cancelled, stable>>

\* An accepted op that no cancel reached installs its copy and answers
\* with success.
Finish(r) ==
  /\ op[r] = "active" /\ r \notin cancelled
  /\ Ended({r})
  /\ stable' = stable \cup {r}
  /\ ok' = [ok EXCEPT ![r] = TRUE]
  /\ UNCHANGED cancelled

\* An answered op leaves its chunk's entry.
Release(c) ==
  /\ owner[c] # NoReq /\ op[owner[c]] = "answered"
  /\ owner' = [owner EXCEPT ![c] = NoReq]
  /\ UNCHANGED <<op, ok, cancelled, stable>>

Next ==
  \/ \E r \in Req : Refuse(r) \/ Accept(r) \/ Fail(r) \/ Finish(r)
  \/ \E C \in SUBSET Chunks : Cancel(C)
  \/ \E c \in Chunks : Release(c)

\* Every accepted op is eventually answered.
Spec ==
  Init /\ [][Next]_vars /\ \A r \in Req : WF_vars(Fail(r) \/ Finish(r))
=============================================================================
