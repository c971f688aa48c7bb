--------------------------- MODULE MetaServerPool ---------------------------
(***************************************************************************)
(* The meta-server client pool of Reed-Solomon recovery and its credential *)
(* rotation (RSReplicatorImpl in src/cc/chunk/Replicator.cc).              *)
(*                                                                         *)
(* GetMetaserver hands each new recovery one of MaxCount slots (slot 0 on  *)
(* the main event loop, slot i > 0 on client thread i - 1), round-robin    *)
(* over min(maxRecoveryThreads, MaxCount) slots, from the authenticated    *)
(* pool or the plain one.  sAuthParams holds the PSK key id and key; a     *)
(* global counter sAuthUpdateCount is bumped on every change (SetParameters *)
(* and a ReplicateChunkOp carrying new credentials, in Create), and each   *)
(* slot of the authenticated pool remembers the count its auth context was *)
(* last set from.  Create gives a recovery the slot's counter to update    *)
(* only if it differs at that moment; HandleStart then re-applies the      *)
(* parameters under the slot's lock if the counters still differ.          *)
(* StopMetaServers (Shutdown) stops both pools, detaches and clears every  *)
(* auth context and resets sLastIdx; the pools are built once, so a later  *)
(* authenticated recovery meets a meta client with no auth context.        *)
(***************************************************************************)
EXTENDS Integers

CONSTANTS
  Ops,              \* recovery ReplicateChunkOps
  ThreadCount,      \* gClientManager.GetClientThreadCount()
  MaxThreadsValues, \* values of chunkServer.rsReader.maxRecoveryThreads
  KeyIds,           \* values of the psk.keyId parameter
  Keys,             \* values of the psk.key parameter
  NoVal,            \* a parameter that is not set
  MaxAuthCount,     \* bound on sAuthUpdateCount
  AuthMayFail       \* the auth context's SetParameters may return an error

ASSUME /\ ThreadCount \in Nat /\ MaxThreadsValues \subseteq Int
       /\ NoVal \notin KeyIds \cup Keys /\ AuthMayFail \in BOOLEAN

\* sMaxCount: the main loop plus one slot per client thread.
MaxCount == ThreadCount + 1
Slots == 0 .. MaxCount - 1
Params == [id : KeyIds \cup {NoVal}, key : Keys \cup {NoVal}]

VARIABLES
  lastIdx,     \* sLastIdx
  maxThreads,  \* sMaxRecoveryThreads
  params,      \* sAuthParams (the psk.keyId and psk.key entries)
  authCount,   \* sAuthUpdateCount
  slotCount,   \* mAuthUpdateCount of each authenticated pool entry
  ctx,         \* the parameters each authenticated entry's context holds
  rs,          \* rs[o]: the recovery created for op o
  stopped      \* the pools were stopped: every meta client has no auth context

vars == <<lastIdx, maxThreads, params, authCount, slotCount, ctx, rs, stopped>>

NoParams == [id |-> NoVal, key |-> NoVal]

MinOf(a, b) == IF a <= b THEN a ELSE b

\* Mutant: the slot index wraps one too late.
NextSlotLate(i, mt) ==
  LET j == (IF i < 0 THEN 0 ELSE i) + 1 IN
  IF MinOf(mt, MaxCount) < j
    THEN IF MaxCount <= 1 \/ mt <= 0 THEN 0 ELSE 1
    ELSE j

\* GetMetaserver's choice: start from 0 on the first call, advance, and wrap
\* to 1 (to 0 without client threads or with a non-positive cap) when the
\* index reaches min(maxRecoveryThreads, MaxCount).
NextSlot(i, mt) ==
  LET j == (IF i < 0 THEN 0 ELSE i) + 1 IN
  IF MinOf(mt, MaxCount) <= j
    THEN IF MaxCount <= 1 \/ mt <= 0 THEN 0 ELSE 1
    ELSE j

\* Mutant: a new key is stored without bumping the update count.
UpdateCredentialsKeyNoBump(p, c, id, key) ==
  LET p1 == [p EXCEPT !.id = id]
      c1 == IF p.id # id THEN c + 1 ELSE c
  IN <<[p1 EXCEPT !.key = key], c1>>

\* Create's write-through of the op's session token (key id) and key: each
\* one that differs from sAuthParams is stored and bumps the count.
UpdateCredentials(p, c, id, key) ==
  LET p1 == [p EXCEPT !.id = id]
      c1 == IF p.id # id THEN c + 1 ELSE c
  IN <<[p1 EXCEPT !.key = key], IF p1.key # key THEN c1 + 1 ELSE c1>>

-----------------------------------------------------------------------------
Init ==
  /\ lastIdx = -1
  /\ maxThreads \in MaxThreadsValues
  /\ params = [id |-> NoVal, key |-> NoVal]
  /\ authCount = 0
  /\ slotCount = [s \in Slots |-> 0]
  /\ ctx = [s \in Slots |-> NoParams]
  /\ rs = [o \in Ops |-> [st |-> "none", slot |-> 0, auth |-> FALSE,
                          ptr |-> FALSE, current |-> TRUE]]
  /\ stopped = FALSE

\* SetParameters: a new maxRecoveryThreads, and, when the properties carry
\* auth parameters (copyWithPrefix > 0), new sAuthParams and a bump.
SetParameters ==
  /\ \E mt \in MaxThreadsValues, p \in Params \cup {<<>>} :
       /\ maxThreads' = mt
       /\ IF p = <<>> THEN UNCHANGED <<params, authCount>>
          ELSE /\ authCount < MaxAuthCount
               /\ params' = p /\ authCount' = authCount + 1
  /\ UNCHANGED <<lastIdx, slotCount, ctx, rs, stopped>>

\* Create for op o, authenticated when it carries a session token and key:
\* write the credentials through, pick a slot, and hand the recovery the
\* slot's update counter only if it differs from sAuthUpdateCount now.  An
\* authenticated entry whose meta client no longer holds its auth context
\* (after StopMetaServers) is an invalid entry: die().
Create(o) ==
  /\ rs[o].st = "none"
  /\ \E auth \in BOOLEAN, id \in KeyIds, key \in Keys :
       LET u    == IF auth THEN UpdateCredentials(params, authCount, id, key)
                   ELSE <<params, authCount>>
           slot == NextSlot(lastIdx, maxThreads)
       IN /\ u[2] <= MaxAuthCount
          /\ params' = u[1] /\ authCount' = u[2]
          /\ lastIdx' = slot
          /\ rs' = [rs EXCEPT ![o] = [st |-> IF auth /\ stopped THEN "died"
                                            ELSE "created",
                                      slot |-> slot,
                                      auth |-> auth, current |-> TRUE,
                                      ptr |-> auth /\ slotCount[slot] # u[2]]]
  /\ UNCHANGED <<maxThreads, slotCount, ctx, stopped>>

\* HandleStart's credential step on the recovery's thread: with a counter
\* handed over and still behind, re-apply sAuthParams to the slot's auth
\* context under its lock and store sAuthUpdateCount in the slot, whether
\* or not SetParameters succeeded.  A failed SetParameters leaves the
\* context as it was and fails the recovery (the metadata op's status skips
\* the reader's Open).  current records whether the context the recovery
\* then talks to the meta server with holds the current sAuthParams.  With
\* a counter handed over and the meta client's auth context gone (stopped
\* meanwhile by the main loop), die().
HandleStart(o) ==
  /\ rs[o].st = "created"
  /\ \E applied \in IF AuthMayFail THEN BOOLEAN ELSE {TRUE} :
       LET s     == rs[o].slot
           apply == rs[o].ptr /\ ~stopped /\ slotCount[s] # authCount
           ctx2  == IF apply /\ applied THEN [ctx EXCEPT ![s] = params] ELSE ctx
       IN /\ ctx' = ctx2
          /\ slotCount' = IF apply THEN [slotCount EXCEPT ![s] = authCount]
                          ELSE slotCount
          /\ rs' = [rs EXCEPT ![o].st = CASE rs[o].ptr /\ stopped -> "died"
                                            [] apply /\ ~applied -> "failed"
                                            [] OTHER              -> "started",
                              ![o].current = ~rs[o].auth \/ ctx2[s] = params]
  /\ UNCHANGED <<lastIdx, maxThreads, params, authCount, stopped>>

\* StopMetaServers, i.e. GetMetaserver(false, 0, ...): nothing before the
\* first recovery (sLastIdx < 0); else Stop both pools (each meta client
\* stopped, SetAuthContext(0), its auth context cleared) and reset sLastIdx.
\* The slots' update counters are left as they are.
StopMetaServers ==
  /\ lastIdx >= 0
  /\ lastIdx' = -1 /\ stopped' = TRUE
  /\ ctx' = [s \in Slots |-> NoParams]
  /\ UNCHANGED <<maxThreads, params, authCount, slotCount, rs>>

Next ==
  \/ SetParameters \/ StopMetaServers
  \/ \E o \in Ops : Create(o) \/ HandleStart(o)

Spec == Init /\ [][Next]_vars

-----------------------------------------------------------------------------
(* Properties.                                                              *)

TypeOK ==
  /\ lastIdx \in -1 .. MaxCount - 1 /\ maxThreads \in MaxThreadsValues
  /\ params \in Params /\ authCount \in 0 .. MaxAuthCount
  /\ slotCount \in [Slots -> 0 .. MaxAuthCount] /\ ctx \in [Slots -> Params]
  /\ \A o \in Ops : rs[o].st \in {"none", "created", "started", "failed", "died"}
  /\ stopped \in BOOLEAN

\* Every recovery gets a slot of the pool, so a client thread exists for
\* every slot above 0, whatever maxRecoveryThreads is and however it is
\* changed between recoveries.
SlotInPool ==
  \A o \in Ops : rs[o].st # "none" => rs[o].slot \in Slots

\* While the pools run, a slot whose stored update count equals
\* sAuthUpdateCount has an auth context holding the current sAuthParams: no
\* change of the parameters (in SetParameters or in Create) can leave a
\* slot's counter current while its context is stale, so skipping the
\* re-apply is always safe.  (Stopped pools have no attached context.)
CountCertifiesContext ==
  ~stopped => \A s \in Slots : slotCount[s] = authCount => ctx[s] = params

\* Spec 4.7 (credential rotation): at the start of each recovery, a slot
\* whose stored counter differs has the parameters re-applied, so every
\* authenticated recovery starts with the current credentials.
AuthCurrentAtStart == \A o \in Ops : rs[o].st = "started" => rs[o].current

\* No recovery dies on its meta server entry: Create's entry check and
\* HandleStart's auth context check never fail.
NoDie == \A o \in Ops : rs[o].st # "died"
=============================================================================
