---------------------------- MODULE RSReplicator ----------------------------
(***************************************************************************)
(* Reed-Solomon recovery (RSReplicatorImpl in src/cc/chunk/Replicator.cc). *)
(* The replicator reuses the handlers of ReplicatorImpl (HandleReadDone,   *)
(* Terminate, Cancel, HandleReplicationDone: instantiated from module      *)
(* Replicator) and overrides Start, Read and Cancel: every transition is   *)
(* marshalled to the client thread of its meta-server slot through         *)
(* Enqueue / Handle, data comes from the RS reader's Done upcall, and a    *)
(* cancel is deferred (mPendingCancelFlag) until HandleCancel runs there.  *)
(*                                                                         *)
(* Two threads act on a replicator: the main event loop (Run, buffer       *)
(* grants, disk write and ChangeChunkVers completions, cancels from the    *)
(* registry) and the client thread (the queue of Handle calls, the         *)
(* reader's upcalls).  The client thread runs the replicator's handlers    *)
(* under the client-thread mutex, so the steps that hold it are atomic     *)
(* with respect to the main loop; Handle itself starts without it.  For a  *)
(* replicator on slot 0 Enqueue runs Handle inline; replicators on one   *)
(* slot share its client thread, which runs one handler at a time.  The   *)
(* slot is the one RSReplicatorImpl::Create takes from the meta-server    *)
(* pool (module MetaServerPool) under the maxRecoveryThreads of that      *)
(* moment; no op carries credentials here (MetaServerPool checks those).  *)
(***************************************************************************)
EXTENDS Integers, TLC

CONSTANTS
  Req,          \* recovery ReplicateChunkOps
  ChunkOf,      \* op->chunkId
  OpVersion,    \* op->chunkVersion
  TargetVersion,\* op->targetVersion (negative: not set)
  BLK,          \* CHECKSUM_BLOCKSIZE
  CHUNKSIZE,    \* CHUNKSIZE
  ReadSize,     \* mReadSize, as GetReadSize computes it
  MaxRecover,   \* sRSReaderMaxRecoverChunkSize
  DataSizes,    \* lengths of the chunk the RS reader can reconstruct
  ThreadCount,  \* gClientManager.GetClientThreadCount()
  MaxThreadsValues, \* values of chunkServer.rsReader.maxRecoveryThreads
  BufSlots,     \* replicators the buffer manager can serve at once
  CloseAsync,   \* the reader may stay active after Close (a later Done)
  NoReq

ASSUME /\ ReadSize % BLK = 0 /\ ReadSize > 0
       /\ DataSizes \subseteq 0 .. CHUNKSIZE
       /\ CloseAsync \in BOOLEAN

VARIABLES
  rep,    \* rep[r]: the RSReplicatorImpl of request r and its staging file
  bufQ,   \* BufferManager's wait queue
  held,   \* requests holding a buffer grant
  lastIdx, maxThreads, params, authCount, slotCount, ctx, created, stopped
          \* the meta-server pool (MetaServerPool; created is its rs)

poolVars == <<lastIdx, maxThreads, params, authCount, slotCount, ctx, created, stopped>>
vars == <<rep, bufQ, held, poolVars>>

\* The meta-server pool, with no authenticated op: credentials would bump
\* the update count past MaxAuthCount = 0.
Pool == INSTANCE MetaServerPool
          WITH Ops <- Req, KeyIds <- {"psk"}, Keys <- {"psk"}, NoVal <- "unset",
               MaxAuthCount <- 0, AuthMayFail <- FALSE, rs <- created

Chunks == {ChunkOf[r] : r \in Req}

\* The handlers RSReplicatorImpl inherits from ReplicatorImpl.
Core == INSTANCE Replicator
          WITH Versions <- {OpVersion[r] : r \in Req} \cup
                           ({TargetVersion[r] : r \in Req} \ {-1}),
               Sizes <- {}, ReadTarget <- ReadSize,
               ReadSkipDiskVerify <- FALSE,
               reg <- [c \in Chunks |-> NoReq],
               badCk <- [r \in Req |-> [o \in 0 .. CHUNKSIZE |-> 0]]

\* What RSReplicatorImpl::Start, HandleStart and Open may report.
StartResults == {0, -Core!EHOSTUNREACH, -Core!EIO}

-----------------------------------------------------------------------------
(* Handlers, each from a record to the set of records it may produce.       *)

\* Mutant: HandleCompletion does not reset mState to kNone.
HandleCompletionReadNoReset(s, nb) ==
  IF s.pc THEN {s}
  ELSE Core!ReadDone([s EXCEPT !.rdOff = s.offset, !.rdLen = nb], s.rdStatus, nb)

\* HandleCompletion for the ReadOp: ignored while a cancel is pending (the
\* state stays as it is), else the state is reset and HandleReadDone runs
\* on the nb bytes the upcall moved into mReadOp.
HandleCompletionRead(s, nb) ==
  IF s.pc THEN {s}
  ELSE Core!ReadDone([s EXCEPT !.st = "None", !.rdOff = s.offset,
                                !.rdLen = nb], s.rdStatus, nb)

\* HandleRead: finish when the chunk is read or an error was recorded, else
\* issue mReader.Read (which may fail at once).
HandleRead(s) ==
  IF s.offset >= s.csize \/ s.rdStatus < 0 THEN HandleCompletionRead(s, 0)
  ELSE LET a == [s EXCEPT !.rdStatus = 0, !.rif = TRUE, !.phase = "Client"]
       IN {a} \cup
          HandleCompletionRead([a EXCEPT !.rif = FALSE,
                                         !.rdStatus = -Core!EIO], 0)

\* The state discipline of Enqueue: a pending cancel re-enqueues the current
\* state, anything else needs kNone; a violation is die().
EnqueueState(s, to) ==
  IF s.pc THEN [s EXCEPT !.died = s.died \/ s.st # to]
  ELSE IF s.st # "None" THEN [s EXCEPT !.died = TRUE]
  ELSE [s EXCEPT !.st = to]

\* Enqueue hands over to the client thread of the replicator's slot
\* (slot > 0: mClientThreadPtr is set) unless already on it.
Handoff(s, onClient) == s.slot > 0 /\ ~onClient

\* Read (the override): ignored while a cancel is pending; else Enqueue(kRead).
RSRead(r, s, onClient) ==
  IF s.pc THEN {[s EXCEPT !.phase = "Idle"]}
  ELSE LET a == EnqueueState(s, "Read") IN
       IF a.died THEN {a}
       ELSE IF Handoff(a, onClient) THEN {[a EXCEPT !.q = TRUE, !.phase = "Client"]}
       ELSE HandleRead(a)

\* HandleStartDone on the client thread: the size is CHUNKSIZE and the
\* version the op's (set by Start); AllocChunk, then Read.
RSStartDone(r, s, st) ==
  IF s.cancel \/ st < 0
    THEN Core!Terminate(s, IF s.cancel THEN Core!ECANCELED ELSE st)
  ELSE LET tgt == IF TargetVersion[r] >= 0 THEN TargetVersion[r] ELSE s.ver
       IN IF Core!Readable(ChunkOf[r], tgt) THEN Core!Terminate(s, -Core!EEXIST)
          ELSE Core!Terminate(s, -Core!EIO) \cup
               RSRead(r, [s EXCEPT !.handle = TRUE, !.file = "dirty",
                                   !.flen = 0], TRUE)

\* Unregister and Shutdown the reader.  Shutdown delivers the Done of a
\* pending close, which drops the reference taken for it.
ShutdownReader(s) ==
  [s EXCEPT !.rreg = FALSE, !.ractive = FALSE, !.pclose = FALSE,
            !.refs = IF s.pclose THEN s.refs - 1 ELSE s.refs]

\* Mutant: HandleCancel shuts the reader down but does not fail the read
\* that was in flight.
HandleCancelNoReadTimeout(r, s) ==
  LET a == ShutdownReader(s)
      c == Core!Cancel(a)
  IN IF s.pclose \/ a.q THEN {a}
     ELSE IF c.phase = "Done" \/ c.st = "None" THEN {c}
     ELSE IF c.rif THEN {c}
     ELSE RSStartDone(r, [c EXCEPT !.assertFail = c.st # "Start"], -Core!ETIMEDOUT)

\* HandleCancel: unregister and shut down the reader, and return if that
\* dropped a reference; while the entry is queued again, wait for that
\* run; else ReplicatorImpl::Cancel and, unless that finished the op or no
\* transition is in flight, fail the read in flight, or else the start, with
\* ETIMEDOUT (assert(mState == kStart) recorded in assertFail).
HandleCancel(r, s) ==
  LET a == ShutdownReader(s)
      c == Core!Cancel(a)
  IN IF s.pclose \/ a.q THEN {a}
     ELSE IF c.phase = "Done" \/ c.st = "None" THEN {c}
     ELSE IF c.rif THEN Core!ReadDone([c EXCEPT !.rif = FALSE], -Core!ETIMEDOUT, 0)
     ELSE RSStartDone(r, [c EXCEPT !.assertFail = c.st # "Start"], -Core!ETIMEDOUT)

\* HandleCompletion for the meta op.
HandleCompletionStart(r, s, st) ==
  IF s.pc THEN {s} ELSE RSStartDone(r, [s EXCEPT !.st = "None"], st)

\* HandleStart after Handle's cancel check: re-apply credentials, point the
\* meta client at the meta server, open the reader, then HandleCompletion.
HandleStart(r, s) ==
  UNION {HandleCompletionStart(r, [s EXCEPT !.ractive = (st = 0)], st) :
           st \in StartResults}

\* Start (the override): ignored while a cancel is pending; an invalid meta
\* server location completes the meta op at once; else Enqueue(kStart).
RSStart(r, s) ==
  IF s.pc THEN {[s EXCEPT !.phase = "Idle"]}
  ELSE LET a == [s EXCEPT !.csize = CHUNKSIZE, !.ver = OpVersion[r],
                          !.rdStatus = 0, !.skip = FALSE]
           e == EnqueueState(a, "Start")
       IN HandleCompletionStart(r, a, -Core!EINVAL) \cup
          IF e.died THEN {e}
          ELSE IF Handoff(e, FALSE) THEN {[e EXCEPT !.q = TRUE, !.phase = "Client"]}
          ELSE HandleStart(r, e)

\* Cancel (the override), called on the main loop: once only, set the
\* pending flag and Enqueue the current state.
RSCancel(r, s) ==
  IF s.pc THEN {s}
  ELSE LET a == EnqueueState([s EXCEPT !.pc = TRUE], s.st) IN
       IF Handoff(a, FALSE) THEN {[a EXCEPT !.q = TRUE]} ELSE HandleCancel(r, a)

\* HandleWriteDone, whose Read is the override.
RSWriteDone(r, s, st) ==
  IF s.cancel \/ st < 0
    THEN Core!Terminate(s, IF s.cancel THEN Core!ECANCELED ELSE st)
  ELSE
    LET a == [s EXCEPT !.offset = s.offset + s.wlen, !.flen = s.flen + s.wlen]
    IN IF a.rdOff = a.offset /\ a.tail > 0 THEN Core!ReadDone(a, 0, a.tail)
       ELSE RSRead(r, a, FALSE)

\* The part of the Done upcall that runs under the client-thread mutex: the
\* maxRecoverChunkSize check (die), nothing more once the op was answered
\* (mOwner cleared), else HandleCompletion with the reader's status.  The
\* invalid-stripe report only fills the status message.
DoneLocked(s, st, nb, pend) ==
  LET a == [s EXCEPT !.died = s.died \/ (st = 0 /\ MaxRecover < s.offset + pend)]
  IN IF a.phase = "Done" THEN {a}
     ELSE HandleCompletionRead([a EXCEPT !.rdStatus = st], nb)

\* Mutant: a full buffer (mReadSize >= bytes) is taken for the end of chunk.
DoneReadFullIsEnd(s, st, n, act) ==
  LET a    == [s EXCEPT !.rif = FALSE]
      pend == a.rtail + n
      eoc  == n <= ReadSize \/ a.offset + a.rtail + ReadSize >= a.csize
  IN IF st # 0 THEN DoneLocked(a, st, 0, 0)
     ELSE IF eoc
       THEN DoneLocked([a EXCEPT !.rtail = 0, !.csize = a.offset + pend,
                                 !.ractive = act, !.pclose = act,
                                 !.refs = a.refs + (IF act THEN 1 ELSE 0)],
                       0, pend, pend)
     ELSE LET nmv == (pend \div BLK) * BLK
              b   == [a EXCEPT !.rtail = pend - nmv]
          IN IF nmv <= 0 THEN HandleRead(b) ELSE DoneLocked(b, 0, nmv, pend)

\* Mutant: the pending close does not Ref() the replicator.
DoneReadNoRef(s, st, n, act) ==
  LET a    == [s EXCEPT !.rif = FALSE]
      pend == a.rtail + n
      eoc  == n < ReadSize \/ a.offset + a.rtail + ReadSize >= a.csize
  IN IF st # 0 THEN DoneLocked(a, st, 0, 0)
     ELSE IF eoc
       THEN DoneLocked([a EXCEPT !.rtail = 0, !.csize = a.offset + pend,
                                 !.ractive = act, !.pclose = act],
                       0, pend, pend)
     ELSE LET nmv == (pend \div BLK) * BLK
              b   == [a EXCEPT !.rtail = pend - nmv]
          IN IF nmv <= 0 THEN HandleRead(b) ELSE DoneLocked(b, 0, nmv, pend)

\* Done upcall for the read in flight, with status st and n bytes (act: the
\* reader is still active after Close).  A short buffer or the chunk end closes the reader and fixes the
\* chunk size at what was read; otherwise whole blocks go to the write and
\* the remainder stays in mReadTail (none: read again at once).
DoneRead(s, st, n, act) ==
  LET a    == [s EXCEPT !.rif = FALSE]
      pend == a.rtail + n
      eoc  == n < ReadSize \/ a.offset + a.rtail + ReadSize >= a.csize
  IN IF st # 0 THEN DoneLocked(a, st, 0, 0)
     ELSE IF eoc
       THEN DoneLocked([a EXCEPT !.rtail = 0, !.csize = a.offset + pend,
                                 !.ractive = act, !.pclose = act,
                                 !.refs = a.refs + (IF act THEN 1 ELSE 0)],
                       0, pend, pend)
     ELSE LET nmv == (pend \div BLK) * BLK
              b   == [a EXCEPT !.rtail = pend - nmv]
          IN IF nmv <= 0 THEN HandleRead(b) ELSE DoneLocked(b, 0, nmv, pend)


\* Handle, run by the client thread for a dequeued entry: its unlocked
\* mPendingCancelFlag check, then the handler of the enqueued state.
Handle(r, s) ==
  IF s.pc THEN HandleCancel(r, s)
  ELSE IF s.st = "Start" THEN HandleStart(r, s)
  ELSE IF s.st = "Read" THEN HandleRead(s)
  ELSE {[s EXCEPT !.died = TRUE]}

-----------------------------------------------------------------------------
InitRep(r, d) ==
  Core!InitRep(r) @@
  [st |-> "None", pc |-> FALSE, q |-> FALSE, cl |-> "idle", rif |-> FALSE,
   pclose |-> FALSE, ractive |-> FALSE, rreg |-> TRUE, refs |-> 0,
   rtail |-> 0, rdStatus |-> 0, dsize |-> d, died |-> FALSE,
   assertFail |-> FALSE, inReg |-> FALSE, slot |-> 0]

\* dsize: the bytes the stripes hold for the chunk, which the reader yields.
InitReplicators ==
  /\ \E d \in [Req -> DataSizes] : rep = [r \in Req |-> InitRep(r, d[r])]
  /\ bufQ = {}
  /\ held = {}

Init == InitReplicators /\ Pool!Init

\* No reference is left: the destructor has run.
Destroyed(s) == s.phase = "Done" /\ s.refs = 0

\* One handler of r producing s2, with the buffer queue and grants q and h
\* it leaves: HandleReplicationDone's UnRef and, once the last reference is
\* gone, the destructor (registry erase, mReader.Register(0) and Shutdown,
\* buffers given back).
StepQ(r, s2, q, h) ==
  LET u  == IF s2.phase = "Done" /\ rep[r].phase # "Done"
              THEN [s2 EXCEPT !.refs = s2.refs - 1] ELSE s2
      s3 == IF Destroyed(u) THEN [u EXCEPT !.inReg = FALSE, !.rreg = FALSE,
                                           !.ractive = FALSE]
            ELSE u
  IN /\ rep' = [rep EXCEPT ![r] = s3]
     /\ bufQ' = IF s3.phase = "WaitBuf" THEN q ELSE q \ {r}
     /\ held' = IF Destroyed(s3) THEN h \ {r} ELSE h

Step(r, s2) == StepQ(r, s2, bufQ, held) /\ UNCHANGED poolVars

\* The client thread of r's slot is not inside another replicator's Handle.
ThreadFree(r) ==
  \A q \in Req \ {r} :
    rep[q].slot > 0 /\ rep[q].slot = rep[r].slot => rep[q].cl = "idle"

\* Replicator::Run for a recovery with invalid RS parameters: answered at
\* once, nothing is created.
RunInvalid(r) ==
  /\ rep[r].phase = "New"
  /\ rep' = [rep EXCEPT ![r].phase = "Done", ![r].status = -Core!EINVAL]
  /\ UNCHANGED <<bufQ, held, poolVars>>

\* Mutant: Replicator::Run does not Ref() the replicator it created.
RunOnNoRef(r, slot) ==
  /\ rep[r].phase = "New"
  /\ LET s    == [rep[r] EXCEPT !.inReg = TRUE, !.slot = slot]
         free == Core!CanGrant(bufQ)
     IN \E s2 \in Core!Terminate(s, Core!ENOMEM) \cup
                  (IF free THEN RSStart(r, s)
                   ELSE {[s EXCEPT !.phase = "WaitBuf"]}) :
          StepQ(r, s2, IF s2.phase = "WaitBuf" THEN bufQ \cup {r} ELSE bufQ,
                       IF free THEN held \cup {r} ELSE held)

\* Replicator::Run for valid RS parameters: the replicator is created on a
\* slot and referenced, and
\* ReplicatorImpl::Run registers it and admits it (IsOverQuota: ENOMEM;
\* GetForDiskIo: Start now, or wait for Granted).
RunOn(r, slot) ==
  /\ rep[r].phase = "New"
  /\ LET s    == [rep[r] EXCEPT !.refs = 1, !.inReg = TRUE, !.slot = slot]
         free == Core!CanGrant(bufQ)
     IN \E s2 \in Core!Terminate(s, Core!ENOMEM) \cup
                  (IF free THEN RSStart(r, s)
                   ELSE {[s EXCEPT !.phase = "WaitBuf"]}) :
          StepQ(r, s2, IF s2.phase = "WaitBuf" THEN bufQ \cup {r} ELSE bufQ,
                       IF free THEN held \cup {r} ELSE held)

\* Replicator::Run: invalid RS parameters are answered at once; otherwise
\* RSReplicatorImpl::Create takes a slot from the pool (GetMetaserver) and
\* the replicator runs on it.
Run(r) == RunInvalid(r) \/ (Pool!Create(r) /\ RunOn(r, created'[r].slot))

\* SetParameters: a new maxRecoveryThreads.
SetParameters == Pool!SetParameters /\ UNCHANGED <<rep, bufQ, held>>

\* BufferManager::Client::Granted: Start.
Granted(r) ==
  /\ r \in bufQ
  /\ Core!CanGrant({})
  /\ \E s2 \in RSStart(r, rep[r]) : StepQ(r, s2, bufQ \ {r}, held \cup {r})
  /\ UNCHANGED poolVars

\* A registry cancel (pre-emption by a newer op, CancelChunkReplication or
\* CancelAll) erases the entry and calls Cancel on the main loop.
Cancel(r) ==
  /\ rep[r].inReg
  /\ \E s2 \in RSCancel(r, [rep[r] EXCEPT !.inReg = FALSE]) : Step(r, s2)

\* The chunk manager completes the WriteOp (main loop).
WriteReply(r) ==
  /\ rep[r].phase = "Write"
  /\ \E st \in {0, -Core!EIO} : \E s2 \in RSWriteDone(r, rep[r], st) : Step(r, s2)

\* ChangeChunkVers completes (main loop), then HandleReplicationDone.
FinalizeReply(r) ==
  /\ rep[r].phase = "Finalize"
  /\ \E st \in {0, -Core!EIO} :
       LET s == rep[r]
           f == [s EXCEPT !.file = IF st = 0 /\ s.file = "dirty"
                                     THEN "stable" ELSE s.file,
                          !.fver = IF st = 0 THEN s.ver ELSE s.fver]
       IN Step(r, Core!HandleReplicationDone(f, st))

\* The client thread takes r's entry off its queue.
Dequeue(r) ==
  /\ rep[r].q /\ rep[r].cl = "idle" /\ ThreadFree(r)
  /\ Step(r, [rep[r] EXCEPT !.q = FALSE, !.cl = "Handle"])

\* The client thread runs Handle for the entry it took; the main loop may
\* have set mPendingCancelFlag and queued the entry again meanwhile.
HandleStep(r) ==
  /\ rep[r].cl = "Handle"
  /\ \E s2 \in Handle(r, [rep[r] EXCEPT !.cl = "idle"]) : Step(r, s2)

\* The reader's Done upcall for the read in flight: up to ReadSize of the
\* bytes left past mOffset + mReadTail, or an error.
ReaderData(r) ==
  LET s == rep[r] IN
  /\ s.rif /\ s.rreg /\ s.ractive /\ ~s.pclose /\ s.cl = "idle" /\ ThreadFree(r)
  /\ \E st \in {0, -Core!EIO}, act \in IF CloseAsync THEN BOOLEAN ELSE {FALSE} :
       LET n == IF st = 0 THEN Core!MinOf(ReadSize, s.dsize - (s.offset + s.rtail))
                ELSE 0
       IN \E s2 \in DoneRead(s, st, n, act) : Step(r, s2)

\* The reader's Done after Close, once inactive: clear mPendingCloseFlag
\* and drop the reference taken for it.
ReaderClosed(r) ==
  /\ rep[r].pclose /\ rep[r].rreg /\ rep[r].cl = "idle" /\ ThreadFree(r)
  /\ Step(r, [rep[r] EXCEPT !.pclose = FALSE, !.ractive = FALSE,
                            !.refs = rep[r].refs - 1])

\* An error Done with no read in flight is kept in mReadOp.status for the
\* next HandleRead.
ReaderError(r) ==
  /\ ~rep[r].rif /\ ~rep[r].pclose /\ rep[r].rreg /\ rep[r].ractive
  /\ rep[r].rdStatus = 0 /\ rep[r].cl = "idle" /\ ThreadFree(r)
  /\ Step(r, [rep[r] EXCEPT !.rdStatus = -Core!EIO])

Next ==
  \/ SetParameters
  \/ \E r \in Req :
    \/ Run(r) \/ Granted(r) \/ Cancel(r) \/ WriteReply(r) \/ FinalizeReply(r)
    \/ Dequeue(r) \/ HandleStep(r) \/ ReaderData(r) \/ ReaderClosed(r)
    \/ ReaderError(r)

\* The chunk manager, the reader and the client thread always finish what
\* they were given; the buffer manager serves its queue as grants return.
Fairness ==
  \A r \in Req :
    /\ SF_vars(Granted(r)) /\ WF_vars(WriteReply(r)) /\ WF_vars(FinalizeReply(r))
    /\ WF_vars(Dequeue(r)) /\ WF_vars(HandleStep(r)) /\ WF_vars(ReaderData(r))
    /\ WF_vars(ReaderClosed(r))

Spec == Init /\ [][Next]_vars /\ Fairness

-----------------------------------------------------------------------------
(* Properties.                                                              *)

TypeOK ==
  /\ \A r \in Req :
       LET s == rep[r] IN
       /\ s.phase \in Core!Phases \cup {"Client", "Idle"}
       /\ s.st \in {"None", "Start", "Read"} /\ s.cl \in {"idle", "Handle"}
       /\ s.status \in Core!Statuses /\ s.file \in Core!FileStates
       /\ s.refs \in 0 .. 2 /\ s.rtail \in 0 .. BLK - 1
       /\ s.offset \in 0 .. CHUNKSIZE /\ s.flen \in 0 .. CHUNKSIZE
       /\ {s.pc, s.q, s.rif, s.pclose, s.ractive, s.rreg} \subseteq BOOLEAN /\ s.slot \in Nat
  /\ bufQ \subseteq Req /\ held \subseteq Req

\* None of the die() calls fires: Enqueue's state discipline across the
\* main loop and the client thread, Handle's dispatch, and the Done
\* upcall's maxRecoverChunkSize limit.
NoDie == \A r \in Req : ~rep[r].died

\* A success answer means the staging file was made stable at the op's
\* version holding exactly the bytes the stripes yield: the Done upcall's
\* end-of-chunk detection, tail carry and mChunkSize update lose nothing and
\* stop where the data ends.
RecoveredChunkComplete ==
  \A r \in Req :
    LET s == rep[r] IN
    (s.phase = "Done" /\ s.status = 0 /\ s.respVer # -1) =>
      /\ s.file = "stable" /\ s.fver = s.respVer /\ s.flen = s.dsize

\* The replicator, whose member mReader is still closing (mPendingCloseFlag),
\* is not destroyed: the Ref() taken at Close outlives the op's answer.
RefsCoverReader == \A r \in Req : Destroyed(rep[r]) => ~rep[r].pclose

\* Every accepted recovery op is eventually answered.
EveryOpAnswered ==
  \A r \in Req : rep[r].phase \notin {"New", "Done"} ~> rep[r].phase = "Done"

\* The recovery replicator implements the replication service with the
\* mapping of Replicator, except that a cancel has reached the op once
\* mPendingCancelFlag is set on the main loop; its registry entry is the
\* inReg mark each replicator carries.
Service == INSTANCE ReplicationService
             WITH op <- [r \in Req |-> IF rep[r].phase = "New" THEN "new"
                                      ELSE IF rep[r].phase = "Done" THEN "answered"
                                      ELSE "active"],
                  ok <- [r \in Req |-> rep[r].phase = "Done" /\ rep[r].status = 0
                                          /\ rep[r].respVer # -1],
                  cancelled <- {r \in Req : rep[r].cancel \/ rep[r].pc},
                  owner <- [c \in Chunks |->
                              IF \E r \in Req : ChunkOf[r] = c /\ rep[r].inReg
                                THEN CHOOSE r \in Req : ChunkOf[r] = c /\ rep[r].inReg
                                ELSE NoReq],
                  stable <- {r \in Req : rep[r].file = "stable"}

\* Every behaviour of the recovery replicators, their reader and the client
\* thread is one of the replication service.
ImplementsReplicationService == Service!Spec

\* The safety part of the service: no step of a recovery replicator, its
\* reader or the client thread leaves the service's steps; in particular
\* once a cancel has reached an op (mPendingCancelFlag set by the main
\* loop) the op does not install its copy and answer with success, even
\* when ChangeChunkVers completes before the client thread runs
\* HandleCancel.
ServiceSafety == Service!Init /\ [][Service!Next]_Service!vars

\* HandleCancel's assert(mState == kStart) when no read is in flight holds.
HandleCancelStateAsserted == \A r \in Req : ~rep[r].assertFail
=============================================================================
