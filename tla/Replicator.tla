----------------------------- MODULE Replicator -----------------------------
(***************************************************************************)
(* Direct chunk replication (src/cc/chunk/Replicator.cc, ReplicatorImpl)   *)
(* together with the process-wide registry of in-flight replications       *)
(* (sInFlightReplications), buffer admission, the source peer and the      *)
(* local chunk store, at the granularity of the event-loop handlers.       *)
(*                                                                         *)
(* Each ReplicateChunkOp r owns one replicator whose whole state is the    *)
(* record rep[r].  Every handler of the code is one operator from a record *)
(* to the set of records it may produce (the set holds the outcomes of the *)
(* synchronous store calls it makes); the actions are the events that run  *)
(* a handler: the op arriving, a buffer grant, a peer reply, a store       *)
(* completion, and the two cancel entry points.                           *)
(***************************************************************************)
EXTENDS Integers, FiniteSets

CONSTANTS
  Req,                 \* ReplicateChunkOp requests the meta server sends
  Chunks,              \* chunk ids
  ChunkOf,             \* op->chunkId
  OpVersion,           \* op->chunkVersion
  TargetVersion,       \* op->targetVersion (negative: not set)
  Versions,            \* versions a source peer may report
  Sizes,               \* chunk sizes a source peer may report
  BLK,                 \* CHECKSUM_BLOCKSIZE
  ReadTarget,          \* the 1 MiB kDefaultReplicationReadSize rounds up
  CHUNKSIZE,           \* CHUNKSIZE
  ReadSkipDiskVerify,  \* sReadSkipDiskVerifyFlag
  BufSlots,            \* replicators the buffer manager can serve at once
  NoReq                \* an empty registry slot

ASSUME /\ \A r \in Req : /\ ChunkOf[r] \in Chunks
                          /\ OpVersion[r] \in Versions
                          /\ TargetVersion[r] \in Versions \cup {-1}
       /\ BLK \in Nat \ {0} /\ ReadTarget \in Nat \ {0}
       /\ CHUNKSIZE \in Nat \ {0} /\ ReadSkipDiskVerify \in BOOLEAN
       /\ BufSlots \in Nat \ {0} /\ NoReq \notin Req

VARIABLES
  rep,    \* rep[r]: the ReplicatorImpl of request r and its staging file
  reg,    \* sInFlightReplications: chunk id -> registered request
  bufQ,   \* BufferManager's wait queue: requests waiting for a grant
  held,   \* requests holding a buffer grant (released on destruction)
  badCk   \* history: per offset, EBADCKSUM replies r got there (capped at 2)

vars == <<rep, reg, bufQ, held, badCk>>

\* Status codes: errno values, and KFS's own checksum error code.
EPERM == 1
EIO == 5
ENOMEM == 12
EEXIST == 17
EINVAL == 22
ETIMEDOUT == 110
EHOSTUNREACH == 113
ECANCELED == 125
EBADCKSUM == 1001

\* kDefaultReplicationReadSize: ReadTarget rounded up to a checksum block.
ReadSize == ((ReadTarget + BLK - 1) \div BLK) * BLK

MinOf(a, b) == IF a <= b THEN a ELSE b

\* The statuses an op can be answered with.
Statuses == {0, -EPERM, -EIO, -ENOMEM, -EEXIST, -EINVAL, -ETIMEDOUT,
             -EHOSTUNREACH, -ECANCELED, -EBADCKSUM}

Phases == {"New", "WaitBuf", "Meta", "Read", "Write", "Finalize", "Done",
           "Aborted"}
\* The staging file as the chunk store sees it: "dirty" is version 0 in the
\* dirty directory, "stable" is after ChangeChunkVers.
FileStates == {"none", "dirty", "stable", "discarded"}

\* A readable copy of chunk c at version v exists in the store.
Readable(c, v) ==
  \E q \in Req : ChunkOf[q] = c /\ rep[q].file = "stable" /\ rep[q].fver = v

-----------------------------------------------------------------------------
(* Handlers, each from a record to the set of records it may produce.       *)

\* Mutant: the final ReplicationDone(status, fileH) call is left out.
HandleReplicationDoneKeepsFile(s, st) ==
  [s EXCEPT !.phase   = "Done",
            !.status  = IF st >= 0 THEN 0 ELSE st,
            !.respVer = IF ~s.cancel /\ st >= 0 THEN s.ver ELSE -1]

\* Mutant: the version is reported whether or not the replicator was
\* cancelled.
HandleReplicationDoneIgnoresCancel(s, st) ==
  [s EXCEPT !.phase   = "Done",
            !.status  = IF st >= 0 THEN 0 ELSE st,
            !.handle  = FALSE,
            !.file    = IF s.handle /\ st < 0 THEN "discarded" ELSE s.file,
            !.respVer = IF st >= 0 THEN s.ver ELSE -1]

\* HandleReplicationDone: release the file handle with the final status,
\* set op->status and op->chunkVersion, SubmitOpResponse.
HandleReplicationDone(s, st) ==
  [s EXCEPT !.phase   = "Done",
            !.status  = IF st >= 0 THEN 0 ELSE st,
            !.handle  = FALSE,
            !.file    = IF s.handle /\ st < 0 THEN "discarded" ELSE s.file,
            !.respVer = IF ~s.cancel /\ st >= 0 THEN s.ver ELSE -1]

\* Terminate: a finished, uncancelled copy is finalized by ChangeChunkVers,
\* which either completes later (0) or fails at once; otherwise the status
\* is normalised to a negative one.
Terminate(s, st) ==
  IF s.done /\ ~s.cancel
    THEN {[s EXCEPT !.phase = "Finalize"], HandleReplicationDone(s, -EIO)}
    ELSE {HandleReplicationDone(s, IF st < 0 THEN st
                                   ELSE IF st = 0 THEN -EPERM ELSE -st)}

\* Mutant: a replicator waiting for buffers is taken off the buffer queue
\* (CancelRequest) but not terminated.
CancelNoTerminate(s) ==
  [s EXCEPT !.cancel = TRUE,
            !.handle = FALSE,
            !.file   = IF s.handle THEN "discarded" ELSE s.file]

\* Cancel: set the flag, give the staging file back to the chunk manager
\* with -ECANCELED, and finish at once if still waiting for buffers.
Cancel(s) ==
  LET c == [s EXCEPT !.cancel = TRUE,
                     !.handle = FALSE,
                     !.file   = IF s.handle THEN "discarded" ELSE s.file]
  IN IF s.phase = "WaitBuf" THEN HandleReplicationDone(c, -ECANCELED) ELSE c

\* Start: send GetChunkMetadata to the source peer.
Start(s) == [s EXCEPT !.phase = "Meta", !.skip = ReadSkipDiskVerify]

\* Read: finish when the offset reached the size, else read the next piece.
Read(s) ==
  IF s.offset >= s.csize
    THEN LET d == s.offset = s.csize
         IN Terminate([s EXCEPT !.done = d], IF d THEN 0 ELSE -EIO)
    ELSE {[s EXCEPT !.phase = "Read",
                    !.skip  = s.skip /\ s.offset % BLK = 0,
                    !.rdOff = s.offset,
                    !.rdLen = MinOf(s.csize - s.offset, ReadSize),
                    !.tail  = 0]}

\* gChunkManager.WriteChunk: queued, or refused at once.
WriteChunk(s) == {[s EXCEPT !.phase = "Write"]} \cup Terminate(s, -EIO)

\* Mutant: no alignment of the write to checksum blocks (no tail split).
ReadDoneNoSplit(s, st, n) ==
  IF s.cancel THEN Terminate(s, ECANCELED)
  ELSE IF st = -EBADCKSUM /\ s.skip THEN Read([s EXCEPT !.skip = FALSE])
  ELSE
    LET rs == IF st >= 0 /\ n < s.rdLen /\ s.offset + n < s.csize
                THEN -EINVAL ELSE st
    IN
    IF rs < 0 \/ s.csize <= s.offset
      THEN LET d == s.offset = s.csize /\ rs >= 0
           IN Terminate([s EXCEPT !.done = d], IF d THEN 0 ELSE rs)
    ELSE IF s.offset % BLK # 0 THEN {[s EXCEPT !.phase = "Aborted"]}
    ELSE WriteChunk([s EXCEPT !.wlen = n, !.tail = 0])

\* HandleReadDone with status st and n bytes read: retry a checksum failure
\* once with disk verification, reject a short read, and write the bytes,
\* keeping a sub-block tail that ends the chunk for the next write.
ReadDone(s, st, n) ==
  IF s.cancel THEN Terminate(s, ECANCELED)
  ELSE IF st = -EBADCKSUM /\ s.skip THEN Read([s EXCEPT !.skip = FALSE])
  ELSE
    LET rs == IF st >= 0 /\ n < s.rdLen /\ s.offset + n < s.csize
                THEN -EINVAL ELSE st
    IN
    IF rs < 0 \/ s.csize <= s.offset
      THEN LET d == s.offset = s.csize /\ rs >= 0
           IN Terminate([s EXCEPT !.done = d], IF d THEN 0 ELSE rs)
    ELSE IF s.offset % BLK # 0 THEN {[s EXCEPT !.phase = "Aborted"]}
    ELSE
      LET rem   == n % BLK
          w     == IF n > BLK THEN n - rem ELSE n
          split == n > BLK /\ rem > 0 /\ s.offset + n = s.csize
      IN WriteChunk([s EXCEPT !.wlen  = w,
                              !.tail  = IF split THEN rem ELSE 0,
                              !.rdOff = IF split THEN s.offset + w ELSE s.rdOff,
                              !.rdLen = IF split THEN rem ELSE s.rdLen])

\* Mutant: the carried tail is counted as written with the aligned part.
WriteDoneCountsTail(s, st) ==
  IF s.cancel \/ st < 0 THEN Terminate(s, IF s.cancel THEN ECANCELED ELSE st)
  ELSE
    LET a == [s EXCEPT !.offset = s.offset + s.wlen + s.tail,
                       !.flen   = s.flen + s.wlen]
    IN IF a.rdOff = a.offset /\ a.tail > 0
         THEN ReadDone(a, 0, a.tail)
         ELSE Read(a)

\* HandleWriteDone: advance, then write the carried tail or read on.
WriteDone(s, st) ==
  IF s.cancel \/ st < 0 THEN Terminate(s, IF s.cancel THEN ECANCELED ELSE st)
  ELSE
    LET a == [s EXCEPT !.offset = s.offset + s.wlen,
                       !.flen   = s.flen + s.wlen]
    IN IF a.rdOff = a.offset /\ a.tail > 0
         THEN ReadDone(a, 0, a.tail)
         ELSE Read(a)

\* HandleStartDone for request r: take size and version from the source,
\* allocate the staging file at version 0 (AllocChunk) and start reading.
StartDone(r, s, st, size, v) ==
  IF s.cancel \/ st < 0 THEN Terminate(s, IF s.cancel THEN ECANCELED ELSE st)
  ELSE
    LET a   == [s EXCEPT !.csize = size, !.ver = v]
        tgt == IF TargetVersion[r] >= 0 THEN TargetVersion[r] ELSE v
    IN
    IF size < 0 \/ size > CHUNKSIZE THEN Terminate(a, EINVAL)
    ELSE IF Readable(ChunkOf[r], tgt) THEN Terminate(a, -EEXIST)
    ELSE Terminate(a, -EIO) \cup
         Read([a EXCEPT !.handle = TRUE, !.file = "dirty", !.flen = 0])

\* ReplicatorImpl::Run after the registry insert: IsOverQuota fails the op
\* with ENOMEM, else GetForDiskIo grants at once (free) and the replicator
\* starts, or queues it to wait for Granted.
Admit(s, free) ==
  Terminate(s, ENOMEM) \cup
    IF free THEN {Start(s)} ELSE {[s EXCEPT !.phase = "WaitBuf"]}

\* The buffer manager (not under src/) grants when a slot is free and
\* nobody is queued before.
CanGrant(q) == Cardinality(held) < BufSlots /\ q = {}

\* A destroyed replicator gives its buffers back.
Release(h, r, s) == IF s.phase = "Done" THEN h \ {r} ELSE h

\* Mutant: the destructor erases the chunk's entry whoever it names.
UnregisterAny(g, r, s) ==
  IF s.phase = "Done" THEN [g EXCEPT ![ChunkOf[r]] = NoReq] ELSE g

\* ~ReplicatorImpl: a finished replicator erases its registry entry if the
\* entry still names it.
Unregister(g, r, s) ==
  IF s.phase = "Done" /\ g[ChunkOf[r]] = r
    THEN [g EXCEPT ![ChunkOf[r]] = NoReq] ELSE g

\* The version CancelChunkReplication compares with.
EffectiveVersion(r) ==
  IF TargetVersion[r] < 0 THEN rep[r].ver ELSE TargetVersion[r]

-----------------------------------------------------------------------------
InitRep(r) ==
  [phase |-> "New", cancel |-> FALSE, done |-> FALSE, offset |-> 0,
   csize |-> 0, ver |-> OpVersion[r], skip |-> FALSE, rdOff |-> 0,
   rdLen |-> 0, tail |-> 0, wlen |-> 0, handle |-> FALSE, file |-> "none",
   flen |-> 0, fver |-> 0, status |-> 0, respVer |-> OpVersion[r]]

Init ==
  /\ rep = [r \in Req |-> InitRep(r)]
  /\ reg = [c \in Chunks |-> NoReq]
  /\ bufQ = {}
  /\ held = {}
  /\ badCk = [r \in Req |-> [o \in 0 .. CHUNKSIZE |-> 0]]

\* One handler of r producing s2, and r's destruction if s2 finished it.
Step(r, s2) ==
  /\ rep' = [rep EXCEPT ![r] = s2]
  /\ reg' = Unregister(reg, r, s2)
  /\ held' = Release(held, r, s2)

\* Mutant: the unreachable-peer status is set without its sign.
EarlyStatusUnsigned == {-EINVAL, EHOSTUNREACH}

\* Statuses Replicator::Run answers with before any replicator exists: a
\* malformed access header (EINVAL) or no session to the peer (EHOSTUNREACH).
EarlyStatus == {-EINVAL, -EHOSTUNREACH}

\* Replicator::Run: a malformed access header or an unreachable peer is
\* answered at once; otherwise the new replicator pre-empts (cancels) the
\* one registered for the chunk, takes its slot and asks for buffers.
Run(r) ==
  /\ rep[r].phase = "New"
  /\ \/ /\ \E st \in EarlyStatus :
             rep' = [rep EXCEPT ![r].phase = "Done", ![r].status = st]
        /\ UNCHANGED <<reg, bufQ, held>>
     \/ LET c     == ChunkOf[r]
            other == reg[c]
            rep1  == IF other = NoReq THEN rep
                     ELSE [rep EXCEPT ![other] = Cancel(rep[other])]
            reg1  == [reg EXCEPT ![c] = r]
            q1    == bufQ \ {other}
        IN \E s2 \in Admit(rep1[r], CanGrant(q1)) :
             /\ rep' = [rep1 EXCEPT ![r] = s2]
             /\ reg' = Unregister(reg1, r, s2)
             /\ bufQ' = q1 \cup (IF s2.phase = "WaitBuf" THEN {r} ELSE {})
             /\ held' = IF s2.phase = "Meta" THEN held \cup {r} ELSE held
  /\ UNCHANGED badCk

\* BufferManager::Client::Granted, once buffers were given back.
Granted(r) ==
  /\ r \in bufQ
  /\ Cardinality(held) < BufSlots
  /\ rep' = [rep EXCEPT ![r] = Start(rep[r])]
  /\ bufQ' = bufQ \ {r}
  /\ held' = held \cup {r}
  /\ UNCHANGED <<reg, badCk>>

MetaReplies ==
  [status: {0}, size: Sizes, ver: Versions] \cup
  [status: {-ETIMEDOUT}, size: {0}, ver: {0}]

\* The peer answers GetChunkMetadataOp (a timeout is an error answer).
MetaReply(r) ==
  /\ rep[r].phase = "Meta"
  /\ \E m \in MetaReplies :
       \E s2 \in StartDone(r, rep[r], m.status, m.size, m.ver) : Step(r, s2)
  /\ UNCHANGED <<bufQ, badCk>>

ReadReplies(len) ==
  [status: {0}, n: 0 .. len] \cup [status: {-EBADCKSUM, -EIO}, n: {0}]

\* The peer answers the ReadOp.
ReadReply(r) ==
  /\ rep[r].phase = "Read"
  /\ \E m \in ReadReplies(rep[r].rdLen) :
       /\ \E s2 \in ReadDone(rep[r], m.status, m.n) : Step(r, s2)
       /\ badCk' = IF m.status = -EBADCKSUM
                     THEN [badCk EXCEPT ![r][rep[r].rdOff] = MinOf(@ + 1, 2)]
                     ELSE badCk
  /\ UNCHANGED bufQ

\* The chunk manager completes the WriteOp.
WriteReply(r) ==
  /\ rep[r].phase = "Write"
  /\ \E st \in {0, -EIO} : \E s2 \in WriteDone(rep[r], st) : Step(r, s2)
  /\ UNCHANGED <<bufQ, badCk>>

\* The chunk manager completes ChangeChunkVers: on success the staging file
\* becomes the stable chunk at the source's version.
FinalizeReply(r) ==
  /\ rep[r].phase = "Finalize"
  /\ \E st \in {0, -EIO} :
       LET s == rep[r]
           f == [s EXCEPT !.file = IF st = 0 /\ s.file = "dirty"
                                     THEN "stable" ELSE s.file,
                          !.fver = IF st = 0 THEN s.ver ELSE s.fver]
       IN Step(r, HandleReplicationDone(f, st))
  /\ UNCHANGED <<bufQ, badCk>>

\* Replicator::Cancel(chunkId, targetVersion) when it finds a match (a call
\* that finds none changes nothing).
CancelChunkReplication(c, v) ==
  /\ reg[c] # NoReq
  /\ v < 0 \/ EffectiveVersion(reg[c]) = v
  /\ rep' = [rep EXCEPT ![reg[c]] = Cancel(rep[reg[c]])]
  /\ reg' = [reg EXCEPT ![c] = NoReq]
  /\ bufQ' = bufQ \ {reg[c]}
  /\ UNCHANGED <<held, badCk>>

\* Mutant: CancelAll cancels the entries but does not empty the registry.
CancelAllNoClear ==
  /\ \E c \in Chunks : reg[c] # NoReq
  /\ LET registered == {reg[c] : c \in Chunks} \ {NoReq}
     IN /\ rep' = [r \in Req |-> IF r \in registered THEN Cancel(rep[r])
                                                     ELSE rep[r]]
        /\ bufQ' = bufQ \ registered
  /\ reg' = [c \in Chunks |-> IF reg[c] # NoReq /\ rep'[reg[c]].phase = "Done"
                               THEN NoReq ELSE reg[c]]
  /\ UNCHANGED <<held, badCk>>

\* Replicator::CancelAll / Shutdown: empty the registry, cancel every entry.
CancelAll ==
  /\ \E c \in Chunks : reg[c] # NoReq
  /\ LET registered == {reg[c] : c \in Chunks} \ {NoReq}
     IN /\ rep' = [r \in Req |-> IF r \in registered THEN Cancel(rep[r])
                                                     ELSE rep[r]]
        /\ bufQ' = bufQ \ registered
  /\ reg' = [c \in Chunks |-> NoReq]
  /\ UNCHANGED <<held, badCk>>

Next ==
  \/ \E r \in Req :
       \/ Run(r) \/ Granted(r) \/ MetaReply(r) \/ ReadReply(r)
       \/ WriteReply(r) \/ FinalizeReply(r)
  \/ \E c \in Chunks, v \in Versions \cup {-1} : CancelChunkReplication(c, v)
  \/ CancelAll

\* The peer and the chunk manager always answer: each outstanding request
\* is completed (possibly with an error or timeout).  The buffer manager
\* serves its wait queue in order, so a waiter whose grant is possible
\* again and again is granted (strong fairness).
Fairness ==
  \A r \in Req :
    /\ SF_vars(Granted(r)) /\ WF_vars(MetaReply(r)) /\ WF_vars(ReadReply(r))
    /\ WF_vars(WriteReply(r)) /\ WF_vars(FinalizeReply(r))

Spec == Init /\ [][Next]_vars /\ Fairness

-----------------------------------------------------------------------------
(* Properties.                                                              *)

TypeOK ==
  /\ \A r \in Req :
       /\ rep[r].phase \in Phases /\ rep[r].file \in FileStates
       /\ rep[r].status \in Statuses
       /\ {rep[r].cancel, rep[r].done, rep[r].skip, rep[r].handle} \subseteq BOOLEAN
       /\ rep[r].offset \in 0 .. CHUNKSIZE /\ rep[r].flen \in 0 .. CHUNKSIZE
       /\ rep[r].tail \in 0 .. BLK - 1 /\ rep[r].wlen \in 0 .. ReadSize
  /\ reg \in [Chunks -> Req \cup {NoReq}]
  /\ bufQ \subseteq Req /\ held \subseteq Req
  /\ badCk \in [Req -> [0 .. CHUNKSIZE -> 0 .. 2]]

Live(r) == rep[r].phase \notin {"New", "Done"}

\* The registry (sInFlightReplications) names exactly the live, uncancelled
\* replicators: pre-emption in Run, CancelChunkReplication, CancelAll and
\* the destructor's conditional erase never leave an entry naming a
\* finished or cancelled replicator, nor a running one unregistered (so at
\* most one uncancelled replicator per chunk, and every one is cancellable).
RegistryTracksActive ==
  \A r \in Req :
    (reg[ChunkOf[r]] = r) <=> (Live(r) /\ ~rep[r].cancel)

\* Every write HandleReadDone hands to the chunk manager appends at the end
\* of the staging file, starts on a checksum block, and is whole blocks or a
\* final partial block that ends the chunk (the tail split); and its own
\* alignment check (die "invalid read completion") never fires.
AlignedAppends ==
  \A r \in Req :
    LET s == rep[r] IN
    /\ s.phase # "Aborted"
    /\ s.phase = "Write" =>
         /\ s.offset = s.flen /\ s.offset % BLK = 0
         /\ \/ s.wlen % BLK = 0
            \/ s.wlen < BLK /\ s.offset + s.wlen = s.csize

\* A response with status 0 and a chunk version means the staging file was
\* made stable at that version holding every byte the source reported.
SuccessIsComplete ==
  \A r \in Req :
    LET s == rep[r] IN
    (s.phase = "Done" /\ s.status = 0 /\ s.respVer # -1) =>
      /\ s.file = "stable" /\ s.fver = s.respVer /\ s.flen = s.csize

\* Once the op is answered its staging file is neither held nor left at
\* version 0: every failure, cancel or pre-emption hands it back to the chunk
\* manager to be discarded (ReplicationDone with a negative status).
NoOrphanStagingFile ==
  \A r \in Req :
    rep[r].phase = "Done" => ~rep[r].handle /\ rep[r].file # "dirty"

\* Every accepted ReplicateChunkOp is eventually answered (SubmitOpResponse),
\* whatever cancels and pre-emptions happen meanwhile.
EveryOpAnswered ==
  \A r \in Req : Live(r) ~> rep[r].phase = "Done"

\* Replicator implements the replication service: an op is new until Run,
\* answered once its op is submitted, and answered with success when its
\* status is 0 and it carries a chunk version; mCancelFlag is the service's
\* cancel, the registry is the service's chunk entry, and a staging file
\* made stable is the installed copy.
Service == INSTANCE ReplicationService
             WITH op <- [r \in Req |-> IF rep[r].phase = "New" THEN "new"
                                      ELSE IF rep[r].phase = "Done" THEN "answered"
                                      ELSE "active"],
                  ok <- [r \in Req |-> rep[r].phase = "Done" /\ rep[r].status = 0
                                          /\ rep[r].respVer # -1],
                  cancelled <- {r \in Req : rep[r].cancel},
                  owner <- reg,
                  stable <- {r \in Req : rep[r].file = "stable"}

\* Every behaviour of the replicators, the registry and their peers is one
\* of the replication service: answers are final, pre-emption and cancels
\* move the registry only as the service allows, a copy is installed only
\* by an uncancelled op and a success answer only follows its install.
ImplementsReplicationService == Service!Spec


\* Spec 4.6/8.7: a cancelled replicator completes with Cancelled, i.e. its
\* op never carries status 0.
CancelledNeverSucceeds ==
  \A r \in Req :
    (rep[r].phase = "Done" /\ rep[r].cancel) => rep[r].status < 0

\* Spec 4.6/8.5: a checksum failure ends a replication only after the read
\* at that same offset was retried once with disk verification.
ChecksumRetriedPerOffset ==
  \A r \in Req :
    (rep[r].phase = "Done" /\ rep[r].status = -EBADCKSUM) =>
      badCk[r][rep[r].rdOff] >= 2

=============================================================================
