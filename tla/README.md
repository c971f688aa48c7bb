# TLA+ models of the QFS chunk replicator

These modules model the two source files of the repository:

- `src/src/cc/chunk/Replicator.cc`: the chunk server component that copies a chunk from another chunk server (direct replication) or rebuilds it from Reed-Solomon stripes (recovery) when the meta server sends a `ReplicateChunkOp`;
- `src/src/cc/devtools/sslfiltertest_main.cc`: the SSL filter test, whose `Responder` is an echo server with read-ahead throttling. Its `Initiator`, `main` and option parsing are not modelled (see below).

## The system

| Part | Code | State | Operations |
|---|---|---|---|
| Registry | `ReplicatorImpl::sInFlightReplications` | chunk id → replicator | pre-emption in `ReplicatorImpl::Run`, `CancelChunkReplication`, `CancelAll`/`Shutdown`, erase in the destructor |
| Direct replicator | `ReplicatorImpl` | offset, chunk size/version, done/cancel flags, staging file handle, read and write ops | `Run`, `Granted`, `Start`, `HandleStartDone`, `Read`, `HandleReadDone`, `HandleWriteDone`, `Terminate`, `Cancel`, `HandleReplicationDone` |
| Buffer admission | `BufferManager::Client` (library) | grants, wait queue | `IsOverQuota`, `GetForDiskIo`, `Granted`, `CancelRequest` |
| Chunk store | `gChunkManager` (library) | staging file at version 0, stable chunk | `AllocChunk`, `WriteChunk`, `ChangeChunkVers`, `ReplicationDone` |
| Source peer | `RemoteSyncSM` (library) | – | `GetChunkMetadataOp`, `ReadOp` replies |
| Recovery replicator | `RSReplicatorImpl` | reader state, read tail, pending cancel/close | `Enqueue`/`Handle` thread handoff, `Start`, `Done` upcall, `HandleCancel`, `HandleStart`, `HandleRead` |
| Recovery read size | `GetReadSize`, `GetGcd`, `GetLcm`, `SetParameters` | pure | – |
| Meta-server pool | `RSReplicatorImpl::GetMetaserver`, `sAuthParams`, `sAuthUpdateCount` | last slot index, per-slot auth context and update count | `SetParameters`, `Create`, `HandleStart` (auth re-apply) |
| Front end | `Replicator::Run` | – | access-header parsing, direct/recovery routing, RS parameter validation |
| SSL echo responder | `SslFilterTest::Responder` over `NetConnection` (library) | read-ahead, write backlog, close flag, recursion depth | `EventHandler` for read, wrote, error and timeout events |

All handlers run on the chunk server's event loop. Concurrency comes from several sources:

- Events interleave between handler runs: peer replies, disk completions, buffer grants, and a new op for the same chunk.
- A cancel can arrive from another op (pre-emption), from `CancelChunkReplication`, or from `CancelAll`.
- In recovery mode, work also passes to the client thread.

## Modules

### `Replicator.tla`: registry, direct replicator, admission and store

Each request `r` has one record `rep[r]`, which holds the `ReplicatorImpl` fields and the state of its staging file. The other variables are:

- `reg`: the registry.
- `bufQ` and `held`: the buffer manager's wait queue and its grants.
- `badCk`: a history of checksum failures per offset, used by one property only.

Every handler of the code is an operator from a record to the set of records it may produce. Each synchronous store call contributes its outcomes (queued or failed at once), and the trailing calls are part of the same operator: `Terminate` → `ChangeChunkVers` → `HandleReplicationDone`. The actions are the events that run a handler:

| Action | Code |
|---|---|
| `Run(r)` | `Replicator::Run` early answers (bad header, no peer), then `ReplicatorImpl::Run`: pre-empt, insert, admit (`Admit`) |
| `Granted(r)` | `ReplicatorImpl::Granted` → `Start` |
| `MetaReply(r)` | `HandleStartDone` (`StartDone`), with `AllocChunk` |
| `ReadReply(r)` | `HandleReadDone` (`ReadDone`): checksum retry, short read, tail split, `WriteChunk` |
| `WriteReply(r)` | `HandleWriteDone` (`WriteDone`): carried tail or `Read` |
| `FinalizeReply(r)` | `ChangeChunkVers` completing, then `HandleReplicationDone` |
| `CancelChunkReplication(c, v)` | `Replicator::Cancel` → `ReplicatorImpl::CancelChunkReplication` |
| `CancelAll` | `Replicator::CancelAll` / `Shutdown` |

Destruction happens when `HandleReplicationDone` calls `UnRef`. It is part of each step (`Step`): the conditional registry erase (`Unregister`) and the release of the buffer grant (`Release`).

Data is abstracted to sizes and offsets. Sizes are in bytes with `BLK` = 2 standing for the 64 KiB checksum block, a read size of 4 bytes (`ReadTarget` 3 rounded up), and `CHUNKSIZE` 5.

### `ReplicationService.tla`: what the replicators promise

This is the abstract specification of both replicators, as the meta server sees them. Each op is `new`, `active` or `answered`. Answers are final, and `ok` marks a success answer that carries a chunk version. `cancelled` holds the ops a cancel or a pre-emption reached. `owner[c]` is the op a cancel for chunk `c` would reach, and `stable` holds the ops that installed their copy. The actions are:

- `Refuse`: an op is answered with an error at once.
- `Accept`: an op takes its chunk's entry, and the op the entry named is cancelled. Either may end at once.
- `Cancel(C)`: the ops named by the entries of the chunks in `C` are cancelled, and some of them end at once.
- `Fail`: an active op ends with an error.
- `Finish`: an active, uncancelled op installs its copy and answers with success.
- `Release`: an answered op leaves its chunk's entry.

`Release` exists because the registry entry is erased in the destructor. For a recovery whose reader is still closing, that happens after the answer. Weak fairness of `Fail \/ Finish` says every accepted op is eventually answered.

`Replicator` maps onto it with `Service == INSTANCE ReplicationService WITH ...`:

- `op` comes from the phase.
- `ok` is `status = 0` with `respVer # -1`.
- `cancelled` is `mCancelFlag`.
- `owner` is `sInFlightReplications`.
- `stable` is the set of staging files made stable.

`RSReplicator` maps the same way, with two differences. A cancel has reached the op once `mPendingCancelFlag` is set, and the registry is each replicator's `inReg` mark.

### `RSReplicator.tla`: recovery replicator and the client-thread handoff

`RSReplicatorImpl` reuses the handlers of `ReplicatorImpl`. The module takes them from `Replicator.tla` through `Core == INSTANCE Replicator WITH ...`, and adds what it overrides:

- The slot: `Run` is `Replicator::Run`. Invalid RS parameters give `RunInvalid`. Otherwise `MetaServerPool`'s `Create` (instantiated as `Pool`, with no credentials) picks the slot under the current `maxRecoveryThreads`, and `RunOn` starts the replicator on it in the same step. `SetParameters` may change `maxRecoveryThreads` between recoveries. This composes the recovery with the pool: the slot `GetMetaserver` hands out decides where the replicator's transitions run.
- `Enqueue`/`Handle`: a transition started on the main loop is queued for the slot's client thread when the slot is above 0, and run inline on slot 0. The queued entry (`q`) and the client thread's progress (`cl`) are fields of `rep[r]`. `Dequeue(r)` takes the entry off the queue, and `HandleStep(r)` runs `Handle` for it, which is where the main loop's steps interleave with the client thread. Recoveries on one slot share its client thread, a single-threaded loop (spec, scheduling model). `ThreadFree(r)` guards `Dequeue` and the reader upcalls, so the thread runs no other handler while it is inside one replicator's `Handle`.
- `Start`, `HandleStart`, `Read`, `HandleRead` and `Cancel`. A cancel on the main loop only sets `mPendingCancelFlag` and queues `HandleCancel`.
- The reader's upcalls: `ReaderData` (the `Done` upcall with its tail carry, end-of-chunk detection and `maxRecoverChunkSize` check), `ReaderClosed` and `ReaderError`.
- The asynchronous close: `Close` takes a reference (`Ref`) and sets `mPendingCloseFlag`, and the close completion drops it.

The configurations choose `maxRecoveryThreads` among {0} (every recovery inline on slot 0), {16} (each of the two on a client thread of its own) and {0, 1, 16} (any placement, including both on client thread 1). One modelling assumption is a named constant:

- `CloseAsync` says whether the reader may still be closing after `Close` returns. When it is FALSE, `Shutdown` delivers the pending close's completion at once. The code's reference-count "unwind" check in `HandleCancel` relies on exactly that.

### `MetaServerPool.tla`: meta-server slots and credential rotation

The variables are `sLastIdx`, `sMaxRecoveryThreads`, `sAuthParams`, `sAuthUpdateCount`, and, per slot of the authenticated pool, its stored update count and the parameters its context holds. `rs[o]` records what `Create` decided for op `o`: its slot, whether it is authenticated, and whether it was handed the slot's counter. The actions are:

- `SetParameters`: a new `maxRecoveryThreads` and, possibly, new auth parameters and a bump.
- `Create(o)`: the op's credentials are written through (`UpdateCredentials`), `GetMetaserver` picks the slot (`NextSlot`), and the counter is handed over only if it differs at that moment.
- `HandleStart(o)`: the re-apply under the slot's lock. The slot's counter is set to `sAuthUpdateCount` whether or not the auth context's `SetParameters` succeeded. The constant `AuthMayFail` lets it fail: the context keeps its old parameters and the recovery fails (`st = "failed"`), because the error status skips the reader's `Open`. If the recovery was handed a counter and the pools have been stopped, the meta client has no auth context and the code dies (line 1237).
- `StopMetaServers`: the `Stop` path of `GetMetaserver`, taken by `Replicator::Shutdown` after `CancelAll`. It does nothing before the first recovery. Otherwise it stops both pools: every meta client loses its auth context (`SetAuthContext(0)`) and every context is cleared. It then resets `sLastIdx` to −1. The pools are static and are never rebuilt, so `Create` of a later authenticated recovery fails its entry check and dies (line 826).

`stopped` records that the pools were stopped. `rs[o].st = "died"` records a `die()` from either check.

### `SslResponder.tla` and `EchoService.tla`: the echo server and what it promises

`SslResponder` models one accepted connection. `r` holds the Responder and its connection: `IsGood`, read-ahead on or off, the write backlog, `mCloseConnectionFlag` and whether it has deleted itself. The client is the environment: it sends `Data` units one at a time, shuts down its side, and reads the echo. Each event is one action, and each runs the whole of `EventHandler`:

- `Read`: `EVENT_NET_READ`.
- `Wrote`: `EVENT_NET_WROTE`.
- `PeerClosed`: `EVENT_NET_ERROR` on a good connection, from the read that finds the client's shutdown after every earlier byte was read.
- `PeerHangup`: `EVENT_NET_ERROR` on a good connection while reading is stopped. The poll reports the hangup of a client that closed its socket whatever the read interest, so the client's last bytes may still be unread. `HasPendingRead` then holds, the close is not marked, and reading resumes. This is the only way the pending-read branch of lines 147–148 is reached.
- `Abort`: an inactivity timeout or a broken connection.

Each action is the event's body followed by the depth-1 tail (`EventTail`). The tail is `StartFlush`, which may write at once and run the nested `EVENT_NET_WROTE` body at depth 2 (`OnWrote`). It then throttles reading (`ThrottleRead`), or deletes the Responder if the connection is closed. `NetConnection` is library code outside `src/`, so its helpers (`IsWriteReady`, `IsReadReady`, `HasPendingRead`, `Close`, `StartFlush`) are modelled from its documented behaviour and marked `spec_modelled`. The SSL record layer sits below the connection buffers and is not modelled.

`EchoService` is the abstract specification. A server takes bytes in and gives back the same number, inventing and losing none, and keeps serving. It closes either cleanly, once the client has shut down and the whole echo has been given back, or by a failure that drops what it holds. `SslResponder` implements it through this refinement mapping:

`Echo == INSTANCE EchoService WITH held <- r.toWrite, open <- ~r.deleted, failed <- aborted`

The client variables map to themselves, and the run checks `Echo!Spec` as a property. That includes the abstract spec's weak fairness of `Serve`, so the refinement also says the Responder never stops serving while there is something to take in or give back.

### `RecoveryReadSize.tla`: recovery read size

`GetGcd` (RECURSIVE, one call per loop iteration), `GetLcm`, `GetReadSize`, the `maxReadSize` rounding of `SetParameters`, and the stripe validation of `Replicator::Run`. The state machine draws one input per state, so every invariant is evaluated on every input of the bounded domain. Sizes are in units of 4 KiB, with real values:

- 64 KiB blocks and 64 MiB chunks.
- Every valid stripe size, 4 KiB up to a whole chunk.
- 1–9 data stripes.
- Quotas below, at and above the feasibility bound.
- Configured ceilings that are non-positive, unaligned, or the 1 MiB default.
- gcd/lcm operands 0..12.

## Runs

| Run | Checks | Shows |
|---|---|---|
| `replicator_main` (`MCReplicator.cfg`, pass) | `TypeOK`, `RegistryTracksActive`, `AlignedAppends`, `SuccessIsComplete`, `NoOrphanStagingFile`, `EveryOpAnswered` | Two ops for one chunk are checked with pre-emption, cancels, one buffer slot and every peer and store outcome. The registry names exactly the live, uncancelled replicators. Every write is a block-aligned append or the final partial block. A success answer means a stable file of the full size. No staging file is left behind, and every accepted op is answered. Every behaviour is one of `ReplicationService`. |
| `replicator_cancel_finalize` (`MCReplicator_cancel.cfg`, violation) | `CancelledNeverSucceeds` | A replicator pre-empted while `ChangeChunkVers` is pending answers with status 0 and chunk version −1. The spec says it completes as Cancelled. |
| `replicator_cksum_retry` (`MCReplicator_cksum.cfg`, violation) | `ChecksumRetriedPerOffset` | The disk-verify retry after `EBADCKSUM` is spent once per replication, not once per offset. |
| `read_size` (`MCRecoveryReadSize.cfg`, pass) | `GcdLcmCorrect`, `ReadSizeAligned`, `BufferRequestFitsQuota` | gcd and lcm match their definitions. The read size is a positive multiple of the block size, and a multiple of the stripe size whenever it is larger than the stripe. It fits the buffer quota whenever the quota can hold one block per stripe buffer. |
| `rs_main` (`MCRSReplicator.cfg`, pass) | `TypeOK`, `EveryOpAnswered`, `ImplementsReplicationService` | Two recoveries run on slot 0 and share one buffer slot, with cancels in every phase and reader errors. When the reader closes synchronously, every op is answered and every behaviour is one of `ReplicationService`. `NoDie` and `RecoveredChunkComplete` are checked in `rs_slots`, whose constants include slot 0 and the synchronous close. |
| `rs_slots` (`MCRSReplicator_slots.cfg`, pass) | `NoDie`, `RecoveredChunkComplete`, `RefsCoverReader` | The same two recoveries, placed by `GetMetaserver` under `maxRecoveryThreads` values in {0, 1, 16} that change between the two `Create`s: both inline, both on one shared client thread, each on its own thread, or one of each. The reader's close is asynchronous. `Enqueue`'s state discipline holds across the main loop and the client threads, and the data path stays exact. The reference taken for a pending close keeps the replicator alive. |
| `rs_close_cancel` (`MCRSReplicator_closecancel.cfg`, violation) | `EveryOpAnswered` | A recovery cancelled during its last write, while the reader's close is pending, is never answered. |
| `rs_queued_cancel` (`MCRSReplicator_queuedcancel.cfg`, violation) | `EveryOpAnswered` | The recovery runs on a client thread. A write completion or buffer grant runs between the cancel being queued and `HandleCancel`, and the op is left unanswered. |
| `rs_cancel_finalize` (`MCRSReplicator_cancelfinal.cfg`, violation) | `ServiceSafety` | The recovery runs on a client thread and is cancelled while `ChangeChunkVers` is pending. It still makes its chunk stable and answers with success, which is not a step of `ReplicationService`. |
| `pool_main` (`MCMetaServerPool.cfg`, pass) | `TypeOK`, `SlotInPool`, `CountCertifiesContext` | Three recoveries run with two client threads. `maxRecoveryThreads` takes every class of value (−1, 1, 2, 16) and changes at any time. Credentials are rotated both by `SetParameters` and by ops, and the pools may be stopped at any point. The slot index stays inside the pool. While the pools run, a slot whose counter is current has a context that holds the current credentials. |
| `pool_stale_auth` (`MCMetaServerPool_auth.cfg`, violation) | `AuthCurrentAtStart` | `SetParameters` of the auth context may fail (`AuthMayFail = TRUE`). TLC's trace has five states: `Create`, a failed `HandleStart` that still marks the slot current, `Create` on the same slot, and a `HandleStart` that skips the re-apply and starts with the old credentials. With `AuthMayFail = FALSE` the property still fails, through a rotation between `Create` and `HandleStart` (line 836). |
| `ssl_responder` (`MCSslResponder.cfg`, pass) | `TypeOK`, `BoundedWriteBehind`, `EchoCompletes`, `ResponderReleased`, `ImplementsEchoService` | The Responder's write backlog never exceeds `mMaxWriteBehind` plus one read, however slowly the client reads. Without a timeout the whole echo arrives and the Responder deletes itself. Every behaviour, timeouts included, is one of `EchoService`. |

Each property of a passing run is paired in `PROJECT.json` with a mutant: a plausible bug in the code it is about, which the run then detects.

## Findings

- **Cancelled replication reports success (`replicator_cancel_finalize`, Replicator.cc:685).** `HandleReplicationDone` takes the status from `ChangeChunkVers` and only the version from `mCancelFlag`.
- **Checksum retry is spent once per replication (`replicator_cksum_retry`, Replicator.cc:523).** `skipVerifyDiskChecksumFlag` is cleared for the rest of the replication.
- **Queued cancel loses the answer (`rs_queued_cancel`, Replicator.cc:1195).** `Read` and `Start` return because a cancel is pending, and `HandleCancel` then finds `mState == kNone`. Nothing answers the op.
  - The stuck op also keeps its reference and its buffer grant. Under the `rs_slots` constants with one client thread and `CloseAsync = FALSE`, TLC shows that a second recovery waiting in `bufQ` is never granted (`rep[r].phase = "WaitBuf" ~> rep[r].phase # "WaitBuf"` fails in eleven states). One lost cancel therefore stalls every later recovery that needs buffers. This is observed only: it is the same defect as the line above.
- **Cancel during a pending close loses the answer (`rs_close_cancel`, Replicator.cc:1185).** `HandleCancel`'s unwind check returns before `ReplicatorImpl::Cancel`.
- **A cancel of a client-thread recovery can lose to `ChangeChunkVers` (`rs_cancel_finalize`, Replicator.cc:915).** `ServiceSafety` is the safety part of the `ReplicationService` refinement. TLC violates it in seven states: `Run`, `Dequeue`, `HandleStep`, `ReaderData` (the chunk is read and `ChangeChunkVers` is issued), `Cancel`, `FinalizeReply`.
  - `RSReplicatorImpl::Cancel` only sets `mPendingCancelFlag` and queues `HandleCancel`.
  - If `ChangeChunkVers` completes on the main loop first, `HandleReplicationDone` does not see `mCancelFlag`. The op installs its chunk and answers success, although the registry has already handed the chunk to the op that pre-empted it.
  - The direct replicator discards its staging file at the cancel.
  - The spec (4.6) calls cancellation edge-triggered, with the file handle released at once.
  - The replicator can also drop its last reference while `HandleCancel` is still queued. Whether that is safe depends on `RSReplicatorEntry`, which is library code.
- **Reachable assert (Replicator.cc:1205), observed.** A reader `Done` can arrive while a cancel is queued. `HandleCompletion` then ignores it and leaves `mState == kRead` with no read in flight. `HandleCancel` next reaches `assert(mState == kStart)`. A debug build aborts, and a release build answers `ECANCELED`. `HandleCancelStateAsserted` states the assert, and TLC violates it under the client-thread constants with `CloseAsync = FALSE`. It has no run: release builds answer correctly, while the line-915 race also reaches them.
- **Authenticated recoveries after `Replicator::Shutdown` die (Replicator.cc:826 and 1237), observed.** `MetaServerPool!NoDie` is violated in four states: `Create`, `StopMetaServers`, and an authenticated `Create`. The spec (section 3, `CancelAll`) admits registrations during the shutdown sweep. Whether the chunk server still takes `ReplicateChunkOp`s after `Shutdown` is up to its caller, which is not under `src/`, so there is no run. A client-thread `HandleStart` that passed `Handle`'s unlocked cancel check before the stop dies the same way.
- **A failed credential update is never retried (`pool_stale_auth`, Replicator.cc:1228).** `HandleStart` stores `sAuthUpdateCount` in the slot (line 1234) even when the auth context rejected the parameters. Every later recovery on that slot then skips the re-apply, and uses the old credentials until the parameters change again.
- **Credential rotation is checked at creation, not at start (`pool_stale_auth`, Replicator.cc:836).** This is the second way the run's property fails. It is TLC's counterexample when `AuthMayFail = FALSE`, and is found after about 57,000 states. `Create` hands over the slot's counter only if it differs at that moment, so a rotation before `HandleStart` is never applied. The spec (4.7) says the check is made at the start of each recovery.

## Bounds

- **Direct replication.**
  - Two requests on one chunk. This is the least that exercises pre-emption in every phase.
  - Versions {1, 2}, with one target version set. This makes `CancelChunkReplication` both match and miss.
  - Sizes {−1, 0, 3, 5, 6}: invalid, empty, 1½ blocks (tail split), exactly `CHUNKSIZE`, and over the limit.
  - One buffer slot, so the second replicator queues.
- **Recovery.**
  - Two requests on two chunks, sharing one buffer slot.
  - Reconstructable data sizes {0, 3, 5, 8} with a read size of 4 and a block of 2. These give an empty chunk, a partial read, a tail carried across reads, and a chunk that ends exactly on a read. `MaxRecover` equals `CHUNKSIZE`.
  - Two client threads. With two recoveries, `maxRecoveryThreads` values 0, 1 and 16 reach every placement: inline, one shared thread, and separate threads.
  - The violation runs fix one placement each, so each race is shown in the smallest state space.
  - With one buffer slot, two recoveries share a client thread when the waiting one is cancelled while the other runs. Two buffer slots (2.35 million states, about a minute) let both copy at once on one thread. With that instance nothing ever waits for a grant. `NoDie`, `RecoveredChunkComplete` and `RefsCoverReader` also hold there.
- **Pool.**
  - Two client threads (three slots) and three ops, the least for the index to wrap.
  - `maxRecoveryThreads` in {−1, 1, 2, 16}: non-positive, below, at, and above the pool size.
  - Two key ids and two keys.
  - At most two rotations (`MaxAuthCount`).
  - `AuthMayFail` is FALSE in `pool_main`, where a failed update would trivially break `CountCertifiesContext`. It is TRUE in `pool_stale_auth`. The composed recovery model takes it as FALSE, since it has no credentials.
- **Responder.** The client sends 7 units, with reads of up to 2 and a write-behind limit of 2. This is enough for the backlog to cross the limit, for reading to stop and resume more than once, and for a flush to be partial.

Larger bounds multiply the interleavings without adding a new case.

## Fairness

- **Replicator and RSReplicator.**
  - The peer, the chunk manager, the RS reader and the client thread always finish a request they were given. A network timeout is modelled as an error reply. These steps are weakly fair.
  - A queued `Granted` is strongly fair, because the buffer manager serves its wait queue as grants are returned.
  - Cancels and new ops come from outside and have no fairness.
  - The system legitimately stops once every op is answered, so deadlock checking is off.
- **SslResponder.**
  - The network loop delivers every enabled event, and the test client keeps sending, shutting down and reading. These are weakly fair.
  - Timeouts, resets and hangups need not happen and have no fairness. A client that only shuts down its sending side causes no hangup.
  - Once the Responder has deleted itself and the client has read everything, nothing is enabled. That is the intended end, so deadlock checking is off.
- **MetaServerPool.** Only safety is checked. The model stops when every op has started or died, so deadlock checking is off.

## Not modelled, and the plan

- **Access-header text parsing.** Abstracted to its outcome, an early `-EINVAL`.
- **Counters and logging.** No property reads them.
- **`GetMetaserver`'s slot 0 on threads.** `GetMetaserver` pre-increments the index, so with client threads the first recovery gets slot 1 and slot 0 is used only when there are no threads. `SlotInPool` is unaffected. The model reproduces this, and no property depends on it.
- **`SetParameters`' reset flag.** Lines 775–778 read `sRSReaderMetaResetConnectionOnOpTimeoutFlag` from the `meta.idleTimeoutSec` key, which looks like a copy-paste slip. Any non-zero idle timeout therefore turns the reset on, and the flag cannot be set by its own key. It configures the meta-server client library, whose behaviour is outside `src/` and not modelled.
- **`sslfiltertest` Initiator, `main` and option parsing.** The `Initiator` is never constructed by `main`. Its flow control has a recursion counter leak at line 436. The static `Run` calls itself at line 70, and the `CreateKfsCallbackObj` condition at line 561 is inverted. These are listed as hazards in `PROJECT.json`. The rest is socket and SSL-library I/O.
- **Credentials in the composed recovery model.** `RSReplicator` instantiates the pool with no authenticated ops, so its `HandleStart` leaves the pool's credential state alone, as the code does when no counter was handed over. Adding credentials there would replay `pool_stale_auth`'s traces with whole recoveries. It would add no new question, and the state space would grow with every key value.
