-------------------------- MODULE RecoveryReadSize --------------------------
(***************************************************************************)
(* The read size of a Reed-Solomon recovery (RSReplicatorImpl, in         *)
(* src/src/cc/chunk/Replicator.cc): GetReadSize, GetGcd, GetLcm and the    *)
(* rounding of chunkServer.rsReader.maxReadSize in SetParameters.  These   *)
(* are pure functions; the state machine below only draws one input per   *)
(* state, so that TLC evaluates every invariant on every input of a        *)
(* bounded domain.  Sizes are in units of the I/O buffer size (4 KiB).     *)
(***************************************************************************)
EXTENDS Integers

CONSTANTS
    IoBuf,          \* IOBufferData::GetDefaultBufferSize()
    BLK,            \* CHECKSUM_BLOCKSIZE
    CHUNKSIZE,      \* CHUNKSIZE
    HeaderSize,     \* kChunkHeaderSize: the least buffer request of Run
    MinStripe,      \* KFS_MIN_STRIPE_SIZE
    MaxStripe,      \* KFS_MAX_STRIPE_SIZE
    StripeAlign,    \* KFS_STRIPE_ALIGNMENT
    MaxStripes,     \* largest numStripes enumerated
    Quotas,         \* values of BufferManager::GetMaxClientQuota()
    ReadCfgs,       \* values of chunkServer.rsReader.maxReadSize
    GcdBound        \* GetGcd / GetLcm are checked on 0..GcdBound

ASSUME BLK % IoBuf = 0 /\ CHUNKSIZE % BLK = 0 /\ MinStripe > 0

VARIABLE inp

MaxOf(a, b) == IF a >= b THEN a ELSE b
MinOf(a, b) == IF a <= b THEN a ELSE b

\* A mutant of GetGcd: the loop stops at a remainder of 1 instead of 0.
RECURSIVE GetGcdStopsAtOne(_, _)
GetGcdStopsAtOne(a, b) == IF b <= 1 THEN a ELSE GetGcdStopsAtOne(b, a % b)

\* Euclid's loop of GetGcd, one recursion per iteration.
RECURSIVE GetGcd(_, _)
GetGcd(a, b) == IF b = 0 THEN a ELSE GetGcd(b, a % b)

GetLcm(nl, nr) == IF nl = 0 \/ nr = 0 THEN 0 ELSE (nl \div GetGcd(nl, nr)) * nr

\* SetParameters: the configured ceiling, at least 1, rounded up to a block.
MaxReadSizeOf(v) == ((MaxOf(1, v) + BLK - 1) \div BLK) * BLK

\* A mutant of GetReadSize: the per-stripe budget divides by numStripes
\* rather than by the numStripes + 1 buffers the recovery holds.
GetReadSizeBudgetOffByOne(maxRead, quota, n, stripe) ==
    LET size == MaxOf(BLK, MinOf(maxRead, ((quota \div MaxOf(1, n)) \div BLK) * BLK))
        l1   == GetLcm(BLK, stripe)
        l2   == GetLcm(IoBuf, stripe)
    IN  IF size <= stripe THEN size
        ELSE IF l1 <= size THEN (size \div l1) * l1
        ELSE IF l2 <= size THEN (size \div l2) * l2
        ELSE l2

\* A mutant of GetReadSize: the budget is not rounded down to a block.
GetReadSizeUnrounded(maxRead, quota, n, stripe) ==
    LET size == MaxOf(BLK, MinOf(maxRead, quota \div MaxOf(1, n + 1)))
        l1   == GetLcm(BLK, stripe)
        l2   == GetLcm(IoBuf, stripe)
    IN  IF size <= stripe THEN size
        ELSE IF l1 <= size THEN (size \div l1) * l1
        ELSE IF l2 <= size THEN (size \div l2) * l2
        ELSE l2

\* GetReadSize: the per-stripe budget, clamped to [BLK, maxRead]; a stripe
\* at least as large is read in budget-sized pieces, otherwise the size is
\* rounded down to a multiple of lcm(BLK, stripe), or of lcm(IoBuf, stripe)
\* when the former does not fit, or set to that lcm when neither fits.
GetReadSize(maxRead, quota, n, stripe) ==
    LET size == MaxOf(BLK, MinOf(maxRead, ((quota \div MaxOf(1, n + 1)) \div BLK) * BLK))
        l1   == GetLcm(BLK, stripe)
        l2   == GetLcm(IoBuf, stripe)
    IN  IF size <= stripe THEN size
        ELSE IF l1 <= size THEN (size \div l1) * l1
        ELSE IF l2 <= size THEN (size \div l2) * l2
        ELSE l2

\* Replicator::Run's validation of the stripe size of a recovery request.
ValidStripe(s) ==
    /\ MinStripe <= s /\ s <= MaxStripe
    /\ CHUNKSIZE % s = 0
    /\ s % StripeAlign = 0

\* The inputs: a validated recovery request under a configuration, or a
\* pair of operands for the gcd / lcm helpers.
RSInputs ==
    [kind : {"rs"}, cfg : ReadCfgs, quota : Quotas, n : 1..MaxStripes,
     stripe : {s \in MinStripe..MaxStripe : ValidStripe(s)}]
GcdInputs == [kind : {"gcd"}, a : 0..GcdBound, b : 0..GcdBound]

Init == inp \in RSInputs \cup GcdInputs
Next == inp' \in RSInputs \cup GcdInputs
Spec == Init /\ [][Next]_inp

ReadSize(i) == GetReadSize(MaxReadSizeOf(i.cfg), i.quota, i.n, i.stripe)

\* GetBufferBytesRequired, as requested by ReplicatorImpl::Run.
BufferRequest(i) == MaxOf(HeaderSize, ReadSize(i) * (i.n + 1))

-----------------------------------------------------------------------------
\* Reference definitions.
IsGcd(d, a, b) ==
    d = IF a = 0 /\ b = 0 THEN 0
        ELSE CHOOSE x \in 1..MaxOf(a, b) :
                /\ a % x = 0 /\ b % x = 0
                /\ \A y \in x+1..MaxOf(a, b) : ~(a % y = 0 /\ b % y = 0)
IsLcm(m, a, b) ==
    m = IF a = 0 \/ b = 0 THEN 0
        ELSE CHOOSE x \in 1..a*b : x % a = 0 /\ x % b = 0
                                   /\ \A y \in 1..x-1 : ~(y % a = 0 /\ y % b = 0)

\* GetGcd and GetLcm compute the greatest common divisor and the least
\* common multiple of their operands, zero operands included.
GcdLcmCorrect ==
    inp.kind = "gcd" =>
        /\ IsGcd(GetGcd(inp.a, inp.b), inp.a, inp.b)
        /\ IsLcm(GetLcm(inp.a, inp.b), inp.a, inp.b)

\* The read size of every validated recovery is a positive multiple of the
\* checksum block (and so of the I/O buffer, the constructor's assertion),
\* and reads of a stripe smaller than it cover whole stripes.
ReadSizeAligned ==
    inp.kind = "rs" =>
        LET rs == ReadSize(inp) IN
        /\ rs > 0 /\ rs % BLK = 0 /\ rs % IoBuf = 0
        /\ rs > inp.stripe => rs % inp.stripe = 0

\* Whenever the client quota can hold one block per stripe buffer and the
\* chunk header, the buffers a recovery asks for in Run fit the quota, so
\* the recovery is not refused as over quota.
BufferRequestFitsQuota ==
    inp.kind = "rs" /\ inp.quota >= MaxOf(HeaderSize, BLK * (inp.n + 1))
        => BufferRequest(inp) <= inp.quota
=============================================================================
