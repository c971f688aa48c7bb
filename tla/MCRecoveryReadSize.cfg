CONSTANTS
    IoBuf = 1
    BLK = 16
    CHUNKSIZE = 16384
    HeaderSize = 4
    MinStripe = 1
    MaxStripe = 16384
    StripeAlign = 1
    MaxStripes = 9
    Quotas <- MCQuotas
    ReadCfgs <- MCReadCfgs
    GcdBound = 12
SPECIFICATION Spec
INVARIANTS
    GcdLcmCorrect
    ReadSizeAligned
    BufferRequestFitsQuota
