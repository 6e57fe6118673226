SPECIFICATION ChecksSpec
CONSTANTS
    alice = alice
    bob = bob
    t1 = t1
    t2 = t2
    forged = forged
    Foreign = {forged}
    ForgedInputs <- MCForged
    NULL = NULL
    Wallets <- MCWallets
    Threads <- MCThreads
    Bytes = {0}
    Genesis <- MCGenesis
    UpgradeAuthority = alice
    FirstByte <- MCFirstByte
    LamportsPerByte = 1
    U32Max = 2
    U64Max = 1000000
    CONTENT_SLOTS = 1
    MAX_BODY_LEN = 1
    MAX_TITLE_LEN = 1
    APPEND_WINDOW_SECS = 1
    N_TREASURY_SHARDS = 1
    N_AUTHOR_FEE_SHARDS = 1
    N_FOLLOWER_SHARDS = 1
    MAX_FOLLOWS = 1
    MAX_FEE_CUT_BPS = 5000
    DEFAULT_BPS = 0
    FeeInputs = {0}
    BpsInputs = {}
    TreasuryInputs = {}
    TitleInputs = {0}
    BodyInputs <- MCBodies
    CandidateInputs <- MCCandidates
    MaxFeeInputs = {1000}
    SweepInputs = {}
    GiftInputs <- MCGifts
    MaxTime = 0
INVARIANTS
    ForeignRefused
    ExistingExact
    AbsentExact
