SPECIFICATION PostingSpec
CONSTANTS
    alice = alice
    bob = bob
    carol = carol
    t1 = t1
    NULL = NULL
    Wallets <- MCWallets
    Threads <- MCThreads
    Bytes = {0}
    Genesis <- MCGenesis
    UpgradeAuthority = alice
    FirstByte <- MCFirstByte
    LamportsPerByte = 1
    U32Max = 3
    U64Max = 100000
    CONTENT_SLOTS = 2
    MAX_BODY_LEN = 1
    MAX_TITLE_LEN = 1
    APPEND_WINDOW_SECS = 1
    N_TREASURY_SHARDS = 1
    N_AUTHOR_FEE_SHARDS = 1
    N_FOLLOWER_SHARDS = 1
    MAX_FOLLOWS = 1
    MAX_FEE_CUT_BPS = 5000
    DEFAULT_BPS = 0
    FeeInputs = {0}
    BpsInputs = {}
    TreasuryInputs = {}
    TitleInputs = {0}
    BodyInputs = {}
    CandidateInputs = {}
    MaxFeeInputs = {1000}
    SweepInputs = {}
    GiftInputs = {}
    MaxTime = 0
    Feed = t1
    ExtendThreshold = 2
    MaxCandidates = 2
    MaxFee = 1000
    MaxLost = 1
INVARIANTS
    RefusedOnlyIfTaken
    NoRunawayGrowth
PROPERTIES
    EveryPosterPosts
CHECK_DEADLOCK FALSE
