SPECIFICATION BodiesSpec
CONSTANTS
    NULL = NULL
    KIND_IMAGE = 1
    MAX_BODY_LEN = 5
    KindInputs = {0, 1, 2}
    BodyInputs <- MCBodyInputs
    ImageInputs <- MCImages
    MaxChunks = 3
INVARIANTS
    DecodeCanonical
    ImageIntactOrRefused
    ReadersAgree
