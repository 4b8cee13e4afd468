SPECIFICATION Spec
CONSTANTS
    None = None
    Parameters <- MCParameters
    WORD = 8
    WINDOW = 2
    BYTE = 2
    SEED_BYTES = 3
    SEED_LEN = 2
    VEC_K_SIZE_BYTES = 1
    SALT_SIZE_BYTES = 2
    SHAKE256_512_BYTES = 4
    shake256 <- MCshake256
    Seeds <- MCSeeds
    Characters = {"1", "3", "5", "x"}
    DamagedBits <- MCDamagedBits
    MaxSessions = 2
INVARIANTS
    ProductsAreCyclic
    DecryptionSeesTheNoise
    KeysAgree
    DamagedIsRejected
    NothingSecretRemains
    SessionsRepeat
CHECK_DEADLOCK FALSE
