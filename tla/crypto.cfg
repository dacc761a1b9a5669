SPECIFICATION Spec
CONSTANTS
    Quarter = 2
    WordBytes = 2
    IPad = 6
    OPad = 12
    Xor <- MCXor
    Or <- MCOr
    compress <- MCCompress
    encryptBlock <- MCEncryptBlock
    decryptBlock <- MCDecryptBlock
    Keys <- MCKeys
    Magic <- MCMagic
    Jobs <- MCJobs
    Sizes <- MCSizes
    Salts <- MCSalts
    Reuse = TRUE
INVARIANTS
    TypeOK
    CiphertextIsReference
    MacIsFunction
    KeyIsFunction
PROPERTY Delivers
CHECK_DEADLOCK FALSE
