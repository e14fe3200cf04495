\* The bytes of one file or symbolic link under every call, against a flat file.
SPECIFICATION Spec
CONSTANTS
    BlockSize = 2
    MaxSize = 4
    MaxLen = 2
    Bytes <- MCBytes
INVARIANTS
    BlocksTypeOK
    NothingPastSize
PROPERTIES
    RefinesAbstractFile
