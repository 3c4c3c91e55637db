CONSTANTS
    Byte = {0, 1}
    Zero = 0
    Chunk <- MCChunk
    s_prepend = 2
    InitialSize = 5
    SizeMax = 1000
    MaxReadable = 5
    AppendsAfterPrepend = FALSE
SPECIFICATION Spec
INVARIANT TypeOK
PROPERTY ImplementsByteFifo
