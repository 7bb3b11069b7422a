SPECIFICATION Spec
CONSTANT
    MaxChunks = 3
INVARIANT
    StreamingIsNotTimed
