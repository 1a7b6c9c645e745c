SPECIFICATION Spec
CONSTANTS
    Letters = {"a"}
    BufferSize = 5
    MaxFile = 7
INVARIANTS
    TypeOK
    LoadsWhatIsWritten
PROPERTIES
    LoadEnds
\* load() returns.
CHECK_DEADLOCK FALSE
