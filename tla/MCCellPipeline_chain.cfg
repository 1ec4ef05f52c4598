CONSTANTS
    RowSeq <- TwoProjections
    ProjOf <- Proj
    RowCells <- OneCellRows
    Padding <- CrossPadding
    Modes <- Both
    InStore <- SomeStored
    NotInArchive <- Archives
    Readers = 2
    Combiners = 2
    RawCap = 2
    CombCap = 2
    OutCap = 1
    ResCap = 1
    Throttle = 1
    WriteCap = 1
    FaultKinds <- AllFaults
    MaxFaults = 1
SPECIFICATION Spec
INVARIANTS
    NothingLeftBehind
    FailureHasCause
    RowsAreComplete
    ManualHasCause
    HitsStayCached
CHECK_DEADLOCK FALSE
PROPERTY RunEnds
