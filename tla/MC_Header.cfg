SPECIFICATION Spec
CONSTANTS
    PrefixSize = 65536
    LasHeader = 375
    VlrHeader = 54
    InfoSize = 160
    Files <- MCFiles
INVARIANTS
    OpensWhatFits
    VerdictOfTheVlrs
CHECK_DEADLOCK FALSE
