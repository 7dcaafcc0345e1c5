SPECIFICATION Spec
CONSTANTS
    B = 1
    REGION = 8
    GeneralRegs = {0, 1, 2, 31}
    Values <- MCValues
    Memories <- MCMemories
    Kinds <- MCKinds
    Programs <- MCPrograms
PROPERTIES
    MachineFollowsInterpreter
    ArithmeticIsExact
CHECK_DEADLOCK FALSE
