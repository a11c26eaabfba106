CONSTANTS
    Calls <- MCCalls
    MaxWord = 1073741823
    Layers = 4
    KvCapacities <- MCKvCapacities
    RowCounts <- MCRowCounts
SPECIFICATION FlowSpec
INVARIANTS
    PlanTypeOK
    LiveRequestsKeepApart
    PlanFits
    OperandsAreCurrent
    NoKernelAliases
    DeclaredLiveWhileUsed
    OperandsStayInside
PROPERTIES
    SearchEnds
CHECK_DEADLOCK FALSE
