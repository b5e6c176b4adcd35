CONSTANTS
    NumReaders = 3
    CWs = {cw1, cw2}
    NoCw = NoCw
    NoReader = NoReader
    Setups <- SafetySetups
    MaxTimerJobs = 1
SYMMETRY Symmetry
SPECIFICATION Spec
INVARIANTS TypeOK AnsweredOnce FoundIsGenuine NotFoundIsFinal AskedOnce
PROPERTIES EscalationInOrder AnswerKept
CHECK_DEADLOCK FALSE
