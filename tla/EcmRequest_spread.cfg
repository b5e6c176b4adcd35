CONSTANTS
    NumReaders = 2
    CWs = {cw1}
    NoCw = NoCw
    NoReader = NoReader
    Setups <- SpreadSetups
    MaxTimerJobs = 1
SPECIFICATION Spec
PROPERTIES BadEcmNotSpread
CHECK_DEADLOCK FALSE
