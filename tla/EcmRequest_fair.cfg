CONSTANTS
    NumReaders = 3
    CWs = {cw1}
    NoCw = NoCw
    NoReader = NoReader
    Setups <- FairSetups
    MaxTimerJobs = 1
SPECIFICATION FairSpec
PROPERTIES EventuallyAnswered AnswersAsPromised
CHECK_DEADLOCK FALSE
