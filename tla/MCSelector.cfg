\* Standard input is closed and 1 and 2 stay open, so the listeners have 0 and 3;
\* two more numbers, and one resolver thread.
CONSTANTS
    t1 = t1
    Free = Free
    Fds = {0, 3, 4, 5}
    SocksListener = 0
    MonitorListener = 3
    Threads = {t1}
SPECIFICATION FairSpec
INVARIANTS
    TypeOK
    DescriptorsStayWithTheirOwners
    ExemptionsLeakOnlyByFailedAccepts
PROPERTIES
    TimeoutsWorkAndTurnsEnd
