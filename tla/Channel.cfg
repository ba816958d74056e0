SPECIFICATION FairSpec
CONSTANTS
    MaxEvents = 3
    MaxFaults = 2
    Take = 2
INVARIANTS TypeOK NoGapInside NothingLeftOpen
PROPERTIES Resubscribes CloseReturns
CHECK_DEADLOCK FALSE
