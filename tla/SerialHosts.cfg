SPECIFICATION Spec
CONSTANTS
    Candidates = 3
    Answers = {0, 1, 2, 3}
    Connectors = {"c1", "c2"}
    Disconnects = {"d1", "d2"}
    MaxConnects = 2
    CommandLines <- MCCommandLines
    Dashed <- MCDashed
    Requests <- MCRequests
    FaultServices <- MCFaultServices
    MaxRequests = 2
    MaxModules = 2
    Samples = 1
INVARIANTS PortReleased ReportKeepsItsWord
CHECK_DEADLOCK FALSE
