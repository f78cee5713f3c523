CONSTANTS
    Service = {api, worker}
    BlueGreen = {api}
    Request = {r1, r2}
    FaultySinks = {"notifications"}
    MaxFaults = 1
SPECIFICATION MCSpec
INVARIANTS
    OneRunPerService
    ReceiptsComplete
    HistoryMatchesNginx
PROPERTIES
    SerialSpec
    RunsFinish
CHECK_DEADLOCK FALSE
