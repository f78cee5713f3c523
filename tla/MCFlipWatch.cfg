CONSTANTS
    Service = {api}
    BlueGreen = {api}
    Request = {r1}
    FaultySinks = {}
    MaxFaults = 2
SPECIFICATION WatchSpec
PROPERTIES
    WatchConverges
CHECK_DEADLOCK FALSE
