\* A loop and a handler before one permit, a limit of two failures, two
\* migrations, and one failure or crash of the process.
SPECIFICATION Spec
CONSTANTS
    Loop = {sampler}
    Handler = {request}
    Caller = {sampler, request}
    MaxConcurrent = 1
    FailureLimit = 2
    Cooldown = 1
    MaxFailures = 3
    MaxVersion = 2
    MaxFaults = 1
INVARIANTS
    BurstBounded
    MigratedOnce
PROPERTIES
    ProcessCycles
    CallsGoOn
