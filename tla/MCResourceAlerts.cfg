\* Long enough for two alerts of the evictions rule: a baseline and evictions
\* in minute 0, more in minute 1, a quiet minute, and evictions in 3 and 4.
SPECIFICATION MCSpec
CONSTANTS
    c1 = c1
    Container = {c1}
    Rule = {"cpu", "redis_evictions"}
    Threshold = 0
    Duration = 1
    StaleAfter = 1
    PerMinute = 2
    MaxTime = 5
    MaxEvicted = 4
    MaxChanges = 1
    MaxFailures = 1
INVARIANTS
    OneAlertPerEpisode
    DeltasAreReal
PROPERTIES
    AlertsGetOut
