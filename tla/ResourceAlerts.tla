--------------------------- MODULE ResourceAlerts ---------------------------
(***************************************************************************)
(* Threshold alerts of one service.  The collector turns the cumulative    *)
(* counters of redis into one delta per minute                             *)
(* (internal/service/performance_collector.go, internal/dbstats); the      *)
(* sampler stores a sample of each container, and evaluates a rule on the  *)
(* newest samples or on the last completed minute                          *)
(* (internal/service/resources.go, performance_alerts.go).  The two run    *)
(* side by side; time is counted in minutes.                               *)
(* The names that HttpIngest uses as well carry another name here, so that *)
(* the proofs about both halves of the collector can stand in one module.  *)
(***************************************************************************)
EXTENDS Integers, Sequences, FiniteSets, Functions

CONSTANTS Container,   \* containers of the service
          Rule,        \* its enabled rules: "cpu" and "redis_evictions"
          Threshold,   \* Threshold of the evictions rule
          Duration,    \* DurationSecs of every rule
          StaleAfter,  \* collectorStaleAfter
          PerMinute,   \* passes of the collector in a minute: two by default
          MaxTime,     \* bound: the clock
          MaxEvicted,  \* bound: keys redis evicts
          MaxChanges,  \* bound: changes of the world that nobody asked for
          MaxFailures  \* bound: failed calls and restarts

ASSUME AlertAssumption ==
    /\ IsFiniteSet(Container) /\ Rule \subseteq {"cpu", "redis_evictions"}
    /\ Threshold \in Nat /\ Duration \in Nat \ {0} /\ StaleAfter \in Nat
    /\ PerMinute \in Nat \ {0}
    /\ MaxTime \in Nat /\ MaxEvicted \in Nat /\ MaxChanges \in Nat /\ MaxFailures \in Nat

VARIABLES
    clock, changes, failures,
    cpu,        \* of each container: "low", "high", or "none" when it is gone
    counter,    \* evicted_keys of redis; a restart of redis clears it
    evicted,    \* history: keys evicted ever
    collector,  \* [at, minute, value]: where collectRedis is
    passes,     \* passes begun in this minute
    baseline,   \* c.redisBaseline, None without one
    buckets,    \* redis_metric_buckets: of each minute [value, delta, reset]
    deltas,     \* history: the deltas ever stored for each minute
    success,    \* last_success_at of the row "redis", None without one
    latest,     \* metrics: the newest sample of each container
    todo,       \* the rules the pass of the sampler has still to evaluate
    breaches,   \* s.breaches: [start, fired]
    alerts      \* history: when each rule fired since the process started

world   == <<cpu, counter, evicted, changes>>
redis   == <<collector, passes, baseline, buckets, deltas, success>>
sampler == <<latest, todo, breaches, alerts>>
alertsVars == <<clock, world, redis, sampler, failures>>

None     == -1
NoBucket == [value |-> 0, delta |-> None, reset |-> FALSE]
NoBreach == [start |-> None, fired |-> FALSE]
Idle     == [at |-> "idle", minute |-> 0, value |-> 0]

AlertsTypeOK ==
    /\ clock \in 0 .. MaxTime /\ changes \in 0 .. MaxChanges /\ failures \in 0 .. MaxFailures
    /\ cpu \in [Container -> {"low", "high", "none"}]
    /\ counter \in 0 .. MaxEvicted /\ evicted \in 0 .. MaxEvicted
    /\ collector \in [at : {"idle", "upsert", "record"}, minute : Nat, value : Nat]
    /\ passes \in 0 .. PerMinute /\ baseline \in Int /\ success \in Int
    /\ buckets \in [0 .. MaxTime -> [value : Nat, delta : Int, reset : BOOLEAN]]
    /\ deltas \in [0 .. MaxTime -> SUBSET [delta : 0 .. MaxEvicted, reset : BOOLEAN]]
    /\ latest \in [Container -> {"low", "high", "none"}]
    /\ todo \subseteq Rule
    /\ breaches \in [Rule -> [start : Int, fired : BOOLEAN]]
    /\ alerts \in [Rule -> Seq(0 .. MaxTime)]

AlertsInit ==
    /\ clock = 0 /\ changes = 0 /\ failures = 0
    /\ cpu \in [Container -> {"low", "high"}] /\ counter = 0 /\ evicted = 0
    /\ collector = Idle /\ passes = 0 /\ baseline = None
    /\ buckets = [m \in 0 .. MaxTime |-> NoBucket] /\ success = None
    /\ deltas = [m \in 0 .. MaxTime |-> {}]
    /\ latest = [c \in Container |-> "none"] /\ todo = {}
    /\ breaches = [r \in Rule |-> NoBreach] /\ alerts = [r \in Rule |-> << >>]

Failure == failures < MaxFailures /\ failures' = failures + 1
NoFailure == UNCHANGED failures

-----------------------------------------------------------------------------
(* collectRedis: the snapshot, the bucket of the minute in which the pass  *)
(* began, the cursor.                                                      *)
Snapshot ==
    /\ collector.at = "idle" /\ passes < PerMinute /\ passes' = passes + 1
    /\ \/ /\ NoFailure /\ UNCHANGED success
          /\ collector' = [at |-> "upsert", minute |-> clock, value |-> counter]
       \/ Failure /\ success' \in {success, None} /\ UNCHANGED collector
    /\ UNCHANGED <<clock, world, baseline, buckets, deltas, sampler>>

(* A fault of the next definition: without a baseline the counter itself   *)
(* is the delta.                                                           *)
metricDelta_Whole(value) ==
    IF baseline # None /\ value < baseline THEN [delta |-> 0, reset |-> TRUE]
    ELSE [delta |-> IF baseline = None THEN value ELSE value - baseline, reset |-> FALSE]

(* CounterDelta: no baseline is no delta, a lower value is a reset.        *)
metricDelta(value) ==
    IF baseline = None THEN [delta |-> 0, reset |-> FALSE]
    ELSE IF value < baseline THEN [delta |-> 0, reset |-> TRUE]
    ELSE [delta |-> value - baseline, reset |-> FALSE]

Replace(m, value, change) ==
    /\ buckets' = [buckets EXCEPT ![m] =
                      [value |-> value, delta |-> change.delta, reset |-> change.reset]]
    /\ deltas' = [deltas EXCEPT ![m] = @ \cup {change}]

(* UpsertRedis replaces the bucket of the minute; then the value is the new baseline.  A *)
(* failure records the source as failed: a cursor that cannot be read is   *)
(* replaced by one without a success.                                      *)
UpsertRedis ==
    /\ collector.at = "upsert"
    /\ \/ /\ NoFailure /\ collector' = [collector EXCEPT !.at = "record"]
          /\ Replace(collector.minute, collector.value, metricDelta(collector.value))
          /\ baseline' = collector.value /\ UNCHANGED success
       \/ /\ Failure /\ collector' = Idle
          /\ success' \in {success, None} /\ UNCHANGED <<buckets, deltas, baseline>>
    /\ UNCHANGED <<clock, world, passes, sampler>>

RecordSuccess ==
    /\ collector.at = "record" /\ collector' = Idle
    /\ \/ NoFailure /\ success' = clock
       \/ Failure /\ UNCHANGED success
    /\ UNCHANGED <<clock, world, passes, baseline, buckets, deltas, sampler>>

-----------------------------------------------------------------------------
(* collect: a sample of every container whose stats could be read.  What a *)
(* container that is gone left behind stays the newest of its name.        *)
Sample ==
    /\ todo = {} /\ todo' = Rule
    /\ \E failed \in SUBSET {c \in Container : cpu[c] # "none"} :
          /\ IF failed = {} THEN NoFailure ELSE Failure
          /\ latest' = [c \in Container |->
                          IF cpu[c] = "none" \/ c \in failed THEN latest[c] ELSE cpu[c]]
    /\ UNCHANGED <<clock, world, redis, breaches, alerts>>

(* A fault of the next definition: a source that is stale reads as zero.   *)
AlertValue_Zero(r) ==
    IF r = "cpu"
    THEN [available |-> TRUE, above |-> \E c \in Container : latest[c] = "high"]
    ELSE LET fresh == success # None /\ clock - success <= StaleAfter /\ clock > 0 IN
         [available |-> TRUE, above |-> fresh /\ buckets[clock - 1].delta > Threshold]

(* What a rule is compared with: the newest samples, or the last completed *)
(* minute of a source that is fresh and has a bucket that is no reset.     *)
AlertValue(r) ==
    IF r = "cpu"
    THEN [available |-> TRUE, above |-> \E c \in Container : latest[c] = "high"]
    ELSE LET fresh  == success # None /\ clock - success <= StaleAfter /\ clock > 0
             bucket == IF fresh THEN buckets[clock - 1] ELSE NoBucket
         IN [available |-> bucket # NoBucket /\ ~bucket.reset,
             above     |-> bucket.delta > Threshold]

(* A value at or below the threshold ends the episode.                     *)
Recovered(r) == breaches' = [breaches EXCEPT ![r] = NoBreach] /\ UNCHANGED alerts

(* A fault of the next definition: the latch is set before the             *)
(* notification is stored.                                                 *)
Breaching_Latched(r) ==
    LET start == IF breaches[r].start = None THEN clock ELSE breaches[r].start
        due   == ~breaches[r].fired /\ clock - start >= Duration
    IN \/ /\ NoFailure
          /\ breaches' = [breaches EXCEPT ![r] = [start |-> start, fired |-> @.fired \/ due]]
          /\ alerts' = IF due THEN [alerts EXCEPT ![r] = Append(@, clock)] ELSE alerts
       \/ /\ due /\ Failure /\ UNCHANGED alerts
          /\ breaches' = [breaches EXCEPT ![r] = [start |-> start, fired |-> TRUE]]

(* A fault of the next definition: the first value above fires.            *)
Breaching_AtOnce(r) ==
    \/ /\ NoFailure
       /\ breaches' = [breaches EXCEPT ![r] = [start |-> clock, fired |-> TRUE]]
       /\ alerts' = IF breaches[r].fired THEN alerts
                    ELSE [alerts EXCEPT ![r] = Append(@, clock)]
    \/ Failure /\ UNCHANGED <<breaches, alerts>>

(* The start is remembered; after the duration the rule fires, and only a  *)
(* notification that was stored latches it.                                *)
Breaching(r) ==
    LET start == IF breaches[r].start = None THEN clock ELSE breaches[r].start
        due   == ~breaches[r].fired /\ clock - start >= Duration
    IN \/ /\ NoFailure
          /\ breaches' = [breaches EXCEPT ![r] = [start |-> start, fired |-> @.fired \/ due]]
          /\ alerts' = IF due THEN [alerts EXCEPT ![r] = Append(@, clock)] ELSE alerts
       \/ due /\ Failure /\ UNCHANGED <<breaches, alerts>>

Evaluate(r) ==
    /\ r \in todo /\ todo' = todo \ {r}
    /\ \/ AlertValue(r).available /\ AlertValue(r).above /\ Breaching(r)
       \/ AlertValue(r).available /\ ~AlertValue(r).above /\ NoFailure /\ Recovered(r)
       \/ ~AlertValue(r).available /\ NoFailure /\ UNCHANGED <<breaches, alerts>>
    /\ UNCHANGED <<clock, world, redis, latest>>

-----------------------------------------------------------------------------
Tick ==
    /\ clock < MaxTime /\ clock' = clock + 1 /\ passes' = 0
    /\ UNCHANGED <<world, collector, baseline, buckets, deltas, success, sampler, failures>>

Evict ==
    /\ evicted < MaxEvicted /\ evicted' = evicted + 1 /\ counter' = counter + 1
    /\ UNCHANGED <<clock, cpu, changes, redis, sampler, failures>>

ClearCounter ==
    /\ changes < MaxChanges /\ changes' = changes + 1 /\ counter' = 0
    /\ UNCHANGED <<clock, cpu, evicted, redis, sampler, failures>>

Load(c, level) ==
    /\ changes < MaxChanges /\ changes' = changes + 1
    /\ cpu' = [cpu EXCEPT ![c] = level]
    /\ UNCHANGED <<clock, counter, evicted, redis, sampler, failures>>

(* A restart of touchgrass forgets baselines and episodes.                 *)
ProcessRestart ==
    /\ Failure
    /\ collector' = Idle /\ passes' = 0 /\ baseline' = None
    /\ todo' = {} /\ breaches' = [r \in Rule |-> NoBreach]
    /\ alerts' = [r \in Rule |-> << >>]
    /\ UNCHANGED <<clock, world, buckets, deltas, success, latest>>

collectRedis == Snapshot \/ UpsertRedis \/ RecordSuccess
Pass    == Sample \/ \E r \in Rule : Evaluate(r)

AlertsNext ==
    \/ collectRedis \/ Pass \/ Tick \/ Evict \/ ClearCounter \/ ProcessRestart
    \/ \E c \in Container, level \in {"low", "high", "none"} : Load(c, level)

(* The tickers of the two loops never stop; time passes.                   *)
Fairness == WF_alertsVars(collectRedis) /\ WF_alertsVars(Pass) /\ WF_alertsVars(Tick)

AlertsSpec == AlertsInit /\ [][AlertsNext]_alertsVars /\ Fairness

-----------------------------------------------------------------------------
(* Between two alerts of the evictions rule lies a completed minute with a *)
(* bucket that showed the evictions had stopped: neither a stale source,   *)
(* nor a missing bucket, nor a reset of redis ends an episode.  A restart  *)
(* of touchgrass does: it forgets the episode and may announce the same    *)
(* one again, so the alerts compared are those of one process.             *)
Quiet(m) == m >= 0 /\ \E b \in deltas[m] : ~b.reset /\ b.delta <= Threshold
Heavy(m) == m >= 0 /\ \E b \in deltas[m] : b.delta > Threshold

Fired(r) == IF r \in Rule THEN alerts[r] ELSE << >>

OneAlertPerEpisode ==
    LET fired == Fired("redis_evictions") IN
    \A k \in 2 .. Len(fired) : \E m \in fired[k - 1] - 1 .. fired[k] - 1 : Quiet(m)

(* An alert is sustained: the last completed minute is above the threshold *)
(* and so was one that is older by the duration of the rule.               *)
SustainedBeforeAlert ==
    LET fired == Fired("redis_evictions") IN
    \A k \in DOMAIN fired :
        Heavy(fired[k] - 1) /\ \E m \in 0 .. fired[k] - 1 - Duration : Heavy(m)

(* Over any number of passes, failures, restarts and resets the deltas     *)
(* never add up to more than redis evicted.                                *)
Evictions == SumFunction([m \in 0 .. MaxTime |->
                             IF buckets[m] = NoBucket THEN 0 ELSE buckets[m].delta])

DeltasAreReal == Evictions <= evicted

(* A breach that lasts for the duration is announced, also if the first    *)
(* notification could not be stored.                                       *)
Overdue(r) == r \in Rule /\ breaches[r].start # None /\ clock - breaches[r].start >= Duration

AlertsGetOut == Overdue("cpu") ~> (Fired("cpu") # << >> \/ ~Overdue("cpu"))

(* The console offers the rule as evictions per minute, and AlertValue     *)
(* calls its value that of one completed minute: as long as nothing fails, *)
(* is restarted or reset, the delta of a minute is what the counter grew   *)
(* by since the minute before.                                             *)
MinutesAreWhole ==
    failures = 0 /\ changes = 0 =>
        \A m \in 1 .. MaxTime :
            buckets[m] # NoBucket /\ buckets[m - 1] # NoBucket =>
                buckets[m].delta = buckets[m].value - buckets[m - 1].value
=============================================================================
