-------------------------- MODULE SecurityFindings --------------------------
(***************************************************************************)
(* The finding episodes of internal/service/security.go and                *)
(* internal/store/security.go, fed by the posture, process and diff        *)
(* scanners: an observation opens an episode, repeats it or resolves it;   *)
(* operators acknowledge, resolve and suppress episodes; elapsed           *)
(* suppressions are reopened by a ticker, by every read of the findings    *)
(* and by the observations themselves.                                     *)
(*                                                                         *)
(* A key is the fingerprint of a finding: container, rule and baseline.    *)
(* One goroutine evaluates a key at a time.  A transaction is one step.    *)
(***************************************************************************)
EXTENDS Naturals, Sequences, FiniteSets

CONSTANTS
    Key,         \* fingerprints
    Relative,    \* those judged against a baseline in memory: process.pid_spike
    Horizon,     \* bound: where the clock stops
    MaxOps,      \* bound: operator calls
    MaxFaults,   \* bound: changes of the world, partial scans, trimmed rows
    MaxRestarts  \* bound: restarts of the process

ASSUME KeysAssumption == Relative \subseteq Key
ASSUME BoundsAssumption ==
    Horizon \in Nat /\ MaxOps \in Nat /\ MaxFaults \in Nat /\ MaxRestarts \in Nat

Active == {"open", "acknowledged", "suppressed"}
Status == Active \cup {"resolved", "trimmed"}

(* A deadline; a suppression without one lasts for ever.                   *)
Forever  == Horizon + 1
Deadline == 0 .. Forever

(* A row of security_findings.  opened and told count, for the properties, *)
(* how often the episode was opened and how often that was announced.      *)
Finding == [key : Key, episode : Nat, status : Status, until : Deadline,
            by : {"nobody", "collector", "operator"},
            notice : {"none", "delivered", "degraded"},
            opened : Nat, told : Nat]

(* What a scan read: whether the rule matched, on a complete snapshot or   *)
(* not, when, and (for the properties) whether the condition was there.    *)
Observation == [detected : BOOLEAN, complete : BOOLEAN, at : Nat, truth : BOOLEAN]

(* Callers of expireSuppressions.                                          *)
Reader == {"ticker", "request"}

VARIABLES
    findings,  \* the rows, by id
    present,   \* the keys whose condition holds in the containers
    base,      \* ProcessScanner.baselines: learned calm, or during a spike
    streak,    \* ProcessScanner.spikes
    stage, obs, \* of the evaluation of each key
    row,       \* the row it has to announce, 0 for none
    sweep,     \* of each Reader: its step, its clock and its rows
    now,
    ops, faults, restarts

vars == <<findings, present, base, streak, stage, obs, row, sweep, now, ops, faults, restarts>>

memory == <<base, streak>>
scan   == <<stage, obs, row>>
bounds == <<ops, faults, restarts>>

TypeOK ==
    /\ findings \in Seq(Finding)
    /\ present \subseteq Key
    /\ base \in [Relative -> {"none", "calm", "spike"}]
    /\ streak \in [Relative -> 0 .. 2]
    /\ stage \in [Key -> {"idle", "read", "tell"}]
    /\ obs \in [Key -> Observation]
    /\ row \in [Key -> Nat]
    /\ sweep \in [Reader -> [stage : {"idle", "listed", "moved", "tell"},
                             at : Nat, ids : SUBSET Nat]]
    /\ now \in Nat
    /\ ops \in Nat /\ faults \in Nat /\ restarts \in Nat

Nothing == [detected |-> FALSE, complete |-> FALSE, at |-> 0, truth |-> FALSE]
Idle    == [stage |-> "idle", at |-> 0, ids |-> {}]

Init ==
    /\ findings = <<>>
    /\ present \in SUBSET Key
    /\ base = [k \in Relative |-> "none"]
    /\ streak = [k \in Relative |-> 0]
    /\ stage = [k \in Key |-> "idle"]
    /\ obs = [k \in Key |-> Nothing]
    /\ row = [k \in Key |-> 0]
    /\ sweep = [p \in Reader |-> Idle]
    /\ now = 0
    /\ ops = 0 /\ faults = 0 /\ restarts = 0

----------------------------------------------------------------------------
(* Helpers.                                                                *)

Stored(i) == findings[i].status # "trimmed"

ActiveOf(k) == {i \in DOMAIN findings : findings[i].key = k /\ findings[i].status \in Active}

(* Faulty variants: suppressed episodes are overlooked; the deadline is    *)
(* not looked at; a new episode is numbered by the rows that are left.     *)
Found_Unsuppressed(k) == {i \in ActiveOf(k) : findings[i].status # "suppressed"}
Lapsed_Any(i, t) == findings[i].status = "suppressed"
NextEpisode_Count(k) == Cardinality({i \in DOMAIN findings : Stored(i) /\ findings[i].key = k}) + 1

(* findOpenFinding: the active episode of a fingerprint.                   *)
Found(k) == ActiveOf(k)

(* suppressed_until <= t.                                                  *)
Lapsed(i, t) == findings[i].status = "suppressed" /\ findings[i].until <= t

(* COALESCE(MAX(episode), 0) + 1 over the rows of the fingerprint.         *)
NextEpisode(k) ==
    LET seen == {0} \cup {findings[i].episode : i \in {j \in DOMAIN findings :
                                                    Stored(j) /\ findings[j].key = k}}
    IN  (CHOOSE n \in seen : \A m \in seen : m <= n) + 1

NewFinding(k) ==
    [key |-> k, episode |-> NextEpisode(k), status |-> "open", until |-> 0,
     by |-> "nobody", notice |-> "none", opened |-> 1, told |-> 0]

(* Faulty variant: a status of its own, which the column does not know.    *)
Reopened_Named(f) == [f EXCEPT !.status = "reopened", !.opened = @ + 1]

Reopened(f) == [f EXCEPT !.status = "open", !.opened = @ + 1]

(* notifyOpened and the emit after it: delivery may fail.                  *)
Announce(i) ==
    \E notice \in {"delivered", "degraded"} :
        /\ findings' = [findings EXCEPT ![i].told = @ + 1, ![i].notice = notice]
        /\ faults' = IF notice = "degraded" THEN faults + 1 ELSE faults
        /\ faults' <= MaxFaults

----------------------------------------------------------------------------
(* A scanner looks at the container of a key.                              *)

Level(k) == IF k \in present THEN "spike" ELSE "calm"

(* observeCount: the first complete count after a start is the baseline;   *)
(* above it, the second count in a row is a sustained spike.               *)
ObserveCount(k) ==
    /\ base' = [base EXCEPT ![k] = IF @ = "none" THEN Level(k) ELSE @]
    /\ streak' = [streak EXCEPT ![k] =
                     IF base[k] = "calm" /\ k \in present THEN (IF @ = 0 THEN 1 ELSE 2) ELSE 0]

Read(k, detected, complete) ==
    /\ stage[k] = "idle"
    /\ stage' = [stage EXCEPT ![k] = "read"]
    /\ obs' = [obs EXCEPT ![k] = [detected |-> detected, complete |-> complete,
                                  at |-> now, truth |-> k \in present]]
    /\ UNCHANGED <<findings, present, row, sweep, now, ops, restarts>>

ScanComplete(k) ==
    /\ IF k \in Relative
       THEN ObserveCount(k) /\ Read(k, streak'[k] = 2, TRUE)
       ELSE Read(k, k \in present, TRUE) /\ UNCHANGED memory
    /\ UNCHANGED faults

(* The docker call failed or was cut short: nothing is seen, or (posture)  *)
(* what the last inspection said.                                          *)
ScanPartial(k) ==
    /\ faults < MaxFaults
    /\ faults' = faults + 1
    /\ \E detected \in IF k \in Relative THEN {FALSE} ELSE BOOLEAN : Read(k, detected, FALSE)
    /\ UNCHANGED memory

----------------------------------------------------------------------------
(* SecurityStore.Evaluate, one transaction, by its outcomes.               *)

After(k, next, id) ==
    /\ stage[k] = "read"
    /\ stage' = [stage EXCEPT ![k] = next]
    /\ row' = [row EXCEPT ![k] = id]
    /\ obs' = [obs EXCEPT ![k] = Nothing]
    /\ UNCHANGED <<present, memory, sweep, now, bounds>>

OpenEpisode(k) ==
    /\ After(k, "tell", Len(findings) + 1)
    /\ obs[k].detected /\ Found(k) = {}
    /\ findings' = Append(findings, NewFinding(k))

RepeatEpisode(k) ==
    /\ obs[k].detected
    /\ \E i \in Found(k) :
          IF Lapsed(i, obs[k].at)
          THEN After(k, "tell", i) /\ findings' = [findings EXCEPT ![i] = Reopened(@)]
          ELSE After(k, "idle", 0) /\ UNCHANGED findings

(* Faulty variants: acknowledged episodes are left to the operator;        *)
(* coverage is not looked at.                                              *)
Recover_Open(k) ==
    /\ ~obs[k].detected /\ obs[k].complete
    /\ After(k, "idle", 0)
    /\ \E i \in Found(k) :
          findings' = [findings EXCEPT ![i].status = IF @ = "acknowledged" THEN @ ELSE "resolved",
                                       ![i].by = "collector"]

Recover_Partial(k) ==
    /\ ~obs[k].detected
    /\ After(k, "idle", 0)
    /\ \E i \in Found(k) :
          findings' = [findings EXCEPT ![i].status = "resolved", ![i].by = "collector"]

(* The recovery event follows; nobody keeps it.                            *)
Recover(k) ==
    /\ ~obs[k].detected /\ obs[k].complete
    /\ After(k, "idle", 0)
    /\ \E i \in Found(k) :
          findings' = [findings EXCEPT ![i].status = "resolved", ![i].by = "collector"]

(* Nothing detected and nothing proved; an elapsed suppression is reopened *)
(* all the same, and the result reports no transition.                     *)
NoTransition(k) ==
    /\ ~obs[k].detected
    /\ After(k, "idle", 0)
    /\ IF Found(k) = {} THEN UNCHANGED findings
       ELSE /\ ~obs[k].complete
            /\ \E i \in Found(k) :
                  findings' = [findings EXCEPT ![i] =
                      IF Lapsed(i, obs[k].at) THEN Reopened(@) ELSE @]

(* The database is busy: the scan of the container ends with the error.    *)
EvaluateFails(k) ==
    /\ faults < MaxFaults
    /\ stage[k] = "read"
    /\ stage' = [stage EXCEPT ![k] = "idle"]
    /\ obs' = [obs EXCEPT ![k] = Nothing]
    /\ faults' = faults + 1
    /\ UNCHANGED <<findings, present, memory, row, sweep, now, ops, restarts>>

NotifyOpened(k) ==
    /\ stage[k] = "tell"
    /\ Announce(row[k])
    /\ stage' = [stage EXCEPT ![k] = "idle"]
    /\ row' = [row EXCEPT ![k] = 0]
    /\ UNCHANGED <<present, memory, obs, sweep, now, ops, restarts>>

Evaluate(k) ==
    \/ OpenEpisode(k) \/ RepeatEpisode(k) \/ Recover(k) \/ NoTransition(k) \/ NotifyOpened(k)

----------------------------------------------------------------------------
(* expireSuppressions: the ids are listed outside the transaction that     *)
(* moves them, and read back after it.                                     *)

Sweep(p, step) == sweep' = [sweep EXCEPT ![p] = step]

ListExpired(p) ==
    LET ids == {i \in DOMAIN findings : Lapsed(i, now)} IN
    /\ sweep[p].stage = "idle" /\ ids # {}
    /\ Sweep(p, [stage |-> "listed", at |-> now, ids |-> ids])
    /\ UNCHANGED <<findings, present, memory, scan, now, bounds>>

(* Faulty variant: the listed rows are taken for the moved ones.           *)
ReopenExpired_Listed(p) ==
    /\ sweep[p].stage = "listed"
    /\ findings' = [i \in DOMAIN findings |->
           IF i \in sweep[p].ids /\ Lapsed(i, sweep[p].at) THEN Reopened(findings[i]) ELSE findings[i]]
    /\ Sweep(p, [sweep[p] EXCEPT !.stage = "moved"])
    /\ UNCHANGED <<present, memory, scan, now, bounds>>

ReopenExpired(p) ==
    LET moved == {i \in sweep[p].ids : Lapsed(i, sweep[p].at)} IN
    /\ sweep[p].stage = "listed"
    /\ findings' = [i \in DOMAIN findings |->
                       IF i \in moved THEN Reopened(findings[i]) ELSE findings[i]]
    /\ Sweep(p, [sweep[p] EXCEPT !.stage = "moved", !.ids = moved])
    /\ UNCHANGED <<present, memory, scan, now, bounds>>

(* A row that is gone ends the sweep with an error.                        *)
ReloadMoved(p) ==
    LET ids == sweep[p].ids IN
    /\ sweep[p].stage = "moved"
    /\ Sweep(p, IF \A i \in ids : Stored(i)
                THEN [sweep[p] EXCEPT !.stage = "tell",
                                      !.ids = {i \in ids : findings[i].status = "open"}]
                ELSE Idle)
    /\ UNCHANGED <<findings, present, memory, scan, now, bounds>>

AnnounceMoved(p) ==
    /\ sweep[p].stage = "tell"
    /\ IF sweep[p].ids = {}
       THEN Sweep(p, Idle) /\ UNCHANGED <<findings, faults>>
       ELSE \E i \in sweep[p].ids :
               Announce(i) /\ Sweep(p, [sweep[p] EXCEPT !.ids = @ \ {i}])
    /\ UNCHANGED <<present, memory, scan, now, ops, restarts>>

(* The client of a request goes away: its context is cancelled, and the    *)
(* transaction, or the reading back after it, fails.                       *)
CancelRequest ==
    /\ faults < MaxFaults
    /\ sweep["request"].stage \in {"listed", "moved"}
    /\ faults' = faults + 1
    /\ Sweep("request", Idle)
    /\ UNCHANGED <<findings, present, memory, scan, now, ops, restarts>>

Continue(p) == ReopenExpired(p) \/ ReloadMoved(p) \/ AnnounceMoved(p)

----------------------------------------------------------------------------
(* Operators.                                                              *)

Operate(i, from) ==
    /\ ops < MaxOps
    /\ ops' = ops + 1
    /\ findings[i].status \in from
    /\ UNCHANGED <<present, memory, scan, sweep, now, faults, restarts>>

Acknowledge(i) ==
    /\ Operate(i, {"open"})
    /\ findings' = [findings EXCEPT ![i].status = "acknowledged"]

Resolve(i) ==
    /\ Operate(i, Active)
    /\ findings' = [findings EXCEPT ![i].status = "resolved", ![i].by = "operator"]

Suppress(i) ==
    /\ Operate(i, {"open", "acknowledged"})
    /\ \E until \in (now + 1) .. Forever :
          findings' = [findings EXCEPT ![i].status = "suppressed", ![i].until = until]

----------------------------------------------------------------------------
(* The world.                                                              *)

ConditionChanges(k) ==
    /\ faults < MaxFaults
    /\ faults' = faults + 1
    /\ present' = IF k \in present THEN present \ {k} ELSE present \cup {k}
    /\ UNCHANGED <<findings, memory, scan, sweep, now, ops, restarts>>

(* Retention deletes resolved rows, by age or when over budget.            *)
Trim(i) ==
    /\ faults < MaxFaults
    /\ faults' = faults + 1
    /\ findings[i].status = "resolved"
    /\ findings' = [findings EXCEPT ![i].status = "trimmed"]
    /\ UNCHANGED <<present, memory, scan, sweep, now, ops, restarts>>

Tick ==
    /\ now < Horizon
    /\ now' = now + 1
    /\ UNCHANGED <<findings, present, memory, scan, sweep, bounds>>

Restart ==
    /\ restarts < MaxRestarts
    /\ restarts' = restarts + 1
    /\ base' = [k \in Relative |-> "none"]
    /\ streak' = [k \in Relative |-> 0]
    /\ stage' = [k \in Key |-> "idle"]
    /\ row' = [k \in Key |-> 0]
    /\ obs' = [k \in Key |-> Nothing]
    /\ sweep' = [p \in Reader |-> Idle]
    /\ UNCHANGED <<findings, present, now, ops, faults>>

Next ==
    \/ \E k \in Key : ScanComplete(k) \/ ScanPartial(k) \/ Evaluate(k) \/ EvaluateFails(k)
                         \/ ConditionChanges(k)
    \/ \E p \in Reader : ListExpired(p) \/ Continue(p)
    \/ CancelRequest
    \/ \E i \in DOMAIN findings : Acknowledge(i) \/ Resolve(i) \/ Suppress(i) \/ Trim(i)
    \/ Tick
    \/ Restart

Spec == Init /\ [][Next]_vars

(* The scanners and the expiry run on tickers; time passes.  Nobody has to *)
(* read the findings, and no scan has to fail.                             *)
FairSpec ==
    /\ Spec
    /\ \A k \in Key : WF_vars(ScanComplete(k)) /\ WF_vars(Evaluate(k))
    /\ WF_vars(ListExpired("ticker"))
    /\ \A p \in Reader : WF_vars(Continue(p))
    /\ WF_vars(Tick)
----------------------------------------------------------------------------
(* Properties.                                                             *)

(* However scans, expiry and operators interleave, a fingerprint has one   *)
(* active episode at most: what idx_security_findings_open_episode would   *)
(* otherwise turn into a failing scan.                                     *)
OneActiveEpisode ==
    \A i, j \in DOMAIN findings :
        /\ findings[i].status \in Active
        /\ findings[j].status \in Active
        /\ findings[i].key = findings[j].key
        => i = j

(* The episodes of a fingerprint that are kept are numbered in the order   *)
(* they were opened, also when retention has deleted some of them.         *)
EpisodesAscend ==
    \A i, j \in DOMAIN findings :
        /\ Stored(i) /\ Stored(j)
        /\ findings[i].key = findings[j].key
        /\ i < j
        => findings[i].episode < findings[j].episode

(* An opening is announced once at most, although an observation, the      *)
(* ticker and any number of requests may find it due at the same time.     *)
AnnouncedOnce ==
    \A i \in DOMAIN findings : findings[i].told <= findings[i].opened

(* "Partial coverage cannot resolve prior evidence": the collector closes  *)
(* an episode only on an observation of a container in which the condition *)
(* was not there.                                                          *)
ClosedOnProof ==
    [][\A i \in DOMAIN findings :
          findings[i].by = "nobody" /\ findings'[i].by = "collector"
          => LET o == obs[findings[i].key] IN o.complete /\ ~o.truth]_vars

(* An operator's suppression holds until its deadline: until then the      *)
(* finding can be resolved but never shows up as open again.               *)
SuppressionHolds ==
    [][\A i \in DOMAIN findings :
          findings[i].status = "suppressed" /\ findings'[i].status = "open"
          => findings[i].until <= now]_vars

(* The findings end up agreeing with the containers: a condition that      *)
(* stays has an active episode again, also after operators resolved it,    *)
(* one that is gone for good has none, and no elapsed suppression stays.   *)
FindingsConverge ==
    /\ \A k \in Key \ Relative : <>[](k \in present) => <>[](Found(k) # {})
    /\ \A k \in Key : <>[](k \notin present) => <>[](Found(k) = {})
    /\ <>[](\A i \in DOMAIN findings : ~Lapsed(i, now))

(* "emits notifications only on open/recovery transitions": an episode     *)
(* that is opened, or opened again, is announced, unless an operator has   *)
(* dealt with it by then.                                                  *)
OpeningsAnnounced ==
    \A k \in Key :
        (\E i \in Found(k) : findings[i].opened > findings[i].told /\ findings[i].status = "open")
        ~> ~(\E i \in Found(k) : findings[i].opened > findings[i].told /\ findings[i].status = "open")
=============================================================================
