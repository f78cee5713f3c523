------------------------------ MODULE Cutover ------------------------------
(***************************************************************************)
(* The deploy engine of internal/service/cutover.go: every cutover,        *)
(* rollback and recreate deploy is resolved, claims its service, runs a    *)
(* script in a goroutine of its own, is verified, recorded, announced,     *)
(* audited and released.                                                   *)
(*                                                                         *)
(* A request is one call of Start, StartDeploy or StartRollback; it is     *)
(* used once.  Its steps interleave with those of the other requests, with *)
(* out-of-band moves of the nginx conf, with the deletion of a service and *)
(* with a restart of the process.                                          *)
(***************************************************************************)
EXTENDS Naturals, Sequences, FiniteSets

CONSTANTS
    Service,      \* ids of the managed services
    BlueGreen,    \* those with strategy bluegreen; the others are recreate
    Request,      \* calls of the three Start operations
    FaultySinks,  \* tables whose INSERT may fail (a busy or full database)
    MaxFaults     \* bound: out-of-band flips, restarts and deletions together

Color  == {"blue", "green"}
Sink   == {"deploys", "notifications", "audit"}
Kind   == {"cutover", "deploy", "rollback"}
Wanted == Color \cup {"auto"}

ASSUME ServicesAssumption == BlueGreen \subseteq Service
ASSUME SinksAssumption == FaultySinks \subseteq Sink
ASSUME BoundsAssumption == MaxFaults \in Nat

(* What probe.LiveTarget can find in an nginx conf.                        *)
Live == Color \cup {"legacy", "unreadable"}

(* A target of a run: a color, or the compose service of a recreate run.   *)
Target == Color \cup {"compose", "none"}

(* The body of a request; only a cutover names a target.                   *)
Ask == {a \in [service : Service, kind : Kind, target : Wanted] :
           a.kind = "cutover" \/ a.target = "auto"}

Outcome == {"success", "failure"}

(* The stages of execute, in order, and those around them.                 *)
Executing == {"claimed", "script", "flipped", "killed", "verify", "record",
              "finish", "notify", "audit", "release"}
Stage     == {"new", "resolved", "rejected", "done", "lost"} \cup Executing

VARIABLES
    exists,   \* the rows of the services table
    live,     \* what the nginx conf of a blue-green service names
    runs,     \* Cutover.runs: the services with a run in flight
    ask,      \* what each request asks for
    pc,       \* the stage of each request
    target,   \* operation.target, resolved before the claim
    outcome,  \* the outcome runAndVerify returned
    before,   \* the live target the script found (the script's own memory)
    table,    \* table[k][s]: the rows of table k about service s
    stream,   \* stream[s]: the events of s the hub broadcast since boot
    flips, crashes

vars == <<exists, live, runs, ask, pc, target, outcome, before,
          table, stream, flips, crashes>>

Row   == [req : Request, outcome : Outcome]
Event == [type : {"started", "progress", "finished"}, req : Request]

TypeOK ==
    /\ exists \subseteq Service
    /\ live \in [BlueGreen -> Live]
    /\ runs \subseteq Service
    /\ ask \in [Request -> Ask]
    /\ pc \in [Request -> Stage]
    /\ target \in [Request -> Target]
    /\ outcome \in [Request -> Outcome]
    /\ before \in [Request -> Live]
    /\ table \in [Sink -> [Service -> Seq(Row)]]
    /\ stream \in [Service -> Seq(Event)]
    /\ flips \in Nat /\ crashes \in Nat

Init ==
    /\ exists = Service
    /\ live \in [BlueGreen -> Live]
    /\ runs = {}
    /\ ask \in [Request -> Ask]
    /\ pc = [r \in Request |-> "new"]
    /\ target = [r \in Request |-> "none"]
    /\ outcome = [r \in Request |-> "failure"]
    /\ before = [r \in Request |-> "unreadable"]
    /\ table = [k \in Sink |-> [s \in Service |-> <<>>]]
    /\ stream = [s \in Service |-> <<>>]
    /\ flips = 0 /\ crashes = 0

----------------------------------------------------------------------------
(* Helpers.                                                                *)

ServiceOf(r) == ask[r].service

Goto(r, stage) == pc' = [pc EXCEPT ![r] = stage]

Other(color) == IF color = "blue" THEN "green" ELSE "blue"

(* Which operations a strategy accepts.                                    *)
KindFits(s, kind) ==
    IF s \in BlueGreen THEN kind \in {"cutover", "rollback"}
                       ELSE kind \in {"deploy", "rollback"}

(* Faulty variants, for showing that the properties can fail: the target   *)
(* is what nginx names; claimRun does not look.                            *)
Resolved_Raw(r) == IF ServiceOf(r) \in BlueGreen THEN {live[ServiceOf(r)]} ELSE {"compose"}

Idle_Unchecked(s) == TRUE

(* The targets resolve, resolveRollback and resolveRecreate may return for *)
(* request r given what nginx names now; none when resolution is refused.  *)
Resolved(r) ==
    LET s == ServiceOf(r) IN
    IF s \notin BlueGreen
    THEN {"compose"}
    ELSE IF ask[r].kind = "cutover" /\ ask[r].target # "auto"
         THEN {ask[r].target}
         ELSE {Other(c) : c \in Color \cap {live[s]}}

(* The check of claimRun, made under the mutex.                            *)
Idle(s) == s \notin runs

VerifiesHealth(r) == ask[r].kind # "cutover"

Broadcast(r, type) ==
    stream' = [stream EXCEPT ![ServiceOf(r)] = Append(@, [type |-> type, req |-> r])]

(* Faulty variants: a stored row is retried; a failed run, or one whose    *)
(* service is gone, keeps its claim.                                       *)
Insert_Retried(k, r) ==
    LET row == [req |-> r, outcome |-> outcome[r]] IN
    table' = [table EXCEPT ![k][ServiceOf(r)] = @ \o <<row, row>>]

AfterRun_Success(r) == IF outcome[r] = "success" THEN runs \ {ServiceOf(r)} ELSE runs
AfterRun_Exists(r)  == IF ServiceOf(r) \in exists THEN runs \ {ServiceOf(r)} ELSE runs

(* The claim map after releaseRun.                                         *)
AfterRun(r) == runs \ {ServiceOf(r)}

(* One INSERT of the run's outcome.  It fails when the service row is gone *)
(* (looked up by Deploys.Record and Audit.Record, a foreign key for        *)
(* notifications) or when the database does; the caller only logs it.      *)
Insert(k, r) ==
    \/ /\ ServiceOf(r) \in exists
       /\ table' = [table EXCEPT ![k][ServiceOf(r)] =
                       Append(@, [req |-> r, outcome |-> outcome[r]])]
    \/ /\ ServiceOf(r) \notin exists \/ k \in FaultySinks
       /\ UNCHANGED table

----------------------------------------------------------------------------
(* The request: lookup, strategy check, resolution, then the claim.        *)

Resolve(r) ==
    /\ pc[r] = "new"
    /\ IF ServiceOf(r) \in exists /\ KindFits(ServiceOf(r), ask[r].kind)
       THEN \/ /\ \E t \in Resolved(r) : target' = [target EXCEPT ![r] = t]
               /\ Goto(r, "resolved")
            \/ Goto(r, "rejected") /\ UNCHANGED target  \* config or script invalid
       ELSE Goto(r, "rejected") /\ UNCHANGED target
    /\ UNCHANGED <<exists, live, runs, ask, outcome, before, table, stream, flips, crashes>>

ClaimRun(r) ==
    /\ pc[r] = "resolved"
    /\ IF Idle(ServiceOf(r))
       THEN Goto(r, "claimed") /\ runs' = runs \cup {ServiceOf(r)}
       ELSE Goto(r, "rejected") /\ UNCHANGED runs
    /\ UNCHANGED <<exists, live, ask, target, outcome, before, table, stream, flips, crashes>>

----------------------------------------------------------------------------
(* The goroutine of execute.                                               *)

EmitStarted(r) ==
    /\ pc[r] = "claimed"
    /\ Broadcast(r, "started")
    /\ Goto(r, "script")
    /\ UNCHANGED <<exists, live, runs, ask, target, outcome, before, table, flips, crashes>>

(* The cutover script moves nginx to the target it was given.              *)
ScriptFlips(r) ==
    /\ pc[r] = "script"
    /\ ServiceOf(r) \in BlueGreen
    /\ before' = [before EXCEPT ![r] = live[ServiceOf(r)]]
    /\ live' = [live EXCEPT ![ServiceOf(r)] = target[r]]
    /\ Goto(r, "flipped")
    /\ UNCHANGED <<exists, runs, ask, target, outcome, table, stream, flips, crashes>>

(* Exit status 0: a blue-green script exits so only after its flip.        *)
ScriptSucceeds(r) ==
    /\ pc[r] = IF ServiceOf(r) \in BlueGreen THEN "flipped" ELSE "script"
    /\ Broadcast(r, "progress")
    /\ IF VerifiesHealth(r)
       THEN Goto(r, "verify") /\ UNCHANGED outcome
       ELSE Goto(r, "record") /\ outcome' = [outcome EXCEPT ![r] = "success"]
    /\ UNCHANGED <<exists, live, runs, ask, target, before, table, flips, crashes>>

(* Any other status; after a flip the script may flip back before exiting. *)
ScriptFails(r) ==
    /\ pc[r] \in {"script", "flipped"}
    /\ Broadcast(r, "progress")
    /\ \/ UNCHANGED live
       \/ /\ pc[r] = "flipped"
          /\ live' = [live EXCEPT ![ServiceOf(r)] = before[r]]
    /\ outcome' = [outcome EXCEPT ![r] = "failure"]
    /\ Goto(r, "record")
    /\ UNCHANGED <<exists, runs, ask, target, before, table, flips, crashes>>

(* The run context expires and kills the script, but cmd.Run still waits   *)
(* for every descendant of the script to close the output pipe.            *)
TimeoutKills(r) ==
    /\ pc[r] \in {"script", "flipped"}
    /\ Goto(r, "killed")
    /\ UNCHANGED <<exists, live, runs, ask, target, outcome, before, table, stream, flips, crashes>>

PipesClose(r) ==
    /\ pc[r] = "killed"
    /\ Broadcast(r, "progress")
    /\ outcome' = [outcome EXCEPT ![r] = "failure"]
    /\ Goto(r, "record")
    /\ UNCHANGED <<exists, live, runs, ask, target, before, table, flips, crashes>>

VerifyTarget(r) ==
    /\ pc[r] = "verify"
    /\ \E o \in Outcome : outcome' = [outcome EXCEPT ![r] = o]
    /\ Goto(r, "record")
    /\ UNCHANGED <<exists, live, runs, ask, target, before, table, stream, flips, crashes>>

RecordDeploy(r) ==
    /\ pc[r] = "record"
    /\ Insert("deploys", r)
    /\ Goto(r, "finish")
    /\ UNCHANGED <<exists, live, runs, ask, target, outcome, before, stream, flips, crashes>>

EmitFinished(r) ==
    /\ pc[r] = "finish"
    /\ Broadcast(r, "finished")
    /\ Goto(r, "notify")
    /\ UNCHANGED <<exists, live, runs, ask, target, outcome, before, table, flips, crashes>>

(* Faulty variant: a failed notification ends the run.                     *)
Notify_Returns(r) ==
    /\ pc[r] = "notify"
    /\ Insert("notifications", r)
    /\ Goto(r, IF table' = table THEN "release" ELSE "audit")
    /\ UNCHANGED <<exists, live, runs, ask, target, outcome, before, stream, flips, crashes>>

Notify(r) ==
    /\ pc[r] = "notify"
    /\ Insert("notifications", r)
    /\ Goto(r, "audit")
    /\ UNCHANGED <<exists, live, runs, ask, target, outcome, before, stream, flips, crashes>>

RecordAudit(r) ==
    /\ pc[r] = "audit"
    /\ Insert("audit", r)
    /\ Goto(r, "release")
    /\ UNCHANGED <<exists, live, runs, ask, target, outcome, before, stream, flips, crashes>>

ReleaseRun(r) ==
    /\ pc[r] = "release"
    /\ runs' = AfterRun(r)
    /\ Goto(r, "done")
    /\ UNCHANGED <<exists, live, ask, target, outcome, before, table, stream, flips, crashes>>

----------------------------------------------------------------------------
(* The environment of the engine.                                          *)

MayDisturb == flips + crashes + Cardinality(Service \ exists) < MaxFaults

(* CI or an operator edits the nginx conf outside the console.             *)
FlipOutside(s) ==
    /\ MayDisturb
    /\ s \in BlueGreen
    /\ \E l \in Live \ {live[s]} : live' = [live EXCEPT ![s] = l]
    /\ flips' = flips + 1
    /\ UNCHANGED <<exists, runs, ask, pc, target, outcome, before, table, stream, crashes>>

(* Onboarding.Delete takes no notice of a run in flight.                   *)
DeleteService(s) ==
    /\ s \in exists
    /\ MayDisturb
    /\ exists' = exists \ {s}
    /\ table' = [k \in Sink |-> [table[k] EXCEPT ![s] = <<>>]]
    /\ UNCHANGED <<live, runs, ask, pc, target, outcome, before, stream, flips, crashes>>

(* The process exits (a crash, or SIGTERM: runServe waits for the loops,   *)
(* not for the goroutines of execute) and starts again with a fresh        *)
(* Cutover and a fresh hub.  The script dies with its container.           *)
Restart ==
    /\ MayDisturb
    /\ crashes' = crashes + 1
    /\ runs' = {}
    /\ pc' = [r \in Request |-> IF pc[r] \in Executing THEN "lost"
                               ELSE IF pc[r] = "resolved" THEN "rejected" ELSE pc[r]]
    /\ stream' = [s \in Service |-> <<>>]
    /\ UNCHANGED <<exists, live, ask, target, outcome, before, table, flips>>

----------------------------------------------------------------------------
ScriptEnds(r) == ScriptSucceeds(r) \/ ScriptFails(r) \/ TimeoutKills(r)

(* Faulty variant: execute without its deferred release.                   *)
Advance_NoDefer(r) ==
    \/ EmitStarted(r) \/ VerifyTarget(r) \/ RecordDeploy(r) \/ EmitFinished(r)
    \/ Notify(r) \/ RecordAudit(r)

(* The steps of execute, the script's own steps apart.                     *)
Advance(r) ==
    \/ EmitStarted(r) \/ VerifyTarget(r) \/ RecordDeploy(r) \/ EmitFinished(r)
    \/ Notify(r) \/ RecordAudit(r) \/ ReleaseRun(r)

Handle(r) ==
    \/ Resolve(r) \/ ClaimRun(r) \/ Advance(r)
    \/ ScriptFlips(r) \/ ScriptEnds(r) \/ PipesClose(r)

Environment ==
    \/ \E s \in Service : FlipOutside(s) \/ DeleteService(s)
    \/ Restart

Next == (\E r \in Request : Handle(r)) \/ Environment

(* The run context bounds the script, so a started script ends or is       *)
(* killed; nothing bounds the descendants that keep its output open.       *)
Fairness ==
    \A r \in Request :
        WF_vars(ClaimRun(r)) /\ WF_vars(Advance(r)) /\ WF_vars(ScriptEnds(r))

Spec     == Init /\ [][Next]_vars
FairSpec == Spec /\ Fairness

----------------------------------------------------------------------------
(* Properties.                                                             *)

Runs(s) == {r \in Request : pc[r] \in Executing /\ ServiceOf(r) = s}

(* "One run per service at a time": however the requests interleave        *)
(* between resolution, claim and deferred release, two goroutines of       *)
(* execute never work on the same service.                                 *)
OneRunPerService ==
    \A r, q \in Request :
        /\ pc[r] \in Executing
        /\ pc[q] \in Executing
        /\ ServiceOf(r) = ServiceOf(q)
        => r = q

(* The claim map holds exactly the services of the goroutines alive: no    *)
(* outcome of the script, no failing INSERT and no restart leaks a claim   *)
(* (409 for ever) or drops one early.                                      *)
ClaimsOwned == runs = {s \in Service : Runs(s) # {}}

(* One row of the outcome in each table whose INSERT does not fail.        *)
OneRowEach(r) ==
    \A k \in Sink \ FaultySinks :
        LET rows == table[k][ServiceOf(r)]
            own  == {i \in DOMAIN rows : rows[i].req = r}
        IN  Cardinality(own) = 1 /\ \A i \in own : rows[i].outcome = outcome[r]

(* A console that refetches the history on the finished event finds the    *)
(* row of the run there.                                                   *)
FinishedIsRecorded ==
    \A s \in exists \ (IF "deploys" \in FaultySinks THEN Service ELSE {}) :
        \A i \in DOMAIN stream[s] :
            stream[s][i].type = "finished"
            => \E j \in DOMAIN table["deploys"][s] :
                  table["deploys"][s][j].req = stream[s][i].req

(* Every way through execute leaves a row of the outcome in each table, a  *)
(* failed INSERT losing its own row only, and the row of the history is    *)
(* there before the event that makes consoles read it.                     *)
ReceiptsComplete ==
    /\ \A r \in Request : pc[r] = "done" /\ ServiceOf(r) \in exists => OneRowEach(r)
    /\ FinishedIsRecorded

(* On the event stream of a service the runs follow one another: nothing   *)
(* of one run is broadcast between two events of another one.              *)
RunsDoNotInterleave ==
    \A s \in Service : \A i, j, k \in DOMAIN stream[s] :
        i < j /\ j < k /\ stream[s][i].req = stream[s][k].req
        => stream[s][j].req = stream[s][i].req

(* The history can be trusted about the traffic: when no run is in flight, *)
(* the process never restarted and nobody moved nginx out of band, a       *)
(* newest row with outcome success names the run whose target is live.     *)
HistoryMatchesNginx ==
    flips = 0 /\ crashes = 0 /\ "deploys" \notin FaultySinks =>
    \A s \in BlueGreen : LET rows == table["deploys"][s] IN
        s \notin runs /\ rows # <<>> /\ rows[Len(rows)].outcome = "success"
        => live[s] = target[rows[Len(rows)].req]

(* A run releases its claim whatever the script does, whichever INSERT     *)
(* fails and even when its service is deleted meanwhile; except for as     *)
(* long as the descendants of a script the timeout killed keep its output  *)
(* open.  Once they close it, that run goes on to its release as well.     *)
RunsFinish ==
    \A r \in Request :
        pc[r] \in Executing \ {"killed"} ~> pc[r] \in {"done", "lost", "killed"}

(* The README on TOUCHGRASS_CUTOVER_TIMEOUT: "Maximum duration for one     *)
(* cutover/rollback run", so a run that was claimed ends.                  *)
TimeoutEndsRun ==
    \A r \in Request : pc[r] = "claimed" ~> pc[r] \in {"done", "lost"}

(* The engine is a serial executor per service with an ordered history.    *)
Serial == INSTANCE SerialDeploys WITH
    started <- {r \in Request : pc[r] \in Executing \cup {"done", "lost"}},
    holder  <- [s \in Service |-> Runs(s)],
    history <- table["deploys"]

SerialSpec == Serial!Spec
=============================================================================
