--------------------------- MODULE FleetInventory ---------------------------
(***************************************************************************)
(* internal/service/fleet_inventory.go with the container and security     *)
(* stores: one goroutine reconciles docker's list of all containers into   *)
(* durable rows, classifies each container, gives an expected one that is  *)
(* gone a grace period, and evaluates the two inventory rules.  Operators  *)
(* approve and ignore containers while it runs.                            *)
(*                                                                         *)
(* A transaction is one step, and so is a docker call.  The posture rules  *)
(* a pass ends with write no row here: SecurityFindings models findings.   *)
(***************************************************************************)
EXTENDS Naturals, FiniteSets

CONSTANTS
    Container,   \* docker ids, never reused
    Name,        \* container names
    ServiceOf,   \* the registered service whose names select a container, or NoService
    GroupOf,     \* its compose project and service, or NoGroup
    NoService, NoGroup,
    FirstName,   \* the name of each when it was there before the process
    Publishing,  \* the containers that publish ports
    Grace,       \* MissingGrace, two intervals
    Horizon,     \* bound: where the clock stops
    MaxChanges,  \* bound: steps of docker and of the registry
    MaxOps,      \* bound: approvals and ignores
    MaxFaults    \* bound: failing calls and restarts

Service == {ServiceOf[c] : c \in Container} \ {NoService}

ASSUME ConstantsAssumption ==
    /\ DOMAIN ServiceOf = Container /\ DOMAIN GroupOf = Container
    /\ FirstName \in [Container -> Name]
    /\ \A c, d \in Container : c # d => FirstName[c] # FirstName[d]
    /\ Publishing \subseteq Container
    /\ Grace \in Nat /\ Horizon \in Nat
    /\ MaxChanges \in Nat /\ MaxOps \in Nat /\ MaxFaults \in Nat

(* The safe fields of an inspection, "blank" when none ever succeeded; and *)
(* FingerprintInspection, of those fields and the ports docker lists.      *)
Conf    == {"blank", "a", "b"}
Fingerprint   == [conf : Conf, ports : BOOLEAN]
NoFingerprint == [conf |-> "none", ports |-> FALSE]

Class    == {"managed", "approved_observed", "unknown", "ignored", "missing_expected"}
Expected == {"managed", "approved_observed", "missing_expected"}
Rule     == {"unknown_container", "missing_expected"}

Forever   == Horizon + 1   \* of an ignore that does not expire
NotAbsent == Horizon + 1   \* absent_at IS NULL
Untracked == "untracked"   \* the class of a container without a row

VARIABLES
    world,      \* of each container, what docker knows
    services,   \* the registered services
    rows,       \* container_instances
    ignores,    \* container_security_ignores: the deadline, 0 without one
    baselines,  \* the active row of container_security_baselines
    alerts,     \* of each rule, the containers with an active finding
    stage, at,  \* of the reconciliation pass, and its observedAt
    found,      \* what the pass learned of each container
    pending,    \* the containers, with their classes, it has still to evaluate
    approving,  \* the print an approval in flight has read
    now, changes, ops, faults

docker   == <<world, services, changes>>
decided  == <<ignores, baselines, approving, ops>>
pass     == <<stage, at, found, pending>>
vars     == <<docker, decided, pass, rows, alerts, now, faults>>

Live == {c \in Container : world[c].state \in {"running", "stopped"}}

Row == [class : Class \cup {Untracked}, current : BOOLEAN, present : BOOLEAN,
        absent : Nat, service : Service \cup {NoService},
        name : Name, print : Fingerprint \cup {NoFingerprint}]

Entry == [step : {"unlisted", "listed", "inspected", "classified"}, name : Name,
          service : Service \cup {NoService}, print : Fingerprint \cup {NoFingerprint},
          class : Class \cup {Untracked}]

TypeOK ==
    /\ world \in [Container -> [state : {"none", "running", "stopped", "removed"},
                                name : Name, conf : {"a", "b"}]]
    /\ services \subseteq Service
    /\ rows \in [Container -> Row]
    /\ ignores \in [Container -> 0 .. Forever]
    /\ baselines \in [Container -> Fingerprint \cup {NoFingerprint}]
    /\ alerts \in [Rule -> SUBSET Container]
    /\ stage \in {"idle", "list", "owners", "inspect", "candidates", "evaluate"}
    /\ at \in Nat /\ now \in Nat
    /\ found \in [Container -> Entry]
    /\ pending \subseteq (Container \X (Class \cup {Untracked, "retired"}))
    /\ approving \in [Container -> Fingerprint \cup {NoFingerprint}]
    /\ changes \in Nat /\ ops \in Nat /\ faults \in Nat

SomeName == CHOOSE n \in Name : TRUE

NoRow == [class |-> Untracked, current |-> FALSE, present |-> FALSE, absent |-> NotAbsent,
          service |-> NoService, name |-> SomeName, print |-> NoFingerprint]

Unlisted == [step |-> "unlisted", name |-> SomeName, service |-> NoService,
             print |-> NoFingerprint, class |-> Untracked]

NothingFound == [c \in Container |-> Unlisted]

Init ==
    /\ \E up \in SUBSET Container :
          world = [c \in Container |-> [state |-> IF c \in up THEN "running" ELSE "none",
                                        name |-> FirstName[c], conf |-> "a"]]
    /\ services \in SUBSET Service
    /\ rows = [c \in Container |-> NoRow]
    /\ ignores = [c \in Container |-> 0]
    /\ baselines = [c \in Container |-> NoFingerprint]
    /\ alerts = [r \in Rule |-> {}]
    /\ stage = "idle" /\ at = 0 /\ found = NothingFound /\ pending = {}
    /\ approving = [c \in Container |-> NoFingerprint]
    /\ now = 0 /\ changes = 0 /\ ops = 0 /\ faults = 0

----------------------------------------------------------------------------
(* SecurityStore.Classify.                                                *)

Classified(c, service, print, t) ==
    IF service # NoService THEN "managed"
    ELSE IF ignores[c] > t THEN "ignored"
    ELSE IF baselines[c] = print THEN "approved_observed" ELSE "unknown"

----------------------------------------------------------------------------
(* ContainerStore.Reconcile: its statements in order, each a function from *)
(* the table to the table.                                                 *)

MarkAbsent(table) ==
    [c \in Container |->
        IF table[c].current /\ table[c].class \in Expected
        THEN [table[c] EXCEPT !.present = FALSE, !.absent = IF @ = NotAbsent THEN at ELSE @]
        ELSE table[c]]

Overdue(row, t) == ~row.present /\ row.absent + Grace <= t

(* Faulty variants: no grace; a class of its own.                          *)
PromoteMissing_AtOnce(table) ==
    [c \in Container |->
        IF table[c].current /\ table[c].class \in Expected /\ ~table[c].present
        THEN [table[c] EXCEPT !.class = "missing_expected"] ELSE table[c]]

PromoteMissing_Named(table) ==
    [c \in Container |->
        IF table[c].current /\ table[c].class \in Expected /\ Overdue(table[c], at)
        THEN [table[c] EXCEPT !.class = "missing"] ELSE table[c]]

PromoteMissing(table) ==
    [c \in Container |->
        IF table[c].current /\ table[c].class \in Expected /\ Overdue(table[c], at)
        THEN [table[c] EXCEPT !.class = "missing_expected"] ELSE table[c]]

Retired(row) == [row EXCEPT !.current = FALSE, !.present = FALSE, !.absent = at]

RetireUnseen(table) ==
    [c \in Container |->
        IF table[c].current /\ table[c].class \in {"unknown", "ignored"}
        THEN Retired(table[c]) ELSE table[c]]

Batch == {c \in Container : found[c].step = "classified"}

(* Docker's names are unique, so that the order of the batch is immaterial: *)
(* what one instance of it retires, the other's own upsert has renamed or  *)
(* restores.  Faulty variant: names are not looked at.                     *)
RetireReusedNames_Never(table) == table

RetireReusedNames(table) ==
    [c \in Container |->
        IF table[c].current /\ c \notin Batch /\ \E d \in Batch : found[d].name = table[c].name
        THEN Retired(table[c]) ELSE table[c]]

UpsertBatch(table) ==
    [c \in Container |->
        IF c \in Batch
        THEN [class |-> found[c].class, current |-> TRUE, present |-> TRUE, absent |-> NotAbsent,
              service |-> found[c].service, name |-> found[c].name, print |-> found[c].print]
        ELSE table[c]]

Replaces(table, d, c) ==
    /\ d # c /\ table[d].current /\ table[d].present
    /\ \/ table[c].service # NoService /\ table[d].service = table[c].service
       \/ GroupOf[c] # NoGroup /\ GroupOf[d] = GroupOf[c]

MissingRow(row) == row.current /\ ~row.present /\ row.class = "missing_expected"

RetireReplaced(table) ==
    [c \in Container |->
        IF MissingRow(table[c]) /\ \E d \in Container : Replaces(table, d, c)
        THEN [table[c] EXCEPT !.current = FALSE] ELSE table[c]]

(* Faulty variants: an incomplete batch is taken for a complete one; the   *)
(* replaced are looked for before their replacements are written.          *)
Reconciled_Any(complete) ==
    RetireReplaced(UpsertBatch(RetireReusedNames(RetireUnseen(PromoteMissing(MarkAbsent(rows))))))

Reconciled_Early(complete) ==
    IF complete
    THEN UpsertBatch(RetireReusedNames(RetireReplaced(RetireUnseen(PromoteMissing(MarkAbsent(rows))))))
    ELSE UpsertBatch(RetireReusedNames(rows))

Reconciled(complete) ==
    IF complete
    THEN RetireReplaced(UpsertBatch(RetireReusedNames(RetireUnseen(PromoteMissing(MarkAbsent(rows))))))
    ELSE UpsertBatch(RetireReusedNames(rows))

----------------------------------------------------------------------------
(* A pass of Reconcile.  Run starts one at once, at each tick and at a     *)
(* wakeup; reconcileMu keeps it alone.                                     *)

Pass(from, to) == stage = from /\ stage' = to

EndPass == stage' = "idle" /\ at' = 0

StartPass ==
    /\ Pass("idle", "list")
    /\ at' = now
    /\ UNCHANGED <<docker, decided, found, pending, rows, alerts, now, faults>>

(* Docker lists the ports of a running container only.                     *)
Ports(c) == c \in Publishing /\ world[c].state = "running"

ListAll ==
    /\ Pass("list", "owners")
    /\ found' = [c \in Container |->
           IF c \in Live
           THEN [Unlisted EXCEPT !.step = "listed", !.name = world[c].name,
                                 !.print = [conf |-> "blank", ports |-> Ports(c)]]
           ELSE Unlisted]
    /\ UNCHANGED <<docker, decided, at, pending, rows, alerts, now, faults>>

(* The failure is recorded with an incomplete, empty batch.                *)
ListFails ==
    /\ stage = "list" /\ EndPass
    /\ faults < MaxFaults /\ faults' = faults + 1
    /\ rows' = Reconciled(FALSE)
    /\ UNCHANGED <<docker, decided, found, pending, alerts, now>>

LoadOwners ==
    /\ Pass("owners", "inspect")
    /\ found' = [c \in Container |->
           IF found[c].step = "listed" /\ ServiceOf[c] \in services
           THEN [found[c] EXCEPT !.service = ServiceOf[c]] ELSE found[c]]
    /\ UNCHANGED <<docker, decided, at, pending, rows, alerts, now, faults>>

Learn(c, entry) ==
    /\ stage = "inspect"
    /\ found' = [found EXCEPT ![c] = entry]
    /\ UNCHANGED <<docker, decided, stage, at, pending, rows, alerts, now>>

Inspected(entry, conf) ==
    [entry EXCEPT !.step = "inspected", !.print = [conf |-> conf, ports |-> @.ports]]

(* Not found: the container vanished after it was listed.                  *)
Inspect(c) ==
    /\ found[c].step = "listed"
    /\ Learn(c, IF c \in Live
                THEN Inspected(found[c], world[c].conf)
                ELSE Unlisted)
    /\ UNCHANGED faults

(* Any other error: the fields of the row, or blank ones without a row or  *)
(* when it cannot be read.                                                 *)
InspectFails(c) ==
    /\ found[c].step = "listed"
    /\ faults < MaxFaults /\ faults' = faults + 1
    /\ \E conf \in {"blank"} \cup ({rows[c].print.conf} \cap Conf) :
          Learn(c, Inspected(found[c], conf))

Classify(c) ==
    /\ found[c].step = "inspected"
    /\ \A d \in Container : found[d].step # "listed"
    /\ Learn(c, [found[c] EXCEPT !.step = "classified",
                                 !.class = Classified(c, found[c].service, found[c].print, at)])
    /\ UNCHANGED faults

Persist ==
    /\ Pass("inspect", "candidates")
    /\ \A c \in Container : found[c].step \in {"unlisted", "classified"}
    /\ rows' = Reconciled(TRUE)
    /\ found' = NothingFound
    /\ UNCHANGED <<docker, decided, at, pending, alerts, now, faults>>

Alarming(r) == IF r = "unknown_container" THEN "unknown" ELSE "missing_expected"

Alerted(c) == \E r \in Rule : c \in alerts[r]

(* ListClassificationCandidates: the current rows and those with an active *)
(* finding.  Faulty variant: the current rows.                             *)
Candidates_Current == {c \in Container : rows[c].current}
Candidates == {c \in Container : rows[c].current \/ Alerted(c)}

(* evaluateClassifications, once security is activated.  The two           *)
(* observations of a container are of different findings, and made one     *)
(* after the other.                                                        *)
ReadCandidates ==
    /\ stage = "candidates"
    /\ pending' = {<<c, IF rows[c].current THEN rows[c].class ELSE "retired">> :
                       c \in Candidates}
    /\ IF pending' = {} THEN EndPass ELSE stage' = "evaluate" /\ UNCHANGED at
    /\ UNCHANGED <<docker, decided, found, rows, alerts, now, faults>>

EvaluateNext ==
    /\ stage = "evaluate"
    /\ \E p \in pending :
          /\ alerts' = [r \in Rule |-> IF p[2] = Alarming(r) THEN alerts[r] \cup {p[1]}
                                                             ELSE alerts[r] \ {p[1]}]
          /\ pending' = pending \ {p}
    /\ IF pending' = {} THEN EndPass ELSE UNCHANGED <<stage, at>>
    /\ UNCHANGED <<docker, decided, found, rows, now, faults>>

Abandon ==
    /\ faults < MaxFaults /\ faults' = faults + 1
    /\ EndPass /\ found' = NothingFound /\ pending' = {}

(* The database is busy.                                                   *)
PassFails ==
    /\ Abandon
    /\ stage \notin {"idle", "list"}
    /\ UNCHANGED <<docker, decided, rows, alerts, now>>

(* The approvals in flight are lost as well.                               *)
Restart ==
    /\ Abandon
    /\ approving' = [c \in Container |-> NoFingerprint]
    /\ UNCHANGED <<docker, ignores, baselines, ops, rows, alerts, now>>

----------------------------------------------------------------------------
(* Operators.                                                              *)

(* ApproveContainer reads the row, and approves what it read.              *)
ReadForApproval(c) ==
    /\ ops < MaxOps /\ ops' = ops + 1
    /\ rows[c].class # Untracked /\ approving[c] = NoFingerprint
    /\ approving' = [approving EXCEPT ![c] = rows[c].print]
    /\ UNCHANGED <<docker, pass, ignores, baselines, rows, alerts, now, faults>>

Approve(c) ==
    /\ approving[c] # NoFingerprint /\ rows[c].class # Untracked
    /\ rows' = [rows EXCEPT ![c].class = "approved_observed"]
    /\ baselines' = [baselines EXCEPT ![c] = approving[c]]
    /\ ignores' = [ignores EXCEPT ![c] = 0]
    /\ approving' = [approving EXCEPT ![c] = NoFingerprint]
    /\ UNCHANGED <<docker, pass, ops, alerts, now, faults>>

Ignore(c) ==
    /\ ops < MaxOps /\ ops' = ops + 1
    /\ rows[c].class # Untracked
    /\ rows' = [rows EXCEPT ![c].class = "ignored"]
    /\ \E until \in (now + 1) .. Forever : ignores' = [ignores EXCEPT ![c] = until]
    /\ UNCHANGED <<docker, pass, baselines, approving, alerts, now, faults>>

----------------------------------------------------------------------------
(* Docker and the registry of services.                                    *)

Change == changes < MaxChanges /\ changes' = changes + 1
          /\ UNCHANGED <<decided, pass, rows, alerts, now, faults>>

Becomes(c, from, container) ==
    /\ Change
    /\ world[c].state \in from
    /\ world' = [world EXCEPT ![c] = container]
    /\ UNCHANGED services

Free(n) == \A c \in Live : world[c].name # n

Create(c) == \E n \in Name : Free(n) /\
    Becomes(c, {"none"}, [state |-> "running", name |-> n, conf |-> "a"])
Stop(c)   == Becomes(c, {"running"}, [world[c] EXCEPT !.state = "stopped"])
Start(c)  == Becomes(c, {"stopped"}, [world[c] EXCEPT !.state = "running"])
Remove(c) == Becomes(c, {"running", "stopped"}, [world[c] EXCEPT !.state = "removed"])
Rename(c) == \E n \in Name : Free(n) /\
    Becomes(c, {"running", "stopped"}, [world[c] EXCEPT !.name = n])

(* docker update: new limits for the same container.                       *)
NewLimits(c) ==
    Becomes(c, {"running", "stopped"},
            [world[c] EXCEPT !.conf = IF @ = "a" THEN "b" ELSE "a"])

Register(s) ==
    /\ Change
    /\ services' = IF s \in services THEN services \ {s} ELSE services \cup {s}
    /\ UNCHANGED world

Tick ==
    /\ now < Horizon /\ now' = now + 1
    /\ UNCHANGED <<docker, decided, pass, rows, alerts, faults>>

----------------------------------------------------------------------------
Reconcile ==
    \/ StartPass \/ ListAll \/ LoadOwners \/ Persist
    \/ ReadCandidates \/ EvaluateNext
    \/ \E c \in Container : Inspect(c) \/ Classify(c)

Next ==
    \/ Reconcile \/ ListFails \/ PassFails \/ Restart \/ Tick
    \/ \E c \in Container :
          \/ InspectFails(c) \/ ReadForApproval(c) \/ Approve(c) \/ Ignore(c)
          \/ Create(c) \/ Stop(c) \/ Start(c) \/ Remove(c) \/ Rename(c) \/ NewLimits(c)
    \/ \E s \in Service : Register(s)

(* Run's loop goes on whatever a pass returned, and docker and the         *)
(* database answer in the end; requests end; time passes.                  *)
Fairness ==
    /\ WF_vars(Reconcile) /\ WF_vars(Tick)
    /\ \A c \in Container : WF_vars(Approve(c))

Spec == Init /\ [][Next]_vars /\ Fairness

----------------------------------------------------------------------------
(* Properties.                                                             *)

(* A row that is not present is of a container docker has removed: no      *)
(* failing list or inspection makes a container absent.                    *)
AbsentIsGone ==
    \A c \in Container :
        rows[c].class # Untracked /\ ~rows[c].present => world[c].state = "removed"

(* One current row has a name, whatever compose renames and recreates.     *)
OneCurrentName ==
    \A c, d \in Container :
        c # d /\ rows[c].current /\ rows[d].current => rows[c].name # rows[d].name

(* An expected container is not reported missing next to its replacement.  *)
ReplacedNotMissing ==
    \A c \in Container : MissingRow(rows[c]) => ~\E d \in Container : Replaces(rows, d, c)

(* The critical alert is about a container that is gone, and that was seen *)
(* to be gone the grace period ago, whatever failed or was approved since. *)
MissingIsOverdue ==
    \A c \in alerts["missing_expected"] :
        world[c].state = "removed" /\ (rows[c].current => Overdue(rows[c], now))

(* What the operators and docker have settled: the row of a container says *)
(* what docker and the decisions about it say, the row of one that is gone *)
(* is retired or overdue, and the alerts are those of the rows.            *)
RowAgrees(c) ==
    IF c \in Live
    THEN LET service == IF ServiceOf[c] \in services THEN ServiceOf[c] ELSE NoService
             print   == [conf |-> world[c].conf, ports |-> Ports(c)]
         IN  /\ rows[c].current /\ rows[c].present
             /\ rows[c].name = world[c].name /\ rows[c].print = print
             /\ rows[c].class = Classified(c, service, print, now)
    ELSE rows[c].current =>
             /\ rows[c].class \in Expected /\ ~rows[c].present
             /\ rows[c].class = "missing_expected" <=> Overdue(rows[c], now)

AlertsAgree ==
    \A r \in Rule :
        alerts[r] = {c \in Container : rows[c].current /\ rows[c].class = Alarming(r)}

(* Passes that fail, races with approvals and restarts in the middle of a  *)
(* pass are made good: in the end rows, alerts and containers agree.       *)
InventoryConverges == <>[](AlertsAgree /\ \A c \in Container : RowAgrees(c))

(* "Classification and runtime state are separate": a container whose      *)
(* approved fields are unchanged is classified as approved, stopped or not.*)
StoppedStaysApproved ==
    [][\A c \in Container :
          /\ found[c].step = "inspected" /\ found'[c].step = "classified"
          /\ baselines[c].conf = found[c].print.conf
          => found'[c].class # "unknown"]_vars
=============================================================================
