--------------------------- MODULE CutoverProofs ---------------------------
(***************************************************************************)
(* The deploy engine, for any set of services and requests: one run per    *)
(* service, a row of every table for every run, events that do not mix, a  *)
(* history that tells where the traffic goes, and the refinement of the    *)
(* serial executor.                                                        *)
(*                                                                         *)
(* OneRunPerService alone is not inductive: a claim must imply that no     *)
(* goroutine works on the service (ClaimsOwned).  The receipts need the    *)
(* stage from which each table holds the row of a run (RowsInv), the       *)
(* stream needs that a run in flight is the last one heard (StreamInv),    *)
(* and the history needs what each stage of a run knows of nginx           *)
(* (RunFollows, HistoryFollows).  Beside the watch loop all of this holds  *)
(* as well; what the loop reports is accounted for by MovesAreOwed.        *)
(***************************************************************************)
EXTENDS FlipWatch, Integers, FiniteSetTheorems, SequenceTheorems, TLAPS

(* The parameters of a target resolution are those of the request.         *)
LEMMA ResolvedType ==
    ASSUME TypeOK, NEW r \in Request
    PROVE  Resolved(r) \subseteq Target
BY DEF Resolved, TypeOK, Target, Color, Ask, Wanted, Other, ServiceOf, Live, Kind

(* A row or an event of a request is of the right type, so a table or the  *)
(* stream stays one after Append.                                          *)
LEMMA InsertType ==
    ASSUME TypeOK, NEW r \in Request, NEW k \in Sink, Insert(k, r)
    PROVE  table' \in [Sink -> [Service -> Seq(Row)]]
<1>1. CASE UNCHANGED table
  BY <1>1 DEF TypeOK
<1>2. CASE table' = [table EXCEPT ![k][ServiceOf(r)] =
                        Append(@, [req |-> r, outcome |-> outcome[r]])]
  <2> DEFINE s   == ServiceOf(r)
             row == [req |-> r, outcome |-> outcome[r]]
             new == Append(table[k][s], row)
  <2>1. s \in Service
    BY DEF TypeOK, Ask, ServiceOf
  <2>2. row \in Row
    BY DEF TypeOK, Row
  <2>3. table[k] \in [Service -> Seq(Row)]
    BY DEF TypeOK
  <2>4. new \in Seq(Row)
    BY <2>1, <2>2, <2>3
  <2>5. [table[k] EXCEPT ![s] = new] \in [Service -> Seq(Row)]
    BY <2>3, <2>4
  <2>6. table' = [table EXCEPT ![k] = [table[k] EXCEPT ![s] = new]]
    BY <1>2 DEF TypeOK
  <2> QED
    BY <2>5, <2>6 DEF TypeOK
<1> QED
  BY <1>1, <1>2 DEF Insert

(* What the hub broadcasts for a run is an event.                          *)
LEMMA BroadcastType ==
    ASSUME TypeOK, NEW r \in Request, NEW type \in {"started", "progress", "finished"},
           Broadcast(r, type)
    PROVE  stream' \in [Service -> Seq(Event)]
<1> DEFINE event == [type |-> type, req |-> r]
<1>1. ServiceOf(r) \in Service
  BY DEF TypeOK, Ask, ServiceOf
<1>2. event \in Event
  BY DEF Event
<1>3. Append(stream[ServiceOf(r)], event) \in Seq(Event)
  BY <1>1, <1>2 DEF TypeOK
<1> QED
  BY <1>1, <1>3 DEF Broadcast, TypeOK

(* What TypeOK needs to be inductive: the target a blue-green run hands to *)
(* the script is a color, so nginx keeps naming a color after the flip.    *)
TargetsFit ==
    \A r \in Request :
        pc[r] \in Executing \cup {"resolved"} /\ ServiceOf(r) \in BlueGreen
        => target[r] \in Color

(* Resolution hands a color to a blue-green run.                           *)
LEMMA ResolvedFits ==
    ASSUME TypeOK, NEW r \in Request, NEW t \in Resolved(r), ServiceOf(r) \in BlueGreen
    PROVE  t \in Color
<1>1. CASE ask[r].kind = "cutover" /\ ask[r].target # "auto"
  BY <1>1 DEF Resolved, TypeOK, Ask, Wanted, Color
<1>2. CASE ~(ask[r].kind = "cutover" /\ ask[r].target # "auto")
  BY <1>2 DEF Resolved, Other, Color
<1> QED
  BY <1>1, <1>2

(* The type invariant is preserved: one step per action of the engine and  *)
(* of its environment.                                                     *)
LEMMA TypeStep ==
    ASSUME TypeOK, TargetsFit, [Next]_vars
    PROVE  TypeOK'
<1> USE ServicesAssumption, BoundsAssumption DEF Goto, Stage, Executing
<1>1. ASSUME NEW r \in Request, Resolve(r) PROVE TypeOK'
  <2>1. target' \in [Request -> Target]
    BY <1>1, ResolvedType DEF Resolve, TypeOK
  <2> QED
    BY <1>1, <2>1 DEF Resolve, TypeOK
<1>2. ASSUME NEW r \in Request, ClaimRun(r) PROVE TypeOK'
  <2>1. runs' \subseteq Service
    <3>1. ServiceOf(r) \in Service
      BY DEF TypeOK, Ask, ServiceOf
    <3> QED
      BY <1>2, <3>1 DEF ClaimRun, TypeOK
  <2>2. pc' \in [Request -> Stage]
    BY <1>2 DEF ClaimRun, TypeOK
  <2> QED
    BY <1>2, <2>1, <2>2 DEF ClaimRun, TypeOK
<1>3. ASSUME NEW r \in Request, EmitStarted(r) PROVE TypeOK'
  <2>1. stream' \in [Service -> Seq(Event)]
    BY <1>3, BroadcastType DEF EmitStarted
  <2> QED
    BY <1>3, <2>1 DEF EmitStarted, TypeOK
<1>4. ASSUME NEW r \in Request, ScriptFlips(r) PROVE TypeOK'
  <2>1. target[r] \in Live
    BY <1>4 DEF ScriptFlips, TargetsFit, Live
  <2>2. live[ServiceOf(r)] \in Live
    BY <1>4 DEF ScriptFlips, TypeOK
  <2> QED
    BY <1>4, <2>1, <2>2 DEF ScriptFlips, TypeOK
<1>5. ASSUME NEW r \in Request, ScriptSucceeds(r) PROVE TypeOK'
  <2>1. stream' \in [Service -> Seq(Event)]
    BY <1>5, BroadcastType DEF ScriptSucceeds
  <2> QED
    BY <1>5, <2>1 DEF ScriptSucceeds, TypeOK, Outcome
<1>6. ASSUME NEW r \in Request, ScriptFails(r) PROVE TypeOK'
  <2>1. stream' \in [Service -> Seq(Event)]
    BY <1>6, BroadcastType DEF ScriptFails
  <2>2. live' \in [BlueGreen -> Live]
    BY <1>6 DEF ScriptFails, TypeOK
  <2> QED
    BY <1>6, <2>1, <2>2 DEF ScriptFails, TypeOK, Outcome
<1>7. ASSUME NEW r \in Request, TimeoutKills(r) PROVE TypeOK'
  BY <1>7 DEF TimeoutKills, TypeOK
<1>8. ASSUME NEW r \in Request, PipesClose(r) PROVE TypeOK'
  <2>1. stream' \in [Service -> Seq(Event)]
    BY <1>8, BroadcastType DEF PipesClose
  <2> QED
    BY <1>8, <2>1 DEF PipesClose, TypeOK, Outcome
<1>9. ASSUME NEW r \in Request, VerifyTarget(r) PROVE TypeOK'
  BY <1>9 DEF VerifyTarget, TypeOK, Outcome
<1>10. ASSUME NEW r \in Request, RecordDeploy(r) PROVE TypeOK'
  <2>1. table' \in [Sink -> [Service -> Seq(Row)]]
    BY <1>10, InsertType DEF RecordDeploy, Sink
  <2> QED
    BY <1>10, <2>1 DEF RecordDeploy, TypeOK
<1>11. ASSUME NEW r \in Request, EmitFinished(r) PROVE TypeOK'
  <2>1. stream' \in [Service -> Seq(Event)]
    BY <1>11, BroadcastType DEF EmitFinished
  <2> QED
    BY <1>11, <2>1 DEF EmitFinished, TypeOK
<1>12. ASSUME NEW r \in Request, Notify(r) PROVE TypeOK'
  <2>1. table' \in [Sink -> [Service -> Seq(Row)]]
    BY <1>12, InsertType DEF Notify, Sink
  <2> QED
    BY <1>12, <2>1 DEF Notify, TypeOK
<1>13. ASSUME NEW r \in Request, RecordAudit(r) PROVE TypeOK'
  <2>1. table' \in [Sink -> [Service -> Seq(Row)]]
    BY <1>13, InsertType DEF RecordAudit, Sink
  <2> QED
    BY <1>13, <2>1 DEF RecordAudit, TypeOK
<1>14. ASSUME NEW r \in Request, ReleaseRun(r) PROVE TypeOK'
  BY <1>14 DEF ReleaseRun, AfterRun, TypeOK
<1>15. ASSUME NEW s \in Service, FlipOutside(s) PROVE TypeOK'
  BY <1>15 DEF FlipOutside, TypeOK
<1>16. ASSUME NEW s \in Service, DeleteService(s) PROVE TypeOK'
  <2>1. ASSUME NEW k \in Sink PROVE [table[k] EXCEPT ![s] = <<>>] \in [Service -> Seq(Row)]
    BY DEF TypeOK
  <2> QED
    BY <1>16, <2>1 DEF DeleteService, TypeOK
<1>17. ASSUME Restart PROVE TypeOK'
  <2>1. stream' \in [Service -> Seq(Event)]
    BY <1>17 DEF Restart
  <2>2. pc' \in [Request -> Stage]
    BY <1>17 DEF Restart, TypeOK
  <2> QED
    BY <1>17, <2>1, <2>2 DEF Restart, TypeOK
<1>18. CASE UNCHANGED vars
  BY <1>18 DEF vars, TypeOK
<1> QED
  BY <1>1, <1>2, <1>3, <1>4, <1>5, <1>6, <1>7, <1>8, <1>9, <1>10, <1>11, <1>12, <1>13,
     <1>14, <1>15, <1>16, <1>17, <1>18
     DEF Next, Handle, Advance, ScriptEnds, Environment

(* The target is set by Resolve and never changes while the request runs.  *)
LEMMA TargetsStep ==
    ASSUME TypeOK, TargetsFit, [Next]_vars
    PROVE  TargetsFit'
<1> SUFFICES ASSUME NEW q \in Request,
                    pc'[q] \in Executing \cup {"resolved"}, ask'[q].service \in BlueGreen
             PROVE  target'[q] \in Color
  BY DEF TargetsFit, ServiceOf
<1> USE DEF ServiceOf
<1>1. ask' = ask
  BY DEF Next, Handle, Advance, ScriptEnds, Environment, Resolve, ClaimRun, EmitStarted,
     ScriptFlips, ScriptSucceeds, ScriptFails, TimeoutKills, PipesClose, VerifyTarget,
     RecordDeploy, EmitFinished, Notify, RecordAudit, ReleaseRun, FlipOutside,
     DeleteService, Restart, vars
<1>2. CASE Resolve(q)
  <2>1. PICK t \in Resolved(q) : target' = [target EXCEPT ![q] = t]
    BY <1>2 DEF Resolve, Goto, TypeOK, Executing
  <2> QED
    BY <1>1, <2>1, ResolvedFits DEF TypeOK
<1>3. CASE ~Resolve(q)
  <2>1. target'[q] = target[q]
    BY <1>3 DEF Next, Handle, Advance, ScriptEnds, Environment, Resolve, ClaimRun, EmitStarted,
       ScriptFlips, ScriptSucceeds, ScriptFails, TimeoutKills, PipesClose, VerifyTarget,
       RecordDeploy, EmitFinished, Notify, RecordAudit, ReleaseRun, FlipOutside,
       DeleteService, Restart, vars, TypeOK
  <2>2. pc[q] \in Executing \cup {"resolved"}
    BY <1>3 DEF Next, Handle, Advance, ScriptEnds, Environment, Resolve, ClaimRun, EmitStarted,
       ScriptFlips, ScriptSucceeds, ScriptFails, TimeoutKills, PipesClose, VerifyTarget,
       RecordDeploy, EmitFinished, Notify, RecordAudit, ReleaseRun, FlipOutside,
       DeleteService, Restart, vars, TypeOK, Goto, Executing, Stage
  <2> QED
    BY <1>1, <2>1, <2>2 DEF TargetsFit
<1> QED
  BY <1>2, <1>3

(* Every step but a claim, a release and a restart leaves the claim map    *)
(* and the set of executing requests alone.                                *)
LEMMA QuietStep ==
    ASSUME TypeOK, [Next]_vars, ~Restart,
           \A r \in Request : ~ClaimRun(r) /\ ~ReleaseRun(r)
    PROVE  /\ runs' = runs /\ ask' = ask
           /\ \A q \in Request : pc'[q] \in Executing <=> pc[q] \in Executing
BY DEF Next, Handle, Advance, ScriptEnds, Environment, Resolve, EmitStarted,
   ScriptFlips, ScriptSucceeds, ScriptFails, TimeoutKills, PipesClose, VerifyTarget,
   RecordDeploy, EmitFinished, Notify, RecordAudit, FlipOutside,
   DeleteService, vars, TypeOK, Goto, Executing, Stage

(* Mutual exclusion and the ownership of claims support each other: a      *)
(* claim is only granted when the map, hence the set of goroutines, has    *)
(* none for the service; a release only drops the claim of its own run.    *)
LEMMA ClaimStep ==
    ASSUME TypeOK, OneRunPerService, ClaimsOwned, [Next]_vars
    PROVE  OneRunPerService' /\ ClaimsOwned'
<1> USE DEF ServiceOf, Runs
<1>1. CASE \A r \in Request : ~ClaimRun(r) /\ ~ReleaseRun(r)
  <2>1. CASE Restart
    <3>1. runs' = {} /\ \A q \in Request : pc'[q] \notin Executing
      BY <2>1 DEF Restart, Executing, TypeOK
    <3> QED
      BY <3>1 DEF OneRunPerService, ClaimsOwned
  <2>2. CASE ~Restart
    <3>1. runs' = runs /\ ask' = ask
      BY <1>1, <2>2, QuietStep
    <3>2. \A q \in Request : pc'[q] \in Executing <=> pc[q] \in Executing
      BY <1>1, <2>2, QuietStep
    <3>3. OneRunPerService'
      BY <3>1, <3>2 DEF OneRunPerService
    <3>4. ClaimsOwned'
      BY <3>1, <3>2 DEF ClaimsOwned
    <3> QED
      BY <3>3, <3>4
  <2> QED
    BY <2>1, <2>2
<1>2. ASSUME NEW r \in Request, ClaimRun(r) PROVE OneRunPerService' /\ ClaimsOwned'
  <2>1. ask' = ask /\ \A q \in Request \ {r} : pc'[q] = pc[q]
    BY <1>2 DEF ClaimRun, Goto, TypeOK
  <2>2. pc[r] \notin Executing /\ ask[r].service \in Service
    BY <1>2 DEF ClaimRun, Executing, TypeOK, Ask
  <2>3. CASE ask[r].service \in runs
    <3>1. runs' = runs /\ pc'[r] \notin Executing
      BY <1>2, <2>3 DEF ClaimRun, Idle, Goto, TypeOK, Executing
    <3> QED
      BY <2>1, <2>2, <3>1 DEF OneRunPerService, ClaimsOwned
  <2>4. CASE ask[r].service \notin runs
    <3>1. runs' = runs \cup {ask[r].service} /\ pc'[r] \in Executing
      BY <1>2, <2>4 DEF ClaimRun, Idle, Goto, TypeOK, Executing
    <3>2. \A q \in Request : pc[q] \in Executing => ask[q].service # ask[r].service
      BY <2>2, <2>4 DEF ClaimsOwned
    <3>3. OneRunPerService'
      BY <2>1, <3>2 DEF OneRunPerService
    <3>4. ClaimsOwned'
      BY <2>1, <2>2, <3>1 DEF ClaimsOwned
    <3> QED
      BY <3>3, <3>4
  <2> QED
    BY <2>3, <2>4
<1>3. ASSUME NEW r \in Request, ReleaseRun(r) PROVE OneRunPerService' /\ ClaimsOwned'
  <2>1. /\ ask' = ask /\ runs' = runs \ {ask[r].service}
        /\ \A q \in Request \ {r} : pc'[q] = pc[q]
    BY <1>3 DEF ReleaseRun, AfterRun, Goto, TypeOK
  <2>2. pc[r] \in Executing /\ pc'[r] \notin Executing
    BY <1>3 DEF ReleaseRun, Goto, TypeOK, Executing
  <2>3. OneRunPerService'
    BY <2>1, <2>2 DEF OneRunPerService
  <2>4. \A q \in Request : pc'[q] \in Executing => ask[q].service # ask[r].service
    BY <2>1, <2>2 DEF OneRunPerService
  <2>5. ClaimsOwned'
    BY <2>1, <2>2, <2>4 DEF ClaimsOwned
  <2> QED
    BY <2>3, <2>5
<1> QED
  BY <1>1, <1>2, <1>3

ClaimInv == TypeOK /\ TargetsFit /\ OneRunPerService /\ ClaimsOwned

(* The inductive invariant of the engine.                                  *)
LEMMA ClaimInvariant == Spec => []ClaimInv
<1>1. Init => ClaimInv
  BY ServicesAssumption
     DEF Init, ClaimInv, TypeOK, TargetsFit, OneRunPerService, ClaimsOwned, Runs, Stage,
         Executing, Target, Outcome, Live, Color
<1>2. ClaimInv /\ [Next]_vars => ClaimInv'
  BY TypeStep, TargetsStep, ClaimStep DEF ClaimInv
<1> QED
  BY <1>1, <1>2, PTL DEF Spec

(* Every variable of the engine keeps its type.                            *)
THEOREM TypeCorrect == Spec => []TypeOK
<1>1. ClaimInv => TypeOK
  BY DEF ClaimInv
<1> QED
  BY <1>1, ClaimInvariant, PTL

(* At any time at most one run works on a service, whatever the number of  *)
(* services and requests and wherever the process restarts.                *)
THEOREM RunsExcludeEachOther == Spec => []OneRunPerService
<1>1. ClaimInv => OneRunPerService
  BY DEF ClaimInv
<1> QED
  BY <1>1, ClaimInvariant, PTL

(* A service answers 409 exactly as long as one of its runs is alive.      *)
THEOREM ClaimsAreOwned == Spec => []ClaimsOwned
<1>1. ClaimInv => ClaimsOwned
  BY DEF ClaimInv
<1> QED
  BY <1>1, ClaimInvariant, PTL

-----------------------------------------------------------------------------
(* The receipts of a run.  A row about a service is of one of its runs     *)
(* that has come past the INSERT, with the outcome of the run, and no run  *)
(* has two of them.  Where the INSERT cannot fail and the service is still *)
(* there, every run past it has its row; a deleted service has no rows.    *)
Recorded(k) ==
    {"release", "done", "lost"}
        \cup (IF k \in {"deploys", "notifications"} THEN {"audit"} ELSE {})
        \cup (IF k = "deploys" THEN {"finish", "notify"} ELSE {})

RowsOwned ==
    \A k \in Sink, s \in Service : \A i \in DOMAIN table[k][s] :
        LET row == table[k][s][i] IN
        /\ ServiceOf(row.req) = s /\ pc[row.req] \in Recorded(k)
        /\ row.outcome = outcome[row.req]

RowsUnique ==
    \A k \in Sink, s \in Service : \A i, j \in DOMAIN table[k][s] :
        table[k][s][i].req = table[k][s][j].req => i = j

RowsPresent ==
    \A k \in Sink \ FaultySinks, r \in Request :
        pc[r] \in Recorded(k) \ {"lost"} /\ ServiceOf(r) \in exists
        => \E i \in DOMAIN table[k][ServiceOf(r)] : table[k][ServiceOf(r)][i].req = r

DeletedIsEmpty == \A k \in Sink, s \in Service \ exists : table[k][s] = <<>>

RowsInv == RowsOwned /\ RowsUnique /\ RowsPresent /\ DeletedIsEmpty

(* What a table holds about a service.                                     *)
LEMMA RowsTyped ==
    ASSUME TypeOK, NEW k \in Sink, NEW s \in Service
    PROVE  /\ table[k][s] \in Seq(Row) /\ Len(table[k][s]) \in Nat
           /\ DOMAIN table[k][s] = 1 .. Len(table[k][s])
           /\ \A i \in DOMAIN table[k][s] :
                 table[k][s][i].req \in Request /\ table[k][s][i].outcome \in Outcome
<1>1. table[k][s] \in Seq(Row)
  BY DEF TypeOK
<1>2. \A i \in 1 .. Len(table[k][s]) : table[k][s][i] \in Row
  BY <1>1, ElementOfSeq
<1>3. Len(table[k][s]) \in Nat /\ DOMAIN table[k][s] = 1 .. Len(table[k][s])
  BY <1>1, LenProperties
<1> QED
  BY <1>1, <1>2, <1>3 DEF Row

(* A run keeps its request; past an INSERT it stays so, its outcome stands *)
(* and its target has been resolved for good.                              *)
LEMMA StagesAscend ==
    ASSUME TypeOK, [Next]_vars
    PROVE  /\ ask' = ask
           /\ \A q \in Request :
                 /\ \A k \in Sink : pc[q] \in Recorded(k) => pc'[q] \in Recorded(k)
                 /\ pc[q] \in Recorded("deploys") =>
                       outcome'[q] = outcome[q] /\ target'[q] = target[q]
<1> USE DEF Goto, Recorded, Sink
<1>1. CASE Restart
  BY <1>1 DEF Restart, TypeOK, Stage, Executing
<1>2. ASSUME NEW r \in Request, Handle(r) PROVE
        /\ ask' = ask
        /\ \A q \in Request :
              /\ \A k \in Sink : pc[q] \in Recorded(k) => pc'[q] \in Recorded(k)
              /\ pc[q] \in Recorded("deploys") =>
                    outcome'[q] = outcome[q] /\ target'[q] = target[q]
  BY <1>2 DEF Handle, Advance, ScriptEnds, Resolve, ClaimRun, EmitStarted, ScriptFlips,
     ScriptSucceeds, ScriptFails, TimeoutKills, PipesClose, VerifyTarget, RecordDeploy,
     EmitFinished, Notify, RecordAudit, ReleaseRun, TypeOK
<1>3. CASE \E s \in Service : FlipOutside(s) \/ DeleteService(s)
  BY <1>3 DEF FlipOutside, DeleteService
<1>4. CASE UNCHANGED vars
  BY <1>4 DEF vars
<1> QED
  BY <1>1, <1>2, <1>3, <1>4 DEF Next, Environment

(* The step that inserts into a table, whether the row is stored or not.   *)
LEMMA RowsInserted ==
    ASSUME TypeOK, TypeOK', RowsInv, NEW k \in Sink, NEW r \in Request, Insert(k, r),
           UNCHANGED <<exists, ask, outcome>>,
           \A q \in Request \ {r} : pc'[q] = pc[q],
           pc[r] \notin Recorded(k), pc'[r] \in Recorded(k),
           \A j \in Sink \ {k} : pc'[r] \in Recorded(j) <=> pc[r] \in Recorded(j),
           pc[r] # "lost", pc'[r] # "lost"
    PROVE  RowsInv'
<1> DEFINE s   == ServiceOf(r)
           row == [req |-> r, outcome |-> outcome[r]]
<1> USE DEF ServiceOf
<1>1. s \in Service /\ row \in Row /\ row.req = r /\ row.outcome = outcome[r]
  BY DEF TypeOK, Ask, Row
<1>2. \A j \in Sink, q \in Request : pc[q] \in Recorded(j) => pc'[q] \in Recorded(j)
  OBVIOUS
<1>3. \A i \in DOMAIN table[k][s] : table[k][s][i].req # r
  BY <1>1 DEF RowsInv, RowsOwned
<1>4. \A j \in Sink, t \in Service : \A i \in DOMAIN table[j][t] : table[j][t][i].req \in Request
  BY RowsTyped
<1>5. CASE s \in exists /\ table' = [table EXCEPT ![k][s] = Append(@, row)]
  <2>1. \A j \in Sink, t \in Service : j # k \/ t # s => table'[j][t] = table[j][t]
    BY <1>1, <1>5 DEF TypeOK
  <2>2. table'[k][s] = Append(table[k][s], row)
    BY <1>1, <1>5 DEF TypeOK
  <2> DEFINE n == Len(table[k][s])
  <2>3. /\ n \in Nat /\ DOMAIN table[k][s] = 1 .. n
        /\ DOMAIN table'[k][s] = 1 .. n + 1 /\ table'[k][s][n + 1] = row
        /\ \A i \in 1 .. n : table'[k][s][i] = table[k][s][i]
    <3> HIDE DEF row
    <3> QED
      BY <1>1, <2>2, RowsTyped, AppendProperties
  <2> HIDE DEF row, n
  <2>4. RowsOwned'
    <3> SUFFICES ASSUME NEW j \in Sink, NEW t \in Service, NEW i \in DOMAIN table'[j][t]
                 PROVE  LET x == table'[j][t][i] IN
                        /\ ask'[x.req].service = t /\ pc'[x.req] \in Recorded(j)
                        /\ x.outcome = outcome'[x.req]
      BY DEF RowsOwned
    <3>1. CASE j = k /\ t = s /\ i = n + 1
      BY <1>1, <2>3, <3>1
    <3>2. CASE ~(j = k /\ t = s /\ i = n + 1)
      <4>1. i \in DOMAIN table[j][t] /\ table'[j][t][i] = table[j][t][i]
        BY <2>1, <2>3, <3>2
      <4>2. table[j][t][i].req \in Request
        BY <1>4, <4>1
      <4> QED
        BY <1>2, <4>1, <4>2 DEF RowsInv, RowsOwned
    <3> QED
      BY <3>1, <3>2
  <2>5. RowsUnique'
    <3> SUFFICES ASSUME NEW j \in Sink, NEW t \in Service,
                        NEW a \in DOMAIN table'[j][t], NEW b \in DOMAIN table'[j][t],
                        table'[j][t][a].req = table'[j][t][b].req
                 PROVE  a = b
      BY DEF RowsUnique
    <3>1. CASE j = k /\ t = s
      <4>1. a \in 1 .. n + 1 /\ b \in 1 .. n + 1 /\ table'[k][s][a].req = table'[k][s][b].req
        BY <2>3, <3>1
      <4>2. CASE a \in 1 .. n /\ b \in 1 .. n
        <5>1. \A c, d \in 1 .. n : table[k][s][c].req = table[k][s][d].req => c = d
          BY <1>1, <2>3 DEF RowsInv, RowsUnique
        <5>2. table[k][s][a].req = table[k][s][b].req
          BY <2>3, <4>1, <4>2
        <5> QED
          BY <4>2, <5>1, <5>2
      <4>3. \A c \in 1 .. n : table'[k][s][c].req # r
        BY <1>3, <2>3
      <4>4. table'[k][s][n + 1].req = r
        BY <1>1, <2>3
      <4> QED
        BY <2>3, <4>1, <4>2, <4>3, <4>4
    <3>2. CASE j # k \/ t # s
      BY <2>1, <3>2 DEF RowsInv, RowsUnique
    <3> QED
      BY <3>1, <3>2
  <2>6. RowsPresent'
    <3> SUFFICES ASSUME NEW j \in Sink \ FaultySinks, NEW q \in Request,
                        pc'[q] \in Recorded(j) \ {"lost"}, ask[q].service \in exists
                 PROVE  \E i \in DOMAIN table'[j][ask[q].service] :
                            table'[j][ask[q].service][i].req = q
      BY DEF RowsPresent
    <3>1. CASE j = k /\ q = r
      BY <1>1, <2>3, <3>1
    <3>2. CASE ~(j = k /\ q = r)
      <4>1. pc[q] \in Recorded(j) \ {"lost"}
        BY <3>2
      <4>2. PICK i \in DOMAIN table[j][ask[q].service] : table[j][ask[q].service][i].req = q
        BY <4>1 DEF RowsInv, RowsPresent
      <4>3. ask[q].service \in Service
        BY DEF TypeOK, Ask
      <4>4. i \in DOMAIN table'[j][ask[q].service]
            /\ table'[j][ask[q].service][i] = table[j][ask[q].service][i]
        BY <2>1, <2>3, <4>2, <4>3
      <4> QED
        BY <4>2, <4>4
    <3> QED
      BY <3>1, <3>2
  <2>7. DeletedIsEmpty'
    BY <1>5, <2>1 DEF RowsInv, DeletedIsEmpty
  <2> QED
    BY <2>4, <2>5, <2>6, <2>7 DEF RowsInv
<1>6. CASE UNCHANGED table /\ (s \notin exists \/ k \in FaultySinks)
  <2>1. RowsOwned'
    <3> SUFFICES ASSUME NEW j \in Sink, NEW t \in Service, NEW i \in DOMAIN table[j][t]
                 PROVE  LET x == table[j][t][i] IN
                        /\ ask[x.req].service = t /\ pc'[x.req] \in Recorded(j)
                        /\ x.outcome = outcome[x.req]
      BY <1>6 DEF RowsOwned
    <3>1. table[j][t][i].req \in Request
      BY <1>4
    <3> QED
      BY <1>2, <3>1 DEF RowsInv, RowsOwned
  <2>2. RowsUnique' /\ DeletedIsEmpty'
    BY <1>6 DEF RowsInv, RowsUnique, DeletedIsEmpty
  <2>3. RowsPresent'
    BY <1>6 DEF RowsInv, RowsPresent
  <2> QED
    BY <2>1, <2>2, <2>3 DEF RowsInv
<1> QED
  BY <1>5, <1>6 DEF Insert

(* Every other step leaves the tables alone, or empties those of a service *)
(* that goes.                                                              *)
LEMMA RowsStep ==
    ASSUME TypeOK, TypeOK', RowsInv, [Next]_vars
    PROVE  RowsInv'
<1> USE DEF Goto
<1>1. ASSUME NEW r \in Request, RecordDeploy(r) PROVE RowsInv'
  <2> "deploys" \in Sink
    BY DEF Sink
  <2> QED
    BY <1>1, RowsInserted DEF RecordDeploy, Recorded, Sink, TypeOK
<1>2. ASSUME NEW r \in Request, Notify(r) PROVE RowsInv'
  <2> "notifications" \in Sink
    BY DEF Sink
  <2> QED
    BY <1>2, RowsInserted DEF Notify, Recorded, Sink, TypeOK
<1>3. ASSUME NEW r \in Request, RecordAudit(r) PROVE RowsInv'
  <2> "audit" \in Sink
    BY DEF Sink
  <2> QED
    BY <1>3, RowsInserted DEF RecordAudit, Recorded, Sink, TypeOK
<1>4. ASSUME UNCHANGED <<exists, table>>,
             \A k \in Sink, q \in Request :
                pc'[q] \in Recorded(k) \ {"lost"} => pc[q] \in Recorded(k) \ {"lost"}
      PROVE  RowsInv'
  <2>1. \A k \in Sink, s \in Service : \A i \in DOMAIN table[k][s] :
            /\ table[k][s][i].req \in Request
            /\ pc[table[k][s][i].req] \in Recorded("deploys")
    BY RowsTyped DEF RowsInv, RowsOwned, Recorded
  <2>2. RowsOwned'
    BY <1>4, <2>1, StagesAscend DEF RowsInv, RowsOwned, ServiceOf
  <2>3. RowsUnique' /\ DeletedIsEmpty'
    BY <1>4 DEF RowsInv, RowsUnique, DeletedIsEmpty
  <2>4. RowsPresent'
    BY <1>4, StagesAscend DEF RowsInv, RowsPresent, ServiceOf
  <2> QED
    BY <2>2, <2>3, <2>4 DEF RowsInv
<1>5. ASSUME NEW r \in Request,
             Resolve(r) \/ ClaimRun(r) \/ EmitStarted(r) \/ ScriptFlips(r) \/ ScriptEnds(r)
             \/ PipesClose(r) \/ VerifyTarget(r) \/ EmitFinished(r) \/ ReleaseRun(r)
      PROVE  RowsInv'
  BY <1>4, <1>5 DEF Resolve, ClaimRun, EmitStarted, ScriptFlips, ScriptEnds, ScriptSucceeds,
     ScriptFails, TimeoutKills, PipesClose, VerifyTarget, EmitFinished, ReleaseRun,
     Recorded, Sink, TypeOK
<1>6. CASE Restart
  BY <1>4, <1>6 DEF Restart, Recorded, Sink, Executing, TypeOK
<1>7. ASSUME NEW s \in Service, FlipOutside(s) PROVE RowsInv'
  BY <1>4, <1>7 DEF FlipOutside
<1>8. ASSUME NEW s \in Service, DeleteService(s) PROVE RowsInv'
  <2>1. \A k \in Sink, t \in Service :
            table'[k][t] = IF t = s THEN <<>> ELSE table[k][t]
    BY <1>8 DEF DeleteService, TypeOK
  <2>2. UNCHANGED <<pc, ask, outcome>> /\ exists' = exists \ {s}
    BY <1>8 DEF DeleteService
  <2>3. RowsOwned'
    BY <2>1, <2>2 DEF RowsInv, RowsOwned, ServiceOf
  <2>4. RowsUnique'
    BY <2>1, <2>2 DEF RowsInv, RowsUnique
  <2>5. RowsPresent'
    <3>1. \A q \in Request : ask[q].service \in Service
      BY DEF TypeOK, Ask
    <3> QED
      BY <2>1, <2>2, <3>1 DEF RowsInv, RowsPresent, ServiceOf
  <2>6. DeletedIsEmpty'
    BY <2>1, <2>2 DEF RowsInv, DeletedIsEmpty
  <2> QED
    BY <2>3, <2>4, <2>5, <2>6 DEF RowsInv
<1>9. CASE UNCHANGED vars
  BY <1>4, <1>9 DEF vars
<1> QED
  BY <1>1, <1>2, <1>3, <1>5, <1>6, <1>7, <1>8, <1>9 DEF Next, Handle, Advance, Environment

-----------------------------------------------------------------------------
(* The event stream.  An event about a service is of one of its runs that  *)
(* has started; a finished one, of a run that has finished; and as long as *)
(* a run is alive nothing but its own events follows its events.           *)
Heard    == (Executing \ {"claimed"}) \cup {"done"}
Finished == {"notify", "audit", "release", "done"}

EventsOwned ==
    \A s \in Service : \A i \in DOMAIN stream[s] :
        LET e == stream[s][i] IN
        /\ ServiceOf(e.req) = s /\ pc[e.req] \in Heard
        /\ e.type = "finished" => pc[e.req] \in Finished

LiveRunIsLast ==
    \A s \in Service : \A i, j \in DOMAIN stream[s] :
        i < j /\ pc[stream[s][i].req] \in Executing => stream[s][j].req = stream[s][i].req

StreamInv == EventsOwned /\ LiveRunIsLast /\ RunsDoNotInterleave

(* What the stream of a service is made of.                                *)
LEMMA EventsTyped ==
    ASSUME TypeOK, NEW s \in Service
    PROVE  /\ stream[s] \in Seq(Event) /\ Len(stream[s]) \in Nat
           /\ DOMAIN stream[s] = 1 .. Len(stream[s])
           /\ \A i \in DOMAIN stream[s] : stream[s][i].req \in Request
<1>1. stream[s] \in Seq(Event)
  BY DEF TypeOK
<1>2. \A i \in 1 .. Len(stream[s]) : stream[s][i] \in Event
  BY <1>1, ElementOfSeq
<1>3. Len(stream[s]) \in Nat /\ DOMAIN stream[s] = 1 .. Len(stream[s])
  BY <1>1, LenProperties
<1> QED
  BY <1>1, <1>2, <1>3 DEF Event

(* A run that broadcasts is alive, so the last events of its service are   *)
(* its own, or those of runs that are over.                                *)
LEMMA StreamBroadcast ==
    ASSUME TypeOK, OneRunPerService, StreamInv, UNCHANGED ask,
           NEW r \in Request, NEW type \in {"started", "progress", "finished"},
           Broadcast(r, type), \A q \in Request \ {r} : pc'[q] = pc[q],
           pc[r] \in Executing \ Finished, pc'[r] \in Executing \ {"claimed"},
           type = "finished" => pc'[r] \in Finished
    PROVE  StreamInv'
<1> DEFINE s     == ServiceOf(r)
           event == [type |-> type, req |-> r]
           n     == Len(stream[s])
<1>1. s \in Service /\ event \in Event /\ event.req = r /\ event.type = type
  BY DEF TypeOK, Ask, ServiceOf, Event
<1>2. \A t \in Service : t # s => stream'[t] = stream[t]
  BY <1>1 DEF Broadcast, TypeOK
<1>3. stream'[s] = Append(stream[s], event)
  BY <1>1 DEF Broadcast, TypeOK
<1>4. /\ n \in Nat /\ DOMAIN stream[s] = 1 .. n
      /\ DOMAIN stream'[s] = 1 .. n + 1 /\ stream'[s][n + 1] = event
      /\ \A i \in 1 .. n : stream'[s][i] = stream[s][i]
  <2> HIDE DEF event, s
  <2> QED
    BY <1>1, <1>3, EventsTyped, AppendProperties
<1>5. \A q \in Request : /\ pc[q] \in Heard => pc'[q] \in Heard
                         /\ pc[q] \in Finished => pc'[q] \in Finished
                         /\ pc'[q] \in Executing => q = r \/ pc[q] \in Executing
  BY DEF Heard
<1>6. \A i \in 1 .. n : stream[s][i].req \in Request /\ ask[stream[s][i].req].service = s
  BY <1>1, <1>4, EventsTyped DEF StreamInv, EventsOwned, ServiceOf
<1>7. \A i \in 1 .. n : pc[stream[s][i].req] \in Executing => stream[s][i].req = r
  BY <1>1, <1>6 DEF OneRunPerService, ServiceOf
<1>8. \A i, j \in 1 .. n : i < j /\ stream[s][i].req = r => stream[s][j].req = r
  BY <1>1, <1>4 DEF StreamInv, LiveRunIsLast
<1>9. s = ask[r].service /\ s = ask'[r].service
  BY DEF ServiceOf
<1> HIDE DEF s, event, n
<1>10. EventsOwned'
  <2> SUFFICES ASSUME NEW t \in Service, NEW i \in DOMAIN stream'[t]
               PROVE  LET e == stream'[t][i] IN
                      /\ ask'[e.req].service = t /\ pc'[e.req] \in Heard
                      /\ e.type = "finished" => pc'[e.req] \in Finished
    BY DEF EventsOwned, ServiceOf
  <2>1. CASE t = s /\ i = n + 1
    BY <1>1, <1>4, <1>9, <2>1 DEF Heard
  <2>2. CASE t = s /\ i # n + 1
    <3>1. i \in 1 .. n /\ stream'[t][i] = stream[t][i]
      BY <1>4, <2>2
    <3> QED
      BY <1>1, <1>4, <1>5, <1>6, <2>2, <3>1 DEF StreamInv, EventsOwned, ServiceOf
  <2>3. CASE t # s
    BY <1>2, <1>5, <2>3, EventsTyped DEF StreamInv, EventsOwned, ServiceOf
  <2> QED
    BY <2>1, <2>2, <2>3
<1>11. LiveRunIsLast'
  <2> SUFFICES ASSUME NEW t \in Service, NEW i \in DOMAIN stream'[t],
                      NEW j \in DOMAIN stream'[t],
                      i < j, pc'[stream'[t][i].req] \in Executing
               PROVE  stream'[t][j].req = stream'[t][i].req
    BY DEF LiveRunIsLast
  <2>1. CASE t = s
    <3>1. i \in 1 .. n /\ j \in 1 .. n + 1 /\ stream'[s][i] = stream[s][i]
      BY <1>4, <2>1
    <3>2. stream[s][i].req = r
      BY <1>5, <1>6, <1>7, <2>1, <3>1
    <3>3. CASE j = n + 1
      BY <1>1, <1>4, <2>1, <3>1, <3>2, <3>3
    <3>4. CASE j \in 1 .. n
      BY <1>4, <1>8, <2>1, <3>1, <3>2, <3>4
    <3> QED
      BY <1>4, <3>1, <3>3, <3>4
  <2>2. CASE t # s
    <3>1. stream'[t] = stream[t] /\ stream[t][i].req \in Request
      BY <1>2, <2>2, EventsTyped
    <3>2. stream[t][i].req # r
      BY <1>9, <2>2, <3>1 DEF StreamInv, EventsOwned, ServiceOf
    <3> QED
      BY <1>5, <3>1, <3>2 DEF StreamInv, LiveRunIsLast
  <2> QED
    BY <2>1, <2>2
<1>12. RunsDoNotInterleave'
  <2> SUFFICES ASSUME NEW t \in Service, NEW i \in DOMAIN stream'[t],
                      NEW j \in DOMAIN stream'[t], NEW k \in DOMAIN stream'[t],
                      i < j, j < k, stream'[t][i].req = stream'[t][k].req
               PROVE  stream'[t][j].req = stream'[t][i].req
    BY DEF RunsDoNotInterleave
  <2>1. CASE t = s
    <3>1. /\ i \in 1 .. n /\ j \in 1 .. n /\ k \in 1 .. n + 1
          /\ stream'[s][i] = stream[s][i] /\ stream'[s][j] = stream[s][j]
      BY <1>4, <2>1
    <3>2. CASE k = n + 1
      BY <1>1, <1>4, <1>8, <2>1, <3>1, <3>2
    <3>3. CASE k \in 1 .. n
      <4>1. \A a, b, c \in 1 .. n :
                a < b /\ b < c /\ stream[s][a].req = stream[s][c].req
                => stream[s][b].req = stream[s][a].req
        BY <1>1, <1>4 DEF StreamInv, RunsDoNotInterleave
      <4>2. stream[s][i].req = stream[s][k].req
        BY <1>4, <2>1, <3>1, <3>3
      <4> QED
        BY <2>1, <3>1, <3>3, <4>1, <4>2
    <3> QED
      BY <1>4, <3>1, <3>2, <3>3
  <2>2. CASE t # s
    BY <1>2, <2>2 DEF StreamInv, RunsDoNotInterleave
  <2> QED
    BY <2>1, <2>2
<1> QED
  BY <1>10, <1>11, <1>12 DEF StreamInv

(* Every step keeps the order of the events on a service's stream.         *)
LEMMA StreamStep ==
    ASSUME TypeOK, OneRunPerService, StreamInv, [Next]_vars
    PROVE  StreamInv'
<1> USE DEF Goto
<1>1. ASSUME NEW r \in Request, EmitStarted(r) PROVE StreamInv'
  BY <1>1, StreamBroadcast DEF EmitStarted, TypeOK, Executing, Finished
<1>2. ASSUME NEW r \in Request, ScriptSucceeds(r) PROVE StreamInv'
  <2>1. pc[r] \in {"script", "flipped"} /\ pc'[r] \in {"verify", "record"}
    BY <1>2 DEF ScriptSucceeds, TypeOK
  <2> QED
    BY <1>2, <2>1, StreamBroadcast DEF ScriptSucceeds, TypeOK, Executing, Finished
<1>3. ASSUME NEW r \in Request, ScriptFails(r) PROVE StreamInv'
  BY <1>3, StreamBroadcast DEF ScriptFails, TypeOK, Executing, Finished
<1>4. ASSUME NEW r \in Request, PipesClose(r) PROVE StreamInv'
  BY <1>4, StreamBroadcast DEF PipesClose, TypeOK, Executing, Finished
<1>5. ASSUME NEW r \in Request, EmitFinished(r) PROVE StreamInv'
  BY <1>5, StreamBroadcast DEF EmitFinished, TypeOK, Executing, Finished
<1>6. ASSUME UNCHANGED <<stream, ask>>,
             \A q \in Request :
                /\ pc[q] \in Heard => pc'[q] \in Heard
                /\ pc[q] \in Finished => pc'[q] \in Finished
                /\ pc[q] \in Heard /\ pc'[q] \in Executing => pc[q] \in Executing
      PROVE  StreamInv'
  <2>1. EventsOwned'
    BY <1>6, EventsTyped DEF StreamInv, EventsOwned, ServiceOf
  <2>2. LiveRunIsLast'
    BY <1>6, EventsTyped DEF StreamInv, EventsOwned, LiveRunIsLast
  <2>3. RunsDoNotInterleave'
    BY <1>6 DEF StreamInv, RunsDoNotInterleave
  <2> QED
    BY <2>1, <2>2, <2>3 DEF StreamInv
<1>7. ASSUME NEW r \in Request,
             Resolve(r) \/ ClaimRun(r) \/ ScriptFlips(r) \/ TimeoutKills(r)
             \/ VerifyTarget(r) \/ RecordDeploy(r) \/ Notify(r) \/ RecordAudit(r)
             \/ ReleaseRun(r)
      PROVE  StreamInv'
  BY <1>6, <1>7 DEF Resolve, ClaimRun, ScriptFlips, TimeoutKills, VerifyTarget, RecordDeploy,
     Notify, RecordAudit, ReleaseRun, TypeOK, Heard, Finished, Executing
<1>8. CASE Restart
  <2>1. \A s \in Service : DOMAIN stream'[s] = {}
    BY <1>8 DEF Restart
  <2> QED
    BY <2>1 DEF StreamInv, EventsOwned, LiveRunIsLast, RunsDoNotInterleave
<1>9. ASSUME NEW s \in Service, FlipOutside(s) \/ DeleteService(s) PROVE StreamInv'
  BY <1>6, <1>9 DEF FlipOutside, DeleteService
<1>10. CASE UNCHANGED vars
  BY <1>6, <1>10 DEF vars
<1> QED
  BY <1>1, <1>2, <1>3, <1>4, <1>5, <1>7, <1>8, <1>9, <1>10
     DEF Next, Handle, Advance, ScriptEnds, Environment

-----------------------------------------------------------------------------
(* The history and the traffic.  Between its flip and its row a run may    *)
(* have moved nginx without the history saying so; at any other time nginx *)
(* names the target of the newest row, if that is a success.  A run that   *)
(* can still succeed has nginx where it wants it.                          *)
Moving      == {"flipped", "killed", "verify", "record"}
Undisturbed == flips = 0 /\ crashes = 0 /\ "deploys" \notin FaultySinks
Settled(s)  == \A r \in Request : ServiceOf(r) = s => pc[r] \notin Moving

FollowsAt(s) ==
    LET rows == table["deploys"][s] IN
    Settled(s) /\ rows # <<>> /\ rows[Len(rows)].outcome = "success"
    => live[s] = target[rows[Len(rows)].req]

HistoryFollows == Undisturbed => \A s \in BlueGreen : FollowsAt(s)

RunFollows ==
    Undisturbed =>
    \A r \in Request :
        /\ ServiceOf(r) \in BlueGreen
        /\ pc[r] \in {"flipped", "verify"} \/ (pc[r] = "record" /\ outcome[r] = "success")
        => live[ServiceOf(r)] = target[r]

(* Nobody disturbs in a step that nobody disturbed before.                 *)
LEMMA Disturbed ==
    ASSUME TypeOK, [Next]_vars, Undisturbed'
    PROVE  /\ Undisturbed /\ ~Restart /\ \A s \in Service : ~FlipOutside(s)
<1>1. \A s \in Service : ~FlipOutside(s)
  BY DEF FlipOutside, TypeOK, Undisturbed
<1>2. ~Restart
  BY DEF Restart, TypeOK, Undisturbed
<1>3. flips' = flips /\ crashes' = crashes
  BY <1>1, <1>2 DEF Next, Handle, Advance, ScriptEnds, Environment, Resolve, ClaimRun, EmitStarted,
     ScriptFlips, ScriptSucceeds, ScriptFails, TimeoutKills, PipesClose, VerifyTarget,
     RecordDeploy, EmitFinished, Notify, RecordAudit, ReleaseRun, DeleteService, vars
<1> QED
  BY <1>1, <1>2, <1>3 DEF Undisturbed

(* nginx is moved by the run of the service only, and that run is moving.  *)
LEMMA LiveMoves ==
    ASSUME TypeOK, [Next]_vars, NEW s \in BlueGreen,
           \A t \in Service : ~FlipOutside(t)
    PROVE  \/ live'[s] = live[s]
           \/ \E r \in Request : /\ ServiceOf(r) = s /\ pc'[r] \in Moving
                                 /\ ScriptFlips(r) \/ ScriptFails(r)
<1>1. ASSUME NEW r \in Request, ScriptFlips(r) \/ ScriptFails(r), ServiceOf(r) # s
      PROVE  live'[s] = live[s]
  BY <1>1 DEF ScriptFlips, ScriptFails, TypeOK
<1>2. ASSUME NEW r \in Request, ScriptFlips(r) \/ ScriptFails(r)
      PROVE  pc'[r] \in Moving
  BY <1>2 DEF ScriptFlips, ScriptFails, TypeOK, Goto, Moving
<1>3. CASE \A r \in Request : ~ScriptFlips(r) /\ ~ScriptFails(r)
  BY <1>3 DEF Next, Handle, Advance, ScriptEnds, Environment, Resolve, ClaimRun, EmitStarted,
     ScriptSucceeds, TimeoutKills, PipesClose, VerifyTarget, RecordDeploy, EmitFinished,
     Notify, RecordAudit, ReleaseRun, DeleteService, Restart, vars
<1> QED
  BY <1>1, <1>2, <1>3

(* The stages a run is moving in follow one another up to its row.         *)
LEMMA MovingOn ==
    ASSUME TypeOK, [Next]_vars, ~Restart, NEW r \in Request, ~RecordDeploy(r)
    PROVE  pc[r] \in Moving => pc'[r] \in Moving
BY DEF Next, Handle, Advance, ScriptEnds, Environment, Resolve, ClaimRun, EmitStarted,
   ScriptFlips, ScriptSucceeds, ScriptFails, TimeoutKills, PipesClose, VerifyTarget, RecordDeploy,
   EmitFinished, Notify, RecordAudit, ReleaseRun, FlipOutside, DeleteService, vars, TypeOK,
   Goto, Moving

(* Only the row of a run is added to the history.                          *)
LEMMA HistoryGrows ==
    ASSUME TypeOK, [Next]_vars, \A r \in Request : ~RecordDeploy(r), NEW s \in Service
    PROVE  table'["deploys"][s] \in {table["deploys"][s], <<>>}
<1> USE DEF Sink
<1>1. ASSUME NEW r \in Request, Notify(r) \/ RecordAudit(r)
      PROVE  table'["deploys"] = table["deploys"]
  BY <1>1 DEF Notify, RecordAudit, Insert, TypeOK
<1>2. ASSUME NEW t \in Service, DeleteService(t)
      PROVE  table'["deploys"][s] \in {table["deploys"][s], <<>>}
  BY <1>2 DEF DeleteService, TypeOK
<1>3. CASE /\ \A r \in Request : ~Notify(r) /\ ~RecordAudit(r)
           /\ \A t \in Service : ~DeleteService(t)
  BY <1>3 DEF Next, Handle, Advance, ScriptEnds, Environment, Resolve, ClaimRun, EmitStarted,
     ScriptFlips, ScriptSucceeds, ScriptFails, TimeoutKills, PipesClose, VerifyTarget,
     EmitFinished, ReleaseRun, FlipOutside, Restart, vars
<1> QED
  BY <1>1, <1>2, <1>3

(* Every step keeps what a run has done so far in line with its stage.     *)
LEMMA RunFollowsStep ==
    ASSUME TypeOK, OneRunPerService, RunFollows, [Next]_vars
    PROVE  RunFollows'
<1> SUFFICES ASSUME Undisturbed', NEW r \in Request, ask'[r].service \in BlueGreen,
                    \/ pc'[r] \in {"flipped", "verify"}
                    \/ pc'[r] = "record" /\ outcome'[r] = "success"
             PROVE  live'[ask'[r].service] = target'[r]
  BY DEF RunFollows, ServiceOf
<1> DEFINE s == ask[r].service
<1> USE DEF ServiceOf
<1>1. /\ Undisturbed /\ ~Restart /\ \A t \in Service : ~FlipOutside(t)
  BY Disturbed
<1>2. ask' = ask /\ s \in BlueGreen
  BY StagesAscend
<1>3. CASE ScriptFlips(r)
  BY <1>2, <1>3 DEF ScriptFlips, TypeOK
<1>4. CASE ~ScriptFlips(r)
  <2>1. /\ pc[r] \in {"flipped", "verify"} \/ (pc[r] = "record" /\ outcome[r] = "success")
        /\ target'[r] = target[r] /\ ~ScriptFails(r)
    BY <1>1, <1>2, <1>4 DEF Next, Handle, Advance, ScriptEnds, Environment, Resolve, ClaimRun,
       EmitStarted, ScriptFlips, ScriptSucceeds, ScriptFails, TimeoutKills, PipesClose,
       VerifyTarget, RecordDeploy, EmitFinished, Notify, RecordAudit, ReleaseRun, DeleteService,
       vars, TypeOK, Goto, Outcome
  <2>2. live[s] = target[r]
    BY <1>1, <1>2, <2>1 DEF RunFollows
  <2>3. live'[s] = live[s]
    <3>1. SUFFICES ASSUME NEW q \in Request, ask[q].service = s, ScriptFlips(q) \/ ScriptFails(q)
                   PROVE  FALSE
      BY <1>1, <1>2, LiveMoves
    <3>2. pc[q] \in Executing /\ pc[r] \in Executing
      BY <2>1, <3>1 DEF ScriptFlips, ScriptFails, Executing
    <3> QED
      BY <1>4, <2>1, <3>1, <3>2 DEF OneRunPerService
  <2> QED
    BY <1>2, <2>1, <2>2, <2>3
<1> QED
  BY <1>3, <1>4

(* A row is added in front of which nginx is where the run wanted it; any  *)
(* other step keeps the service moving, or nginx and the history as they   *)
(* are.                                                                    *)
LEMMA HistoryFollowsStep ==
    ASSUME TypeOK, OneRunPerService, RowsInv, RunFollows, HistoryFollows, [Next]_vars
    PROVE  HistoryFollows'
<1> SUFFICES ASSUME Undisturbed', NEW s \in BlueGreen PROVE FollowsAt(s)'
  BY DEF HistoryFollows
<1> DEFINE rows == table["deploys"][s]
<1>1. /\ Undisturbed /\ ~Restart /\ \A t \in Service : ~FlipOutside(t)
  BY Disturbed
<1>2. s \in Service /\ "deploys" \in Sink /\ FollowsAt(s)
  BY <1>1, ServicesAssumption DEF HistoryFollows, Sink
<1>3. ask' = ask
  BY StagesAscend
<1>4. rows # <<>> => /\ Len(rows) \in DOMAIN rows /\ rows[Len(rows)].req \in Request
                     /\ target'[rows[Len(rows)].req] = target[rows[Len(rows)].req]
  <2> SUFFICES ASSUME rows # <<>>
               PROVE  /\ Len(rows) \in DOMAIN rows /\ rows[Len(rows)].req \in Request
                      /\ target'[rows[Len(rows)].req] = target[rows[Len(rows)].req]
    OBVIOUS
  <2>1. Len(rows) \in DOMAIN rows
    BY <1>2, RowsTyped, EmptySeq
  <2>2. rows[Len(rows)].req \in Request /\ pc[rows[Len(rows)].req] \in Recorded("deploys")
    BY <1>2, <2>1, RowsTyped DEF RowsInv, RowsOwned
  <2> QED
    BY <2>1, <2>2, StagesAscend
<1>5. ASSUME table'["deploys"][s] = rows \/ table'["deploys"][s] = <<>>,
             \A r \in Request : ask[r].service = s => ~RecordDeploy(r)
      PROVE  FollowsAt(s)'
  <2> SUFFICES ASSUME Settled(s)', table'["deploys"][s] = rows, rows # <<>>,
                      rows[Len(rows)].outcome = "success"
               PROVE  live'[s] = target'[rows[Len(rows)].req]
    BY <1>5 DEF FollowsAt
  <2>1. Settled(s)
    BY <1>1, <1>3, <1>5, MovingOn DEF Settled, ServiceOf
  <2>2. live'[s] = live[s]
    BY <1>1, <1>3, LiveMoves DEF Settled, ServiceOf
  <2> QED
    BY <1>2, <1>4, <2>1, <2>2 DEF FollowsAt
<1>6. CASE \A r \in Request : ~RecordDeploy(r)
  BY <1>2, <1>5, <1>6, HistoryGrows
<1>7. ASSUME NEW r \in Request, RecordDeploy(r) PROVE FollowsAt(s)'
  <2>1. CASE ask[r].service # s
    <3>1. table'["deploys"][s] = rows
      BY <1>2, <1>7, <2>1 DEF RecordDeploy, Insert, TypeOK, ServiceOf
    <3>2. \A q \in Request : ask[q].service = s => ~RecordDeploy(q)
      BY <1>7, <2>1 DEF RecordDeploy, Goto, TypeOK
    <3> QED
      BY <1>5, <3>1, <3>2
  <2>2. CASE ask[r].service = s /\ table' = table
    <3>1. s \notin exists
      BY <1>1, <1>2, <1>7, <2>2, RowsTyped, AppendProperties
         DEF RecordDeploy, Insert, TypeOK, ServiceOf, Undisturbed, Row
    <3>2. table'["deploys"][s] = <<>>
      BY <1>2, <2>2, <3>1 DEF RowsInv, DeletedIsEmpty
    <3> QED
      BY <3>2 DEF FollowsAt
  <2>3. CASE /\ ask[r].service = s
             /\ table' = [table EXCEPT !["deploys"][s] =
                             Append(@, [req |-> r, outcome |-> outcome[r]])]
    <3> DEFINE row == [req |-> r, outcome |-> outcome[r]]
               new == table'["deploys"][s]
    <3>1. row \in Row /\ row.req = r /\ row.outcome = outcome[r]
      BY DEF TypeOK, Row
    <3>2. new = Append(rows, row)
      BY <1>2, <2>3 DEF TypeOK
    <3>3. new[Len(new)] = row
      <4> HIDE DEF row
      <4> QED
        BY <1>2, <3>1, <3>2, RowsTyped, AppendProperties
    <3>4. pc[r] = "record" /\ UNCHANGED <<live, target, outcome>>
      BY <1>7 DEF RecordDeploy
    <3>5. outcome[r] = "success" => live[s] = target[r]
      BY <1>1, <2>3, <3>4 DEF RunFollows, ServiceOf
    <3> QED
      BY <3>1, <3>3, <3>4, <3>5 DEF FollowsAt
  <2> QED
    BY <1>7, <2>1, <2>2, <2>3 DEF RecordDeploy, Insert, ServiceOf
<1> QED
  BY <1>6, <1>7

EngineInv == ClaimInv /\ RowsInv /\ StreamInv /\ RunFollows /\ HistoryFollows

(* The invariant of the engine: its runs, rows, events and history.        *)
LEMMA EngineInvariant == Spec => []EngineInv
<1>1. Init => RowsInv /\ StreamInv /\ RunFollows /\ HistoryFollows
  <2> SUFFICES ASSUME Init PROVE RowsInv /\ StreamInv /\ RunFollows /\ HistoryFollows
    OBVIOUS
  <2>1. \A k \in Sink, s \in Service : table[k][s] = <<>>
    BY DEF Init
  <2>2. RowsInv
    BY <2>1 DEF Init, RowsInv, RowsOwned, RowsUnique, RowsPresent, DeletedIsEmpty, Recorded
  <2>3. StreamInv
    BY DEF Init, StreamInv, EventsOwned, LiveRunIsLast, RunsDoNotInterleave
  <2>4. RunFollows
    BY DEF Init, RunFollows
  <2>5. HistoryFollows
    BY <2>1, ServicesAssumption DEF HistoryFollows, FollowsAt, Sink
  <2> QED
    BY <2>2, <2>3, <2>4, <2>5
<1>2. EngineInv /\ ClaimInv' /\ [Next]_vars => EngineInv'
  BY RowsStep, StreamStep, RunFollowsStep, HistoryFollowsStep DEF EngineInv, ClaimInv
<1> QED
  BY <1>1, <1>2, ClaimInvariant, PTL DEF Spec, EngineInv

(* Whatever fails on the way and wherever the process restarts, a run that *)
(* is done has exactly one row, of its outcome, in each table whose INSERT *)
(* did not fail; and a finished event is never ahead of the history.       *)
THEOREM ReceiptsAreComplete == Spec => []ReceiptsComplete
<1>1. EngineInv => ReceiptsComplete
  <2> SUFFICES ASSUME EngineInv PROVE ReceiptsComplete
    OBVIOUS
  <2>1. ASSUME NEW r \in Request, pc[r] = "done", ServiceOf(r) \in exists,
               NEW k \in Sink \ FaultySinks
        PROVE  LET rows == table[k][ServiceOf(r)]
                   own  == {i \in DOMAIN rows : rows[i].req = r}
               IN  Cardinality(own) = 1 /\ \A i \in own : rows[i].outcome = outcome[r]
    <3> DEFINE rows == table[k][ServiceOf(r)]
               own  == {i \in DOMAIN rows : rows[i].req = r}
    <3>1. ServiceOf(r) \in Service
      BY DEF EngineInv, ClaimInv, TypeOK, Ask, ServiceOf
    <3>2. PICK i \in DOMAIN rows : rows[i].req = r
      BY <2>1 DEF EngineInv, RowsInv, RowsPresent, Recorded
    <3>3. own = {i}
      BY <3>1, <3>2 DEF EngineInv, RowsInv, RowsUnique
    <3>4. Cardinality(own) = 1
      BY <3>3, FS_Singleton
    <3>5. \A j \in own : rows[j].outcome = outcome[r]
      BY <3>1 DEF EngineInv, RowsInv, RowsOwned
    <3> QED
      BY <3>4, <3>5
  <2>2. FinishedIsRecorded
    <3> SUFFICES ASSUME "deploys" \notin FaultySinks, NEW s \in exists,
                        NEW i \in DOMAIN stream[s], stream[s][i].type = "finished"
                 PROVE  \E j \in DOMAIN table["deploys"][s] :
                            table["deploys"][s][j].req = stream[s][i].req
      BY DEF FinishedIsRecorded, EngineInv, ClaimInv, TypeOK
    <3>1. s \in Service
      BY DEF EngineInv, ClaimInv, TypeOK
    <3> DEFINE q == stream[s][i].req
    <3>2. q \in Request /\ ServiceOf(q) = s /\ pc[q] \in Finished
      BY <3>1, EventsTyped DEF EngineInv, ClaimInv, StreamInv, EventsOwned
    <3>3. pc[q] \in Recorded("deploys") \ {"lost"}
      BY <3>2 DEF Finished, Recorded
    <3>4. "deploys" \in Sink \ FaultySinks
      BY DEF Sink
    <3> QED
      BY <3>2, <3>3, <3>4 DEF EngineInv, RowsInv, RowsPresent
  <2> QED
    BY <2>1, <2>2 DEF ReceiptsComplete, OneRowEach
<1> QED
  BY <1>1, EngineInvariant, PTL

(* On the stream of a service the events of two runs never mix, whatever   *)
(* the runs and however often the process starts again.                    *)
THEOREM EventsFollowRuns == Spec => []RunsDoNotInterleave
<1>1. EngineInv => RunsDoNotInterleave
  BY DEF EngineInv, StreamInv
<1> QED
  BY <1>1, EngineInvariant, PTL

(* With no run in flight and nobody disturbing, a history whose newest row *)
(* is a success names the target nginx serves, whatever runs failed,       *)
(* flipped back or timed out before it.                                    *)
THEOREM HistoryTellsTraffic == Spec => []HistoryMatchesNginx
<1>1. EngineInv => HistoryMatchesNginx
  <2> SUFFICES ASSUME EngineInv, Undisturbed, NEW s \in BlueGreen, s \notin runs
               PROVE  LET rows == table["deploys"][s] IN
                      rows # <<>> /\ rows[Len(rows)].outcome = "success"
                      => live[s] = target[rows[Len(rows)].req]
    BY DEF HistoryMatchesNginx, Undisturbed
  <2>1. Settled(s)
    BY ServicesAssumption
       DEF EngineInv, ClaimInv, ClaimsOwned, Runs, Settled, Moving, Executing
  <2> QED
    BY <2>1 DEF EngineInv, HistoryFollows, FollowsAt
<1> QED
  BY <1>1, EngineInvariant, PTL

-----------------------------------------------------------------------------
(* The engine is a serial executor: a claim begins a run, the row of the   *)
(* history logs it, the release ends it, a restart abandons, a deletion    *)
(* forgets, and every other step is a stutter of the abstract machine.     *)
LEMMA SerialStutters ==
    ASSUME TypeOK, UNCHANGED <<ask>>, table'["deploys"] = table["deploys"],
           \A q \in Request :
              /\ pc'[q] \in Executing <=> pc[q] \in Executing
              /\ pc'[q] \in {"done", "lost"} <=> pc[q] \in {"done", "lost"}
    PROVE  UNCHANGED Serial!vars
BY DEF Serial!vars, Runs, ServiceOf

(* A step of the engine is one of the serial executor or stutters.         *)
LEMMA SerialStep ==
    ASSUME TypeOK, ClaimInv, RowsInv, [Next]_vars
    PROVE  [Serial!Next]_(Serial!vars)
<1> DEFINE Started == {r \in Request : pc[r] \in Executing \cup {"done", "lost"}}
<1> USE DEF Goto
<1>1. ASSUME NEW r \in Request, ClaimRun(r) PROVE [Serial!Next]_(Serial!vars)
  <2> DEFINE s == ServiceOf(r)
  <2>1. s \in Service /\ UNCHANGED <<ask, table>> /\ pc[r] = "resolved"
    BY <1>1 DEF ClaimRun, TypeOK, Ask, ServiceOf
  <2>2. CASE s \in runs
    <3>1. pc' = [pc EXCEPT ![r] = "rejected"]
      BY <1>1, <2>2 DEF ClaimRun, Idle
    <3> QED
      BY <2>1, <3>1, SerialStutters DEF TypeOK, Executing
  <2>3. CASE s \notin runs
    <3>1. pc' = [pc EXCEPT ![r] = "claimed"]
      BY <1>1, <2>3 DEF ClaimRun, Idle
    <3>2. Runs(s) = {}
      BY <2>1, <2>3 DEF ClaimInv, ClaimsOwned
    <3>3. \A t \in Service : Runs(t)' = IF t = s THEN {r} ELSE Runs(t)
      BY <2>1, <3>1, <3>2 DEF Runs, ServiceOf, TypeOK, Executing
    <3>4. r \notin Started /\ Started' = Started \cup {r}
      BY <2>1, <3>1 DEF TypeOK, Executing
    <3> HIDE DEF s, Started
    <3>5. [t \in Service |-> Runs(t)]' = [[t \in Service |-> Runs(t)] EXCEPT ![s] = {r}]
      BY <2>1, <3>3
    <3>6. Serial!Begin(s, r)
      BY <2>1, <3>2, <3>4, <3>5 DEF Serial!Begin, Started
    <3> QED
      BY <2>1, <3>6 DEF Serial!Next
  <2> QED
    BY <2>2, <2>3
<1>2. ASSUME NEW r \in Request, RecordDeploy(r) PROVE [Serial!Next]_(Serial!vars)
  <2> DEFINE s == ServiceOf(r)
  <2>1. /\ s \in Service /\ UNCHANGED <<ask, outcome>> /\ pc[r] = "record"
        /\ pc' = [pc EXCEPT ![r] = "finish"]
    BY <1>2 DEF RecordDeploy, TypeOK, Ask, ServiceOf
  <2>2. CASE UNCHANGED table
    BY <2>1, <2>2, SerialStutters DEF TypeOK, Executing
  <2>3. CASE table' = [table EXCEPT !["deploys"][s] =
                          Append(@, [req |-> r, outcome |-> outcome[r]])]
    <3>1. Runs(s) = {r}
      BY <2>1 DEF ClaimInv, OneRunPerService, Runs, ServiceOf, Executing
    <3>2. /\ Started' = Started
          /\ [t \in Service |-> Runs(t)]' = [t \in Service |-> Runs(t)]
      BY <2>1 DEF Runs, ServiceOf, TypeOK, Executing
    <3>3. \A i \in DOMAIN table["deploys"][s] : table["deploys"][s][i].req # r
      BY <2>1 DEF RowsInv, RowsOwned, Recorded, Sink
    <3>4. table'["deploys"] = [table["deploys"] EXCEPT ![s] =
                                  Append(@, [req |-> r, outcome |-> outcome[r]])]
      BY <2>3 DEF TypeOK, Sink
    <3>5. outcome[r] \in Outcome
      BY DEF TypeOK
    <3>6. Serial!Log(s, r, outcome[r])
      BY <2>1, <3>1, <3>2, <3>3, <3>4 DEF Serial!Log
    <3> QED
      BY <2>1, <3>5, <3>6 DEF Serial!Next
  <2> QED
    BY <1>2, <2>2, <2>3 DEF RecordDeploy, Insert
<1>3. ASSUME NEW r \in Request, ReleaseRun(r) PROVE [Serial!Next]_(Serial!vars)
  <2> DEFINE s == ServiceOf(r)
  <2>1. /\ s \in Service /\ UNCHANGED <<ask, table>> /\ pc[r] = "release"
        /\ pc' = [pc EXCEPT ![r] = "done"]
    BY <1>3 DEF ReleaseRun, TypeOK, Ask, ServiceOf
  <2>2. Runs(s) = {r}
    BY <2>1 DEF ClaimInv, OneRunPerService, Runs, ServiceOf, Executing
  <2>3. \A t \in Service : Runs(t)' = IF t = s THEN {} ELSE Runs(t)
    BY <2>1, <2>2 DEF Runs, ServiceOf, TypeOK, Executing
  <2>4. Started' = Started
    BY <2>1 DEF TypeOK, Executing
  <2> HIDE DEF s, Started
  <2>5. [t \in Service |-> Runs(t)]' = [[t \in Service |-> Runs(t)] EXCEPT ![s] = {}]
    BY <2>1, <2>3
  <2>6. Serial!End(s, r)
    BY <2>1, <2>2, <2>4, <2>5 DEF Serial!End, Started
  <2> QED
    BY <2>1, <2>6 DEF Serial!Next
<1>4. CASE Restart
  <2>1. /\ UNCHANGED <<ask, table>>
        /\ \A q \in Request : pc'[q] = IF pc[q] \in Executing THEN "lost"
                                       ELSE IF pc[q] = "resolved" THEN "rejected" ELSE pc[q]
    BY <1>4 DEF Restart
  <2>2. \A t \in Service : Runs(t)' = {}
    BY <2>1 DEF Runs, Executing
  <2>3. Started' = Started
    BY <2>1 DEF Executing
  <2>4. Serial!Abandon
    BY <2>1, <2>2, <2>3 DEF Serial!Abandon
  <2> QED
    BY <2>4 DEF Serial!Next
<1>5. ASSUME NEW s \in Service, DeleteService(s) PROVE [Serial!Next]_(Serial!vars)
  <2>1. UNCHANGED <<ask, pc>> /\ table'["deploys"] = [table["deploys"] EXCEPT ![s] = <<>>]
    BY <1>5 DEF DeleteService, Sink
  <2>2. Serial!Forget(s)
    BY <2>1 DEF Serial!Forget, Runs, ServiceOf
  <2> QED
    BY <2>2 DEF Serial!Next
<1>6. ASSUME NEW r \in Request, Notify(r) \/ RecordAudit(r) PROVE [Serial!Next]_(Serial!vars)
  <2>1. table'["deploys"] = table["deploys"]
    BY <1>6 DEF Notify, RecordAudit, Insert, TypeOK, Sink
  <2> QED
    BY <1>6, <2>1, SerialStutters DEF Notify, RecordAudit, TypeOK, Executing
<1>7. ASSUME NEW r \in Request,
             Resolve(r) \/ EmitStarted(r) \/ ScriptFlips(r) \/ ScriptEnds(r)
             \/ PipesClose(r) \/ VerifyTarget(r) \/ EmitFinished(r)
      PROVE  [Serial!Next]_(Serial!vars)
  <2>1. /\ UNCHANGED <<ask, table>>
        /\ \A q \in Request :
              /\ pc'[q] \in Executing <=> pc[q] \in Executing
              /\ pc'[q] \in {"done", "lost"} <=> pc[q] \in {"done", "lost"}
    BY <1>7 DEF Resolve, EmitStarted, ScriptFlips, ScriptEnds, ScriptSucceeds, ScriptFails,
       TimeoutKills, PipesClose, VerifyTarget, EmitFinished, TypeOK, Executing
  <2> QED
    BY <2>1, SerialStutters
<1>8. ASSUME NEW s \in Service, FlipOutside(s) PROVE [Serial!Next]_(Serial!vars)
  BY <1>8, SerialStutters DEF FlipOutside
<1>9. CASE UNCHANGED vars
  BY <1>9, SerialStutters DEF vars
<1> QED
  BY <1>1, <1>2, <1>3, <1>4, <1>5, <1>6, <1>7, <1>8, <1>9 DEF Next, Handle, Advance, Environment

(* The engine implements the serial executor, for any number of services   *)
(* and requests.                                                           *)
THEOREM EngineIsSerial == Spec => SerialSpec
<1>1. Init => Serial!Init
  <2> SUFFICES ASSUME Init PROVE Serial!Init
    OBVIOUS
  <2>1. \A r \in Request : pc[r] \notin Executing \cup {"done", "lost"}
    BY DEF Init, Executing
  <2>2. table["deploys"] = [s \in Service |-> <<>>]
    BY DEF Init, Sink
  <2> QED
    BY <2>1, <2>2 DEF Serial!Init, Runs
<1>2. EngineInv /\ [Next]_vars => [Serial!Next]_(Serial!vars)
  BY SerialStep DEF EngineInv, ClaimInv
<1> QED
  BY <1>1, <1>2, EngineInvariant, PTL DEF Spec, SerialSpec, Serial!Spec

-----------------------------------------------------------------------------
(* The watch loop beside the engine.  A move that no report was made of is *)
(* the one between the target seen last and the conf, and one that is      *)
(* being reported is still to be counted.                                  *)
Following(s) == IF seen # <<>> /\ seen[1] = s THEN seen[2] ELSE last[s]

Owing(s) ==
    (IF seen # <<>> /\ seen[1] = s THEN 1 ELSE 0)
  + (IF Following(s) \notin {"none", live[s]} THEN 1 ELSE 0)

MovesAreOwed == \A s \in BlueGreen : Unrun(s) => reports[s] + Owing(s) <= moves[s]

(* The loop only reads what the engine and its environment do.             *)
LEMMA WatchStep ==
    ASSUME [WatchNext]_allVars
    PROVE  [Next]_vars
BY ServicesAssumption DEF WatchNext, PollTarget, ReportFlip, Next, Environment, allVars

(* Beside the watch loop the engine is the engine: whatever is proved of   *)
(* it holds of the two together.                                           *)
THEOREM WatchRunsEngine == WatchSpec => Spec
<1>1. WatchInit => Init
  BY DEF WatchInit
<1>2. [WatchNext]_allVars => [Next]_vars
  BY WatchStep
<1> QED
  BY <1>1, <1>2, PTL DEF WatchSpec, Spec

(* What the loop remembers and reports is of readable targets of           *)
(* blue-green services.                                                    *)
THEOREM WatchTypeCorrect == WatchSpec => [](TypeOK /\ WatchTypeOK)
<1>1. WatchInit => WatchTypeOK
  BY DEF WatchInit, WatchTypeOK
<1>2. TypeOK /\ WatchTypeOK /\ [WatchNext]_allVars => WatchTypeOK'
  <2> SUFFICES ASSUME TypeOK, WatchTypeOK, [WatchNext]_allVars PROVE WatchTypeOK'
    OBVIOUS
  <2>1. ASSUME NEW s \in BlueGreen, moves' = [moves EXCEPT ![s] = @ + 1],
               UNCHANGED <<last, seen, reports>>
        PROVE  WatchTypeOK'
    BY <2>1 DEF WatchTypeOK
  <2>2. CASE last' = [s \in BlueGreen |-> "none"] /\ seen' = <<>> /\ UNCHANGED <<reports, moves>>
    BY <2>2 DEF WatchTypeOK
  <2>3. ASSUME NEW s \in BlueGreen, PollTarget(s) PROVE WatchTypeOK'
    <3>1. live[s] \in Live \ {"unreadable"}
      BY <2>3 DEF TypeOK, PollTarget, Readable
    <3> QED
      BY <2>3, <3>1 DEF WatchTypeOK, PollTarget, Remember
  <2>4. CASE ReportFlip
    <3>1. seen[1] \in BlueGreen /\ seen[2] \in Live \ {"unreadable"}
      BY <2>4 DEF WatchTypeOK, ReportFlip
    <3> QED
      BY <2>4, <3>1 DEF WatchTypeOK, ReportFlip, Remember
  <2>5. CASE UNCHANGED watch
    BY <2>5 DEF WatchTypeOK, watch
  <2> QED
    BY <2>1, <2>2, <2>3, <2>4, <2>5 DEF WatchNext, allVars
<1> QED
  BY <1>1, <1>2, WatchRunsEngine, TypeCorrect, PTL DEF WatchSpec

(* A service on which no run was started had none before,                  *)
LEMMA UnrunBefore ==
    ASSUME TypeOK, [Next]_vars, NEW s \in BlueGreen, Unrun(s)'
    PROVE  Unrun(s)
<1> SUFFICES ASSUME NEW r \in Request, ServiceOf(r) = s, pc[r] \notin {"new", "resolved", "rejected"}
             PROVE  FALSE
  BY DEF Unrun
<1>1. ask' = ask
  BY DEF Next, Environment, Handle, Resolve, ClaimRun, Advance, EmitStarted, VerifyTarget,
         RecordDeploy, EmitFinished, Notify, RecordAudit, ReleaseRun, ScriptFlips, ScriptEnds,
         ScriptSucceeds, ScriptFails, TimeoutKills, PipesClose, FlipOutside, DeleteService,
         Restart, vars
<1>2. pc'[r] \in {"new", "resolved", "rejected"}
  BY <1>1 DEF Unrun, ServiceOf
<1>3. pc \in [Request -> Stage]
  BY DEF TypeOK
<1>4. ASSUME NEW q \in Request, Handle(q) PROVE FALSE
  <2>1. CASE q # r
    BY <1>2, <1>3, <1>4, <2>1
       DEF Handle, Resolve, ClaimRun, Advance, EmitStarted, VerifyTarget,
           RecordDeploy, EmitFinished, Notify, RecordAudit, ReleaseRun, ScriptFlips, ScriptEnds,
           ScriptSucceeds, ScriptFails, TimeoutKills, PipesClose, Goto
  <2>2. CASE q = r
    BY <1>2, <1>3, <1>4, <2>2
       DEF Handle, Resolve, ClaimRun, Advance, EmitStarted, VerifyTarget,
           RecordDeploy, EmitFinished, Notify, RecordAudit, ReleaseRun, ScriptFlips, ScriptEnds,
           ScriptSucceeds, ScriptFails, TimeoutKills, PipesClose, Goto
  <2> QED
    BY <2>1, <2>2
<1>5. CASE Environment
  BY <1>2, <1>3, <1>5 DEF Environment, FlipOutside, DeleteService, Restart, Executing, Stage
<1>6. CASE UNCHANGED vars
  BY <1>2, <1>6 DEF vars
<1> QED
  BY <1>4, <1>5, <1>6 DEF Next

(* and no step of a request touches its conf.                              *)
LEMMA UnrunStaysPut ==
    ASSUME TypeOK, NEW r \in Request, Handle(r), NEW s \in BlueGreen, Unrun(s)'
    PROVE  live'[s] = live[s]
<1>1. CASE ScriptFlips(r)
  <2>1. pc \in [Request -> Stage] /\ live \in [BlueGreen -> Live]
    BY DEF TypeOK
  <2>2. ServiceOf(r)' = ServiceOf(r) /\ pc'[r] \notin {"new", "resolved", "rejected"}
    BY <1>1, <2>1 DEF ScriptFlips, Goto, ServiceOf
  <2>3. ServiceOf(r) # s
    BY <2>2 DEF Unrun
  <2> QED
    BY <1>1, <2>1, <2>3 DEF ScriptFlips
<1>2. CASE ScriptFails(r)
  <2>1. pc \in [Request -> Stage] /\ live \in [BlueGreen -> Live]
    BY DEF TypeOK
  <2>2. ServiceOf(r)' = ServiceOf(r) /\ pc'[r] \notin {"new", "resolved", "rejected"}
    BY <1>2, <2>1 DEF ScriptFails, Goto, ServiceOf
  <2>3. ServiceOf(r) # s
    BY <2>2 DEF Unrun
  <2> QED
    BY <1>2, <2>1, <2>3 DEF ScriptFails
<1> QED
  BY <1>1, <1>2 DEF Handle, Resolve, ClaimRun, Advance, EmitStarted, VerifyTarget,
     RecordDeploy, EmitFinished, Notify, RecordAudit, ReleaseRun, ScriptEnds,
     ScriptSucceeds, TimeoutKills, PipesClose

(* Each step of the loop moves what is owed to a report, or drops it.      *)
LEMMA OwedStep ==
    ASSUME TypeOK, WatchTypeOK, MovesAreOwed, [WatchNext]_allVars
    PROVE  MovesAreOwed'
<1> SUFFICES ASSUME NEW s \in BlueGreen, Unrun(s)'
             PROVE  reports'[s] + Owing(s)' <= moves'[s]
  BY DEF MovesAreOwed
<1>1. Unrun(s)
  BY WatchStep, UnrunBefore
<1>2. reports[s] + Owing(s) <= moves[s]
  BY <1>1 DEF MovesAreOwed
<1>3. reports[s] \in Nat /\ moves[s] \in Nat /\ Owing(s) \in 0 .. 2
  BY DEF WatchTypeOK, Owing
<1>4. ASSUME live'[s] = live[s], UNCHANGED watch
      PROVE  reports'[s] + Owing(s)' <= moves'[s]
  BY <1>2, <1>4 DEF watch, Owing, Following
<1>5. ASSUME NEW r \in Request, Handle(r), UNCHANGED watch
      PROVE  reports'[s] + Owing(s)' <= moves'[s]
  BY <1>4, <1>5, UnrunStaysPut
<1>6. ASSUME NEW t \in BlueGreen, FlipOutside(t), moves' = [moves EXCEPT ![t] = @ + 1],
             UNCHANGED <<last, seen, reports>>
      PROVE  reports'[s] + Owing(s)' <= moves'[s]
  <2>1. CASE t = s
    <3>1. moves'[s] = moves[s] + 1
      BY <1>6, <2>1 DEF WatchTypeOK
    <3>2. Owing(s)' <= Owing(s) + 1
      BY <1>6 DEF Owing, Following
    <3>3. Owing(s)' \in 0 .. 2 /\ reports'[s] = reports[s]
      BY <1>6 DEF Owing
    <3> QED
      BY <1>2, <1>3, <3>1, <3>2, <3>3
  <2>2. CASE t # s
    <3>1. moves'[s] = moves[s] /\ live'[s] = live[s]
      BY <1>6, <2>2 DEF FlipOutside, TypeOK, WatchTypeOK
    <3>2. Owing(s)' = Owing(s) /\ reports'[s] = reports[s]
      BY <1>6, <3>1 DEF Owing, Following
    <3> QED
      BY <1>2, <3>1, <3>2
  <2> QED
    BY <2>1, <2>2
<1>7. ASSUME NEW t \in Service, DeleteService(t), UNCHANGED watch
      PROVE  reports'[s] + Owing(s)' <= moves'[s]
  BY <1>4, <1>7 DEF DeleteService
<1>8. CASE /\ last' = [t \in BlueGreen |-> "none"] /\ seen' = <<>>
           /\ UNCHANGED <<reports, moves>>
  <2>1. Owing(s)' = 0
    BY <1>8 DEF Owing, Following
  <2> QED
    BY <1>2, <1>3, <1>8, <2>1
<1>9. ASSUME NEW t \in BlueGreen, PollTarget(t)
      PROVE  reports'[s] + Owing(s)' <= moves'[s]
  <2>1. seen = <<>> /\ UNCHANGED <<live, reports, moves>>
    BY <1>9 DEF PollTarget, vars
  <2>2. CASE Differs(t)
    <3>1. seen' = <<t, live[t]>> /\ last' = last
      BY <1>9, <2>2 DEF PollTarget
    <3>2. seen' # <<>> /\ seen'[1] = t /\ seen'[2] = live[t]
      BY <3>1
    <3>3. CASE t = s
      <4>1. Owing(s) = 1
        BY <2>1, <2>2, <3>3 DEF Owing, Following, Differs
      <4>2. Owing(s)' = 1
        BY <2>1, <3>2, <3>3 DEF Owing, Following
      <4> QED
        BY <1>2, <2>1, <4>1, <4>2
    <3>4. CASE t # s
      <4>1. Owing(s)' = Owing(s)
        BY <2>1, <3>1, <3>2, <3>4 DEF Owing, Following
      <4> QED
        BY <1>2, <2>1, <4>1
    <3> QED
      BY <3>3, <3>4
  <2>3. CASE ~Differs(t)
    <3>1. last' = [last EXCEPT ![t] = live[t]] /\ seen' = <<>>
      BY <1>9, <2>1, <2>3 DEF PollTarget, Remember
    <3>2. t = s => last'[s] = live[s]
      BY <3>1 DEF WatchTypeOK
    <3>3. t # s => last'[s] = last[s]
      BY <3>1 DEF WatchTypeOK
    <3>4. Owing(s)' <= Owing(s) /\ Owing(s)' \in 0 .. 2
      BY <2>1, <3>1, <3>2, <3>3 DEF Owing, Following
    <3> QED
      BY <1>2, <1>3, <2>1, <3>4
  <2> QED
    BY <2>2, <2>3
<1>10. CASE ReportFlip
  <2>1. /\ seen # <<>> /\ seen[1] \in BlueGreen /\ seen' = <<>>
        /\ last' = [last EXCEPT ![seen[1]] = seen[2]] /\ UNCHANGED <<live, moves>>
    BY <1>10 DEF ReportFlip, WatchTypeOK, Remember, vars
  <2>2. CASE seen[1] = s
    <3>1. last'[s] = seen[2]
      BY <2>1, <2>2 DEF WatchTypeOK
    <3>2. Owing(s)' + 1 = Owing(s) /\ Owing(s)' \in 0 .. 1
      BY <2>1, <2>2, <3>1 DEF Owing, Following
    <3>3. reports'[s] \in {reports[s], reports[s] + 1}
      BY <1>10, <2>2 DEF ReportFlip, WatchTypeOK
    <3> QED
      BY <1>2, <1>3, <2>1, <3>2, <3>3
  <2>3. CASE seen[1] # s
    <3>1. last'[s] = last[s] /\ reports'[s] = reports[s]
      BY <1>10, <2>1, <2>3 DEF ReportFlip, WatchTypeOK
    <3>2. Owing(s)' = Owing(s)
      BY <2>1, <2>3, <3>1 DEF Owing, Following
    <3> QED
      BY <1>2, <2>1, <3>1, <3>2
  <2> QED
    BY <2>2, <2>3
<1>11. CASE UNCHANGED allVars
  BY <1>4, <1>11 DEF allVars, vars
<1> QED
  BY <1>5, <1>6, <1>7, <1>8, <1>9, <1>10, <1>11 DEF WatchNext

(* Without a run the loop makes no external flip up: checkTarget and       *)
(* reportFlip report a move of the conf once, whatever is unreadable,      *)
(* deleted or restarted meanwhile.  So the runs themselves are all that    *)
(* can be mistaken for an external flip, as they are (OwnFlipsStayEventOnly). *)
THEOREM ExternalFlipsAreMoves == WatchSpec => []ReportsAreMoves
<1>1. WatchInit => MovesAreOwed
  <2> SUFFICES ASSUME WatchInit, NEW s \in BlueGreen PROVE reports[s] + Owing(s) <= moves[s]
    BY DEF MovesAreOwed
  <2>1. Owing(s) = 0 /\ reports[s] = 0 /\ moves[s] = 0
    BY DEF WatchInit, Owing, Following
  <2> QED
    BY <2>1
<1>2. TypeOK /\ WatchTypeOK /\ MovesAreOwed /\ [WatchNext]_allVars => MovesAreOwed'
  BY OwedStep
<1>3. TypeOK /\ WatchTypeOK /\ MovesAreOwed => ReportsAreMoves
  <2> SUFFICES ASSUME WatchTypeOK, MovesAreOwed, NEW s \in BlueGreen, Unrun(s)
               PROVE  reports[s] <= moves[s]
    BY DEF ReportsAreMoves
  <2>1. reports[s] \in Nat /\ moves[s] \in Nat /\ Owing(s) \in 0 .. 2
    BY DEF WatchTypeOK, Owing
  <2> QED
    BY <2>1 DEF MovesAreOwed
<1> QED
  BY <1>1, <1>2, <1>3, WatchTypeCorrect, PTL DEF WatchSpec
=============================================================================
