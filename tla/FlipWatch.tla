----------------------------- MODULE FlipWatch -----------------------------
(***************************************************************************)
(* The deploy engine together with the watch loop of                       *)
(* internal/service/watch.go, which polls the nginx confs, announces every *)
(* change of a live target, and reports as an external flip a change it    *)
(* finds while Cutover.Active says that no run is in flight.               *)
(***************************************************************************)
EXTENDS Cutover

VARIABLES
    last,     \* last[s]: the target the loop saw last, none before the first
    seen,     \* the change pollTargets is handling: <<>> or <<service, target>>
    reports,  \* reports[s]: external flips of s stored and audited
    moves     \* moves[s]: out-of-band moves of s (history, for the properties)

watch     == <<last, seen, reports, moves>>
allVars   == <<vars, watch>>

WatchTypeOK ==
    /\ last \in [BlueGreen -> (Live \ {"unreadable"}) \cup {"none"}]
    /\ seen = <<>> \/ seen \in BlueGreen \X (Live \ {"unreadable"})
    /\ reports \in [BlueGreen -> Nat]
    /\ moves \in [BlueGreen -> Nat]

WatchInit ==
    /\ Init
    /\ last = [s \in BlueGreen |-> "none"]
    /\ seen = <<>>
    /\ reports = [s \in BlueGreen |-> 0]
    /\ moves = [s \in BlueGreen |-> 0]

Differs(s) == last[s] # "none" /\ last[s] # live[s]

(* Faulty variants: an unreadable conf is taken for a target; a target     *)
(* that is no color is passed over.                                        *)
Readable_Always(s) == TRUE
Readable_Colors(s) == live[s] \in Color

Readable(s) == live[s] # "unreadable"

Remember(s, t) == [last EXCEPT ![s] = t]

(* checkTarget reads the conf.  A first or an unchanged target is          *)
(* remembered; a change is broadcast and handed to reportFlip.             *)
PollTarget(s) ==
    /\ seen = <<>>
    /\ s \in exists
    /\ Readable(s)
    /\ IF Differs(s)
       THEN seen' = <<s, live[s]>> /\ UNCHANGED last
       ELSE last' = Remember(s, live[s]) /\ UNCHANGED seen
    /\ UNCHANGED <<vars, reports, moves>>

(* reportFlip asks Cutover.Active now, after the read; then the target is  *)
(* remembered.                                                             *)
ReportFlip ==
    /\ seen # <<>>
    /\ reports' = IF Idle(seen[1]) /\ seen[1] \in exists
                  THEN [reports EXCEPT ![seen[1]] = @ + 1]
                  ELSE reports
    /\ last' = Remember(seen[1], seen[2])
    /\ seen' = <<>>
    /\ UNCHANGED <<vars, moves>>

WatchNext ==
    \/ (\E r \in Request : Handle(r)) /\ UNCHANGED watch
    \/ \E s \in BlueGreen :
          FlipOutside(s) /\ moves' = [moves EXCEPT ![s] = @ + 1] /\ UNCHANGED <<last, seen, reports>>
    \/ \E s \in Service : DeleteService(s) /\ UNCHANGED watch
    \/ /\ Restart
       /\ last' = [s \in BlueGreen |-> "none"]
       /\ seen' = <<>>
       /\ UNCHANGED <<reports, moves>>
    \/ \E s \in BlueGreen : PollTarget(s)
    \/ ReportFlip

(* The ticker of Watch fires for ever and pollTargets visits every service. *)
WatchFairness ==
    /\ \A s \in BlueGreen : WF_allVars(PollTarget(s))
    /\ WF_allVars(ReportFlip)
    /\ \A r \in Request :
          /\ WF_allVars(ClaimRun(r) /\ UNCHANGED watch)
          /\ WF_allVars(Advance(r) /\ UNCHANGED watch)
          /\ WF_allVars(ScriptEnds(r) /\ UNCHANGED watch)

WatchSpec == WatchInit /\ [][WatchNext]_allVars /\ WatchFairness

----------------------------------------------------------------------------
(* Properties.                                                             *)

(* Every lasting move of a live target, by a run or not, reaches the       *)
(* watcher, also across restarts of the loop.                              *)
WatchConverges ==
    \A s \in BlueGreen : <>[](s \in exists /\ live[s] # "unreadable" => last[s] = live[s])

(* Where no run was started, every external flip that is reported was a     *)
(* move made outside the console: neither an unreadable conf nor a restart *)
(* of the loop, nor a deletion, makes checkTarget see one twice.            *)
Unrun(s) ==
    \A r \in Request : ServiceOf(r) = s => pc[r] \in {"new", "resolved", "rejected"}

ReportsAreMoves == \A s \in BlueGreen : Unrun(s) => reports[s] <= moves[s]

(* "flips during an active run stay event-only": only a move made outside  *)
(* the console is ever stored as an external flip.                         *)
OwnFlipsStayEventOnly ==
    \A s \in BlueGreen : reports[s] <= moves[s]
=============================================================================
