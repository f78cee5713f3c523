--------------------------- MODULE SerialDeploys ---------------------------
(***************************************************************************)
(* What the deploy engine promises the operator of one console: the runs   *)
(* of a service happen one after the other, and its history holds at most  *)
(* one row per run, in the order of the runs.                              *)
(***************************************************************************)
EXTENDS Sequences

CONSTANTS Service, Request, Outcome

VARIABLES
    started,  \* requests that became a run
    holder,   \* holder[s]: the runs in flight on s, at most one
    history   \* history[s]: the rows of the runs of s, oldest first

vars == <<started, holder, history>>

Init ==
    /\ started = {}
    /\ holder = [s \in Service |-> {}]
    /\ history = [s \in Service |-> <<>>]

Begin(s, r) ==
    /\ holder[s] = {} /\ r \notin started
    /\ holder' = [holder EXCEPT ![s] = {r}]
    /\ started' = started \cup {r}
    /\ UNCHANGED history

Log(s, r, o) ==
    /\ holder[s] = {r}
    /\ \A i \in DOMAIN history[s] : history[s][i].req # r
    /\ history' = [history EXCEPT ![s] = Append(@, [req |-> r, outcome |-> o])]
    /\ UNCHANGED <<started, holder>>

End(s, r) ==
    /\ holder[s] = {r}
    /\ holder' = [holder EXCEPT ![s] = {}]
    /\ UNCHANGED <<started, history>>

(* A restart abandons the runs in flight.                                  *)
Abandon ==
    /\ holder' = [s \in Service |-> {}]
    /\ UNCHANGED <<started, history>>

(* A deleted service takes its history along.                              *)
Forget(s) ==
    /\ history' = [history EXCEPT ![s] = <<>>]
    /\ UNCHANGED <<started, holder>>

Next ==
    \/ \E s \in Service, r \in Request :
          Begin(s, r) \/ End(s, r) \/ \E o \in Outcome : Log(s, r, o)
    \/ \E s \in Service : Forget(s)
    \/ Abandon

Spec == Init /\ [][Next]_vars
=============================================================================
