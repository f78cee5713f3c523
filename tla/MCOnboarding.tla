---------------------------- MODULE MCOnboarding ----------------------------
(* A project with a worker and, depending on the instance, a pair of       *)
(* colors; every request is an administrator's.                            *)
EXTENDS Onboarding

CONSTANTS admin, bob, r1, r2, worker, blue, green

ProjectOf == [c \in Container |-> "shop"]
BaseOf    == [c \in Container |-> IF c = worker THEN "worker" ELSE "api"]
ColorOf   == [c \in Container |-> IF c = blue THEN "blue" ELSE IF c = green THEN "green" ELSE "none"]
ProjectIdOf == [c \in Container |-> "shop"]
JoinedIdOf  == [c \in Container |-> IF c = worker THEN "shop-worker" ELSE
                                    IF c = blue THEN "shop-api-blue" ELSE "shop-api-green"]

(* The accounts are at rest while there are drafts, since the two parts    *)
(* share nothing but the requests; the registry gets two requests.  One    *)
(* thing goes wrong or changes in docker, where all containers answer or   *)
(* none, and nginx stays as it is.                                         *)
AtRest == ids <= 1 /\ admitted <= 2
          /\ \A r \in Request : requests[r].at \in {"idle", "admitted", "busy"}

MCInit ==
    /\ Init /\ running = healthy /\ marked = {blue}
    /\ running \in {Container, Container \ {green}}

MCNext ==
    /\ Next /\ marked' = marked /\ healthy' \in {{}, running'}
    /\ changes' + faults' <= 1
    /\ (suggest' = NoSuggest /\ drafts' = {} /\ changes' = 0) \/ AtRest'

MCSpec == MCInit /\ [][MCNext]_vars
=============================================================================
