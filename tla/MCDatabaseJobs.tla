--------------------------- MODULE MCDatabaseJobs ---------------------------
(***************************************************************************)
(* A directory at its limit and three calls: a backup, and two calls that  *)
(* each back up, or restore an old dump or the first call's.               *)
(***************************************************************************)
EXTENDS DatabaseJobs

CONSTANTS o1, o2, c1, c2, c3

TwoDumps   == <<o1, o2>>
ThreeCalls == {c1, c2, c3}

MCInit ==
    /\ Init
    /\ sums = Old \ {o1}
    /\ kind[c1] = "backup"
    /\ source[c2] \in {o1, c1} /\ source[c3] \in {o1, o2}

MCSpec == MCInit /\ [][Next]_vars /\ \A c \in Call : WF_vars(Work(c))
=============================================================================
