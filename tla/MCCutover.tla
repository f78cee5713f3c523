----------------------------- MODULE MCCutover -----------------------------
(***************************************************************************)
(* A blue-green and a recreate service, two requests.  The two colors are  *)
(* interchangeable, so nginx starts on blue or on the legacy container;    *)
(* an out-of-band flip leads to the other values.                          *)
(***************************************************************************)
EXTENDS Cutover

MCInit == Init /\ \A s \in BlueGreen : live[s] \in {"blue", "legacy"}

MCSpec == MCInit /\ [][Next]_vars /\ Fairness
=============================================================================
