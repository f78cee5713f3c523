------------------------- MODULE MCSecurityFindings -------------------------
(***************************************************************************)
(* A posture rule of one container, and the pid-spike rule of another,     *)
(* whose scanner has learned its baseline before the spike.                *)
(***************************************************************************)
EXTENDS SecurityFindings

CONSTANTS posture, spike

OneKey  == {posture}
TwoKeys == {posture, spike}
Spikes  == {spike}
None    == {}
=============================================================================
