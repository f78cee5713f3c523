-------------------------- MODULE MCFleetInventory --------------------------
(* Two containers of one compose service, one of which publishes ports: a  *)
(* replacement, a rename, or two strangers when the service is deleted.    *)
(* Of the changes, the operator's decisions and the failed calls, any two  *)
(* happen in one behavior.                                                 *)
EXTENDS FleetInventory

CONSTANTS old, new, api, web, spare

Both       == {old, new}
OfApi      == [c \in Both |-> api]
Named      == [c \in Both |-> IF c = old THEN web ELSE spare]
Ungrouped  == [c \in Both |-> NoGroup]

MCNext == Next /\ changes' + ops' + faults' <= 2
MCSpec == Init /\ [][MCNext]_vars /\ Fairness
=============================================================================
