------------------------------ MODULE Accounts ------------------------------
(***************************************************************************)
(* Accounts, sessions and the requests of administrators                   *)
(* (internal/service/users.go, internal/store/users.go,                    *)
(* internal/http/auth.go).  Every change of an account reads its row,      *)
(* guards the last administrator with a count, rewrites all the columns    *)
(* from its copy and audits: four calls of the database, with other        *)
(* requests in between.                                                    *)
(***************************************************************************)
EXTENDS Integers, FiniteSets

CONSTANTS User,        \* usernames
          Admin,       \* bootstrapAdmin
          Request,     \* requests under way at a time
          MaxRequests, \* bound: requests that are admitted
          MaxIds,      \* bound: rows ever inserted
          MaxFaults    \* bound: failed writes and restarts

ASSUME AccountAssumption ==
    /\ Admin \in User /\ IsFiniteSet(User)
    /\ MaxRequests \in Nat /\ MaxIds \in Nat \ {0} /\ MaxFaults \in Nat

VARIABLES
    up,        \* the server listens
    accounts,  \* table users: the row of each username
    ids,       \* rows ever inserted
    sessions,  \* usernames with a session
    requests,  \* of each request [at, op, user, copy]; busy with something else
    admitted,  \* requests admitted so far
    raced,     \* history: accounts with two changes under way at a time
    crossed,   \* history: two removals passed the guard side by side
    promised,  \* history: the rows as the stored changes left them, each its column
    faults

accountVars == <<up, accounts, ids, sessions, requests, admitted, raced, crossed, promised>>

NoAccount == [id |-> 0, hash |-> "none", role |-> "none", disabled |-> FALSE]
IdleRequest == [at |-> "idle", op |-> "none", user |-> Admin, copy |-> NoAccount]
Busy == [IdleRequest EXCEPT !.at = "busy"]
Changes == {"promote", "demote", "password", "disable", "enable", "delete"}

AccountsTypeOK ==
    LET Rows == [id : 0 .. MaxIds, hash : {"none", "env", "new"},
                 role : {"none", "admin", "viewer"}, disabled : BOOLEAN] IN
    /\ up \in BOOLEAN /\ ids \in 0 .. MaxIds /\ sessions \subseteq User
    /\ accounts \in [User -> Rows] /\ promised \in [User -> Rows]
    /\ requests \in [Request -> [at : {"idle", "admitted", "busy", "count", "write", "audit"},
                                 op : Changes \cup {"none", "create"},
                                 user : User, copy : Rows]]
    /\ admitted \in 0 .. MaxRequests /\ faults \in 0 .. MaxFaults
    /\ raced \subseteq User /\ crossed \in BOOLEAN

AccountsInit ==
    /\ up = FALSE /\ accounts = [u \in User |-> NoAccount] /\ ids = 0
    /\ sessions = {} /\ requests = [r \in Request |-> IdleRequest] /\ admitted = 0
    /\ raced = {} /\ crossed = FALSE /\ promised = accounts /\ faults = 0

Fault == faults < MaxFaults /\ faults' = faults + 1
Fine  == UNCHANGED faults

Enabled(row)  == row # NoAccount /\ ~row.disabled
IsAdmin(row)  == Enabled(row) /\ row.role = "admin"
EnabledAdmins == {u \in User : IsAdmin(accounts[u])}

-----------------------------------------------------------------------------
(* A fault of the next definition: every boot sets the password of the     *)
(* environment again.                                                      *)
EnsureAdmin_Always ==
    LET known == accounts[Admin] # NoAccount
        id    == IF known THEN accounts[Admin].id ELSE ids + 1 IN
    /\ id <= MaxIds /\ ids' = IF known THEN ids ELSE id
    /\ accounts' = [accounts EXCEPT ![Admin] =
                      [id |-> id, hash |-> "env", role |-> "admin", disabled |-> FALSE]]

(* Without an enabled administrator the bootstrap account is created, or   *)
(* repaired; with one, no account is touched.                              *)
EnsureAdmin ==
    IF EnabledAdmins # {} THEN UNCHANGED <<accounts, ids>>
    ELSE LET known == accounts[Admin] # NoAccount
             id    == IF known THEN accounts[Admin].id ELSE ids + 1 IN
         /\ id <= MaxIds /\ ids' = IF known THEN ids ELSE id
         /\ accounts' = [accounts EXCEPT ![Admin] =
                           [id |-> id, hash |-> "env", role |-> "admin", disabled |-> FALSE]]

Boot ==
    /\ ~up /\ up' = TRUE /\ EnsureAdmin
    /\ promised' = IF ids = 0 THEN accounts' ELSE promised
    /\ UNCHANGED <<sessions, requests, admitted, raced, crossed, faults>>

(* Sessions are in memory, and a stop abandons the requests.               *)
Restart ==
    /\ up /\ Fault /\ up' = FALSE /\ sessions' = {}
    /\ requests' = [r \in Request |-> IdleRequest]
    /\ UNCHANGED <<accounts, ids, admitted, raced, crossed, promised>>

Verify(u) == Enabled(accounts[u])

Login(u) ==
    /\ up /\ Verify(u) /\ sessions' = sessions \cup {u}
    /\ UNCHANGED <<up, accounts, ids, requests, admitted, raced, crossed, promised, faults>>

-----------------------------------------------------------------------------
Lookup(u)       == Enabled(accounts[u])
requireAdmin(u) == accounts[u].role = "admin"

(* Authenticate resolves the session against the row of the moment and     *)
(* drops it when the account is gone or disabled; requireAdmin lets        *)
(* administrators pass.                                                    *)
Admit(r, u) ==
    /\ requests[r] = IdleRequest /\ u \in sessions /\ admitted < MaxRequests
    /\ \/ /\ Lookup(u) /\ requireAdmin(u) /\ UNCHANGED sessions
          /\ requests' = [requests EXCEPT ![r].at = "admitted"]
          /\ admitted' = admitted + 1
       \/ /\ ~Lookup(u) /\ sessions' = sessions \ {u}
          /\ UNCHANGED <<requests, admitted>>
    /\ UNCHANGED <<up, accounts, ids, raced, crossed, promised, faults>>

InFlight(u) == {r \in Request : requests[r].at \in {"count", "write"} /\ requests[r].user = u}

(* The guard of the last administrator is asked for what would remove an   *)
(* enabled one: a demotion, a disable, a deletion.                         *)
Guarded(op, row) == op \in {"demote", "disable", "delete"} /\ IsAdmin(row)

(* ByID: the copy the change is made of; an unknown id ends it.            *)
ReadAccount(r, op, u) ==
    /\ requests[r].at = "admitted" /\ accounts[u] # NoAccount
    /\ requests' = [requests EXCEPT ![r] =
         [at   |-> IF Guarded(op, accounts[u]) THEN "count" ELSE "write",
          op   |-> op, user |-> u, copy |-> accounts[u]]]
    /\ raced' = IF InFlight(u) = {} THEN raced ELSE raced \cup {u}
    /\ UNCHANGED <<up, accounts, ids, sessions, admitted, crossed, promised, faults>>

(* Removals that passed the guard and are not stored yet.                  *)
Passed == {r \in Request : /\ requests[r].at = "write"
                           /\ Guarded(requests[r].op, requests[r].copy)}

(* A fault of the next definition: the account itself is not counted out.  *)
requireAnotherAdmin_Any(r) == EnabledAdmins # {}

requireAnotherAdmin(r) == Cardinality(EnabledAdmins) > 1

CountAdmins(r) ==
    /\ requests[r].at = "count"
    /\ requests' = [requests EXCEPT ![r] =
                      IF requireAnotherAdmin(r) THEN [@ EXCEPT !.at = "write"] ELSE IdleRequest]
    /\ crossed' = (crossed \/ (requireAnotherAdmin(r) /\ Passed # {}))
    /\ UNCHANGED <<up, accounts, ids, sessions, admitted, raced, promised, faults>>

(* The row a change stores: its copy, with the one column changed.         *)
Changed(op, row) ==
    CASE op = "promote"  -> [row EXCEPT !.role = "admin"]
      [] op = "demote"   -> [row EXCEPT !.role = "viewer"]
      [] op = "password" -> [row EXCEPT !.hash = "new"]
      [] op = "disable"  -> [row EXCEPT !.disabled = TRUE]
      [] op = "enable"   -> [row EXCEPT !.disabled = FALSE]
      [] op = "delete"   -> NoAccount

(* Update and Delete name the row by its id: an account that was deleted   *)
(* and created again is another one.                                       *)
WriteAccount(r) ==
    LET request == requests[r]
        u       == request.user
    IN
    /\ request.at = "write" /\ request.op \in Changes
    /\ \/ /\ Fine /\ accounts[u].id = request.copy.id
          /\ accounts' = [accounts EXCEPT ![u] = Changed(request.op, request.copy)]
          /\ promised' = [promised EXCEPT ![u] = Changed(request.op, @)]
          /\ requests' = [requests EXCEPT ![r].at = "audit"]
       \/ /\ Fine /\ accounts[u].id # request.copy.id
          /\ requests' = [requests EXCEPT ![r] = IdleRequest]
          /\ UNCHANGED <<accounts, promised>>
       \/ /\ Fault /\ requests' = [requests EXCEPT ![r] = IdleRequest]
          /\ UNCHANGED <<accounts, promised>>
    /\ UNCHANGED <<up, ids, sessions, admitted, raced, crossed>>

(* checkUserInput, then the insert: the second of two creations of a       *)
(* username fails on the unique column.                                    *)
CheckUserInput(r, u) ==
    /\ requests[r].at = "admitted" /\ accounts[u] = NoAccount
    /\ requests' = [requests EXCEPT ![r] =
                      [at |-> "write", op |-> "create", user |-> u, copy |-> NoAccount]]
    /\ UNCHANGED <<up, accounts, ids, sessions, admitted, raced, crossed, promised, faults>>

CreateAccount(r, role) ==
    LET u   == requests[r].user
        row == [id |-> ids + 1, hash |-> "new", role |-> role, disabled |-> FALSE] IN
    /\ requests[r].at = "write" /\ requests[r].op = "create" /\ ids < MaxIds
    /\ \/ /\ Fine /\ accounts[u] = NoAccount /\ ids' = ids + 1
          /\ accounts' = [accounts EXCEPT ![u] = row]
          /\ promised' = [promised EXCEPT ![u] = row]
          /\ requests' = [requests EXCEPT ![r].at = "audit"]
       \/ /\ IF accounts[u] = NoAccount THEN Fault ELSE Fine
          /\ requests' = [requests EXCEPT ![r] = IdleRequest]
          /\ UNCHANGED <<accounts, ids, promised>>
    /\ UNCHANGED <<up, sessions, admitted, raced, crossed>>

(* The audit row is written last; a failure is answered as one, and the    *)
(* change stays.                                                           *)
AuditAccount(r) ==
    /\ requests[r].at = "audit" /\ Fine
    /\ requests' = [requests EXCEPT ![r] = IdleRequest]
    /\ UNCHANGED <<up, accounts, ids, sessions, admitted, raced, crossed, promised>>

AccountsNext ==
    \/ Boot \/ \E u \in User : Login(u)
    \/ \E r \in Request :
        \/ \E u \in User : Admit(r, u) \/ CheckUserInput(r, u)
        \/ \E u \in User, op \in Changes : ReadAccount(r, op, u)
        \/ CountAdmins(r) \/ WriteAccount(r) \/ AuditAccount(r)
        \/ \E role \in {"admin", "viewer"} : CreateAccount(r, role)

-----------------------------------------------------------------------------
(* No sequence of demotions, disables and deletions locks everybody out:   *)
(* while the server is up there is an enabled administrator, unless two    *)
(* changes were under way side by side.                                    *)
AdminRemains == up /\ ~crossed /\ raced = {} => EnabledAdmins # {}

(* What a change stored stays as it is until the account is changed again, *)
(* over restarts too: no other change and no boot takes it back.           *)
ChangesLast == ~crossed /\ raced = {} => accounts = promised

(* A guard against locking everybody out: the last enabled administrator   *)
(* is never demoted, disabled or deleted.                                  *)
LastAdminStays == up => EnabledAdmins # {}
=============================================================================
