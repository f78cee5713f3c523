--------------------------- MODULE OnboardingProofs ---------------------------
(***************************************************************************)
(* Accounts and the registry of services, for any set of users, requests   *)
(* and containers: an administrator remains and changes last as long as    *)
(* changes do not overlap, and services made of high drafts never share a  *)
(* compose service.                                                        *)
(*                                                                         *)
(* AdminRemains is not inductive.  A removal that passed its guard is      *)
(* stored later, from a copy: until then the copy must still be the row    *)
(* (FreshCopies), no second removal may have passed, and an administrator  *)
(* must be left besides the one it removes (OneRemoval).                   *)
(* HighDraftsOwnAlone needs why two ids for one container are not both     *)
(* used: a draft takes the joined id only when another service, which does *)
(* not own the container, has the id of the project (Solo).                *)
(***************************************************************************)
EXTENDS Onboarding, FiniteSetTheorems, TLAPS

Rows == [id : 0 .. MaxIds, hash : {"none", "env", "new"},
         role : {"none", "admin", "viewer"}, disabled : BOOLEAN]

Asked == [at : {"idle", "admitted", "busy", "count", "write", "audit"},
          op : Changes \cup {"none", "create"}, user : User, copy : Rows]

(* A server that is down has no session and no request.                    *)
Closed == ~up => sessions = {} /\ \A r \in Request : requests[r] = IdleRequest

(* Before the first boot there is no account.                              *)
Unborn == ids = 0 => ~up /\ \A u \in User : accounts[u] = NoAccount

(* No two changes of an account, and no two removals, overlapped.          *)
Calm == ~crossed /\ raced = {}

UnderWay(r) == requests[r].at \in {"count", "write"}

Changing == {r \in Request : UnderWay(r) /\ requests[r].op \in Changes}

(* The copy of a change under way is the row, and the account has no other *)
(* change under way.                                                       *)
FreshCopies ==
    \A r \in Changing :
        /\ accounts[requests[r].user] = requests[r].copy
        /\ requests[r].copy # NoAccount
        /\ \A q \in Request : UnderWay(q) /\ requests[q].user = requests[r].user => q = r

(* One removal at most is past its guard, and it leaves an administrator.  *)
OneRemoval ==
    \A r \in Passed :
        /\ \A q \in Passed : q = r
        /\ \E u \in User \ {requests[r].user} : IsAdmin(accounts[u])

AdminsLeft == ids > 0 => EnabledAdmins # {}

CalmInv == Calm => FreshCopies /\ OneRemoval /\ AdminsLeft /\ accounts = promised

AccountsInv == AccountsTypeOK /\ Closed /\ Unborn /\ CalmInv

-----------------------------------------------------------------------------
(* A change makes a row of a row; and one that is not guarded never turns  *)
(* an enabled administrator into something else.                           *)
LEMMA ChangedType ==
    ASSUME NEW op \in Changes, NEW row \in Rows
    PROVE  /\ Changed(op, row) \in Rows
           /\ IsAdmin(row) /\ ~Guarded(op, row) => IsAdmin(Changed(op, row))
<1>1. NoAccount \in Rows
  BY AccountAssumption DEF NoAccount, Rows
<1>2. CASE op = "delete"
  BY <1>1, <1>2 DEF Changed, Guarded
<1>3. CASE op # "delete"
  <2>1. Changed(op, row) \in Rows
    BY <1>3 DEF Changed, Changes, Rows
  <2>2. ASSUME IsAdmin(row), ~Guarded(op, row) PROVE IsAdmin(Changed(op, row))
    <3>1. op \in {"promote", "password", "enable"}
      BY <1>3, <2>2 DEF Guarded, Changes
    <3>2. row.role = "admin" /\ ~row.disabled
      BY <2>2 DEF IsAdmin, Enabled
    <3>3. Changed(op, row).role = "admin" /\ ~Changed(op, row).disabled
      BY <3>1, <3>2 DEF Changed, Rows
    <3>4. Changed(op, row) # NoAccount
      BY <3>3 DEF NoAccount
    <3> QED
      BY <3>3, <3>4 DEF IsAdmin, Enabled
  <2> QED
    BY <2>1, <2>2
<1> QED
  BY <1>2, <1>3

(* Where more than one administrator is counted, another one is left       *)
(* besides any given account.                                              *)
LEMMA AnotherAdmin ==
    ASSUME Cardinality(EnabledAdmins) > 1, NEW u
    PROVE  \E v \in User \ {u} : IsAdmin(accounts[v])
<1>1. IsFiniteSet(EnabledAdmins)
  <2>1. EnabledAdmins \in SUBSET User
    BY DEF EnabledAdmins
  <2> QED
    BY <2>1, FS_Subset, AccountAssumption
<1>2. ASSUME EnabledAdmins \subseteq {u} PROVE FALSE
  <2>1. IsFiniteSet({u}) /\ Cardinality({u}) = 1
    BY FS_Singleton
  <2>2. Cardinality(EnabledAdmins) <= 1
    BY <1>2, <2>1, FS_Subset
  <2>3. Cardinality(EnabledAdmins) \in Nat
    BY <1>1, FS_CardinalityType
  <2> QED
    BY <2>2, <2>3
<1> QED
  BY <1>2 DEF EnabledAdmins

(* A step that leaves the accounts alone and puts no request before a      *)
(* write leaves the calm as it is.                                         *)
LEMMA StillCalm ==
    ASSUME CalmInv, UNCHANGED <<accounts, ids, promised, raced, crossed>>,
           \A q \in Request : \/ requests'[q] = requests[q]
                              \/ requests'[q].at \notin {"count", "write"}
    PROVE  CalmInv'
<1>1. Changing' \subseteq Changing /\ Passed' \subseteq Passed
  BY DEF Changing, Passed, UnderWay
<1>2. \A q \in Changing' \cup Passed' : requests'[q] = requests[q]
  BY DEF Changing, Passed, UnderWay
<1>3. \A q \in Request : UnderWay(q)' => UnderWay(q) /\ requests'[q] = requests[q]
  BY DEF UnderWay
<1>4. EnabledAdmins' = EnabledAdmins
  BY DEF EnabledAdmins
<1>5. FreshCopies => FreshCopies'
  BY <1>1, <1>2, <1>3 DEF FreshCopies
<1>6. OneRemoval => OneRemoval'
  BY <1>1, <1>2 DEF OneRemoval
<1> QED
  BY <1>4, <1>5, <1>6 DEF CalmInv, Calm, AdminsLeft

-----------------------------------------------------------------------------
(* The type of the accounts is preserved: one step per action.             *)
LEMMA RequestTyped ==
    ASSUME AccountsTypeOK, NEW r \in Request
    PROVE  requests[r] \in Asked /\ NoAccount \in Rows /\ IdleRequest \in Asked /\ Busy \in Asked
<1>1. requests[r] \in Asked
  BY DEF AccountsTypeOK, Asked, Rows
<1>2. NoAccount \in Rows
  BY AccountAssumption DEF NoAccount, Rows
<1>3. IdleRequest \in Asked
  BY <1>2, AccountAssumption DEF IdleRequest, Asked
<1>4. Busy \in Asked
  BY <1>3 DEF Busy, Asked
<1> QED
  BY <1>1, <1>2, <1>3, <1>4

(* Every step of the accounts keeps their types.                           *)
LEMMA AccountsTypeStep ==
    ASSUME AccountsTypeOK, AccountsNext
    PROVE  AccountsTypeOK'
<1> USE AccountAssumption
<1> DEFINE T == /\ up \in BOOLEAN /\ ids \in 0 .. MaxIds /\ sessions \subseteq User
                /\ accounts \in [User -> Rows] /\ promised \in [User -> Rows]
                /\ requests \in [Request -> Asked]
                /\ admitted \in 0 .. MaxRequests /\ faults \in 0 .. MaxFaults
                /\ raced \subseteq User /\ crossed \in BOOLEAN
<1>0. (AccountsTypeOK <=> T) /\ (AccountsTypeOK <=> T)'
  BY DEF AccountsTypeOK, Rows, Asked
<1> SUFFICES ASSUME T PROVE T'
  BY <1>0
<1>a. NoAccount \in Rows /\ IdleRequest \in Asked /\ \A r \in Request : requests[r] \in Asked
  BY DEF NoAccount, Rows, IdleRequest, Asked
<1> USE <1>a DEF Fault, Fine
<1>1. CASE Boot
  <2>1. /\ up' \in BOOLEAN
        /\ UNCHANGED <<sessions, requests, admitted, raced, crossed, faults>>
        /\ promised' \in {accounts', promised}
    BY <1>1 DEF Boot
  <2>2. accounts' \in [User -> Rows] /\ ids' \in 0 .. MaxIds
    <3> DEFINE id  == IF accounts[Admin] # NoAccount THEN accounts[Admin].id ELSE ids + 1
               row == [id |-> id, hash |-> "env", role |-> "admin", disabled |-> FALSE]
    <3>1. CASE UNCHANGED <<accounts, ids>>
      BY <3>1
    <3>2. CASE /\ id <= MaxIds /\ ids' = IF accounts[Admin] # NoAccount THEN ids ELSE id
               /\ accounts' = [accounts EXCEPT ![Admin] = row]
      <4>1. accounts[Admin].id \in 0 .. MaxIds
        BY DEF Rows
      <4>2. id \in 0 .. MaxIds /\ ids' \in 0 .. MaxIds
        BY <3>2, <4>1
      <4>3. row \in Rows
        BY <4>2 DEF Rows
      <4> QED
        BY <3>2, <4>2, <4>3
    <3> QED
      BY <1>1, <3>1, <3>2 DEF Boot, EnsureAdmin
  <2> QED
    BY <2>1, <2>2
<1>2. ASSUME NEW u \in User, Login(u) PROVE T'
  BY <1>2 DEF Login
<1>3. ASSUME NEW r \in Request, NEW u \in User, Admit(r, u) PROVE T'
  <2>1. CASE UNCHANGED sessions
    <3>1. [requests[r] EXCEPT !.at = "admitted"] \in Asked
      BY DEF Asked
    <3>2. requests' \in [Request -> Asked]
      BY <1>3, <3>1 DEF Admit
    <3>3. admitted' \in 0 .. MaxRequests
      BY <1>3 DEF Admit
    <3> QED
      BY <1>3, <2>1, <3>2, <3>3 DEF Admit
  <2> QED
    BY <1>3, <2>1 DEF Admit
<1>4. ASSUME NEW r \in Request, NEW u \in User, CheckUserInput(r, u) PROVE T'
  <2>1. [at |-> "write", op |-> "create", user |-> u, copy |-> NoAccount] \in Asked
    BY DEF Asked
  <2> QED
    BY <1>4, <2>1 DEF CheckUserInput
<1>5. ASSUME NEW r \in Request, NEW u \in User, NEW op \in Changes, ReadAccount(r, op, u)
      PROVE  T'
  <2>1. [at |-> IF Guarded(op, accounts[u]) THEN "count" ELSE "write",
         op |-> op, user |-> u, copy |-> accounts[u]] \in Asked
    BY DEF Asked
  <2> QED
    BY <1>5, <2>1 DEF ReadAccount
<1>6. ASSUME NEW r \in Request, CountAdmins(r) PROVE T'
  <2>1. [requests[r] EXCEPT !.at = "write"] \in Asked
    BY DEF Asked
  <2>2. crossed' \in BOOLEAN
    BY <1>6 DEF CountAdmins
  <2>3. requests' \in [Request -> Asked]
    BY <1>6, <2>1 DEF CountAdmins
  <2> QED
    BY <1>6, <2>2, <2>3 DEF CountAdmins
<1>7. ASSUME NEW r \in Request, WriteAccount(r) PROVE T'
  <2>1. /\ [requests[r] EXCEPT !.at = "audit"] \in Asked
        /\ requests[r].user \in User /\ requests[r].copy \in Rows /\ requests[r].op \in Changes
    BY <1>7 DEF Asked, WriteAccount
  <2>2. /\ Changed(requests[r].op, requests[r].copy) \in Rows
        /\ Changed(requests[r].op, promised[requests[r].user]) \in Rows
    BY <2>1, ChangedType
  <2>3. requests' \in [Request -> Asked]
    BY <1>7, <2>1 DEF WriteAccount
  <2>4. accounts' \in [User -> Rows] /\ promised' \in [User -> Rows]
    BY <1>7, <2>1, <2>2 DEF WriteAccount
  <2>5. faults' \in 0 .. MaxFaults
    BY <1>7 DEF WriteAccount
  <2> QED
    BY <1>7, <2>3, <2>4, <2>5 DEF WriteAccount
<1>8. ASSUME NEW r \in Request, NEW role \in {"admin", "viewer"}, CreateAccount(r, role)
      PROVE  T'
  <2>1. [requests[r] EXCEPT !.at = "audit"] \in Asked
    BY DEF Asked
  <2>2. ids + 1 \in 0 .. MaxIds
    BY <1>8 DEF CreateAccount
  <2>3. [id |-> ids + 1, hash |-> "new", role |-> role, disabled |-> FALSE] \in Rows
    BY <2>2 DEF Rows
  <2>4. requests' \in [Request -> Asked]
    BY <1>8, <2>1 DEF CreateAccount
  <2>5. accounts' \in [User -> Rows] /\ promised' \in [User -> Rows] /\ ids' \in 0 .. MaxIds
    BY <1>8, <2>2, <2>3 DEF CreateAccount
  <2>6. faults' \in 0 .. MaxFaults
    BY <1>8 DEF CreateAccount
  <2> QED
    BY <1>8, <2>4, <2>5, <2>6 DEF CreateAccount
<1>9. ASSUME NEW r \in Request, AuditAccount(r) PROVE T'
  BY <1>9 DEF AuditAccount
<1> QED
  BY <1>1, <1>2, <1>3, <1>4, <1>5, <1>6, <1>7, <1>8, <1>9 DEF AccountsNext

(* A server is up before anything happens, and from the first boot on      *)
(* there was an account.                                                   *)
LEMMA ClosedStep ==
    ASSUME AccountsTypeOK, Closed, Unborn, AccountsNext
    PROVE  Closed' /\ Unborn'
<1>0. /\ requests \in [Request -> Asked] /\ ids \in Nat
      /\ \A r \in Request : requests[r].at # "idle" => up /\ ids # 0
  BY DEF AccountsTypeOK, Asked, Rows, Closed, Unborn, IdleRequest
<1>1. CASE Boot
  <2>1. ids' # 0
    <3>1. CASE ids = 0
      <4>1. accounts[Admin] = NoAccount /\ EnabledAdmins = {}
        BY <3>1, AccountAssumption DEF Unborn, EnabledAdmins, IsAdmin, Enabled
      <4> QED
        BY <1>1, <3>1, <4>1 DEF Boot, EnsureAdmin
    <3>2. CASE ids # 0
      <4>1. ids' \in {ids, ids + 1}
        BY <1>1 DEF Boot, EnsureAdmin
      <4> QED
        BY <1>0, <3>2, <4>1
    <3> QED
      BY <3>1, <3>2
  <2> QED
    BY <1>1, <2>1 DEF Boot, Closed, Unborn
<1>2. ASSUME NEW u \in User, Login(u) PROVE Closed' /\ Unborn'
  BY <1>2 DEF Login, Closed, Unborn
<1>3. ASSUME NEW r \in Request, NEW u \in User, Admit(r, u) PROVE Closed' /\ Unborn'
  BY <1>3 DEF Admit, Closed, Unborn
<1>4. ASSUME NEW r \in Request,
             \/ \E u \in User : CheckUserInput(r, u)
             \/ \E u \in User, op \in Changes : ReadAccount(r, op, u)
             \/ CountAdmins(r) \/ WriteAccount(r) \/ AuditAccount(r)
             \/ \E role \in {"admin", "viewer"} : CreateAccount(r, role)
      PROVE  Closed' /\ Unborn'
  <2>1. requests[r].at # "idle" /\ up' = up /\ ids' \in {ids, ids + 1}
    BY <1>4 DEF CheckUserInput, ReadAccount, CountAdmins, WriteAccount, AuditAccount, CreateAccount
  <2> QED
    BY <1>0, <2>1 DEF Closed, Unborn
<1> QED
  BY <1>1, <1>2, <1>3, <1>4 DEF AccountsNext

-----------------------------------------------------------------------------
(* A request that reads its copy: it is fresh, alone on its account, and   *)
(* not past the guard where there is one.                                  *)
LEMMA ReadKeepsCalm ==
    ASSUME AccountsTypeOK, CalmInv, NEW r \in Request, NEW u \in User, NEW op \in Changes,
           ReadAccount(r, op, u)
    PROVE  CalmInv'
<1> SUFFICES ASSUME Calm' PROVE FreshCopies' /\ OneRemoval' /\ AdminsLeft' /\ accounts' = promised'
  BY DEF CalmInv
<1>1. /\ UNCHANGED <<accounts, ids, promised, crossed>> /\ accounts[u] # NoAccount
      /\ \A q \in Request \ {r} : requests'[q] = requests[q]
      /\ requests'[r] = [at   |-> IF Guarded(op, accounts[u]) THEN "count" ELSE "write",
                         op   |-> op, user |-> u, copy |-> accounts[u]]
      /\ requests[r].at = "admitted"
  BY DEF ReadAccount, AccountsTypeOK
<1>2. Calm /\ InFlight(u) = {}
  BY <1>1 DEF Calm, ReadAccount
<1>3. FreshCopies /\ OneRemoval /\ AdminsLeft /\ accounts = promised
  BY <1>2 DEF CalmInv
<1>4. FreshCopies'
  <2> SUFFICES ASSUME NEW q \in Changing'
               PROVE  /\ accounts'[requests'[q].user] = requests'[q].copy
                      /\ requests'[q].copy # NoAccount
                      /\ \A p \in Request :
                            UnderWay(p)' /\ requests'[p].user = requests'[q].user => p = q
    BY DEF FreshCopies
  <2>0. \A p \in Request \ {r} :
           /\ UnderWay(p)' <=> UnderWay(p)
           /\ UnderWay(p) => requests[p].user # u
    BY <1>1, <1>2 DEF UnderWay, InFlight
  <2>1. CASE q = r
    BY <1>1, <2>0, <2>1 DEF UnderWay
  <2>2. CASE q # r
    <3>1. q \in Changing /\ q \in Request
      BY <1>1, <2>2 DEF Changing, UnderWay
    <3>2. requests[q].user # u
      BY <2>0, <2>2, <3>1 DEF Changing
    <3>3. \A p \in Request : UnderWay(p) /\ requests[p].user = requests[q].user => p = q
      BY <1>3, <3>1 DEF FreshCopies
    <3> QED
      BY <1>1, <1>3, <2>0, <2>2, <3>1, <3>2, <3>3 DEF FreshCopies
  <2> QED
    BY <2>1, <2>2
<1>5. OneRemoval'
  <2>1. Passed' = Passed /\ r \notin Passed
    BY <1>1 DEF Passed
  <2> QED
    BY <1>1, <1>3, <2>1 DEF OneRemoval, Passed
<1> QED
  BY <1>1, <1>3, <1>4, <1>5 DEF AdminsLeft, EnabledAdmins

(* The guard lets a removal pass with an administrator to spare, and none  *)
(* passes beside another.                                                  *)
LEMMA CountKeepsCalm ==
    ASSUME AccountsTypeOK, CalmInv, NEW r \in Request, CountAdmins(r)
    PROVE  CalmInv'
<1> SUFFICES ASSUME Calm' PROVE FreshCopies' /\ OneRemoval' /\ AdminsLeft' /\ accounts' = promised'
  BY DEF CalmInv
<1>1. UNCHANGED <<accounts, ids, promised, raced>> /\ requests[r].at = "count"
  BY DEF CountAdmins
<1>2. Calm
  BY DEF Calm, CountAdmins
<1>3. FreshCopies /\ OneRemoval /\ AdminsLeft /\ accounts = promised
  BY <1>2 DEF CalmInv
<1>4. CASE ~requireAnotherAdmin(r)
  <2>1. \A q \in Request : requests'[q] = requests[q] \/ requests'[q].at \notin {"count", "write"}
    BY <1>4 DEF CountAdmins, IdleRequest, AccountsTypeOK
  <2>2. UNCHANGED crossed
    BY <1>4 DEF CountAdmins, AccountsTypeOK
  <2> QED
    BY <1>1, <2>1, <2>2, StillCalm DEF CalmInv
<1>5. CASE requireAnotherAdmin(r)
  <2>1. /\ \A q \in Request \ {r} : requests'[q] = requests[q]
        /\ requests'[r] = [requests[r] EXCEPT !.at = "write"]
    BY <1>5 DEF CountAdmins, AccountsTypeOK
  <2>2. requests[r] \in Asked
    BY RequestTyped
  <2>3. /\ requests'[r].user = requests[r].user /\ requests'[r].op = requests[r].op
        /\ requests'[r].copy = requests[r].copy /\ requests'[r].at = "write"
    BY <2>1, <2>2 DEF Asked
  <2>4. Passed = {}
    BY <1>5 DEF CountAdmins, Calm
  <2>5. Changing' = Changing /\ \A q \in Request : UnderWay(q)' <=> UnderWay(q)
    <3>1. \A q \in Request : (UnderWay(q)' <=> UnderWay(q)) /\ requests'[q].op = requests[q].op
      BY <1>1, <2>1, <2>3 DEF UnderWay
    <3> QED
      BY <3>1 DEF Changing
  <2>6. \A q \in Request : requests'[q].user = requests[q].user /\ requests'[q].copy = requests[q].copy
    BY <2>1, <2>3
  <2>7. FreshCopies'
    <3>1. Changing \subseteq Request
      BY DEF Changing
    <3> QED
      BY <1>1, <1>3, <2>5, <2>6, <3>1 DEF FreshCopies
  <2>8. OneRemoval'
    <3>1. Passed' \subseteq {r}
      BY <2>1, <2>4 DEF Passed
    <3>2. \E u \in User \ {requests[r].user} : IsAdmin(accounts[u])
      BY <1>5, AnotherAdmin DEF requireAnotherAdmin
    <3> QED
      BY <1>1, <2>3, <3>1, <3>2 DEF OneRemoval
  <2> QED
    BY <1>1, <1>3, <2>7, <2>8 DEF AdminsLeft, EnabledAdmins
<1> QED
  BY <1>4, <1>5

(* A row that is rewritten for one account: no other change is under way   *)
(* there, so all other copies stay fresh.                                  *)
LEMMA RowWritten ==
    ASSUME AccountsTypeOK, FreshCopies, OneRemoval, NEW r \in Request, NEW u \in User,
           \A q \in Changing \ {r} : requests[q].user # u,
           \A q \in Request \ {r} : requests'[q] = requests[q],
           requests'[r].at = "audit",
           \A v \in User \ {u} : accounts'[v] = accounts[v]
    PROVE  /\ FreshCopies'
           /\ \A q \in Passed' : /\ q \in Passed /\ q # r /\ requests'[q] = requests[q]
                                 /\ \A p \in Passed' : p = q
<1>1. \A q \in Request : UnderWay(q)' => UnderWay(q) /\ q # r /\ requests'[q] = requests[q]
  BY DEF UnderWay
<1>2. \A q \in Changing' : q \in Changing /\ q # r /\ requests'[q] = requests[q]
  BY <1>1 DEF Changing
<1>3. \A q \in Passed' : q \in Passed /\ q # r /\ requests'[q] = requests[q]
  BY DEF Passed
<1>4. ASSUME NEW q \in Changing'
      PROVE  /\ accounts'[requests'[q].user] = requests'[q].copy
             /\ requests'[q].copy # NoAccount
             /\ \A p \in Request : UnderWay(p)' /\ requests'[p].user = requests'[q].user => p = q
  <2>1. q \in Changing /\ q # r /\ requests'[q] = requests[q]
    BY <1>2
  <2>2. /\ accounts[requests[q].user] = requests[q].copy /\ requests[q].copy # NoAccount
        /\ \A p \in Request : UnderWay(p) /\ requests[p].user = requests[q].user => p = q
    BY <2>1 DEF FreshCopies
  <2>3. accounts'[requests[q].user] = accounts[requests[q].user]
    BY <2>1, RequestTyped DEF Changing, Asked
  <2> QED
    BY <1>1, <2>1, <2>2, <2>3
<1>5. FreshCopies'
  BY <1>4 DEF FreshCopies
<1> QED
  BY <1>3, <1>5 DEF OneRemoval

-----------------------------------------------------------------------------
(* A stored change: a removal leaves the administrator its guard saw, and  *)
(* anything else leaves every administrator one.                           *)
LEMMA WriteKeepsCalm ==
    ASSUME AccountsTypeOK, CalmInv, NEW r \in Request, WriteAccount(r)
    PROVE  CalmInv'
<1> DEFINE u  == requests[r].user
           op == requests[r].op
<1>1. requests[r] \in Asked /\ u \in User /\ op \in Changes /\ requests[r].at = "write"
  BY RequestTyped DEF WriteAccount, Asked
<1>2. UNCHANGED <<ids, raced, crossed>>
  BY DEF WriteAccount
<1>3. CASE UNCHANGED <<accounts, promised>> /\ requests' = [requests EXCEPT ![r] = IdleRequest]
  <2>1. \A q \in Request : requests'[q] = requests[q] \/ requests'[q].at \notin {"count", "write"}
    BY <1>3 DEF IdleRequest, AccountsTypeOK
  <2> QED
    BY <1>2, <1>3, <2>1, StillCalm
<1>4. CASE /\ accounts' = [accounts EXCEPT ![u] = Changed(op, requests[r].copy)]
           /\ promised' = [promised EXCEPT ![u] = Changed(op, @)]
           /\ requests' = [requests EXCEPT ![r].at = "audit"]
  <2> SUFFICES ASSUME Calm
               PROVE  FreshCopies' /\ OneRemoval' /\ AdminsLeft' /\ accounts' = promised'
    BY <1>2 DEF CalmInv, Calm
  <2>1. FreshCopies /\ OneRemoval /\ AdminsLeft /\ accounts = promised
    BY DEF CalmInv
  <2>2. /\ r \in Changing /\ accounts[u] = requests[r].copy /\ accounts[u] \in Rows
        /\ \A q \in Changing \ {r} : requests[q].user # u
    BY <1>1, <2>1 DEF Changing, UnderWay, FreshCopies, AccountsTypeOK, Rows
  <2> DEFINE new == Changed(op, accounts[u])
  <2>3. /\ \A q \in Request \ {r} : requests'[q] = requests[q]
        /\ requests'[r].at = "audit"
        /\ \A v \in User \ {u} : accounts'[v] = accounts[v]
        /\ accounts'[u] = new
    BY <1>1, <1>4, <2>2 DEF AccountsTypeOK
  <2>4. accounts' = promised'
    BY <1>4, <2>1, <2>2
  <2>5. IsAdmin(accounts[u]) /\ ~Guarded(op, accounts[u]) => IsAdmin(new)
    BY <1>1, <2>2, ChangedType
  <2> HIDE DEF u, op, new
  <2>6. /\ FreshCopies'
        /\ \A q \in Passed' : /\ q \in Passed /\ q # r /\ requests'[q] = requests[q]
                              /\ \A p \in Passed' : p = q
    BY <1>1, <2>1, <2>2, <2>3, RowWritten
  <2>7. CASE r \in Passed
    <3>1. Passed' = {}
      BY <2>1, <2>6, <2>7 DEF OneRemoval
    <3>2. PICK v \in User \ {u} : IsAdmin(accounts[v])
      BY <2>1, <2>7 DEF OneRemoval, u
    <3>3. v \in EnabledAdmins'
      BY <2>3, <3>2 DEF EnabledAdmins
    <3> QED
      BY <2>4, <2>6, <3>1, <3>3 DEF OneRemoval, AdminsLeft
  <2>8. CASE r \notin Passed
    <3>1. ~Guarded(op, accounts[u])
      BY <1>1, <2>2, <2>8 DEF Passed, op
    <3>2. \A v \in User : IsAdmin(accounts[v]) => IsAdmin(accounts'[v])
      BY <2>3, <2>5, <3>1
    <3>3. OneRemoval'
      <4> SUFFICES ASSUME NEW q \in Passed'
                   PROVE  \E v \in User \ {requests'[q].user} : IsAdmin(accounts'[v])
        BY <2>6 DEF OneRemoval
      <4>1. q \in Passed /\ requests'[q] = requests[q]
        BY <2>6
      <4>2. PICK v \in User \ {requests[q].user} : IsAdmin(accounts[v])
        BY <2>1, <4>1 DEF OneRemoval
      <4> QED
        BY <3>2, <4>1, <4>2
    <3>4. EnabledAdmins # {} => EnabledAdmins' # {}
      BY <3>2 DEF EnabledAdmins
    <3> QED
      BY <1>2, <2>1, <2>4, <2>6, <3>3, <3>4 DEF AdminsLeft
  <2> QED
    BY <2>7, <2>8
<1> QED
  BY <1>1, <1>3, <1>4 DEF WriteAccount, AccountsTypeOK

(* A created account: nobody else changes it, and it replaces no row.      *)
LEMMA CreateKeepsCalm ==
    ASSUME AccountsTypeOK, Closed, Unborn, CalmInv, NEW r \in Request,
           NEW role \in {"admin", "viewer"}, CreateAccount(r, role)
    PROVE  CalmInv'
<1> DEFINE u   == requests[r].user
           row == [id |-> ids + 1, hash |-> "new", role |-> role, disabled |-> FALSE]
<1>1. requests[r] \in Asked /\ u \in User /\ requests[r].op = "create" /\ requests[r].at = "write"
  BY RequestTyped DEF CreateAccount, Asked
<1>2. UNCHANGED <<raced, crossed>> /\ ids > 0 /\ ids \in Nat
  BY <1>1 DEF CreateAccount, Closed, Unborn, IdleRequest, AccountsTypeOK
<1>3. CASE UNCHANGED <<accounts, ids, promised>> /\ requests' = [requests EXCEPT ![r] = IdleRequest]
  <2>1. \A q \in Request : requests'[q] = requests[q] \/ requests'[q].at \notin {"count", "write"}
    BY <1>3 DEF IdleRequest, AccountsTypeOK
  <2> QED
    BY <1>2, <1>3, <2>1, StillCalm
<1>4. CASE /\ accounts[u] = NoAccount
           /\ accounts' = [accounts EXCEPT ![u] = row]
           /\ promised' = [promised EXCEPT ![u] = row]
           /\ requests' = [requests EXCEPT ![r].at = "audit"]
  <2> SUFFICES ASSUME Calm
               PROVE  FreshCopies' /\ OneRemoval' /\ AdminsLeft' /\ accounts' = promised'
    BY <1>2 DEF CalmInv, Calm
  <2>1. FreshCopies /\ OneRemoval /\ AdminsLeft /\ accounts = promised
    BY DEF CalmInv
  <2>2. \A q \in Changing \ {r} : requests[q].user # u
    BY <1>4, <2>1 DEF FreshCopies
  <2>3. /\ \A q \in Request \ {r} : requests'[q] = requests[q]
        /\ requests'[r].at = "audit"
        /\ \A v \in User \ {u} : accounts'[v] = accounts[v]
    BY <1>1, <1>4 DEF AccountsTypeOK
  <2>4. accounts' = promised'
    BY <1>4, <2>1
  <2>5. ~IsAdmin(accounts[u])
    BY <1>4 DEF IsAdmin, Enabled
  <2> HIDE DEF u, row
  <2>6. /\ FreshCopies'
        /\ \A q \in Passed' : /\ q \in Passed /\ q # r /\ requests'[q] = requests[q]
                              /\ \A p \in Passed' : p = q
    BY <1>1, <2>1, <2>2, <2>3, RowWritten
  <2>7. \A v \in User : IsAdmin(accounts[v]) => IsAdmin(accounts'[v])
    BY <2>3, <2>5
  <2>8. OneRemoval'
    <3> SUFFICES ASSUME NEW q \in Passed'
                 PROVE  \E v \in User \ {requests'[q].user} : IsAdmin(accounts'[v])
      BY <2>6 DEF OneRemoval
    <3>1. q \in Passed /\ requests'[q] = requests[q]
      BY <2>6
    <3>2. PICK v \in User \ {requests[q].user} : IsAdmin(accounts[v])
      BY <2>1, <3>1 DEF OneRemoval
    <3> QED
      BY <2>7, <3>1, <3>2
  <2>9. EnabledAdmins' # {}
    BY <1>2, <2>1, <2>7 DEF AdminsLeft, EnabledAdmins
  <2> QED
    BY <2>4, <2>6, <2>8, <2>9 DEF AdminsLeft
<1> QED
  BY <1>1, <1>3, <1>4 DEF CreateAccount, AccountsTypeOK

(* A boot repairs what a lockout left, and finds nothing to repair as long *)
(* as the changes were calm.                                               *)
LEMMA BootKeepsCalm ==
    ASSUME AccountsTypeOK, Closed, Unborn, CalmInv, Boot
    PROVE  CalmInv'
<1> SUFFICES ASSUME Calm PROVE FreshCopies' /\ OneRemoval' /\ AdminsLeft' /\ accounts' = promised'
  BY DEF CalmInv, Calm, Boot
<1>1. AdminsLeft /\ accounts = promised /\ ids \in Nat
  BY DEF CalmInv, AccountsTypeOK
<1>2. UNCHANGED requests /\ \A r \in Request : requests[r] = IdleRequest
  BY DEF Boot, Closed
<1>3. Changing' = {} /\ Passed' = {}
  BY <1>2 DEF Changing, Passed, UnderWay, IdleRequest
<1>4. CASE ids > 0
  <2>1. EnabledAdmins # {} /\ UNCHANGED <<accounts, ids>> /\ promised' = promised
    BY <1>1, <1>4 DEF AdminsLeft, Boot, EnsureAdmin
  <2> QED
    BY <1>1, <1>3, <2>1 DEF FreshCopies, OneRemoval, AdminsLeft, EnabledAdmins
<1>5. CASE ids = 0
  <2>1. accounts[Admin] = NoAccount /\ EnabledAdmins = {}
    BY <1>5, AccountAssumption DEF Unborn, EnabledAdmins, IsAdmin, Enabled
  <2>2. /\ accounts' = [accounts EXCEPT ![Admin] =
                          [id |-> ids + 1, hash |-> "env", role |-> "admin", disabled |-> FALSE]]
        /\ promised' = accounts'
    BY <1>5, <2>1 DEF Boot, EnsureAdmin
  <2>3. accounts'[Admin] = [id |-> ids + 1, hash |-> "env", role |-> "admin", disabled |-> FALSE]
    BY <2>2, AccountAssumption DEF AccountsTypeOK
  <2>4. Admin \in EnabledAdmins'
    BY <2>3, AccountAssumption DEF EnabledAdmins, IsAdmin, Enabled, NoAccount
  <2> QED
    BY <1>3, <2>2, <2>4 DEF FreshCopies, OneRemoval, AdminsLeft
<1> QED
  BY <1>1, <1>4, <1>5

(* Every step keeps what holds as long as changes do not overlap.          *)
LEMMA CalmStep ==
    ASSUME AccountsTypeOK, Closed, Unborn, CalmInv, AccountsNext
    PROVE  CalmInv'
<1>1. ASSUME NEW u \in User, Login(u) PROVE CalmInv'
  BY <1>1, StillCalm DEF Login
<1>2. ASSUME NEW r \in Request, NEW u \in User, Admit(r, u) PROVE CalmInv'
  <2>1. requests[r] \in Asked
    BY RequestTyped
  <2>2. \A q \in Request : requests'[q] = requests[q] \/ requests'[q].at \notin {"count", "write"}
    BY <1>2, <2>1 DEF Admit, AccountsTypeOK, Asked
  <2> QED
    BY <1>2, <2>2, StillCalm DEF Admit
<1>3. ASSUME NEW r \in Request, AuditAccount(r) PROVE CalmInv'
  <2>1. \A q \in Request : requests'[q] = requests[q] \/ requests'[q].at \notin {"count", "write"}
    BY <1>3 DEF AuditAccount, AccountsTypeOK, IdleRequest
  <2> QED
    BY <1>3, <2>1, StillCalm DEF AuditAccount
<1>4. ASSUME NEW r \in Request, NEW u \in User, CheckUserInput(r, u) PROVE CalmInv'
  <2> SUFFICES ASSUME Calm PROVE FreshCopies' /\ OneRemoval' /\ AdminsLeft' /\ accounts' = promised'
    BY <1>4 DEF CalmInv, Calm, CheckUserInput
  <2>1. FreshCopies /\ OneRemoval /\ AdminsLeft /\ accounts = promised
    BY DEF CalmInv
  <2>2. /\ UNCHANGED <<accounts, promised, ids>> /\ accounts[u] = NoAccount
        /\ \A q \in Request \ {r} : requests'[q] = requests[q]
        /\ requests'[r] = [at |-> "write", op |-> "create", user |-> u, copy |-> NoAccount]
        /\ requests[r].at = "admitted"
    BY <1>4 DEF CheckUserInput, AccountsTypeOK
  <2>3. Changing' = Changing /\ r \notin Changing /\ Passed' = Passed /\ r \notin Passed
    BY <2>2 DEF Changing, UnderWay, Passed, Guarded, Changes
  <2>4. \A q \in Changing : requests[q].user # u
    BY <2>1, <2>2 DEF FreshCopies
  <2>5. \A q \in Request : q # r => (UnderWay(q)' <=> UnderWay(q))
    BY <2>2 DEF UnderWay
  <2>6. FreshCopies'
    BY <2>1, <2>2, <2>3, <2>4, <2>5 DEF FreshCopies, Changing
  <2>7. OneRemoval'
    BY <2>1, <2>2, <2>3 DEF OneRemoval, Passed
  <2> QED
    BY <2>1, <2>2, <2>6, <2>7 DEF AdminsLeft, EnabledAdmins
<1> QED
  BY <1>1, <1>2, <1>3, <1>4, BootKeepsCalm, ReadKeepsCalm, CountKeepsCalm, WriteKeepsCalm,
     CreateKeepsCalm DEF AccountsNext

-----------------------------------------------------------------------------
(* The registry only ends the requests it is given, and a stop ends all.   *)
LEMMA RegistryKeepsAccounts ==
    ASSUME AccountsInv, Drafting \/ (\E r \in Request : Registry(r)) \/ Change \/ Stop
    PROVE  AccountsInv'
<1> USE DEF AccountsInv
<1>1. CASE Stop
  <2>1. /\ UNCHANGED <<accounts, ids, admitted, raced, crossed, promised>>
        /\ up' = FALSE /\ sessions' = {} /\ requests' = [r \in Request |-> IdleRequest]
        /\ faults' = faults + 1 /\ faults < MaxFaults
    BY <1>1 DEF Stop, Restart, Fault
  <2>2. AccountsTypeOK'
    <3>1. IdleRequest \in Asked
      BY AccountAssumption DEF IdleRequest, Asked, NoAccount, Rows
    <3>2. faults' \in 0 .. MaxFaults
      BY <2>1, AccountAssumption DEF AccountsTypeOK
    <3> QED
      BY <2>1, <3>1, <3>2 DEF AccountsTypeOK, Asked, Rows
  <2>3. CalmInv'
    BY <2>1, StillCalm DEF IdleRequest
  <2> QED
    BY <2>1, <2>2, <2>3 DEF Closed, Unborn
<1>2. ASSUME Drafting \/ (\E r \in Request : Registry(r)) \/ Change PROVE AccountsInv'
  <2>1. /\ UNCHANGED <<up, accounts, ids, sessions, admitted, raced, crossed, promised>>
        /\ faults' \in 0 .. MaxFaults
    <3>1. UNCHANGED <<up, accounts, ids, sessions, admitted, raced, crossed, promised>>
      BY <1>2 DEF Drafting, LookAt, Suggest, Registry, CheckCreate, CreateService,
         DeleteService, AuditService, Change, accountVars
    <3>2. UNCHANGED faults \/ Fine \/ Fault
      BY <1>2 DEF Drafting, LookAt, Suggest, Registry, CheckCreate, CreateService,
         DeleteService, AuditService, Change
    <3> QED
      BY <3>1, <3>2, AccountAssumption DEF Fine, Fault, AccountsTypeOK
  <2>2. \/ requests' = requests
        \/ \E r \in Request : \/ requests' = [requests EXCEPT ![r] = IdleRequest]
                              \/ /\ requests[r].at = "admitted"
                                 /\ requests' = [requests EXCEPT ![r] = Busy]
    <3>1. CASE Drafting \/ Change
      BY <3>1 DEF Drafting, LookAt, Suggest, Change, accountVars
    <3>2. ASSUME NEW r \in Request, Registry(r)
          PROVE  \/ requests' = requests
                 \/ requests' = [requests EXCEPT ![r] = IdleRequest]
                 \/ requests[r].at = "admitted" /\ requests' = [requests EXCEPT ![r] = Busy]
      <4>1. ASSUME NEW d \in drafts, NEW id \in Ids, NEW asDrafted \in BOOLEAN,
                   CheckCreate(r, d, id, asDrafted)
            PROVE  \/ requests' = [requests EXCEPT ![r] = IdleRequest]
                   \/ requests[r].at = "admitted" /\ requests' = [requests EXCEPT ![r] = Busy]
        BY <4>1 DEF CheckCreate, Step
      <4>2. CASE CreateService(r)
        BY <4>2 DEF CreateService, Leave, Step
      <4>3. ASSUME NEW id \in DOMAIN services, DeleteService(r, id)
            PROVE  requests[r].at = "admitted" /\ requests' = [requests EXCEPT ![r] = Busy]
        BY <4>3 DEF DeleteService, Step
      <4>4. CASE AuditService(r)
        BY <4>4 DEF AuditService, Leave
      <4> QED
        BY <3>2, <4>1, <4>2, <4>3, <4>4 DEF Registry
    <3> QED
      BY <1>2, <3>1, <3>2
  <2>3. \A q \in Request : \/ requests'[q] = requests[q]
                           \/ requests'[q] = IdleRequest
                           \/ requests[q].at = "admitted" /\ requests'[q] = Busy
    BY <2>2 DEF AccountsTypeOK
  <2>4. CalmInv'
    <3>1. \A q \in Request : requests'[q] = requests[q] \/ requests'[q].at \notin {"count", "write"}
      BY <2>3 DEF IdleRequest, Busy
    <3> QED
      BY <2>1, <3>1, StillCalm
  <2>5. Closed' /\ Unborn'
    <3>1. ~up => \A q \in Request : requests'[q] = IdleRequest
      BY <2>3 DEF Closed, IdleRequest
    <3> QED
      BY <2>1, <3>1 DEF Closed, Unborn
  <2>6. requests' \in [Request -> Asked]
    <3>1. IdleRequest \in Asked /\ Busy \in Asked
      <4>1. IdleRequest \in Asked
        BY AccountAssumption DEF IdleRequest, Asked, NoAccount, Rows
      <4> QED
        BY <4>1 DEF Busy, Asked
    <3>2. requests \in [Request -> Asked]
      BY DEF AccountsTypeOK, Asked, Rows
    <3> QED
      BY <2>2, <3>1, <3>2
  <2> QED
    BY <2>1, <2>4, <2>5, <2>6 DEF AccountsTypeOK, Asked, Rows
<1> QED
  BY <1>1, <1>2

(* The invariant of the accounts, whatever the registry does.              *)
LEMMA AccountsInvariant == Spec => []AccountsInv
<1>1. Init => AccountsInv
  <2> SUFFICES ASSUME Init PROVE AccountsInv
    OBVIOUS
  <2>1. IdleRequest \in Asked /\ NoAccount \in Rows
    BY AccountAssumption DEF IdleRequest, Asked, NoAccount, Rows
  <2>2. AccountsTypeOK
    <3>1. accounts \in [User -> Rows] /\ promised \in [User -> Rows]
      BY <2>1 DEF Init, AccountsInit
    <3>2. requests \in [Request -> Asked]
      BY <2>1 DEF Init, AccountsInit
    <3>3. ids \in 0 .. MaxIds /\ admitted \in 0 .. MaxRequests /\ faults \in 0 .. MaxFaults
      BY AccountAssumption DEF Init, AccountsInit
    <3>4. up \in BOOLEAN /\ crossed \in BOOLEAN /\ sessions \subseteq User /\ raced \subseteq User
      BY DEF Init, AccountsInit
    <3> QED
      BY <3>1, <3>2, <3>3, <3>4 DEF AccountsTypeOK, Asked, Rows
  <2>3. Changing = {} /\ Passed = {}
    BY DEF Init, AccountsInit, Changing, Passed, UnderWay, IdleRequest
  <2>4. CalmInv
    BY <2>3 DEF Init, AccountsInit, CalmInv, FreshCopies, OneRemoval, AdminsLeft
  <2>5. Closed /\ Unborn
    BY DEF Init, AccountsInit, Closed, Unborn
  <2> QED
    BY <2>2, <2>4, <2>5 DEF AccountsInv
<1>2. AccountsInv /\ [Next]_vars => AccountsInv'
  <2> SUFFICES ASSUME AccountsInv, [Next]_vars PROVE AccountsInv'
    OBVIOUS
  <2>1. CASE AccountsNext
    BY <2>1, AccountsTypeStep, ClosedStep, CalmStep DEF AccountsInv
  <2>2. CASE UNCHANGED vars
    <3>1. UNCHANGED <<accountVars, faults>>
      BY <2>2 DEF vars
    <3>2. AccountsTypeOK' /\ Closed' /\ Unborn'
      BY <3>1 DEF accountVars, AccountsInv, AccountsTypeOK, Closed, Unborn
    <3>3. CalmInv'
      BY <3>1, StillCalm DEF accountVars, AccountsInv
    <3> QED
      BY <3>2, <3>3 DEF AccountsInv
  <2> QED
    BY <2>1, <2>2, RegistryKeepsAccounts DEF Next
<1> QED
  BY <1>1, <1>2, PTL DEF Spec

(* No sequence of demotions, disables and deletions locks everybody out,   *)
(* as long as they do not overlap, for any number of accounts.             *)
THEOREM SomeAdminRemains == Spec => []AdminRemains
<1>1. AccountsInv => AdminRemains
  BY DEF AccountsInv, AccountsTypeOK, CalmInv, Calm, Unborn, AdminsLeft, AdminRemains
<1> QED
  BY <1>1, AccountsInvariant, PTL

(* What was stored for an account stays until the account is changed       *)
(* again: no other change and no boot takes it back.                       *)
THEOREM StoredChangesLast == Spec => []ChangesLast
<1>1. AccountsInv => ChangesLast
  BY DEF AccountsInv, CalmInv, Calm, ChangesLast
<1> QED
  BY <1>1, AccountsInvariant, PTL

-----------------------------------------------------------------------------
JobRow == [at : {"none", "insert", "audit", "deleted"}, id : Ids \cup {NoId},
           owns : SUBSET Container, asDrafted : BOOLEAN]

(* What RegistryTypeOK leaves open: the drafts, a suggestion and the jobs  *)
(* name containers and ids of the instance.                                *)
RegistryShape ==
    /\ RegistryTypeOK
    /\ jobs \in [Request -> JobRow]
    /\ \A r \in Request : jobs[r].at = "insert" => jobs[r].id \in Ids
    /\ suggest.seen \subseteq Container
    /\ suggest # NoSuggest => suggest.container \in Container
    /\ \A d \in drafts : d.draft.owns \subseteq Container

(* The service of a high draft owns the one container it was made of.  It  *)
(* has the id of the project; or the joined one, when the other was taken  *)
(* by a service that does not own the container.                           *)
Solo(owns, id) ==
    \E c \in Container :
        /\ owns = {c} /\ id \in {ProjectId[c], JoinedId[c]} \ {NoId}
        /\ id # ProjectId[c] /\ ProjectId[c] # NoId =>
              ProjectId[c] \in DOMAIN services /\ c \notin services[ProjectId[c]].owns

(* A suggestion under way is for a container nobody manages; drafts, jobs  *)
(* and rows that come of high drafts are of the kind above.                *)
HighAreSolo ==
    /\ suggest # NoSuggest /\ ~Unlabelled(suggest.container) => ~Managed(suggest.container)
    /\ \A d \in drafts : d.grade = "high" => Solo(d.draft.owns, d.draft.id)
    /\ \A r \in Request : jobs[r].at = "insert" /\ jobs[r].asDrafted =>
                             Solo(jobs[r].owns, jobs[r].id)
    /\ \A i \in DOMAIN services : services[i].asDrafted => Solo(services[i].owns, i)

RegistryInv == RegistryShape /\ (~stirred => HighAreSolo)

(* A draft names containers of the list it was made of, and an id that was *)
(* free; a high one is the recreate draft of a labelled container.         *)
LEMMA DraftedShape ==
    ASSUME RegistryShape, NEW c \in Container, NEW seen \in SUBSET Container,
           NEW d \in Drafted(c, DraftId(c), seen)
    PROVE  /\ d.owns \subseteq Container /\ d.container = c
           /\ confidence(d) = "high" => /\ ~Unlabelled(c) /\ d.id = DraftId(c)
                                        /\ DraftId(c) # NoId /\ d.owns = {c}
<1>1. CASE d = draftRecreate(c, DraftId(c))
  BY <1>1 DEF draftRecreate, confidence
<1>2. ASSUME NEW base, d = draftBlueGreen(c, DraftId(c), seen, base)
      PROVE  d.owns \subseteq Container /\ d.container = c /\ d.warned
  BY <1>2 DEF draftBlueGreen
<1>3. d.warned => confidence(d) # "high"
  BY DEF confidence
<1>4. CASE PairBases(c, seen) = {}
  BY <1>1, <1>4 DEF Drafted
<1>5. CASE PairBases(c, seen) # {}
  BY <1>2, <1>3, <1>5 DEF Drafted
<1> QED
  BY <1>4, <1>5

(* The id of a draft is one of the two the labels give.                    *)
LEMMA DraftIdFree ==
    ASSUME NEW c \in Container, DraftId(c) # NoId
    PROVE  /\ DraftId(c) \in {ProjectId[c], JoinedId[c]} \ {NoId}
           /\ DraftId(c) # ProjectId[c] /\ ProjectId[c] # NoId => ProjectId[c] \in DOMAIN services
BY DEF DraftId

(* As long as the rows of the table stay, solo services stay solo.         *)
LEMMA SoloStays ==
    ASSUME \A i \in DOMAIN services : i \in DOMAIN services' /\ services'[i] = services[i],
           NEW owns, NEW id, Solo(owns, id)
    PROVE  Solo(owns, id)'
BY DEF Solo

(* The shape of the registry is preserved: one step per action.            *)
LEMMA ShapeStep ==
    ASSUME RegistryShape, AccountsTypeOK, [Next]_vars
    PROVE  RegistryShape'
<1> USE OnboardingAssumption DEF RegistryShape, RegistryTypeOK
<1> DEFINE Table == /\ DOMAIN services \subseteq Ids
                    /\ \A i \in DOMAIN services :
                          services[i] \in [owns : SUBSET Container, asDrafted : BOOLEAN]
           World == /\ running \subseteq Container /\ healthy \subseteq Container
                    /\ marked \subseteq Container /\ changes \in 0 .. MaxChanges
           Log   == audit \subseteq [id : Ids \cup {NoId},
                                     action : {"service_create", "service_delete"}]
           Plans == /\ suggest.seen \subseteq Container
                    /\ suggest # NoSuggest => suggest.container \in Container
                    /\ \A d \in drafts : d.draft.owns \subseteq Container
           Works == /\ jobs \in [Request -> JobRow]
                    /\ \A r \in Request : jobs[r].at = "insert" => jobs[r].id \in Ids
<1>0. /\ RegistryShape <=> Table /\ World /\ Log /\ Plans /\ Works /\ stirred \in BOOLEAN
      /\ RegistryShape' <=> (Table /\ World /\ Log /\ Plans /\ Works)' /\ stirred' \in BOOLEAN
  BY DEF JobRow
<1>a. NoJob \in JobRow /\ NoJob.at = "none" /\ \A r \in Request : jobs[r] \in JobRow
  BY DEF NoJob, JobRow, NoId
<1>b. Table /\ World /\ Log /\ Plans /\ Works /\ stirred \in BOOLEAN
  BY <1>0
<1> SUFFICES (Table /\ World /\ Log /\ Plans /\ Works)' /\ stirred' \in BOOLEAN
  BY <1>0
<1> USE DEF worldVars, serviceVars
<1>1. CASE AccountsNext /\ UNCHANGED <<worldVars, serviceVars>>
  BY <1>1, <1>b
<1>2. ASSUME NEW c \in Container, LookAt(c)
      PROVE  (Table /\ World /\ Log /\ Plans /\ Works)' /\ stirred' \in BOOLEAN
  BY <1>2, <1>b DEF LookAt
<1>3. CASE Suggest
  <2>1. suggest # NoSuggest /\ suggest' = NoSuggest
        /\ UNCHANGED <<worldVars, services, jobs, audit, stirred>>
    BY <1>3 DEF Suggest
  <2>2. PICK d \in Drafted(suggest.container, DraftId(suggest.container), suggest.seen) :
           drafts' = drafts \cup
              {[draft |-> d, grade |-> confidence(d), taken |-> \E o \in d.owns : Managed(o)]}
    BY <1>3 DEF Suggest
  <2>3. d.owns \subseteq Container
    BY <1>b, <2>1, DraftedShape
  <2>4. Plans'
    BY <1>b, <2>1, <2>2, <2>3 DEF NoSuggest
  <2> QED
    BY <1>b, <2>1, <2>4
<1>4. ASSUME NEW r \in Request, NEW d \in drafts, NEW id \in Ids, NEW asDrafted \in BOOLEAN,
             CheckCreate(r, d, id, asDrafted)
      PROVE  (Table /\ World /\ Log /\ Plans /\ Works)' /\ stirred' \in BOOLEAN
  <2> DEFINE job == [at |-> "insert", id |-> id, owns |-> d.draft.owns,
                     asDrafted |-> asDrafted /\ d.grade = "high"]
  <2>1. job \in JobRow
    BY <1>b DEF JobRow
  <2>2. Works'
    <3>1. jobs' = jobs \/ jobs' = [jobs EXCEPT ![r] = job]
      BY <1>4 DEF CheckCreate
    <3> QED
      BY <1>b, <2>1, <3>1
  <2> QED
    BY <1>4, <1>b, <2>2 DEF CheckCreate
<1>5. ASSUME NEW r \in Request, CreateService(r)
      PROVE  (Table /\ World /\ Log /\ Plans /\ Works)' /\ stirred' \in BOOLEAN
  <2>1. UNCHANGED <<worldVars, suggest, drafts, audit>> /\ jobs[r].at = "insert"
    BY <1>5 DEF CreateService
  <2>2. Works'
    <3>1. [jobs[r] EXCEPT !.at = "audit"] \in JobRow
      BY <1>a DEF JobRow
    <3>2. \/ jobs' = [jobs EXCEPT ![r].at = "audit"]
          \/ jobs' = [jobs EXCEPT ![r] = NoJob]
      BY <1>5 DEF CreateService, Step, Leave
    <3>3. [jobs[r] EXCEPT !.at = "audit"].at = "audit"
      BY <1>a DEF JobRow
    <3> QED
      BY <1>a, <1>b, <3>1, <3>2, <3>3
  <2>3. CASE UNCHANGED <<services, stirred>>
    BY <1>b, <2>1, <2>2, <2>3
  <2>4. CASE /\ services' = [i \in DOMAIN services \cup {jobs[r].id} |->
                               IF i = jobs[r].id
                               THEN [owns |-> jobs[r].owns, asDrafted |-> jobs[r].asDrafted]
                               ELSE services[i]]
             /\ stirred' = (stirred \/ suggest # NoSuggest)
    <3> DEFINE row == [owns |-> jobs[r].owns, asDrafted |-> jobs[r].asDrafted]
    <3>1. jobs[r].id \in Ids /\ row \in [owns : SUBSET Container, asDrafted : BOOLEAN]
      BY <1>a, <1>b, <2>1 DEF JobRow
    <3>2. DOMAIN services' = DOMAIN services \cup {jobs[r].id}
      BY <2>4
    <3>3. \A i \in DOMAIN services' : services'[i] \in {services[i], row}
      BY <2>4
    <3>4. \A i \in DOMAIN services' : i \in DOMAIN services \/ services'[i] = row
      BY <2>4
    <3>5. Table'
      <4> HIDE DEF row
      <4> QED
        BY <1>b, <2>4, <3>1, <3>2, <3>3, <3>4
    <3>6. stirred' \in BOOLEAN
      BY <2>4
    <3> QED
      BY <1>b, <2>1, <2>2, <3>5, <3>6
  <2> QED
    BY <1>5, <2>3, <2>4 DEF CreateService
<1>6. ASSUME NEW r \in Request, NEW id \in DOMAIN services, DeleteService(r, id)
      PROVE  (Table /\ World /\ Log /\ Plans /\ Works)' /\ stirred' \in BOOLEAN
  <2>1. /\ UNCHANGED <<worldVars, suggest, drafts>> /\ stirred' = TRUE /\ audit' \subseteq audit
        /\ DOMAIN services' = DOMAIN services \ {id}
        /\ \A i \in DOMAIN services' : services'[i] = services[i]
    BY <1>6 DEF DeleteService, Restrict
  <2>2. [NoJob EXCEPT !.at = "deleted", !.id = id] \in JobRow
    BY <1>a, <1>b DEF JobRow
  <2>3. Works'
    BY <1>6, <1>b, <2>2 DEF DeleteService
  <2> QED
    BY <1>b, <2>1, <2>3
<1>7. ASSUME NEW r \in Request, AuditService(r)
      PROVE  (Table /\ World /\ Log /\ Plans /\ Works)' /\ stirred' \in BOOLEAN
  <2>1. UNCHANGED <<worldVars, services, suggest, drafts, stirred>>
    BY <1>7 DEF AuditService
  <2>2. Works'
    BY <1>7, <1>a, <1>b DEF AuditService, Leave
  <2>3. Log'
    <3> DEFINE id     == IF jobs[r].at = "audit" THEN jobs[r].id ELSE NoId
               action == IF jobs[r].at = "audit" THEN "service_create" ELSE "service_delete"
    <3>1. audit' \in {audit, audit \cup {[id |-> id, action |-> action]}}
      BY <1>7 DEF AuditService
    <3>2. id \in Ids \cup {NoId} /\ action \in {"service_create", "service_delete"}
      BY <1>a DEF JobRow
    <3> QED
      BY <1>b, <3>1, <3>2
  <2> QED
    BY <1>b, <2>1, <2>2, <2>3
<1>8. CASE Change
  <2>1. World'
    BY <1>8, <1>b DEF Change
  <2> QED
    BY <1>8, <1>b, <2>1 DEF Change
<1>9. CASE Stop
  <2>1. Works' /\ Plans'
    BY <1>9, <1>a, <1>b DEF Stop, NoSuggest
  <2> QED
    BY <1>9, <1>b, <2>1 DEF Stop
<1>10. CASE UNCHANGED vars
  BY <1>10, <1>b DEF vars
<1> QED
  BY <1>1, <1>2, <1>3, <1>4, <1>5, <1>6, <1>7, <1>8, <1>9, <1>10 DEF Next, Drafting, Registry

(* As long as nothing stirs the registry, what comes of high drafts stays  *)
(* of their kind: the table only grows, and not during a suggestion.       *)
LEMMA SoloStep ==
    ASSUME RegistryInv, [Next]_vars, ~stirred'
    PROVE  HighAreSolo'
<1>0. /\ RegistryShape /\ jobs \in [Request -> JobRow]
      /\ suggest # NoSuggest => suggest.container \in Container
      /\ suggest.seen \subseteq Container
  BY DEF RegistryInv, RegistryShape
<1>1. ~stirred
  BY DEF Next, AccountsNext, Drafting, LookAt, Suggest, Registry, CheckCreate, CreateService,
     DeleteService, AuditService, Change, Stop, worldVars, serviceVars, vars
<1>2. HighAreSolo
  BY <1>1 DEF RegistryInv
<1> DEFINE Grows == \A i \in DOMAIN services : i \in DOMAIN services' /\ services'[i] = services[i]
<1>3. \A i \in DOMAIN services : services[i].asDrafted => Solo(services[i].owns, i)
  BY <1>2 DEF HighAreSolo
<1>4. CASE UNCHANGED serviceVars
  BY <1>2, <1>4 DEF serviceVars, HighAreSolo, Managed, Solo
<1>5. ASSUME NEW c \in Container, LookAt(c) PROVE HighAreSolo'
  <2>1. /\ UNCHANGED <<services, drafts, jobs>>
        /\ suggest'.container = c /\ (~Unlabelled(c) => ~Managed(c))
    BY <1>5 DEF LookAt
  <2>2. \A owns, id : Solo(owns, id) => Solo(owns, id)'
    BY <2>1, SoloStays
  <2>3. ~Unlabelled(c) => ~Managed(c)'
    BY <2>1 DEF Managed
  <2> QED
    BY <1>2, <2>1, <2>2, <2>3 DEF HighAreSolo, Managed, Solo
<1>6. CASE Suggest
  <2> DEFINE c == suggest.container
  <2>1. /\ suggest # NoSuggest /\ suggest' = NoSuggest /\ UNCHANGED <<services, jobs>>
    BY <1>6 DEF Suggest
  <2>2. PICK d \in Drafted(c, DraftId(c), suggest.seen) :
           drafts' = drafts \cup
              {[draft |-> d, grade |-> confidence(d), taken |-> \E o \in d.owns : Managed(o)]}
    BY <1>6 DEF Suggest
  <2>3. ASSUME confidence(d) = "high" PROVE Solo(d.owns, d.id)
    <3>1. c \in Container
      BY <1>0, <2>1
    <3>2. ~Unlabelled(c) /\ d.id = DraftId(c) /\ DraftId(c) # NoId /\ d.owns = {c}
      BY <1>0, <2>3, <3>1, DraftedShape
    <3>3. /\ DraftId(c) \in {ProjectId[c], JoinedId[c]} \ {NoId}
          /\ DraftId(c) # ProjectId[c] /\ ProjectId[c] # NoId => ProjectId[c] \in DOMAIN services
      BY <3>1, <3>2, DraftIdFree
    <3>4. \A i \in DOMAIN services : c \notin services[i].owns
      BY <1>2, <2>1, <3>2 DEF HighAreSolo, Managed
    <3> HIDE DEF c
    <3> QED
      BY <3>1, <3>2, <3>3, <3>4 DEF Solo
  <2>4. \A e \in drafts' : e.grade = "high" => Solo(e.draft.owns, e.draft.id)
    BY <1>2, <2>2, <2>3 DEF HighAreSolo
  <2> QED
    BY <1>2, <2>1, <2>4 DEF HighAreSolo, Solo
<1>7. ASSUME NEW r \in Request, NEW d \in drafts, NEW id \in Ids, NEW asDrafted \in BOOLEAN,
             CheckCreate(r, d, id, asDrafted)
      PROVE  HighAreSolo'
  <2>0. CASE jobs' = jobs
    <3>1. UNCHANGED <<services, suggest, drafts>>
      BY <1>7 DEF CheckCreate
    <3> QED
      BY <1>2, <2>0, <3>1 DEF HighAreSolo, Managed, Solo
  <2> SUFFICES ASSUME jobs' # jobs PROVE HighAreSolo'
    BY <2>0
  <2>1. /\ UNCHANGED <<services, suggest, drafts>>
        /\ \A q \in Request \ {r} : jobs'[q] = jobs[q]
        /\ jobs'[r] = [at |-> "insert", id |-> id, owns |-> d.draft.owns,
                       asDrafted |-> asDrafted /\ d.grade = "high"]
        /\ asDrafted => id = d.draft.id
    BY <1>0, <1>7 DEF CheckCreate
  <2>2. ASSUME jobs'[r].asDrafted PROVE Solo(jobs'[r].owns, jobs'[r].id)
    <3>1. /\ jobs'[r].id = id /\ jobs'[r].owns = d.draft.owns
          /\ jobs'[r].asDrafted = (asDrafted /\ d.grade = "high")
      BY <2>1
    <3>2. asDrafted /\ d.grade = "high"
      BY <2>2, <3>1
    <3>3. Solo(d.draft.owns, d.draft.id)
      BY <1>2, <3>2 DEF HighAreSolo
    <3> QED
      BY <2>1, <3>1, <3>2, <3>3
  <2>3. \A q \in Request : jobs'[q].at = "insert" /\ jobs'[q].asDrafted =>
                              Solo(jobs'[q].owns, jobs'[q].id)
    BY <1>2, <2>1, <2>2 DEF HighAreSolo
  <2> QED
    BY <1>2, <2>1, <2>3 DEF HighAreSolo, Managed, Solo
<1>8. ASSUME NEW r \in Request, CreateService(r) PROVE HighAreSolo'
  <2>1. /\ UNCHANGED <<suggest, drafts>> /\ jobs[r].at = "insert"
        /\ \A q \in Request : jobs'[q] = jobs[q] \/ jobs'[q].at # "insert"
    <3>1. UNCHANGED <<suggest, drafts>> /\ jobs[r].at = "insert"
      BY <1>8 DEF CreateService
    <3>2. \/ jobs' = [jobs EXCEPT ![r].at = "audit"]
          \/ jobs' = [jobs EXCEPT ![r] = NoJob]
      BY <1>8 DEF CreateService, Step, Leave
    <3>3. jobs[r] \in JobRow
      BY <1>0
    <3>4. [jobs[r] EXCEPT !.at = "audit"].at = "audit" /\ NoJob.at = "none"
      BY <3>3 DEF NoJob, JobRow
    <3> QED
      BY <1>0, <3>1, <3>2, <3>4
  <2>2. CASE UNCHANGED services
    BY <1>2, <2>1, <2>2 DEF HighAreSolo, Managed, Solo
  <2>3. CASE /\ jobs[r].id \notin DOMAIN services /\ suggest = NoSuggest
             /\ services' = [i \in DOMAIN services \cup {jobs[r].id} |->
                               IF i = jobs[r].id
                               THEN [owns |-> jobs[r].owns, asDrafted |-> jobs[r].asDrafted]
                               ELSE services[i]]
    <3>1. Grows
      BY <2>3
    <3>2. \A owns, id : Solo(owns, id) => Solo(owns, id)'
      BY <3>1, SoloStays
    <3>3. jobs[r].asDrafted => Solo(jobs[r].owns, jobs[r].id)
      BY <1>2, <2>1 DEF HighAreSolo
    <3>4. ASSUME NEW i \in DOMAIN services', services'[i].asDrafted
          PROVE  Solo(services'[i].owns, i)
      <4>1. CASE i = jobs[r].id
        BY <2>3, <3>3, <3>4, <4>1
      <4>2. CASE i # jobs[r].id
        BY <1>3, <2>3, <3>4, <4>2
      <4> QED
        BY <4>1, <4>2
    <3>5. /\ \A d \in drafts' : d.grade = "high" => Solo(d.draft.owns, d.draft.id)
          /\ \A q \in Request : jobs'[q].at = "insert" /\ jobs'[q].asDrafted =>
                                   Solo(jobs'[q].owns, jobs'[q].id)
      BY <1>2, <2>1 DEF HighAreSolo
    <3>6. \A d \in drafts' : d.grade = "high" => Solo(d.draft.owns, d.draft.id)'
      BY <2>1, <3>2, <3>5
    <3>7. \A q \in Request : jobs'[q].at = "insert" /\ jobs'[q].asDrafted =>
                                Solo(jobs[q].owns, jobs[q].id)'
      BY <3>5, SoloStays, <3>1
    <3>8. \A i \in DOMAIN services' : services'[i].asDrafted => Solo(services[i].owns, i)'
      BY <3>4, SoloStays, <3>1
    <3> QED
      BY <2>1, <2>3, <3>6, <3>7, <3>8 DEF HighAreSolo
  <2> QED
    BY <1>1, <1>8, <2>2, <2>3 DEF CreateService
<1>9. ASSUME NEW r \in Request, AuditService(r) PROVE HighAreSolo'
  <2>1. /\ UNCHANGED <<services, suggest, drafts>>
        /\ \A q \in Request : jobs'[q] = jobs[q] \/ jobs'[q].at # "insert"
    BY <1>0, <1>9 DEF AuditService, Leave, NoJob
  <2> QED
    BY <1>2, <2>1 DEF HighAreSolo, Managed, Solo
<1>10. CASE Change
  BY <1>4, <1>10 DEF Change
<1>11. CASE Stop
  <2>1. /\ UNCHANGED <<services, drafts>> /\ suggest' = NoSuggest
        /\ \A r \in Request : jobs'[r] = NoJob
    BY <1>11 DEF Stop
  <2>2. \A r \in Request : jobs'[r].at # "insert"
    <3>1. NoJob.at = "none"
      BY DEF NoJob
    <3> QED
      BY <2>1, <3>1
  <2> QED
    BY <1>2, <2>1, <2>2 DEF HighAreSolo, Solo
<1>12. ASSUME NEW r \in Request, NEW id \in DOMAIN services, DeleteService(r, id) PROVE FALSE
  BY <1>12 DEF DeleteService
<1> QED
  BY <1>4, <1>5, <1>6, <1>7, <1>8, <1>9, <1>10, <1>11, <1>12
     DEF Next, Drafting, Registry, vars, serviceVars

(* The invariant of the registry of services.                              *)
LEMMA RegistryInvariant == Spec => []RegistryInv
<1>1. Init => RegistryInv
  <2> SUFFICES ASSUME Init PROVE RegistryInv
    OBVIOUS
  <2>1. services = << >> /\ DOMAIN services = {} /\ drafts = {} /\ audit = {} /\ stirred = FALSE
    BY DEF Init
  <2>2. \A r \in Request : jobs[r] = NoJob
    BY DEF Init
  <2>3. jobs \in [Request -> JobRow]
    <3>1. NoJob \in JobRow
      BY DEF NoJob, JobRow, NoId
    <3> QED
      BY <3>1 DEF Init
  <2>4. RegistryShape
    <3>1. /\ running \subseteq Container /\ healthy \subseteq Container
          /\ marked \subseteq Container /\ changes \in 0 .. MaxChanges
      BY OnboardingAssumption DEF Init
    <3>2. \A r \in Request : jobs[r].at = "none"
      <4>1. NoJob.at = "none"
        BY DEF NoJob
      <4> QED
        BY <2>2, <4>1
    <3>3. suggest = NoSuggest /\ suggest.seen = {}
      BY DEF Init, NoSuggest
    <3> QED
      BY <2>1, <2>3, <3>1, <3>2, <3>3 DEF RegistryShape, RegistryTypeOK
  <2>5. HighAreSolo
    BY <2>1, <2>2 DEF Init, HighAreSolo, NoJob
  <2> QED
    BY <2>4, <2>5 DEF RegistryInv
<1>2. AccountsInv /\ RegistryInv /\ [Next]_vars => RegistryInv'
  BY ShapeStep, SoloStep DEF AccountsInv, RegistryInv
<1> QED
  BY <1>1, <1>2, AccountsInvariant, PTL DEF Spec

(* Every variable keeps its type: the accounts, the requests, and the rows *)
(* of services, which only ever have the ids the labels give.              *)
THEOREM OnboardingTypeCorrect == Spec => [](AccountsTypeOK /\ RegistryTypeOK)
<1>1. AccountsInv /\ RegistryInv => AccountsTypeOK /\ RegistryTypeOK
  BY DEF AccountsInv, RegistryInv, RegistryShape
<1> QED
  BY <1>1, AccountsInvariant, RegistryInvariant, PTL

(* Two services made of high drafts as they were never own the same        *)
(* container, for any set of containers and labels.                        *)
THEOREM HighDraftsAreExclusive == Spec => []HighDraftsOwnAlone
<1>1. RegistryInv => HighDraftsOwnAlone
  <2> SUFFICES ASSUME RegistryInv, ~stirred,
                      NEW i \in DOMAIN services, services[i].asDrafted,
                      NEW j \in DOMAIN services, services[j].asDrafted,
                      i # j, NEW o, o \in services[i].owns, o \in services[j].owns
               PROVE  FALSE
    BY DEF HighDraftsOwnAlone
  <2>1. Solo(services[i].owns, i) /\ Solo(services[j].owns, j)
    BY DEF RegistryInv, HighAreSolo
  <2> QED
    BY <2>1 DEF Solo
<1> QED
  BY <1>1, RegistryInvariant, PTL
=============================================================================
