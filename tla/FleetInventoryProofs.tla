------------------------ MODULE FleetInventoryProofs ------------------------
(***************************************************************************)
(* No running container is taken for a removed one, one current row has a  *)
(* name, and only what is gone and overdue is reported missing, for any    *)
(* number of containers, changes and failures.                             *)
(*                                                                         *)
(* None is inductive: a pass writes what it listed some steps ago.  The    *)
(* invariant says what the list proves while docker goes on changing: a    *)
(* container with a row that the pass has not listed is removed for good,  *)
(* and the listed names differ.  MissingInv follows a missing container    *)
(* from its row to the candidates and to the alert.                        *)
(***************************************************************************)
EXTENDS FleetInventory, TLAPS

Table == [Container -> Row]

(* The statements of ContainerStore.Reconcile map tables to tables.        *)
LEMMA MarkAbsentTable ==
    ASSUME NEW table \in Table, at \in Nat
    PROVE  /\ MarkAbsent(table) \in Table
           /\ \A c \in Container :
                 /\ MarkAbsent(table)[c].name = table[c].name
                 /\ MarkAbsent(table)[c].class = table[c].class
                 /\ MarkAbsent(table)[c].current = table[c].current
BY DEF MarkAbsent, Table, Row

(* Promotion changes the class of rows that have one.                      *)
LEMMA PromoteMissingTable ==
    ASSUME NEW table \in Table
    PROVE  /\ PromoteMissing(table) \in Table
           /\ \A c \in Container :
                 /\ PromoteMissing(table)[c].name = table[c].name
                 /\ PromoteMissing(table)[c].class = Untracked <=> table[c].class = Untracked
                 /\ PromoteMissing(table)[c].current = table[c].current
BY DEF PromoteMissing, Table, Row, Class, Expected, Untracked

(* A retired row keeps its name and class and is not current.              *)
LEMMA RetiredRow ==
    ASSUME NEW row \in Row, at \in Nat
    PROVE  /\ Retired(row) \in Row
           /\ Retired(row).name = row.name /\ Retired(row).class = row.class
           /\ Retired(row).current = FALSE
BY DEF Retired, Row

(* Retirement of the observed containers that are not seen.                *)
LEMMA RetireUnseenTable ==
    ASSUME NEW table \in Table, at \in Nat
    PROVE  /\ RetireUnseen(table) \in Table
           /\ \A c \in Container :
                 /\ RetireUnseen(table)[c].name = table[c].name
                 /\ RetireUnseen(table)[c].class = table[c].class
                 /\ RetireUnseen(table)[c].current => table[c].current
BY RetiredRow DEF RetireUnseen, Table

(* Whatever stays current outside the batch has a name the batch has not.  *)
LEMMA RetireReusedNamesTable ==
    ASSUME NEW table \in Table, at \in Nat
    PROVE  /\ RetireReusedNames(table) \in Table
           /\ \A c \in Container :
                 /\ RetireReusedNames(table)[c].name = table[c].name
                 /\ RetireReusedNames(table)[c].class = table[c].class
                 /\ RetireReusedNames(table)[c].current =>
                       /\ table[c].current
                       /\ c \in Batch \/ \A d \in Batch : found[d].name # table[c].name
                 /\ Batch = {} => RetireReusedNames(table)[c] = table[c]
BY RetiredRow DEF RetireReusedNames, Table

(* The upsert writes the rows of the batch and no other.                   *)
LEMMA UpsertBatchTable ==
    ASSUME NEW table \in Table, at \in Nat, found \in [Container -> Entry]
    PROVE  /\ UpsertBatch(table) \in Table
           /\ \A c \in Container :
                 IF c \in Batch
                 THEN /\ UpsertBatch(table)[c].current /\ UpsertBatch(table)[c].present
                      /\ UpsertBatch(table)[c].name = found[c].name
                 ELSE UpsertBatch(table)[c] = table[c]
<1>1. NotAbsent \in Nat
  BY ConstantsAssumption DEF NotAbsent
<1> QED
  BY <1>1 DEF UpsertBatch, Table, Row, Entry

(* A replaced row is retired, and was not present.                         *)
LEMMA RetireReplacedTable ==
    ASSUME NEW table \in Table
    PROVE  /\ RetireReplaced(table) \in Table
           /\ \A c \in Container :
                 /\ RetireReplaced(table)[c].name = table[c].name
                 /\ RetireReplaced(table)[c].class = table[c].class
                 /\ RetireReplaced(table)[c].present = table[c].present
                 /\ RetireReplaced(table)[c].current => table[c].current
                 /\ table[c].present => RetireReplaced(table)[c] = table[c]
BY DEF RetireReplaced, MissingRow, Table, Row

(* What a reconciliation does to the row of a container: one of the batch  *)
(* becomes current and present under the name it was listed with; another  *)
(* keeps its name, and stays current only if the batch does not use it; an *)
(* empty, incomplete batch changes nothing.                                *)
LEMMA ReconciledTable ==
    ASSUME rows \in Table, at \in Nat, found \in [Container -> Entry], NEW complete \in BOOLEAN
    PROVE  /\ Reconciled(complete) \in Table
           /\ \A c \in Batch : /\ Reconciled(complete)[c].present
                               /\ Reconciled(complete)[c].name = found[c].name
           /\ \A c \in Container \ Batch :
                 /\ Reconciled(complete)[c].name = rows[c].name
                 /\ Reconciled(complete)[c].class = Untracked <=> rows[c].class = Untracked
                 /\ Reconciled(complete)[c].current =>
                       rows[c].current /\ \A d \in Batch : found[d].name # rows[c].name
                 /\ ~complete /\ Batch = {} => Reconciled(complete)[c] = rows[c]
<1> DEFINE marked == PromoteMissing(MarkAbsent(rows))
           unseen == RetireUnseen(marked)
           reused == RetireReusedNames(unseen)
           full   == UpsertBatch(reused)
           part   == RetireReusedNames(rows)
<1>1. MarkAbsent(rows) \in Table /\ marked \in Table /\ unseen \in Table
  BY MarkAbsentTable, PromoteMissingTable, RetireUnseenTable
<1>2. \A c \in Container : /\ unseen[c].name = rows[c].name
                           /\ unseen[c].class = Untracked <=> rows[c].class = Untracked
                           /\ unseen[c].current => rows[c].current
  <2>1. \A c \in Container : /\ marked[c].name = rows[c].name
                             /\ marked[c].class = Untracked <=> rows[c].class = Untracked
                             /\ marked[c].current = rows[c].current
    BY <1>1, MarkAbsentTable, PromoteMissingTable
  <2> HIDE DEF marked
  <2> QED
    BY <1>1, <2>1, RetireUnseenTable
<1> HIDE DEF unseen
<1>3. CASE complete
  <2>1. reused \in Table /\ full \in Table
    BY <1>1, RetireReusedNamesTable, UpsertBatchTable
  <2>2. \A c \in Container :
           /\ reused[c].name = rows[c].name
           /\ reused[c].class = Untracked <=> rows[c].class = Untracked
           /\ reused[c].current => /\ rows[c].current
                                   /\ c \in Batch \/ \A d \in Batch : found[d].name # rows[c].name
    BY <1>1, <1>2, RetireReusedNamesTable
  <2> HIDE DEF reused
  <2>3. \A c \in Container :
           IF c \in Batch THEN full[c].current /\ full[c].present /\ full[c].name = found[c].name
           ELSE full[c] = reused[c]
    BY <2>1, UpsertBatchTable
  <2>4. Reconciled(complete) = RetireReplaced(full)
    BY <1>3 DEF Reconciled, full, reused, unseen, marked
  <2>5. Batch \subseteq Container
    BY DEF Batch
  <2> HIDE DEF full
  <2>6. /\ RetireReplaced(full) \in Table
        /\ \A c \in Container :
              /\ RetireReplaced(full)[c].name = full[c].name
              /\ RetireReplaced(full)[c].class = full[c].class
              /\ RetireReplaced(full)[c].current => full[c].current
              /\ full[c].present => RetireReplaced(full)[c] = full[c]
    BY <2>1, RetireReplacedTable
  <2>7. \A c \in Batch : RetireReplaced(full)[c].present /\ RetireReplaced(full)[c].name = found[c].name
    BY <2>3, <2>5, <2>6
  <2>8. ASSUME NEW c \in Container \ Batch
        PROVE  /\ RetireReplaced(full)[c].name = rows[c].name
               /\ RetireReplaced(full)[c].class = Untracked <=> rows[c].class = Untracked
               /\ RetireReplaced(full)[c].current =>
                     rows[c].current /\ \A d \in Batch : found[d].name # rows[c].name
    <3>1. full[c] = reused[c]
      BY <2>3
    <3> QED
      BY <2>2, <2>6, <3>1
  <2> QED
    BY <1>3, <2>4, <2>6, <2>7, <2>8
<1>4. CASE ~complete
  <2>1. part \in Table
    BY RetireReusedNamesTable
  <2>2. Reconciled(complete) = UpsertBatch(part)
    BY <1>4 DEF Reconciled
  <2>3. \A c \in Container :
           /\ part[c].name = rows[c].name /\ part[c].class = rows[c].class
           /\ part[c].current => /\ rows[c].current
                                 /\ c \in Batch \/ \A d \in Batch : found[d].name # rows[c].name
           /\ Batch = {} => part[c] = rows[c]
    BY RetireReusedNamesTable
  <2> HIDE DEF part
  <2>4. /\ UpsertBatch(part) \in Table
        /\ \A c \in Container :
              IF c \in Batch THEN /\ UpsertBatch(part)[c].present
                                  /\ UpsertBatch(part)[c].name = found[c].name
              ELSE UpsertBatch(part)[c] = part[c]
    BY <2>1, UpsertBatchTable
  <2>5. Batch \subseteq Container
    BY DEF Batch
  <2> QED
    BY <1>4, <2>2, <2>3, <2>4, <2>5
<1> QED
  BY <1>3, <1>4

----------------------------------------------------------------------------
(* A name there is, once there is a container.                             *)
LEMMA SomeNameExists ==
    ASSUME NEW c \in Container
    PROVE  SomeName \in Name
<1>1. FirstName[c] \in Name
  BY ConstantsAssumption
<1> QED
  BY <1>1 DEF SomeName

(* Nothing found is of the type of what is found.                          *)
LEMMA NothingFoundType == NothingFound \in [Container -> Entry]
<1>1. \A c \in Container : Unlisted \in Entry
  BY SomeNameExists DEF Unlisted, Entry, Untracked
<1> QED
  BY <1>1 DEF NothingFound

(* A classification is one of the four that need no missing container.     *)
LEMMA ClassifiedType ==
    ASSUME NEW c, NEW service, NEW print, NEW t
    PROVE  Classified(c, service, print, t) \in Class
BY DEF Classified, Class

(* An inspection fills in the fields of an entry.                          *)
LEMMA InspectedType ==
    ASSUME NEW entry \in Entry, NEW conf \in Conf
    PROVE  Inspected(entry, conf) \in Entry
<1>1. entry.print \in Fingerprint \cup {NoFingerprint}
  BY DEF Entry
<1>2. entry.print.ports \in BOOLEAN
  <2>1. CASE entry.print \in Fingerprint
    BY <2>1 DEF Fingerprint
  <2>2. CASE entry.print = NoFingerprint
    BY <2>2 DEF NoFingerprint
  <2> QED
    BY <1>1, <2>1, <2>2
<1>3. [conf |-> conf, ports |-> entry.print.ports] \in Fingerprint
  BY <1>2 DEF Fingerprint
<1> QED
  BY <1>3 DEF Inspected, Entry

(* The type invariant holds initially.                                     *)
LEMMA TypeInit == Init => TypeOK
<1> SUFFICES ASSUME Init PROVE TypeOK
  OBVIOUS
<1>1. rows \in [Container -> Row]
  <2>1. NotAbsent \in Nat
    BY ConstantsAssumption DEF NotAbsent
  <2>2. \A c \in Container : NoRow \in Row
    BY <2>1, SomeNameExists DEF NoRow, Row
  <2> QED
    BY <2>2 DEF Init
<1>2. world \in [Container -> [state : {"none", "running", "stopped", "removed"},
                               name : Name, conf : {"a", "b"}]]
  BY ConstantsAssumption DEF Init
<1>3. ignores \in [Container -> 0 .. Forever]
  BY ConstantsAssumption DEF Init, Forever
<1> QED
  BY <1>1, <1>2, <1>3, NothingFoundType DEF Init, TypeOK

(* One step of each action keeps the types.                                *)
LEMMA TypeStep == TypeOK /\ [Next]_vars => TypeOK'
<1> SUFFICES ASSUME TypeOK, [Next]_vars PROVE TypeOK'
  OBVIOUS
<1>t. /\ rows \in Table /\ at \in Nat /\ found \in [Container -> Entry]
      /\ changes \in Nat /\ ops \in Nat /\ faults \in Nat /\ now \in Nat
  BY DEF TypeOK, Table
<1>r. Reconciled(TRUE) \in [Container -> Row] /\ Reconciled(FALSE) \in [Container -> Row]
  BY <1>t, ReconciledTable DEF Table
<1>1. CASE StartPass
  BY <1>1 DEF StartPass, Pass, TypeOK, docker, decided
<1>2. CASE ListAll
  <2>1. found' \in [Container -> Entry]
    <3>1. ASSUME NEW c \in Container
          PROVE  [Unlisted EXCEPT !.step = "listed", !.name = world[c].name,
                                  !.print = [conf |-> "blank", ports |-> Ports(c)]] \in Entry
      <4>1. world[c].name \in Name /\ Ports(c) \in BOOLEAN
        BY DEF TypeOK, Ports
      <4> QED
        BY <4>1 DEF Unlisted, Entry, Untracked, Fingerprint, Conf
    <3>2. \A c \in Container : Unlisted \in Entry
      BY SomeNameExists DEF Unlisted, Entry, Untracked
    <3> QED
      BY <1>2, <3>1, <3>2 DEF ListAll
  <2> QED
    BY <1>2, <2>1 DEF ListAll, Pass, TypeOK, docker, decided
<1>3. CASE ListFails
  <2>1. rows' = Reconciled(FALSE) /\ faults' = faults + 1
    BY <1>3 DEF ListFails
  <2>2. rows' \in [Container -> Row]
    BY <1>r, <2>1, Zenon
  <2>3. faults' \in Nat
    BY <1>t, <2>1
  <2> QED
    BY <1>3, <2>2, <2>3 DEF ListFails, EndPass, TypeOK, docker, decided
<1>4. CASE LoadOwners
  <2>1. ASSUME NEW c \in Container, ServiceOf[c] \in services
        PROVE  [found[c] EXCEPT !.service = ServiceOf[c]] \in Entry
    <3>1. ServiceOf[c] \in Service
      BY <2>1 DEF TypeOK
    <3>2. found[c] \in Entry
      BY <1>t
    <3> QED
      BY <3>1, <3>2 DEF Entry
  <2>2. found' \in [Container -> Entry]
    BY <1>4, <1>t, <2>1 DEF LoadOwners
  <2> QED
    BY <1>4, <2>2 DEF LoadOwners, Pass, TypeOK, docker, decided
<1>5. ASSUME NEW c \in Container, NEW entry \in Entry, Learn(c, entry), faults' \in Nat
      PROVE  TypeOK'
  <2>1. found' \in [Container -> Entry]
    BY <1>5, <1>t DEF Learn
  <2> QED
    BY <1>5, <2>1 DEF Learn, TypeOK, docker, decided
<1>6. ASSUME NEW c \in Container, Inspect(c) PROVE TypeOK'
  <2>1. found[c] \in Entry /\ world[c].conf \in Conf
    BY <1>t DEF TypeOK, Conf
  <2>2. Inspected(found[c], world[c].conf) \in Entry /\ Unlisted \in Entry
    BY <2>1, InspectedType, SomeNameExists DEF Unlisted, Entry, Untracked
  <2>3. Learn(c, Inspected(found[c], world[c].conf)) \/ Learn(c, Unlisted)
    BY <1>6 DEF Inspect
  <2>4. faults' \in Nat
    BY <1>6, <1>t DEF Inspect
  <2> QED
    BY <1>5, <2>2, <2>3, <2>4
<1>7. ASSUME NEW c \in Container, InspectFails(c) PROVE TypeOK'
  <2>1. found[c] \in Entry
    BY <1>t
  <2>2. PICK conf \in Conf : Learn(c, Inspected(found[c], conf))
    BY <1>7 DEF InspectFails, Conf
  <2>3. Inspected(found[c], conf) \in Entry
    BY <2>1, InspectedType
  <2>4. faults' \in Nat
    BY <1>7, <1>t DEF InspectFails
  <2> QED
    BY <1>5, <2>2, <2>3, <2>4
<1>8. ASSUME NEW c \in Container, Classify(c) PROVE TypeOK'
  <2>1. found[c] \in Entry
    BY <1>t
  <2> DEFINE class == Classified(c, found[c].service, found[c].print, at)
  <2>2. class \in Class
    BY ClassifiedType
  <2> HIDE DEF class
  <2>3. [found[c] EXCEPT !.step = "classified", !.class = class] \in Entry
    BY <2>1, <2>2 DEF Entry
  <2> QED
    BY <1>5, <1>8, <1>t, <2>3 DEF Classify, class
<1>9. CASE Persist
  BY <1>9, <1>r, NothingFoundType DEF Persist, Pass, TypeOK, docker, decided
<1>10. CASE ReadCandidates
  <2>1. \A c \in Container : rows[c].class \in Class \cup {Untracked}
    BY <1>t DEF Table, Row
  <2>2. pending' \subseteq Container \X (Class \cup {Untracked, "retired"})
    BY <1>10, <2>1 DEF ReadCandidates, Candidates
  <2> QED
    BY <1>10, <2>2 DEF ReadCandidates, EndPass, TypeOK, docker, decided
<1>11. CASE EvaluateNext
  <2>1. PICK p \in pending :
           /\ alerts' = [r \in Rule |-> IF p[2] = Alarming(r) THEN alerts[r] \cup {p[1]}
                                                              ELSE alerts[r] \ {p[1]}]
           /\ pending' = pending \ {p}
    BY <1>11 DEF EvaluateNext
  <2>2. p[1] \in Container
    BY DEF TypeOK
  <2>3. alerts' \in [Rule -> SUBSET Container]
    BY <2>1, <2>2 DEF TypeOK
  <2> QED
    BY <1>11, <2>1, <2>3 DEF EvaluateNext, EndPass, TypeOK, docker, decided
<1>12. CASE PassFails
  BY <1>12, <1>t, NothingFoundType DEF PassFails, Abandon, EndPass, TypeOK, docker, decided
<1>13. CASE Restart
  BY <1>13, <1>t, NothingFoundType DEF Restart, Abandon, EndPass, TypeOK, docker
<1>14. ASSUME NEW c \in Container, ReadForApproval(c) PROVE TypeOK'
  <2>1. rows[c].print \in Fingerprint \cup {NoFingerprint}
    BY <1>t DEF Table, Row
  <2>2. approving' \in [Container -> Fingerprint \cup {NoFingerprint}]
    BY <1>14, <2>1 DEF ReadForApproval, TypeOK
  <2> QED
    BY <1>14, <2>2 DEF ReadForApproval, TypeOK, docker, pass
<1>15. ASSUME NEW c \in Container, NEW class \in Class PROVE [rows[c] EXCEPT !.class = class] \in Row
  BY <1>t DEF Table, Row
<1>16. ASSUME NEW c \in Container, Approve(c) PROVE TypeOK'
  <2>1. rows' \in [Container -> Row]
    BY <1>15, <1>16, <1>t DEF Approve, Table, Class
  <2>2. /\ ignores' \in [Container -> 0 .. Forever]
        /\ baselines' \in [Container -> Fingerprint \cup {NoFingerprint}]
        /\ approving' \in [Container -> Fingerprint \cup {NoFingerprint}]
    BY <1>16, ConstantsAssumption DEF Approve, TypeOK, Forever
  <2> QED
    BY <1>16, <2>1, <2>2 DEF Approve, TypeOK, docker, pass
<1>17. ASSUME NEW c \in Container, Ignore(c) PROVE TypeOK'
  <2>1. rows' \in [Container -> Row]
    BY <1>15, <1>17, <1>t DEF Ignore, Table, Class
  <2>2. ignores' \in [Container -> 0 .. Forever]
    BY <1>17, <1>t, ConstantsAssumption DEF Ignore, TypeOK, Forever
  <2> QED
    BY <1>17, <2>1, <2>2 DEF Ignore, TypeOK, docker, pass
<1>18. ASSUME NEW c \in Container, NEW from,
              NEW container \in [state : {"none", "running", "stopped", "removed"},
                                 name : Name, conf : {"a", "b"}],
              Becomes(c, from, container)
       PROVE  TypeOK'
  <2>1. world' \in [Container -> [state : {"none", "running", "stopped", "removed"},
                                  name : Name, conf : {"a", "b"}]]
    BY <1>18 DEF Becomes, TypeOK
  <2> QED
    BY <1>18, <2>1 DEF Becomes, Change, TypeOK, decided, pass
<1>19. ASSUME NEW c \in Container, Create(c) PROVE TypeOK'
  BY <1>18, <1>19 DEF Create
<1>20. ASSUME NEW c \in Container,
              Stop(c) \/ Start(c) \/ Remove(c) \/ Rename(c) \/ NewLimits(c)
       PROVE  TypeOK'
  <2>1. world[c] \in [state : {"none", "running", "stopped", "removed"}, name : Name, conf : {"a", "b"}]
    BY DEF TypeOK
  <2>2. CASE Stop(c)
    BY <1>18, <2>1, <2>2 DEF Stop
  <2>3. CASE Start(c)
    BY <1>18, <2>1, <2>3 DEF Start
  <2>4. CASE Remove(c)
    BY <1>18, <2>1, <2>4 DEF Remove
  <2>5. CASE Rename(c)
    BY <1>18, <2>1, <2>5 DEF Rename
  <2>6. CASE NewLimits(c)
    BY <1>18, <2>1, <2>6 DEF NewLimits
  <2> QED
    BY <1>20, <2>2, <2>3, <2>4, <2>5, <2>6
<1>21. ASSUME NEW s \in Service, Register(s) PROVE TypeOK'
  BY <1>21 DEF Register, Change, TypeOK, decided, pass
<1>22. CASE Tick
  BY <1>22 DEF Tick, TypeOK, docker, decided, pass
<1>23. CASE UNCHANGED vars
  BY <1>23 DEF vars, TypeOK, docker, decided, pass
<1> QED
  BY <1>1, <1>2, <1>3, <1>4, <1>6, <1>7, <1>8, <1>9, <1>10, <1>11, <1>12, <1>13, <1>14,
     <1>16, <1>17, <1>19, <1>20, <1>21, <1>22, <1>23 DEF Next, Reconcile

(* Type correctness of the inventory: its rows, decisions, alerts and pass *)
(* stay what they are declared to be.                                      *)
THEOREM InventoryTypeCorrect == Spec => []TypeOK
BY TypeInit, TypeStep, PTL DEF Spec

----------------------------------------------------------------------------
(* What the list proves while docker goes on changing.                     *)

NamesDiffer == \A c, d \in Live : c # d => world[c].name # world[d].name

RowsExisted  == \A c \in Container : rows[c].class # Untracked => world[c].state # "none"
FoundExisted == \A c \in Container : found[c].step # "unlisted" => world[c].state # "none"

FoundNamesDiffer ==
    \A c, d \in Container :
        c # d /\ found[c].step # "unlisted" /\ found[d].step # "unlisted"
        => found[c].name # found[d].name

FoundInPass == stage \notin {"owners", "inspect"} => found = NothingFound

ListProves ==
    stage \in {"owners", "inspect"} =>
        \A c \in Container :
            rows[c].class # Untracked /\ found[c].step = "unlisted" => world[c].state = "removed"

ListInv ==
    /\ NamesDiffer /\ RowsExisted /\ FoundExisted
    /\ FoundNamesDiffer /\ FoundInPass /\ ListProves

InventoryInv == TypeOK /\ ListInv /\ AbsentIsGone /\ OneCurrentName

(* In docker nothing comes back from being removed, nothing that was       *)
(* created was never there, and names stay unique.                         *)
LEMMA WorldStep ==
    ASSUME TypeOK, NamesDiffer, NEW c \in Container,
           Create(c) \/ Stop(c) \/ Start(c) \/ Remove(c) \/ Rename(c) \/ NewLimits(c)
    PROVE  /\ \A d \in Container : world[d].state # "none" => world'[d].state # "none"
           /\ \A d \in Container : world[d].state = "removed" => world'[d].state = "removed"
           /\ NamesDiffer'
           /\ UNCHANGED <<rows, found, stage>>
<1> DEFINE Goal == /\ \A d \in Container : world[d].state # "none" => world'[d].state # "none"
                   /\ \A d \in Container : world[d].state = "removed" => world'[d].state = "removed"
                   /\ NamesDiffer'
                   /\ UNCHANGED <<rows, found, stage>>
<1> SUFFICES Goal
  OBVIOUS
<1>1. ASSUME NEW from, NEW new, Becomes(c, from, new), "removed" \notin from,
             new.state \in {"running", "stopped", "removed"},
             (c \in Live /\ new.name = world[c].name) \/ Free(new.name)
      PROVE  Goal
  <2>1. world' = [world EXCEPT ![c] = new] /\ world[c].state # "removed"
    BY <1>1 DEF Becomes
  <2>2. \A d \in Container : world'[d] = IF d = c THEN new ELSE world[d]
    BY <2>1 DEF TypeOK
  <2>3. NamesDiffer'
    <3>1. Live' \subseteq Live \cup {c}
      BY <2>2 DEF Live
    <3>2. \A d \in Live : d # c => world[d].name # new.name
      BY <1>1 DEF NamesDiffer, Free
    <3> QED
      BY <2>2, <3>1, <3>2 DEF NamesDiffer, Live
  <2>4. UNCHANGED <<rows, found, stage>>
    BY <1>1 DEF Becomes, Change, pass
  <2> QED
    BY <1>1, <2>1, <2>2, <2>3, <2>4
<1> HIDE DEF Goal
<1>2. world[c] \in [state : {"none", "running", "stopped", "removed"}, name : Name, conf : {"a", "b"}]
  BY DEF TypeOK
<1>3. ASSUME NEW from, NEW new, Becomes(c, from, new), from \subseteq {"running", "stopped"}
      PROVE  c \in Live
  BY <1>3 DEF Becomes, Live
<1>4. CASE Create(c)
  <2>1. PICK n \in Name : Free(n) /\ Becomes(c, {"none"}, [state |-> "running", name |-> n, conf |-> "a"])
    BY <1>4 DEF Create
  <2> QED
    BY <1>1, <2>1
<1>5. CASE Stop(c)
  <2> DEFINE new == [world[c] EXCEPT !.state = "stopped"]
  <2>1. new.state = "stopped" /\ new.name = world[c].name
    BY <1>2
  <2>2. Becomes(c, {"running"}, new)
    BY <1>5 DEF Stop
  <2> HIDE DEF new
  <2> QED
    BY <1>1, <1>3, <2>1, <2>2
<1>6. CASE Start(c)
  <2> DEFINE new == [world[c] EXCEPT !.state = "running"]
  <2>1. new.state = "running" /\ new.name = world[c].name
    BY <1>2
  <2>2. Becomes(c, {"stopped"}, new)
    BY <1>6 DEF Start
  <2> HIDE DEF new
  <2> QED
    BY <1>1, <1>3, <2>1, <2>2
<1>7. CASE Remove(c)
  <2> DEFINE new == [world[c] EXCEPT !.state = "removed"]
  <2>1. new.state = "removed" /\ new.name = world[c].name
    BY <1>2
  <2>2. Becomes(c, {"running", "stopped"}, new)
    BY <1>7 DEF Remove
  <2> HIDE DEF new
  <2> QED
    BY <1>1, <1>3, <2>1, <2>2
<1>8. CASE Rename(c)
  <2>1. PICK n \in Name : Free(n) /\ Becomes(c, {"running", "stopped"}, [world[c] EXCEPT !.name = n])
    BY <1>8 DEF Rename
  <2> DEFINE new == [world[c] EXCEPT !.name = n]
  <2>2. new.state = world[c].state /\ new.name = n
    BY <1>2
  <2>3. world[c].state \in {"running", "stopped"} /\ Becomes(c, {"running", "stopped"}, new)
    BY <2>1 DEF Becomes
  <2> HIDE DEF new
  <2> QED
    BY <1>1, <2>1, <2>2, <2>3
<1>9. CASE NewLimits(c)
  <2> DEFINE new == [world[c] EXCEPT !.conf = IF @ = "a" THEN "b" ELSE "a"]
  <2>1. new.state = world[c].state /\ new.name = world[c].name
    BY <1>2
  <2>2. Becomes(c, {"running", "stopped"}, new)
    BY <1>9 DEF NewLimits
  <2>3. world[c].state \in {"running", "stopped"}
    BY <2>2 DEF Becomes
  <2> HIDE DEF new
  <2> QED
    BY <1>1, <1>3, <2>1, <2>2, <2>3
<1> QED
  BY <1>4, <1>5, <1>6, <1>7, <1>8, <1>9

(* Initially nothing is tracked, and docker's names differ.                *)
LEMMA InventoryInit == Init => InventoryInv
<1> SUFFICES ASSUME Init PROVE InventoryInv
  OBVIOUS
<1>1. TypeOK
  BY TypeInit
<1>2. NamesDiffer
  BY ConstantsAssumption DEF Init, NamesDiffer, Live
<1>3. \A c \in Container : rows[c] = NoRow /\ found[c] = Unlisted
  BY DEF Init, NothingFound
<1>4. RowsExisted /\ FoundExisted /\ FoundNamesDiffer /\ AbsentIsGone /\ OneCurrentName
  BY <1>3 DEF RowsExisted, FoundExisted, FoundNamesDiffer, AbsentIsGone, OneCurrentName, NoRow,
              Unlisted
<1>5. FoundInPass /\ ListProves
  BY DEF Init, FoundInPass, ListProves
<1> QED
  BY <1>1, <1>2, <1>4, <1>5 DEF InventoryInv, ListInv

(* A reconciled table is sound if the batch has different names and the    *)
(* containers outside it that have a row are removed, or none is in it and *)
(* it is not complete.                                                     *)
LEMMA ReconciledSound ==
    ASSUME TypeOK, RowsExisted, FoundExisted, FoundNamesDiffer, AbsentIsGone, OneCurrentName,
           NEW complete \in BOOLEAN, rows' = Reconciled(complete), world' = world,
           \/ complete /\ \A c \in Container \ Batch : rows[c].class # Untracked
                                                        => world[c].state = "removed"
           \/ ~complete /\ Batch = {}
    PROVE  RowsExisted' /\ AbsentIsGone' /\ OneCurrentName'
<1>t. rows \in Table /\ at \in Nat /\ found \in [Container -> Entry]
  BY DEF TypeOK, Table
<1>1. /\ \A c \in Batch : rows'[c].present /\ rows'[c].name = found[c].name
      /\ \A c \in Container \ Batch :
            /\ rows'[c].name = rows[c].name
            /\ rows'[c].class = Untracked <=> rows[c].class = Untracked
            /\ rows'[c].current =>
                  rows[c].current /\ \A d \in Batch : found[d].name # rows[c].name
            /\ ~complete /\ Batch = {} => rows'[c] = rows[c]
  BY <1>t, ReconciledTable
<1>2. \A c \in Batch : c \in Container /\ found[c].step # "unlisted"
  BY DEF Batch
<1>3. RowsExisted'
  BY <1>1, <1>2 DEF RowsExisted, FoundExisted
<1>4. AbsentIsGone'
  BY <1>1, <1>2 DEF AbsentIsGone
<1>5. OneCurrentName'
  <2> SUFFICES ASSUME NEW c \in Container, NEW d \in Container, c # d,
                      rows'[c].current, rows'[d].current
               PROVE  rows'[c].name # rows'[d].name
    BY DEF OneCurrentName
  <2>1. CASE c \in Batch /\ d \in Batch
    BY <1>1, <1>2, <2>1 DEF FoundNamesDiffer
  <2>2. CASE c \in Batch /\ d \notin Batch
    BY <1>1, <2>2
  <2>3. CASE c \notin Batch /\ d \in Batch
    BY <1>1, <2>3
  <2>4. CASE c \notin Batch /\ d \notin Batch
    BY <1>1, <2>4 DEF OneCurrentName
  <2> QED
    BY <2>1, <2>2, <2>3, <2>4
<1> QED
  BY <1>3, <1>4, <1>5

(* One step of each action keeps the invariant.                            *)
LEMMA InventoryStep == InventoryInv /\ [Next]_vars => InventoryInv'
<1> SUFFICES ASSUME InventoryInv, [Next]_vars PROVE InventoryInv'
  OBVIOUS
<1>t. TypeOK'
  BY TypeStep DEF InventoryInv
<1>i. /\ TypeOK /\ NamesDiffer /\ RowsExisted /\ FoundExisted /\ FoundNamesDiffer
      /\ FoundInPass /\ ListProves /\ AbsentIsGone /\ OneCurrentName
  BY DEF InventoryInv, ListInv
<1>g. ASSUME NamesDiffer', RowsExisted', FoundExisted', FoundNamesDiffer', FoundInPass',
             ListProves', AbsentIsGone', OneCurrentName'
      PROVE  InventoryInv'
  BY <1>t, <1>g DEF InventoryInv, ListInv
<1> USE <1>i
<1>n. \A c \in Container : NothingFound[c].step = "unlisted"
  BY DEF NothingFound, Unlisted
<1>a. CASE /\ UNCHANGED <<world, rows, found>>
           /\ (stage' = stage \/ {stage, stage'} \cap {"owners", "inspect"} = {})
  BY <1>a, <1>g DEF NamesDiffer, Live, RowsExisted, FoundExisted, FoundNamesDiffer, FoundInPass,
                    ListProves, AbsentIsGone, OneCurrentName
<1>1. CASE StartPass \/ ReadCandidates \/ EvaluateNext \/ Tick \/ UNCHANGED vars
  <2>1. UNCHANGED <<world, rows, found>>
    BY <1>1 DEF StartPass, ReadCandidates, EvaluateNext, Tick, vars, docker, pass
  <2>2. stage' = stage \/ {stage, stage'} \cap {"owners", "inspect"} = {}
    <3>1. CASE StartPass
      BY <3>1 DEF StartPass, Pass
    <3>2. CASE ReadCandidates
      BY <3>2 DEF ReadCandidates, EndPass
    <3>3. CASE EvaluateNext
      BY <3>3 DEF EvaluateNext, EndPass
    <3>4. CASE Tick \/ UNCHANGED vars
      BY <3>4 DEF Tick, vars, pass
    <3> QED
      BY <1>1, <3>1, <3>2, <3>3, <3>4
  <2> QED
    BY <1>a, <2>1, <2>2
<1>2. CASE ListAll
  <2>1. UNCHANGED <<world, rows>> /\ stage' = "owners"
    BY <1>2 DEF ListAll, docker, Pass
  <2>2. \A c \in Container : /\ found'[c].step = IF c \in Live THEN "listed" ELSE "unlisted"
                             /\ c \in Live => found'[c].name = world[c].name
    BY <1>2 DEF ListAll, Unlisted
  <2>3. \A c \in Container : world[c].state \in {"none", "running", "stopped", "removed"}
    BY DEF TypeOK
  <2>4. FoundExisted' /\ FoundNamesDiffer'
    BY <2>1, <2>2 DEF FoundExisted, FoundNamesDiffer, NamesDiffer, Live
  <2>5. ListProves'
    BY <2>1, <2>2, <2>3 DEF ListProves, RowsExisted, Live
  <2>6. NamesDiffer' /\ RowsExisted' /\ FoundInPass' /\ AbsentIsGone' /\ OneCurrentName'
    BY <2>1 DEF NamesDiffer, Live, RowsExisted, FoundInPass, AbsentIsGone, OneCurrentName
  <2> QED
    BY <1>g, <2>4, <2>5, <2>6
<1>3. CASE ListFails
  <2>1. UNCHANGED <<world, found>> /\ stage = "list" /\ stage' = "idle"
    BY <1>3 DEF ListFails, EndPass, docker
  <2>2. found = NothingFound
    BY <2>1 DEF FoundInPass
  <2>3. Batch = {}
    BY <2>2, <1>n DEF Batch
  <2>4. rows' = Reconciled(FALSE)
    BY <1>3 DEF ListFails
  <2>5. RowsExisted' /\ AbsentIsGone' /\ OneCurrentName'
    BY <2>1, <2>3, <2>4, ReconciledSound
  <2>6. NamesDiffer' /\ FoundExisted' /\ FoundNamesDiffer' /\ FoundInPass' /\ ListProves'
    BY <2>1, <2>2 DEF NamesDiffer, Live, FoundExisted, FoundNamesDiffer, FoundInPass, ListProves
  <2> QED
    BY <1>g, <2>5, <2>6
<1>f. ASSUME UNCHANGED <<world, rows>>, stage \in {"owners", "inspect"}, stage' \in {"owners", "inspect"},
             \A c \in Container :
                /\ found'[c].step # "unlisted" => /\ found[c].step # "unlisted"
                                                  /\ found'[c].name = found[c].name
                /\ found'[c].step = "unlisted" /\ found[c].step # "unlisted" => c \notin Live
      PROVE  InventoryInv'
  <2>1. FoundExisted' /\ FoundNamesDiffer'
    BY <1>f DEF FoundExisted, FoundNamesDiffer
  <2>2. \A c \in Container : world[c].state \in {"none", "running", "stopped", "removed"}
    BY DEF TypeOK
  <2>3. ListProves'
    BY <1>f, <2>2 DEF ListProves, FoundExisted, Live
  <2>4. NamesDiffer' /\ RowsExisted' /\ FoundInPass' /\ AbsentIsGone' /\ OneCurrentName'
    BY <1>f DEF NamesDiffer, Live, RowsExisted, FoundInPass, AbsentIsGone, OneCurrentName
  <2> QED
    BY <1>g, <2>1, <2>3, <2>4
<1>4. CASE LoadOwners
  <2>1. UNCHANGED <<world, rows>> /\ stage = "owners" /\ stage' = "inspect"
    BY <1>4 DEF LoadOwners, Pass, docker
  <2>2. \A c \in Container : found'[c].step = found[c].step /\ found'[c].name = found[c].name
    BY <1>4 DEF LoadOwners, TypeOK, Entry
  <2> QED
    BY <1>f, <2>1, <2>2
<1>l. ASSUME NEW c \in Container, NEW entry, Learn(c, entry),
             \/ entry = Unlisted /\ c \notin Live
             \/ /\ found[c].step # "unlisted" /\ entry.name = found[c].name
                /\ entry.step # "unlisted"
      PROVE  InventoryInv'
  <2>1. UNCHANGED <<world, rows, stage>> /\ stage = "inspect"
    BY <1>l DEF Learn, docker
  <2>2. \A d \in Container : found'[d] = IF d = c THEN entry ELSE found[d]
    BY <1>l DEF Learn, TypeOK
  <2>3. Unlisted.step = "unlisted"
    BY DEF Unlisted
  <2> QED
    BY <1>f, <1>l, <2>1, <2>2, <2>3
<1>5. ASSUME NEW c \in Container, Inspect(c) PROVE InventoryInv'
  <2>1. CASE c \in Live
    <3>1. Learn(c, Inspected(found[c], world[c].conf)) /\ found[c].step = "listed"
      BY <1>5, <2>1 DEF Inspect
    <3>2. /\ Inspected(found[c], world[c].conf).name = found[c].name
          /\ Inspected(found[c], world[c].conf).step = "inspected"
      BY DEF Inspected, TypeOK, Entry
    <3> QED
      BY <1>l, <3>1, <3>2
  <2>2. CASE c \notin Live
    <3>1. Learn(c, Unlisted)
      BY <1>5, <2>2 DEF Inspect
    <3> QED
      BY <1>l, <2>2, <3>1
  <2> QED
    BY <2>1, <2>2
<1>6. ASSUME NEW c \in Container, InspectFails(c) PROVE InventoryInv'
  <2>1. PICK conf : Learn(c, Inspected(found[c], conf)) /\ found[c].step = "listed"
    BY <1>6 DEF InspectFails
  <2>2. Inspected(found[c], conf).name = found[c].name /\ Inspected(found[c], conf).step = "inspected"
    BY DEF Inspected, TypeOK, Entry
  <2> QED
    BY <1>l, <2>1, <2>2
<1>7. ASSUME NEW c \in Container, Classify(c) PROVE InventoryInv'
  <2> DEFINE entry == [found[c] EXCEPT !.step = "classified",
                           !.class = Classified(c, found[c].service, found[c].print, at)]
  <2>1. Learn(c, entry) /\ found[c].step = "inspected"
    BY <1>7 DEF Classify
  <2>2. entry.name = found[c].name /\ entry.step = "classified"
    BY DEF TypeOK, Entry
  <2> HIDE DEF entry
  <2> QED
    BY <1>l, <2>1, <2>2
<1>8. CASE Persist
  <2>1. /\ stage = "inspect" /\ stage' = "candidates" /\ world' = world
        /\ rows' = Reconciled(TRUE) /\ found' = NothingFound
        /\ \A c \in Container : found[c].step \in {"unlisted", "classified"}
    BY <1>8 DEF Persist, Pass, docker
  <2>2. \A c \in Container \ Batch : rows[c].class # Untracked => world[c].state = "removed"
    BY <2>1 DEF Batch, ListProves
  <2>3. RowsExisted' /\ AbsentIsGone' /\ OneCurrentName'
    BY <2>1, <2>2, ReconciledSound
  <2>4. NamesDiffer' /\ FoundExisted' /\ FoundNamesDiffer' /\ FoundInPass' /\ ListProves'
    BY <1>n, <2>1 DEF NamesDiffer, Live, FoundExisted, FoundNamesDiffer, FoundInPass, ListProves
  <2> QED
    BY <1>g, <2>3, <2>4
<1>9. CASE PassFails \/ Restart
  <2>1. UNCHANGED <<world, rows>> /\ found' = NothingFound /\ stage' = "idle"
    BY <1>9 DEF PassFails, Restart, Abandon, EndPass, docker
  <2>2. /\ NamesDiffer' /\ RowsExisted' /\ FoundExisted' /\ FoundNamesDiffer' /\ FoundInPass'
        /\ ListProves' /\ AbsentIsGone' /\ OneCurrentName'
    BY <1>n, <2>1 DEF NamesDiffer, Live, RowsExisted, FoundExisted, FoundNamesDiffer, FoundInPass,
                      ListProves, AbsentIsGone, OneCurrentName
  <2> QED
    BY <1>g, <2>2
<1>c. ASSUME UNCHANGED <<world, found, stage>>,
             \A c \in Container : /\ rows'[c].name = rows[c].name
                                  /\ rows'[c].current = rows[c].current
                                  /\ rows'[c].present = rows[c].present
                                  /\ rows'[c].class # Untracked => rows[c].class # Untracked
      PROVE  InventoryInv'
  BY <1>c, <1>g DEF NamesDiffer, Live, RowsExisted, FoundExisted, FoundNamesDiffer, FoundInPass,
                    ListProves, AbsentIsGone, OneCurrentName
<1>10. ASSUME NEW c \in Container, ReadForApproval(c) \/ Approve(c) \/ Ignore(c) PROVE InventoryInv'
  <2>1. UNCHANGED <<world, found, stage>>
    BY <1>10 DEF ReadForApproval, Approve, Ignore, docker, pass
  <2>2. \/ rows' = rows
        \/ rows[c].class # Untracked /\ \E class : rows' = [rows EXCEPT ![c].class = class]
    <3>1. CASE ReadForApproval(c)
      BY <3>1 DEF ReadForApproval
    <3>2. CASE Approve(c)
      BY <3>2 DEF Approve
    <3>3. CASE Ignore(c)
      BY <3>3 DEF Ignore
    <3> QED
      BY <1>10, <3>1, <3>2, <3>3
  <2>3. \A d \in Container : rows[d] \in Row
    BY DEF TypeOK
  <2>4. \A d \in Container : /\ rows'[d].name = rows[d].name
                             /\ rows'[d].current = rows[d].current
                             /\ rows'[d].present = rows[d].present
                             /\ rows'[d].class # Untracked => rows[d].class # Untracked
    BY <2>2, <2>3 DEF Row, TypeOK
  <2> QED
    BY <1>c, <2>1, <2>4
<1>11. ASSUME NEW c \in Container,
              Create(c) \/ Stop(c) \/ Start(c) \/ Remove(c) \/ Rename(c) \/ NewLimits(c)
       PROVE  InventoryInv'
  <2>1. /\ \A d \in Container : world[d].state # "none" => world'[d].state # "none"
        /\ \A d \in Container : world[d].state = "removed" => world'[d].state = "removed"
        /\ NamesDiffer'
        /\ UNCHANGED <<rows, found, stage>>
    BY <1>11, WorldStep
  <2>2. /\ RowsExisted' /\ FoundExisted' /\ FoundNamesDiffer' /\ FoundInPass'
        /\ ListProves' /\ AbsentIsGone' /\ OneCurrentName'
    BY <2>1 DEF RowsExisted, FoundExisted, FoundNamesDiffer, FoundInPass, ListProves,
                AbsentIsGone, OneCurrentName
  <2> QED
    BY <1>g, <2>1, <2>2
<1>12. ASSUME NEW s \in Service, Register(s) PROVE InventoryInv'
  <2>1. UNCHANGED <<world, rows, found>> /\ stage' = stage
    BY <1>12 DEF Register, Change, pass
  <2> QED
    BY <1>a, <2>1
<1> QED
  BY <1>1, <1>2, <1>3, <1>4, <1>5, <1>6, <1>7, <1>8, <1>9, <1>10, <1>11, <1>12 DEF Next, Reconcile

(* A row that is not present is of a container docker has removed.  No     *)
(* failing list or inspection, and no change docker makes while a pass is  *)
(* under way, retires the row of a container that is still there.          *)
THEOREM AbsentContainersAreGone == Spec => []AbsentIsGone
<1>1. InventoryInv => AbsentIsGone
  BY DEF InventoryInv
<1> QED
  BY <1>1, InventoryInit, InventoryStep, PTL DEF Spec

(* One current row has a name, through every rename, recreation and        *)
(* failed pass.                                                            *)
THEOREM CurrentNamesAreUnique == Spec => []OneCurrentName
<1>1. InventoryInv => OneCurrentName
  BY DEF InventoryInv
<1> QED
  BY <1>1, InventoryInit, InventoryStep, PTL DEF Spec

----------------------------------------------------------------------------
(* The critical alert.  Between the row that is promoted, the candidates   *)
(* read from it and the alert lie steps of docker, of operators and of     *)
(* later passes: what all three say of a container has to last.            *)

(* The container is gone for good, the pass under way has not listed it,   *)
(* and its row, while it is current, is overdue.                           *)
Sealed(c) ==
    /\ world[c].state = "removed" /\ found[c].step = "unlisted"
    /\ rows[c].class # Untracked /\ ~rows[c].present
    /\ rows[c].current => Overdue(rows[c], now)

(* A row, a candidate or an alert says that the container is missing.      *)
SaidMissing(c) ==
    \/ rows[c].class = "missing_expected"
    \/ <<c, "missing_expected">> \in pending
    \/ c \in alerts["missing_expected"]

MissingInv ==
    /\ now <= Horizon /\ at <= now
    /\ \A c \in Container : found[c].class # "missing_expected"
    /\ \A c \in Container : SaidMissing(c) => Sealed(c)

(* What a complete reconciliation does to the row of a container outside   *)
(* its batch: absence lasts with its time, and a row becomes missing only  *)
(* when the grace period is over.                                          *)
LEMMA OutsideTheBatch ==
    ASSUME rows \in Table, at \in Nat, found \in [Container -> Entry],
           NEW c \in Container, c \notin Batch
    PROVE  LET row  == rows[c]
               next == Reconciled(TRUE)[c]
           IN /\ next.current => row.current
              /\ ~row.present => ~next.present
              /\ ~row.present /\ row.absent # NotAbsent /\ next.current =>
                    next.absent = row.absent
              /\ next.class = "missing_expected" =>
                    \/ row.class = "missing_expected"
                    \/ ~next.present /\ (next.current => Overdue(next, at))
<1> DEFINE marked   == MarkAbsent(rows)
           promoted == PromoteMissing(marked)
           unseen   == RetireUnseen(promoted)
           reused   == RetireReusedNames(unseen)
           full     == UpsertBatch(reused)
<1>t. /\ marked \in Table /\ promoted \in Table /\ unseen \in Table /\ reused \in Table
      /\ full \in Table
  BY MarkAbsentTable, PromoteMissingTable, RetireUnseenTable, RetireReusedNamesTable,
     UpsertBatchTable
<1>1. \/ marked[c] = rows[c]
      \/ marked[c] = [rows[c] EXCEPT !.present = FALSE, !.absent = IF @ = NotAbsent THEN at ELSE @]
  BY DEF MarkAbsent
<1> HIDE DEF marked
<1>2. \/ promoted[c] = marked[c]
      \/ Overdue(marked[c], at) /\ promoted[c] = [marked[c] EXCEPT !.class = "missing_expected"]
  BY DEF PromoteMissing
<1> HIDE DEF promoted
<1>3. unseen[c] = promoted[c] \/ unseen[c] = Retired(promoted[c])
  BY DEF RetireUnseen
<1> HIDE DEF unseen
<1>4. reused[c] = unseen[c] \/ reused[c] = Retired(unseen[c])
  BY DEF RetireReusedNames
<1> HIDE DEF reused
<1>5. full[c] = reused[c]
  BY <1>t, UpsertBatchTable
<1> HIDE DEF full
<1>6. \/ RetireReplaced(full)[c] = full[c]
      \/ RetireReplaced(full)[c] = [full[c] EXCEPT !.current = FALSE]
  BY DEF RetireReplaced
<1>7. Reconciled(TRUE) = RetireReplaced(full)
  BY DEF Reconciled, full, reused, unseen, promoted, marked
<1>r. /\ rows[c] \in Row /\ marked[c] \in Row /\ promoted[c] \in Row /\ unseen[c] \in Row
      /\ reused[c] \in Row
  BY <1>t DEF Table
<1>8. /\ promoted[c].current = rows[c].current
      /\ ~rows[c].present => ~promoted[c].present
      /\ ~rows[c].present /\ rows[c].absent # NotAbsent => promoted[c].absent = rows[c].absent
      /\ promoted[c].class = "missing_expected" =>
            rows[c].class = "missing_expected" \/ Overdue(promoted[c], at)
  <2>1. /\ marked[c].current = rows[c].current /\ marked[c].class = rows[c].class
        /\ ~rows[c].present => ~marked[c].present
        /\ ~rows[c].present /\ rows[c].absent # NotAbsent => marked[c].absent = rows[c].absent
    BY <1>1, <1>r DEF Row
  <2>2. \/ promoted[c] = marked[c]
        \/ /\ Overdue(marked[c], at)
           /\ promoted[c].current = marked[c].current
           /\ promoted[c].present = marked[c].present
           /\ promoted[c].absent = marked[c].absent
    BY <1>2, <1>r DEF Row
  <2> QED
    BY <2>1, <2>2 DEF Overdue
<1>9. ASSUME NEW row \in Row, NEW next, next = row \/ next = Retired(row)
      PROVE  /\ next.current => next = row
             /\ ~row.present => ~next.present
             /\ next.class = row.class
             /\ next = row \/ (~next.present /\ ~next.current)
  BY <1>9 DEF Retired, Row
<1>10. /\ unseen[c].current => unseen[c] = promoted[c]
       /\ ~promoted[c].present => ~unseen[c].present
       /\ unseen[c].class = promoted[c].class
       /\ unseen[c] = promoted[c] \/ (~unseen[c].present /\ ~unseen[c].current)
  BY <1>3, <1>9, <1>r
<1>11. /\ reused[c].current => reused[c] = unseen[c]
       /\ ~unseen[c].present => ~reused[c].present
       /\ reused[c].class = unseen[c].class
       /\ reused[c] = unseen[c] \/ (~reused[c].present /\ ~reused[c].current)
  BY <1>4, <1>9, <1>r
<1> DEFINE next == RetireReplaced(full)[c]
<1>12. /\ next.class = reused[c].class /\ next.present = reused[c].present
       /\ next.current => next = reused[c]
  BY <1>5, <1>6, <1>r DEF Row
<1> HIDE DEF next
<1>13. next.current => next = promoted[c]
  BY <1>10, <1>11, <1>12
<1>14. next.class = promoted[c].class /\ (~promoted[c].present => ~next.present)
  BY <1>10, <1>11, <1>12
<1> QED
  BY <1>7, <1>8, <1>13, <1>14 DEF next, Overdue

(* Containers that are said to be missing stay sealed while docker, the    *)
(* decisions and the pass move on without the rows of others' concern.     *)
LEMMA SealedStays ==
    ASSUME TypeOK, NEW c \in Container, Sealed(c), now <= now', now' \in Nat,
           world'[c].state = "removed", found'[c].step = "unlisted",
           rows'[c].class # Untracked, ~rows'[c].present,
           rows'[c].current => rows[c].current /\ rows'[c].absent = rows[c].absent
    PROVE  Sealed(c)'
<1>1. rows[c].absent \in Nat /\ now \in Nat /\ Grace \in Nat
  BY ConstantsAssumption DEF TypeOK, Row
<1>2. ASSUME rows'[c].current PROVE Overdue(rows'[c], now')
  BY <1>1, <1>2 DEF Sealed, Overdue
<1> QED
  BY <1>2 DEF Sealed

(* At first nothing is missing.                                            *)
LEMMA MissingInit == Init => MissingInv
<1> SUFFICES ASSUME Init PROVE MissingInv
  OBVIOUS
<1>1. now <= Horizon /\ at <= now
  BY ConstantsAssumption DEF Init
<1>2. \A c \in Container : rows[c] = NoRow /\ found[c] = Unlisted
  BY DEF Init, NothingFound
<1>3. \A c \in Container : found[c].class # "missing_expected" /\ ~SaidMissing(c)
  BY <1>2 DEF Init, NoRow, Unlisted, SaidMissing, Untracked, Rule
<1> QED
  BY <1>1, <1>3 DEF MissingInv

(* Every step of a pass, of docker or of an operator keeps MissingInv.     *)
LEMMA MissingStep == InventoryInv /\ InventoryInv' /\ MissingInv /\ [Next]_vars => MissingInv'
<1> SUFFICES ASSUME InventoryInv, InventoryInv', MissingInv, [Next]_vars PROVE MissingInv'
  OBVIOUS
<1>t. /\ TypeOK /\ AbsentIsGone /\ AbsentIsGone' /\ FoundInPass /\ TypeOK'
      /\ now \in Nat /\ at \in Nat /\ Horizon \in Nat /\ now' \in Nat /\ at' \in Nat
  BY ConstantsAssumption DEF InventoryInv, ListInv, TypeOK
<1>i. /\ now <= Horizon /\ at <= now
      /\ \A c \in Container : found[c].class # "missing_expected"
      /\ \A c \in Container : SaidMissing(c) => Sealed(c)
  BY DEF MissingInv
<1>n. \A c \in Container : /\ NothingFound[c].step = "unlisted"
                          /\ NothingFound[c].class # "missing_expected"
  BY DEF NothingFound, Unlisted, Untracked
<1>s. ASSUME UNCHANGED now, at' \in {0, at, now},
             \A c \in Container : found'[c].class # "missing_expected",
             \A c \in Container : world[c].state = "removed" => world'[c].state = "removed",
             \A c \in Container : Sealed(c) => found'[c].step = "unlisted",
             \A c \in Container :
                /\ rows'[c].current = rows[c].current /\ rows'[c].present = rows[c].present
                /\ rows'[c].absent = rows[c].absent
                /\ rows[c].class # Untracked => rows'[c].class # Untracked,
             \A c \in Container : SaidMissing(c)' => SaidMissing(c)
      PROVE  MissingInv'
  <2>1. \A c \in Container : Sealed(c) => Sealed(c)'
    <3> TAKE c \in Container
    <3> HAVE Sealed(c)
    <3>1. world[c].state = "removed" /\ rows[c].class # Untracked /\ ~rows[c].present
      BY DEF Sealed
    <3> QED
      BY <1>s, <1>t, <3>1, SealedStays
  <2>2. now' <= Horizon /\ at' <= now'
    BY <1>s, <1>t, <1>i
  <2> QED
    BY <1>s, <1>i, <2>1, <2>2 DEF MissingInv
<1>r. ASSUME UNCHANGED <<now, world, rows, pending, alerts>>, at' \in {0, at, now},
             \A c \in Container : found'[c].class # "missing_expected",
             \A c \in Container : Sealed(c) => found'[c].step = "unlisted"
      PROVE  MissingInv'
  BY <1>r, <1>s DEF SaidMissing
<1>l. ASSUME NEW c \in Container, NEW entry, Learn(c, entry), found[c].step # "unlisted",
             entry.class # "missing_expected"
      PROVE  MissingInv'
  <2>1. /\ UNCHANGED <<now, world, rows, pending, alerts, at>>
        /\ found' = [found EXCEPT ![c] = entry]
    BY <1>l DEF Learn, docker
  <2>2. \A d \in Container : found'[d] = IF d = c THEN entry ELSE found[d]
    BY <1>t, <2>1 DEF TypeOK
  <2> QED
    BY <1>i, <1>l, <1>r, <2>1, <2>2 DEF Sealed
<1>1. CASE StartPass \/ Tick \/ UNCHANGED vars
  <2>1. UNCHANGED <<world, rows, pending, alerts, found>>
    BY <1>1 DEF StartPass, Tick, vars, docker, pass
  <2>2. CASE Tick
    <3>1. now' = now + 1 /\ now < Horizon /\ at' = at
      BY <2>2 DEF Tick, pass
    <3>2. now' <= Horizon /\ at' <= now' /\ now <= now'
      BY <1>t, <1>i, <3>1
    <3>3. \A c \in Container : Sealed(c) => Sealed(c)'
      BY <1>t, <2>1, <3>2, SealedStays DEF Sealed
    <3> QED
      BY <1>i, <2>1, <3>2, <3>3 DEF MissingInv, SaidMissing
  <2>3. CASE StartPass \/ UNCHANGED vars
    BY <1>i, <1>r, <2>1, <2>3 DEF StartPass, vars, pass, Sealed
  <2> QED
    BY <1>1, <2>2, <2>3
<1>2. CASE ListAll
  <2>1. UNCHANGED <<world, rows, pending, alerts, now, at>>
    BY <1>2 DEF ListAll, docker
  <2>2. \A c \in Container : c \notin Live => found'[c].step = "unlisted"
    BY <1>2 DEF ListAll, Unlisted
  <2>3. \A c \in Container : found'[c].class # "missing_expected"
    BY <1>2 DEF ListAll, Unlisted, Untracked
  <2> QED
    BY <1>r, <2>1, <2>2, <2>3 DEF Sealed, Live
<1>3. CASE ListFails
  <2>1. /\ UNCHANGED <<world, found, pending, alerts, now>> /\ stage = "list" /\ at' = 0
        /\ rows' = Reconciled(FALSE)
    BY <1>3 DEF ListFails, EndPass, docker
  <2>2. Batch = {}
    BY <1>t, <1>n, <2>1 DEF FoundInPass, Batch
  <2>3. rows \in Table /\ found \in [Container -> Entry]
    BY <1>t DEF TypeOK, Table
  <2>4. rows' \in Table /\ \A c \in Container : rows'[c] = rows[c]
    BY <1>t, <2>1, <2>2, <2>3, ReconciledTable
  <2>5. rows' = rows
    BY <2>3, <2>4 DEF Table
  <2> QED
    BY <1>i, <1>r, <2>1, <2>5 DEF Sealed
<1>4. CASE LoadOwners
  <2>1. UNCHANGED <<world, rows, pending, alerts, now, at>>
    BY <1>4 DEF LoadOwners, docker
  <2>2. \A c \in Container : found'[c].step = found[c].step /\ found'[c].class = found[c].class
    BY <1>4, <1>t DEF LoadOwners, TypeOK, Entry
  <2> QED
    BY <1>i, <1>r, <2>1, <2>2 DEF Sealed
<1>5. ASSUME NEW c \in Container, Inspect(c) PROVE MissingInv'
  <2>1. PICK entry : /\ Learn(c, entry) /\ found[c].step = "listed"
                     /\ entry = Unlisted \/ entry = Inspected(found[c], world[c].conf)
    BY <1>5 DEF Inspect
  <2>2. entry.class # "missing_expected"
    <3>1. Unlisted.class # "missing_expected"
      BY DEF Unlisted, Untracked
    <3>2. Inspected(found[c], world[c].conf).class = found[c].class
      BY <1>t DEF Inspected, TypeOK, Entry
    <3> QED
      BY <1>i, <2>1, <3>1, <3>2
  <2> QED
    BY <1>l, <2>1, <2>2
<1>6. ASSUME NEW c \in Container, InspectFails(c) PROVE MissingInv'
  <2>1. PICK conf : Learn(c, Inspected(found[c], conf)) /\ found[c].step = "listed"
    BY <1>6 DEF InspectFails
  <2>2. Inspected(found[c], conf).class # "missing_expected"
    BY <1>i, <1>t DEF Inspected, TypeOK, Entry
  <2> QED
    BY <1>l, <2>1, <2>2
<1>7. ASSUME NEW c \in Container, Classify(c) PROVE MissingInv'
  <2> DEFINE class == Classified(c, found[c].service, found[c].print, at)
             entry == [found[c] EXCEPT !.step = "classified", !.class = class]
  <2>1. Learn(c, entry) /\ found[c].step = "inspected"
    BY <1>7 DEF Classify
  <2>2. class # "missing_expected"
    BY DEF Classified
  <2> HIDE DEF class
  <2>3. entry.class = class
    BY <1>t DEF TypeOK, Entry
  <2> HIDE DEF entry
  <2> QED
    BY <1>l, <2>1, <2>2, <2>3
<1>8. CASE Persist
  <2>1. /\ stage = "inspect" /\ rows' = Reconciled(TRUE) /\ found' = NothingFound
        /\ UNCHANGED <<world, pending, alerts, now, at>>
    BY <1>8 DEF Persist, Pass, docker
  <2>2. rows \in Table /\ found \in [Container -> Entry] /\ rows' \in Table
    BY <1>t DEF TypeOK, Table
  <2>3. ASSUME NEW c \in Container, SaidMissing(c)' PROVE Sealed(c)'
    <3>1. rows[c] \in Row /\ rows'[c] \in Row /\ found'[c].step = "unlisted"
      BY <1>n, <2>1, <2>2 DEF Table
    <3>2. CASE Sealed(c)
      <4>1. c \notin Batch
        BY <3>2 DEF Sealed, Batch
      <4>2. /\ rows'[c].current => rows[c].current
            /\ ~rows[c].present => ~rows'[c].present
            /\ ~rows[c].present /\ rows[c].absent # NotAbsent /\ rows'[c].current =>
                  rows'[c].absent = rows[c].absent
        BY <1>t, <2>1, <2>2, <4>1, OutsideTheBatch
      <4>3. rows'[c].class # Untracked
        BY <1>t, <2>1, <2>2, <3>2, <4>1, ReconciledTable DEF Sealed
      <4>4. rows[c].current => rows[c].absent # NotAbsent
        <5>1. Grace \in Nat /\ rows[c].absent \in Nat
          BY <3>1, ConstantsAssumption DEF Row
        <5> QED
          BY <1>i, <1>t, <3>2, <5>1 DEF Sealed, Overdue, NotAbsent
      <4>5. ~rows[c].present /\ world'[c].state = "removed"
        BY <2>1, <3>2 DEF Sealed
      <4>6. rows'[c].current => rows[c].current /\ rows'[c].absent = rows[c].absent
        BY <4>2, <4>4, <4>5
      <4>7. now <= now'
        BY <1>t, <2>1
      <4> QED
        BY <1>t, <3>1, <3>2, <4>2, <4>3, <4>5, <4>6, <4>7, SealedStays
    <3>3. CASE ~Sealed(c)
      <4>1. ~SaidMissing(c) /\ rows'[c].class = "missing_expected"
        BY <1>i, <2>1, <2>3, <3>3 DEF SaidMissing
      <4>2. c \notin Batch
        <5>1. ASSUME c \in Batch PROVE FALSE
          <6> DEFINE row == [class |-> found[c].class, current |-> TRUE, present |-> TRUE,
                             absent |-> NotAbsent, service |-> found[c].service,
                             name |-> found[c].name, print |-> found[c].print]
                     full == UpsertBatch(RetireReusedNames(RetireUnseen(PromoteMissing(
                                 MarkAbsent(rows)))))
          <6>1. full[c] = row
            BY <5>1 DEF UpsertBatch
          <6>2. rows' = RetireReplaced(full)
            BY <2>1 DEF Reconciled
          <6>3. RetireReplaced(full)[c] = full[c]
            BY <6>1 DEF RetireReplaced, MissingRow
          <6> QED
            BY <1>i, <4>1, <6>1, <6>2, <6>3
        <5> QED
          BY <5>1
      <4>3. ~rows'[c].present /\ (rows'[c].current => Overdue(rows'[c], at))
        BY <1>t, <2>1, <2>2, <4>1, <4>2, OutsideTheBatch DEF SaidMissing
      <4>4. world'[c].state = "removed" /\ rows'[c].class # Untracked
        BY <1>t, <4>1, <4>3 DEF AbsentIsGone, Untracked
      <4>5. rows'[c].current => Overdue(rows'[c], now')
        <5> SUFFICES ASSUME rows'[c].current PROVE Overdue(rows'[c], now')
          OBVIOUS
        <5>1. Grace \in Nat /\ rows'[c].absent \in Nat
          BY <3>1, ConstantsAssumption DEF Row
        <5>2. rows'[c].absent + Grace <= at
          BY <4>3 DEF Overdue
        <5>3. rows'[c].absent + Grace <= now'
          <6>1. at <= now' /\ at \in Nat /\ now' \in Nat
            BY <1>i, <1>t, <2>1
          <6> QED
            BY <5>1, <5>2, <6>1
        <5> QED
          BY <4>3, <5>3 DEF Overdue
      <4> QED
        BY <3>1, <4>3, <4>4, <4>5 DEF Sealed
    <3> QED
      BY <3>2, <3>3
  <2> QED
    BY <1>i, <1>n, <2>1, <2>3 DEF MissingInv
<1>9. CASE ReadCandidates
  <2>1. /\ UNCHANGED <<now, world, rows, found, alerts>> /\ at' \in {0, at}
        /\ pending' = {<<c, IF rows[c].current THEN rows[c].class ELSE "retired">> :
                           c \in Candidates}
    BY <1>9 DEF ReadCandidates, EndPass, docker
  <2>2. \A c \in Container : SaidMissing(c)' => SaidMissing(c)
    BY <2>1 DEF SaidMissing
  <2> QED
    BY <1>i, <1>s, <2>1, <2>2 DEF Sealed
<1>10. CASE EvaluateNext
  <2>1. UNCHANGED <<now, world, rows, found>> /\ at' \in {0, at}
    BY <1>10 DEF EvaluateNext, EndPass, docker
  <2>2. PICK p \in pending :
             /\ alerts' = [r \in Rule |-> IF p[2] = Alarming(r) THEN alerts[r] \cup {p[1]}
                                                                 ELSE alerts[r] \ {p[1]}]
             /\ pending' = pending \ {p}
    BY <1>10 DEF EvaluateNext
  <2>3. p = <<p[1], p[2]>>
    BY <1>t, <2>2 DEF TypeOK
  <2>4. \A c \in Container :
            c \in alerts'["missing_expected"] =>
                c \in alerts["missing_expected"] \/ p = <<c, "missing_expected">>
    BY <2>2, <2>3 DEF Rule, Alarming
  <2>5. \A c \in Container : SaidMissing(c)' => SaidMissing(c)
    BY <2>1, <2>2, <2>4 DEF SaidMissing
  <2> QED
    BY <1>i, <1>s, <2>1, <2>5 DEF Sealed
<1>11. CASE PassFails \/ Restart
  <2>1. /\ UNCHANGED <<now, world, rows, alerts>> /\ at' = 0
        /\ found' = NothingFound /\ pending' = {}
    BY <1>11 DEF PassFails, Restart, Abandon, EndPass, docker
  <2>2. \A c \in Container : SaidMissing(c)' => SaidMissing(c)
    BY <2>1 DEF SaidMissing
  <2> QED
    BY <1>n, <1>s, <2>1, <2>2
<1>12. ASSUME NEW c \in Container, ReadForApproval(c) \/ Approve(c) \/ Ignore(c) PROVE MissingInv'
  <2>1. UNCHANGED <<world, found, at, pending, alerts, now>>
    BY <1>12 DEF ReadForApproval, Approve, Ignore, docker, pass
  <2>2. \/ rows' = rows
        \/ \E class \in {"approved_observed", "ignored"} : rows' = [rows EXCEPT ![c].class = class]
    <3>1. CASE ReadForApproval(c)
      BY <3>1 DEF ReadForApproval
    <3>2. CASE Approve(c)
      BY <3>2 DEF Approve
    <3>3. CASE Ignore(c)
      BY <3>3 DEF Ignore
    <3> QED
      BY <1>12, <3>1, <3>2, <3>3
  <2>3. \A d \in Container : rows[d] \in Row
    BY <1>t DEF TypeOK
  <2>4. \A d \in Container :
            /\ rows'[d].current = rows[d].current /\ rows'[d].present = rows[d].present
            /\ rows'[d].absent = rows[d].absent
            /\ rows'[d].class = rows[d].class \/ rows'[d].class \in {"approved_observed", "ignored"}
    BY <1>t, <2>2, <2>3 DEF Row, TypeOK
  <2>5. /\ \A d \in Container : SaidMissing(d)' => SaidMissing(d)
        /\ \A d \in Container : rows[d].class # Untracked => rows'[d].class # Untracked
    BY <2>1, <2>4 DEF SaidMissing, Untracked
  <2> QED
    BY <1>i, <1>s, <2>1, <2>4, <2>5 DEF Sealed
<1>13. ASSUME NEW c \in Container,
              Create(c) \/ Stop(c) \/ Start(c) \/ Remove(c) \/ Rename(c) \/ NewLimits(c)
       PROVE  MissingInv'
  <2>1. \A d \in Container : world[d].state = "removed" => world'[d].state = "removed"
    BY <1>13, <1>t, WorldStep DEF InventoryInv, ListInv
  <2>2. UNCHANGED <<rows, found, at, pending, alerts, now>>
    BY <1>13 DEF Create, Stop, Start, Remove, Rename, NewLimits, Becomes, Change, pass
  <2> QED
    BY <1>i, <1>s, <2>1, <2>2 DEF Sealed, SaidMissing
<1>14. ASSUME NEW s \in Service, Register(s) PROVE MissingInv'
  <2>1. UNCHANGED <<world, rows, found, at, pending, alerts, now>>
    BY <1>14 DEF Register, Change, pass
  <2> QED
    BY <1>i, <1>r, <2>1 DEF Sealed
<1> QED
  BY <1>1, <1>2, <1>3, <1>4, <1>5, <1>6, <1>7, <1>8, <1>9, <1>10, <1>11, <1>12, <1>13, <1>14
     DEF Next, Reconcile

(* The critical alert is about a container docker has removed, and one     *)
(* that was first seen to be gone the grace period ago, however its row    *)
(* was decided on, retired or kept since.                                  *)
THEOREM MissingAlertsAreDue == Spec => []MissingIsOverdue
<1>1. InventoryInv /\ MissingInv => MissingIsOverdue
  <2> SUFFICES ASSUME InventoryInv, MissingInv, NEW c \in alerts["missing_expected"]
               PROVE  world[c].state = "removed" /\ (rows[c].current => Overdue(rows[c], now))
    BY DEF MissingIsOverdue
  <2>1. c \in Container
    BY DEF InventoryInv, TypeOK, Rule
  <2> QED
    BY <2>1 DEF MissingInv, SaidMissing, Sealed
<1>2. Init => InventoryInv /\ MissingInv
  BY InventoryInit, MissingInit
<1>3. (InventoryInv /\ MissingInv) /\ [Next]_vars => (InventoryInv /\ MissingInv)'
  BY InventoryStep, MissingStep
<1> QED
  BY <1>1, <1>2, <1>3, PTL DEF Spec

----------------------------------------------------------------------------
(* A missing container and its replacement.                                *)

(* What RetireReplaced leaves: a missing row has no replacement in the     *)
(* table, since it retires such rows and changes nothing else.             *)
LEMMA NoneReplaced ==
    ASSUME NEW table \in Table, NEW c \in Container, NEW d \in Container,
           MissingRow(RetireReplaced(table)[c])
    PROVE  ~Replaces(RetireReplaced(table), d, c)
<1> DEFINE left == RetireReplaced(table)
<1>1. \A e \in Container :
        /\ left[e] = table[e] \/ left[e] = [table[e] EXCEPT !.current = FALSE]
        /\ MissingRow(table[e]) /\ (\E f \in Container : Replaces(table, f, e)) => ~left[e].current
  BY DEF RetireReplaced, Table, Row
<1>2. \A e \in Container :
        /\ left[e].present = table[e].present /\ left[e].service = table[e].service
        /\ left[e].current => table[e].current
  BY <1>1 DEF Table, Row
<1> HIDE DEF left
<1>3. left[c].current
  BY DEF MissingRow, left
<1>4. left[c] = table[c]
  BY <1>1, <1>3 DEF Table, Row
<1>5. MissingRow(table[c])
  BY <1>4 DEF left
<1>6. ~Replaces(table, d, c)
  BY <1>1, <1>3, <1>5
<1>7. Replaces(left, d, c) => Replaces(table, d, c)
  BY <1>2 DEF Replaces
<1> QED
  BY <1>6, <1>7 DEF left

(* An expected container is not reported missing beside the one that took  *)
(* its place in the service or the compose group: RetireReplaced comes     *)
(* last in the transaction, and an empty batch changes no row.             *)
THEOREM ReplacedAreNotMissing == Spec => []ReplacedNotMissing
<1>1. Init => ReplacedNotMissing
  <2>1. Init => \A c \in Container : ~MissingRow(rows[c])
    BY DEF Init, NoRow, MissingRow
  <2> QED
    BY <2>1 DEF ReplacedNotMissing
<1>2. InventoryInv /\ ReplacedNotMissing /\ [Next]_vars => ReplacedNotMissing'
  <2> SUFFICES ASSUME InventoryInv, ReplacedNotMissing, [Next]_vars PROVE ReplacedNotMissing'
    OBVIOUS
  <2>t. rows \in Table /\ at \in Nat /\ found \in [Container -> Entry]
    BY DEF InventoryInv, TypeOK, Table
  <2>1. CASE rows' = rows
    BY <2>1 DEF ReplacedNotMissing, MissingRow, Replaces
  <2>2. CASE Persist
    <3> DEFINE table == UpsertBatch(RetireReusedNames(RetireUnseen(PromoteMissing(MarkAbsent(rows)))))
    <3>1. table \in Table
      BY <2>t, MarkAbsentTable, PromoteMissingTable, RetireUnseenTable, RetireReusedNamesTable,
         UpsertBatchTable
    <3>2. rows' = RetireReplaced(table)
      BY <2>2 DEF Persist, Reconciled
    <3> HIDE DEF table
    <3>3. \A c, d \in Container : MissingRow(rows'[c]) => ~Replaces(rows', d, c)
      BY <3>1, <3>2, NoneReplaced
    <3> QED
      BY <3>3 DEF ReplacedNotMissing, MissingRow, Replaces
  <2>3. CASE ListFails
    <3>1. found = NothingFound
      BY <2>3 DEF ListFails, InventoryInv, ListInv, FoundInPass
    <3>2. Batch = {}
      BY <3>1 DEF Batch, NothingFound, Unlisted
    <3>3. \A c \in Container : Reconciled(FALSE)[c] = rows[c]
      BY <2>t, <3>2, ReconciledTable
    <3>4. Reconciled(FALSE) \in Table
      BY <2>t, ReconciledTable
    <3>5. rows' = rows
      <4>1. rows' = Reconciled(FALSE)
        BY <2>3 DEF ListFails
      <4>2. rows' \in Table /\ \A c \in Container : rows'[c] = rows[c]
        BY <3>3, <3>4, <4>1
      <4> QED
        BY <2>t, <4>2 DEF Table
    <3> QED
      BY <2>1, <3>5
  <2>4. ASSUME NEW c \in Container, Approve(c) \/ Ignore(c) PROVE ReplacedNotMissing'
    <3>1. PICK class \in {"approved_observed", "ignored"} : rows' = [rows EXCEPT ![c].class = class]
      BY <2>4 DEF Approve, Ignore
    <3>2. \A d \in Container :
            /\ rows'[d].current = rows[d].current /\ rows'[d].present = rows[d].present
            /\ rows'[d].service = rows[d].service
            /\ MissingRow(rows'[d]) => MissingRow(rows[d])
      BY <2>t, <3>1 DEF Table, Row, MissingRow
    <3> QED
      BY <3>2 DEF ReplacedNotMissing, Replaces
  <2>5. \/ rows' = rows \/ Persist \/ ListFails
        \/ \E c \in Container : Approve(c) \/ Ignore(c)
    BY DEF Next, Reconcile, StartPass, ListAll, LoadOwners, ReadCandidates, EvaluateNext, Inspect,
           Classify, Learn, InspectFails, PassFails, Restart, Tick, ReadForApproval, Create, Stop,
           Start, Remove, Rename, NewLimits, Becomes, Change, Register, vars
  <2> QED
    BY <2>1, <2>2, <2>3, <2>4, <2>5
<1> QED
  BY <1>1, <1>2, InventoryInit, InventoryStep, PTL DEF Spec
=============================================================================
