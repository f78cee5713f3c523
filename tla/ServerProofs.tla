---------------------------- MODULE ServerProofs ----------------------------
(***************************************************************************)
(* The permits of DockerGuard and the migrations of Server, for any loops, *)
(* handlers, permits, limits and versions, and any number of crashes.      *)
(*                                                                         *)
(* Neither property is inductive.  Quiet says that nobody calls docker     *)
(* before the loops start, so that an exit may forget the permits; Booting *)
(* ties the migrator of the server to its stage; SuffixPending says that   *)
(* what a migrator still means to apply is a suffix of the versions whose  *)
(* lower part is applied, which is what makes the next version applied the *)
(* next in order although two processes read the table before each other's *)
(* commits.  BurstInv bounds what a pause can still let through by the     *)
(* calls under way, each failure of which takes one of them away.          *)
(***************************************************************************)
EXTENDS Server, FiniteSetTheorems, TLAPS

HolderPlace == {"held", "calling", "release"}

(* A caller that moves enters or leaves the holders of a permit.           *)
LEMMA HoldersMove ==
    ASSUME at \in [Caller -> Place], NEW c \in Caller, NEW to \in Place,
           at' = [at EXCEPT ![c] = to]
    PROVE  /\ at' \in [Caller -> Place]
           /\ to \in HolderPlace => Holders' = Holders \cup {c}
           /\ to \notin HolderPlace => Holders' = Holders \ {c}
BY DEF Holders, HolderPlace

(* The holders can be counted.                                             *)
LEMMA HoldersFinite == IsFiniteSet(Holders) /\ Cardinality(Holders) \in Nat
<1>1. IsFiniteSet(Holders)
  BY GuardAssumption, FS_Subset DEF Holders
<1> QED
  BY <1>1, FS_CardinalityType

GuardInv == GuardTypeOK /\ PermitsBalance

(* A caller that moves between two places of a kind keeps the balance.     *)
LEMMA BalanceKept ==
    ASSUME GuardInv, NEW c \in Caller, NEW from \in Place, NEW to \in Place,
           Go(c, from, to), from \in HolderPlace <=> to \in HolderPlace,
           UNCHANGED permits
    PROVE  at' \in [Caller -> Place] /\ PermitsBalance'
<1>1. at' \in [Caller -> Place] /\ Holders' = Holders
  BY HoldersMove DEF GuardInv, GuardTypeOK, Go, Holders, HolderPlace
<1> QED
  BY <1>1 DEF GuardInv, PermitsBalance

(* A caller that takes a permit that is free.                              *)
LEMMA BalanceTaken ==
    ASSUME GuardInv, NEW c \in Caller, Permit(c)
    PROVE  at' \in [Caller -> Place] /\ PermitsBalance' /\ permits' \in Nat
<1>1. c \notin Holders /\ at' \in [Caller -> Place] /\ Holders' = Holders \cup {c}
  BY HoldersMove DEF GuardInv, GuardTypeOK, Permit, Go, Holders, HolderPlace, Place
<1>2. Cardinality(Holders') = Cardinality(Holders) + 1
  BY <1>1, HoldersFinite, FS_AddElement
<1> QED
  BY <1>1, <1>2, GuardAssumption DEF GuardInv, GuardTypeOK, PermitsBalance, Permit

(* A caller that gives its permit back.                                    *)
LEMMA BalanceGiven ==
    ASSUME GuardInv, NEW c \in Caller, NEW from \in HolderPlace,
           Go(c, from, "back"), permits' = permits - 1
    PROVE  at' \in [Caller -> Place] /\ PermitsBalance' /\ permits' \in Nat
<1>1. c \in Holders /\ at' \in [Caller -> Place] /\ Holders' = Holders \ {c}
  BY HoldersMove DEF GuardInv, GuardTypeOK, Go, Holders, HolderPlace, Place
<1>2. Cardinality(Holders') = Cardinality(Holders) - 1 /\ Cardinality(Holders') \in Nat
  <2>1. IsFiniteSet(Holders') /\ Cardinality(Holders') = Cardinality(Holders) - 1
    BY <1>1, HoldersFinite, FS_RemoveElement
  <2> QED
    BY <2>1, FS_CardinalityType
<1> QED
  BY <1>1, <1>2, GuardAssumption DEF GuardInv, GuardTypeOK, PermitsBalance

(* What the checks of the guard forget stays typed.                        *)
LEMMA CheckTyped ==
    ASSUME GuardTypeOK, CheckClosed \/ UNCHANGED breaker
    PROVE  /\ failures' \in Nat /\ window' \in {None} \cup Age
           /\ pause' \in {None} \cup Age
BY DEF GuardTypeOK, CheckClosed, breaker

(* So does what a failed call records.                                     *)
LEMMA FailTyped ==
    ASSUME GuardTypeOK, Fail
    PROVE  /\ failures' \in Nat /\ window' \in {None} \cup Age
           /\ pause' \in {None} \cup Age
           /\ ages' \in Seq(Age)
<1>1. /\ 0 \in Age /\ Cooldown \in Age
      /\ failures + 1 \in Nat
  BY GuardAssumption DEF Age, GuardTypeOK
<1>3. ages' \in Seq(Age)
  BY <1>1 DEF Fail, GuardTypeOK
<1> QED
  BY <1>1, <1>3 DEF Fail, GuardTypeOK

(* Each step of a call, refusals and cancellations included.               *)
CallStep(c) ==
    \/ Acquire(c) \/ Permit(c) \/ Recheck(c) \/ Succeed(c)
    \/ Failure(c) \/ Release(c) \/ Cancel(c)

(* Every step of a docker call keeps the balance of the permits.           *)
LEMMA CallKeepsGuard ==
    ASSUME GuardInv, NEW c \in Caller, CallStep(c)
    PROVE  GuardInv'
<1> USE DEF GuardInv
<1>1. CASE Acquire(c)
  <2>1. at' \in [Caller -> Place] /\ PermitsBalance'
    BY <1>1, BalanceKept DEF Acquire, HolderPlace, Place
  <2> QED
    BY <1>1, <2>1, CheckTyped DEF Acquire, GuardTypeOK
<1>2. CASE Permit(c)
  BY <1>2, BalanceTaken DEF Permit, GuardTypeOK, breaker
<1>3. CASE Recheck(c)
  <2>1. CASE Go(c, "held", "calling") /\ CheckClosed /\ UNCHANGED permits
    <3>1. at' \in [Caller -> Place] /\ PermitsBalance'
      BY <2>1, BalanceKept DEF HolderPlace, Place
    <3> QED
      BY <1>3, <2>1, <3>1, CheckTyped DEF Recheck, GuardTypeOK
  <2>2. CASE Go(c, "held", "back") /\ permits' = permits - 1 /\ UNCHANGED breaker
    <3>1. at' \in [Caller -> Place] /\ PermitsBalance' /\ permits' \in Nat
      BY <2>2, BalanceGiven DEF HolderPlace
    <3> QED
      BY <1>3, <2>2, <3>1 DEF Recheck, GuardTypeOK, breaker
  <2> QED
    BY <1>3, <2>1, <2>2 DEF Recheck
<1>4. CASE Succeed(c)
  <2>1. at' \in [Caller -> Place] /\ PermitsBalance'
    BY <1>4, BalanceKept DEF Succeed, HolderPlace, Place
  <2> QED
    BY <1>4, <2>1 DEF Succeed, GuardTypeOK, breaker
<1>5. CASE Failure(c)
  <2>1. at' \in [Caller -> Place] /\ PermitsBalance'
    BY <1>5, BalanceKept DEF Failure, HolderPlace, Place
  <2>2. failed' \in 0 .. MaxFailures /\ UNCHANGED permits
    BY <1>5, GuardAssumption DEF Failure, GuardTypeOK
  <2> QED
    BY <1>5, <2>1, <2>2, FailTyped DEF Failure, GuardTypeOK
<1>6. CASE Release(c)
  <2>1. at' \in [Caller -> Place] /\ PermitsBalance' /\ permits' \in Nat
    BY <1>6, BalanceGiven DEF Release, HolderPlace
  <2> QED
    BY <1>6, <2>1 DEF Release, GuardTypeOK, breaker
<1>7. CASE Cancel(c)
  <2>1. at' \in [Caller -> Place] /\ PermitsBalance'
    BY <1>7, BalanceKept DEF Cancel, HolderPlace, Place
  <2> QED
    BY <1>7, <2>1 DEF Cancel, GuardTypeOK, breaker
<1> QED
  BY <1>1, <1>2, <1>3, <1>4, <1>5, <1>6, <1>7 DEF CallStep

(* Time passes: the window and the pause run on.                           *)
LEMMA TickKeepsGuard ==
    ASSUME GuardInv, GuardTick
    PROVE  GuardInv'
<1>1. Holders' = Holders /\ UNCHANGED <<at, permits>>
  BY DEF Holders, GuardTick
<1>2. /\ window' \in {None} \cup Age
      /\ pause' \in {None} \cup Age
  BY GuardAssumption DEF GuardInv, GuardTypeOK, GuardTick, Later, Age, None
<1>3. ages' \in Seq(Age)
  <2>1. ages \in Seq(Age) /\ ages' = [k \in 1 .. Len(ages) |-> Later(ages[k])]
    BY DEF GuardInv, GuardTypeOK, GuardTick
  <2>2. \A a \in Age : Later(a) \in Age
    BY GuardAssumption DEF Later, Age, None
  <2> QED
    BY <2>1, <2>2
<1> QED
  BY <1>1, <1>2, <1>3 DEF GuardInv, GuardTypeOK, GuardTick, PermitsBalance

-----------------------------------------------------------------------------
(* The inductive invariant of Server.                                      *)
Early == {"down", "migrate", "wire"}

Quiet == stage \in Early => \A c \in Caller : at[c] = "off"

Booting == migrator["serve"] # "away" => stage = "migrate"

BodiesRecorded == \A v \in Version : bodies[v] = IF v \in applied THEN 1 ELSE 0

SuffixPending ==
    \A p \in Migrator : migrator[p] = "apply" =>
        \E m \in Nat \ {0} : todo[p] = m .. MaxVersion /\ 1 .. (m - 1) \subseteq applied

SchemaComplete == stage \notin {"down", "migrate"} => applied = Version

ServerInv ==
    /\ TypeOK /\ PermitsBalance /\ Quiet /\ Booting
    /\ InOrder /\ BodiesRecorded /\ SuffixPending /\ SchemaComplete

(* What of the invariant is about the guard and the callers.               *)
CallersInv == GuardInv /\ Quiet

(* What of it is about the process and the migrations.                     *)
SchemaInv ==
    /\ stage \in Stage
    /\ applied \subseteq Version /\ bodies \in [Version -> Nat]
    /\ migrator \in [Migrator -> {"away", "read", "apply"}]
    /\ todo \in [Migrator -> SUBSET Version]
    /\ Booting /\ InOrder /\ BodiesRecorded /\ SuffixPending /\ SchemaComplete

Bookkeeping == stopping \in BOOLEAN /\ faults \in 0 .. MaxFaults

(* The invariant falls into what callers, migrators and the rest touch.    *)
LEMMA InvParts == ServerInv <=> CallersInv /\ SchemaInv /\ Bookkeeping
BY DEF ServerInv, CallersInv, SchemaInv, Bookkeeping, GuardInv, TypeOK

(* The initial state.                                                      *)
LEMMA InitInv == Init => ServerInv
<1> SUFFICES ASSUME Init PROVE ServerInv
  OBVIOUS
<1>1. CallersInv
  <2>1. Holders = {}
    BY DEF Init, GuardInit, Holders
  <2>2. PermitsBalance
    BY <2>1, FS_EmptySet, GuardAssumption DEF Init, GuardInit, PermitsBalance
  <2>3. GuardTypeOK
    BY GuardAssumption DEF Init, GuardInit, GuardTypeOK, Place, Age, None
  <2> QED
    BY <2>2, <2>3 DEF CallersInv, GuardInv, Quiet, Init, GuardInit
<1>2. SchemaInv
  <2>1. InOrder
    BY ServerAssumption, 1 .. 0 = {} DEF Init, InOrder
  <2>2. stage \in Stage /\ applied \subseteq Version
    BY DEF Init, Stage
  <2>5. bodies \in [Version -> Nat]
    BY DEF Init
  <2>6. /\ migrator \in [Migrator -> {"away", "read", "apply"}]
        /\ todo \in [Migrator -> SUBSET Version]
    BY DEF Init
  <2>3. Booting /\ SuffixPending
    BY DEF Init, Migrator, Booting, SuffixPending
  <2>4. BodiesRecorded /\ SchemaComplete
    BY DEF Init, BodiesRecorded, SchemaComplete
  <2> QED
    BY <2>1, <2>2, <2>3, <2>4, <2>5, <2>6 DEF SchemaInv
<1>3. stopping \in BOOLEAN
  BY Zenon DEF Init
<1>4. faults \in 0 .. MaxFaults
  BY ServerAssumption DEF Init
<1> QED
  BY <1>1, <1>2, <1>3, <1>4, InvParts DEF Bookkeeping

(* A process that exits while nobody calls docker, or that takes the       *)
(* callers with it, leaves the guard as new.                               *)
LEMMA ExitKeepsCallers ==
    ASSUME GuardInv, Exit, at' \in [Caller -> Place], \A c \in Caller : at'[c] = "off"
    PROVE  CallersInv'
<1>1. Holders' = {}
  BY DEF Holders
<1>2. PermitsBalance'
  BY <1>1, FS_EmptySet, GuardAssumption DEF Exit, PermitsBalance
<1>3. GuardTypeOK'
  BY GuardAssumption DEF GuardInv, GuardTypeOK, Exit, Age, None
<1> QED
  BY <1>2, <1>3 DEF CallersInv, GuardInv, Quiet

(* A step that touches neither the guard nor the process keeps both.       *)
LEMMA CallersUnchanged ==
    ASSUME CallersInv, UNCHANGED guard, stage' \in Early => stage \in Early
    PROVE  CallersInv'
BY DEF CallersInv, GuardInv, GuardTypeOK, PermitsBalance, Holders, Quiet, guard, breaker

(* Steps elsewhere leave the migrations alone.                             *)
LEMMA SchemaUnchanged ==
    ASSUME SchemaInv, Elsewhere
    PROVE  SchemaInv'
BY DEF SchemaInv, Elsewhere, process, database, pending, Booting, InOrder,
   BodiesRecorded, SuffixPending, SchemaComplete

(* A step that counts a fault, or none.                                    *)
LEMMA FaultTyped ==
    ASSUME faults \in 0 .. MaxFaults, Fault \/ Fine
    PROVE  faults' \in 0 .. MaxFaults
BY ServerAssumption DEF Fault, Fine

(* A migrator is sent to a place from which it has nothing to apply.       *)
LEMMA PutTyped ==
    ASSUME SchemaInv, NEW p \in Migrator, NEW place \in {"away", "read", "apply"},
           Put(p, place)
    PROVE  /\ migrator' \in [Migrator -> {"away", "read", "apply"}]
           /\ migrator'[p] = place
           /\ \A q \in Migrator \ {p} : migrator'[q] = migrator[q]
BY DEF SchemaInv, Put

(* A migrator that gives up leaves the schema as it is.                    *)
LEMMA GiveUpKeepsSchema ==
    ASSUME SchemaInv, NEW p \in Migrator, UNCHANGED database,
           Put(p, "away"), todo' = [todo EXCEPT ![p] = {}],
           \/ p = "serve" /\ stage' = "down"
           \/ p # "serve" /\ UNCHANGED stage
    PROVE  SchemaInv'
<1>1. /\ migrator' \in [Migrator -> {"away", "read", "apply"}]
      /\ migrator'[p] = "away"
      /\ \A q \in Migrator \ {p} : migrator'[q] = migrator[q]
  BY PutTyped
<1>2. todo' \in [Migrator -> SUBSET Version]
  BY DEF SchemaInv
<1>3. Booting'
  BY <1>1 DEF SchemaInv, Booting, Migrator
<1>4. SuffixPending'
  BY <1>1 DEF SchemaInv, SuffixPending, database
<1>5. SchemaComplete' /\ stage' \in Stage
  BY DEF SchemaInv, SchemaComplete, Stage, database
<1>6. applied' \subseteq Version /\ bodies' \in [Version -> Nat] /\ InOrder' /\ BodiesRecorded'
  BY DEF SchemaInv, database, InOrder, BodiesRecorded
<1> QED
  BY <1>1, <1>2, <1>3, <1>4, <1>5, <1>6 DEF SchemaInv

(* So it does when the server is the one, and goes down with it.           *)
LEMMA GiveUpKeeps ==
    ASSUME CallersInv, SchemaInv, NEW p \in Migrator, migrator[p] # "away",
           GiveUp(p), UNCHANGED database
    PROVE  CallersInv' /\ SchemaInv'
<1>1. CASE p = "serve"
  <2>1. stage = "migrate" /\ Exit /\ UNCHANGED at
    BY <1>1 DEF SchemaInv, Booting, GiveUp
  <2>2. CallersInv'
    BY <2>1, ExitKeepsCallers DEF CallersInv, GuardInv, GuardTypeOK, Quiet, Early
  <2> QED
    BY <1>1, <2>1, <2>2, GiveUpKeepsSchema DEF GiveUp, Exit
<1>2. CASE p # "serve"
  <2>1. UNCHANGED <<guard, process>>
    BY <1>2 DEF GiveUp
  <2> QED
    BY <1>2, <2>1, CallersUnchanged, GiveUpKeepsSchema DEF GiveUp, process
<1> QED
  BY <1>1, <1>2

(* What a migrator reads as pending is a suffix of the versions.           *)
LEMMA ReadPendingKeeps ==
    ASSUME SchemaInv, NEW p \in Migrator, ReadPending(p)
    PROVE  SchemaInv'
<1>1. /\ migrator' \in [Migrator -> {"away", "read", "apply"}]
      /\ migrator'[p] = "apply"
      /\ \A q \in Migrator \ {p} : migrator'[q] = migrator[q]
  BY PutTyped DEF ReadPending
<1>2. todo' \in [Migrator -> SUBSET Version] /\ UNCHANGED <<stage, applied, bodies>>
  BY DEF SchemaInv, ReadPending, process, database
<1>3. Booting'
  BY <1>1, <1>2 DEF SchemaInv, Booting, Migrator, ReadPending
<1>4. SuffixPending'
  <2>1. PICK k \in 0 .. MaxVersion : applied = 1 .. k
    BY DEF SchemaInv, InOrder
  <2>2. /\ k + 1 \in Nat \ {0} /\ Version \ applied = (k + 1) .. MaxVersion
        /\ 1 .. ((k + 1) - 1) \subseteq applied
    BY <2>1, ServerAssumption DEF Version
  <2>3. todo'[p] = (k + 1) .. MaxVersion
    BY <2>2 DEF SchemaInv, ReadPending
  <2>4. \A q \in Migrator \ {p} : todo'[q] = todo[q]
    BY DEF SchemaInv, ReadPending
  <2> QED
    BY <1>1, <1>2, <2>2, <2>3, <2>4 DEF SchemaInv, SuffixPending
<1> QED
  BY <1>1, <1>2, <1>3, <1>4 DEF SchemaInv, InOrder, BodiesRecorded, SchemaComplete

(* The version that is applied next is the one after those applied, also   *)
(* when the other migrator was faster: its body and row are new.           *)
LEMMA DoneKeeps ==
    ASSUME SchemaInv, NEW p \in Migrator, NEW v \in todo[p],
           migrator[p] = "apply", \A w \in todo[p] : v <= w,
           v \notin applied, Done(p, v)
    PROVE  SchemaInv'
<1>1. PICK k \in 0 .. MaxVersion : applied = 1 .. k
  BY DEF SchemaInv, InOrder
<1>2. PICK m \in Nat \ {0} : todo[p] = m .. MaxVersion /\ 1 .. (m - 1) \subseteq applied
  BY DEF SchemaInv, SuffixPending
<1>3. v \in Version /\ v = m /\ m <= MaxVersion
  <2>1. m <= v /\ v <= MaxVersion /\ v \in Nat
    BY <1>2, ServerAssumption
  <2>2. m \in todo[p]
    BY <1>2, <2>1, ServerAssumption
  <2>3. v <= m
    BY <2>2
  <2> QED
    BY <2>1, <2>3, ServerAssumption DEF Version
<1>4. k = m - 1
  <2>1. ~(m <= k)
    BY <1>1, <1>3
  <2>2. m - 1 <= k
    <3>1. CASE m = 1
      BY <1>1, <3>1
    <3>2. CASE m # 1
      <4>1. m - 1 \in 1 .. (m - 1)
        BY <1>2, <3>2
      <4> QED
        BY <1>1, <1>2, <4>1
    <3> QED
      BY <3>1, <3>2
  <2> QED
    BY <1>1, <1>2, <2>1, <2>2
<1>5. applied' = 1 .. m /\ applied' \subseteq Version
  BY <1>1, <1>3, <1>4, ServerAssumption DEF Done, Version
<1>6. InOrder'
  BY <1>3, <1>5, ServerAssumption DEF InOrder
<1>7. bodies' \in [Version -> Nat] /\ BodiesRecorded'
  <2>1. bodies[v] = 0
    BY <1>3 DEF SchemaInv, BodiesRecorded
  <2>2. bodies' = [bodies EXCEPT ![v] = 1]
    BY <2>1 DEF Done
  <2> QED
    BY <1>3, <2>2 DEF SchemaInv, BodiesRecorded, Done
<1>8. UNCHANGED <<stage, migrator>> /\ todo' = [todo EXCEPT ![p] = @ \ {v}]
  BY DEF Done, process
<1>9. todo' \in [Migrator -> SUBSET Version]
  BY <1>8 DEF SchemaInv
<1>10. SuffixPending'
  <2> SUFFICES ASSUME NEW q \in Migrator, migrator[q] = "apply"
               PROVE  \E n \in Nat \ {0} : /\ todo'[q] = n .. MaxVersion
                                            /\ 1 .. (n - 1) \subseteq applied'
    BY <1>8 DEF SuffixPending
  <2>1. CASE q = p
    <3>1. todo'[p] = (m + 1) .. MaxVersion
      BY <1>2, <1>3, <1>8, ServerAssumption DEF SchemaInv
    <3>2. m + 1 \in Nat \ {0} /\ 1 .. ((m + 1) - 1) \subseteq applied'
      BY <1>2, <1>5
    <3> QED
      BY <2>1, <3>1, <3>2
  <2>2. CASE q # p
    <3>1. PICK n \in Nat \ {0} : todo[q] = n .. MaxVersion /\ 1 .. (n - 1) \subseteq applied
      BY DEF SchemaInv, SuffixPending
    <3>2. todo'[q] = todo[q] /\ applied \subseteq applied'
      BY <1>8, <2>2 DEF SchemaInv, Done
    <3> QED
      BY <3>1, <3>2
  <2> QED
    BY <2>1, <2>2
<1>11. SchemaComplete'
  BY <1>5, <1>8 DEF SchemaInv, SchemaComplete, Done
<1> QED
  BY <1>5, <1>6, <1>7, <1>8, <1>9, <1>10, <1>11 DEF SchemaInv, Booting

(* A migration, applied or failed, keeps the invariant.                    *)
LEMMA ApplyKeeps ==
    ASSUME ServerInv, NEW p \in Migrator, Apply(p)
    PROVE  CallersInv' /\ SchemaInv' /\ Bookkeeping'
<1> USE InvParts
<1>1. PICK v \in todo[p] : /\ \A w \in todo[p] : v <= w
                           /\ IF v \in applied \/ bodies[v] > 0 \/ (p = "serve" /\ stopping)
                              THEN Fine /\ UNCHANGED database /\ GiveUp(p)
                              ELSE Commit(p, v)
  BY DEF Apply
<1>2. migrator[p] = "apply"
  BY DEF Apply
<1>3. CASE UNCHANGED database /\ GiveUp(p)
  <2>1. CallersInv' /\ SchemaInv'
    BY <1>2, <1>3, GiveUpKeeps
  <2>2. stopping' = FALSE \/ UNCHANGED stopping
    BY <1>3 DEF GiveUp, Exit, process
  <2>3. stopping' \in BOOLEAN
    BY <2>2, Zenon DEF Bookkeeping
  <2>4. faults' \in 0 .. MaxFaults
    BY <1>1, FaultTyped DEF Commit, Done, Bookkeeping
  <2> QED
    BY <2>1, <2>3, <2>4 DEF Bookkeeping
<1>4. CASE v \notin applied /\ Done(p, v)
  <2>1. SchemaInv'
    BY <1>1, <1>2, <1>4, DoneKeeps
  <2>2. UNCHANGED <<guard, process>>
    BY <1>4 DEF Done
  <2>3. CallersInv'
    BY <2>2, CallersUnchanged DEF process
  <2>4. stopping' \in BOOLEAN
    BY <2>2, Zenon DEF process, Bookkeeping
  <2>5. faults' \in 0 .. MaxFaults
    BY <1>4, FaultTyped DEF Done, Bookkeeping
  <2> QED
    BY <2>1, <2>3, <2>4, <2>5 DEF Bookkeeping
<1> QED
  BY <1>1, <1>3, <1>4 DEF Commit

(* A migrator that has nothing left has seen every version applied.        *)
LEMMA MigratedKeeps ==
    ASSUME CallersInv, SchemaInv, NEW p \in Migrator, Migrated(p)
    PROVE  CallersInv' /\ SchemaInv'
<1>1. /\ migrator' \in [Migrator -> {"away", "read", "apply"}]
      /\ migrator'[p] = "away"
      /\ \A q \in Migrator \ {p} : migrator'[q] = migrator[q]
  BY PutTyped DEF Migrated
<1>2. UNCHANGED <<guard, todo, applied, bodies>>
  BY DEF Migrated, database
<1>3. applied = Version
  <2>1. PICK m \in Nat \ {0} : todo[p] = m .. MaxVersion /\ 1 .. (m - 1) \subseteq applied
    BY DEF SchemaInv, SuffixPending, Migrated
  <2>2. m > MaxVersion
    <3>1. m .. MaxVersion = {}
      BY <2>1 DEF Migrated
    <3>2. m <= MaxVersion => m \in m .. MaxVersion
      BY ServerAssumption
    <3> QED
      BY <3>1, <3>2, ServerAssumption
  <2>3. Version \subseteq 1 .. (m - 1)
    BY <2>1, <2>2, ServerAssumption DEF Version
  <2> QED
    BY <2>1, <2>3 DEF SchemaInv
<1>4. CallersInv'
  <2>1. stage' \in Early => stage \in Early
    BY DEF SchemaInv, Booting, Migrated, Early
  <2> QED
    BY <1>2, <2>1, CallersUnchanged
<1>5. stage' \in Stage /\ SchemaComplete'
  BY <1>2, <1>3 DEF SchemaInv, Migrated, Stage, SchemaComplete
<1>6. Booting'
  BY <1>1 DEF SchemaInv, Booting, Migrated, Migrator
<1>7. SuffixPending'
  BY <1>1, <1>2 DEF SchemaInv, SuffixPending
<1> QED
  BY <1>1, <1>2, <1>4, <1>5, <1>6, <1>7 DEF SchemaInv, InOrder, BodiesRecorded

-----------------------------------------------------------------------------
(* Steps that leave the migrators and their tables alone.                  *)
LEMMA StageKeepsSchema ==
    ASSUME SchemaInv, UNCHANGED <<database, pending>>, stage' \in Stage,
           stage = "migrate" => UNCHANGED stage,
           stage = "down" => UNCHANGED stage
    PROVE  SchemaInv'
BY DEF SchemaInv, database, pending, Booting, InOrder, BodiesRecorded,
   SuffixPending, SchemaComplete

(* A call of a loop or of a handler, once they may call.                   *)
LEMMA MoveKeepsCallers ==
    ASSUME CallersInv, NEW c \in Caller, Elsewhere,
           \/ CallStep(c) /\ at[c] # "off"
           \/ \E from, to \in {"off", "idle", "back"} :
                 Go(c, from, to) /\ UNCHANGED <<permits, breaker, failed, ages>>
    PROVE  CallersInv' \/ stage \in Early
<1> SUFFICES ASSUME stage \notin Early PROVE CallersInv'
  OBVIOUS
<1>1. GuardInv'
  <2>1. CASE CallStep(c)
    BY <2>1, CallKeepsGuard DEF CallersInv
  <2>2. CASE \E from, to \in {"off", "idle", "back"} :
               Go(c, from, to) /\ UNCHANGED <<permits, breaker, failed, ages>>
    <3>1. at' \in [Caller -> Place] /\ PermitsBalance'
      BY <2>2, BalanceKept DEF CallersInv, HolderPlace, Place
    <3> QED
      BY <2>2, <3>1 DEF CallersInv, GuardInv, GuardTypeOK, breaker
  <2> QED
    BY <2>1, <2>2
<1> QED
  BY <1>1 DEF CallersInv, Quiet, Elsewhere, process

(* Loops and handlers: calls, cancellations, and the ends of passes and    *)
(* requests.                                                               *)
CallerStep ==
    \/ \E h \in Handler : Request(h)
    \/ \E l \in Loop : LoopEnds(l)
    \/ \E c \in Caller : Calls(c) \/ Cancelled(c) \/ Return(c)

(* The steps of loops and handlers keep theirs and touch nothing else.     *)
LEMMA CallersStepKeeps ==
    ASSUME CallersInv, CallerStep
    PROVE  CallersInv' /\ Elsewhere
<1> USE ServerAssumption
<1>1. ASSUME NEW h \in Handler, Request(h) PROVE CallersInv' /\ Elsewhere
  BY <1>1, MoveKeepsCallers DEF Request, Early
<1>2. ASSUME NEW l \in Loop, LoopEnds(l) PROVE CallersInv' /\ Elsewhere
  <2>1. stage \notin Early
    BY <1>2 DEF CallersInv, Quiet, LoopEnds, Go
  <2> QED
    BY <1>2, <2>1, MoveKeepsCallers DEF LoopEnds
<1>3. ASSUME NEW c \in Caller, Calls(c) \/ Cancelled(c) PROVE CallersInv' /\ Elsewhere
  <2>1. CallStep(c) /\ Elsewhere
    BY <1>3 DEF Calls, Cancelled, CallStep
  <2>2. at[c] # "off"
    BY <1>3 DEF Calls, Cancelled, Cancel, Acquire, Permit, Recheck, Succeed,
       Failure, Release, Go
  <2>3. stage \notin Early
    BY <2>2 DEF CallersInv, Quiet
  <2> QED
    BY <2>1, <2>2, <2>3, MoveKeepsCallers
<1>4. ASSUME NEW c \in Caller, Return(c) PROVE CallersInv' /\ Elsewhere
  <2>1. stage \notin Early
    BY <1>4 DEF CallersInv, Quiet, Return, Go
  <2> QED
    BY <1>4, <2>1, MoveKeepsCallers DEF Return
<1> QED
  BY <1>1, <1>2, <1>3, <1>4 DEF CallerStep

(* The end of runServe, and its stages.                                    *)
LEMMA WireKeeps ==
    ASSUME ServerInv, Wire
    PROVE  CallersInv' /\ SchemaInv'
<1> USE InvParts
<1>1. SchemaInv'
  BY StageKeepsSchema DEF Wire, Exit, Stage
<1>2. CASE Exit /\ UNCHANGED at
  BY <1>1, <1>2, ExitKeepsCallers DEF CallersInv, GuardInv, GuardTypeOK, Quiet, Early, Wire
<1>3. CASE /\ stage' = "serve" /\ UNCHANGED <<permits, breaker, failed, ages>>
           /\ at' = [c \in Caller |-> IF c \in Loop THEN "idle" ELSE "off"]
  <2>1. Holders = {} /\ Holders' = {}
    BY <1>3 DEF CallersInv, Quiet, Early, Wire, Holders
  <2>2. PermitsBalance'
    BY <1>3, <2>1 DEF CallersInv, GuardInv, PermitsBalance
  <2>3. GuardTypeOK'
    BY <1>3 DEF CallersInv, GuardInv, GuardTypeOK, Place, breaker
  <2> QED
    BY <1>1, <1>3, <2>2, <2>3 DEF CallersInv, GuardInv, Quiet, Early
<1> QED
  BY <1>2, <1>3 DEF Wire

(* The process closes after its loops have ended.                          *)
LEMMA CloseKeeps ==
    ASSUME ServerInv, Close
    PROVE  CallersInv' /\ SchemaInv'
<1> USE InvParts
<1>1. SchemaInv'
  BY StageKeepsSchema DEF Close, Exit, Stage
<1>2. at' \in [Caller -> Place] /\ \A c \in Caller : at'[c] = "off"
  BY ServerAssumption DEF Close, CallersInv, GuardInv, GuardTypeOK, Place
<1> QED
  BY <1>1, <1>2, ExitKeepsCallers DEF Close, CallersInv

(* A kill takes the callers with it and leaves the schema.                 *)
LEMMA CrashKeeps ==
    ASSUME ServerInv, Crash
    PROVE  CallersInv' /\ SchemaInv'
<1> USE InvParts
<1>1. CASE /\ Exit /\ at' = [c \in Caller |-> "off"]
           /\ Put("serve", "away") /\ todo' = [todo EXCEPT !["serve"] = {}]
  <2>1. SchemaInv'
    BY <1>1, GiveUpKeepsSchema DEF Crash, Exit, Migrator
  <2>2. at' \in [Caller -> Place] /\ \A c \in Caller : at'[c] = "off"
    BY <1>1 DEF Place
  <2> QED
    BY <1>1, <2>1, <2>2, ExitKeepsCallers DEF CallersInv
<1>2. CASE migrator["migrate up"] # "away" /\ GiveUp("migrate up")
  BY <1>2, GiveUpKeeps DEF Crash, Migrator
<1> QED
  BY <1>1, <1>2 DEF Crash

(* The bounds and the signal keep their types.                             *)
LEMMA StepKeepsBooks ==
    ASSUME ServerInv, Next
    PROVE  Bookkeeping'
<1> USE InvParts
<1>1. CASE \E p \in Migrator : Apply(p)
  BY <1>1, ApplyKeeps
<1>2. CASE \/ Boot \/ MigrateCommand \/ Tick \/ CallerStep
           \/ \E p \in Migrator : ReadPending(p) \/ Migrated(p)
  <2>1. UNCHANGED <<stopping, faults>>
    BY <1>2 DEF Boot, MigrateCommand, Tick, CallerStep, ReadPending, Migrated, Request,
       LoopEnds, Calls, Cancelled, Return, Elsewhere, process
  <2>2. stopping' \in BOOLEAN
    BY <2>1, Zenon DEF Bookkeeping
  <2> QED
    BY <2>1, <2>2 DEF Bookkeeping
<1>3. CASE Wire \/ Signal \/ Listening \/ Drain \/ Close \/ Crash
  <2>1. stopping' = FALSE \/ stopping' = TRUE \/ UNCHANGED stopping
    BY <1>3 DEF Wire, Signal, Listening, Drain, Close, Crash, Exit, GiveUp, process
  <2>2. stopping' \in BOOLEAN
    BY <2>1, Zenon DEF Bookkeeping
  <2>3. faults' \in 0 .. MaxFaults
    BY <1>3, FaultTyped DEF Wire, Signal, Listening, Drain, Close, Crash, Fine, Bookkeeping
  <2> QED
    BY <2>2, <2>3 DEF Bookkeeping
<1> QED
  BY <1>1, <1>2, <1>3 DEF Next, Migrate, CallerStep

(* Every step keeps the invariant.                                         *)
LEMMA NextKeepsInv == ServerInv /\ [Next]_vars => ServerInv'
<1> SUFFICES ASSUME ServerInv, [Next]_vars
             PROVE  CallersInv' /\ SchemaInv' /\ Bookkeeping'
  BY DEF ServerInv, CallersInv, SchemaInv, Bookkeeping, GuardInv, TypeOK
<1> USE InvParts
<1>1. CASE Boot
  <2>1. CallersInv'
    BY <1>1, CallersUnchanged DEF Boot, Early
  <2>2. /\ migrator' \in [Migrator -> {"away", "read", "apply"}]
        /\ migrator'["serve"] = "read"
        /\ \A q \in Migrator \ {"serve"} : migrator'[q] = migrator[q]
    BY <1>1, PutTyped DEF Boot, Migrator
  <2>3. SchemaInv'
    BY <1>1, <2>2 DEF Boot, SchemaInv, database, Stage, Booting, InOrder,
       BodiesRecorded, SuffixPending, SchemaComplete
  <2> QED
    BY <1>1, <2>1, <2>3, StepKeepsBooks DEF Next
<1>2. CASE MigrateCommand
  <2>1. CallersInv'
    BY <1>2, CallersUnchanged DEF MigrateCommand, process
  <2>2. /\ migrator' \in [Migrator -> {"away", "read", "apply"}]
        /\ migrator'["migrate up"] = "read"
        /\ \A q \in Migrator \ {"migrate up"} : migrator'[q] = migrator[q]
    BY <1>2, PutTyped DEF MigrateCommand, Migrator
  <2>3. SchemaInv'
    BY <1>2, <2>2 DEF MigrateCommand, SchemaInv, database, process, Migrator, Booting,
       InOrder, BodiesRecorded, SuffixPending, SchemaComplete
  <2> QED
    BY <1>2, <2>1, <2>3, StepKeepsBooks DEF Next
<1>3. ASSUME NEW p \in Migrator, Migrate(p)
      PROVE  CallersInv' /\ SchemaInv' /\ Bookkeeping'
  <2>1. CASE ReadPending(p)
    <3>1. CallersInv'
      BY <2>1, CallersUnchanged DEF ReadPending, process
    <3> QED
      BY <1>3, <2>1, <3>1, ReadPendingKeeps, StepKeepsBooks DEF Next
  <2>2. CASE Apply(p)
    BY <2>2, ApplyKeeps
  <2>3. CASE Migrated(p)
    BY <1>3, <2>3, MigratedKeeps, StepKeepsBooks DEF Next
  <2> QED
    BY <1>3, <2>1, <2>2, <2>3 DEF Migrate
<1>4. CASE Wire
  BY <1>4, WireKeeps, StepKeepsBooks DEF Next
<1>5. CASE Signal
  <2>1. UNCHANGED stage
    BY <1>5 DEF Signal
  <2>2. CallersInv' /\ SchemaInv'
    BY <1>5, <2>1, CallersUnchanged, StageKeepsSchema DEF Signal, SchemaInv
  <2> QED
    BY <1>5, <2>2, StepKeepsBooks DEF Next
<1>6. CASE Listening \/ Drain
  <2>1. stage \in {"serve", "drain"} /\ stage' \in {"drain", "wait"}
    BY <1>6 DEF Listening, Drain
  <2>2. CallersInv' /\ SchemaInv'
    BY <1>6, <2>1, CallersUnchanged, StageKeepsSchema DEF Listening, Drain, Early, Stage
  <2> QED
    BY <1>6, <2>2, StepKeepsBooks DEF Next
<1>7. CASE Close
  BY <1>7, CloseKeeps, StepKeepsBooks DEF Next
<1>8. CASE Crash
  BY <1>8, CrashKeeps, StepKeepsBooks DEF Next
<1>9. CASE Tick
  <2>1. GuardInv' /\ UNCHANGED at
    BY <1>9, TickKeepsGuard DEF Tick, GuardTick, CallersInv
  <2>2. CallersInv'
    BY <1>9, <2>1 DEF Tick, Elsewhere, process, CallersInv, Quiet
  <2> QED
    BY <1>9, <2>2, SchemaUnchanged, StepKeepsBooks DEF Tick, Next
<1>10. CASE CallerStep
  BY <1>10, CallersStepKeeps, SchemaUnchanged, StepKeepsBooks DEF Next, CallerStep
<1>11. CASE UNCHANGED vars
  <2>1. CallersInv' /\ SchemaInv'
    BY <1>11, CallersUnchanged, SchemaUnchanged DEF vars, Elsewhere, process
  <2>2. stopping' \in BOOLEAN
    BY <1>11, Zenon DEF vars, process, Bookkeeping
  <2>3. faults' \in 0 .. MaxFaults
    BY <1>11 DEF vars, Bookkeeping
  <2> QED
    BY <2>1, <2>2, <2>3 DEF Bookkeeping
<1> QED
  BY <1>1, <1>2, <1>3, <1>4, <1>5, <1>6, <1>7, <1>8, <1>9, <1>10, <1>11
  DEF Next, CallerStep

(* The invariant of the process, the guard and the migrations.             *)
THEOREM InvHolds == Spec => []ServerInv
BY InitInv, NextKeepsInv, PTL DEF Spec

-----------------------------------------------------------------------------
(* Every variable of the process, the guard and the tables has its type.   *)
THEOREM TypeCorrect == Spec => []TypeOK
<1>1. ServerInv => TypeOK
  BY DEF ServerInv
<1> QED
  BY <1>1, InvHolds, PTL

(* A docker call gives its permit back on every way out and only once, for *)
(* any number of loops, handlers and permits, refusals after the wait,     *)
(* cancellations and restarts.                                             *)
THEOREM PermitsAreGivenBack == Spec => []PermitsBalance
<1>1. ServerInv => PermitsBalance
  BY DEF ServerInv
<1> QED
  BY <1>1, InvHolds, PTL

(* For any number of migrations: they take effect in order and once each,  *)
(* with their rows, through races of the server and the command, failures  *)
(* and kills, and nobody calls docker before all of them are applied.      *)
THEOREM MigrationsOnce == Spec => []MigratedOnce
<1>1. ServerInv => MigratedOnce
  BY DEF ServerInv, Quiet, Early, TypeOK, Stage, SchemaComplete, BodiesRecorded, MigratedOnce
<1> QED
  BY <1>1, InvHolds, PTL

(* When the process is down, and its database closed, no loop is alive.    *)
THEOREM LoopsEndBeforeClose == Spec => []LoopsEndFirst
<1>1. ServerInv => LoopsEndFirst
  BY ServerAssumption DEF ServerInv, Quiet, Early, LoopsEndFirst
<1> QED
  BY <1>1, InvHolds, PTL

-----------------------------------------------------------------------------
(* How many failures a cooldown can see.                                   *)
Calling == {c \in Caller : at[c] = "calling"}

OldestFirst == \A i, j \in DOMAIN ages : i <= j => ages[i] >= ages[j]

(* The failures counted are the newest, the first of them as old as the    *)
(* window.                                                                 *)
WindowInv ==
    /\ failures <= Len(ages)
    /\ window = None => failures = 0
    /\ window # None => failures > 0 /\ ages[Len(ages) - failures + 1] = window

(* Before the window all but a few failures are old.                       *)
ClosedInv ==
    pause = None =>
        /\ failures < FailureLimit
        /\ \A k \in DOMAIN ages : k + Before <= Len(ages) - failures => ages[k] = Cooldown

(* Under a pause only the calls under way can fail: with each of them the  *)
(* burst stays bounded, and those younger than the pause are no more than  *)
(* have ended since.                                                       *)
PausedInv ==
    pause # None =>
        /\ Cardinality(Calling) < MaxConcurrent
        /\ \A k \in DOMAIN ages :
              /\ k + Burst - Cardinality(Calling) <= Len(ages) => ages[k] = Cooldown
              /\ k + MaxConcurrent - 1 - Cardinality(Calling) <= Len(ages)
                    => ages[k] + pause >= Cooldown

BurstInv == OldestFirst /\ WindowInv /\ ClosedInv /\ PausedInv

(* The bounds of the burst, as numbers.                                    *)
LEMMA BurstFacts ==
    /\ Before \in Int /\ Before >= FailureLimit - 2 /\ Before >= MaxConcurrent - 1
    /\ Before >= 0 /\ Burst = Before + FailureLimit + MaxConcurrent - 1
<1>1. FailureLimit \in Nat /\ FailureLimit > 1 /\ MaxConcurrent \in Nat /\ MaxConcurrent > 0
  BY GuardAssumption
<1> DEFINE a == FailureLimit - 2
           b == MaxConcurrent - 1
<1>2. a \in Int /\ b \in Int /\ a >= 0
  BY <1>1
<1> HIDE DEF a, b
<1>3. \E x \in {a, b} : \A y \in {a, b} : x >= y
  BY <1>2
<1>4. Before = Max({a, b})
  BY DEF Before, a, b
<1>5. Before \in {a, b} /\ Before >= a /\ Before >= b
  BY <1>3, <1>4 DEF Max
<1>6. Before \in Int /\ Before >= 0
  BY <1>2, <1>5
<1> QED
  BY <1>5, <1>6 DEF a, b, Burst

(* The types of the guard, as the lemmas below need them.                  *)
LEMMA AgesFacts ==
    ASSUME GuardTypeOK
    PROVE  /\ ages \in Seq(Age) /\ Len(ages) \in Nat /\ DOMAIN ages = 1 .. Len(ages)
           /\ \A k \in DOMAIN ages : ages[k] \in 0 .. Cooldown
           /\ failures \in Nat
           /\ window \in {None} \cup 0 .. Cooldown /\ pause \in {None} \cup 0 .. Cooldown
<1>1. ages \in Seq(Age)
  BY DEF GuardTypeOK
<1>2. Len(ages) \in Nat /\ DOMAIN ages = 1 .. Len(ages) /\ \A k \in DOMAIN ages : ages[k] \in Age
  BY <1>1
<1> QED
  BY <1>1, <1>2 DEF GuardTypeOK, Age

(* The calls under way can be counted.                                     *)
LEMMA CallingFinite == IsFiniteSet(Calling) /\ Cardinality(Calling) \in Nat
<1>1. IsFiniteSet(Calling)
  BY GuardAssumption, FS_Subset DEF Calling
<1> QED
  BY <1>1, FS_CardinalityType

(* A step in which no call reaches the daemon or fails.                    *)
LEMMA RestKeepsBurst ==
    ASSUME GuardTypeOK, BurstInv, UNCHANGED <<breaker, ages>>, Calling' \subseteq Calling
    PROVE  BurstInv'
<1>1. Cardinality(Calling') \in Nat /\ Cardinality(Calling') <= Cardinality(Calling)
  BY CallingFinite, FS_Subset, FS_CardinalityType
<1>2. UNCHANGED <<failures, window, pause>>
  BY DEF breaker
<1>3. OldestFirst' /\ WindowInv' /\ ClosedInv'
  BY <1>2 DEF BurstInv, OldestFirst, WindowInv, ClosedInv
<1>4. PausedInv'
  <2>1. Len(ages) \in Nat /\ DOMAIN ages = 1 .. Len(ages) /\ Cardinality(Calling) \in Nat
    BY AgesFacts, CallingFinite
  <2>2. Burst \in Int /\ MaxConcurrent \in Nat
    BY BurstFacts, GuardAssumption
  <2>3. ASSUME pause # None
        PROVE  /\ Cardinality(Calling') < MaxConcurrent
               /\ \A k \in DOMAIN ages :
                     /\ k + Burst - Cardinality(Calling') <= Len(ages) => ages[k] = Cooldown
                     /\ k + MaxConcurrent - 1 - Cardinality(Calling') <= Len(ages)
                           => ages[k] + pause >= Cooldown
    <3>1. /\ Cardinality(Calling) < MaxConcurrent
          /\ \A k \in DOMAIN ages :
                /\ k + Burst - Cardinality(Calling) <= Len(ages) => ages[k] = Cooldown
                /\ k + MaxConcurrent - 1 - Cardinality(Calling) <= Len(ages)
                      => ages[k] + pause >= Cooldown
      BY <2>3 DEF BurstInv, PausedInv
    <3>2. ASSUME NEW k \in DOMAIN ages
          PROVE  /\ k + Burst - Cardinality(Calling') <= Len(ages)
                       => k + Burst - Cardinality(Calling) <= Len(ages)
                 /\ k + MaxConcurrent - 1 - Cardinality(Calling') <= Len(ages)
                       => k + MaxConcurrent - 1 - Cardinality(Calling) <= Len(ages)
      BY <1>1, <2>1, <2>2
    <3>3. Cardinality(Calling') < MaxConcurrent
      BY <1>1, <2>1, <2>2, <3>1
    <3> QED
      BY <3>1, <3>2, <3>3
  <2> QED
    BY <1>2, <2>3 DEF PausedInv
<1> QED
  BY <1>3, <1>4 DEF BurstInv

(* A window that ran its whole length is old but for all its failures but  *)
(* the first.                                                              *)
LEMMA WindowOver ==
    ASSUME GuardTypeOK, BurstInv, pause = None, window = Cooldown,
           NEW k \in DOMAIN ages, k + Before <= Len(ages)
    PROVE  ages[k] = Cooldown
<1> DEFINE first == Len(ages) - failures + 1
<1>1. /\ failures <= Len(ages) /\ failures > 0 /\ ages[first] = Cooldown
      /\ failures < FailureLimit
  BY GuardAssumption DEF BurstInv, WindowInv, ClosedInv, None
<1>2. /\ Len(ages) \in Nat /\ k \in 1 .. Len(ages) /\ failures \in Nat
      /\ FailureLimit \in Nat /\ Before \in Int /\ Before >= FailureLimit - 2
  BY AgesFacts, BurstFacts, GuardAssumption
<1>3. k <= first /\ first \in 1 .. Len(ages)
  BY <1>1, <1>2
<1>4. ages[k] >= ages[first]
  BY <1>3, AgesFacts DEF BurstInv, OldestFirst
<1>5. ages[k] \in 0 .. Cooldown /\ Cooldown \in Nat
  BY AgesFacts, GuardAssumption
<1> QED
  BY <1>1, <1>4, <1>5

(* A check that finds the guard closed, or closes it.                      *)
LEMMA CheckKeepsBurst ==
    ASSUME GuardTypeOK, BurstInv, CheckClosed, UNCHANGED ages
    PROVE  BurstInv'
<1>1. /\ Len(ages) \in Nat /\ DOMAIN ages = 1 .. Len(ages) /\ failures \in Nat
      /\ Cooldown \in Nat \ {0} /\ FailureLimit \in Nat \ {0, 1}
  BY AgesFacts, GuardAssumption
<1>2. pause \in {None, 0}
  BY AgesFacts DEF CheckClosed, Open, None
<1>3. OldestFirst'
  BY DEF BurstInv, OldestFirst
<1>4. CASE Expired
  <2>1. failures' = 0 /\ window' = None /\ pause' = None
    BY <1>4 DEF CheckClosed
  <2>2. ASSUME NEW k \in DOMAIN ages, k + Before <= Len(ages)
        PROVE  ages[k] = Cooldown
    <3>1. CASE pause = None
      <4>1. window = Cooldown
        BY <1>4, <3>1 DEF Expired, None
      <4> QED
        BY <2>2, <3>1, <4>1, WindowOver
    <3>2. CASE pause = 0
      <4> DEFINE q == Cardinality(Calling)
      <4>1. q \in Nat /\ MaxConcurrent \in Nat /\ Before \in Int /\ Before >= MaxConcurrent - 1
        BY CallingFinite, GuardAssumption, BurstFacts
      <4>2. k + MaxConcurrent - 1 - q <= Len(ages)
        <5> HIDE DEF q
        <5> QED
          BY <1>1, <2>2, <4>1
      <4>3. ages[k] + 0 >= Cooldown
        BY <3>2, <4>2 DEF BurstInv, PausedInv, None
      <4>4. ages[k] \in 0 .. Cooldown
        BY AgesFacts
      <4> QED
        BY <1>1, <4>3, <4>4
    <3> QED
      BY <1>2, <3>1, <3>2
  <2>3. ClosedInv'
    <3>1. \A k \in DOMAIN ages : k + Before <= Len(ages) - 0 => ages[k] = Cooldown
      BY <1>1, <2>2
    <3> QED
      BY <1>1, <2>1, <3>1 DEF ClosedInv
  <2>4. WindowInv' /\ PausedInv'
    BY <1>1, <2>1 DEF WindowInv, PausedInv
  <2> QED
    BY <1>3, <2>3, <2>4 DEF BurstInv
<1>5. CASE ~Expired
  <2>1. UNCHANGED breaker /\ pause = None
    BY <1>2, <1>5 DEF CheckClosed, Expired
  <2>2. WindowInv' /\ ClosedInv' /\ PausedInv'
    BY <2>1 DEF breaker, BurstInv, WindowInv, ClosedInv, PausedInv
  <2> QED
    BY <1>3, <2>2 DEF BurstInv
<1> QED
  BY <1>4, <1>5

(* A call that fails is one less under way.                                *)
LEMMA FailureKeepsBurst ==
    ASSUME GuardInv, BurstInv, NEW c \in Caller, Failure(c)
    PROVE  BurstInv'
<1> DEFINE n == Len(ages)
           q == Cardinality(Calling)
           anew == window = None \/ window = Cooldown
           count == IF anew THEN 1 ELSE failures + 1
<1>1. GuardTypeOK
  BY DEF GuardInv
<1>2. /\ n \in Nat /\ DOMAIN ages = 1 .. n /\ failures \in Nat
      /\ \A k \in 1 .. n : ages[k] \in 0 .. Cooldown
      /\ Cooldown \in Nat \ {0} /\ FailureLimit \in Nat \ {0, 1} /\ MaxConcurrent \in Nat \ {0}
  BY <1>1, AgesFacts, GuardAssumption
<1>3. /\ failures' = count
      /\ window' = IF anew THEN 0 ELSE window
      /\ pause' = IF count >= FailureLimit THEN Cooldown ELSE pause
      /\ ages' = Append(ages, 0)
  BY DEF Failure, Fail
<1>4. /\ Len(ages') = n + 1 /\ DOMAIN ages' = 1 .. n + 1
      /\ \A k \in 1 .. n : ages'[k] = ages[k]
      /\ ages'[n + 1] = 0
  <2>1. ages \in Seq(Age) /\ 0 \in Age
    BY <1>1, <1>2, AgesFacts DEF Age
  <2> QED
    BY <1>3, <2>1
<1>5. /\ q \in Nat /\ Cardinality(Calling') \in Nat /\ Cardinality(Calling') = q - 1
      /\ q <= MaxConcurrent
  <2>1. c \in Calling /\ Calling' = Calling \ {c}
    BY <1>1 DEF Failure, Go, Calling, GuardTypeOK
  <2>2. Cardinality(Calling') = q - 1 /\ IsFiniteSet(Calling')
    BY <2>1, CallingFinite, FS_RemoveElement
  <2>3. Calling \subseteq Holders
    BY DEF Calling, Holders
  <2>4. q <= Cardinality(Holders) /\ Cardinality(Holders) <= MaxConcurrent
    BY <2>3, HoldersFinite, FS_Subset DEF GuardInv, PermitsBalance
  <2>5. q \in Nat /\ Cardinality(Calling') \in Nat
    BY <2>2, CallingFinite, FS_CardinalityType
  <2> HIDE DEF q
  <2>6. Cardinality(Holders) \in Nat
    BY HoldersFinite
  <2> QED
    BY <1>2, <2>2, <2>4, <2>5, <2>6
<1>6. /\ Before \in Int /\ Before >= 0 /\ Burst \in Int
      /\ Burst = Before + FailureLimit + MaxConcurrent - 1
  BY BurstFacts, <1>2
<1>7. OldestFirst'
  <2>1. \A i, j \in 1 .. n : i <= j => ages[i] >= ages[j]
    BY <1>2 DEF BurstInv, OldestFirst
  <2>2. ASSUME NEW i \in 1 .. n + 1, NEW j \in 1 .. n + 1, i <= j
        PROVE  ages'[i] >= ages'[j]
    <3> HIDE DEF n
    <3>1. CASE j = n + 1
      <4>1. ages'[i] \in Nat /\ ages'[j] = 0
        BY <1>2, <1>4, <3>1
      <4> QED
        BY <4>1
    <3>2. CASE j # n + 1
      <4>1. i \in 1 .. n /\ j \in 1 .. n
        BY <1>2, <2>2, <3>2
      <4> QED
        BY <1>4, <2>1, <2>2, <4>1
    <3> QED
      BY <3>1, <3>2
  <2> QED
    BY <1>4, <2>2 DEF OldestFirst
<1>8. /\ failures <= n
      /\ window = None => failures = 0
      /\ window # None => failures > 0 /\ ages[n - failures + 1] = window
  BY DEF BurstInv, WindowInv
<1> HIDE DEF n, q
<1>9. WindowInv'
  <2>1. CASE anew
    <3>1. failures' = 1 /\ window' = 0
      BY <1>3, <2>1
    <3>2. n + 1 - 1 + 1 = n + 1 /\ 1 <= n + 1
      BY <1>2
    <3>3. 0 # None
      BY DEF None
    <3> QED
      BY <1>4, <3>1, <3>2, <3>3 DEF WindowInv
  <2>2. CASE ~anew
    <3>1. failures' = failures + 1 /\ window' = window /\ window # None
      BY <1>3, <2>2
    <3>2. /\ n + 1 - (failures + 1) + 1 = n - failures + 1 /\ failures + 1 <= n + 1
          /\ n - failures + 1 \in 1 .. n /\ failures + 1 > 0
      BY <1>2, <1>8, <3>1
    <3>3. ages'[n - failures + 1] = window
      BY <1>4, <1>8, <3>1, <3>2
    <3>4. /\ Len(ages') - failures' + 1 = n - failures + 1
          /\ failures' <= Len(ages') /\ failures' > 0
      BY <1>2, <1>4, <3>1, <3>2
    <3> QED
      BY <3>1, <3>3, <3>4 DEF WindowInv
  <2> QED
    BY <2>1, <2>2
<1>10. ClosedInv'
  <2> SUFFICES ASSUME pause' = None
               PROVE  /\ count < FailureLimit
                      /\ \A k \in 1 .. n + 1 : k + Before <= n + 1 - count => ages'[k] = Cooldown
    <3>1. failures' = count /\ Len(ages') = n + 1 /\ DOMAIN ages' = 1 .. n + 1
      BY <1>3, <1>4
    <3>2. count \in Nat /\ n \in Nat /\ Before \in Int
      BY <1>2, <1>6
    <3> HIDE DEF count
    <3> QED
      BY <3>1, <3>2 DEF ClosedInv
  <2>1. count \in Nat
    BY <1>2
  <2>2. count < FailureLimit /\ pause = None
    <3>1. Cooldown # None
      BY <1>2 DEF None
    <3>2. ~(count >= FailureLimit) /\ pause = None
      BY <1>3, <3>1
    <3> HIDE DEF count
    <3> QED
      BY <1>2, <2>1, <3>2
  <2>3. \A k \in 1 .. n : k + Before <= n - failures => ages[k] = Cooldown
    BY <1>2, <2>2 DEF BurstInv, ClosedInv, n
  <2>4. ASSUME NEW k \in 1 .. n + 1, k + Before <= n + 1 - count
        PROVE  ages'[k] = Cooldown
    <3>1. CASE anew
      <4>1. k + Before <= n /\ k \in 1 .. n
        BY <1>2, <1>6, <2>4, <3>1
      <4>2. CASE window = None
        <5>1. k + Before <= n - failures
          BY <1>2, <1>8, <4>1, <4>2
        <5> QED
          BY <1>4, <2>3, <4>1, <5>1
      <4>3. CASE window = Cooldown
        <5>1. ages[k] = Cooldown
          BY <1>1, <1>2, <2>2, <4>1, <4>3, WindowOver DEF n
        <5> QED
          BY <1>4, <4>1, <5>1
      <4> QED
        BY <3>1, <4>2, <4>3
    <3>2. CASE ~anew
      <4>1. k + Before <= n - failures /\ k \in 1 .. n
        BY <1>2, <1>6, <2>4, <3>2
      <4> QED
        BY <1>4, <2>3, <4>1
    <3> QED
      BY <3>1, <3>2
  <2> QED
    BY <2>2, <2>4
<1>11. PausedInv'
  <2> DEFINE r == Cardinality(Calling')
  <2>0. r \in Nat /\ r = q - 1 /\ r < MaxConcurrent
    BY <1>2, <1>5
  <2> HIDE DEF r
  <2> SUFFICES ASSUME pause' # None
               PROVE  \A k \in 1 .. n + 1 :
                         /\ k + Burst - r <= n + 1 => ages'[k] = Cooldown
                         /\ k + MaxConcurrent - 1 - r <= n + 1 => ages'[k] + pause' >= Cooldown
    BY <1>4, <2>0 DEF PausedInv, r
  <2>1. count \in Nat /\ count >= 1
    BY <1>2
  <2>2. ASSUME NEW k \in 1 .. n + 1, k + Burst - r <= n + 1
        PROVE  ages'[k] = Cooldown
    <3>1. k \in 1 .. n
      BY <1>2, <1>6, <2>0, <2>2
    <3>2. CASE pause = None
      <4>1. count >= FailureLimit
        BY <1>3, <3>2
      <4>2. failures < FailureLimit
        BY <3>2 DEF BurstInv, ClosedInv
      <4>3. failures + 1 = FailureLimit
        <5>1. ~anew
          BY <1>2, <4>1
        <5> QED
          BY <1>2, <4>1, <4>2, <5>1
      <4>4. k + Before <= n - failures
        BY <1>2, <1>6, <2>0, <2>2, <4>3
      <4>5. ages[k] = Cooldown
        BY <1>2, <3>1, <3>2, <4>4 DEF BurstInv, ClosedInv, n
      <4> QED
        BY <1>4, <3>1, <4>5
    <3>3. CASE pause # None
      <4>1. k + Burst - q <= n
        BY <1>2, <1>5, <1>6, <2>0, <2>2
      <4>2. ages[k] = Cooldown
        BY <1>2, <3>1, <3>3, <4>1 DEF BurstInv, PausedInv, n, q
      <4> QED
        BY <1>4, <3>1, <4>2
    <3> QED
      BY <3>2, <3>3
  <2>3. ASSUME NEW k \in 1 .. n + 1, k + MaxConcurrent - 1 - r <= n + 1
        PROVE  ages'[k] + pause' >= Cooldown
    <3>1. CASE count >= FailureLimit
      <4>1. pause' = Cooldown
        BY <1>3, <3>1
      <4>2. ages'[k] \in Nat
        <5>1. CASE k = n + 1
          BY <1>4, <5>1
        <5>2. CASE k # n + 1
          <6>1. k \in 1 .. n
            BY <1>2, <5>2
          <6> QED
            BY <1>2, <1>4, <6>1
        <5> QED
          BY <5>1, <5>2
      <4> QED
        BY <1>2, <4>1, <4>2
    <3>2. CASE ~(count >= FailureLimit)
      <4>1. pause' = pause /\ pause # None
        BY <1>3, <3>2
      <4>2. q < MaxConcurrent
        BY <4>1 DEF BurstInv, PausedInv, q
      <4>3. k \in 1 .. n /\ k + MaxConcurrent - 1 - q <= n
        BY <1>2, <1>5, <2>0, <2>3, <4>2
      <4>4. ages[k] + pause >= Cooldown
        BY <1>2, <4>1, <4>3 DEF BurstInv, PausedInv, n, q
      <4> QED
        BY <1>4, <4>1, <4>3, <4>4
    <3> QED
      BY <3>1, <3>2
  <2> QED
    BY <2>2, <2>3
<1> QED
  BY <1>7, <1>9, <1>10, <1>11 DEF BurstInv

(* Time makes failures older, and the pause shorter by as much.            *)
LEMMA TickKeepsBurst ==
    ASSUME GuardTypeOK, BurstInv, GuardTick
    PROVE  BurstInv'
<1>1. /\ Len(ages) \in Nat /\ DOMAIN ages = 1 .. Len(ages) /\ failures \in Nat
      /\ \A k \in 1 .. Len(ages) : ages[k] \in 0 .. Cooldown
      /\ pause \in {None} \cup 0 .. Cooldown /\ window \in {None} \cup 0 .. Cooldown
      /\ Cooldown \in Nat \ {0}
  BY AgesFacts, GuardAssumption
<1>2. /\ Len(ages') = Len(ages) /\ DOMAIN ages' = 1 .. Len(ages)
      /\ \A k \in 1 .. Len(ages) : ages'[k] = Later(ages[k])
      /\ window' = Later(window) /\ UNCHANGED failures
      /\ pause' = IF pause \in {None, 0} THEN pause ELSE pause - 1
      /\ Calling' = Calling
  <2>1. ages' = [k \in 1 .. Len(ages) |-> Later(ages[k])]
    BY <1>1 DEF GuardTick
  <2> QED
    BY <1>1, <2>1 DEF GuardTick, Calling
<1>3. /\ \A a \in 0 .. Cooldown : Later(a) = IF a < Cooldown THEN a + 1 ELSE a
      /\ Later(None) = None
  BY <1>1 DEF Later, None
<1>4. OldestFirst'
  <2>1. ASSUME NEW i \in 1 .. Len(ages), NEW j \in 1 .. Len(ages), i <= j
        PROVE  Later(ages[i]) >= Later(ages[j])
    <3>1. ages[i] >= ages[j] /\ ages[i] \in 0 .. Cooldown /\ ages[j] \in 0 .. Cooldown
      BY <1>1, <2>1 DEF BurstInv, OldestFirst
    <3> QED
      BY <1>1, <1>3, <3>1
  <2> QED
    BY <1>2, <2>1 DEF OldestFirst
<1>5. WindowInv'
  <2>1. /\ failures <= Len(ages)
        /\ window = None => failures = 0
        /\ window # None => failures > 0 /\ ages[Len(ages) - failures + 1] = window
    BY DEF BurstInv, WindowInv
  <2>2. window # None => Len(ages) - failures + 1 \in 1 .. Len(ages)
    BY <1>1, <2>1
  <2>3. window' = None <=> window = None
    BY <1>1, <1>2, <1>3 DEF None
  <2> QED
    BY <1>2, <2>1, <2>2, <2>3 DEF WindowInv
<1>6. pause' = None <=> pause = None
  BY <1>1, <1>2 DEF None
<1>7. \A k \in 1 .. Len(ages) : ages[k] = Cooldown => ages'[k] = Cooldown
  BY <1>1, <1>2, <1>3
<1>8. ClosedInv'
  BY <1>1, <1>2, <1>6, <1>7 DEF BurstInv, ClosedInv
<1>9. PausedInv'
  <2>1. ASSUME pause # None, NEW k \in 1 .. Len(ages), ages[k] + pause >= Cooldown
        PROVE  ages'[k] + pause' >= Cooldown
    <3>1. pause \in 0 .. Cooldown /\ ages[k] \in 0 .. Cooldown
      BY <1>1, <2>1
    <3>2. ages'[k] = IF ages[k] < Cooldown THEN ages[k] + 1 ELSE ages[k]
      BY <1>2, <1>3, <3>1
    <3>3. pause' = IF pause = 0 THEN 0 ELSE pause - 1
      BY <1>2, <2>1
    <3> QED
      BY <1>1, <2>1, <3>1, <3>2, <3>3
  <2> QED
    BY <1>1, <1>2, <1>6, <1>7, <2>1 DEF BurstInv, PausedInv
<1> QED
  BY <1>4, <1>5, <1>8, <1>9 DEF BurstInv

(* A guard that is new has seen no failure.                                *)
LEMMA NewGuardHasNoBurst ==
    ASSUME ages = << >>, failures = 0, window = None, pause = None
    PROVE  BurstInv
BY GuardAssumption DEF BurstInv, OldestFirst, WindowInv, ClosedInv, PausedInv

(* The end of the process forgets the guard.                               *)
LEMMA ExitKeepsBurst ==
    ASSUME Exit
    PROVE  BurstInv'
BY GuardAssumption DEF Exit, BurstInv, OldestFirst, WindowInv, ClosedInv, PausedInv

(* Every step of a docker call keeps the bound.                            *)
LEMMA CallKeepsBurst ==
    ASSUME GuardInv, BurstInv, NEW c \in Caller, CallStep(c)
    PROVE  BurstInv'
<1>1. GuardTypeOK /\ at \in [Caller -> Place]
  BY DEF GuardInv, GuardTypeOK
<1>2. CASE Acquire(c)
  BY <1>1, <1>2, CheckKeepsBurst DEF Acquire
<1>3. CASE Permit(c) \/ Succeed(c) \/ Cancel(c) \/ Release(c)
  <2>1. UNCHANGED <<breaker, ages>> /\ Calling' \subseteq Calling
    BY <1>1, <1>3 DEF Permit, Succeed, Cancel, Release, Go, Calling
  <2> QED
    BY <1>1, <2>1, RestKeepsBurst
<1>4. CASE Recheck(c)
  <2>1. CASE CheckClosed
    BY <1>1, <1>4, <2>1, CheckKeepsBurst DEF Recheck
  <2>2. CASE Go(c, "held", "back") /\ UNCHANGED breaker
    <3>1. UNCHANGED <<breaker, ages>> /\ Calling' \subseteq Calling
      BY <1>1, <1>4, <2>2 DEF Recheck, Go, Calling
    <3> QED
      BY <1>1, <3>1, RestKeepsBurst
  <2> QED
    BY <1>4, <2>1, <2>2 DEF Recheck
<1>5. CASE Failure(c)
  BY <1>5, FailureKeepsBurst
<1> QED
  BY <1>2, <1>3, <1>4, <1>5 DEF CallStep

(* Every step of the process keeps the bound.                              *)
LEMMA NextKeepsBurst ==
    ASSUME ServerInv, BurstInv, [Next]_vars
    PROVE  BurstInv'
<1>1. GuardInv /\ GuardTypeOK /\ at \in [Caller -> Place]
  BY DEF ServerInv, TypeOK, GuardInv, GuardTypeOK
<1>2. CASE UNCHANGED guard
  <2>1. UNCHANGED <<breaker, ages>> /\ Calling' \subseteq Calling
    BY <1>2 DEF guard, Calling
  <2> QED
    BY <1>1, <2>1, RestKeepsBurst
<1>3. CASE Exit
  BY <1>3, ExitKeepsBurst
<1>4. ASSUME NEW c \in Caller, CallStep(c)
      PROVE  BurstInv'
  BY <1>1, <1>4, CallKeepsBurst
<1>5. CASE GuardTick
  BY <1>1, <1>5, TickKeepsBurst
<1>6. ASSUME UNCHANGED <<breaker, ages>>,
             \/ \E c \in Caller : \E from \in Place, to \in {"idle", "off"} : Go(c, from, to)
             \/ at' = [c \in Caller |-> IF c \in Loop THEN "idle" ELSE "off"]
      PROVE  BurstInv'
  <2>1. Calling' \subseteq Calling
    BY <1>1, <1>6 DEF Go, Calling
  <2> QED
    BY <1>1, <1>6, <2>1, RestKeepsBurst
<1>7. CASE CallerStep
  <2>1. ASSUME NEW h \in Handler, Request(h) PROVE BurstInv'
    BY <1>6, <2>1, ServerAssumption DEF Request, Place
  <2>2. ASSUME NEW l \in Loop, LoopEnds(l) PROVE BurstInv'
    BY <1>6, <2>2, ServerAssumption DEF LoopEnds, Place
  <2>3. ASSUME NEW c \in Caller, Calls(c) \/ Cancelled(c) PROVE BurstInv'
    BY <1>4, <2>3 DEF Calls, Cancelled, CallStep
  <2>4. ASSUME NEW c \in Caller, Return(c) PROVE BurstInv'
    BY <1>6, <2>4 DEF Return, Place
  <2> QED
    BY <1>7, <2>1, <2>2, <2>3, <2>4 DEF CallerStep
<1>8. CASE Wire
  BY <1>3, <1>6, <1>8 DEF Wire
<1>9. CASE \E p \in Migrator : ReadPending(p) \/ Apply(p) \/ Migrated(p)
  BY <1>2, <1>3, <1>9 DEF ReadPending, Apply, Migrated, GiveUp, Commit, Done
<1>10. CASE Boot \/ MigrateCommand \/ Signal \/ Listening \/ Drain
  BY <1>2, <1>10 DEF Boot, MigrateCommand, Signal, Listening, Drain
<1>11. CASE Close \/ Crash
  BY <1>2, <1>3, <1>11 DEF Close, Crash, GiveUp
<1>12. CASE Tick
  BY <1>5, <1>12 DEF Tick
<1>13. CASE UNCHANGED vars
  BY <1>2, <1>13 DEF vars
<1> QED
  BY <1>7, <1>8, <1>9, <1>10, <1>11, <1>12, <1>13 DEF Next, Migrate, CallerStep

(* The daemon sees a bounded burst of failed calls in every stretch as     *)
(* long as the cooldown, for any callers, permits, limits and cooldowns.   *)
THEOREM BurstsAreBounded == Spec => []BurstBounded
<1>1. Init => BurstInv
  BY NewGuardHasNoBurst DEF Init, GuardInit
<1>2. ServerInv /\ BurstInv /\ [Next]_vars => BurstInv'
  BY NextKeepsBurst
<1>3. ServerInv /\ BurstInv => BurstBounded
  <2> SUFFICES ASSUME ServerInv, BurstInv, NEW k \in DOMAIN ages, k + Burst <= Len(ages)
               PROVE  ages[k] = Cooldown
    BY DEF BurstBounded
  <2>1. GuardTypeOK
    BY DEF ServerInv, TypeOK
  <2>2. /\ Len(ages) \in Nat /\ k \in 1 .. Len(ages) /\ failures \in Nat
        /\ FailureLimit \in Nat /\ MaxConcurrent \in Nat \ {0}
        /\ Before \in Int /\ Burst = Before + FailureLimit + MaxConcurrent - 1
    BY <2>1, AgesFacts, BurstFacts, GuardAssumption
  <2>3. CASE pause = None
    <3>1. failures < FailureLimit
      BY <2>3 DEF BurstInv, ClosedInv
    <3>2. k + Before <= Len(ages) - failures
      BY <2>2, <3>1
    <3> QED
      BY <2>3, <3>2 DEF BurstInv, ClosedInv
  <2>4. CASE pause # None
    <3> DEFINE q == Cardinality(Calling)
    <3>1. q \in Nat
      BY CallingFinite
    <3>2. k + Burst - q <= Len(ages)
      <4> HIDE DEF q
      <4> QED
        BY <2>2, <3>1
    <3> QED
      BY <2>4, <3>2 DEF BurstInv, PausedInv
  <2> QED
    BY <2>3, <2>4
<1> QED
  BY <1>1, <1>2, <1>3, InvHolds, PTL DEF Spec
=============================================================================
