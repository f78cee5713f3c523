----------------------------- MODULE TelemetryProofs -----------------------------
(***************************************************************************)
(* Proofs about what the services report of themselves: IssueAlerts and    *)
(* LogCollector.                                                           *)
(*                                                                         *)
(* IssueAlerts, for any fingerprints, requests, limits and bounds: an      *)
(* issue is announced once, a report loses its issue only when it is due   *)
(* itself, and the occurrence table keeps to its cap.  One part of the     *)
(* invariant per property: AnnounceInv for the sampler, AgeInv for the     *)
(* maintenance pass; the cap is inductive with the types.                  *)
(*                                                                         *)
(* LogCollector, for any containers, logs, caps and bounds: no line behind *)
(* a cursor is lost, none is stored twice, the volume owns up to what it   *)
(* lacks, and a search finds the newest rows, in order.  CollectInv says   *)
(* what every cursor promises of the lines before it, OnceInv what it      *)
(* promises of the lines after it, VolumeInv balances what was counted,    *)
(* what is owed and what was stored, and RowsInv orders the rows; the      *)
(* pages of a level search are followed one by one, by counting up.        *)
(***************************************************************************)
EXTENDS IssueAlerts, LogCollector, SequenceTheorems, FiniteSetTheorems,
        WellFoundedInduction, TLAPS

Occurrence == [issue : Id, at : 0 .. MaxTime]
Sampler == [at : {"idle", "new", "stamp", "spike"}, since : Int, todo : SUBSET Id]
Keeper  == [at : {"idle", "issues", "measure", "evict"}, now : Nat]

(* The issue whose notification is in and whose stamp is not.              *)
Stamping(i) == sampler.at = "stamp" /\ i = LeastOf(sampler.todo)

(* Ids come from reports, and only issues that were inserted are listed.   *)
IdsInv ==
    /\ ids <= reports
    /\ sampler.todo \subseteq 1 .. ids
    /\ sampler.at = "stamp" => sampler.todo # {}

(* What the new-issue rule holds on to: an id that was not given out was   *)
(* not announced, an issue on the rule's list was not announced before its *)
(* turn, and an announced one is stamped, about to be stamped, or gone     *)
(* under an id that never returns, unless its stamp could not be written.  *)
UngivenIsQuiet == \A i \in Id : i > ids => news[i] = 0

ListedIsNew ==
    \A i \in sampler.todo :
        /\ sampler.at \in {"new", "stamp"} /\ i \notin unlatched
        => news[i] = IF Stamping(i) THEN 1 ELSE 0

AnnouncedIsStamped ==
    \A i \in Id :
        /\ news[i] >= 1 /\ i \notin unlatched /\ i \in DOMAIN issues
        => issues[i].notified \/ Stamping(i)

AnnounceInv == UngivenIsQuiet /\ ListedIsNew /\ AnnouncedIsStamped /\ AnnouncedOnce

(* What the age pass rests on: an issue is as young as its newest report,  *)
(* no row is of the future, and the pass works with a past time.           *)
LastIsNewest ==
    \A k \in DOMAIN occurrences :
        LET o == occurrences[k] IN
        o.issue \in DOMAIN issues => o.at <= issues[o.issue].last

NothingAhead ==
    /\ \A k \in DOMAIN occurrences : occurrences[k].at <= clock /\ occurrences[k].issue <= ids
    /\ \A i \in DOMAIN issues : issues[i].last <= clock
    /\ keeper.now <= clock

TimesAscend ==
    \A j, k \in DOMAIN occurrences : j <= k => occurrences[j].at <= occurrences[k].at

AgeInv == LastIsNewest /\ NothingAhead /\ TimesAscend /\ OrphansAreDue
-----------------------------------------------------------------------------
(* Facts about the operators the actions are built from.                   *)

(* A nonempty set of ids has a least one.                                  *)
LEMMA LeastIsIn ==
    ASSUME NEW T, T \subseteq Nat, T # {}
    PROVE  LeastOf(T) \in T
<1> DEFINE Less == {ss \in Nat \X Nat : ss[1] < ss[2]}
<1>1. IsWellFoundedOn(Less, Nat)
  BY NatLessThanWellFounded DEF OpToRel
<1>2. PICK m \in T : \A n \in T : <<n, m>> \notin Less
  BY <1>1, WFMin
<1>3. \A n \in T : ~(n < m)
  BY <1>2
<1>4. \E i \in T : \A j \in T : i <= j
  BY <1>3
<1> QED
  BY <1>4 DEF LeastOf

(* The larger and the smaller of two numbers.                              *)
LEMMA TwoNumbers ==
    ASSUME NEW a \in Int, NEW b \in Int
    PROVE  /\ Max({a, b}) = IF a >= b THEN a ELSE b
           /\ Min({a, b}) = IF a <= b THEN a ELSE b
<1>1. Max({a, b}) \in {a, b} /\ Max({a, b}) >= a /\ Max({a, b}) >= b
  BY DEF Max
<1>2. Min({a, b}) \in {a, b} /\ Min({a, b}) <= a /\ Min({a, b}) <= b
  BY DEF Min
<1> QED
  BY <1>1, <1>2

(* What is left of the occurrences from place m on.                        *)
LEMMA Remainder ==
    ASSUME NEW s \in Seq(Occurrence), NEW m \in 1 .. Len(s) + 1
    PROVE  LET t == SubSeq(s, m, Len(s)) IN
           /\ t \in Seq(Occurrence) /\ Len(t) = Len(s) - m + 1
           /\ DOMAIN t = 1 .. Len(t) /\ DOMAIN s = 1 .. Len(s)
           /\ \A k \in DOMAIN t : k + m - 1 \in DOMAIN s /\ t[k] = s[k + m - 1]
<1> DEFINE t == SubSeq(s, m, Len(s))
<1>1. Len(s) \in Nat /\ DOMAIN s = 1 .. Len(s)
  OBVIOUS
<1>2. /\ t \in Seq(Occurrence)
      /\ Len(t) = IF m <= Len(s) THEN Len(s) - m + 1 ELSE 0
      /\ \A k \in 1 .. Len(s) - m + 1 : t[k] = s[m + k - 1]
  BY <1>1, SubSeqProperties
<1>3. Len(t) = Len(s) - m + 1 /\ DOMAIN t = 1 .. Len(t)
  BY <1>1, <1>2
<1>4. \A k \in DOMAIN t : k + m - 1 \in DOMAIN s /\ t[k] = s[k + m - 1]
  <2> TAKE k \in DOMAIN t
  <2>1. k \in 1 .. Len(s) - m + 1
    BY <1>3
  <2>2. m + k - 1 = k + m - 1 /\ k + m - 1 \in DOMAIN s
    BY <2>1, <1>1
  <2> QED
    BY <2>1, <2>2, <1>2
<1> QED
  BY <1>1, <1>2, <1>3, <1>4

(* A deletion from the front takes what there is at most.                  *)
LEMMA FrontGone ==
    ASSUME occurrences \in Seq(Occurrence), NEW n \in Nat, n <= Len(occurrences),
           occurrences' = WithoutFirst(Min({n, Batch}))
    PROVE  \E m \in 1 .. Len(occurrences) + 1 :
               occurrences' = SubSeq(occurrences, m, Len(occurrences))
<1> DEFINE b == Min({n, Batch})
<1>1. Len(occurrences) \in Nat /\ Batch \in Nat
  BY IssueAssumption
<1>2. b \in Nat /\ b <= n
  <2>1. n \in Int /\ Batch \in Int
    BY <1>1
  <2>2. b = IF n <= Batch THEN n ELSE Batch
    BY <2>1, TwoNumbers
  <2> HIDE DEF b
  <2> QED
    BY <2>2, <1>1
<1>3. occurrences' = SubSeq(occurrences, b + 1, Len(occurrences))
  BY DEF WithoutFirst
<1> HIDE DEF b
<1>4. b + 1 \in 1 .. Len(occurrences) + 1
  BY <1>1, <1>2
<1> QED
  BY <1>3, <1>4

(* The trim, the age pass and the budget pass all delete from the front.   *)
RowsGo ==
    \E m \in 1 .. Len(occurrences) + 1 :
        occurrences' = SubSeq(occurrences, m, Len(occurrences))

(* A trim drops the oldest occurrences down to the cap, or fails.          *)
LEMMA TrimFromFront ==
    ASSUME TypeOK, NEW c \in Client, TrimBeyondCap(c)
    PROVE  \/ UNCHANGED occurrences /\ untrimmed' = untrimmed + 1
           \/ RowsGo /\ Len(occurrences') <= Cap /\ untrimmed' = 0
<1>1. CASE UNCHANGED occurrences /\ untrimmed' = untrimmed + 1
  BY <1>1
<1>2. CASE /\ untrimmed' = 0
           /\ occurrences' = SubSeq(occurrences, Max({1, Len(occurrences) - Cap + 1}),
                                    Len(occurrences))
  <2> DEFINE n == Len(occurrences)
             m == Max({1, Len(occurrences) - Cap + 1})
  <2>1. occurrences \in Seq(Occurrence) /\ n \in Nat /\ Cap \in Nat \ {0}
    BY IssueAssumption DEF TypeOK, Occurrence
  <2>2. 1 \in Int /\ n - Cap + 1 \in Int
    BY <2>1
  <2>3. m = IF 1 >= n - Cap + 1 THEN 1 ELSE n - Cap + 1
    BY <2>2, TwoNumbers
  <2>4. occurrences' = SubSeq(occurrences, m, n)
    BY <1>2
  <2> HIDE DEF m
  <2>5. m \in 1 .. n + 1 /\ n - m + 1 <= Cap
    <3> HIDE DEF n
    <3> QED
      BY <2>1, <2>3
  <2>6. Len(occurrences') = n - m + 1
    BY <2>1, <2>4, <2>5, Remainder
  <2> QED
    BY <1>2, <2>4, <2>5, <2>6 DEF RowsGo
<1> QED
  BY <1>1, <1>2 DEF TrimBeyondCap

(* The age pass drops the oldest occurrences.                              *)
LEMMA AgedFromFront ==
    ASSUME TypeOK, AgeOccurrences
    PROVE  RowsGo
<1> DEFINE due == {k \in DOMAIN occurrences : occurrences[k].at < clock - Retention}
<1>1. occurrences \in Seq(Occurrence) /\ Len(occurrences) \in Nat
      /\ DOMAIN occurrences = 1 .. Len(occurrences)
  BY DEF TypeOK, Occurrence
<1>2. /\ IsFiniteSet(1 .. Len(occurrences))
      /\ Cardinality(1 .. Len(occurrences)) = Len(occurrences)
  BY <1>1, FS_Interval
<1>3. due \subseteq 1 .. Len(occurrences)
  BY <1>1
<1>4. occurrences' = WithoutFirst(Min({Cardinality(due), Batch}))
  BY DEF AgeOccurrences
<1> HIDE DEF due
<1>5. Cardinality(due) \in Nat /\ Cardinality(due) <= Len(occurrences)
  BY <1>2, <1>3, FS_Subset, FS_CardinalityType
<1> QED
  BY <1>1, <1>4, <1>5, FrontGone DEF RowsGo

(* The budget pass drops the oldest occurrences, or none.                  *)
LEMMA EvictedFromFront ==
    ASSUME TypeOK, EvictOccurrences
    PROVE  UNCHANGED occurrences \/ RowsGo
<1>1. /\ occurrences \in Seq(Occurrence) /\ Len(occurrences) \in Nat
      /\ Len(occurrences) <= Len(occurrences)
  BY DEF TypeOK, Occurrence
<1>2. CASE occurrences' = WithoutFirst(Min({Len(occurrences), Batch}))
  BY <1>1, <1>2, FrontGone DEF RowsGo
<1> QED
  BY <1>2 DEF EvictOccurrences

(* A report goes to the issue of its fingerprint, or to a new one under an *)
(* id that no issue ever had.                                              *)
LEMMA Grouped ==
    ASSUME TypeOK, IdsInv, reports < MaxReports, NEW f \in Fingerprint, GroupOccurrence(f)
    PROVE  \E id \in Id :
               /\ ids \in Nat /\ id <= ids' /\ ids' \in {ids, ids + 1}
               /\ DOMAIN issues' = DOMAIN issues \cup {id}
               /\ \A i \in DOMAIN issues \ {id} : issues'[i] = issues[i]
               /\ issues'[id] \in IssueRow /\ issues'[id].last = clock
               /\ id \in DOMAIN issues => issues'[id].notified = issues[id].notified
               /\ id \notin DOMAIN issues => id = ids + 1 /\ ids' = ids + 1
               /\ occurrences' = Append(occurrences, [issue |-> id, at |-> clock])
<1> DEFINE known == {i \in DOMAIN issues : issues[i].print = f}
           id    == IF known = {} THEN ids + 1 ELSE LeastOf(known)
           fresh == [print |-> f, first |-> clock, last |-> clock, notified |-> FALSE]
<1>1. /\ issues' = [i \in DOMAIN issues \cup {id} |->
                        IF i # id THEN issues[i]
                        ELSE IF known = {} THEN fresh
                        ELSE [issues[i] EXCEPT !.last = clock]]
      /\ ids' = IF known = {} THEN ids + 1 ELSE ids
      /\ occurrences' = Append(occurrences, [issue |-> id, at |-> clock])
  BY DEF GroupOccurrence
<1>2. /\ ids \in Nat /\ ids <= reports /\ reports \in Nat /\ MaxReports \in Nat
      /\ DOMAIN issues \subseteq 1 .. ids /\ clock \in Nat
      /\ \A i \in DOMAIN issues : issues[i] \in IssueRow
  BY IssueAssumption DEF TypeOK, IdsInv
<1>3. known \subseteq DOMAIN issues /\ known \subseteq Nat
  BY <1>2
<1>4. known # {} => LeastOf(known) \in known
  BY <1>3, LeastIsIn
<1>5. ids + 1 \notin DOMAIN issues
  BY <1>2
<1>6. CASE known = {}
  <2>1. fresh \in IssueRow /\ fresh.last = clock
    BY <1>2 DEF IssueRow
  <2>2. id = ids + 1 /\ id \in Id
    BY <1>2, <1>6 DEF Id
  <2> HIDE DEF known, fresh
  <2> QED
    BY <1>1, <1>2, <1>5, <1>6, <2>1, <2>2
<1>7. CASE known # {}
  <2>1. id \in DOMAIN issues /\ id \in 1 .. ids
    BY <1>2, <1>3, <1>4, <1>7
  <2>2. id \in Id
    BY <1>2, <2>1 DEF Id
  <2>3. /\ [issues[id] EXCEPT !.last = clock] \in IssueRow
        /\ [issues[id] EXCEPT !.last = clock].last = clock
        /\ [issues[id] EXCEPT !.last = clock].notified = issues[id].notified
    BY <1>2, <2>1 DEF IssueRow
  <2>4. /\ issues' = [i \in DOMAIN issues \cup {id} |->
                          IF i # id THEN issues[i] ELSE [issues[i] EXCEPT !.last = clock]]
        /\ ids' = ids
    BY <1>1, <1>7
  <2> HIDE DEF known, id, fresh
  <2>5. /\ DOMAIN issues' = DOMAIN issues \cup {id}
        /\ \A i \in DOMAIN issues \ {id} : issues'[i] = issues[i]
        /\ issues'[id] = [issues[id] EXCEPT !.last = clock]
    BY <2>4
  <2>6. id <= ids' /\ ids' \in {ids, ids + 1}
    BY <1>2, <2>1, <2>4
  <2> QED
    BY <1>1, <1>2, <2>1, <2>2, <2>3, <2>5, <2>6
<1> QED
  BY <1>6, <1>7
-----------------------------------------------------------------------------
(* Types, and the ids in use.                                              *)

(* Deleting from the front keeps the type of the rows.                     *)
LEMMA RowsStayTyped ==
    ASSUME TypeOK, UNCHANGED occurrences \/ RowsGo
    PROVE  occurrences' \in Seq(Occurrence)
<1>1. occurrences \in Seq(Occurrence)
  BY DEF TypeOK, Occurrence
<1>2. CASE RowsGo
  BY <1>1, <1>2, Remainder DEF RowsGo
<1> QED
  BY <1>1, <1>2

(* The sampler's list holds ids of issues, and its least is one of them.   *)
LEMMA TurnIsListed ==
    ASSUME TypeOK, IdsInv, sampler.todo # {}
    PROVE  LeastOf(sampler.todo) \in sampler.todo /\ LeastOf(sampler.todo) \in Id
<1>1. sampler.todo \subseteq Id /\ sampler.todo \subseteq Nat
  BY DEF TypeOK, Id
<1> QED
  BY <1>1, LeastIsIn

(* The lists both rules start from.                                        *)
LEMMA ListsAreIssues ==
    ASSUME TypeOK
    PROVE  /\ clock - Window \in Int
           /\ UnnotifiedSince(clock - Window) \subseteq DOMAIN issues
           /\ ActiveSince(clock - Window) \subseteq DOMAIN issues
           /\ DOMAIN issues \subseteq Id /\ DOMAIN issues \subseteq 1 .. ids
           /\ ToSpikes \in Sampler /\ ToSpikes.at = "spike"
           /\ ToSpikes.todo \subseteq 1 .. ids
<1>1. clock - Window \in Int
  BY IssueAssumption DEF TypeOK
<1>2. DOMAIN issues \subseteq Id /\ DOMAIN issues \subseteq 1 .. ids
  BY IssueAssumption DEF TypeOK, Id
<1>3. /\ UnnotifiedSince(clock - Window) \subseteq DOMAIN issues
      /\ ActiveSince(clock - Window) \subseteq DOMAIN issues
  BY DEF UnnotifiedSince, ActiveSince
<1> QED
  BY <1>1, <1>2, <1>3 DEF ToSpikes, Sampler

(* Every step keeps the types, and the ids in use below those to come.     *)
LEMMA TypeStep ==
    ASSUME TypeOK, IdsInv, [Next]_vars
    PROVE  TypeOK' /\ IdsInv'
<1>0. /\ IsFiniteSet(Client) /\ Cap \in Nat \ {0} /\ Window \in Nat \ {0}
      /\ MaxTime \in Nat /\ MaxReports \in Nat /\ MaxFaults \in Nat
  BY IssueAssumption
<1>t. /\ ids \in Nat /\ reports \in Nat /\ clock \in Nat /\ untrimmed \in Nat
      /\ sampler \in Sampler /\ keeper \in Keeper
      /\ sampler.at \in {"idle", "new", "stamp", "spike"}
      /\ occurrences \in Seq(Occurrence)
  BY <1>0 DEF TypeOK, Sampler, Keeper, Occurrence
<1>f. ASSUME Fine \/ Fault PROVE faults' \in 0 .. MaxFaults
  BY <1>f, <1>0 DEF TypeOK, Fine, Fault
<1>1. ASSUME NEW c \in Client, NEW f \in Fingerprint, Ingest(c, f)
      PROVE  TypeOK' /\ IdsInv'
  <2>1. /\ reports < MaxReports /\ GroupOccurrence(f) /\ reports' = reports + 1
        /\ client' = [client EXCEPT ![c] = "stored"]
        /\ UNCHANGED <<clock, spikes, sampler, keeper, faults, history>>
    BY <1>1 DEF Ingest
  <2>2. PICK id \in Id :
               /\ ids \in Nat /\ id <= ids' /\ ids' \in {ids, ids + 1}
               /\ DOMAIN issues' = DOMAIN issues \cup {id}
               /\ \A i \in DOMAIN issues \ {id} : issues'[i] = issues[i]
               /\ issues'[id] \in IssueRow
               /\ occurrences' = Append(occurrences, [issue |-> id, at |-> clock])
    BY <2>1, Grouped
  <2>3. reports' \in 0 .. MaxReports /\ ids' \in 0 .. MaxReports /\ ids' <= reports'
    BY <1>0, <1>t, <2>1, <2>2 DEF TypeOK, IdsInv
  <2>4. DOMAIN issues' \subseteq 1 .. ids'
    BY <1>t, <2>2 DEF TypeOK, Id
  <2>5. \A i \in DOMAIN issues' : issues'[i] \in IssueRow
    BY <2>2 DEF TypeOK
  <2>6. occurrences' \in Seq(Occurrence)
    <3>1. [issue |-> id, at |-> clock] \in Occurrence
      BY DEF Occurrence, TypeOK
    <3> QED
      BY <1>t, <2>2, <3>1, AppendProperties
  <2>7. sampler.todo \subseteq 1 .. ids'
    BY <1>t, <2>2 DEF IdsInv
  <2> QED
    BY <2>1, <2>3, <2>4, <2>5, <2>6, <2>7 DEF TypeOK, IdsInv, history, Occurrence, Id
<1>2. ASSUME NEW c \in Client, TrimBeyondCap(c)
      PROVE  TypeOK' /\ IdsInv'
  <2>1. UNCHANGED occurrences \/ RowsGo
    BY <1>2, TrimFromFront
  <2>2. occurrences' \in Seq(Occurrence)
    BY <2>1, RowsStayTyped
  <2>3. faults' \in 0 .. MaxFaults
    BY <1>2, <1>f DEF TrimBeyondCap
  <2>4. untrimmed' \in Nat
    BY <1>2, <1>t DEF TrimBeyondCap
  <2>5. /\ client' = [client EXCEPT ![c] = "idle"]
        /\ UNCHANGED <<rest, issues, ids, spikes, sampler, keeper, news, alarms, unlatched, evicted>>
    BY <1>2 DEF TrimBeyondCap
  <2> QED
    BY <2>2, <2>3, <2>4, <2>5 DEF TypeOK, IdsInv, rest, Occurrence, Id
<1>3. ASSUME Sample PROVE TypeOK' /\ IdsInv'
  <2>1. sampler' \in Sampler /\ sampler'.todo \subseteq 1 .. ids /\ sampler'.at = "new"
    BY <1>3, ListsAreIssues DEF Sample, Sampler
  <2>2. UNCHANGED <<rest, client, tables, spikes, keeper, faults, history>>
    BY <1>3 DEF Sample
  <2> QED
    BY <2>1, <2>2 DEF TypeOK, IdsInv, rest, tables, history, Sampler, Id
<1>4. ASSUME NewIssue PROVE TypeOK' /\ IdsInv'
  <2>1. UNCHANGED <<rest, client, tables, spikes, keeper, alarms, unlatched, evicted, untrimmed>>
    BY <1>4 DEF NewIssue
  <2>2. faults' \in 0 .. MaxFaults
    BY <1>4, <1>f DEF NewIssue
  <2>3. /\ sampler' \in Sampler /\ sampler'.todo \subseteq 1 .. ids
        /\ sampler'.at = "stamp" => sampler'.todo # {}
    <3>1. CASE sampler' = ToSpikes
      BY <3>1, ListsAreIssues
    <3>2. CASE sampler' = [sampler EXCEPT !.at = "stamp"] /\ sampler.todo # {}
      BY <3>2, <1>t DEF Sampler, IdsInv
    <3> QED
      BY <1>4, <3>1, <3>2 DEF NewIssue
  <2>4. news' \in [Id -> Nat]
    <3>1. CASE UNCHANGED news
      BY <3>1 DEF TypeOK
    <3>2. CASE /\ news' = [news EXCEPT ![LeastOf(sampler.todo)] = @ + 1]
               /\ sampler.todo # {}
      BY <3>2, TurnIsListed DEF TypeOK
    <3> QED
      BY <1>4, <3>1, <3>2 DEF NewIssue
  <2> QED
    BY <2>1, <2>2, <2>3, <2>4 DEF TypeOK, IdsInv, rest, tables, Sampler, Id
<1>5. ASSUME MarkNotified PROVE TypeOK' /\ IdsInv'
  <2>1. /\ sampler.at = "stamp"
        /\ UNCHANGED <<rest, client, ids, occurrences, spikes, keeper, news, alarms, evicted, untrimmed>>
    BY <1>5 DEF MarkNotified
  <2>2. LeastOf(sampler.todo) \in Id
    BY <2>1, TurnIsListed DEF IdsInv
  <2>3. faults' \in 0 .. MaxFaults
    BY <1>5, <1>f DEF MarkNotified
  <2>4. /\ sampler' \in Sampler /\ sampler'.todo \subseteq 1 .. ids
        /\ sampler'.at # "stamp"
    <3>1. CASE sampler' = ToSpikes
      BY <3>1, ListsAreIssues
    <3>2. CASE sampler' = [sampler EXCEPT !.at = "new", !.todo = @ \ {LeastOf(sampler.todo)}]
      BY <3>2, <1>t DEF Sampler, IdsInv
    <3> QED
      BY <1>5, <3>1, <3>2 DEF MarkNotified
  <2>5. unlatched' \subseteq Id
    BY <1>5, <2>2 DEF MarkNotified, TypeOK
  <2>6. DOMAIN issues' = DOMAIN issues /\ \A i \in DOMAIN issues : issues'[i] \in IssueRow
    <3>1. CASE UNCHANGED issues
      BY <3>1 DEF TypeOK
    <3>2. CASE issues' = [j \in DOMAIN issues |->
                  [issues[j] EXCEPT !.notified = @ \/ j = LeastOf(sampler.todo)]]
      <4>1. \A j \in DOMAIN issues : issues[j] \in IssueRow
        BY DEF TypeOK
      <4>2. ASSUME NEW j \in DOMAIN issues, NEW b \in BOOLEAN
            PROVE  [issues[j] EXCEPT !.notified = b] \in IssueRow
        BY <4>1 DEF IssueRow
      <4>3. \A j \in DOMAIN issues :
               (issues[j].notified \/ j = LeastOf(sampler.todo)) \in BOOLEAN
        OBVIOUS
      <4>4. \A j \in DOMAIN issues : issues'[j] =
               [issues[j] EXCEPT !.notified = issues[j].notified \/ j = LeastOf(sampler.todo)]
        BY <3>2
      <4> QED
        BY <3>2, <4>2, <4>3, <4>4
    <3> QED
      BY <1>5, <3>1, <3>2 DEF MarkNotified
  <2> QED
    BY <2>1, <2>3, <2>4, <2>5, <2>6 DEF TypeOK, IdsInv, rest, Sampler, Id
<1>6. ASSUME Spike PROVE TypeOK' /\ IdsInv'
  <2>1. UNCHANGED <<rest, client, tables, keeper, news, unlatched, evicted, untrimmed>>
    BY <1>6 DEF Spike
  <2>2. faults' \in 0 .. MaxFaults
    BY <1>6, <1>f DEF Spike
  <2>3. /\ sampler' \in Sampler /\ sampler'.todo \subseteq 1 .. ids
        /\ sampler'.at # "stamp"
    <3>1. sampler.at = "spike" /\ sampler.todo \subseteq 1 .. ids
      BY <1>6 DEF Spike, IdsInv
    <3>2. CASE sampler' = [sampler EXCEPT !.at = "idle"]
      BY <3>1, <3>2, <1>t DEF Sampler
    <3>3. CASE sampler' = [sampler EXCEPT !.todo = @ \ {LeastOf(sampler.todo)}]
      BY <3>1, <3>3, <1>t DEF Sampler
    <3>4. CASE sampler' = [sampler EXCEPT !.at = "idle", !.todo = {}]
      BY <3>1, <3>4, <1>t DEF Sampler
    <3> QED
      BY <1>6, <3>2, <3>3, <3>4 DEF Spike
  <2>4. spikes' \subseteq Id
    <3>1. CASE spikes' \subseteq spikes
      BY <3>1 DEF TypeOK
    <3>2. CASE sampler.todo # {} /\ spikes' = spikes \cup {LeastOf(sampler.todo)}
      BY <3>2, TurnIsListed DEF TypeOK
    <3> QED
      BY <1>6, <3>1, <3>2 DEF Spike
  <2>5. alarms' \in [Id -> Nat]
    <3>1. CASE UNCHANGED alarms
      BY <3>1 DEF TypeOK
    <3>2. CASE /\ alarms' = [alarms EXCEPT ![LeastOf(sampler.todo)] = @ + 1]
               /\ sampler.todo # {}
      BY <3>2, TurnIsListed DEF TypeOK
    <3> QED
      BY <1>6, <3>1, <3>2 DEF Spike
  <2> QED
    BY <2>1, <2>2, <2>3, <2>4, <2>5 DEF TypeOK, IdsInv, rest, tables, Sampler, Id
<1>7. ASSUME AgeOccurrences PROVE TypeOK' /\ IdsInv'
  <2>1. occurrences' \in Seq(Occurrence)
    BY <1>7, AgedFromFront, RowsStayTyped
  <2>2. /\ keeper' = [at |-> "issues", now |-> clock]
        /\ UNCHANGED <<rest, client, issues, ids, spikes, sampler, faults, history>>
    BY <1>7 DEF AgeOccurrences
  <2> QED
    BY <1>t, <2>1, <2>2 DEF TypeOK, IdsInv, rest, history, Occurrence, Id
<1>8. ASSUME AgeIssues PROVE TypeOK' /\ IdsInv'
  <2>1. UNCHANGED <<rest, client, ids, occurrences, spikes, sampler, history>>
    BY <1>8 DEF AgeIssues
  <2>2. faults' \in 0 .. MaxFaults
    BY <1>8, <1>f DEF AgeIssues
  <2>3. keeper' \in Keeper
    BY <1>8, <1>t DEF AgeIssues, Keeper
  <2>4. /\ DOMAIN issues' \subseteq DOMAIN issues
        /\ \A i \in DOMAIN issues' : issues'[i] = issues[i]
    BY <1>8 DEF AgeIssues, Without
  <2> QED
    BY <2>1, <2>2, <2>3, <2>4 DEF TypeOK, IdsInv, rest, history, Keeper, Id
<1>9. ASSUME EvictOccurrences PROVE TypeOK' /\ IdsInv'
  <2>1. occurrences' \in Seq(Occurrence)
    BY <1>9, EvictedFromFront, RowsStayTyped
  <2>2. keeper' \in Keeper
    BY <1>9, <1>t DEF EvictOccurrences, Keeper
  <2>3. UNCHANGED <<rest, client, issues, ids, spikes, sampler, faults, history>>
    BY <1>9 DEF EvictOccurrences
  <2> QED
    BY <2>1, <2>2, <2>3 DEF TypeOK, IdsInv, rest, history, Occurrence, Keeper, Id
<1>10. ASSUME EvictIssues PROVE TypeOK' /\ IdsInv'
  <2>1. /\ UNCHANGED <<rest, client, ids, occurrences, spikes, sampler, faults, news,
                       alarms, unlatched, untrimmed>>
        /\ keeper' = [keeper EXCEPT !.at = "idle"]
    BY <1>10 DEF EvictIssues
  <2>2. PICK gone \in SUBSET DOMAIN issues :
               issues' = Without(gone) /\ evicted' = evicted \cup gone
    BY <1>10 DEF EvictIssues
  <2>3. /\ DOMAIN issues' \subseteq DOMAIN issues
        /\ \A i \in DOMAIN issues' : issues'[i] = issues[i]
    BY <2>2 DEF Without
  <2>4. evicted' \subseteq Id
    BY <2>2, ListsAreIssues DEF TypeOK
  <2>5. keeper' \in Keeper
    BY <2>1, <1>t DEF Keeper
  <2> QED
    BY <2>1, <2>3, <2>4, <2>5 DEF TypeOK, IdsInv, rest, Keeper, Id
<1>11. ASSUME Tick PROVE TypeOK' /\ IdsInv'
  <2>1. clock' \in 0 .. MaxTime
    BY <1>11, <1>0, <1>t DEF Tick
  <2>2. UNCHANGED <<reports, client, tables, spikes, sampler, keeper, faults, history>>
    BY <1>11 DEF Tick
  <2> QED
    BY <2>1, <2>2 DEF TypeOK, IdsInv, tables, history
<1>12. ASSUME Restart PROVE TypeOK' /\ IdsInv'
  <2>1. /\ client' = [c \in Client |-> "idle"] /\ spikes' = {}
        /\ sampler' = [at |-> "idle", since |-> 0, todo |-> {}]
        /\ keeper' = [keeper EXCEPT !.at = "idle"]
        /\ UNCHANGED <<rest, tables, news, alarms, evicted>>
    BY <1>12 DEF Restart
  <2>2. faults' \in 0 .. MaxFaults
    BY <1>12, <1>f DEF Restart
  <2>3. untrimmed' \in Nat
    <3> DEFINE open == {c \in Client : client[c] = "stored"}
    <3>1. Cardinality(open) \in Nat
      BY <1>0, FS_Subset, FS_CardinalityType
    <3>2. untrimmed' = untrimmed + Cardinality(open)
      BY <1>12 DEF Restart
    <3> QED
      BY <1>t, <3>1, <3>2
  <2>4. unlatched' \subseteq Id
    BY <1>12, TurnIsListed DEF Restart, TypeOK, IdsInv
  <2>5. keeper' \in Keeper
    BY <2>1, <1>t DEF Keeper
  <2> QED
    BY <2>1, <2>2, <2>3, <2>4, <2>5 DEF TypeOK, IdsInv, rest, tables, Keeper
<1>13. ASSUME UNCHANGED vars PROVE TypeOK' /\ IdsInv'
  BY <1>13 DEF vars, rest, tables, history, TypeOK, IdsInv, Id
<1> QED
  BY <1>1, <1>2, <1>3, <1>4, <1>5, <1>6, <1>7, <1>8, <1>9, <1>10, <1>11, <1>12, <1>13
     DEF Next, Evaluate, Maintain

-----------------------------------------------------------------------------
(* Announcements.                                                          *)

(* Reports and deletions leave the stamps of the issues that stay alone,   *)
(* and a new issue has an id that was not announced.                       *)
LEMMA AnnouncedStays ==
    ASSUME TypeOK, TypeOK', AnnounceInv, ids <= ids',
           UNCHANGED <<news, unlatched, sampler>>,
           \A i \in DOMAIN issues' :
               \/ i \in DOMAIN issues /\ issues'[i].notified = issues[i].notified
               \/ i > ids
    PROVE  AnnounceInv'
<1>1. ids \in Nat /\ ids' \in Nat /\ Id \subseteq Nat
  BY IssueAssumption DEF TypeOK, Id
<1>2. \A i : Stamping(i)' <=> Stamping(i)
  BY DEF Stamping
<1>3. UngivenIsQuiet'
  <2>1. \A i \in Id : i > ids' => i > ids
    BY <1>1
  <2>2. \A i \in Id : i > ids => news[i] = 0
    BY DEF AnnounceInv, UngivenIsQuiet
  <2> QED
    BY <2>1, <2>2 DEF UngivenIsQuiet
<1>4. ListedIsNew'
  BY <1>2 DEF AnnounceInv, ListedIsNew
<1>5. AnnouncedIsStamped'
  <2> SUFFICES ASSUME NEW i \in Id, news[i] >= 1, i \notin unlatched, i \in DOMAIN issues'
               PROVE  issues'[i].notified \/ Stamping(i)
    BY <1>2 DEF AnnouncedIsStamped
  <2>1. ~(i > ids)
    BY DEF AnnounceInv, UngivenIsQuiet
  <2> QED
    BY <2>1 DEF AnnounceInv, AnnouncedIsStamped
<1>6. AnnouncedOnce'
  BY DEF AnnounceInv, AnnouncedOnce
<1> QED
  BY <1>3, <1>4, <1>5, <1>6 DEF AnnounceInv

(* Leaving the new-issue rule, with or without an issue given up at its    *)
(* stamp, owes nothing.                                                    *)
LEMMA RuleEnds ==
    ASSUME TypeOK, AnnounceInv, UNCHANGED <<news, issues, ids>>,
           sampler'.at \notin {"new", "stamp"}, unlatched \subseteq unlatched',
           \A i \in Id : Stamping(i) => i \in unlatched'
    PROVE  AnnounceInv'
<1>1. \A i : ~Stamping(i)'
  BY DEF Stamping
<1>2. UngivenIsQuiet' /\ ListedIsNew'
  BY DEF AnnounceInv, UngivenIsQuiet, ListedIsNew
<1>3. AnnouncedIsStamped'
  BY <1>1 DEF AnnounceInv, AnnouncedIsStamped
<1>4. AnnouncedOnce'
  BY DEF AnnounceInv, AnnouncedOnce
<1> QED
  BY <1>2, <1>3, <1>4 DEF AnnounceInv

(* An announcement goes to an issue that had none.                         *)
LEMMA NewIssueAnnounces ==
    ASSUME TypeOK, IdsInv, AnnounceInv, NewIssue
    PROVE  AnnounceInv'
<1>1. /\ sampler.at = "new"
      /\ UNCHANGED <<issues, ids, unlatched>>
  BY DEF NewIssue, tables
<1>2. \A i : ~Stamping(i)
  BY <1>1 DEF Stamping
<1>3. CASE sampler' = ToSpikes /\ UNCHANGED news
  <2>1. sampler'.at = "spike"
    BY <1>3, ListsAreIssues
  <2> QED
    BY <1>1, <1>2, <1>3, <2>1, RuleEnds
<1>4. CASE /\ sampler.todo # {}
           /\ news' = [news EXCEPT ![LeastOf(sampler.todo)] = @ + 1]
           /\ sampler' = [sampler EXCEPT !.at = "stamp"]
  <2> DEFINE l == LeastOf(sampler.todo)
  <2>1. l \in sampler.todo /\ l \in Id /\ sampler.todo \subseteq Id
    BY <1>4, TurnIsListed DEF TypeOK
  <2>2. l <= ids /\ ids \in Nat /\ Id \subseteq Nat
    BY <2>1, IssueAssumption DEF IdsInv, TypeOK, Id
  <2>3. sampler'.at = "stamp" /\ sampler'.todo = sampler.todo
    BY <1>4 DEF TypeOK
  <2>4. \A i : Stamping(i)' <=> i = l
    BY <2>3 DEF Stamping
  <2>5. /\ news \in [Id -> Nat] /\ news'[l] = news[l] + 1
        /\ \A i \in Id : i # l => news'[i] = news[i]
    BY <1>4, <2>1 DEF TypeOK
  <2>6. \A i \in sampler.todo : i \notin unlatched => news[i] = 0
    BY <1>1, <1>2 DEF AnnounceInv, ListedIsNew
  <2> HIDE DEF l
  <2>7. UngivenIsQuiet'
    <3>1. \A i \in Id : i > ids => i # l
      BY <2>1, <2>2
    <3> QED
      BY <1>1, <2>5, <3>1 DEF AnnounceInv, UngivenIsQuiet
  <2>8. ListedIsNew'
    BY <1>1, <2>1, <2>3, <2>4, <2>5, <2>6 DEF ListedIsNew
  <2>9. AnnouncedIsStamped'
    BY <1>1, <1>2, <2>4, <2>5 DEF AnnounceInv, AnnouncedIsStamped
  <2>10. AnnouncedOnce'
    BY <1>1, <2>1, <2>5, <2>6 DEF AnnounceInv, AnnouncedOnce
  <2> QED
    BY <2>7, <2>8, <2>9, <2>10 DEF AnnounceInv
<1> QED
  BY <1>3, <1>4 DEF NewIssue

(* The stamp goes to the issue just announced.                             *)
LEMMA StampFollows ==
    ASSUME TypeOK, IdsInv, AnnounceInv, MarkNotified
    PROVE  AnnounceInv'
<1> DEFINE l == LeastOf(sampler.todo)
<1>1. /\ sampler.at = "stamp" /\ UNCHANGED <<ids, news>>
  BY DEF MarkNotified
<1>2. l \in sampler.todo /\ sampler.todo \subseteq Id
  BY <1>1, TurnIsListed DEF TypeOK, IdsInv
<1>3. \A i : Stamping(i) <=> i = l
  BY <1>1 DEF Stamping
<1>4. CASE sampler' = ToSpikes /\ unlatched' = unlatched \cup {l} /\ UNCHANGED issues
  <2>1. sampler'.at = "spike"
    BY <1>4, ListsAreIssues
  <2> QED
    BY <1>1, <1>3, <1>4, <2>1, RuleEnds
<1>5. CASE /\ UNCHANGED unlatched
           /\ issues' = [j \in DOMAIN issues |->
                            [issues[j] EXCEPT !.notified = @ \/ j = l]]
           /\ sampler' = [sampler EXCEPT !.at = "new", !.todo = @ \ {l}]
  <2>1. sampler'.at = "new" /\ sampler'.todo = sampler.todo \ {l}
    BY <1>5 DEF TypeOK
  <2>2. \A i : ~Stamping(i)'
    BY <2>1 DEF Stamping
  <2>3. /\ DOMAIN issues' = DOMAIN issues
        /\ \A i \in DOMAIN issues :
              (issues'[i].notified) <=> (issues[i].notified \/ i = l)
    <3> HIDE DEF l
    <3>1. \A i \in DOMAIN issues : issues[i] \in IssueRow
      BY DEF TypeOK
    <3>2. \A i \in DOMAIN issues : "notified" \in DOMAIN issues[i]
      BY <3>1 DEF IssueRow
    <3> QED
      BY <1>5, <3>2
  <2> HIDE DEF l
  <2>4. UngivenIsQuiet'
    BY <1>1 DEF AnnounceInv, UngivenIsQuiet
  <2>5. ListedIsNew'
    BY <1>1, <1>3, <1>5, <2>1, <2>2 DEF AnnounceInv, ListedIsNew
  <2>6. AnnouncedIsStamped'
    BY <1>1, <1>3, <1>5, <2>3 DEF AnnounceInv, AnnouncedIsStamped
  <2>7. AnnouncedOnce'
    BY <1>1, <1>5 DEF AnnounceInv, AnnouncedOnce
  <2> QED
    BY <2>4, <2>5, <2>6, <2>7 DEF AnnounceInv
<1> QED
  BY <1>4, <1>5 DEF MarkNotified

(* Every step keeps announcements and their stamps together.               *)
LEMMA AnnounceStep ==
    ASSUME TypeOK, IdsInv, TypeOK', AnnounceInv, [Next]_vars
    PROVE  AnnounceInv'
<1>1. ids \in Nat
  BY DEF TypeOK
<1>2. ASSUME NEW c \in Client, NEW f \in Fingerprint, Ingest(c, f) PROVE AnnounceInv'
  <2>1. /\ reports < MaxReports /\ GroupOccurrence(f)
        /\ UNCHANGED <<news, unlatched, sampler>>
    BY <1>2 DEF Ingest, history
  <2>2. PICK id \in Id :
               /\ ids' \in {ids, ids + 1}
               /\ DOMAIN issues' = DOMAIN issues \cup {id}
               /\ \A i \in DOMAIN issues \ {id} : issues'[i] = issues[i]
               /\ id \in DOMAIN issues => issues'[id].notified = issues[id].notified
               /\ id \notin DOMAIN issues => id = ids + 1 /\ ids' = ids + 1
    BY <2>1, Grouped
  <2>3. ids <= ids' /\ ids + 1 > ids
    BY <1>1, <2>2
  <2>4. \A i \in DOMAIN issues' :
               \/ i \in DOMAIN issues /\ issues'[i].notified = issues[i].notified
               \/ i > ids
    BY <2>2, <2>3
  <2> QED
    BY <2>1, <2>3, <2>4, AnnouncedStays
<1>3. ASSUME NEW c \in Client, TrimBeyondCap(c) PROVE AnnounceInv'
  BY <1>1, <1>3, AnnouncedStays DEF TrimBeyondCap
<1>4. ASSUME Sample PROVE AnnounceInv'
  <2>1. /\ sampler.at = "idle" /\ sampler'.at = "new"
        /\ sampler'.todo = UnnotifiedSince(clock - Window)
        /\ UNCHANGED <<issues, ids, news, unlatched>>
    BY <1>4 DEF Sample, tables, history
  <2>2. \A i : ~Stamping(i) /\ ~Stamping(i)'
    BY <2>1 DEF Stamping
  <2>3. \A i \in sampler'.todo : i \in Id /\ i \in DOMAIN issues /\ ~issues[i].notified
    BY <2>1, ListsAreIssues DEF UnnotifiedSince
  <2>4. ListedIsNew'
    <3> SUFFICES ASSUME NEW i \in sampler'.todo, i \notin unlatched
                 PROVE  news[i] = 0
      BY <2>1, <2>2 DEF ListedIsNew
    <3>1. ~(news[i] >= 1) /\ news[i] \in Nat
      BY <2>2, <2>3 DEF AnnounceInv, AnnouncedIsStamped, TypeOK
    <3> QED
      BY <3>1
  <2>5. UngivenIsQuiet' /\ AnnouncedOnce'
    BY <2>1 DEF AnnounceInv, UngivenIsQuiet, AnnouncedOnce
  <2>6. AnnouncedIsStamped'
    BY <2>1, <2>2 DEF AnnounceInv, AnnouncedIsStamped
  <2> QED
    BY <2>4, <2>5, <2>6 DEF AnnounceInv
<1>5. ASSUME NewIssue PROVE AnnounceInv'
  BY <1>5, NewIssueAnnounces
<1>6. ASSUME MarkNotified PROVE AnnounceInv'
  BY <1>6, StampFollows
<1>7. ASSUME Spike PROVE AnnounceInv'
  <2>1. sampler.at = "spike" /\ UNCHANGED <<issues, ids, news, unlatched>>
    BY <1>7 DEF Spike, tables, history
  <2>2. sampler'.at \in {"idle", "spike"}
    <3>1. CASE \E i : sampler' = [sampler EXCEPT !.todo = @ \ {i}]
      BY <2>1, <3>1 DEF TypeOK
    <3>2. CASE sampler' = [sampler EXCEPT !.at = "idle"]
      BY <3>2 DEF TypeOK
    <3>3. CASE sampler' = [sampler EXCEPT !.at = "idle", !.todo = {}]
      BY <3>3 DEF TypeOK
    <3> QED
      BY <1>7, <3>1, <3>2, <3>3 DEF Spike
  <2> QED
    BY <2>1, <2>2, RuleEnds DEF Stamping
<1>8. ASSUME AgeOccurrences \/ EvictOccurrences \/ Tick PROVE AnnounceInv'
  <2>1. UNCHANGED <<issues, ids, news, unlatched, sampler>>
    BY <1>8 DEF AgeOccurrences, EvictOccurrences, Tick, tables, history
  <2> QED
    BY <1>1, <2>1, AnnouncedStays
<1>9. ASSUME AgeIssues \/ EvictIssues PROVE AnnounceInv'
  <2>1. UNCHANGED <<ids, news, unlatched, sampler>>
    BY <1>9 DEF AgeIssues, EvictIssues, history
  <2>2. \A i \in DOMAIN issues' : i \in DOMAIN issues /\ issues'[i] = issues[i]
    BY <1>9 DEF AgeIssues, EvictIssues, Without
  <2> QED
    BY <1>1, <2>1, <2>2, AnnouncedStays
<1>10. ASSUME Restart PROVE AnnounceInv'
  <2>1. /\ sampler'.at = "idle" /\ UNCHANGED <<issues, ids, news>>
        /\ unlatched' = unlatched \cup
              IF sampler.at = "stamp" THEN {LeastOf(sampler.todo)} ELSE {}
    BY <1>10 DEF Restart, tables
  <2> QED
    BY <2>1, RuleEnds DEF Stamping
<1>11. ASSUME UNCHANGED vars PROVE AnnounceInv'
  <2>1. UNCHANGED <<issues, ids, news, unlatched, sampler>>
    BY <1>11 DEF vars, tables, history
  <2> QED
    BY <1>1, <2>1, AnnouncedStays
<1> QED
  BY <1>2, <1>3, <1>4, <1>5, <1>6, <1>7, <1>8, <1>9, <1>10, <1>11
     DEF Next, Evaluate, Maintain
-----------------------------------------------------------------------------
(* Ages.                                                                   *)

(* The rows one by one.                                                    *)
LEMMA RowFacts ==
    ASSUME TypeOK
    PROVE  /\ occurrences \in Seq(Occurrence) /\ Len(occurrences) \in Nat
           /\ DOMAIN occurrences = 1 .. Len(occurrences)
           /\ \A k \in DOMAIN occurrences :
                 occurrences[k].at \in Int /\ occurrences[k].issue \in Int
           /\ \A i \in DOMAIN issues : issues[i].last \in Int
           /\ ids \in Int /\ clock \in Int /\ Retention \in Int /\ keeper.now \in Int
<1>1. occurrences \in Seq(Occurrence)
  BY DEF TypeOK, Occurrence
<1>2. \A k \in DOMAIN occurrences : occurrences[k] \in Occurrence
  BY <1>1
<1>3. \A k \in DOMAIN occurrences :
          occurrences[k].at \in Int /\ occurrences[k].issue \in Int
  BY <1>2 DEF Occurrence, Id
<1>4. \A i \in DOMAIN issues : issues[i].last \in Int
  BY DEF TypeOK, IssueRow
<1> QED
  BY <1>1, <1>3, <1>4, IssueAssumption DEF TypeOK

(* Deleting rows from the front only takes rows away.                      *)
LEMMA RowsGoKeepsAges ==
    ASSUME TypeOK, AgeInv, RowsGo, UNCHANGED <<issues, ids, clock, evicted>>,
           keeper'.now <= clock
    PROVE  AgeInv'
<1>1. PICK m \in 1 .. Len(occurrences) + 1 :
          occurrences' = SubSeq(occurrences, m, Len(occurrences))
  BY DEF RowsGo
<1>2. \A k \in DOMAIN occurrences' :
          /\ k + m - 1 \in DOMAIN occurrences
          /\ occurrences'[k] = occurrences[k + m - 1]
  BY <1>1, RowFacts, Remainder
<1>3. DOMAIN occurrences' \subseteq Int /\ m \in Int
  <2>1. DOMAIN occurrences' = 1 .. Len(occurrences')
    BY <1>1, RowFacts, Remainder
  <2> QED
    BY <2>1, <1>1
<1>4. LastIsNewest'
  BY <1>2 DEF AgeInv, LastIsNewest
<1>5. NothingAhead'
  BY <1>2 DEF AgeInv, NothingAhead
<1>6. TimesAscend'
  <2> SUFFICES ASSUME NEW j \in DOMAIN occurrences', NEW k \in DOMAIN occurrences', j <= k
               PROVE  occurrences'[j].at <= occurrences'[k].at
    BY DEF TimesAscend
  <2>1. j + m - 1 <= k + m - 1
    BY <1>3
  <2> QED
    BY <1>2, <2>1 DEF AgeInv, TimesAscend
<1>7. OrphansAreDue'
  BY <1>2 DEF AgeInv, OrphansAreDue
<1> QED
  BY <1>4, <1>5, <1>6, <1>7 DEF AgeInv

(* An issue goes when its newest report is due, or over budget; meanwhile  *)
(* the clock may advance and stamps may change.                            *)
LEMMA IssuesGoKeepsAges ==
    ASSUME TypeOK, TypeOK', AgeInv, UNCHANGED <<occurrences, ids>>,
           clock <= clock', keeper'.now <= clock', evicted \subseteq evicted',
           \A i \in DOMAIN issues' :
               i \in DOMAIN issues /\ issues'[i].last = issues[i].last,
           \A i \in DOMAIN issues \ DOMAIN issues' :
               issues[i].last < clock - Retention \/ i \in evicted'
    PROVE  AgeInv'
<1>1. /\ \A k \in DOMAIN occurrences :
            occurrences[k].at \in Int /\ occurrences[k].issue \in Int
      /\ \A i \in DOMAIN issues : issues[i].last \in Int
      /\ clock \in Int /\ Retention \in Int
  BY RowFacts
<1>2. clock' \in Int
  BY DEF TypeOK
<1>3. LastIsNewest'
  BY DEF AgeInv, LastIsNewest
<1>4. NothingAhead'
  <2>1. \A k \in DOMAIN occurrences : occurrences[k].at <= clock'
    BY <1>1, <1>2 DEF AgeInv, NothingAhead
  <2>2. \A i \in DOMAIN issues' : issues'[i].last <= clock'
    BY <1>1, <1>2 DEF AgeInv, NothingAhead
  <2> QED
    BY <2>1, <2>2 DEF AgeInv, NothingAhead
<1>5. TimesAscend'
  BY DEF AgeInv, TimesAscend
<1>6. OrphansAreDue'
  <2> SUFFICES ASSUME NEW k \in DOMAIN occurrences,
                      occurrences[k].issue \notin DOMAIN issues'
               PROVE  \/ occurrences[k].at < clock' - Retention
                      \/ occurrences[k].issue \in evicted'
    BY DEF OrphansAreDue
  <2> DEFINE i == occurrences[k].issue
             t == occurrences[k].at
  <2>1. CASE i \notin DOMAIN issues
    <3>1. t < clock - Retention \/ i \in evicted
      BY <2>1 DEF AgeInv, OrphansAreDue
    <3> QED
      BY <3>1, <1>1, <1>2
  <2>2. CASE i \in DOMAIN issues
    <3>1. t <= issues[i].last
      BY <2>2 DEF AgeInv, LastIsNewest
    <3>2. issues[i].last < clock - Retention \/ i \in evicted'
      BY <2>2
    <3> QED
      BY <2>2, <3>1, <3>2, <1>1, <1>2
  <2> QED
    BY <2>1, <2>2
<1> QED
  BY <1>3, <1>4, <1>5, <1>6 DEF AgeInv

(* A report is the newest of its issue, and the last row.                  *)
LEMMA ReportKeepsAges ==
    ASSUME TypeOK, TypeOK', IdsInv, AgeInv,
           NEW c \in Client, NEW f \in Fingerprint, Ingest(c, f)
    PROVE  AgeInv'
<1>1. /\ reports < MaxReports /\ GroupOccurrence(f)
      /\ UNCHANGED <<clock, keeper, evicted>>
  BY DEF Ingest, history
<1>2. PICK id \in Id :
               /\ id <= ids' /\ ids' \in {ids, ids + 1}
               /\ DOMAIN issues' = DOMAIN issues \cup {id}
               /\ \A i \in DOMAIN issues \ {id} : issues'[i] = issues[i]
               /\ issues'[id].last = clock
               /\ id \notin DOMAIN issues => id = ids + 1 /\ ids' = ids + 1
               /\ occurrences' = Append(occurrences, [issue |-> id, at |-> clock])
  BY <1>1, Grouped
<1> DEFINE n == Len(occurrences)
<1>3. /\ n \in Nat /\ DOMAIN occurrences = 1 .. n
      /\ \A k \in DOMAIN occurrences :
            occurrences[k].at \in Int /\ occurrences[k].issue \in Int
      /\ \A i \in DOMAIN issues : issues[i].last \in Int
      /\ ids \in Int /\ clock \in Int /\ Retention \in Int
  BY RowFacts
<1>4. /\ DOMAIN occurrences' = 1 .. n + 1
      /\ occurrences'[n + 1].issue = id /\ occurrences'[n + 1].at = clock
      /\ \A k \in DOMAIN occurrences : occurrences'[k] = occurrences[k]
  <2> DEFINE o == [issue |-> id, at |-> clock]
  <2>1. o \in Occurrence /\ o.issue = id /\ o.at = clock
    BY DEF Occurrence, TypeOK
  <2>2. occurrences' = Append(occurrences, o)
    BY <1>2
  <2> HIDE DEF o
  <2>3. occurrences \in Seq(Occurrence)
    BY RowFacts
  <2>4. /\ occurrences' \in Seq(Occurrence) /\ Len(occurrences') = n + 1
        /\ \A k \in 1 .. n : occurrences'[k] = occurrences[k]
        /\ occurrences'[n + 1] = o
    BY <2>1, <2>2, <2>3, AppendProperties
  <2> QED
    BY <1>3, <2>1, <2>4
<1> HIDE DEF n
<1>5. \A k \in DOMAIN occurrences' : k \in DOMAIN occurrences \/ k = n + 1
  BY <1>3, <1>4
<1>6. \A k \in DOMAIN occurrences : occurrences[k].at <= clock /\ occurrences[k].issue <= ids
  BY DEF AgeInv, NothingAhead
<1>7. LastIsNewest'
  <2> SUFFICES ASSUME NEW k \in DOMAIN occurrences', occurrences'[k].issue \in DOMAIN issues'
               PROVE  occurrences'[k].at <= issues'[occurrences'[k].issue].last
    BY DEF LastIsNewest
  <2>1. CASE occurrences'[k].issue = id
    BY <2>1, <1>2, <1>3, <1>4, <1>5, <1>6
  <2>2. CASE occurrences'[k].issue # id
    BY <2>2, <1>2, <1>4, <1>5 DEF AgeInv, LastIsNewest
  <2> QED
    BY <2>1, <2>2
<1>8. NothingAhead'
  <2>1. ids <= ids'
    BY <1>2, <1>3
  <2>2. \A k \in DOMAIN occurrences' :
            occurrences'[k].at <= clock /\ occurrences'[k].issue <= ids'
    <3> TAKE k \in DOMAIN occurrences'
    <3>1. CASE k = n + 1
      BY <3>1, <1>2, <1>3, <1>4
    <3>2. CASE k \in DOMAIN occurrences
      <4>1. occurrences[k].issue <= ids'
        BY <1>2, <1>3, <1>6, <2>1, <3>2
      <4> QED
        BY <1>4, <1>6, <3>2, <4>1
    <3> QED
      BY <1>5, <3>1, <3>2
  <2>3. \A i \in DOMAIN issues' : issues'[i].last <= clock
    BY <1>2, <1>3 DEF AgeInv, NothingAhead
  <2> QED
    BY <1>1, <2>2, <2>3 DEF AgeInv, NothingAhead
<1>9. TimesAscend'
  <2> SUFFICES ASSUME NEW j \in DOMAIN occurrences', NEW k \in DOMAIN occurrences', j <= k
               PROVE  occurrences'[j].at <= occurrences'[k].at
    BY DEF TimesAscend
  <2>1. CASE k = n + 1
    BY <2>1, <1>3, <1>4, <1>5, <1>6
  <2>2. CASE k \in DOMAIN occurrences
    <3>1. j \in DOMAIN occurrences
      BY <2>2, <1>3, <1>4
    <3> QED
      BY <2>2, <3>1, <1>4 DEF AgeInv, TimesAscend
  <2> QED
    BY <1>5, <2>1, <2>2
<1>10. OrphansAreDue'
  <2> SUFFICES ASSUME NEW k \in DOMAIN occurrences',
                      occurrences'[k].issue \notin DOMAIN issues'
               PROVE  \/ occurrences'[k].at < clock - Retention
                      \/ occurrences'[k].issue \in evicted
    BY <1>1 DEF OrphansAreDue
  <2>1. k \in DOMAIN occurrences /\ occurrences[k].issue \notin DOMAIN issues
    BY <1>2, <1>4, <1>5
  <2> QED
    BY <2>1, <1>4 DEF AgeInv, OrphansAreDue
<1> QED
  BY <1>7, <1>8, <1>9, <1>10 DEF AgeInv

(* Every step keeps the order of the times the age pass relies on.         *)
LEMMA AgeStep ==
    ASSUME TypeOK, IdsInv, TypeOK', AgeInv, [Next]_vars
    PROVE  AgeInv'
<1>1. /\ clock \in Int /\ keeper.now <= clock /\ keeper.now \in Int /\ Retention \in Int
      /\ \A i \in DOMAIN issues : issues[i].last \in Int
  BY RowFacts DEF AgeInv, NothingAhead
<1>2. ASSUME NEW c \in Client, NEW f \in Fingerprint, Ingest(c, f) PROVE AgeInv'
  BY <1>2, ReportKeepsAges
<1>3. ASSUME UNCHANGED <<occurrences, issues, ids, evicted>>, clock <= clock', keeper'.now <= clock'
      PROVE  AgeInv'
  BY <1>3, IssuesGoKeepsAges
<1>4. ASSUME NEW c \in Client, TrimBeyondCap(c) PROVE AgeInv'
  <2>1. UNCHANGED <<issues, ids, clock, evicted, keeper>>
    BY <1>4 DEF TrimBeyondCap, rest
  <2>2. UNCHANGED occurrences \/ RowsGo
    BY <1>4, TrimFromFront
  <2> QED
    BY <1>1, <1>3, <2>1, <2>2, RowsGoKeepsAges
<1>5. ASSUME AgeOccurrences PROVE AgeInv'
  <2>1. UNCHANGED <<issues, ids, clock, evicted>> /\ keeper'.now = clock
    BY <1>5 DEF AgeOccurrences, rest, history
  <2> QED
    BY <1>1, <1>5, <2>1, AgedFromFront, RowsGoKeepsAges
<1>6. ASSUME EvictOccurrences PROVE AgeInv'
  <2>1. UNCHANGED <<issues, ids, clock, evicted>>
    BY <1>6 DEF EvictOccurrences, rest, history
  <2>2. keeper'.now = keeper.now
    BY <1>6 DEF EvictOccurrences, TypeOK
  <2> QED
    BY <1>1, <1>3, <1>6, <2>1, <2>2, EvictedFromFront, RowsGoKeepsAges
<1>7. ASSUME AgeIssues PROVE AgeInv'
  <2>1. UNCHANGED <<occurrences, ids, clock, evicted>>
    BY <1>7 DEF AgeIssues, rest, history
  <2>2. keeper'.now = keeper.now
    BY <1>7 DEF AgeIssues, TypeOK
  <2>3. CASE UNCHANGED issues
    BY <1>1, <1>3, <2>1, <2>2, <2>3
  <2>4. CASE issues' = Without(FirstOf({i \in DOMAIN issues :
                                 issues[i].last < keeper.now - Retention}, Batch))
    <3>1. \A i \in DOMAIN issues' : i \in DOMAIN issues /\ issues'[i].last = issues[i].last
      BY <2>4 DEF Without
    <3>2. \A i \in DOMAIN issues \ DOMAIN issues' : issues[i].last < keeper.now - Retention
      BY <2>4 DEF Without, FirstOf
    <3>3. \A i \in DOMAIN issues \ DOMAIN issues' : issues[i].last < clock - Retention
      BY <1>1, <3>2
    <3> QED
      BY <1>1, <2>1, <2>2, <3>1, <3>3, IssuesGoKeepsAges
  <2> QED
    BY <1>7, <2>3, <2>4 DEF AgeIssues
<1>8. ASSUME EvictIssues PROVE AgeInv'
  <2>1. UNCHANGED <<occurrences, ids, clock>> /\ keeper'.now = keeper.now
    BY <1>8 DEF EvictIssues, rest, TypeOK
  <2>2. PICK gone \in SUBSET DOMAIN issues :
               issues' = Without(gone) /\ evicted' = evicted \cup gone
    BY <1>8 DEF EvictIssues
  <2>3. \A i \in DOMAIN issues' : i \in DOMAIN issues /\ issues'[i].last = issues[i].last
    BY <2>2 DEF Without
  <2>4. \A i \in DOMAIN issues \ DOMAIN issues' : i \in evicted'
    BY <2>2 DEF Without
  <2> QED
    BY <1>1, <2>1, <2>2, <2>3, <2>4, IssuesGoKeepsAges
<1>9. ASSUME Tick PROVE AgeInv'
  <2>1. /\ UNCHANGED <<occurrences, issues, ids, evicted, keeper>> /\ clock' = clock + 1
    BY <1>9 DEF Tick, tables, history
  <2> QED
    BY <1>1, <1>3, <2>1
<1>10. ASSUME MarkNotified PROVE AgeInv'
  <2>1. UNCHANGED <<occurrences, ids, clock, evicted, keeper>>
    BY <1>10 DEF MarkNotified, rest
  <2>2. DOMAIN issues' = DOMAIN issues
        /\ \A i \in DOMAIN issues : issues'[i].last = issues[i].last
    <3>1. \A i \in DOMAIN issues : issues[i] \in IssueRow
      BY DEF TypeOK
    <3>2. CASE UNCHANGED issues
      BY <3>2
    <3>3. CASE issues' = [j \in DOMAIN issues |->
                  [issues[j] EXCEPT !.notified = @ \/ j = LeastOf(sampler.todo)]]
      BY <3>1, <3>3 DEF IssueRow
    <3> QED
      BY <1>10, <3>2, <3>3 DEF MarkNotified
  <2> QED
    BY <1>1, <2>1, <2>2, IssuesGoKeepsAges
<1>11. ASSUME Sample \/ NewIssue \/ Spike \/ Restart \/ UNCHANGED vars PROVE AgeInv'
  <2>1. UNCHANGED <<occurrences, issues, ids, evicted, clock>>
    BY <1>11 DEF Sample, NewIssue, Spike, Restart, vars, rest, tables, history
  <2>2. keeper'.now = keeper.now
    BY <1>11 DEF Sample, NewIssue, Spike, Restart, vars, TypeOK
  <2> QED
    BY <1>1, <1>3, <2>1, <2>2
<1> QED
  BY <1>2, <1>4, <1>5, <1>6, <1>7, <1>8, <1>9, <1>10, <1>11 DEF Next, Evaluate, Maintain
-----------------------------------------------------------------------------
(* The cap.                                                                *)

(* The requests whose trim is still to come.                               *)
Untrimming == {c \in Client : client[c] = "stored"}

(* Every step keeps the table within the cap and the trims to come.        *)
LEMMA CapStep ==
    ASSUME TypeOK, TypeOK', IdsInv, CapHolds, [Next]_vars
    PROVE  CapHolds'
<1> DEFINE open == Cardinality(Untrimming)
<1>1. /\ Len(occurrences) \in Nat /\ Cap \in Nat /\ untrimmed \in Nat
      /\ IsFiniteSet(Untrimming) /\ open \in Nat
      /\ Len(occurrences) <= Cap + untrimmed + open
  <2>1. IsFiniteSet(Untrimming)
    BY IssueAssumption, FS_Subset DEF Untrimming
  <2>2. Len(occurrences) <= Cap + untrimmed + open
    BY DEF CapHolds, Untrimming
  <2> QED
    BY <2>1, <2>2, RowFacts, FS_CardinalityType, IssueAssumption DEF TypeOK
<1>2. SUFFICES Len(occurrences') <= Cap + untrimmed' + Cardinality(Untrimming')
  BY DEF CapHolds, Untrimming
<1>3. ASSUME UNCHANGED <<client, untrimmed>>, Len(occurrences') <= Len(occurrences),
             Len(occurrences') \in Nat
      PROVE  Len(occurrences') <= Cap + untrimmed' + Cardinality(Untrimming')
  <2>1. Untrimming' = Untrimming
    BY <1>3 DEF Untrimming
  <2>2. Len(occurrences') <= Cap + untrimmed + open
    <3> HIDE DEF open
    <3> QED
      BY <1>1, <1>3
  <2> QED
    BY <1>3, <2>1, <2>2
<1>4. ASSUME RowsGo
      PROVE  Len(occurrences') <= Len(occurrences) /\ Len(occurrences') \in Nat
  <2>1. PICK m \in 1 .. Len(occurrences) + 1 :
            occurrences' = SubSeq(occurrences, m, Len(occurrences))
    BY <1>4 DEF RowsGo
  <2>2. Len(occurrences') = Len(occurrences) - m + 1
    BY <2>1, RowFacts, Remainder
  <2> QED
    BY <1>1, <2>1, <2>2
<1>5. ASSUME NEW c \in Client, NEW f \in Fingerprint, Ingest(c, f)
      PROVE  Len(occurrences') <= Cap + untrimmed' + Cardinality(Untrimming')
  <2>1. /\ reports < MaxReports /\ GroupOccurrence(f) /\ client[c] = "idle"
        /\ client' = [client EXCEPT ![c] = "stored"] /\ untrimmed' = untrimmed
    BY <1>5 DEF Ingest, history
  <2>2. PICK id \in Id : occurrences' = Append(occurrences, [issue |-> id, at |-> clock])
    BY <2>1, Grouped
  <2>3. Len(occurrences') = Len(occurrences) + 1
    <3>1. [issue |-> id, at |-> clock] \in Occurrence
      BY DEF Occurrence, TypeOK
    <3> QED
      BY <2>2, <3>1, RowFacts, AppendProperties
  <2>4. Untrimming' = Untrimming \cup {c} /\ c \notin Untrimming
    BY <2>1 DEF Untrimming, TypeOK
  <2>5. Cardinality(Untrimming') = open + 1
    BY <1>1, <2>4, FS_AddElement
  <2> HIDE DEF open
  <2> QED
    BY <1>1, <2>1, <2>3, <2>5
<1>6. ASSUME NEW c \in Client, TrimBeyondCap(c)
      PROVE  Len(occurrences') <= Cap + untrimmed' + Cardinality(Untrimming')
  <2>1. client[c] = "stored" /\ client' = [client EXCEPT ![c] = "idle"]
    BY <1>6 DEF TrimBeyondCap
  <2>2. Untrimming' = Untrimming \ {c} /\ c \in Untrimming
    BY <2>1 DEF Untrimming, TypeOK
  <2>3. Cardinality(Untrimming') = open - 1
    BY <1>1, <2>2, FS_RemoveElement
  <2>4. Cardinality(Untrimming') \in Nat
    BY <1>1, <2>2, FS_Subset, FS_CardinalityType
  <2> DEFINE later == Cardinality(Untrimming')
  <2>5. later = open - 1 /\ later \in Nat
    BY <2>3, <2>4
  <2> HIDE DEF open, later
  <2>6. CASE UNCHANGED occurrences /\ untrimmed' = untrimmed + 1
    <3>1. Len(occurrences') = Len(occurrences)
      BY <2>6
    <3>2. Len(occurrences') <= Cap + untrimmed' + later
      BY <1>1, <2>5, <2>6, <3>1
    <3> QED
      BY <3>2 DEF later
  <2>7. CASE RowsGo /\ Len(occurrences') <= Cap /\ untrimmed' = 0
    <3>1. Len(occurrences') \in Nat
      BY <1>4, <2>7
    <3>2. Len(occurrences') <= Cap + untrimmed' + later
      BY <1>1, <2>5, <2>7, <3>1
    <3> QED
      BY <3>2 DEF later
  <2> QED
    BY <1>6, <2>6, <2>7, TrimFromFront
<1>7. ASSUME Restart
      PROVE  Len(occurrences') <= Cap + untrimmed' + Cardinality(Untrimming')
  <2>1. /\ client' = [c \in Client |-> "idle"] /\ UNCHANGED occurrences
        /\ untrimmed' = untrimmed + open
    BY <1>7 DEF Restart, tables, Untrimming
  <2>2. Untrimming' = {}
    BY <2>1 DEF Untrimming
  <2>3. Cardinality(Untrimming') = 0
    BY <2>2, FS_EmptySet
  <2> HIDE DEF open
  <2> QED
    BY <1>1, <2>1, <2>3
<1>8. ASSUME AgeOccurrences \/ EvictOccurrences
      PROVE  Len(occurrences') <= Cap + untrimmed' + Cardinality(Untrimming')
  <2>1. UNCHANGED <<client, untrimmed>>
    BY <1>8 DEF AgeOccurrences, EvictOccurrences, history
  <2>2. UNCHANGED occurrences \/ RowsGo
    BY <1>8, AgedFromFront, EvictedFromFront
  <2>3. CASE UNCHANGED occurrences
    BY <1>1, <1>3, <2>1, <2>3
  <2> QED
    BY <1>3, <1>4, <2>1, <2>2, <2>3
<1>9. ASSUME \/ Sample \/ NewIssue \/ MarkNotified \/ Spike \/ AgeIssues \/ EvictIssues
             \/ Tick \/ UNCHANGED vars
      PROVE  Len(occurrences') <= Cap + untrimmed' + Cardinality(Untrimming')
  <2>1. UNCHANGED <<client, untrimmed, occurrences>>
    BY <1>9 DEF Sample, NewIssue, MarkNotified, Spike, AgeIssues, EvictIssues, Tick, vars,
                tables, history
  <2> QED
    BY <1>1, <1>3, <2>1
<1> QED
  BY <1>5, <1>6, <1>7, <1>8, <1>9 DEF Next, Evaluate, Maintain

-----------------------------------------------------------------------------
(* The theorems.                                                           *)
IssueInv == TypeOK /\ IdsInv /\ AnnounceInv /\ AgeInv /\ CapHolds

(* The invariant of ingest, sampler and maintenance.                       *)
LEMMA IssueInvariant == Spec => []IssueInv
<1>1. ASSUME Init PROVE IssueInv
  <2>1. TypeOK /\ IdsInv
    BY <1>1, IssueAssumption DEF Init, TypeOK, IdsInv, Id
  <2>2. AnnounceInv
    BY <1>1 DEF Init, AnnounceInv, UngivenIsQuiet, ListedIsNew, AnnouncedIsStamped,
                AnnouncedOnce
  <2>3. AgeInv
    BY <1>1 DEF Init, AgeInv, LastIsNewest, NothingAhead, TimesAscend, OrphansAreDue
  <2>4. CapHolds
    <3>1. Untrimming = {} /\ Len(occurrences) = 0 /\ untrimmed = 0
      BY <1>1 DEF Init, Untrimming
    <3>2. Cardinality(Untrimming) = 0
      BY <3>1, FS_EmptySet
    <3>3. Len(occurrences) <= Cap + untrimmed + Cardinality(Untrimming)
      BY <3>1, <3>2, IssueAssumption
    <3> QED
      BY <3>3 DEF CapHolds, Untrimming
  <2> QED
    BY <2>1, <2>2, <2>3, <2>4 DEF IssueInv
<1>2. ASSUME IssueInv, [Next]_vars PROVE IssueInv'
  BY <1>2, TypeStep, AnnounceStep, AgeStep, CapStep DEF IssueInv
<1> QED
  BY <1>1, <1>2, PTL DEF Spec

(* The tables, the sampler and the pass keep their types for any           *)
(* fingerprints, requests, limits and faults (ingest, evaluateIssues,      *)
(* maintenance).                                                           *)
THEOREM IssuesTypeCorrect == Spec => []TypeOK
<1>1. IssueInv => TypeOK
  BY DEF IssueInv
<1> QED
  BY <1>1, IssueInvariant, PTL

(* evaluateNewIssue: an issue is announced twice only if its stamp could   *)
(* not be written.                                                         *)
THEOREM IssuesAreAnnouncedOnce == Spec => []AnnouncedOnce
<1>1. IssueInv => AnnouncedOnce
  BY DEF IssueInv, AnnounceInv
<1> QED
  BY <1>1, IssueInvariant, PTL

(* deleteBefore on issues: no report in retention loses its issue to the   *)
(* age pass, whatever it interleaves with.                                 *)
THEOREM ReportsKeepTheirIssues == Spec => []OrphansAreDue
<1>1. IssueInv => OrphansAreDue
  BY DEF IssueInv, AgeInv
<1> QED
  BY <1>1, IssueInvariant, PTL

(* TrimBeyondCap: the table exceeds the cap by the trims that are to come  *)
(* or did not run.                                                         *)
THEOREM CapIsKept == Spec => []CapHolds
<1>1. IssueInv => CapHolds
  BY DEF IssueInv
<1> QED
  BY <1>1, IssueInvariant, PTL

-----------------------------------------------------------------------------
(* The log collector.  First sets put in order: the number of members up   *)
(* to one of them is its place.                                            *)
(* Sets that are mapped one to one have as many members.                   *)
LEMMA SameCount ==
    ASSUME NEW S, NEW T, IsFiniteSet(S), NEW f \in [S -> T],
           \A x, y \in S : f[x] = f[y] => x = y,
           \A t \in T : \E x \in S : f[x] = t
    PROVE  IsFiniteSet(T) /\ Cardinality(T) = Cardinality(S)
<1>1. f \in Bijection(S, T)
  BY DEF Bijection, Injection, Surjection, IsInjective
<1>2. ExistsBijection(S, T)
  BY <1>1 DEF ExistsBijection
<1> QED
  BY <1>2, FS_Bijection

(* The number of members up to one of them, in an order.                   *)
Upto(set, order, x) == {y \in set : <<y, x>> \in order}

Total(set, order) ==
    /\ \A x \in set : <<x, x>> \in order
    /\ \A x, y \in set : <<x, y>> \in order \/ <<y, x>> \in order
    /\ \A x, y \in set : <<x, y>> \in order /\ <<y, x>> \in order => x = y
    /\ \A x, y, z \in set : <<x, y>> \in order /\ <<y, z>> \in order => <<x, z>> \in order

(* A finite set can be arranged in any total order: the k-th member is the *)
(* one with k members up to itself.                                        *)
LEMMA ArrangedExists ==
    ASSUME NEW set, IsFiniteSet(set), NEW order, Total(set, order)
    PROVE  \E s \in [1 .. Cardinality(set) -> set] :
              \A j, k \in DOMAIN s : j < k => s[j] # s[k] /\ <<s[j], s[k]>> \in order
<1> DEFINE n == Cardinality(set)
           r == [x \in set |-> Cardinality(Upto(set, order, x))]
<1>1. n \in Nat /\ IsFiniteSet(1 .. n) /\ Cardinality(1 .. n) = n
  <2>1. n \in Nat
    BY FS_CardinalityType
  <2> HIDE DEF n
  <2>2. IsFiniteSet(1 .. n) /\ Cardinality(1 .. n) = IF 1 > n THEN 0 ELSE n - 1 + 1
    BY <2>1, FS_Interval
  <2> QED
    BY <2>1, <2>2
<1>2. ASSUME NEW x \in set
      PROVE  /\ Upto(set, order, x) \in SUBSET set /\ x \in Upto(set, order, x)
             /\ IsFiniteSet(Upto(set, order, x)) /\ r[x] \in 1 .. n
  <2>1. Upto(set, order, x) \in SUBSET set /\ x \in Upto(set, order, x)
    BY DEF Upto, Total
  <2>2. IsFiniteSet(Upto(set, order, x)) /\ Cardinality(Upto(set, order, x)) <= n
    BY <2>1, FS_Subset
  <2>3. Cardinality(Upto(set, order, x)) \in Nat /\ Cardinality(Upto(set, order, x)) # 0
    BY <2>1, <2>2, FS_CardinalityType, FS_EmptySet
  <2> QED
    BY <1>1, <2>1, <2>2, <2>3
<1>3. ASSUME NEW x \in set, NEW y \in set, x # y, <<x, y>> \in order
      PROVE  r[x] < r[y]
  <2>1. Upto(set, order, x) \in SUBSET Upto(set, order, y)
    BY <1>3 DEF Upto, Total
  <2>2. y \in Upto(set, order, y) /\ y \notin Upto(set, order, x)
    BY <1>3 DEF Upto, Total
  <2>3. /\ Cardinality(Upto(set, order, x)) <= Cardinality(Upto(set, order, y))
        /\ Cardinality(Upto(set, order, x)) # Cardinality(Upto(set, order, y))
    BY <1>2, <2>1, <2>2, FS_Subset
  <2> QED
    BY <1>1, <1>2, <2>3
<1> HIDE DEF r
<1>4. r \in Injection(set, 1 .. n)
  <2>1. r \in [set -> 1 .. n]
    BY <1>2 DEF r
  <2>2. \A x, y \in set : r[x] = r[y] => x = y
    <3> SUFFICES ASSUME NEW x \in set, NEW y \in set, r[x] = r[y], x # y PROVE FALSE
      OBVIOUS
    <3>1. r[x] \in Int /\ r[y] \in Int
      BY <1>1, <1>2
    <3>2. <<x, y>> \in order \/ <<y, x>> \in order
      BY DEF Total
    <3> QED
      BY <1>3, <3>1, <3>2
  <2> QED
    BY <2>1, <2>2 DEF Injection, IsInjective
<1>5. r \in Surjection(set, 1 .. n)
  BY <1>1, <1>4, FS_Injection
<1> DEFINE s == [k \in 1 .. n |-> CHOOSE x \in set : r[x] = k]
<1>6. \A k \in 1 .. n : s[k] \in set /\ r[s[k]] = k
  <2> SUFFICES ASSUME NEW k \in 1 .. n PROVE s[k] \in set /\ r[s[k]] = k
    OBVIOUS
  <2>1. \E x \in set : r[x] = k
    BY <1>5 DEF Surjection
  <2> QED
    BY <2>1
<1>7. s \in [1 .. n -> set]
  BY <1>6
<1>8. ASSUME NEW j \in 1 .. n, NEW k \in 1 .. n, j < k
      PROVE  s[j] # s[k] /\ <<s[j], s[k]>> \in order
  <2>1. s[j] \in set /\ s[k] \in set /\ r[s[j]] = j /\ r[s[k]] = k
    BY <1>6
  <2>2. s[j] # s[k]
    BY <1>1, <1>8, <2>1
  <2>3. <<s[k], s[j]>> \notin order
    <3> SUFFICES ASSUME <<s[k], s[j]>> \in order PROVE FALSE
      OBVIOUS
    <3>1. r[s[k]] < r[s[j]]
      BY <1>3, <2>1, <2>2
    <3> QED
      BY <1>1, <1>8, <2>1, <3>1
  <2> QED
    BY <2>1, <2>2, <2>3 DEF Total
<1> HIDE DEF s
<1>9. DOMAIN s = 1 .. n
  BY <1>7
<1> QED
  BY <1>7, <1>8, <1>9

(* What Arranged chooses: every member once, in the order.                 *)
LEMMA ArrangedIs ==
    ASSUME NEW set, IsFiniteSet(set), NEW order, Total(set, order)
    PROVE  LET s == Arranged(set, order) IN
           /\ s \in [1 .. Cardinality(set) -> set]
           /\ \A j, k \in 1 .. Cardinality(set) :
                 j < k => s[j] # s[k] /\ <<s[j], s[k]>> \in order
           /\ \A x \in set : \E k \in 1 .. Cardinality(set) : s[k] = x
<1> DEFINE n == Cardinality(set)
           s == Arranged(set, order)
           Sorted(q) == \A j, k \in DOMAIN q : j < k => q[j] # q[k] /\ <<q[j], q[k]>> \in order
<1>1. s \in [1 .. n -> set] /\ Sorted(s)
  <2>1. s = CHOOSE q \in [1 .. n -> set] : Sorted(q)
    BY DEF Arranged
  <2>2. \E q \in [1 .. n -> set] : Sorted(q)
    BY ArrangedExists
  <2> HIDE DEF s, n, Sorted
  <2> QED
    BY <2>1, <2>2
<1>2. n \in Nat /\ IsFiniteSet(1 .. n) /\ Cardinality(1 .. n) = n
  <2>1. n \in Nat
    BY FS_CardinalityType
  <2> HIDE DEF n
  <2>2. IsFiniteSet(1 .. n) /\ Cardinality(1 .. n) = IF 1 > n THEN 0 ELSE n - 1 + 1
    BY <2>1, FS_Interval
  <2> QED
    BY <2>1, <2>2
<1>3. \A j, k \in 1 .. n : j < k => s[j] # s[k] /\ <<s[j], s[k]>> \in order
  <2>1. DOMAIN s = 1 .. n
    BY <1>1
  <2> QED
    BY <1>1, <2>1
<1> HIDE DEF s
<1>4. s \in Injection(1 .. n, set)
  <2>1. \A j, k \in 1 .. n : s[j] = s[k] => j = k
    <3> SUFFICES ASSUME NEW j \in 1 .. n, NEW k \in 1 .. n, j # k PROVE s[j] # s[k]
      OBVIOUS
    <3>1. j < k \/ k < j
      BY <1>2
    <3> QED
      BY <1>3, <3>1
  <2> QED
    BY <1>1, <2>1 DEF Injection, IsInjective
<1>5. s \in Surjection(1 .. n, set)
  BY <1>2, <1>4, FS_Injection
<1>6. \A x \in set : \E k \in 1 .. n : s[k] = x
  BY <1>5 DEF Surjection
<1> QED
  BY <1>1, <1>3, <1>6 DEF s

(* A finite set of numbers in ascending order.                             *)
LEMMA AscendingIs ==
    ASSUME NEW set \in SUBSET Int, IsFiniteSet(set)
    PROVE  LET s == Ascending(set) IN
           /\ s \in [1 .. Cardinality(set) -> set] /\ Cardinality(set) \in Nat
           /\ \A j, k \in 1 .. Cardinality(set) : j < k => s[j] < s[k]
           /\ \A x \in set : \E k \in 1 .. Cardinality(set) : s[k] = x
<1> DEFINE order == {p \in set \X set : p[1] <= p[2]}
<1>1. \A x, y \in set : <<x, y>> \in order <=> x <= y
  OBVIOUS
<1>2. Total(set, order)
  <2> HIDE DEF order
  <2> QED
    BY <1>1 DEF Total
<1>3. Ascending(set) = Arranged(set, order)
  BY DEF Ascending
<1> HIDE DEF order
<1> DEFINE s == Ascending(set)
           n == Cardinality(set)
<1>4. /\ s \in [1 .. n -> set]
      /\ \A j, k \in 1 .. n : j < k => s[j] # s[k] /\ <<s[j], s[k]>> \in order
      /\ \A x \in set : \E k \in 1 .. n : s[k] = x
  BY <1>2, <1>3, ArrangedIs
<1>5. \A j, k \in 1 .. n : j < k => s[j] < s[k]
  <2> HIDE DEF s, n
  <2> SUFFICES ASSUME NEW j \in 1 .. n, NEW k \in 1 .. n, j < k PROVE s[j] < s[k]
    OBVIOUS
  <2>1. s[j] \in set /\ s[k] \in set /\ s[j] # s[k] /\ <<s[j], s[k]>> \in order
    BY <1>4
  <2>2. s[j] <= s[k]
    BY <1>1, <2>1
  <2>3. s[j] \in Int /\ s[k] \in Int
    BY <2>1
  <2> QED
    BY <2>1, <2>2, <2>3
<1>6. n \in Nat
  BY FS_CardinalityType
<1> QED
  BY <1>4, <1>5, <1>6

-----------------------------------------------------------------------------
(* The number of members of a set of numbers up to one of them.            *)
Rank(set, x) == Cardinality({y \in set : y <= x})

(* The k-th member has rank k.                                             *)
LEMMA RankOfKth ==
    ASSUME NEW set \in SUBSET Int, IsFiniteSet(set), NEW k \in 1 .. Cardinality(set)
    PROVE  Rank(set, Ascending(set)[k]) = k
<1> DEFINE s == Ascending(set)
           n == Cardinality(set)
           upto == {y \in set : y <= s[k]}
           f == [j \in 1 .. k |-> s[j]]
<1>1. /\ s \in [1 .. n -> set] /\ n \in Nat
      /\ \A i, j \in 1 .. n : i < j => s[i] < s[j]
      /\ \A x \in set : \E j \in 1 .. n : s[j] = x
  BY AscendingIs
<1> HIDE DEF s, n
<1>2. k \in Int /\ 1 .. k \subseteq 1 .. n /\ k \in 1 .. n
  BY <1>1 DEF n
<1>3. \A j \in 1 .. n : s[j] \in Int
  BY <1>1
<1>4. f \in [1 .. k -> upto]
  <2>1. ASSUME NEW j \in 1 .. k PROVE s[j] \in set /\ s[j] <= s[k]
    <3>1. j \in 1 .. n /\ (j = k \/ j < k)
      BY <1>2
    <3> QED
      BY <1>1, <1>2, <1>3, <3>1
  <2> QED
    BY <2>1
<1>5. \A i, j \in 1 .. k : f[i] = f[j] => i = j
  <2> SUFFICES ASSUME NEW i \in 1 .. k, NEW j \in 1 .. k, i # j PROVE s[i] # s[j]
    OBVIOUS
  <2>1. i \in 1 .. n /\ j \in 1 .. n /\ (i < j \/ j < i)
    BY <1>2
  <2>2. s[i] < s[j] \/ s[j] < s[i]
    BY <1>1, <2>1
  <2> QED
    BY <1>3, <2>1, <2>2
<1>6. \A y \in upto : \E j \in 1 .. k : f[j] = y
  <2> SUFFICES ASSUME NEW y \in set, y <= s[k] PROVE \E j \in 1 .. k : s[j] = y
    OBVIOUS
  <2>1. PICK j \in 1 .. n : s[j] = y
    BY <1>1
  <2>2. ~(k < j)
    <3> SUFFICES ASSUME k < j PROVE FALSE
      OBVIOUS
    <3>1. s[k] < s[j]
      BY <1>1, <1>2
    <3> QED
      BY <1>2, <1>3, <2>1, <3>1
  <2>3. j \in 1 .. k
    BY <1>1, <1>2, <2>2
  <2> QED
    BY <2>1, <2>3
<1> HIDE DEF f, upto
<1>7. IsFiniteSet(1 .. k) /\ Cardinality(1 .. k) = k
  <2>1. 1 \in Int /\ k \in Int /\ ~(1 > k)
    BY <1>2
  <2> QED
    BY <2>1, FS_Interval
<1>8. Cardinality(upto) = k
  BY <1>4, <1>5, <1>6, <1>7, SameCount
<1> QED
  BY <1>8 DEF upto, Rank, s

(* Ranks count from 1 and grow with the members; as many members as a      *)
(* bound admits have a rank within it.                                     *)
LEMMA Ranks ==
    ASSUME NEW set \in SUBSET Int, IsFiniteSet(set)
    PROVE  /\ \A x \in Int : Rank(set, x) \in 0 .. Cardinality(set)
           /\ \A x \in set : Rank(set, x) >= 1
           /\ \A b \in Nat : Cardinality({x \in set : Rank(set, x) <= b})
                 = IF b <= Cardinality(set) THEN b ELSE Cardinality(set)
<1> DEFINE s == Ascending(set)
           n == Cardinality(set)
<1>1. /\ s \in [1 .. n -> set] /\ n \in Nat
      /\ \A i, j \in 1 .. n : i < j => s[i] < s[j]
      /\ \A x \in set : \E j \in 1 .. n : s[j] = x
  BY AscendingIs
<1>2. \A k \in 1 .. n : Rank(set, s[k]) = k
  BY RankOfKth
<1> HIDE DEF s
<1>3. \A x \in Int : Rank(set, x) \in 0 .. n
  <2> SUFFICES ASSUME NEW x \in Int PROVE Rank(set, x) \in 0 .. n
    OBVIOUS
  <2> DEFINE upto == {y \in set : y <= x}
  <2>1. upto \in SUBSET set
    OBVIOUS
  <2>2. IsFiniteSet(upto) /\ Cardinality(upto) <= n
    BY <2>1, FS_Subset
  <2>3. Cardinality(upto) \in Nat
    BY <2>2, FS_CardinalityType
  <2> QED
    BY <1>1, <2>2, <2>3 DEF Rank
<1> HIDE DEF n
<1>4. \A x \in set : Rank(set, x) >= 1
  <2> SUFFICES ASSUME NEW x \in set PROVE Rank(set, x) >= 1
    OBVIOUS
  <2>1. PICK j \in 1 .. n : s[j] = x
    BY <1>1
  <2> QED
    BY <1>1, <1>2, <2>1
<1>5. ASSUME NEW b \in Nat
      PROVE  Cardinality({x \in set : Rank(set, x) <= b}) = IF b <= n THEN b ELSE n
  <2> DEFINE m == IF b <= n THEN b ELSE n
             low == {x \in set : Rank(set, x) <= b}
             f == [k \in 1 .. m |-> s[k]]
  <2>1. m \in Nat /\ 1 .. m \subseteq 1 .. n /\ m <= b /\ \A k \in 1 .. n : k <= b => k \in 1 .. m
    BY <1>1
  <2> HIDE DEF m
  <2>2. f \in [1 .. m -> low]
    <3>1. ASSUME NEW k \in 1 .. m PROVE s[k] \in set /\ Rank(set, s[k]) <= b
      <4>1. k \in 1 .. n /\ k <= b
        BY <2>1
      <4> QED
        BY <1>1, <1>2, <4>1
    <3> QED
      BY <3>1
  <2>3. \A i, j \in 1 .. m : f[i] = f[j] => i = j
    <3> SUFFICES ASSUME NEW i \in 1 .. m, NEW j \in 1 .. m, s[i] = s[j] PROVE i = j
      OBVIOUS
    <3>1. i \in 1 .. n /\ j \in 1 .. n
      BY <2>1
    <3> QED
      BY <1>2, <3>1
  <2>4. \A x \in low : \E k \in 1 .. m : f[k] = x
    <3> SUFFICES ASSUME NEW x \in set, Rank(set, x) <= b PROVE \E k \in 1 .. m : s[k] = x
      OBVIOUS
    <3>1. PICK k \in 1 .. n : s[k] = x
      BY <1>1
    <3>2. k <= b
      BY <1>2, <3>1
    <3> QED
      BY <2>1, <3>1, <3>2
  <2>5. IsFiniteSet(1 .. m) /\ Cardinality(1 .. m) = m
    <3>1. IsFiniteSet(1 .. m) /\ Cardinality(1 .. m) = IF 1 > m THEN 0 ELSE m - 1 + 1
      BY <2>1, FS_Interval
    <3> QED
      BY <2>1, <3>1
  <2> HIDE DEF f, low
  <2>6. Cardinality(low) = m
    BY <2>2, <2>3, <2>4, <2>5, SameCount
  <2> QED
    BY <2>6 DEF low, m
<1> QED
  BY <1>3, <1>4, <1>5 DEF n

(* The greatest of a finite set of numbers.                                *)
LEMMA MaxIs ==
    ASSUME NEW set \in SUBSET Int, IsFiniteSet(set), set # {}
    PROVE  Max(set) \in set /\ \A x \in set : x <= Max(set)
<1> DEFINE s == Ascending(set)
           n == Cardinality(set)
<1>1. /\ s \in [1 .. n -> set] /\ n \in Nat
      /\ \A i, j \in 1 .. n : i < j => s[i] < s[j]
      /\ \A x \in set : \E j \in 1 .. n : s[j] = x
  BY AscendingIs
<1> HIDE DEF s, n
<1>2. PICK x \in set : TRUE
  OBVIOUS
<1>3. n \in 1 .. n
  BY <1>1
<1>4. s[n] \in set /\ \A y \in set : y <= s[n]
  <2> SUFFICES ASSUME NEW y \in set PROVE s[n] \in set /\ y <= s[n]
    BY <1>1, <1>3
  <2>1. PICK j \in 1 .. n : s[j] = y
    BY <1>1
  <2>2. s[n] \in Int /\ s[n] \in set /\ y \in Int
    BY <1>1, <1>3
  <2>3. j = n \/ j < n
    BY <1>1
  <2> QED
    BY <1>1, <1>3, <2>1, <2>2, <2>3
<1>5. \E m \in set : \A y \in set : m >= y
  BY <1>1, <1>3, <1>4
<1>6. Max(set) \in set /\ \A y \in set : Max(set) >= y
  BY <1>5 DEF Max
<1> QED
  BY <1>6
-----------------------------------------------------------------------------
(* A set of places of a sequence is finite.                                *)
LEMMA PlacesFinite ==
    ASSUME NEW n \in Nat, NEW set \in SUBSET (1 .. n)
    PROVE  IsFiniteSet(set) /\ Cardinality(set) \in 0 .. n /\ set \in SUBSET Int
<1>1. IsFiniteSet(1 .. n) /\ Cardinality(1 .. n) = IF 1 > n THEN 0 ELSE n - 1 + 1
  BY FS_Interval
<1>2. IsFiniteSet(set) /\ Cardinality(set) <= Cardinality(1 .. n)
  BY <1>1, FS_Subset
<1>3. Cardinality(set) \in Nat
  BY <1>2, FS_CardinalityType
<1> QED
  BY <1>1, <1>2, <1>3

(* A larger set has more members up to a number, and more in all.          *)
LEMMA RankGrows ==
    ASSUME NEW n \in Nat, NEW T \in SUBSET (1 .. n), NEW S \in SUBSET T, NEW x \in Int
    PROVE  /\ Rank(S, x) <= Rank(T, x) /\ Rank(S, x) \in Nat /\ Rank(T, x) \in Nat
           /\ Rank(S, x) <= Cardinality(S) /\ Cardinality(S) <= Cardinality(T)
           /\ Cardinality(S) \in Nat /\ Cardinality(T) \in Nat
<1> DEFINE SX == {y \in S : y <= x}
           TX == {y \in T : y <= x}
<1>1. IsFiniteSet(S) /\ IsFiniteSet(T) /\ SX \in SUBSET S /\ TX \in SUBSET T /\ SX \in SUBSET TX
  BY PlacesFinite
<1>2. IsFiniteSet(TX) /\ IsFiniteSet(SX)
  BY <1>1, FS_Subset
<1> HIDE DEF SX, TX
<1>3. Cardinality(SX) <= Cardinality(TX) /\ Cardinality(SX) <= Cardinality(S)
      /\ Cardinality(S) <= Cardinality(T)
  BY <1>1, <1>2, FS_Subset
<1>4. Cardinality(SX) \in Nat /\ Cardinality(TX) \in Nat /\ Cardinality(S) \in Nat /\ Cardinality(T) \in Nat
  BY <1>1, <1>2, FS_CardinalityType
<1> QED
  BY <1>3, <1>4 DEF SX, TX, Rank

(* More places, a larger number.                                           *)
LEMMA CountGrows ==
    ASSUME NEW n \in Nat, NEW T \in SUBSET (1 .. n), NEW S \in SUBSET T
    PROVE  /\ Cardinality(S) <= Cardinality(T)
           /\ Cardinality(S) \in Nat /\ Cardinality(T) \in Nat
BY RankGrows, 1 \in Int

-----------------------------------------------------------------------------
(* One container's log: the places of a stamp, those at or after one, and  *)
(* the newest PollCap; a stamp is mixed when both streams carry it.        *)
Entry == [ts : Nat, stream : Stream]

Stamped(log, t) == {n \in 1 .. Len(log) : log[n].ts = t}
Since(log, t)   == {n \in 1 .. Len(log) : log[n].ts >= t}
LastLines(log)     == {n \in 1 .. Len(log) : n > Len(log) - PollCap}
Mixed(log, t)   == \E m, n \in Stamped(log, t) : log[m].stream # log[n].stream

(* The fields of an entry of a log.                                        *)
LEMMA EntryAt ==
    ASSUME NEW log \in Seq(Entry), NEW n \in 1 .. Len(log)
    PROVE  log[n] \in Entry /\ log[n].ts \in Nat /\ log[n].stream \in Stream
<1>1. log[n] \in Entry
  OBVIOUS
<1>2. log[n].ts \in Nat /\ log[n].stream \in Stream
  BY <1>1 DEF Entry
<1> QED
  BY <1>1, <1>2

CursorType == [ts : Nat, boundary : Nat]

(* What a cursor promises of the lines before it: with S the lines stored  *)
(* or passed over, those of older stamps are in S, and so are the first    *)
(* boundary lines at its own stamp.                                        *)
Keeps(log, c, cursor, S) ==
    /\ cursor.boundary <= Cardinality(Stamped(log, cursor.ts))
    /\ \A n \in 1 .. Len(log) : log[n].ts < cursor.ts =>
          <<c, n>> \in S \/ Mixed(log, log[n].ts)
    /\ ~Mixed(log, cursor.ts) =>
          \A n \in Stamped(log, cursor.ts) :
              Rank(Stamped(log, cursor.ts), n) <= cursor.boundary => <<c, n>> \in S

(* What a cursor promises of the lines after it: none of those is in S.    *)
Covers(log, c, cursor, S) ==
    \A n \in 1 .. Len(log) : <<c, n>> \in S =>
        /\ log[n].ts <= cursor.ts
        /\ log[n].ts = cursor.ts /\ ~Mixed(log, cursor.ts) =>
              Rank(Stamped(log, cursor.ts) \cap LastLines(log), n) <= cursor.boundary

(* A cursor's promise holds of more lines stored or passed over ...        *)
LEMMA KeepsGrows ==
    ASSUME NEW log, NEW c, NEW cursor, NEW S, NEW T, S \subseteq T, Keeps(log, c, cursor, S)
    PROVE  Keeps(log, c, cursor, T)
BY DEF Keeps

(* ... and what it says of the lines after it holds of fewer.              *)
LEMMA CoversShrinks ==
    ASSUME NEW log, NEW c, NEW cursor, NEW S, NEW T,
           \A n \in 1 .. Len(log) : <<c, n>> \in T => <<c, n>> \in S,
           Covers(log, c, cursor, S)
    PROVE  Covers(log, c, cursor, T)
BY DEF Covers

(* A line more: the places of the old lines, their ranks and their streams *)
(* are what they were.                                                     *)
LEMMA OneMore ==
    ASSUME NEW log \in Seq(Entry), NEW e \in Entry, NEW t \in Nat
    PROVE  LET more == Append(log, e)
               N    == Len(log)
           IN /\ N \in Nat /\ Len(more) = N + 1 /\ more[N + 1] = e /\ more \in Seq(Entry)
              /\ \A n \in 1 .. N : more[n] = log[n] /\ n \in 1 .. N + 1 /\ n # N + 1
              /\ \A n \in 1 .. N + 1 : n \in 1 .. N \/ n = N + 1
              /\ Stamped(more, t) = Stamped(log, t) \cup (IF e.ts = t THEN {N + 1} ELSE {})
              /\ Stamped(more, t) \in SUBSET (1 .. N + 1) /\ Stamped(log, t) \in SUBSET (1 .. N)
              /\ LastLines(more) \subseteq LastLines(log) \cup {N + 1}
              /\ Mixed(log, t) => Mixed(more, t)
<1> DEFINE more == Append(log, e)
           N == Len(log)
<1>1. /\ N \in Nat /\ Len(more) = N + 1 /\ more[N + 1] = e /\ more \in Seq(Entry)
      /\ \A n \in 1 .. N : more[n] = log[n]
  OBVIOUS
<1> HIDE DEF more, N
<1>2. /\ \A n \in 1 .. N : n \in 1 .. N + 1 /\ n # N + 1
      /\ \A n \in 1 .. N + 1 : n \in 1 .. N \/ n = N + 1
      /\ N + 1 \in 1 .. N + 1
  BY <1>1
<1>3. Stamped(more, t) = Stamped(log, t) \cup (IF e.ts = t THEN {N + 1} ELSE {})
  BY <1>1, <1>2 DEF Stamped, N
<1>4. Stamped(more, t) \in SUBSET (1 .. N + 1) /\ Stamped(log, t) \in SUBSET (1 .. N)
  BY <1>1 DEF Stamped, N
<1>6. PollCap \in Int
  BY LogAssumption
<1>7. LastLines(more) \subseteq LastLines(log) \cup {N + 1}
  BY <1>1, <1>2, <1>6 DEF LastLines, N
<1>8. Mixed(log, t) => Mixed(more, t)
  BY <1>1, <1>3, <1>4 DEF Mixed
<1> QED
  BY <1>1, <1>2, <1>3, <1>4, <1>7, <1>8 DEF more, N

(* The promises of a cursor survive a line more, whose stamp is not before *)
(* the cursor's, or that S holds.                                          *)
LEMMA KeepsOneMore ==
    ASSUME NEW log \in Seq(Entry), NEW e \in Entry, NEW c, NEW S,
           NEW cursor \in CursorType, Keeps(log, c, cursor, S),
           cursor.ts <= e.ts \/ <<c, Len(log) + 1>> \in S
    PROVE  Keeps(Append(log, e), c, cursor, S)
<1> DEFINE more == Append(log, e)
           N == Len(log)
           t == cursor.ts
           old == Stamped(log, t)
           new == Stamped(more, t)
<1>0. t \in Nat /\ cursor.boundary \in Nat /\ e.ts \in Nat /\ (t <= e.ts \/ <<c, N + 1>> \in S)
  BY DEF CursorType, Entry
<1>1. /\ N \in Nat /\ Len(more) = N + 1 /\ more[N + 1] = e
      /\ \A n \in 1 .. N : more[n] = log[n] /\ n \in 1 .. N + 1 /\ n # N + 1
      /\ \A n \in 1 .. N + 1 : n \in 1 .. N \/ n = N + 1
      /\ new = old \cup (IF e.ts = t THEN {N + 1} ELSE {})
      /\ new \in SUBSET (1 .. N + 1) /\ old \in SUBSET (1 .. N)
      /\ Mixed(log, t) => Mixed(more, t)
  BY <1>0, OneMore
<1>2. \A n \in 1 .. N : log[n].ts \in Nat /\ (Mixed(log, log[n].ts) => Mixed(more, log[n].ts))
  <2> SUFFICES ASSUME NEW n \in 1 .. N
               PROVE  log[n].ts \in Nat /\ (Mixed(log, log[n].ts) => Mixed(more, log[n].ts))
    OBVIOUS
  <2>1. log[n].ts \in Nat
    BY EntryAt
  <2> HIDE DEF more, N, t, new, old
  <2> QED
    BY <2>1, OneMore DEF more
<1>3. /\ cursor.boundary <= Cardinality(old)
      /\ \A n \in 1 .. N : log[n].ts < t => <<c, n>> \in S \/ Mixed(log, log[n].ts)
      /\ ~Mixed(log, t) =>
          \A n \in old : Rank(old, n) <= cursor.boundary => <<c, n>> \in S
  BY DEF Keeps
<1> HIDE DEF more, N, t, new, old
<1>4. old \in SUBSET new /\ Cardinality(old) <= Cardinality(new) /\ Cardinality(old) \in Nat
      /\ Cardinality(new) \in Nat
  <2>1. old \in SUBSET new /\ N + 1 \in Nat /\ new \in SUBSET (1 .. N + 1)
    BY <1>1
  <2> QED
    BY <2>1, CountGrows
<1>5. cursor.boundary <= Cardinality(new)
  BY <1>0, <1>3, <1>4
<1>6. \A n \in 1 .. Len(more) : more[n].ts < t => <<c, n>> \in S \/ Mixed(more, more[n].ts)
  <2> SUFFICES ASSUME NEW n \in 1 .. N + 1, more[n].ts < t
               PROVE  <<c, n>> \in S \/ Mixed(more, more[n].ts)
    BY <1>1
  <2>1. CASE n \in 1 .. N
    BY <1>1, <1>2, <1>3, <2>1
  <2>2. CASE n = N + 1
    BY <1>0, <1>1, <2>2
  <2> QED
    BY <1>1, <2>1, <2>2
<1>7. ASSUME ~Mixed(more, t), NEW n \in new, Rank(new, n) <= cursor.boundary
      PROVE  <<c, n>> \in S
  <2>3. ~Mixed(log, t)
    BY <1>1, <1>7
  <2>4. CASE n = N + 1 /\ n \notin old
    <3>1. {y \in new : y <= n} = old \cup {n} /\ IsFiniteSet(old)
      <4>1. IsFiniteSet(old)
        BY <1>1, PlacesFinite
      <4>2. \A y \in new : y <= n
        BY <1>1, <2>4
      <4>3. new = old \cup {n}
        BY <1>1, <1>7, <2>4
      <4> QED
        BY <4>1, <4>2, <4>3
    <3>2. Rank(new, n) = Cardinality(old) + 1
      BY <2>4, <3>1, FS_AddElement DEF Rank
    <3> QED
      BY <1>0, <1>3, <1>4, <1>7, <3>2
  <2>5. CASE n \in old
    <3>1. {y \in new : y <= n} = {y \in old : y <= n}
      BY <1>1, <2>5
    <3>2. Rank(new, n) = Rank(old, n)
      BY <3>1 DEF Rank
    <3> QED
      BY <1>3, <1>7, <2>3, <2>5, <3>2
  <2> QED
    BY <1>1, <1>7, <2>4, <2>5
<1> QED
  BY <1>5, <1>6, <1>7 DEF Keeps, more, t, new

(* A new line is after every cursor, and is not stored yet.                *)
LEMMA CoversOneMore ==
    ASSUME NEW log \in Seq(Entry), NEW e \in Entry, NEW c, NEW S,
           NEW cursor \in CursorType, Covers(log, c, cursor, S), <<c, Len(log) + 1>> \notin S
    PROVE  Covers(Append(log, e), c, cursor, S)
<1> DEFINE more == Append(log, e)
           N == Len(log)
           t == cursor.ts
           old == Stamped(log, t) \cap LastLines(log)
           new == Stamped(more, t) \cap LastLines(more)
<1>0. t \in Nat /\ cursor.boundary \in Nat
  BY DEF CursorType
<1>1. /\ N \in Nat /\ Len(more) = N + 1
      /\ \A n \in 1 .. N : more[n] = log[n] /\ n \in 1 .. N + 1 /\ n # N + 1
      /\ \A n \in 1 .. N + 1 : n \in 1 .. N \/ n = N + 1
      /\ Stamped(more, t) = Stamped(log, t) \cup (IF e.ts = t THEN {N + 1} ELSE {})
      /\ Stamped(more, t) \in SUBSET (1 .. N + 1) /\ Stamped(log, t) \in SUBSET (1 .. N)
      /\ LastLines(more) \subseteq LastLines(log) \cup {N + 1}
      /\ Mixed(log, t) => Mixed(more, t)
  BY <1>0, OneMore
<1>2. \A n \in 1 .. N : <<c, n>> \in S =>
        /\ log[n].ts <= t
        /\ log[n].ts = t /\ ~Mixed(log, t) => Rank(old, n) <= cursor.boundary
  BY DEF Covers
<1>3. <<c, N + 1>> \notin S
  OBVIOUS
<1>5. old \in SUBSET (1 .. N)
  BY <1>1
<1>6. new \in SUBSET (old \cup {N + 1})
  BY <1>1
<1> HIDE DEF more, N, t, new, old
<1>4. ASSUME NEW n \in 1 .. N PROVE Rank(new, n) <= Rank(old, n) /\ Rank(old, n) \in Nat /\ Rank(new, n) \in Nat
  <2> DEFINE A == {y \in new : y <= n}
             B == {y \in old : y <= n}
  <2>1. A \in SUBSET B
    <3>1. ~(N + 1 <= n)
      BY <1>1
    <3> QED
      BY <1>6, <3>1
  <2>2. B \in SUBSET (1 .. N)
    BY <1>5
  <2> HIDE DEF A, B
  <2>3. Cardinality(A) <= Cardinality(B) /\ Cardinality(A) \in Nat /\ Cardinality(B) \in Nat
    BY <1>1, <2>1, <2>2, CountGrows
  <2> QED
    BY <2>3 DEF A, B, Rank
<1>7. ASSUME NEW n \in 1 .. Len(more), <<c, n>> \in S
      PROVE  /\ more[n].ts <= t
             /\ more[n].ts = t /\ ~Mixed(more, t) => Rank(new, n) <= cursor.boundary
  <2>1. n \in 1 .. N /\ more[n] = log[n]
    BY <1>1, <1>3, <1>7
  <2>2. /\ log[n].ts <= t
        /\ log[n].ts = t /\ ~Mixed(log, t) => Rank(old, n) <= cursor.boundary
    BY <1>2, <1>7, <2>1
  <2> QED
    BY <1>0, <1>1, <1>4, <2>1, <2>2
<1> QED
  BY <1>7 DEF Covers, more, t, new

-----------------------------------------------------------------------------
(* Daemon: every log is a sequence of entries.                             *)
LogsTyped == logs \in [Container -> Seq(Entry)]

(* One sequence after another.                                             *)
LEMMA ConcatIs ==
    ASSUME NEW a \in Nat, NEW b \in Nat, NEW x, NEW y,
           x = [k \in 1 .. a |-> x[k]], y = [k \in 1 .. b |-> y[k]]
    PROVE  /\ Len(x) = a /\ Len(y) = b
           /\ x \o y = [k \in 1 .. a + b |-> IF k <= a THEN x[k] ELSE y[k - a]]
<1> DEFINE S == {x[k] : k \in 1 .. a} \cup {y[k] : k \in 1 .. b}
<1>0. x \in [1 .. a -> S] /\ y \in [1 .. b -> S]
  OBVIOUS
<1> HIDE DEF S
<1>1. x \in Seq(S) /\ y \in Seq(S)
  BY <1>0
<1>2. Len(x) = a /\ Len(y) = b
  BY <1>0, <1>1, LenProperties
<1> DEFINE z == x \o y
           w == [k \in 1 .. a + b |-> IF k <= a THEN x[k] ELSE y[k - a]]
<1>3. /\ z \in Seq(S) /\ Len(z) = a + b
      /\ \A k \in 1 .. a + b : z[k] = IF k <= a THEN x[k] ELSE y[k - a]
  BY <1>1, <1>2, ConcatProperties
<1>4. \A k \in 1 .. a + b : w[k] = z[k]
  BY <1>3
<1>5. DOMAIN w = 1 .. a + b /\ w = [k \in DOMAIN w |-> w[k]]
  OBVIOUS
<1> HIDE DEF z, w
<1>6. z = [k \in 1 .. a + b |-> z[k]]
  BY <1>3
<1>7. z = w
  BY <1>4, <1>5, <1>6
<1> QED
  BY <1>1, <1>2, <1>7 DEF z, w

(* What a poll shows of one stream, in the order of the places.            *)
IsBlock(c, places, s) ==
    LET sub == {n \in places : logs[c][n].stream = s}
    IN /\ Cardinality(sub) \in Nat
       /\ \E q \in [1 .. Cardinality(sub) -> sub] :
             /\ \A j, k \in 1 .. Cardinality(sub) : j < k => q[j] < q[k]
             /\ \A n \in sub : \E k \in 1 .. Cardinality(sub) : q[k] = n
             /\ Block(c, places, s) = [k \in 1 .. Cardinality(sub) |-> <<c, q[k]>>]

(* A block holds the places of its stream, in the order of the log.        *)
LEMMA BlockIs ==
    ASSUME NEW c, NEW s, Len(logs[c]) \in Nat, NEW places \in SUBSET (1 .. Len(logs[c]))
    PROVE  IsBlock(c, places, s)
<1> DEFINE sub == {n \in places : logs[c][n].stream = s}
           q == Ascending(sub)
<1>1. sub \in SUBSET (1 .. Len(logs[c]))
  OBVIOUS
<1>2. Block(c, places, s) = [k \in DOMAIN q |-> <<c, q[k]>>]
  BY DEF Block
<1> HIDE DEF sub
<1>3. IsFiniteSet(sub) /\ sub \in SUBSET Int
  BY <1>1, PlacesFinite
<1>4. /\ q \in [1 .. Cardinality(sub) -> sub] /\ Cardinality(sub) \in Nat
      /\ \A j, k \in 1 .. Cardinality(sub) : j < k => q[j] < q[k]
      /\ \A n \in sub : \E k \in 1 .. Cardinality(sub) : q[k] = n
  BY <1>3, AscendingIs
<1> HIDE DEF q
<1>5. Block(c, places, s) = [k \in 1 .. Cardinality(sub) |-> <<c, q[k]>>]
  BY <1>2, <1>4
<1> QED
  BY <1>4, <1>5 DEF sub, IsBlock

(* What a poll shows: each of the newest places at or after the stamp      *)
(* once, and the places of one stream in their order.                      *)
Shows(c, since, n, p) ==
    LET newest == Since(logs[c], since) \cap LastLines(logs[c]) IN
    /\ n \in Nat /\ p \in [1 .. n -> newest]
    /\ \A j, k \in 1 .. n : p[j] = p[k] => j = k
    /\ \A m \in newest : \E k \in 1 .. n : p[k] = m
    /\ \A j, k \in 1 .. n :
          j < k /\ logs[c][p[j]].stream = logs[c][p[k]].stream => p[j] < p[k]
    /\ Logs(c, since) = [k \in 1 .. n |-> <<c, p[k]>>]

(* What docker.Logs answers, from the two blocks.                          *)
LEMMA LogsAre ==
    ASSUME LogsTyped, NEW c \in Container, NEW since \in Nat
    PROVE  \E n, p : Shows(c, since, n, p)
<1> DEFINE log == logs[c]
           newest == {n \in Places(c, since) : n > Len(logs[c]) - PollCap}
           out == {n \in newest : log[n].stream = "stdout"}
           err == {n \in newest : log[n].stream = "stderr"}
           a == Cardinality(out)
           b == Cardinality(err)
<1>1. log \in Seq(Entry) /\ Len(log) \in Nat
  BY DEF LogsTyped
<1>2. newest = Since(log, since) \cap LastLines(log) /\ newest \in SUBSET (1 .. Len(log))
  BY DEF Places, Since, LastLines
<1>3. \A m \in newest : m \in Int /\ (m \in out \/ m \in err) /\ ~(m \in out /\ m \in err)
  <2> SUFFICES ASSUME NEW m \in newest
               PROVE  m \in Int /\ (m \in out \/ m \in err) /\ ~(m \in out /\ m \in err)
    OBVIOUS
  <2>1. m \in 1 .. Len(log)
    BY <1>2
  <2>2. log[m].stream \in {"stdout", "stderr"}
    BY <1>1, <2>1, EntryAt DEF Stream
  <2> QED
    BY <1>1, <2>1, <2>2
<1>4. Logs(c, since) = Block(c, newest, "stdout") \o Block(c, newest, "stderr")
  BY DEF Logs
<1>5. out \subseteq newest /\ err \subseteq newest
  OBVIOUS
<1>6. \A m \in out : log[m].stream = "stdout"
  OBVIOUS
<1>7. \A m \in err : log[m].stream = "stderr"
  OBVIOUS
<1> HIDE DEF newest
<1>7a. IsBlock(c, newest, "stdout") /\ IsBlock(c, newest, "stderr")
  BY <1>1, <1>2, BlockIs
<1>8. a \in Nat /\ \E q \in [1 .. a -> out] :
            /\ \A j, k \in 1 .. a : j < k => q[j] < q[k]
            /\ \A n \in out : \E k \in 1 .. a : q[k] = n
            /\ Block(c, newest, "stdout") = [k \in 1 .. a |-> <<c, q[k]>>]
  BY <1>7a DEF IsBlock
<1>9. b \in Nat /\ \E q \in [1 .. b -> err] :
            /\ \A j, k \in 1 .. b : j < k => q[j] < q[k]
            /\ \A n \in err : \E k \in 1 .. b : q[k] = n
            /\ Block(c, newest, "stderr") = [k \in 1 .. b |-> <<c, q[k]>>]
  BY <1>7a DEF IsBlock
<1> HIDE DEF log, out, err, a, b
<1>10. PICK q \in [1 .. a -> out] :
            /\ \A j, k \in 1 .. a : j < k => q[j] < q[k]
            /\ \A n \in out : \E k \in 1 .. a : q[k] = n
            /\ Block(c, newest, "stdout") = [k \in 1 .. a |-> <<c, q[k]>>]
  BY <1>8
<1>11. PICK r \in [1 .. b -> err] :
            /\ \A j, k \in 1 .. b : j < k => r[j] < r[k]
            /\ \A n \in err : \E k \in 1 .. b : r[k] = n
            /\ Block(c, newest, "stderr") = [k \in 1 .. b |-> <<c, r[k]>>]
  BY <1>9
<1> DEFINE n == a + b
           p == [k \in 1 .. n |-> IF k <= a THEN q[k] ELSE r[k - a]]
<1>12. /\ n \in Nat
       /\ \A k \in 1 .. n : k <= a => k \in 1 .. a
       /\ \A k \in 1 .. n : ~(k <= a) => k - a \in 1 .. b
       /\ \A k \in 1 .. a : k \in 1 .. n /\ k <= a
       /\ \A k \in 1 .. b : k + a \in 1 .. n /\ ~(k + a <= a) /\ (k + a) - a = k
  BY <1>8, <1>9
<1>13. \A k \in 1 .. n : /\ k <= a => k \in 1 .. a /\ p[k] = q[k] /\ p[k] \in out
                         /\ ~(k <= a) => k - a \in 1 .. b /\ p[k] = r[k - a] /\ p[k] \in err
  BY <1>12
<1> HIDE DEF p
<1>14. p \in [1 .. n -> newest]
  BY <1>5, <1>13 DEF p
<1>15. \A m \in newest : \E k \in 1 .. n : p[k] = m
  <2> SUFFICES ASSUME NEW m \in newest PROVE \E k \in 1 .. n : p[k] = m
    OBVIOUS
  <2>1. CASE m \in out
    <3>1. PICK k \in 1 .. a : q[k] = m
      BY <1>10, <2>1
    <3> QED
      BY <1>12, <1>13, <3>1
  <2>2. CASE m \in err
    <3>1. PICK k \in 1 .. b : r[k] = m
      BY <1>11, <2>2
    <3>2. k + a \in 1 .. n /\ p[k + a] = m
      BY <1>12, <1>13, <3>1
    <3> QED
      BY <3>2
  <2> QED
    BY <1>3, <2>1, <2>2
<1>16. ASSUME NEW j \in 1 .. n, NEW k \in 1 .. n, j < k
       PROVE  p[j] # p[k] /\ (log[p[j]].stream = log[p[k]].stream => p[j] < p[k])
  <2>1. CASE k <= a
    <3>1. j \in 1 .. a /\ k \in 1 .. a /\ p[j] = q[j] /\ p[k] = q[k] /\ p[j] \in out /\ p[k] \in out
      <4>1. a \in Nat /\ b \in Nat /\ j \in Nat /\ k \in Nat /\ j <= a
        BY <1>8, <1>9, <1>16, <2>1
      <4> QED
        BY <1>13, <2>1, <4>1
    <3>2. q[j] < q[k]
      BY <1>10, <1>16, <3>1
    <3> QED
      BY <1>3, <1>5, <3>1, <3>2
  <2>2. CASE ~(j <= a)
    <3>0. ~(k <= a) /\ j - a < k - a
      BY <1>8, <1>9, <1>16, <2>2
    <3>1. /\ j - a \in 1 .. b /\ k - a \in 1 .. b /\ j - a < k - a
          /\ p[j] = r[j - a] /\ p[k] = r[k - a] /\ p[j] \in err /\ p[k] \in err
      BY <1>13, <2>2, <3>0
    <3>2. r[j - a] < r[k - a]
      BY <1>11, <3>1
    <3> QED
      BY <1>3, <1>5, <3>1, <3>2
  <2>3. CASE j <= a /\ ~(k <= a)
    BY <1>3, <1>5, <1>6, <1>7, <1>13, <2>3
  <2> QED
    BY <2>1, <2>2, <2>3
<1>17. \A j, k \in 1 .. n : p[j] = p[k] => j = k
  <2> SUFFICES ASSUME NEW j \in 1 .. n, NEW k \in 1 .. n, j # k PROVE p[j] # p[k]
    OBVIOUS
  <2>1. j < k \/ k < j
    BY <1>8, <1>9
  <2> QED
    BY <1>16, <2>1
<1>18. Logs(c, since) = [k \in 1 .. n |-> <<c, p[k]>>]
  <2> DEFINE x == [k \in 1 .. a |-> <<c, q[k]>>]
             y == [k \in 1 .. b |-> <<c, r[k]>>]
  <2>1. x = [k \in 1 .. a |-> x[k]] /\ y = [k \in 1 .. b |-> y[k]]
    OBVIOUS
  <2>2. \A k \in 1 .. n : <<c, p[k]>> = IF k <= a THEN x[k] ELSE y[k - a]
    BY <1>13
  <2>3. Logs(c, since) = x \o y
    BY <1>4, <1>10, <1>11
  <2> HIDE DEF x, y
  <2>4. x \o y = [k \in 1 .. n |-> IF k <= a THEN x[k] ELSE y[k - a]]
    <3>1. a \in Nat /\ b \in Nat
      BY <1>8, <1>9
    <3> QED
      BY <2>1, <3>1, ConcatIs
  <2> HIDE DEF n
  <2> QED
    BY <2>2, <2>3, <2>4
<1>19. Shows(c, since, n, p)
  <2> HIDE DEF n
  <2> QED
    BY <1>2, <1>12, <1>14, <1>15, <1>16, <1>17, <1>18 DEF Shows, log
<1> QED
  BY <1>19
-----------------------------------------------------------------------------
(* The entries of a sequence at some of its places, in their order.        *)
Picks(places, m, f) ==
    /\ m = Cardinality(places) /\ m \in Nat /\ f \in [1 .. m -> places]
    /\ \A j, k \in 1 .. m : j < k => f[j] < f[k]
    /\ \A j, k \in 1 .. m : f[j] = f[k] => j = k
    /\ \A i \in places : \E k \in 1 .. m : f[k] = i

Selected(lines, places) ==
    \E m, f : Picks(places, m, f) /\ At(lines, places) = [k \in 1 .. m |-> lines[f[k]]]

(* At takes the entries at the given places, in their order.               *)
LEMMA AtIs ==
    ASSUME NEW n \in Nat, NEW lines, NEW places \in SUBSET (1 .. n)
    PROVE  Selected(lines, places)
<1> DEFINE m == Cardinality(places)
           f == Ascending(places)
<1>1. IsFiniteSet(places) /\ places \in SUBSET Int
  BY PlacesFinite
<1>2. /\ f \in [1 .. m -> places] /\ m \in Nat
      /\ \A j, k \in 1 .. m : j < k => f[j] < f[k]
      /\ \A i \in places : \E k \in 1 .. m : f[k] = i
  BY <1>1, AscendingIs
<1>3. At(lines, places) = [k \in DOMAIN f |-> lines[f[k]]]
  BY DEF At
<1>4. m = Cardinality(places)
  OBVIOUS
<1> HIDE DEF m, f
<1>5. \A j, k \in 1 .. m : f[j] = f[k] => j = k
  <2> SUFFICES ASSUME NEW j \in 1 .. m, NEW k \in 1 .. m, j # k PROVE f[j] # f[k]
    OBVIOUS
  <2>1. j < k \/ k < j
    BY <1>2
  <2>2. f[j] \in Int /\ f[k] \in Int
    BY <1>1, <1>2
  <2> QED
    BY <1>2, <2>1, <2>2
<1>6. Picks(places, m, f) /\ At(lines, places) = [k \in 1 .. m |-> lines[f[k]]]
  BY <1>2, <1>3, <1>4, <1>5 DEF Picks
<1> QED
  BY <1>6 DEF Selected

(* What one poll keeps: each line once; in the window every line after the *)
(* cursor's stamp and, when the stamp is not mixed, those at it past the   *)
(* boundary; and how many lines that makes per stamp.                      *)
PollKeeps(c, cursor, kept) ==
    LET log  == logs[c]
        edge == Stamped(log, cursor.ts) \cap LastLines(log)
    IN /\ kept \in Seq({<<c, n>> : n \in Since(log, cursor.ts) \cap LastLines(log)})
       /\ \A j, k \in DOMAIN kept : kept[j] = kept[k] => j = k
       /\ \A n \in LastLines(log) : log[n].ts > cursor.ts => <<c, n>> \in Range(kept)
       /\ ~Mixed(log, cursor.ts) =>
             \A n \in edge : <<c, n>> \in Range(kept) <=> Rank(edge, n) > cursor.boundary
       /\ Cardinality({k \in DOMAIN kept : Ts(kept[k]) = cursor.ts})
             = IF cursor.boundary <= Cardinality(edge)
               THEN Cardinality(edge) - cursor.boundary ELSE 0
       /\ \A t \in Nat : t > cursor.ts =>
             Cardinality({k \in DOMAIN kept : Ts(kept[k]) = t})
                = Cardinality(Stamped(log, t) \cap LastLines(log))

(* The lines a poll keeps, by their places in the log.                     *)
LEMMA PollKept ==
    ASSUME LogsTyped, NEW c \in Container, NEW cursor \in CursorType
    PROVE  PollKeeps(c, cursor, Newer(Logs(c, cursor.ts), cursor))
<1> DEFINE log == logs[c]
           lines == Logs(c, cursor.ts)
           newest == Since(log, cursor.ts) \cap LastLines(log)
           edge == Stamped(log, cursor.ts) \cap LastLines(log)
<1>1. PICK n, p : Shows(c, cursor.ts, n, p)
  BY LogsAre DEF CursorType
<1>2. /\ n \in Nat /\ p \in [1 .. n -> newest]
      /\ \A j, k \in 1 .. n : p[j] = p[k] => j = k
      /\ \A m \in newest : \E k \in 1 .. n : p[k] = m
      /\ \A j, k \in 1 .. n : j < k /\ log[p[j]].stream = log[p[k]].stream => p[j] < p[k]
      /\ lines = [k \in 1 .. n |-> <<c, p[k]>>]
  BY <1>1 DEF Shows
<1>3. /\ cursor.ts \in Nat /\ cursor.boundary \in Nat
      /\ log \in Seq(Entry) /\ Len(log) \in Nat /\ newest \in SUBSET (1 .. Len(log))
  BY DEF CursorType, LogsTyped, Since
<1>4. DOMAIN lines = 1 .. n /\ \A k \in 1 .. n : lines[k] = <<c, p[k]>> /\ Ts(lines[k]) = log[p[k]].ts
  BY <1>2 DEF Ts
<1>5. \A k \in 1 .. n : /\ p[k] \in newest /\ p[k] \in LastLines(log) /\ p[k] \in 1 .. Len(log)
                        /\ log[p[k]].ts \in Nat /\ log[p[k]].ts >= cursor.ts
  <2> SUFFICES ASSUME NEW k \in 1 .. n
               PROVE  /\ p[k] \in newest /\ p[k] \in LastLines(log) /\ p[k] \in 1 .. Len(log)
                      /\ log[p[k]].ts \in Nat /\ log[p[k]].ts >= cursor.ts
    OBVIOUS
  <2>1. p[k] \in newest
    BY <1>2
  <2>2. p[k] \in 1 .. Len(log) /\ log[p[k]].ts >= cursor.ts /\ p[k] \in LastLines(log)
    BY <2>1 DEF Since
  <2> QED
    BY <1>3, <2>1, <2>2, EntryAt
<1> DEFINE at == {i \in 1 .. n : log[p[i]].ts = cursor.ts}
           known == {i \in at : Rank(at, i) <= cursor.boundary}
           S == (1 .. n) \ known
           kept == Newer(lines, cursor)
<1>6. kept = At(lines, S)
  <2>1. at = {i \in DOMAIN lines : Ts(lines[i]) = cursor.ts}
    BY <1>4
  <2>2. 1 .. n = {i \in DOMAIN lines : Ts(lines[i]) >= cursor.ts}
    BY <1>4, <1>5
  <2>3. known = {i \in at : Cardinality({j \in at : j <= i}) <= cursor.boundary}
    BY DEF Rank
  <2> HIDE DEF at, known, lines
  <2> QED
    BY <2>1, <2>2, <2>3 DEF Newer
<1>7. at \in SUBSET (1 .. n) /\ known \in SUBSET at /\ S \in SUBSET (1 .. n)
  OBVIOUS
<1>8. PICK m, f : Picks(S, m, f) /\ At(lines, S) = [k \in 1 .. m |-> lines[f[k]]]
  <2>1. Selected(lines, S)
    BY <1>2, <1>7, AtIs
  <2> HIDE DEF S, lines
  <2> QED
    BY <2>1 DEF Selected
<1>9. /\ m \in Nat /\ f \in [1 .. m -> S]
      /\ \A j, k \in 1 .. m : f[j] = f[k] => j = k
      /\ \A i \in S : \E k \in 1 .. m : f[k] = i
  BY <1>8 DEF Picks
<1>10. /\ kept = [k \in 1 .. m |-> <<c, p[f[k]]>>] /\ DOMAIN kept = 1 .. m
       /\ \A k \in 1 .. m : f[k] \in S /\ f[k] \in 1 .. n
                            /\ kept[k] = <<c, p[f[k]]>> /\ Ts(kept[k]) = log[p[f[k]]].ts
  <2>1. \A k \in 1 .. m : f[k] \in S /\ f[k] \in 1 .. n
    BY <1>7, <1>9
  <2>2. \A k \in 1 .. m : lines[f[k]] = <<c, p[f[k]]>> /\ Ts(lines[f[k]]) = log[p[f[k]]].ts
    BY <1>4, <2>1
  <2> HIDE DEF kept, lines, S, log
  <2>3. kept = [k \in 1 .. m |-> lines[f[k]]]
    BY <1>6, <1>8
  <2> QED
    BY <2>1, <2>2, <2>3
<1>11. /\ edge \in SUBSET newest
       /\ \A y \in newest : y \in edge <=> log[y].ts = cursor.ts
  <2>1. \A y \in 1 .. Len(log) : log[y].ts = cursor.ts => log[y].ts >= cursor.ts
    BY <1>3
  <2> QED
    BY <2>1 DEF Stamped, Since
<1>12. \A t \in Nat : t > cursor.ts => Stamped(log, t) \cap LastLines(log) \subseteq newest
  BY <1>3 DEF Stamped, Since
<1>13. \A y \in newest : \A t : y \in Stamped(log, t) \cap LastLines(log) <=> log[y].ts = t
  BY DEF Since, Stamped
<1>14. \A y \in LastLines(log) : y \in 1 .. Len(log)
  BY DEF LastLines
<1> HIDE DEF log, lines, newest, edge, at, known, S, kept
<1>15. ASSUME NEW i \in 1 .. n PROVE <<c, p[i]>> \in Range(kept) <=> i \in S
  <2>1. <<c, p[i]>> \in Range(kept) <=> \E k \in 1 .. m : <<c, p[f[k]]>> = <<c, p[i]>>
    BY <1>10 DEF Range
  <2>2. \A k \in 1 .. m : <<c, p[f[k]]>> = <<c, p[i]>> <=> f[k] = i
    BY <1>2, <1>10
  <2> QED
    BY <1>9, <2>1, <2>2
<1>16. kept \in Seq({<<c, y>> : y \in newest})
  <2>1. kept \in [1 .. m -> {<<c, y>> : y \in newest}]
    BY <1>5, <1>10
  <2> QED
    BY <1>9, <2>1
<1>17. \A j, k \in DOMAIN kept : kept[j] = kept[k] => j = k
  BY <1>2, <1>9, <1>10
<1>18. ASSUME NEW y \in LastLines(log), log[y].ts > cursor.ts PROVE <<c, y>> \in Range(kept)
  <2>1. y \in 1 .. Len(log) /\ log[y].ts \in Nat
    BY <1>3, <1>14, EntryAt
  <2>2. y \in newest
    BY <1>3, <1>18, <2>1 DEF newest, Since
  <2>3. PICK i \in 1 .. n : p[i] = y
    BY <1>2, <2>2
  <2>4. i \notin at
    BY <1>3, <1>18, <2>1, <2>3 DEF at
  <2>5. i \in S
    BY <2>4 DEF S, known
  <2> QED
    BY <1>15, <2>3, <2>5
<1>19. \A i \in at : i \in 1 .. n /\ p[i] \in edge
  BY <1>5, <1>11 DEF at
<1>20. \A y \in edge : \E i \in at : p[i] = y
  BY <1>2, <1>11 DEF at
<1>21. IsFiniteSet(at) /\ at \in SUBSET Int /\ IsFiniteSet(edge) /\ edge \in SUBSET Int
  <2>1. edge \in SUBSET (1 .. Len(log))
    BY <1>3, <1>11
  <2> QED
    BY <1>2, <1>3, <1>7, <2>1, PlacesFinite
<1>22. Cardinality(edge) = Cardinality(at)
  <2> DEFINE g == [i \in at |-> p[i]]
  <2>1. g \in [at -> edge]
    BY <1>19
  <2>2. \A i, j \in at : g[i] = g[j] => i = j
    BY <1>2, <1>19
  <2>3. \A y \in edge : \E i \in at : g[i] = y
    BY <1>20
  <2> HIDE DEF g
  <2> QED
    BY <1>21, <2>1, <2>2, <2>3, SameCount
<1>23. ASSUME ~Mixed(log, cursor.ts), NEW y \in edge
       PROVE  <<c, y>> \in Range(kept) <=> Rank(edge, y) > cursor.boundary
  <2>1. PICK i \in at : p[i] = y
    BY <1>20
  <2>2. \A j, k \in at : log[p[j]].stream = log[p[k]].stream
    <3>1. \A z \in edge : z \in Stamped(log, cursor.ts)
      BY DEF edge
    <3> QED
      BY <1>19, <1>23, <3>1 DEF Mixed
  <2>3. \A j, k \in at : j \in Int /\ k \in Int /\ p[j] \in Int /\ p[k] \in Int
                         /\ (j < k => p[j] < p[k]) /\ (j = k => p[j] = p[k])
    BY <1>2, <1>19, <1>21, <2>2
  <2>4. \A j \in at : j <= i <=> p[j] <= y
    <3> SUFFICES ASSUME NEW j \in at PROVE j <= i <=> p[j] <= p[i]
      BY <2>1
    <3>1. j < i \/ j = i \/ i < j
      BY <2>3
    <3> QED
      BY <2>3, <3>1
  <2> DEFINE low == {j \in at : j <= i}
             under == {z \in edge : z <= y}
             g == [j \in low |-> p[j]]
  <2>5. IsFiniteSet(low)
    BY <1>21, FS_Subset
  <2>6. g \in [low -> under]
    BY <1>19, <2>4
  <2>7. \A j, k \in low : g[j] = g[k] => j = k
    BY <1>2, <1>19
  <2>8. \A z \in under : \E j \in low : g[j] = z
    BY <1>20, <2>4
  <2> HIDE DEF low, under, g
  <2>9. Cardinality(under) = Cardinality(low)
    BY <2>5, <2>6, <2>7, <2>8, SameCount
  <2>10. Rank(edge, y) = Rank(at, i)
    BY <2>9 DEF Rank, low, under
  <2>11. Rank(at, i) \in Int
    BY <1>21, <2>3, Ranks
  <2>12. i \in S <=> Rank(at, i) > cursor.boundary
    BY <1>3, <1>19, <2>11 DEF S, known
  <2> QED
    BY <1>15, <1>19, <2>1, <2>10, <2>12
<1>24. Cardinality({k \in DOMAIN kept : Ts(kept[k]) = cursor.ts})
         = IF cursor.boundary <= Cardinality(edge) THEN Cardinality(edge) - cursor.boundary ELSE 0
  <2> DEFINE A == {k \in DOMAIN kept : Ts(kept[k]) = cursor.ts}
             B == at \ known
             h == [k \in A |-> f[k]]
  <2>1. A \in SUBSET (1 .. m)
    BY <1>10
  <2>2. IsFiniteSet(A)
    BY <1>9, <2>1, PlacesFinite
  <2>3. h \in [A -> B]
    BY <1>10 DEF at, S
  <2>4. \A j, k \in A : h[j] = h[k] => j = k
    BY <1>9, <2>1
  <2>5. \A i \in B : \E k \in A : h[k] = i
    <3> SUFFICES ASSUME NEW i \in B PROVE \E k \in A : h[k] = i
      OBVIOUS
    <3>1. i \in S /\ log[p[i]].ts = cursor.ts
      BY DEF S, at
    <3>2. PICK k \in 1 .. m : f[k] = i
      BY <1>9, <3>1
    <3> QED
      BY <1>10, <3>1, <3>2
  <2> HIDE DEF h, A, B
  <2>6. Cardinality(B) = Cardinality(A)
    BY <2>2, <2>3, <2>4, <2>5, SameCount
  <2>7. Cardinality(B) = Cardinality(at) - Cardinality(at \cap known)
    BY <1>21, FS_Difference DEF B
  <2>8. at \cap known = known
    BY <1>7
  <2>9. Cardinality(known) = IF cursor.boundary <= Cardinality(at)
                             THEN cursor.boundary ELSE Cardinality(at)
    BY <1>3, <1>21, Ranks DEF known
  <2>10. Cardinality(at) \in Nat
    BY <1>21, FS_CardinalityType
  <2>11. Cardinality(A) = IF cursor.boundary <= Cardinality(edge)
                          THEN Cardinality(edge) - cursor.boundary ELSE 0
    <3>1. Cardinality(A) = Cardinality(at) - Cardinality(known)
      BY <2>6, <2>7, <2>8
    <3>2. CASE cursor.boundary <= Cardinality(at)
      BY <1>3, <1>22, <2>9, <2>10, <3>1, <3>2
    <3>3. CASE ~(cursor.boundary <= Cardinality(at))
      BY <1>3, <1>22, <2>9, <2>10, <3>1, <3>3
    <3> QED
      BY <3>2, <3>3
  <2> QED
    BY <2>11 DEF A
<1>25. ASSUME NEW t \in Nat, t > cursor.ts
       PROVE  Cardinality({k \in DOMAIN kept : Ts(kept[k]) = t})
                = Cardinality(Stamped(log, t) \cap LastLines(log))
  <2> DEFINE A == {k \in DOMAIN kept : Ts(kept[k]) = t}
             B == Stamped(log, t) \cap LastLines(log)
             h == [k \in A |-> p[f[k]]]
  <2>1. A \in SUBSET (1 .. m)
    BY <1>10
  <2>2. IsFiniteSet(A)
    BY <1>9, <2>1, PlacesFinite
  <2>3. h \in [A -> B]
    <3>1. ASSUME NEW k \in A PROVE p[f[k]] \in B
      BY <1>5, <1>10, <1>13
    <3> QED
      BY <3>1
  <2>4. \A j, k \in A : h[j] = h[k] => j = k
    <3> SUFFICES ASSUME NEW j \in A, NEW k \in A, p[f[j]] = p[f[k]] PROVE j = k
      OBVIOUS
    <3>1. j \in 1 .. m /\ k \in 1 .. m
      BY <2>1
    <3>2. f[j] \in 1 .. n /\ f[k] \in 1 .. n
      BY <1>10, <3>1
    <3>3. f[j] = f[k]
      BY <1>2, <3>2
    <3> QED
      BY <1>9, <3>1, <3>3
  <2>5. \A y \in B : \E k \in A : h[k] = y
    <3> SUFFICES ASSUME NEW y \in B PROVE \E k \in A : h[k] = y
      OBVIOUS
    <3>1. y \in newest /\ log[y].ts = t
      BY <1>12, <1>13, <1>25
    <3>2. PICK i \in 1 .. n : p[i] = y
      BY <1>2, <3>1
    <3>3. i \in S
      BY <1>3, <1>25, <3>1, <3>2 DEF S, known, at
    <3>4. PICK k \in 1 .. m : f[k] = i
      BY <1>9, <3>3
    <3> QED
      BY <1>10, <3>1, <3>2, <3>4
  <2> HIDE DEF h, A, B
  <2>6. Cardinality(B) = Cardinality(A)
    BY <2>2, <2>3, <2>4, <2>5, SameCount
  <2> QED
    BY <2>6 DEF A, B
<1> QED
  BY <1>16, <1>17, <1>18, <1>23, <1>24, <1>25 DEF PollKeeps, log, newest, edge, kept, lines
-----------------------------------------------------------------------------
(* The values of a function on a finite set.                               *)
LEMMA ImageFinite ==
    ASSUME NEW S, IsFiniteSet(S), NEW f, DOMAIN f = S
    PROVE  IsFiniteSet(Range(f)) /\ Range(f) = {f[x] : x \in S}
<1> DEFINE T == {f[x] : x \in S}
           g == [x \in S |-> f[x]]
<1>1. g \in Surjection(S, T)
  BY DEF Surjection
<1>2. IsFiniteSet(T)
  BY <1>1, FS_Surjection
<1> QED
  BY <1>2 DEF Range

(* Where a poll leaves the cursor: at the newest stamp kept, and with as   *)
(* many lines at it as the window shows.                                   *)
PollAdvances(c, cursor, kept, new) ==
    LET log     == logs[c]
        edge(t) == Cardinality(Stamped(log, t) \cap LastLines(log))
    IN /\ new \in CursorType /\ cursor.ts <= new.ts
       /\ new.ts = cursor.ts \/ \E n \in 1 .. Len(log) : log[n].ts = new.ts
       /\ \A n \in 1 .. Len(log) : <<c, n>> \in Range(kept) => log[n].ts <= new.ts
       /\ new.boundary = IF new.ts = cursor.ts /\ edge(new.ts) <= cursor.boundary
                         THEN cursor.boundary ELSE edge(new.ts)

(* The cursor after the poll, from the lines that were kept.               *)
LEMMA AdvancedIs ==
    ASSUME LogsTyped, NEW c \in Container, NEW cursor \in CursorType, NEW kept,
           PollKeeps(c, cursor, kept)
    PROVE  PollAdvances(c, cursor, kept, Advanced(kept, cursor))
<1> DEFINE log == logs[c]
           edge(t) == Cardinality(Stamped(log, t) \cap LastLines(log))
           places == Since(log, cursor.ts) \cap LastLines(log)
           shown == {<<c, n>> : n \in places}
           stamps == {cursor.ts} \cup {Ts(l) : l \in Range(kept)}
           top == Max(stamps)
           at == Cardinality({i \in DOMAIN kept : Ts(kept[i]) = top})
           new == Advanced(kept, cursor)
<1>1. /\ cursor.ts \in Nat /\ cursor.boundary \in Nat
      /\ log \in Seq(Entry) /\ Len(log) \in Nat /\ places \in SUBSET (1 .. Len(log))
  BY DEF CursorType, LogsTyped, Since
<1>2. /\ kept \in Seq(shown)
      /\ Cardinality({k \in DOMAIN kept : Ts(kept[k]) = cursor.ts})
             = IF cursor.boundary <= edge(cursor.ts) THEN edge(cursor.ts) - cursor.boundary ELSE 0
      /\ \A t \in Nat : t > cursor.ts =>
             Cardinality({k \in DOMAIN kept : Ts(kept[k]) = t}) = edge(t)
  BY DEF PollKeeps
<1>3. \A t : edge(t) \in Nat
  <2> SUFFICES ASSUME NEW t PROVE edge(t) \in Nat
    OBVIOUS
  <2>1. Stamped(log, t) \cap LastLines(log) \in SUBSET (1 .. Len(log))
    BY DEF Stamped
  <2> HIDE DEF log
  <2> QED
    BY <1>1, <2>1, CountGrows
<1>4. Range(kept) \subseteq shown /\ IsFiniteSet(Range(kept))
  <2>1. Len(kept) \in Nat /\ DOMAIN kept = 1 .. Len(kept) /\ \A k \in 1 .. Len(kept) : kept[k] \in shown
    BY <1>2
  <2>2. IsFiniteSet(1 .. Len(kept))
    BY <2>1, FS_Interval, 1 \in Int, Len(kept) \in Int
  <2>3. IsFiniteSet(Range(kept))
    BY <2>1, <2>2, ImageFinite
  <2> HIDE DEF shown
  <2> QED
    BY <2>1, <2>3 DEF Range
<1>5. \A l \in Range(kept) : \E n \in places : l = <<c, n>> /\ Ts(l) = log[n].ts /\ log[n].ts \in Nat
  BY <1>1, <1>4, EntryAt DEF Ts
<1>6. \A n \in 1 .. Len(log) : Ts(<<c, n>>) = log[n].ts
  BY DEF Ts
<1> HIDE DEF places, shown
<1>7. stamps \in SUBSET Int /\ IsFiniteSet(stamps) /\ stamps # {}
  <2>1. stamps \in SUBSET Int /\ stamps # {}
    <3>1. cursor.ts \in Int /\ \A l \in Range(kept) : Ts(l) \in Int
      BY <1>1, <1>5
    <3> QED
      BY <3>1
  <2> DEFINE f == [l \in Range(kept) |-> Ts(l)]
  <2>2. IsFiniteSet(Range(f)) /\ Range(f) = {f[l] : l \in Range(kept)}
    <3>1. DOMAIN f = Range(kept)
      OBVIOUS
    <3> HIDE DEF f
    <3> QED
      BY <1>4, <3>1, ImageFinite
  <2>3. stamps = Range(f) \cup {cursor.ts}
    BY <2>2
  <2> HIDE DEF stamps, f
  <2>4. IsFiniteSet(stamps)
    BY <2>2, <2>3, FS_AddElement
  <2> QED
    BY <2>1, <2>4
<1>8. top \in stamps /\ \A t \in stamps : t <= top
  <2> HIDE DEF stamps
  <2> QED
    BY <1>7, MaxIs
<1>9. /\ new.ts = top
      /\ new.boundary = IF top = cursor.ts THEN cursor.boundary + at ELSE at
      /\ new = [ts |-> top, boundary |-> new.boundary]
  <2> HIDE DEF top, at
  <2>1. new = [ts |-> top, boundary |-> IF top = cursor.ts THEN cursor.boundary + at ELSE at]
    BY DEF Advanced, top, at
  <2> HIDE DEF new
  <2> QED
    BY <2>1
<1> HIDE DEF new
<1>10. cursor.ts <= top /\ top \in Nat
  BY <1>1, <1>5, <1>8
<1>11. top = cursor.ts \/ \E n \in 1 .. Len(log) : log[n].ts = top
  BY <1>1, <1>5, <1>8
<1>12. \A n \in 1 .. Len(log) : <<c, n>> \in Range(kept) => log[n].ts <= top
  BY <1>6, <1>8
<1> HIDE DEF top
<1>13. new.boundary \in Nat /\
       new.boundary = IF top = cursor.ts /\ edge(top) <= cursor.boundary
                      THEN cursor.boundary ELSE edge(top)
  <2>1. CASE top = cursor.ts
    <3>1. new.boundary = cursor.boundary + at
      BY <1>9, <2>1
    <3>2. at = IF cursor.boundary <= edge(top) THEN edge(top) - cursor.boundary ELSE 0
      BY <1>2, <2>1
    <3> HIDE DEF at, edge
    <3>3. edge(top) \in Nat
      BY <1>3
    <3> QED
      BY <1>1, <2>1, <3>1, <3>2, <3>3
  <2>2. CASE top # cursor.ts
    <3>1. new.boundary = at
      BY <1>9, <2>2
    <3>2. at = edge(top)
      <4>1. top > cursor.ts
        BY <1>1, <1>10, <2>2
      <4> QED
        BY <1>2, <1>10, <4>1
    <3> HIDE DEF at, edge
    <3>3. edge(top) \in Nat
      BY <1>3
    <3> QED
      BY <2>2, <3>1, <3>2, <3>3
  <2> QED
    BY <2>1, <2>2
<1>14. new \in CursorType
  BY <1>9, <1>10, <1>13 DEF CursorType
<1> HIDE DEF edge
<1>15. /\ cursor.ts <= new.ts
       /\ new.ts = cursor.ts \/ \E n \in 1 .. Len(log) : log[n].ts = new.ts
       /\ \A n \in 1 .. Len(log) : <<c, n>> \in Range(kept) => log[n].ts <= new.ts
       /\ new.boundary = IF new.ts = cursor.ts /\ edge(new.ts) <= cursor.boundary
                         THEN cursor.boundary ELSE edge(new.ts)
  BY <1>9, <1>10, <1>11, <1>12, <1>13
<1> QED
  BY <1>14, <1>15 DEF PollAdvances, log, edge, new

(* After a poll every line of the container was stored or passed over      *)
(* before, is kept or passed over now, or has a mixed stamp.               *)
LEMMA AllAccounted ==
    ASSUME LogsTyped, NEW c \in Container, NEW cursor \in CursorType, NEW kept, NEW S,
           PollKeeps(c, cursor, kept), Keeps(logs[c], c, cursor, S)
    PROVE  \A n \in 1 .. Len(logs[c]) :
              \/ <<c, n>> \in S \cup Range(kept) \cup PassedOver(c, cursor.ts)
              \/ Mixed(logs[c], logs[c][n].ts)
<1> DEFINE log == logs[c]
           t == cursor.ts
<1> SUFFICES ASSUME NEW n \in 1 .. Len(log), ~Mixed(log, log[n].ts)
             PROVE  <<c, n>> \in S \cup Range(kept) \cup PassedOver(c, t)
  OBVIOUS
<1>1. /\ t \in Nat /\ cursor.boundary \in Nat /\ log \in Seq(Entry) /\ Len(log) \in Nat
      /\ PollCap \in Int
  BY LogAssumption DEF CursorType, LogsTyped
<1>2. log[n].ts \in Nat
  BY <1>1, EntryAt
<1>4. /\ \A m \in LastLines(log) : log[m].ts > t => <<c, m>> \in Range(kept)
      /\ ~Mixed(log, t) =>
            \A m \in Stamped(log, t) \cap LastLines(log) :
               <<c, m>> \in Range(kept) <=> Rank(Stamped(log, t) \cap LastLines(log), m) > cursor.boundary
  BY DEF PollKeeps
<1>5. /\ \A m \in 1 .. Len(log) : log[m].ts < t => <<c, m>> \in S \/ Mixed(log, log[m].ts)
      /\ ~Mixed(log, t) =>
            \A m \in Stamped(log, t) : Rank(Stamped(log, t), m) <= cursor.boundary => <<c, m>> \in S
  BY DEF Keeps
<1>6. \A m \in 1 .. Len(log) : m \notin LastLines(log) <=> m <= Len(log) - PollCap
  BY <1>1 DEF LastLines
<1>7. ASSUME NEW m \in 1 .. Len(log), log[m].ts >= t, m \notin LastLines(log)
      PROVE  m \in Places(c, t) /\ m <= Len(log) - PollCap /\ <<c, m>> \in PassedOver(c, t)
  BY <1>6, <1>7 DEF PassedOver, Places
<1>8. ASSUME log[n].ts = t, NEW m \in Stamped(log, t), m \notin LastLines(log)
      PROVE  <<c, n>> \in PassedOver(c, t)
  <2>1. m \in 1 .. Len(log) /\ log[m].ts = t /\ t >= t
    BY <1>1 DEF Stamped
  <2>2. m \in Places(c, t) /\ m <= Len(log) - PollCap
    BY <1>7, <1>8, <2>1
  <2>3. n \in Places(c, t)
    BY <1>8, <2>1 DEF Places
  <2> QED
    BY <1>8, <2>1, <2>2, <2>3 DEF PassedOver
<1>9. log[n].ts = t => n \in Stamped(log, t)
  BY DEF Stamped
<1>10. Stamped(log, t) \in SUBSET (1 .. Len(log))
  BY DEF Stamped
<1> HIDE DEF log
<1>13. CASE log[n].ts < t
  BY <1>5, <1>13
<1>14. CASE log[n].ts > t
  <2>1. CASE n \in LastLines(log)
    BY <1>4, <1>14, <2>1
  <2>2. CASE n \notin LastLines(log)
    BY <1>1, <1>2, <1>7, <1>14, <2>2
  <2> QED
    BY <2>1, <2>2
<1>15. CASE log[n].ts = t
  <2>1. n \in Stamped(log, t) /\ ~Mixed(log, t)
    BY <1>9, <1>15
  <2>2. CASE \E m \in Stamped(log, t) : m \notin LastLines(log)
    BY <1>8, <1>15, <2>2
  <2>3. CASE \A m \in Stamped(log, t) : m \in LastLines(log)
    <3>1. Stamped(log, t) \cap LastLines(log) = Stamped(log, t)
      BY <2>3
    <3>2. Rank(Stamped(log, t), n) \in Nat
      <4>1. Stamped(log, t) \in SUBSET Stamped(log, t) /\ n \in Int
        OBVIOUS
      <4> QED
        BY <1>1, <1>10, <4>1, RankGrows
    <3>3. Rank(Stamped(log, t), n) <= cursor.boundary \/ Rank(Stamped(log, t), n) > cursor.boundary
      BY <1>1, <3>2
    <3> QED
      BY <1>4, <1>5, <2>1, <3>1, <3>3
  <2> QED
    BY <2>2, <2>3
<1> QED
  BY <1>1, <1>2, <1>13, <1>14, <1>15

(* The cursor a poll leaves promises of its lines what the one before did. *)
LEMMA PollKeepsPromises ==
    ASSUME LogsTyped, NEW c \in Container, NEW cursor \in CursorType,
           NEW kept, NEW new, NEW S,
           PollKeeps(c, cursor, kept), PollAdvances(c, cursor, kept, new), Keeps(logs[c], c, cursor, S)
    PROVE  Keeps(logs[c], c, new, S \cup Range(kept) \cup PassedOver(c, cursor.ts))
<1> DEFINE log == logs[c]
           T == S \cup Range(kept) \cup PassedOver(c, cursor.ts)
<1>1. \A n \in 1 .. Len(log) : <<c, n>> \in T \/ Mixed(log, log[n].ts)
  BY AllAccounted
<1>2. \A n \in Stamped(log, new.ts) : n \in 1 .. Len(log) /\ log[n].ts = new.ts
  BY DEF Stamped
<1> HIDE DEF T
<1>3. new.boundary <= Cardinality(Stamped(log, new.ts))
  <2>1. /\ cursor.boundary <= Cardinality(Stamped(log, cursor.ts))
        /\ new.boundary = IF new.ts = cursor.ts
                             /\ Cardinality(Stamped(log, new.ts) \cap LastLines(log)) <= cursor.boundary
                          THEN cursor.boundary ELSE Cardinality(Stamped(log, new.ts) \cap LastLines(log))
    BY DEF Keeps, PollAdvances
  <2>2. Len(log) \in Nat /\ Stamped(log, new.ts) \in SUBSET (1 .. Len(log))
        /\ Stamped(log, new.ts) \cap LastLines(log) \in SUBSET Stamped(log, new.ts)
    BY DEF LogsTyped, Stamped
  <2>3. Cardinality(Stamped(log, new.ts) \cap LastLines(log)) <= Cardinality(Stamped(log, new.ts))
    BY <2>2, CountGrows
  <2> QED
    BY <2>1, <2>3
<1> QED
  BY <1>1, <1>2, <1>3 DEF Keeps, T

(* Nor does it keep a line again that was stored, unless its stamp is      *)
(* mixed.                                                                  *)
LEMMA PollKeepsNew ==
    ASSUME LogsTyped, NEW c \in Container, NEW cursor \in CursorType,
           NEW kept, NEW new, NEW K,
           PollKeeps(c, cursor, kept), PollAdvances(c, cursor, kept, new), Covers(logs[c], c, cursor, K)
    PROVE  /\ Covers(logs[c], c, new, K \cup Range(kept))
           /\ \A n \in 1 .. Len(logs[c]) : <<c, n>> \in K /\ <<c, n>> \in Range(kept) =>
                 Mixed(logs[c], logs[c][n].ts)
<1> DEFINE log == logs[c]
           edge(t) == Stamped(log, t) \cap LastLines(log)
           E == edge(new.ts)
<1>1. /\ cursor.ts \in Nat /\ cursor.boundary \in Nat /\ log \in Seq(Entry) /\ Len(log) \in Nat
      /\ new.ts \in Nat /\ new.boundary \in Nat
  BY DEF CursorType, LogsTyped, PollAdvances
<1>2. /\ cursor.ts <= new.ts
      /\ \A n \in 1 .. Len(log) : <<c, n>> \in Range(kept) => log[n].ts <= new.ts
      /\ new.boundary = IF new.ts = cursor.ts /\ Cardinality(E) <= cursor.boundary
                        THEN cursor.boundary ELSE Cardinality(E)
  BY DEF PollAdvances
<1>3. \A n \in 1 .. Len(log) : <<c, n>> \in K =>
        /\ log[n].ts <= cursor.ts
        /\ log[n].ts = cursor.ts /\ ~Mixed(log, cursor.ts) => Rank(edge(cursor.ts), n) <= cursor.boundary
  BY DEF Covers
<1>4. \A n \in 1 .. Len(log) : <<c, n>> \in Range(kept) =>
        /\ n \in Since(log, cursor.ts) \cap LastLines(log) /\ log[n].ts >= cursor.ts
        /\ log[n].ts = cursor.ts => n \in edge(cursor.ts)
  <2>1. kept \in Seq({<<c, n>> : n \in Since(log, cursor.ts) \cap LastLines(log)})
    BY DEF PollKeeps
  <2>2. \A l \in Range(kept) : \E n \in Since(log, cursor.ts) \cap LastLines(log) : l = <<c, n>>
    BY <2>1 DEF Range
  <2> QED
    BY <2>2 DEF Since, Stamped
<1>5. ~Mixed(log, cursor.ts) =>
        \A n \in edge(cursor.ts) : <<c, n>> \in Range(kept) <=> Rank(edge(cursor.ts), n) > cursor.boundary
  BY DEF PollKeeps
<1>6. \A n \in Int : Rank(E, n) <= Cardinality(E) /\ Rank(E, n) \in Nat /\ Cardinality(E) \in Nat
  <2> SUFFICES ASSUME NEW n \in Int
               PROVE  Rank(E, n) <= Cardinality(E) /\ Rank(E, n) \in Nat /\ Cardinality(E) \in Nat
    OBVIOUS
  <2>1. E \in SUBSET (1 .. Len(log)) /\ E \in SUBSET E
    BY DEF Stamped
  <2> HIDE DEF E, log
  <2> QED
    BY <1>1, <2>1, RankGrows
<1>7. \A n \in 1 .. Len(log) : log[n].ts \in Nat /\ n \in Int
  BY <1>1, EntryAt
<1>8. new.ts = cursor.ts => E = edge(cursor.ts)
  OBVIOUS
<1> HIDE DEF log, edge, E
<1>9. ASSUME NEW n \in 1 .. Len(log), <<c, n>> \in K \cup Range(kept)
      PROVE  /\ log[n].ts <= new.ts
             /\ log[n].ts = new.ts /\ ~Mixed(log, new.ts) => Rank(E, n) <= new.boundary
  <2>1. CASE <<c, n>> \in Range(kept)
    <3>1. Rank(E, n) <= Cardinality(E) /\ Rank(E, n) \in Nat /\ Cardinality(E) \in Nat
      BY <1>6, <1>7
    <3>2. Rank(E, n) <= new.boundary
      BY <1>1, <1>2, <3>1
    <3> QED
      BY <1>2, <2>1, <3>2
  <2>2. CASE <<c, n>> \in K
    <3>1. log[n].ts <= cursor.ts
      BY <1>3, <2>2
    <3>2. log[n].ts <= new.ts /\ (log[n].ts = new.ts => new.ts = cursor.ts)
      BY <1>1, <1>2, <1>7, <3>1
    <3>3. ASSUME log[n].ts = new.ts, ~Mixed(log, new.ts) PROVE Rank(E, n) <= new.boundary
      <4>1. new.ts = cursor.ts /\ E = edge(cursor.ts)
        BY <1>8, <3>2, <3>3
      <4>2. Rank(E, n) <= cursor.boundary
        BY <1>3, <2>2, <3>3, <4>1
      <4>3. Rank(E, n) \in Nat /\ Cardinality(E) \in Nat
        BY <1>6, <1>7
      <4> QED
        BY <1>1, <1>2, <4>1, <4>2, <4>3
    <3> QED
      BY <3>2, <3>3
  <2> QED
    BY <1>9, <2>1, <2>2
<1>10. ASSUME NEW n \in 1 .. Len(log), <<c, n>> \in K, <<c, n>> \in Range(kept), ~Mixed(log, log[n].ts)
       PROVE  FALSE
  <2>1. log[n].ts = cursor.ts /\ n \in edge(cursor.ts)
    BY <1>1, <1>3, <1>4, <1>7, <1>10
  <2>2. Rank(edge(cursor.ts), n) <= cursor.boundary /\ Rank(edge(cursor.ts), n) > cursor.boundary
    BY <1>3, <1>5, <1>10, <2>1
  <2>3. Rank(edge(cursor.ts), n) \in Nat
    <3>1. edge(cursor.ts) \in SUBSET (1 .. Len(log)) /\ edge(cursor.ts) \in SUBSET edge(cursor.ts)
      BY DEF Stamped, edge
    <3>2. n \in Int
      BY <1>7
    <3> QED
      BY <1>1, <3>1, <3>2, RankGrows
  <2> QED
    BY <1>1, <2>2, <2>3
<1> QED
  BY <1>9, <1>10 DEF Covers, log, E, edge
-----------------------------------------------------------------------------
(* flush: the batch is put in the order of the stamps, no line is added,   *)
(* lost or repeated.                                                       *)
SameLines(lines, sorted, S) ==
    /\ sorted \in Seq(S) /\ Len(sorted) = Len(lines) /\ Range(sorted) = Range(lines)
    /\ (\A j, k \in DOMAIN lines : lines[j] = lines[k] => j = k) =>
          \A j, k \in DOMAIN sorted : sorted[j] = sorted[k] => j = k
    /\ \A j, k \in DOMAIN sorted : j < k => Ts(sorted[j]) <= Ts(sorted[k])

(* Stable is a permutation of the batch in the order of the stamps.        *)
LEMMA StableIs ==
    ASSUME NEW S, NEW lines \in Seq(S), \A l \in S : Ts(l) \in Nat
    PROVE  SameLines(lines, Stable(lines), S)
<1> DEFINE places == DOMAIN lines
           rel == {p \in places \X places :
                     \/ Ts(lines[p[1]]) < Ts(lines[p[2]])
                     \/ Ts(lines[p[1]]) = Ts(lines[p[2]]) /\ p[1] <= p[2]}
           order == Arranged(places, rel)
           n == Len(lines)
           sorted == Stable(lines)
<1>1. /\ n \in Nat /\ places = 1 .. n /\ IsFiniteSet(1 .. n) /\ Cardinality(1 .. n) = n
      /\ \A k \in 1 .. n : lines[k] \in S /\ Ts(lines[k]) \in Nat
  <2>1. n \in Nat /\ places = 1 .. n /\ \A k \in 1 .. n : lines[k] \in S
    OBVIOUS
  <2> HIDE DEF n
  <2>2. IsFiniteSet(1 .. n) /\ Cardinality(1 .. n) = n
    BY <2>1, FS_Interval
  <2> QED
    BY <2>1, <2>2
<1>2. sorted = [k \in places |-> lines[order[k]]]
  BY DEF Stable
<1>3. \A x, y \in 1 .. n : <<x, y>> \in rel <=>
        Ts(lines[x]) < Ts(lines[y]) \/ (Ts(lines[x]) = Ts(lines[y]) /\ x <= y)
  BY <1>1
<1> HIDE DEF n, places, rel, sorted
<1>4. Total(1 .. n, rel)
  <2>1. \A x \in 1 .. n : <<x, x>> \in rel
    BY <1>1, <1>3
  <2>2. \A x, y \in 1 .. n : <<x, y>> \in rel \/ <<y, x>> \in rel
    <3> SUFFICES ASSUME NEW x \in 1 .. n, NEW y \in 1 .. n PROVE <<x, y>> \in rel \/ <<y, x>> \in rel
      OBVIOUS
    <3>1. Ts(lines[x]) \in Int /\ Ts(lines[y]) \in Int /\ x \in Int /\ y \in Int
      BY <1>1
    <3> QED
      BY <1>3, <3>1
  <2>3. \A x, y \in 1 .. n : <<x, y>> \in rel /\ <<y, x>> \in rel => x = y
    <3> SUFFICES ASSUME NEW x \in 1 .. n, NEW y \in 1 .. n, <<x, y>> \in rel, <<y, x>> \in rel PROVE x = y
      OBVIOUS
    <3>1. Ts(lines[x]) \in Int /\ Ts(lines[y]) \in Int /\ x \in Int /\ y \in Int
      BY <1>1
    <3> QED
      BY <1>3, <3>1
  <2>4. \A x, y, z \in 1 .. n : <<x, y>> \in rel /\ <<y, z>> \in rel => <<x, z>> \in rel
    <3> SUFFICES ASSUME NEW x \in 1 .. n, NEW y \in 1 .. n, NEW z \in 1 .. n,
                        <<x, y>> \in rel, <<y, z>> \in rel
                 PROVE  <<x, z>> \in rel
      OBVIOUS
    <3>1. /\ Ts(lines[x]) \in Int /\ Ts(lines[y]) \in Int /\ Ts(lines[z]) \in Int
          /\ x \in Int /\ y \in Int /\ z \in Int
      BY <1>1
    <3> QED
      BY <1>3, <3>1
  <2> QED
    BY <2>1, <2>2, <2>3, <2>4 DEF Total
<1>5. /\ order \in [1 .. n -> 1 .. n]
      /\ \A j, k \in 1 .. n : j < k => order[j] # order[k] /\ <<order[j], order[k]>> \in rel
      /\ \A x \in 1 .. n : \E k \in 1 .. n : order[k] = x
  <2> DEFINE set == 1 .. n
  <2>1. order = Arranged(set, rel) /\ IsFiniteSet(set) /\ Cardinality(set) = n
    BY <1>1
  <2> HIDE DEF set, order
  <2>2. LET s == Arranged(set, rel) IN
        /\ s \in [1 .. Cardinality(set) -> set]
        /\ \A j, k \in 1 .. Cardinality(set) : j < k => s[j] # s[k] /\ <<s[j], s[k]>> \in rel
        /\ \A x \in set : \E k \in 1 .. Cardinality(set) : s[k] = x
    BY <1>4, <2>1, ArrangedIs DEF set
  <2> QED
    BY <2>1, <2>2 DEF set
<1> HIDE DEF order
<1>6. DOMAIN sorted = 1 .. n /\ \A k \in 1 .. n : sorted[k] = lines[order[k]] /\ order[k] \in 1 .. n
  BY <1>1, <1>2, <1>5
<1>7. sorted \in Seq(S) /\ Len(sorted) = n
  <2>1. sorted \in [1 .. n -> S]
    BY <1>1, <1>2, <1>6
  <2>2. sorted \in Seq(S)
    BY <1>1, <2>1
  <2> QED
    BY <1>1, <1>6, <2>2
<1>8. Range(sorted) = Range(lines)
  BY <1>1, <1>5, <1>6 DEF Range, places
<1>9. ASSUME \A j, k \in DOMAIN lines : lines[j] = lines[k] => j = k,
             NEW j \in 1 .. n, NEW k \in 1 .. n, j # k
      PROVE  sorted[j] # sorted[k]
  <2>1. j < k \/ k < j
    BY <1>1, <1>9
  <2>2. order[j] # order[k]
    BY <1>5, <2>1
  <2> QED
    BY <1>1, <1>6, <1>9, <2>2 DEF places
<1>10. ASSUME NEW j \in 1 .. n, NEW k \in 1 .. n, j < k
       PROVE  Ts(sorted[j]) <= Ts(sorted[k])
  <2>1. <<order[j], order[k]>> \in rel /\ order[j] \in 1 .. n /\ order[k] \in 1 .. n
    BY <1>5, <1>6, <1>10
  <2>2. Ts(lines[order[j]]) \in Int /\ Ts(lines[order[k]]) \in Int
    BY <1>1, <2>1
  <2>3. Ts(lines[order[j]]) <= Ts(lines[order[k]])
    BY <1>3, <2>1, <2>2
  <2>4. sorted[j] = lines[order[j]] /\ sorted[k] = lines[order[k]]
    BY <1>6
  <2> QED
    BY <2>3, <2>4
<1> QED
  BY <1>6, <1>7, <1>8, <1>9, <1>10 DEF SameLines, sorted, n

-----------------------------------------------------------------------------
(* The lines: a container and a place of its log.                          *)
LEMMA LineIs ==
    /\ \A l \in Line : \E c \in Container : \E n \in 1 .. Len(logs[c]) : l = <<c, n>>
    /\ \A c \in Container : \A n \in 1 .. Len(logs[c]) : <<c, n>> \in Line
BY DEF Line

(* What the type invariant says of the logs.                               *)
LEMMA TypedLogs ==
    ASSUME LogsTypeOK
    PROVE  /\ LogsTyped
           /\ \A c \in Container : \A n \in 1 .. Len(logs[c]) :
                 logs[c][n].ts \in 1 .. dockerClock /\ logs[c][n].stream \in Stream
           /\ \A l \in Line : Ts(l) \in Nat
<1>1. logs \in [Container -> Seq([ts : 1 .. dockerClock, stream : Stream])] /\ dockerClock \in Nat
  <2>1. logs \in [Container -> Seq([ts : 1 .. dockerClock, stream : Stream])] /\ dockerClock \in 1 .. MaxStamp
    BY DEF LogsTypeOK
  <2>2. MaxStamp \in Int
    BY LogAssumption
  <2>3. dockerClock \in Nat
    BY <2>1, <2>2
  <2> QED
    BY <2>1, <2>3
<1>2. ASSUME NEW c \in Container
      PROVE  /\ logs[c] \in Seq(Entry)
             /\ \A n \in 1 .. Len(logs[c]) : logs[c][n].ts \in 1 .. dockerClock /\ logs[c][n].stream \in Stream
  <2> DEFINE E == [ts : 1 .. dockerClock, stream : Stream]
  <2>1. logs[c] \in Seq(E)
    BY <1>1
  <2>2. E \subseteq Entry /\ \A e \in E : e.ts \in 1 .. dockerClock /\ e.stream \in Stream
    BY <1>1 DEF Entry
  <2> HIDE DEF E
  <2>3. \A n \in 1 .. Len(logs[c]) : logs[c][n] \in E
    BY <2>1
  <2>4. logs[c] \in Seq(Entry)
    BY <2>1, <2>2
  <2> QED
    BY <2>2, <2>3, <2>4
<1>3. LogsTyped
  BY <1>1, <1>2 DEF LogsTyped
<1>4. \A l \in Line : Ts(l) \in Nat
  <2> SUFFICES ASSUME NEW c \in Container, NEW n \in 1 .. Len(logs[c]) PROVE Ts(<<c, n>>) \in Nat
    BY LineIs
  <2> QED
    BY <1>1, <1>2 DEF Ts
<1> QED
  BY <1>2, <1>3, <1>4

(* A line of a mixed stamp is ambiguous.                                   *)
LEMMA MixedIsAmbiguous ==
    ASSUME NEW c \in Container, NEW n \in 1 .. Len(logs[c]), Mixed(logs[c], logs[c][n].ts)
    PROVE  Ambiguous(<<c, n>>)
<1>1. PICK j, k \in Stamped(logs[c], logs[c][n].ts) : logs[c][j].stream # logs[c][k].stream
  BY DEF Mixed
<1>2. /\ j \in 1 .. Len(logs[c]) /\ logs[c][j].ts = logs[c][n].ts
      /\ k \in 1 .. Len(logs[c]) /\ logs[c][k].ts = logs[c][n].ts
  BY DEF Stamped
<1>3. PICK m \in {j, k} : logs[c][m].stream # logs[c][n].stream
  BY <1>1
<1>4. <<c, m>> \in Line /\ Ts(<<c, m>>) = Ts(<<c, n>>) /\ Of(<<c, m>>) # Of(<<c, n>>) /\ <<c, m>>[1] = <<c, n>>[1]
  BY <1>2, <1>3, LineIs DEF Ts, Of
<1> QED
  BY <1>4 DEF Ambiguous

(* Tables of cursors.                                                      *)
LEMMA TableIs ==
    ASSUME NEW table \in Cursors
    PROVE  /\ DOMAIN table \subseteq Container /\ table \in [DOMAIN table -> Cursor]
           /\ \A c \in DOMAIN table : table[c] \in Cursor
BY DEF Cursors

(* A function on known containers is a table of cursors.                   *)
LEMMA TableOf ==
    ASSUME NEW known \in SUBSET Container, NEW table \in [known -> Cursor]
    PROVE  table \in Cursors
BY DEF Cursors

(* Put changes the cursor of one container.                                *)
LEMMA PutIs ==
    ASSUME NEW table \in Cursors, NEW c \in Container, NEW cursor \in Cursor
    PROVE  LET new == Put(table, c, cursor) IN
           /\ new \in Cursors /\ DOMAIN new = DOMAIN table \cup {c} /\ new[c] = cursor
           /\ \A d \in DOMAIN table : d # c => new[d] = table[d]
<1> DEFINE known == DOMAIN table \cup {c}
           new == Put(table, c, cursor)
<1>1. DOMAIN table \subseteq Container /\ \A d \in DOMAIN table : table[d] \in Cursor
  BY TableIs
<1>2. new = [x \in known |-> IF x = c THEN cursor ELSE table[x]]
  BY DEF Put
<1>3. known \in SUBSET Container /\ new \in [known -> Cursor]
  BY <1>1, <1>2
<1>4. new \in Cursors
  BY <1>3, TableOf
<1> QED
  BY <1>2, <1>4

(* The empty table.                                                        *)
LEMMA NoCursorsIs == NoCursors \in Cursors /\ DOMAIN NoCursors = {}
<1>1. NoCursors \in [{} -> Cursor] /\ {} \in SUBSET Container
  BY DEF NoCursors
<1> QED
  BY <1>1, TableOf DEF NoCursors

(* Listed forgets cursors and changes none.                                *)
LEMMA ListedIs ==
    ASSUME cursors \in Cursors
    PROVE  /\ Listed \in Cursors /\ DOMAIN Listed \subseteq DOMAIN cursors
           /\ \A c \in DOMAIN Listed : Listed[c] = cursors[c]
<1> DEFINE known == DOMAIN cursors \cap DOMAIN pending
<1>1. DOMAIN cursors \subseteq Container /\ \A d \in DOMAIN cursors : cursors[d] \in Cursor
  BY TableIs
<1>2. Listed = [c \in known |-> cursors[c]]
  BY DEF Listed
<1>3. known \in SUBSET Container /\ Listed \in [known -> Cursor]
  BY <1>1, <1>2
<1>4. Listed \in Cursors
  BY <1>3, TableOf
<1> QED
  BY <1>2, <1>4

(* The cursors of the model are cursors of the lemmas on logs.             *)
LEMMA CursorIs == Cursor \subseteq CursorType /\ NoCursor \in Cursor
BY LogAssumption DEF Cursor, CursorType, NoCursor
-----------------------------------------------------------------------------
(* The inductive invariant of the collector.  There are at most MaxLines   *)
(* lines; what a cycle holds fits where it is; and every cursor, in        *)
(* memory, of this cycle or persisted, keeps its promise: the lines before *)
(* it are stored, were passed over or were overtaken, those of this        *)
(* cycle's cursors also when they are still in the batch.                  *)
Small == IsFiniteSet(Line) /\ Cardinality(Line) <= MaxLines

OneByOne(lines) == \A j, k \in DOMAIN lines : lines[j] = lines[k] => j = k

Shape ==
    /\ pc = "idle" => left = {} /\ batch = << >> /\ pending = NoCursors
    /\ pc = "tail" => /\ left \subseteq Container /\ left \cap DOMAIN pending = {}
                      /\ \A l \in Range(batch) : l[1] \in DOMAIN pending
    /\ pc = "volume" => left \subseteq Severity
    /\ pc = "persist" => left \subseteq DOMAIN pending
    /\ pc \in {"volume", "persist"} => Range(batch) \subseteq Range(inserted)
    /\ OneByOne(batch)

Done == Range(inserted) \cup missed \cup overtaken

Promised(log, now, table, S) ==
    \A c \in DOMAIN table : table[c].ts <= now /\ Keeps(log[c], c, table[c], S)

KeepsInv ==
    /\ Promised(logs, dockerClock, saved, Done)
    /\ Promised(logs, dockerClock, cursors, Done)
    /\ Promised(logs, dockerClock, pending, Done \cup Range(batch))

CollectInv == LogsTypeOK /\ Small /\ Shape /\ KeepsInv

(* The promises of a table hold of more lines stored or passed over.       *)
LEMMA PromisedGrows ==
    ASSUME NEW log, NEW now, NEW table, NEW S, NEW T, S \subseteq T, Promised(log, now, table, S)
    PROVE  Promised(log, now, table, T)
BY KeepsGrows DEF Promised

(* An empty table promises nothing.                                        *)
LEMMA NothingPromised ==
    ASSUME NEW log, NEW now, NEW S PROVE Promised(log, now, NoCursors, S)
BY NoCursorsIs DEF Promised

(* The empty batch.                                                        *)
LEMMA EmptyBatch == OneByOne(<< >>) /\ Range(<< >>) = {} /\ << >> \in Seq(Line)
BY DEF OneByOne, Range

(* The lines of a concatenation.                                           *)
LEMMA AppendedRange ==
    ASSUME NEW S, NEW x \in Seq(S), NEW y \in Seq(S)
    PROVE  x \o y \in Seq(S) /\ Range(x \o y) = Range(x) \cup Range(y)
<1>1. /\ x \o y \in Seq(S) /\ Len(x \o y) = Len(x) + Len(y) /\ Len(x) \in Nat /\ Len(y) \in Nat
      /\ \A k \in 1 .. Len(x) + Len(y) : (x \o y)[k] = IF k <= Len(x) THEN x[k] ELSE y[k - Len(x)]
  BY ConcatProperties
<1>2. DOMAIN (x \o y) = 1 .. Len(x) + Len(y) /\ DOMAIN x = 1 .. Len(x) /\ DOMAIN y = 1 .. Len(y)
  BY <1>1
<1>3. ASSUME NEW k \in 1 .. Len(x) + Len(y) PROVE (x \o y)[k] \in Range(x) \cup Range(y)
  <2>1. CASE k <= Len(x)
    BY <1>1, <1>2, <2>1 DEF Range
  <2>2. CASE ~(k <= Len(x))
    <3>1. k - Len(x) \in 1 .. Len(y)
      BY <1>1, <2>2
    <3> QED
      BY <1>1, <1>2, <2>2, <3>1 DEF Range
  <2> QED
    BY <2>1, <2>2
<1>4. ASSUME NEW k \in 1 .. Len(x) PROVE x[k] \in Range(x \o y)
  <2>1. k \in 1 .. Len(x) + Len(y) /\ k <= Len(x)
    BY <1>1
  <2> QED
    BY <1>1, <1>2, <2>1 DEF Range
<1>5. ASSUME NEW k \in 1 .. Len(y) PROVE y[k] \in Range(x \o y)
  <2>1. k + Len(x) \in 1 .. Len(x) + Len(y) /\ ~(k + Len(x) <= Len(x)) /\ (k + Len(x)) - Len(x) = k
    BY <1>1
  <2>2. (x \o y)[k + Len(x)] = y[k]
    BY <1>1, <2>1
  <2> QED
    BY <1>2, <2>1, <2>2 DEF Range
<1> QED
  BY <1>1, <1>2, <1>3, <1>4, <1>5 DEF Range

(* Two sequences without repetition and without a common line.             *)
LEMMA AppendedOnce ==
    ASSUME NEW S, NEW x \in Seq(S), NEW y \in Seq(S), OneByOne(x), OneByOne(y),
           \A j \in DOMAIN x, k \in DOMAIN y : x[j] # y[k]
    PROVE  OneByOne(x \o y)
<1>1. /\ Len(x \o y) = Len(x) + Len(y) /\ Len(x) \in Nat /\ Len(y) \in Nat
      /\ \A k \in 1 .. Len(x) + Len(y) : (x \o y)[k] = IF k <= Len(x) THEN x[k] ELSE y[k - Len(x)]
      /\ x \o y \in Seq(S)
  BY ConcatProperties
<1>2. DOMAIN (x \o y) = 1 .. Len(x) + Len(y) /\ DOMAIN x = 1 .. Len(x) /\ DOMAIN y = 1 .. Len(y)
  BY <1>1
<1> SUFFICES ASSUME NEW j \in 1 .. Len(x) + Len(y), NEW k \in 1 .. Len(x) + Len(y),
                    (x \o y)[j] = (x \o y)[k]
             PROVE  j = k
  BY <1>2 DEF OneByOne
<1>3. \A i \in 1 .. Len(x) + Len(y) :
        /\ i <= Len(x) => i \in 1 .. Len(x) /\ (x \o y)[i] = x[i]
        /\ ~(i <= Len(x)) => i - Len(x) \in 1 .. Len(y) /\ (x \o y)[i] = y[i - Len(x)]
  BY <1>1
<1>4. CASE j <= Len(x) /\ k <= Len(x)
  BY <1>2, <1>3, <1>4 DEF OneByOne
<1>5. CASE ~(j <= Len(x)) /\ ~(k <= Len(x))
  <2>1. j - Len(x) = k - Len(x)
    BY <1>2, <1>3, <1>5 DEF OneByOne
  <2> QED
    BY <1>1, <2>1
<1>6. CASE j <= Len(x) /\ ~(k <= Len(x))
  BY <1>2, <1>3, <1>6
<1>7. CASE ~(j <= Len(x)) /\ k <= Len(x)
  BY <1>2, <1>3, <1>7
<1> QED
  BY <1>4, <1>5, <1>6, <1>7

(* A boundary counts lines, and there are at most MaxLines.                *)
LEMMA BoundaryFits ==
    ASSUME LogsTypeOK, Small, NEW c \in Container, NEW cursor \in CursorType, cursor.ts <= dockerClock,
           cursor.boundary <= Cardinality(Stamped(logs[c], cursor.ts))
    PROVE  cursor \in Cursor
<1> DEFINE S == Stamped(logs[c], cursor.ts)
           T == {<<c, n>> : n \in S}
           f == [n \in S |-> <<c, n>>]
<1>1. S \in SUBSET (1 .. Len(logs[c])) /\ Len(logs[c]) \in Nat
  BY TypedLogs DEF LogsTyped, Stamped
<1>2. T \in SUBSET Line
  BY <1>1, LineIs
<1>3. f \in [S -> T] /\ (\A x, y \in S : f[x] = f[y] => x = y) /\ \A t \in T : \E x \in S : f[x] = t
  OBVIOUS
<1> HIDE DEF S, T, f
<1>4. IsFiniteSet(S)
  BY <1>1, PlacesFinite
<1>5. Cardinality(T) = Cardinality(S)
  BY <1>3, <1>4, SameCount
<1>6. Cardinality(T) <= Cardinality(Line) /\ Cardinality(Line) \in Nat /\ Cardinality(S) \in Nat
  BY <1>2, <1>4, FS_Subset, FS_CardinalityType DEF Small
<1>7. Cardinality(Line) <= MaxLines /\ MaxLines \in Nat /\ MaxStamp \in Nat
  BY LogAssumption DEF Small
<1>8. dockerClock \in 1 .. MaxStamp
  BY DEF LogsTypeOK
<1>9. cursor.boundary <= Cardinality(S)
  BY DEF S
<1> QED
  BY <1>5, <1>6, <1>7, <1>8, <1>9 DEF CursorType, Cursor

(* What one poll of a container brings.                                    *)
LEMMA PollBrings ==
    ASSUME LogsTypeOK, Small, NEW c \in Container, NEW cursor \in Cursor, cursor.ts <= dockerClock,
           NEW S, Keeps(logs[c], c, cursor, S)
    PROVE  LET kept == Newer(Logs(c, cursor.ts), cursor)
               new  == Advanced(kept, cursor)
           IN /\ kept \in Seq(Line) /\ OneByOne(kept) /\ \A l \in Range(kept) : l[1] = c
              /\ new \in Cursor /\ new.ts <= dockerClock
              /\ Keeps(logs[c], c, new, S \cup Range(kept) \cup PassedOver(c, cursor.ts))
              /\ PassedOver(c, cursor.ts) \subseteq Line
              /\ PollKeeps(c, cursor, kept) /\ PollAdvances(c, cursor, kept, new)
<1> DEFINE kept == Newer(Logs(c, cursor.ts), cursor)
           new == Advanced(kept, cursor)
           log == logs[c]
<1>1. /\ LogsTyped /\ cursor \in CursorType
      /\ \A n \in 1 .. Len(log) : log[n].ts \in 1 .. dockerClock
  BY TypedLogs, CursorIs
<1>2. PollKeeps(c, cursor, kept)
  BY <1>1, PollKept
<1> HIDE DEF kept
<1>3. PollAdvances(c, cursor, kept, new)
  BY <1>1, <1>2, AdvancedIs
<1> HIDE DEF new
<1>4. Keeps(log, c, new, S \cup Range(kept) \cup PassedOver(c, cursor.ts))
  BY <1>1, <1>2, <1>3, PollKeepsPromises
<1>5. new.ts <= dockerClock /\ new \in CursorType /\ new.boundary <= Cardinality(Stamped(log, new.ts))
  <2>1. dockerClock \in Int
    BY LogAssumption DEF LogsTypeOK
  <2> QED
    BY <1>1, <1>3, <1>4, <2>1 DEF PollAdvances, Keeps
<1>6. new \in Cursor
  BY <1>5, BoundaryFits
<1>7. kept \in Seq({<<c, n>> : n \in Since(log, cursor.ts) \cap LastLines(log)}) /\ OneByOne(kept)
  BY <1>2 DEF PollKeeps, OneByOne
<1>8. kept \in Seq(Line) /\ \A l \in Range(kept) : l[1] = c
  <2> DEFINE L == {<<c, n>> : n \in Since(log, cursor.ts) \cap LastLines(log)}
  <2>1. L \subseteq Line /\ \A l \in L : l[1] = c
    BY LineIs DEF Since
  <2>2. kept \in Seq(L)
    BY <1>7
  <2> HIDE DEF L
  <2>3. \A l \in Range(kept) : l \in L
    BY <2>2 DEF Range
  <2> QED
    BY <2>1, <2>2, <2>3
<1>9. PassedOver(c, cursor.ts) \subseteq Line
  BY LineIs DEF PassedOver, Places
<1> QED
  BY <1>2, <1>3, <1>4, <1>5, <1>6, <1>7, <1>8, <1>9 DEF kept, new

(* The new values a poll gives, by name.                                   *)
LEMMA PollIs ==
    ASSUME NEW c, NEW cursor, Poll(c, cursor)
    PROVE  /\ batch' = batch \o Newer(Logs(c, cursor.ts), cursor)
           /\ pending' = Put(pending, c, Advanced(Newer(Logs(c, cursor.ts), cursor), cursor))
           /\ missed' = missed \cup PassedOver(c, cursor.ts)
BY DEF Poll, PassedOver

(* A cursor without a stamp promises nothing.                              *)
LEMMA NoCursorKeeps ==
    ASSUME LogsTypeOK, NEW c \in Container, NEW S
    PROVE  Keeps(logs[c], c, NoCursor, S) /\ NoCursor.ts <= dockerClock /\ NoCursor \in Cursor
<1>1. \A n \in 1 .. Len(logs[c]) : logs[c][n].ts \in Nat /\ logs[c][n].ts # 0
  <2>1. dockerClock \in Int
    BY LogAssumption DEF LogsTypeOK
  <2> QED
    BY <2>1, TypedLogs
<1>2. Stamped(logs[c], 0) = {}
  BY <1>1 DEF Stamped
<1>3. NoCursor.ts = 0 /\ NoCursor.boundary = 0
  BY DEF NoCursor
<1>4. Keeps(logs[c], c, NoCursor, S)
  <2>1. Stamped(logs[c], NoCursor.ts) = {}
    BY <1>2, <1>3
  <2>2. Cardinality(Stamped(logs[c], NoCursor.ts)) = 0
    BY <2>1, FS_EmptySet
  <2>3. \A n \in 1 .. Len(logs[c]) : ~(logs[c][n].ts < NoCursor.ts)
    BY <1>1, <1>3
  <2>4. NoCursor.boundary <= Cardinality(Stamped(logs[c], NoCursor.ts))
    BY <1>3, <2>2
  <2> QED
    BY <2>1, <2>3, <2>4 DEF Keeps
<1> QED
  BY <1>3, <1>4, LogAssumption, CursorIs DEF LogsTypeOK
-----------------------------------------------------------------------------
(* The invariant holds at first, and a line more or a moment later.        *)
LEMMA CollectInit == LogsInit => CollectInv
<1> SUFFICES ASSUME LogsInit PROVE CollectInv
  OBVIOUS
<1>1. /\ logs = [c \in Container |-> << >>] /\ dockerClock = 1
      /\ pc = "idle" /\ left = {} /\ batch = << >> /\ pending = NoCursors
      /\ cursors = NoCursors /\ failed = FALSE
      /\ saved = [c \in Container |-> NoCursor]
      /\ rows = << >> /\ volume = [s \in Severity |-> 0] /\ ingested = {}
      /\ health = [dropped |-> 0, complete |-> TRUE]
      /\ failures = 0 /\ inserted = << >> /\ missed = {} /\ overtaken = {}
      /\ unowned = FALSE /\ disturbed = FALSE
  BY DEF LogsInit
<1>2. 1 \in 1 .. MaxStamp /\ MaxStamp \in Nat /\ MaxLines \in Nat /\ MaxFailures \in Nat
  BY LogAssumption
<1>3. \A c \in Container : Len(logs[c]) = 0 /\ ~(\E n \in 1 .. Len(logs[c]) : TRUE)
  BY <1>1
<1>4. Line = {}
  BY <1>3, LineIs
<1>6. Small
  BY <1>2, <1>4, FS_EmptySet DEF Small
<1>7. Shape
  BY <1>1, EmptyBatch DEF Shape
<1>8. LogsTypeOK
  <2>1. logs \in [Container -> Seq([ts : 1 .. dockerClock, stream : Stream])]
    BY <1>1
  <2>2. << >> \in Seq(Line)
    OBVIOUS
  <2>3. saved \in [Container -> Cursor]
    BY <1>1, CursorIs
  <2>4. volume \in [Severity -> Nat] /\ health \in [dropped : Nat, complete : BOOLEAN]
    BY <1>1
  <2>5. dockerClock \in 1 .. MaxStamp /\ failures \in 0 .. MaxFailures
    BY <1>1, <1>2
  <2>6. /\ batch \in Seq(Line) /\ rows \in Seq(Line) /\ inserted \in Seq(Line)
        /\ missed \subseteq Line /\ overtaken \subseteq Line
    BY <1>1, <2>2
  <2>7. pending \in Cursors /\ cursors \in Cursors
    BY <1>1, NoCursorsIs
  <2>8. /\ pc \in {"idle", "tail", "volume", "persist"} /\ left \subseteq Container \cup Severity
        /\ failed \in BOOLEAN /\ unowned \in BOOLEAN /\ disturbed \in BOOLEAN
    BY <1>1
  <2> QED
    BY <2>1, <2>3, <2>4, <2>5, <2>6, <2>7, <2>8 DEF LogsTypeOK
<1>9. KeepsInv
  <2>1. \A c \in Container : saved[c].ts <= dockerClock /\ Keeps(logs[c], c, saved[c], Done)
    BY <1>1, <1>8, NoCursorKeeps
  <2>2. DOMAIN saved = Container
    BY <1>1
  <2> QED
    BY <1>1, <2>1, <2>2, NothingPromised DEF KeepsInv, Promised
<1> QED
  BY <1>6, <1>7, <1>8, <1>9 DEF CollectInv


(* A line more.                                                            *)
LEMMA LinesMore ==
    ASSUME LogsTypeOK, Small, NEW c \in Container, NEW s \in Stream,
           NEW stamp \in 1 .. dockerClock, Emit(c, s, stamp)
    PROVE  LET e == [ts |-> stamp, stream |-> s] IN
           /\ logs' = [logs EXCEPT ![c] = Append(logs[c], e)] /\ e \in Entry
           /\ logs' \in [Container -> Seq([ts : 1 .. dockerClock, stream : Stream])]
           /\ Line' = Line \cup {<<c, Len(logs[c]) + 1>>} /\ <<c, Len(logs[c]) + 1>> \notin Line
           /\ \A l \in Line : Ts(l)' = Ts(l) /\ Of(l)' = Of(l)
           /\ Small'
<1> DEFINE e == [ts |-> stamp, stream |-> s]
           N == Len(logs[c])
           new == <<c, N + 1>>
<1>1. logs' = [logs EXCEPT ![c] = Append(logs[c], e)] /\ Cardinality(Line) < MaxLines
  BY DEF Emit
<1>2. /\ LogsTyped /\ dockerClock \in Nat /\ stamp \in Nat
      /\ \A d \in Container : \A n \in 1 .. Len(logs[d]) : logs[d][n].ts \in 1 .. dockerClock
  <2>1. MaxStamp \in Int /\ dockerClock \in 1 .. MaxStamp
    BY LogAssumption DEF LogsTypeOK
  <2> QED
    BY <2>1, TypedLogs
<1>3. e \in Entry /\ e \in [ts : 1 .. dockerClock, stream : Stream] /\ e.ts = stamp
  BY <1>2 DEF Entry
<1>4. /\ logs[c] \in Seq(Entry) /\ N \in Nat
      /\ logs'[c] = Append(logs[c], e) /\ \A d \in Container : d # c => logs'[d] = logs[d]
  BY <1>1, <1>2 DEF LogsTyped
<1>5. logs' \in [Container -> Seq([ts : 1 .. dockerClock, stream : Stream])]
  <2> DEFINE E == [ts : 1 .. dockerClock, stream : Stream]
  <2>1. logs \in [Container -> Seq(E)]
    BY DEF LogsTypeOK
  <2> HIDE DEF E
  <2>2. e \in E
    BY <1>3 DEF E
  <2> HIDE DEF e
  <2>3. Append(logs[c], e) \in Seq(E)
    BY <2>1, <2>2
  <2> QED
    BY <1>1, <2>1, <2>3 DEF E
<1>6. /\ Len(logs'[c]) = N + 1 /\ logs'[c][N + 1] = e
      /\ \A n \in 1 .. N : logs'[c][n] = logs[c][n] /\ n \in 1 .. N + 1 /\ n # N + 1
      /\ \A n \in 1 .. N + 1 : n \in 1 .. N \/ n = N + 1
      /\ N + 1 \in 1 .. N + 1
  <2> HIDE DEF e
  <2> QED
    BY <1>3, <1>4
<1> HIDE DEF e, N
<1>7. new \notin Line
  <2>1. ~(N + 1 \in 1 .. Len(logs[c]))
    BY <1>4 DEF N
  <2> QED
    BY <2>1 DEF Line
<1>8. Line' = Line \cup {new}
  <2>1. Line' = UNION {{<<d, n>> : n \in 1 .. Len(logs'[d])} : d \in Container}
    BY DEF Line
  <2>2. \A d \in Container : \A n \in 1 .. Len(logs'[d]) :
           <<d, n>> = new \/ n \in 1 .. Len(logs[d])
    BY <1>4, <1>6 DEF N
  <2>3. \A d \in Container : \A n \in 1 .. Len(logs[d]) : n \in 1 .. Len(logs'[d])
    BY <1>4, <1>6 DEF N
  <2>4. N + 1 \in 1 .. Len(logs'[c])
    BY <1>6
  <2> QED
    BY <2>1, <2>2, <2>3, <2>4 DEF Line
<1>9. ASSUME NEW l \in Line PROVE Ts(l)' = Ts(l) /\ Of(l)' = Of(l)
  <2>1. PICK d \in Container : \E n \in 1 .. Len(logs[d]) : l = <<d, n>>
    BY LineIs
  <2>2. PICK n \in 1 .. Len(logs[d]) : l = <<d, n>>
    BY <2>1
  <2>3. logs'[d][n] = logs[d][n]
    BY <1>4, <1>6 DEF N
  <2> QED
    BY <2>2, <2>3 DEF Ts, Of
<1>11. Small'
  <2>1. IsFiniteSet(Line') /\ Cardinality(Line') = Cardinality(Line) + 1
    BY <1>7, <1>8, FS_AddElement DEF Small
  <2>2. Cardinality(Line) \in Nat /\ MaxLines \in Nat
    BY FS_CardinalityType, LogAssumption DEF Small
  <2> QED
    BY <1>1, <2>1, <2>2 DEF Small
<1> QED
  BY <1>1, <1>3, <1>5, <1>7, <1>8, <1>9, <1>11 DEF e, N

(* A line more breaks no promise of a table whose cursors are not past its *)
(* stamp, or when the line is one of those the table's cursors may pass.   *)
LEMMA EmitPromises ==
    ASSUME CollectInv, NEW c \in Container, NEW s \in Stream, NEW stamp \in 1 .. dockerClock,
           Emit(c, s, stamp), NEW table \in Cursors, NEW S, NEW T, S \subseteq T,
           Promised(logs, dockerClock, table, S),
           c \in DOMAIN table => table[c].ts <= stamp \/ <<c, Len(logs[c]) + 1>> \in T
    PROVE  Promised(logs', dockerClock, table, T)
<1> DEFINE e == [ts |-> stamp, stream |-> s]
<1> USE DEF CollectInv
<1>1. logs' = [logs EXCEPT ![c] = Append(logs[c], e)] /\ e \in Entry /\ e.ts = stamp
  BY LinesMore
<1> HIDE DEF e
<1> SUFFICES ASSUME NEW d \in DOMAIN table PROVE Keeps(logs'[d], d, table[d], T)
  BY DEF Promised
<1>2. d \in Container /\ table[d] \in CursorType /\ Keeps(logs[d], d, table[d], T)
  BY TableIs, CursorIs, KeepsGrows DEF Promised
<1>3. CASE d = c
  <2>1. logs[c] \in Seq(Entry) /\ logs'[c] = Append(logs[c], e)
    BY <1>1, TypedLogs DEF LogsTyped
  <2> QED
    BY <1>1, <1>2, <1>3, <2>1, KeepsOneMore
<1>4. CASE d # c
  <2>1. logs'[d] = logs[d]
    BY <1>1, <1>2, <1>4, TypedLogs DEF LogsTyped
  <2> QED
    BY <1>2, <2>1
<1> QED
  BY <1>3, <1>4

(* A new line older than a cursor of its container is recorded as          *)
(* overtaken.                                                              *)
LEMMA EmitOvertakes ==
    ASSUME LogsTypeOK, NEW c \in Container, NEW s \in Stream, NEW stamp \in 1 .. dockerClock,
           Emit(c, s, stamp), NEW table \in {saved, cursors, pending}, c \in DOMAIN table
    PROVE  table[c].ts <= stamp \/ <<c, Len(logs[c]) + 1>> \in overtaken'
<1>1. table[c] \in CursorsOf(c)
  BY DEF CursorsOf
<1>2. table[c].ts \in Int /\ stamp \in Int
  <2>1. saved \in Cursors /\ cursors \in Cursors /\ pending \in Cursors
    BY TableOf DEF LogsTypeOK
  <2>2. table[c] \in CursorType
    BY <2>1, TableIs, CursorIs
  <2> QED
    BY <2>2 DEF CursorType
<1>3. \A cursor \in CursorsOf(c) : stamp < cursor.ts => <<c, Len(logs[c]) + 1>> \in overtaken'
  BY DEF Emit
<1> QED
  BY <1>1, <1>2, <1>3

(* A new line breaks no promise: older than a cursor, it is overtaken.     *)
LEMMA CollectEmit ==
    ASSUME CollectInv, NEW c \in Container, NEW s \in Stream, NEW stamp \in 1 .. dockerClock,
           Emit(c, s, stamp)
    PROVE  CollectInv'
<1> USE DEF CollectInv
<1>1. /\ UNCHANGED <<dockerClock, memory, logTables, failures, inserted, missed, unowned, disturbed>>
      /\ overtaken \subseteq overtaken' /\ overtaken' \subseteq overtaken \cup {<<c, Len(logs[c]) + 1>>}
  BY DEF Emit
<1>2. /\ logs' \in [Container -> Seq([ts : 1 .. dockerClock, stream : Stream])]
      /\ Line' = Line \cup {<<c, Len(logs[c]) + 1>>} /\ Small'
  BY LinesMore
<1>3. LogsTypeOK'
  <2>1. /\ batch \in Seq(Line') /\ rows \in Seq(Line') /\ inserted \in Seq(Line')
        /\ missed \subseteq Line' /\ overtaken' \subseteq Line'
    BY <1>1, <1>2 DEF LogsTypeOK
  <2> QED
    BY <1>1, <1>2, <2>1 DEF LogsTypeOK, memory, logTables
<1>4. Shape'
  BY <1>1 DEF Shape, memory
<1>5. saved \in Cursors /\ cursors \in Cursors /\ pending \in Cursors
  BY TableOf DEF LogsTypeOK
<1>6. /\ Done \subseteq Done' /\ overtaken' \subseteq Done' /\ batch' = batch
      /\ dockerClock' = dockerClock /\ saved' = saved /\ cursors' = cursors /\ pending' = pending
  BY <1>1 DEF Done, memory, logTables
<1>7. /\ Promised(logs', dockerClock, saved, Done')
      /\ Promised(logs', dockerClock, cursors, Done')
      /\ Promised(logs', dockerClock, pending, Done' \cup Range(batch))
  <2>1. Done \subseteq Done' /\ Done \cup Range(batch) \subseteq Done' \cup Range(batch)
    BY <1>6
  <2>2. Promised(logs', dockerClock, saved, Done')
    BY <1>5, <1>6, <2>1, EmitPromises, EmitOvertakes DEF KeepsInv
  <2>3. Promised(logs', dockerClock, cursors, Done')
    BY <1>5, <1>6, <2>1, EmitPromises, EmitOvertakes DEF KeepsInv
  <2>4. Promised(logs', dockerClock, pending, Done' \cup Range(batch))
    BY <1>5, <1>6, <2>1, EmitPromises, EmitOvertakes DEF KeepsInv
  <2> QED
    BY <2>2, <2>3, <2>4
<1>8. KeepsInv'
  BY <1>6, <1>7 DEF KeepsInv
<1> QED
  BY <1>2, <1>3, <1>4, <1>8

(* What holds of the logs holds while they stay.                           *)
LEMMA LogsStay ==
    ASSUME logs' = logs PROVE Line' = Line /\ (Small => Small')
<1>1. Line' = Line
  BY DEF Line
<1> QED
  BY <1>1 DEF Small

(* Time passes: promises stay behind the clock.                            *)
LEMMA CollectTick == ASSUME CollectInv, TimePasses PROVE CollectInv'
<1> USE DEF CollectInv
<1>1. /\ dockerClock' = dockerClock + 1 /\ dockerClock < MaxStamp /\ logs' = logs
      /\ UNCHANGED <<memory, logTables, failures, logHistory>>
  BY DEF TimePasses
<1>2. Line' = Line /\ Small'
  BY <1>1, LogsStay
<1>3. dockerClock \in 1 .. MaxStamp /\ MaxStamp \in Int
  BY LogAssumption DEF LogsTypeOK
<1>4. LogsTypeOK'
  <2> DEFINE E == [ts : 1 .. dockerClock, stream : Stream]
             F == [ts : 1 .. dockerClock', stream : Stream]
  <2>1. E \subseteq F
    BY <1>1, <1>3
  <2>2. logs \in [Container -> Seq(E)]
    BY DEF LogsTypeOK
  <2> HIDE DEF E, F
  <2>3. logs' \in [Container -> Seq(F)]
    BY <1>1, <2>1, <2>2
  <2>4. dockerClock' \in 1 .. MaxStamp
    BY <1>1, <1>3
  <2> QED
    BY <1>1, <1>2, <2>3, <2>4 DEF LogsTypeOK, memory, logTables, logHistory, F
<1>5. Shape'
  BY <1>1 DEF Shape, memory, logHistory
<1>6. ASSUME NEW table \in Cursors, NEW S, Promised(logs, dockerClock, table, S)
      PROVE  Promised(logs, dockerClock', table, S)
  <2>1. \A c \in DOMAIN table : table[c].ts \in Int
    BY TableIs DEF Cursor
  <2> QED
    BY <1>1, <1>3, <1>6, <2>1 DEF Promised
<1>7. saved \in Cursors /\ cursors \in Cursors /\ pending \in Cursors
  BY TableOf DEF LogsTypeOK
<1>8. KeepsInv'
  <2>1. Promised(logs, dockerClock', saved, Done) /\ Promised(logs, dockerClock', cursors, Done)
        /\ Promised(logs, dockerClock', pending, Done \cup Range(batch))
    BY <1>6, <1>7 DEF KeepsInv
  <2>2. /\ saved' = saved /\ cursors' = cursors /\ pending' = pending /\ batch' = batch
        /\ inserted' = inserted /\ missed' = missed /\ overtaken' = overtaken
    BY <1>1 DEF memory, logTables, logHistory
  <2> QED
    BY <1>1, <2>1, <2>2 DEF KeepsInv, Done
<1> QED
  BY <1>2, <1>4, <1>5, <1>8
-----------------------------------------------------------------------------
(* The steps of a cycle.                                                   *)
LEMMA CollectList ==
    ASSUME CollectInv, NEW seen \in SUBSET Container, List(seen) PROVE CollectInv'
<1> USE DEF CollectInv
<1>1. /\ pc' = "tail" /\ left' = seen /\ batch' = << >> /\ pending' = NoCursors
      /\ logs' = logs /\ dockerClock' = dockerClock
      /\ UNCHANGED <<cursors, failed, saved, rows, volume, ingested, health, failures,
                     inserted, missed, overtaken, unowned, disturbed>>
  BY DEF List, daemon, logTables, logHistory
<1>2. Line' = Line /\ Small'
  BY <1>1, LogsStay
<1>3. LogsTypeOK'
  BY <1>1, <1>2, NoCursorsIs, EmptyBatch DEF LogsTypeOK
<1>4. Shape'
  BY <1>1, NoCursorsIs, EmptyBatch DEF Shape
<1>5. KeepsInv'
  <2>1. Done' = Done /\ Range(batch') = {}
    BY <1>1, EmptyBatch DEF Done
  <2> QED
    BY <1>1, <2>1, NothingPromised DEF KeepsInv
<1> QED
  BY <1>2, <1>3, <1>4, <1>5

(* The cursor a poll begins at is one of the persisted or of those in      *)
(* memory, so it promises what they do.                                    *)
LEMMA LoadKeeps ==
    ASSUME CollectInv, NEW c \in Container, NEW S,
           Promised(logs, dockerClock, saved, S), Promised(logs, dockerClock, cursors, S)
    PROVE  /\ loadLogCursor(c) \in Cursor /\ loadLogCursor(c).ts <= dockerClock
           /\ Keeps(logs[c], c, loadLogCursor(c), S)
<1> USE DEF CollectInv
<1>1. saved[c] \in Cursor /\ saved[c].ts <= dockerClock /\ Keeps(logs[c], c, saved[c], S)
  BY DEF LogsTypeOK, Promised
<1>2. ASSUME c \in DOMAIN cursors
      PROVE  cursors[c] \in Cursor /\ cursors[c].ts <= dockerClock /\ Keeps(logs[c], c, cursors[c], S)
  BY <1>2, TableIs DEF LogsTypeOK, Promised
<1> QED
  BY <1>1, <1>2 DEF loadLogCursor

(* What tailOne did: it left the container with its cursor, and kept some  *)
(* lines of it; the cursor promises those, and what it promised before.    *)
LEMMA TailBrings ==
    ASSUME CollectInv, NEW c \in Container, TailOne(c), NEW S,
           Promised(logs, dockerClock, saved, S), Promised(logs, dockerClock, cursors, S)
    PROVE  \E kept \in Seq(Line), new \in Cursor :
              /\ batch' = batch \o kept /\ pending' = Put(pending, c, new)
              /\ OneByOne(kept) /\ \A l \in Range(kept) : l[1] = c
              /\ new.ts <= dockerClock /\ missed \subseteq missed' /\ missed' \subseteq Line
              /\ Keeps(logs[c], c, new, S \cup Range(kept) \cup missed')
              /\ failures' \in 0 .. MaxFailures /\ disturbed' \in BOOLEAN
<1> USE DEF CollectInv
<1>1. /\ loadLogCursor(c) \in Cursor /\ loadLogCursor(c).ts <= dockerClock
      /\ Keeps(logs[c], c, loadLogCursor(c), S)
  BY LoadKeeps
<1>2. Keeps(logs[c], c, NoCursor, S) /\ NoCursor.ts <= dockerClock /\ NoCursor \in Cursor
  BY NoCursorKeeps
<1>3. failures \in 0 .. MaxFailures /\ MaxFailures \in Nat /\ disturbed \in BOOLEAN /\ missed \subseteq Line
  BY LogAssumption DEF LogsTypeOK
<1>4. ASSUME NEW cursor \in Cursor, cursor.ts <= dockerClock, Keeps(logs[c], c, cursor, S), Poll(c, cursor)
      PROVE  \E kept \in Seq(Line), new \in Cursor :
              /\ batch' = batch \o kept /\ pending' = Put(pending, c, new)
              /\ OneByOne(kept) /\ \A l \in Range(kept) : l[1] = c
              /\ new.ts <= dockerClock /\ missed \subseteq missed' /\ missed' \subseteq Line
              /\ Keeps(logs[c], c, new, S \cup Range(kept) \cup missed')
  <2> DEFINE kept == Newer(Logs(c, cursor.ts), cursor)
             new == Advanced(kept, cursor)
  <2>1. /\ kept \in Seq(Line) /\ OneByOne(kept) /\ \A l \in Range(kept) : l[1] = c
        /\ new \in Cursor /\ new.ts <= dockerClock
        /\ Keeps(logs[c], c, new, S \cup Range(kept) \cup PassedOver(c, cursor.ts))
        /\ PassedOver(c, cursor.ts) \subseteq Line
    BY <1>4, PollBrings
  <2>2. /\ batch' = batch \o kept /\ pending' = Put(pending, c, new)
        /\ missed' = missed \cup PassedOver(c, cursor.ts)
    BY <1>4, PollIs
  <2> HIDE DEF kept, new
  <2>3. Keeps(logs[c], c, new, S \cup Range(kept) \cup missed')
    <3>1. S \cup Range(kept) \cup PassedOver(c, cursor.ts) \subseteq S \cup Range(kept) \cup missed'
      BY <2>2
    <3> QED
      BY <2>1, <3>1, KeepsGrows
  <2> QED
    BY <1>3, <2>1, <2>2, <2>3
<1>5. CASE Poll(c, loadLogCursor(c)) /\ NoFailure /\ UNCHANGED disturbed
  <2>1. failures' \in 0 .. MaxFailures /\ disturbed' \in BOOLEAN
    BY <1>3, <1>5 DEF NoFailure
  <2> QED
    BY <1>1, <1>4, <1>5, <2>1
<1>6. CASE Poll(c, NoCursor) /\ Failure /\ disturbed' = TRUE
  <2>1. failures' \in 0 .. MaxFailures /\ disturbed' \in BOOLEAN
    BY <1>3, <1>6 DEF Failure
  <2> QED
    BY <1>2, <1>4, <1>6, <2>1
<1>7. CASE /\ pending' = Put(pending, c, loadLogCursor(c))
           /\ UNCHANGED <<batch, missed, disturbed>> /\ Failure
  <2> DEFINE none == << >>
  <2>1. failures' \in 0 .. MaxFailures /\ disturbed' \in BOOLEAN
    BY <1>3, <1>7 DEF Failure
  <2>2. batch' = batch \o << >> /\ missed' = missed
    BY <1>7 DEF LogsTypeOK
  <2>3. Keeps(logs[c], c, loadLogCursor(c), S \cup Range(<< >>) \cup missed')
    <3>1. S \subseteq S \cup Range(<< >>) \cup missed'
      OBVIOUS
    <3> QED
      BY <1>1, <3>1, KeepsGrows
  <2>4. << >> \in Seq(Line) /\ OneByOne(<< >>) /\ \A l \in Range(<< >>) : l[1] = c
    BY EmptyBatch
  <2> QED
    BY <1>1, <1>3, <1>7, <2>1, <2>2, <2>3, <2>4
<1> QED
  BY <1>5, <1>6, <1>7 DEF TailOne

(* tailOne keeps the invariant: its cursor promises what it kept.          *)
LEMMA CollectTail ==
    ASSUME CollectInv, NEW c \in Container, TailOne(c) PROVE CollectInv'
<1> USE DEF CollectInv
<1>1. /\ pc = "tail" /\ pc' = "tail" /\ c \in left /\ left' = left \ {c}
      /\ logs' = logs /\ dockerClock' = dockerClock
      /\ UNCHANGED <<cursors, failed, saved, rows, volume, ingested, health, inserted, overtaken, unowned>>
  BY DEF TailOne, daemon, logTables
<1>2. PICK kept \in Seq(Line), new \in Cursor :
              /\ batch' = batch \o kept /\ pending' = Put(pending, c, new)
              /\ OneByOne(kept) /\ \A l \in Range(kept) : l[1] = c
              /\ new.ts <= dockerClock /\ missed \subseteq missed' /\ missed' \subseteq Line
              /\ Keeps(logs[c], c, new, Done \cup Range(kept) \cup missed')
              /\ failures' \in 0 .. MaxFailures /\ disturbed' \in BOOLEAN
  BY TailBrings DEF KeepsInv
<1>3. Line' = Line /\ Small'
  BY <1>1, LogsStay
<1>4. batch \in Seq(Line) /\ pending \in Cursors
  BY DEF LogsTypeOK
<1>5. batch' \in Seq(Line) /\ Range(batch') = Range(batch) \cup Range(kept)
  BY <1>2, <1>4, AppendedRange
<1>6. /\ pending' \in Cursors /\ DOMAIN pending' = DOMAIN pending \cup {c} /\ pending'[c] = new
      /\ \A d \in DOMAIN pending : d # c => pending'[d] = pending[d]
  BY <1>2, <1>4, PutIs
<1>7. LogsTypeOK'
  BY <1>1, <1>2, <1>3, <1>5, <1>6 DEF LogsTypeOK
<1>8. Shape'
  <2>1. c \notin DOMAIN pending /\ \A l \in Range(batch) : l[1] \in DOMAIN pending
    BY <1>1 DEF Shape
  <2>2. left' \subseteq Container /\ left' \cap DOMAIN pending' = {}
    BY <1>1, <1>6 DEF Shape
  <2>3. \A l \in Range(batch') : l[1] \in DOMAIN pending'
    BY <1>2, <1>5, <1>6, <2>1
  <2>4. OneByOne(batch')
    <3>1. \A j \in DOMAIN batch, k \in DOMAIN kept : batch[j] # kept[k]
      BY <1>2, <2>1 DEF Range
    <3> QED
      BY <1>2, <1>4, <3>1, AppendedOnce DEF Shape
  <2> QED
    BY <1>1, <2>2, <2>3, <2>4 DEF Shape
<1>9. KeepsInv'
  <2>1. Done \subseteq Done' /\ Done' = Range(inserted) \cup missed' \cup overtaken /\ overtaken \subseteq Done
    BY <1>1, <1>2 DEF Done
  <2>2. Done \cup Range(batch) \subseteq Done' \cup Range(batch')
    BY <1>5, <2>1
  <2>3. Keeps(logs[c], c, new, Done' \cup Range(batch'))
    <3>1. Done \cup Range(kept) \cup missed' \subseteq Done' \cup Range(batch')
      BY <1>5, <2>1
    <3> QED
      BY <1>2, <3>1, KeepsGrows
  <2>4. Promised(logs, dockerClock, saved, Done') /\ Promised(logs, dockerClock, cursors, Done')
    BY <2>1, PromisedGrows DEF KeepsInv
  <2>5. Promised(logs, dockerClock, pending, Done' \cup Range(batch'))
    BY <2>2, PromisedGrows DEF KeepsInv
  <2>6. Promised(logs, dockerClock, pending', Done' \cup Range(batch'))
    BY <1>2, <1>6, <2>3, <2>5 DEF Promised
  <2> QED
    BY <1>1, <2>4, <2>6 DEF KeepsInv
<1> QED
  BY <1>3, <1>7, <1>8, <1>9

(* flush.                                                                  *)
LEMMA CollectFlush == ASSUME CollectInv, Flush PROVE CollectInv'
<1> USE DEF CollectInv
<1>1. /\ pc = "tail" /\ left = {} /\ cursors' = Listed /\ failed' = FALSE
      /\ logs' = logs /\ dockerClock' = dockerClock
      /\ UNCHANGED <<saved, volume, ingested, health, missed, overtaken, unowned, disturbed>>
  BY DEF Flush, daemon
<1>2. Line' = Line /\ Small'
  BY <1>1, LogsStay
<1>3. /\ batch \in Seq(Line) /\ rows \in Seq(Line) /\ inserted \in Seq(Line)
      /\ cursors \in Cursors /\ pending \in Cursors
      /\ failures \in 0 .. MaxFailures /\ MaxFailures \in Nat
      /\ \A l \in Line : Ts(l) \in Nat
  BY TypedLogs, LogAssumption DEF LogsTypeOK
<1>4. /\ Listed \in Cursors
      /\ \A S : Promised(logs, dockerClock, cursors, S) => Promised(logs, dockerClock, Listed, S)
  BY <1>3, ListedIs DEF Promised
<1>5. CASE /\ batch # << >> /\ NoFailure
           /\ \E sorted \in {Stable(batch)} : batch' = sorted /\ InsertBatch(sorted)
           /\ pc' = "volume" /\ left' = Buckets
           /\ UNCHANGED pending
  <2>1. /\ batch' = Stable(batch) /\ rows' = rows \o batch' /\ inserted' = inserted \o batch'
        /\ failures' = failures /\ pending' = pending
    BY <1>5 DEF InsertBatch, NoFailure
  <2>2. batch' \in Seq(Line) /\ Range(batch') = Range(batch) /\ OneByOne(batch')
    BY <1>3, <2>1, StableIs DEF SameLines, OneByOne, Shape
  <2>3. rows' \in Seq(Line) /\ inserted' \in Seq(Line) /\ Range(inserted') = Range(inserted) \cup Range(batch')
    BY <1>3, <2>1, <2>2, AppendedRange
  <2>4. left' \subseteq Severity
    BY <1>5 DEF Buckets, ParseLogLevel, Severity
  <2>5. LogsTypeOK'
    BY <1>1, <1>2, <1>3, <1>4, <1>5, <2>1, <2>2, <2>3, <2>4 DEF LogsTypeOK
  <2>6. Shape'
    BY <1>5, <2>2, <2>3, <2>4 DEF Shape
  <2>7. Done' = Done \cup Range(batch) /\ Done' \cup Range(batch') = Done \cup Range(batch)
    BY <1>1, <2>2, <2>3 DEF Done
  <2>8. Promised(logs, dockerClock, saved, Done') /\ Promised(logs, dockerClock, cursors, Done')
    <3>1. Done \subseteq Done'
      BY <2>7
    <3> QED
      BY <3>1, PromisedGrows DEF KeepsInv
  <2>9. KeepsInv'
    BY <1>1, <1>4, <2>1, <2>7, <2>8 DEF KeepsInv
  <2> QED
    BY <1>2, <2>5, <2>6, <2>9
<1>6. CASE /\ batch = << >> /\ NoFailure
           /\ pc' = "persist" /\ left' = DOMAIN pending
           /\ UNCHANGED <<batch, rows, inserted, pending>>
  <2>1. failures' = failures /\ batch' = << >> /\ rows' = rows /\ inserted' = inserted /\ pending' = pending
    BY <1>6 DEF NoFailure
  <2>2. left' \subseteq Container
    BY <1>3, <1>6, TableIs
  <2>3. LogsTypeOK'
    BY <1>1, <1>2, <1>3, <1>4, <1>6, <2>1, <2>2, EmptyBatch DEF LogsTypeOK
  <2>4. Shape'
    BY <1>6, <2>1, EmptyBatch DEF Shape
  <2>5. KeepsInv'
    <3>1. Done' = Done /\ Range(batch') = Range(batch)
      BY <1>1, <1>6, <2>1 DEF Done
    <3> QED
      BY <1>1, <1>4, <2>1, <3>1 DEF KeepsInv
  <2> QED
    BY <1>2, <2>3, <2>4, <2>5
<1>7. CASE /\ batch # << >> /\ Failure
           /\ pc' = "idle" /\ batch' = << >> /\ pending' = NoCursors /\ left' = {}
           /\ UNCHANGED <<rows, inserted>>
  <2>1. failures' \in 0 .. MaxFailures /\ rows' = rows /\ inserted' = inserted
    BY <1>3, <1>7 DEF Failure
  <2>2. LogsTypeOK'
    BY <1>1, <1>2, <1>3, <1>4, <1>7, <2>1, EmptyBatch, NoCursorsIs DEF LogsTypeOK
  <2>3. Shape'
    BY <1>7, EmptyBatch DEF Shape
  <2>4. KeepsInv'
    <3>1. Done' = Done
      BY <1>1, <2>1 DEF Done
    <3> QED
      BY <1>1, <1>4, <1>7, <3>1, NothingPromised DEF KeepsInv
  <2> QED
    BY <1>2, <2>2, <2>3, <2>4
<1> QED
  BY <1>5, <1>6, <1>7 DEF Flush
(* The lines of one severity in the batch.                                 *)
PerLevel(lines, s) == Cardinality({k \in DOMAIN lines : ParseLogLevel(lines[k]) = s})

(* It is a number.                                                         *)
LEMMA PerLevelIs ==
    ASSUME NEW S, NEW lines \in Seq(S), NEW s
    PROVE  PerLevel(lines, s) \in Nat
<1> DEFINE T == {k \in DOMAIN lines : ParseLogLevel(lines[k]) = s}
<1>1. T \in SUBSET (1 .. Len(lines)) /\ Len(lines) \in Nat
  OBVIOUS
<1> HIDE DEF T
<1>2. Cardinality(T) \in 0 .. Len(lines)
  BY <1>1, PlacesFinite
<1> QED
  BY <1>1, <1>2 DEF PerLevel, T

(* One bucket changes the volume, not the lines.                           *)
LEMMA CollectVolume ==
    ASSUME CollectInv, NEW s \in Severity, Volume(s) PROVE CollectInv'
<1> USE DEF CollectInv
<1>1. /\ pc = "volume" /\ pc' = "volume" /\ left' = left \ {s} /\ logs' = logs /\ dockerClock' = dockerClock
      /\ UNCHANGED <<batch, pending, cursors, saved, rows, health,
                     inserted, missed, overtaken, unowned, disturbed>>
  BY DEF Volume, daemon, logHistory
<1>2. Line' = Line /\ Small'
  BY <1>1, LogsStay
<1>3. PerLevel(batch, s) \in Nat
  BY PerLevelIs DEF LogsTypeOK
<1>4. volume' \in [Severity -> Nat] /\ failures' \in 0 .. MaxFailures /\ failed' \in BOOLEAN
  <2>1. failures \in 0 .. MaxFailures /\ MaxFailures \in Nat /\ failed \in BOOLEAN /\ volume \in [Severity -> Nat]
    BY LogAssumption DEF LogsTypeOK
  <2>2. CASE NoFailure /\ UNCHANGED failed
             /\ volume' = IF <<batch, s>> \in ingested THEN volume
                          ELSE [volume EXCEPT ![s] = @ + PerLevel(batch, s)]
    BY <1>3, <2>1, <2>2 DEF NoFailure
  <2>3. CASE Failure /\ failed' = TRUE /\ UNCHANGED volume
    BY <2>1, <2>3 DEF Failure
  <2> QED
    BY <2>2, <2>3 DEF Volume, PerLevel
<1>5. LogsTypeOK'
  BY <1>1, <1>2, <1>4 DEF LogsTypeOK
<1>6. Shape'
  BY <1>1 DEF Shape
<1>7. KeepsInv'
  BY <1>1 DEF KeepsInv, Done
<1> QED
  BY <1>2, <1>5, <1>6, <1>7

(* The outcome is recorded; what is to be persisted is what was listed.    *)
LEMMA CollectRecord == ASSUME CollectInv, RecordVolume PROVE CollectInv'
<1> USE DEF CollectInv
<1>1. /\ pc = "volume" /\ pc' = "persist" /\ left' = DOMAIN pending /\ logs' = logs /\ dockerClock' = dockerClock
      /\ UNCHANGED <<batch, pending, cursors, failed, saved, rows, volume,
                     inserted, missed, overtaken, disturbed>>
  BY DEF RecordVolume, daemon
<1>2. Line' = Line /\ Small'
  BY <1>1, LogsStay
<1>3. health' \in [dropped : Nat, complete : BOOLEAN] /\ failures' \in 0 .. MaxFailures /\ unowned' \in BOOLEAN
  <2>1. /\ failures \in 0 .. MaxFailures /\ MaxFailures \in Nat /\ unowned \in BOOLEAN /\ failed \in BOOLEAN
        /\ health \in [dropped : Nat, complete : BOOLEAN]
    BY LogAssumption DEF LogsTypeOK
  <2>2. CASE /\ NoFailure /\ UNCHANGED unowned
             /\ health' = IF failed
                          THEN [dropped |-> health.dropped + 1, complete |-> FALSE]
                          ELSE [health EXCEPT !.complete = TRUE]
    <3>1. failures' \in 0 .. MaxFailures /\ unowned' \in BOOLEAN
      BY <2>1, <2>2 DEF NoFailure
    <3>2. health.dropped + 1 \in Nat
      BY <2>1
    <3>3. [dropped |-> health.dropped + 1, complete |-> FALSE] \in [dropped : Nat, complete : BOOLEAN]
      BY <3>2
    <3>4. [health EXCEPT !.complete = TRUE] \in [dropped : Nat, complete : BOOLEAN]
      BY <2>1
    <3>5. health' \in [dropped : Nat, complete : BOOLEAN]
      BY <2>2, <3>3, <3>4
    <3> QED
      BY <3>1, <3>5
  <2>3. CASE Failure /\ unowned' = (unowned \/ failed) /\ UNCHANGED health
    BY <2>1, <2>3 DEF Failure
  <2> QED
    BY <2>2, <2>3 DEF RecordVolume
<1>4. DOMAIN pending \subseteq Container
  BY TableIs DEF LogsTypeOK
<1>5. LogsTypeOK'
  BY <1>1, <1>2, <1>3, <1>4 DEF LogsTypeOK
<1>6. Shape'
  BY <1>1 DEF Shape
<1>7. KeepsInv'
  BY <1>1 DEF KeepsInv, Done
<1> QED
  BY <1>2, <1>5, <1>6, <1>7

(* A cursor is persisted after its lines were stored.                      *)
LEMMA CollectPersist ==
    ASSUME CollectInv, NEW c \in Container, Persist(c) PROVE CollectInv'
<1> USE DEF CollectInv
<1>1. /\ pc = "persist" /\ pc' = "persist" /\ c \in left /\ left' = left \ {c}
      /\ cursors' = Put(cursors, c, pending[c]) /\ logs' = logs /\ dockerClock' = dockerClock
      /\ UNCHANGED <<batch, pending, failed, rows, volume, ingested, health,
                     inserted, missed, overtaken, unowned>>
  BY DEF Persist, daemon
<1>2. Line' = Line /\ Small'
  BY <1>1, LogsStay
<1>3. c \in DOMAIN pending /\ Range(batch) \subseteq Range(inserted)
  BY <1>1 DEF Shape
<1>4. /\ pending[c] \in Cursor /\ pending[c].ts <= dockerClock
      /\ Keeps(logs[c], c, pending[c], Done)
  <2>1. Done \cup Range(batch) = Done
    BY <1>3 DEF Done
  <2> QED
    BY <1>3, <2>1, TableIs DEF LogsTypeOK, KeepsInv, Promised
<1>5. /\ saved \in [Container -> Cursor] /\ saved' \in [Container -> Cursor]
      /\ saved' = saved \/ saved' = [saved EXCEPT ![c] = pending[c]]
      /\ failures' \in 0 .. MaxFailures /\ disturbed' \in BOOLEAN
  <2>1. /\ failures \in 0 .. MaxFailures /\ MaxFailures \in Nat /\ disturbed \in BOOLEAN
        /\ saved \in [Container -> Cursor]
    BY LogAssumption DEF LogsTypeOK
  <2>2. CASE NoFailure /\ UNCHANGED disturbed
             /\ saved' = IF pending[c].ts = 0 THEN saved ELSE [saved EXCEPT ![c] = pending[c]]
    BY <1>4, <2>1, <2>2 DEF NoFailure
  <2>3. CASE Failure /\ disturbed' = TRUE /\ UNCHANGED saved
    BY <2>1, <2>3 DEF Failure
  <2> QED
    BY <2>2, <2>3 DEF Persist
<1>6. /\ cursors \in Cursors /\ cursors' \in Cursors
      /\ DOMAIN cursors' = DOMAIN cursors \cup {c} /\ cursors'[c] = pending[c]
      /\ \A d \in DOMAIN cursors : d # c => cursors'[d] = cursors[d]
  <2>1. cursors \in Cursors /\ pending[c] \in Cursor
    BY <1>4 DEF LogsTypeOK
  <2> QED
    BY <1>1, <2>1, PutIs
<1>7. LogsTypeOK'
  BY <1>1, <1>2, <1>5, <1>6 DEF LogsTypeOK
<1>8. Shape'
  BY <1>1 DEF Shape
<1>9. KeepsInv'
  <2>1. Done' = Done /\ Range(batch') = Range(batch)
    BY <1>1 DEF Done
  <2>2. Promised(logs, dockerClock, saved', Done)
    <3>1. DOMAIN saved = Container /\ DOMAIN saved' = Container
      BY <1>5
    <3>2. \A d \in Container : saved'[d] = saved[d] \/ (d = c /\ saved'[d] = pending[c])
      BY <1>5
    <3> QED
      BY <1>4, <3>1, <3>2 DEF KeepsInv, Promised
  <2>3. Promised(logs, dockerClock, cursors', Done)
    BY <1>4, <1>6 DEF KeepsInv, Promised
  <2> QED
    BY <1>1, <2>1, <2>2, <2>3 DEF KeepsInv
<1> QED
  BY <1>2, <1>7, <1>8, <1>9

(* Trimming drops rows, not the record of what was stored.                 *)
LEMMA CollectTrim == ASSUME CollectInv, Trim PROVE CollectInv'
<1> USE DEF CollectInv
<1>1. /\ pc = "persist" /\ left = {} /\ pc' = "idle" /\ batch' = << >> /\ pending' = NoCursors
      /\ logs' = logs /\ dockerClock' = dockerClock
      /\ UNCHANGED <<left, cursors, failed, saved, volume, ingested, health,
                     inserted, missed, overtaken, unowned, disturbed>>
  BY DEF Trim, daemon, logHistory
<1>2. Line' = Line /\ Small'
  BY <1>1, LogsStay
<1>3. rows' \in Seq(Line) /\ failures' \in 0 .. MaxFailures
  <2>1. rows \in Seq(Line) /\ failures \in 0 .. MaxFailures /\ MaxFailures \in Nat /\ RowCap \in Nat /\ RowCap # 0
    BY LogAssumption DEF LogsTypeOK
  <2>2. NewestRows \in Seq(Line)
    <3> DEFINE from == Max({1, Len(rows) - RowCap + 1})
    <3>1. from \in {1, Len(rows) - RowCap + 1} /\ \A x \in {1, Len(rows) - RowCap + 1} : x <= from
      <4> DEFINE set == {1, Len(rows) - RowCap + 1}
      <4>1. set \in SUBSET Int /\ set # {}
        BY <2>1
      <4>2. IsFiniteSet(set)
        <5>1. IsFiniteSet({1}) /\ set = {1} \cup {Len(rows) - RowCap + 1}
          BY FS_Singleton
        <5> QED
          BY <5>1, FS_AddElement
      <4> HIDE DEF set
      <4>3. Max(set) \in set /\ \A x \in set : x <= Max(set)
        BY <4>1, <4>2, MaxIs
      <4> QED
        BY <4>3 DEF set
    <3> HIDE DEF from
    <3>2. from \in Int /\ 1 <= from /\ Len(rows) \in Nat
      BY <2>1, <3>1
    <3>3. \A k \in from .. Len(rows) : rows[k] \in Line
      BY <2>1, <3>2
    <3>4. SubSeq(rows, from, Len(rows)) \in Seq(Line)
      BY <2>1, <3>2, <3>3, SubSeqProperties
    <3> QED
      BY <3>4 DEF NewestRows, from
  <2>3. CASE NoFailure /\ rows' = IF DOMAIN pending = {} THEN rows ELSE NewestRows
    BY <2>1, <2>2, <2>3 DEF NoFailure
  <2>4. CASE Failure /\ UNCHANGED rows
    BY <2>1, <2>4 DEF Failure
  <2> QED
    BY <2>3, <2>4 DEF Trim
<1>4. LogsTypeOK'
  BY <1>1, <1>2, <1>3, NoCursorsIs, EmptyBatch DEF LogsTypeOK
<1>5. Shape'
  BY <1>1, EmptyBatch DEF Shape
<1>6. KeepsInv'
  BY <1>1, NothingPromised DEF KeepsInv, Done
<1> QED
  BY <1>2, <1>4, <1>5, <1>6

(* A restart forgets what was in memory; persisted promises stay.          *)
LEMMA CollectCrash == ASSUME CollectInv, Crash PROVE CollectInv'
<1> USE DEF CollectInv
<1>1. /\ disturbed' = TRUE /\ pc' = "idle" /\ left' = {} /\ batch' = << >> /\ pending' = NoCursors
      /\ cursors' = NoCursors /\ failed' = FALSE /\ logs' = logs /\ dockerClock' = dockerClock
      /\ UNCHANGED <<saved, rows, volume, ingested, health, inserted, missed, overtaken, unowned>>
  BY DEF Crash, daemon, logTables
<1>2. Line' = Line /\ Small'
  BY <1>1, LogsStay
<1>3. failures' \in 0 .. MaxFailures
  <2>1. failures \in 0 .. MaxFailures /\ MaxFailures \in Nat
    BY LogAssumption DEF LogsTypeOK
  <2> QED
    BY <2>1 DEF Crash, Failure
<1>4. LogsTypeOK'
  BY <1>1, <1>2, <1>3, NoCursorsIs, EmptyBatch DEF LogsTypeOK
<1>5. Shape'
  BY <1>1, EmptyBatch DEF Shape
<1>6. KeepsInv'
  BY <1>1, NothingPromised DEF KeepsInv, Done
<1> QED
  BY <1>2, <1>4, <1>5, <1>6

(* Every step keeps the invariant.                                         *)
LEMMA CollectStep == CollectInv /\ [LogsNext]_logVars => CollectInv'
<1> SUFFICES ASSUME CollectInv, [LogsNext]_logVars PROVE CollectInv'
  OBVIOUS
<1>1. ASSUME NEW c \in Container, NEW s \in Stream, NEW stamp \in 1 .. dockerClock, Emit(c, s, stamp)
      PROVE  CollectInv'
  BY <1>1, CollectEmit
<1>2. ASSUME NEW seen \in SUBSET Container, List(seen) PROVE CollectInv'
  BY <1>2, CollectList
<1>3. ASSUME NEW c \in Container, TailOne(c) \/ Persist(c) PROVE CollectInv'
  BY <1>3, CollectTail, CollectPersist
<1>4. ASSUME NEW s \in Severity, Volume(s) PROVE CollectInv'
  BY <1>4, CollectVolume
<1>5. CASE TimePasses \/ Flush \/ RecordVolume \/ Trim \/ Crash
  BY <1>5, CollectTick, CollectFlush, CollectRecord, CollectTrim, CollectCrash
<1>6. CASE UNCHANGED logVars
  <2>1. UNCHANGED <<logs, dockerClock, pc, left, batch, pending, cursors, failed, saved, rows, volume,
                    ingested, health, failures, inserted, missed, overtaken, unowned, disturbed>>
    BY <1>6 DEF logVars, daemon, memory, logTables, logHistory
  <2>2. Line' = Line /\ Small'
    BY <2>1, LogsStay DEF CollectInv
  <2>3. LogsTypeOK'
    BY <2>1, <2>2 DEF CollectInv, LogsTypeOK
  <2>4. Shape' /\ KeepsInv'
    BY <2>1 DEF CollectInv, Shape, KeepsInv, Done
  <2> QED
    BY <2>2, <2>3, <2>4 DEF CollectInv
<1> QED
  BY <1>1, <1>2, <1>3, <1>4, <1>5, <1>6 DEF LogsNext, Collect

(* The invariant holds in every run.                                       *)
LEMMA CollectAlways == LogsSpec => []CollectInv
BY CollectInit, CollectStep, PTL DEF LogsSpec
-----------------------------------------------------------------------------
(* Nothing twice.  Unless a cursor was lost, unread or unwritten, memory   *)
(* and table agree on every cursor, no stored line lies behind the cursor  *)
(* that will be persisted next, and what a cycle kept was not stored yet;  *)
(* lines of a mixed stamp excepted.                                        *)
Unclear == {l \in Line : Ambiguous(l)}

OnceBut(lines, except) ==
    \A j, k \in DOMAIN lines : j # k /\ lines[j] = lines[k] => lines[j] \in except

Current(c) ==
    IF \/ pc = "volume" /\ c \in DOMAIN pending
       \/ pc = "persist" /\ c \in left
    THEN pending[c] ELSE saved[c]

Fresh ==
    /\ \A c \in DOMAIN cursors : cursors[c] = saved[c]
    /\ \A c \in DOMAIN pending : pending[c].ts = 0 => pending[c] = saved[c]
    /\ \A c \in Container : Covers(logs[c], c, Current(c), Range(inserted))
    /\ pc = "tail" =>
          /\ \A c \in DOMAIN pending :
                Covers(logs[c], c, pending[c], Range(inserted) \cup Range(batch))
          /\ \A l \in Range(batch) : l \in Range(inserted) => l \in Unclear
    /\ OnceBut(inserted, Unclear)

OnceInv == disturbed \/ Fresh

(* Repetitions of a concatenation are within the exceptions.               *)
LEMMA AppendedOnceBut ==
    ASSUME NEW S, NEW x \in Seq(S), NEW y \in Seq(S), NEW A, OnceBut(x, A), OneByOne(y),
           \A l \in Range(y) : l \in Range(x) => l \in A
    PROVE  OnceBut(x \o y, A)
<1>1. /\ Len(x \o y) = Len(x) + Len(y) /\ Len(x) \in Nat /\ Len(y) \in Nat
      /\ \A k \in 1 .. Len(x) + Len(y) : (x \o y)[k] = IF k <= Len(x) THEN x[k] ELSE y[k - Len(x)]
      /\ x \o y \in Seq(S)
  BY ConcatProperties
<1>2. DOMAIN (x \o y) = 1 .. Len(x) + Len(y) /\ DOMAIN x = 1 .. Len(x) /\ DOMAIN y = 1 .. Len(y)
  BY <1>1
<1> SUFFICES ASSUME NEW j \in 1 .. Len(x) + Len(y), NEW k \in 1 .. Len(x) + Len(y), j # k,
                    (x \o y)[j] = (x \o y)[k]
             PROVE  (x \o y)[j] \in A
  BY <1>2 DEF OnceBut
<1>3. \A i \in 1 .. Len(x) + Len(y) :
        /\ i <= Len(x) => i \in 1 .. Len(x) /\ (x \o y)[i] = x[i]
        /\ ~(i <= Len(x)) => i - Len(x) \in 1 .. Len(y) /\ (x \o y)[i] = y[i - Len(x)]
  BY <1>1
<1>4. CASE j <= Len(x) /\ k <= Len(x)
  BY <1>2, <1>3, <1>4 DEF OnceBut
<1>5. CASE ~(j <= Len(x)) /\ ~(k <= Len(x))
  <2>1. j - Len(x) = k - Len(x)
    BY <1>2, <1>3, <1>5 DEF OneByOne
  <2> QED
    BY <1>1, <2>1
<1>6. CASE j <= Len(x) /\ ~(k <= Len(x))
  BY <1>2, <1>3, <1>6 DEF Range
<1>7. CASE ~(j <= Len(x)) /\ k <= Len(x)
  BY <1>2, <1>3, <1>7 DEF Range
<1> QED
  BY <1>4, <1>5, <1>6, <1>7

(* Which lines are ambiguous depends on the logs alone.                    *)
LEMMA UnclearStays == ASSUME logs' = logs PROVE Unclear' = Unclear
<1>1. Line' = Line
  BY LogsStay
<1>2. \A l : Ambiguous(l)' <=> Ambiguous(l)
  BY <1>1 DEF Ambiguous, Ts, Of
<1> QED
  BY <1>1, <1>2 DEF Unclear

(* A line of a container is not one of another's.                          *)
LEMMA OtherLines ==
    ASSUME NEW log, NEW c, NEW cursor, NEW S, NEW T, \A l \in T : l[1] # c, Covers(log, c, cursor, S)
    PROVE  Covers(log, c, cursor, S \cup T)
<1>1. \A n \in 1 .. Len(log) : <<c, n>> \in S \cup T => <<c, n>> \in S
  <2>1. \A n : <<c, n>>[1] = c
    OBVIOUS
  <2> QED
    BY <2>1
<1> QED
  BY <1>1, CoversShrinks

(* At first nothing is stored.                                             *)
LEMMA OnceInit == LogsInit => OnceInv
<1> SUFFICES ASSUME LogsInit PROVE Fresh
  BY DEF OnceInv
<1>1. /\ cursors = NoCursors /\ pending = NoCursors /\ inserted = << >> /\ pc = "idle"
  BY DEF LogsInit
<1>2. DOMAIN inserted = {} /\ Range(inserted) = {}
  BY <1>1, EmptyBatch
<1> QED
  BY <1>1, <1>2, NoCursorsIs DEF Fresh, OnceBut, Covers

(* A new line is not stored, and ambiguous lines stay ambiguous.           *)
LEMMA OnceEmit ==
    ASSUME CollectInv, Fresh, NEW c \in Container, NEW s \in Stream, NEW stamp \in 1 .. dockerClock,
           Emit(c, s, stamp)
    PROVE  Fresh'
<1> DEFINE e == [ts |-> stamp, stream |-> s]
<1> USE DEF CollectInv
<1>1. UNCHANGED <<pc, left, batch, pending, cursors, saved, inserted>>
  BY DEF Emit, memory, logTables, logHistory
<1>2. /\ logs' = [logs EXCEPT ![c] = Append(logs[c], e)] /\ e \in Entry
      /\ Line' = Line \cup {<<c, Len(logs[c]) + 1>>} /\ <<c, Len(logs[c]) + 1>> \notin Line
      /\ \A l \in Line : Ts(l)' = Ts(l) /\ Of(l)' = Of(l)
  BY LinesMore
<1> HIDE DEF e
<1>3. Unclear \subseteq Unclear'
  BY <1>2 DEF Unclear, Ambiguous
<1>4. ASSUME NEW d \in Container, NEW cursor \in Cursor, NEW S, S \subseteq Line, Covers(logs[d], d, cursor, S)
      PROVE  Covers(logs'[d], d, cursor, S)
  <2>1. CASE d = c
    <3>1. /\ logs[c] \in Seq(Entry) /\ logs'[c] = Append(logs[c], e) /\ cursor \in CursorType
          /\ <<c, Len(logs[c]) + 1>> \notin S
      BY <1>2, <1>4, TypedLogs, CursorIs DEF LogsTyped
    <3> QED
      BY <1>2, <1>4, <2>1, <3>1, CoversOneMore
  <2>2. CASE d # c
    <3>1. logs'[d] = logs[d]
      BY <1>2, <2>2, TypedLogs DEF LogsTyped
    <3> QED
      BY <1>4, <3>1
  <2> QED
    BY <2>1, <2>2
<1>5. Range(inserted) \subseteq Line /\ Range(batch) \subseteq Line
  BY DEF LogsTypeOK, Range
<1>6. \A d \in DOMAIN pending : pending[d] \in Cursor /\ d \in Container
  BY TableIs DEF LogsTypeOK
<1>7. \A d \in Container : Current(d) \in Cursor /\ Current(d)' = Current(d)
  <2>1. \A d \in Container : saved[d] \in Cursor
    BY DEF LogsTypeOK
  <2>2. pc = "persist" => left \subseteq DOMAIN pending
    BY DEF Shape
  <2> QED
    BY <1>1, <1>6, <2>1, <2>2 DEF Current
<1>8. \A d \in Container : Covers(logs'[d], d, Current(d)', Range(inserted'))
  BY <1>1, <1>4, <1>5, <1>7 DEF Fresh
<1>9. pc = "tail" => \A d \in DOMAIN pending :
            Covers(logs'[d], d, pending[d], Range(inserted) \cup Range(batch))
  <2>1. Range(inserted) \cup Range(batch) \subseteq Line
    BY <1>5
  <2> QED
    BY <1>4, <1>6, <2>1 DEF Fresh
<1>10. OnceBut(inserted, Unclear')
  BY <1>3 DEF Fresh, OnceBut
<1> QED
  BY <1>1, <1>3, <1>8, <1>9, <1>10 DEF Fresh

(* What tailOne brings while no cursor is unread.                          *)
LEMMA TailFresh ==
    ASSUME CollectInv, Fresh, NEW c \in Container, TailOne(c), ~disturbed'
    PROVE  \E kept \in Seq(Line), new \in Cursor :
              /\ batch' = batch \o kept /\ pending' = Put(pending, c, new)
              /\ \A l \in Range(kept) : l[1] = c
              /\ Covers(logs[c], c, new, Range(inserted) \cup Range(kept))
              /\ \A l \in Range(kept) : l \in Range(inserted) => l \in Unclear
              /\ new.ts = 0 => new = saved[c]
<1> USE DEF CollectInv
<1>1. /\ saved[c] \in Cursor /\ saved[c].ts <= dockerClock /\ Keeps(logs[c], c, saved[c], Done)
      /\ loadLogCursor(c) = saved[c]
  <2>1. saved[c] \in Cursor /\ saved[c].ts <= dockerClock /\ Keeps(logs[c], c, saved[c], Done)
    BY DEF LogsTypeOK, KeepsInv, Promised
  <2> QED
    BY <2>1 DEF loadLogCursor, Fresh
<1>2. Covers(logs[c], c, saved[c], Range(inserted))
  BY DEF TailOne, Fresh, Current
<1>3. CASE Poll(c, saved[c])
  <2> DEFINE cursor == saved[c]
             kept == Newer(Logs(c, cursor.ts), cursor)
             new == Advanced(kept, cursor)
             K == Range(inserted)
  <2>1. /\ kept \in Seq(Line) /\ \A l \in Range(kept) : l[1] = c
        /\ new \in Cursor
        /\ PollKeeps(c, cursor, kept) /\ PollAdvances(c, cursor, kept, new)
    BY <1>1, PollBrings
  <2>2. batch' = batch \o kept /\ pending' = Put(pending, c, new)
    BY <1>3, PollIs
  <2> HIDE DEF kept, new, cursor
  <2>3. LogsTyped /\ cursor \in CursorType /\ Covers(logs[c], c, cursor, K)
    BY <1>1, <1>2, TypedLogs, CursorIs DEF cursor
  <2> HIDE DEF K
  <2>4. /\ Covers(logs[c], c, new, K \cup Range(kept))
        /\ \A n \in 1 .. Len(logs[c]) : <<c, n>> \in K /\ <<c, n>> \in Range(kept) =>
                 Mixed(logs[c], logs[c][n].ts)
    BY <2>1, <2>3, PollKeepsNew
  <2>5. ASSUME NEW l \in Range(kept), l \in K PROVE l \in Unclear
    <3>1. l \in Line /\ l[1] = c
      BY <2>1, <2>5 DEF Range
    <3>2. PICK d \in Container : \E n \in 1 .. Len(logs[d]) : l = <<d, n>>
      BY <3>1, LineIs
    <3>3. PICK n \in 1 .. Len(logs[c]) : l = <<c, n>>
      BY <3>1, <3>2
    <3>4. Mixed(logs[c], logs[c][n].ts)
      BY <2>4, <2>5, <3>3
    <3>5. Ambiguous(<<c, n>>)
      BY <3>4, MixedIsAmbiguous
    <3> QED
      BY <3>1, <3>3, <3>5 DEF Unclear
  <2>6. ASSUME new.ts = 0 PROVE new = cursor
    <3>1. /\ cursor.ts \in Nat /\ cursor.boundary \in Nat /\ new.ts \in Nat /\ new.boundary \in Nat
          /\ cursor = [ts |-> cursor.ts, boundary |-> cursor.boundary]
          /\ new = [ts |-> new.ts, boundary |-> new.boundary]
      BY <2>1, <2>3, CursorIs DEF CursorType
    <3>2. cursor.ts = 0
      BY <2>1, <2>6, <3>1 DEF PollAdvances
    <3>3. Stamped(logs[c], 0) = {}
      <4>1. dockerClock \in Int
        BY LogAssumption DEF LogsTypeOK
      <4> QED
        BY <4>1, TypedLogs DEF Stamped
    <3>4. Cardinality(Stamped(logs[c], new.ts) \cap LastLines(logs[c])) = 0
      <4>1. Stamped(logs[c], new.ts) \cap LastLines(logs[c]) = {}
        BY <2>6, <3>3
      <4> QED
        BY <4>1, FS_EmptySet
    <3>5. new.boundary = cursor.boundary
      BY <2>1, <2>6, <3>1, <3>2, <3>4 DEF PollAdvances
    <3> QED
      BY <2>6, <3>1, <3>2, <3>5
  <2> QED
    BY <2>1, <2>2, <2>4, <2>5, <2>6 DEF K, cursor
<1>4. CASE pending' = Put(pending, c, saved[c]) /\ UNCHANGED batch
  <2>1. batch' = batch \o << >>
    BY <1>4 DEF LogsTypeOK
  <2>2. << >> \in Seq(Line) /\ Range(<< >>) = {}
    BY EmptyBatch
  <2>3. Range(inserted) \cup Range(<< >>) = Range(inserted)
    BY <2>2
  <2> QED
    BY <1>1, <1>2, <1>4, <2>1, <2>2, <2>3
<1> QED
  BY <1>1, <1>3, <1>4 DEF TailOne

(* tailOne: what is kept is after the cursor, so not stored yet.           *)
LEMMA OnceTail ==
    ASSUME CollectInv, Fresh, NEW c \in Container, TailOne(c), ~disturbed' PROVE Fresh'
<1> USE DEF CollectInv
<1>1. /\ pc = "tail" /\ pc' = "tail" /\ c \in left /\ logs' = logs
      /\ UNCHANGED <<cursors, saved, inserted>>
  BY DEF TailOne, daemon, logTables
<1>2. PICK kept \in Seq(Line), new \in Cursor :
              /\ batch' = batch \o kept /\ pending' = Put(pending, c, new)
              /\ \A l \in Range(kept) : l[1] = c
              /\ Covers(logs[c], c, new, Range(inserted) \cup Range(kept))
              /\ \A l \in Range(kept) : l \in Range(inserted) => l \in Unclear
              /\ new.ts = 0 => new = saved[c]
  BY TailFresh
<1>3. batch \in Seq(Line) /\ pending \in Cursors
  BY DEF LogsTypeOK
<1>4. Range(batch') = Range(batch) \cup Range(kept)
  BY <1>2, <1>3, AppendedRange
<1>5. /\ DOMAIN pending' = DOMAIN pending \cup {c} /\ pending'[c] = new
      /\ \A d \in DOMAIN pending : d # c => pending'[d] = pending[d]
  BY <1>2, <1>3, PutIs
<1>6. Unclear' = Unclear
  BY <1>1, UnclearStays
<1>7. c \notin DOMAIN pending /\ \A l \in Range(batch) : l[1] \in DOMAIN pending
  BY <1>1 DEF Shape
<1>8. ASSUME NEW d \in DOMAIN pending'
      PROVE  Covers(logs[d], d, pending'[d], Range(inserted) \cup Range(batch'))
  <2>1. CASE d = c
    <3>1. \A l \in Range(batch) : l[1] # c
      BY <1>7
    <3>2. Covers(logs[c], c, new, (Range(inserted) \cup Range(kept)) \cup Range(batch))
      BY <1>2, <3>1, OtherLines
    <3>3. (Range(inserted) \cup Range(kept)) \cup Range(batch) = Range(inserted) \cup Range(batch')
      BY <1>4
    <3> QED
      BY <1>5, <2>1, <3>2, <3>3
  <2>2. CASE d # c
    <3>1. d \in DOMAIN pending /\ pending'[d] = pending[d]
      BY <1>5, <2>2
    <3>2. \A l \in Range(kept) : l[1] # d
      BY <1>2, <2>2
    <3>3. Covers(logs[d], d, pending[d], Range(inserted) \cup Range(batch))
      BY <1>1, <3>1 DEF Fresh
    <3>4. Covers(logs[d], d, pending[d], (Range(inserted) \cup Range(batch)) \cup Range(kept))
      BY <3>2, <3>3, OtherLines
    <3>5. (Range(inserted) \cup Range(batch)) \cup Range(kept) = Range(inserted) \cup Range(batch')
      BY <1>4
    <3> QED
      BY <3>1, <3>4, <3>5
  <2> QED
    BY <2>1, <2>2
<1>9. \A d \in Container : Covers(logs[d], d, Current(d)', Range(inserted))
  <2>1. \A d : Current(d)' = saved[d] /\ Current(d) = saved[d]
    BY <1>1 DEF Current
  <2> QED
    BY <2>1 DEF Fresh
<1>10. \A l \in Range(batch') : l \in Range(inserted) => l \in Unclear
  BY <1>1, <1>2, <1>4 DEF Fresh
<1>11. \A d \in DOMAIN pending' : pending'[d].ts = 0 => pending'[d] = saved[d]
  BY <1>2, <1>5 DEF Fresh
<1> QED
  BY <1>1, <1>6, <1>8, <1>9, <1>10, <1>11 DEF Fresh

(* flush: the batch is stored, and the cursors of the cycle are after it.  *)
LEMMA OnceFlush == ASSUME CollectInv, Fresh, Flush PROVE Fresh'
<1> USE DEF CollectInv
<1>1. /\ pc = "tail" /\ cursors' = Listed /\ logs' = logs /\ saved' = saved
  BY DEF Flush, daemon
<1>2. /\ batch \in Seq(Line) /\ inserted \in Seq(Line) /\ cursors \in Cursors /\ pending \in Cursors
      /\ \A l \in Line : Ts(l) \in Nat
  BY TypedLogs DEF LogsTypeOK
<1>3. Unclear' = Unclear
  BY <1>1, UnclearStays
<1>4. \A c \in DOMAIN Listed : Listed[c] = saved[c]
  BY <1>2, ListedIs DEF Fresh
<1>5. \A d : Current(d) = saved[d]
  BY <1>1 DEF Current
<1>6. \A l \in Range(batch) : l[1] \in DOMAIN pending
  BY <1>1 DEF Shape
<1>7. CASE /\ batch # << >>
           /\ \E sorted \in {Stable(batch)} : batch' = sorted /\ InsertBatch(sorted)
           /\ pc' = "volume" /\ UNCHANGED pending
  <2>1. batch' = Stable(batch) /\ inserted' = inserted \o batch' /\ pending' = pending
    BY <1>7 DEF InsertBatch
  <2>2. batch' \in Seq(Line) /\ Range(batch') = Range(batch) /\ OneByOne(batch')
    BY <1>2, <2>1, StableIs DEF SameLines, OneByOne, Shape
  <2>3. Range(inserted') = Range(inserted) \cup Range(batch)
    BY <1>2, <2>1, <2>2, AppendedRange
  <2>4. \A d : Current(d)' = IF d \in DOMAIN pending THEN pending[d] ELSE saved[d]
    BY <1>1, <1>7 DEF Current
  <2>5. ASSUME NEW d \in Container PROVE Covers(logs[d], d, Current(d)', Range(inserted'))
    <3>1. CASE d \in DOMAIN pending
      BY <1>1, <2>3, <2>4, <3>1 DEF Fresh
    <3>2. CASE d \notin DOMAIN pending
      <4>1. \A l \in Range(batch) : l[1] # d
        BY <1>6, <3>2
      <4>2. Covers(logs[d], d, saved[d], Range(inserted))
        BY <1>5 DEF Fresh
      <4>3. Covers(logs[d], d, saved[d], Range(inserted) \cup Range(batch))
        BY <4>1, <4>2, OtherLines
      <4> QED
        BY <2>3, <2>4, <3>2, <4>3
    <3> QED
      BY <3>1, <3>2
  <2>6. OnceBut(inserted', Unclear)
    <3>1. \A l \in Range(batch') : l \in Range(inserted) => l \in Unclear
      BY <1>1, <2>2 DEF Fresh
    <3>2. OnceBut(inserted, Unclear)
      BY DEF Fresh
    <3> QED
      BY <1>2, <2>1, <2>2, <3>1, <3>2, AppendedOnceBut
  <2> QED
    BY <1>1, <1>3, <1>4, <1>7, <2>1, <2>5, <2>6 DEF Fresh
<1>8. CASE /\ batch = << >> /\ pc' = "persist" /\ left' = DOMAIN pending
           /\ UNCHANGED <<batch, inserted, pending>>
  <2>1. Range(inserted) \cup Range(batch) = Range(inserted)
    BY <1>8, EmptyBatch
  <2>2. \A d : Current(d)' = IF d \in DOMAIN pending THEN pending[d] ELSE saved[d]
    BY <1>1, <1>8 DEF Current
  <2>3. \A d \in Container : Covers(logs[d], d, Current(d)', Range(inserted))
    BY <1>1, <1>5, <2>1, <2>2 DEF Fresh
  <2> QED
    BY <1>1, <1>3, <1>4, <1>8, <2>3 DEF Fresh
<1>9. CASE /\ pc' = "idle" /\ pending' = NoCursors /\ UNCHANGED inserted
  <2>1. \A d : Current(d)' = saved[d]
    BY <1>1, <1>9 DEF Current
  <2>2. \A d \in Container : Covers(logs[d], d, Current(d)', Range(inserted))
    BY <1>5, <2>1 DEF Fresh
  <2> QED
    BY <1>1, <1>3, <1>4, <1>9, <2>2, NoCursorsIs DEF Fresh
<1> QED
  BY <1>7, <1>8, <1>9 DEF Flush

(* persistLogCursor: memory and table agree again.                         *)
LEMMA OncePersist ==
    ASSUME CollectInv, Fresh, NEW c \in Container, Persist(c), ~disturbed' PROVE Fresh'
<1> USE DEF CollectInv
<1>1. /\ pc = "persist" /\ pc' = "persist" /\ c \in left /\ left' = left \ {c} /\ logs' = logs
      /\ cursors' = Put(cursors, c, pending[c])
      /\ saved' = IF pending[c].ts = 0 THEN saved ELSE [saved EXCEPT ![c] = pending[c]]
      /\ UNCHANGED <<pending, inserted>>
  BY DEF Persist, daemon
<1>2. c \in DOMAIN pending /\ cursors \in Cursors /\ pending \in Cursors /\ saved \in [Container -> Cursor]
  BY <1>1 DEF Shape, LogsTypeOK
<1>3. pending[c] \in Cursor
  BY <1>2, TableIs
<1>4. /\ DOMAIN cursors' = DOMAIN cursors \cup {c} /\ cursors'[c] = pending[c]
      /\ \A d \in DOMAIN cursors : d # c => cursors'[d] = cursors[d]
  BY <1>1, <1>2, <1>3, PutIs
<1>5. saved'[c] = pending[c] /\ \A d \in Container : d # c => saved'[d] = saved[d]
  BY <1>1, <1>2 DEF Fresh
<1>6. Unclear' = Unclear
  BY <1>1, UnclearStays
<1>7. ASSUME NEW d \in Container PROVE Current(d)' = Current(d)
  <2>1. /\ Current(d) = IF d \in left THEN pending[d] ELSE saved[d]
        /\ Current(d)' = IF d \in left' THEN pending[d] ELSE saved'[d]
    BY <1>1 DEF Current
  <2> QED
    BY <1>1, <1>5, <2>1
<1>8. \A d \in Container : Covers(logs'[d], d, Current(d)', Range(inserted'))
  BY <1>1, <1>7 DEF Fresh
<1>9. \A d \in DOMAIN cursors' : cursors'[d] = saved'[d]
  <2>1. DOMAIN cursors \subseteq Container
    BY <1>2, TableIs
  <2> QED
    BY <1>4, <1>5, <2>1 DEF Fresh
<1>10. \A d \in DOMAIN pending : pending[d].ts = 0 => pending[d] = saved'[d]
  <2>1. DOMAIN pending \subseteq Container
    BY <1>2, TableIs
  <2> QED
    BY <1>5, <2>1 DEF Fresh
<1> QED
  BY <1>1, <1>6, <1>8, <1>9, <1>10 DEF Fresh

(* The rest of a cycle, and the daemon: cursors and rows stay.             *)
LEMMA OnceRest ==
    ASSUME CollectInv, Fresh, ~disturbed',
           \/ \E seen \in SUBSET Container : List(seen)
           \/ \E s \in Severity : Volume(s)
           \/ TimePasses \/ RecordVolume \/ Trim \/ UNCHANGED logVars
    PROVE  Fresh'
<1> USE DEF CollectInv
<1>1. logs' = logs /\ UNCHANGED <<cursors, saved, inserted>>
  BY DEF List, Volume, TimePasses, RecordVolume, Trim, logVars, daemon, memory, logTables, logHistory
<1>2. Unclear' = Unclear
  BY <1>1, UnclearStays
<1>3. DOMAIN pending \subseteq Container
  BY TableIs DEF LogsTypeOK
<1>4. /\ \A d \in Container : Current(d)' = Current(d)
      /\ pending' = pending \/ pending' = NoCursors
      /\ pc' = "tail" => \/ pending' = NoCursors /\ batch' = << >>
                         \/ pc = "tail" /\ UNCHANGED <<pending, batch>>
  <2>1. CASE \E seen \in SUBSET Container : List(seen)
    <3>1. /\ pc = "idle" /\ pc' = "tail" /\ batch' = << >> /\ pending' = NoCursors
      BY <2>1 DEF List
    <3>2. \A d \in Container : Current(d)' = saved[d] /\ Current(d) = saved[d]
      BY <1>1, <3>1 DEF Current
    <3> QED
      BY <3>1, <3>2
  <2>2. CASE \E s \in Severity : Volume(s)
    <3>1. pc = "volume" /\ pc' = "volume" /\ pending' = pending
      BY <2>2 DEF Volume
    <3>2. \A d \in Container : Current(d)' = Current(d)
      BY <1>1, <3>1 DEF Current
    <3> QED
      BY <3>1, <3>2
  <2>3. CASE RecordVolume
    <3>1. pc = "volume" /\ pc' = "persist" /\ left' = DOMAIN pending /\ pending' = pending
      BY <2>3 DEF RecordVolume
    <3>2. \A d \in Container : Current(d)' = Current(d)
      BY <1>1, <3>1 DEF Current
    <3> QED
      BY <3>1, <3>2
  <2>4. CASE Trim
    BY <2>4 DEF Trim, Current
  <2>5. CASE TimePasses \/ UNCHANGED logVars
    <3>1. UNCHANGED <<pc, left, batch, pending, saved>>
      BY <2>5 DEF TimePasses, logVars, memory, logTables
    <3> QED
      BY <3>1 DEF Current
  <2> QED
    BY <2>1, <2>2, <2>3, <2>4, <2>5
<1>5. \A d \in Container : Covers(logs'[d], d, Current(d)', Range(inserted'))
  BY <1>1, <1>4 DEF Fresh
<1>6. \A d \in DOMAIN pending' : pending'[d].ts = 0 => pending'[d] = saved[d]
  BY <1>4, NoCursorsIs DEF Fresh
<1>7. pc' = "tail" =>
          /\ \A d \in DOMAIN pending' :
                Covers(logs'[d], d, pending'[d], Range(inserted') \cup Range(batch'))
          /\ \A l \in Range(batch') : l \in Range(inserted') => l \in Unclear
  BY <1>1, <1>4, NoCursorsIs, EmptyBatch DEF Fresh
<1> QED
  BY <1>1, <1>2, <1>5, <1>6, <1>7 DEF Fresh

(* Every step keeps it, or loses a cursor.                                 *)
LEMMA OnceStep == CollectInv /\ OnceInv /\ [LogsNext]_logVars => OnceInv'
<1> SUFFICES ASSUME CollectInv, OnceInv, [LogsNext]_logVars, ~disturbed' PROVE Fresh'
  BY DEF OnceInv
<1>1. ~disturbed
  BY DEF LogsNext, Collect, Emit, TimePasses, List, TailOne, Persist, Volume, Flush, RecordVolume, Trim, Crash,
         logVars, logHistory
<1>2. Fresh
  BY <1>1 DEF OnceInv
<1>3. ASSUME NEW c \in Container, NEW s \in Stream, NEW stamp \in 1 .. dockerClock, Emit(c, s, stamp)
      PROVE  Fresh'
  BY <1>2, <1>3, OnceEmit
<1>4. ASSUME NEW c \in Container, TailOne(c) PROVE Fresh'
  BY <1>2, <1>4, OnceTail
<1>5. ASSUME NEW c \in Container, Persist(c) PROVE Fresh'
  BY <1>2, <1>5, OncePersist
<1>6. CASE Flush
  BY <1>2, <1>6, OnceFlush
<1>7. CASE \/ \E seen \in SUBSET Container : List(seen)
           \/ \E s \in Severity : Volume(s)
           \/ TimePasses \/ RecordVolume \/ Trim \/ UNCHANGED logVars
  BY <1>2, <1>7, OnceRest
<1>8. ~Crash
  BY DEF Crash
<1> QED
  BY <1>3, <1>4, <1>5, <1>6, <1>7, <1>8 DEF LogsNext, Collect

-----------------------------------------------------------------------------
(* The volume.  What a cycle still owes the volume is what its batch holds *)
(* of the severities left; counted and owed never exceed what is stored,   *)
(* and what is ingested is stored.                                         *)
Owed(s) ==
    IF pc = "volume" /\ s \in left /\ <<batch, s>> \notin ingested
    THEN PerLevel(batch, s) ELSE 0

Accounted == Counted + Owed("info") + Owed("warn")

VolumeInv ==
    /\ Accounted <= Stored
    /\ \A e \in ingested : Range(e[1]) \subseteq Range(inserted)

(* Every line has one of the two severities.                               *)
LEMMA TwoLevels ==
    ASSUME NEW S, NEW lines \in Seq(S)
    PROVE  PerLevel(lines, "info") + PerLevel(lines, "warn") = Len(lines)
<1> DEFINE A == {k \in DOMAIN lines : ParseLogLevel(lines[k]) = "info"}
           B == {k \in DOMAIN lines : ParseLogLevel(lines[k]) = "warn"}
<1>1. Len(lines) \in Nat /\ DOMAIN lines = 1 .. Len(lines)
  OBVIOUS
<1>2. A \in SUBSET (1 .. Len(lines)) /\ B \in SUBSET (1 .. Len(lines))
  BY <1>1
<1>3. A \cup B = 1 .. Len(lines) /\ A \cap B = {}
  BY <1>1 DEF ParseLogLevel
<1>4. PerLevel(lines, "info") = Cardinality(A) /\ PerLevel(lines, "warn") = Cardinality(B)
  BY DEF PerLevel
<1> HIDE DEF A, B
<1>5. /\ IsFiniteSet(A) /\ Cardinality(A) \in Nat
      /\ IsFiniteSet(B) /\ Cardinality(B) \in Nat
  BY <1>1, <1>2, PlacesFinite
<1>6. Cardinality(A \cup B) = Cardinality(A) + Cardinality(B) - Cardinality(A \cap B)
  BY <1>5, FS_Union
<1>7. Cardinality(1 .. Len(lines)) = Len(lines)
  <2>1. Cardinality(1 .. Len(lines)) = IF 1 > Len(lines) THEN 0 ELSE Len(lines) - 1 + 1
    BY <1>1, FS_Interval, 1 \in Int, Len(lines) \in Int
  <2> QED
    BY <1>1, <2>1
<1>8. Cardinality(A \cap B) = 0
  BY <1>3, FS_EmptySet
<1>9. Cardinality(A) + Cardinality(B) = Len(lines)
  <2>1. Cardinality(A \cup B) = Len(lines)
    BY <1>3, <1>7
  <2> QED
    BY <1>1, <1>5, <1>6, <1>8, <2>1
<1> QED
  BY <1>4, <1>9

(* The numbers of the volume.                                              *)
LEMMA VolumeNumbers ==
    ASSUME LogsTypeOK
    PROVE  /\ Counted \in Nat /\ Stored \in Nat
           /\ volume["info"] \in Nat /\ volume["warn"] \in Nat
           /\ \A s : Owed(s) \in Nat /\ PerLevel(batch, s) \in Nat
           /\ volume \in [Severity -> Nat] /\ health.dropped \in Nat
<1>1. volume["info"] \in Nat /\ volume["warn"] \in Nat /\ volume \in [Severity -> Nat]
  BY DEF LogsTypeOK, Severity
<1>2. Stored \in Nat /\ health.dropped \in Nat
  BY DEF LogsTypeOK, Stored
<1>3. \A s : PerLevel(batch, s) \in Nat
  BY PerLevelIs DEF LogsTypeOK
<1> QED
  BY <1>1, <1>2, <1>3 DEF Counted, Owed

(* At first nothing is counted.                                            *)
LEMMA VolumeInit == LogsInit => VolumeInv
<1> SUFFICES ASSUME LogsInit PROVE VolumeInv
  OBVIOUS
<1>1. /\ pc = "idle" /\ inserted = << >> /\ ingested = {} /\ volume = [s \in Severity |-> 0]
  BY DEF LogsInit
<1>2. Counted = 0 /\ Stored = 0 /\ \A s : Owed(s) = 0
  BY <1>1 DEF Counted, Stored, Owed, Severity
<1> QED
  BY <1>1, <1>2 DEF VolumeInv, Accounted

(* A line more changes no severity.                                        *)
LEMMA VolumeEmit ==
    ASSUME CollectInv, VolumeInv, NEW c \in Container, NEW s \in Stream, NEW stamp \in 1 .. dockerClock,
           Emit(c, s, stamp)
    PROVE  VolumeInv'
<1> USE DEF CollectInv
<1>1. UNCHANGED <<pc, left, batch, failed, volume, ingested, health, inserted, disturbed>>
  BY DEF Emit, memory, logTables, logHistory
<1>2. /\ Line' = Line \cup {<<c, Len(logs[c]) + 1>>}
      /\ \A l \in Line : Ts(l)' = Ts(l) /\ Of(l)' = Of(l)
  BY LinesMore
<1>4. \A k \in DOMAIN batch : ParseLogLevel(batch[k])' = ParseLogLevel(batch[k])
  <2>1. \A k \in DOMAIN batch : batch[k] \in Line
    BY DEF LogsTypeOK
  <2> QED
    BY <1>1, <1>2, <2>1 DEF ParseLogLevel
<1>5. ASSUME NEW t PROVE Owed(t)' = Owed(t)
  <2>1. PerLevel(batch, t)' = PerLevel(batch, t)
    <3>1. {k \in DOMAIN batch : ParseLogLevel(batch[k]) = t}' = {k \in DOMAIN batch : ParseLogLevel(batch[k]) = t}
      BY <1>1, <1>4
    <3> QED
      BY <3>1 DEF PerLevel
  <2> QED
    BY <1>1, <2>1 DEF Owed
<1>6. Accounted' = Accounted /\ Stored' = Stored
  BY <1>1, <1>5 DEF Accounted, Counted, Stored
<1> QED
  BY <1>1, <1>6 DEF VolumeInv

(* flush stores the batch and owes all of it.                              *)
LEMMA VolumeFlush == ASSUME CollectInv, VolumeInv, Flush PROVE VolumeInv'
<1> USE DEF CollectInv
<1>1. /\ pc = "tail" /\ failed' = FALSE /\ logs' = logs
      /\ UNCHANGED <<volume, ingested, health, disturbed>>
  BY DEF Flush, daemon
<1>2. /\ batch \in Seq(Line) /\ inserted \in Seq(Line) /\ \A l \in Line : Ts(l) \in Nat
  BY TypedLogs DEF LogsTypeOK
<1>4. /\ Counted \in Nat /\ Stored \in Nat /\ Counted' = Counted
      /\ Owed("info") = 0 /\ Owed("warn") = 0
  BY <1>1, VolumeNumbers DEF Owed, Counted
<1>5. Counted <= Stored
  BY <1>4 DEF VolumeInv, Accounted
<1>6. CASE /\ batch # << >>
           /\ \E sorted \in {Stable(batch)} : batch' = sorted /\ InsertBatch(sorted)
           /\ pc' = "volume" /\ left' = Buckets
  <2>1. batch' = Stable(batch) /\ inserted' = inserted \o batch'
    BY <1>6 DEF InsertBatch
  <2>2. /\ batch' \in Seq(Line) /\ Range(batch') = Range(batch) /\ Len(batch') = Len(batch)
        /\ Len(batch) \in Nat /\ Len(batch) # 0
    BY <1>2, <1>6, <2>1, StableIs, EmptySeq DEF SameLines
  <2>3. Range(inserted') = Range(inserted) \cup Range(batch)
    BY <1>2, <2>1, <2>2, AppendedRange
  <2>4. Stored' = Stored + Len(batch)
    <3>1. Len(inserted \o batch') = Len(inserted) + Len(batch')
      BY <1>2, <2>2, ConcatProperties
    <3> QED
      BY <2>1, <2>2, <3>1 DEF Stored
  <2>5. \A l : ParseLogLevel(l)' = ParseLogLevel(l)
    BY <1>1 DEF ParseLogLevel, Of
  <2> DEFINE P(t) == PerLevel(batch', t)
  <2>6. \A t : PerLevel(batch, t)' = P(t)
    BY <2>5 DEF PerLevel
  <2>7. P("info") + P("warn") = Len(batch) /\ P("info") \in Nat /\ P("warn") \in Nat
    BY <2>2, TwoLevels, PerLevelIs
  <2>8. \A t : Owed(t)' = IF t \in Buckets /\ <<batch', t>> \notin ingested THEN P(t) ELSE 0
    BY <1>1, <1>6, <2>6 DEF Owed
  <2> HIDE DEF P
  <2>10. Accounted' <= Stored'
    <3>1. Accounted' = Counted + Owed("info")' + Owed("warn")'
      BY <1>4 DEF Accounted
    <3>2. /\ Owed("info")' \in Nat /\ Owed("info")' <= P("info")
          /\ Owed("warn")' \in Nat /\ Owed("warn")' <= P("warn")
      <4>1. Owed("info")' \in {0, P("info")} /\ Owed("warn")' \in {0, P("warn")}
        BY <2>8
      <4>2. P("info") \in Nat /\ P("warn") \in Nat
        BY <2>7
      <4> QED
        BY <4>1, <4>2
    <3> QED
      BY <1>4, <1>5, <2>2, <2>4, <2>7, <3>1, <3>2
  <2>11. \A e \in ingested' : Range(e[1]) \subseteq Range(inserted')
    BY <1>1, <2>3 DEF VolumeInv
  <2> QED
    BY <2>10, <2>11 DEF VolumeInv
<1>7. CASE pc' \in {"persist", "idle"} /\ UNCHANGED inserted
  <2>1. Owed("info")' = 0 /\ Owed("warn")' = 0 /\ Stored' = Stored
    BY <1>7 DEF Owed, Stored
  <2>2. Accounted' = Counted
    BY <1>4, <2>1 DEF Accounted
  <2> QED
    BY <1>1, <1>5, <1>7, <2>1, <2>2 DEF VolumeInv
<1> QED
  BY <1>6, <1>7 DEF Flush

(* One bucket: what was owed is counted, or the cycle remembers a failure. *)
LEMMA VolumeBucket ==
    ASSUME CollectInv, VolumeInv, NEW s \in Severity, Volume(s) PROVE VolumeInv'
<1> USE DEF CollectInv
<1>1. /\ pc = "volume" /\ pc' = "volume" /\ s \in left /\ left' = left \ {s} /\ logs' = logs
      /\ UNCHANGED <<batch, health, inserted, disturbed>>
  BY DEF Volume, daemon, logHistory
<1>3. PICK t \in Severity : t # s /\ Severity = {s, t}
  BY DEF Severity
<1>4. \A u : PerLevel(batch, u)' = PerLevel(batch, u)
  BY <1>1 DEF PerLevel, ParseLogLevel, Of
<1>5. /\ volume \in [Severity -> Nat] /\ volume[s] \in Nat /\ volume[t] \in Nat
      /\ Owed(s) \in Nat /\ Owed(t) \in Nat /\ PerLevel(batch, s) \in Nat /\ Stored \in Nat
  BY VolumeNumbers DEF Severity
<1>6. volume' \in [Severity -> Nat]
  BY <1>5 DEF Volume, PerLevel
<1>7. Owed(s)' \in Nat /\ Owed(t)' \in Nat /\ volume'[s] \in Nat /\ volume'[t] \in Nat
  <2>1. PerLevel(batch, s)' \in Nat /\ PerLevel(batch, t)' \in Nat
    BY <1>4, VolumeNumbers
  <2> QED
    BY <1>3, <1>6, <2>1 DEF Owed
<1>8. /\ Accounted = volume[s] + volume[t] + Owed(s) + Owed(t)
      /\ Accounted' = volume'[s] + volume'[t] + Owed(s)' + Owed(t)'
  <2>1. Accounted = volume["info"] + volume["warn"] + Owed("info") + Owed("warn")
    BY DEF Accounted, Counted
  <2>2. Accounted' = volume'["info"] + volume'["warn"] + Owed("info")' + Owed("warn")'
    BY DEF Accounted, Counted
  <2>3. CASE s = "info" /\ t = "warn"
    BY <2>1, <2>2, <2>3
  <2>4. CASE s = "warn" /\ t = "info"
    BY <1>5, <1>7, <2>1, <2>2, <2>4
  <2> QED
    BY <1>3, <2>3, <2>4 DEF Severity
<1>9. CASE /\ UNCHANGED failed /\ ingested' = ingested \cup {<<batch, s>>}
           /\ volume' = IF <<batch, s>> \in ingested THEN volume
                        ELSE [volume EXCEPT ![s] = @ + PerLevel(batch, s)]
  <2>1. Owed(s)' = 0 /\ Owed(t)' = Owed(t)
    BY <1>1, <1>3, <1>4, <1>9 DEF Owed
  <2>2. Owed(s) = IF <<batch, s>> \in ingested THEN 0 ELSE PerLevel(batch, s)
    BY <1>1 DEF Owed
  <2>3. /\ volume'[t] = volume[t] /\ volume'[s] = volume[s] + Owed(s)
    BY <1>3, <1>5, <1>9, <2>2
  <2>4. Accounted' = Accounted /\ Stored' = Stored
    BY <1>1, <1>5, <1>8, <2>1, <2>3 DEF Stored
  <2>5. \A e \in ingested' : Range(e[1]) \subseteq Range(inserted')
    <3>1. Range(batch) \subseteq Range(inserted) /\ <<batch, s>>[1] = batch
      BY <1>1 DEF Shape
    <3> QED
      BY <1>1, <1>9, <3>1 DEF VolumeInv
  <2> QED
    BY <2>4, <2>5 DEF VolumeInv
<1>10. CASE failed' = TRUE /\ UNCHANGED <<volume, ingested>>
  <2>1. Owed(s)' = 0 /\ Owed(t)' = Owed(t)
    BY <1>1, <1>3, <1>4, <1>10 DEF Owed
  <2>2. Accounted' <= Accounted /\ Stored' = Stored /\ Accounted' \in Nat /\ Accounted \in Nat
    BY <1>1, <1>5, <1>8, <1>10, <2>1 DEF Stored
  <2>3. Accounted' <= Stored'
    BY <1>5, <2>2 DEF VolumeInv
  <2> QED
    BY <1>1, <1>10, <2>3 DEF VolumeInv
<1> QED
  BY <1>9, <1>10 DEF Volume, PerLevel

(* The rest leaves rows and volume alone; what a crash leaves uncounted    *)
(* only makes the volume fall behind.                                      *)
LEMMA VolumeRest ==
    ASSUME CollectInv, VolumeInv,
           \/ \E seen \in SUBSET Container : List(seen)
           \/ \E c \in Container : TailOne(c) \/ Persist(c)
           \/ RecordVolume \/ Trim \/ Crash
    PROVE  VolumeInv'
<1> USE DEF CollectInv
<1>1. /\ pc' # "volume" /\ UNCHANGED <<volume, ingested, inserted>>
  BY DEF List, TailOne, Persist, RecordVolume, Trim, Crash, logTables, logHistory
<1>2. /\ Stored' = Stored /\ Accounted' = Counted /\ Counted <= Accounted
      /\ Counted \in Nat /\ Accounted \in Nat /\ Stored \in Nat
  <2>1. Owed("info")' = 0 /\ Owed("warn")' = 0 /\ Counted' = Counted
    BY <1>1 DEF Owed, Counted
  <2> QED
    BY <1>1, <2>1, VolumeNumbers DEF Accounted, Stored
<1> QED
  BY <1>1, <1>2 DEF VolumeInv

(* A step that touches neither keeps it.                                   *)
LEMMA VolumeStay ==
    ASSUME VolumeInv, logs' = logs, UNCHANGED <<pc, left, batch, volume, ingested, inserted>>
    PROVE  VolumeInv'
<1>1. Accounted' = Accounted /\ Stored' = Stored
  BY DEF Accounted, Counted, Owed, Stored, PerLevel, ParseLogLevel, Of
<1> QED
  BY <1>1 DEF VolumeInv

(* Every step keeps the balance.                                           *)
LEMMA VolumeStep == CollectInv /\ VolumeInv /\ [LogsNext]_logVars => VolumeInv'
<1> SUFFICES ASSUME CollectInv, VolumeInv, [LogsNext]_logVars PROVE VolumeInv'
  OBVIOUS
<1>1. ASSUME NEW c \in Container, NEW s \in Stream, NEW stamp \in 1 .. dockerClock, Emit(c, s, stamp)
      PROVE  VolumeInv'
  BY <1>1, VolumeEmit
<1>2. ASSUME NEW s \in Severity, Volume(s) PROVE VolumeInv'
  BY <1>2, VolumeBucket
<1>3. CASE Flush
  BY <1>3, VolumeFlush
<1>4. CASE \/ \E seen \in SUBSET Container : List(seen)
           \/ \E c \in Container : TailOne(c) \/ Persist(c)
           \/ RecordVolume \/ Trim \/ Crash
  BY <1>4, VolumeRest
<1>5. CASE TimePasses \/ UNCHANGED logVars
  <2>1. logs' = logs /\ UNCHANGED <<pc, left, batch, volume, ingested, inserted>>
    BY <1>5 DEF TimePasses, logVars, daemon, memory, logTables, logHistory
  <2> QED
    BY <2>1, VolumeStay
<1> QED
  BY <1>1, <1>2, <1>3, <1>4, <1>5 DEF LogsNext, Collect

-----------------------------------------------------------------------------
(* What the volume counts of what the cursors promise.  A line is measured *)
(* when a bucket of its severity was ingested with it.  Unless a bucket    *)
(* failed, which the log_volume cursor owns up to, every cursor, persisted *)
(* or in memory, keeps its promise with measured for stored: the lines     *)
(* before it are measured, were passed over or were overtaken, those of    *)
(* this cycle's cursors also when their bucket is still to be written.     *)
OfLevel(lines, s) == {l \in lines : ParseLogLevel(l) = s}

Measured == {l \in Line : \E e \in ingested : l \in Range(e[1]) /\ ParseLogLevel(l) = e[2]}

Given == Measured \cup missed \cup overtaken

Owing ==
    IF pc = "tail" THEN Range(batch)
    ELSE IF pc = "volume" THEN {l \in Range(batch) : ParseLogLevel(l) \in left}
    ELSE {}

OwnsUp == health.dropped > 0 \/ unowned

MeasuredInv ==
    /\ \A s \in Severity : Cardinality(OfLevel(Measured, s)) <= volume[s]
    /\ \/ OwnsUp
       \/ /\ Promised(logs, dockerClock, saved, Given)
          /\ Promised(logs, dockerClock, cursors, Given)
    /\ \/ OwnsUp \/ (pc = "volume" /\ failed)
       \/ Promised(logs, dockerClock, pending, Given \cup Owing)

(* The lines of one severity in a batch are no more than its places of     *)
(* that severity.                                                          *)
LEMMA LevelLines ==
    ASSUME NEW S, NEW lines \in Seq(S), NEW s
    PROVE  /\ IsFiniteSet(OfLevel(Range(lines), s))
           /\ Cardinality(OfLevel(Range(lines), s)) <= PerLevel(lines, s)
<1> DEFINE K == {k \in DOMAIN lines : ParseLogLevel(lines[k]) = s}
           T == OfLevel(Range(lines), s)
           f == [k \in K |-> lines[k]]
<1>1. K \in SUBSET (1 .. Len(lines)) /\ Len(lines) \in Nat
  OBVIOUS
<1>2. \A l \in T : \E k \in K : lines[k] = l
  BY DEF OfLevel, Range
<1>3. \A k \in K : lines[k] \in T
  BY DEF OfLevel, Range
<1> HIDE DEF K, T
<1>4. f \in Surjection(K, T)
  BY <1>2, <1>3 DEF Surjection
<1>5. IsFiniteSet(K)
  BY <1>1, PlacesFinite
<1>6. IsFiniteSet(T) /\ Cardinality(T) <= Cardinality(K)
  BY <1>4, <1>5, FS_Surjection
<1> QED
  BY <1>6 DEF K, T, PerLevel

(* Measured lines are lines, and stay measured while nothing is ingested.  *)
LEMMA MeasuredStays ==
    ASSUME logs' = logs, ingested' = ingested
    PROVE  Measured' = Measured /\ \A s : OfLevel(Measured, s)' = OfLevel(Measured, s)
<1>1. Line' = Line /\ \A l : ParseLogLevel(l)' = ParseLogLevel(l)
  BY LogsStay DEF ParseLogLevel, Of
<1> QED
  BY <1>1 DEF Measured, OfLevel

(* At first no cursor promises anything.                                   *)
LEMMA MeasuredInit == LogsInit => MeasuredInv
<1> SUFFICES ASSUME LogsInit PROVE MeasuredInv
  OBVIOUS
<1>1. /\ cursors = NoCursors /\ pending = NoCursors /\ ingested = {}
      /\ saved = [c \in Container |-> NoCursor] /\ volume = [s \in Severity |-> 0]
  BY DEF LogsInit
<1>2. LogsTypeOK
  BY CollectInit DEF CollectInv
<1>3. \A s \in Severity : Cardinality(OfLevel(Measured, s)) <= volume[s]
  <2>1. \A s : OfLevel(Measured, s) = {}
    BY <1>1 DEF OfLevel, Measured
  <2> QED
    BY <1>1, <2>1, FS_EmptySet
<1>4. Promised(logs, dockerClock, saved, Given)
  BY <1>1, <1>2, NoCursorKeeps DEF Promised
<1> QED
  BY <1>1, <1>3, <1>4, NothingPromised DEF MeasuredInv

(* A new line is measured by no bucket, and overtaken when a cursor is     *)
(* past it.                                                                *)
LEMMA MeasuredEmit ==
    ASSUME CollectInv, VolumeInv, MeasuredInv, NEW c \in Container, NEW s \in Stream,
           NEW stamp \in 1 .. dockerClock, Emit(c, s, stamp)
    PROVE  MeasuredInv'
<1> USE DEF CollectInv
<1>1. /\ UNCHANGED <<dockerClock, pc, left, batch, pending, cursors, failed, saved, volume, ingested, health,
                     inserted, missed, unowned>>
      /\ overtaken \subseteq overtaken'
  BY DEF Emit, memory, logTables
<1>2. /\ Line' = Line \cup {<<c, Len(logs[c]) + 1>>} /\ <<c, Len(logs[c]) + 1>> \notin Line
      /\ \A l \in Line : ParseLogLevel(l)' = ParseLogLevel(l)
  BY LinesMore DEF ParseLogLevel
<1>3. Range(inserted) \subseteq Line /\ Range(batch) \subseteq Line
  BY DEF LogsTypeOK, Range
<1>4. \A e \in ingested : \A l \in Range(e[1]) : l \in Line
  BY <1>3 DEF VolumeInv
<1>5. Measured' = Measured
  BY <1>1, <1>2, <1>4 DEF Measured
<1>6. \A u : OfLevel(Measured, u)' = OfLevel(Measured, u)
  BY <1>2, <1>5 DEF OfLevel, Measured
<1>7. Owing' = Owing
  BY <1>1, <1>2, <1>3 DEF Owing
<1>8. saved \in Cursors /\ cursors \in Cursors /\ pending \in Cursors
  BY TableOf DEF LogsTypeOK
<1>9. /\ Given \subseteq Given' /\ overtaken' \subseteq Given'
      /\ Given \cup Owing \subseteq Given' \cup Owing
  BY <1>1, <1>5 DEF Given
<1>10. ASSUME Promised(logs, dockerClock, saved, Given) PROVE Promised(logs, dockerClock, saved, Given)'
  BY <1>1, <1>8, <1>9, <1>10, EmitPromises, EmitOvertakes
<1>11. ASSUME Promised(logs, dockerClock, cursors, Given) PROVE Promised(logs, dockerClock, cursors, Given)'
  BY <1>1, <1>8, <1>9, <1>11, EmitPromises, EmitOvertakes
<1>12. ASSUME Promised(logs, dockerClock, pending, Given \cup Owing)
       PROVE  Promised(logs, dockerClock, pending, Given \cup Owing)'
  BY <1>1, <1>7, <1>8, <1>9, <1>12, EmitPromises, EmitOvertakes
<1>13. \A u \in Severity : Cardinality(OfLevel(Measured, u))' <= volume'[u]
  BY <1>1, <1>6 DEF MeasuredInv
<1>14. OwnsUp' = OwnsUp
  BY <1>1 DEF OwnsUp
<1> QED
  BY <1>1, <1>10, <1>11, <1>12, <1>13, <1>14 DEF MeasuredInv

(* tailOne: what it brings is owed.                                        *)
LEMMA MeasuredTail ==
    ASSUME CollectInv, MeasuredInv, NEW c \in Container, TailOne(c) PROVE MeasuredInv'
<1> USE DEF CollectInv
<1>1. /\ pc = "tail" /\ pc' = "tail" /\ logs' = logs /\ dockerClock' = dockerClock
      /\ UNCHANGED <<cursors, saved, volume, ingested, health, overtaken, unowned>>
  BY DEF TailOne, daemon, logTables
<1>2. Measured' = Measured /\ \A s : OfLevel(Measured, s)' = OfLevel(Measured, s)
  BY <1>1, MeasuredStays
<1>3. OwnsUp' = OwnsUp /\ \A s \in Severity : Cardinality(OfLevel(Measured, s))' <= volume'[s]
  BY <1>1, <1>2 DEF OwnsUp, MeasuredInv
<1>4. CASE OwnsUp
  BY <1>3, <1>4 DEF MeasuredInv
<1>5. CASE ~OwnsUp
  <2>1. /\ Promised(logs, dockerClock, saved, Given) /\ Promised(logs, dockerClock, cursors, Given)
        /\ Promised(logs, dockerClock, pending, Given \cup Range(batch))
    BY <1>1, <1>5 DEF MeasuredInv, Owing
  <2>2. PICK kept \in Seq(Line), new \in Cursor :
              /\ batch' = batch \o kept /\ pending' = Put(pending, c, new)
              /\ new.ts <= dockerClock /\ missed \subseteq missed'
              /\ Keeps(logs[c], c, new, Given \cup Range(kept) \cup missed')
    BY <2>1, TailBrings
  <2>3. batch \in Seq(Line) /\ pending \in Cursors
    BY DEF LogsTypeOK
  <2>4. Range(batch') = Range(batch) \cup Range(kept)
    BY <2>2, <2>3, AppendedRange
  <2>5. /\ DOMAIN pending' = DOMAIN pending \cup {c} /\ pending'[c] = new
        /\ \A d \in DOMAIN pending : d # c => pending'[d] = pending[d]
    BY <2>2, <2>3, PutIs
  <2>6. /\ Given \subseteq Given' /\ Given' \cup Owing' = Given' \cup Range(batch')
        /\ Given \cup Range(batch) \subseteq Given' \cup Range(batch')
        /\ Given \cup Range(kept) \cup missed' \subseteq Given' \cup Range(batch')
    BY <1>1, <1>2, <2>2, <2>4 DEF Given, Owing
  <2>7. Keeps(logs[c], c, new, Given' \cup Range(batch'))
    BY <2>2, <2>6, KeepsGrows
  <2>8. Promised(logs, dockerClock, pending, Given' \cup Range(batch'))
    BY <2>1, <2>6, PromisedGrows
  <2>9. Promised(logs, dockerClock, pending', Given' \cup Range(batch'))
    BY <2>2, <2>5, <2>7, <2>8 DEF Promised
  <2>10. Promised(logs, dockerClock, saved, Given') /\ Promised(logs, dockerClock, cursors, Given')
    BY <2>1, <2>6, PromisedGrows
  <2> QED
    BY <1>1, <1>3, <2>6, <2>9, <2>10 DEF MeasuredInv
<1> QED
  BY <1>4, <1>5

(* flush: the whole batch is owed, in the buckets of its severities.       *)
LEMMA MeasuredFlush == ASSUME CollectInv, MeasuredInv, Flush PROVE MeasuredInv'
<1> USE DEF CollectInv
<1>1. /\ pc = "tail" /\ cursors' = Listed /\ logs' = logs /\ dockerClock' = dockerClock /\ failed' = FALSE
      /\ UNCHANGED <<saved, volume, ingested, health, missed, overtaken, unowned>>
  BY DEF Flush, daemon
<1>2. batch \in Seq(Line) /\ cursors \in Cursors /\ pending \in Cursors /\ \A l \in Line : Ts(l) \in Nat
  BY TypedLogs DEF LogsTypeOK
<1>3. /\ Measured' = Measured /\ (\A s : OfLevel(Measured, s)' = OfLevel(Measured, s))
      /\ \A l : ParseLogLevel(l)' = ParseLogLevel(l)
  BY <1>1, MeasuredStays DEF ParseLogLevel, Of
<1>4. /\ OwnsUp' = OwnsUp /\ Given' = Given
      /\ \A s \in Severity : Cardinality(OfLevel(Measured, s))' <= volume'[s]
  BY <1>1, <1>3 DEF OwnsUp, Given, MeasuredInv
<1>5. CASE OwnsUp
  BY <1>4, <1>5 DEF MeasuredInv
<1>6. CASE ~OwnsUp
  <2>1. /\ Promised(logs, dockerClock, saved, Given) /\ Promised(logs, dockerClock, Listed, Given)
        /\ Promised(logs, dockerClock, pending, Given \cup Range(batch))
    <3>1. DOMAIN Listed \subseteq DOMAIN cursors /\ \A d \in DOMAIN Listed : Listed[d] = cursors[d]
      BY <1>2, ListedIs
    <3> QED
      BY <1>1, <1>6, <3>1 DEF MeasuredInv, Owing, Promised
  <2>2. CASE /\ \E sorted \in {Stable(batch)} : batch' = sorted /\ InsertBatch(sorted)
             /\ pc' = "volume" /\ left' = Buckets /\ UNCHANGED pending
    <3>1. Range(batch') = Range(batch)
      BY <1>2, <2>2, StableIs DEF SameLines
    <3>2. Owing' = Range(batch)
      BY <1>3, <2>2, <3>1 DEF Owing, Buckets
    <3> QED
      BY <1>1, <1>4, <2>1, <2>2, <3>2 DEF MeasuredInv
  <2>3. CASE /\ batch = << >> /\ pc' = "persist" /\ UNCHANGED <<batch, pending>>
    <3>1. Owing' = Range(batch)
      BY <2>3, EmptyBatch DEF Owing
    <3> QED
      BY <1>1, <1>4, <2>1, <2>3, <3>1 DEF MeasuredInv
  <2>4. CASE pc' = "idle" /\ pending' = NoCursors
    BY <1>1, <1>4, <2>1, <2>4, NothingPromised DEF MeasuredInv
  <2> QED
    BY <2>2, <2>3, <2>4 DEF Flush
<1> QED
  BY <1>5, <1>6

(* One bucket: its lines are measured and counted, or the cycle remembers  *)
(* a failure.                                                              *)
LEMMA MeasuredBucket ==
    ASSUME CollectInv, MeasuredInv, NEW s \in Severity, Volume(s) PROVE MeasuredInv'
<1> USE DEF CollectInv
<1>1. /\ pc = "volume" /\ pc' = "volume" /\ s \in left /\ left' = left \ {s} /\ logs' = logs
      /\ dockerClock' = dockerClock
      /\ UNCHANGED <<batch, pending, cursors, saved, health, missed, overtaken, unowned>>
  BY DEF Volume, daemon, logHistory
<1>2. Line' = Line /\ OwnsUp' = OwnsUp /\ \A l : ParseLogLevel(l)' = ParseLogLevel(l)
  BY <1>1, LogsStay DEF ParseLogLevel, Of, OwnsUp
<1>3. /\ batch \in Seq(Line) /\ Range(batch) \subseteq Line /\ volume \in [Severity -> Nat]
      /\ IsFiniteSet(Line)
  BY DEF LogsTypeOK, Range, Small
<1>4. CASE /\ UNCHANGED failed /\ ingested' = ingested \cup {<<batch, s>>}
           /\ volume' = IF <<batch, s>> \in ingested THEN volume
                        ELSE [volume EXCEPT ![s] = @ + PerLevel(batch, s)]
  <2>1. Measured' = Measured \cup OfLevel(Range(batch), s)
    <3>1. \A e \in ingested' : e \in ingested \/ e = <<batch, s>>
      BY <1>4
    <3>2. <<batch, s>> \in ingested' /\ <<batch, s>>[1] = batch /\ <<batch, s>>[2] = s
      BY <1>4
    <3>3. \A l \in Measured : l \in Measured'
      BY <1>2, <1>4 DEF Measured
    <3>4. \A l \in OfLevel(Range(batch), s) : l \in Measured'
      BY <1>2, <1>3, <3>2 DEF Measured, OfLevel
    <3>5. ASSUME NEW l \in Measured' PROVE l \in Measured \cup OfLevel(Range(batch), s)
      <4>1. l \in Line /\ \E e \in ingested' : l \in Range(e[1]) /\ ParseLogLevel(l) = e[2]
        BY <1>2 DEF Measured
      <4>2. PICK e \in ingested' : l \in Range(e[1]) /\ ParseLogLevel(l) = e[2]
        BY <4>1
      <4>3. CASE e \in ingested
        BY <4>1, <4>2, <4>3 DEF Measured
      <4>4. CASE e = <<batch, s>>
        BY <3>2, <4>2, <4>4 DEF OfLevel
      <4> QED
        BY <3>1, <4>3, <4>4
    <3> QED
      BY <3>3, <3>4, <3>5
  <2>2. ASSUME NEW u \in Severity PROVE Cardinality(OfLevel(Measured, u))' <= volume'[u]
    <3> DEFINE old == OfLevel(Measured, u)
               add == OfLevel(Range(batch), s)
    <3>1. OfLevel(Measured, u)' = IF u = s THEN old \cup add ELSE old
      BY <1>2, <2>1 DEF OfLevel
    <3>2. Cardinality(old) <= volume[u] /\ volume[u] \in Nat
      BY <1>3 DEF MeasuredInv
    <3>3. CASE u # s
      BY <1>3, <1>4, <3>1, <3>2, <3>3
    <3>4. CASE u = s /\ <<batch, s>> \in ingested
      <4>1. add \subseteq old
        <5>1. <<batch, s>>[1] = batch /\ <<batch, s>>[2] = s
          OBVIOUS
        <5> QED
          BY <1>3, <3>4, <5>1 DEF OfLevel, Measured
      <4>2. OfLevel(Measured, u)' = old
        BY <3>1, <3>4, <4>1
      <4> QED
        BY <1>4, <3>2, <3>4, <4>2
    <3>5. CASE u = s /\ <<batch, s>> \notin ingested
      <4>1. IsFiniteSet(old)
        <5>1. old \subseteq Line
          BY DEF OfLevel, Measured
        <5> QED
          BY <1>3, <5>1, FS_Subset
      <4>2. IsFiniteSet(add) /\ Cardinality(add) <= PerLevel(batch, s) /\ PerLevel(batch, s) \in Nat
        BY <1>3, LevelLines, PerLevelIs
      <4> HIDE DEF old, add
      <4>3. /\ Cardinality(old \cup add) = Cardinality(old) + Cardinality(add) - Cardinality(old \cap add)
            /\ Cardinality(old) \in Nat /\ Cardinality(add) \in Nat /\ Cardinality(old \cap add) \in Nat
        <5>1. IsFiniteSet(old \cap add)
          BY <4>1, FS_Subset, old \cap add \subseteq old
        <5> QED
          BY <4>1, <4>2, <5>1, FS_Union, FS_CardinalityType
      <4>4. volume'[u] = volume[u] + PerLevel(batch, s)
        BY <1>3, <1>4, <3>5
      <4>5. Cardinality(OfLevel(Measured, u))' = Cardinality(old \cup add)
        BY <3>1, <3>5
      <4> QED
        BY <3>2, <4>2, <4>3, <4>4, <4>5
    <3> QED
      BY <3>3, <3>4, <3>5
  <2>3. Given \subseteq Given' /\ Given \cup Owing \subseteq Given' \cup Owing'
    <3>1. Given \subseteq Given'
      BY <1>1, <2>1 DEF Given
    <3>2. ASSUME NEW l \in Owing PROVE l \in Measured' \cup Owing'
      <4>1. l \in Range(batch) /\ ParseLogLevel(l) \in left
        BY <1>1, <3>2 DEF Owing
      <4>2. CASE ParseLogLevel(l) = s
        BY <2>1, <4>1, <4>2 DEF OfLevel
      <4>3. CASE ParseLogLevel(l) # s
        BY <1>1, <1>2, <4>1, <4>3 DEF Owing
      <4> QED
        BY <4>2, <4>3
    <3> QED
      BY <3>1, <3>2 DEF Given
  <2>4. /\ OwnsUp \/ (Promised(logs, dockerClock, saved, Given') /\ Promised(logs, dockerClock, cursors, Given'))
        /\ OwnsUp \/ failed \/ Promised(logs, dockerClock, pending, Given' \cup Owing')
    BY <1>1, <2>3, PromisedGrows DEF MeasuredInv
  <2> QED
    BY <1>1, <1>2, <1>4, <2>2, <2>4 DEF MeasuredInv
<1>5. CASE failed' = TRUE /\ UNCHANGED <<volume, ingested>>
  <2>1. Measured' = Measured /\ \A u : OfLevel(Measured, u)' = OfLevel(Measured, u)
    BY <1>1, <1>5, MeasuredStays
  <2>2. Given' = Given
    BY <1>1, <2>1 DEF Given
  <2> QED
    BY <1>1, <1>2, <1>5, <2>1, <2>2 DEF MeasuredInv
<1> QED
  BY <1>4, <1>5 DEF Volume, PerLevel

(* A failed bucket is reported, or the write that reports it fails.        *)
LEMMA MeasuredRecord == ASSUME CollectInv, MeasuredInv, RecordVolume PROVE MeasuredInv'
<1> USE DEF CollectInv
<1>1. /\ pc = "volume" /\ pc' = "persist" /\ left = {} /\ logs' = logs /\ dockerClock' = dockerClock
      /\ UNCHANGED <<batch, pending, cursors, saved, volume, ingested, missed, overtaken>>
  BY DEF RecordVolume, daemon
<1>2. Measured' = Measured /\ \A s : OfLevel(Measured, s)' = OfLevel(Measured, s)
  BY <1>1, MeasuredStays
<1>3. Given' = Given /\ Owing = {} /\ Owing' = {}
  BY <1>1, <1>2 DEF Given, Owing
<1>4. (OwnsUp => OwnsUp') /\ (failed => OwnsUp')
  <2>1. health \in [dropped : Nat, complete : BOOLEAN] /\ failed \in BOOLEAN
    BY DEF LogsTypeOK
  <2>2. CASE /\ UNCHANGED unowned
             /\ health' = IF failed
                          THEN [dropped |-> health.dropped + 1, complete |-> FALSE]
                          ELSE [health EXCEPT !.complete = TRUE]
    <3>1. health'.dropped = IF failed THEN health.dropped + 1 ELSE health.dropped
      BY <2>1, <2>2
    <3> QED
      BY <2>1, <2>2, <3>1 DEF OwnsUp
  <2>3. CASE unowned' = (unowned \/ failed) /\ UNCHANGED health
    BY <2>3 DEF OwnsUp
  <2> QED
    BY <2>2, <2>3 DEF RecordVolume
<1> QED
  BY <1>1, <1>2, <1>3, <1>4 DEF MeasuredInv

(* A cursor is persisted once its lines are measured.                      *)
LEMMA MeasuredPersist ==
    ASSUME CollectInv, MeasuredInv, NEW c \in Container, Persist(c) PROVE MeasuredInv'
<1> USE DEF CollectInv
<1>1. /\ pc = "persist" /\ pc' = "persist" /\ c \in left /\ logs' = logs /\ dockerClock' = dockerClock
      /\ cursors' = Put(cursors, c, pending[c])
      /\ saved' = saved \/ saved' = [saved EXCEPT ![c] = pending[c]]
      /\ UNCHANGED <<batch, pending, volume, ingested, health, missed, overtaken, unowned>>
  BY DEF Persist, daemon
<1>2. Measured' = Measured /\ \A s : OfLevel(Measured, s)' = OfLevel(Measured, s)
  BY <1>1, MeasuredStays
<1>3. /\ OwnsUp' = OwnsUp /\ Given' = Given /\ Owing = {} /\ Owing' = {}
      /\ \A s \in Severity : Cardinality(OfLevel(Measured, s))' <= volume'[s]
  BY <1>1, <1>2 DEF OwnsUp, Given, Owing, MeasuredInv
<1>4. /\ c \in DOMAIN pending /\ cursors \in Cursors /\ pending \in Cursors
      /\ saved \in [Container -> Cursor]
  BY <1>1 DEF Shape, LogsTypeOK
<1>5. pending[c] \in Cursor
  BY <1>4, TableIs
<1>6. /\ DOMAIN cursors' = DOMAIN cursors \cup {c} /\ cursors'[c] = pending[c]
      /\ \A d \in DOMAIN cursors : d # c => cursors'[d] = cursors[d]
  <2>1. /\ DOMAIN Put(cursors, c, pending[c]) = DOMAIN cursors \cup {c}
        /\ Put(cursors, c, pending[c])[c] = pending[c]
        /\ \A d \in DOMAIN cursors : d # c => Put(cursors, c, pending[c])[d] = cursors[d]
    BY <1>4, <1>5, PutIs
  <2> QED
    BY <1>1, <2>1
<1>7. \A d \in DOMAIN saved' : d \in DOMAIN saved /\ (saved'[d] = saved[d] \/ (d = c /\ saved'[d] = pending[c]))
  BY <1>1, <1>4
<1>8. CASE OwnsUp
  BY <1>3, <1>8 DEF MeasuredInv
<1>9. CASE ~OwnsUp
  <2>1. /\ Promised(logs, dockerClock, saved, Given) /\ Promised(logs, dockerClock, cursors, Given)
        /\ Promised(logs, dockerClock, pending, Given)
    BY <1>1, <1>3, <1>9 DEF MeasuredInv
  <2>2. Promised(logs, dockerClock, saved', Given) /\ Promised(logs, dockerClock, cursors', Given)
    BY <1>4, <1>6, <1>7, <2>1 DEF Promised
  <2> QED
    BY <1>1, <1>3, <2>1, <2>2 DEF MeasuredInv
<1> QED
  BY <1>8, <1>9

(* The rest moves no cursor; a cycle that ends forgets its own.            *)
LEMMA MeasuredRest ==
    ASSUME CollectInv, MeasuredInv,
           \/ \E seen \in SUBSET Container : List(seen)
           \/ TimePasses \/ Trim \/ Crash \/ UNCHANGED logVars
    PROVE  MeasuredInv'
<1> USE DEF CollectInv
<1>1. logs' = logs /\ UNCHANGED <<saved, volume, ingested, health, missed, overtaken, unowned>>
  BY DEF List, TimePasses, Trim, Crash, logVars, daemon, logTables, logHistory
<1>2. Measured' = Measured /\ \A s : OfLevel(Measured, s)' = OfLevel(Measured, s)
  BY <1>1, MeasuredStays
<1>3. /\ OwnsUp' = OwnsUp /\ Given' = Given
      /\ \A s \in Severity : Cardinality(OfLevel(Measured, s))' <= volume'[s]
  BY <1>1, <1>2 DEF OwnsUp, Given, MeasuredInv
<1>4. dockerClock' \in Int /\ dockerClock \in Int /\ dockerClock <= dockerClock'
  <2>1. dockerClock \in 1 .. MaxStamp /\ MaxStamp \in Int
    BY LogAssumption DEF LogsTypeOK
  <2>2. dockerClock' = dockerClock \/ dockerClock' = dockerClock + 1
    BY DEF List, TimePasses, Trim, Crash, logVars, daemon
  <2> QED
    BY <2>1, <2>2
<1>5. ASSUME NEW table \in Cursors, NEW S, Promised(logs, dockerClock, table, S)
      PROVE  Promised(logs, dockerClock', table, S)
  <2>1. \A d \in DOMAIN table : table[d].ts \in Int
    BY TableIs DEF Cursor
  <2> QED
    BY <1>4, <1>5, <2>1 DEF Promised
<1>6. saved \in Cursors /\ cursors \in Cursors /\ pending \in Cursors
  BY TableOf DEF LogsTypeOK
<1>7. cursors' = cursors \/ cursors' = NoCursors
  BY DEF List, TimePasses, Trim, Crash, logVars, memory
<1>8. pending' = NoCursors \/ UNCHANGED <<pc, left, batch, pending, failed>>
  BY DEF List, TimePasses, Trim, Crash, logVars, memory
<1>9. ASSUME UNCHANGED <<pc, left, batch>> PROVE Owing' = Owing
  BY <1>1, <1>9 DEF Owing, ParseLogLevel, Of
<1>10. OwnsUp \/ (Promised(logs, dockerClock', saved, Given) /\ Promised(logs, dockerClock', cursors', Given))
  BY <1>5, <1>6, <1>7, NothingPromised DEF MeasuredInv
<1>11. \/ OwnsUp \/ (pc' = "volume" /\ failed')
       \/ Promised(logs, dockerClock', pending', Given \cup Owing')
  BY <1>5, <1>6, <1>8, <1>9, NothingPromised DEF MeasuredInv
<1> QED
  BY <1>1, <1>3, <1>10, <1>11 DEF MeasuredInv

(* Every step keeps it.                                                    *)
LEMMA MeasuredStep == CollectInv /\ VolumeInv /\ MeasuredInv /\ [LogsNext]_logVars => MeasuredInv'
<1> SUFFICES ASSUME CollectInv, VolumeInv, MeasuredInv, [LogsNext]_logVars PROVE MeasuredInv'
  OBVIOUS
<1>1. ASSUME NEW c \in Container, NEW s \in Stream, NEW stamp \in 1 .. dockerClock, Emit(c, s, stamp)
      PROVE  MeasuredInv'
  BY <1>1, MeasuredEmit
<1>2. ASSUME NEW c \in Container, TailOne(c) \/ Persist(c) PROVE MeasuredInv'
  BY <1>2, MeasuredTail, MeasuredPersist
<1>3. ASSUME NEW s \in Severity, Volume(s) PROVE MeasuredInv'
  BY <1>3, MeasuredBucket
<1>4. CASE Flush \/ RecordVolume
  BY <1>4, MeasuredFlush, MeasuredRecord
<1>5. CASE \/ \E seen \in SUBSET Container : List(seen)
           \/ TimePasses \/ Trim \/ Crash \/ UNCHANGED logVars
  BY <1>5, MeasuredRest
<1> QED
  BY <1>1, <1>2, <1>3, <1>4, <1>5 DEF LogsNext, Collect

(* What a cursor promises of a line behind it.                             *)
LEMMA BehindKept ==
    ASSUME LogsTypeOK, NEW l \in Line, Behind(l), NEW S, Promised(logs, dockerClock, saved, S)
    PROVE  l \in S \/ Ambiguous(l)
<1>1. PICK c \in Container : \E n \in 1 .. Len(logs[c]) : l = <<c, n>>
  BY LineIs
<1>2. PICK n \in 1 .. Len(logs[c]) : l = <<c, n>>
  BY <1>1
<1> DEFINE log == logs[c]
           t == saved[c].ts
           upto == {m \in 1 .. n : log[m].ts = t}
<1>3. Ts(l) = log[n].ts /\ l[1] = c /\ l[2] = n
  BY <1>2 DEF Ts
<1>4. Keeps(log, c, saved[c], S)
  BY DEF Promised, LogsTypeOK
<1>5. Mixed(log, log[n].ts) => Ambiguous(l)
  BY <1>2, MixedIsAmbiguous
<1>6. log[n].ts < t \/ (log[n].ts = t /\ Cardinality(upto) <= saved[c].boundary)
  BY <1>3 DEF Behind
<1>7. CASE log[n].ts < t
  BY <1>2, <1>4, <1>5, <1>7 DEF Keeps
<1>8. CASE log[n].ts = t /\ Cardinality(upto) <= saved[c].boundary
  <2>1. Len(log) \in Nat
    BY TypedLogs DEF LogsTyped
  <2>2. upto = {m \in Stamped(log, t) : m <= n} /\ n \in Stamped(log, t)
    BY <1>8, <2>1 DEF Stamped
  <2>3. Rank(Stamped(log, t), n) <= saved[c].boundary
    BY <1>8, <2>2 DEF Rank
  <2> QED
    BY <1>2, <1>4, <1>5, <1>8, <2>2, <2>3 DEF Keeps
<1> QED
  BY <1>6, <1>7, <1>8

-----------------------------------------------------------------------------
(* All parts hold in every run.                                            *)
LEMMA OnceAlways == LogsSpec => []OnceInv
BY CollectAlways, OnceInit, OnceStep, PTL DEF LogsSpec

LEMMA VolumeAlways == LogsSpec => []VolumeInv
BY CollectAlways, VolumeInit, VolumeStep, PTL DEF LogsSpec

LEMMA MeasuredAlways == LogsSpec => []MeasuredInv
BY CollectAlways, VolumeAlways, MeasuredInit, MeasuredStep, PTL DEF LogsSpec

(* In every run of the collector its state is well typed: cursors are of   *)
(* containers of the service, batches and rows are lines the containers    *)
(* wrote, and no boundary counts more lines than there are.                *)
THEOREM LogsStayTyped == LogsSpec => []LogsTypeOK
<1>1. CollectInv => LogsTypeOK
  BY DEF CollectInv
<1> QED
  BY <1>1, CollectAlways, PTL

(* However polls, late lines, failed writes, crashes and restarts fall, a  *)
(* line behind its container's persisted cursor was stored, unless a poll  *)
(* passed over it, hidden by newer lines, or it was flushed with a stamp   *)
(* older than a cursor, or both streams carry its stamp; and it is stored  *)
(* once, unless the process restarted, a cursor could not be read or       *)
(* written, or both streams carry its stamp.                               *)
THEOREM LinesAreKeptOnce == LogsSpec => []LinesAreKept
<1>1. CollectInv /\ OnceInv => LinesAreKept
  <2> SUFFICES ASSUME CollectInv, OnceInv PROVE LinesAreKept
    OBVIOUS
  <2>1. ASSUME NEW l \in Line, Behind(l) PROVE Settled(l)
    <3>1. l \in Done \/ Ambiguous(l)
      BY <2>1, BehindKept DEF CollectInv, KeepsInv
    <3> QED
      BY <3>1 DEF Settled, Done
  <2>2. disturbed \/ \A i, j \in DOMAIN inserted :
            i # j /\ inserted[i] = inserted[j] => Ambiguous(inserted[i])
    BY DEF OnceInv, Fresh, OnceBut, Unclear
  <2> QED
    BY <2>1, <2>2 DEF LinesAreKept, NoLineLost, NoLineTwice
<1> QED
  BY <1>1, CollectAlways, OnceAlways, PTL

(* The volume never counts more lines than were stored; and wherever a     *)
(* crash falls between rows, buckets and cursors, it counts in each        *)
(* severity at least the lines behind the persisted cursors, but for those *)
(* that were passed over, flushed late or ambiguous, unless a bucket       *)
(* failed: then the log_volume cursor owns up to dropped records, or that  *)
(* write failed as well.                                                   *)
THEOREM VolumeOwnsUp == LogsSpec => []VolumeMatchesRows
<1>1. CollectInv /\ VolumeInv /\ MeasuredInv => VolumeMatchesRows
  <2> SUFFICES ASSUME CollectInv, VolumeInv, MeasuredInv PROVE VolumeMatchesRows
    OBVIOUS
  <2> USE DEF CollectInv
  <2>1. /\ Counted \in Nat /\ Stored \in Nat /\ Owed("info") \in Nat /\ Owed("warn") \in Nat
    BY VolumeNumbers
  <2>2. Counted <= Stored
    BY <2>1 DEF VolumeInv, Accounted
  <2>3. ASSUME ~OwnsUp, NEW s \in Severity PROVE Cardinality(Countable(s)) <= volume[s]
    <3>1. Countable(s) \subseteq OfLevel(Measured, s)
      <4> SUFFICES ASSUME NEW l \in Countable(s) PROVE l \in OfLevel(Measured, s)
        OBVIOUS
      <4>1. /\ l \in Line /\ Behind(l) /\ ParseLogLevel(l) = s
            /\ l \notin missed \cup overtaken /\ ~Ambiguous(l)
        BY DEF Countable
      <4>2. Promised(logs, dockerClock, saved, Given)
        BY <2>3 DEF MeasuredInv
      <4>3. l \in Given
        BY <4>1, <4>2, BehindKept
      <4> QED
        BY <4>1, <4>3 DEF Given, OfLevel
    <3>2. IsFiniteSet(OfLevel(Measured, s))
      <4>1. OfLevel(Measured, s) \subseteq Line
        BY DEF OfLevel, Measured
      <4> QED
        BY <4>1, FS_Subset DEF Small
    <3>3. Cardinality(Countable(s)) <= Cardinality(OfLevel(Measured, s))
          /\ Cardinality(Countable(s)) \in Nat /\ Cardinality(OfLevel(Measured, s)) \in Nat
      BY <3>1, <3>2, FS_Subset, FS_CardinalityType
    <3>4. Cardinality(OfLevel(Measured, s)) <= volume[s] /\ volume[s] \in Nat
      BY VolumeNumbers DEF MeasuredInv
    <3> QED
      BY <3>3, <3>4
  <2> QED
    BY <2>2, <2>3 DEF VolumeMatchesRows, OwnsUp
<1> QED
  BY <1>1, CollectAlways, VolumeAlways, MeasuredAlways, PTL

-----------------------------------------------------------------------------
(* Rows are in the order of the stamps: unless a cursor was lost, unread   *)
(* or unwritten, what a cycle keeps of a container is not older than its   *)
(* persisted cursor, and what was stored of it is not newer.               *)
InOrder(lines) ==
    \A j, k \in DOMAIN lines :
        j < k /\ lines[j][1] = lines[k][1] => Ts(lines[j]) <= Ts(lines[k])

NotOlder == \A l \in Range(batch) : saved[l[1]].ts <= Ts(l)

RowsInv ==
    /\ Range(rows) \subseteq Range(inserted)
    /\ disturbed \/ InOrder(rows)
    /\ pc = "tail" => disturbed \/ NotOlder

(* A batch in order after rows that are not newer.                         *)
LEMMA AppendedInOrder ==
    ASSUME NEW S, NEW x \in Seq(S), NEW y \in Seq(S), InOrder(x),
           \A l \in S : Ts(l) \in Nat,
           \A j, k \in DOMAIN y : j < k => Ts(y[j]) <= Ts(y[k]),
           \A l \in Range(x), m \in Range(y) : l[1] = m[1] => Ts(l) <= Ts(m)
    PROVE  InOrder(x \o y)
<1>1. /\ Len(x \o y) = Len(x) + Len(y) /\ Len(x) \in Nat /\ Len(y) \in Nat
      /\ \A k \in 1 .. Len(x) + Len(y) : (x \o y)[k] = IF k <= Len(x) THEN x[k] ELSE y[k - Len(x)]
      /\ x \o y \in Seq(S)
  BY ConcatProperties
<1>2. DOMAIN (x \o y) = 1 .. Len(x) + Len(y) /\ DOMAIN x = 1 .. Len(x) /\ DOMAIN y = 1 .. Len(y)
  BY <1>1
<1> SUFFICES ASSUME NEW j \in 1 .. Len(x) + Len(y), NEW k \in 1 .. Len(x) + Len(y), j < k,
                    (x \o y)[j][1] = (x \o y)[k][1]
             PROVE  Ts((x \o y)[j]) <= Ts((x \o y)[k])
  BY <1>2 DEF InOrder
<1>3. \A i \in 1 .. Len(x) + Len(y) :
        /\ i <= Len(x) => i \in 1 .. Len(x) /\ (x \o y)[i] = x[i]
        /\ ~(i <= Len(x)) => i - Len(x) \in 1 .. Len(y) /\ (x \o y)[i] = y[i - Len(x)]
  BY <1>1
<1>4. CASE k <= Len(x)
  <2>1. j <= Len(x)
    BY <1>1, <1>4
  <2> QED
    BY <1>2, <1>3, <1>4, <2>1 DEF InOrder
<1>5. CASE ~(j <= Len(x))
  <2>1. ~(k <= Len(x)) /\ j - Len(x) < k - Len(x)
    BY <1>1, <1>5
  <2>2. /\ j - Len(x) \in DOMAIN y /\ (x \o y)[j] = y[j - Len(x)]
        /\ k - Len(x) \in DOMAIN y /\ (x \o y)[k] = y[k - Len(x)]
    BY <1>2, <1>3, <1>5, <2>1
  <2>3. Ts(y[j - Len(x)]) <= Ts(y[k - Len(x)])
    BY <2>1, <2>2
  <2> QED
    BY <2>2, <2>3
<1>6. CASE j <= Len(x) /\ ~(k <= Len(x))
  <2>1. (x \o y)[j] \in Range(x) /\ (x \o y)[k] \in Range(y)
    BY <1>2, <1>3, <1>6 DEF Range
  <2> QED
    BY <2>1
<1> QED
  BY <1>4, <1>5, <1>6

(* The newest rows are in the order of all of them.                        *)
LEMMA NewestRowsAre ==
    ASSUME LogsTypeOK
    PROVE  /\ Range(NewestRows) \subseteq Range(rows)
           /\ InOrder(rows) => InOrder(NewestRows)
<1> DEFINE set == {1, Len(rows) - RowCap + 1}
           from == Max(set)
<1>1. /\ rows \in Seq(Line) /\ Len(rows) \in Nat /\ DOMAIN rows = 1 .. Len(rows)
      /\ RowCap \in Nat /\ RowCap # 0
  BY LogAssumption DEF LogsTypeOK
<1>2. from \in Int /\ 1 <= from
  <2>1. set \in SUBSET Int /\ set # {}
    BY <1>1
  <2>2. IsFiniteSet(set)
    <3>1. IsFiniteSet({1}) /\ set = {1} \cup {Len(rows) - RowCap + 1}
      BY FS_Singleton
    <3> QED
      BY <3>1, FS_AddElement
  <2> HIDE DEF set
  <2>3. Max(set) \in set /\ \A x \in set : x <= Max(set)
    BY <2>1, <2>2, MaxIs
  <2> QED
    BY <2>1, <2>3 DEF set
<1>3. NewestRows = SubSeq(rows, from, Len(rows))
  BY DEF NewestRows
<1> HIDE DEF from, set
<1>4. \A k \in from .. Len(rows) : rows[k] \in Line
  BY <1>1, <1>2
<1>5. /\ Len(NewestRows) = IF from <= Len(rows) THEN Len(rows) - from + 1 ELSE 0
      /\ \A k \in 1 .. Len(rows) - from + 1 : NewestRows[k] = rows[from + k - 1]
      /\ NewestRows \in Seq(Line)
  BY <1>1, <1>2, <1>3, <1>4, SubSeqProperties
<1>6. DOMAIN NewestRows = 1 .. Len(NewestRows) /\ Len(NewestRows) \in Nat
  BY <1>5
<1>7. ASSUME NEW k \in DOMAIN NewestRows
      PROVE  from + k - 1 \in DOMAIN rows /\ NewestRows[k] = rows[from + k - 1]
  <2>1. k \in 1 .. Len(rows) - from + 1
    BY <1>1, <1>2, <1>5, <1>6
  <2>2. NewestRows[k] = rows[from + k - 1]
    BY <1>5, <2>1
  <2>3. from + k - 1 \in 1 .. Len(rows)
    BY <1>1, <1>2, <2>1
  <2> QED
    BY <1>1, <2>2, <2>3
<1>8. Range(NewestRows) \subseteq Range(rows)
  BY <1>7 DEF Range
<1>9. ASSUME InOrder(rows) PROVE InOrder(NewestRows)
  <2> SUFFICES ASSUME NEW j \in DOMAIN NewestRows, NEW k \in DOMAIN NewestRows, j < k,
                      NewestRows[j][1] = NewestRows[k][1]
               PROVE  Ts(NewestRows[j]) <= Ts(NewestRows[k])
    BY DEF InOrder
  <2>1. from + j - 1 < from + k - 1
    BY <1>2, <1>6
  <2> QED
    BY <1>7, <1>9, <2>1 DEF InOrder
<1> QED
  BY <1>8, <1>9

(* What tailOne brings is not older than the cursor it begins at.          *)
LEMMA TailNotOlder ==
    ASSUME CollectInv, Fresh, NEW c \in Container, TailOne(c), ~disturbed'
    PROVE  \E kept \in Seq(Line) :
              /\ batch' = batch \o kept
              /\ \A l \in Range(kept) : l[1] = c /\ saved[c].ts <= Ts(l)
<1> USE DEF CollectInv
<1>1. /\ saved[c] \in Cursor /\ saved[c].ts <= dockerClock /\ Keeps(logs[c], c, saved[c], Done)
      /\ loadLogCursor(c) = saved[c]
  <2>1. saved[c] \in Cursor /\ saved[c].ts <= dockerClock /\ Keeps(logs[c], c, saved[c], Done)
    BY DEF LogsTypeOK, KeepsInv, Promised
  <2> QED
    BY <2>1 DEF loadLogCursor, Fresh
<1>2. CASE Poll(c, saved[c])
  <2> DEFINE cursor == saved[c]
             kept == Newer(Logs(c, cursor.ts), cursor)
             shown == {<<c, n>> : n \in Since(logs[c], cursor.ts) \cap LastLines(logs[c])}
  <2>1. kept \in Seq(Line) /\ PollKeeps(c, cursor, kept)
    BY <1>1, PollBrings
  <2>2. batch' = batch \o kept
    BY <1>2, PollIs
  <2> HIDE DEF kept
  <2>3. kept \in Seq(shown)
    BY <2>1 DEF PollKeeps
  <2>4. ASSUME NEW l \in Range(kept) PROVE l[1] = c /\ cursor.ts <= Ts(l)
    <3>1. l \in shown
      BY <2>3 DEF Range
    <3>2. PICK n \in Since(logs[c], cursor.ts) : l = <<c, n>>
      BY <3>1
    <3>3. logs[c][n].ts >= cursor.ts /\ logs[c][n].ts \in Nat /\ cursor.ts \in Nat
      <4>1. n \in 1 .. Len(logs[c]) /\ logs[c] \in Seq(Entry) /\ cursor \in CursorType
        BY <1>1, <3>2, TypedLogs, CursorIs DEF Since, LogsTyped
      <4> QED
        BY <3>2, <4>1, EntryAt DEF Since, CursorType
    <3> QED
      BY <3>2, <3>3 DEF Ts
  <2> QED
    BY <2>1, <2>2, <2>4
<1>3. CASE UNCHANGED batch
  <2>1. batch' = batch \o << >>
    BY <1>3 DEF LogsTypeOK
  <2> QED
    BY <2>1, EmptyBatch
<1> QED
  BY <1>1, <1>2, <1>3 DEF TailOne

(* At first there are no rows.                                             *)
LEMMA RowsInit == LogsInit => RowsInv
<1> SUFFICES ASSUME LogsInit PROVE RowsInv
  OBVIOUS
<1>1. rows = << >> /\ inserted = << >> /\ pc = "idle"
  BY DEF LogsInit
<1>2. DOMAIN rows = {} /\ Range(rows) = {}
  BY <1>1, EmptyBatch
<1> QED
  BY <1>1, <1>2 DEF RowsInv, InOrder

(* A line more changes no stamp.                                           *)
LEMMA RowsEmit ==
    ASSUME CollectInv, RowsInv, NEW c \in Container, NEW s \in Stream, NEW stamp \in 1 .. dockerClock,
           Emit(c, s, stamp)
    PROVE  RowsInv'
<1> USE DEF CollectInv
<1>1. UNCHANGED <<pc, batch, saved, rows, inserted, disturbed>>
  BY DEF Emit, memory, logTables, logHistory
<1>2. \A l \in Line : Ts(l)' = Ts(l)
  BY LinesMore
<1>3. (\A k \in DOMAIN rows : rows[k] \in Line) /\ \A l \in Range(batch) : l \in Line
  BY DEF LogsTypeOK, Range
<1>4. InOrder(rows) => InOrder(rows)'
  <2>1. \A k \in DOMAIN rows : Ts(rows[k])' = Ts(rows[k])
    BY <1>1, <1>2, <1>3
  <2> QED
    BY <1>1, <2>1 DEF InOrder
<1>5. NotOlder => NotOlder'
  BY <1>1, <1>2, <1>3 DEF NotOlder
<1> QED
  BY <1>1, <1>4, <1>5 DEF RowsInv

(* While the logs are as they were, so are the stamps.                     *)
LEMMA OrderStays ==
    ASSUME logs' = logs, NEW lines PROVE InOrder(lines)' <=> InOrder(lines')
BY DEF InOrder, Ts

(* flush: the batch is not older than the cursors, the rows not newer.     *)
LEMMA RowsFlush == ASSUME CollectInv, OnceInv, RowsInv, Flush PROVE RowsInv'
<1> USE DEF CollectInv
<1>1. pc = "tail" /\ pc' # "tail" /\ logs' = logs /\ disturbed' = disturbed
  BY DEF Flush, daemon
<1>2. /\ batch \in Seq(Line) /\ inserted \in Seq(Line) /\ rows \in Seq(Line)
      /\ \A l \in Line : Ts(l) \in Nat
  BY TypedLogs DEF LogsTypeOK
<1>3. \A l : Ts(l)' = Ts(l)
  BY <1>1 DEF Ts
<1>4. CASE batch # << >> /\ \E sorted \in {Stable(batch)} : batch' = sorted /\ InsertBatch(sorted)
  <2>1. batch' = Stable(batch) /\ inserted' = inserted \o batch' /\ rows' = rows \o batch'
    BY <1>4 DEF InsertBatch
  <2>2. /\ batch' \in Seq(Line) /\ Range(batch') = Range(batch)
        /\ \A j, k \in DOMAIN batch' : j < k => Ts(batch'[j]) <= Ts(batch'[k])
    BY <1>2, <2>1, StableIs DEF SameLines
  <2>3. /\ Range(inserted') = Range(inserted) \cup Range(batch')
        /\ Range(rows') = Range(rows) \cup Range(batch')
    BY <1>2, <2>1, <2>2, AppendedRange
  <2>4. ASSUME ~disturbed PROVE InOrder(rows')
    <3>1. InOrder(rows) /\ NotOlder /\ Fresh
      BY <1>1, <2>4 DEF RowsInv, OnceInv
    <3>2. ASSUME NEW l \in Range(rows), NEW m \in Range(batch'), l[1] = m[1]
          PROVE  Ts(l) <= Ts(m)
      <4>1. l \in Range(inserted) /\ l \in Line /\ m \in Range(batch) /\ m \in Line
        <5>1. Range(rows) \subseteq Line /\ Range(batch) \subseteq Line
          BY <1>2 DEF Range
        <5> QED
          BY <2>2, <3>2, <5>1 DEF RowsInv
      <4>2. PICK c \in Container : \E n \in 1 .. Len(logs[c]) : l = <<c, n>>
        BY <4>1, LineIs
      <4>3. PICK n \in 1 .. Len(logs[c]) : l = <<c, n>>
        BY <4>2
      <4>4. Covers(logs[c], c, saved[c], Range(inserted))
        BY <1>1, <3>1 DEF Fresh, Current
      <4>5. Ts(l) <= saved[c].ts
        BY <4>1, <4>3, <4>4 DEF Covers, Ts
      <4>6. saved[c].ts <= Ts(m)
        BY <3>1, <3>2, <4>1, <4>3 DEF NotOlder
      <4>7. Ts(l) \in Nat /\ Ts(m) \in Nat /\ saved[c].ts \in Nat
        <5>1. saved[c] \in CursorType
          BY CursorIs DEF LogsTypeOK
        <5> QED
          BY <1>2, <4>1, <5>1 DEF CursorType
      <4> QED
        BY <4>5, <4>6, <4>7
    <3> QED
      BY <1>2, <2>1, <2>2, <3>1, <3>2, AppendedInOrder
  <2>5. ~disturbed => InOrder(rows)'
    BY <1>1, <2>4, OrderStays
  <2>6. Range(rows') \subseteq Range(inserted')
    BY <2>3 DEF RowsInv
  <2> QED
    BY <1>1, <2>5, <2>6 DEF RowsInv
<1>5. CASE UNCHANGED <<rows, inserted>>
  <2>1. InOrder(rows) => InOrder(rows)'
    BY <1>1, <1>5, OrderStays
  <2> QED
    BY <1>1, <1>5, <2>1 DEF RowsInv
<1> QED
  BY <1>4, <1>5 DEF Flush

(* tailOne: the batch grows by lines that are not older.                   *)
LEMMA RowsTail ==
    ASSUME CollectInv, OnceInv, RowsInv, NEW c \in Container, TailOne(c) PROVE RowsInv'
<1> USE DEF CollectInv
<1>1. /\ pc = "tail" /\ logs' = logs /\ UNCHANGED <<rows, inserted, saved>> /\ (disturbed => disturbed')
  BY DEF TailOne, daemon, logTables
<1>2. InOrder(rows) => InOrder(rows)'
  BY <1>1, OrderStays
<1>3. ASSUME ~disturbed' PROVE NotOlder'
  <2>1. Fresh /\ NotOlder
    BY <1>1, <1>3 DEF OnceInv, RowsInv
  <2>2. PICK kept \in Seq(Line) :
              /\ batch' = batch \o kept
              /\ \A l \in Range(kept) : l[1] = c /\ saved[c].ts <= Ts(l)
    BY <1>3, <2>1, TailNotOlder
  <2>3. Range(batch') = Range(batch) \cup Range(kept)
    BY <2>2, AppendedRange DEF LogsTypeOK
  <2>4. \A l : Ts(l)' = Ts(l)
    BY <1>1 DEF Ts
  <2> QED
    BY <1>1, <2>1, <2>2, <2>3, <2>4 DEF NotOlder
<1> QED
  BY <1>1, <1>2, <1>3 DEF RowsInv

(* The rest drops rows or leaves them.                                     *)
LEMMA RowsRest ==
    ASSUME CollectInv, RowsInv,
           \/ \E seen \in SUBSET Container : List(seen)
           \/ \E c \in Container : Persist(c)
           \/ \E s \in Severity : Volume(s)
           \/ TimePasses \/ RecordVolume \/ Trim \/ Crash \/ UNCHANGED logVars
    PROVE  RowsInv'
<1> USE DEF CollectInv
<1>1. logs' = logs /\ inserted' = inserted /\ (disturbed => disturbed')
  <2>1. ASSUME NEW seen \in SUBSET Container, List(seen)
        PROVE  logs' = logs /\ inserted' = inserted /\ disturbed' = disturbed
    BY <2>1 DEF List, daemon, logHistory
  <2>2. ASSUME NEW c \in Container, Persist(c)
        PROVE  logs' = logs /\ inserted' = inserted /\ (disturbed => disturbed')
    BY <2>2 DEF Persist, daemon
  <2>3. ASSUME NEW s \in Severity, Volume(s)
        PROVE  logs' = logs /\ inserted' = inserted /\ disturbed' = disturbed
    BY <2>3 DEF Volume, daemon, logHistory
  <2>4. CASE TimePasses \/ RecordVolume \/ Trim \/ Crash \/ UNCHANGED logVars
    BY <2>4 DEF TimePasses, RecordVolume, Trim, Crash, logVars, daemon, logHistory
  <2> QED
    BY <2>1, <2>2, <2>3, <2>4
<1>2. rows' = rows \/ rows' = NewestRows
  BY DEF List, Persist, Volume, TimePasses, RecordVolume, Trim, Crash, logVars, logTables
<1>3. /\ Range(rows') \subseteq Range(inserted')
      /\ InOrder(rows) => InOrder(rows)'
  <2>1. Range(rows') \subseteq Range(rows) /\ (InOrder(rows) => InOrder(rows'))
    BY <1>2, NewestRowsAre
  <2> QED
    BY <1>1, <2>1, OrderStays DEF RowsInv
<1>4. pc' = "tail" => (batch' = << >> \/ (pc = "tail" /\ UNCHANGED <<batch, saved>>))
  BY DEF List, Persist, Volume, TimePasses, RecordVolume, Trim, Crash, logVars, memory, logTables
<1>5. ASSUME pc' = "tail", pc = "tail" => disturbed \/ NotOlder, ~disturbed PROVE NotOlder'
  <2>1. CASE batch' = << >>
    BY <2>1, EmptyBatch DEF NotOlder
  <2>2. CASE pc = "tail" /\ UNCHANGED <<batch, saved>>
    <3>1. \A l : Ts(l)' = Ts(l)
      BY <1>1 DEF Ts
    <3> QED
      BY <1>5, <2>2, <3>1 DEF NotOlder
  <2> QED
    BY <1>4, <1>5, <2>1, <2>2
<1> QED
  BY <1>1, <1>3, <1>5 DEF RowsInv

(* Every step keeps the order of the rows, or loses a cursor.              *)
LEMMA RowsStep == CollectInv /\ OnceInv /\ RowsInv /\ [LogsNext]_logVars => RowsInv'
<1> SUFFICES ASSUME CollectInv, OnceInv, RowsInv, [LogsNext]_logVars PROVE RowsInv'
  OBVIOUS
<1>1. ASSUME NEW c \in Container, NEW s \in Stream, NEW stamp \in 1 .. dockerClock, Emit(c, s, stamp)
      PROVE  RowsInv'
  BY <1>1, RowsEmit
<1>2. ASSUME NEW c \in Container, TailOne(c) PROVE RowsInv'
  BY <1>2, RowsTail
<1>3. CASE Flush
  BY <1>3, RowsFlush
<1>4. CASE \/ \E seen \in SUBSET Container : List(seen)
           \/ \E c \in Container : Persist(c)
           \/ \E s \in Severity : Volume(s)
           \/ TimePasses \/ RecordVolume \/ Trim \/ Crash \/ UNCHANGED logVars
  BY <1>4, RowsRest
<1> QED
  BY <1>1, <1>2, <1>3, <1>4 DEF LogsNext, Collect

(* The order holds in every run.                                           *)
LEMMA RowsAlways == LogsSpec => []RowsInv
BY CollectAlways, OnceAlways, RowsInit, RowsStep, PTL DEF LogsSpec

-----------------------------------------------------------------------------
(* The scan of a search by level, page by page.                            *)
FirstPage == [before |-> Len(rows) + 1, found |-> << >>, over |-> FALSE]

IsScan(f, n, levels, limit) ==
    f = [k \in 0 .. n |-> IF k = 0 THEN FirstPage ELSE NextPage(f[k - 1], levels, limit)]

(* A set that holds zero and the successors of its numbers holds them all. *)
LEMMA CountingUp ==
    ASSUME NEW T, 0 \in T, \A n \in Nat : n \in T => n + 1 \in T
    PROVE  Nat \subseteq T
<1> DEFINE B == {n \in Nat : n \notin T}
<1>1. ASSUME B # {} PROVE FALSE
  <2>1. PICK n \in B : \A m \in B : ~(<<m, n>> \in OpToRel(<, Nat))
    BY <1>1, NatLessThanWellFounded, WFMin
  <2>2. n - 1 \in Nat /\ n - 1 \notin T
    <3>1. n \in Nat /\ n # 0 /\ n \notin T
      BY <2>1
    <3>2. n - 1 \in Nat /\ (n - 1) + 1 = n
      BY <3>1
    <3> QED
      BY <3>1, <3>2
  <2>3. <<n - 1, n>> \in OpToRel(<, Nat)
    BY <2>2 DEF OpToRel
  <2> QED
    BY <2>1, <2>2, <2>3
<1> QED
  BY <1>1

(* The pages of a scan follow from each other.                             *)
LEMMA ScanIs ==
    ASSUME NEW levels, NEW limit
    PROVE  \E f : /\ f[0] = FirstPage
                  /\ \A k \in 1 .. ScanPages : f[k] = NextPage(f[k - 1], levels, limit)
                  /\ searchLevels(levels, limit) = f[ScanPages].found
<1> DEFINE T == {n \in Nat : \E f : IsScan(f, n, levels, limit)}
<1>1. 0 \in T
  <2>1. IsScan([k \in 0 .. 0 |-> FirstPage], 0, levels, limit)
    <3>1. \A k \in 0 .. 0 : k = 0
      OBVIOUS
    <3> QED
      BY <3>1 DEF IsScan
  <2> QED
    BY <2>1
<1>2. ASSUME NEW n \in Nat, n \in T PROVE n + 1 \in T
  <2>1. PICK f : IsScan(f, n, levels, limit)
    BY <1>2
  <2> DEFINE g == [k \in 0 .. n + 1 |-> IF k = n + 1 THEN NextPage(f[n], levels, limit) ELSE f[k]]
             h == [k \in 0 .. n + 1 |-> IF k = 0 THEN FirstPage ELSE NextPage(g[k - 1], levels, limit)]
  <2>2. ASSUME NEW k \in 0 .. n + 1 PROVE g[k] = h[k]
    <3>1. CASE k = 0
      <4>1. 0 \in 0 .. n /\ k # n + 1
        BY <3>1
      <4>2. f[0] = FirstPage
        BY <2>1, <4>1 DEF IsScan
      <4> QED
        BY <3>1, <4>1, <4>2
    <3>2. CASE k # 0 /\ k # n + 1
      <4>1. k \in 0 .. n /\ k - 1 \in 0 .. n + 1 /\ k - 1 # n + 1
        BY <3>2
      <4>2. f[k] = NextPage(f[k - 1], levels, limit)
        BY <2>1, <3>2, <4>1 DEF IsScan
      <4>3. g[k] = f[k] /\ g[k - 1] = f[k - 1]
        BY <3>2, <4>1
      <4> QED
        BY <3>2, <4>2, <4>3
    <3>3. CASE k = n + 1
      <4>1. k # 0 /\ k - 1 = n /\ n \in 0 .. n + 1 /\ n # n + 1
        BY <3>3
      <4>2. g[n] = f[n]
        BY <4>1
      <4> QED
        BY <3>3, <4>1, <4>2
    <3> QED
      BY <3>1, <3>2, <3>3
  <2>3. g = h
    BY <2>2
  <2>4. IsScan(g, n + 1, levels, limit)
    <3> HIDE DEF g
    <3> QED
      BY <2>3 DEF IsScan
  <2> QED
    BY <2>4
<1>3. PICK f : IsScan(f, ScanPages, levels, limit)
  <2>1. ScanPages \in Nat
    BY LogAssumption
  <2>2. Nat \subseteq T
    <3> HIDE DEF T
    <3> QED
      BY <1>1, <1>2, CountingUp
  <2> QED
    BY <2>1, <2>2
<1> DEFINE scan == CHOOSE f1 : IsScan(f1, ScanPages, levels, limit)
<1>4. IsScan(scan, ScanPages, levels, limit)
  BY <1>3
<1>5. searchLevels(levels, limit) = scan[ScanPages].found
  BY DEF searchLevels, IsScan, FirstPage
<1> HIDE DEF scan
<1>6. ScanPages \in Nat
  BY LogAssumption
<1>7. scan[0] = FirstPage
  BY <1>4, <1>6 DEF IsScan
<1>8. ASSUME NEW k \in 1 .. ScanPages PROVE scan[k] = NextPage(scan[k - 1], levels, limit)
  <2>1. k \in 0 .. ScanPages /\ k # 0
    BY <1>6
  <2> QED
    BY <1>4, <2>1 DEF IsScan
<1> QED
  BY <1>5, <1>7, <1>8

(* Smaller members have smaller ranks, and only they.                      *)
LEMMA RankOrders ==
    ASSUME NEW set \in SUBSET Int, IsFiniteSet(set), NEW x \in set, NEW y \in set
    PROVE  (Rank(set, x) < Rank(set, y) <=> x < y) /\ (Rank(set, x) = Rank(set, y) <=> x = y)
<1> DEFINE s == Ascending(set)
           n == Cardinality(set)
<1>1. /\ s \in [1 .. n -> set] /\ n \in Nat
      /\ \A j, k \in 1 .. n : j < k => s[j] < s[k]
      /\ \A z \in set : \E k \in 1 .. n : s[k] = z
  BY AscendingIs
<1>2. \A k \in 1 .. n : Rank(set, s[k]) = k
  BY RankOfKth
<1> HIDE DEF s, n
<1>3. PICK j \in 1 .. n : s[j] = x
  BY <1>1
<1>4. PICK k \in 1 .. n : s[k] = y
  BY <1>1
<1>5. Rank(set, x) = j /\ Rank(set, y) = k
  BY <1>2, <1>3, <1>4
<1>6. j \in Int /\ k \in Int /\ x \in Int /\ y \in Int
  BY <1>1
<1>7. (j < k => x < y) /\ (k < j => y < x)
  BY <1>1, <1>3, <1>4
<1> QED
  BY <1>3, <1>4, <1>5, <1>6, <1>7

(* The places past one, counted from it.                                   *)
Past(M, w, q) == {k \in 1 .. q : w + k \in M}

(* The rank past a place is the rank up to it and the rank among the rest. *)
LEMMA RankSplits ==
    ASSUME NEW n \in Nat, NEW M \in SUBSET (1 .. n), NEW w \in Nat, NEW q \in Nat, NEW x \in 0 .. q
    PROVE  Rank(M, w + x) = Rank(M, w) + Rank(Past(M, w, q), x)
<1> DEFINE K == {k \in 1 .. q : w + k \in M}
           A == {y \in M : y <= w}
           B == {y \in M : y <= w + x}
           C == {y \in K : y <= x}
           D == {y \in M : w < y /\ y <= w + x}
           f == [k \in C |-> w + k]
<1>1. M \in SUBSET Int /\ x \in Nat
  OBVIOUS
<1>2. B = A \cup D /\ A \cap D = {}
  <2>1. ASSUME NEW y \in M
        PROVE  /\ y <= w + x <=> (y <= w \/ (w < y /\ y <= w + x))
               /\ ~(y <= w /\ w < y)
    <3>1. y \in Int /\ w \in Int /\ x \in Int /\ 0 <= x
      BY <1>1
    <3> QED
      BY <3>1
  <2> QED
    BY <2>1
<1>3. f \in [C -> D]
  <2> SUFFICES ASSUME NEW k \in C PROVE w + k \in D
    OBVIOUS
  <2>1. k \in 1 .. q /\ w + k \in M /\ k <= x
    OBVIOUS
  <2> QED
    BY <1>1, <2>1
<1>4. \A j, k \in C : f[j] = f[k] => j = k
  <2>1. \A k \in C : f[k] = w + k /\ k \in Int
    OBVIOUS
  <2> QED
    BY <2>1
<1>5. \A y \in D : \E k \in C : f[k] = y
  <2> SUFFICES ASSUME NEW y \in D PROVE \E k \in C : f[k] = y
    OBVIOUS
  <2>1. y \in M /\ y \in Int /\ w < y /\ y <= w + x
    BY <1>1
  <2>2. y - w \in 1 .. q /\ w + (y - w) = y /\ y - w <= x
    BY <1>1, <2>1
  <2>3. y - w \in C
    BY <2>1, <2>2
  <2> QED
    BY <2>2, <2>3
<1>6. C \in SUBSET (1 .. q) /\ A \in SUBSET (1 .. n) /\ D \in SUBSET (1 .. n)
  OBVIOUS
<1>7. Rank(M, w + x) = Cardinality(B) /\ Rank(M, w) = Cardinality(A) /\ Rank(K, x) = Cardinality(C)
  BY DEF Rank
<1> HIDE DEF A, B, C, D, f, K
<1>8. IsFiniteSet(C) /\ IsFiniteSet(A) /\ IsFiniteSet(D)
  BY <1>6, PlacesFinite
<1>9. Cardinality(D) = Cardinality(C)
  BY <1>3, <1>4, <1>5, <1>8, SameCount
<1>10. Cardinality(A \cup D) = Cardinality(A) + Cardinality(D) - Cardinality(A \cap D)
  BY <1>8, FS_Union
<1>11. Cardinality(A \cap D) = 0 /\ Cardinality(A) \in Nat /\ Cardinality(D) \in Nat
  BY <1>2, <1>8, FS_EmptySet, FS_CardinalityType
<1>12. Cardinality(B) = Cardinality(A) + Cardinality(C)
  BY <1>2, <1>9, <1>10, <1>11
<1> QED
  BY <1>7, <1>12 DEF K, Past

(* The smaller of two.                                                     *)
LEMMA MinIs ==
    ASSUME NEW a \in Int, NEW b \in Int
    PROVE  Min({a, b}) = IF a <= b THEN a ELSE b
<1>1. \E x \in {a, b} : \A y \in {a, b} : x <= y
  OBVIOUS
<1>2. Min({a, b}) \in {a, b} /\ \A y \in {a, b} : Min({a, b}) <= y
  BY <1>1 DEF Min
<1> QED
  BY <1>2

-----------------------------------------------------------------------------
(* What a search lists.  The p-th newest of n rows has the id n + 1 - p;   *)
(* Matching are the places, from the newest, of the rows of some levels,   *)
(* and a list holds the newest of some places, newest first.               *)
Matching(levels) ==
    {p \in 1 .. Len(rows) : ParseLogLevel(rows[Len(rows) + 1 - p]) \in levels}

Lists(found, M, n) ==
    /\ found \in Seq(Int)
    /\ \A j \in 1 .. Len(found) :
          n + 1 - found[j] \in M /\ Rank(M, n + 1 - found[j]) = j

(* Ids that continue a list of r.                                          *)
Continues(listed, M, n, r) ==
    /\ listed \in Seq(Int)
    /\ \A j \in 1 .. Len(listed) :
          n + 1 - listed[j] \in M /\ Rank(M, n + 1 - listed[j]) = r + j

(* q ids past the newest w of n rows.                                      *)
Ids(n, w, q) == [k \in 1 .. q |-> n + 1 - w - k]

(* A page: q ids below one.                                                *)
LEMMA PageIs ==
    ASSUME NEW n \in Nat, NEW w \in 0 .. n, NEW m \in Nat
    PROVE  \E q \in 0 .. n - w :
              /\ q = IF m <= n - w THEN m ELSE n - w
              /\ Page(n + 1 - w, m) = Ids(n, w, q)
              /\ Page(n + 1 - w, m) \in Seq(Int) /\ Len(Page(n + 1 - w, m)) = q
<1> DEFINE q == IF m <= n - w THEN m ELSE n - w
<1>1. Min({m, (n + 1 - w) - 1}) = q /\ q \in 0 .. n - w
  <2>1. (n + 1 - w) - 1 = n - w /\ n - w \in Int
    OBVIOUS
  <2> QED
    BY <2>1, MinIs
<1>2. Page(n + 1 - w, m) = [k \in 1 .. q |-> n + 1 - w - k]
  BY <1>1 DEF Page
<1> HIDE DEF q
<1>3. [k \in 1 .. q |-> n + 1 - w - k] \in Seq(Int) /\ Len([k \in 1 .. q |-> n + 1 - w - k]) = q
  BY <1>1
<1> QED
  BY <1>1, <1>2, <1>3 DEF q, Ids

(* The matching ids of a page continue the ranks.                          *)
PageContinues(n, w, q, levels) ==
    LET M   == Matching(levels)
        listed == OfLevels(Ids(n, w, q), levels)
    IN /\ Rank(M, w) \in Nat /\ Rank(M, w + q) = Rank(M, w) + Len(listed)
       /\ Continues(listed, M, n, Rank(M, w))

LEMMA OfPage ==
    ASSUME NEW n \in Nat, n = Len(rows), NEW w \in 0 .. n, NEW q \in 0 .. n - w, NEW levels
    PROVE  PageContinues(n, w, q, levels)
<1> DEFINE M == Matching(levels)
           page == Ids(n, w, q)
           K == Past(M, w, q)
           listed == OfLevels(page, levels)
           m == Cardinality(K)
           f == Ascending(K)
<1>1. /\ q \in Nat /\ w \in Nat /\ w + q <= n /\ DOMAIN page = 1 .. q
      /\ M \in SUBSET (1 .. n) /\ K \in SUBSET (1 .. q)
      /\ \A k \in 1 .. q : page[k] = n + 1 - w - k /\ (k \in K <=> w + k \in M)
  BY DEF Matching, Ids, Past
<1> HIDE DEF K, page
<1>2. {k \in DOMAIN page : ParseLogLevel(rows[page[k]]) \in levels} = K
  <2>1. ASSUME NEW k \in 1 .. q PROVE ParseLogLevel(rows[page[k]]) \in levels <=> w + k \in M
    <3>1. page[k] = n + 1 - (w + k) /\ w + k \in 1 .. n
      BY <1>1
    <3> QED
      BY <3>1 DEF Matching
  <2>2. \A k \in K : k \in 1 .. q
    BY <1>1
  <2> QED
    BY <1>1, <2>1, <2>2
<1>3. listed = [k \in DOMAIN f |-> page[f[k]]]
  <2>1. listed = At(page, K)
    BY <1>2 DEF OfLevels
  <2> QED
    BY <2>1 DEF At
<1>4. IsFiniteSet(K) /\ K \in SUBSET Int
  BY <1>1, PlacesFinite
<1>5. f \in [1 .. m -> K] /\ m \in Nat
  BY <1>4, AscendingIs
<1>6. \A k \in 1 .. m : Rank(K, f[k]) = k
  BY <1>4, RankOfKth
<1>7. Rank(K, q) = m
  <2>1. \A y \in K : y <= q
    BY <1>1
  <2>2. {y \in K : y <= q} = K
    BY <2>1
  <2> QED
    BY <2>2 DEF Rank
<1>8. \A x \in 0 .. q : Rank(M, w + x) = Rank(M, w) + Rank(K, x)
  <2> HIDE DEF M
  <2> QED
    BY <1>1, RankSplits DEF K
<1>9. Rank(M, w) \in Nat
  <2>1. {y \in M : y <= w} \in SUBSET (1 .. n)
    BY <1>1
  <2> HIDE DEF M
  <2> QED
    BY <2>1, PlacesFinite DEF Rank
<1> HIDE DEF f, m, listed, M
<1>10. ASSUME NEW k \in 1 .. m
       PROVE  /\ f[k] \in 1 .. q /\ w + f[k] \in M /\ page[f[k]] = n + 1 - w - f[k]
              /\ page[f[k]] \in Int /\ n + 1 - page[f[k]] = w + f[k]
              /\ Rank(M, w + f[k]) = Rank(M, w) + k
  <2>1. f[k] \in K
    BY <1>5
  <2>2. f[k] \in 1 .. q /\ w + f[k] \in M
    BY <1>1, <2>1
  <2>3. page[f[k]] = n + 1 - w - f[k]
    BY <1>1, <2>2
  <2>4. page[f[k]] \in Int /\ n + 1 - page[f[k]] = w + f[k]
    <3>1. n \in Int /\ w \in Int /\ f[k] \in Int
      BY <1>1, <2>2
    <3> QED
      BY <2>3, <3>1
  <2>5. Rank(M, w + f[k]) = Rank(M, w) + k
    <3>1. f[k] \in 0 .. q
      BY <2>2
    <3> QED
      BY <1>6, <1>8, <3>1
  <2> QED
    BY <2>2, <2>3, <2>4, <2>5
<1>11. listed = [k \in 1 .. m |-> page[f[k]]]
  BY <1>3, <1>5
<1>12. listed \in Seq(Int) /\ Len(listed) = m
  BY <1>5, <1>10, <1>11
<1>13. Rank(M, w + q) = Rank(M, w) + Len(listed)
  <2>1. q \in 0 .. q
    BY <1>1
  <2> QED
    BY <1>7, <1>8, <1>12, <2>1
<1>14. \A j \in 1 .. Len(listed) : n + 1 - listed[j] \in M /\ Rank(M, n + 1 - listed[j]) = Rank(M, w) + j
  BY <1>10, <1>11, <1>12
<1> QED
  BY <1>9, <1>12, <1>13, <1>14 DEF listed, page, M, Continues, PageContinues

(* The first of a list are a list.                                         *)
LEMMA FirstLists ==
    ASSUME NEW found, NEW M, NEW n \in Nat, Lists(found, M, n), NEW limit \in Nat
    PROVE  /\ Lists(First(found, limit), M, n)
           /\ Len(First(found, limit)) = IF Len(found) <= limit THEN Len(found) ELSE limit
<1> DEFINE m == Min({limit, Len(found)})
<1>1. found \in Seq(Int) /\ Len(found) \in Nat
  BY DEF Lists
<1>2. m = IF limit <= Len(found) THEN limit ELSE Len(found)
  BY <1>1, MinIs
<1> HIDE DEF m
<1>3. m \in Nat /\ m <= Len(found) /\ (m = IF Len(found) <= limit THEN Len(found) ELSE limit)
  BY <1>1, <1>2
<1>4. First(found, limit) = SubSeq(found, 1, m)
  BY DEF First, m
<1>5. \A k \in 1 .. m : found[k] \in Int
  BY <1>1, <1>3
<1>6. /\ SubSeq(found, 1, m) \in Seq(Int) /\ Len(SubSeq(found, 1, m)) = m
      /\ \A k \in 1 .. m : SubSeq(found, 1, m)[k] = found[k]
  BY <1>1, <1>3, <1>5
<1>7. \A k \in 1 .. m : k \in 1 .. Len(found)
  BY <1>1, <1>3
<1> QED
  BY <1>3, <1>4, <1>6, <1>7 DEF Lists

(* Two lists of the same places agree.                                     *)
LEMMA ListsAgree ==
    ASSUME NEW n \in Nat, NEW M \in SUBSET (1 .. n), NEW a, NEW b, Lists(a, M, n), Lists(b, M, n),
           Len(a) <= Len(b)
    PROVE  IsPrefix(a, b) /\ \A k \in 1 .. Len(a) : a[k] = b[k]
<1>1. /\ a \in Seq(Int) /\ Len(a) \in Nat /\ DOMAIN a = 1 .. Len(a)
      /\ b \in Seq(Int) /\ Len(b) \in Nat /\ DOMAIN b = 1 .. Len(b)
  BY DEF Lists
<1>2. ASSUME NEW k \in 1 .. Len(a) PROVE a[k] = b[k]
  <2>1. k \in 1 .. Len(b)
    BY <1>1
  <2>2. /\ n + 1 - a[k] \in M /\ Rank(M, n + 1 - a[k]) = k /\ a[k] \in Int
        /\ n + 1 - b[k] \in M /\ Rank(M, n + 1 - b[k]) = k /\ b[k] \in Int
    BY <1>1, <2>1 DEF Lists
  <2>3. IsFiniteSet(M) /\ M \in SUBSET Int
    BY PlacesFinite
  <2>4. n + 1 - a[k] = n + 1 - b[k]
    BY <2>2, <2>3, RankOrders
  <2> QED
    BY <2>2, <2>4
<1>3. /\ SubSeq(a, 1, Len(a)) = [k \in 1 .. Len(a) |-> a[k]]
      /\ SubSeq(b, 1, Len(a)) = [k \in 1 .. Len(a) |-> b[k]]
  BY <1>1
<1> QED
  BY <1>2, <1>3 DEF IsPrefix

(* What the first k pages of a scan found: w rows were seen, the newest.   *)
Scanned(s, k, M, n, limit) ==
    \E w \in 0 .. n :
        /\ s.before = n + 1 - w
        /\ Lists(s.found, M, n)
        /\ Len(s.found) = IF Rank(M, w) <= limit THEN Rank(M, w) ELSE limit
        /\ s.over => w = n
        /\ Len(s.found) = limit \/ w = n \/ k * ScanChunk <= w

(* Ranks are numbers that grow with the place.                             *)
LEMMA RankClimbs ==
    ASSUME NEW n \in Nat, NEW M \in SUBSET (1 .. n), NEW v \in Int, NEW w \in Int, v <= w
    PROVE  Rank(M, v) \in Nat /\ Rank(M, w) \in Nat /\ Rank(M, v) <= Rank(M, w)
<1> DEFINE A == {y \in M : y <= v}
           B == {y \in M : y <= w}
<1>1. A \in SUBSET (1 .. n) /\ B \in SUBSET (1 .. n)
  OBVIOUS
<1>2. A \subseteq B
  <2> SUFFICES ASSUME NEW y \in M, y <= v PROVE y <= w
    OBVIOUS
  <2>1. y \in Int
    OBVIOUS
  <2> QED
    BY <2>1
<1>4. IsFiniteSet(A) /\ IsFiniteSet(B)
  BY <1>1, PlacesFinite
<1>5. Rank(M, v) = Cardinality(A) /\ Rank(M, w) = Cardinality(B)
  BY DEF Rank
<1> HIDE DEF A, B
<1>6. Cardinality(A) \in Nat /\ Cardinality(B) \in Nat /\ Cardinality(A) <= Cardinality(B)
  BY <1>2, <1>4, FS_Subset, FS_CardinalityType
<1> QED
  BY <1>5, <1>6

(* No place comes before the first.                                        *)
LEMMA RankZero == ASSUME NEW n \in Nat, NEW M \in SUBSET (1 .. n) PROVE Rank(M, 0) = 0
<1>1. ASSUME NEW y \in M PROVE ~(y <= 0)
  <2>1. y \in 1 .. n
    OBVIOUS
  <2> QED
    BY <2>1
<1>2. {y \in M : y <= 0} = {}
  BY <1>1
<1> QED
  BY <1>2, FS_EmptySet DEF Rank

(* A list, and what continues its ranks.                                   *)
LEMMA MoreLists ==
    ASSUME NEW n \in Nat, NEW M, NEW found, NEW listed, Lists(found, M, n),
           Continues(listed, M, n, Len(found))
    PROVE  /\ Lists(found \o listed, M, n)
           /\ Len(found) \in Nat /\ Len(found \o listed) = Len(found) + Len(listed)
<1>1. found \in Seq(Int) /\ Len(found) \in Nat /\ listed \in Seq(Int) /\ Len(listed) \in Nat
  BY DEF Lists, Continues
<1>2. /\ found \o listed \in Seq(Int) /\ Len(found \o listed) = Len(found) + Len(listed)
      /\ \A k \in 1 .. Len(found) + Len(listed) :
            (found \o listed)[k] = IF k <= Len(found) THEN found[k] ELSE listed[k - Len(found)]
  BY <1>1, ConcatProperties
<1>3. ASSUME NEW j \in 1 .. Len(found) + Len(listed)
      PROVE  LET i == (found \o listed)[j] IN n + 1 - i \in M /\ Rank(M, n + 1 - i) = j
  <2>1. CASE j <= Len(found)
    <3>1. j \in 1 .. Len(found) /\ (found \o listed)[j] = found[j]
      BY <1>1, <1>2, <2>1
    <3> QED
      BY <3>1 DEF Lists
  <2>2. CASE ~(j <= Len(found))
    <3>1. j - Len(found) \in 1 .. Len(listed) /\ (found \o listed)[j] = listed[j - Len(found)]
      BY <1>1, <1>2, <2>2
    <3>2. Len(found) + (j - Len(found)) = j
      BY <1>1
    <3> QED
      BY <3>1, <3>2 DEF Continues
  <2> QED
    BY <2>1, <2>2
<1> QED
  BY <1>1, <1>2, <1>3 DEF Lists

(* A page more.                                                            *)
LEMMA NextKeeps ==
    ASSUME NEW n \in Nat, n = Len(rows), NEW levels, NEW limit \in Nat, NEW k \in Nat, NEW s,
           Scanned(s, k, Matching(levels), n, limit)
    PROVE  Scanned(NextPage(s, levels, limit), k + 1, Matching(levels), n, limit)
<1> DEFINE M    == Matching(levels)
           page == Page(s.before, ScanChunk)
           listed  == OfLevels(page, levels)
<1>1. ScanChunk \in Nat /\ ScanChunk # 0
  BY LogAssumption
<1>2. M \in SUBSET (1 .. n)
  BY DEF Matching
<1>3. PICK w \in 0 .. n :
        /\ s.before = n + 1 - w
        /\ Lists(s.found, M, n)
        /\ Len(s.found) = IF Rank(M, w) <= limit THEN Rank(M, w) ELSE limit
        /\ s.over => w = n
        /\ Len(s.found) = limit \/ w = n \/ k * ScanChunk <= w
  BY DEF Scanned
<1>4. PICK q \in 0 .. n - w :
        /\ q = IF ScanChunk <= n - w THEN ScanChunk ELSE n - w
        /\ page = Ids(n, w, q)
        /\ page \in Seq(Int) /\ Len(page) = q
  <2>1. \E q \in 0 .. n - w :
              /\ q = IF ScanChunk <= n - w THEN ScanChunk ELSE n - w
              /\ Page(n + 1 - w, ScanChunk) = Ids(n, w, q)
              /\ Page(n + 1 - w, ScanChunk) \in Seq(Int) /\ Len(Page(n + 1 - w, ScanChunk)) = q
    BY <1>1, PageIs
  <2>2. s.before = n + 1 - w
    BY <1>3
  <2> QED
    BY <2>1, <2>2
<1>5. /\ Rank(M, w) \in Nat /\ Rank(M, w + q) = Rank(M, w) + Len(listed)
      /\ Continues(listed, M, n, Rank(M, w))
  <2>1. PageContinues(n, w, q, levels)
    BY OfPage
  <2> HIDE DEF page
  <2> QED
    BY <1>4, <2>1 DEF PageContinues
<1> HIDE DEF M, page, listed
<1>6. w \in Int /\ q \in Int /\ 0 <= w /\ w <= n /\ 0 <= q /\ w + q <= n
  BY <1>3, <1>4
<1>7. Len(s.found) \in Nat /\ Len(s.found) <= limit
  BY <1>3, <1>5 DEF Lists
<1>8. CASE s.over \/ page = << >> \/ Len(s.found) >= limit
  <2>1. NextPage(s, levels, limit) = s
    BY <1>8 DEF NextPage, page
  <2>2. page = << >> => w = n
    <3> SUFFICES ASSUME page = << >> PROVE w = n
      OBVIOUS
    <3>1. q = 0
      BY <1>4
    <3>2. q = IF ScanChunk <= n - w THEN ScanChunk ELSE n - w
      BY <1>4
    <3> QED
      BY <1>1, <1>6, <3>1, <3>2
  <2>3. Len(s.found) = limit \/ w = n
    BY <1>3, <1>7, <1>8, <2>2
  <2> QED
    BY <1>3, <2>1, <2>3 DEF Scanned, M
<1>9. CASE ~(s.over \/ page = << >> \/ Len(s.found) >= limit)
  <2> DEFINE t == [before |-> Last(page),
                   found  |-> First(s.found \o listed, limit),
                   over   |-> Len(page) < ScanChunk]
  <2>1. NextPage(s, levels, limit) = t
    BY <1>9 DEF NextPage, page, listed
  <2>2. Len(s.found) < limit /\ Rank(M, w) = Len(s.found)
    BY <1>3, <1>5, <1>7, <1>9
  <2>3. q # 0 /\ w # n
    <3>1. q # 0
      BY <1>4, <1>9
    <3> QED
      BY <1>6, <3>1
  <2>4. t.before = n + 1 - (w + q)
    <3>1. q \in 1 .. q
      BY <1>6, <2>3
    <3>2. page[q] = n + 1 - w - q
      BY <1>4, <3>1 DEF Ids
    <3>3. Last(page) = page[q]
      BY <1>4 DEF Last
    <3> QED
      BY <1>6, <3>2, <3>3
  <2>5. /\ Lists(s.found \o listed, M, n)
        /\ Len(s.found \o listed) = Rank(M, w + q)
    <3>1. Lists(s.found, M, n) /\ Continues(listed, M, n, Len(s.found))
      BY <1>3, <1>5, <2>2
    <3>2. /\ Lists(s.found \o listed, M, n)
          /\ Len(s.found \o listed) = Len(s.found) + Len(listed)
      BY <3>1, MoreLists
    <3> QED
      BY <1>5, <2>2, <3>2
  <2>6. /\ Lists(t.found, M, n)
        /\ Len(t.found) = IF Rank(M, w + q) <= limit THEN Rank(M, w + q) ELSE limit
    BY <2>5, FirstLists
  <2>7. t.over => w + q = n
    <3>1. t.over => q < ScanChunk
      BY <1>4
    <3> QED
      BY <1>1, <1>4, <1>6, <3>1
  <2>8. w + q = n \/ (k + 1) * ScanChunk <= w + q
    <3>1. k * ScanChunk <= w
      BY <1>3, <1>7, <2>2, <2>3
    <3>2. (k + 1) * ScanChunk = k * ScanChunk + ScanChunk /\ k * ScanChunk \in Int
      BY <1>1
    <3>3. q = ScanChunk \/ q = n - w
      BY <1>4
    <3> QED
      BY <1>1, <1>6, <3>1, <3>2, <3>3
  <2> HIDE DEF t
  <2>9. w + q \in 0 .. n
    BY <1>6
  <2>10. Scanned(t, k + 1, M, n, limit)
    BY <2>4, <2>6, <2>7, <2>8, <2>9 DEF Scanned
  <2> QED
    BY <2>1, <2>10 DEF M
<1> QED
  BY <1>8, <1>9

(* Every page of a scan, by counting up.                                   *)
LEMMA ScanFinds ==
    ASSUME NEW levels, NEW limit \in Nat, rows \in Seq(Line)
    PROVE  \E s : /\ Scanned(s, ScanPages, Matching(levels), Len(rows), limit)
                  /\ searchLevels(levels, limit) = s.found
<1> DEFINE n == Len(rows)
           M == Matching(levels)
<1>1. n \in Nat /\ ScanPages \in Nat /\ M \in SUBSET (1 .. n)
  BY LogAssumption DEF Matching
<1>2. PICK f : /\ f[0] = FirstPage
               /\ \A k \in 1 .. ScanPages : f[k] = NextPage(f[k - 1], levels, limit)
               /\ searchLevels(levels, limit) = f[ScanPages].found
  BY ScanIs
<1> DEFINE T == {k \in Nat : k <= ScanPages => Scanned(f[k], k, M, n, limit)}
<1>3. Scanned(f[0], 0, M, n, limit)
  <2>1. Lists(<< >>, M, n) /\ Len(<< >>) = 0
    BY DEF Lists
  <2>2. Rank(M, 0) = 0
    <3> HIDE DEF M, n
    <3> QED
      BY <1>1, RankZero
  <2>3. FirstPage.before = n + 1 - 0 /\ FirstPage.found = << >> /\ FirstPage.over = FALSE
    BY <1>1 DEF FirstPage
  <2>4. 0 \in 0 .. n /\ 0 * ScanChunk <= 0
    BY <1>1, LogAssumption
  <2> HIDE DEF M, n
  <2> QED
    BY <1>2, <2>1, <2>2, <2>3, <2>4 DEF Scanned
<1>4. ASSUME NEW k \in Nat, k \in T PROVE k + 1 \in T
  <2> SUFFICES ASSUME k + 1 <= ScanPages PROVE Scanned(f[k + 1], k + 1, M, n, limit)
    OBVIOUS
  <2>1. k <= ScanPages /\ k + 1 \in 1 .. ScanPages /\ (k + 1) - 1 = k
    BY <1>1
  <2>2. Scanned(f[k], k, M, n, limit)
    BY <1>4, <2>1
  <2>3. f[k + 1] = NextPage(f[k], levels, limit)
    BY <1>2, <2>1
  <2> QED
    BY <1>1, <2>2, <2>3, NextKeeps
<1>5. Nat \subseteq T
  <2>1. 0 \in T
    BY <1>3
  <2> HIDE DEF T
  <2> QED
    BY <1>4, <2>1, CountingUp
<1>6. Scanned(f[ScanPages], ScanPages, M, n, limit)
  <2>1. ScanPages \in T
    BY <1>1, <1>5
  <2> QED
    BY <1>1, <2>1
<1> QED
  BY <1>2, <1>6

-----------------------------------------------------------------------------
(* What a search found, what it should have, and their order.              *)
Sought(levels) == IF levels = {} THEN 1 .. Len(rows) ELSE Matching(levels)

AllIds == Page(Len(rows) + 1, Len(rows))

Wanted(levels, limit) == First(IF levels = {} THEN AllIds ELSE OfLevels(AllIds, levels), limit)

(* Found up to the w-th newest row, or up to the limit.                    *)
Reaches(found, levels, limit, w) ==
    /\ Lists(found, Sought(levels), Len(rows))
    /\ Len(found) = IF Rank(Sought(levels), w) <= limit THEN Rank(Sought(levels), w) ELSE limit
    /\ Len(found) = limit \/ w = Len(rows) \/ (levels # {} /\ ScanPages * ScanChunk <= w)

(* All ids, newest first.                                                  *)
LEMMA AllIdsAre ==
    ASSUME rows \in Seq(Line)
    PROVE  /\ Len(rows) \in Nat /\ AllIds = Ids(Len(rows), 0, Len(rows))
           /\ AllIds \in Seq(Int) /\ Len(AllIds) = Len(rows)
           /\ \A k \in 1 .. Len(rows) : AllIds[k] = Len(rows) + 1 - k
<1> DEFINE n == Len(rows)
<1>1. n \in Nat /\ 0 \in 0 .. n /\ n + 1 - 0 = n + 1 /\ n - 0 = n
  OBVIOUS
<1>2. PICK q \in 0 .. n - 0 :
        /\ q = IF n <= n - 0 THEN n ELSE n - 0
        /\ Page(n + 1 - 0, n) = Ids(n, 0, q)
        /\ Page(n + 1 - 0, n) \in Seq(Int) /\ Len(Page(n + 1 - 0, n)) = q
  <2> HIDE DEF n
  <2> QED
    BY <1>1, PageIs
<1>3. q = n
  BY <1>1, <1>2
<1>4. Page(n + 1 - 0, n) = AllIds
  BY <1>1 DEF AllIds
<1>5. \A k \in 1 .. n : Ids(n, 0, n)[k] = n + 1 - k
  BY <1>1 DEF Ids
<1> QED
  BY <1>1, <1>2, <1>3, <1>4, <1>5

(* The first places have their own ranks.                                  *)
LEMMA RankOfFirst == ASSUME NEW n \in Nat, NEW p \in 0 .. n PROVE Rank(1 .. n, p) = p
<1>1. {y \in 1 .. n : y <= p} = 1 .. p
  OBVIOUS
<1>2. Cardinality(1 .. p) = p
  <2>1. p \in Int /\ 1 \in Int /\ 0 <= p
    OBVIOUS
  <2>2. Cardinality(1 .. p) = IF 1 > p THEN 0 ELSE p - 1 + 1
    BY <2>1, FS_Interval
  <2> QED
    BY <2>1, <2>2
<1>3. Rank(1 .. n, p) = Cardinality(1 .. p)
  BY <1>1 DEF Rank
<1> QED
  BY <1>2, <1>3

(* Without levels, the newest ids of a page list every place.              *)
LEMMA NewestLists ==
    ASSUME rows \in Seq(Line), NEW limit \in Nat
    PROVE  /\ Lists(Page(Len(rows) + 1, limit), 1 .. Len(rows), Len(rows))
           /\ Len(Page(Len(rows) + 1, limit)) = IF Len(rows) <= limit THEN Len(rows) ELSE limit
<1> DEFINE n == Len(rows)
           page == Page(n + 1, limit)
<1>1. n \in Nat /\ 0 \in 0 .. n /\ n + 1 - 0 = n + 1 /\ n - 0 = n
  OBVIOUS
<1>2. PICK q \in 0 .. n - 0 :
        /\ q = IF limit <= n - 0 THEN limit ELSE n - 0
        /\ Page(n + 1 - 0, limit) = Ids(n, 0, q)
        /\ Page(n + 1 - 0, limit) \in Seq(Int) /\ Len(Page(n + 1 - 0, limit)) = q
  <2> HIDE DEF n
  <2> QED
    BY <1>1, PageIs
<1>3. page \in Seq(Int) /\ Len(page) = q /\ page = Ids(n, 0, q) /\ q \in Nat /\ q <= n
  <2>1. Page(n + 1 - 0, limit) = page
    BY <1>1
  <2>2. q \in Nat /\ q <= n
    BY <1>1
  <2> HIDE DEF n, page
  <2> QED
    BY <1>2, <2>1, <2>2
<1> HIDE DEF page, n
<1>4. ASSUME NEW j \in 1 .. q PROVE n + 1 - page[j] \in 1 .. n /\ Rank(1 .. n, n + 1 - page[j]) = j
  <2>1. page[j] = n + 1 - 0 - j
    BY <1>3 DEF Ids
  <2>2. n + 1 - page[j] = j /\ j \in 1 .. n /\ j \in 0 .. n
    BY <1>1, <1>3, <2>1
  <2> QED
    BY <1>1, <2>2, RankOfFirst
<1>5. q = IF n <= limit THEN n ELSE limit
  BY <1>1, <1>2
<1> QED
  BY <1>3, <1>4, <1>5 DEF Lists, page, n

(* What a search should find.                                              *)
LEMMA WantedIs ==
    ASSUME rows \in Seq(Line), NEW levels, NEW limit \in Nat
    PROVE  /\ Lists(Wanted(levels, limit), Sought(levels), Len(rows))
           /\ Len(Wanted(levels, limit)) =
                IF Rank(Sought(levels), Len(rows)) <= limit
                THEN Rank(Sought(levels), Len(rows)) ELSE limit
<1> DEFINE n == Len(rows)
           M == Sought(levels)
           all == IF levels = {} THEN AllIds ELSE OfLevels(AllIds, levels)
<1>1. Lists(all, M, n) /\ Len(all) = Rank(M, n)
  <2>1. CASE levels = {}
    <3>1. Lists(AllIds, 1 .. n, n) /\ Len(AllIds) = n
      BY AllIdsAre, NewestLists DEF AllIds
    <3>2. Rank(1 .. n, n) = n
      BY RankOfFirst
    <3> QED
      BY <2>1, <3>1, <3>2 DEF Sought
  <2>2. CASE levels # {}
    <3> DEFINE K == Matching(levels)
               listed == OfLevels(AllIds, levels)
    <3>1. n \in Nat /\ 0 \in 0 .. n /\ n \in 0 .. n - 0 /\ K \in SUBSET (1 .. n)
      BY DEF Matching
    <3>2. PageContinues(n, 0, n, levels)
      BY <3>1, OfPage
    <3>3. Rank(K, 0) = 0
      <4> HIDE DEF K, n
      <4> QED
        BY <3>1, RankZero
    <3>4. /\ Rank(K, 0 + n) = Rank(K, 0) + Len(listed)
          /\ Continues(listed, K, n, Rank(K, 0))
      BY <3>2, AllIdsAre DEF PageContinues
    <3> HIDE DEF K, listed
    <3>5. listed \in Seq(Int) /\ Len(listed) \in Nat
      BY <3>4 DEF Continues
    <3>6. Len(listed) = Rank(K, n)
      BY <3>1, <3>3, <3>4, <3>5
    <3>7. Lists(listed, K, n)
      <4>1. \A j \in 1 .. Len(listed) : 0 + j = j
        BY <3>5
      <4> QED
        BY <3>3, <3>4, <4>1 DEF Continues, Lists
    <3> QED
      BY <2>2, <3>6, <3>7 DEF Sought, K, listed
  <2> QED
    BY <2>1, <2>2
<1> HIDE DEF all, M
<1>2. Wanted(levels, limit) = First(all, limit) /\ n \in Nat
  BY DEF Wanted, all
<1>3. /\ Lists(First(all, limit), M, n)
      /\ Len(First(all, limit)) = IF Len(all) <= limit THEN Len(all) ELSE limit
  BY <1>1, <1>2, FirstLists
<1> QED
  BY <1>1, <1>2, <1>3 DEF M

(* What a search finds.                                                    *)
LEMMA SearchReaches ==
    ASSUME rows \in Seq(Line), NEW levels, NEW limit \in 1 .. MaxLimit
    PROVE  \E w \in 0 .. Len(rows) : Reaches(Search(levels, limit), levels, limit, w)
<1>1. limit \in Nat /\ MaxLimit \in Nat /\ limit <= MaxLimit
  BY LogAssumption
<1>2. clampSearchLimit(limit) = limit
  BY <1>1, MinIs DEF clampSearchLimit
<1>3. CASE levels = {}
  <2>1. Len(rows) \in Nat /\ Len(rows) \in 0 .. Len(rows)
    OBVIOUS
  <2>2. Search(levels, limit) = Page(Len(rows) + 1, limit)
    BY <1>2, <1>3 DEF Search
  <2>3. Rank(1 .. Len(rows), Len(rows)) = Len(rows)
    BY <2>1, RankOfFirst
  <2>4. /\ Lists(Page(Len(rows) + 1, limit), 1 .. Len(rows), Len(rows))
        /\ Len(Page(Len(rows) + 1, limit)) = IF Len(rows) <= limit THEN Len(rows) ELSE limit
    BY <1>1, NewestLists
  <2>5. Reaches(Search(levels, limit), levels, limit, Len(rows))
    BY <1>3, <2>2, <2>3, <2>4 DEF Reaches, Sought
  <2> QED
    BY <2>1, <2>5
<1>4. CASE levels # {}
  <2>1. Search(levels, limit) = searchLevels(levels, limit)
    BY <1>2, <1>4 DEF Search
  <2>2. PICK s : /\ Scanned(s, ScanPages, Matching(levels), Len(rows), limit)
                 /\ searchLevels(levels, limit) = s.found
    BY <1>1, ScanFinds
  <2>3. PICK w \in 0 .. Len(rows) :
          /\ Lists(s.found, Matching(levels), Len(rows))
          /\ Len(s.found) = IF Rank(Matching(levels), w) <= limit
                            THEN Rank(Matching(levels), w) ELSE limit
          /\ Len(s.found) = limit \/ w = Len(rows) \/ ScanPages * ScanChunk <= w
    BY <2>2 DEF Scanned
  <2>4. Reaches(s.found, levels, limit, w)
    BY <1>4, <2>3 DEF Reaches, Sought
  <2> QED
    BY <2>1, <2>2, <2>4
<1> QED
  BY <1>3, <1>4

(* Ids in ascending order list lines in the order of the stamps.           *)
LEMMA AscendingIds ==
    ASSUME rows \in Seq(Line), InOrder(rows), NEW listed, DOMAIN listed \subseteq Int,
           \A j \in DOMAIN listed : listed[j] \in 1 .. Len(rows),
           \A j, k \in DOMAIN listed : j < k => listed[j] < listed[k]
    PROVE  Chronological(listed)
<1>1. DOMAIN rows = 1 .. Len(rows)
  OBVIOUS
<1> QED
  BY <1>1 DEF Chronological, InOrder

(* What a search found begins what it should have, and only the limit or   *)
(* the budget of the scan ends it before.                                  *)
LEMMA FoundBegins ==
    ASSUME rows \in Seq(Line), NEW levels, NEW limit \in 1 .. MaxLimit
    PROVE  LET found == Search(levels, limit)
               want  == Wanted(levels, limit)
               reach == IF levels = {} THEN AllIds ELSE First(AllIds, ScanChunk * ScanPages)
           IN /\ IsPrefix(found, want)
              /\ \A i \in Range(want) \cap Range(reach) : i \in Range(found)
<1> DEFINE n == Len(rows)
           M == Sought(levels)
           found == Search(levels, limit)
           want  == Wanted(levels, limit)
           reach == IF levels = {} THEN AllIds ELSE First(AllIds, ScanChunk * ScanPages)
<1>1. /\ n \in Nat /\ M \in SUBSET (1 .. n) /\ limit \in Nat
      /\ ScanChunk * ScanPages \in Nat /\ ScanChunk * ScanPages = ScanPages * ScanChunk
  BY LogAssumption DEF Sought, Matching
<1>2. PICK w \in 0 .. n : Reaches(found, levels, limit, w)
  BY SearchReaches
<1>3. /\ Lists(found, M, n) /\ Lists(want, M, n)
      /\ Len(found) = IF Rank(M, w) <= limit THEN Rank(M, w) ELSE limit
      /\ Len(found) = limit \/ w = n \/ (levels # {} /\ ScanPages * ScanChunk <= w)
      /\ Len(want) = IF Rank(M, n) <= limit THEN Rank(M, n) ELSE limit
  BY <1>1, <1>2, WantedIs DEF Reaches
<1>4. /\ Len(AllIds) = n /\ AllIds \in Seq(Int)
      /\ \A k \in 1 .. n : AllIds[k] = n + 1 - k
  BY AllIdsAre
<1>5. \A i \in Range(reach) :
        levels # {} => \E p \in 1 .. n : i = n + 1 - p /\ p <= ScanPages * ScanChunk
  <2> SUFFICES ASSUME NEW i \in Range(reach), levels # {}
               PROVE  \E p \in 1 .. n : i = n + 1 - p /\ p <= ScanPages * ScanChunk
    OBVIOUS
  <2> DEFINE b == ScanChunk * ScanPages
             m == Min({b, n})
  <2>1. m = IF b <= n THEN b ELSE n
    BY <1>1, MinIs
  <2>2. reach = SubSeq(AllIds, 1, m)
    BY <1>4 DEF First
  <2>3. b \in Nat /\ b = ScanPages * ScanChunk
    BY <1>1
  <2> HIDE DEF b, m, reach, n
  <2>4. m \in Nat /\ m <= n /\ m <= b
    BY <1>1, <2>1, <2>3
  <2>5. \A k \in 1 .. m : AllIds[k] \in Int /\ AllIds[k] = n + 1 - k
    BY <1>1, <1>4, <2>4
  <2>6. DOMAIN SubSeq(AllIds, 1, m) = 1 .. m /\ \A k \in 1 .. m : SubSeq(AllIds, 1, m)[k] = AllIds[k]
    BY <2>4, <2>5
  <2>7. PICK k \in 1 .. m : i = AllIds[k]
    BY <2>2, <2>6 DEF Range
  <2>8. k \in 1 .. n /\ k <= b
    BY <1>1, <2>3, <2>4
  <2> QED
    BY <2>3, <2>5, <2>7, <2>8
<1> HIDE DEF n, M, found, want, reach
<1>6. w \in Int /\ n \in Int /\ w <= n
  BY <1>1
<1>7. Rank(M, w) \in Nat /\ Rank(M, n) \in Nat /\ Rank(M, w) <= Rank(M, n)
  BY <1>1, <1>6, RankClimbs
<1>8. Len(found) <= Len(want) /\ Len(found) \in Nat /\ Len(want) \in Nat
  BY <1>1, <1>3, <1>7
<1>9. IsPrefix(found, want) /\ \A k \in 1 .. Len(found) : found[k] = want[k]
  <2>1. Lists(found, M, n) /\ Lists(want, M, n) /\ Len(found) <= Len(want)
    BY <1>3, <1>8
  <2>2. n \in Nat /\ M \in SUBSET (1 .. n)
    BY <1>1
  <2> QED
    BY <2>1, <2>2, ListsAgree
<1>10. ASSUME NEW i \in Range(want) \cap Range(reach) PROVE i \in Range(found)
  <2>1. /\ want \in Seq(Int) /\ found \in Seq(Int)
        /\ DOMAIN want = 1 .. Len(want) /\ DOMAIN found = 1 .. Len(found)
    BY <1>3 DEF Lists
  <2>2. PICK j \in 1 .. Len(want) : want[j] = i
    BY <2>1 DEF Range
  <2>3. n + 1 - i \in M /\ Rank(M, n + 1 - i) = j /\ i \in Int
    BY <1>3, <2>1, <2>2 DEF Lists
  <2>4. j \in Nat /\ j # 0 /\ j <= limit
    BY <1>1, <1>3, <1>7, <1>8
  <2>5. j <= Len(found)
    <3>1. CASE Len(found) = limit
      BY <2>4, <3>1
    <3>2. CASE w = n
      BY <1>3, <1>8, <3>2
    <3>3. CASE levels # {} /\ ScanPages * ScanChunk <= w
      <4>1. PICK p \in 1 .. n : i = n + 1 - p /\ p <= ScanPages * ScanChunk
        BY <1>5, <3>3
      <4>2. n + 1 - i = p /\ p \in Int
        BY <1>6, <4>1
      <4>3. p <= w
        <5>1. ScanPages * ScanChunk \in Int
          BY <1>1
        <5> QED
          BY <1>6, <3>3, <4>1, <4>2, <5>1
      <4>4. Rank(M, p) <= Rank(M, w)
        BY <1>1, <1>6, <4>2, <4>3, RankClimbs
      <4>5. j <= Rank(M, w)
        BY <2>3, <4>2, <4>4
      <4> QED
        BY <1>1, <1>3, <1>7, <2>4, <4>5
    <3> QED
      BY <1>3, <3>1, <3>2, <3>3
  <2>6. j \in 1 .. Len(found)
    BY <1>8, <2>4, <2>5
  <2>7. found[j] = i
    BY <1>9, <2>2, <2>6
  <2> QED
    BY <2>1, <2>6, <2>7 DEF Range
<1> QED
  BY <1>9, <1>10 DEF found, want, reach

(* Listed from the oldest, what a search found is in order.                *)
LEMMA FoundInOrder ==
    ASSUME rows \in Seq(Line), InOrder(rows), NEW levels, NEW limit \in 1 .. MaxLimit
    PROVE  Chronological(Reverse(Search(levels, limit)))
<1> DEFINE n == Len(rows)
           M == Sought(levels)
           found == Search(levels, limit)
           m == Len(found)
           listed == Reverse(found)
<1>1. n \in Nat /\ M \in SUBSET (1 .. n)
  BY DEF Sought, Matching
<1>2. Lists(found, M, n)
  BY SearchReaches DEF Reaches
<1>3. found \in Seq(Int) /\ m \in Nat
  BY <1>2 DEF Lists
<1>4. DOMAIN listed = 1 .. m /\ \A j \in 1 .. m : listed[j] = found[(m - j) + 1]
  BY <1>3 DEF Reverse
<1> HIDE DEF n, M, found, m, listed
<1>5. ASSUME NEW j \in 1 .. m
      PROVE  /\ found[j] \in 1 .. n /\ n + 1 - found[j] \in M /\ Rank(M, n + 1 - found[j]) = j
  <2>1. n + 1 - found[j] \in M /\ Rank(M, n + 1 - found[j]) = j /\ found[j] \in Int
    BY <1>2, <1>3 DEF Lists, m
  <2>2. n + 1 - found[j] \in 1 .. n
    BY <1>1, <2>1
  <2> QED
    BY <1>1, <2>1, <2>2
<1>6. ASSUME NEW j \in 1 .. m, NEW k \in 1 .. m, j < k PROVE found[k] < found[j]
  <2>1. IsFiniteSet(M) /\ M \in SUBSET Int
    BY <1>1, PlacesFinite
  <2> DEFINE x == n + 1 - found[j]
             y == n + 1 - found[k]
  <2>2. x \in M /\ y \in M /\ Rank(M, x) = j /\ Rank(M, y) = k
    BY <1>5
  <2>3. x < y
    <3> HIDE DEF x, y
    <3>1. Rank(M, x) < Rank(M, y) <=> x < y
      BY <2>1, <2>2, RankOrders
    <3> QED
      BY <1>6, <2>2, <3>1
  <2> QED
    BY <1>1, <1>5, <2>3
<1>7. \A j \in 1 .. m : (m - j) + 1 \in 1 .. m
  BY <1>3
<1>8. ASSUME NEW j \in DOMAIN listed PROVE listed[j] \in 1 .. n
  BY <1>4, <1>5, <1>7
<1>9. ASSUME NEW j \in DOMAIN listed, NEW k \in DOMAIN listed, j < k PROVE listed[j] < listed[k]
  <2>1. (m - k) + 1 < (m - j) + 1
    BY <1>3, <1>4, <1>9
  <2> QED
    BY <1>4, <1>6, <1>7, <2>1
<1>10. DOMAIN listed \subseteq Int
  BY <1>3, <1>4
<1>11. Chronological(listed)
  BY <1>8, <1>9, <1>10, AscendingIds DEF n
<1> QED
  BY <1>11 DEF listed, found

(* The context of a row has consecutive ids.                               *)
LEMMA ContextInOrder ==
    ASSUME rows \in Seq(Line), InOrder(rows), NEW i \in DOMAIN rows, NEW c \in Nat
    PROVE  Chronological(Context(i, c))
<1> DEFINE n == Len(rows)
           w == n + 1 - i
           before == Page(i, c)
           m == Min({c + 1, n - i + 1})
           after == [k \in 1 .. m |-> i + k - 1]
           listed == Context(i, c)
<1>1. n \in Nat /\ i \in 1 .. n /\ w \in 0 .. n /\ n + 1 - w = i /\ n - w = i - 1
  OBVIOUS
<1>2. PICK q \in 0 .. i - 1 : before \in Seq(Int) /\ Len(before) = q
                              /\ \A k \in 1 .. q : before[k] = i - k
  <2> HIDE DEF w, n
  <2>1. PICK q \in 0 .. n - w :
          /\ Page(n + 1 - w, c) = Ids(n, w, q)
          /\ Page(n + 1 - w, c) \in Seq(Int) /\ Len(Page(n + 1 - w, c)) = q
    BY <1>1, PageIs
  <2>2. before = Ids(n, w, q) /\ before \in Seq(Int) /\ Len(before) = q
    BY <1>1, <2>1
  <2> HIDE DEF before
  <2>3. \A k \in 1 .. q : before[k] = i - k
    BY <1>1, <2>2 DEF Ids
  <2> QED
    BY <1>1, <2>2, <2>3
<1>3. m \in Nat /\ m <= n - i + 1
  <2>1. c + 1 \in Int /\ n - i + 1 \in Int /\ 0 <= c + 1 /\ 0 <= n - i + 1
    BY <1>1
  <2>2. m = IF c + 1 <= n - i + 1 THEN c + 1 ELSE n - i + 1
    BY <2>1, MinIs
  <2> HIDE DEF m, n
  <2> QED
    BY <2>1, <2>2
<1>4. listed = Reverse(before) \o after
  BY DEF Context
<1> HIDE DEF n, w, before, m, listed
<1>5. after \in Seq(Int) /\ Len(after) = m /\ \A k \in 1 .. m : after[k] = i + k - 1
  BY <1>1, <1>3
<1>6. /\ Reverse(before) \in Seq(Int) /\ Len(Reverse(before)) = q
      /\ \A k \in 1 .. q : Reverse(before)[k] = i - q - 1 + k
  <2>1. q \in Nat /\ Reverse(before) = [k \in 1 .. q |-> before[(q - k) + 1]]
    BY <1>1, <1>2 DEF Reverse
  <2>2. ASSUME NEW k \in 1 .. q
        PROVE  before[(q - k) + 1] = i - q - 1 + k /\ before[(q - k) + 1] \in Int
    <3>1. (q - k) + 1 \in 1 .. q
      BY <2>1
    <3>2. before[(q - k) + 1] = i - ((q - k) + 1)
      BY <1>2, <3>1
    <3> QED
      BY <1>1, <2>1, <3>2
  <2> HIDE DEF before
  <2> QED
    BY <2>1, <2>2
<1> HIDE DEF after
<1>7. /\ listed \in Seq(Int) /\ Len(listed) = q + m
      /\ \A k \in 1 .. q + m :
            listed[k] = IF k <= q THEN Reverse(before)[k] ELSE after[k - q]
  <2> DEFINE first == Reverse(before)
  <2>1. first \in Seq(Int) /\ Len(first) = q /\ after \in Seq(Int) /\ Len(after) = m
    BY <1>5, <1>6
  <2> HIDE DEF first
  <2>2. /\ first \o after \in Seq(Int) /\ Len(first \o after) = Len(first) + Len(after)
        /\ \A k \in 1 .. Len(first) + Len(after) :
              (first \o after)[k] = IF k <= Len(first) THEN first[k] ELSE after[k - Len(first)]
    BY <2>1, ConcatProperties
  <2>3. listed = first \o after
    BY <1>4 DEF first
  <2>4. /\ listed \in Seq(Int) /\ Len(listed) = q + m
        /\ \A k \in 1 .. q + m : listed[k] = IF k <= q THEN first[k] ELSE after[k - q]
    BY <2>1, <2>2, <2>3
  <2> QED
    BY <2>4 DEF first
<1>8. q \in Nat /\ q <= i - 1
  BY <1>1, <1>2
<1>9. ASSUME NEW k \in 1 .. q + m PROVE listed[k] = i - q - 1 + k
  <2>1. CASE k <= q
    <3>1. k \in 1 .. q
      BY <1>3, <1>8, <2>1
    <3> QED
      BY <1>6, <1>7, <2>1, <3>1
  <2>2. CASE ~(k <= q)
    <3>1. k - q \in 1 .. m
      BY <1>3, <1>8, <2>2
    <3>2. listed[k] = i + (k - q) - 1
      BY <1>5, <1>7, <2>2, <3>1
    <3> QED
      BY <1>1, <1>8, <3>2
  <2> QED
    BY <2>1, <2>2
<1>10. DOMAIN listed = 1 .. q + m
  BY <1>7
<1>11. \A k \in 1 .. q + m : listed[k] \in 1 .. n
  <2> SUFFICES ASSUME NEW k \in 1 .. q + m PROVE i - q - 1 + k \in 1 .. n
    BY <1>9
  <2> QED
    BY <1>1, <1>3, <1>8
<1>12. \A j, k \in 1 .. q + m : j < k => listed[j] < listed[k]
  <2> SUFFICES ASSUME NEW j \in 1 .. q + m, NEW k \in 1 .. q + m, j < k
               PROVE  i - q - 1 + j < i - q - 1 + k
    BY <1>9
  <2> QED
    BY <1>1, <1>3, <1>8
<1>13. DOMAIN listed \subseteq Int
  BY <1>3, <1>8, <1>10
<1>14. Chronological(listed)
  BY <1>10, <1>11, <1>12, <1>13, AscendingIds DEF n
<1> QED
  BY <1>14 DEF listed

(* What a search of any levels lists, in every reachable state: the newest *)
(* rows of those levels up to the limit, none twice and none left out but  *)
(* past the scan budget (LogsSearch.searchLevels), and, unless a restart   *)
(* stored lines again, in the order of the stamps, as is the context of a  *)
(* row: flush sorts the streams before the rows get their ids.             *)
THEOREM SearchListsTheNewest == LogsSpec => []SearchFindsNewest
<1>1. CollectInv /\ RowsInv => SearchFindsNewest
  <2> SUFFICES ASSUME CollectInv, RowsInv, NEW levels \in SUBSET Severity, NEW limit \in 1 .. MaxLimit
               PROVE  LET found == Search(levels, limit)
                          all   == Page(Len(rows) + 1, Len(rows))
                          want  == First(IF levels = {} THEN all ELSE OfLevels(all, levels), limit)
                          reach == IF levels = {} THEN all ELSE First(all, ScanChunk * ScanPages)
                      IN /\ IsPrefix(found, want)
                         /\ \A i \in Range(want) \cap Range(reach) : i \in Range(found)
                         /\ disturbed \/ Chronological(Reverse(found))
                         /\ disturbed \/ \A i \in DOMAIN rows : Chronological(Context(i, limit))
    BY DEF SearchFindsNewest
  <2>1. rows \in Seq(Line) /\ limit \in Nat
    BY DEF CollectInv, LogsTypeOK
  <2>2. disturbed \/ InOrder(rows)
    BY DEF RowsInv
  <2>3. disturbed \/ Chronological(Reverse(Search(levels, limit)))
    BY <2>1, <2>2, FoundInOrder
  <2>4. disturbed \/ \A i \in DOMAIN rows : Chronological(Context(i, limit))
    BY <2>1, <2>2, ContextInOrder
  <2> QED
    BY <2>1, <2>3, <2>4, FoundBegins DEF Wanted, AllIds
<1> QED
  BY <1>1, CollectAlways, RowsAlways, PTL

=============================================================================
