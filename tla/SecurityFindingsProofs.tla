----------------------- MODULE SecurityFindingsProofs -----------------------
(***************************************************************************)
(* The finding episodes of SecurityFindings, for any fingerprints, and any *)
(* number of scans, operator calls, faults and restarts.                   *)
(*                                                                         *)
(* The properties are not inductive.  FindingInv adds a bound on the       *)
(* episode numbers, without which MAX(episode) need not exist;             *)
(* OpeningsOwed adds who still has to announce a row; ClocksAgree that     *)
(* nobody goes by a time ahead of the clock; EvidenceTrue that a complete  *)
(* look was right.                                                         *)
(***************************************************************************)
EXTENDS SecurityFindings, WellFoundedInduction, TLAPS

(* A sequence of findings stays one when its entries do.                   *)
LEMMA SeqPointwise ==
    ASSUME NEW S, NEW seq \in Seq(S), NEW f,
           f = [i \in DOMAIN seq |-> f[i]], \A i \in DOMAIN seq : f[i] \in S
    PROVE  f \in Seq(S)
<1>1. Len(seq) \in Nat /\ DOMAIN seq = 1 .. Len(seq)
  OBVIOUS
<1>2. f \in [1 .. Len(seq) -> S]
  BY <1>1
<1> QED
  BY <1>1, <1>2

(* What every step but the opening of an episode does to the rows: none    *)
(* becomes active, and none that was trimmed comes back.                   *)
RowsKept ==
    /\ DOMAIN findings' = DOMAIN findings
    /\ \A i \in DOMAIN findings :
          /\ findings'[i].key = findings[i].key
          /\ findings'[i].episode = findings[i].episode
          /\ findings'[i].status \in Active => findings[i].status \in Active
          /\ findings'[i].status # "trimmed" => findings[i].status # "trimmed"

(* A row that is replaced by one that fits keeps the table typed.          *)
LEMMA ReplaceRow ==
    ASSUME findings \in Seq(Finding), NEW j, NEW f,
           findings' = [findings EXCEPT ![j] = f],
           j \in DOMAIN findings =>
               /\ f \in Finding
               /\ f.key = findings[j].key /\ f.episode = findings[j].episode
               /\ f.status \in Active => findings[j].status \in Active
               /\ f.status # "trimmed" => findings[j].status # "trimmed"
    PROVE  findings' \in Seq(Finding) /\ RowsKept
<1>1. \A i \in DOMAIN findings : findings[i] \in Finding
  OBVIOUS
<1>2. /\ findings' = [i \in DOMAIN findings |-> findings'[i]]
      /\ \A i \in DOMAIN findings : findings'[i] = IF i = j THEN f ELSE findings[i]
  OBVIOUS
<1>3. findings' \in Seq(Finding)
  <2>1. \A i \in DOMAIN findings : findings'[i] \in Finding
    BY <1>1, <1>2
  <2> QED
    BY <1>2, <2>1, SeqPointwise
<1>4. RowsKept
  BY <1>2 DEF RowsKept
<1> QED
  BY <1>3, <1>4

(* An elapsed suppression becomes an open row, opened once more.           *)
LEMMA ReopenedFits ==
    ASSUME NEW f \in Finding, f.status = "suppressed"
    PROVE  /\ Reopened(f) \in Finding
           /\ Reopened(f).key = f.key /\ Reopened(f).episode = f.episode
           /\ Reopened(f).status = "open"
           /\ Reopened(f).opened = f.opened + 1 /\ Reopened(f).told = f.told
<1>1. "open" \in Status /\ f.opened + 1 \in Nat
  BY DEF Status, Active, Finding
<1>2. Reopened(f) \in Finding
  BY <1>1 DEF Reopened, Finding
<1> QED
  BY <1>2 DEF Reopened, Finding

(* Announcing a row counts it and changes only the notice besides.         *)
LEMMA ToldFits ==
    ASSUME NEW f \in Finding, NEW notice \in {"delivered", "degraded"}
    PROVE  LET g == [f EXCEPT !.told = @ + 1, !.notice = notice] IN
           /\ g \in Finding
           /\ g.key = f.key /\ g.episode = f.episode /\ g.status = f.status
           /\ g.opened = f.opened /\ g.told = f.told + 1
<1>1. f.told + 1 \in Nat
  BY DEF Finding
<1>2. [f EXCEPT !.told = @ + 1, !.notice = notice] \in Finding
  BY <1>1 DEF Finding
<1> QED
  BY <1>2 DEF Finding

(* A new status leaves the rest of the row alone.                          *)
LEMMA MovedFits ==
    ASSUME NEW f \in Finding, NEW s \in Status
    PROVE  LET g == [f EXCEPT !.status = s] IN
           /\ g \in Finding
           /\ g.key = f.key /\ g.episode = f.episode /\ g.status = s
           /\ g.opened = f.opened /\ g.told = f.told
<1>1. [f EXCEPT !.status = s] \in Finding
  BY DEF Finding
<1> QED
  BY <1>1 DEF Finding

(* So does closing a row, whoever closes it.                               *)
LEMMA ClosedFits ==
    ASSUME NEW f \in Finding, NEW s \in Status, NEW b \in {"collector", "operator"}
    PROVE  LET g == [f EXCEPT !.status = s, !.by = b] IN
           /\ g \in Finding
           /\ g.key = f.key /\ g.episode = f.episode /\ g.status = s
           /\ g.opened = f.opened /\ g.told = f.told
<1>1. [f EXCEPT !.status = s, !.by = b] \in Finding
  BY DEF Finding
<1> QED
  BY <1>1 DEF Finding

(* An announcement counts row j and moves no row to another status.        *)
LEMMA AnnounceKeeps ==
    ASSUME findings \in Seq(Finding), faults \in Nat, NEW j, Announce(j)
    PROVE  /\ findings' \in Seq(Finding) /\ RowsKept /\ faults' \in Nat
           /\ \A i \in DOMAIN findings :
                 /\ findings'[i].opened = findings[i].opened
                 /\ findings'[i].told = findings[i].told + (IF i = j THEN 1 ELSE 0)
                 /\ findings'[i].status = findings[i].status
<1>1. PICK notice \in {"delivered", "degraded"} :
          /\ findings' = [findings EXCEPT ![j].told = @ + 1, ![j].notice = notice]
          /\ faults' = IF notice = "degraded" THEN faults + 1 ELSE faults
  BY DEF Announce
<1> DEFINE f == [findings[j] EXCEPT !.told = @ + 1, !.notice = notice]
<1>2. findings' = [findings EXCEPT ![j] = f]
  BY <1>1
<1>3. \A i \in DOMAIN findings : findings[i] \in Finding
  OBVIOUS
<1>4. j \in DOMAIN findings =>
               /\ f \in Finding
               /\ f.key = findings[j].key /\ f.episode = findings[j].episode
               /\ f.status = findings[j].status
               /\ f.opened = findings[j].opened /\ f.told = findings[j].told + 1
  BY <1>3, ToldFits
<1> HIDE DEF f
<1>5. findings' \in Seq(Finding) /\ RowsKept
  BY <1>2, <1>4, ReplaceRow
<1>6. \A i \in DOMAIN findings : findings[i].told \in Nat
  BY <1>3 DEF Finding
<1> QED
  BY <1>1, <1>2, <1>4, <1>5, <1>6
----------------------------------------------------------------------------
(* The number of a new episode.                                            *)

(* A nonempty set of numbers has a smallest element.                       *)
LEMMA Smallest ==
    ASSUME NEW T, T \subseteq Nat, T # {}
    PROVE  \E m \in T : \A n \in T : m <= n
<1> DEFINE Less == {ss \in Nat \X Nat : ss[1] < ss[2]}
<1>1. IsWellFoundedOn(Less, Nat)
  BY NatLessThanWellFounded DEF OpToRel
<1>2. PICK m \in T : \A n \in T : <<n, m>> \notin Less
  BY <1>1, WFMin
<1>3. \A n \in T : ~(n < m)
  BY <1>2
<1> QED
  BY <1>3

(* A nonempty set of numbers that has a bound has a largest element.       *)
LEMMA Largest ==
    ASSUME NEW T, T \subseteq Nat, T # {}, NEW B \in Nat, \A n \in T : n <= B
    PROVE  \E m \in T : \A n \in T : n <= m
<1> DEFINE U == {B - n : n \in T}
<1>1. U \subseteq Nat
  BY \A n \in T : n \in Nat /\ n <= B
<1>2. U # {}
  OBVIOUS
<1>3. PICK u \in U : \A v \in U : u <= v
  BY <1>1, <1>2, Smallest
<1>4. PICK m \in T : u = B - m
  OBVIOUS
<1>5. ASSUME NEW n \in T PROVE n <= m
  <2>1. B - m <= B - n
    BY <1>3, <1>4
  <2> QED
    BY <2>1
<1> QED
  BY <1>5

(* Episodes are numbered by at most the rows there are: what bounds the    *)
(* set NextEpisode takes the maximum of.                                   *)
EpisodesBounded == \A i \in DOMAIN findings : findings[i].episode <= i

(* COALESCE(MAX(episode), 0) + 1 exceeds every stored episode of the key.  *)
LEMMA NextEpisodeExceeds ==
    ASSUME findings \in Seq(Finding), EpisodesBounded, NEW k \in Key
    PROVE  /\ NextEpisode(k) \in Nat /\ NextEpisode(k) <= Len(findings) + 1
           /\ \A i \in DOMAIN findings :
                 Stored(i) /\ findings[i].key = k => findings[i].episode < NextEpisode(k)
<1> DEFINE seen == {0} \cup {findings[i].episode : i \in {j \in DOMAIN findings :
                                                    Stored(j) /\ findings[j].key = k}}
<1>1. /\ Len(findings) \in Nat /\ DOMAIN findings = 1 .. Len(findings)
      /\ \A i \in DOMAIN findings : findings[i].episode \in Nat
  <2>1. \A i \in DOMAIN findings : findings[i] \in Finding
    OBVIOUS
  <2> QED
    BY <2>1 DEF Finding
<1>2. seen \subseteq Nat /\ 0 \in seen
  BY <1>1
<1>3. \A n \in seen : n <= Len(findings)
  BY <1>1 DEF EpisodesBounded
<1>4. \A i \in DOMAIN findings : Stored(i) /\ findings[i].key = k => findings[i].episode \in seen
  OBVIOUS
<1> DEFINE top == CHOOSE n \in seen : \A m \in seen : m <= n
<1>5. NextEpisode(k) = top + 1
  BY DEF NextEpisode
<1> HIDE DEF seen
<1>6. \E n \in seen : \A m \in seen : m <= n
  BY <1>1, <1>2, <1>3, Largest
<1>7. top \in seen /\ \A m \in seen : m <= top
  BY <1>6
<1> HIDE DEF top
<1>8. top \in Nat /\ top <= Len(findings)
  BY <1>2, <1>3, <1>7
<1>9. \A i \in DOMAIN findings : Stored(i) /\ findings[i].key = k => findings[i].episode <= top
  BY <1>4, <1>7
<1> QED
  BY <1>1, <1>5, <1>8, <1>9

(* The row a new episode appends.                                          *)
LEMMA OpenedRow ==
    ASSUME findings \in Seq(Finding), EpisodesBounded, NEW k \in Key, OpenEpisode(k)
    PROVE  /\ NewFinding(k) \in Finding
           /\ findings' \in Seq(Finding)
           /\ DOMAIN findings' = 1 .. (Len(findings) + 1)
           /\ \A i \in DOMAIN findings : findings'[i] = findings[i]
           /\ findings'[Len(findings) + 1] = NewFinding(k)
<1>1. NextEpisode(k) \in Nat
  BY NextEpisodeExceeds
<1>2. 0 \in Deadline /\ "open" \in Status
  BY BoundsAssumption DEF Deadline, Forever, Status, Active
<1>3. NewFinding(k) \in Finding
  BY <1>1, <1>2 DEF NewFinding, Finding
<1>4. findings' = Append(findings, NewFinding(k))
  BY DEF OpenEpisode
<1> QED
  BY <1>3, <1>4

----------------------------------------------------------------------------
(* Every step keeps the rows, or opens an episode.                         *)
LEMMA RowStep ==
    ASSUME TypeOK, [Next]_vars
    PROVE  \/ findings' \in Seq(Finding) /\ RowsKept
           \/ \E k \in Key : OpenEpisode(k)
<1> DEFINE Goal == findings' \in Seq(Finding) /\ RowsKept
<1>1. /\ findings \in Seq(Finding) /\ faults \in Nat
      /\ Len(findings) \in Nat /\ DOMAIN findings = 1 .. Len(findings)
      /\ \A i \in DOMAIN findings : findings[i] \in Finding
  BY DEF TypeOK
<1>2. ASSUME UNCHANGED findings PROVE Goal
  BY <1>1, <1>2 DEF RowsKept
<1>3. ASSUME NEW k \in Key, ScanComplete(k) \/ ScanPartial(k) \/ EvaluateFails(k)
             \/ ConditionChanges(k)
      PROVE  Goal
  BY <1>2, <1>3 DEF ScanComplete, ScanPartial, Read, EvaluateFails, ConditionChanges
<1>4. ASSUME NEW k \in Key, RepeatEpisode(k) PROVE Goal
  <2>1. PICK i \in Found(k) :
           IF Lapsed(i, obs[k].at) THEN findings' = [findings EXCEPT ![i] = Reopened(@)]
                                   ELSE UNCHANGED findings
    BY <1>4 DEF RepeatEpisode
  <2>2. CASE ~Lapsed(i, obs[k].at)
    BY <1>2, <2>1, <2>2
  <2>3. CASE Lapsed(i, obs[k].at)
    <3>1. i \in DOMAIN findings /\ findings[i].status = "suppressed"
      BY <2>3 DEF Found, ActiveOf, Lapsed
    <3>2. findings' = [findings EXCEPT ![i] = Reopened(findings[i])]
      BY <2>1, <2>3
    <3>3. Reopened(findings[i]).status # "trimmed" /\ findings[i].status \in Active
      BY <1>1, <3>1, ReopenedFits DEF Active
    <3> QED
      BY <1>1, <3>1, <3>2, <3>3, ReopenedFits, ReplaceRow
  <2> QED
    BY <2>2, <2>3
<1>5. ASSUME NEW k \in Key, Recover(k) PROVE Goal
  <2>1. PICK i \in Found(k) :
           findings' = [findings EXCEPT ![i].status = "resolved", ![i].by = "collector"]
    BY <1>5 DEF Recover
  <2> DEFINE f == [findings[i] EXCEPT !.status = "resolved", !.by = "collector"]
  <2>2. i \in DOMAIN findings /\ findings[i].status \in Active
    BY DEF Found, ActiveOf
  <2>3. findings' = [findings EXCEPT ![i] = f]
    BY <2>1
  <2>4. /\ f \in Finding /\ f.key = findings[i].key /\ f.episode = findings[i].episode
        /\ f.status = "resolved"
    <3>1. "resolved" \in Status
      BY DEF Status
    <3> QED
      BY <1>1, <2>2, <3>1, ClosedFits
  <2>5. findings[i].status # "trimmed" /\ "resolved" \notin Active
    BY <2>2 DEF Active
  <2> HIDE DEF f
  <2> QED
    BY <1>1, <2>3, <2>4, <2>5, ReplaceRow
<1>6. ASSUME NEW k \in Key, NoTransition(k) PROVE Goal
  <2>1. CASE UNCHANGED findings
    BY <1>2, <2>1
  <2>2. CASE \E i \in Found(k) :
                 findings' = [findings EXCEPT ![i] =
                                 IF Lapsed(i, obs[k].at) THEN Reopened(@) ELSE @]
    <3>1. PICK i \in Found(k) :
             findings' = [findings EXCEPT ![i] =
                             IF Lapsed(i, obs[k].at) THEN Reopened(@) ELSE @]
      BY <2>2
    <3>2. i \in DOMAIN findings /\ findings[i].status \in Active
      BY DEF Found, ActiveOf
    <3>3. CASE ~Lapsed(i, obs[k].at)
      <4>1. findings' = [findings EXCEPT ![i] = findings[i]]
        BY <3>1, <3>3
      <4>2. findings' = findings
        BY <1>1, <4>1
      <4> QED
        BY <1>2, <4>2
    <3>4. CASE Lapsed(i, obs[k].at)
      <4>1. findings[i].status = "suppressed"
        BY <3>4 DEF Lapsed
      <4>2. findings' = [findings EXCEPT ![i] = Reopened(findings[i])]
        BY <3>1, <3>4
      <4>3. Reopened(findings[i]).status # "trimmed"
        BY <1>1, <3>2, <4>1, ReopenedFits
      <4> QED
        BY <1>1, <3>2, <4>1, <4>2, <4>3, ReopenedFits, ReplaceRow
    <3> QED
      BY <3>3, <3>4
  <2> QED
    BY <1>6, <2>1, <2>2 DEF NoTransition
<1>7. ASSUME NEW k \in Key, NotifyOpened(k) PROVE Goal
  BY <1>1, <1>7, AnnounceKeeps DEF NotifyOpened
<1>8. ASSUME NEW p \in Reader, ListExpired(p) \/ ReloadMoved(p) PROVE Goal
  BY <1>2, <1>8 DEF ListExpired, ReloadMoved
<1>9. ASSUME NEW p \in Reader, ReopenExpired(p) PROVE Goal
  <2> DEFINE moved == {i \in sweep[p].ids : Lapsed(i, sweep[p].at)}
  <2>1. findings' = [i \in DOMAIN findings |->
                        IF i \in moved THEN Reopened(findings[i]) ELSE findings[i]]
    BY <1>9 DEF ReopenExpired
  <2>2. \A i \in moved : findings[i].status = "suppressed"
    BY DEF Lapsed
  <2> HIDE DEF moved
  <2>3. \A i \in DOMAIN findings : i \in moved => findings[i].status \in Active
    BY <2>2 DEF Active
  <2>4. \A i \in DOMAIN findings :
           i \in moved => /\ Reopened(findings[i]) \in Finding
                          /\ Reopened(findings[i]).key = findings[i].key
                          /\ Reopened(findings[i]).episode = findings[i].episode
                          /\ findings[i].status # "trimmed"
    BY <1>1, <2>2, ReopenedFits
  <2>5. findings' \in Seq(Finding)
    <3>1. \A i \in DOMAIN findings : findings'[i] \in Finding
      BY <1>1, <2>1, <2>4
    <3>2. findings' = [i \in DOMAIN findings |-> findings'[i]]
      BY <2>1
    <3> QED
      BY <1>1, <3>1, <3>2, SeqPointwise
  <2>6. RowsKept
    BY <2>1, <2>3, <2>4 DEF RowsKept
  <2> QED
    BY <2>5, <2>6
<1>10. ASSUME NEW p \in Reader, AnnounceMoved(p) PROVE Goal
  BY <1>1, <1>2, <1>10, AnnounceKeeps DEF AnnounceMoved
<1>11. ASSUME CancelRequest \/ Tick \/ Restart PROVE Goal
  BY <1>2, <1>11 DEF CancelRequest, Tick, Restart
<1>12. ASSUME NEW i \in DOMAIN findings, Acknowledge(i) PROVE Goal
  <2> DEFINE f == [findings[i] EXCEPT !.status = "acknowledged"]
  <2>1. findings' = [findings EXCEPT ![i] = f] /\ findings[i].status = "open"
    BY <1>12 DEF Acknowledge, Operate
  <2>2. /\ f \in Finding /\ f.key = findings[i].key /\ f.episode = findings[i].episode
        /\ f.status = "acknowledged"
    <3>1. "acknowledged" \in Status
      BY DEF Status, Active
    <3> QED
      BY <1>1, <3>1, MovedFits
  <2>3. findings[i].status \in Active /\ findings[i].status # "trimmed"
    BY <2>1 DEF Active
  <2> HIDE DEF f
  <2> QED
    BY <1>1, <2>1, <2>2, <2>3, ReplaceRow
<1>13. ASSUME NEW i \in DOMAIN findings, Resolve(i) PROVE Goal
  <2> DEFINE f == [findings[i] EXCEPT !.status = "resolved", !.by = "operator"]
  <2>1. findings' = [findings EXCEPT ![i] = f] /\ findings[i].status \in Active
    BY <1>13 DEF Resolve, Operate
  <2>2. /\ f \in Finding /\ f.key = findings[i].key /\ f.episode = findings[i].episode
        /\ f.status = "resolved"
    <3>1. "resolved" \in Status
      BY DEF Status
    <3> QED
      BY <1>1, <3>1, ClosedFits
  <2>3. findings[i].status # "trimmed"
    BY <2>1 DEF Active
  <2> HIDE DEF f
  <2> QED
    BY <1>1, <2>1, <2>2, <2>3, ReplaceRow
<1>14. ASSUME NEW i \in DOMAIN findings, Suppress(i) PROVE Goal
  <2>1. PICK until \in (now + 1) .. Forever :
           findings' = [findings EXCEPT ![i].status = "suppressed", ![i].until = until]
    BY <1>14 DEF Suppress
  <2> DEFINE f == [findings[i] EXCEPT !.status = "suppressed", !.until = until]
  <2>2. findings' = [findings EXCEPT ![i] = f] /\ findings[i].status \in {"open", "acknowledged"}
    BY <1>14, <2>1 DEF Suppress, Operate
  <2>3. /\ f \in Finding /\ f.key = findings[i].key /\ f.episode = findings[i].episode
        /\ f.status = "suppressed"
    <3>1. "suppressed" \in Status /\ until \in Deadline /\ findings[i] \in Finding
      BY <1>1, BoundsAssumption DEF Status, Active, Deadline, Forever, TypeOK
    <3> QED
      <4> DEFINE r == findings[i]
      <4>1. [r EXCEPT !.status = "suppressed", !.until = until] \in Finding
        BY <3>1 DEF Finding
      <4> QED
        BY <3>1, <4>1 DEF Finding
  <2>4. findings[i].status \in Active /\ findings[i].status # "trimmed"
    BY <2>2 DEF Active
  <2> HIDE DEF f
  <2> QED
    BY <1>1, <2>2, <2>3, <2>4, ReplaceRow
<1>15. ASSUME NEW i \in DOMAIN findings, Trim(i) PROVE Goal
  <2> DEFINE f == [findings[i] EXCEPT !.status = "trimmed"]
  <2>1. findings' = [findings EXCEPT ![i] = f] /\ findings[i].status = "resolved"
    BY <1>15 DEF Trim
  <2>2. /\ f \in Finding /\ f.key = findings[i].key /\ f.episode = findings[i].episode
        /\ f.status = "trimmed"
    <3>1. "trimmed" \in Status
      BY DEF Status
    <3> QED
      BY <1>1, <3>1, MovedFits
  <2>3. "trimmed" \notin Active /\ findings[i].status # "trimmed"
    BY <2>1 DEF Active
  <2> HIDE DEF f
  <2> QED
    BY <1>1, <2>1, <2>2, <2>3, ReplaceRow
<1>16. CASE UNCHANGED vars
  BY <1>2, <1>16 DEF vars
<1> QED
  BY <1>3, <1>4, <1>5, <1>6, <1>7, <1>8, <1>9, <1>10, <1>11, <1>12, <1>13, <1>14, <1>15, <1>16
     DEF Next, Evaluate, Continue
----------------------------------------------------------------------------
(* The type invariant is preserved: the rows by RowStep, then one step per *)
(* action for the rest.                                                    *)
LEMMA TypeStep ==
    ASSUME TypeOK, EpisodesBounded, [Next]_vars
    PROVE  TypeOK'
<1>1. /\ findings \in Seq(Finding) /\ faults \in Nat
      /\ Len(findings) \in Nat /\ DOMAIN findings = 1 .. Len(findings)
  BY DEF TypeOK
<1>2. findings' \in Seq(Finding)
  BY <1>1, RowStep, OpenedRow
<1>3. Nothing \in Observation /\ Idle \in [stage : {"idle", "listed", "moved", "tell"},
                                           at : Nat, ids : SUBSET Nat]
  BY DEF Nothing, Observation, Idle
<1>4. MaxFaults \in Nat /\ Relative \subseteq Key
  BY BoundsAssumption, KeysAssumption
<1> USE DEF memory, scan, bounds
<1>5. ASSUME NEW k \in Key, NEW d \in BOOLEAN, NEW c \in BOOLEAN, Read(k, d, c)
      PROVE  /\ stage' \in [Key -> {"idle", "read", "tell"}]
             /\ obs' \in [Key -> Observation]
             /\ UNCHANGED <<findings, present, row, sweep, now, ops, restarts>>
  <2>1. [detected |-> d, complete |-> c, at |-> now, truth |-> k \in present] \in Observation
    BY DEF TypeOK, Observation
  <2> QED
    BY <1>5, <2>1 DEF Read, TypeOK
<1>6. ASSUME NEW k \in Key, ScanComplete(k) PROVE TypeOK'
  <2>1. CASE k \in Relative
    <3>1. ObserveCount(k) /\ Read(k, streak'[k] = 2, TRUE) /\ UNCHANGED faults
      BY <1>6, <2>1 DEF ScanComplete
    <3>2. base' \in [Relative -> {"none", "calm", "spike"}] /\ streak' \in [Relative -> 0 .. 2]
      <4>1. Level(k) \in {"none", "calm", "spike"}
        BY DEF Level
      <4>2. base' \in [Relative -> {"none", "calm", "spike"}]
        BY <3>1, <4>1 DEF ObserveCount, TypeOK
      <4>3. (IF base[k] = "calm" /\ k \in present THEN (IF streak[k] = 0 THEN 1 ELSE 2) ELSE 0) \in 0 .. 2
        OBVIOUS
      <4>4. streak' \in [Relative -> 0 .. 2]
        BY <3>1, <4>3 DEF ObserveCount, TypeOK
      <4> QED
        BY <4>2, <4>4
    <3>3. (streak'[k] = 2) \in BOOLEAN
      OBVIOUS
    <3> QED
      BY <1>2, <1>5, <3>1, <3>2, <3>3 DEF TypeOK
  <2>2. CASE k \notin Relative
    <3>1. Read(k, k \in present, TRUE) /\ UNCHANGED <<base, streak, faults>>
      BY <1>6, <2>2 DEF ScanComplete
    <3>2. (k \in present) \in BOOLEAN
      OBVIOUS
    <3> QED
      BY <1>2, <1>5, <3>1, <3>2 DEF TypeOK
  <2> QED
    BY <2>1, <2>2
<1>7. ASSUME NEW k \in Key, ScanPartial(k) PROVE TypeOK'
  <2>1. PICK d \in BOOLEAN : Read(k, d, FALSE) /\ faults' = faults + 1 /\ UNCHANGED <<base, streak>>
    BY <1>7 DEF ScanPartial
  <2>2. /\ stage' \in [Key -> {"idle", "read", "tell"}] /\ obs' \in [Key -> Observation]
        /\ UNCHANGED <<present, row, sweep, now, ops, restarts>>
    BY <1>5, <2>1, FALSE \in BOOLEAN
  <2> QED
    BY <1>1, <1>2, <2>1, <2>2 DEF TypeOK
<1>8. ASSUME NEW k \in Key, NEW next \in {"idle", "tell"}, NEW id \in Nat, After(k, next, id)
      PROVE  TypeOK'
  BY <1>2, <1>3, <1>8 DEF After, TypeOK
<1>9. ASSUME NEW k \in Key, Evaluate(k) PROVE TypeOK'
  <2>1. CASE OpenEpisode(k)
    BY <1>1, <1>8, <2>1 DEF OpenEpisode
  <2>2. CASE RepeatEpisode(k)
    <3>1. PICK i \in Found(k) : After(k, "tell", i) \/ After(k, "idle", 0)
      BY <2>2 DEF RepeatEpisode
    <3>2. i \in Nat
      BY <1>1 DEF Found, ActiveOf
    <3> QED
      BY <1>8, <3>1, <3>2
  <2>3. CASE Recover(k) \/ NoTransition(k)
    BY <1>8, <2>3 DEF Recover, NoTransition
  <2>4. CASE NotifyOpened(k)
    <3>1. faults' \in Nat
      BY <1>1, <2>4, AnnounceKeeps DEF NotifyOpened
    <3> QED
      BY <1>2, <2>4, <3>1 DEF NotifyOpened, TypeOK
  <2> QED
    BY <1>9, <2>1, <2>2, <2>3, <2>4 DEF Evaluate
<1>10. ASSUME NEW k \in Key, EvaluateFails(k) PROVE TypeOK'
  BY <1>2, <1>3, <1>10 DEF EvaluateFails, TypeOK
<1>11. ASSUME NEW k \in Key, ConditionChanges(k) PROVE TypeOK'
  BY <1>2, <1>11 DEF ConditionChanges, TypeOK
<1> DEFINE Step == [stage : {"idle", "listed", "moved", "tell"}, at : Nat, ids : SUBSET Nat]
<1>12. ASSUME NEW p \in Reader, NEW step \in Step, Sweep(p, step)
       PROVE  sweep' \in [Reader -> Step]
  BY <1>12 DEF Sweep, TypeOK
<1>13. ASSUME NEW p \in Reader, ListExpired(p) PROVE TypeOK'
  <2> DEFINE ids == {i \in DOMAIN findings : Lapsed(i, now)}
             step == [stage |-> "listed", at |-> now, ids |-> ids]
  <2>1. ids \subseteq Nat
    BY <1>1
  <2>2. step \in Step
    BY <2>1 DEF TypeOK
  <2>3. Sweep(p, step)
    BY <1>13 DEF ListExpired
  <2> HIDE DEF ids, step, Step
  <2>4. sweep' \in [Reader -> Step]
    BY <1>12, <2>2, <2>3
  <2> QED
    BY <1>2, <1>13, <2>4 DEF ListExpired, TypeOK, Step
<1>14. ASSUME NEW p \in Reader
       PROVE  /\ sweep[p] \in Step /\ sweep[p].ids \subseteq Nat
              /\ \A st \in {"idle", "listed", "moved", "tell"}, ids \in SUBSET sweep[p].ids :
                    [sweep[p] EXCEPT !.stage = st, !.ids = ids] \in Step
              /\ [sweep[p] EXCEPT !.stage = "moved"] \in Step
              /\ \A ids \in SUBSET sweep[p].ids : [sweep[p] EXCEPT !.ids = ids] \in Step
  BY <1>14 DEF TypeOK
<1>15. ASSUME NEW p \in Reader, ReopenExpired(p) PROVE TypeOK'
  <2> DEFINE moved == {i \in sweep[p].ids : Lapsed(i, sweep[p].at)}
  <2>1. Sweep(p, [sweep[p] EXCEPT !.stage = "moved", !.ids = moved])
    BY <1>15 DEF ReopenExpired
  <2>2. [sweep[p] EXCEPT !.stage = "moved", !.ids = moved] \in Step
    BY <1>14
  <2> HIDE DEF Step, moved
  <2>3. sweep' \in [Reader -> Step]
    BY <1>12, <2>1, <2>2
  <2> QED
    BY <1>2, <1>15, <2>3 DEF ReopenExpired, TypeOK, Step
<1>16. ASSUME NEW p \in Reader, ReloadMoved(p) PROVE TypeOK'
  <2> DEFINE open == {i \in sweep[p].ids : findings[i].status = "open"}
  <2>1. \/ Sweep(p, [sweep[p] EXCEPT !.stage = "tell", !.ids = open])
        \/ Sweep(p, Idle)
    BY <1>16 DEF ReloadMoved
  <2>2. [sweep[p] EXCEPT !.stage = "tell", !.ids = open] \in Step
    BY <1>14
  <2> HIDE DEF open
  <2>3. sweep' \in [Reader -> Step]
    BY <1>3, <1>12, <2>1, <2>2
  <2> QED
    BY <1>2, <1>16, <2>3 DEF ReloadMoved, TypeOK, Step
<1>17. ASSUME NEW p \in Reader, AnnounceMoved(p) PROVE TypeOK'
  <2>1. faults' \in Nat
    BY <1>1, <1>17, AnnounceKeeps DEF AnnounceMoved
  <2>2. sweep' \in [Reader -> Step]
    <3>1. CASE Sweep(p, Idle)
      BY <1>3, <1>12, <3>1
    <3>2. CASE \E i \in sweep[p].ids : Sweep(p, [sweep[p] EXCEPT !.ids = @ \ {i}])
      <4>1. PICK i \in sweep[p].ids : Sweep(p, [sweep[p] EXCEPT !.ids = sweep[p].ids \ {i}])
        BY <3>2
      <4>2. [sweep[p] EXCEPT !.ids = sweep[p].ids \ {i}] \in Step
        BY <1>14
      <4> HIDE DEF Step
      <4> QED
        BY <1>12, <4>1, <4>2
    <3> QED
      BY <1>17, <3>1, <3>2 DEF AnnounceMoved
  <2> QED
    BY <1>2, <1>17, <2>1, <2>2 DEF AnnounceMoved, TypeOK
<1>18. ASSUME CancelRequest PROVE TypeOK'
  <2>1. sweep' \in [Reader -> Step]
    BY <1>3, <1>12, <1>18 DEF CancelRequest, Reader
  <2> QED
    BY <1>2, <1>18, <2>1 DEF CancelRequest, TypeOK
<1>19. ASSUME NEW i \in DOMAIN findings, Acknowledge(i) \/ Resolve(i) \/ Suppress(i) PROVE TypeOK'
  <2>1. \E from : Operate(i, from)
    BY <1>19 DEF Acknowledge, Resolve, Suppress
  <2>2. ops' = ops + 1 /\ UNCHANGED <<present, base, streak, stage, obs, row, sweep, now, faults, restarts>>
    BY <2>1 DEF Operate
  <2> QED
    BY <1>2, <2>2 DEF TypeOK
<1>20. ASSUME NEW i \in DOMAIN findings, Trim(i) PROVE TypeOK'
  BY <1>2, <1>20 DEF Trim, TypeOK
<1>21. ASSUME Tick PROVE TypeOK'
  BY <1>2, <1>21 DEF Tick, TypeOK
<1>22. ASSUME Restart PROVE TypeOK'
  BY <1>2, <1>3, <1>22 DEF Restart, TypeOK
<1>23. CASE UNCHANGED vars
  BY <1>23 DEF vars, TypeOK
<1> QED
  BY <1>6, <1>7, <1>9, <1>10, <1>11, <1>13, <1>15, <1>16, <1>17, <1>18, <1>19, <1>20, <1>21,
     <1>22, <1>23
     DEF Next, Continue
----------------------------------------------------------------------------
(* One active episode, and the order of the numbers.                       *)

(* The inductive invariant of the rows.                                    *)
FindingInv == TypeOK /\ EpisodesBounded /\ OneActiveEpisode /\ EpisodesAscend

(* Rows that are kept disturb nothing; a new episode is the only active    *)
(* one of its key, and numbered above the others.                          *)
LEMMA EpisodesStep ==
    ASSUME FindingInv, [Next]_vars
    PROVE  EpisodesBounded' /\ OneActiveEpisode' /\ EpisodesAscend'
<1>1. /\ findings \in Seq(Finding)
      /\ Len(findings) \in Nat /\ DOMAIN findings = 1 .. Len(findings)
  BY DEF FindingInv, TypeOK
<1>2. CASE RowsKept
  BY <1>2 DEF RowsKept, FindingInv, EpisodesBounded, OneActiveEpisode, EpisodesAscend, Stored
<1>3. CASE \E k \in Key : OpenEpisode(k)
  <2>1. PICK k \in Key : OpenEpisode(k)
    BY <1>3
  <2> DEFINE n == Len(findings) + 1
  <2>2. /\ DOMAIN findings' = 1 .. n
        /\ \A i \in DOMAIN findings : findings'[i] = findings[i]
        /\ findings'[n] = NewFinding(k)
    BY <1>1, <2>1, OpenedRow DEF FindingInv
  <2>3. findings'[n].key = k /\ findings'[n].episode = NextEpisode(k)
    BY <2>2 DEF NewFinding
  <2>4. /\ NextEpisode(k) \in Nat /\ NextEpisode(k) <= n
        /\ \A i \in DOMAIN findings :
              Stored(i) /\ findings[i].key = k => findings[i].episode < NextEpisode(k)
    BY <1>1, NextEpisodeExceeds DEF FindingInv
  <2>5. \A i \in DOMAIN findings : findings[i].key = k => findings[i].status \notin Active
    BY <2>1 DEF OpenEpisode, Found, ActiveOf
  <2>6. \A i \in DOMAIN findings' : i \in DOMAIN findings \/ i = n
    BY <1>1, <2>2
  <2> HIDE DEF n
  <2>7. EpisodesBounded'
    BY <2>2, <2>3, <2>4, <2>6 DEF EpisodesBounded, FindingInv
  <2>8. OneActiveEpisode'
    BY <2>2, <2>3, <2>5, <2>6 DEF OneActiveEpisode, FindingInv
  <2>9. EpisodesAscend'
    <3> SUFFICES ASSUME NEW i \in DOMAIN findings', NEW j \in DOMAIN findings',
                        Stored(i)', Stored(j)', findings'[i].key = findings'[j].key, i < j
                 PROVE  findings'[i].episode < findings'[j].episode
      BY DEF EpisodesAscend
    <3>1. i \in DOMAIN findings
      BY <1>1, <2>2, <2>6 DEF n
    <3>2. CASE j \in DOMAIN findings
      BY <2>2, <3>1, <3>2 DEF EpisodesAscend, FindingInv, Stored
    <3>3. CASE j = n
      BY <2>2, <2>3, <2>4, <3>1, <3>3 DEF Stored
    <3> QED
      BY <2>6, <3>2, <3>3
  <2> QED
    BY <2>7, <2>8, <2>9
<1> QED
  BY <1>2, <1>3, RowStep DEF FindingInv

(* The type, the uniqueness and the order of the episodes are inductive    *)
(* together: a new number is only known to be one because it is bounded.   *)
LEMMA FindingInvariant == Spec => []FindingInv
<1>1. Init => FindingInv
  <2> SUFFICES ASSUME Init PROVE FindingInv
    OBVIOUS
  <2>1. findings = <<>> /\ findings \in Seq(Finding) /\ DOMAIN findings = {}
    BY DEF Init
  <2>2. /\ Nothing \in Observation
        /\ Idle \in [stage : {"idle", "listed", "moved", "tell"}, at : Nat, ids : SUBSET Nat]
    BY DEF Nothing, Observation, Idle
  <2>3. TypeOK
    BY <2>1, <2>2 DEF Init, TypeOK
  <2> QED
    BY <2>1, <2>3 DEF FindingInv, EpisodesBounded, OneActiveEpisode, EpisodesAscend
<1>2. FindingInv /\ [Next]_vars => FindingInv'
  BY TypeStep, EpisodesStep DEF FindingInv
<1> QED
  BY <1>1, <1>2, PTL DEF Spec

(* The rows and the state of the scans, the sweeps and the clock keep      *)
(* their types, whatever the operations of security.go do to them.         *)
THEOREM FindingsTypeCorrect == Spec => []TypeOK
<1>1. FindingInv => TypeOK
  BY DEF FindingInv
<1> QED
  BY <1>1, FindingInvariant, PTL

(* A fingerprint has one active episode at most: Evaluate opens one only   *)
(* in the transaction that found none, and nothing else makes a row active *)
(* that was not.                                                           *)
THEOREM EpisodesAreUnique == Spec => []OneActiveEpisode
<1>1. FindingInv => OneActiveEpisode
  BY DEF FindingInv
<1> QED
  BY <1>1, FindingInvariant, PTL

(* The kept episodes of a fingerprint are numbered in the order they were  *)
(* opened: MAX(episode) + 1 exceeds them all, also after retention.        *)
THEOREM EpisodesAreOrdered == Spec => []EpisodesAscend
<1>1. FindingInv => EpisodesAscend
  BY DEF FindingInv
<1> QED
  BY <1>1, FindingInvariant, PTL

----------------------------------------------------------------------------
(* Announcements.                                                          *)

(* Who still owes an announcement of a row.                                *)
OwedByScan(i)     == stage[findings[i].key] = "tell" /\ row[findings[i].key] = i
OwedBySweep(p, i) == sweep[p].stage \in {"moved", "tell"} /\ i \in sweep[p].ids

One(b) == IF b THEN 1 ELSE 0

(* Each opening is owed by the one transaction that made it.               *)
OpeningsOwed ==
    \A i \in DOMAIN findings :
        findings[i].told + One(OwedByScan(i)) + One(OwedBySweep("ticker", i))
            + One(OwedBySweep("request", i)) <= findings[i].opened

(* Scans and sweeps speak of rows that are there, scans of their own.      *)
RowsKnown ==
    /\ \A p \in Reader : sweep[p].ids \subseteq DOMAIN findings
    /\ \A k \in Key : stage[k] = "tell" => row[k] \in DOMAIN findings /\ findings[row[k]].key = k

(* The inductive invariant of the announcements.                           *)
AnnounceInv == FindingInv /\ RowsKnown /\ OpeningsOwed

(* No row leaves the sequence, so who speaks of one still does.            *)
LEMMA RowsKnownStep ==
    ASSUME FindingInv, RowsKnown, [Next]_vars
    PROVE  RowsKnown'
<1>1. /\ findings \in Seq(Finding)
      /\ Len(findings) \in Nat /\ DOMAIN findings = 1 .. Len(findings)
      /\ sweep \in [Reader -> [stage : {"idle", "listed", "moved", "tell"},
                               at : Nat, ids : SUBSET Nat]]
      /\ stage \in [Key -> {"idle", "read", "tell"}]
      /\ row \in [Key -> Nat]
  BY DEF FindingInv, TypeOK
<1> USE DEF scan, bounds, memory
<1>2. /\ DOMAIN findings \subseteq DOMAIN findings'
      /\ \A i \in DOMAIN findings : findings'[i].key = findings[i].key
  <2>1. CASE RowsKept
    BY <2>1 DEF RowsKept
  <2>2. ASSUME NEW k \in Key, OpenEpisode(k)
        PROVE  /\ DOMAIN findings \subseteq DOMAIN findings'
               /\ \A i \in DOMAIN findings : findings'[i].key = findings[i].key
    BY <1>1, <2>2, OpenedRow DEF FindingInv
  <2> QED
    BY <2>1, <2>2, RowStep DEF FindingInv
<1>3. ASSUME UNCHANGED sweep PROVE \A p \in Reader : sweep'[p].ids \subseteq DOMAIN findings'
  BY <1>2, <1>3 DEF RowsKnown
<1>4. ASSUME UNCHANGED <<stage, row>>
      PROVE  \A k \in Key : stage'[k] = "tell" =>
                row'[k] \in DOMAIN findings' /\ findings'[row'[k]].key = k
  BY <1>2, <1>4 DEF RowsKnown
<1>5. ASSUME NEW k \in Key, NEW next \in {"idle", "read"},
             stage' = [stage EXCEPT ![k] = next],
             UNCHANGED row \/ row' = [row EXCEPT ![k] = 0], UNCHANGED sweep
      PROVE  RowsKnown'
  <2>1. \A q \in Key : stage'[q] = "tell" => stage[q] = "tell" /\ row'[q] = row[q]
    BY <1>1, <1>5
  <2> QED
    BY <1>2, <1>3, <1>5, <2>1 DEF RowsKnown
<1>6. ASSUME NEW k \in Key, NEW i \in DOMAIN findings', findings'[i].key = k,
             stage' = [stage EXCEPT ![k] = "tell"], row' = [row EXCEPT ![k] = i], UNCHANGED sweep
      PROVE  RowsKnown'
  <2>1. \A q \in Key : q = k \/ (stage'[q] = stage[q] /\ row'[q] = row[q])
    BY <1>6
  <2>2. row'[k] = i
    BY <1>1, <1>6
  <2> QED
    BY <1>2, <1>3, <1>6, <2>1, <2>2 DEF RowsKnown
<1>7. ASSUME NEW p \in Reader, NEW step, Sweep(p, step), step.ids \subseteq DOMAIN findings,
             UNCHANGED <<stage, row>>
      PROVE  RowsKnown'
  <2>1. \A q \in Reader : sweep'[q].ids = (IF q = p THEN step.ids ELSE sweep[q].ids)
    BY <1>1, <1>7 DEF Sweep
  <2> QED
    BY <1>2, <1>4, <1>7, <2>1 DEF RowsKnown
<1>8. ASSUME NEW k \in Key, ScanComplete(k) \/ ScanPartial(k) \/ EvaluateFails(k) \/ Recover(k)
             \/ NoTransition(k) \/ NotifyOpened(k)
      PROVE  RowsKnown'
  <2>1. \E next \in {"idle", "read"} : stage' = [stage EXCEPT ![k] = next]
    BY <1>8 DEF ScanComplete, ScanPartial, Read, EvaluateFails, Recover, NoTransition, After,
                NotifyOpened
  <2>2. (UNCHANGED row \/ row' = [row EXCEPT ![k] = 0]) /\ UNCHANGED sweep
    BY <1>8 DEF ScanComplete, ScanPartial, Read, EvaluateFails, Recover, NoTransition, After,
                NotifyOpened
  <2> QED
    BY <1>5, <2>1, <2>2
<1>9. ASSUME NEW k \in Key, OpenEpisode(k) PROVE RowsKnown'
  <2>1. /\ DOMAIN findings' = 1 .. (Len(findings) + 1)
        /\ findings'[Len(findings) + 1] = NewFinding(k)
    BY <1>1, <1>9, OpenedRow DEF FindingInv
  <2>2. NewFinding(k).key = k
    BY DEF NewFinding
  <2>3. Len(findings) + 1 \in DOMAIN findings' /\ findings'[Len(findings) + 1].key = k
    BY <1>1, <2>1, <2>2
  <2> QED
    BY <1>6, <1>9, <2>3 DEF OpenEpisode, After
<1>10. ASSUME NEW k \in Key, RepeatEpisode(k) PROVE RowsKnown'
  <2>1. PICK i \in Found(k) : After(k, "tell", i) \/ After(k, "idle", 0)
    BY <1>10 DEF RepeatEpisode
  <2>2. i \in DOMAIN findings' /\ findings'[i].key = k
    BY <1>2 DEF Found, ActiveOf
  <2> QED
    BY <1>5, <1>6, <2>1, <2>2 DEF After
<1>11. ASSUME NEW p \in Reader, ListExpired(p) PROVE RowsKnown'
  <2>1. PICK step : Sweep(p, step) /\ step.ids = {i \in DOMAIN findings : Lapsed(i, now)}
    BY <1>11 DEF ListExpired
  <2> QED
    BY <1>7, <1>11, <2>1 DEF ListExpired
<1>12. ASSUME NEW p \in Reader, ReopenExpired(p) \/ ReloadMoved(p) \/ AnnounceMoved(p)
       PROVE  RowsKnown'
  <2>1. sweep[p] \in [stage : {"idle", "listed", "moved", "tell"}, at : Nat, ids : SUBSET Nat]
    BY <1>1
  <2>2. Idle.ids = {}
    BY DEF Idle
  <2>3. \E step : Sweep(p, step) /\ step.ids \subseteq sweep[p].ids
    <3>1. CASE ReopenExpired(p)
      <4> DEFINE moved == {i \in sweep[p].ids : Lapsed(i, sweep[p].at)}
                 step  == [sweep[p] EXCEPT !.stage = "moved", !.ids = moved]
      <4>1. Sweep(p, step)
        BY <3>1 DEF ReopenExpired
      <4>2. step.ids = moved
        BY <2>1
      <4>3. moved \subseteq sweep[p].ids
        OBVIOUS
      <4> HIDE DEF step
      <4> QED
        BY <4>1, <4>2, <4>3
    <3>2. CASE ReloadMoved(p)
      <4>1. CASE Sweep(p, Idle)
        BY <2>2, <4>1
      <4>2. CASE Sweep(p, [sweep[p] EXCEPT !.stage = "tell",
                                           !.ids = {i \in sweep[p].ids : findings[i].status = "open"}])
        <5> DEFINE open == {i \in sweep[p].ids : findings[i].status = "open"}
                   step == [sweep[p] EXCEPT !.stage = "tell", !.ids = open]
        <5>1. step.ids = open /\ open \subseteq sweep[p].ids
          BY <2>1
        <5>2. Sweep(p, step)
          BY <4>2
        <5> HIDE DEF step, open
        <5> QED
          BY <5>1, <5>2
      <4> QED
        BY <3>2, <4>1, <4>2 DEF ReloadMoved
    <3>3. CASE AnnounceMoved(p)
      <4>1. CASE Sweep(p, Idle)
        BY <2>2, <4>1
      <4>2. CASE \E i \in sweep[p].ids : Sweep(p, [sweep[p] EXCEPT !.ids = @ \ {i}])
        <5>1. PICK i \in sweep[p].ids : Sweep(p, [sweep[p] EXCEPT !.ids = sweep[p].ids \ {i}])
          BY <4>2
        <5>2. [sweep[p] EXCEPT !.ids = sweep[p].ids \ {i}].ids = sweep[p].ids \ {i}
          BY <2>1
        <5> QED
          BY <5>1, <5>2
      <4> QED
        BY <3>3, <4>1, <4>2 DEF AnnounceMoved
    <3> QED
      BY <1>12, <3>1, <3>2, <3>3
  <2>4. UNCHANGED <<stage, row>>
    BY <1>12 DEF ReopenExpired, ReloadMoved, AnnounceMoved
  <2> QED
    BY <1>7, <2>3, <2>4 DEF RowsKnown
<1>13. CASE CancelRequest
  <2>1. Sweep("request", Idle) /\ UNCHANGED <<stage, row>> /\ "request" \in Reader
    BY <1>13 DEF CancelRequest, Reader
  <2>2. Idle.ids \subseteq DOMAIN findings
    BY DEF Idle
  <2> QED
    BY <1>7, <2>1, <2>2
<1>14. CASE Restart
  <2>1. \A p \in Reader : sweep'[p].ids = {}
    BY <1>14 DEF Restart, Idle
  <2>2. \A k \in Key : stage'[k] = "idle"
    BY <1>14 DEF Restart
  <2> QED
    BY <2>1, <2>2 DEF RowsKnown
<1>15. ASSUME UNCHANGED <<stage, row, sweep>> PROVE RowsKnown'
  BY <1>3, <1>4, <1>15 DEF RowsKnown
<1>16. ASSUME NEW k \in Key, ConditionChanges(k) PROVE RowsKnown'
  BY <1>15, <1>16 DEF ConditionChanges
<1>17. ASSUME NEW i \in DOMAIN findings, Acknowledge(i) \/ Resolve(i) \/ Suppress(i) \/ Trim(i)
       PROVE  RowsKnown'
  BY <1>15, <1>17 DEF Acknowledge, Resolve, Suppress, Operate, Trim
<1>18. CASE Tick \/ UNCHANGED vars
  BY <1>15, <1>18 DEF Tick, vars
<1> QED
  BY <1>8, <1>9, <1>10, <1>11, <1>12, <1>13, <1>14, <1>16, <1>17, <1>18
     DEF Next, Evaluate, Continue

(* A step that opens nothing, announces nothing and takes over no debt.    *)
CountsKept ==
    /\ DOMAIN findings' = DOMAIN findings
    /\ \A i \in DOMAIN findings :
          /\ findings'[i].key = findings[i].key
          /\ findings'[i].told = findings[i].told
          /\ findings'[i].opened \in Nat /\ findings'[i].opened >= findings[i].opened

(* A step that announces nothing and takes over no debt keeps the balance. *)
LEMMA DebtsShrink ==
    ASSUME FindingInv, OpeningsOwed, CountsKept,
           \A i \in DOMAIN findings : OwedByScan(i)' => OwedByScan(i),
           \A i \in DOMAIN findings, p \in Reader : OwedBySweep(p, i)' => OwedBySweep(p, i)
    PROVE  OpeningsOwed'
<1>1. \A i \in DOMAIN findings : findings[i].told \in Nat /\ findings[i].opened \in Nat
  <2>1. \A i \in DOMAIN findings : findings[i] \in Finding
    BY DEF FindingInv, TypeOK
  <2> QED
    BY <2>1 DEF Finding
<1>2. \A i \in DOMAIN findings :
         /\ One(OwedByScan(i)') \in Nat /\ One(OwedByScan(i)') <= One(OwedByScan(i))
         /\ One(OwedBySweep("ticker", i)') <= One(OwedBySweep("ticker", i))
         /\ One(OwedBySweep("request", i)') <= One(OwedBySweep("request", i))
  BY DEF One, Reader
<1>3. \A i \in DOMAIN findings :
         /\ One(OwedByScan(i)) \in Nat /\ One(OwedByScan(i)') \in Nat
         /\ One(OwedBySweep("ticker", i)) \in Nat /\ One(OwedBySweep("ticker", i)') \in Nat
         /\ One(OwedBySweep("request", i)) \in Nat /\ One(OwedBySweep("request", i)') \in Nat
  BY DEF One
<1> SUFFICES ASSUME NEW i \in DOMAIN findings
             PROVE  findings'[i].told + One(OwedByScan(i)') + One(OwedBySweep("ticker", i)')
                       + One(OwedBySweep("request", i)') <= findings'[i].opened
  BY DEF OpeningsOwed, CountsKept, One
<1>4. findings[i].told + One(OwedByScan(i)) + One(OwedBySweep("ticker", i))
         + One(OwedBySweep("request", i)) <= findings[i].opened
  BY DEF OpeningsOwed
<1> QED
  BY <1>1, <1>2, <1>3, <1>4 DEF CountsKept

(* A row whose status is changed keeps its counts.                         *)
LEMMA ReplaceCounts ==
    ASSUME findings \in Seq(Finding), NEW j, NEW f,
           findings' = [findings EXCEPT ![j] = f],
           j \in DOMAIN findings =>
              /\ f.key = findings[j].key /\ f.told = findings[j].told
              /\ f.opened \in Nat /\ f.opened >= findings[j].opened
    PROVE  CountsKept
<1>1. \A i \in DOMAIN findings : findings[i] \in Finding
  OBVIOUS
<1>2. \A i \in DOMAIN findings : findings[i].opened \in Nat /\ findings[i].opened >= findings[i].opened
  BY <1>1 DEF Finding
<1> QED
  BY <1>2 DEF CountsKept
(* The sweeps owe what they owed when none of them moves.                  *)
LEMMA SameSweeps ==
    ASSUME UNCHANGED sweep
    PROVE  \A i, p : OwedBySweep(p, i)' = OwedBySweep(p, i)
BY DEF OwedBySweep

(* Opening a row makes one actor owe its announcement; announcing it pays. *)
LEMMA DebtsStep ==
    ASSUME AnnounceInv, [Next]_vars
    PROVE  OpeningsOwed'
<1>1. /\ FindingInv /\ RowsKnown /\ OpeningsOwed
      /\ findings \in Seq(Finding) /\ faults \in Nat
      /\ Len(findings) \in Nat /\ DOMAIN findings = 1 .. Len(findings)
      /\ \A i \in DOMAIN findings : findings[i] \in Finding
      /\ \A i \in DOMAIN findings :
            /\ findings[i].key \in Key
            /\ findings[i].told \in Nat /\ findings[i].opened \in Nat
      /\ sweep \in [Reader -> [stage : {"idle", "listed", "moved", "tell"},
                               at : Nat, ids : SUBSET Nat]]
      /\ stage \in [Key -> {"idle", "read", "tell"}]
      /\ row \in [Key -> Nat]
  <2>1. \A i \in DOMAIN findings : findings[i] \in Finding
    BY DEF AnnounceInv, FindingInv, TypeOK
  <2> QED
    BY <2>1 DEF AnnounceInv, FindingInv, TypeOK, Finding
<1> USE DEF scan, bounds, memory
<1>2. \A i \in DOMAIN findings :
         findings[i].told + One(OwedByScan(i)) + One(OwedBySweep("ticker", i))
            + One(OwedBySweep("request", i)) <= findings[i].opened
  BY <1>1 DEF OpeningsOwed
<1>3. ASSUME UNCHANGED findings PROVE CountsKept
  BY <1>1, <1>3 DEF CountsKept
<1>4. ASSUME NEW k \in Key, NEW next \in {"idle", "read"}, stage' = [stage EXCEPT ![k] = next],
             UNCHANGED row \/ row' = [row EXCEPT ![k] = 0], CountsKept
      PROVE  \A i \in DOMAIN findings :
                /\ OwedByScan(i)' => OwedByScan(i)
                /\ OwedByScan(i)' => findings[i].key # k
  BY <1>1, <1>4 DEF OwedByScan, CountsKept
<1>5. ASSUME NEW k \in Key, NEW next \in {"idle", "read"}, stage' = [stage EXCEPT ![k] = next],
             UNCHANGED row \/ row' = [row EXCEPT ![k] = 0], CountsKept, UNCHANGED sweep
      PROVE  OpeningsOwed'
  BY <1>1, <1>4, <1>5, SameSweeps, DebtsShrink
<1>6. ASSUME NEW k \in Key, ScanComplete(k) \/ ScanPartial(k) \/ EvaluateFails(k)
      PROVE  OpeningsOwed'
  <2>1. \E next \in {"idle", "read"} : stage' = [stage EXCEPT ![k] = next]
    BY <1>6 DEF ScanComplete, ScanPartial, Read, EvaluateFails
  <2>2. UNCHANGED <<findings, row, sweep>>
    BY <1>6 DEF ScanComplete, ScanPartial, Read, EvaluateFails
  <2> QED
    BY <1>3, <1>5, <2>1, <2>2
<1>7. ASSUME NEW k \in Key, NEW i \in Found(k), Lapsed(i, obs[k].at),
             findings' = [findings EXCEPT ![i] = Reopened(findings[i])]
      PROVE  /\ CountsKept
             /\ findings'[i].opened = findings[i].opened + 1
             /\ i \in DOMAIN findings /\ findings[i].key = k
             /\ \A j \in DOMAIN findings : j # i => findings'[j].opened = findings[j].opened
  <2>1. i \in DOMAIN findings /\ findings[i].key = k /\ findings[i].status = "suppressed"
    BY <1>7 DEF Found, ActiveOf, Lapsed
  <2>2. /\ Reopened(findings[i]).key = k
        /\ Reopened(findings[i]).opened = findings[i].opened + 1
        /\ Reopened(findings[i]).told = findings[i].told
    BY <1>1, <2>1, ReopenedFits
  <2>3. CountsKept
    <3>1. findings[i].opened + 1 \in Nat /\ findings[i].opened + 1 >= findings[i].opened
      BY <1>1, <2>1
    <3> QED
      BY <1>1, <1>7, <2>1, <2>2, <3>1, ReplaceCounts
  <2> QED
    BY <1>1, <1>7, <2>1, <2>2, <2>3
<1>8. ASSUME NEW k \in Key, OpenEpisode(k) PROVE OpeningsOwed'
  <2> PICK n : n = Len(findings) + 1
    OBVIOUS
  <2>1. /\ DOMAIN findings' = 1 .. n
        /\ \A i \in DOMAIN findings : findings'[i] = findings[i]
        /\ findings'[n] = NewFinding(k)
    BY <1>1, <1>8, OpenedRow DEF FindingInv
  <2>2. findings'[n].key = k /\ findings'[n].opened = 1 /\ findings'[n].told = 0
    BY <2>1 DEF NewFinding
  <2>3. /\ stage' = [stage EXCEPT ![k] = "tell"] /\ row' = [row EXCEPT ![k] = n]
        /\ UNCHANGED sweep
    BY <1>8 DEF OpenEpisode, After
  <2>4. \A i \in DOMAIN findings : i # n
    BY <1>1
  <2>5. ~OwedBySweep("ticker", n)' /\ ~OwedBySweep("request", n)'
    BY <1>1, <2>3, <2>4 DEF OwedBySweep, RowsKnown, Reader
  <2>6. \A i \in DOMAIN findings' : i \in DOMAIN findings \/ i = n
    BY <1>1, <2>1
  <2>7. \A i \in DOMAIN findings :
           /\ OwedByScan(i)' => OwedByScan(i)
           /\ OwedBySweep("ticker", i)' = OwedBySweep("ticker", i)
           /\ OwedBySweep("request", i)' = OwedBySweep("request", i)
    BY <1>1, <2>1, <2>3, <2>4 DEF OwedByScan, OwedBySweep
  <2>8. ASSUME NEW i \in DOMAIN findings'
        PROVE  findings'[i].told + One(OwedByScan(i)') + One(OwedBySweep("ticker", i)')
                  + One(OwedBySweep("request", i)') <= findings'[i].opened
    <3>1. CASE i \in DOMAIN findings
      BY <1>1, <1>2, <2>1, <2>7, <3>1 DEF One
    <3>2. CASE i = n
      <4>1. ~OwedBySweep("ticker", i)' /\ ~OwedBySweep("request", i)'
        BY <2>5, <3>2 DEF OwedBySweep
      <4> QED
        BY <2>2, <3>2, <4>1 DEF One
    <3> QED
      BY <2>6, <2>8, <3>1, <3>2
  <2> QED
    BY <2>8 DEF OpeningsOwed, One
<1>9. ASSUME NEW k \in Key, RepeatEpisode(k) PROVE OpeningsOwed'
  <2>1. PICK i \in Found(k) :
           IF Lapsed(i, obs[k].at)
           THEN After(k, "tell", i) /\ findings' = [findings EXCEPT ![i] = Reopened(@)]
           ELSE After(k, "idle", 0) /\ UNCHANGED findings
    BY <1>9 DEF RepeatEpisode
  <2>2. CASE ~Lapsed(i, obs[k].at)
    <3>1. UNCHANGED <<findings, sweep>> /\ stage' = [stage EXCEPT ![k] = "idle"]
          /\ row' = [row EXCEPT ![k] = 0]
      BY <2>1, <2>2 DEF After
    <3> QED
      BY <1>3, <1>5, <3>1
  <2>3. CASE Lapsed(i, obs[k].at)
    <3>1. /\ CountsKept
          /\ findings'[i].opened = findings[i].opened + 1
          /\ i \in DOMAIN findings /\ findings[i].key = k
          /\ \A j \in DOMAIN findings : j # i => findings'[j].opened = findings[j].opened
      BY <1>7, <2>1, <2>3
    <3>2. /\ stage[k] = "read" /\ stage' = [stage EXCEPT ![k] = "tell"]
          /\ row' = [row EXCEPT ![k] = i] /\ UNCHANGED sweep
      BY <2>1, <2>3 DEF After
    <3>3. ~OwedByScan(i)
      BY <3>1, <3>2 DEF OwedByScan
    <3>4. \A j \in DOMAIN findings :
             /\ OwedByScan(j)' => OwedByScan(j) \/ j = i
             /\ OwedBySweep("ticker", j)' = OwedBySweep("ticker", j)
             /\ OwedBySweep("request", j)' = OwedBySweep("request", j)
      BY <1>1, <3>1, <3>2 DEF OwedByScan, OwedBySweep, CountsKept
    <3>5. ASSUME NEW j \in DOMAIN findings
          PROVE  findings'[j].told + One(OwedByScan(j)') + One(OwedBySweep("ticker", j)')
                    + One(OwedBySweep("request", j)') <= findings'[j].opened
      <4>1. findings[j].told + One(OwedByScan(j)) + One(OwedBySweep("ticker", j))
               + One(OwedBySweep("request", j)) <= findings[j].opened
        BY <1>2
      <4>2. findings'[j].told = findings[j].told
        BY <3>1 DEF CountsKept
      <4>3. CASE j = i
        <5>1. One(OwedByScan(j)) = 0 /\ One(OwedByScan(j)') \in 0 .. 1
          BY <3>3, <4>3 DEF One
        <5>2. /\ One(OwedBySweep("ticker", j)') = One(OwedBySweep("ticker", j))
              /\ One(OwedBySweep("request", j)') = One(OwedBySweep("request", j))
          BY <3>4
        <5>3. One(OwedBySweep("ticker", j)) \in 0 .. 1 /\ One(OwedBySweep("request", j)) \in 0 .. 1
          BY DEF One
        <5> QED
          BY <1>1, <3>1, <4>1, <4>2, <4>3, <5>1, <5>2, <5>3
      <4>4. CASE j # i
        <5>1. OwedByScan(j)' => OwedByScan(j)
          BY <3>4, <4>4
        <5> QED
          BY <1>1, <3>1, <3>4, <4>1, <4>2, <4>4, <5>1 DEF One
      <4> QED
        BY <4>3, <4>4
    <3> QED
      BY <3>1, <3>5 DEF OpeningsOwed, CountsKept, One
  <2> QED
    BY <2>2, <2>3
<1>10. ASSUME NEW k \in Key, Recover(k) PROVE OpeningsOwed'
  <2>1. PICK i \in Found(k) :
           findings' = [findings EXCEPT ![i].status = "resolved", ![i].by = "collector"]
    BY <1>10 DEF Recover
  <2> DEFINE f == [findings[i] EXCEPT !.status = "resolved", !.by = "collector"]
  <2>2. findings' = [findings EXCEPT ![i] = f] /\ i \in DOMAIN findings
    BY <2>1 DEF Found, ActiveOf
  <2>3. f.key = findings[i].key /\ f.told = findings[i].told /\ f.opened = findings[i].opened
    <3>1. "resolved" \in Status
      BY DEF Status
    <3> QED
      BY <1>1, <2>2, <3>1, ClosedFits
  <2> HIDE DEF f
  <2>4. CountsKept
    <3>1. f.opened \in Nat /\ f.opened >= findings[i].opened
      BY <1>1, <2>2, <2>3
    <3> QED
      BY <1>1, <2>2, <2>3, <3>1, ReplaceCounts
  <2> QED
    BY <1>5, <1>10, <2>4 DEF Recover, After
<1>11. ASSUME NEW k \in Key, NoTransition(k) PROVE OpeningsOwed'
  <2>1. CountsKept
    <3>1. CASE UNCHANGED findings
      BY <1>3, <3>1
    <3>2. CASE \E i \in Found(k) :
                  findings' = [findings EXCEPT ![i] =
                                  IF Lapsed(i, obs[k].at) THEN Reopened(@) ELSE @]
      <4>1. PICK i \in Found(k) :
               findings' = [findings EXCEPT ![i] =
                               IF Lapsed(i, obs[k].at) THEN Reopened(findings[i]) ELSE findings[i]]
        BY <3>2
      <4>2. CASE Lapsed(i, obs[k].at)
        BY <1>7, <4>1, <4>2
      <4>3. CASE ~Lapsed(i, obs[k].at)
        <5>1. findings' = findings
          BY <1>1, <4>1, <4>3
        <5> QED
          BY <1>3, <5>1
      <4> QED
        BY <4>2, <4>3
    <3> QED
      BY <1>11, <3>1, <3>2 DEF NoTransition
  <2> QED
    BY <1>5, <1>11, <2>1 DEF NoTransition, After
<1>12. ASSUME NEW k \in Key, NotifyOpened(k) PROVE OpeningsOwed'
  <2>1. /\ stage[k] = "tell" /\ Announce(row[k])
        /\ stage' = [stage EXCEPT ![k] = "idle"] /\ UNCHANGED sweep
    BY <1>12 DEF NotifyOpened
  <2>2. OwedByScan(row[k])
    BY <1>1, <2>1 DEF OwedByScan, RowsKnown
  <2>3. /\ DOMAIN findings' = DOMAIN findings
        /\ \A i \in DOMAIN findings :
              /\ findings'[i].key = findings[i].key
              /\ findings'[i].opened = findings[i].opened
              /\ findings'[i].told = findings[i].told + (IF i = row[k] THEN 1 ELSE 0)
    BY <1>1, <2>1, AnnounceKeeps DEF RowsKept
  <2>4. \A i \in DOMAIN findings :
           /\ OwedByScan(i)' => OwedByScan(i) /\ i # row[k]
           /\ OwedBySweep("ticker", i)' = OwedBySweep("ticker", i)
           /\ OwedBySweep("request", i)' = OwedBySweep("request", i)
    <3>1. UNCHANGED row \/ row' = [row EXCEPT ![k] = 0]
      BY <1>12 DEF NotifyOpened
    <3>2. row[k] \in DOMAIN findings /\ findings[row[k]].key = k
      BY <1>1, <2>1 DEF RowsKnown
    <3> QED
      BY <1>1, <2>1, <2>3, <3>1, <3>2 DEF OwedByScan, OwedBySweep
  <2>5. ASSUME NEW i \in DOMAIN findings
        PROVE  findings'[i].told + One(OwedByScan(i)') + One(OwedBySweep("ticker", i)')
                  + One(OwedBySweep("request", i)') <= findings'[i].opened
    <3>1. findings[i].told + One(OwedByScan(i)) + One(OwedBySweep("ticker", i))
             + One(OwedBySweep("request", i)) <= findings[i].opened
      BY <1>2
    <3> QED
      BY <1>1, <2>2, <2>3, <2>4, <3>1 DEF One
  <2> QED
    BY <2>3, <2>5 DEF OpeningsOwed, One
<1>13. ASSUME CountsKept, UNCHANGED <<stage, row>>
       PROVE  \A i \in DOMAIN findings : OwedByScan(i)' => OwedByScan(i)
  BY <1>13 DEF OwedByScan, CountsKept
<1>14. ASSUME NEW p \in Reader, NEW step, Sweep(p, step), CountsKept, UNCHANGED <<stage, row>>,
              step.stage \in {"moved", "tell"} =>
                  sweep[p].stage \in {"moved", "tell"} /\ step.ids \subseteq sweep[p].ids
       PROVE  OpeningsOwed'
  <2>1. \A q \in Reader : sweep'[q] = IF q = p THEN step ELSE sweep[q]
    BY <1>1, <1>14 DEF Sweep
  <2>2. \A i \in DOMAIN findings, q \in Reader : OwedBySweep(q, i)' => OwedBySweep(q, i)
    BY <1>14, <2>1 DEF OwedBySweep
  <2> QED
    BY <1>1, <1>13, <1>14, <2>2, DebtsShrink
<1>15. ASSUME NEW p \in Reader, ListExpired(p) PROVE OpeningsOwed'
  <2>1. PICK step : Sweep(p, step) /\ step.stage = "listed"
    BY <1>15 DEF ListExpired
  <2>2. CountsKept /\ UNCHANGED <<stage, row>>
    BY <1>3, <1>15 DEF ListExpired
  <2> QED
    BY <1>14, <2>1, <2>2
<1>16. ASSUME NEW p \in Reader, ReloadMoved(p) PROVE OpeningsOwed'
  <2> DEFINE open == {i \in sweep[p].ids : findings[i].status = "open"}
             step == [sweep[p] EXCEPT !.stage = "tell", !.ids = open]
  <2>1. sweep[p].stage = "moved" /\ (Sweep(p, step) \/ Sweep(p, Idle))
    BY <1>16 DEF ReloadMoved
  <2>2. CountsKept /\ UNCHANGED <<stage, row>>
    BY <1>3, <1>16 DEF ReloadMoved
  <2>3. Idle.stage = "idle"
    BY DEF Idle
  <2>4. step.ids = open /\ open \subseteq sweep[p].ids
    BY <1>1
  <2> HIDE DEF step, open
  <2> QED
    BY <1>14, <2>1, <2>2, <2>3, <2>4
<1>17. ASSUME NEW p \in Reader, ReopenExpired(p) PROVE OpeningsOwed'
  <2> DEFINE moved == {i \in sweep[p].ids : Lapsed(i, sweep[p].at)}
             step  == [sweep[p] EXCEPT !.stage = "moved", !.ids = moved]
  <2>1. /\ sweep[p].stage = "listed"
        /\ findings' = [i \in DOMAIN findings |->
                           IF i \in moved THEN Reopened(findings[i]) ELSE findings[i]]
        /\ Sweep(p, step) /\ UNCHANGED <<stage, row>>
    BY <1>17 DEF ReopenExpired
  <2>2. \A i \in moved : findings[i].status = "suppressed"
    BY DEF Lapsed
  <2>3. step.ids = moved /\ step.stage = "moved"
    BY <1>1
  <2> HIDE DEF moved, step
  <2>4. /\ DOMAIN findings' = DOMAIN findings
        /\ \A i \in DOMAIN findings :
              /\ findings'[i].key = findings[i].key
              /\ findings'[i].told = findings[i].told
              /\ findings'[i].opened = findings[i].opened + (IF i \in moved THEN 1 ELSE 0)
    BY <1>1, <2>1, <2>2, ReopenedFits
  <2>5. \A q \in Reader : sweep'[q] = IF q = p THEN step ELSE sweep[q]
    BY <1>1, <2>1 DEF Sweep
  <2>6. \A i \in DOMAIN findings :
           /\ OwedByScan(i)' = OwedByScan(i)
           /\ ~OwedBySweep(p, i)
           /\ OwedBySweep(p, i)' => i \in moved
           /\ \A q \in Reader \ {p} : OwedBySweep(q, i)' = OwedBySweep(q, i)
    BY <2>1, <2>3, <2>4, <2>5 DEF OwedByScan, OwedBySweep
  <2>7. ASSUME NEW i \in DOMAIN findings
        PROVE  findings'[i].told + One(OwedByScan(i)') + One(OwedBySweep("ticker", i)')
                  + One(OwedBySweep("request", i)') <= findings'[i].opened
    <3>1. findings[i].told + One(OwedByScan(i)) + One(OwedBySweep("ticker", i))
             + One(OwedBySweep("request", i)) <= findings[i].opened
      BY <1>2
    <3>2. p = "ticker" \/ p = "request"
      BY DEF Reader
    <3>3. CASE p = "ticker"
      <4>1. "request" \in Reader \ {p}
        BY <3>3 DEF Reader
      <4> QED
        BY <1>1, <2>4, <2>6, <3>1, <3>3, <4>1 DEF One
    <3>4. CASE p = "request"
      <4>1. "ticker" \in Reader \ {p}
        BY <3>4 DEF Reader
      <4> QED
        BY <1>1, <2>4, <2>6, <3>1, <3>4, <4>1 DEF One
    <3> QED
      BY <3>2, <3>3, <3>4
  <2> QED
    BY <2>4, <2>7 DEF OpeningsOwed, One
<1>18. ASSUME NEW p \in Reader, AnnounceMoved(p) PROVE OpeningsOwed'
  <2>1. CASE sweep[p].ids = {}
    <3>1. Sweep(p, Idle) /\ CountsKept /\ UNCHANGED <<stage, row>>
      BY <1>3, <1>18, <2>1 DEF AnnounceMoved
    <3>2. Idle.stage = "idle"
      BY DEF Idle
    <3> QED
      BY <1>14, <3>1, <3>2
  <2>2. CASE sweep[p].ids # {}
    <3>1. PICK j \in sweep[p].ids :
             Announce(j) /\ Sweep(p, [sweep[p] EXCEPT !.ids = sweep[p].ids \ {j}])
      BY <1>18, <2>2 DEF AnnounceMoved
    <3> DEFINE step == [sweep[p] EXCEPT !.ids = sweep[p].ids \ {j}]
    <3>2. sweep[p].stage = "tell" /\ UNCHANGED <<stage, row>>
      BY <1>18 DEF AnnounceMoved
    <3>3. step.ids = sweep[p].ids \ {j} /\ step.stage = "tell" /\ Sweep(p, step)
      BY <1>1, <3>1, <3>2
    <3> HIDE DEF step
    <3>4. /\ DOMAIN findings' = DOMAIN findings
          /\ \A i \in DOMAIN findings :
                /\ findings'[i].key = findings[i].key
                /\ findings'[i].opened = findings[i].opened
                /\ findings'[i].told = findings[i].told + (IF i = j THEN 1 ELSE 0)
      BY <1>1, <3>1, AnnounceKeeps DEF RowsKept
    <3>5. \A q \in Reader : sweep'[q] = IF q = p THEN step ELSE sweep[q]
      BY <1>1, <3>3 DEF Sweep
    <3>6. \A i \in DOMAIN findings :
             /\ OwedByScan(i)' = OwedByScan(i)
             /\ OwedBySweep(p, i)' => OwedBySweep(p, i) /\ i # j
             /\ i = j => OwedBySweep(p, i)
             /\ \A q \in Reader \ {p} : OwedBySweep(q, i)' = OwedBySweep(q, i)
      BY <3>1, <3>2, <3>3, <3>4, <3>5 DEF OwedByScan, OwedBySweep
    <3>7. ASSUME NEW i \in DOMAIN findings
          PROVE  findings'[i].told + One(OwedByScan(i)') + One(OwedBySweep("ticker", i)')
                    + One(OwedBySweep("request", i)') <= findings'[i].opened
      <4>1. findings[i].told + One(OwedByScan(i)) + One(OwedBySweep("ticker", i))
               + One(OwedBySweep("request", i)) <= findings[i].opened
        BY <1>2
      <4>2. p = "ticker" \/ p = "request"
        BY DEF Reader
      <4>3. CASE p = "ticker"
        <5>1. "request" \in Reader \ {p}
          BY <4>3 DEF Reader
        <5> QED
          BY <1>1, <3>4, <3>6, <4>1, <4>3, <5>1 DEF One
      <4>4. CASE p = "request"
        <5>1. "ticker" \in Reader \ {p}
          BY <4>4 DEF Reader
        <5> QED
          BY <1>1, <3>4, <3>6, <4>1, <4>4, <5>1 DEF One
      <4> QED
        BY <4>2, <4>3, <4>4
    <3> QED
      BY <3>4, <3>7 DEF OpeningsOwed, One
  <2> QED
    BY <2>1, <2>2
<1>19. CASE CancelRequest
  <2>1. Sweep("request", Idle) /\ UNCHANGED <<stage, row>> /\ "request" \in Reader /\ CountsKept
    BY <1>3, <1>19 DEF CancelRequest, Reader
  <2>2. Idle.stage = "idle"
    BY DEF Idle
  <2> QED
    BY <1>14, <2>1, <2>2
<1>20. CASE Restart
  <2>1. \A i \in DOMAIN findings, p \in Reader : ~OwedBySweep(p, i)'
    BY <1>20 DEF Restart, OwedBySweep, Idle
  <2>2. CountsKept
    BY <1>3, <1>20 DEF Restart
  <2>3. \A i \in DOMAIN findings : ~OwedByScan(i)'
    BY <1>1, <1>20, <2>2 DEF Restart, OwedByScan, CountsKept
  <2> QED
    BY <1>1, <2>1, <2>2, <2>3, DebtsShrink
<1>21. ASSUME CountsKept, UNCHANGED <<stage, row, sweep>> PROVE OpeningsOwed'
  BY <1>1, <1>13, <1>21, SameSweeps, DebtsShrink
<1>22. ASSUME NEW k \in Key, ConditionChanges(k) PROVE OpeningsOwed'
  BY <1>3, <1>21, <1>22 DEF ConditionChanges
<1>23. ASSUME NEW i \in DOMAIN findings, Acknowledge(i) \/ Resolve(i) \/ Suppress(i) \/ Trim(i)
       PROVE  OpeningsOwed'
  <2>1. PICK f : /\ findings' = [findings EXCEPT ![i] = f]
               /\ f.key = findings[i].key /\ f.told = findings[i].told
               /\ f.opened = findings[i].opened
    <3> DEFINE r == findings[i]
    <3>1. r \in Finding
      BY <1>1
    <3> HIDE DEF r
    <3>2. CASE Acknowledge(i)
      <4> DEFINE f == [r EXCEPT !.status = "acknowledged"]
      <4>1. findings' = [findings EXCEPT ![i] = f]
        BY <3>2 DEF Acknowledge, r
      <4>2. f.key = r.key /\ f.told = r.told /\ f.opened = r.opened
        BY <3>1 DEF Finding
      <4> HIDE DEF f
      <4> QED
        BY <4>1, <4>2 DEF r
    <3>3. CASE Resolve(i)
      <4> DEFINE f == [r EXCEPT !.status = "resolved", !.by = "operator"]
      <4>1. findings' = [findings EXCEPT ![i] = f]
        BY <3>3 DEF Resolve, r
      <4>2. f.key = r.key /\ f.told = r.told /\ f.opened = r.opened
        BY <3>1 DEF Finding
      <4> HIDE DEF f
      <4> QED
        BY <4>1, <4>2 DEF r
    <3>4. CASE Suppress(i)
      <4>1. PICK t : findings' = [findings EXCEPT ![i] = [r EXCEPT !.status = "suppressed", !.until = t]]
        BY <3>4 DEF Suppress, r
      <4> DEFINE f == [r EXCEPT !.status = "suppressed", !.until = t]
      <4>2. f.key = r.key /\ f.told = r.told /\ f.opened = r.opened
        BY <3>1 DEF Finding
      <4> QED
        BY <4>1, <4>2 DEF r
    <3>5. CASE Trim(i)
      <4> DEFINE f == [r EXCEPT !.status = "trimmed"]
      <4>1. findings' = [findings EXCEPT ![i] = f]
        BY <3>5 DEF Trim, r
      <4>2. f.key = r.key /\ f.told = r.told /\ f.opened = r.opened
        BY <3>1 DEF Finding
      <4> HIDE DEF f
      <4> QED
        BY <4>1, <4>2 DEF r
    <3> QED
      BY <1>23, <3>2, <3>3, <3>4, <3>5
  <2>2. CountsKept
    <3>1. f.opened \in Nat /\ f.opened >= findings[i].opened
      BY <1>1, <2>1
    <3> QED
      BY <1>1, <2>1, <3>1, ReplaceCounts
  <2>3. UNCHANGED <<stage, row, sweep>>
    BY <1>23 DEF Acknowledge, Resolve, Suppress, Operate, Trim
  <2> QED
    BY <1>21, <2>2, <2>3
<1>24. CASE Tick \/ UNCHANGED vars
  BY <1>3, <1>21, <1>24 DEF Tick, vars
<1> QED
  BY <1>6, <1>8, <1>9, <1>10, <1>11, <1>12, <1>15, <1>16, <1>17, <1>18, <1>19, <1>20, <1>22,
     <1>23, <1>24
     DEF Next, Evaluate, Continue, AnnounceInv

(* The balance of openings, announcements and debts is an invariant.       *)
LEMMA AnnounceInvariant == Spec => []AnnounceInv
<1>1. Init => RowsKnown /\ OpeningsOwed
  BY DEF Init, RowsKnown, OpeningsOwed, Idle
<1>2. AnnounceInv /\ FindingInv' /\ [Next]_vars => AnnounceInv'
  BY RowsKnownStep, DebtsStep DEF AnnounceInv
<1> QED
  BY <1>1, <1>2, FindingInvariant, PTL DEF Spec, AnnounceInv

(* An opening is announced once at most.  AnnouncedOnce is not inductive:  *)
(* OpeningsOwed adds who is about to announce a row, and that an opening   *)
(* puts exactly one of the scans and the sweeps into that position.        *)
THEOREM AnnouncementsAreUnique == Spec => []AnnouncedOnce
<1>1. AnnounceInv => AnnouncedOnce
  <2> SUFFICES ASSUME AnnounceInv, NEW i \in DOMAIN findings
               PROVE  findings[i].told <= findings[i].opened
    BY DEF AnnouncedOnce
  <2>1. findings[i] \in Finding
    BY DEF AnnounceInv, FindingInv, TypeOK
  <2>2. findings[i].told \in Nat /\ findings[i].opened \in Nat
    BY <2>1 DEF Finding
  <2>3. findings[i].told + One(OwedByScan(i)) + One(OwedBySweep("ticker", i))
           + One(OwedBySweep("request", i)) <= findings[i].opened
    BY DEF AnnounceInv, OpeningsOwed
  <2>4. /\ One(OwedByScan(i)) \in 0 .. 1 /\ One(OwedBySweep("ticker", i)) \in 0 .. 1
        /\ One(OwedBySweep("request", i)) \in 0 .. 1
    BY DEF One
  <2> QED
    BY <2>2, <2>3, <2>4
<1> QED
  BY <1>1, AnnounceInvariant, PTL

----------------------------------------------------------------------------
(* Suppressions and evidence.                                              *)

(* The times at which a scan and a sweep looked are not ahead of the clock. *)
ClocksAgree ==
    /\ \A k \in Key : obs[k].at <= now
    /\ \A p \in Reader : sweep[p].at <= now

(* Clocks are read at the start of a look or a sweep; time only grows.     *)
LEMMA ClocksStep ==
    ASSUME TypeOK, ClocksAgree, [Next]_vars
    PROVE  ClocksAgree'
<1>1. /\ now \in Nat
      /\ obs \in [Key -> Observation]
      /\ sweep \in [Reader -> [stage : {"idle", "listed", "moved", "tell"},
                               at : Nat, ids : SUBSET Nat]]
      /\ \A k \in Key : obs[k].at \in Nat
      /\ \A p \in Reader : sweep[p].at \in Nat
  BY DEF TypeOK, Observation
<1>2. Nothing.at = 0 /\ Idle.at = 0
  BY DEF Nothing, Idle
<1> USE DEF scan, bounds, memory
<1>3. ASSUME UNCHANGED <<now, sweep>>, NEW k \in Key, NEW o, obs' = [obs EXCEPT ![k] = o],
             o.at = 0 \/ o.at = now
      PROVE  ClocksAgree'
  <2>1. \A q \in Key : obs'[q] = IF q = k THEN o ELSE obs[q]
    BY <1>1, <1>3
  <2> QED
    BY <1>1, <1>3, <2>1 DEF ClocksAgree
<1>4. ASSUME UNCHANGED <<now, obs>>, NEW p \in Reader, NEW step, Sweep(p, step),
             step.at = 0 \/ step.at = now \/ step.at = sweep[p].at
      PROVE  ClocksAgree'
  <2>1. \A q \in Reader : sweep'[q] = IF q = p THEN step ELSE sweep[q]
    BY <1>1, <1>4 DEF Sweep
  <2> QED
    BY <1>1, <1>4, <2>1 DEF ClocksAgree
<1>5. ASSUME NEW k \in Key, ScanComplete(k) \/ ScanPartial(k) PROVE ClocksAgree'
  <2>1. PICK d, c : Read(k, d, c)
    BY <1>5 DEF ScanComplete, ScanPartial
  <2> DEFINE o == [detected |-> d, complete |-> c, at |-> now, truth |-> k \in present]
  <2>2. obs' = [obs EXCEPT ![k] = o] /\ UNCHANGED <<now, sweep>>
    BY <2>1 DEF Read
  <2>3. o.at = now
    OBVIOUS
  <2> HIDE DEF o
  <2> QED
    BY <1>3, <2>2, <2>3
<1>6. ASSUME NEW k \in Key, OpenEpisode(k) \/ RepeatEpisode(k) \/ Recover(k) \/ NoTransition(k)
             \/ EvaluateFails(k)
      PROVE  ClocksAgree'
  <2>1. obs' = [obs EXCEPT ![k] = Nothing] /\ UNCHANGED <<now, sweep>>
    BY <1>6 DEF OpenEpisode, RepeatEpisode, Recover, NoTransition, EvaluateFails, After
  <2> QED
    BY <1>2, <1>3, <2>1
<1>7. ASSUME NEW p \in Reader, ListExpired(p) \/ ReopenExpired(p) \/ ReloadMoved(p)
             \/ AnnounceMoved(p)
      PROVE  ClocksAgree'
  <2>1. UNCHANGED <<now, obs>>
    BY <1>7 DEF ListExpired, ReopenExpired, ReloadMoved, AnnounceMoved
  <2>2. \E step : Sweep(p, step) /\ (step.at = 0 \/ step.at = now \/ step.at = sweep[p].at)
    <3>1. CASE ListExpired(p)
      BY <3>1 DEF ListExpired
    <3>2. ASSUME NEW st, NEW ids, Sweep(p, [sweep[p] EXCEPT !.stage = st, !.ids = ids])
          PROVE  \E step : Sweep(p, step) /\ step.at = sweep[p].at
      <4> DEFINE step == [sweep[p] EXCEPT !.stage = st, !.ids = ids]
      <4>1. step.at = sweep[p].at
        BY <1>1
      <4>2. Sweep(p, step)
        BY <3>2
      <4> HIDE DEF step
      <4> QED
        BY <4>1, <4>2
    <3>3. CASE ReopenExpired(p)
      BY <3>2, <3>3 DEF ReopenExpired
    <3>4. CASE Sweep(p, Idle)
      BY <1>2, <3>4
    <3>5. CASE ReloadMoved(p)
      BY <3>2, <3>4, <3>5 DEF ReloadMoved
    <3>6. CASE AnnounceMoved(p)
      <4>1. CASE \E i \in sweep[p].ids : Sweep(p, [sweep[p] EXCEPT !.ids = @ \ {i}])
        <5>1. PICK i \in sweep[p].ids : Sweep(p, [sweep[p] EXCEPT !.ids = sweep[p].ids \ {i}])
          BY <4>1
        <5>2. [sweep[p] EXCEPT !.ids = sweep[p].ids \ {i}].at = sweep[p].at
          BY <1>1
        <5> QED
          BY <5>1, <5>2
      <4> QED
        BY <3>4, <3>6, <4>1 DEF AnnounceMoved
    <3> QED
      BY <1>7, <3>1, <3>3, <3>5, <3>6
  <2> QED
    BY <1>4, <2>1, <2>2
<1>8. CASE CancelRequest
  <2>1. Sweep("request", Idle) /\ UNCHANGED <<now, obs>> /\ "request" \in Reader
    BY <1>8 DEF CancelRequest, Reader
  <2> QED
    BY <1>2, <1>4, <2>1
<1>9. CASE Restart
  BY <1>1, <1>2, <1>9 DEF Restart, ClocksAgree
<1>10. CASE Tick
  BY <1>1, <1>10 DEF Tick, ClocksAgree
<1>11. ASSUME UNCHANGED <<now, obs, sweep>> PROVE ClocksAgree'
  BY <1>11 DEF ClocksAgree
<1>12. ASSUME NEW k \in Key, ConditionChanges(k) \/ NotifyOpened(k) PROVE ClocksAgree'
  BY <1>11, <1>12 DEF ConditionChanges, NotifyOpened
<1>13. ASSUME NEW i \in DOMAIN findings, Acknowledge(i) \/ Resolve(i) \/ Suppress(i) \/ Trim(i)
       PROVE  ClocksAgree'
  BY <1>11, <1>13 DEF Acknowledge, Resolve, Suppress, Operate, Trim
<1>14. CASE UNCHANGED vars
  BY <1>11, <1>14 DEF vars
<1> QED
  BY <1>5, <1>6, <1>7, <1>8, <1>9, <1>10, <1>12, <1>13, <1>14 DEF Next, Evaluate, Continue

(* Only elapsed suppressions are reopened, by a scan or by a sweep.        *)
LEMMA SuppressedStep ==
    ASSUME TypeOK, ClocksAgree, [Next]_vars, NEW i \in DOMAIN findings,
           findings[i].status = "suppressed", findings'[i].status = "open"
    PROVE  findings[i].until <= now
<1>1. /\ findings \in Seq(Finding) /\ findings[i] \in Finding /\ faults \in Nat
      /\ now \in Nat /\ Horizon \in Nat
      /\ findings[i].until \in 0 .. (Horizon + 1)
      /\ \A k \in Key : obs[k].at \in Nat /\ obs[k].at <= now
      /\ \A p \in Reader : sweep[p].at \in Nat /\ sweep[p].at <= now
  <2>1. findings[i] \in Finding
    BY DEF TypeOK
  <2> QED
    BY <2>1, BoundsAssumption DEF TypeOK, ClocksAgree, Observation, Finding, Deadline, Forever
<1> USE DEF scan, bounds, memory
<1>2. ASSUME NEW t \in Nat, t <= now, Lapsed(i, t) PROVE findings[i].until <= now
  BY <1>1, <1>2 DEF Lapsed
<1>3. ~UNCHANGED findings
  OBVIOUS
<1>4. ASSUME NEW j, Announce(j) PROVE FALSE
  BY <1>1, <1>4, AnnounceKeeps
<1>5. ASSUME NEW k \in Key, OpenEpisode(k) PROVE FALSE
  BY <1>1, <1>5 DEF OpenEpisode
<1>6. ASSUME NEW k \in Key, RepeatEpisode(k) \/ NoTransition(k) PROVE findings[i].until <= now
  <2>1. PICK j \in Found(k) :
           findings' = [findings EXCEPT ![j] =
                           IF Lapsed(j, obs[k].at) THEN Reopened(findings[j]) ELSE findings[j]]
    BY <1>1, <1>3, <1>6 DEF RepeatEpisode, NoTransition
  <2>2. i = j /\ Lapsed(i, obs[k].at)
    BY <1>1, <2>1
  <2> QED
    BY <1>1, <1>2, <2>2
<1>7. ASSUME NEW k \in Key, Recover(k) PROVE FALSE
  BY <1>1, <1>7 DEF Recover, Finding
<1>8. ASSUME NEW p \in Reader, ReopenExpired(p) PROVE findings[i].until <= now
  <2>1. Lapsed(i, sweep[p].at)
    BY <1>8 DEF ReopenExpired
  <2> QED
    BY <1>1, <1>2, <2>1
<1>9. ASSUME NEW j \in DOMAIN findings, Acknowledge(j) \/ Resolve(j) \/ Suppress(j) \/ Trim(j)
      PROVE  FALSE
  <2>1. CASE Acknowledge(j)
    BY <1>1, <2>1 DEF Acknowledge, Finding
  <2>2. CASE Resolve(j)
    BY <1>1, <2>2 DEF Resolve, Finding
  <2>3. CASE Suppress(j)
    BY <1>1, <2>3 DEF Suppress, Finding
  <2>4. CASE Trim(j)
    BY <1>1, <2>4 DEF Trim, Finding
  <2> QED
    BY <1>9, <2>1, <2>2, <2>3, <2>4
<1>10. \A k \in Key : ~(ScanComplete(k) \/ ScanPartial(k) \/ EvaluateFails(k) \/ ConditionChanges(k))
  BY <1>3 DEF ScanComplete, ScanPartial, Read, EvaluateFails, ConditionChanges
<1>11. ~(Tick \/ Restart \/ CancelRequest \/ UNCHANGED vars)
  BY <1>3 DEF Tick, Restart, CancelRequest, vars
<1>12. \A p \in Reader : ~(ListExpired(p) \/ ReloadMoved(p) \/ AnnounceMoved(p))
  BY <1>3, <1>4 DEF ListExpired, ReloadMoved, AnnounceMoved
<1>13. \A k \in Key : ~NotifyOpened(k)
  BY <1>4 DEF NotifyOpened
<1> QED
  BY <1>5, <1>6, <1>7, <1>8, <1>9, <1>10, <1>11, <1>12, <1>13 DEF Next, Evaluate, Continue

(* No observation and no sweep goes by a time that is still to come.       *)
LEMMA ClocksInvariant == Spec => []ClocksAgree
<1>1. Init => ClocksAgree
  BY DEF Init, ClocksAgree, Nothing, Idle
<1>2. TypeOK /\ ClocksAgree /\ [Next]_vars => ClocksAgree'
  BY ClocksStep
<1> QED
  BY <1>1, <1>2, FindingsTypeCorrect, PTL DEF Spec

(* An operator's suppression holds until its deadline: no observation and  *)
(* no sweep, however old the time it goes by, reopens the finding earlier. *)
THEOREM SuppressionsHold == Spec => SuppressionHolds
<1> DEFINE Early == \A i \in DOMAIN findings :
                       findings[i].status = "suppressed" /\ findings'[i].status = "open"
                       => findings[i].until <= now
<1>1. TypeOK /\ ClocksAgree /\ [Next]_vars => [Early]_vars
  BY SuppressedStep
<1> QED
  BY <1>1, FindingsTypeCorrect, ClocksInvariant, PTL DEF Spec, SuppressionHolds

(* A complete look at a container that found nothing saw that the          *)
(* condition was not there.                                                *)
EvidenceTrue ==
    \A k \in Key : obs[k].complete /\ ~obs[k].detected => ~obs[k].truth

(* A look is one step, at the containers as they are.                      *)
LEMMA EvidenceStep ==
    ASSUME TypeOK, Relative = {}, EvidenceTrue, [Next]_vars
    PROVE  EvidenceTrue'
<1>1. obs \in [Key -> Observation]
  BY DEF TypeOK
<1> USE DEF scan, bounds, memory
<1>2. ASSUME NEW k \in Key, NEW o, obs' = [obs EXCEPT ![k] = o],
             o.complete /\ ~o.detected => ~o.truth
      PROVE  EvidenceTrue'
  <2>1. \A q \in Key : obs'[q] = IF q = k THEN o ELSE obs[q]
    BY <1>1, <1>2
  <2> QED
    BY <1>2, <2>1 DEF EvidenceTrue
<1>3. ASSUME NEW k \in Key, NEW d \in BOOLEAN, NEW c \in BOOLEAN, Read(k, d, c),
             c => d = (k \in present)
      PROVE  EvidenceTrue'
  <2> DEFINE o == [detected |-> d, complete |-> c, at |-> now, truth |-> k \in present]
  <2>1. obs' = [obs EXCEPT ![k] = o]
    BY <1>3 DEF Read
  <2>2. o.complete = c /\ o.detected = d /\ o.truth = (k \in present)
    OBVIOUS
  <2>3. o.complete /\ ~o.detected => ~o.truth
    BY <1>3, <2>2
  <2> HIDE DEF o
  <2> QED
    BY <1>2, <2>1, <2>3
<1>4. ASSUME NEW k \in Key, ScanComplete(k) PROVE EvidenceTrue'
  <2>1. Read(k, k \in present, TRUE)
    BY <1>4 DEF ScanComplete
  <2>2. (k \in present) \in BOOLEAN
    OBVIOUS
  <2> QED
    BY <1>3, <2>1, <2>2
<1>5. ASSUME NEW k \in Key, ScanPartial(k) PROVE EvidenceTrue'
  <2>1. PICK d \in BOOLEAN : Read(k, d, FALSE)
    BY <1>5 DEF ScanPartial
  <2> QED
    BY <1>3, <2>1, FALSE \in BOOLEAN
<1>6. ASSUME NEW k \in Key, OpenEpisode(k) \/ RepeatEpisode(k) \/ Recover(k) \/ NoTransition(k)
             \/ EvaluateFails(k)
      PROVE  EvidenceTrue'
  <2>1. obs' = [obs EXCEPT ![k] = Nothing]
    BY <1>6 DEF OpenEpisode, RepeatEpisode, Recover, NoTransition, EvaluateFails, After
  <2>2. ~Nothing.complete
    BY DEF Nothing
  <2> QED
    BY <1>2, <2>1, <2>2
<1>7. ASSUME UNCHANGED obs PROVE EvidenceTrue'
  BY <1>7 DEF EvidenceTrue
<1>8. CASE Restart
  BY <1>8 DEF Restart, EvidenceTrue, Nothing
<1>9. ASSUME NEW k \in Key, NotifyOpened(k) \/ ConditionChanges(k) PROVE EvidenceTrue'
  BY <1>7, <1>9 DEF NotifyOpened, ConditionChanges
<1>10. ASSUME NEW p \in Reader, ListExpired(p) \/ ReopenExpired(p) \/ ReloadMoved(p)
              \/ AnnounceMoved(p)
       PROVE  EvidenceTrue'
  BY <1>7, <1>10 DEF ListExpired, ReopenExpired, ReloadMoved, AnnounceMoved
<1>11. ASSUME NEW i \in DOMAIN findings, Acknowledge(i) \/ Resolve(i) \/ Suppress(i) \/ Trim(i)
       PROVE  EvidenceTrue'
  BY <1>7, <1>11 DEF Acknowledge, Resolve, Suppress, Operate, Trim
<1>12. CASE Tick \/ CancelRequest \/ UNCHANGED vars
  BY <1>7, <1>12 DEF Tick, CancelRequest, vars
<1> QED
  BY <1>4, <1>5, <1>6, <1>8, <1>9, <1>10, <1>11, <1>12 DEF Next, Evaluate, Continue

(* The collector's name is put on a row by a recovery alone.               *)
LEMMA ClosedStep ==
    ASSUME TypeOK, EvidenceTrue, [Next]_vars, NEW i \in DOMAIN findings,
           findings[i].by = "nobody", findings'[i].by = "collector"
    PROVE  LET o == obs[findings[i].key] IN o.complete /\ ~o.truth
<1>1. /\ findings \in Seq(Finding) /\ findings[i] \in Finding
      /\ \A j \in DOMAIN findings : findings[j] \in Finding
      /\ obs \in [Key -> Observation]
  <2>1. findings[i] \in Finding
    BY DEF TypeOK
  <2> QED
    BY <2>1 DEF TypeOK
<1> USE DEF scan, bounds, memory
<1>2. ~UNCHANGED findings
  OBVIOUS
<1>3. Reopened(findings[i]).by = findings[i].by
  BY <1>1 DEF Reopened, Finding
<1>4. ASSUME NEW j, Announce(j) PROVE FALSE
  BY <1>1, <1>4 DEF Announce, Finding
<1>5. ASSUME NEW k \in Key, Recover(k) PROVE LET o == obs[findings[i].key] IN o.complete /\ ~o.truth
  <2>1. PICK j \in Found(k) :
           findings' = [findings EXCEPT ![j].status = "resolved", ![j].by = "collector"]
    BY <1>5 DEF Recover
  <2>2. i = j
    BY <1>1, <2>1
  <2>3. findings[i].key = k
    BY <2>2 DEF Found, ActiveOf
  <2> QED
    BY <1>5, <2>3 DEF Recover, EvidenceTrue
<1>6. ASSUME NEW k \in Key, OpenEpisode(k) PROVE FALSE
  BY <1>1, <1>6 DEF OpenEpisode
<1>7. ASSUME NEW k \in Key, RepeatEpisode(k) \/ NoTransition(k) PROVE FALSE
  <2>1. PICK j \in Found(k) :
           findings' = [findings EXCEPT ![j] =
                           IF Lapsed(j, obs[k].at) THEN Reopened(findings[j]) ELSE findings[j]]
    BY <1>1, <1>2, <1>7 DEF RepeatEpisode, NoTransition
  <2> QED
    BY <1>1, <1>3, <2>1
<1>8. ASSUME NEW p \in Reader, ReopenExpired(p) PROVE FALSE
  BY <1>1, <1>3, <1>8 DEF ReopenExpired
<1>9. ASSUME NEW j \in DOMAIN findings, Acknowledge(j) \/ Resolve(j) \/ Suppress(j) \/ Trim(j)
      PROVE  FALSE
  <2>1. CASE Acknowledge(j)
    BY <1>1, <2>1 DEF Acknowledge, Finding
  <2>2. CASE Resolve(j)
    BY <1>1, <2>2 DEF Resolve, Finding
  <2>3. CASE Suppress(j)
    BY <1>1, <2>3 DEF Suppress, Finding
  <2>4. CASE Trim(j)
    BY <1>1, <2>4 DEF Trim, Finding
  <2> QED
    BY <1>9, <2>1, <2>2, <2>3, <2>4
<1>10. \A k \in Key : ~(ScanComplete(k) \/ ScanPartial(k) \/ EvaluateFails(k) \/ ConditionChanges(k))
  BY <1>2 DEF ScanComplete, ScanPartial, Read, EvaluateFails, ConditionChanges
<1>11. ~(Tick \/ Restart \/ CancelRequest \/ UNCHANGED vars)
  BY <1>2 DEF Tick, Restart, CancelRequest, vars
<1>12. \A p \in Reader : ~(ListExpired(p) \/ ReloadMoved(p) \/ AnnounceMoved(p))
  BY <1>2, <1>4 DEF ListExpired, ReloadMoved, AnnounceMoved
<1>13. \A k \in Key : ~NotifyOpened(k)
  BY <1>4 DEF NotifyOpened
<1> QED
  BY <1>5, <1>6, <1>7, <1>8, <1>9, <1>10, <1>11, <1>12, <1>13 DEF Next, Evaluate, Continue

(* Partial coverage resolves nothing: the collector closes an episode only *)
(* on a complete look that did not find the condition, which, for rules    *)
(* without a baseline in memory, was not there.  (For the pid spike this   *)
(* is false: it is learned again after a restart.)                         *)
THEOREM ClosedByEvidence ==
    ASSUME Relative = {}
    PROVE  Spec => ClosedOnProof
<1> DEFINE Proved == \A i \in DOMAIN findings :
                        findings[i].by = "nobody" /\ findings'[i].by = "collector"
                        => LET o == obs[findings[i].key] IN o.complete /\ ~o.truth
<1>1. Init => EvidenceTrue
  BY DEF Init, EvidenceTrue, Nothing
<1>2. TypeOK /\ EvidenceTrue /\ [Next]_vars => EvidenceTrue'
  BY EvidenceStep
<1>3. TypeOK /\ EvidenceTrue /\ [Next]_vars => [Proved]_vars
  BY ClosedStep
<1> QED
  BY <1>1, <1>2, <1>3, FindingsTypeCorrect, PTL DEF Spec, ClosedOnProof
=============================================================================
