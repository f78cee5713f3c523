------------------------------ MODULE IssueAlerts ------------------------------
(***************************************************************************)
(* Error reports of one service: ingest groups a report under the issue of *)
(* its fingerprint (internal/service/ingest.go, internal/store/issues.go), *)
(* the sampler announces new issues and spikes (issue_alerts.go), and      *)
(* maintenance deletes old rows and, over budget, the oldest ones          *)
(* (internal/store/maintenance.go).  The three run side by side.           *)
(***************************************************************************)
EXTENDS Integers, Sequences, FiniteSets, FiniteSetsExt

CONSTANTS Fingerprint,  \* what reports group by
          Client,       \* requests that ingest at the same time
          Cap,          \* MaxOccurrences of the service
          Window,       \* WindowSecs of both rules
          Threshold,    \* Threshold of the spike rule
          Retention,    \* RetentionErrors
          Budget,       \* IssueMaxBytes, in rows of both tables
          Batch,        \* BatchSize
          MaxTime,      \* bound: the clock
          MaxReports,   \* bound: reports accepted
          MaxFaults     \* bound: failed writes and restarts

ASSUME IssueAssumption ==
    /\ IsFiniteSet(Fingerprint) /\ IsFiniteSet(Client)
    /\ Cap \in Nat \ {0} /\ Window \in Nat \ {0} /\ Threshold \in Nat \ {0}
    /\ Retention \in Nat /\ Budget \in Nat /\ Batch \in Nat \ {0}
    /\ MaxTime \in Nat /\ MaxReports \in Nat /\ MaxFaults \in Nat

VARIABLES
    clock,
    client,       \* per request: "idle", or "stored" before the trim
    issues,       \* by id: [print, first, last, notified]
    ids,          \* ids given out: AUTOINCREMENT never reuses one
    occurrences,  \* by id, ascending: [issue, at]
    spikes,       \* s.spikes: ids latched, in memory
    sampler,      \* [at, since, todo]: where evaluateIssues is
    keeper,       \* [at, now]: where the maintenance pass is
    reports, faults,
    news,         \* history: announcements of each issue as new
    alarms,       \* history: announcements of each issue as a spike
    unlatched,    \* history: issues announced whose stamp was not written
    evicted,      \* history: issues deleted over budget
    untrimmed     \* history: reports stored since whose trim did not run

rest    == <<clock, reports>>
tables  == <<issues, ids, occurrences>>
history == <<news, alarms, unlatched, evicted, untrimmed>>
vars == <<rest, client, tables, spikes, sampler, keeper, faults, history>>

Id == 1 .. MaxReports
IssueRow == [print : Fingerprint, first : Nat, last : Nat, notified : BOOLEAN]

TypeOK ==
    /\ clock \in 0 .. MaxTime /\ reports \in 0 .. MaxReports /\ faults \in 0 .. MaxFaults
    /\ client \in [Client -> {"idle", "stored"}]
    /\ ids \in 0 .. MaxReports /\ DOMAIN issues \subseteq 1 .. ids
    /\ \A i \in DOMAIN issues : issues[i] \in IssueRow
    /\ occurrences \in Seq([issue : Id, at : 0 .. MaxTime])
    /\ spikes \subseteq Id /\ unlatched \subseteq Id /\ evicted \subseteq Id
    /\ sampler \in [at : {"idle", "new", "stamp", "spike"}, since : Int, todo : SUBSET Id]
    /\ keeper \in [at : {"idle", "issues", "measure", "evict"}, now : Nat]
    /\ news \in [Id -> Nat] /\ alarms \in [Id -> Nat] /\ untrimmed \in Nat

Init ==
    /\ clock = 0 /\ reports = 0 /\ faults = 0
    /\ client = [c \in Client |-> "idle"]
    /\ issues = << >> /\ ids = 0 /\ occurrences = << >> /\ spikes = {}
    /\ sampler = [at |-> "idle", since |-> 0, todo |-> {}]
    /\ keeper = [at |-> "idle", now |-> 0]
    /\ news = [i \in Id |-> 0] /\ alarms = [i \in Id |-> 0] /\ unlatched = {} /\ evicted = {} /\ untrimmed = 0

Fault == faults < MaxFaults /\ faults' = faults + 1
Fine  == UNCHANGED faults
LeastOf(S) == CHOOSE i \in S : \A j \in S : i <= j

-----------------------------------------------------------------------------
(* A fault of the next definition: the upsert rewrites the stamp too.      *)
GroupOccurrence_Rearms(f) ==
    LET known == {i \in DOMAIN issues : issues[i].print = f}
        id    == IF known = {} THEN ids + 1 ELSE LeastOf(known)
        fresh == [print |-> f, first |-> clock, last |-> clock, notified |-> FALSE]
    IN /\ issues' = [i \in DOMAIN issues \cup {id} |->
                        IF i # id THEN issues[i]
                        ELSE IF known = {} THEN fresh
                        ELSE [issues[i] EXCEPT !.last = clock, !.notified = FALSE]]
       /\ ids' = IF known = {} THEN ids + 1 ELSE ids
       /\ occurrences' = Append(occurrences, [issue |-> id, at |-> clock])

(* GroupOccurrence: one transaction upserts the issue of the fingerprint   *)
(* and inserts the occurrence.  A deleted issue comes back under a new id. *)
GroupOccurrence(f) ==
    LET known == {i \in DOMAIN issues : issues[i].print = f}
        id    == IF known = {} THEN ids + 1 ELSE LeastOf(known)
        fresh == [print |-> f, first |-> clock, last |-> clock, notified |-> FALSE]
    IN /\ issues' = [i \in DOMAIN issues \cup {id} |->
                        IF i # id THEN issues[i]
                        ELSE IF known = {} THEN fresh
                        ELSE [issues[i] EXCEPT !.last = clock]]
       /\ ids' = IF known = {} THEN ids + 1 ELSE ids
       /\ occurrences' = Append(occurrences, [issue |-> id, at |-> clock])

Ingest(c, f) ==
    /\ client[c] = "idle" /\ reports < MaxReports
    /\ GroupOccurrence(f)
    /\ client' = [client EXCEPT ![c] = "stored"] /\ reports' = reports + 1
    /\ UNCHANGED <<clock, spikes, sampler, keeper, faults, history>>

(* A fault of the next definition: one report too many is kept.            *)
TrimBeyondCap_OneMore(c) ==
    /\ client[c] = "stored" /\ client' = [client EXCEPT ![c] = "idle"]
    /\ \/ /\ Fine /\ untrimmed' = 0
          /\ occurrences' = SubSeq(occurrences, Max({1, Len(occurrences) - Cap}),
                                   Len(occurrences))
       \/ Fault /\ untrimmed' = untrimmed + 1 /\ UNCHANGED occurrences
    /\ UNCHANGED <<rest, issues, ids, spikes, sampler, keeper, news, alarms, unlatched, evicted>>

(* The trim after the insert keeps the newest Cap; a failure is logged.    *)
TrimBeyondCap(c) ==
    /\ client[c] = "stored" /\ client' = [client EXCEPT ![c] = "idle"]
    /\ \/ /\ Fine /\ untrimmed' = 0
          /\ occurrences' = SubSeq(occurrences, Max({1, Len(occurrences) - Cap + 1}),
                                   Len(occurrences))
       \/ Fault /\ untrimmed' = untrimmed + 1 /\ UNCHANGED occurrences
    /\ UNCHANGED <<rest, issues, ids, spikes, sampler, keeper, news, alarms, unlatched, evicted>>

-----------------------------------------------------------------------------
(* evaluateIssues: the new-issue rule, then the spike rule, each over the  *)
(* list it read at its start.  A failed write ends its rule.               *)
UnnotifiedSince(since) ==
    {i \in DOMAIN issues : issues[i].first >= since /\ ~issues[i].notified}

ActiveSince_First(since) == {i \in DOMAIN issues : issues[i].first >= since}
ActiveSince(since)       == {i \in DOMAIN issues : issues[i].last >= since}

CountSince(i, since) ==
    Len(SelectSeq(occurrences, LAMBDA o : o.issue = i /\ o.at >= since))

ToSpikes == [at |-> "spike", since |-> clock - Window, todo |-> ActiveSince(clock - Window)]

Sample ==
    /\ sampler.at = "idle"
    /\ sampler' = [at |-> "new", since |-> clock - Window,
                   todo |-> UnnotifiedSince(clock - Window)]
    /\ UNCHANGED <<rest, client, tables, spikes, keeper, faults, history>>

(* Insert of the notification; MarkNotified is a write of its own.         *)
NewIssue ==
    /\ sampler.at = "new"
    /\ \/ /\ sampler.todo = {} /\ sampler' = ToSpikes
          /\ Fine /\ UNCHANGED news
       \/ /\ sampler.todo # {} /\ Fine
          /\ news' = [news EXCEPT ![LeastOf(sampler.todo)] = @ + 1]
          /\ sampler' = [sampler EXCEPT !.at = "stamp"]
       \/ sampler.todo # {} /\ Fault /\ sampler' = ToSpikes /\ UNCHANGED news
    /\ UNCHANGED <<rest, client, tables, spikes, keeper, alarms, unlatched, evicted, untrimmed>>

MarkNotified ==
    /\ sampler.at = "stamp"
    /\ LET i == LeastOf(sampler.todo) IN
       \/ /\ Fine /\ UNCHANGED unlatched
          /\ issues' = [j \in DOMAIN issues |->
                            [issues[j] EXCEPT !.notified = @ \/ j = i]]
          /\ sampler' = [sampler EXCEPT !.at = "new", !.todo = @ \ {i}]
       \/ /\ Fault /\ sampler' = ToSpikes /\ unlatched' = unlatched \cup {i}
          /\ UNCHANGED issues
    /\ UNCHANGED <<rest, client, ids, occurrences, spikes, keeper, news, alarms, evicted, untrimmed>>

(* One issue of evaluateSpike: below the threshold the latch is cleared;   *)
(* at it, unless the latch stands, the notification is written and the     *)
(* latch set; a failed write ends the rule.                                *)
Spike ==
    /\ sampler.at = "spike"
    /\ IF sampler.todo = {}
       THEN /\ sampler' = [sampler EXCEPT !.at = "idle"]
            /\ Fine /\ UNCHANGED <<spikes, alarms>>
       ELSE LET i    == LeastOf(sampler.todo)
                hot  == CountSince(i, sampler.since) >= Threshold
                next == [sampler EXCEPT !.todo = @ \ {i}]
            IN \/ /\ ~hot /\ spikes' = spikes \ {i}
                  /\ sampler' = next /\ Fine /\ UNCHANGED alarms
               \/ /\ hot /\ i \in spikes
                  /\ sampler' = next /\ Fine /\ UNCHANGED <<spikes, alarms>>
               \/ /\ hot /\ i \notin spikes
                  /\ spikes' = spikes \cup {i} /\ alarms' = [alarms EXCEPT ![i] = @ + 1]
                  /\ sampler' = next /\ Fine
               \/ /\ hot /\ i \notin spikes
                  /\ sampler' = [sampler EXCEPT !.at = "idle", !.todo = {}]
                  /\ Fault /\ UNCHANGED <<spikes, alarms>>
    /\ UNCHANGED <<rest, client, tables, keeper, news, unlatched, evicted, untrimmed>>

-----------------------------------------------------------------------------
(* The maintenance pass on the two tables: old occurrences, then quiet     *)
(* issues, a batch each, against the time the pass began; then, if the     *)
(* class is over its budget, the oldest batch of each.  Deleting an issue  *)
(* leaves its occurrences without one.                                     *)
FirstOf(S, n) == {i \in S : Cardinality({j \in S : j < i}) < n}
Without(gone) == [i \in DOMAIN issues \ gone |-> issues[i]]

(* Occurrences stand by id and their times ascend: the due ones and the    *)
(* oldest ones are the first.                                              *)
WithoutFirst(n) == SubSeq(occurrences, n + 1, Len(occurrences))

AgeOccurrences ==
    /\ keeper.at = "idle" /\ keeper' = [at |-> "issues", now |-> clock]
    /\ LET due == {k \in DOMAIN occurrences : occurrences[k].at < clock - Retention}
       IN occurrences' = WithoutFirst(Min({Cardinality(due), Batch}))
    /\ UNCHANGED <<rest, client, issues, ids, spikes, sampler, faults, history>>

(* A fault of the next definition: an issue's age is taken for its quiet.  *)
AgeIssues_First ==
    /\ keeper.at = "issues"
    /\ \/ /\ Fine /\ keeper' = [keeper EXCEPT !.at = "measure"]
          /\ issues' = Without(FirstOf({i \in DOMAIN issues :
                                 issues[i].first < keeper.now - Retention}, Batch))
       \/ Fault /\ keeper' = [keeper EXCEPT !.at = "idle"] /\ UNCHANGED issues
    /\ UNCHANGED <<rest, client, ids, occurrences, spikes, sampler, history>>

AgeIssues ==
    /\ keeper.at = "issues"
    /\ \/ /\ Fine /\ keeper' = [keeper EXCEPT !.at = "measure"]
          /\ issues' = Without(FirstOf({i \in DOMAIN issues :
                                 issues[i].last < keeper.now - Retention}, Batch))
       \/ Fault /\ keeper' = [keeper EXCEPT !.at = "idle"] /\ UNCHANGED issues
    /\ UNCHANGED <<rest, client, ids, occurrences, spikes, sampler, history>>

(* The size of the class, counted in rows.                                 *)
classBytes == Len(occurrences) + Cardinality(DOMAIN issues)

(* The first target of a class over its limit.                             *)
EvictOccurrences ==
    /\ keeper.at = "measure"
    /\ IF classBytes <= Budget
       THEN keeper' = [keeper EXCEPT !.at = "idle"] /\ UNCHANGED occurrences
       ELSE /\ keeper' = [keeper EXCEPT !.at = "evict"]
            /\ occurrences' = WithoutFirst(Min({Len(occurrences), Batch}))
    /\ UNCHANGED <<rest, client, issues, ids, spikes, sampler, faults, history>>

Older(i, j) == \/ issues[i].last < issues[j].last
               \/ issues[i].last = issues[j].last /\ i < j

EvictIssues ==
    /\ keeper.at = "evict" /\ keeper' = [keeper EXCEPT !.at = "idle"]
    /\ LET gone == {i \in DOMAIN issues :
                        Cardinality({j \in DOMAIN issues : Older(j, i)}) < Batch}
       IN issues' = Without(gone) /\ evicted' = evicted \cup gone
    /\ UNCHANGED <<rest, client, ids, occurrences, spikes, sampler, faults, news,
                   alarms, unlatched, untrimmed>>

-----------------------------------------------------------------------------
Tick ==
    /\ clock < MaxTime /\ clock' = clock + 1
    /\ UNCHANGED <<reports, client, tables, spikes, sampler, keeper, faults, history>>

(* A restart: requests and passes end where they are, latches are gone.    *)
Restart ==
    /\ Fault
    /\ client' = [c \in Client |-> "idle"] /\ spikes' = {}
    /\ sampler' = [at |-> "idle", since |-> 0, todo |-> {}]
    /\ keeper' = [keeper EXCEPT !.at = "idle"]
    /\ untrimmed' = untrimmed + Cardinality({c \in Client : client[c] = "stored"})
    /\ unlatched' = unlatched \cup
         IF sampler.at = "stamp" THEN {LeastOf(sampler.todo)} ELSE {}
    /\ UNCHANGED <<rest, tables, news, alarms, evicted>>

Evaluate == Sample \/ NewIssue \/ MarkNotified \/ Spike
Maintain == AgeOccurrences \/ AgeIssues \/ EvictOccurrences \/ EvictIssues

Next ==
    \/ \E c \in Client : TrimBeyondCap(c) \/ \E f \in Fingerprint : Ingest(c, f)
    \/ Evaluate \/ Maintain \/ Tick \/ Restart

(* The sampler's ticker never stops.                                       *)
Spec == Init /\ [][Next]_vars /\ WF_vars(Evaluate)

-----------------------------------------------------------------------------
(* An issue is announced as new once, however its passes, its reports and  *)
(* its deletion fall: twice only if its stamp could not be written.        *)
AnnouncedOnce == \A i \in Id : news[i] > 1 => i \in unlatched

(* A report loses its issue only when the report itself is due, or when a  *)
(* pass over budget deleted the issue: quiet issues are judged by their    *)
(* newest report, also while ingest and the pass interleave.               *)
OrphansAreDue ==
    \A k \in DOMAIN occurrences :
        LET o == occurrences[k] IN
        o.issue \notin DOMAIN issues => o.at < clock - Retention \/ o.issue \in evicted

(* However many requests store at once, the table exceeds the cap by no    *)
(* more than the reports whose trim is still to come or did not run.       *)
CapHolds ==
    Len(occurrences) <=
        Cap + untrimmed + Cardinality({c \in Client : client[c] = "stored"})

(* The issue is at the threshold; or below it, though still reported.      *)
Hot(i)     == i \in DOMAIN issues /\ CountSince(i, clock - Window) >= Threshold
Cooling(i) == i \in DOMAIN issues /\ issues[i].last >= clock - Window /\ ~Hot(i)

(* Every spike that lasts is announced, whatever fails on the way: an      *)
(* issue at the threshold that no latch stands for is in time notified     *)
(* once more than before (told times: fewer than the spikes the reports    *)
(* allow), the second spike as the first; a latch stands for a notification *)
(* that was written, and is cleared once its spike has cooled.  Excepted   *)
(* is the latch of an issue that went quiet before a pass saw it cool: it  *)
(* stays set and swallows the next spike (SpikesRearm).                    *)
SpikesAnnounced ==
    /\ [](\A i \in spikes : alarms[i] > 0)
    /\ \A i \in Id, told \in 0 .. (MaxReports \div Threshold) - 1 :
          (Hot(i) /\ i \notin spikes /\ alarms[i] = told) ~> (alarms[i] > told \/ ~Hot(i))
    /\ \A i \in Id : (Cooling(i) /\ i \in spikes) ~> (i \notin spikes \/ ~Cooling(i))

(* What the comment of evaluateSpike says: a latch resets when the count   *)
(* falls back below the threshold.  When no sampler pass is under way, an  *)
(* issue that was quiet for the whole window is not latched.               *)
SpikesRearm ==
    sampler.at = "idle" =>
        \A i \in spikes \cap DOMAIN issues : CountSince(i, sampler.since) > 0
=============================================================================
