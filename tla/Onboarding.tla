----------------------------- MODULE Onboarding -----------------------------
(***************************************************************************)
(* The registry of services: drafts made of what docker, the health probes *)
(* and nginx show, creation from a draft, and deletion                     *)
(* (internal/service/onboarding.go, internal/store/services.go), by the    *)
(* requests that Accounts admits.  A draft is made in two reads and may    *)
(* be old when it is created from.                                         *)
(***************************************************************************)
EXTENDS Accounts, Functions

CONSTANTS Container,    \* containers of docker's list; each is one compose service
          Project,      \* the compose project of each, "" without the label
          Base, Color,  \* its service is Base-Color; "none" is no color suffix
          Published,    \* containers that publish a host port
          ProjectId,    \* sanitizeServiceID of the project, and of
          JoinedId,     \* project-service, of each container
          MaxDrafts,    \* bound: drafts
          MaxChanges    \* bound: changes in docker or nginx

ASSUME OnboardingAssumption ==
    /\ IsFiniteSet(Container) /\ Published \subseteq Container
    /\ Color \in [Container -> {"blue", "green", "none"}]
    /\ DOMAIN Project = Container /\ DOMAIN Base = Container
    /\ DOMAIN ProjectId = Container /\ DOMAIN JoinedId = Container
    /\ MaxDrafts \in Nat /\ MaxChanges \in Nat

VARIABLES
    running,  \* containers docker lists
    healthy,  \* containers that answer a probe with 2xx
    marked,   \* containers whose port is on a marker line of nginx
    changes,
    services, \* the table: the row of each id, [owns, asDrafted]
    suggest,  \* the Suggest under way: [container, seen], NoSuggest without one
    drafts,   \* the drafts operators hold
    jobs,     \* of each request the creation or deletion it is in
    audit,    \* rows of table audit about services, [id, action]
    stirred   \* history: a service was deleted, or created during a Suggest

worldVars   == <<running, healthy, marked, changes>>
serviceVars == <<services, suggest, drafts, jobs, audit, stirred>>
vars        == <<accountVars, faults, worldVars, serviceVars>>

NoSuggest == [container |-> "none", seen |-> {}]
NoJob     == [at |-> "none", id |-> "", owns |-> {}, asDrafted |-> FALSE]
NoId      == ""

Ids == (Range(ProjectId) \cup Range(JoinedId)) \ {NoId}

RegistryTypeOK ==
    /\ running \subseteq Container /\ healthy \subseteq Container /\ marked \subseteq Container
    /\ changes \in 0 .. MaxChanges /\ DOMAIN services \subseteq Ids
    /\ \A i \in DOMAIN services : services[i] \in [owns : SUBSET Container, asDrafted : BOOLEAN]
    /\ \A r \in Request : jobs[r].at \in {"none", "insert", "audit", "deleted"}
    /\ audit \subseteq [id : Ids \cup {NoId}, action : {"service_create", "service_delete"}]
    /\ stirred \in BOOLEAN

Init ==
    /\ AccountsInit
    /\ running \in SUBSET Container /\ healthy = running /\ marked \in SUBSET Container
    /\ changes = 0 /\ services = << >> /\ suggest = NoSuggest /\ drafts = {}
    /\ jobs = [r \in Request |-> NoJob] /\ audit = {} /\ stirred = FALSE

-----------------------------------------------------------------------------
(* newDraft warns of labels that are missing.                              *)
Unlabelled(c) == Project[c] = ""

(* managedBy: a service row names the container's compose service.         *)
Managed(c) == \E i \in DOMAIN services : c \in services[i].owns

(* A fault of the next definition: managed containers are drafted again.   *)
LookAt_Managed(c) ==
    /\ up /\ suggest = NoSuggest /\ c \in running /\ Cardinality(drafts) < MaxDrafts
    /\ suggest' = [container |-> c, seen |-> running]
    /\ UNCHANGED <<accountVars, faults, worldVars, services, drafts, jobs, audit, stirred>>

(* Suggest, first half: docker's list, and the rows that may own it.       *)
LookAt(c) ==
    /\ up /\ suggest = NoSuggest /\ c \in running /\ Cardinality(drafts) < MaxDrafts
    /\ Unlabelled(c) \/ ~Managed(c)
    /\ suggest' = [container |-> c, seen |-> running]
    /\ UNCHANGED <<accountVars, faults, worldVars, services, drafts, jobs, audit, stirred>>

(* Where the labels are missing there is no candidate; else the project,   *)
(* then project-service, whichever id is free.                             *)
DraftId(c) ==
    LET free == {i \in {ProjectId[c], JoinedId[c]} \ {NoId} : i \notin DOMAIN services} IN
    IF Unlabelled(c) \/ free = {} THEN NoId
    ELSE IF ProjectId[c] \in free THEN ProjectId[c] ELSE JoinedId[c]

OfColor(seen, p, b, color) == {d \in seen : Project[d] = p /\ Base[d] = b /\ Color[d] = color}

Paired(seen, p, b) == \A color \in {"blue", "green"} : OfColor(seen, p, b, color) # {}

(* colorPair: the pairs of its project; its own is preferred.  Among       *)
(* others the first by name is taken.                                      *)
PairBases(c, seen) ==
    LET bases == {b \in {Base[d] : d \in seen} : Project[c] # "" /\ Paired(seen, Project[c], b)}
    IN IF Color[c] # "none" /\ Base[c] \in bases THEN {Base[c]} ELSE bases

(* probeContainer: a published port that answers 2xx.                      *)
Answers(c) == c \in Published \cap healthy

(* A recreate draft names the default scripts, whether this host has them  *)
(* or not; it lacks only the health URL when nothing answered, and warns.  *)
draftRecreate(c, id) ==
    [container |-> c, strategy |-> "recreate", id |-> id, owns |-> {c},
     health |-> Answers(c), conf |-> FALSE, script |-> TRUE,
     warned |-> id = NoId \/ Unlabelled(c) \/ ~Answers(c)]

(* findNginxConf: a marker line with one of the published ports.           *)
NginxConf(colors) == colors \cap Published \cap marked # {}

(* A blue-green draft names both services of the pair.  It always warns:   *)
(* the cutover script is the operator's to fill in.                        *)
draftBlueGreen(c, id, seen, base) ==
    LET colors == {d \in seen : /\ Project[d] = Project[c] /\ Base[d] = base
                                /\ Color[d] \in {"blue", "green"}} IN
    [container |-> c, strategy |-> "bluegreen", id |-> id, owns |-> colors,
     health |-> colors \subseteq Published \cap healthy, conf |-> NginxConf(colors),
     script |-> FALSE, warned |-> TRUE]

(* Warnings lower high to medium; missing labels or id, or a pair without  *)
(* an nginx conf, make it low.                                             *)
confidence(d) ==
    IF Unlabelled(d.container) \/ d.id = NoId \/ (d.strategy = "bluegreen" /\ ~d.conf)
    THEN "low" ELSE IF d.warned THEN "medium" ELSE "high"

Drafted(c, id, seen) ==
    LET bases == PairBases(c, seen) IN
    IF bases = {} THEN {draftRecreate(c, id)}
    ELSE {draftBlueGreen(c, id, seen, base) : base \in bases}

(* Suggest, second half: the id, the probes and nginx, as they are now.    *)
Suggest ==
    /\ up /\ suggest # NoSuggest /\ suggest' = NoSuggest
    /\ \E d \in Drafted(suggest.container, DraftId(suggest.container), suggest.seen) :
          drafts' = drafts \cup
              {[draft |-> d, grade |-> confidence(d), taken |-> \E o \in d.owns : Managed(o)]}
    /\ UNCHANGED <<accountVars, faults, worldVars, services, jobs, audit, stirred>>

(* What validateConfig asks of the fields: the services, their URLs, the   *)
(* conf of a pair and the names of the scripts are filled in.              *)
Filled(d) ==
    /\ ~Unlabelled(d.container) /\ d.health /\ d.script
    /\ d.strategy = "bluegreen" => d.conf

(* And of this host: whether the scripts are executable files, and whether *)
(* compose_dir is a directory (checkCreateInput), is not known before.     *)
HostHas == BOOLEAN

-----------------------------------------------------------------------------
(* An admitted request becomes a creation: a draft as it is, or completed  *)
(* by hand under an id of the operator's choice.  checkCreateInput refuses *)
(* a known id and a missing directory, validateConfig an empty field and a *)
(* script that is not executable; a refused request ends.                  *)
CheckCreate(r, d, id, asDrafted) ==
    /\ requests[r].at = "admitted" /\ jobs[r] = NoJob
    /\ id # NoId /\ (asDrafted => id = d.draft.id)
    /\ \E files \in HostHas :
          IF files /\ id \notin DOMAIN services /\ (asDrafted => Filled(d.draft))
          THEN /\ jobs' = [jobs EXCEPT ![r] =
                              [at |-> "insert", id |-> id, owns |-> d.draft.owns,
                               asDrafted |-> asDrafted /\ d.grade = "high"]]
               /\ requests' = [requests EXCEPT ![r] = Busy]
          ELSE requests' = [requests EXCEPT ![r] = IdleRequest] /\ UNCHANGED jobs
    /\ UNCHANGED <<up, accounts, ids, sessions, admitted, raced, crossed, promised, faults,
                   worldVars, services, suggest, drafts, audit, stirred>>

Leave(r) ==
    /\ jobs' = [jobs EXCEPT ![r] = NoJob] /\ requests' = [requests EXCEPT ![r] = IdleRequest]

Step(r, at) == jobs' = [jobs EXCEPT ![r].at = at] /\ UNCHANGED requests

(* The primary key refuses the second creation of an id.                   *)
CreateService(r) ==
    LET job == jobs[r] IN
    /\ job.at = "insert"
    /\ \/ /\ Fine /\ job.id \notin DOMAIN services /\ Step(r, "audit")
          /\ services' = [i \in DOMAIN services \cup {job.id} |->
                             IF i = job.id
                             THEN [owns |-> job.owns, asDrafted |-> job.asDrafted]
                             ELSE services[i]]
          /\ stirred' = (stirred \/ suggest # NoSuggest)
       \/ /\ IF job.id \in DOMAIN services THEN Fine ELSE Fault
          /\ Leave(r) /\ UNCHANGED <<services, stirred>>
    /\ UNCHANGED <<up, accounts, ids, sessions, admitted, raced, crossed, promised,
                   worldVars, suggest, drafts, audit>>

(* services.Delete: the row and every row of its children, the audit among *)
(* them, in one transaction.                                               *)
DeleteService(r, id) ==
    /\ requests[r].at = "admitted" /\ jobs[r] = NoJob /\ id \in DOMAIN services
    /\ services' = Restrict(services, DOMAIN services \ {id})
    /\ audit' = {row \in audit : row.id # id} /\ stirred' = TRUE
    /\ jobs' = [jobs EXCEPT ![r] = [NoJob EXCEPT !.at = "deleted", !.id = id]]
    /\ requests' = [requests EXCEPT ![r] = Busy]
    /\ UNCHANGED <<up, accounts, ids, sessions, admitted, raced, crossed, promised, faults,
                   worldVars, suggest, drafts>>

(* Audit.Record refuses a service that is gone by then.                    *)
AuditService(r) ==
    LET id == IF jobs[r].at = "audit" THEN jobs[r].id ELSE NoId
        action == IF jobs[r].at = "audit" THEN "service_create" ELSE "service_delete" IN
    /\ jobs[r].at \in {"audit", "deleted"} /\ Leave(r)
    /\ \/ Fine /\ id \in DOMAIN services \cup {NoId}
          /\ audit' = audit \cup {[id |-> id, action |-> action]}
       \/ (IF id \in DOMAIN services \cup {NoId} THEN Fault ELSE Fine) /\ UNCHANGED audit
    /\ UNCHANGED <<up, accounts, ids, sessions, admitted, raced, crossed, promised,
                   worldVars, services, suggest, drafts, stirred>>

-----------------------------------------------------------------------------
(* Docker and nginx change on their own.                                   *)
Change ==
    /\ changes < MaxChanges /\ changes' = changes + 1
    /\ running' \in SUBSET Container /\ healthy' \in SUBSET running'
    /\ marked' \in SUBSET Container
    /\ UNCHANGED <<accountVars, faults, serviceVars>>

(* A restart abandons the suggestion and the requests; drafts are the      *)
(* operators'.                                                             *)
Stop ==
    /\ Restart /\ suggest' = NoSuggest /\ jobs' = [r \in Request |-> NoJob]
    /\ UNCHANGED <<worldVars, services, drafts, audit, stirred>>

Drafting == Suggest \/ \E c \in Container : LookAt(c)

Registry(r) ==
    \/ \E d \in drafts, id \in Ids, asDrafted \in BOOLEAN : CheckCreate(r, d, id, asDrafted)
    \/ CreateService(r) \/ AuditService(r)
    \/ \E id \in DOMAIN services : DeleteService(r, id)

Next ==
    \/ AccountsNext /\ UNCHANGED <<worldVars, serviceVars>>
    \/ Drafting \/ (\E r \in Request : Registry(r)) \/ Change \/ Stop

Spec == Init /\ [][Next]_vars

-----------------------------------------------------------------------------
(* Services that were created from high drafts as they are never share a   *)
(* compose service, however old the drafts are and whoever created them,   *)
(* as long as none is deleted and none appears in the middle of a Suggest. *)
HighDraftsOwnAlone ==
    ~stirred => \A i, j \in {k \in DOMAIN services : services[k].asDrafted} :
                   i # j => services[i].owns \cap services[j].owns = {}

(* A draft never names a compose service that a row already owned when it  *)
(* was drafted.                                                            *)
DraftsAreUnmanaged == \A d \in drafts : ~d.taken

(* Audit rows are never deleted.                                           *)
AuditIsAppendOnly == [][audit \subseteq audit']_audit
=============================================================================
