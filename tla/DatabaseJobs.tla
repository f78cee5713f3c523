---------------------------- MODULE DatabaseJobs ----------------------------
(***************************************************************************)
(* The PostgreSQL backup and restore jobs of internal/service/database.go  *)
(* with their rows in db_jobs (internal/store/database.go): one job at a   *)
(* time behind an in-memory guard, a backup directory trimmed to the       *)
(* newest Keep dumps, and rows reconciled at boot.                         *)
(*                                                                         *)
(* A call is one StartBackup (of an operator or of the scheduler) or       *)
(* StartRestore; it is used once.  The dump a call writes, its backup or   *)
(* the safety copy of its restore, is named by the call.                   *)
(***************************************************************************)
EXTENDS Naturals, Sequences, FiniteSets

CONSTANTS
    Call,       \* calls of StartBackup and StartRestore
    OldDumps,   \* the dumps in the directory at first, oldest first
    Keep,       \* TOUCHGRASS_DB_BACKUP_KEEP
    MaxRows,    \* maxDBJobs, the rows db_jobs holds
    Faults,     \* what may fail: "docker", "disk", "sqlite"
    MaxCrashes  \* bound: restarts of the process

Old  == {OldDumps[i] : i \in DOMAIN OldDumps}
Dump == Old \cup Call

ASSUME DumpsAssumption ==
    /\ OldDumps \in Seq(Old)
    /\ Old \cap Call = {}
ASSUME LimitsAssumption ==
    /\ Keep \in Nat \ {0}
    /\ MaxRows \in Nat \ {0}
    /\ MaxCrashes \in Nat
ASSUME FaultsAssumption == Faults \subseteq {"docker", "disk", "sqlite"}

(* The steps of launch after the claim and of execute.                     *)
Working == {"row", "create", "dump", "sum", "trim", "drain", "open",
            "restore", "audit", "stamp", "release"}
Stage   == {"new", "asked", "refused", "done", "lost"} \cup Working
Kind    == {"backup", "restore"}
Status  == {"none", "running", "success", "failed"}

VARIABLES
    dir,      \* the dumps of the backup directory, oldest first
    partial,  \* dumps whose pg_dump did not run to the end
    sums,     \* dumps with a .sha256 sidecar
    busy,     \* Database.busy
    rows,     \* the calls with a row in db_jobs, oldest first
    status,   \* the status column of a call's row
    audits,   \* audits[c]: results audited for call c
    pc, kind, source,
    failed,   \* calls whose run returned an error
    crashes

vars == <<dir, partial, sums, busy, rows, status, audits, pc, kind, source, failed, crashes>>

files == <<dir, partial, sums>>
table == <<rows, status, audits>>
asks  == <<kind, source>>

TypeOK ==
    /\ dir \in Seq(Dump)
    /\ partial \subseteq Dump /\ sums \subseteq Dump
    /\ busy \in BOOLEAN
    /\ rows \in Seq(Call)
    /\ status \in [Call -> Status]
    /\ audits \in [Call -> Seq({"success", "failure"})]
    /\ pc \in [Call -> Stage]
    /\ kind \in [Call -> Kind]
    /\ source \in [Call -> Dump]
    /\ failed \subseteq Call
    /\ crashes \in Nat

(* The directory may hold dumps copied in by hand, without a sidecar.      *)
Init ==
    /\ dir = OldDumps
    /\ partial = {}
    /\ sums \in SUBSET Old
    /\ busy = FALSE
    /\ rows = <<>>
    /\ status = [c \in Call |-> "none"]
    /\ audits = [c \in Call |-> <<>>]
    /\ pc = [c \in Call |-> "new"]
    /\ kind \in [Call -> Kind]
    /\ source \in {f \in [Call -> Dump] :
                      \A c \in Call : f[c] # c /\ (kind[c] = "backup" => f[c] = dir[1])}
    /\ failed = {}
    /\ crashes = 0

----------------------------------------------------------------------------
(* Helpers.                                                                *)

InDir(d) == \E i \in DOMAIN dir : dir[i] = d

Goto(c, stage) == pc' = [pc EXCEPT ![c] = stage]

(* The run of c goes on at the given stage, or returns an error, which     *)
(* finishJob audits and stamps.                                            *)
Continue(c, stage) == Goto(c, stage) /\ UNCHANGED failed
Fail(c, part)      == part \in Faults /\ Goto(c, "audit") /\ failed' = failed \cup {c}

(* os.Remove of the dump a failed runBackup leaves behind.                 *)
Without(d) ==
    LET i == CHOOSE i \in DOMAIN dir : dir[i] = d
    IN  SubSeq(dir, 1, i - 1) \o SubSeq(dir, i + 1, Len(dir))

(* Faulty variants: one entry too few is kept; the oldest are kept.        *)
Newest_OffByOne(seq, n) == SubSeq(seq, IF Len(seq) >= n THEN Len(seq) - n + 2 ELSE 1, Len(seq))
Newest_Oldest(seq, n)   == SubSeq(seq, 1, IF Len(seq) > n THEN n ELSE Len(seq))

(* The newest n entries of a sequence that is kept oldest first.           *)
Newest(seq, n) == SubSeq(seq, IF Len(seq) > n THEN Len(seq) - n + 1 ELSE 1, Len(seq))

Result(c) == IF c \in failed THEN "failure" ELSE "success"

----------------------------------------------------------------------------
(* StartBackup and StartRestore: a restore looks for its file first, long  *)
(* before it opens it.                                                     *)
Ask(c) ==
    /\ pc[c] = "new"
    /\ Goto(c, IF kind[c] = "backup" \/ InDir(source[c]) THEN "asked" ELSE "refused")
    /\ UNCHANGED <<files, busy, table, asks, failed, crashes>>

(* Faulty variant: the claim does not look at the guard.                   *)
Free_Unchecked == TRUE

Free == ~busy

Claim(c) ==
    /\ pc[c] = "asked"
    /\ IF Free THEN busy' = TRUE /\ Goto(c, "row")
               ELSE UNCHANGED busy /\ Goto(c, "refused")
    /\ UNCHANGED <<files, table, asks, failed, crashes>>

(* DBJobStore.Create trims first, then inserts; launch gives the guard     *)
(* back when it fails.                                                     *)
CreateRow(c) ==
    /\ pc[c] = "row"
    /\ \/ /\ rows' = Append(Newest(rows, MaxRows - 1), c)
          /\ status' = [status EXCEPT ![c] = "running"]
          /\ Goto(c, "create")
          /\ UNCHANGED busy
       \/ /\ UNCHANGED <<rows, status>>
          /\ busy' = FALSE
          /\ Goto(c, "refused")
    /\ UNCHANGED <<files, audits, asks, failed, crashes>>

----------------------------------------------------------------------------
(* runBackup, for a backup or for the safety copy of a restore.            *)

CreateFile(c) ==
    /\ pc[c] = "create"
    /\ \/ /\ dir' = Append(dir, c)
          /\ partial' = partial \cup {c}
          /\ Continue(c, "dump")
       \/ Fail(c, "disk") /\ UNCHANGED <<dir, partial>>
    /\ UNCHANGED <<sums, busy, table, asks, crashes>>

(* Faulty variant: the exit status of pg_dump is ignored.                  *)
PgDump_Unchecked(c) ==
    /\ pc[c] = "dump"
    /\ \/ partial' = partial \ {c}
       \/ "docker" \in Faults /\ UNCHANGED partial
    /\ Continue(c, "sum")
    /\ UNCHANGED <<dir, sums, busy, table, asks, crashes>>

PgDump(c) ==
    /\ pc[c] = "dump"
    /\ partial' = partial \ {c}
    /\ \/ Continue(c, "sum") /\ UNCHANGED dir
       \/ Fail(c, "docker") /\ dir' = Without(c)
    /\ UNCHANGED <<sums, busy, table, asks, crashes>>

WriteSHA256(c) ==
    /\ pc[c] = "sum"
    /\ \/ sums' = sums \cup {c} /\ Continue(c, "trim") /\ UNCHANGED dir
       \/ Fail(c, "disk") /\ dir' = Without(c) /\ UNCHANGED sums
    /\ UNCHANGED <<partial, busy, table, asks, crashes>>

AfterBackup(c) == IF kind[c] = "restore" THEN "drain" ELSE "audit"

(* Files that cannot be removed are only logged; a listing error is fatal. *)
TrimBackups(c) ==
    /\ pc[c] = "trim"
    /\ \/ /\ dir' = Newest(dir, Keep)
          /\ sums' = sums \cap {dir'[i] : i \in DOMAIN dir'}
          /\ partial' = partial \cap {dir'[i] : i \in DOMAIN dir'}
          /\ Continue(c, AfterBackup(c))
       \/ /\ "disk" \in Faults
          /\ Continue(c, AfterBackup(c))
          /\ UNCHANGED files
       \/ Fail(c, "disk") /\ UNCHANGED files
    /\ UNCHANGED <<busy, table, asks, crashes>>

----------------------------------------------------------------------------
(* The rest of runRestore.                                                 *)

TerminateBackends(c) ==
    /\ pc[c] = "drain"
    /\ Continue(c, "open") \/ Fail(c, "docker")
    /\ UNCHANGED <<files, busy, table, asks, crashes>>

OpenBackup(c) ==
    /\ pc[c] = "open"
    /\ IF InDir(source[c])
       THEN Continue(c, "restore")
       ELSE Goto(c, "audit") /\ failed' = failed \cup {c}
    /\ UNCHANGED <<files, busy, table, asks, crashes>>

(* pg_restore, SELECT 1 and the table count.                               *)
PgRestore(c) ==
    /\ pc[c] = "restore"
    /\ Continue(c, "audit") \/ Fail(c, "docker")
    /\ UNCHANGED <<files, busy, table, asks, crashes>>

----------------------------------------------------------------------------
(* finishJob and the deferred release.                                     *)

AuditJob(c) ==
    /\ pc[c] = "audit"
    /\ \/ audits' = [audits EXCEPT ![c] = Append(@, Result(c))]
       \/ "sqlite" \in Faults /\ UNCHANGED audits
    /\ Goto(c, "stamp")
    /\ UNCHANGED <<files, busy, rows, status, asks, failed, crashes>>

FinishRow(c) ==
    /\ pc[c] = "stamp"
    /\ \/ status' = [status EXCEPT ![c] = IF c \in failed THEN "failed" ELSE "success"]
       \/ "sqlite" \in Faults /\ UNCHANGED status
    /\ Goto(c, "release")
    /\ UNCHANGED <<files, busy, rows, audits, asks, failed, crashes>>

Release(c) ==
    /\ pc[c] = "release"
    /\ busy' = FALSE
    /\ Goto(c, "done")
    /\ UNCHANGED <<files, table, asks, failed, crashes>>

----------------------------------------------------------------------------
(* Faulty variants: the rows are left alone at boot; they get a status of  *)
(* their own, which the column does not know.                              *)
Reconciled_Skipped     == status
Reconciled_Interrupted == [c \in Call |-> IF status[c] = "running" THEN "interrupted" ELSE status[c]]

(* FailRunning, at boot: best effort, an error never fails the boot.       *)
Reconciled == [c \in Call |-> IF status[c] = "running" THEN "failed" ELSE status[c]]

(* The process dies, with its docker commands, and boots again.            *)
Restart ==
    /\ crashes < MaxCrashes
    /\ crashes' = crashes + 1
    /\ busy' = FALSE
    /\ pc' = [c \in Call |-> IF pc[c] \in Working \ {"row"} THEN "lost"
                            ELSE IF pc[c] \in {"asked", "row"} THEN "refused" ELSE pc[c]]
    /\ \/ status' = Reconciled
       \/ "sqlite" \in Faults /\ UNCHANGED status
    /\ UNCHANGED <<files, rows, audits, asks, failed>>

Backup(c)  == CreateFile(c) \/ PgDump(c) \/ WriteSHA256(c) \/ TrimBackups(c)
Restore(c) == TerminateBackends(c) \/ OpenBackup(c) \/ PgRestore(c)

(* Faulty variant: execute without its deferred release.                   *)
Finish_NoRelease(c) == AuditJob(c) \/ FinishRow(c)

Finish(c)  == AuditJob(c) \/ FinishRow(c) \/ Release(c)

Work(c) == Claim(c) \/ CreateRow(c) \/ Backup(c) \/ Restore(c) \/ Finish(c)

Next == (\E c \in Call : Ask(c) \/ Work(c)) \/ Restart

Spec == Init /\ [][Next]_vars

(* The goroutine runs on; the docker commands, which have no timeout, end. *)
FairSpec == Spec /\ \A c \in Call : WF_vars(Work(c))

----------------------------------------------------------------------------
(* Properties.                                                             *)

(* docs/database-ops.md, "One job at a time": whatever operators and the   *)
(* scheduler do, and wherever launch fails, one run at most touches        *)
(* PostgreSQL and the directory, and the guard is up exactly then.         *)
GuardMatchesRun ==
    /\ \A c, d \in Call : pc[c] \in Working /\ pc[d] \in Working => c = d
    /\ busy <=> \E c \in Call : pc[c] \in Working

(* No row reads running without a goroutine behind it, across restarts.    *)
NoOrphanRows ==
    "sqlite" \notin Faults =>
    \A c \in Call : status[c] = "running" => pc[c] \in Working \ {"row"}

(* finishJob, "a terminal status implies its audit entry exists": a row    *)
(* that reads success has a success entry, and the dump it stands for was  *)
(* written to the end.  (A row failed by Reconcile has none.)              *)
SuccessIsAudited ==
    "sqlite" \notin Faults =>
    \A c \in Call : status[c] = "success" => audits[c] = <<"success">> /\ c \notin partial

(* A dump that a job reported disappears only by rotation: there are Keep  *)
(* other ones by then.                                                     *)
ReportedDumpsRotate ==
    \A c \in Call :
        pc[c] = "done" /\ c \notin failed /\ ~InDir(c) => Len(dir) >= Keep

(* "If this fails, the restore aborts before touching anything": when a    *)
(* restore drains or overwrites the database, its safety copy is in the    *)
(* directory, whole and with its checksum.                                 *)
SafetyCopyFirst ==
    \A c \in Call :
        pc[c] \in {"drain", "open", "restore"} => InDir(c) /\ c \notin partial /\ c \in sums

(* A job that was accepted ends and gives the guard back.                  *)
JobsEnd ==
    \A c \in Call : pc[c] = "row" ~> pc[c] \in {"done", "refused", "lost"}

(* docs/database-ops.md, "Names ... must already exist in the backup dir": *)
(* the file a restore was accepted for is there when the other sessions    *)
(* have been terminated for it.                                            *)
RestoreSourceSurvives ==
    \A c \in Call : pc[c] = "open" => InDir(source[c])
=============================================================================
