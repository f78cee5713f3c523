------------------------- MODULE DatabaseJobsProofs -------------------------
(***************************************************************************)
(* One job at a time, a whole safety copy before anything destructive, no  *)
(* row without a run, no success without its audit row and dump, and no    *)
(* reported dump lost but by rotation: for any number of calls, old dumps, *)
(* failures and restarts.                                                  *)
(*                                                                         *)
(* SafetyCopyFirst is not inductive: it holds at "drain" because the copy  *)
(* is the newest entry of the directory from the moment the file is        *)
(* created, nobody else writes there meanwhile (GuardMatchesRun), and a    *)
(* rotation keeps the newest Keep >= 1 entries.  CopyIsNewest says so.     *)
(* ReportedDumpsRotate needs one entry more than Keep while a run may      *)
(* still take its own dump back (RotationInv).                             *)
(***************************************************************************)
EXTENDS DatabaseJobs, SequenceTheorems, TLAPS

(* A sequence that is not empty has a last entry.                          *)
LEMMA LastIndex ==
    ASSUME NEW S, NEW seq \in Seq(S), seq # <<>>
    PROVE  Len(seq) \in Nat \ {0} /\ Len(seq) \in DOMAIN seq
<1>1. Len(seq) \in Nat /\ DOMAIN seq = 1 .. Len(seq)
  OBVIOUS
<1>2. Len(seq) # 0
  BY EmptySeq
<1> QED
  BY <1>1, <1>2

(* The suffix of a sequence ends with the last entry.                      *)
LEMMA SuffixKeepsLast ==
    ASSUME NEW S, NEW seq \in Seq(S), NEW f \in 1 .. Len(seq)
    PROVE  /\ SubSeq(seq, f, Len(seq)) \in Seq(S)
           /\ SubSeq(seq, f, Len(seq)) # <<>>
           /\ SubSeq(seq, f, Len(seq))[Len(SubSeq(seq, f, Len(seq)))] = seq[Len(seq)]
<1> DEFINE new == SubSeq(seq, f, Len(seq))
           k   == Len(seq) - f + 1
<1>1. Len(seq) \in Nat /\ f \in Nat /\ k \in 1 .. k
  OBVIOUS
<1>2. \A i \in f .. Len(seq) : seq[i] \in S
  OBVIOUS
<1>3. new \in Seq(S) /\ Len(new) = k /\ \A i \in 1 .. k : new[i] = seq[f + i - 1]
  BY <1>1, <1>2, SubSeqProperties
<1>4. f + k - 1 = Len(seq)
  BY <1>1
<1> HIDE DEF new
<1>5. new[Len(new)] = seq[Len(seq)]
  BY <1>1, <1>3, <1>4
<1>6. new # <<>>
  BY <1>1, <1>3
<1> QED
  BY <1>3, <1>5, <1>6 DEF new

(* Rotation returns entries of the sequence it is given, and the last of   *)
(* them stays the last.                                                    *)
LEMMA NewestType ==
    ASSUME NEW S, NEW seq \in Seq(S), NEW n \in Nat
    PROVE  /\ Newest(seq, n) \in Seq(S)
           /\ n > 0 /\ seq # <<>> => /\ Newest(seq, n) # <<>>
                                     /\ Newest(seq, n)[Len(Newest(seq, n))] = seq[Len(seq)]
<1> DEFINE f == IF Len(seq) > n THEN Len(seq) - n + 1 ELSE 1
<1>1. Len(seq) \in Nat /\ f \in Nat /\ f >= 1
  OBVIOUS
<1>2. \A i \in f .. Len(seq) : seq[i] \in S
  BY <1>1
<1>3. n > 0 /\ seq # <<>> => f \in 1 .. Len(seq)
  BY LastIndex
<1> HIDE DEF f
<1>4. SubSeq(seq, f, Len(seq)) \in Seq(S)
  BY <1>1, <1>2, SubSeqProperties
<1>5. Newest(seq, n) = SubSeq(seq, f, Len(seq))
  BY DEF Newest, f
<1> QED
  BY <1>3, <1>4, <1>5, SuffixKeepsLast

(* Removing a dump leaves dumps of the directory.                          *)
LEMMA WithoutType ==
    ASSUME dir \in Seq(Dump), NEW d, InDir(d)
    PROVE  Without(d) \in Seq(Dump)
<1> DEFINE i == CHOOSE i \in DOMAIN dir : dir[i] = d
<1>1. i \in 1 .. Len(dir) /\ Len(dir) \in Nat
  BY DEF InDir
<1> HIDE DEF i
<1>2. SubSeq(dir, 1, i - 1) \in Seq(Dump)
  <2>1. \A j \in 1 .. i - 1 : dir[j] \in Dump
    BY <1>1
  <2> QED
    BY <1>1, <2>1, SubSeqProperties
<1>3. SubSeq(dir, i + 1, Len(dir)) \in Seq(Dump)
  <2>1. \A j \in i + 1 .. Len(dir) : dir[j] \in Dump
    BY <1>1
  <2> QED
    BY <1>1, <2>1, SubSeqProperties
<1> QED
  BY <1>2, <1>3 DEF Without, i

----------------------------------------------------------------------------
(* The stages at which the dump of a call is in the directory, is whole,   *)
(* and has its checksum.                                                   *)
Created == {"dump", "sum", "trim", "drain", "open", "restore"}
Whole   == Created \ {"dump"}
Summed  == Whole \ {"sum"}

CopyIsNewest ==
    \A c \in Call :
        /\ pc[c] \in Created => dir # <<>> /\ dir[Len(dir)] = c
        /\ pc[c] \in Whole => c \notin partial
        /\ pc[c] \in Summed => c \in sums

JobInv == TypeOK /\ GuardMatchesRun /\ CopyIsNewest

(* The type invariant is preserved: one step per action.                   *)
LEMMA TypeStep ==
    ASSUME TypeOK, CopyIsNewest, [Next]_vars
    PROVE  TypeOK'
<1> USE DumpsAssumption, LimitsAssumption DEF Goto, Stage, Working, Continue, Fail, Created
<1> USE DEF files, table, asks
<1>1. ASSUME NEW c \in Call, Ask(c) PROVE TypeOK'
  BY <1>1 DEF Ask, TypeOK
<1>2. ASSUME NEW c \in Call, Claim(c) PROVE TypeOK'
  BY <1>2 DEF Claim, TypeOK
<1>3. ASSUME NEW c \in Call, CreateRow(c) PROVE TypeOK'
  <2>1. MaxRows - 1 \in Nat
    OBVIOUS
  <2>2. Append(Newest(rows, MaxRows - 1), c) \in Seq(Call)
    BY <2>1, NewestType DEF TypeOK
  <2>3. rows' \in Seq(Call)
    BY <1>3, <2>2 DEF CreateRow, TypeOK
  <2>4. status' \in [Call -> Status]
    BY <1>3 DEF CreateRow, TypeOK, Status
  <2> QED
    BY <1>3, <2>3, <2>4 DEF CreateRow, TypeOK
<1>4. ASSUME NEW c \in Call, CreateFile(c) PROVE TypeOK'
  <2>1. c \in Dump
    BY DEF Dump
  <2>2. Append(dir, c) \in Seq(Dump)
    BY <2>1 DEF TypeOK
  <2> QED
    BY <1>4, <2>1, <2>2 DEF CreateFile, TypeOK
<1>5. ASSUME NEW c \in Call, PgDump(c) PROVE TypeOK'
  <2>1. InDir(c)
    BY <1>5, LastIndex DEF PgDump, CopyIsNewest, TypeOK, InDir
  <2>2. dir' \in Seq(Dump)
    BY <1>5, <2>1, WithoutType DEF PgDump, TypeOK
  <2> QED
    BY <1>5, <2>2 DEF PgDump, TypeOK
<1>6. ASSUME NEW c \in Call, WriteSHA256(c) PROVE TypeOK'
  <2>1. InDir(c)
    BY <1>6, LastIndex DEF WriteSHA256, CopyIsNewest, TypeOK, InDir
  <2>2. dir' \in Seq(Dump)
    BY <1>6, <2>1, WithoutType DEF WriteSHA256, TypeOK
  <2>3. sums' \subseteq Dump
    BY <1>6 DEF WriteSHA256, TypeOK, Dump
  <2> QED
    BY <1>6, <2>2, <2>3 DEF WriteSHA256, TypeOK
<1>7. ASSUME NEW c \in Call, TrimBackups(c) PROVE TypeOK'
  <2>1. Newest(dir, Keep) \in Seq(Dump)
    BY NewestType DEF TypeOK
  <2>2. dir' \in Seq(Dump) /\ sums' \subseteq sums /\ partial' \subseteq partial
    BY <1>7, <2>1 DEF TrimBackups, TypeOK
  <2>3. pc' \in [Call -> Stage] /\ failed' \subseteq Call
    BY <1>7 DEF TrimBackups, AfterBackup, TypeOK
  <2> QED
    BY <1>7, <2>2, <2>3 DEF TrimBackups, TypeOK
<1>8. ASSUME NEW c \in Call, TerminateBackends(c) \/ OpenBackup(c) \/ PgRestore(c) PROVE TypeOK'
  BY <1>8 DEF TerminateBackends, OpenBackup, PgRestore, TypeOK
<1>9. ASSUME NEW c \in Call, AuditJob(c) PROVE TypeOK'
  <2>1. Append(audits[c], Result(c)) \in Seq({"success", "failure"})
    BY DEF TypeOK, Result
  <2>2. audits' \in [Call -> Seq({"success", "failure"})]
    BY <1>9, <2>1 DEF AuditJob, TypeOK
  <2> QED
    BY <1>9, <2>2 DEF AuditJob, TypeOK
<1>10. ASSUME NEW c \in Call, FinishRow(c) PROVE TypeOK'
  BY <1>10 DEF FinishRow, TypeOK, Status
<1>11. ASSUME NEW c \in Call, Release(c) PROVE TypeOK'
  BY <1>11 DEF Release, TypeOK
<1>12. ASSUME Restart PROVE TypeOK'
  <2>1. pc' \in [Call -> Stage]
    <3>1. \A c \in Call : pc[c] \in Stage
      BY DEF TypeOK
    <3>2. \A c \in Call : pc'[c] \in {"lost", "refused", pc[c]}
      BY <1>12 DEF Restart
    <3> QED
      BY <1>12, <3>1, <3>2 DEF Restart
  <2>2. status' \in [Call -> Status]
    BY <1>12 DEF Restart, Reconciled, TypeOK, Status
  <2>3. busy' \in BOOLEAN /\ crashes' \in Nat
    <3>1. busy' = FALSE /\ crashes' = crashes + 1
      BY <1>12 DEF Restart
    <3>2. crashes \in Nat
      BY DEF TypeOK
    <3>3. crashes' \in Nat
      BY <3>1, <3>2
    <3> QED
      BY <3>1, <3>3
  <2>4. UNCHANGED <<files, rows, audits, asks, failed>>
    BY <1>12 DEF Restart
  <2> QED
    BY <2>1, <2>2, <2>3, <2>4 DEF TypeOK
<1>13. CASE UNCHANGED vars
  BY <1>13 DEF vars, TypeOK
<1> QED
  BY <1>1, <1>2, <1>3, <1>4, <1>5, <1>6, <1>7, <1>8, <1>9, <1>10, <1>11, <1>12, <1>13
     DEF Next, Work, Backup, Restore, Finish

(* The guard is up exactly while a run works: a claim needs it down, and   *)
(* only the run itself, a failed INSERT or the end of the process lowers   *)
(* it.                                                                     *)
LEMMA GuardStep ==
    ASSUME TypeOK, GuardMatchesRun, [Next]_vars
    PROVE  GuardMatchesRun'
<1> USE DEF Goto, Stage, Working, Continue, Fail, Free
<1>1. ASSUME NEW c \in Call, Ask(c) PROVE GuardMatchesRun'
  BY <1>1 DEF Ask, TypeOK, GuardMatchesRun
<1>2. ASSUME NEW c \in Call, Claim(c) PROVE GuardMatchesRun'
  <2>1. CASE busy
    BY <1>2, <2>1 DEF Claim, TypeOK, GuardMatchesRun
  <2>2. CASE ~busy
    BY <1>2, <2>2 DEF Claim, TypeOK, GuardMatchesRun
  <2> QED
    BY <2>1, <2>2
<1>3. ASSUME NEW c \in Call, CreateRow(c) PROVE GuardMatchesRun'
  <2>1. \A d \in Call \ {c} : pc'[d] = pc[d] /\ pc[d] \notin Working
    BY <1>3 DEF CreateRow, TypeOK, GuardMatchesRun
  <2>2. CASE pc'[c] = "create"
    <3>1. busy' = busy /\ busy
      BY <1>3, <2>2 DEF CreateRow, TypeOK, GuardMatchesRun
    <3> QED
      BY <2>1, <2>2, <3>1 DEF GuardMatchesRun
  <2>3. CASE pc'[c] # "create"
    <3>1. busy' = FALSE /\ pc'[c] \notin Working
      BY <1>3, <2>3 DEF CreateRow, TypeOK
    <3> QED
      BY <2>1, <3>1 DEF GuardMatchesRun
  <2> QED
    BY <2>2, <2>3
<1>4. ASSUME NEW c \in Call, Backup(c) \/ Restore(c) \/ AuditJob(c) \/ FinishRow(c)
      PROVE  GuardMatchesRun'
  <2>1. busy' = busy
    BY <1>4 DEF Backup, Restore, CreateFile, PgDump, WriteSHA256, TrimBackups,
       TerminateBackends, OpenBackup, PgRestore, AuditJob, FinishRow
  <2>2. \A d \in Call : pc'[d] \in Working <=> pc[d] \in Working
    BY <1>4 DEF Backup, Restore, CreateFile, PgDump, WriteSHA256, TrimBackups, AfterBackup,
       TerminateBackends, OpenBackup, PgRestore, AuditJob, FinishRow, TypeOK
  <2> QED
    BY <2>1, <2>2 DEF GuardMatchesRun
<1>5. ASSUME NEW c \in Call, Release(c) PROVE GuardMatchesRun'
  BY <1>5 DEF Release, TypeOK, GuardMatchesRun
<1>6. ASSUME Restart PROVE GuardMatchesRun'
  BY <1>6 DEF Restart, TypeOK, GuardMatchesRun
<1>7. CASE UNCHANGED vars
  BY <1>7 DEF vars, GuardMatchesRun
<1> QED
  BY <1>1, <1>2, <1>3, <1>4, <1>5, <1>6, <1>7 DEF Next, Work, Finish

(* A step that is not one of c itself, while c works, leaves the directory *)
(* alone: the others can ask and be refused, and no more.                  *)
LEMMA OthersKeepOut ==
    ASSUME TypeOK, GuardMatchesRun, NEW c \in Call, pc[c] \in Working,
           NEW d \in Call, d # c, Ask(d) \/ Work(d)
    PROVE  UNCHANGED files /\ pc'[c] = pc[c]
<1>1. pc[d] \notin Working
  BY DEF GuardMatchesRun
<1>2. Ask(d) \/ Claim(d)
  BY <1>1 DEF Work, CreateRow, Backup, Restore, Finish, CreateFile, PgDump, WriteSHA256,
     TrimBackups, TerminateBackends, OpenBackup, PgRestore, AuditJob, FinishRow, Release,
     Working
<1> QED
  BY <1>2 DEF Ask, Claim, Goto, TypeOK

(* What a run leaves of its own dump, one step per action of the run.      *)
LEMMA CopyStep ==
    ASSUME JobInv, [Next]_vars
    PROVE  CopyIsNewest'
<1> USE LimitsAssumption DEF JobInv, Goto, Continue, Fail, files, Created, Whole, Summed
<1> DEFINE Good(c) == /\ pc[c] \in Created => dir # <<>> /\ dir[Len(dir)] = c
                      /\ pc[c] \in Whole => c \notin partial
                      /\ pc[c] \in Summed => c \in sums
<1> SUFFICES ASSUME NEW c \in Call PROVE Good(c)'
  BY DEF CopyIsNewest
<1>0. Good(c)
  BY DEF CopyIsNewest
<1>1. CASE Ask(c) \/ Claim(c) \/ CreateRow(c) \/ Finish(c)
  <2>1. pc'[c] \notin Created
    BY <1>1 DEF Ask, Claim, CreateRow, Finish, AuditJob, FinishRow, Release, TypeOK
  <2> QED
    BY <2>1
<1>2. CASE CreateFile(c)
  <2>1. CASE pc'[c] \in Created
    <3>1. dir' = Append(dir, c)
      BY <1>2, <2>1 DEF CreateFile, TypeOK
    <3>2. dir' # <<>> /\ dir'[Len(dir')] = c
      BY <3>1, AppendProperties DEF TypeOK, Dump
    <3>3. pc'[c] \notin Whole
      BY <1>2 DEF CreateFile, TypeOK
    <3> QED
      BY <3>2, <3>3
  <2> QED
    BY <2>1
<1>3. CASE PgDump(c) \/ WriteSHA256(c)
  <2>1. CASE pc'[c] \in Created
    <3>1. dir' = dir /\ c \notin partial' /\ (pc'[c] \in Summed => c \in sums')
      BY <1>0, <1>3, <2>1 DEF PgDump, WriteSHA256, TypeOK
    <3> QED
      BY <1>0, <1>3, <3>1 DEF PgDump, WriteSHA256
  <2> QED
    BY <2>1
<1>4. CASE TrimBackups(c)
  <2>1. dir # <<>> /\ dir[Len(dir)] = c /\ c \notin partial /\ c \in sums
    BY <1>0, <1>4 DEF TrimBackups
  <2>2. /\ Newest(dir, Keep) # <<>>
        /\ Newest(dir, Keep)[Len(Newest(dir, Keep))] = c
        /\ Newest(dir, Keep) \in Seq(Dump)
    BY <2>1, NewestType DEF TypeOK
  <2>3. dir' # <<>> /\ dir'[Len(dir')] = c
    BY <1>4, <2>1, <2>2 DEF TrimBackups
  <2>4. c \notin partial'
    BY <1>4, <2>1 DEF TrimBackups
  <2>5. c \in sums'
    <3>1. dir' \in Seq(Dump)
      BY <1>4, <2>2 DEF TrimBackups, TypeOK
    <3>2. Len(dir') \in DOMAIN dir'
      BY <2>3, <3>1, LastIndex
    <3> QED
      BY <1>4, <2>1, <2>3, <3>2 DEF TrimBackups
  <2> QED
    BY <2>3, <2>4, <2>5
<1>5. CASE Restore(c)
  BY <1>0, <1>5 DEF Restore, TerminateBackends, OpenBackup, PgRestore, TypeOK
<1>6. ASSUME NEW d \in Call, d # c, Ask(d) \/ Work(d) PROVE Good(c)'
  <2>1. CASE pc[c] \in Working
    BY <1>0, <1>6, <2>1, OthersKeepOut DEF files
  <2>2. CASE pc[c] \notin Working
    <3>1. pc'[c] = pc[c]
      BY <1>6 DEF Work, Backup, Restore, Finish, Ask, Claim, CreateRow, CreateFile, PgDump,
         WriteSHA256, TrimBackups, TerminateBackends, OpenBackup, PgRestore, AuditJob,
         FinishRow, Release, TypeOK
    <3> QED
      BY <2>2, <3>1 DEF Working
  <2> QED
    BY <2>1, <2>2
<1>7. CASE Restart
  <2>1. pc'[c] \notin Created
    BY <1>7 DEF Restart, TypeOK, Stage, Working
  <2> QED
    BY <2>1
<1>8. CASE UNCHANGED vars
  BY <1>0, <1>8 DEF vars
<1> QED
  BY <1>1, <1>2, <1>3, <1>4, <1>5, <1>6, <1>7, <1>8 DEF Next, Work, Backup

(* The inductive invariant of the jobs.                                    *)
LEMMA JobInvariant == Spec => []JobInv
<1>1. Init => JobInv
  <2> SUFFICES ASSUME Init PROVE JobInv
    OBVIOUS
  <2>1. OldDumps \in Seq(Dump)
    <3>1. \A i \in 1 .. Len(OldDumps) : OldDumps[i] \in Dump
      BY DumpsAssumption DEF Dump, Old
    <3> QED
      BY <3>1, DumpsAssumption
  <2>2. TypeOK
    <3>1. dir \in Seq(Dump) /\ partial \subseteq Dump /\ sums \subseteq Dump
      BY <2>1 DEF Init, Dump
    <3>2. rows \in Seq(Call) /\ audits \in [Call -> Seq({"success", "failure"})]
      BY DEF Init
    <3>3. status \in [Call -> Status] /\ pc \in [Call -> Stage]
      BY DEF Init, Stage, Status
    <3> QED
      BY <3>1, <3>2, <3>3 DEF Init, TypeOK
  <2>3. GuardMatchesRun /\ CopyIsNewest
    BY DEF Init, GuardMatchesRun, CopyIsNewest, Working, Created, Whole, Summed
  <2> QED
    BY <2>2, <2>3 DEF JobInv
<1>2. JobInv /\ [Next]_vars => JobInv'
  BY TypeStep, GuardStep, CopyStep DEF JobInv
<1> QED
  BY <1>1, <1>2, PTL DEF Spec

(* Every variable of the jobs keeps its type: the directory holds dumps,   *)
(* the table holds calls, however rotation and removal cut them.           *)
THEOREM JobsTypeCorrect == Spec => []TypeOK
<1>1. JobInv => TypeOK
  BY DEF JobInv
<1> QED
  BY <1>1, JobInvariant, PTL

(* One run at most, and the guard is up exactly while it works, also after *)
(* failed INSERTs and restarts.                                            *)
THEOREM OneJobAtATime == Spec => []GuardMatchesRun
<1>1. JobInv => GuardMatchesRun
  BY DEF JobInv
<1> QED
  BY <1>1, JobInvariant, PTL

(* A restore touches the database only with a whole and checksummed copy   *)
(* of it in the directory, whatever Keep is and whoever else asks.         *)
THEOREM RestoreIsSafe == Spec => []SafetyCopyFirst
<1>1. JobInv => SafetyCopyFirst
  <2> SUFFICES ASSUME JobInv, NEW c \in Call, pc[c] \in {"drain", "open", "restore"}
               PROVE  InDir(c) /\ c \notin partial /\ c \in sums
    BY DEF SafetyCopyFirst
  <2>1. dir # <<>> /\ dir[Len(dir)] = c /\ c \notin partial /\ c \in sums
    BY DEF JobInv, CopyIsNewest, Created, Whole, Summed
  <2>2. Len(dir) \in DOMAIN dir
    BY <2>1, LastIndex DEF JobInv, TypeOK
  <2> QED
    BY <2>1, <2>2 DEF InDir
<1> QED
  BY <1>1, JobInvariant, PTL

(* What NoOrphanRows needs to be inductive: the row is stamped before the  *)
(* guard is given back.                                                    *)
RowStamped ==
    "sqlite" \notin Faults =>
    \A c \in Call : pc[c] = "release" => status[c] # "running"

RowInv == NoOrphanRows /\ RowStamped

(* Only the run itself and the reconciliation at boot end a running row.   *)
LEMMA RowStep ==
    ASSUME TypeOK, RowInv, [Next]_vars
    PROVE  RowInv'
<1> SUFFICES ASSUME "sqlite" \notin Faults, NEW c \in Call, status'[c] = "running"
             PROVE  pc'[c] \in Working \ {"row", "release"}
  BY DEF RowInv, NoOrphanRows, RowStamped
<1>0. status[c] = "running" => pc[c] \in Working \ {"row", "release"}
  BY DEF RowInv, NoOrphanRows, RowStamped
<1> USE DEF Goto, Working, Continue, Fail, files, table, asks
<1>1. CASE Restart
  BY <1>1 DEF Restart, Reconciled, TypeOK
<1>2. ASSUME NEW d \in Call, Ask(d) \/ Claim(d) \/ CreateRow(d)
      PROVE  pc'[c] \in Working \ {"row", "release"}
  BY <1>0, <1>2 DEF Ask, Claim, CreateRow, TypeOK
<1>3. ASSUME NEW d \in Call, Backup(d) \/ Restore(d)
      PROVE  pc'[c] \in Working \ {"row", "release"}
  BY <1>0, <1>3 DEF Backup, Restore, CreateFile, PgDump, WriteSHA256, TrimBackups, AfterBackup,
     TerminateBackends, OpenBackup, PgRestore, TypeOK
<1>4. ASSUME NEW d \in Call, Finish(d)
      PROVE  pc'[c] \in Working \ {"row", "release"}
  BY <1>0, <1>4 DEF Finish, AuditJob, FinishRow, Release, TypeOK
<1>5. CASE UNCHANGED vars
  BY <1>0, <1>5 DEF vars
<1> QED
  BY <1>1, <1>2, <1>3, <1>4, <1>5 DEF Next, Work

(* A row never reads running without a run behind it, also across          *)
(* restarts, unless the database itself refuses a write.                   *)
THEOREM RowsHaveRuns == Spec => []NoOrphanRows
<1>1. Init => RowInv
  BY DEF Init, RowInv, NoOrphanRows, RowStamped
<1>2. JobInv /\ RowInv /\ [Next]_vars => RowInv'
  BY RowStep DEF JobInv
<1>3. RowInv => NoOrphanRows
  BY DEF RowInv
<1> QED
  BY <1>1, <1>2, <1>3, JobInvariant, PTL DEF Spec

----------------------------------------------------------------------------
(* What SuccessIsAudited needs: nothing is audited before the audit step   *)
(* and one result after it, and a run that returned no error has a whole   *)
(* dump from then on.                                                      *)
Unaudited == {"new", "asked", "refused", "row", "create", "audit"} \cup Created
Audited   == {"stamp", "release", "done"}

AuditTrail ==
    \A c \in Call :
        /\ pc[c] \in Unaudited => audits[c] = <<>> /\ status[c] # "success"
        /\ pc[c] \in Audited => audits[c] = <<Result(c)>>
        /\ pc[c] \in Audited \cup {"audit"} /\ c \notin failed => c \notin partial
        /\ status[c] = "success" => audits[c] = <<"success">> /\ c \notin partial

AuditInv == "sqlite" \notin Faults => AuditTrail

(* A dump is unfinished only from its creation to the end of pg_dump, and  *)
(* a result is audited once, before the status is stamped.                 *)
LEMMA AuditStep ==
    ASSUME JobInv, AuditInv, [Next]_vars
    PROVE  AuditInv'
<1> USE DEF Goto, Continue, Fail, files, table, asks
<1> DEFINE Trail(c) ==
              /\ pc[c] \in Unaudited => audits[c] = <<>> /\ status[c] # "success"
              /\ pc[c] \in Audited => audits[c] = <<Result(c)>>
              /\ pc[c] \in Audited \cup {"audit"} /\ c \notin failed => c \notin partial
              /\ status[c] = "success" => audits[c] = <<"success">> /\ c \notin partial
<1> SUFFICES ASSUME "sqlite" \notin Faults, NEW c \in Call PROVE Trail(c)'
  BY DEF AuditInv, AuditTrail
<1>0. TypeOK /\ Trail(c)
  BY DEF AuditInv, AuditTrail, JobInv
<1> USE <1>0 DEF Unaudited, Audited, Created
<1>1. CASE Ask(c) \/ Claim(c) \/ CreateRow(c)
  BY <1>1 DEF Ask, Claim, CreateRow, TypeOK, Result
<1>2. CASE CreateFile(c) \/ PgDump(c) \/ WriteSHA256(c)
  BY <1>2 DEF CreateFile, PgDump, WriteSHA256, TypeOK, JobInv, CopyIsNewest, Whole
<1>3. CASE TrimBackups(c)
  <2>1. c \notin partial /\ partial' \subseteq partial
    BY <1>3 DEF TrimBackups, JobInv, CopyIsNewest, Whole
  <2> QED
    BY <1>3, <2>1 DEF TrimBackups, AfterBackup, TypeOK
<1>4. CASE Restore(c)
  <2>1. c \notin partial
    BY <1>4 DEF Restore, TerminateBackends, OpenBackup, PgRestore, JobInv, CopyIsNewest, Whole
  <2> QED
    BY <1>4, <2>1 DEF Restore, TerminateBackends, OpenBackup, PgRestore, TypeOK
<1>5. CASE AuditJob(c)
  <2>1. audits[c] = <<>> /\ audits'[c] = Append(audits[c], Result(c)) /\ Result(c)' = Result(c)
    BY <1>5 DEF AuditJob, TypeOK, Result
  <2>2. audits'[c] = <<Result(c)>>'
    BY <2>1
  <2> QED
    BY <1>5, <2>1, <2>2 DEF AuditJob, TypeOK
<1>6. CASE FinishRow(c) \/ Release(c)
  BY <1>6 DEF FinishRow, Release, TypeOK, Result
<1>7. ASSUME NEW d \in Call, d # c, Ask(d) \/ Work(d) PROVE Trail(c)'
  <2>1. /\ pc'[c] = pc[c] /\ audits'[c] = audits[c] /\ status'[c] = status[c]
        /\ c \in failed' <=> c \in failed
        /\ c \notin partial => c \notin partial'
    BY <1>7 DEF Ask, Work, Claim, CreateRow, Backup, Restore, Finish, CreateFile, PgDump,
       WriteSHA256, TrimBackups, TerminateBackends, OpenBackup, PgRestore, AuditJob,
       FinishRow, Release, TypeOK
  <2> QED
    BY <2>1 DEF Result
<1>8. CASE Restart
  <2>1. /\ UNCHANGED <<partial, audits, failed>>
        /\ status'[c] = "success" => status[c] = "success"
        /\ pc'[c] \in Unaudited => pc[c] \in Unaudited
        /\ pc'[c] \in Audited \cup {"audit"} => pc[c] = pc'[c]
    BY <1>8 DEF Restart, Reconciled, TypeOK, Stage, Working
  <2>2. Result(c)' = Result(c)
    BY <2>1 DEF Result
  <2> QED
    BY <2>1, <2>2
<1>9. CASE UNCHANGED vars
  BY <1>9 DEF vars, Result
<1> QED
  BY <1>1, <1>2, <1>3, <1>4, <1>5, <1>6, <1>7, <1>8, <1>9 DEF Next, Work, Backup, Finish

(* A row that reads success stands for an audited run and a whole dump,    *)
(* whatever fails besides the database, and across restarts.               *)
THEOREM SuccessIsBacked == Spec => []SuccessIsAudited
<1>1. Init => AuditInv
  BY DEF Init, AuditInv, AuditTrail, Unaudited, Audited
<1>2. JobInv /\ AuditInv /\ [Next]_vars => AuditInv'
  BY AuditStep
<1>3. AuditInv => SuccessIsAudited
  BY DEF AuditInv, AuditTrail, SuccessIsAudited
<1> QED
  BY <1>1, <1>2, <1>3, JobInvariant, PTL DEF Spec

----------------------------------------------------------------------------
(* Rotation leaves a sequence that is short enough alone, and cuts a       *)
(* longer one to exactly n entries.                                        *)
LEMMA NewestLength ==
    ASSUME NEW S, NEW seq \in Seq(S), NEW n \in Nat
    PROVE  /\ Len(seq) > n => Len(Newest(seq, n)) = n
           /\ Len(seq) <= n => Newest(seq, n) = seq
<1>1. Len(seq) \in Nat
  OBVIOUS
<1>2. CASE Len(seq) > n
  <2> DEFINE f == Len(seq) - n + 1
  <2>1. f \in Int /\ f >= 1 /\ \A i \in f .. Len(seq) : seq[i] \in S
    BY <1>1, <1>2
  <2>2. Len(SubSeq(seq, f, Len(seq))) = IF f <= Len(seq) THEN Len(seq) - f + 1 ELSE 0
    BY <1>1, <2>1, SubSeqProperties
  <2> QED
    BY <1>1, <1>2, <2>2 DEF Newest
<1>3. CASE Len(seq) <= n
  <2>1. ~(Len(seq) > n)
    BY <1>1, <1>3
  <2>2. Newest(seq, n) = SubSeq(seq, 1, Len(seq))
    BY <2>1 DEF Newest
  <2> QED
    BY <1>1, <1>3, <2>2, SubSeqFull
<1> QED
  BY <1>1, <1>2, <1>3

(* Removing a dump takes one entry away, and leaves every other dump.      *)
LEMMA WithoutRest ==
    ASSUME dir \in Seq(Dump), NEW d, InDir(d)
    PROVE  /\ Len(Without(d)) = Len(dir) - 1
           /\ \A e : e # d /\ InDir(e) =>
                 \E j \in DOMAIN Without(d) : Without(d)[j] = e
<1> DEFINE i     == CHOOSE i \in DOMAIN dir : dir[i] = d
           front == SubSeq(dir, 1, i - 1)
           back  == SubSeq(dir, i + 1, Len(dir))
<1>1. i \in 1 .. Len(dir) /\ Len(dir) \in Nat /\ dir[i] = d
  BY DEF InDir
<1> HIDE DEF i
<1>2. /\ front \in Seq(Dump) /\ Len(front) = i - 1
      /\ \A j \in 1 .. i - 1 : front[j] = dir[j]
  <2>1. \A j \in 1 .. i - 1 : dir[j] \in Dump
    BY <1>1
  <2> QED
    BY <1>1, <2>1, SubSeqProperties
<1>3. /\ back \in Seq(Dump) /\ Len(back) = Len(dir) - i
      /\ \A j \in 1 .. Len(dir) - i : back[j] = dir[i + j]
  <2>1. \A j \in i + 1 .. Len(dir) : dir[j] \in Dump
    BY <1>1
  <2>2. /\ back \in Seq(Dump)
        /\ Len(back) = IF i + 1 <= Len(dir) THEN Len(dir) - (i + 1) + 1 ELSE 0
        /\ \A j \in 1 .. Len(dir) - (i + 1) + 1 : back[j] = dir[i + 1 + j - 1]
    BY <1>1, <2>1, SubSeqProperties
  <2> QED
    BY <1>1, <2>2
<1> HIDE DEF front, back
<1>4. /\ front \o back \in Seq(Dump)
      /\ Len(front \o back) = Len(dir) - 1
      /\ \A j \in 1 .. Len(dir) - 1 :
            (front \o back)[j] = IF j <= i - 1 THEN front[j] ELSE back[j - (i - 1)]
  <2>1. /\ front \o back \in Seq(Dump)
        /\ Len(front \o back) = Len(front) + Len(back)
        /\ \A j \in 1 .. Len(front) + Len(back) :
              (front \o back)[j] = IF j <= Len(front) THEN front[j] ELSE back[j - Len(front)]
    BY <1>2, <1>3, ConcatProperties
  <2>2. Len(front) + Len(back) = Len(dir) - 1
    BY <1>1, <1>2, <1>3
  <2> QED
    BY <1>2, <2>1, <2>2
<1>5. Without(d) = front \o back
  BY DEF Without, i, front, back
<1>6. ASSUME NEW e, e # d, InDir(e)
      PROVE  \E j \in DOMAIN (front \o back) : (front \o back)[j] = e
  <2>1. PICK k \in 1 .. Len(dir) : dir[k] = e
    BY <1>6 DEF InDir
  <2>2. k # i
    BY <1>1, <1>6, <2>1
  <2>3. CASE k < i
    <3>1. k \in 1 .. i - 1 /\ k \in 1 .. Len(dir) - 1
      BY <1>1, <2>3
    <3>2. (front \o back)[k] = e
      BY <1>1, <1>2, <1>4, <2>1, <3>1
    <3> QED
      BY <1>4, <3>1, <3>2
  <2>4. CASE k > i
    <3>1. k - 1 \in 1 .. Len(dir) - 1 /\ ~(k - 1 <= i - 1) /\ k - i \in 1 .. Len(dir) - i
          /\ k - 1 - (i - 1) = k - i /\ i + (k - i) = k
      BY <1>1, <2>4
    <3>2. (front \o back)[k - 1] = back[k - i]
      BY <1>4, <3>1
    <3>3. back[k - i] = e
      BY <1>3, <2>1, <3>1
    <3>4. DOMAIN (front \o back) = 1 .. Len(dir) - 1
      BY <1>4
    <3> QED
      BY <3>1, <3>2, <3>3, <3>4
  <2> QED
    BY <1>1, <2>2, <2>3, <2>4
<1> QED
  BY <1>4, <1>5, <1>6

(* A reported dump is gone: some call succeeded and its dump is not in the *)
(* directory.                                                              *)
Gone == \E c \in Call : pc[c] = "done" /\ c \notin failed /\ ~InDir(c)

(* A run may still take its own dump back until it has its checksum.       *)
Tentative == \E c \in Call : pc[c] \in {"dump", "sum"}

(* What ReportedDumpsRotate needs: a run that returned no error has its    *)
(* dump in the directory until it is done, and the dump that a failing run *)
(* takes back does not count among the Keep.                               *)
RotationInv ==
    /\ \A c \in Call :
          pc[c] \in {"audit", "stamp", "release"} /\ c \notin failed => InDir(c)
    /\ Gone => Len(dir) >= Keep + (IF Tentative THEN 1 ELSE 0)

(* Only a rotation takes a reported dump, and it leaves Keep others; what  *)
(* comes and goes afterwards is above that.                                *)
LEMMA RotationStep ==
    ASSUME JobInv, RotationInv, [Next]_vars
    PROVE  RotationInv'
<1> USE LimitsAssumption DEF Goto, Continue, Fail, files, table, asks
<1>1. TypeOK /\ GuardMatchesRun /\ CopyIsNewest
  BY DEF JobInv
<1>2. dir \in Seq(Dump) /\ Len(dir) \in Nat
  BY <1>1 DEF TypeOK
<1>3. \A c \in Call : pc[c] \in Created => InDir(c)
  BY <1>1, <1>2, LastIndex DEF CopyIsNewest, InDir
<1>4. ASSUME NEW d \in Call, Ask(d) \/ Claim(d) \/ CreateRow(d) \/ AuditJob(d) \/ FinishRow(d)
      PROVE  RotationInv'
  <2>1. /\ UNCHANGED <<dir, failed>>
        /\ \A c \in Call :
              /\ pc'[c] \in {"audit", "stamp", "release"} <=> pc[c] \in {"audit", "stamp", "release"}
              /\ pc'[c] = "done" <=> pc[c] = "done"
              /\ pc'[c] \in {"dump", "sum"} <=> pc[c] \in {"dump", "sum"}
    BY <1>1, <1>4 DEF Ask, Claim, CreateRow, AuditJob, FinishRow, TypeOK
  <2> QED
    BY <2>1 DEF RotationInv, Gone, Tentative, InDir
<1>5. ASSUME NEW d \in Call, CreateFile(d) PROVE RotationInv'
  <2>1. /\ \A c \in Call \ {d} : pc'[c] = pc[c]
        /\ \A c \in Call \ {d} : c \in failed' <=> c \in failed
        /\ \A c \in Call : pc[c] \notin {"dump", "sum"}
    BY <1>1, <1>5 DEF CreateFile, TypeOK, GuardMatchesRun, Working
  <2>2. CASE pc'[d] = "dump"
    <3>1. dir' = Append(dir, d)
      BY <1>5, <2>2, <1>1 DEF CreateFile, TypeOK
    <3>2. Len(dir') = Len(dir) + 1 /\ \A c : InDir(c) => InDir(c)'
      <4>1. dir \in Seq(Dump) /\ d \in Dump
        BY <1>2 DEF Dump
      <4>2. Len(dir') = Len(dir) + 1 /\ \A i \in 1 .. Len(dir) : dir'[i] = dir[i]
        BY <3>1, <4>1, AppendProperties
      <4>3. DOMAIN dir = 1 .. Len(dir) /\ DOMAIN dir' = 1 .. Len(dir')
        BY <3>1, <4>1
      <4> QED
        BY <1>2, <4>2, <4>3 DEF InDir
    <3>3. Gone' => Gone
      BY <2>1, <2>2, <3>2 DEF Gone
    <3> QED
      BY <1>2, <2>1, <2>2, <3>2, <3>3 DEF RotationInv
  <2>3. CASE pc'[d] = "audit"
    <3>1. dir' = dir /\ d \in failed'
      BY <1>1, <1>5, <2>3 DEF CreateFile, TypeOK
    <3>2. ~Tentative /\ ~Tentative'
      BY <2>1, <2>3 DEF Tentative
    <3>3. Gone' => Gone
      BY <2>1, <2>3, <3>1 DEF Gone, InDir
    <3> QED
      BY <2>1, <2>3, <3>1, <3>2, <3>3 DEF RotationInv, InDir
  <2> QED
    BY <1>1, <1>5, <2>2, <2>3 DEF CreateFile, TypeOK
<1>6. ASSUME NEW d \in Call, PgDump(d) \/ WriteSHA256(d) PROVE RotationInv'
  <2>1. /\ pc[d] \in {"dump", "sum"} /\ InDir(d)
        /\ \A c \in Call \ {d} : pc'[c] = pc[c] /\ pc[c] \notin Working
        /\ \A c \in Call \ {d} : c \in failed' <=> c \in failed
    BY <1>1, <1>3, <1>6 DEF PgDump, WriteSHA256, TypeOK, GuardMatchesRun, Working, Created
  <2>2. Tentative
    BY <2>1 DEF Tentative
  <2>3. CASE pc'[d] # "audit"
    <3>1. dir' = dir /\ pc'[d] \in {"sum", "trim"}
      BY <1>1, <1>6, <2>3 DEF PgDump, WriteSHA256, TypeOK
    <3>2. Gone' => Gone
      BY <2>1, <3>1 DEF Gone, InDir
    <3> QED
      BY <1>2, <2>1, <2>2, <3>1, <3>2 DEF RotationInv, InDir, Working
  <2>4. CASE pc'[d] = "audit"
    <3>1. dir' = Without(d) /\ d \in failed'
      BY <1>1, <1>6, <2>4 DEF PgDump, WriteSHA256, TypeOK
    <3>2. Len(dir') = Len(dir) - 1 /\ \A e : e # d /\ InDir(e) => InDir(e)'
      BY <1>2, <2>1, <3>1, WithoutRest DEF InDir
    <3>3. Gone' => Gone
      BY <2>1, <2>4, <3>2 DEF Gone
    <3>4. ~Tentative'
      BY <2>1, <2>4 DEF Tentative, Working
    <3> QED
      BY <1>2, <2>1, <2>2, <2>4, <3>1, <3>2, <3>3, <3>4 DEF RotationInv, Working
  <2> QED
    BY <2>3, <2>4
<1>7. ASSUME NEW d \in Call, TrimBackups(d) PROVE RotationInv'
  <2>1. /\ pc[d] = "trim" /\ pc'[d] \in {"drain", "audit"} /\ InDir(d)
        /\ \A c \in Call \ {d} : pc'[c] = pc[c] /\ pc[c] \notin Working
        /\ \A c \in Call \ {d} : c \in failed' <=> c \in failed
    BY <1>1, <1>3, <1>7 DEF TrimBackups, AfterBackup, TypeOK, GuardMatchesRun, Working, Created
  <2>2. ~Tentative /\ ~Tentative'
    BY <2>1 DEF Tentative, Working
  <2>3. CASE dir' = dir
    <3>1. Gone' => Gone
      BY <2>1, <2>3 DEF Gone, InDir
    <3> QED
      BY <2>1, <2>2, <2>3, <3>1 DEF RotationInv, InDir, Working
  <2>4. CASE dir' = Newest(dir, Keep) /\ Len(dir) > Keep
    <3>1. Len(dir') = Keep
      BY <1>2, <2>4, NewestLength
    <3>2. InDir(d)'
      <4>1. dir # <<>> /\ dir[Len(dir)] = d
        BY <1>1, <2>1 DEF CopyIsNewest, Created
      <4>2. dir' \in Seq(Dump) /\ dir' # <<>> /\ dir'[Len(dir')] = d
        BY <1>2, <2>4, <4>1, NewestType
      <4> QED
        BY <4>2, LastIndex DEF InDir
    <3> QED
      BY <2>1, <2>2, <3>1, <3>2 DEF RotationInv, Working
  <2> QED
    BY <1>2, <1>7, <2>3, <2>4, NewestLength DEF TrimBackups
<1>8. ASSUME NEW d \in Call, Restore(d) PROVE RotationInv'
  <2>1. /\ InDir(d) /\ dir' = dir
        /\ pc[d] \in {"drain", "open", "restore"} /\ pc'[d] \in {"open", "restore", "audit"}
        /\ \A c \in Call \ {d} : pc'[c] = pc[c]
        /\ \A c \in Call \ {d} : c \in failed' <=> c \in failed
    BY <1>1, <1>3, <1>8 DEF Restore, TerminateBackends, OpenBackup, PgRestore, TypeOK, Created
  <2>2. (Gone' => Gone) /\ (Tentative' <=> Tentative)
    BY <2>1 DEF Gone, Tentative, InDir
  <2> QED
    BY <2>1, <2>2 DEF RotationInv, InDir
<1>9. ASSUME NEW d \in Call, Release(d) PROVE RotationInv'
  <2>1. /\ pc[d] = "release" /\ pc'[d] = "done" /\ UNCHANGED <<dir, failed>>
        /\ \A c \in Call \ {d} : pc'[c] = pc[c]
    BY <1>1, <1>9 DEF Release, TypeOK
  <2>2. d \notin failed => InDir(d)
    BY <2>1 DEF RotationInv
  <2>3. (Gone' => Gone) /\ (Tentative' <=> Tentative)
    BY <2>1, <2>2 DEF Gone, Tentative, InDir
  <2> QED
    BY <2>1, <2>3 DEF RotationInv, InDir
<1>10. CASE Restart
  <2>1. /\ UNCHANGED <<dir, failed>>
        /\ \A c \in Call : pc'[c] \notin Working /\ (pc'[c] = "done" <=> pc[c] = "done")
    BY <1>10, <1>1 DEF Restart, TypeOK, Stage, Working
  <2>2. (Gone' => Gone) /\ ~Tentative'
    BY <2>1 DEF Gone, Tentative, InDir, Working
  <2> QED
    BY <1>2, <2>1, <2>2 DEF RotationInv, Working
<1>11. CASE UNCHANGED vars
  BY <1>11 DEF vars, RotationInv, Gone, Tentative, InDir
<1> QED
  BY <1>4, <1>5, <1>6, <1>7, <1>8, <1>9, <1>10, <1>11 DEF Next, Work, Backup, Finish

(* A dump a job reported is only ever rotated out by Keep newer ones,      *)
(* however many later runs fail and take theirs back, or die half way.     *)
THEOREM ReportedDumpsStay == Spec => []ReportedDumpsRotate
<1>1. Init => RotationInv
  BY DEF Init, RotationInv, Gone
<1>2. JobInv /\ RotationInv /\ [Next]_vars => RotationInv'
  BY RotationStep
<1>3. JobInv /\ RotationInv => ReportedDumpsRotate
  BY LimitsAssumption DEF JobInv, TypeOK, RotationInv, Gone, ReportedDumpsRotate
<1> QED
  BY <1>1, <1>2, <1>3, JobInvariant, PTL DEF Spec
=============================================================================
