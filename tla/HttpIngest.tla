----------------------------- MODULE HttpIngest -----------------------------
(***************************************************************************)
(* Request counts from the nginx timing log: the tailer of                 *)
(* internal/nginxlog/tailer.go reads complete lines behind a cursor, the   *)
(* collector of internal/service/performance_collector.go adds one bucket  *)
(* per dimension of a batch and then stores the cursor, and the tables of  *)
(* internal/store/performance.go refuse a bucket whose ingest key they     *)
(* know.  Offsets are counted in lines; a line still being written makes   *)
(* the file no longer.                                                     *)
(***************************************************************************)
EXTENDS Integers, Sequences, FiniteSets, FiniteSetsExt

CONSTANTS Dimension,  \* minute, method, route, upstream and status of a request
          ReadCap,    \* maxRecordsPerRead
          MaxLines,   \* bound: lines nginx writes
          MaxMoves,   \* bound: rotations and truncations
          MaxFaults   \* bound: failed calls and restarts

ASSUME HttpAssumption ==
    /\ IsFiniteSet(Dimension) /\ Dimension # {} /\ "junk" \notin Dimension
    /\ ReadCap \in Nat \ {0}
    /\ MaxLines \in Nat /\ MaxMoves \in Nat /\ MaxFaults \in Nat

VARIABLES
    file,      \* [id, lines, partial]: what nginx wrote; the last may be partial
    tail,      \* t.cursor: [id, off, drops]
    row,       \* the row "nginx" of collector_cursors; id 0 when there is none
    stage,     \* where collectHTTP is
    batch,     \* what Read returned: [todo, lines, cursor]
    keys,      \* performance_ingest_batches: <<id, off, dimension>>
    counted,   \* http_metric_buckets: how often each line was added
    written, moves, faults,
    cut,       \* history: the file was truncated in place
    forgot,    \* history: a failed read of the row was taken for no row
    covered    \* history: lines behind a cursor that was stored

log     == <<file, written, moves, cut>>
stored  == <<row, keys, counted>>
memory  == <<tail, stage, batch>>
vars    == <<log, memory, stored, faults, forgot, covered>>

Line   == [n : 1 .. MaxLines, kind : Dimension \cup {"junk"}]
Cursor == [id : Nat, off : Nat, drops : Nat]

TypeOK ==
    /\ file \in [id : Nat \ {0}, lines : Seq(Line), partial : BOOLEAN]
    /\ tail \in Cursor /\ row \in Cursor
    /\ stage \in {"idle", "upsert", "fail"}
    /\ batch \in [todo : SUBSET Dimension, lines : SUBSET Line, cursor : Cursor]
    /\ keys \subseteq Nat \X Nat \X Dimension
    /\ counted \in [1 .. MaxLines -> Nat]
    /\ written \in 0 .. MaxLines /\ moves \in 0 .. MaxMoves /\ faults \in 0 .. MaxFaults
    /\ cut \in BOOLEAN /\ forgot \in BOOLEAN /\ covered \subseteq 1 .. MaxLines

NoCursor == [id |-> 0, off |-> 0, drops |-> 0]
NoBatch  == [todo |-> {}, lines |-> {}, cursor |-> NoCursor]

Init ==
    /\ file = [id |-> 1, lines |-> << >>, partial |-> FALSE]
    /\ tail = NoCursor /\ row = NoCursor
    /\ stage = "idle" /\ batch = NoBatch
    /\ keys = {} /\ counted = [n \in 1 .. MaxLines |-> 0]
    /\ written = 0 /\ moves = 0 /\ faults = 0
    /\ cut = FALSE /\ forgot = FALSE /\ covered = {}

Fault == faults < MaxFaults /\ faults' = faults + 1
Fine  == UNCHANGED faults

-----------------------------------------------------------------------------
(* nginx and logrotate.                                                    *)
Complete == Len(file.lines) - (IF file.partial THEN 1 ELSE 0)

Write(kind) ==
    /\ written < MaxLines /\ written' = written + 1 /\ ~file.partial
    /\ file' = [file EXCEPT !.lines = Append(@, [n |-> written + 1, kind |-> kind]),
                            !.partial = TRUE]
    /\ UNCHANGED <<moves, cut, memory, stored, faults, forgot, covered>>

EndLine ==
    /\ file.partial /\ file' = [file EXCEPT !.partial = FALSE]
    /\ UNCHANGED <<written, moves, cut, memory, stored, faults, forgot, covered>>

(* A new file under the path, or the same file emptied.                    *)
Move(id) ==
    /\ moves < MaxMoves /\ moves' = moves + 1 /\ ~file.partial
    /\ file' = [id |-> id, lines |-> << >>, partial |-> FALSE]
    /\ cut' = (cut \/ id = file.id)
    /\ UNCHANGED <<written, memory, stored, faults, forgot, covered>>

-----------------------------------------------------------------------------
(* A fault of the next definition: a new file is read on from the old one's *)
(* offset.                                                                 *)
Renewed_Offset(c) == IF c.id \notin {0, file.id} THEN [c EXCEPT !.drops = @ + 1] ELSE c

(* Tailer.Read.  A new identity and a file shorter than the offset start   *)
(* over, with a drop for what may be lost.                                 *)
Renewed(c) == IF c.id \notin {0, file.id}
              THEN [c EXCEPT !.off = 0, !.drops = @ + 1] ELSE c

Shrunk(c)  == IF Complete < c.off
              THEN [c EXCEPT !.off = 0, !.drops = @ + 1] ELSE c

Placed == [Shrunk(Renewed(tail)) EXCEPT !.id = file.id]

LastRead(c) == Min({c.off + ReadCap, Complete})

Taken == {file.lines[k] : k \in Placed.off + 1 .. LastRead(Placed)}
Junk  == {l \in Taken : l.kind = "junk"}

(* aggregateHTTP: one bucket per dimension of the well-formed lines.       *)
Buckets(taken) == {l.kind : l \in taken \ Junk}

Read ==
    /\ stage = "idle"
    /\ \/ /\ Fine /\ stage' = "upsert"
          /\ batch' = [todo   |-> Buckets(Taken),
                       lines  |-> Taken,
                       cursor |-> [Placed EXCEPT !.off = LastRead(Placed),
                                                 !.drops = @ + Cardinality(Junk)]]
       \/ Fault /\ stage' = "fail" /\ UNCHANGED batch
    /\ UNCHANGED <<log, tail, stored, forgot, covered>>

-----------------------------------------------------------------------------
(* UpsertHTTP of one bucket, in one transaction: the ingest key and the    *)
(* counts, or nothing if the key is there.                                 *)
Key(d) == <<batch.cursor.id, batch.cursor.off, d>>

UpsertHTTP(d) ==
    /\ keys' = keys \cup {Key(d)}
    /\ counted' = IF Key(d) \in keys THEN counted
                  ELSE [n \in DOMAIN counted |->
                          counted[n] + Cardinality({l \in batch.lines : l.n = n /\ l.kind = d})]

(* A fault of the next definition: a bucket that fails is passed over.     *)
Upsert_PassedOver(d) ==
    /\ stage = "upsert" /\ d \in batch.todo
    /\ batch' = [batch EXCEPT !.todo = @ \ {d}] /\ UNCHANGED stage
    /\ \/ Fine /\ UpsertHTTP(d)
       \/ Fault /\ UNCHANGED <<keys, counted>>
    /\ UNCHANGED <<log, tail, row, forgot, covered>>

(* A failed bucket ends the pass: neither cursor moves.                    *)
Upsert(d) ==
    /\ stage = "upsert" /\ d \in batch.todo
    /\ \/ /\ Fine /\ UpsertHTTP(d)
          /\ batch' = [batch EXCEPT !.todo = @ \ {d}] /\ UNCHANGED stage
       \/ Fault /\ stage' = "fail" /\ UNCHANGED <<batch, keys, counted>>
    /\ UNCHANGED <<log, tail, row, forgot, covered>>

(* A fault of the next definition: the tailer's count replaces the row's.  *)
mergePersistedDrops_Own(c) == c

mergePersistedDrops(c) == [c EXCEPT !.drops = Max({@, row.drops})]

(* A fault of the next definition: the tailer keeps its old cursor.        *)
Acknowledge_Never(c) == UNCHANGED tail

Acknowledge(c) == tail' = c

Store(c) ==
    /\ row' = c /\ Acknowledge(c)
    /\ covered' = covered \cup {l.n : l \in {b \in batch.lines : b.kind # "junk"}}

(* The row is written and only then acknowledged to the tailer.            *)
PersistCursor ==
    /\ stage = "upsert" /\ batch.todo = {} /\ stage' = "idle" /\ batch' = NoBatch
    /\ \/ Fine /\ Store(mergePersistedDrops(batch.cursor)) /\ UNCHANGED forgot
       \/ Fault /\ Store(batch.cursor) /\ forgot' = TRUE
       \/ Fault /\ UNCHANGED <<row, tail, covered, forgot>>
    /\ UNCHANGED <<log, keys, counted>>

(* recordFailure keeps the place and counts a drop; it ignores the error   *)
(* of its own read, and then writes a row without a place.                 *)
RecordFailure ==
    /\ stage = "fail" /\ stage' = "idle" /\ batch' = NoBatch
    /\ \/ Fine /\ row' = [row EXCEPT !.drops = @ + 1] /\ UNCHANGED forgot
       \/ Fault /\ row' = [NoCursor EXCEPT !.drops = 1] /\ forgot' = TRUE
       \/ Fault /\ UNCHANGED <<row, forgot>>
    /\ UNCHANGED <<log, tail, keys, counted, covered>>

(* newPerformanceCollector loads the row for the tailer.                   *)
Restart ==
    /\ Fault /\ tail' = row /\ stage' = "idle" /\ batch' = NoBatch
    /\ UNCHANGED <<log, stored, forgot, covered>>

-----------------------------------------------------------------------------
Collect == Read \/ (\E d \in Dimension : Upsert(d)) \/ PersistCursor \/ RecordFailure

Next ==
    \/ Collect \/ EndLine \/ Restart
    \/ \E kind \in Dimension \cup {"junk"} : Write(kind)
    \/ \E id \in {file.id, file.id + 1} : Move(id)

(* Run's loop never stops, and a line begun is ended.                      *)
Spec == Init /\ [][Next]_vars /\ WF_vars(Collect) /\ WF_vars(EndLine)

-----------------------------------------------------------------------------
(* No request behind a stored cursor is missing from the buckets, whatever *)
(* failed between the buckets and the cursor; only a file truncated in     *)
(* place can bring an old ingest key back.                                 *)
LinesCounted == \A n \in covered : counted[n] > 0 \/ cut

(* Without a failure or a restart every request is counted once, across    *)
(* rotation, truncation, partial lines and batches at the limit.           *)
ExactWithoutFaults == faults = 0 => \A n \in DOMAIN counted : counted[n] <= 1

(* The persisted count of lost records only grows: neither a failure       *)
(* between two passes nor a restart forgets one.                           *)
DropsGrow == [][forgot' \/ row'.drops >= row.drops]_vars

(* Every request in the log is counted, unless the file goes first; the    *)
(* loop recovers from every failure.                                       *)
InLog(n) == \E k \in 1 .. Complete : file.lines[k].n = n /\ file.lines[k].kind # "junk"

RequestsArrive == \A n \in 1 .. MaxLines : InLog(n) ~> counted[n] > 0 \/ ~InLog(n) \/ cut

(* The comment of UpsertHTTP: the ingest key makes a retry idempotent.     *)
RetriesAreIdempotent == ~forgot => \A n \in DOMAIN counted : counted[n] <= 1
=============================================================================
