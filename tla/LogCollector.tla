----------------------------- MODULE LogCollector -----------------------------
(***************************************************************************)
(* The log collector (internal/service/log_collector.go): a poll loop that *)
(* tails the containers of one service, stores the new lines, counts their *)
(* volume and advances one cursor per container.  Rows, volume and cursors *)
(* are written one after the other, and a crash may fall between any two.  *)
(* A line is its place in its container's log; the text is left out.       *)
(***************************************************************************)
EXTENDS Integers, Sequences, FiniteSets, SequencesExt, FiniteSetsExt

CONSTANTS Container,   \* containers of the service, by id
          MaxLines,    \* bound: lines the containers write
          MaxStamp,    \* bound: stamps are 1 .. MaxStamp
          PollCap,     \* maxLinesPerPoll
          RowCap,      \* MaxLinesPerService
          MaxLimit,    \* maxLogSearchLimit
          ScanChunk,   \* levelScanChunk: rows of a page of a level search
          ScanPages,   \* levelScanMaxChunks
          MaxFailures  \* bound: failed calls and crashes

ASSUME LogAssumption ==
    /\ IsFiniteSet(Container) /\ Container # {}
    /\ MaxLines \in Nat /\ MaxStamp \in Nat \ {0} /\ MaxFailures \in Nat
    /\ PollCap \in Nat \ {0} /\ RowCap \in Nat \ {0}
    /\ MaxLimit \in Nat \ {0} /\ ScanChunk \in Nat \ {0} /\ ScanPages \in Nat

VARIABLES
    logs,       \* docker's log of each container: a sequence of [ts, stream]
    dockerClock, \* the stamp of the next line
    pc,         \* where collect is
    left,       \* containers still to tail or to persist in this cycle
    batch,      \* lines <<container, place>> of this cycle
    pending,    \* cursors of this cycle, by container seen
    cursors,    \* c.cursors: in memory, by container known
    saved,      \* persisted cursors: [ts, boundary]
    rows,       \* log_lines of the service, by id
    volume,     \* log_volume_buckets: lines counted per severity
    ingested,   \* performance_ingest_batches: <<ingest key, severity>>
    health,     \* the log_volume cursor: [dropped, complete]
    failed,     \* a bucket of this cycle was not written
    failures,   \* failed calls and crashes so far
    inserted,   \* history: every line stored, in the order of the writes
    missed,     \* history: lines a poll passed over, hidden by newer ones
    overtaken,  \* history: lines flushed late, older than a cursor held then
    unowned,    \* history: a failed bucket that could not be reported
    disturbed   \* history: a restart, a cursor unread or unwritten

daemon     == <<logs, dockerClock>>
memory     == <<pc, left, batch, pending, cursors, failed>>
logTables  == <<saved, rows, volume, ingested, health>>
logHistory == <<inserted, missed, overtaken, unowned, disturbed>>
logVars    == <<daemon, memory, logTables, failures, logHistory>>

Stream  == {"stdout", "stderr"}
Line    == UNION {{<<c, n>> : n \in 1 .. Len(logs[c])} : c \in Container}
Ts(l)   == logs[l[1]][l[2]].ts
Of(l)   == logs[l[1]][l[2]].stream

(* Severities: unmarked lines of stdout are info, of stderr warn.          *)
ParseLogLevel(l) == IF Of(l) = "stderr" THEN "warn" ELSE "info"
Severity         == {"info", "warn"}

NoCursor  == [ts |-> 0, boundary |-> 0]
NoCursors == [c \in {} |-> NoCursor]

Cursor  == [ts : 0 .. MaxStamp, boundary : 0 .. MaxLines]
Cursors == UNION {[known -> Cursor] : known \in SUBSET Container}

LogsTypeOK ==
    /\ logs \in [Container -> Seq([ts : 1 .. dockerClock, stream : Stream])]
    /\ dockerClock \in 1 .. MaxStamp /\ pc \in {"idle", "tail", "volume", "persist"}
    /\ left \subseteq Container \cup Severity
    /\ batch \in Seq(Line) /\ rows \in Seq(Line) /\ inserted \in Seq(Line)
    /\ missed \subseteq Line /\ overtaken \subseteq Line
    /\ pending \in Cursors /\ cursors \in Cursors /\ saved \in [Container -> Cursor]
    /\ volume \in [Severity -> Nat] /\ failures \in 0 .. MaxFailures
    /\ health \in [dropped : Nat, complete : BOOLEAN]
    /\ failed \in BOOLEAN /\ unowned \in BOOLEAN /\ disturbed \in BOOLEAN

LogsInit ==
    /\ logs = [c \in Container |-> << >>] /\ dockerClock = 1
    /\ pc = "idle" /\ left = {} /\ batch = << >> /\ pending = NoCursors
    /\ cursors = NoCursors /\ failed = FALSE
    /\ saved = [c \in Container |-> NoCursor]
    /\ rows = << >> /\ volume = [s \in Severity |-> 0] /\ ingested = {}
    /\ health = [dropped |-> 0, complete |-> TRUE]
    /\ failures = 0 /\ inserted = << >> /\ missed = {} /\ overtaken = {}
    /\ unowned = FALSE /\ disturbed = FALSE

Failure   == failures < MaxFailures /\ failures' = failures + 1
NoFailure == UNCHANGED failures

-----------------------------------------------------------------------------
(* The members of a finite set in the order of a relation, and the entries *)
(* of a sequence at some of its places.                                    *)
Arranged(set, order) ==
    CHOOSE s \in [1 .. Cardinality(set) -> set] :
        \A j, k \in DOMAIN s : j < k => s[j] # s[k] /\ <<s[j], s[k]>> \in order

Ascending(places) == Arranged(places, {p \in places \X places : p[1] <= p[2]})

At(lines, places) ==
    LET order == Ascending(places) IN [k \in DOMAIN order |-> lines[order[k]]]

-----------------------------------------------------------------------------
(* The daemon: a container writes a line, of this moment or, flushed late  *)
(* or copied after the other stream, of one before.  A line older than a   *)
(* cursor its container has at that moment is recorded.                    *)
CursorsOf(c) == {saved[c]} \cup {table[c] : table \in {t \in {cursors, pending} : c \in DOMAIN t}}

Emit(c, s, stamp) ==
    /\ Cardinality(Line) < MaxLines
    /\ logs' = [logs EXCEPT ![c] = Append(@, [ts |-> stamp, stream |-> s])]
    /\ overtaken' = overtaken \cup
          {l \in {<<c, Len(logs[c]) + 1>>} : \E cursor \in CursorsOf(c) : stamp < cursor.ts}
    /\ UNCHANGED <<dockerClock, memory, logTables, failures, inserted, missed, unowned, disturbed>>

TimePasses ==
    /\ dockerClock < MaxStamp /\ dockerClock' = dockerClock + 1
    /\ UNCHANGED <<logs, memory, logTables, failures, logHistory>>

(* docker.Logs: of the newest PollCap lines those at or after since,       *)
(* stdout before stderr.                                                   *)
Places(c, since) == {n \in 1 .. Len(logs[c]) : logs[c][n].ts >= since}

Block(c, places, s) ==
    LET order == Ascending({n \in places : logs[c][n].stream = s})
    IN [k \in DOMAIN order |-> <<c, order[k]>>]

Logs(c, since) ==
    LET newest == {n \in Places(c, since) : n > Len(logs[c]) - PollCap}
    IN Block(c, newest, "stdout") \o Block(c, newest, "stderr")

-----------------------------------------------------------------------------
(* collect: list the containers; those listed are tailed one by one.       *)
List(seen) ==
    /\ pc = "idle" /\ pc' = "tail"
    /\ left' = seen /\ batch' = << >> /\ pending' = NoCursors
    /\ UNCHANGED <<daemon, cursors, failed, logTables, failures, logHistory>>

loadLogCursor(c) == IF c \in DOMAIN cursors THEN cursors[c] ELSE saved[c]

(* Faults of the next definition: the boundary is forgotten, and the       *)
(* inclusive stamp is taken for exclusive.                                 *)
Newer_Inclusive(lines, cursor) ==
    At(lines, {i \in DOMAIN lines : Ts(lines[i]) >= cursor.ts})

Newer_Exclusive(lines, cursor) ==
    At(lines, {i \in DOMAIN lines : Ts(lines[i]) > cursor.ts})

(* tailKeep.line over one poll: older than the cursor is skipped, and at   *)
(* the cursor's stamp the first boundary lines are the ones already kept.  *)
Newer(lines, cursor) ==
    LET at    == {i \in DOMAIN lines : Ts(lines[i]) = cursor.ts}
        known == {i \in at : Cardinality({j \in at : j <= i}) <= cursor.boundary}
    IN At(lines, {i \in DOMAIN lines : Ts(lines[i]) >= cursor.ts} \ known)

(* tailKeep.advanced: the newest stamp kept and the lines kept at it.      *)
Advanced(kept, cursor) ==
    LET top == Max({cursor.ts} \cup {Ts(l) : l \in Range(kept)})
        at  == Cardinality({i \in DOMAIN kept : Ts(kept[i]) = top})
    IN [ts |-> top,
        boundary |-> IF top = cursor.ts THEN cursor.boundary + at ELSE at]

Put(table, c, cursor) ==
    [x \in DOMAIN table \cup {c} |-> IF x = c THEN cursor ELSE table[x]]

(* What a poll passes over, for the properties: lines at or after its      *)
(* stamp with PollCap newer ones in the log; and when one of them has the  *)
(* very stamp, the lines the boundary then skips in its place.             *)
PassedOver(c, since) ==
    LET hidden  == {n \in Places(c, since) : n <= Len(logs[c]) - PollCap}
        skipped == {n \in Places(c, since) : logs[c][n].ts = since
                       /\ \E m \in hidden : logs[c][m].ts = since}
    IN {<<c, n>> : n \in hidden \cup skipped}

(* tailOne, the poll answered.                                             *)
Poll(c, cursor) ==
    /\ \E lines \in {Logs(c, cursor.ts)} : \E kept \in {Newer(lines, cursor)} :
          /\ batch' = batch \o kept
          /\ pending' = Put(pending, c, Advanced(kept, cursor))
    /\ missed' = missed \cup PassedOver(c, cursor.ts)

TailOne(c) ==
    /\ pc = "tail" /\ c \in left /\ left' = left \ {c}
    /\ \/ /\ Poll(c, loadLogCursor(c))
          /\ NoFailure /\ UNCHANGED disturbed
       \/ /\ c \notin DOMAIN cursors          \* the cursor cannot be read
          /\ Poll(c, NoCursor)
          /\ Failure /\ disturbed' = TRUE
       \/ /\ pending' = Put(pending, c, loadLogCursor(c))   \* docker fails
          /\ UNCHANGED <<batch, missed, disturbed>> /\ Failure
    /\ UNCHANGED <<daemon, pc, cursors, failed, logTables, inserted, overtaken, unowned>>

(* A fault of Stable: the batch keeps the order of the streams.            *)
Stable_Unsorted(lines) == lines

(* flush sorts by stamp, stably: the streams came one after the other.     *)
Stable(lines) ==
    LET places == DOMAIN lines
        order  == Arranged(places, {p \in places \X places :
                    \/ Ts(lines[p[1]]) < Ts(lines[p[2]])
                    \/ Ts(lines[p[1]]) = Ts(lines[p[2]]) /\ p[1] <= p[2]})
    IN [k \in places |-> lines[order[k]]]

(* The transaction of InsertBatch.                                         *)
InsertBatch(lines) == rows' = rows \o lines /\ inserted' = inserted \o lines

(* The cursors of the containers that were listed, the others forgotten.   *)
Listed == [c \in DOMAIN cursors \cap DOMAIN pending |-> cursors[c]]

(* flushLogVolume: one bucket per severity in the batch.                   *)
Buckets == {ParseLogLevel(l) : l \in Range(batch)}

(* A fault of Flush: the cursors are persisted before the buckets.         *)
Flush_CursorsFirst ==
    /\ pc = "tail" /\ left = {}
    /\ cursors' = Listed
    /\ failed' = FALSE
    /\ \/ /\ batch # << >> /\ NoFailure
          /\ \E sorted \in {Stable(batch)} : batch' = sorted /\ InsertBatch(sorted)
          /\ pc' = "volume" /\ left' = Buckets
          /\ saved' = [c \in Container |-> IF c \in DOMAIN pending THEN pending[c] ELSE saved[c]]
          /\ UNCHANGED pending
       \/ /\ batch = << >> /\ NoFailure
          /\ pc' = "persist" /\ left' = DOMAIN pending
          /\ UNCHANGED <<batch, rows, inserted, pending, saved>>
       \/ /\ batch # << >> /\ Failure            \* InsertBatch fails
          /\ pc' = "idle" /\ batch' = << >> /\ pending' = NoCursors /\ left' = {}
          /\ UNCHANGED <<rows, inserted, saved>>
    /\ UNCHANGED <<daemon, volume, ingested, health,
                   missed, overtaken, unowned, disturbed>>

(* The end of tailManaged forgets the cursors of containers not listed;    *)
(* the batch is stored in one transaction; if that fails, the cycle ends.  *)
Flush ==
    /\ pc = "tail" /\ left = {}
    /\ cursors' = Listed
    /\ failed' = FALSE
    /\ \/ /\ batch # << >> /\ NoFailure
          /\ \E sorted \in {Stable(batch)} : batch' = sorted /\ InsertBatch(sorted)
          /\ pc' = "volume" /\ left' = Buckets
          /\ UNCHANGED pending
       \/ /\ batch = << >> /\ NoFailure
          /\ pc' = "persist" /\ left' = DOMAIN pending
          /\ UNCHANGED <<batch, rows, inserted, pending>>
       \/ /\ batch # << >> /\ Failure            \* InsertBatch fails
          /\ pc' = "idle" /\ batch' = << >> /\ pending' = NoCursors /\ left' = {}
          /\ UNCHANGED <<rows, inserted>>
    /\ UNCHANGED <<daemon, saved, volume, ingested, health,
                   missed, overtaken, unowned, disturbed>>

(* UpsertLogVolume for one bucket: a batch already ingested adds nothing.  *)
Volume(s) ==
    /\ pc = "volume" /\ s \in left /\ left' = left \ {s}
    /\ \/ /\ NoFailure /\ UNCHANGED failed
          /\ ingested' = ingested \cup {<<batch, s>>}
          /\ volume' = IF <<batch, s>> \in ingested THEN volume
                       ELSE [volume EXCEPT ![s] = @ +
                               Cardinality({k \in DOMAIN batch : ParseLogLevel(batch[k]) = s})]
       \/ /\ Failure /\ failed' = TRUE /\ UNCHANGED <<volume, ingested>>
    /\ UNCHANGED <<daemon, pc, batch, pending, cursors, saved, rows,
                   health, logHistory>>

(* recordLogVolumeCursor: the outcome of the buckets, unless its own read  *)
(* or write fails.                                                         *)
RecordVolume ==
    /\ pc = "volume" /\ left = {}
    /\ pc' = "persist" /\ left' = DOMAIN pending
    /\ \/ /\ NoFailure /\ UNCHANGED unowned
          /\ health' = IF failed
                       THEN [dropped |-> health.dropped + 1, complete |-> FALSE]
                       ELSE [health EXCEPT !.complete = TRUE]
       \/ Failure /\ unowned' = (unowned \/ failed) /\ UNCHANGED health
    /\ UNCHANGED <<daemon, batch, pending, cursors, failed, saved, rows,
                   volume, ingested, inserted, missed, overtaken, disturbed>>

(* The cursor of one container: memory first, then persistLogCursor, which *)
(* skips a cursor without a stamp and may fail.                            *)
Persist(c) ==
    /\ pc = "persist" /\ c \in left /\ left' = left \ {c}
    /\ cursors' = Put(cursors, c, pending[c])
    /\ \/ /\ NoFailure /\ UNCHANGED disturbed
          /\ saved' = IF pending[c].ts = 0 THEN saved
                      ELSE [saved EXCEPT ![c] = pending[c]]
       \/ /\ pending[c].ts # 0 /\ Failure /\ disturbed' = TRUE /\ UNCHANGED saved
    /\ UNCHANGED <<daemon, pc, batch, pending, failed, rows, volume,
                   ingested, health, inserted, missed, overtaken, unowned>>

(* TrimBeyondCap.                                                          *)
NewestRows == SubSeq(rows, Max({1, Len(rows) - RowCap + 1}), Len(rows))

(* trimService keeps the newest RowCap rows, or fails and is logged.       *)
Trim ==
    /\ pc = "persist" /\ left = {} /\ pc' = "idle"
    /\ batch' = << >> /\ pending' = NoCursors
    /\ \/ /\ NoFailure
          /\ rows' = IF DOMAIN pending = {} THEN rows ELSE NewestRows
       \/ Failure /\ UNCHANGED rows
    /\ UNCHANGED <<daemon, left, cursors, failed, saved, volume, ingested,
                   health, logHistory>>

(* The process stops and starts again: what was in memory is gone.         *)
Crash ==
    /\ Failure /\ disturbed' = TRUE
    /\ pc' = "idle" /\ left' = {} /\ batch' = << >> /\ pending' = NoCursors
    /\ cursors' = NoCursors /\ failed' = FALSE
    /\ UNCHANGED <<daemon, logTables, inserted, missed, overtaken, unowned>>

-----------------------------------------------------------------------------
(* Reading the lines back.  The n newest rows with an id below before; the *)
(* place of a row stands for its id.  Found is newest first.               *)
Page(before, n) ==
    [k \in 1 .. Min({n, before - 1}) |-> before - k]

First(found, n) == SubSeq(found, 1, Min({n, Len(found)}))

OfLevels(ids, levels) ==
    At(ids, {k \in DOMAIN ids : ParseLogLevel(rows[ids[k]]) \in levels})

clampSearchLimit(limit) == Min({limit, MaxLimit})

(* searchLevels: pages from the newest on, until the limit is filled, a    *)
(* page is short, or the scan budget is spent.                             *)
NextPage(s, levels, limit) ==
    LET page == Page(s.before, ScanChunk)
    IN IF s.over \/ page = << >> \/ Len(s.found) >= limit THEN s
       ELSE [before |-> Last(page),
             found  |-> First(s.found \o OfLevels(page, levels), limit),
             over   |-> Len(page) < ScanChunk]

searchLevels(levels, limit) ==
    LET newest == [before |-> Len(rows) + 1, found |-> << >>, over |-> FALSE]
        scan[k \in 0 .. ScanPages] ==
            IF k = 0 THEN newest ELSE NextPage(scan[k - 1], levels, limit)
    IN scan[ScanPages].found

Search(levels, limit) ==
    IF levels = {} THEN Page(Len(rows) + 1, clampSearchLimit(limit))
                   ELSE searchLevels(levels, clampSearchLimit(limit))

(* Context: up to n rows before and after one, oldest first.               *)
Context(i, n) == Reverse(Page(i, n)) \o [k \in 1 .. Min({n + 1, Len(rows) - i + 1}) |-> i + k - 1]

-----------------------------------------------------------------------------
Collect ==
    \/ \E c \in Container : TailOne(c) \/ Persist(c)
    \/ \E s \in Severity : Volume(s)
    \/ Flush \/ RecordVolume \/ Trim

LogsNext ==
    \/ \E c \in Container, s \in Stream, stamp \in 1 .. dockerClock : Emit(c, s, stamp)
    \/ TimePasses
    \/ \E seen \in SUBSET Container : List(seen)
    \/ Collect \/ Crash

(* The loop polls for ever, and a container that runs keeps being listed.  *)
LogsSpec ==
    /\ LogsInit /\ [][LogsNext]_logVars /\ WF_logVars(Collect)
    /\ \A c \in Container : SF_logVars(\E seen \in SUBSET Container :
                                        c \in seen /\ List(seen))

-----------------------------------------------------------------------------
(* Two lines of one container with one stamp on different streams: docker  *)
(* gives them in another order than it wrote them.                         *)
Ambiguous(l) ==
    \E m \in Line : m[1] = l[1] /\ Ts(m) = Ts(l) /\ Of(m) # Of(l)

(* Stored; or passed over by a poll of lines that newer ones hid; or older *)
(* than a cursor when it was flushed, which the collector drops uncounted, *)
(* an accepted trade-off; or ambiguous.                                    *)
Settled(l) == l \in Line =>
    (l \in Range(inserted) \cup missed \cup overtaken) \/ Ambiguous(l)

(* A line that will not be polled again while the persisted cursor of its  *)
(* container is kept: of an older stamp, or one of those of the cursor's   *)
(* own stamp the boundary counts.                                          *)
Behind(l) ==
    LET cursor == saved[l[1]]
        upto   == {n \in 1 .. l[2] : logs[l[1]][n].ts = cursor.ts}
    IN \/ Ts(l) < cursor.ts
       \/ Ts(l) = cursor.ts /\ Cardinality(upto) <= cursor.boundary

(* A line behind its container's persisted cursor was stored, or is one of *)
(* the exceptions: rows are written before cursors, so a crash or a failed *)
(* write between the two loses no line.                                    *)
NoLineLost == \A l \in Line : Behind(l) => Settled(l)

(* No line is stored twice, unless the process restarted or a cursor could *)
(* not be read or written: the lines at the inclusive boundary are told    *)
(* apart by their number alone.                                            *)
NoLineTwice ==
    disturbed \/ \A i, j \in DOMAIN inserted :
        i # j /\ inserted[i] = inserted[j] => Ambiguous(inserted[i])

(* However polls, boundaries, late lines, failed writes and restarts fall, *)
(* a line is kept, and once, but for the exceptions named above.           *)
LinesAreKept == NoLineLost /\ NoLineTwice

(* The volume never counts more lines than were stored.  And it counts     *)
(* every line behind its container's persisted cursor, in each severity,   *)
(* wherever a crash fell between rows, buckets and cursors: the cursors    *)
(* are written last, so a crash has the lines polled and counted again.    *)
(* Excepted are lines passed over, flushed late or ambiguous, and a volume *)
(* of which a bucket failed: then the log_volume cursor owns up to records *)
(* dropped, or the write that would have done so failed as well.           *)
Stored  == Len(inserted)
Counted == volume["info"] + volume["warn"]

Countable(s) ==
    {l \in Line : /\ Behind(l) /\ ParseLogLevel(l) = s
                  /\ l \notin missed \cup overtaken /\ ~Ambiguous(l)}

VolumeMatchesRows ==
    /\ Counted <= Stored
    /\ \/ health.dropped > 0 \/ unowned
       \/ \A s \in Severity : Cardinality(Countable(s)) <= volume[s]

(* Lines of one container are listed in the order of their stamps; rows    *)
(* are listed by id, so ids have to follow the stamps.                     *)
Chronological(ids) ==
    \A i, j \in DOMAIN ids :
        i < j /\ rows[ids[i]][1] = rows[ids[j]][1] => Ts(rows[ids[i]]) <= Ts(rows[ids[j]])

(* A search of any levels gives the newest rows of those levels up to the  *)
(* limit, none twice and none left out, except rows past the scan budget;  *)
(* and unless a restart stored lines again, what it and the context of a   *)
(* row list is in the order of the stamps, though rows arrive by stream.   *)
SearchFindsNewest ==
    \A levels \in SUBSET Severity, limit \in 1 .. MaxLimit :
        LET found == Search(levels, limit)
            all   == Page(Len(rows) + 1, Len(rows))
            want  == First(IF levels = {} THEN all ELSE OfLevels(all, levels), limit)
            reach == IF levels = {} THEN all ELSE First(all, ScanChunk * ScanPages)
        IN /\ IsPrefix(found, want)
           /\ \A i \in Range(want) \cap Range(reach) : i \in Range(found)
           /\ disturbed \/ Chronological(Reverse(found))
           /\ disturbed \/ \A i \in DOMAIN rows : Chronological(Context(i, limit))

(* Every line written is in time stored, unless newer lines hid it from    *)
(* the poll, a cursor was past its stamp when it was flushed, or its stamp *)
(* is ambiguous: the loop catches up after faults.                         *)
LinesArrive ==
    \A c \in Container, n \in 1 .. MaxLines :
        (<<c, n>> \in Line) ~> (<<c, n>> \in Line /\ Settled(<<c, n>>))

=============================================================================
