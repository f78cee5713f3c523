--------------------------- MODULE PerformanceProofs ---------------------------
(***************************************************************************)
(* Proofs about the two halves of the performance collector.               *)
(*                                                                         *)
(* HttpIngest: no request behind a stored cursor is missing from the       *)
(* buckets, for any dimensions, batches, rotations and failures.  A bucket *)
(* whose ingest key is known adds nothing, and a retry may start at        *)
(* another line than the batch that left the key.  The invariant says why  *)
(* nothing is lost by that: a key stands for every line of its dimension   *)
(* up to its offset, since what lies before a batch was counted when the   *)
(* cursor came to stand there.                                             *)
(* Without a failure nothing is counted twice either: what is counted of   *)
(* the file always lies before the place its tailer stands at.             *)
(*                                                                         *)
(* ResourceAlerts: an episode fires once, an alert is sustained, and the   *)
(* deltas of the minutes never add up to more than redis evicted, for any  *)
(* thresholds, durations, passes, failures, restarts and resets.  The      *)
(* first two follow the latch and the start of an episode through the      *)
(* steps of the sampler; the third keeps, beside the sum of the deltas,    *)
(* what the counter has grown by since the baseline, by way of a value     *)
(* that is being stored.  It rests on lemmas about sums of functions.      *)
(***************************************************************************)
EXTENDS HttpIngest, ResourceAlerts, SequenceTheorems, FiniteSetTheorems,
        WellFoundedInduction, TLAPS

File  == [id : Nat \ {0}, lines : Seq(Line), partial : BOOLEAN]
Batch == [todo : SUBSET Dimension, lines : SUBSET Line, cursor : Cursor]

(* The line begun is a line of the file, and a batch is finite.            *)
ShapeInv == (file.partial => Len(file.lines) > 0) /\ IsFiniteSet(batch.lines)

(* No cursor and no key is of a file that is still to come, and a cursor   *)
(* without a file is at the beginning.                                     *)
IdsInv ==
    /\ tail.id <= file.id /\ row.id <= file.id /\ batch.cursor.id <= file.id
    /\ \A key \in keys : key[1] <= file.id
    /\ (tail.id = 0 => tail.off = 0) /\ (row.id = 0 => row.off = 0)
    /\ (batch.cursor.id = 0 => batch.cursor.off = 0)

Done(l) == l.kind = "junk" \/ counted[l.n] > 0

(* Every request up to the offset is counted.                              *)
CountedTo(off) ==
    off <= Len(file.lines) /\ \A k \in 1 .. off : Done(file.lines[k])

CursorsInv ==
    /\ tail.id = file.id => CountedTo(tail.off)
    /\ row.id = file.id => CountedTo(row.off)

(* A key of the present file stands for all lines of its dimension.        *)
KeysInv ==
    \A key \in keys : key[1] = file.id =>
        /\ key[2] <= Len(file.lines)
        /\ \A k \in 1 .. key[2] : file.lines[k].kind = key[3] => Done(file.lines[k])

(* A batch under way: what it has written, or found written, is counted,   *)
(* and so is what lies before it.                                          *)
BatchInv ==
    stage = "upsert" =>
        /\ \A l \in batch.lines :
              l.kind \notin batch.todo \/ Key(l.kind) \in keys => Done(l)
        /\ batch.cursor.id = file.id =>
              /\ batch.cursor.off <= Len(file.lines)
              /\ \A k \in 1 .. batch.cursor.off :
                    file.lines[k] \in batch.lines \/ Done(file.lines[k])

LossInv == IdsInv /\ CursorsInv /\ KeysInv /\ BatchInv /\ \A n \in covered : counted[n] > 0

CountInv == TypeOK /\ ShapeInv /\ (cut \/ LossInv)
-----------------------------------------------------------------------------
(* The file, the place Read starts from and the place it ends at.          *)
LEMMA FileFacts ==
    ASSUME TypeOK
    PROVE  /\ file \in File /\ file.lines \in Seq(Line) /\ Len(file.lines) \in Nat
           /\ DOMAIN file.lines = 1 .. Len(file.lines)
           /\ \A k \in 1 .. Len(file.lines) : file.lines[k] \in Line
           /\ file.id \in Nat \ {0}
<1>1. file \in File
  BY DEF TypeOK, File
<1>2. file.lines \in Seq(Line) /\ file.id \in Nat \ {0}
  BY <1>1 DEF File
<1> QED
  BY <1>1, <1>2

(* A rotation or truncation puts the cursor at the start of the file.      *)
LEMMA StartsOver ==
    ASSUME NEW c \in Cursor, NEW o, o = [c EXCEPT !.off = 0, !.drops = @ + 1]
    PROVE  o \in Cursor /\ o.off = 0
<1>1. c.id \in Nat /\ c.drops \in Nat /\ c = [id |-> c.id, off |-> c.off, drops |-> c.drops]
  BY DEF Cursor
<1>2. o = [id |-> c.id, off |-> 0, drops |-> c.drops + 1]
  BY <1>1
<1>3. c.drops + 1 \in Nat
  BY <1>1
<1> QED
  BY <1>1, <1>2, <1>3 DEF Cursor

(* Where a poll begins to read, and how far it reads.                      *)
LEMMA PlacedFacts ==
    ASSUME TypeOK, ShapeInv
    PROVE  /\ Complete \in Nat /\ Complete <= Len(file.lines)
           /\ Placed \in Cursor /\ Placed.id = file.id
           /\ Placed.off = 0 \/ (Placed.off = tail.off /\ tail.id \in {0, file.id})
           /\ LastRead(Placed) \in Nat /\ LastRead(Placed) <= Complete
           /\ Placed.off <= LastRead(Placed)
<1>1. Complete \in Nat /\ Complete <= Len(file.lines)
  <2>1. file.partial \in BOOLEAN
    BY FileFacts DEF File
  <2>2. CASE file.partial
    BY <2>2, FileFacts DEF Complete, ShapeInv
  <2>3. CASE ~file.partial
    BY <2>3, FileFacts DEF Complete
  <2> QED
    BY <2>2, <2>3
<1> DEFINE r == Renewed(tail)
           h == Shrunk(r)
<1>2. tail \in Cursor
  BY DEF TypeOK
<1>3. /\ r \in Cursor
      /\ r.off = 0 \/ (r.off = tail.off /\ tail.id \in {0, file.id})
  <2>1. CASE tail.id \in {0, file.id}
    <3>1. r = tail
      BY <2>1 DEF Renewed
    <3> QED
      BY <1>2, <2>1, <3>1
  <2>2. CASE tail.id \notin {0, file.id}
    <3>1. r = [tail EXCEPT !.off = 0, !.drops = @ + 1]
      BY <2>2 DEF Renewed
    <3> HIDE DEF r
    <3> QED
      BY <1>2, <3>1, StartsOver
  <2> QED
    BY <2>1, <2>2
<1> HIDE DEF r
<1>4. /\ h \in Cursor /\ h.off <= Complete
      /\ h.off = 0 \/ h.off = r.off
  <2>0. r.off \in Nat
    BY <1>3 DEF Cursor
  <2>1. CASE Complete < r.off
    <3>1. h = [r EXCEPT !.off = 0, !.drops = @ + 1]
      BY <2>1 DEF Shrunk
    <3> HIDE DEF h
    <3>2. h \in Cursor /\ h.off = 0
      BY <1>3, <3>1, StartsOver
    <3> QED
      BY <1>1, <3>2
  <2>2. CASE ~(Complete < r.off)
    <3>1. h = r
      BY <2>2 DEF Shrunk
    <3> HIDE DEF h
    <3> QED
      BY <1>1, <1>3, <2>0, <2>2, <3>1
  <2> QED
    BY <2>1, <2>2
<1>5. Placed = [h EXCEPT !.id = file.id]
  BY DEF Placed, r
<1> HIDE DEF h
<1>6. /\ Placed \in Cursor /\ Placed.id = file.id /\ Placed.off = h.off
  BY <1>4, <1>5, FileFacts DEF Cursor
<1>7. Placed.off \in Nat /\ Placed.off <= Complete
  BY <1>4, <1>6 DEF Cursor
<1>8. /\ LastRead(Placed) \in Nat /\ LastRead(Placed) <= Complete
      /\ Placed.off <= LastRead(Placed)
  <2> DEFINE e == Placed.off + ReadCap
             m == Min({e, Complete})
  <2>1. e \in Nat /\ Placed.off <= e
    BY <1>7, HttpAssumption
  <2>2. LastRead(Placed) = m
    BY DEF LastRead
  <2> HIDE DEF e
  <2>3. m \in {e, Complete} /\ m <= e /\ m <= Complete
    <3>1. \E x \in {e, Complete} : \A y \in {e, Complete} : x <= y
      BY <1>1, <2>1
    <3> QED
      BY <3>1 DEF Min
  <2> HIDE DEF m
  <2> QED
    BY <1>1, <1>7, <2>1, <2>2, <2>3
<1> QED
  BY <1>1, <1>3, <1>4, <1>6, <1>8

(* A finite set has a finite image.                                        *)
LEMMA ImageFinite ==
    ASSUME NEW P, IsFiniteSet(P), NEW f
    PROVE  IsFiniteSet({f[k] : k \in P})
<1> DEFINE T == {f[k] : k \in P}
           g == [k \in P |-> f[k]]
<1>1. g \in Surjection(P, T)
  BY DEF Surjection
<1> HIDE DEF g
<1> QED
  BY <1>1, FS_Surjection

(* What Read takes are lines of the file, as many as there are buckets of. *)
LEMMA TakenFacts ==
    ASSUME TypeOK, ShapeInv
    PROVE  /\ Taken \subseteq Line /\ Buckets(Taken) \subseteq Dimension
           /\ \A l \in Taken : l.kind = "junk" \/ l.kind \in Buckets(Taken)
           /\ \A k \in 1 .. LastRead(Placed) :
                 k <= Placed.off \/ file.lines[k] \in Taken
           /\ Cardinality(Junk) \in Nat /\ IsFiniteSet(Taken)
<1>1. /\ Placed.off \in Nat /\ LastRead(Placed) \in Nat
      /\ LastRead(Placed) <= Len(file.lines) /\ Len(file.lines) \in Nat
  BY PlacedFacts, FileFacts DEF Cursor
<1>2. Placed.off + 1 .. LastRead(Placed) \subseteq 1 .. Len(file.lines)
  BY <1>1
<1>3. Taken \subseteq Line
  BY <1>2, FileFacts DEF Taken
<1>4. \A l \in Taken : l.kind \in Dimension \cup {"junk"}
  BY <1>3 DEF Line
<1>5. \A k \in 1 .. LastRead(Placed) : k <= Placed.off \/ file.lines[k] \in Taken
  BY <1>1 DEF Taken
<1>6. Cardinality(Junk) \in Nat /\ IsFiniteSet(Taken)
  <2>1. IsFiniteSet(Placed.off + 1 .. LastRead(Placed))
    <3>1. Placed.off + 1 \in Int /\ LastRead(Placed) \in Int
      BY <1>1
    <3> QED
      BY <3>1, FS_Interval
  <2>2. IsFiniteSet(Taken)
    BY <2>1, ImageFinite DEF Taken
  <2> QED
    BY <2>2, FS_Subset, FS_CardinalityType DEF Junk
<1> QED
  BY <1>3, <1>4, <1>5, <1>6 DEF Buckets, Junk

-----------------------------------------------------------------------------
(* Types.                                                                  *)
LEMMA NoCursorTyped == NoCursor \in Cursor /\ NoBatch \in Batch /\ NoCursor.off = 0
                       /\ NoCursor.id = 0 /\ NoBatch.cursor = NoCursor
                       /\ IsFiniteSet(NoBatch.lines)
<1>1. NoCursor \in Cursor /\ NoCursor.off = 0 /\ NoCursor.id = 0
  BY DEF NoCursor, Cursor
<1> QED
  BY <1>1, FS_EmptySet DEF NoBatch, Batch

(* The merged cursor is the cursor but for its drops.                      *)
LEMMA MergedFacts ==
    ASSUME NEW c \in Cursor, row \in Cursor
    PROVE  /\ mergePersistedDrops(c) \in Cursor
           /\ mergePersistedDrops(c).id = c.id /\ mergePersistedDrops(c).off = c.off
<1>1. c.drops \in Nat /\ row.drops \in Nat
  BY DEF Cursor
<1>2. Max({c.drops, row.drops}) \in Nat
  <2> DEFINE m == Max({c.drops, row.drops})
  <2>1. \E x \in {c.drops, row.drops} : \A y \in {c.drops, row.drops} : x >= y
    BY <1>1
  <2>2. m \in {c.drops, row.drops}
    BY <2>1 DEF Max
  <2> QED
    BY <1>1, <2>2
<1> QED
  BY <1>2 DEF mergePersistedDrops, Cursor

(* What Read returns.                                                      *)
ReadBatch == [todo   |-> Buckets(Taken),
              lines  |-> Taken,
              cursor |-> [Placed EXCEPT !.off = LastRead(Placed),
                                        !.drops = @ + Cardinality(Junk)]]

(* What a read changes of a cursor.                                        *)
LEMMA CursorRead ==
    ASSUME NEW p \in Cursor, NEW off \in Nat, NEW more \in Nat
    PROVE  /\ [p EXCEPT !.off = off, !.drops = @ + more] \in Cursor
           /\ [p EXCEPT !.off = off, !.drops = @ + more].id = p.id
           /\ [p EXCEPT !.off = off, !.drops = @ + more].off = off
<1> DEFINE q == [p EXCEPT !.off = off, !.drops = @ + more]
<1>1. p.id \in Nat /\ p.drops \in Nat /\ p = [id |-> p.id, off |-> p.off, drops |-> p.drops]
  BY DEF Cursor
<1>2. q = [p EXCEPT !.off = off, !.drops = @ + more]
  OBVIOUS
<1>3. p.drops + more \in Nat
  BY <1>1
<1> HIDE DEF q
<1>4. q = [id |-> p.id, off |-> off, drops |-> p.drops + more]
  BY <1>1, <1>2
<1>5. q \in Cursor /\ q.id = p.id /\ q.off = off
  BY <1>1, <1>3, <1>4 DEF Cursor
<1> QED
  BY <1>5 DEF q

(* What a poll puts in its batch.                                          *)
LEMMA BatchFacts ==
    ASSUME TypeOK, ShapeInv
    PROVE  /\ ReadBatch \in Batch /\ IsFiniteSet(ReadBatch.lines)
           /\ ReadBatch.todo = Buckets(Taken) /\ ReadBatch.lines = Taken
           /\ ReadBatch.cursor.id = file.id /\ ReadBatch.cursor.off = LastRead(Placed)
<1> DEFINE c == [Placed EXCEPT !.off = LastRead(Placed), !.drops = @ + Cardinality(Junk)]
<1>1. c \in Cursor /\ c.id = file.id /\ c.off = LastRead(Placed)
  <2>1. Placed \in Cursor /\ Placed.id = file.id
    BY PlacedFacts
  <2>2. LastRead(Placed) \in Nat /\ Cardinality(Junk) \in Nat
    BY PlacedFacts, TakenFacts
  <2>3. c \in Cursor /\ c.id = Placed.id /\ c.off = LastRead(Placed)
    <3>1. PICK p \in Cursor, off \in Nat, more \in Nat :
             p = Placed /\ off = LastRead(Placed) /\ more = Cardinality(Junk)
      BY <2>1, <2>2
    <3>2. c = [p EXCEPT !.off = off, !.drops = @ + more]
      BY <3>1
    <3> HIDE DEF c
    <3>3. /\ [p EXCEPT !.off = off, !.drops = @ + more] \in Cursor
          /\ [p EXCEPT !.off = off, !.drops = @ + more].id = p.id
          /\ [p EXCEPT !.off = off, !.drops = @ + more].off = off
      BY CursorRead
    <3>4. c \in Cursor /\ c.id = p.id /\ c.off = off
      BY <3>2, <3>3, Zenon
    <3> QED
      BY <3>1, <3>4
  <2> QED
    BY <2>1, <2>3
<1>2. ReadBatch = [todo |-> Buckets(Taken), lines |-> Taken, cursor |-> c]
  BY DEF ReadBatch
<1> HIDE DEF c
<1>3. /\ ReadBatch.todo = Buckets(Taken) /\ ReadBatch.lines = Taken
      /\ ReadBatch.cursor = c
  BY <1>2
<1>4. ReadBatch \in Batch
  BY <1>1, <1>2, TakenFacts DEF Batch
<1> QED
  BY <1>1, <1>3, <1>4, TakenFacts

(* A bucket is counted by adding to the counts, one for every line in it.  *)
LEMMA CountsGrow ==
    ASSUME TypeOK, ShapeInv, NEW d \in Dimension, UpsertHTTP(d)
    PROVE  /\ counted' \in [1 .. MaxLines -> Nat]
           /\ \A n \in 1 .. MaxLines : counted'[n] >= counted[n]
           /\ Key(d) \notin keys =>
                 \A l \in batch.lines : l.kind = d => counted'[l.n] > 0
<1> DEFINE of(n) == {l \in batch.lines : l.n = n /\ l.kind = d}
<1>1. ASSUME NEW n \in 1 .. MaxLines
      PROVE  /\ Cardinality(of(n)) \in Nat
             /\ of(n) # {} => Cardinality(of(n)) > 0
  <2>1. IsFiniteSet(of(n))
    BY FS_Subset DEF ShapeInv
  <2>2. Cardinality(of(n)) \in Nat
    BY <2>1, FS_CardinalityType
  <2>3. of(n) # {} => Cardinality(of(n)) # 0
    BY <2>1, FS_EmptySet
  <2> QED
    BY <2>2, <2>3
<1>2. counted \in [1 .. MaxLines -> Nat] /\ batch.lines \subseteq Line
  BY DEF TypeOK
<1>3. CASE Key(d) \in keys
  <2>1. counted' = counted
    BY <1>3 DEF UpsertHTTP
  <2>2. \A n \in 1 .. MaxLines : counted[n] >= counted[n]
    BY <1>2
  <2> QED
    BY <1>2, <1>3, <2>1, <2>2
<1>4. CASE Key(d) \notin keys
  <2>1. counted' = [n \in 1 .. MaxLines |-> counted[n] + Cardinality(of(n))]
    BY <1>2, <1>4 DEF UpsertHTTP
  <2>2. \A n \in 1 .. MaxLines : counted[n] \in Nat
    BY <1>2
  <2> HIDE DEF of
  <2>3. ASSUME NEW n \in 1 .. MaxLines
        PROVE  /\ counted'[n] \in Nat /\ counted'[n] >= counted[n]
               /\ of(n) # {} => counted'[n] > 0
    <3>1. counted'[n] = counted[n] + Cardinality(of(n))
      BY <2>1
    <3>2. counted[n] \in Nat /\ Cardinality(of(n)) \in Nat
      BY <1>1, <2>2
    <3>3. of(n) # {} => Cardinality(of(n)) > 0
      BY <1>1
    <3> QED
      BY <3>1, <3>2, <3>3
  <2>4. counted' \in [1 .. MaxLines -> Nat]
    BY <2>1, <2>3
  <2>5. ASSUME NEW l \in batch.lines, l.kind = d
        PROVE  counted'[l.n] > 0
    <3>1. l.n \in 1 .. MaxLines
      BY <1>2 DEF Line
    <3>2. l \in of(l.n)
      BY <2>5 DEF of
    <3> QED
      BY <2>3, <3>1, <3>2
  <2> QED
    BY <2>3, <2>4, <2>5
<1> QED
  BY <1>3, <1>4

(* Every step keeps the types, and the batch finite.                       *)
LEMMA TypeStep ==
    ASSUME TypeOK, ShapeInv, [Next]_vars
    PROVE  TypeOK' /\ ShapeInv'
<1> USE DEF File, Batch
<1>0. faults < MaxFaults => faults + 1 \in 0 .. MaxFaults
  BY HttpAssumption DEF TypeOK
<1>1. ASSUME NEW kind \in Dimension \cup {"junk"}, Write(kind)
      PROVE  TypeOK' /\ ShapeInv'
  <2> DEFINE l == [n |-> written + 1, kind |-> kind]
  <2>1. l \in Line /\ written' \in 0 .. MaxLines
    BY <1>1, HttpAssumption DEF TypeOK, Line, Write
  <2> HIDE DEF l
  <2>2. Append(file.lines, l) \in Seq(Line) /\ Len(Append(file.lines, l)) > 0
    <3>1. file.lines \in Seq(Line)
      BY FileFacts
    <3>2. Len(Append(file.lines, l)) = Len(file.lines) + 1
      BY <2>1, <3>1
    <3>3. Len(file.lines) \in Nat
      BY FileFacts
    <3> QED
      BY <2>1, <3>1, <3>2, <3>3
  <2>3. file' = [id |-> file.id, lines |-> Append(file.lines, l), partial |-> TRUE]
    <3>1. file' = [file EXCEPT !.lines = Append(@, l), !.partial = TRUE]
      BY <1>1 DEF Write, l
    <3>2. file \in File
      BY FileFacts
    <3> QED
      BY <3>1, <3>2 DEF File
  <2>4. file' \in File /\ Len(file'.lines) > 0
    BY <2>2, <2>3, FileFacts DEF File
  <2>5. UNCHANGED <<moves, cut, tail, row, stage, batch, keys, counted, faults, forgot, covered>>
    BY <1>1 DEF Write, memory, stored
  <2>6. TypeOK'
    BY <2>1, <2>4, <2>5 DEF TypeOK
  <2> QED
    BY <2>4, <2>5, <2>6 DEF ShapeInv
<1>2. CASE EndLine
  <2>1. file' = [file EXCEPT !.partial = FALSE]
    BY <1>2 DEF EndLine
  <2>2. file' \in File /\ ~file'.partial
    BY <2>1, FileFacts DEF File
  <2>3. UNCHANGED <<written, moves, cut, tail, row, stage, batch, keys, counted, faults, forgot, covered>>
    BY <1>2 DEF EndLine, memory, stored
  <2> QED
    BY <2>2, <2>3 DEF TypeOK, ShapeInv
<1>3. ASSUME NEW id \in {file.id, file.id + 1}, Move(id)
      PROVE  TypeOK' /\ ShapeInv'
  <2>1. id \in Nat \ {0}
    BY FileFacts
  <2>2. file' = [id |-> id, lines |-> << >>, partial |-> FALSE]
    BY <1>3 DEF Move
  <2>3. file' \in File /\ ~file'.partial
    BY <2>1, <2>2 DEF File
  <2>4. moves' \in 0 .. MaxMoves /\ cut' \in BOOLEAN
    <3>1. moves' = moves + 1 /\ moves < MaxMoves
      BY <1>3 DEF Move
    <3>2. moves' \in 0 .. MaxMoves
      BY <3>1, HttpAssumption DEF TypeOK
    <3>3. cut' \in BOOLEAN
      BY <1>3 DEF Move
    <3> QED
      BY <3>2, <3>3
  <2>5. UNCHANGED <<written, tail, row, stage, batch, keys, counted, faults, forgot, covered>>
    BY <1>3 DEF Move, memory, stored
  <2> QED
    BY <2>3, <2>4, <2>5 DEF TypeOK, ShapeInv
<1>4. CASE Read
  <2>1. UNCHANGED <<file, written, moves, cut, tail, row, keys, counted, forgot, covered>>
    BY <1>4 DEF Read, log, stored
  <2>2. CASE Fault /\ stage' = "fail" /\ UNCHANGED batch
    BY <1>0, <2>1, <2>2 DEF TypeOK, ShapeInv, Fault
  <2>3. CASE Fine /\ stage' = "upsert" /\ batch' = ReadBatch
    <3>1. ReadBatch \in Batch /\ IsFiniteSet(ReadBatch.lines)
      BY BatchFacts
    <3> HIDE DEF Batch
    <3>2. batch' \in Batch /\ IsFiniteSet(batch'.lines)
      BY <2>3, <3>1
    <3>3. UNCHANGED faults /\ stage' \in {"idle", "upsert", "fail"}
      BY <2>3 DEF Fine
    <3> QED
      BY <2>1, <3>2, <3>3 DEF TypeOK, ShapeInv, Batch
  <2> QED
    BY <1>4, <2>2, <2>3 DEF Read, ReadBatch
<1>5. ASSUME NEW d \in Dimension, Upsert(d)
      PROVE  TypeOK' /\ ShapeInv'
  <2>1. UNCHANGED <<file, written, moves, cut, tail, row, forgot, covered>>
    BY <1>5 DEF Upsert, log
  <2>2. CASE Fault /\ stage' = "fail" /\ UNCHANGED <<batch, keys, counted>>
    BY <1>0, <2>1, <2>2 DEF TypeOK, ShapeInv, Fault
  <2>3. CASE Fine /\ UpsertHTTP(d) /\ batch' = [batch EXCEPT !.todo = @ \ {d}] /\ UNCHANGED stage
    <3>1. batch' \in Batch /\ batch'.lines = batch.lines
      <4>1. batch \in Batch
        BY DEF TypeOK
      <4> QED
        BY <2>3, <4>1 DEF Batch
    <3>2. counted' \in [1 .. MaxLines -> Nat]
      BY <2>3, CountsGrow
    <3>3. keys' \subseteq Nat \X Nat \X Dimension
      <4>1. batch.cursor.id \in Nat /\ batch.cursor.off \in Nat
        BY DEF TypeOK, Cursor
      <4> QED
        BY <2>3, <4>1 DEF TypeOK, UpsertHTTP, Key
    <3>4. UNCHANGED <<faults, stage>>
      BY <2>3 DEF Fine
    <3> QED
      BY <2>1, <3>1, <3>2, <3>3, <3>4 DEF TypeOK, ShapeInv
  <2> QED
    BY <1>5, <2>2, <2>3 DEF Upsert
<1>6. CASE PersistCursor
  <2>1. /\ UNCHANGED <<file, written, moves, cut, keys, counted>>
        /\ stage' = "idle" /\ batch' = NoBatch
    BY <1>6 DEF PersistCursor, log
  <2>2. batch' \in Batch /\ IsFiniteSet(batch'.lines)
    BY <2>1, NoCursorTyped
  <2>3. ASSUME NEW c \in Cursor, Store(c)
        PROVE  row' \in Cursor /\ tail' \in Cursor /\ covered' \subseteq 1 .. MaxLines
    <3>1. row' = c /\ tail' = c
      BY <2>3 DEF Store, Acknowledge
    <3>2. batch.lines \subseteq Line
      BY DEF TypeOK
    <3>3. covered' \subseteq 1 .. MaxLines
      <4>1. covered' = covered \cup {l.n : l \in {b \in batch.lines : b.kind # "junk"}}
        BY <2>3 DEF Store
      <4>2. \A l \in batch.lines : l.n \in 1 .. MaxLines
        BY <3>2 DEF Line
      <4>3. covered \subseteq 1 .. MaxLines
        BY DEF TypeOK
      <4> QED
        BY <4>1, <4>2, <4>3
    <3> QED
      BY <3>1, <3>3
  <2>4. batch.cursor \in Cursor /\ mergePersistedDrops(batch.cursor) \in Cursor
    BY MergedFacts DEF TypeOK
  <2>5. faults' \in 0 .. MaxFaults /\ forgot' \in BOOLEAN
    BY <1>0, <1>6 DEF PersistCursor, Fault, Fine, TypeOK
  <2>6. row' \in Cursor /\ tail' \in Cursor /\ covered' \subseteq 1 .. MaxLines
    <3>1. CASE Store(mergePersistedDrops(batch.cursor))
      BY <2>3, <2>4, <3>1
    <3>2. CASE Store(batch.cursor)
      BY <2>3, <2>4, <3>2
    <3>3. CASE UNCHANGED <<row, tail, covered, forgot>>
      BY <3>3 DEF TypeOK
    <3> QED
      BY <1>6, <3>1, <3>2, <3>3 DEF PersistCursor
  <2> QED
    BY <2>1, <2>2, <2>5, <2>6 DEF TypeOK, ShapeInv
<1>7. CASE RecordFailure
  <2>1. /\ UNCHANGED <<file, written, moves, cut, tail, keys, counted, covered>>
        /\ stage' = "idle" /\ batch' = NoBatch
    BY <1>7 DEF RecordFailure, log
  <2>2. batch' \in Batch /\ IsFiniteSet(batch'.lines)
    BY <2>1, NoCursorTyped
  <2>3. faults' \in 0 .. MaxFaults /\ forgot' \in BOOLEAN
    BY <1>0, <1>7 DEF RecordFailure, Fault, Fine, TypeOK
  <2>4. row' \in Cursor
    <3>1. row \in Cursor
      BY DEF TypeOK
    <3> QED
      BY <1>7, <3>1 DEF RecordFailure, Cursor, NoCursor
  <2> QED
    BY <2>1, <2>2, <2>3, <2>4 DEF TypeOK, ShapeInv
<1>8. CASE Restart
  <2>1. /\ UNCHANGED <<file, written, moves, cut, row, keys, counted, forgot, covered>>
        /\ stage' = "idle" /\ batch' = NoBatch /\ tail' = row
    BY <1>8 DEF Restart, log, stored
  <2>2. batch' \in Batch /\ IsFiniteSet(batch'.lines)
    BY <2>1, NoCursorTyped
  <2>3. faults' \in 0 .. MaxFaults
    BY <1>0, <1>8 DEF Restart, Fault
  <2> QED
    BY <2>1, <2>2, <2>3 DEF TypeOK, ShapeInv
<1>9. CASE UNCHANGED vars
  BY <1>9 DEF vars, log, memory, stored, TypeOK, ShapeInv
<1> QED
  BY <1>1, <1>2, <1>3, <1>4, <1>5, <1>6, <1>7, <1>8, <1>9 DEF Next, Collect

-----------------------------------------------------------------------------
(* What is counted stays counted.                                          *)
LEMMA DoneStays ==
    ASSUME TypeOK, NEW l \in Line, Done(l),
           \A n \in 1 .. MaxLines : counted'[n] >= counted[n], counted' \in [1 .. MaxLines -> Nat]
    PROVE  l.kind = "junk" \/ counted'[l.n] > 0
<1>1. CASE l.kind = "junk"
  BY <1>1
<1>2. CASE counted[l.n] > 0
  <2>1. l.n \in 1 .. MaxLines
    BY DEF Line
  <2>2. counted[l.n] \in Nat /\ counted'[l.n] \in Nat /\ counted'[l.n] >= counted[l.n]
    BY <2>1 DEF TypeOK
  <2> QED
    BY <1>2, <2>2
<1> QED
  BY <1>1, <1>2 DEF Done

(* A file that only grows keeps what is said of its lines.                 *)
LEMMA GrownStep ==
    ASSUME TypeOK, LossInv, file'.id = file.id,
           Len(file.lines) <= Len(file'.lines), Len(file'.lines) \in Nat,
           \A k \in 1 .. Len(file.lines) : file'.lines[k] = file.lines[k],
           UNCHANGED <<tail, row, stage, batch, keys, counted, covered>>
    PROVE  LossInv'
<1>0. Len(file.lines) \in Nat
  BY FileFacts
<1>1. ASSUME NEW n \in Nat, n <= Len(file.lines)
      PROVE  /\ n <= Len(file'.lines)
             /\ \A k \in 1 .. n : file'.lines[k] = file.lines[k]
  BY <1>0, <1>1
<1>2. IdsInv'
  BY DEF LossInv, IdsInv
<1>3. CursorsInv'
  <2>1. tail.off \in Nat /\ row.off \in Nat
    BY DEF TypeOK, Cursor
  <2>2. ASSUME tail.id = file.id
        PROVE  /\ tail.off <= Len(file'.lines)
               /\ \A k \in 1 .. tail.off : file'.lines[k].kind = "junk" \/ counted[file'.lines[k].n] > 0
    <3>1. /\ tail.off <= Len(file.lines)
          /\ \A k \in 1 .. tail.off : file.lines[k].kind = "junk" \/ counted[file.lines[k].n] > 0
      BY <2>2 DEF LossInv, CursorsInv, CountedTo, Done
    <3> QED
      BY <1>1, <2>1, <3>1
  <2>3. ASSUME row.id = file.id
        PROVE  /\ row.off <= Len(file'.lines)
               /\ \A k \in 1 .. row.off : file'.lines[k].kind = "junk" \/ counted[file'.lines[k].n] > 0
    <3>1. /\ row.off <= Len(file.lines)
          /\ \A k \in 1 .. row.off : file.lines[k].kind = "junk" \/ counted[file.lines[k].n] > 0
      BY <2>3 DEF LossInv, CursorsInv, CountedTo, Done
    <3> QED
      BY <1>1, <2>1, <3>1
  <2> QED
    BY <2>2, <2>3 DEF CursorsInv, CountedTo, Done
<1>4. KeysInv'
  <2>1. ASSUME NEW key \in keys, key[1] = file.id
        PROVE  /\ key[2] <= Len(file'.lines)
               /\ \A k \in 1 .. key[2] : file'.lines[k].kind = key[3] =>
                     file'.lines[k].kind = "junk" \/ counted[file'.lines[k].n] > 0
    <3>1. key[2] \in Nat
      BY DEF TypeOK
    <3>2. /\ key[2] <= Len(file.lines)
          /\ \A k \in 1 .. key[2] : file.lines[k].kind = key[3] =>
                file.lines[k].kind = "junk" \/ counted[file.lines[k].n] > 0
      BY <2>1 DEF LossInv, KeysInv, Done
    <3> QED
      BY <1>1, <3>1, <3>2
  <2> QED
    BY <2>1 DEF KeysInv, Done
<1>5. BatchInv'
  <2>1. batch.cursor.off \in Nat
    BY DEF TypeOK, Cursor
  <2>2. ASSUME stage = "upsert"
        PROVE  \A l \in batch.lines :
                  l.kind \notin batch.todo \/ Key(l.kind) \in keys =>
                    l.kind = "junk" \/ counted[l.n] > 0
    BY <2>2 DEF LossInv, BatchInv, Done
  <2>3. ASSUME stage = "upsert", batch.cursor.id = file.id
        PROVE  /\ batch.cursor.off <= Len(file'.lines)
               /\ \A k \in 1 .. batch.cursor.off :
                     \/ file'.lines[k] \in batch.lines
                     \/ file'.lines[k].kind = "junk" \/ counted[file'.lines[k].n] > 0
    <3>1. /\ batch.cursor.off <= Len(file.lines)
          /\ \A k \in 1 .. batch.cursor.off :
                \/ file.lines[k] \in batch.lines
                \/ file.lines[k].kind = "junk" \/ counted[file.lines[k].n] > 0
      BY <2>3 DEF LossInv, BatchInv, Done
    <3> QED
      BY <1>1, <2>1, <3>1
  <2> QED
    BY <2>2, <2>3 DEF BatchInv, Done, Key
<1>6. \A n \in covered' : counted'[n] > 0
  BY DEF LossInv
<1> QED
  BY <1>2, <1>3, <1>4, <1>5, <1>6 DEF LossInv

(* A batch read: what it does not write is known by its key.               *)
LEMMA ReadStep ==
    ASSUME TypeOK, ShapeInv, LossInv, batch' = ReadBatch, stage' = "upsert",
           UNCHANGED <<file, tail, row, keys, counted, covered>>
    PROVE  LossInv'
<1>1. /\ batch'.todo = Buckets(Taken) /\ batch'.lines = Taken
      /\ batch'.cursor.id = file.id /\ batch'.cursor.off = LastRead(Placed)
  BY BatchFacts
<1>2. IdsInv'
  <2>1. file.id \in Nat \ {0}
    BY FileFacts
  <2> QED
    BY <1>1, <2>1 DEF LossInv, IdsInv
<1>3. CursorsInv' /\ KeysInv' /\ \A n \in covered' : counted'[n] > 0
  BY DEF LossInv, CursorsInv, KeysInv, CountedTo, Done
<1>4. /\ LastRead(Placed) \in Nat /\ LastRead(Placed) <= Len(file.lines)
      /\ Placed.off \in Nat /\ Placed.off <= LastRead(Placed)
  BY PlacedFacts, FileFacts DEF Cursor
<1>5. ASSUME NEW l \in Taken,
             l.kind \notin Buckets(Taken) \/ <<file.id, LastRead(Placed), l.kind>> \in keys
      PROVE  Done(l)
  <2>1. CASE l.kind = "junk"
    BY <2>1 DEF Done
  <2>2. CASE <<file.id, LastRead(Placed), l.kind>> \in keys
    <3>1. PICK k \in Placed.off + 1 .. LastRead(Placed) : l = file.lines[k]
      BY DEF Taken
    <3>2. k \in 1 .. LastRead(Placed)
      BY <1>4
    <3>3. \A key \in keys : key[1] = file.id =>
             \A j \in 1 .. key[2] : file.lines[j].kind = key[3] => Done(file.lines[j])
      BY DEF LossInv, KeysInv
    <3> DEFINE key == <<file.id, LastRead(Placed), l.kind>>
    <3>4. key[1] = file.id /\ key[2] = LastRead(Placed) /\ key[3] = l.kind /\ key \in keys
      BY <2>2
    <3> HIDE DEF key
    <3> QED
      BY <3>1, <3>2, <3>3, <3>4
  <2> QED
    BY <1>5, <2>1, <2>2, TakenFacts
<1>6. ASSUME NEW k \in 1 .. LastRead(Placed)
      PROVE  file.lines[k] \in Taken \/ Done(file.lines[k])
  <2>1. CASE k <= Placed.off
    <3>1. Placed.off = tail.off /\ tail.id \in {0, file.id}
      BY <1>4, <2>1, PlacedFacts
    <3>2. tail.id # 0
      BY <1>4, <2>1, <3>1 DEF LossInv, IdsInv
    <3>3. CountedTo(tail.off)
      BY <3>1, <3>2 DEF LossInv, CursorsInv
    <3>4. k \in 1 .. tail.off
      BY <1>4, <2>1, <3>1
    <3> QED
      BY <3>3, <3>4 DEF CountedTo
  <2> QED
    BY <2>1, TakenFacts
<1>7. BatchInv'
  <2>1. ASSUME NEW l \in batch'.lines,
               l.kind \notin batch'.todo \/ <<batch'.cursor.id, batch'.cursor.off, l.kind>> \in keys
        PROVE  l.kind = "junk" \/ counted[l.n] > 0
    BY <1>1, <1>5, <2>1 DEF Done
  <2>2. /\ batch'.cursor.off <= Len(file.lines)
        /\ \A k \in 1 .. batch'.cursor.off :
              file.lines[k] \in batch'.lines \/ file.lines[k].kind = "junk" \/ counted[file.lines[k].n] > 0
    BY <1>1, <1>4, <1>6 DEF Done
  <2> QED
    BY <2>1, <2>2 DEF BatchInv, Done, Key
<1> QED
  BY <1>2, <1>3, <1>7 DEF LossInv

(* A bucket written, or found written: its lines are counted.              *)
LEMMA UpsertStep ==
    ASSUME TypeOK, ShapeInv, LossInv, NEW d \in Dimension, stage = "upsert",
           UpsertHTTP(d), batch' = [batch EXCEPT !.todo = @ \ {d}],
           UNCHANGED <<file, tail, row, stage, covered>>
    PROVE  LossInv'
<1>1. /\ batch'.todo = batch.todo \ {d} /\ batch'.lines = batch.lines
      /\ batch'.cursor = batch.cursor
  <2>1. batch \in Batch
    BY DEF TypeOK, Batch
  <2> QED
    BY <2>1 DEF Batch
<1>2. keys' = keys \cup {Key(d)}
  BY DEF UpsertHTTP
<1>3. counted' \in [1 .. MaxLines -> Nat] /\ \A n \in 1 .. MaxLines : counted'[n] >= counted[n]
  BY CountsGrow
<1> DEFINE Now(l) == l.kind = "junk" \/ counted'[l.n] > 0
<1>4. \A l \in Line : Done(l) => Now(l)
  BY <1>3, DoneStays
<1>5. batch.lines \subseteq Line /\ \A k \in 1 .. Len(file.lines) : file.lines[k] \in Line
  BY FileFacts DEF TypeOK
<1>6. \A l \in batch.lines : l.kind = d => Now(l)
  <2>1. CASE Key(d) \in keys
    <3>1. \A l \in batch.lines : l.kind = d => Done(l)
      BY <2>1 DEF LossInv, BatchInv
    <3> QED
      BY <1>4, <1>5, <3>1
  <2>2. CASE Key(d) \notin keys
    BY <2>2, CountsGrow
  <2> QED
    BY <2>1, <2>2
<1>7. \A l \in batch.lines : l.kind \notin batch.todo \/ Key(l.kind) \in keys => Now(l)
  BY <1>4, <1>5 DEF LossInv, BatchInv
<1>8. ASSUME batch.cursor.id = file.id
      PROVE  /\ batch.cursor.off <= Len(file.lines)
             /\ \A k \in 1 .. batch.cursor.off : file.lines[k] \in batch.lines \/ Now(file.lines[k])
  <2>1. /\ batch.cursor.off <= Len(file.lines)
        /\ \A k \in 1 .. batch.cursor.off : file.lines[k] \in batch.lines \/ Done(file.lines[k])
    BY <1>8 DEF LossInv, BatchInv
  <2>2. batch.cursor.off \in Nat /\ Len(file.lines) \in Nat
    BY FileFacts DEF TypeOK, Cursor
  <2>3. \A k \in 1 .. batch.cursor.off : k \in 1 .. Len(file.lines)
    BY <2>1, <2>2
  <2> HIDE DEF Now
  <2> QED
    BY <1>4, <1>5, <2>1, <2>3
<1>9. ASSUME NEW off \in Nat, CountedTo(off)
      PROVE  off <= Len(file.lines) /\ \A k \in 1 .. off : Now(file.lines[k])
  <2>1. off <= Len(file.lines) /\ \A k \in 1 .. off : Done(file.lines[k])
    BY <1>9 DEF CountedTo
  <2>2. \A k \in 1 .. off : k \in 1 .. Len(file.lines)
    BY <2>1, FileFacts
  <2> HIDE DEF Now
  <2> QED
    BY <1>4, <1>5, <2>1, <2>2
<1>10. IdsInv'
  <2>1. Key(d)[1] = batch.cursor.id
    BY DEF Key
  <2> QED
    BY <1>1, <1>2, <2>1 DEF LossInv, IdsInv
<1>11. CursorsInv'
  <2>1. tail.off \in Nat /\ row.off \in Nat
    BY DEF TypeOK, Cursor
  <2>2. /\ tail.id = file.id => CountedTo(tail.off)
        /\ row.id = file.id => CountedTo(row.off)
    BY DEF LossInv, CursorsInv
  <2> QED
    BY <1>9, <2>1, <2>2 DEF CursorsInv, CountedTo, Done
<1>12. KeysInv'
  <2>1. ASSUME NEW key \in keys, key[1] = file.id
        PROVE  /\ key[2] <= Len(file.lines)
               /\ \A k \in 1 .. key[2] : file.lines[k].kind = key[3] => Now(file.lines[k])
    <3>1. /\ key[2] <= Len(file.lines)
          /\ \A k \in 1 .. key[2] : file.lines[k].kind = key[3] => Done(file.lines[k])
      BY <2>1 DEF LossInv, KeysInv
    <3>2. key[2] \in Nat /\ Len(file.lines) \in Nat
      BY FileFacts DEF TypeOK
    <3>3. \A k \in 1 .. key[2] : k \in 1 .. Len(file.lines)
      BY <3>1, <3>2
    <3> HIDE DEF Now
    <3> QED
      BY <1>4, <1>5, <3>1, <3>3
  <2>2. ASSUME Key(d)[1] = file.id
        PROVE  /\ Key(d)[2] <= Len(file.lines)
               /\ \A k \in 1 .. Key(d)[2] : file.lines[k].kind = Key(d)[3] => Now(file.lines[k])
    <3>1. Key(d)[1] = batch.cursor.id /\ Key(d)[2] = batch.cursor.off /\ Key(d)[3] = d
      BY DEF Key
    <3> HIDE DEF Now
    <3> QED
      BY <1>6, <1>8, <2>2, <3>1
  <2> QED
    BY <1>2, <2>1, <2>2 DEF KeysInv, Done
<1>13. BatchInv'
  <2>1. ASSUME NEW l \in batch.lines,
               l.kind \notin batch.todo \ {d} \/ Key(l.kind) \in keys \cup {Key(d)}
        PROVE  Now(l)
    <3>1. l.kind = d \/ l.kind \notin batch.todo \/ Key(l.kind) \in keys
      BY <2>1 DEF Key
    <3> HIDE DEF Now
    <3> QED
      BY <1>6, <1>7, <3>1
  <2> QED
    BY <1>1, <1>2, <1>8, <2>1 DEF BatchInv, Done, Key
<1>14. \A n \in covered' : counted'[n] > 0
  <2>1. \A n \in covered : n \in 1 .. MaxLines /\ counted[n] > 0
    BY DEF TypeOK, LossInv
  <2>2. \A n \in 1 .. MaxLines : counted[n] \in Nat /\ counted'[n] \in Nat
    BY <1>3 DEF TypeOK
  <2> QED
    BY <1>3, <2>1, <2>2
<1> QED
  BY <1>10, <1>11, <1>12, <1>13, <1>14 DEF LossInv

(* The cursor of a whole batch: all behind it is counted.                  *)
LEMMA StoreStep ==
    ASSUME TypeOK, LossInv, stage = "upsert", batch.todo = {}, stage' = "idle", batch' = NoBatch,
           NEW c \in Cursor, c.id = batch.cursor.id, c.off = batch.cursor.off, Store(c),
           UNCHANGED <<file, keys, counted>>
    PROVE  LossInv'
<1>1. row' = c /\ tail' = c
  BY DEF Store, Acknowledge
<1>2. \A l \in batch.lines : Done(l)
  BY DEF LossInv, BatchInv
<1>3. batch'.cursor.id = 0 /\ batch'.cursor.off = 0
  BY NoCursorTyped
<1>4. IdsInv'
  <2>1. 0 <= file.id
    BY FileFacts
  <2> QED
    BY <1>1, <1>3, <2>1 DEF LossInv, IdsInv
<1>5. CursorsInv'
  <2>1. ASSUME c.id = file.id
        PROVE  CountedTo(c.off)
    BY <1>2, <2>1 DEF LossInv, BatchInv, CountedTo
  <2> QED
    BY <1>1, <2>1 DEF CursorsInv, CountedTo, Done
<1>6. KeysInv'
  BY DEF LossInv, KeysInv, Done
<1>7. BatchInv'
  BY DEF BatchInv
<1>8. \A n \in covered' : counted'[n] > 0
  <2>1. covered' = covered \cup {l.n : l \in {b \in batch.lines : b.kind # "junk"}}
    BY DEF Store
  <2> QED
    BY <1>2, <2>1 DEF LossInv, Done
<1> QED
  BY <1>4, <1>5, <1>6, <1>7, <1>8 DEF LossInv

(* A pass given up: the cursors are where they were, or at the beginning.  *)
LEMMA GivenUpStep ==
    ASSUME TypeOK, LossInv, stage' \in {"idle", "fail"},
           batch' = batch \/ batch' = NoBatch,
           tail' = tail \/ tail' = row,
           (row'.id = row.id /\ row'.off = row.off) \/ (row'.id = 0 /\ row'.off = 0),
           UNCHANGED <<file, keys, counted, covered>>
    PROVE  LossInv'
<1>1. file.id \in Nat \ {0}
  BY FileFacts
<1>2. IdsInv'
  BY <1>1, NoCursorTyped DEF LossInv, IdsInv
<1>3. CursorsInv'
  BY <1>1 DEF LossInv, CursorsInv, CountedTo, Done
<1>4. KeysInv'
  BY DEF LossInv, KeysInv, Done
<1>5. BatchInv'
  BY DEF BatchInv
<1> QED
  BY <1>2, <1>3, <1>4, <1>5 DEF LossInv
-----------------------------------------------------------------------------
(* Every step keeps the count of the lines, as long as nothing was cut.    *)
LEMMA LossStep ==
    ASSUME TypeOK, ShapeInv, LossInv, [Next]_vars, ~cut'
    PROVE  LossInv'
<1>1. ASSUME NEW kind \in Dimension \cup {"junk"}, Write(kind)
      PROVE  LossInv'
  <2> DEFINE l == [n |-> written + 1, kind |-> kind]
  <2>1. l \in Line /\ file.lines \in Seq(Line)
    BY <1>1, HttpAssumption, FileFacts DEF TypeOK, Line, Write
  <2>2. file'.id = file.id /\ file'.lines = Append(file.lines, l)
    <3>1. file' = [file EXCEPT !.lines = Append(@, l), !.partial = TRUE]
      BY <1>1 DEF Write
    <3> HIDE DEF l
    <3> QED
      BY <3>1, FileFacts DEF File
  <2> HIDE DEF l
  <2>3. /\ Len(file'.lines) = Len(file.lines) + 1
        /\ \A k \in 1 .. Len(file.lines) : file'.lines[k] = file.lines[k]
    BY <2>1, <2>2
  <2>4. UNCHANGED <<tail, row, stage, batch, keys, counted, covered>>
    BY <1>1 DEF Write, memory, stored
  <2>5. Len(file.lines) \in Nat
    BY FileFacts
  <2>6. Len(file.lines) <= Len(file'.lines) /\ Len(file'.lines) \in Nat
    BY <2>3, <2>5
  <2> QED
    BY <2>2, <2>3, <2>4, <2>6, GrownStep
<1>2. CASE EndLine
  <2>1. file'.id = file.id /\ file'.lines = file.lines
    BY <1>2, FileFacts DEF EndLine, File
  <2>2. UNCHANGED <<tail, row, stage, batch, keys, counted, covered>>
    BY <1>2 DEF EndLine, memory, stored
  <2>3. Len(file.lines) <= Len(file'.lines) /\ Len(file'.lines) \in Nat
    BY <2>1, FileFacts
  <2> QED
    BY <2>1, <2>2, <2>3, GrownStep
<1>3. ASSUME NEW id \in {file.id, file.id + 1}, Move(id)
      PROVE  LossInv'
  <2>1. id = file.id + 1 /\ file'.id = id
    BY <1>3 DEF Move
  <2>2. UNCHANGED <<tail, row, stage, batch, keys, counted, covered>>
    BY <1>3 DEF Move, memory, stored
  <2>3. /\ file.id \in Nat /\ tail.id \in Nat /\ row.id \in Nat /\ batch.cursor.id \in Nat
        /\ \A key \in keys : key[1] \in Nat
    BY FileFacts DEF TypeOK, Cursor
  <2>4. /\ tail.id < file'.id /\ row.id < file'.id /\ batch.cursor.id < file'.id
        /\ \A key \in keys : key[1] < file'.id
    BY <2>1, <2>3 DEF LossInv, IdsInv
  <2>5. file'.id \in Nat
    BY <2>1, <2>3
  <2>6. IdsInv'
    BY <2>2, <2>3, <2>4, <2>5 DEF LossInv, IdsInv
  <2>7. CursorsInv' /\ KeysInv'
    BY <2>2, <2>3, <2>4, <2>5 DEF CursorsInv, KeysInv
  <2>8. BatchInv'
    BY <2>2, <2>3, <2>4, <2>5 DEF LossInv, BatchInv, Done, Key
  <2> QED
    BY <2>2, <2>6, <2>7, <2>8 DEF LossInv
<1>4. CASE Read
  <2>1. UNCHANGED <<file, tail, row, keys, counted, covered>>
    BY <1>4 DEF Read, log, stored
  <2>2. CASE stage' = "fail" /\ UNCHANGED batch
    <3>1. /\ stage' \in {"idle", "fail"} /\ batch' = batch /\ tail' = tail
          /\ row'.id = row.id /\ row'.off = row.off
      BY <2>1, <2>2
    <3> QED
      BY <2>1, <3>1, GivenUpStep
  <2>3. CASE stage' = "upsert" /\ batch' = ReadBatch
    BY <2>1, <2>3, ReadStep
  <2> QED
    BY <1>4, <2>2, <2>3 DEF Read, ReadBatch
<1>5. ASSUME NEW d \in Dimension, Upsert(d)
      PROVE  LossInv'
  <2>1. UNCHANGED <<file, tail, row, covered>> /\ stage = "upsert"
    BY <1>5 DEF Upsert, log
  <2>2. CASE stage' = "fail" /\ UNCHANGED <<batch, keys, counted>>
    <3>1. /\ stage' \in {"idle", "fail"} /\ batch' = batch /\ tail' = tail
          /\ row'.id = row.id /\ row'.off = row.off
      BY <2>1, <2>2
    <3> QED
      BY <2>1, <2>2, <3>1, GivenUpStep
  <2>3. CASE UpsertHTTP(d) /\ batch' = [batch EXCEPT !.todo = @ \ {d}] /\ UNCHANGED stage
    BY <2>1, <2>3, UpsertStep
  <2> QED
    BY <1>5, <2>2, <2>3 DEF Upsert
<1>6. CASE PersistCursor
  <2>1. /\ UNCHANGED <<file, keys, counted>> /\ stage = "upsert" /\ batch.todo = {}
        /\ stage' = "idle" /\ batch' = NoBatch
    BY <1>6 DEF PersistCursor, log
  <2>2. CASE Store(mergePersistedDrops(batch.cursor))
    <3>1. batch.cursor \in Cursor /\ row \in Cursor
      BY DEF TypeOK
    <3> QED
      BY <2>1, <2>2, <3>1, MergedFacts, StoreStep
  <2>3. CASE Store(batch.cursor)
    <3>1. batch.cursor \in Cursor
      BY DEF TypeOK
    <3> QED
      BY <2>1, <2>3, <3>1, StoreStep
  <2>4. CASE UNCHANGED <<row, tail, covered, forgot>>
    <3>1. /\ stage' \in {"idle", "fail"} /\ tail' = tail
          /\ row'.id = row.id /\ row'.off = row.off
      BY <2>1, <2>4
    <3> QED
      BY <2>1, <2>4, <3>1, GivenUpStep
  <2> QED
    BY <1>6, <2>2, <2>3, <2>4 DEF PersistCursor
<1>7. CASE RecordFailure
  <2>1. /\ UNCHANGED <<file, tail, keys, counted, covered>>
        /\ stage' = "idle" /\ batch' = NoBatch
    BY <1>7 DEF RecordFailure, log
  <2>2. (row'.id = row.id /\ row'.off = row.off) \/ (row'.id = 0 /\ row'.off = 0)
    <3>1. row \in Cursor
      BY DEF TypeOK
    <3> QED
      <4>1. CASE row' = [row EXCEPT !.drops = @ + 1]
        BY <3>1, <4>1 DEF Cursor
      <4>2. CASE row' = [NoCursor EXCEPT !.drops = 1]
        BY <4>2 DEF NoCursor
      <4>3. CASE UNCHANGED <<row, forgot>>
        BY <4>3
      <4> QED
        BY <1>7, <4>1, <4>2, <4>3 DEF RecordFailure
  <2>3. stage' \in {"idle", "fail"} /\ tail' = tail
    BY <2>1
  <2> QED
    BY <2>1, <2>2, <2>3, GivenUpStep
<1>8. CASE Restart
  <2>1. /\ UNCHANGED <<file, row, keys, counted, covered>>
        /\ stage' = "idle" /\ batch' = NoBatch /\ tail' = row
    BY <1>8 DEF Restart, log, stored
  <2> QED
    <3>1. stage' \in {"idle", "fail"} /\ row'.id = row.id /\ row'.off = row.off
      BY <2>1
    <3> QED
      BY <2>1, <3>1, GivenUpStep
<1>9. CASE UNCHANGED vars
  BY <1>9 DEF vars, log, memory, stored, LossInv, IdsInv, CursorsInv, KeysInv,
              BatchInv, CountedTo, Done, Key
<1> QED
  BY <1>1, <1>2, <1>3, <1>4, <1>5, <1>6, <1>7, <1>8, <1>9 DEF Next, Collect
-----------------------------------------------------------------------------
(* The collector begins with an empty file and no row.                     *)
LEMMA CountInit == Init => CountInv
<1> SUFFICES ASSUME Init
             PROVE  CountInv
  OBVIOUS
<1>1. file \in File /\ ~file.partial
  BY DEF Init, File
<1>2. tail \in Cursor /\ row \in Cursor /\ batch \in Batch /\ IsFiniteSet(batch.lines)
  BY NoCursorTyped DEF Init
<1>3. counted \in [1 .. MaxLines -> Nat]
  BY DEF Init
<1>4. /\ stage = "idle" /\ keys = {} /\ covered = {} /\ cut = FALSE /\ forgot = FALSE
      /\ written \in 0 .. MaxLines /\ moves \in 0 .. MaxMoves /\ faults \in 0 .. MaxFaults
  BY HttpAssumption DEF Init
<1> HIDE DEF Init
<1>8. TypeOK /\ ShapeInv
  BY <1>1, <1>2, <1>3, <1>4 DEF TypeOK, ShapeInv, File, Batch
<1>5. IdsInv
  BY NoCursorTyped DEF Init, IdsInv
<1>6. CursorsInv
  BY NoCursorTyped DEF Init, CursorsInv
<1>7. KeysInv /\ BatchInv /\ covered = {}
  BY DEF Init, KeysInv, BatchInv
<1> QED
  BY <1>5, <1>6, <1>7, <1>8 DEF CountInv, LossInv

(* Every step keeps the invariant.                                         *)
LEMMA CountStep == CountInv /\ [Next]_vars => CountInv'
<1> SUFFICES ASSUME CountInv, [Next]_vars
             PROVE  CountInv'
  OBVIOUS
<1>1. TypeOK' /\ ShapeInv'
  BY TypeStep DEF CountInv
<1>2. CASE ~cut'
  <2>1. ~cut
    BY <1>2 DEF Next, Collect, Write, EndLine, Move, Read, Upsert, PersistCursor,
                RecordFailure, Restart, vars, log, CountInv, TypeOK
  <2> QED
    BY <1>1, <1>2, <2>1, LossStep DEF CountInv
<1> QED
  BY <1>1, <1>2 DEF CountInv

(* The file, the cursors, the batch and the counts are what the collector  *)
(* and its tables hold, for any dimensions and bounds.                     *)
THEOREM IngestTypeCorrect == Spec => []TypeOK
<1>1. CountInv => TypeOK
  BY DEF CountInv
<1> QED
  BY <1>1, CountInit, CountStep, PTL DEF Spec

(* No request behind a stored cursor is missing from the buckets: a retry  *)
(* that finds its ingest key loses nothing, wherever its batch began.      *)
THEOREM LinesAreCounted == Spec => []LinesCounted
<1>1. CountInv => LinesCounted
  BY DEF CountInv, LossInv, LinesCounted
<1> QED
  BY <1>1, CountInit, CountStep, PTL DEF Spec

(* The drops of the stored row only grow, whatever fails between the       *)
(* buckets and the cursor: mergePersistedDrops and recordFailure.          *)
THEOREM DropsOnlyGrow == Spec => DropsGrow
<1>1. \A a, b \in Nat : Max({a, b}) >= b
  <2> SUFFICES ASSUME NEW a \in Nat, NEW b \in Nat PROVE Max({a, b}) >= b
    OBVIOUS
  <2>1. Max({a, b}) = CHOOSE x \in {a, b} : \A y \in {a, b} : x >= y
    BY DEF Max
  <2>2. \E x \in {a, b} : \A y \in {a, b} : x >= y
    BY a >= b \/ b >= a
  <2> QED
    BY <2>1, <2>2
<1>2. TypeOK /\ [Next]_vars => forgot' \/ row'.drops >= row.drops
  <2>0. ASSUME TypeOK, row' = row PROVE row'.drops >= row.drops
    <3>1. row.drops \in Nat
      BY <2>0 DEF TypeOK, Cursor
    <3> QED
      BY <2>0, <3>1
  <2> SUFFICES ASSUME TypeOK, [Next]_vars, row' # row, ~forgot'
               PROVE  row'.drops >= row.drops
    BY <2>0
  <2>1. row \in Cursor /\ batch.cursor \in Cursor /\ row.drops \in Nat
    BY DEF TypeOK, Cursor
  <2>2. row' = mergePersistedDrops(batch.cursor) \/ row' = [row EXCEPT !.drops = @ + 1]
    BY DEF Next, Collect, Read, Upsert, UpsertHTTP, PersistCursor, Store, RecordFailure, EndLine,
           Restart, Write, Move, vars, stored
  <2>3. CASE row' = mergePersistedDrops(batch.cursor)
    BY <1>1, <2>1, <2>3 DEF mergePersistedDrops, Cursor
  <2>4. CASE row' = [row EXCEPT !.drops = @ + 1]
    BY <2>1, <2>4 DEF Cursor
  <2> QED
    BY <2>2, <2>3, <2>4
<1>3. TypeOK /\ [Next]_vars => [forgot' \/ row'.drops >= row.drops]_vars
  BY <1>2
<1> QED
  BY <1>3, IngestTypeCorrect, PTL DEF Spec, DropsGrow

-----------------------------------------------------------------------------
(* Without a failure the tailer stands where its last batch ends, and what *)
(* is counted of the present file lies before that place: no batch reads   *)
(* it again.  A line of the file is its number's only one.                 *)
Reached == IF stage = "idle" THEN tail ELSE batch.cursor

Behind(k) == Reached.id = file.id /\ k <= Reached.off /\ Reached.off <= Complete

NumberedOnce ==
    /\ \A k \in 1 .. Len(file.lines) :
          /\ file.lines[k].n <= written
          /\ \A j \in 1 .. Len(file.lines) : file.lines[j].n = file.lines[k].n => j = k
    /\ \A n \in 1 .. MaxLines : counted[n] > 0 => n <= written

CountedBehind == \A k \in 1 .. Len(file.lines) : counted[file.lines[k].n] > 0 => Behind(k)

BatchOfNew ==
    stage = "upsert" => \A l \in batch.lines :
        /\ l.n <= written
        /\ l.kind \in batch.todo => counted[l.n] = 0
        /\ \A m \in batch.lines : m.n = l.n => m = l
        /\ \A k \in 1 .. Len(file.lines) : file.lines[k].n = l.n => Behind(k)

AtMostOnce == \A n \in 1 .. MaxLines : counted[n] <= 1

ExactInv == stage # "fail" /\ NumberedOnce /\ CountedBehind /\ BatchOfNew /\ AtMostOnce

(* A poll goes on where the tailer stands, unless the file is another one  *)
(* or shorter than that.                                                   *)
LEMMA PlacedStays ==
    ASSUME TypeOK, ShapeInv, tail.id = file.id, tail.off <= Complete
    PROVE  Placed.off = tail.off
<1>1. tail \in Cursor /\ tail.off \in Nat /\ Complete \in Nat
  BY PlacedFacts DEF TypeOK, Cursor
<1>2. Renewed(tail) = tail
  BY DEF Renewed
<1>3. Shrunk(Renewed(tail)) = tail
  BY <1>1, <1>2 DEF Shrunk
<1> QED
  BY <1>1, <1>3 DEF Placed, Cursor

(* Steps of nginx: the lines of the file stay where they are, and a new    *)
(* one has a new number.                                                   *)
LEMMA WrittenStep ==
    ASSUME TypeOK, ShapeInv, ExactInv, NEW kind \in Dimension \cup {"junk"}, Write(kind)
    PROVE  ExactInv'
<1> DEFINE l == [n |-> written + 1, kind |-> kind]
<1>1. /\ file.lines \in Seq(Line) /\ Len(file.lines) \in Nat /\ file \in File
      /\ \A k \in 1 .. Len(file.lines) : file.lines[k] \in Line
      /\ written \in Nat /\ written < MaxLines /\ MaxLines \in Nat
  BY FileFacts, HttpAssumption DEF TypeOK, Write
<1>2. l \in Line /\ l.n = written + 1 /\ written + 1 \in 1 .. MaxLines
  BY <1>1 DEF Line
<1>3. file' = [id |-> file.id, lines |-> Append(file.lines, l), partial |-> TRUE]
  <2>1. file' = [file EXCEPT !.lines = Append(@, l), !.partial = TRUE]
    BY DEF Write
  <2> QED
    BY <1>1, <2>1 DEF File
<1> HIDE DEF l
<1>4. /\ Len(file'.lines) = Len(file.lines) + 1
      /\ \A k \in 1 .. Len(file.lines) : file'.lines[k] = file.lines[k]
      /\ file'.lines[Len(file.lines) + 1] = l
  <2>1. file'.lines = Append(file.lines, l)
    BY <1>3
  <2> QED
    BY <1>1, <1>2, <2>1
<1>5. written' = written + 1 /\ UNCHANGED <<tail, stage, batch, counted>>
  BY DEF Write, memory, stored
<1>6. Complete' = Complete /\ file'.id = file.id
  <2>1. ~file.partial /\ file'.partial
    BY <1>3 DEF Write
  <2> QED
    BY <1>1, <1>3, <1>4, <2>1 DEF Complete
<1>7. \A k : Behind(k)' = Behind(k)
  BY <1>5, <1>6 DEF Behind, Reached
<1>8. \A k \in 1 .. Len(file'.lines) : k \in 1 .. Len(file.lines) \/ k = Len(file.lines) + 1
  BY <1>1, <1>4
<1>9. counted \in [1 .. MaxLines -> Nat] /\ batch.lines \subseteq Line
  BY DEF TypeOK
<1>10. NumberedOnce'
  <2>1. \A k \in 1 .. Len(file.lines) : file'.lines[k].n \in 1 .. MaxLines /\ file'.lines[k].n <= written
    BY <1>1, <1>4 DEF ExactInv, NumberedOnce, Line
  <2>2. ASSUME NEW k \in 1 .. Len(file'.lines)
        PROVE  file'.lines[k].n <= written + 1
    BY <1>1, <1>2, <1>4, <1>8, <2>1
  <2>3. ASSUME NEW k \in 1 .. Len(file'.lines), NEW j \in 1 .. Len(file'.lines),
               file'.lines[j].n = file'.lines[k].n
        PROVE  j = k
    <3>1. CASE k \in 1 .. Len(file.lines) /\ j \in 1 .. Len(file.lines)
      BY <1>4, <2>3, <3>1 DEF ExactInv, NumberedOnce
    <3>2. \A i \in 1 .. Len(file.lines) : file'.lines[i].n # written + 1
      BY <1>1, <2>1
    <3> QED
      BY <1>2, <1>4, <1>8, <2>3, <3>1, <3>2
  <2>4. \A n \in 1 .. MaxLines : counted[n] > 0 => n <= written + 1
    BY <1>1 DEF ExactInv, NumberedOnce
  <2> QED
    BY <1>5, <2>2, <2>3, <2>4 DEF NumberedOnce
<1>11. ASSUME NEW k \in 1 .. Len(file'.lines), counted[file'.lines[k].n] > 0
       PROVE  Behind(k)
  <2>1. CASE k \in 1 .. Len(file.lines)
    BY <1>4, <1>11, <2>1 DEF ExactInv, CountedBehind
  <2>2. CASE k = Len(file.lines) + 1
    <3>1. counted[written + 1] > 0 => written + 1 <= written
      BY <1>2 DEF ExactInv, NumberedOnce
    <3> QED
      BY <1>1, <1>2, <1>4, <1>11, <2>2, <3>1
  <2> QED
    BY <1>8, <2>1, <2>2
<1>12. ASSUME stage = "upsert", NEW b \in batch.lines
       PROVE  /\ b.n <= written + 1
              /\ b.kind \in batch.todo => counted[b.n] = 0
              /\ \A m \in batch.lines : m.n = b.n => m = b
              /\ \A k \in 1 .. Len(file'.lines) : file'.lines[k].n = b.n => Behind(k)
  <2>1. /\ b.n <= written /\ b.n \in 1 .. MaxLines
        /\ b.kind \in batch.todo => counted[b.n] = 0
        /\ \A m \in batch.lines : m.n = b.n => m = b
        /\ \A k \in 1 .. Len(file.lines) : file.lines[k].n = b.n => Behind(k)
    BY <1>9, <1>12 DEF ExactInv, BatchOfNew, Line
  <2>2. b.n <= written + 1 /\ b.n # written + 1
    BY <1>1, <2>1
  <2> QED
    BY <1>2, <1>4, <1>8, <2>1, <2>2
<1>13. CountedBehind' /\ BatchOfNew'
  BY <1>5, <1>7, <1>11, <1>12 DEF CountedBehind, BatchOfNew
<1> QED
  BY <1>5, <1>10, <1>13 DEF ExactInv, AtMostOnce

LEMMA EndedStep ==
    ASSUME TypeOK, ShapeInv, ExactInv, EndLine
    PROVE  ExactInv'
<1>1. file \in File /\ Len(file.lines) \in Nat /\ file' = [file EXCEPT !.partial = FALSE]
  BY FileFacts DEF EndLine
<1>2. file'.lines = file.lines /\ file'.id = file.id /\ ~file'.partial
  BY <1>1 DEF File
<1>3. UNCHANGED <<written, tail, stage, batch, counted>>
  BY DEF EndLine, memory, stored
<1>4. Complete \in Nat /\ Complete' \in Nat /\ Complete <= Complete'
  <2>1. Complete' = Len(file.lines)
    BY <1>1, <1>2 DEF Complete
  <2> QED
    BY <1>1, <2>1, PlacedFacts
<1>5. Reached.off \in Nat /\ Reached' = Reached
  BY <1>3 DEF Reached, TypeOK, Cursor
<1>6. \A k : Behind(k) => Behind(k)'
  BY <1>2, <1>4, <1>5 DEF Behind
<1>7. NumberedOnce'
  BY <1>2, <1>3 DEF ExactInv, NumberedOnce
<1>8. CountedBehind' /\ BatchOfNew'
  BY <1>2, <1>3, <1>6 DEF ExactInv, CountedBehind, BatchOfNew
<1> QED
  BY <1>3, <1>7, <1>8 DEF ExactInv, AtMostOnce

(* In an empty file nothing is to be read a second time.                   *)
LEMMA MovedStep ==
    ASSUME TypeOK, ExactInv, NEW id, Move(id)
    PROVE  ExactInv'
<1>1. Len(file'.lines) = 0
  BY DEF Move
<1>2. \A k \in 1 .. Len(file'.lines) : FALSE
  BY <1>1
<1>3. UNCHANGED <<written, tail, stage, batch, counted>>
  BY DEF Move, memory, stored
<1>4. NumberedOnce' /\ CountedBehind'
  BY <1>2, <1>3 DEF ExactInv, NumberedOnce, CountedBehind
<1>5. BatchOfNew'
  BY <1>2, <1>3 DEF ExactInv, BatchOfNew
<1> QED
  BY <1>3, <1>4, <1>5 DEF ExactInv, AtMostOnce

(* A poll takes lines no batch has taken before: what was counted of the   *)
(* file lies before its place.                                             *)
LEMMA TakenStep ==
    ASSUME TypeOK, ShapeInv, ExactInv, stage = "idle", stage' = "upsert", batch' = ReadBatch,
           UNCHANGED <<file, written, tail, counted>>
    PROVE  ExactInv'
<1>1. /\ batch'.lines = Taken /\ batch'.cursor.id = file.id
      /\ batch'.cursor.off = LastRead(Placed)
  BY BatchFacts
<1>2. /\ Placed.off \in Nat /\ LastRead(Placed) \in Nat /\ Complete \in Nat
      /\ Placed.off <= LastRead(Placed) /\ LastRead(Placed) <= Complete
      /\ Complete <= Len(file.lines) /\ Len(file.lines) \in Nat
  BY PlacedFacts, FileFacts DEF Cursor
<1>3. /\ \A k \in 1 .. Len(file.lines) : file.lines[k] \in Line
      /\ counted \in [1 .. MaxLines -> Nat]
  BY FileFacts DEF TypeOK
<1>4. \A k \in 1 .. LastRead(Placed) : Behind(k)'
  <2>1. Reached' = batch'.cursor /\ Complete' = Complete /\ file'.id = file.id
    BY DEF Reached, Complete
  <2> QED
    BY <1>1, <1>2, <2>1 DEF Behind
<1>5. ASSUME NEW k \in 1 .. Len(file.lines), counted[file.lines[k].n] > 0
      PROVE  k <= Placed.off
  <2>1. tail.id = file.id /\ k <= tail.off /\ tail.off <= Complete
    BY <1>5 DEF ExactInv, CountedBehind, Behind, Reached
  <2> QED
    BY <2>1, PlacedStays
<1>6. CountedBehind'
  <2>1. ASSUME NEW k \in 1 .. Len(file.lines), counted[file.lines[k].n] > 0
        PROVE  Behind(k)'
    <3>1. k \in 1 .. LastRead(Placed)
      BY <1>2, <1>5, <2>1
    <3> QED
      BY <1>4, <3>1
  <2> QED
    BY <2>1 DEF CountedBehind
<1>7. ASSUME NEW l \in Taken
      PROVE  /\ l.n <= written /\ counted[l.n] = 0
             /\ \A m \in Taken : m.n = l.n => m = l
             /\ \A k \in 1 .. Len(file.lines) : file.lines[k].n = l.n => Behind(k)'
  <2>1. \A m \in Taken : \E j \in 1 .. Len(file.lines) :
            m = file.lines[j] /\ j > Placed.off /\ j <= LastRead(Placed)
    BY <1>2 DEF Taken
  <2>2. PICK j \in 1 .. Len(file.lines) :
            l = file.lines[j] /\ j > Placed.off /\ j <= LastRead(Placed)
    BY <2>1
  <2>3. l.n <= written
    BY <2>2 DEF ExactInv, NumberedOnce
  <2>4. counted[l.n] = 0
    <3>1. counted[l.n] \in Nat
      BY <1>3, <2>2 DEF Line
    <3>2. ~(counted[l.n] > 0)
      BY <1>2, <1>5, <2>2
    <3> QED
      BY <3>1, <3>2
  <2>5. \A k \in 1 .. Len(file.lines) : file.lines[k].n = l.n => k = j
    BY <2>2 DEF ExactInv, NumberedOnce
  <2>6. \A m \in Taken : m.n = l.n => m = l
    BY <2>1, <2>2, <2>5
  <2>7. j \in 1 .. LastRead(Placed)
    BY <2>2, <1>2
  <2> QED
    BY <1>4, <2>3, <2>4, <2>5, <2>6, <2>7
<1>8. BatchOfNew'
  BY <1>1, <1>7 DEF BatchOfNew
<1>9. NumberedOnce' /\ AtMostOnce'
  BY DEF ExactInv, NumberedOnce, AtMostOnce
<1> QED
  BY <1>6, <1>8, <1>9 DEF ExactInv

(* A bucket counts each of its lines for the first time, and once.         *)
LEMMA CountedStep ==
    ASSUME TypeOK, ShapeInv, ExactInv, NEW d \in Dimension, stage = "upsert", d \in batch.todo,
           UpsertHTTP(d), batch' = [batch EXCEPT !.todo = @ \ {d}],
           UNCHANGED <<file, written, tail, stage>>
    PROVE  ExactInv'
<1>1. /\ batch'.todo = batch.todo \ {d} /\ batch'.lines = batch.lines
      /\ batch'.cursor = batch.cursor
  <2>1. batch \in Batch
    BY DEF TypeOK, Batch
  <2> QED
    BY <2>1 DEF Batch
<1>2. /\ counted \in [1 .. MaxLines -> Nat] /\ batch.lines \subseteq Line
      /\ \A k \in 1 .. Len(file.lines) : file.lines[k] \in Line
  BY FileFacts DEF TypeOK
<1> DEFINE of(n) == {l \in batch.lines : l.n = n /\ l.kind = d}
<1>3. ASSUME NEW n \in 1 .. MaxLines
      PROVE  \/ counted'[n] = counted[n]
             \/ counted[n] = 0 /\ counted'[n] = 1 /\ \E l \in of(n) : TRUE
  <2>1. CASE Key(d) \in keys
    BY <2>1 DEF UpsertHTTP
  <2>2. CASE Key(d) \notin keys
    <3>1. counted'[n] = counted[n] + Cardinality(of(n))
      BY <1>2, <2>2 DEF UpsertHTTP
    <3>2. CASE of(n) = {}
      <4>1. Cardinality(of(n)) = 0 /\ counted[n] \in Nat
        BY <1>2, <3>2, FS_EmptySet
      <4> HIDE DEF of
      <4> QED
        BY <3>1, <4>1
    <3>3. CASE of(n) # {}
      <4>1. PICK l \in of(n) : TRUE
        BY <3>3
      <4>2. counted[n] = 0 /\ \A m \in of(n) : m = l
        BY <4>1 DEF ExactInv, BatchOfNew
      <4>3. of(n) = {l}
        BY <4>1, <4>2
      <4>4. Cardinality(of(n)) = 1
        BY <4>3, FS_Singleton
      <4> HIDE DEF of
      <4> QED
        BY <3>1, <4>1, <4>2, <4>4
    <3> QED
      BY <3>2, <3>3
  <2> QED
    BY <2>1, <2>2
<1>4. ASSUME NEW n \in 1 .. MaxLines, counted'[n] > 0
      PROVE  counted[n] > 0 \/ \E l \in batch.lines : l.n = n
  BY <1>3, <1>4
<1>5. \A k : Behind(k)' = Behind(k)
  BY <1>1 DEF Behind, Reached, Complete
<1>6. AtMostOnce'
  BY <1>3 DEF ExactInv, AtMostOnce
<1>7. NumberedOnce'
  BY <1>4 DEF ExactInv, NumberedOnce, BatchOfNew
<1>8. CountedBehind'
  <2>1. ASSUME NEW k \in 1 .. Len(file.lines), counted'[file.lines[k].n] > 0
        PROVE  Behind(k)
    <3>1. file.lines[k].n \in 1 .. MaxLines
      BY <1>2 DEF Line
    <3>2. CASE counted[file.lines[k].n] > 0
      BY <3>2 DEF ExactInv, CountedBehind
    <3>3. CASE \E l \in batch.lines : l.n = file.lines[k].n
      BY <3>3 DEF ExactInv, BatchOfNew
    <3> QED
      BY <1>4, <2>1, <3>1, <3>2, <3>3
  <2> QED
    BY <1>5, <2>1 DEF CountedBehind
<1>9. BatchOfNew'
  <2>1. ASSUME NEW l \in batch.lines, l.kind \in batch.todo \ {d}
        PROVE  counted'[l.n] = 0
    <3>1. l.n \in 1 .. MaxLines /\ counted[l.n] = 0
      BY <1>2, <2>1 DEF Line, ExactInv, BatchOfNew
    <3>2. of(l.n) = {}
      BY <2>1 DEF ExactInv, BatchOfNew
    <3> HIDE DEF of
    <3> QED
      BY <1>3, <3>1, <3>2
  <2> QED
    BY <1>1, <1>5, <2>1 DEF ExactInv, BatchOfNew
<1> QED
  BY <1>6, <1>7, <1>8, <1>9 DEF ExactInv

(* The tailer comes to stand where its batch ended.                        *)
LEMMA AcknowledgedStep ==
    ASSUME TypeOK, ExactInv, stage = "upsert", stage' = "idle",
           tail' = mergePersistedDrops(batch.cursor), UNCHANGED <<file, written, counted>>
    PROVE  ExactInv'
<1>1. tail'.id = batch.cursor.id /\ tail'.off = batch.cursor.off
  BY MergedFacts DEF TypeOK
<1>2. \A k : Behind(k)' = Behind(k)
  BY <1>1 DEF Behind, Reached, Complete
<1>3. NumberedOnce' /\ AtMostOnce' /\ BatchOfNew'
  BY DEF ExactInv, NumberedOnce, AtMostOnce, BatchOfNew
<1>4. CountedBehind'
  BY <1>2 DEF ExactInv, CountedBehind
<1> QED
  BY <1>3, <1>4 DEF ExactInv

(* As long as nothing has failed, every step keeps the invariant.          *)
LEMMA ExactStep ==
    ASSUME TypeOK, ShapeInv, ExactInv, [Next]_vars, faults' = faults
    PROVE  ExactInv'
<1>1. ~Fault
  BY DEF Fault, TypeOK
<1>2. ASSUME NEW kind \in Dimension \cup {"junk"}, Write(kind) PROVE ExactInv'
  BY <1>2, WrittenStep
<1>3. CASE EndLine
  BY <1>3, EndedStep
<1>4. ASSUME NEW id \in {file.id, file.id + 1}, Move(id) PROVE ExactInv'
  BY <1>4, MovedStep
<1>5. CASE Read
  <2>1. /\ stage = "idle" /\ stage' = "upsert" /\ batch' = ReadBatch
        /\ UNCHANGED <<file, written, tail, counted>>
    BY <1>1, <1>5 DEF Read, ReadBatch, log, stored
  <2> QED
    BY <2>1, TakenStep
<1>6. ASSUME NEW d \in Dimension, Upsert(d) PROVE ExactInv'
  <2>1. /\ stage = "upsert" /\ d \in batch.todo /\ UpsertHTTP(d)
        /\ batch' = [batch EXCEPT !.todo = @ \ {d}]
        /\ UNCHANGED <<file, written, tail, stage>>
    BY <1>1, <1>6 DEF Upsert, log
  <2> QED
    BY <2>1, CountedStep
<1>7. CASE PersistCursor
  <2>1. /\ stage = "upsert" /\ stage' = "idle" /\ tail' = mergePersistedDrops(batch.cursor)
        /\ UNCHANGED <<file, written, counted>>
    BY <1>1, <1>7 DEF PersistCursor, Store, Acknowledge, log
  <2> QED
    BY <2>1, AcknowledgedStep
<1>8. ~RecordFailure /\ ~Restart
  BY <1>1 DEF RecordFailure, Restart, ExactInv
<1>9. CASE UNCHANGED vars
  BY <1>9 DEF vars, log, memory, stored, ExactInv, NumberedOnce, CountedBehind, BatchOfNew,
              AtMostOnce, Behind, Reached, Complete
<1> QED
  BY <1>2, <1>3, <1>4, <1>5, <1>6, <1>7, <1>8, <1>9 DEF Next, Collect

(* Without a failure or a restart no request is counted twice: rotation,   *)
(* truncation, a line begun and a batch at the limit keep the tailer's     *)
(* place behind all that it counted of the file.                           *)
THEOREM CountsAreExact == Spec => []ExactWithoutFaults
<1> DEFINE Inv == CountInv /\ (faults = 0 => ExactInv)
<1>1. Init => Inv
  <2>1. Init => CountInv
    BY CountInit
  <2>2. Init => ExactInv
    <3> SUFFICES ASSUME Init PROVE ExactInv
      OBVIOUS
    <3>1. stage = "idle" /\ \A k \in 1 .. Len(file.lines) : FALSE
      BY DEF Init
    <3>2. \A n \in 1 .. MaxLines : counted[n] = 0
      BY DEF Init
    <3> QED
      BY <3>1, <3>2 DEF ExactInv, NumberedOnce, CountedBehind, BatchOfNew, AtMostOnce
  <2> QED
    BY <2>1, <2>2
<1>2. Inv /\ [Next]_vars => Inv'
  <2> SUFFICES ASSUME Inv, [Next]_vars, faults' = 0 PROVE ExactInv'
    BY CountStep
  <2>1. faults = 0 /\ TypeOK /\ ShapeInv
    <3>1. TypeOK /\ faults \in Nat
      BY DEF CountInv, TypeOK
    <3>2. faults' = faults \/ faults' = faults + 1
      BY DEF Next, Collect, Read, Upsert, PersistCursor, RecordFailure, EndLine, Restart, Write,
             Move, Fine, Fault, vars
    <3> QED
      BY <3>1, <3>2 DEF CountInv
  <2> QED
    BY <2>1, ExactStep
<1>3. Inv => ExactWithoutFaults
  <2> SUFFICES ASSUME Inv, faults = 0 PROVE \A n \in DOMAIN counted : counted[n] <= 1
    BY DEF ExactWithoutFaults
  <2>1. counted \in [1 .. MaxLines -> Nat] /\ AtMostOnce
    BY DEF CountInv, TypeOK, ExactInv
  <2> QED
    BY <2>1 DEF AtMostOnce
<1> QED
  BY <1>1, <1>2, <1>3, PTL DEF Spec

-----------------------------------------------------------------------------
(* How SumFunction adds up the values on a subset of the domain: it picks  *)
(* an element and goes on with the rest.                                   *)
Pick(s)  == CHOOSE x \in s : TRUE
SumOn(f) == CHOOSE sum : sum = [s \in SUBSET DOMAIN f |->
                            IF s = {} THEN 0 ELSE f[Pick(s)] + sum[s \ {Pick(s)}]]

(* SumFunction is that sum over the whole domain.                          *)
LEMMA SumIsSumOn ==
    \A f : SumFunction(f) = SumOn(f)[DOMAIN f]
BY DEF SumFunction, SumFunctionOnSet, FoldFunctionOnSet, MapThenFoldSet, SumOn, Pick

(* A set of naturals that holds 0 and the successor of each of its members *)
(* is all of them.                                                         *)
LEMMA SetInduction ==
    ASSUME NEW T, 0 \in T, \A n \in Nat : n \in T => n + 1 \in T
    PROVE  Nat \subseteq T
<1> DEFINE B == {n \in Nat : n \notin T}
<1>1. ASSUME B # {} PROVE FALSE
  <2>1. PICK n \in B : \A m \in B : ~(<<m, n>> \in OpToRel(<, Nat))
    BY <1>1, NatLessThanWellFounded, WFMin
  <2>2. n - 1 \in Nat /\ n - 1 \notin T
    <3>1. n \in Nat /\ n # 0 /\ n \notin T
      BY <2>1
    <3>2. n - 1 \in Nat /\ (n - 1) + 1 = n
      BY <3>1
    <3> QED
      BY <3>1, <3>2
  <2>3. <<n - 1, n>> \in OpToRel(<, Nat)
    BY <2>2 DEF OpToRel
  <2> QED
    BY <2>1, <2>2, <2>3
<1> QED
  BY <1>1

(* What is picked is an element.                                           *)
LEMMA PickIsIn == \A s : s # {} => Pick(s) \in s
BY DEF Pick

(* The sum is what its equation says, for a finite domain.                 *)
LEMMA SumEquation ==
    ASSUME NEW f, IsFiniteSet(DOMAIN f)
    PROVE  SumOn(f) = [s \in SUBSET DOMAIN f |->
                          IF s = {} THEN 0 ELSE f[Pick(s)] + SumOn(f)[s \ {Pick(s)}]]
<1> DEFINE D == DOMAIN f
           Upto(n) == {s \in SUBSET D : Cardinality(s) <= n}
           Solves(g, n) == g = [s \in Upto(n) |->
                                   IF s = {} THEN 0 ELSE f[Pick(s)] + g[s \ {Pick(s)}]]
           T == {n \in Nat : \E g : Solves(g, n)}
<1>1. \A s \in SUBSET D : IsFiniteSet(s) /\ Cardinality(s) \in Nat
  BY FS_Subset, FS_CardinalityType
<1>2. \A s \in SUBSET D : s # {} =>
         /\ s \ {Pick(s)} \in SUBSET D /\ Cardinality(s \ {Pick(s)}) = Cardinality(s) - 1
  BY <1>1, PickIsIn, FS_RemoveElement
<1>3. 0 \in T
  <2>1. Upto(0) = {{}}
    BY <1>1, FS_EmptySet
  <2>2. Solves([s \in Upto(0) |-> 0], 0)
    BY <2>1
  <2> QED
    BY <2>2
<1>4. ASSUME NEW n \in Nat, n \in T PROVE n + 1 \in T
  <2>1. PICK g : Solves(g, n)
    BY <1>4
  <2> DEFINE h == [s \in Upto(n + 1) |-> IF s = {} THEN 0 ELSE f[Pick(s)] + g[s \ {Pick(s)}]]
  <2>2. ASSUME NEW s \in Upto(n + 1), s # {}
        PROVE  h[s \ {Pick(s)}] = g[s \ {Pick(s)}]
    <3> DEFINE t == s \ {Pick(s)}
    <3>1. t \in Upto(n) /\ t \in Upto(n + 1)
      BY <1>1, <1>2, <2>2
    <3>2. h[t] = IF t = {} THEN 0 ELSE f[Pick(t)] + g[t \ {Pick(t)}]
      BY <3>1
    <3>3. g[t] = IF t = {} THEN 0 ELSE f[Pick(t)] + g[t \ {Pick(t)}]
      <4> HIDE DEF t, Upto
      <4> QED
        BY <2>1, <3>1
    <3> QED
      BY <3>2, <3>3
  <2>3. Solves(h, n + 1)
    <3> HIDE DEF Upto
    <3>1. \A s \in Upto(n + 1) :
             (IF s = {} THEN 0 ELSE f[Pick(s)] + g[s \ {Pick(s)}])
           = (IF s = {} THEN 0 ELSE f[Pick(s)] + h[s \ {Pick(s)}])
      <4> HIDE DEF h
      <4> QED
        BY <2>2
    <3> QED
      BY <3>1
  <2> HIDE DEF h, Solves
  <2> QED
    BY <2>3
<1>5. Cardinality(D) \in T
  <2> HIDE DEF T
  <2> QED
    BY <1>1, <1>3, <1>4, SetInduction
<1>6. Upto(Cardinality(D)) = SUBSET D
  BY <1>1, FS_Subset
<1>7. PICK g : Solves(g, Cardinality(D))
  BY <1>5
<1>8. g = [s \in SUBSET DOMAIN f |-> IF s = {} THEN 0 ELSE f[Pick(s)] + g[s \ {Pick(s)}]]
  BY <1>6, <1>7
<1> QED
  BY <1>8 DEF SumOn

(* A sum of naturals is a natural.                                         *)
LEMMA SumTyped ==
    ASSUME NEW f, IsFiniteSet(DOMAIN f), \A x \in DOMAIN f : f[x] \in Nat
    PROVE  \A s \in SUBSET DOMAIN f : SumOn(f)[s] \in Nat
<1> DEFINE D == DOMAIN f
           T == {n \in Nat : \A s \in SUBSET D : Cardinality(s) = n => SumOn(f)[s] \in Nat}
<1>1. \A s \in SUBSET D : IsFiniteSet(s) /\ Cardinality(s) \in Nat
  BY FS_Subset, FS_CardinalityType
<1>2. \A s \in SUBSET D : s # {} =>
         /\ Pick(s) \in D
         /\ s \ {Pick(s)} \in SUBSET D /\ Cardinality(s \ {Pick(s)}) = Cardinality(s) - 1
  BY <1>1, PickIsIn, FS_RemoveElement
<1>3. \A s \in SUBSET D :
         SumOn(f)[s] = IF s = {} THEN 0 ELSE f[Pick(s)] + SumOn(f)[s \ {Pick(s)}]
  BY SumEquation
<1>4. 0 \in T
  BY <1>1, <1>3, FS_EmptySet
<1>5. ASSUME NEW n \in Nat, n \in T PROVE n + 1 \in T
  <2> SUFFICES ASSUME NEW s \in SUBSET D, Cardinality(s) = n + 1
               PROVE  SumOn(f)[s] \in Nat
    OBVIOUS
  <2>1. s # {}
    BY FS_EmptySet
  <2>2. SumOn(f)[s \ {Pick(s)}] \in Nat
    BY <1>2, <1>5, <2>1
  <2> QED
    BY <1>2, <1>3, <2>1, <2>2
<1> HIDE DEF T
<1>6. Nat \subseteq T
  BY <1>4, <1>5, SetInduction
<1> QED
  BY <1>1, <1>6 DEF T

(* Any element can be taken out of a sum first, not only the picked one.   *)
LEMMA SumTakesOut ==
    ASSUME NEW f, IsFiniteSet(DOMAIN f), \A x \in DOMAIN f : f[x] \in Nat
    PROVE  \A s \in SUBSET DOMAIN f : \A x \in s : SumOn(f)[s] = f[x] + SumOn(f)[s \ {x}]
<1> DEFINE D == DOMAIN f
           T == {n \in Nat : \A s \in SUBSET D : Cardinality(s) = n =>
                                \A x \in s : SumOn(f)[s] = f[x] + SumOn(f)[s \ {x}]}
<1>1. \A s \in SUBSET D : IsFiniteSet(s) /\ Cardinality(s) \in Nat
  BY FS_Subset, FS_CardinalityType
<1>2. \A s \in SUBSET D : \A x \in s :
         x \in D /\ s \ {x} \in SUBSET D /\ Cardinality(s \ {x}) = Cardinality(s) - 1
  BY <1>1, FS_RemoveElement
<1>3. \A s \in SUBSET D : s # {} => SumOn(f)[s] = f[Pick(s)] + SumOn(f)[s \ {Pick(s)}]
  BY SumEquation
<1>4. 0 \in T
  BY <1>1, FS_EmptySet
<1>5. ASSUME NEW n \in Nat, n \in T PROVE n + 1 \in T
  <2> SUFFICES ASSUME NEW s \in SUBSET D, Cardinality(s) = n + 1, NEW x \in s
               PROVE  SumOn(f)[s] = f[x] + SumOn(f)[s \ {x}]
    OBVIOUS
  <2> DEFINE p == Pick(s)
  <2>1. p \in s /\ SumOn(f)[s] = f[p] + SumOn(f)[s \ {p}]
    BY <1>3, PickIsIn
  <2> HIDE DEF p
  <2>2. CASE x = p
    BY <2>1, <2>2
  <2>3. CASE x # p
    <3>1. s \ {p} \in SUBSET D /\ s \ {x} \in SUBSET D /\ x \in s \ {p} /\ p \in s \ {x}
      BY <2>1, <2>3
    <3>2. Cardinality(s \ {p}) = n /\ Cardinality(s \ {x}) = n
      BY <1>2, <2>1
    <3>3. SumOn(f)[s \ {p}] = f[x] + SumOn(f)[(s \ {p}) \ {x}]
      BY <1>5, <3>1, <3>2
    <3>4. SumOn(f)[s \ {x}] = f[p] + SumOn(f)[(s \ {x}) \ {p}]
      BY <1>5, <3>1, <3>2
    <3>5. (s \ {p}) \ {x} = (s \ {x}) \ {p} /\ (s \ {x}) \ {p} \in SUBSET D
      OBVIOUS
    <3>6. f[x] \in Nat /\ f[p] \in Nat /\ SumOn(f)[(s \ {x}) \ {p}] \in Nat
      BY <2>1, <3>5, SumTyped
    <3> QED
      BY <2>1, <3>3, <3>4, <3>5, <3>6
  <2> QED
    BY <2>2, <2>3
<1> HIDE DEF T
<1>6. Nat \subseteq T
  BY <1>4, <1>5, SetInduction
<1> QED
  BY <1>1, <1>6 DEF T

(* Where two functions agree, so do their sums.                            *)
LEMMA SumsAgree ==
    ASSUME NEW f, NEW g, DOMAIN f = DOMAIN g, IsFiniteSet(DOMAIN f)
    PROVE  \A s \in SUBSET DOMAIN f : (\A x \in s : f[x] = g[x]) => SumOn(f)[s] = SumOn(g)[s]
<1> DEFINE D == DOMAIN f
           T == {n \in Nat : \A s \in SUBSET D :
                    Cardinality(s) = n /\ (\A x \in s : f[x] = g[x]) => SumOn(f)[s] = SumOn(g)[s]}
<1>1. \A s \in SUBSET D : IsFiniteSet(s) /\ Cardinality(s) \in Nat
  BY FS_Subset, FS_CardinalityType
<1>2. \A s \in SUBSET D : s # {} =>
         /\ Pick(s) \in s
         /\ s \ {Pick(s)} \in SUBSET D /\ Cardinality(s \ {Pick(s)}) = Cardinality(s) - 1
  BY <1>1, PickIsIn, FS_RemoveElement
<1>3. \A s \in SUBSET D :
         SumOn(f)[s] = IF s = {} THEN 0 ELSE f[Pick(s)] + SumOn(f)[s \ {Pick(s)}]
  BY SumEquation
<1>4. \A s \in SUBSET D :
         SumOn(g)[s] = IF s = {} THEN 0 ELSE g[Pick(s)] + SumOn(g)[s \ {Pick(s)}]
  BY SumEquation
<1>5. 0 \in T
  BY <1>1, <1>3, <1>4, FS_EmptySet
<1>6. ASSUME NEW n \in Nat, n \in T PROVE n + 1 \in T
  <2> SUFFICES ASSUME NEW s \in SUBSET D, Cardinality(s) = n + 1, \A x \in s : f[x] = g[x]
               PROVE  SumOn(f)[s] = SumOn(g)[s]
    OBVIOUS
  <2>1. s # {}
    BY FS_EmptySet
  <2>2. SumOn(f)[s \ {Pick(s)}] = SumOn(g)[s \ {Pick(s)}]
    BY <1>2, <1>6, <2>1
  <2> QED
    BY <1>2, <1>3, <1>4, <2>1, <2>2
<1> HIDE DEF T
<1>7. Nat \subseteq T
  BY <1>5, <1>6, SetInduction
<1> QED
  BY <1>1, <1>7 DEF T

(* One value replaced by another changes the sum by the difference.        *)
LEMMA SumExcept ==
    ASSUME NEW f, IsFiniteSet(DOMAIN f), \A x \in DOMAIN f : f[x] \in Nat,
           NEW a \in DOMAIN f, NEW v \in Nat
    PROVE  /\ SumFunction(f) \in Nat
           /\ SumFunction([f EXCEPT ![a] = v]) = SumFunction(f) - f[a] + v
<1> DEFINE D == DOMAIN f
           g == [f EXCEPT ![a] = v]
<1>1. DOMAIN g = D /\ \A x \in D : g[x] = IF x = a THEN v ELSE f[x]
  OBVIOUS
<1> HIDE DEF g
<1>2. D \in SUBSET D /\ D \ {a} \in SUBSET D
  OBVIOUS
<1>3. SumFunction(f) = SumOn(f)[D] /\ SumFunction(g) = SumOn(g)[D]
  BY <1>1, SumIsSumOn
<1>4. SumOn(f)[D] = f[a] + SumOn(f)[D \ {a}]
  BY <1>2, SumTakesOut
<1>5. SumOn(g)[D] = g[a] + SumOn(g)[D \ {a}]
  BY <1>1, <1>2, SumTakesOut
<1>6. SumOn(f)[D \ {a}] = SumOn(g)[D \ {a}]
  BY <1>1, <1>2, SumsAgree
<1>7. SumOn(f)[D \ {a}] \in Nat /\ f[a] \in Nat /\ g[a] = v
  BY <1>1, <1>2, SumTyped
<1>8. SumFunction(g) = SumFunction(f) - f[a] + v /\ SumFunction(f) \in Nat
  BY <1>3, <1>4, <1>5, <1>6, <1>7
<1> QED
  BY <1>8 DEF g

-----------------------------------------------------------------------------
(* The counter stands below the evictions of all time, and a pass of the   *)
(* collector has neither a minute nor a value of the future.               *)
Ordered ==
    /\ counter <= evicted /\ collector.minute <= clock /\ collector.value <= MaxEvicted
    /\ baseline \in None .. MaxEvicted

(* A bucket that is there holds a delta that was stored for its minute.    *)
Stored ==
    \A m \in 0 .. MaxTime : buckets[m] # NoBucket =>
        [delta |-> buckets[m].delta, reset |-> buckets[m].reset] \in deltas[m]

(* What the deltas and the evictions still to be counted add up to: from   *)
(* the baseline to the counter, by way of a value that is being stored.    *)
Grown(from, to) == IF from # None /\ to > from THEN to - from ELSE 0

Uncounted ==
    IF collector.at = "upsert"
    THEN Grown(baseline, collector.value) + Grown(collector.value, counter)
    ELSE Grown(baseline, counter)

DeltasFit == Evictions + Uncounted <= evicted

EvictionsRule == "redis_evictions"

(* An episode that may fire again has a quiet minute behind it.            *)
QuietSinceLast ==
    EvictionsRule \in Rule =>
        LET fired == alerts[EvictionsRule] IN
        ~breaches[EvictionsRule].fired /\ Len(fired) > 0 =>
            \E m \in fired[Len(fired)] - 1 .. clock - 1 : Quiet(m)

AlertsArePast == \A r \in Rule : \A k \in DOMAIN alerts[r] : alerts[r][k] <= clock

(* An episode of the evictions rule began with a minute above the threshold. *)
StartIsHeavy ==
    EvictionsRule \in Rule =>
        LET start == breaches[EvictionsRule].start IN
        start # None => start <= clock /\ Heavy(start - 1)

AlertsInv ==
    /\ AlertsTypeOK /\ Ordered /\ Stored /\ DeltasFit
    /\ AlertsArePast /\ QuietSinceLast /\ StartIsHeavy
    /\ OneAlertPerEpisode /\ SustainedBeforeAlert

-----------------------------------------------------------------------------
(* metricDelta is a number of evictions, never more than the counter grew  *)
(* by since the baseline.                                                  *)
LEMMA DeltaIsGrowth ==
    ASSUME AlertAssumption, AlertsTypeOK, Ordered, NEW value \in 0 .. MaxEvicted
    PROVE  /\ metricDelta(value) \in [delta : 0 .. MaxEvicted, reset : BOOLEAN]
           /\ metricDelta(value).delta = Grown(baseline, value)
<1>1. baseline \in Int /\ (baseline = -1 \/ baseline \in 0 .. MaxEvicted) /\ MaxEvicted \in Nat
  BY DEF AlertAssumption, Ordered, None
<1>2. CASE baseline = None
  BY <1>1, <1>2 DEF metricDelta, Grown
<1>3. CASE baseline # None /\ value < baseline
  BY <1>1, <1>3 DEF metricDelta, Grown
<1>4. CASE baseline # None /\ ~(value < baseline)
  <2>1. metricDelta(value) = [delta |-> value - baseline, reset |-> FALSE]
    BY <1>4 DEF metricDelta
  <2>2. value - baseline \in 0 .. MaxEvicted /\ value - baseline = Grown(baseline, value)
    BY <1>1, <1>4 DEF Grown, None
  <2> QED
    BY <2>1, <2>2
<1> QED
  BY <1>2, <1>3, <1>4

(* The initial state has the types.                                        *)
LEMMA AlertsTypeInit == AlertAssumption /\ AlertsInit => AlertsTypeOK
BY DEF AlertAssumption, AlertsInit, AlertsTypeOK, Idle, None, NoBucket, NoBreach

(* Every step keeps the types; that the minutes a pass writes are minutes  *)
(* of the table, and that the counter stays within its bound, needs        *)
(* Ordered.                                                                *)
LEMMA AlertsTypeStep ==
    AlertAssumption /\ AlertsTypeOK /\ Ordered /\ [AlertsNext]_alertsVars => AlertsTypeOK'
<1> SUFFICES ASSUME AlertAssumption, AlertsTypeOK, Ordered, [AlertsNext]_alertsVars PROVE AlertsTypeOK'
  OBVIOUS
<1> USE DEF AlertAssumption
<1>1. CASE Snapshot
  <2>1. passes' \in 0 .. PerMinute
    BY <1>1 DEF AlertsTypeOK, Snapshot
  <2>2. collector' \in [at : {"idle", "upsert", "record"}, minute : Nat, value : Nat]
    BY <1>1 DEF AlertsTypeOK, Snapshot
  <2>3. success' \in Int /\ failures' \in 0 .. MaxFailures
    BY <1>1 DEF AlertsTypeOK, Snapshot, Failure, NoFailure, None
  <2>4. UNCHANGED <<clock, cpu, counter, evicted, changes, baseline, buckets, deltas,
                    latest, todo, breaches, alerts>>
    BY <1>1 DEF Snapshot, world, sampler
  <2> QED
    BY <2>1, <2>2, <2>3, <2>4 DEF AlertsTypeOK
<1>2. CASE UpsertRedis
  <2>1. metricDelta(collector.value) \in [delta : 0 .. MaxEvicted, reset : BOOLEAN]
    BY DeltaIsGrowth DEF AlertsTypeOK, Ordered
  <2>2. \/ UNCHANGED <<buckets, deltas>>
        \/ Replace(collector.minute, collector.value, metricDelta(collector.value))
    BY <1>2 DEF UpsertRedis
  <2>3. buckets' \in [0 .. MaxTime -> [value : Nat, delta : Int, reset : BOOLEAN]]
    <3> DEFINE change == metricDelta(collector.value)
               bucket == [value |-> collector.value, delta |-> change.delta,
                          reset |-> change.reset]
    <3>1. change.delta \in Int /\ change.reset \in BOOLEAN /\ collector.value \in Nat
      BY <2>1 DEF AlertsTypeOK
    <3>2. bucket \in [value : Nat, delta : Int, reset : BOOLEAN]
      BY <3>1
    <3>3. buckets \in [0 .. MaxTime -> [value : Nat, delta : Int, reset : BOOLEAN]]
      BY DEF AlertsTypeOK
    <3>4. buckets' = buckets \/ buckets' = [buckets EXCEPT ![collector.minute] = bucket]
      BY <2>2 DEF Replace
    <3> HIDE DEF bucket
    <3> QED
      BY <3>2, <3>3, <3>4
  <2>4. deltas' \in [0 .. MaxTime -> SUBSET [delta : 0 .. MaxEvicted, reset : BOOLEAN]]
    <3>1. deltas \in [0 .. MaxTime -> SUBSET [delta : 0 .. MaxEvicted, reset : BOOLEAN]]
      BY DEF AlertsTypeOK
    <3>2. \/ deltas' = deltas
          \/ deltas' = [deltas EXCEPT ![collector.minute] = @ \cup {metricDelta(collector.value)}]
      BY <2>2 DEF Replace
    <3> QED
      BY <2>1, <3>1, <3>2
  <2>5. collector' \in [at : {"idle", "upsert", "record"}, minute : Nat, value : Nat]
    <3>1. \/ collector' = [at |-> "idle", minute |-> 0, value |-> 0]
          \/ collector' = [collector EXCEPT !.at = "record"]
      BY <1>2 DEF UpsertRedis, Idle
    <3>2. collector \in [at : {"idle", "upsert", "record"}, minute : Nat, value : Nat]
      BY DEF AlertsTypeOK
    <3> QED
      BY <3>1, <3>2
  <2>6. baseline' \in Int /\ success' \in Int /\ failures' \in 0 .. MaxFailures
    <3>1. /\ baseline \in Int /\ success \in Int /\ failures \in 0 .. MaxFailures
          /\ collector.value \in Nat
      BY DEF AlertsTypeOK
    <3>2. /\ baseline' \in {baseline, collector.value} /\ success' \in {success, None}
          /\ Failure \/ NoFailure
      BY <1>2 DEF UpsertRedis
    <3> QED
      BY <3>1, <3>2 DEF Failure, NoFailure, None
  <2>7. UNCHANGED <<clock, cpu, counter, evicted, changes, passes, latest, todo, breaches, alerts>>
    BY <1>2 DEF UpsertRedis, world, sampler
  <2> QED
    BY <2>3, <2>4, <2>5, <2>6, <2>7 DEF AlertsTypeOK
<1>3. CASE RecordSuccess
  BY <1>3 DEF AlertsTypeOK, RecordSuccess, Idle, Failure, NoFailure, world, sampler
<1>4. CASE Sample
  BY <1>4 DEF AlertsTypeOK, Sample, Failure, NoFailure, world, redis
<1>5. ASSUME NEW r \in Rule, Evaluate(r) PROVE AlertsTypeOK'
  <2>1. UNCHANGED <<clock, world, redis, latest>> /\ todo' \subseteq Rule
    BY <1>5 DEF AlertsTypeOK, Evaluate
  <2>2. failures' \in 0 .. MaxFailures
    BY <1>5 DEF AlertsTypeOK, Evaluate, Breaching, Recovered, Failure, NoFailure
  <2>3. breaches' \in [Rule -> [start : Int, fired : BOOLEAN]]
    <3> DEFINE Breach == [start : Int, fired : BOOLEAN]
               start == IF breaches[r].start = None THEN clock ELSE breaches[r].start
               due   == ~breaches[r].fired /\ clock - start >= Duration
    <3>1. breaches \in [Rule -> Breach] /\ clock \in Int
      BY DEF AlertsTypeOK
    <3>2. [start |-> start, fired |-> breaches[r].fired \/ due] \in Breach /\ NoBreach \in Breach
      BY <3>1 DEF NoBreach, None
    <3>3. \/ breaches' = breaches \/ breaches' = [breaches EXCEPT ![r] = NoBreach]
          \/ breaches' = [breaches EXCEPT ![r] =
                             [start |-> start, fired |-> breaches[r].fired \/ due]]
      BY <1>5, <3>1 DEF Evaluate, Breaching, Recovered
    <3> HIDE DEF Breach, start, due
    <3>4. breaches' \in [Rule -> Breach]
      BY <3>1, <3>2, <3>3
    <3> QED
      BY <3>4 DEF Breach
  <2>4. alerts' \in [Rule -> Seq(0 .. MaxTime)]
    <3>1. alerts \in [Rule -> Seq(0 .. MaxTime)] /\ clock \in 0 .. MaxTime
      BY DEF AlertsTypeOK
    <3>2. alerts' = alerts \/ alerts' = [alerts EXCEPT ![r] = Append(@, clock)]
      BY <1>5 DEF Evaluate, Breaching, Recovered
    <3>3. Append(alerts[r], clock) \in Seq(0 .. MaxTime)
      BY <3>1
    <3> QED
      BY <3>1, <3>2, <3>3
  <2> QED
    BY <2>1, <2>2, <2>3, <2>4 DEF AlertsTypeOK, world, redis
<1>6. CASE Tick
  BY <1>6 DEF AlertsTypeOK, Tick, world, sampler
<1>7. CASE Evict
  <2>1. /\ counter \in 0 .. MaxEvicted /\ evicted \in 0 .. MaxEvicted /\ counter <= evicted
        /\ evicted < MaxEvicted /\ counter' = counter + 1 /\ evicted' = evicted + 1
    BY <1>7 DEF AlertsTypeOK, Ordered, Evict
  <2>2. counter' \in 0 .. MaxEvicted /\ evicted' \in 0 .. MaxEvicted
    BY <2>1
  <2> QED
    BY <1>7, <2>2 DEF AlertsTypeOK, Evict, redis, sampler
<1>8. CASE ClearCounter
  BY <1>8 DEF AlertsTypeOK, ClearCounter, redis, sampler
<1>9. CASE ProcessRestart
  BY <1>9 DEF AlertsTypeOK, ProcessRestart, Failure, Idle, None, NoBreach, world
<1>10. ASSUME NEW c \in Container, NEW level \in {"low", "high", "none"}, Load(c, level)
       PROVE  AlertsTypeOK'
  BY <1>10 DEF AlertsTypeOK, Load, redis, sampler
<1>11. CASE UNCHANGED alertsVars
  BY <1>11 DEF AlertsTypeOK, alertsVars, world, redis, sampler
<1> QED
  BY <1>1, <1>2, <1>3, <1>4, <1>5, <1>6, <1>7, <1>8, <1>9, <1>10, <1>11
     DEF AlertsNext, collectRedis, Pass

-----------------------------------------------------------------------------
(* Every step keeps the order of the counters and of the minutes.          *)
LEMMA OrderedStep ==
    AlertAssumption /\ AlertsTypeOK /\ Ordered /\ [AlertsNext]_alertsVars => Ordered'
<1> SUFFICES ASSUME AlertAssumption, AlertsTypeOK, Ordered, [AlertsNext]_alertsVars PROVE Ordered'
  OBVIOUS
<1> USE DEF AlertAssumption
<1>1. CASE Snapshot
  BY <1>1 DEF AlertsTypeOK, Ordered, Snapshot, world
<1>2. CASE UpsertRedis
  <2>1. /\ collector.minute \in Nat /\ collector.value \in 0 .. MaxEvicted /\ clock \in Nat
        /\ baseline \in None .. MaxEvicted /\ counter <= evicted /\ collector.minute <= clock
        /\ collector \in [at : {"idle", "upsert", "record"}, minute : Nat, value : Nat]
    <3>1. /\ collector \in [at : {"idle", "upsert", "record"}, minute : Nat, value : Nat]
          /\ clock \in Nat
      BY DEF AlertsTypeOK
    <3>2. collector.minute \in Nat /\ collector.value \in Nat
      BY <3>1
    <3> QED
      BY <3>1, <3>2 DEF Ordered
  <2>2. /\ collector' = Idle \/ collector' = [collector EXCEPT !.at = "record"]
        /\ baseline' \in {baseline, collector.value}
        /\ clock' = clock /\ counter' = counter /\ evicted' = evicted
    BY <1>2 DEF UpsertRedis, world
  <2>3. collector'.minute \in {0, collector.minute} /\ collector'.value \in {0, collector.value}
    BY <2>1, <2>2 DEF Idle
  <2> QED
    BY <2>1, <2>2, <2>3 DEF Ordered, None
<1>3. CASE RecordSuccess
  BY <1>3 DEF AlertsTypeOK, Ordered, RecordSuccess, Idle, world
<1>4. CASE Pass
  BY <1>4 DEF Ordered, Pass, Sample, Evaluate, world, redis
<1>5. CASE Tick
  BY <1>5 DEF AlertsTypeOK, Ordered, Tick, world
<1>6. CASE Evict \/ ClearCounter
  <2>1. /\ counter' \in {0, counter + 1} /\ evicted' \in {evicted, evicted + 1}
        /\ counter' = counter + 1 => evicted' = evicted + 1
        /\ collector' = collector /\ baseline' = baseline /\ clock' = clock
    BY <1>6 DEF Evict, ClearCounter, redis, AlertsTypeOK
  <2>2. counter \in Nat /\ evicted \in Nat
    BY DEF AlertsTypeOK
  <2> QED
    BY <2>1, <2>2 DEF Ordered
<1>7. CASE ProcessRestart
  BY <1>7 DEF AlertsTypeOK, Ordered, ProcessRestart, Idle, None, world
<1>8. CASE \E c \in Container, level \in {"low", "high", "none"} : Load(c, level)
  BY <1>8 DEF Ordered, Load, redis
<1>9. CASE UNCHANGED alertsVars
  BY <1>9 DEF Ordered, alertsVars, world, redis
<1> QED
  BY <1>1, <1>2, <1>3, <1>4, <1>5, <1>6, <1>7, <1>8, <1>9 DEF AlertsNext, collectRedis

(* Only UpsertRedis writes buckets, and it only adds to what was stored.   *)
LEMMA OnlyUpsertStores ==
    [AlertsNext]_alertsVars => UpsertRedis \/ UNCHANGED <<buckets, deltas>>
BY DEF AlertsNext, collectRedis, Pass, Snapshot, RecordSuccess, Sample, Evaluate, Tick, Evict,
       ClearCounter, Load, ProcessRestart, alertsVars, redis

(* A bucket is replaced together with the note of its delta.               *)
LEMMA StoredStep ==
    AlertAssumption /\ AlertsTypeOK /\ Ordered /\ Stored /\ [AlertsNext]_alertsVars =>
        /\ Stored'
        /\ \A m \in 0 .. MaxTime : deltas[m] \subseteq deltas'[m]
<1> SUFFICES ASSUME AlertAssumption, AlertsTypeOK, Ordered, Stored, [AlertsNext]_alertsVars
             PROVE  Stored' /\ \A m \in 0 .. MaxTime : deltas[m] \subseteq deltas'[m]
  OBVIOUS
<1>1. CASE UNCHANGED <<buckets, deltas>>
  BY <1>1 DEF Stored
<1>2. CASE UpsertRedis /\ ~UNCHANGED <<buckets, deltas>>
  <2> DEFINE minute == collector.minute
             change == metricDelta(collector.value)
  <2>1. /\ buckets' = [buckets EXCEPT ![minute] =
                  [value |-> collector.value, delta |-> change.delta, reset |-> change.reset]]
        /\ deltas' = [deltas EXCEPT ![minute] = @ \cup {change}]
    BY <1>2 DEF UpsertRedis, Replace
  <2>2. minute \in 0 .. MaxTime /\ change \in [delta : 0 .. MaxEvicted, reset : BOOLEAN]
    BY DeltaIsGrowth DEF AlertsTypeOK, Ordered, AlertAssumption
  <2>3. change = [delta |-> change.delta, reset |-> change.reset]
    BY <2>2
  <2> HIDE DEF minute, change
  <2> QED
    BY <2>1, <2>2, <2>3 DEF Stored, AlertsTypeOK
<1> QED
  BY <1>1, <1>2, OnlyUpsertStores

(* The delta of a bucket that is there is a number of evictions.           *)
LEMMA StoredDelta ==
    ASSUME AlertAssumption, AlertsTypeOK, Stored, NEW m \in 0 .. MaxTime, buckets[m] # NoBucket
    PROVE  buckets[m].delta \in 0 .. MaxEvicted
<1>1. [delta |-> buckets[m].delta, reset |-> buckets[m].reset] \in deltas[m]
  BY DEF Stored
<1>2. deltas[m] \subseteq [delta : 0 .. MaxEvicted, reset : BOOLEAN]
  BY DEF AlertsTypeOK
<1> QED
  BY <1>1, <1>2

-----------------------------------------------------------------------------
(* The sum of the deltas: a bucket that is replaced takes its delta along. *)
Weight(bucket) == IF bucket = NoBucket THEN 0 ELSE bucket.delta
Weights(table) == [m \in 0 .. MaxTime |-> Weight(table[m])]

(* A bucket that is replaced adds at most its delta to the sum.            *)
LEMMA EvictionsOfReplaced ==
    ASSUME AlertAssumption, AlertsTypeOK, Stored, NEW m \in 0 .. MaxTime,
           NEW value, NEW delta \in Nat, NEW reset,
           buckets' = [buckets EXCEPT ![m] =
                          [value |-> value, delta |-> delta, reset |-> reset]]
    PROVE  Evictions \in Nat /\ Evictions' \in Nat /\ Evictions' <= Evictions + delta
<1> DEFINE bucket == [value |-> value, delta |-> delta, reset |-> reset]
<1>1. IsFiniteSet(0 .. MaxTime)
  BY FS_Interval DEF AlertAssumption
<1>2. \A k \in 0 .. MaxTime : Weights(buckets)[k] \in Nat
  BY StoredDelta DEF Weights, Weight, AlertAssumption
<1>3. Weight(bucket) = delta
  BY DEF Weight, NoBucket, None
<1>4. DOMAIN buckets = 0 .. MaxTime
  BY DEF AlertsTypeOK
<1>5. Weights(buckets') = [Weights(buckets) EXCEPT ![m] = delta]
  <2>1. \A k \in 0 .. MaxTime : buckets'[k] = IF k = m THEN bucket ELSE buckets[k]
    BY <1>4
  <2> HIDE DEF bucket
  <2>2. \A k \in 0 .. MaxTime : Weight(buckets'[k]) = IF k = m THEN delta ELSE Weight(buckets[k])
    BY <1>3, <2>1
  <2> QED
    BY <2>2 DEF Weights
<1>6. Evictions = SumFunction(Weights(buckets)) /\ Evictions' = SumFunction(Weights(buckets'))
  BY DEF Evictions, Weights, Weight
<1>7. DOMAIN Weights(buckets) = 0 .. MaxTime
  BY DEF Weights
<1>8. /\ SumFunction(Weights(buckets)) \in Nat
      /\ SumFunction([Weights(buckets) EXCEPT ![m] = delta])
           = SumFunction(Weights(buckets)) - Weights(buckets)[m] + delta
  BY <1>1, <1>2, <1>7, SumExcept
<1>9. Evictions' = Evictions - Weights(buckets)[m] + delta /\ Evictions \in Nat
  BY <1>5, <1>6, <1>8
<1>10. Evictions' \in Nat
  <2>1. DOMAIN Weights(buckets') = 0 .. MaxTime /\ \A k \in 0 .. MaxTime : Weights(buckets')[k] \in Nat
    BY <1>2, <1>5, <1>7
  <2>2. Weights(buckets')[m] \in Nat
    BY <2>1
  <2>3. SumFunction(Weights(buckets')) \in Nat
    BY <1>1, <2>1, <2>2, SumExcept
  <2> QED
    BY <1>6, <2>3
<1> QED
  BY <1>2, <1>9, <1>10

(* The sum of the deltas is a natural number.                              *)
LEMMA EvictionsTyped ==
    ASSUME AlertAssumption, AlertsTypeOK, Stored
    PROVE  Evictions \in Nat
<1>1. IsFiniteSet(0 .. MaxTime) /\ 0 \in 0 .. MaxTime
  BY FS_Interval DEF AlertAssumption
<1>2. \A k \in 0 .. MaxTime : Weights(buckets)[k] \in Nat
  BY StoredDelta DEF Weights, Weight, AlertAssumption
<1>3. DOMAIN Weights(buckets) = 0 .. MaxTime
  BY DEF Weights
<1>4. SumFunction(Weights(buckets)) \in Nat
  BY <1>1, <1>2, <1>3, SumExcept
<1> QED
  BY <1>4 DEF Evictions, Weights, Weight

(* What is stored moves from the evictions still to be counted into the    *)
(* deltas; a failure, a reset and a restart only lose some.                *)
LEMMA DeltasFitStep ==
    AlertAssumption /\ AlertsTypeOK /\ Ordered /\ Stored /\ DeltasFit /\ [AlertsNext]_alertsVars => DeltasFit'
<1> SUFFICES ASSUME AlertAssumption, AlertsTypeOK, Ordered, Stored, DeltasFit, [AlertsNext]_alertsVars
             PROVE  DeltasFit'
  OBVIOUS
<1> USE DEF AlertAssumption
<1>1. /\ counter \in Nat /\ evicted \in Nat /\ baseline \in None .. MaxEvicted
      /\ collector.value \in 0 .. MaxEvicted /\ Evictions \in Nat
  BY EvictionsTyped DEF AlertsTypeOK, Ordered
<1>2. buckets' = buckets => Evictions' = Evictions
  BY DEF Evictions
<1> USE DEF DeltasFit, Uncounted, Grown, None
<1>3. CASE Snapshot
  BY <1>1, <1>2, <1>3 DEF Snapshot, world
<1>4. CASE UpsertRedis
  <2>1. CASE buckets' = buckets /\ baseline' = baseline /\ collector' = Idle
    BY <1>1, <1>2, <1>4, <2>1 DEF UpsertRedis, Idle, world
  <2>2. CASE /\ Replace(collector.minute, collector.value, metricDelta(collector.value))
             /\ baseline' = collector.value /\ collector' = [collector EXCEPT !.at = "record"]
    <3> DEFINE delta == metricDelta(collector.value).delta
    <3>1. delta \in 0 .. MaxEvicted /\ delta = Grown(baseline, collector.value)
      BY <1>1, DeltaIsGrowth
    <3>2. collector.minute \in 0 .. MaxTime
      BY DEF AlertsTypeOK, Ordered
    <3>3. buckets' = [buckets EXCEPT ![collector.minute] =
              [value |-> collector.value, delta |-> delta,
               reset |-> metricDelta(collector.value).reset]]
      BY <2>2 DEF Replace
    <3> HIDE DEF delta
    <3>4. Evictions' \in Nat /\ Evictions' <= Evictions + delta
      <4>1. AlertAssumption /\ delta \in Nat
        BY <3>1
      <4> QED
        BY <3>2, <3>3, <4>1, EvictionsOfReplaced
    <3>5. collector'.at = "record" /\ counter' = counter /\ evicted' = evicted
      BY <1>4, <2>2 DEF UpsertRedis, world, AlertsTypeOK
    <3> QED
      BY <1>1, <1>4, <2>2, <3>1, <3>4, <3>5 DEF UpsertRedis
  <2> QED
    BY <1>4, <2>1, <2>2 DEF UpsertRedis
<1>5. CASE RecordSuccess
  BY <1>1, <1>2, <1>5 DEF RecordSuccess, Idle, world
<1>6. CASE Pass
  BY <1>1, <1>2, <1>6 DEF Pass, Sample, Evaluate, world, redis
<1>7. CASE Tick
  BY <1>1, <1>2, <1>7 DEF Tick, world
<1>8. CASE Evict
  BY <1>1, <1>2, <1>8 DEF Evict, redis
<1>9. CASE ClearCounter
  BY <1>1, <1>2, <1>9 DEF ClearCounter, redis
<1>10. CASE ProcessRestart
  BY <1>1, <1>2, <1>10 DEF ProcessRestart, Idle, world
<1>11. CASE \E c \in Container, level \in {"low", "high", "none"} : Load(c, level)
  BY <1>1, <1>2, <1>11 DEF Load, redis
<1>12. CASE UNCHANGED alertsVars
  BY <1>1, <1>2, <1>12 DEF alertsVars, world, redis
<1> QED
  BY <1>3, <1>4, <1>5, <1>6, <1>7, <1>8, <1>9, <1>10, <1>11, <1>12 DEF AlertsNext, collectRedis

-----------------------------------------------------------------------------
(* What the evictions rule found about the last completed minute.          *)
LEMMA EvictionsValue ==
    ASSUME AlertAssumption, AlertsTypeOK, Stored, AlertValue(EvictionsRule).available
    PROVE  /\ AlertValue(EvictionsRule).above  => Heavy(clock - 1)
           /\ ~AlertValue(EvictionsRule).above => Quiet(clock - 1)
<1> DEFINE bucket == buckets[clock - 1]
<1>1. /\ success # None /\ clock - success <= StaleAfter /\ clock > 0
      /\ bucket # NoBucket /\ ~bucket.reset
  BY DEF AlertValue, EvictionsRule
<1>2. AlertValue(EvictionsRule).above <=> bucket.delta > Threshold
  BY <1>1 DEF AlertValue, EvictionsRule
<1>3. clock - 1 \in 0 .. MaxTime /\ clock - 1 >= 0
  BY <1>1 DEF AlertsTypeOK
<1>4. /\ [delta |-> bucket.delta, reset |-> bucket.reset] \in deltas[clock - 1]
      /\ bucket.delta \in 0 .. MaxEvicted
  BY <1>1, <1>3, StoredDelta DEF Stored
<1> HIDE DEF bucket
<1> QED
  <2> DEFINE b == [delta |-> bucket.delta, reset |-> bucket.reset]
  <2>1. b \in deltas[clock - 1] /\ b.delta = bucket.delta /\ b.reset = bucket.reset
    BY <1>4
  <2>2. b.delta \in Int /\ Threshold \in Int
    BY <1>4, <2>1 DEF AlertAssumption
  <2> HIDE DEF b
  <2>3. AlertValue(EvictionsRule).above => Heavy(clock - 1)
    BY <1>2, <1>3, <2>1 DEF Heavy
  <2>4. ~AlertValue(EvictionsRule).above => Quiet(clock - 1)
    <3>1. ~AlertValue(EvictionsRule).above => b.delta <= Threshold
      BY <1>2, <2>1, <2>2
    <3>2. ~b.reset
      BY <1>1, <2>1, Zenon
    <3> QED
      BY <1>3, <2>1, <3>1, <3>2, Zenon DEF Quiet
  <2> QED
    BY <2>3, <2>4

(* A quiet or heavy minute stays one.                                      *)
LEMMA MinutesStay ==
    ASSUME AlertAssumption, AlertsTypeOK, Ordered, Stored, [AlertsNext]_alertsVars, NEW m \in Int, m <= MaxTime
    PROVE  (Quiet(m) => Quiet(m)') /\ (Heavy(m) => Heavy(m)')
<1>1. m >= 0 => deltas[m] \subseteq deltas'[m]
  BY StoredStep
<1> QED
  BY <1>1 DEF Quiet, Heavy

(* What a step of the whole system may do to the episode of the evictions  *)
(* rule: nothing, a restart, a start, an alert of a heavy minute, an end   *)
(* with a quiet one.                                                       *)
Announced ==
    /\ ~breaches[EvictionsRule].fired /\ Heavy(clock - 1)
    /\ LET start == IF breaches[EvictionsRule].start = None THEN clock
                    ELSE breaches[EvictionsRule].start IN
       /\ clock - start >= Duration
       /\ breaches'[EvictionsRule] = [start |-> start, fired |-> TRUE]
    /\ alerts'[EvictionsRule] = Append(alerts[EvictionsRule], clock)

Ended ==
    /\ Quiet(clock - 1) /\ breaches'[EvictionsRule] = NoBreach
    /\ alerts'[EvictionsRule] = alerts[EvictionsRule]

Remembered ==
    /\ Heavy(clock - 1)
    /\ breaches'[EvictionsRule] =
         [start |-> IF breaches[EvictionsRule].start = None THEN clock
                    ELSE breaches[EvictionsRule].start,
          fired |-> breaches[EvictionsRule].fired]
    /\ alerts'[EvictionsRule] = alerts[EvictionsRule]

Untouched ==
    /\ breaches'[EvictionsRule] = breaches[EvictionsRule]
    /\ alerts'[EvictionsRule] = alerts[EvictionsRule]

Forgotten == breaches'[EvictionsRule] = NoBreach /\ alerts'[EvictionsRule] = << >>

(* Every step of the system is one of these for the evictions rule.        *)
LEMMA EpisodeSteps ==
    ASSUME AlertAssumption, AlertsTypeOK, Stored, [AlertsNext]_alertsVars, EvictionsRule \in Rule
    PROVE  \/ Forgotten /\ clock' = clock
           \/ (Announced \/ Ended \/ Remembered) /\ clock' = clock
           \/ Untouched /\ clock' \in {clock, clock + 1}
<1>1. ASSUME NEW r \in Rule, Evaluate(r), r # EvictionsRule
      PROVE  Untouched /\ clock' = clock
  BY <1>1 DEF Evaluate, Breaching, Recovered, Untouched, AlertsTypeOK
<1>2. ASSUME Evaluate(EvictionsRule)
      PROVE  (Untouched \/ Announced \/ Ended \/ Remembered) /\ clock' = clock
  <2> DEFINE r == EvictionsRule
             start == IF breaches[r].start = None THEN clock ELSE breaches[r].start
             due == ~breaches[r].fired /\ clock - start >= Duration
  <2>1. clock' = clock
    BY <1>2 DEF Evaluate
  <2>2. CASE UNCHANGED <<breaches, alerts>>
    BY <2>1, <2>2 DEF Untouched
  <2>3. CASE AlertValue(r).available /\ ~AlertValue(r).above /\ Recovered(r)
    BY <2>1, <2>3, EvictionsValue DEF Recovered, Ended, AlertsTypeOK
  <2>4. CASE /\ AlertValue(r).available /\ AlertValue(r).above
             /\ breaches' = [breaches EXCEPT ![r] = [start |-> start, fired |-> @.fired \/ due]]
             /\ alerts' = IF due THEN [alerts EXCEPT ![r] = Append(@, clock)] ELSE alerts
    <3>1. Heavy(clock - 1)
      BY <2>4, EvictionsValue
    <3>2. breaches'[r] = [start |-> start, fired |-> breaches[r].fired \/ due]
      BY <2>4 DEF AlertsTypeOK
    <3>3. CASE due
      <4>1. alerts'[r] = Append(alerts[r], clock)
        BY <2>4, <3>3 DEF AlertsTypeOK
      <4> QED
        BY <2>1, <3>1, <3>2, <3>3, <4>1 DEF Announced
    <3>4. CASE ~due
      <4>1. (breaches[r].fired \/ due) = breaches[r].fired
        BY <3>4 DEF AlertsTypeOK
      <4> QED
        BY <2>1, <2>4, <3>1, <3>2, <3>4, <4>1 DEF Remembered
    <3> QED
      BY <3>3, <3>4
  <2> QED
    BY <1>2, <2>2, <2>3, <2>4 DEF Evaluate, Breaching
<1>3. CASE ProcessRestart
  BY <1>3 DEF ProcessRestart, Forgotten
<1>4. CASE Tick
  BY <1>4 DEF Tick, Untouched, sampler
<1>5. CASE collectRedis
  BY <1>5 DEF collectRedis, Snapshot, UpsertRedis, RecordSuccess, Untouched, sampler
<1>6. CASE Sample \/ Evict \/ ClearCounter
  BY <1>6 DEF Sample, Evict, ClearCounter, Untouched, sampler
<1>7. CASE \E c \in Container, level \in {"low", "high", "none"} : Load(c, level)
  BY <1>7 DEF Load, Untouched, sampler
<1>8. CASE UNCHANGED alertsVars
  BY <1>8 DEF alertsVars, Untouched, sampler
<1> QED
  BY <1>1, <1>2, <1>3, <1>4, <1>5, <1>6, <1>7, <1>8 DEF AlertsNext, Pass

-----------------------------------------------------------------------------
(* An alert is stamped with the clock, which never goes back.              *)
LEMMA AlertsArePastStep ==
    AlertAssumption /\ AlertsTypeOK /\ AlertsArePast /\ [AlertsNext]_alertsVars => AlertsArePast'
<1> SUFFICES ASSUME AlertAssumption, AlertsTypeOK, AlertsArePast, [AlertsNext]_alertsVars
             PROVE  AlertsArePast'
  OBVIOUS
<1>1. clock' = clock \/ clock' = clock + 1
  BY DEF AlertsNext, collectRedis, Pass, Snapshot, UpsertRedis, RecordSuccess, Sample, Evaluate, Tick,
         Evict, ClearCounter, Load, ProcessRestart, alertsVars
<1>2. clock \in Int /\ alerts \in [Rule -> Seq(0 .. MaxTime)]
  BY DEF AlertsTypeOK
<1>3. CASE UNCHANGED alerts
  BY <1>1, <1>2, <1>3 DEF AlertsArePast
<1>4. ASSUME NEW r \in Rule, Evaluate(r), ~UNCHANGED alerts PROVE AlertsArePast'
  <2>1. alerts' = [alerts EXCEPT ![r] = Append(@, clock)] /\ clock' = clock
    BY <1>4 DEF Evaluate, Breaching, Recovered
  <2>2. ASSUME NEW q \in Rule, NEW k \in DOMAIN alerts'[q] PROVE alerts'[q][k] <= clock
    <3>1. CASE q # r
      BY <1>2, <2>1, <2>2, <3>1 DEF AlertsArePast
    <3>2. CASE q = r
      <4>1. alerts'[r] = Append(alerts[r], clock) /\ alerts[r] \in Seq(0 .. MaxTime)
        BY <1>2, <2>1
      <4>2. k \in 1 .. Len(alerts[r]) + 1
        BY <2>2, <3>2, <4>1
      <4> QED
        <5>1. CASE k \in 1 .. Len(alerts[r])
          BY <1>2, <3>2, <4>1, <5>1 DEF AlertsArePast
        <5>2. CASE k = Len(alerts[r]) + 1
          BY <1>2, <3>2, <4>1, <5>2
        <5> QED
          BY <4>1, <4>2, <5>1, <5>2
    <3> QED
      BY <3>1, <3>2
  <2> QED
    BY <2>1, <2>2 DEF AlertsArePast
<1>5. CASE ProcessRestart
  BY <1>5 DEF ProcessRestart, AlertsArePast
<1> QED
  BY <1>3, <1>4, <1>5
     DEF AlertsNext, collectRedis, Pass, Snapshot, UpsertRedis, RecordSuccess, Sample, Tick, Evict,
         ClearCounter, Load, alertsVars, sampler

(* The start of an episode stays heavy: it is set to the clock when the    *)
(* last minute was above the threshold, and kept or cleared after that.    *)
LEMMA StartIsHeavyStep ==
    AlertAssumption /\ AlertsTypeOK /\ Ordered /\ Stored /\ StartIsHeavy /\ [AlertsNext]_alertsVars =>
        StartIsHeavy'
<1> SUFFICES ASSUME AlertAssumption, AlertsTypeOK, Ordered, Stored, StartIsHeavy, [AlertsNext]_alertsVars,
                    EvictionsRule \in Rule,
                    breaches'[EvictionsRule].start # None
             PROVE  /\ breaches'[EvictionsRule].start <= clock'
                    /\ \E m \in Int : m = breaches'[EvictionsRule].start - 1 /\ Heavy(m)'
  BY DEF StartIsHeavy, Heavy
<1> DEFINE start  == breaches[EvictionsRule].start
           start1 == breaches'[EvictionsRule].start
<1>1. clock \in 0 .. MaxTime /\ start \in Int /\ MaxTime \in Nat
  BY DEF AlertsTypeOK, AlertAssumption
<1>2. start # None => start <= clock /\ Heavy(start - 1)
  BY DEF StartIsHeavy
<1>3. /\ clock' = clock \/ clock' = clock + 1
      /\ start1 = start \/ (start = None /\ start1 = clock /\ Heavy(clock - 1))
  <2>1. ~Forgotten /\ ~Ended
    BY DEF Forgotten, Ended, NoBreach
  <2>2. CASE Untouched /\ clock' \in {clock, clock + 1}
    BY <2>2 DEF Untouched
  <2>3. CASE (Announced \/ Remembered) /\ clock' = clock
    BY <2>3 DEF Announced, Remembered
  <2> QED
    BY <2>1, <2>2, <2>3, EpisodeSteps
<1>4. start1 \in Int /\ start1 <= clock /\ Heavy(start1 - 1)
  BY <1>1, <1>2, <1>3
<1>5. \E m \in Int : m = start1 - 1 /\ Heavy(m)'
  <2>1. PICK m \in Int : m = start1 - 1
    BY <1>4
  <2>2. m <= MaxTime /\ Heavy(m)
    BY <1>1, <1>4, <2>1
  <2> QED
    BY <2>1, <2>2, MinutesStay
<1> QED
  BY <1>1, <1>3, <1>4, <1>5

-----------------------------------------------------------------------------
(* A minute before now is one before any later time.                       *)
LEMMA LaterStillCovers ==
    \A first, now, later, last \in Int : now <= later /\ now <= last =>
        \A m \in first - 1 .. now - 1 : m \in first - 1 .. later - 1 /\ m \in Int /\ m <= last
OBVIOUS

(* An episode is over only in a quiet minute, after the alert.             *)
LEMMA QuietSinceLastStep ==
    /\ AlertAssumption /\ AlertsTypeOK /\ Ordered /\ Stored /\ AlertsArePast /\ QuietSinceLast
    /\ [AlertsNext]_alertsVars
    => QuietSinceLast'
<1> DEFINE fired  == alerts[EvictionsRule]
           fired1 == alerts'[EvictionsRule]
<1> SUFFICES ASSUME AlertAssumption, AlertsTypeOK, Ordered, Stored, AlertsArePast, QuietSinceLast,
                    [AlertsNext]_alertsVars, EvictionsRule \in Rule,
                    ~breaches'[EvictionsRule].fired, Len(fired1) > 0
             PROVE  \E m \in fired1[Len(fired1)] - 1 .. clock' - 1 : Quiet(m)'
  BY DEF QuietSinceLast, Quiet, EvictionsRule
<1>1. /\ clock \in 0 .. MaxTime /\ MaxTime \in Nat
      /\ fired \in Seq(0 .. MaxTime) /\ breaches[EvictionsRule].fired \in BOOLEAN
  BY DEF AlertsTypeOK, AlertAssumption
<1>2. fired1 = fired /\ clock' \in {clock, clock + 1}
  <2>1. ~Announced
    BY DEF Announced
  <2>2. ~Forgotten
    BY DEF Forgotten
  <2> QED
    BY <2>1, <2>2, EpisodeSteps DEF Untouched, Ended, Remembered
<1>3. fired[Len(fired)] \in 0 .. clock
  <2>1. Len(fired) \in 1 .. Len(fired) /\ Len(fired) \in DOMAIN fired
    BY <1>1, <1>2
  <2>2. fired[Len(fired)] <= clock
    BY <2>1 DEF AlertsArePast
  <2>3. fired[Len(fired)] \in 0 .. MaxTime
    <3> HIDE DEF fired
    <3> QED
      BY <1>1, <2>1
  <2> QED
    BY <1>1, <2>2, <2>3
<1>4. PICK m \in fired[Len(fired)] - 1 .. clock - 1 : Quiet(m)
  <2>1. CASE ~breaches[EvictionsRule].fired
    BY <1>2, <2>1 DEF QuietSinceLast
  <2>2. CASE breaches[EvictionsRule].fired
    <3>1. Ended
      BY <2>2, EpisodeSteps DEF Forgotten, Announced, Remembered, Untouched
    <3> QED
      BY <1>1, <1>3, <3>1 DEF Ended
  <2> QED
    BY <1>1, <2>1, <2>2
<1>5. m \in fired[Len(fired)] - 1 .. clock' - 1 /\ m \in Int /\ m <= MaxTime
  <2>1. clock \in Int /\ clock' \in Int /\ clock <= clock' /\ clock <= MaxTime /\ MaxTime \in Int
    BY <1>1, <1>2
  <2> DEFINE last == fired[Len(fired)]
  <2>2. last \in Int /\ m \in last - 1 .. clock - 1
    BY <1>3, <1>4
  <2> HIDE DEF last
  <2>3. m \in last - 1 .. clock' - 1 /\ m \in Int /\ m <= MaxTime
    BY <2>1, <2>2, LaterStillCovers, Zenon
  <2> QED
    BY <2>3 DEF last
<1>6. Quiet(m)'
  BY <1>4, <1>5, MinutesStay
<1> QED
  BY <1>2, <1>5, <1>6

(* The alerts that were there keep what lay between them; a new one finds  *)
(* the quiet minute that made its episode a new one.                       *)
LEMMA OneAlertStep ==
    /\ AlertAssumption /\ AlertsTypeOK /\ Ordered /\ Stored /\ AlertsArePast /\ QuietSinceLast
    /\ OneAlertPerEpisode /\ [AlertsNext]_alertsVars
    => OneAlertPerEpisode'
<1> DEFINE fired  == alerts[EvictionsRule]
           fired1 == alerts'[EvictionsRule]
<1> SUFFICES ASSUME AlertAssumption, AlertsTypeOK, Ordered, Stored, AlertsArePast, QuietSinceLast,
                    OneAlertPerEpisode, [AlertsNext]_alertsVars, EvictionsRule \in Rule,
                    NEW k \in 2 .. Len(fired1)
             PROVE  \E m \in fired1[k - 1] - 1 .. fired1[k] - 1 : Quiet(m)'
  BY DEF OneAlertPerEpisode, Fired, Quiet, EvictionsRule
<1>1. clock \in 0 .. MaxTime /\ MaxTime \in Nat /\ fired \in Seq(0 .. MaxTime)
  BY DEF AlertsTypeOK, AlertAssumption
<1>2. \A i \in 1 .. Len(fired) : fired[i] \in 0 .. clock
  BY <1>1 DEF AlertsArePast
<1>3. ~Forgotten
  BY DEF Forgotten
<1>4. CASE fired1 = fired
  <2>1. PICK m \in fired[k - 1] - 1 .. fired[k] - 1 : Quiet(m)
    BY <1>4 DEF OneAlertPerEpisode, Fired, EvictionsRule
  <2>2. k \in 1 .. Len(fired) /\ k - 1 \in 1 .. Len(fired)
    BY <1>1, <1>4
  <2>3. m \in Int /\ m <= MaxTime
    BY <1>1, <1>2, <2>2
  <2>4. Quiet(m)'
    BY <2>1, <2>3, MinutesStay
  <2> QED
    BY <1>4, <2>1, <2>4
<1>5. CASE Announced
  <2>1. fired1 = Append(fired, clock) /\ ~breaches[EvictionsRule].fired
    BY <1>5 DEF Announced
  <2>2. Len(fired1) = Len(fired) + 1 /\ Len(fired) \in Nat
    BY <1>1, <2>1
  <2>3. CASE k \in 2 .. Len(fired)
    <3>1. PICK m \in fired[k - 1] - 1 .. fired[k] - 1 : Quiet(m)
      BY <2>3 DEF OneAlertPerEpisode, Fired, EvictionsRule
    <3>2. k \in 1 .. Len(fired) /\ k - 1 \in 1 .. Len(fired)
      BY <2>2, <2>3
    <3>3. m \in Int /\ m <= MaxTime
      BY <1>1, <1>2, <3>2
    <3>4. Quiet(m)'
      BY <3>1, <3>3, MinutesStay
    <3>5. fired1[k] = fired[k] /\ fired1[k - 1] = fired[k - 1]
      BY <1>1, <2>1, <3>2
    <3> QED
      BY <3>1, <3>4, <3>5
  <2>4. CASE k = Len(fired) + 1
    <3>1. Len(fired) \in 1 .. Len(fired)
      BY <2>2, <2>4
    <3>2. PICK m \in fired[Len(fired)] - 1 .. clock - 1 : Quiet(m)
      BY <2>1, <3>1 DEF QuietSinceLast
    <3>3. m \in Int /\ m <= MaxTime
      BY <1>1, <1>2, <3>1
    <3>4. Quiet(m)'
      BY <3>2, <3>3, MinutesStay
    <3>5. fired1[k] = clock /\ fired1[k - 1] = fired[Len(fired)]
      BY <1>1, <2>1, <2>2, <2>4, <3>1
    <3> QED
      BY <3>2, <3>4, <3>5
  <2> QED
    BY <2>2, <2>3, <2>4
<1> QED
  BY <1>3, <1>4, <1>5, EpisodeSteps DEF Untouched, Ended, Remembered

(* An alert keeps its heavy minutes; a new one has the last minute and the *)
(* one before the start of its episode.                                    *)
LEMMA SustainedStep ==
    /\ AlertAssumption /\ AlertsTypeOK /\ Ordered /\ Stored /\ AlertsArePast /\ StartIsHeavy
    /\ SustainedBeforeAlert /\ [AlertsNext]_alertsVars
    => SustainedBeforeAlert'
<1> DEFINE fired  == alerts[EvictionsRule]
           fired1 == alerts'[EvictionsRule]
<1> SUFFICES ASSUME AlertAssumption, AlertsTypeOK, Ordered, Stored, AlertsArePast, StartIsHeavy,
                    SustainedBeforeAlert, [AlertsNext]_alertsVars, EvictionsRule \in Rule,
                    NEW k \in DOMAIN fired1
             PROVE  /\ \E m \in Int : m = fired1[k] - 1 /\ Heavy(m)'
                    /\ \E m \in 0 .. fired1[k] - 1 - Duration : Heavy(m)'
  BY DEF SustainedBeforeAlert, Fired, Heavy, EvictionsRule
<1>1. /\ clock \in 0 .. MaxTime /\ MaxTime \in Nat /\ fired \in Seq(0 .. MaxTime)
      /\ Duration \in Nat
  BY DEF AlertsTypeOK, AlertAssumption
<1>2. \A i \in 1 .. Len(fired) : fired[i] \in 0 .. clock
  BY <1>1 DEF AlertsArePast
<1>3. ~Forgotten
  BY DEF Forgotten
<1>4. ASSUME k \in 1 .. Len(fired), fired1[k] = fired[k]
      PROVE  /\ \E m \in Int : m = fired1[k] - 1 /\ Heavy(m)'
             /\ \E m \in 0 .. fired1[k] - 1 - Duration : Heavy(m)'
  <2>1. k \in DOMAIN fired /\ fired[k] \in 0 .. clock
    BY <1>1, <1>2, <1>4
  <2>2. Heavy(fired[k] - 1) /\ \E m \in 0 .. fired[k] - 1 - Duration : Heavy(m)
    BY <2>1 DEF SustainedBeforeAlert, Fired, EvictionsRule
  <2>3. PICK m \in 0 .. fired[k] - 1 - Duration : Heavy(m)
    BY <2>2
  <2>4. m \in Int /\ m <= MaxTime /\ fired[k] - 1 \in Int /\ fired[k] - 1 <= MaxTime
    BY <1>1, <2>1
  <2>5. Heavy(m)'
    BY <2>3, <2>4, MinutesStay
  <2>6. PICK n \in Int : n = fired[k] - 1
    BY <2>4
  <2>7. Heavy(n)'
    BY <2>2, <2>4, <2>6, MinutesStay
  <2> QED
    BY <1>4, <2>3, <2>5, <2>6, <2>7
<1>5. CASE fired1 = fired
  BY <1>1, <1>4, <1>5
<1>6. CASE Announced
  <2> DEFINE start == IF breaches[EvictionsRule].start = None THEN clock
                      ELSE breaches[EvictionsRule].start
  <2>1. /\ fired1 = Append(fired, clock) /\ Heavy(clock - 1) /\ clock - start >= Duration
        /\ Duration > 0
    BY <1>6 DEF Announced, AlertAssumption
  <2>2. Len(fired1) = Len(fired) + 1 /\ Len(fired) \in Nat /\ k \in 1 .. Len(fired1)
    BY <1>1, <2>1
  <2>3. CASE k \in 1 .. Len(fired)
    <3>1. fired1[k] = fired[k]
      BY <1>1, <2>1, <2>3
    <3> QED
      BY <1>4, <2>3, <3>1
  <2>4. CASE k = Len(fired) + 1
    <3>1. fired1[k] = clock
      BY <1>1, <2>1, <2>4
    <3>2. start \in Int /\ start <= clock /\ Heavy(start - 1)
      <4>1. breaches[EvictionsRule].start \in Int
        BY DEF AlertsTypeOK
      <4>2. CASE breaches[EvictionsRule].start = None
        BY <1>1, <2>1, <4>2
      <4>3. CASE breaches[EvictionsRule].start # None
        BY <4>1, <4>3 DEF StartIsHeavy
      <4> QED
        BY <4>2, <4>3
    <3> HIDE DEF start
    <3>3. PICK m \in Int : m = start - 1
      BY <3>2
    <3>4. m >= 0 /\ Heavy(m)
      BY <3>2, <3>3 DEF Heavy
    <3>5. m \in 0 .. clock - 1 - Duration /\ m <= MaxTime
      BY <1>1, <2>1, <3>2, <3>3, <3>4
    <3>6. PICK n \in Int : n = clock - 1
      BY <1>1
    <3>7. Heavy(m)' /\ Heavy(n)'
      BY <1>1, <2>1, <3>4, <3>5, <3>6, MinutesStay
    <3> QED
      BY <3>1, <3>5, <3>6, <3>7
  <2> QED
    BY <2>2, <2>3, <2>4
<1> QED
  BY <1>3, <1>5, <1>6, EpisodeSteps DEF Untouched, Ended, Remembered

-----------------------------------------------------------------------------
(* An empty table holds no deltas.                                         *)
LEMMA ZerosAddUpToZero ==
    ASSUME NEW f, IsFiniteSet(DOMAIN f), \A x \in DOMAIN f : f[x] = 0
    PROVE  SumFunction(f) = 0
<1> DEFINE D == DOMAIN f
           T == {n \in Nat : \A s \in SUBSET D : Cardinality(s) = n => SumOn(f)[s] = 0}
<1>1. \A s \in SUBSET D : IsFiniteSet(s) /\ Cardinality(s) \in Nat
  BY FS_Subset, FS_CardinalityType
<1>2. \A s \in SUBSET D : s # {} =>
         /\ Pick(s) \in D
         /\ s \ {Pick(s)} \in SUBSET D /\ Cardinality(s \ {Pick(s)}) = Cardinality(s) - 1
  BY <1>1, PickIsIn, FS_RemoveElement
<1>3. \A s \in SUBSET D :
         SumOn(f)[s] = IF s = {} THEN 0 ELSE f[Pick(s)] + SumOn(f)[s \ {Pick(s)}]
  BY SumEquation
<1>4. 0 \in T
  BY <1>1, <1>3, FS_EmptySet
<1>5. ASSUME NEW n \in Nat, n \in T PROVE n + 1 \in T
  <2> SUFFICES ASSUME NEW s \in SUBSET D, Cardinality(s) = n + 1
               PROVE  SumOn(f)[s] = 0
    OBVIOUS
  <2>1. s # {}
    BY FS_EmptySet
  <2>2. SumOn(f)[s \ {Pick(s)}] = 0 /\ f[Pick(s)] = 0
    BY <1>2, <1>5, <2>1
  <2> QED
    BY <1>3, <2>1, <2>2
<1> HIDE DEF T
<1>6. Nat \subseteq T
  BY <1>4, <1>5, SetInduction
<1>7. SumOn(f)[D] = 0
  BY <1>1, <1>6 DEF T
<1> QED
  BY <1>7, SumIsSumOn

(* The initial state satisfies the invariant.                              *)
LEMMA AlertsInvInit == AlertAssumption /\ AlertsInit => AlertsInv
<1> SUFFICES ASSUME AlertAssumption, AlertsInit PROVE AlertsInv
  OBVIOUS
<1>1. AlertsTypeOK
  BY AlertsTypeInit
<1>2. Ordered
  BY DEF AlertAssumption, AlertsInit, Ordered, Idle, None
<1>3. Stored
  BY DEF AlertsInit, Stored, NoBucket
<1>4. DeltasFit
  <2>1. IsFiniteSet(0 .. MaxTime)
    BY FS_Interval DEF AlertAssumption
  <2>2. \A m \in 0 .. MaxTime : buckets[m] = NoBucket
    BY DEF AlertsInit
  <2>3. DOMAIN Weights(buckets) = 0 .. MaxTime /\ \A m \in 0 .. MaxTime : Weights(buckets)[m] = 0
    BY <2>2 DEF Weights, Weight
  <2>4. SumFunction(Weights(buckets)) = 0
    BY <2>1, <2>3, ZerosAddUpToZero
  <2>5. Evictions = 0
    BY <2>4 DEF Evictions, Weights, Weight
  <2> QED
    BY <2>5 DEF AlertsInit, DeltasFit, Uncounted, Grown, Idle, None
<1>5. AlertsArePast /\ QuietSinceLast /\ StartIsHeavy
  BY DEF AlertsInit, AlertsArePast, QuietSinceLast, StartIsHeavy, NoBreach
<1>6. OneAlertPerEpisode /\ SustainedBeforeAlert
  BY DEF AlertsInit, OneAlertPerEpisode, SustainedBeforeAlert, Fired
<1> QED
  BY <1>1, <1>2, <1>3, <1>4, <1>5, <1>6 DEF AlertsInv

(* Every step keeps it.                                                    *)
LEMMA AlertsInvStep == AlertAssumption /\ AlertsInv /\ [AlertsNext]_alertsVars => AlertsInv'
BY AlertsTypeStep, OrderedStep, StoredStep, DeltasFitStep, AlertsArePastStep,
   QuietSinceLastStep, StartIsHeavyStep, OneAlertStep, SustainedStep
   DEF AlertsInv

(* So it holds for ever.                                                   *)
LEMMA AlertsInvariant == ASSUME AlertAssumption PROVE AlertsSpec => []AlertsInv
<1>1. AlertsInit => AlertsInv
  BY AlertsInvInit
<1>2. AlertsInv /\ [AlertsNext]_alertsVars => AlertsInv'
  BY AlertsInvStep
<1> QED
  BY <1>1, <1>2, PTL DEF AlertsSpec

(* The clock, the counters, the buckets, the episodes and the alerts keep  *)
(* their types: the collector never writes a minute outside its table.     *)
THEOREM AlertsTyped == ASSUME AlertAssumption PROVE AlertsSpec => []AlertsTypeOK
<1>1. AlertsInv => AlertsTypeOK
  BY DEF AlertsInv
<1> QED
  BY <1>1, AlertsInvariant, PTL

(* Between two alerts of the evictions rule lies a minute that showed that *)
(* the evictions had stopped, whatever the rules, passes, failures and     *)
(* restarts: evaluateThreshold, fire and AlertValue.                       *)
THEOREM AlertsTellEpisodesApart ==
    ASSUME AlertAssumption PROVE AlertsSpec => []OneAlertPerEpisode
<1>1. AlertsInv => OneAlertPerEpisode
  BY DEF AlertsInv
<1> QED
  BY <1>1, AlertsInvariant, PTL

(* An alert of the evictions rule has a heavy last minute and one that is  *)
(* older by the duration: the start of an episode in evaluateThreshold.    *)
THEOREM AlertsAreSustained ==
    ASSUME AlertAssumption PROVE AlertsSpec => []SustainedBeforeAlert
<1>1. AlertsInv => SustainedBeforeAlert
  BY DEF AlertsInv
<1> QED
  BY <1>1, AlertsInvariant, PTL

(* The deltas of all minutes never add up to more than redis evicted:      *)
(* metricDelta, UpsertRedis and the baseline of collectRedis.              *)
THEOREM DeltasNeverExceedEvictions ==
    ASSUME AlertAssumption PROVE AlertsSpec => []DeltasAreReal
<1>1. AlertAssumption /\ AlertsInv => DeltasAreReal
  <2> SUFFICES ASSUME AlertAssumption, AlertsInv PROVE DeltasAreReal
    OBVIOUS
  <2>1. Evictions \in Nat
    BY EvictionsTyped DEF AlertsInv
  <2>2. /\ counter \in Nat /\ evicted \in Nat /\ collector.value \in Nat
        /\ baseline \in Int /\ Evictions + Uncounted <= evicted
    BY DEF AlertsInv, AlertsTypeOK, DeltasFit
  <2>3. Uncounted \in Nat
    BY <2>2 DEF Uncounted, Grown
  <2> QED
    BY <2>1, <2>2, <2>3 DEF DeltasAreReal
<1> QED
  BY <1>1, AlertsInvariant, PTL
==============================================================================
