-------------------------------- MODULE Server --------------------------------
(***************************************************************************)
(* The life of the process (cmd/touchgrass/main.go): it opens the database *)
(* and migrates it, perhaps while `touchgrass migrate up` does the same,   *)
(* starts the background loops and the HTTP server, and on a signal drains *)
(* the handlers, waits for the loops and closes the database.  Loops and   *)
(* handlers reach docker through one DockerGuard.                          *)
(***************************************************************************)
EXTENDS DockerGuard

CONSTANTS Loop,        \* background loops
          Handler,     \* HTTP handlers
          MaxVersion,  \* migrations are 1 .. MaxVersion
          MaxFaults    \* bound: failed migrations, boots and listens, crashes

ASSUME ServerAssumption ==
    /\ Caller = Loop \cup Handler /\ Loop \cap Handler = {}
    /\ MaxVersion \in Nat /\ MaxFaults \in Nat

VARIABLES
    stage,     \* where runServe is
    stopping,  \* its context is cancelled
    applied,   \* schema_migrations
    bodies,    \* history: how often the body of each migration took effect
    migrator,  \* per process that migrates: where it is
    todo,      \* ... and what is left of what it read as pending
    faults

database == <<applied, bodies>>
process  == <<stage, stopping>>
pending  == <<migrator, todo>>
vars == <<guard, process, database, pending, faults>>

Version  == 1 .. MaxVersion
Migrator == {"serve", "migrate up"}
Stage    == {"down", "migrate", "wire", "serve", "drain", "wait"}

TypeOK ==
    /\ GuardTypeOK
    /\ stage \in Stage /\ stopping \in BOOLEAN
    /\ applied \subseteq Version /\ bodies \in [Version -> Nat]
    /\ migrator \in [Migrator -> {"away", "read", "apply"}]
    /\ todo \in [Migrator -> SUBSET Version]
    /\ faults \in 0 .. MaxFaults

Init ==
    /\ GuardInit /\ stage = "down" /\ stopping = FALSE
    /\ applied = {} /\ bodies = [v \in Version |-> 0]
    /\ migrator = [p \in Migrator |-> "away"] /\ todo = [p \in Migrator |-> {}]
    /\ faults = 0

Fault == faults < MaxFaults /\ faults' = faults + 1
Fine  == UNCHANGED faults

-----------------------------------------------------------------------------
(* The process exits: what it kept in memory is gone.                      *)
Exit ==
    /\ stage' = "down" /\ stopping' = FALSE
    /\ permits' = 0 /\ failures' = 0 /\ window' = None /\ pause' = None
    /\ ages' = << >> /\ UNCHANGED failed

Put(p, place) == migrator' = [migrator EXCEPT ![p] = place]

(* runServe opens the database and the docker client.                      *)
Boot ==
    /\ stage = "down" /\ stage' = "migrate" /\ Put("serve", "read")
    /\ UNCHANGED <<guard, stopping, database, todo, faults>>

(* The subcommand is a process of its own on the same file.                *)
MigrateCommand ==
    /\ migrator["migrate up"] = "away" /\ Put("migrate up", "read")
    /\ UNCHANGED <<guard, process, database, todo, faults>>

(* A migrator ends with an error: serve exits.                             *)
GiveUp(p) ==
    /\ Put(p, "away") /\ todo' = [todo EXCEPT ![p] = {}]
    /\ IF p = "serve" THEN Exit /\ UNCHANGED at ELSE UNCHANGED <<guard, process>>

(* pending: the files without a row.                                       *)
ReadPending(p) ==
    /\ migrator[p] = "read" /\ Put(p, "apply")
    /\ todo' = [todo EXCEPT ![p] = Version \ applied]
    /\ UNCHANGED <<guard, process, database, faults>>

Done(p, v) ==
    /\ Fine /\ applied' = applied \cup {v} /\ bodies' = [bodies EXCEPT ![v] = @ + 1]
    /\ todo' = [todo EXCEPT ![p] = @ \ {v}] /\ UNCHANGED <<guard, process, migrator>>

(* Faulty variant: the body takes effect outside the transaction that      *)
(* records it.                                                             *)
Commit_Apart(p, v) ==
    \/ Done(p, v)
    \/ /\ Fault /\ GiveUp(p)
       /\ bodies' = [bodies EXCEPT ![v] = @ + 1] /\ UNCHANGED applied

(* The transaction of apply: the body and its row, or neither.             *)
Commit(p, v) ==
    \/ Done(p, v)
    \/ Fault /\ GiveUp(p) /\ UNCHANGED database

(* MigrateUp, the next pending version.  A body or a row that is already   *)
(* there is an error, as is a cancelled context.                           *)
Apply(p) ==
    /\ migrator[p] = "apply"
    /\ \E v \in todo[p] :
          /\ \A w \in todo[p] : v <= w
          /\ IF v \in applied \/ bodies[v] > 0 \/ (p = "serve" /\ stopping)
             THEN Fine /\ UNCHANGED database /\ GiveUp(p)
             ELSE Commit(p, v)

Migrated(p) ==
    /\ migrator[p] = "apply" /\ todo[p] = {} /\ Put(p, "away")
    /\ stage' = IF p = "serve" THEN "wire" ELSE stage
    /\ UNCHANGED <<guard, stopping, database, todo, faults>>

(* The rest of runServe up to server.Run: the admin account, the security  *)
(* activation and the event cursor can fail, and do under a cancelled      *)
(* context; then the loops start.                                          *)
Wire ==
    /\ stage = "wire" /\ UNCHANGED <<database, pending>>
    /\ \/ /\ Fine /\ stage' = "serve"
          /\ at' = [c \in Caller |-> IF c \in Loop THEN "idle" ELSE "off"]
          /\ UNCHANGED <<stopping, permits, breaker, failed, ages>>
       \/ stopping /\ Fine /\ Exit /\ UNCHANGED at
       \/ Fault /\ Exit /\ UNCHANGED at

Signal ==
    /\ stage # "down" /\ ~stopping /\ stopping' = TRUE
    /\ UNCHANGED <<guard, stage, database, pending, faults>>

-----------------------------------------------------------------------------
(* Loops start passes, handlers answer requests; each calls docker and     *)
(* then uses the database.                                                 *)
Elsewhere == UNCHANGED <<process, database, pending, faults>>

Request(h) ==
    /\ stage = "serve" /\ Go(h, "off", "idle")
    /\ UNCHANGED <<permits, breaker, failed, ages>> /\ Elsewhere

Calls(c) ==
    /\ Acquire(c) \/ Permit(c) \/ Recheck(c) \/ Succeed(c) \/ Failure(c) \/ Release(c)
    /\ Elsewhere

(* A loop's context is the server's, a handler's is its client's.          *)
Cancelled(c) == Cancel(c) /\ (c \in Loop => stopping) /\ Elsewhere

(* The end of a pass, of a refused one, or of a request.                   *)
Return(c) ==
    /\ \/ Go(c, "back", IF c \in Loop THEN "idle" ELSE "off")
       \/ c \in Handler /\ Open /\ Go(c, "idle", "off")
    /\ UNCHANGED <<permits, breaker, failed, ages>> /\ Elsewhere

(* The select of a loop: with its context done it returns.                 *)
LoopEnds(l) ==
    /\ stopping /\ Go(l, "idle", "off")
    /\ UNCHANGED <<permits, breaker, failed, ages>> /\ Elsewhere

-----------------------------------------------------------------------------
(* Server.Run: a listener that fails ends it at once, a signal drains it:  *)
(* Shutdown waits for the handlers, up to its timeout.  stop() follows.    *)
Listening ==
    /\ stage = "serve" /\ UNCHANGED <<guard, database, pending>>
    /\ \/ stopping /\ stage' = "drain" /\ Fine /\ UNCHANGED stopping
       \/ Fault /\ stage' = "wait" /\ stopping' = TRUE

Drain ==
    /\ stage = "drain" /\ stage' = "wait"   \* drained, or out of time
    /\ UNCHANGED <<guard, stopping, database, pending, faults>>

(* group.Wait, then the deferred closes; handlers that outlasted the drain *)
(* end with the process.                                                   *)
Close ==
    /\ stage = "wait" /\ \A l \in Loop : at[l] = "off"
    /\ Exit
    /\ at' = [c \in Caller |-> IF c \in Handler THEN "off" ELSE at[c]]
    /\ UNCHANGED <<database, pending, faults>>

(* Killed, at any place; the command too.                                  *)
Crash ==
    /\ Fault /\ UNCHANGED database
    /\ \/ /\ stage # "down" /\ Exit /\ at' = [c \in Caller |-> "off"]
          /\ Put("serve", "away") /\ todo' = [todo EXCEPT !["serve"] = {}]
       \/ migrator["migrate up"] # "away" /\ GiveUp("migrate up")

Tick == GuardTick /\ Elsewhere

Migrate(p) == ReadPending(p) \/ Apply(p) \/ Migrated(p)

Next ==
    \/ Boot \/ MigrateCommand \/ Wire \/ Signal \/ Listening \/ Drain \/ Close \/ Crash
    \/ Tick
    \/ \E p \in Migrator : Migrate(p)
    \/ \E h \in Handler : Request(h)
    \/ \E l \in Loop : LoopEnds(l)
    \/ \E c \in Caller : Calls(c) \/ Cancelled(c) \/ Return(c)

(* The supervisor starts the process again; loops tick; docker calls end,  *)
(* by their timeouts at the latest; the channel of permits is a queue; and *)
(* a select with two ready cases takes each of them in time.               *)
Fairness ==
    /\ WF_vars(Boot) /\ WF_vars(Wire) /\ WF_vars(Listening) /\ WF_vars(Drain)
    /\ WF_vars(Close) /\ WF_vars(Tick)
    /\ \A p \in Migrator : WF_vars(Migrate(p))
    /\ \A l \in Loop : SF_vars(LoopEnds(l)) /\ SF_vars(Acquire(l) /\ Elsewhere)
    /\ \A c \in Caller :
          /\ SF_vars(Permit(c) /\ Elsewhere)
          /\ WF_vars((Recheck(c) \/ Succeed(c) \/ Release(c)) /\ Elsewhere)
          /\ WF_vars(Return(c))

Spec == Init /\ [][Next]_vars /\ Fairness

-----------------------------------------------------------------------------
(* Migrations take effect in order and once each, with their row, however  *)
(* the server and the command race, fail and are killed; and nobody serves *)
(* or samples on a schema that is not complete.                            *)
InOrder == \E k \in 0 .. MaxVersion : applied = 1 .. k

MigratedOnce ==
    /\ InOrder
    /\ \A v \in Version : bodies[v] = IF v \in applied THEN 1 ELSE 0
    /\ (\E c \in Caller : at[c] # "off") => applied = Version

(* No background loop is alive when the process has closed the database.   *)
LoopsEndFirst == stage = "down" => \A l \in Loop : at[l] = "off"

(* A signal ends the process, whatever waits for a permit, for docker or   *)
(* in a handler; and unless it is told to stop for ever the server comes   *)
(* up again: nothing that a crash or a race of migrators leaves behind     *)
(* keeps it down.                                                          *)
ShutdownEnds == stopping ~> stage = "down"
ServerBoots  == <>[](~stopping) => []<>(stage = "serve")

ProcessCycles == ShutdownEnds /\ ServerBoots

(* While the process is up every loop gets through to docker again and     *)
(* again: pauses end, and no permit is lost on the way.                    *)
CallsGoOn ==
    \A l \in Loop :
        <>[](stage = "serve" /\ ~stopping) => []<>(at[l] = "calling")
=============================================================================
