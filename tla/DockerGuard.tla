------------------------------ MODULE DockerGuard ------------------------------
(***************************************************************************)
(* The guard before the Docker daemon (internal/docker/guard.go): one-shot *)
(* calls share a few permits, and enough failures within a cooldown pause  *)
(* all of them for a cooldown.  Times are relative: the age of the failure *)
(* window and the rest of the pause, so that the clock needs no bound.     *)
(***************************************************************************)
EXTENDS Integers, Sequences, FiniteSets, FiniteSetsExt

CONSTANTS Caller,         \* goroutines that call docker: loops and handlers
          MaxConcurrent,  \* permits
          FailureLimit,   \* failures of a window that open the guard
          Cooldown,       \* length of the window and of the pause, in ticks
          MaxFailures     \* bound: calls that fail

ASSUME GuardAssumption ==
    /\ IsFiniteSet(Caller) /\ MaxConcurrent \in Nat \ {0}
    /\ FailureLimit \in Nat \ {0, 1} /\ Cooldown \in Nat \ {0} /\ MaxFailures \in Nat

VARIABLES
    at,        \* per caller: where its docker call is
    permits,   \* len(g.permits)
    failures,  \* g.failures
    window,    \* age of g.failureWindowStart, None when zero
    pause,     \* what is left until g.openUntil, None when zero
    failed,    \* failures so far, for the bound
    ages       \* history: the age of each failure recorded, the oldest first

breaker == <<failures, window, pause>>
guard   == <<at, permits, breaker, failed, ages>>

None == -1
Age  == 0 .. Cooldown

\* idle: between calls; queue: past the first check; held: has a permit;
\* calling: past the second check; release: recorded; back: returned
Place == {"off", "idle", "queue", "held", "calling", "release", "back"}

GuardTypeOK ==
    /\ at \in [Caller -> Place] /\ permits \in Nat
    /\ failures \in Nat /\ window \in {None} \cup Age /\ pause \in {None} \cup Age
    /\ failed \in 0 .. MaxFailures /\ ages \in Seq(Age)

GuardInit ==
    /\ at = [c \in Caller |-> "off"] /\ permits = 0
    /\ failures = 0 /\ window = None /\ pause = None
    /\ failed = 0 /\ ages = << >>

Go(c, from, to) == at[c] = from /\ at' = [at EXCEPT ![c] = to]

-----------------------------------------------------------------------------
(* isOpen under the mutex: a pause that is over, or a window that is, is   *)
(* forgotten with its failures.                                            *)
Open    == pause # None /\ pause > 0
Expired == pause = 0 \/ (pause = None /\ window = Cooldown)

CheckClosed ==
    /\ ~Open
    /\ IF Expired THEN failures' = 0 /\ window' = None /\ pause' = None
                  ELSE UNCHANGED breaker

(* acquire: refused while open; else wait for a permit.                    *)
Acquire(c) ==
    /\ Go(c, "idle", "queue") /\ CheckClosed
    /\ UNCHANGED <<permits, failed, ages>>

Permit(c) ==
    /\ Go(c, "queue", "held") /\ permits < MaxConcurrent /\ permits' = permits + 1
    /\ UNCHANGED <<breaker, failed, ages>>

(* Faulty variants of the second check: not made, and its refusal keeps    *)
(* the permit.                                                             *)
Recheck_Skipped(c) ==
    /\ Go(c, "held", "calling") /\ UNCHANGED <<permits, breaker, failed, ages>>

Recheck_Leaks(c) ==
    /\ UNCHANGED <<permits, failed, ages>>
    /\ \/ Go(c, "held", "calling") /\ CheckClosed
       \/ Go(c, "held", "back") /\ Open /\ UNCHANGED breaker

(* The check after the wait: the guard may have opened meanwhile.          *)
Recheck(c) ==
    /\ UNCHANGED <<failed, ages>>
    /\ \/ Go(c, "held", "calling") /\ CheckClosed /\ UNCHANGED permits
       \/ Go(c, "held", "back") /\ Open /\ permits' = permits - 1 /\ UNCHANGED breaker

(* record: a failure opens a window of its own if there is none or the     *)
(* last one is over; the guard opens, or stays open longer, at the limit.  *)
Fail ==
    LET anew  == window = None \/ window = Cooldown
        count == IF anew THEN 1 ELSE failures + 1
    IN /\ failures' = count
       /\ window' = IF anew THEN 0 ELSE window
       /\ pause' = IF count >= FailureLimit THEN Cooldown ELSE pause
       /\ ages' = Append(ages, 0)

Succeed(c) ==
    /\ Go(c, "calling", "release") /\ UNCHANGED <<permits, breaker, failed, ages>>

Failure(c) ==
    /\ Go(c, "calling", "release") /\ failed < MaxFailures /\ failed' = failed + 1
    /\ Fail /\ UNCHANGED permits

(* The caller's context is cancelled: the wait for a permit ends, and the  *)
(* failure of a call under way is not recorded.                            *)
Cancel(c) ==
    /\ Go(c, "queue", "back") \/ Go(c, "calling", "release")
    /\ UNCHANGED <<permits, breaker, failed, ages>>

Release(c) ==
    /\ Go(c, "release", "back") /\ permits' = permits - 1
    /\ UNCHANGED <<breaker, failed, ages>>

Later(a) == IF a # None /\ a < Cooldown THEN a + 1 ELSE a

GuardTick ==
    /\ window' = Later(window)
    /\ pause' = IF pause \in {None, 0} THEN pause ELSE pause - 1
    /\ ages' = [k \in DOMAIN ages |-> Later(ages[k])]
    /\ UNCHANGED <<at, permits, failures, failed>>

-----------------------------------------------------------------------------
Holders == {c \in Caller : at[c] \in {"held", "calling", "release"}}

(* A permit is given back on every way out of a call, refusals after the   *)
(* wait and cancellations included, and never twice: the permits in use    *)
(* are those of the calls under way, at most MaxConcurrent.                *)
PermitsBalance ==
    /\ permits = Cardinality(Holders) /\ permits <= MaxConcurrent

(* The daemon sees a bounded burst.  In any stretch as long as the cooldown *)
(* lie at most: what is left of a window that was not full, or of the calls *)
(* that outlived a pause; a window that filled; and the calls under way     *)
(* when it did.                                                             *)
Before == Max({FailureLimit - 2, MaxConcurrent - 1})
Burst  == Before + FailureLimit + MaxConcurrent - 1

BurstBounded ==
    \A k \in DOMAIN ages : k + Burst <= Len(ages) => ages[k] = Cooldown
=============================================================================
