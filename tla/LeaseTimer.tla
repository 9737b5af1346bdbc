------------------------------ MODULE LeaseTimer ------------------------------
(***************************************************************************)
(* The queue of CollectionQueue with the clock of its leases: what Claim   *)
(* and RenewLease write into lease_expires_at, and when renewLease         *)
(* (internal/collection/worker.go) renews it.                              *)
(*                                                                         *)
(* CollectionQueue lets a lease lapse under its worker as a fault.  Here   *)
(* it ends when its time is over, whoever holds it, and the question is    *)
(* for which leases, delays and lost renewals that never happens to a      *)
(* worker that is alive.                                                   *)
(*                                                                         *)
(* Time is counted in ticks.  What happens within one tick may happen in   *)
(* any order, so a lease with no tick left may end before or after         *)
(* whatever else happens in that tick.                                     *)
(***************************************************************************)
EXTENDS CollectionQueue, Integers

CONSTANTS
    Second,      \* ticks in a second
    Lease,       \* PARSER_WORKER_LEASE, in ticks
    Latency,     \* ticks from a claim to the start of its goroutine, and from
                 \* a tick of the goroutine to the row it renews, at most
    MaxMissed    \* renewals in a row that may fail

ASSUME TimerAssumption ==
    /\ Second \in Nat \ {0} /\ Lease \in Nat \ {0}
    /\ Latency \in Nat /\ MaxMissed \in Nat

\* lease_expires_at is set int(lease.Seconds()) whole seconds ahead of now().
Granted == (Lease \div Second) * Second

\* Mutant of Interval: half of the lease leaves no room for a failure.
HalfInterval == IF Lease \div 2 < Second THEN Second ELSE Lease \div 2

\* The period of renewLease's ticker.
Interval == IF Lease \div 3 < Second THEN Second ELSE Lease \div 3

\* The lease is long enough: MaxMissed renewals may fail and the next one,
\* like the claim before, may take its time.  Never so with a lease of a
\* second nor, but for rounding, with two renewals in a row that fail.
Timely == (MaxMissed + 1) * Interval + 2 * Latency < Granted

VARIABLES
    left,    \* ticks before lease_expires_at, 0 without a lease
    due,     \* ticks before the next tick of the renewing goroutine; while
             \* the goroutine is not yet started, minus the age of the claim
    missed   \* renewals that failed since the last one that succeeded

timers == <<left, due, missed>>
timedVars == <<vars, timers>>

TimedTypeOK ==
    /\ left \in [Jobs -> 0..Granted]
    /\ due \in [Workers -> (-Latency)..Interval]
    /\ missed \in [Workers -> 0..MaxMissed]

TimedInit ==
    /\ Init
    /\ left = [j \in Jobs |-> 0]
    /\ due = [w \in Workers |-> 0]
    /\ missed = [w \in Workers |-> 0]

------------------------------------------------------------------------------

\* Nothing is left waiting for longer than Latency: the claim of a worker is
\* answered, its renewal takes effect or fails.
Tick ==
    /\ \A w \in Workers : Busy(w) => due[w] > -Latency
    /\ \A j \in Jobs : leaseLive[j] => left[j] > 0
    /\ left' = [j \in Jobs |-> IF leaseLive[j] THEN left[j] - 1 ELSE left[j]]
    /\ due' = [w \in Workers |-> IF Busy(w) THEN due[w] - 1 ELSE due[w]]
    /\ UNCHANGED <<vars, missed>>

\* lease_expires_at < now(), whether the job has a worker or not.
Expire(j) ==
    /\ leaseLive[j] /\ left[j] = 0
    /\ leaseLive' = [leaseLive EXCEPT ![j] = FALSE]
    /\ UNCHANGED <<status, leaseOwner, acked, srcStatus, workers, faults, timers>>

NoTimer(w) ==
    /\ due' = [due EXCEPT ![w] = 0]
    /\ missed' = [missed EXCEPT ![w] = 0]

TimedClaim(w) ==
    /\ Claim(w)
    /\ left' = [left EXCEPT ![held'[w]] = Granted]
    /\ NoTimer(w)

\* Claim has returned to runNext, which starts the goroutine and its ticker.
TimedLoadJob(w) ==
    /\ LoadJob(w)
    /\ due' = [due EXCEPT ![w] = Interval]
    /\ UNCHANGED <<left, missed>>

TimedFinishJob(w) ==
    /\ FinishJob(w)
    /\ left' = [left EXCEPT ![held[w]] = 0]
    /\ NoTimer(w)

Renewing(w) ==
    /\ pc[w] \in {"next", "source", "hung"} /\ due[w] <= 0
    /\ due' = [due EXCEPT ![w] = @ + Interval]

TimedRenewLease(w) ==
    /\ Renewing(w)
    /\ RenewLease(w)
    /\ left' = [left EXCEPT ![held[w]] = Granted]
    /\ missed' = [missed EXCEPT ![w] = 0]

\* Mutant of MissRenewal: the goroutine ends with the first failure.
MissRenewalReturns(w) ==
    /\ pc[w] \in {"next", "source", "hung"} /\ due[w] <= 0
    /\ due' = [due EXCEPT ![w] = 2 * Granted]
    /\ UNCHANGED <<vars, left, missed>>

\* The call fails; renewLease logs that and waits for the next tick.
MissRenewal(w) ==
    /\ Renewing(w)
    /\ missed[w] < MaxMissed
    /\ missed' = [missed EXCEPT ![w] = @ + 1]
    /\ UNCHANGED <<vars, left>>

\* runNext returns early or the process is gone, and the goroutine with it, or
\* Claim hangs before it is started; the lease stays in the row.
TimedStop(w) ==
    /\ StoreError(w) \/ ClaimHangs(w) \/ Crash(w) \/ Shutdown(w)
    /\ NoTimer(w)
    /\ UNCHANGED left

TimedWorkerStep(w) ==
    \/ TimedClaim(w) \/ TimedLoadJob(w) \/ TimedFinishJob(w)
    \/ TimedRenewLease(w) \/ MissRenewal(w) \/ TimedStop(w)

\* What has nothing to do with leases.
Untimed ==
    \/ Enqueue
    \/ \E j \in Jobs : Acknowledge(j)
    \/ \E w \in Workers :
          \/ \E t \in Targets : StartSource(w, t)
          \/ \E result \in Finished : FinishSource(w, result)
          \/ CallHangs(w) \/ Restart(w)

TimedNext ==
    \/ Tick
    \/ \E j \in Jobs : Expire(j)
    \/ \E w \in Workers : TimedWorkerStep(w)
    \/ Untimed /\ UNCHANGED timers

TimedSpec == TimedInit /\ [][TimedNext]_timedVars

------------------------------------------------------------------------------

\* What the renewals a worker may still miss take.
Room(w) == (MaxMissed - missed[w]) * Interval

\* Ticks before the goroutine's next tick, at most.
NextTick(w) == IF pc[w] = "claimed" THEN due[w] + Interval + Latency ELSE due[w]

\* The lease of a worker that is alive outlives the renewals it may still miss
\* and the one after them (renewLease: a third of the lease; Claim and
\* RenewLease: whole seconds).
LeaseCoversMisses ==
    \A w \in Workers : Busy(w) =>
        /\ leaseLive[held[w]]
        /\ left[held[w]] > NextTick(w) + Room(w) + Latency

\* With a lease that is long enough nothing but the death of its worker ends a
\* lease: the timed queue is the queue without lapses, so that no second
\* replica takes a job away (worker.go, the comment of renewLease).
ImplementsQueue == Spec
==============================================================================
