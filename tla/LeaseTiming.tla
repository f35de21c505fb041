---------------------------- MODULE LeaseTiming ----------------------------
(***************************************************************************)
(* How long a lease lasts against what its worker does under it: a          *)
(* conversion that JOB_TIMEOUT bounds, a publication that nothing bounds,    *)
(* and renewLease, a goroutine with a ticker.  The other modules let a lease *)
(* run out at any moment; here time is counted, in units of some length.     *)
(***************************************************************************)
EXTENDS Integers

CONSTANTS Timings,    \* records [timeout, lease]: JOB_TIMEOUT and JOB_LEASE as configured,
                      \* neither of them negative
          Second,     \* time.Second
          MaxLatency, \* BOUND: the longest that RenewLease takes to answer
          MaxLate,    \* BOUND: the longest from the claim to process
          MaxAge      \* BOUND: how long a run is followed

ASSUME TimingAssumption ==
    /\ Timings \subseteq [timeout : Nat, lease : Nat]
    /\ Second \in Nat \ {0}
    /\ {MaxLatency, MaxLate, MaxAge} \subseteq Nat

VARIABLES work,    \* cfg.Work
          stage,   \* of process: claimed, working (up to the last checkpoint of the
                   \* pipeline), converted, faulty, publishing, settling, over
          late,    \* from the claim to the start of process
          age,     \* from the start of process, when jobCtx began
          left,    \* lease_expires_at - now()
          mine,    \* lease_owner is this worker
          renewer, \* the goroutine: off, waiting, asking, stopped
          due,     \* the ticker's channel, which holds one tick
          asked,   \* how long RenewLease has been running
          failed,  \* renewals in a row that failed
          lost     \* the stage in which the goroutine found the lease lost, or never

renewing == <<renewer, due, asked, failed, lost>>
timingVars == <<work, stage, late, age, left, mine, renewing>>

\* Seeded fault: a lease of exactly JOB_TIMEOUT is accepted.
ValidOrEqual(w) == w.lease >= w.timeout

\* Config.validate.
Valid(w) == w.lease > w.timeout

Interval == IF work.lease \div 3 < Second THEN Second ELSE work.lease \div 3

TimingInit ==
    /\ work \in {w \in Timings : Valid(w)}
    /\ stage = "claimed"
    /\ late = 0 /\ age = 0
    /\ left = work.lease
    /\ mine = TRUE
    /\ renewer = "off" /\ due = FALSE /\ asked = 0 /\ failed = 0
    /\ lost = "never"

\* jobCtx.Done: the deadline, or the deferred cancel.
JobDone == age >= work.timeout \/ stage = "over"

---------------------------------------------------------------------------
(* process *)

Goto(next) == stage' = next /\ UNCHANGED <<work, late, age, left, mine>>

Begin ==
    /\ stage = "claimed"
    /\ Goto("working")
    /\ renewer' = "waiting"
    /\ UNCHANGED <<due, asked, failed, lost>>

\* The last checkpoint of the pipeline lets a conversion through, or it fails, as it does
\* when it looks at a context that is done; or the original could not be read.
Convert ==
    /\ stage = "working"
    /\ \/ age < work.timeout /\ Goto("converted")
       \/ Goto("faulty")
       \/ Goto("settling")
    /\ UNCHANGED renewing

\* Whether the process waits at <-leaseLost: it looks once, with a default, and is never
\* there when the goroutine offers its signal, with a default as well.
Receives == FALSE

Signaled == lost \in {"working", "converted", "faulty"} /\ Receives

LookAtSignal ==
    /\ \/ stage = "converted" /\ \E next \in {"publishing", "settling"} :
             Goto(IF Signaled THEN "over" ELSE next)
       \/ stage = "faulty" /\ Goto(IF Signaled THEN "over" ELSE "settling")
    /\ UNCHANGED renewing

\* The publication ends or breaks; fail, MarkInvalid or FinishCanceled settles the rest.
Settle ==
    /\ \/ stage = "publishing" /\ \E next \in {"settling", "over"} : Goto(next)
       \/ stage = "settling" /\ Goto("over")
    /\ UNCHANGED renewing

\* Another worker, or the sweeper, takes a job whose lease ran out.
TakenOver ==
    /\ stage # "over"
    /\ left = 0 /\ mine
    /\ mine' = FALSE
    /\ UNCHANGED <<work, stage, late, age, left, renewing>>

---------------------------------------------------------------------------
(* renewLease *)

Elsewhere == UNCHANGED <<work, stage, late, age>>

\* The goroutine may take the tick also when jobCtx is done.
Ask ==
    /\ renewer = "waiting" /\ due
    /\ renewer' = "asking" /\ due' = FALSE /\ asked' = 0
    /\ UNCHANGED <<failed, lost, left, mine>> /\ Elsewhere

\* What is left of a lease that was granted some time ago.
LeftAfter(ago) == IF ago < work.lease THEN work.lease - ago ELSE 0

\* now() is the start of the statement, which has run for at most "asked".
Renewed ==
    /\ renewer = "asking"
    /\ mine /\ \E ago \in 0..asked : left' = LeftAfter(ago)
    /\ renewer' = "waiting" /\ failed' = 0
    /\ UNCHANGED <<due, asked, lost, mine>> /\ Elsewhere

\* Seeded fault: an error ends the goroutine.
RenewalGivesUp ==
    /\ renewer = "asking"
    /\ UNCHANGED left
    /\ failed' = IF JobDone THEN failed ELSE failed + 1
    /\ renewer' = "stopped"
    /\ UNCHANGED <<due, asked, lost, mine>> /\ Elsewhere

\* An error, with or without effect: the next tick tries again.
RenewalFails ==
    /\ renewer = "asking"
    /\ \/ UNCHANGED left
       \/ mine /\ left' = LeftAfter(asked)
    /\ failed' = IF JobDone THEN failed ELSE failed + 1
    /\ renewer' = "waiting"
    /\ UNCHANGED <<due, asked, lost, mine>> /\ Elsewhere

RenewalRefused ==
    /\ renewer = "asking" /\ ~mine
    /\ lost' = stage
    /\ renewer' = "stopped"
    /\ UNCHANGED <<due, asked, failed, left, mine>> /\ Elsewhere

Stop ==
    /\ renewer = "waiting" /\ JobDone
    /\ renewer' = "stopped"
    /\ UNCHANGED <<due, asked, failed, lost, left, mine>> /\ Elsewhere

---------------------------------------------------------------------------
\* Time does not pass while the goroutine has something to do.
Urgent ==
    \/ renewer = "waiting" /\ (due \/ JobDone)
    \/ renewer = "asking" /\ asked >= MaxLatency

Pass ==
    /\ stage # "over" /\ ~Urgent
    /\ left' = IF left = 0 THEN 0 ELSE left - 1
    /\ IF stage = "claimed"
       THEN late < MaxLate /\ late' = late + 1 /\ UNCHANGED <<age, due>>
       ELSE /\ age < MaxAge /\ age' = age + 1 /\ UNCHANGED late
            /\ due' = (due \/ age' % Interval = 0)
    /\ asked' = IF renewer = "asking" THEN asked + 1 ELSE asked
    /\ UNCHANGED <<work, stage, mine, renewer, failed, lost>>

TimingNext ==
    \/ Begin \/ Convert \/ LookAtSignal \/ Settle \/ TakenOver
    \/ Ask \/ Renewed \/ RenewalFails \/ RenewalRefused \/ Stop
    \/ Pass

TimingSpec == TimingInit /\ [][TimingNext]_timingVars

---------------------------------------------------------------------------
(* Correctness *)

\* config.go: "El lease debe sobrevivir al trabajo mas largo posible".  Not one renewal
\* has to succeed: within JOB_TIMEOUT a lease runs out only when process began late, by
\* as much as JOB_LEASE exceeds JOB_TIMEOUT.
LeaseOutlivesTheJob ==
    left = 0 /\ age <= work.timeout => late > 0 /\ late >= work.lease - work.timeout

\* After JOB_TIMEOUT nothing renews the lease, and a publication may still be under way:
\* it has a third of JOB_LEASE, less what one statement takes, even when of any two
\* renewals one failed.
PublicationHasAThird ==
    left = 0 /\ failed <= 1 /\ late <= MaxLatency =>
        late + age >= work.timeout + work.lease \div 3 - MaxLatency
=============================================================================
