---------------------------- MODULE RateLimiter ----------------------------
(***************************************************************************)
(* ratelimit/ratelimit.go: the token bucket that throttles blob writes.    *)
(* Goroutines wait for tokens with WaitN, one refills the bucket at every  *)
(* tick, and others change the rate or stop the limiter.  A step is one    *)
(* critical section of mu, one atomic load, or one select.                 *)
(***************************************************************************)
EXTENDS Integers

CONSTANTS Waiters,      \* calls of WaitN, one each
          Need,         \* the n of each call
          Cancellable,  \* calls with a context that may be cancelled
          StartRate,    \* the argument of NewLimiter
          Rates,        \* the arguments of SetRate
          MayStop,      \* whether Stop is called
          MaxInt        \* the largest int64

ASSUME LimiterAssumption ==
    /\ MaxInt \in Nat \ {0}
    /\ StartRate \in Int /\ Rates \subseteq Int
    /\ Need \in [Waiters -> Nat]
    /\ Cancellable \subseteq Waiters
    /\ MayStop \in BOOLEAN

(* Rates are below 3 * 10^18 bytes per second: the cap, twice the rate, and*)
(* a tick on top of it are still an int64.                                 *)
ASSUME RateAssumption == \A r \in Rates \cup {StartRate} : 3 * r < MaxInt

VARIABLES rate,       \* bytesPerSecond
          bucket,     \* tokens
          fracAccum,  \* tenths of a token
          maxBucket,  \* the cap of the bucket
          stopped,    \* set by Stop
          loops,      \* refill goroutines started and not yet returned
          pending,    \* a tick was in the ticker's channel when it was stopped
          tick,       \* the refill goroutine: the rate it has loaded, if any
          waiter,     \* per call: its step and the tokens it still needs
          cancelled   \* calls whose context is done

limiterVars == <<rate, bucket, fracAccum, maxBucket, stopped, pending, loops,
                 tick, waiter, cancelled>>
tokens == <<bucket, fracAccum, maxBucket>>

(* int64 arithmetic, one addition at a time.                               *)
Wrap(x) == IF x > MaxInt THEN x - 2 * (MaxInt + 1) ELSE x

Idle == [step |-> "select", rate |-> 0]
WaitSteps == {"rate", "take", "pause", "ok", "err"}

LimiterTypeOK ==
    /\ rate \in Int /\ bucket \in Int /\ maxBucket \in Int
    /\ fracAccum \in 0 .. 9
    /\ stopped \in BOOLEAN /\ pending \in BOOLEAN
    /\ loops \in Nat
    /\ tick \in [step : {"select", "lock"}, rate : Int]
    /\ waiter \in [Waiters -> [step : WaitSteps, n : Nat]]
    /\ cancelled \subseteq Waiters

(* NewLimiter: without a rate there is no ticker and no refill loop.       *)
NewLimiter ==
    /\ rate = IF StartRate > 0 THEN StartRate ELSE 0
    /\ bucket = rate
    /\ maxBucket = Wrap(2 * rate)
    /\ fracAccum = 0
    /\ stopped = FALSE /\ pending = FALSE
    /\ loops = IF StartRate > 0 THEN 1 ELSE 0
    /\ tick = Idle
    /\ waiter = [w \in Waiters |-> [step |-> "rate", n |-> Need[w]]]
    /\ cancelled = {}

-----------------------------------------------------------------------------
(* refill                                                                  *)

(* The ticker fires and the loop loads the rate.  A stopped ticker leaves  *)
(* at most the tick that was pending, and the select may prefer it.        *)
TickLoad ==
    /\ loops > 0 /\ tick.step = "select"
    /\ ~stopped \/ pending
    /\ rate > 0
    /\ tick' = [step |-> "lock", rate |-> rate]
    /\ pending' = FALSE
    /\ UNCHANGED <<rate, tokens, stopped, loops, waiter, cancelled>>

Least(a, b) == IF a < b THEN a ELSE b

(* Mutant: fractions of a token are dropped.                               *)
AddTokensWhole(r) ==
    /\ fracAccum' = 0
    /\ bucket' = Least(Wrap(bucket + (r \div 10)), maxBucket)

(* A tenth of the rate, fractions carried over, up to the cap.             *)
AddTokens(r) ==
    LET frac == fracAccum + (r % 10) IN
    /\ fracAccum' = frac % 10
    /\ bucket' = Least(Wrap(bucket + (r \div 10) + (frac \div 10)), maxBucket)

(* The rate is the one loaded before mu was taken.                         *)
TickAdd ==
    /\ tick.step = "lock"
    /\ AddTokens(tick.rate)
    /\ tick' = Idle
    /\ UNCHANGED <<rate, maxBucket, stopped, pending, loops, waiter, cancelled>>

(* Mutant: the loop does not watch stopCh.                                 *)
RefillReturnNever == FALSE

(* stopCh is closed.                                                       *)
RefillReturn ==
    /\ stopped /\ loops > 0 /\ tick.step = "select"
    /\ loops' = loops - 1
    /\ UNCHANGED <<rate, tokens, stopped, pending, tick, waiter, cancelled>>

-----------------------------------------------------------------------------
(* WaitN                                                                   *)

WaiterFrame == UNCHANGED <<rate, fracAccum, maxBucket, stopped, pending, loops,
                           tick, cancelled>>

(* The top of the loop: done, or no limit.                                 *)
WaitRate(w) ==
    /\ waiter[w].step = "rate"
    /\ waiter' = [waiter EXCEPT ![w].step =
                    IF waiter[w].n = 0 \/ rate <= 0 THEN "ok" ELSE "take"]
    /\ WaiterFrame /\ UNCHANGED bucket

(* Mutant: the tokens are taken whether they are there or not.             *)
WaitTakeAll(w) ==
    /\ waiter[w].step = "take"
    /\ bucket' = bucket - waiter[w].n
    /\ waiter' = [waiter EXCEPT ![w] = [step |-> "rate", n |-> 0]]
    /\ WaiterFrame

(* Take what is there, at most what is needed.                             *)
WaitTake(w) ==
    LET got == IF bucket > 0 THEN Least(bucket, waiter[w].n) ELSE 0 IN
    /\ waiter[w].step = "take"
    /\ bucket' = bucket - got
    /\ waiter' = [waiter EXCEPT ![w] =
                    [step |-> IF got = waiter[w].n THEN "rate" ELSE "pause",
                     n |-> waiter[w].n - got]]
    /\ WaiterFrame

(* The select of both sleeps: the timer, or the context.                   *)
WaitPause(w) ==
    /\ waiter[w].step = "pause"
    /\ \/ waiter' = [waiter EXCEPT ![w].step = "rate"]
       \/ w \in cancelled /\ waiter' = [waiter EXCEPT ![w].step = "err"]
    /\ WaiterFrame /\ UNCHANGED bucket

Cancel(w) ==
    /\ w \in Cancellable \ cancelled
    /\ cancelled' = cancelled \cup {w}
    /\ UNCHANGED <<rate, tokens, stopped, pending, loops, tick, waiter>>

-----------------------------------------------------------------------------
(* Whether NewLimiter or SetRate has made the ticker; a stopped limiter is *)
(* not started again.                                                      *)
Started == loops > 0

(* Mutant: every change of the rate fills the bucket.                      *)
SetRateRefills(r) ==
    /\ ~stopped
    /\ rate' = r
    /\ IF r > 0
       THEN /\ maxBucket' = Wrap(2 * r)
            /\ bucket' = r
            /\ loops' = IF Started THEN loops ELSE loops + 1
       ELSE UNCHANGED <<maxBucket, bucket, loops>>
    /\ UNCHANGED <<fracAccum, stopped, pending, tick, waiter, cancelled>>

(* SetRate; the first positive rate starts the loop with a full bucket.    *)
SetRate(r) ==
    /\ ~stopped
    /\ rate' = r
    /\ IF r > 0
       THEN /\ maxBucket' = Wrap(2 * r)
            /\ bucket' = IF Started THEN Least(bucket, Wrap(2 * r)) ELSE r
            /\ loops' = IF Started THEN loops ELSE loops + 1
       ELSE UNCHANGED <<maxBucket, bucket, loops>>
    /\ UNCHANGED <<fracAccum, stopped, pending, tick, waiter, cancelled>>

Stop ==
    /\ MayStop /\ ~stopped
    /\ stopped' = TRUE /\ pending' \in BOOLEAN
    /\ UNCHANGED <<rate, tokens, loops, tick, waiter, cancelled>>

Refill == TickLoad \/ TickAdd \/ RefillReturn
Wait(w) == WaitRate(w) \/ WaitTake(w) \/ WaitPause(w)

LimiterNext ==
    \/ Refill
    \/ \E w \in Waiters : Wait(w) \/ Cancel(w)
    \/ \E r \in Rates : SetRate(r)
    \/ Stop

LimiterSpec == NewLimiter /\ [][LimiterNext]_limiterVars

-----------------------------------------------------------------------------
(* The bucket never goes into debt and never exceeds two seconds' worth,   *)
(* whatever the interleaving of waiters, ticks with a stale rate and       *)
(* changes of the rate.                                                    *)
BucketBounded == 0 <= bucket /\ bucket <= maxBucket

(* There is at most one refill loop: two would double the rate.            *)
OneRefill == loops <= 1

(* Every WaitN returns unless the limiter is stopped first, at any rate,   *)
(* 1 to 9 bytes per second included, and when SetRate lifts the limit.     *)
WaitersReturn ==
    \A w \in Waiters : <>(waiter[w].step \in {"ok", "err"} \/ stopped)

(* A stopped limiter's refill loop ends.                                   *)
StopEndsRefill == stopped ~> loops = 0
=============================================================================
