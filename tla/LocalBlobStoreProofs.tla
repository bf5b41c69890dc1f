------------------------ MODULE LocalBlobStoreProofs ------------------------
(***************************************************************************)
(* LocalBlobStore, for any number of blobs, goroutines and instances: type *)
(* correctness under every fault and every use of Delete; its invariant    *)
(* where callers keep Deletes apart and the power holds; and, with the     *)
(* same Deletes, that it implements BlobStore: whatever system call fails  *)
(* and whatever process is killed, every call takes effect, and answers,   *)
(* at moments between its invocation and its return.                       *)
(*                                                                         *)
(* First the write limiter, which putBlob may wait for: its bucket stays   *)
(* between zero and its cap, and its tokens are conserved, for any number  *)
(* of waiters, any rates and any number of ticks.                          *)
(***************************************************************************)
EXTENDS LocalBlobStore, RateLimiterTokens, TLAPS

-----------------------------------------------------------------------------
(* The write limiter                                                       *)

(* What a tick adds: at most a tenth of the rate, within the cap, with no  *)
(* overflow on the way.                                                    *)
LEMMA AddTokensBounds ==
  ASSUME NEW r \in Nat, 3 * r < MaxInt, 3 * maxBucket < 2 * MaxInt,
         bucket \in Nat, maxBucket \in Nat, bucket <= maxBucket,
         fracAccum \in 0 .. 9, AddTokens(r)
  PROVE  /\ bucket' \in Nat /\ bucket' <= maxBucket
         /\ fracAccum' \in 0 .. 9
         /\ 10 * bucket' + fracAccum' <= 10 * bucket + fracAccum + r
<1> DEFINE q == r \div 10
           m == r % 10
           frac == fracAccum + m
           c == frac \div 10
           d == frac % 10
<1>1. q \in Nat /\ m \in 0 .. 9 /\ r = 10 * q + m
  OBVIOUS
<1>2. frac \in Nat
  BY <1>1
<1>3. c \in Nat /\ d \in 0 .. 9 /\ frac = 10 * c + d
  BY <1>2
<1>4. fracAccum' = d /\ bucket' = Least(Wrap(bucket + q + c), maxBucket)
  BY DEF AddTokens
<1> HIDE DEF q, m, c, d
<1>5. c <= 1
  BY <1>1, <1>3
<1>6. Wrap(bucket + q + c) = bucket + q + c
  BY <1>1, <1>3, <1>5, LimiterAssumption DEF Wrap
<1>7. bucket' = Least(bucket + q + c, maxBucket)
  BY <1>4, <1>6
<1> QED
  BY <1>1, <1>3, <1>4, <1>7 DEF Least

(* The inductive invariant: a rate in use, loaded by a tick or behind the  *)
(* cap is one that was set, so no addition to the bucket overflows before  *)
(* it is cut down to the cap.                                              *)
LimiterInv ==
    /\ LimiterTypeOK
    /\ 3 * rate < MaxInt
    /\ tick.rate \in Nat /\ 3 * tick.rate < MaxInt
    /\ 3 * maxBucket < 2 * MaxInt
    /\ BucketBounded
    /\ OneRefill

(* NewLimiter establishes the invariant, with and without a rate.          *)
LEMMA LimiterInitial == NewLimiter => LimiterInv
<1> SUFFICES ASSUME NewLimiter PROVE LimiterInv
  OBVIOUS
<1>1. rate \in Nat /\ 3 * rate < MaxInt
  BY LimiterAssumption, RateAssumption DEF NewLimiter
<1>2. maxBucket = 2 * rate
  BY <1>1, LimiterAssumption DEF NewLimiter, Wrap
<1>3. /\ tick \in [step : {"select", "lock"}, rate : Int] /\ tick.rate = 0
      /\ waiter \in [Waiters -> [step : WaitSteps, n : Nat]]
  BY LimiterAssumption DEF NewLimiter, Idle, WaitSteps
<1>4. stopped \in BOOLEAN /\ pending \in BOOLEAN /\ cancelled \subseteq Waiters
  BY Zenon DEF NewLimiter
<1>5. bucket = rate /\ fracAccum = 0 /\ loops \in Nat /\ loops <= 1
  BY DEF NewLimiter
<1>6. LimiterTypeOK
  BY <1>1, <1>2, <1>3, <1>4, <1>5 DEF LimiterTypeOK
<1> QED
  BY <1>1, <1>2, <1>3, <1>5, <1>6, LimiterAssumption
  DEF LimiterInv, BucketBounded, OneRefill

(* A waiter takes no more than it needs and no more than there is, and the *)
(* bucket falls by exactly what the waiter gains.                          *)
LEMMA WaitTakeBounds ==
  ASSUME LimiterInv, NEW w \in Waiters, WaitTake(w)
  PROVE  /\ waiter' \in [Waiters -> [step : WaitSteps, n : Nat]]
         /\ bucket' \in Nat /\ bucket' <= bucket
         /\ bucket - bucket' = waiter[w].n - waiter'[w].n
<1> DEFINE got == IF bucket > 0 THEN Least(bucket, waiter[w].n) ELSE 0
<1>1. bucket \in Nat /\ waiter[w].n \in Nat
  BY DEF LimiterInv, LimiterTypeOK, BucketBounded
<1>2. got \in Nat /\ got <= bucket /\ got <= waiter[w].n
  BY <1>1 DEF Least
<1>3. /\ bucket' = bucket - got
      /\ waiter' = [waiter EXCEPT ![w] =
                      [step |-> IF got = waiter[w].n THEN "rate" ELSE "pause",
                       n |-> waiter[w].n - got]]
  BY DEF WaitTake
<1> HIDE DEF got
<1>4. waiter[w].n - got \in Nat
  BY <1>1, <1>2
<1>5. waiter \in [Waiters -> [step : WaitSteps, n : Nat]]
  BY DEF LimiterInv, LimiterTypeOK
<1>6. waiter' \in [Waiters -> [step : WaitSteps, n : Nat]]
  BY <1>3, <1>4, <1>5 DEF WaitSteps
<1>7. waiter'[w].n = waiter[w].n - got /\ bucket' = bucket - got
  BY <1>3, <1>5
<1>8. bucket' \in Nat /\ bucket' <= bucket /\ bucket - bucket' = waiter[w].n - waiter'[w].n
  BY <1>1, <1>2, <1>7
<1> QED
  BY <1>6, <1>8

(* SetRate keeps the bucket under the new cap, and one loop.               *)
LEMMA SetRateBounds ==
  ASSUME LimiterInv, NEW r \in Rates, SetRate(r)
  PROVE  /\ rate' \in Int /\ 3 * rate' < MaxInt
         /\ maxBucket' \in Nat /\ 3 * maxBucket' < 2 * MaxInt
         /\ bucket' \in Nat /\ bucket' <= maxBucket'
         /\ loops' \in Nat /\ loops' <= 1
         /\ bucket' <= bucket \/ (loops = 0 /\ r > 0 /\ bucket' = r)
<1>1. r \in Int /\ 3 * r < MaxInt /\ MaxInt \in Nat
  BY LimiterAssumption, RateAssumption
<1>2. /\ bucket \in Nat /\ maxBucket \in Nat /\ bucket <= maxBucket
      /\ 3 * maxBucket < 2 * MaxInt /\ loops \in Nat /\ loops <= 1
  BY DEF LimiterInv, LimiterTypeOK, BucketBounded, OneRefill
<1>3. rate' = r
  BY DEF SetRate
<1>4. CASE r > 0
  <2>1. Wrap(2 * r) = 2 * r
    BY <1>1, <1>4 DEF Wrap
  <2>2. /\ maxBucket' = 2 * r
        /\ bucket' = IF loops > 0 THEN Least(bucket, 2 * r) ELSE r
        /\ loops' = IF loops > 0 THEN loops ELSE loops + 1
    BY <1>4, <2>1 DEF SetRate, Started
  <2> QED
    BY <1>1, <1>2, <1>3, <1>4, <2>2 DEF Least
<1>5. CASE ~(r > 0)
  <2>1. UNCHANGED <<maxBucket, bucket, loops>>
    BY <1>5 DEF SetRate
  <2> QED
    BY <1>1, <1>2, <1>3, <2>1
<1> QED
  BY <1>4, <1>5

(* The invariant is inductive: one case per action of LimiterNext.         *)
LEMMA LimiterStep == LimiterInv /\ [LimiterNext]_limiterVars => LimiterInv'
<1> SUFFICES ASSUME LimiterInv, [LimiterNext]_limiterVars PROVE LimiterInv'
  OBVIOUS
<1> USE LimiterAssumption
<1> USE DEF LimiterInv, LimiterTypeOK, BucketBounded, OneRefill, tokens
<1>1. CASE TickLoad
  <2>1. /\ tick' = [step |-> "lock", rate |-> rate] /\ rate > 0 /\ pending' = FALSE
        /\ UNCHANGED <<rate, tokens, stopped, loops, waiter, cancelled>>
    BY <1>1 DEF TickLoad
  <2>2. /\ tick' \in [step : {"select", "lock"}, rate : Int]
        /\ tick'.rate \in Nat /\ 3 * tick'.rate < MaxInt
    BY <2>1
  <2> QED
    BY <2>1, <2>2, Zenon
<1>2. CASE TickAdd
  <2>1. /\ bucket' \in Nat /\ bucket' <= maxBucket /\ fracAccum' \in 0 .. 9
    BY <1>2, AddTokensBounds DEF TickAdd
  <2> QED
    BY <1>2, <2>1 DEF TickAdd, Idle
<1>3. CASE RefillReturn
  BY <1>3 DEF RefillReturn
<1>4. ASSUME NEW w \in Waiters, WaitRate(w) PROVE LimiterInv'
  BY <1>4 DEF WaitRate, WaiterFrame, WaitSteps
<1>5. ASSUME NEW w \in Waiters, WaitTake(w) PROVE LimiterInv'
  <2>1. /\ waiter' \in [Waiters -> [step : WaitSteps, n : Nat]]
        /\ bucket' \in Nat /\ bucket' <= bucket
    BY <1>5, WaitTakeBounds
  <2>2. WaiterFrame
    BY <1>5 DEF WaitTake
  <2> QED
    BY <2>1, <2>2 DEF WaiterFrame
<1>6. ASSUME NEW w \in Waiters, WaitPause(w) PROVE LimiterInv'
  BY <1>6 DEF WaitPause, WaiterFrame, WaitSteps
<1>7. ASSUME NEW w \in Waiters, Cancel(w) PROVE LimiterInv'
  BY <1>7 DEF Cancel
<1>8. ASSUME NEW r \in Rates, SetRate(r) PROVE LimiterInv'
  <2>1. /\ rate' \in Int /\ 3 * rate' < MaxInt
        /\ maxBucket' \in Nat /\ 3 * maxBucket' < 2 * MaxInt
        /\ bucket' \in Nat /\ bucket' <= maxBucket'
        /\ loops' \in Nat /\ loops' <= 1
    BY <1>8, SetRateBounds
  <2>2. UNCHANGED <<fracAccum, stopped, pending, tick, waiter, cancelled>>
    BY <1>8 DEF SetRate
  <2>3. /\ fracAccum' \in 0 .. 9 /\ waiter' \in [Waiters -> [step : WaitSteps, n : Nat]]
        /\ tick' \in [step : {"select", "lock"}, rate : Int]
        /\ tick'.rate \in Nat /\ 3 * tick'.rate < MaxInt
    BY <2>2
  <2>4. stopped' \in BOOLEAN /\ pending' \in BOOLEAN /\ cancelled' \subseteq Waiters
    BY <2>2, Zenon
  <2>5. bucket' \in Int /\ maxBucket' \in Int /\ 0 <= bucket'
    BY <2>1
  <2>6. LimiterTypeOK'
    BY <2>1, <2>3, <2>4, <2>5
  <2> QED
    BY <2>1, <2>3, <2>5, <2>6, Zenon
<1>9. CASE Stop
  BY <1>9 DEF Stop
<1>10. CASE UNCHANGED limiterVars
  BY <1>10 DEF limiterVars
<1> QED
  BY <1>1, <1>2, <1>3, <1>4, <1>5, <1>6, <1>7, <1>8, <1>9, <1>10
  DEF LimiterNext, Refill, Wait

(* The limiter's state keeps its type, the fraction below one token        *)
(* included: refill always carries whole tokens over into the bucket.      *)
THEOREM LimiterTypeCorrect == LimiterSpec => []LimiterTypeOK
<1>1. LimiterInv => LimiterTypeOK
  BY DEF LimiterInv
<1> QED
  BY <1>1, LimiterInitial, LimiterStep, PTL DEF LimiterSpec

(* The bucket is never in debt and never above the cap: refill, WaitN and  *)
(* SetRate keep it there in every interleaving, a tick whose rate was      *)
(* changed between its load and its critical section included.             *)
THEOREM BucketStaysBounded == LimiterSpec => []BucketBounded
<1>1. LimiterInv => BucketBounded
  BY DEF LimiterInv
<1> QED
  BY <1>1, LimiterInitial, LimiterStep, PTL DEF LimiterSpec

(* SetRate starts a refill loop only where there is none.                  *)
THEOREM OneRefillLoop == LimiterSpec => []OneRefill
<1>1. LimiterInv => OneRefill
  BY DEF LimiterInv
<1> QED
  BY <1>1, LimiterInitial, LimiterStep, PTL DEF LimiterSpec

-----------------------------------------------------------------------------
(* A step of the limiter with the ledger is a step of the limiter.         *)
LEMMA TStep == TNext => LimiterNext
BY DEF TNext, TRefill, TWait, TTick, TTake, TSetRate, TOther, LimiterNext, Refill, Wait

TokensInv ==
    /\ LimiterInv
    /\ granted \in Int /\ taken \in Int /\ ticks \in Nat
    /\ TokensConserved

(* The ledger opens with the tokens NewLimiter puts in the bucket.         *)
LEMMA TokensInitial == TInit => TokensInv
<1> SUFFICES ASSUME TInit PROVE TokensInv
  OBVIOUS
<1>1. LimiterInv
  BY LimiterInitial DEF TInit
<1> QED
  BY <1>1 DEF TInit, NewLimiter, TokensInv, TokensConserved, LimiterInv, LimiterTypeOK

(* WaitN moves tokens from the bucket to its caller.                       *)
LEMMA TakeArithmetic ==
  ASSUME NEW g \in Int, NEW t \in Int, NEW b \in Int, NEW c \in Int, NEW f \in Int,
         10 * t + 10 * b + f <= g
  PROVE  t + (b - c) \in Int /\ 10 * (t + (b - c)) + 10 * c + f <= g
OBVIOUS

(* A bucket that falls while the grants rise stays covered.                *)
LEMMA FallArithmetic ==
  ASSUME NEW g \in Int, NEW h \in Int, NEW t \in Int, NEW b \in Int, NEW c \in Int,
         NEW f \in Int, 10 * t + 10 * b + f <= g, g <= h, c <= b
  PROVE  10 * t + 10 * c + f <= h
OBVIOUS

(* The ledger invariant is inductive: one case per action.                 *)
LEMMA TokensStep == TokensInv /\ [TNext]_tvars => TokensInv'
<1> SUFFICES ASSUME TokensInv, [TNext]_tvars PROVE TokensInv'
  OBVIOUS
<1>1. LimiterInv'
  <2>1. [LimiterNext]_limiterVars
    BY TStep DEF tvars
  <2> QED
    BY <2>1, LimiterStep DEF TokensInv
<1>2. /\ bucket \in Nat /\ maxBucket \in Nat /\ bucket <= maxBucket
      /\ fracAccum \in 0 .. 9 /\ fracAccum \in Int /\ tick.rate \in Nat
      /\ granted \in Int /\ taken \in Int /\ ticks \in Nat
  BY DEF TokensInv, LimiterInv, LimiterTypeOK, BucketBounded
<1>3. bucket' \in Nat /\ fracAccum' \in Int
  BY <1>1 DEF LimiterInv, LimiterTypeOK, BucketBounded
<1> DEFINE Goal == /\ granted' \in Int /\ taken' \in Int /\ ticks' \in Nat
                   /\ TokensConserved'
<1> SUFFICES Goal
  BY <1>1 DEF TokensInv
<1>o. ASSUME Open PROVE 10 * taken + 10 * bucket + fracAccum <= granted
  BY <1>o DEF TokensInv, TokensConserved
<1>4. CASE TTick
  <2>1. 10 * bucket' + fracAccum' <= 10 * bucket + fracAccum + tick.rate
    BY <1>2, <1>4, AddTokensBounds DEF TTick, TickAdd, TokensInv, LimiterInv, LimiterTypeOK
  <2>2. CASE ticks < MaxTicks
    <3>1. Open
      BY <1>2, <2>2, LedgerAssumption DEF Open
    <3>2. granted' = granted + tick.rate /\ taken' = taken + 0 /\ ticks' = ticks + 1
      BY <1>4, <2>2, <3>1 DEF TTick, Book
    <3>3. 10 * taken + 10 * bucket + fracAccum <= granted
      BY <1>o, <3>1
    <3> QED
      BY <1>2, <1>3, <2>1, <3>2, <3>3 DEF TokensConserved
  <2>3. CASE ~(ticks < MaxTicks)
    <3>1. granted' = 0 /\ taken' = 0 /\ ticks' = MaxTicks + 1
      BY <1>4, <2>3 DEF TTick
    <3> QED
      BY <3>1, LedgerAssumption DEF TokensConserved, Open
  <2> QED
    BY <2>2, <2>3
<1>5. ASSUME NEW w \in Waiters, TTake(w) PROVE Goal
  <2>1. /\ bucket - bucket' = waiter[w].n - waiter'[w].n
        /\ ticks' = ticks /\ fracAccum' = fracAccum
    BY <1>5, WaitTakeBounds, Zenon DEF TTake, TokensInv, WaitTake, WaiterFrame
  <2>2. CASE Open
    <3>1. taken' = taken + (bucket - bucket') /\ granted' = granted + 0
      BY <1>5, <2>1, <2>2 DEF TTake, Book
    <3>2. bucket \in Int /\ bucket' \in Int
      BY <1>2, <1>3
    <3>3. /\ taken + (bucket - bucket') \in Int
          /\ 10 * (taken + (bucket - bucket')) + 10 * bucket' + fracAccum <= granted
      BY <1>2, <1>o, <2>2, <3>2, TakeArithmetic, Zenon
    <3> QED
      BY <1>2, <2>1, <3>1, <3>3 DEF TokensConserved
  <2>3. CASE ~Open
    BY <1>2, <1>5, <2>1, <2>3 DEF TTake, Book, TokensConserved, Open
  <2> QED
    BY <2>2, <2>3
<1>6. ASSUME NEW r \in Rates, TSetRate(r) PROVE Goal
  <2>1. bucket' <= bucket \/ (loops = 0 /\ r > 0 /\ bucket' = r)
    BY <1>6, SetRateBounds DEF TSetRate, TokensInv
  <2>2. ticks' = ticks /\ fracAccum' = fracAccum
    BY <1>6 DEF TSetRate, SetRate
  <2>3. r \in Int
    BY LimiterAssumption
  <2>4. CASE Open /\ bucket' <= bucket
    <3>1. granted' \in Int /\ granted <= granted' /\ taken' = taken
      BY <1>2, <1>6, <2>3, <2>4 DEF TSetRate, Book
    <3>2. 10 * taken + 10 * bucket + fracAccum <= granted
      BY <1>o, <2>4
    <3> QED
      <4>1. bucket \in Int /\ bucket' \in Int
        BY <1>2, <1>3
      <4>2. 10 * taken + 10 * bucket' + fracAccum <= granted'
        BY <1>2, <2>4, <3>1, <3>2, <4>1, FallArithmetic, Zenon
      <4> QED
        BY <1>2, <2>2, <3>1, <4>2 DEF TokensConserved
  <2>5. CASE Open /\ loops = 0 /\ r > 0 /\ bucket' = r
    <3>1. granted' = granted + 10 * r /\ taken' = taken + 0
      BY <1>6, <2>5 DEF TSetRate, Book
    <3>2. 10 * taken + 10 * bucket + fracAccum <= granted
      BY <1>o, <2>5
    <3> QED
      BY <1>2, <1>3, <2>2, <2>3, <2>5, <3>1, <3>2 DEF TokensConserved
  <2>6. CASE ~Open
    BY <1>2, <1>6, <2>2, <2>6 DEF TSetRate, Book, TokensConserved, Open
  <2> QED
    BY <2>1, <2>4, <2>5, <2>6
<1>7. ASSUME UNCHANGED ledger, bucket' = bucket, fracAccum' = fracAccum PROVE Goal
  BY <1>2, <1>7 DEF ledger, TokensConserved, Open, TokensInv
<1>8. CASE (TickLoad \/ RefillReturn) /\ UNCHANGED ledger
  BY <1>7, <1>8 DEF TickLoad, RefillReturn, tokens
<1>9. ASSUME NEW w \in Waiters, WaitRate(w) \/ WaitPause(w), UNCHANGED ledger PROVE Goal
  BY <1>7, <1>9 DEF WaitRate, WaitPause, WaiterFrame
<1>10. CASE TOther
  BY <1>7, <1>10 DEF TOther, Stop, Cancel, tokens
<1>11. CASE UNCHANGED tvars
  BY <1>7, <1>11 DEF tvars, limiterVars, ledger
<1> QED
  BY <1>4, <1>5, <1>6, <1>8, <1>9, <1>10, <1>11 DEF TNext, TRefill, TWait

(* Tokens are conserved: over the first MaxTicks ticks, for any MaxTicks,  *)
(* callers of WaitN take no more than the refill loop granted at the rates *)
(* it had loaded.                                                          *)
THEOREM NoTokenTwice == TSpec => []TokensConserved
<1>1. TokensInv => TokensConserved
  BY DEF TokensInv
<1> QED
  BY <1>1, TokensInitial, TokensStep, PTL DEF TSpec

-----------------------------------------------------------------------------
(* The store                                                               *)

(* Most leaves are first-order: Zenon unless a leaf names another prover.  *)
USE Zenon

(* How the state of a call is updated keeps its type.                      *)
LEMMA SetCallType ==
  ASSUME TypeOK, NEW t \in Threads,
         NEW todo \in SUBSET (Hashes \cup Malformed), NEW yes \in SUBSET Hashes,
         NEW out \in {"pending", "ok", "err"},
         SetCall(t, todo, yes, out)
  PROVE  call' \in [Threads -> Abstract!Calls]
<1>1. call[t].op \in Abstract!Ops /\ call[t].hs \in SUBSET (Hashes \cup Malformed)
  BY DEF TypeOK, Abstract!Calls
<1>2. Abstract!With(call[t], todo, yes, out) \in Abstract!Calls
  BY <1>1 DEF Abstract!With, Abstract!Calls
<1> QED
  BY <1>2 DEF TypeOK, SetCall

(* A call that goes on keeps its type ...                                  *)
LEMMA ProgressType ==
  ASSUME TypeOK, NEW t \in Threads,
         NEW todo \in SUBSET (Hashes \cup Malformed), NEW yes \in SUBSET Hashes,
         Progress(t, todo, yes)
  PROVE  call' \in [Threads -> Abstract!Calls]
<1>1. call[t].out \in {"pending", "ok", "err"}
  BY DEF TypeOK, Abstract!Calls
<1> QED
  BY <1>1, SetCallType, Zenon DEF Progress

(* ... and so does one that returns ...                                    *)
LEMMA ReturnType ==
  ASSUME TypeOK, NEW t \in Threads,
         NEW todo \in SUBSET (Hashes \cup Malformed), NEW yes \in SUBSET Hashes,
         Return(t, todo, yes)
  PROVE  /\ call' \in [Threads -> Abstract!Calls]
         /\ pc' \in [Threads -> Steps]
         /\ found' \in [Threads -> SUBSET Hashes]
<1>1. call' \in [Threads -> Abstract!Calls]
  BY SetCallType DEF Return
<1>2. pc' \in [Threads -> Steps]
  BY DEF TypeOK, Return, Steps
<1>3. found' \in [Threads -> SUBSET Hashes]
  BY DEF TypeOK, Return
<1> QED
  BY <1>1, <1>2, <1>3

(* ... or fails, which touches nothing else.                               *)
LEMMA ErrorType ==
  ASSUME TypeOK, NEW t \in Threads, Error(t)
  PROVE  TypeOK'
<1>0. call[t].todo \in SUBSET (Hashes \cup Malformed) /\ call[t].yes \in SUBSET Hashes
  BY DEF TypeOK, Abstract!Calls
<1>1. call' \in [Threads -> Abstract!Calls]
  BY <1>0, SetCallType DEF Error
<1>2. pc' \in [Threads -> Steps]
  BY DEF TypeOK, Error, Steps
<1>3. found' \in [Threads -> SUBSET Hashes]
  BY DEF TypeOK, Error
<1> QED
  BY <1>1, <1>2, <1>3 DEF TypeOK, Error, disk

(* Moving a call on to its next step keeps the type of pc.                 *)
LEMMA GotoType ==
  ASSUME TypeOK, NEW t \in Threads, NEW s \in Steps, Goto(t, s)
  PROVE  pc' \in [Threads -> Steps]
BY DEF TypeOK, Goto

(* The methods are called with hashes, well-formed or malformed.           *)
LEMMA ArgsType ==
  ASSUME NEW op \in Abstract!Ops, NEW hs \in Abstract!Args(op)
  PROVE  /\ hs \in SUBSET (Hashes \cup Malformed)
         /\ op \in {"list", "warm"} => hs = Hashes
         /\ op \in {"put", "delete"} => \E h \in Hashes \cup Malformed : hs = {h}
<1>1. CASE op = "exists"
  BY <1>1 DEF Abstract!Args
<1>2. CASE op \in {"list", "warm"}
  <2>1. hs = Hashes
    BY <1>2 DEF Abstract!Args
  <2> QED BY <1>2, <2>1
<1>3. CASE op \notin {"exists", "list", "warm"}
  <2>1. hs \in {{h} : h \in Hashes \cup Malformed}
    BY <1>3 DEF Abstract!Args
  <2>2. PICK h \in Hashes \cup Malformed : hs = {h}
    BY <2>1
  <2> QED BY <1>3, <2>2
<1> QED
  BY <1>1, <1>2, <1>3

(* A method starts by validating its keys.                                 *)
LEMMA FirstStepOf ==
  ASSUME NEW op \in Abstract!Ops
  PROVE  /\ FirstStep(op) \in StepsOf(op) /\ FirstStep(op) \in Steps
         /\ FirstStep(op) \in {"lock", "cache", "read", "remove"}
BY DEF FirstStep, StepsOf, Steps, Abstract!Ops

(* The death of a process keeps the types.                                 *)
LEMMA DieType ==
  ASSUME TypeOK, NEW is \in SUBSET Instances, Die(is)
  PROVE  /\ existsSet' \in [Instances -> SUBSET Hashes]
         /\ call' \in [Threads -> Abstract!Calls]
         /\ pc' \in [Threads -> Steps]
         /\ found' \in [Threads -> SUBSET Hashes]
<1>1. Abstract!NoCall \in Abstract!Calls
  BY DEF Abstract!NoCall, Abstract!With, Abstract!NewCall, Abstract!Calls, Abstract!Ops
<1> QED
  BY <1>1 DEF TypeOK, Die, Steps

(* TypeOK is not inductive by itself: that only well-formed hashes reach   *)
(* the directory is the work of validateHash, many steps earlier.          *)
TypeInv == TypeOK /\ CallsWellFormed

(* What a step knows about its own call.                                   *)
LEMMA CallFacts ==
  ASSUME TypeInv, NEW t \in Threads, pc[t] # "idle"
  PROVE  /\ call[t].op \in Abstract!Ops
         /\ call[t].hs \in SUBSET (Hashes \cup Malformed)
         /\ call[t].todo \in SUBSET call[t].hs /\ call[t].yes \in SUBSET Hashes
         /\ found[t] \in SUBSET Hashes /\ InstanceOf[t] \in Instances
         /\ existsSet[InstanceOf[t]] \in SUBSET Hashes
         /\ CallOK(t)
<1>1. call[t] \in Abstract!Calls /\ CallOK(t)
  BY DEF TypeInv, TypeOK, CallsWellFormed
<1>2. InstanceOf[t] \in Instances
  BY StoreAssumption
<1> QED
  BY <1>1, <1>2 DEF TypeInv, TypeOK, Abstract!Calls, CallOK

(* The step tells the operation: only one of them goes through it.         *)
LEMMA OpOfStep ==
  ASSUME TypeInv, NEW t \in Threads
  PROVE  /\ pc[t] \in {"lock", "write", "rename", "sync"} => call[t].op = "put"
         /\ pc[t] = "cache" => call[t].op = "exists"
         /\ pc[t] \in {"remove", "forget"} => call[t].op = "delete"
         /\ pc[t] = "read" => call[t].op \in {"list", "warm", "get"}
<1>1. CASE pc[t] = "idle"
  BY <1>1
<1>2. CASE pc[t] # "idle"
  <2>1. call[t].op \in Abstract!Ops /\ CallOK(t)
    BY <1>2, CallFacts, Zenon
  <2>2. pc[t] \in StepsOf(call[t].op)
    BY <2>1 DEF CallOK
  <2> QED BY <2>1, <2>2 DEF StepsOf, Abstract!Ops
<1> QED BY <1>1, <1>2

(* A call that goes on: todo is left, and s is its next step.              *)
GoesOn(t, todo, yes, f, s) ==
    /\ \/ UNCHANGED call /\ todo = call[t].todo
       \/ Progress(t, todo, yes)
    /\ found' = [found EXCEPT ![t] = f]
    /\ Goto(t, s)

(* A step of a method fails, returns or takes the call to a later step of  *)
(* the same method, and keys that go on past validateHash are well formed. *)
Shape(t) ==
    \/ Error(t)
    \/ \E yes \in SUBSET Hashes : Return(t, {}, yes)
    \/ \E todo \in SUBSET call[t].hs, yes \in SUBSET Hashes, f \in SUBSET Hashes :
       \E s \in StepsOf(call[t].op) :
          /\ GoesOn(t, todo, yes, f, s)
          /\ s \notin {"lock", "cache", "read", "remove"} => call[t].hs \subseteq Hashes

(* One more stat or directory read has that shape.                         *)
LEMMA ReadOnShape ==
  ASSUME TypeInv, NEW t \in Threads, pc[t] \in {"stat", "read"},
         call[t].op \in {"exists", "list", "warm"},
         NEW h \in call[t].todo, NEW seen \in SUBSET ({h} \cap blobs), ReadOn(t, h, seen)
  PROVE  Shape(t)
<1> DEFINE todo == call[t].todo \ {h}
           yes == call[t].yes \cup seen
           f == found[t] \cup seen
           s == IF todo = {} THEN "fill" ELSE pc[t]
<1>0. /\ call[t].todo \in SUBSET call[t].hs /\ call[t].yes \in SUBSET Hashes
      /\ found[t] \in SUBSET Hashes /\ CallOK(t) /\ seen \in SUBSET Hashes
  <2>1. pc[t] # "idle"
    OBVIOUS
  <2>2. seen \in SUBSET Hashes
    BY DEF TypeInv, TypeOK
  <2> QED BY <2>1, <2>2, CallFacts, Zenon
<1>1. /\ todo \in SUBSET call[t].hs /\ yes \in SUBSET Hashes /\ f \in SUBSET Hashes
      /\ call[t].hs \subseteq Hashes
  BY <1>0 DEF CallOK, StepsOf
<1>2. s \in StepsOf(call[t].op)
  BY <1>0 DEF CallOK, StepsOf
<1>3. CASE todo = {} /\ Return(t, todo, yes)
  BY <1>1, <1>3 DEF Shape
<1>4. CASE /\ Progress(t, todo, yes)
           /\ found' = [found EXCEPT ![t] = @ \cup seen]
           /\ Goto(t, s)
  <2>1. GoesOn(t, todo, yes, f, s)
    BY <1>4 DEF GoesOn, TypeInv, TypeOK
  <2> HIDE DEF todo, yes, f, s
  <2> QED BY <1>1, <1>2, <2>1 DEF Shape
<1> QED
  BY <1>3, <1>4 DEF ReadOn

(* A Put that has its file in place has that shape.                        *)
LEMMA InPlaceShape ==
  ASSUME TypeInv, NEW t \in Threads, pc[t] \in {"stat", "rename"},
         call[t].op = "put", InPlace(t)
  PROVE  Shape(t)
<1>1. GoesOn(t, {}, call[t].yes, found[t], "fill")
  BY DEF InPlace, GoesOn, TypeInv, TypeOK
<1>2. "fill" \in StepsOf(call[t].op)
  BY DEF StepsOf
<1>3. /\ call[t].yes \in SUBSET Hashes /\ found[t] \in SUBSET Hashes
      /\ call[t].hs \subseteq Hashes
  <2>1. pc[t] # "idle"
    OBVIOUS
  <2>2. CallOK(t) /\ call[t].yes \in SUBSET Hashes /\ found[t] \in SUBSET Hashes
    BY <2>1, CallFacts, Zenon
  <2> QED BY <2>2 DEF CallOK
<1>4. {} \in SUBSET call[t].hs
  OBVIOUS
<1> QED
  BY <1>1, <1>2, <1>3, <1>4 DEF Shape

(* Every step of a method has that shape.                                  *)
LEMMA StepShape ==
  ASSUME TypeInv, NEW t \in Threads, Step(t)
  PROVE  pc[t] # "idle" /\ Shape(t)
<1>0. pc[t] # "idle"
  BY DEF Step, Reject, PutLock, PutStat, PutWrite, PutRename, PutSync, PutFill,
         CachePass, ExistsStat, ReadShard, ReadFill, Get, DeleteRemove, DeleteForget
<1> SUFFICES Shape(t)
  BY <1>0
<1>f. /\ call[t].hs \in SUBSET (Hashes \cup Malformed)
      /\ call[t].todo \in SUBSET call[t].hs /\ call[t].yes \in SUBSET Hashes
      /\ found[t] \in SUBSET Hashes /\ existsSet[InstanceOf[t]] \in SUBSET Hashes
      /\ CallOK(t)
  BY <1>0, CallFacts, Zenon
<1>g. ASSUME pc[t] \in {"stat", "write", "rename", "sync"}
      PROVE  call[t].hs \subseteq Hashes
  BY <1>f, <1>g DEF CallOK
<1>a. ASSUME NEW yes \in SUBSET Hashes, Return(t, {}, yes) PROVE Shape(t)
  BY <1>a DEF Shape
<1>b. ASSUME Error(t) PROVE Shape(t)
  BY <1>b DEF Shape
<1>c. ASSUME NEW s \in StepsOf(call[t].op), call[t].hs \subseteq Hashes, Goto(t, s),
             UNCHANGED found, UNCHANGED call \/ Progress(t, {}, call[t].yes)
      PROVE  Shape(t)
  <2>1. found' = [found EXCEPT ![t] = found[t]]
    BY <1>c DEF TypeInv, TypeOK
  <2>2. ASSUME NEW todo \in SUBSET call[t].hs, GoesOn(t, todo, call[t].yes, found[t], s)
        PROVE  Shape(t)
    BY <1>f, <1>c, <2>2 DEF Shape
  <2>3. CASE UNCHANGED call
    <3>1. GoesOn(t, call[t].todo, call[t].yes, found[t], s)
      BY <1>c, <2>1, <2>3, Zenon DEF GoesOn
    <3> QED BY <1>f, <2>2, <3>1
  <2>4. CASE Progress(t, {}, call[t].yes)
    <3>1. GoesOn(t, {}, call[t].yes, found[t], s)
      BY <1>c, <2>1, <2>4, Zenon DEF GoesOn
    <3>2. {} \in SUBSET call[t].hs
      OBVIOUS
    <3> QED BY <2>2, <3>1, <3>2
  <2> QED BY <1>c, <2>3, <2>4
<1>d. {} \in SUBSET Hashes
  OBVIOUS
<1>1. CASE Reject(t)
  BY <1>1, <1>b DEF Reject
<1>2. CASE PutLock(t)
  <2>1. CASE Return(t, {}, {})
    BY <2>1, <1>a, <1>d
  <2>2. CASE Goto(t, "stat") /\ UNCHANGED <<call, found>>
    <3>1. "stat" \in StepsOf(call[t].op) /\ call[t].hs \subseteq Hashes
      <4>1. pc[t] = "lock" /\ call[t].hs \subseteq Hashes
        BY <1>2 DEF PutLock
      <4>2. call[t].op = "put"
        BY <4>1, OpOfStep
      <4> QED BY <4>1, <4>2 DEF StepsOf
    <3> QED BY <2>2, <3>1, <1>c
  <2> QED BY <1>2, <2>1, <2>2 DEF PutLock
<1>3. CASE PutStat(t)
  <2>1. CASE InPlace(t)
    BY <1>3, <2>1, InPlaceShape DEF PutStat
  <2>2. CASE Goto(t, "write") /\ UNCHANGED <<call, found>>
    <3>1. "write" \in StepsOf(call[t].op) /\ call[t].hs \subseteq Hashes
      BY <1>3, <1>g DEF PutStat, StepsOf
    <3> QED BY <2>2, <3>1, <1>c
  <2> QED BY <1>3, <2>1, <2>2 DEF PutStat
<1>4. CASE PutWrite(t)
  <2>1. "rename" \in StepsOf(call[t].op) /\ call[t].hs \subseteq Hashes
    <3>1. pc[t] = "write"
      BY <1>4 DEF PutWrite
    <3>2. call[t].op = "put" /\ call[t].hs \subseteq Hashes
      BY <3>1, <1>g, OpOfStep
    <3> QED BY <3>2 DEF StepsOf
  <2> QED BY <1>4, <2>1, <1>b, <1>c DEF PutWrite
<1>5. CASE PutRename(t)
  <2>1. /\ "sync" \in StepsOf(call[t].op) /\ call[t].hs \subseteq Hashes
        /\ call[t].op = "put" /\ pc[t] = "rename"
    <3>1. pc[t] = "rename"
      BY <1>5 DEF PutRename
    <3>2. call[t].op = "put" /\ call[t].hs \subseteq Hashes
      BY <3>1, <1>g, OpOfStep
    <3> QED BY <3>1, <3>2 DEF StepsOf
  <2>2. CASE Progress(t, {}, call[t].yes) /\ Goto(t, "sync") /\ UNCHANGED found
    BY <2>1, <2>2, <1>c
  <2>3. CASE InPlace(t)
    BY <2>1, <2>3, InPlaceShape
  <2> QED BY <1>5, <2>2, <2>3, <1>b DEF PutRename
<1>6. CASE PutSync(t)
  <2>1. "fill" \in StepsOf(call[t].op) /\ call[t].hs \subseteq Hashes
    <3>1. pc[t] = "sync"
      BY <1>6 DEF PutSync
    <3>2. call[t].op = "put" /\ call[t].hs \subseteq Hashes
      BY <3>1, <1>g, OpOfStep
    <3> QED BY <3>2 DEF StepsOf
  <2> QED BY <1>6, <2>1, <1>b, <1>c DEF PutSync
<1>7. CASE PutFill(t)
  BY <1>7, <1>a, <1>d DEF PutFill
<1>8. CASE CachePass(t)
  <2> DEFINE hits == call[t].hs \cap existsSet[InstanceOf[t]]
             misses == call[t].hs \ hits
  <2>1. hits \in SUBSET Hashes /\ misses \in SUBSET call[t].hs
    BY <1>f
  <2>2. CASE Return(t, {}, hits)
    BY <2>1, <2>2, <1>a
  <2>3. CASE Progress(t, misses, hits) /\ Goto(t, "stat") /\ UNCHANGED found
    <3>1. GoesOn(t, misses, hits, found[t], "stat")
      BY <2>3 DEF GoesOn, TypeInv, TypeOK
    <3>2. "stat" \in StepsOf(call[t].op) /\ call[t].hs \subseteq Hashes
      <4>1. pc[t] = "cache" /\ call[t].hs \subseteq Hashes
        BY <1>8 DEF CachePass
      <4>2. call[t].op = "exists"
        BY <4>1, OpOfStep
      <4> QED BY <4>1, <4>2 DEF StepsOf
    <3> HIDE DEF hits, misses
    <3> QED BY <1>f, <2>1, <3>1, <3>2 DEF Shape
  <2> QED BY <1>8, <2>2, <2>3 DEF CachePass
<1>9. CASE ExistsStat(t)
  <2>1. ASSUME NEW h \in call[t].todo, ReadOn(t, h, {h} \cap blobs) PROVE Shape(t)
    <3>1. pc[t] \in {"stat", "read"} /\ call[t].op \in {"exists", "list", "warm"}
      BY <1>9 DEF ExistsStat
    <3>2. {h} \cap blobs \in SUBSET ({h} \cap blobs)
      OBVIOUS
    <3> QED BY <2>1, <3>1, <3>2, ReadOnShape, Zenon
  <2> QED BY <1>9, <1>b, <2>1, Zenon DEF ExistsStat
<1>10. CASE ReadShard(t)
  <2>1. ASSUME NEW h \in call[t].todo, NEW seen \in SUBSET ({h} \cap blobs),
               ReadOn(t, h, seen)
        PROVE  Shape(t)
    <3>1. pc[t] \in {"stat", "read"} /\ call[t].op \in {"exists", "list", "warm"}
      BY <1>10 DEF ReadShard
    <3> QED BY <2>1, <3>1, ReadOnShape, Zenon
  <2>2. ASSUME NEW h \in call[t].todo
        PROVE  {h} \cap blobs \in SUBSET ({h} \cap blobs) /\ {} \in SUBSET ({h} \cap blobs)
    OBVIOUS
  <2> QED BY <1>10, <2>1, <2>2 DEF ReadShard
<1>11. CASE ReadFill(t)
  BY <1>f, <1>11, <1>a DEF ReadFill
<1>12. CASE Get(t)
  BY <1>12, <1>a, <1>b DEF Get
<1>13. CASE DeleteRemove(t)
  <2>1. "forget" \in StepsOf(call[t].op) /\ call[t].hs \subseteq Hashes
    <3>1. pc[t] = "remove" /\ call[t].hs \subseteq Hashes
      BY <1>13 DEF DeleteRemove
    <3>2. call[t].op = "delete"
      BY <3>1, OpOfStep
    <3> QED BY <3>1, <3>2 DEF StepsOf
  <2> QED BY <1>13, <2>1, <1>b, <1>c DEF DeleteRemove
<1>14. CASE DeleteForget(t)
  BY <1>14, <1>a, <1>d DEF DeleteForget
<1> QED
  BY <1>0, <1>1, <1>2, <1>3, <1>4, <1>5, <1>6, <1>7, <1>8, <1>9, <1>10, <1>11, <1>12,
     <1>13, <1>14, Step(t), ZenonT(40) DEF Step

(* A step of a thread leaves the calls of the others alone.                *)
LEMMA StepLocal ==
  ASSUME TypeInv, NEW t \in Threads, Step(t), NEW u \in Threads, u # t
  PROVE  call'[u] = call[u] /\ pc'[u] = pc[u] /\ found'[u] = found[u]
<1>0. /\ call \in [Threads -> Abstract!Calls] /\ pc \in [Threads -> Steps]
      /\ found \in [Threads -> SUBSET Hashes]
  BY DEF TypeInv, TypeOK
<1>1. CASE Error(t)
  BY <1>0, <1>1 DEF Error, SetCall
<1>2. CASE \E yes \in SUBSET Hashes : Return(t, {}, yes)
  BY <1>0, <1>2 DEF Return, SetCall
<1>3. ASSUME NEW todo, NEW yes, NEW f, NEW s, GoesOn(t, todo, yes, f, s)
      PROVE  call'[u] = call[u] /\ pc'[u] = pc[u] /\ found'[u] = found[u]
  BY <1>0, <1>3 DEF GoesOn, Goto, Progress, SetCall
<1>4. Shape(t)
  BY StepShape
<1> QED
  BY <1>1, <1>2, <1>3, <1>4, Zenon DEF Shape

(* It keeps the types of the calls.                                        *)
LEMMA StepCallType ==
  ASSUME TypeInv, NEW t \in Threads, Step(t)
  PROVE  /\ call' \in [Threads -> Abstract!Calls]
         /\ pc' \in [Threads -> Steps]
         /\ found' \in [Threads -> SUBSET Hashes]
<1>0. TypeOK /\ call[t].hs \in SUBSET (Hashes \cup Malformed) /\ pc[t] # "idle"
      /\ call[t].op \in Abstract!Ops
  BY StepShape, CallFacts, Zenon DEF TypeInv
<1>1. CASE Error(t)
  BY <1>0, <1>1, ErrorType DEF TypeOK
<1>2. ASSUME NEW yes \in SUBSET Hashes, Return(t, {}, yes)
      PROVE  /\ call' \in [Threads -> Abstract!Calls]
             /\ pc' \in [Threads -> Steps]
             /\ found' \in [Threads -> SUBSET Hashes]
  <2>1. {} \in SUBSET (Hashes \cup Malformed)
    OBVIOUS
  <2> QED BY <1>0, <1>2, <2>1, ReturnType, Zenon
<1>3. ASSUME NEW todo \in SUBSET call[t].hs, NEW yes \in SUBSET Hashes,
             NEW f \in SUBSET Hashes, NEW s \in StepsOf(call[t].op),
             GoesOn(t, todo, yes, f, s)
      PROVE  /\ call' \in [Threads -> Abstract!Calls]
             /\ pc' \in [Threads -> Steps]
             /\ found' \in [Threads -> SUBSET Hashes]
  <2>1. s \in Steps
    BY <1>0 DEF StepsOf, Steps, Abstract!Ops
  <2>2. pc' \in [Threads -> Steps]
    BY <1>0, <1>3, <2>1 DEF GoesOn, Goto, TypeOK
  <2>3. found' \in [Threads -> SUBSET Hashes]
    BY <1>0, <1>3 DEF GoesOn, TypeOK
  <2>4. todo \in SUBSET (Hashes \cup Malformed)
    BY <1>0
  <2>5. CASE UNCHANGED call
    BY <1>0, <2>2, <2>3, <2>5 DEF TypeOK
  <2>6. CASE Progress(t, todo, yes)
    <3>1. call' \in [Threads -> Abstract!Calls]
      BY <1>0, <2>4, <2>6, ProgressType, Zenon
    <3> QED BY <2>2, <2>3, <3>1
  <2> QED BY <1>3, <2>5, <2>6 DEF GoesOn
<1>4. Shape(t)
  BY StepShape
<1> QED
  BY <1>1, <1>2, <1>3, <1>4, Zenon DEF Shape

(* It puts only well-formed hashes into the directory and the caches.      *)
LEMMA StepType ==
  ASSUME TypeInv, NEW t \in Threads, Step(t)
  PROVE  TypeOK'
<1>0. pc[t] # "idle" /\ CallOK(t) /\ InstanceOf[t] \in Instances /\ TypeOK
      /\ found[t] \in SUBSET Hashes
  BY StepShape, CallFacts, Zenon DEF TypeInv
<1>1. /\ call' \in [Threads -> Abstract!Calls]
      /\ pc' \in [Threads -> Steps]
      /\ found' \in [Threads -> SUBSET Hashes]
  BY StepCallType
<1>2. pc[t] \notin {"lock", "cache", "read", "remove"} => call[t].hs \subseteq Hashes
  BY <1>0 DEF CallOK
<1>a. CASE UNCHANGED disk /\ UNCHANGED <<existsSet, acked>>
  BY <1>0, <1>1, <1>a DEF disk, TypeOK
<1>b. CASE Error(t)
  BY <1>a, <1>b DEF Error
<1>c. CASE InPlace(t)
  BY <1>a, <1>c DEF InPlace
<1>d. CASE \E h, seen : ReadOn(t, h, seen)
  BY <1>a, <1>d DEF ReadOn
<1>e. ASSUME NEW X \in SUBSET Hashes, FillCache(t, X)
      PROVE  existsSet' \in [Instances -> SUBSET Hashes]
  BY <1>0, <1>e DEF FillCache, TypeOK
<1>3. CASE Reject(t)
  BY <1>3, <1>b DEF Reject
<1>4. CASE PutLock(t)
  BY <1>0, <1>1, <1>4 DEF PutLock, disk, TypeOK
<1>5. CASE PutStat(t)
  BY <1>5, <1>a, <1>c DEF PutStat
<1>6. CASE PutWrite(t)
  <2>1. CASE Error(t)
    BY <2>1, <1>b
  <2>2. CASE ~Error(t)
    BY <1>0, <1>1, <1>2, <1>6, <2>2 DEF PutWrite, TypeOK
  <2> QED BY <2>1, <2>2
<1>7. CASE PutRename(t)
  <2>1. CASE Error(t) \/ InPlace(t)
    BY <2>1, <1>b, <1>c
  <2>2. CASE ~(Error(t) \/ InPlace(t))
    BY <1>0, <1>1, <1>2, <1>7, <2>2 DEF PutRename, TypeOK
  <2> QED BY <2>1, <2>2
<1>8. CASE PutSync(t)
  <2>1. CASE Error(t)
    BY <2>1, <1>b
  <2>2. CASE ~Error(t)
    BY <1>0, <1>1, <1>2, <1>8, <2>2 DEF PutSync, TypeOK
  <2> QED BY <2>1, <2>2
<1>9. CASE PutFill(t)
  <2>1. call[t].hs \in SUBSET Hashes
    BY <1>2, <1>9 DEF PutFill
  <2>2. existsSet' \in [Instances -> SUBSET Hashes]
    BY <1>9, <2>1, <1>e DEF PutFill
  <2> QED BY <1>0, <1>1, <1>9, <2>1, <2>2 DEF PutFill, disk, TypeOK
<1>10. CASE CachePass(t)
  BY <1>10, <1>a DEF CachePass
<1>11. CASE ExistsStat(t)
  BY <1>11, <1>b, <1>d, Zenon DEF ExistsStat
<1>12. CASE ReadShard(t)
  BY <1>12, <1>d DEF ReadShard
<1>13. CASE ReadFill(t)
  <2>1. existsSet' \in [Instances -> SUBSET Hashes]
    BY <1>0, <1>13, <1>e DEF ReadFill
  <2> QED BY <1>0, <1>1, <1>13, <2>1 DEF ReadFill, disk, TypeOK
<1>14. CASE Get(t)
  BY <1>14, <1>a, <1>b DEF Get
<1>15. CASE DeleteRemove(t)
  <2>1. CASE Error(t)
    BY <2>1, <1>b
  <2>2. CASE ~Error(t)
    BY <1>0, <1>1, <1>15, <2>2 DEF DeleteRemove, TypeOK
  <2> QED BY <2>1, <2>2
<1>16. CASE DeleteForget(t)
  <2>1. existsSet' \in [Instances -> SUBSET Hashes]
    BY <1>0, <1>16 DEF DeleteForget, TypeOK
  <2> QED BY <1>0, <1>1, <1>16, <2>1 DEF DeleteForget, disk, TypeOK
<1> QED
  BY <1>3, <1>4, <1>5, <1>6, <1>7, <1>8, <1>9, <1>10, <1>11, <1>12, <1>13, <1>14,
     <1>15, <1>16, Step(t) DEF Step

(* What a call becomes, field by field.                                    *)
LEMMA ProgressFields ==
  ASSUME TypeInv, NEW t \in Threads, NEW todo, NEW yes, Progress(t, todo, yes)
  PROVE  /\ call'[t].op = call[t].op /\ call'[t].hs = call[t].hs
         /\ call'[t].todo = todo
<1>1. call'[t] = Abstract!With(call[t], todo, yes, call[t].out)
  BY DEF TypeInv, TypeOK, Progress, SetCall
<1> QED
  BY SMT, <1>1 DEF Abstract!With

(* A step keeps the operation and the keys of its call, and ends it or     *)
(* takes it to a step of the same operation.                               *)
LEMMA StepCallOK ==
  ASSUME TypeInv, NEW t \in Threads, Step(t), pc'[t] # "idle"
  PROVE  CallOK(t)' /\ call'[t].op = call[t].op /\ call'[t].hs = call[t].hs
<1>0. pc[t] # "idle" /\ CallOK(t) /\ pc \in [Threads -> Steps]
  BY StepShape, CallFacts, Zenon DEF TypeInv, TypeOK
<1>1. ~Error(t) /\ \A yes : ~Return(t, {}, yes)
  BY <1>0 DEF Error, Return
<1>2. Shape(t)
  BY StepShape
<1>3. PICK todo \in SUBSET call[t].hs, yes \in SUBSET Hashes, f \in SUBSET Hashes :
      \E s \in StepsOf(call[t].op) :
          /\ GoesOn(t, todo, yes, f, s)
          /\ s \notin {"lock", "cache", "read", "remove"} => call[t].hs \subseteq Hashes
  BY <1>1, <1>2, Zenon DEF Shape
<1>4. PICK s \in StepsOf(call[t].op) :
          /\ GoesOn(t, todo, yes, f, s)
          /\ s \notin {"lock", "cache", "read", "remove"} => call[t].hs \subseteq Hashes
  BY <1>3
<1>5. pc'[t] = s
  BY <1>0, <1>4 DEF GoesOn, Goto
<1>6. call'[t].op = call[t].op /\ call'[t].hs = call[t].hs /\ call'[t].todo = todo
  <2>1. CASE UNCHANGED call /\ todo = call[t].todo
    BY <2>1
  <2>2. CASE Progress(t, todo, yes)
    BY <2>2, ProgressFields, Zenon
  <2> QED BY <1>4, <2>1, <2>2 DEF GoesOn
<1> QED
  BY <1>0, <1>4, <1>5, <1>6 DEF CallOK

(* What a thread may call, and how the call begins.                        *)
LEMMA InvokeFacts ==
  ASSUME TypeInv, NEW t \in Threads, Invoke(t)
  PROVE  \E op \in Abstract!Ops : \E hs \in Abstract!Args(op) :
           /\ MayStart(t, op, hs)
           /\ call' = [call EXCEPT ![t] = Abstract!NewCall(op, hs)]
           /\ call'[t] = Abstract!NewCall(op, hs)
           /\ pc' = [pc EXCEPT ![t] = FirstStep(op)] /\ pc'[t] = FirstStep(op)
           /\ \A u \in Threads \ {t} : call'[u] = call[u] /\ pc'[u] = pc[u]
<1>0. call \in [Threads -> Abstract!Calls] /\ pc \in [Threads -> Steps]
  BY DEF TypeInv, TypeOK
<1>a. PICK op \in Abstract!Ops : \E hs \in Abstract!Args(op) :
            /\ MayStart(t, op, hs)
            /\ call' = [call EXCEPT ![t] = Abstract!NewCall(op, hs)]
            /\ pc' = [pc EXCEPT ![t] = FirstStep(op)]
  BY Zenon DEF Invoke, Goto
<1>1. PICK hs \in Abstract!Args(op) :
            /\ MayStart(t, op, hs)
            /\ call' = [call EXCEPT ![t] = Abstract!NewCall(op, hs)]
            /\ pc' = [pc EXCEPT ![t] = FirstStep(op)]
  BY <1>a, Zenon
<1>2. call'[t] = Abstract!NewCall(op, hs) /\ pc'[t] = FirstStep(op)
  BY <1>0, <1>1
<1>3. \A u \in Threads \ {t} : call'[u] = call[u] /\ pc'[u] = pc[u]
  BY <1>0, <1>1
<1> QED
  BY <1>1, <1>2, <1>3, Zenon

(* A new call is well formed, and the others stay so.                      *)
LEMMA InvokeTypeInv ==
  ASSUME TypeInv, NEW t \in Threads, Invoke(t)
  PROVE  TypeInv'
<1>a. PICK op \in Abstract!Ops : \E hs \in Abstract!Args(op) :
            /\ call' = [call EXCEPT ![t] = Abstract!NewCall(op, hs)]
            /\ call'[t] = Abstract!NewCall(op, hs)
            /\ pc' = [pc EXCEPT ![t] = FirstStep(op)] /\ pc'[t] = FirstStep(op)
            /\ \A u \in Threads \ {t} : call'[u] = call[u] /\ pc'[u] = pc[u]
  BY InvokeFacts, Zenon
<1>1. PICK hs \in Abstract!Args(op) :
            /\ call' = [call EXCEPT ![t] = Abstract!NewCall(op, hs)]
            /\ call'[t] = Abstract!NewCall(op, hs)
            /\ pc' = [pc EXCEPT ![t] = FirstStep(op)] /\ pc'[t] = FirstStep(op)
            /\ \A u \in Threads \ {t} : call'[u] = call[u] /\ pc'[u] = pc[u]
  BY <1>a, Zenon
<1>2. /\ hs \in SUBSET (Hashes \cup Malformed)
      /\ op \in {"list", "warm"} => hs = Hashes
      /\ op \in {"put", "delete"} => \E h \in Hashes \cup Malformed : hs = {h}
  BY ArgsType, Zenon
<1>3. /\ FirstStep(op) \in StepsOf(op) /\ FirstStep(op) \in Steps
      /\ FirstStep(op) \in {"lock", "cache", "read", "remove"}
  BY FirstStepOf
<1>4. TypeOK'
  <2>1. Abstract!NewCall(op, hs) \in Abstract!Calls
    BY <1>2 DEF Abstract!NewCall, Abstract!Calls
  <2>2. call' \in [Threads -> Abstract!Calls]
    BY <1>1, <2>1 DEF TypeInv, TypeOK
  <2>3. pc' \in [Threads -> Steps]
    BY <1>1, <1>3 DEF TypeInv, TypeOK
  <2> QED BY <2>2, <2>3 DEF Invoke, TypeInv, TypeOK, disk
<1>5. CallOK(t)'
  <2>1. call'[t].op = op /\ call'[t].hs = hs /\ call'[t].todo = hs
    BY SMT, <1>1 DEF Abstract!NewCall
  <2> QED
    BY <1>1, <1>2, <1>3, <2>1 DEF CallOK
<1>6. ASSUME NEW u \in Threads, pc'[u] # "idle" PROVE CallOK(u)'
  <2>1. CASE u = t
    BY <1>5, <2>1
  <2>2. CASE u # t
    BY <1>1, <1>6, <2>2 DEF TypeInv, CallsWellFormed, CallOK
  <2> QED BY <2>1, <2>2
<1> QED
  BY <1>4, <1>6 DEF TypeInv, CallsWellFormed

(* TypeInv is inductive: one case per action of Next.                      *)
LEMMA TypeInductive == TypeInv /\ [Next]_vars => TypeInv'
<1> SUFFICES ASSUME TypeInv, [Next]_vars PROVE TypeInv'
  OBVIOUS
<1>1. ASSUME NEW t \in Threads, Invoke(t) PROVE TypeInv'
  BY <1>1, InvokeTypeInv
<1>2. ASSUME NEW t \in Threads, Step(t) PROVE TypeInv'
  <2>1. TypeOK'
    BY <1>2, StepType
  <2>2. ASSUME NEW u \in Threads, pc'[u] # "idle" PROVE CallOK(u)'
    <3>1. CASE u = t
      BY <1>2, <2>2, <3>1, StepCallOK
    <3>2. CASE u # t
      BY SMT, <1>2, <2>2, <3>2, StepLocal DEF TypeInv, CallsWellFormed, CallOK
    <3> QED BY <3>1, <3>2
  <2> QED BY <2>1, <2>2 DEF TypeInv, CallsWellFormed
<1>3. ASSUME NEW is \in SUBSET Instances, Die(is) PROVE CallsWellFormed'
  BY <1>3 DEF Die, TypeInv, CallsWellFormed, CallOK
<1>4. ASSUME NEW i \in Instances, Kill(i) PROVE TypeInv'
  BY <1>3, <1>4, DieType DEF Kill, TypeInv, TypeOK, disk
<1>5. CASE PowerLoss
  BY <1>3, <1>5, DieType DEF PowerLoss, TypeInv, TypeOK
<1>6. CASE UNCHANGED vars
  BY <1>6 DEF vars, TypeInv, TypeOK, CallsWellFormed, CallOK
<1> QED
  BY <1>1, <1>2, <1>4, <1>5, <1>6 DEF Next

(* A new store over an existing directory satisfies it.                    *)
LEMMA TypeInitial == Init => TypeInv
<1>1. Abstract!NoCall \in Abstract!Calls
  BY DEF Abstract!NoCall, Abstract!With, Abstract!NewCall, Abstract!Calls, Abstract!Ops
<1> QED
  BY <1>1, StoreAssumption DEF Init, TypeInv, TypeOK, CallsWellFormed, Steps

(* Every variable of the store keeps its type: the caches and the directory*)
(* only ever hold well-formed hashes, whatever is called, fails or dies.   *)
THEOREM TypeCorrect == Spec => []TypeOK
<1>1. Spec => []TypeInv
  BY TypeInitial, TypeInductive, PTL DEF Spec
<1> QED
  BY <1>1, PTL DEF TypeInv

-----------------------------------------------------------------------------
(* What a step does to the directory and the caches is one of four things. *)

(* Nothing disappears and no cache changes.                                *)
Grows(t) == blobs \subseteq blobs' /\ existsSet' = existsSet /\ pc[t] # "forget"

(* Blobs that are there, of this call, enter the cache.                    *)
Fills(t) ==
    /\ blobs' = blobs /\ pc[t] = "fill"
    /\ \E X \in SUBSET (call[t].hs \cap blobs) : FillCache(t, X)

(* A Delete removes the file.                                              *)
Removes(t) ==
    /\ blobs' = blobs \ call[t].hs /\ existsSet' = existsSet
    /\ pc[t] = "remove" /\ pc'[t] = "forget"

(* A Delete forgets the entry.                                             *)
Forgets(t) ==
    /\ blobs' = blobs /\ pc[t] = "forget"
    /\ existsSet' = [existsSet EXCEPT ![InstanceOf[t]] = @ \ call[t].hs]

(* Every step of a method has one of the four effects above.               *)
LEMMA StepEffect ==
  ASSUME StoreInv, NEW t \in Threads, Step(t)
  PROVE  pc[t] # "idle" /\ (Grows(t) \/ Fills(t) \/ Removes(t) \/ Forgets(t))
<1>0. /\ pc[t] # "idle" => CallOK(t) /\ InFlightOK(t)
      /\ pc \in [Threads -> Steps]
  BY DEF StoreInv, TypeOK, CallsWellFormed, InFlight
<1> USE DEF Error, InPlace, disk
<1>1. CASE Reject(t)        BY <1>1 DEF Reject, Grows
<1>2. CASE PutLock(t)       BY <1>2 DEF PutLock, Grows
<1>3. CASE PutStat(t)       BY <1>3 DEF PutStat, Grows
<1>4. CASE PutWrite(t)      BY <1>4 DEF PutWrite, Grows
<1>5. CASE PutRename(t)     BY <1>5 DEF PutRename, Grows
<1>6. CASE PutSync(t)       BY <1>6 DEF PutSync, Grows
<1>7. CASE PutFill(t)
  <2>1. call[t].hs \in SUBSET (call[t].hs \cap blobs)
    BY <1>0, <1>7 DEF PutFill, InFlightOK
  <2> QED BY <1>7, <2>1 DEF PutFill, Fills
<1>8. CASE CachePass(t)     BY <1>8 DEF CachePass, Grows
<1>a. ASSUME NEW h, NEW seen, ReadOn(t, h, seen), pc[t] \in {"stat", "read"}
      PROVE  Grows(t)
  BY <1>a DEF ReadOn, Grows
<1>9. CASE ExistsStat(t)
  <2>1. pc[t] = "stat"
    BY <1>9 DEF ExistsStat
  <2>2. CASE Error(t)
    BY <2>1, <2>2 DEF Grows
  <2>3. CASE \E h, seen : ReadOn(t, h, seen)
    BY <1>a, <2>1, <2>3, Zenon
  <2> QED BY <1>9, <2>1, <2>2, <2>3, Zenon DEF ExistsStat
<1>10. CASE ReadShard(t)
  <2>1. pc[t] = "read" /\ \E h, seen : ReadOn(t, h, seen)
    BY <1>10, Zenon DEF ReadShard
  <2> QED BY <1>a, <2>1, Zenon
<1>11. CASE ReadFill(t)
  <2>1. found[t] \in SUBSET (call[t].hs \cap blobs)
    BY <1>0, <1>11 DEF ReadFill, InFlightOK
  <2> QED BY <1>11, <2>1 DEF ReadFill, Fills
<1>12. CASE Get(t)          BY <1>12 DEF Get, Grows
<1>13. CASE DeleteRemove(t)
  <2>1. CASE Error(t)
    BY <1>13, <2>1 DEF DeleteRemove, Grows
  <2>2. CASE ~Error(t)
    BY <1>0, <1>13, <2>2 DEF DeleteRemove, Removes, Goto
  <2> QED BY <2>1, <2>2
<1>14. CASE DeleteForget(t) BY <1>14 DEF DeleteForget, Forgets
<1> QED
  BY <1>1, <1>2, <1>3, <1>4, <1>5, <1>6, <1>7, <1>8, <1>9, <1>10, <1>11, <1>12,
     <1>13, <1>14, Step(t) DEF Step

(* A step invokes nothing, so Deletes stay alone.                          *)
LEMMA StepDeleteAlone ==
  ASSUME StoreInv, NEW t \in Threads, Step(t)
  PROVE  DeleteAlone'
<1>1. \A u \in Threads : pc'[u] # "idle" =>
        pc[u] # "idle" /\ call'[u].op = call[u].op /\ call'[u].hs = call[u].hs
  BY StepLocal, StepCallOK, StepEffect DEF StoreInv, TypeInv
<1> QED
  BY <1>1 DEF StoreInv, DeleteAlone, Busy

(* What the other calls rely on survives a step of this one.               *)
LEMMA StepOthersInFlight ==
  ASSUME StoreInv, NEW t \in Threads, Step(t), NEW u \in Threads, u # t
  PROVE  InFlightOK(u)'
<1>1. call'[u] = call[u] /\ pc'[u] = pc[u] /\ found'[u] = found[u]
  BY StepLocal DEF StoreInv, TypeInv
<1>2. InFlightOK(u) /\ pc[t] # "idle" /\ (pc[u] # "idle" => CallOK(u)) /\ CallOK(t)
  BY StepEffect DEF StoreInv, InFlight, CallsWellFormed
<1>3. CASE Grows(t)
  BY <1>1, <1>2, <1>3 DEF Grows, InFlightOK
<1>4. CASE Fills(t)
  <2>1. PICK X \in SUBSET (call[t].hs \cap blobs) : FillCache(t, X)
    BY <1>4 DEF Fills
  <2>2. ASSUME pc[u] # "idle", call[u].op = "delete" PROVE X \cap call[u].hs = {}
    BY <1>2, <2>1, <2>2 DEF StoreInv, DeleteAlone, Busy
  <2>3. \A i \in Instances : existsSet'[i] \subseteq existsSet[i] \cup X
    BY <2>1 DEF FillCache, StoreInv, TypeOK
  <2> QED BY <1>1, <1>2, <1>4, <2>2, <2>3 DEF Fills, InFlightOK
<1>5. CASE Removes(t)
  <2>1. call[t].op = "delete"
    BY <1>5, OpOfStep DEF Removes, StoreInv, TypeInv
  <2>2. pc[u] # "idle" => call[u].hs \cap call[t].hs = {}
    BY <1>2, <2>1 DEF StoreInv, DeleteAlone, Busy
  <2> QED BY <1>1, <1>2, <1>5, <2>2 DEF Removes, InFlightOK
<1>6. CASE Forgets(t)
  <2>1. \A i \in Instances : existsSet'[i] \subseteq existsSet[i]
    BY <1>6 DEF Forgets, StoreInv, TypeOK
  <2> QED BY <1>1, <1>2, <1>6, <2>1 DEF Forgets, InFlightOK
<1> QED
  BY <1>3, <1>4, <1>5, <1>6, StepEffect

(* No step leaves a cache entry behind its blob.                           *)
LEMMA StepCacheSound ==
  ASSUME StoreInv, NEW t \in Threads, Step(t)
  PROVE  CacheSound'
<1> SUFFICES ASSUME NEW i \in Instances, NEW h \in existsSet'[i] \ blobs'
             PROVE  \E w \in Threads :
                      InstanceOf[w] = i /\ pc'[w] = "forget" /\ call'[w].hs = {h}
  BY DEF CacheSound
<1>0. /\ pc[t] # "idle" /\ CallOK(t) /\ InFlightOK(t)
      /\ InstanceOf[t] \in Instances
      /\ \A w \in Threads \ {t} : pc'[w] = pc[w] /\ call'[w] = call[w]
  BY StepEffect, StepLocal, StoreAssumption
     DEF StoreInv, TypeInv, CallsWellFormed, InFlight
<1>1. ASSUME h \in existsSet[i] \ blobs, pc[t] # "forget"
      PROVE  \E w \in Threads :
               InstanceOf[w] = i /\ pc'[w] = "forget" /\ call'[w].hs = {h}
  <2>1. PICK w \in Threads : InstanceOf[w] = i /\ pc[w] = "forget" /\ call[w].hs = {h}
    BY <1>1 DEF StoreInv, CacheSound
  <2> QED BY <1>0, <1>1, <2>1
<1>2. CASE Grows(t)
  BY <1>1, <1>2 DEF Grows
<1>3. CASE Fills(t)
  BY <1>1, <1>3 DEF Fills, FillCache, StoreInv, TypeOK
<1>4. CASE Removes(t)
  <2>1. /\ call[t].op = "delete" /\ \E k \in Hashes \cup Malformed : call[t].hs = {k}
    <3>1. call[t].op = "delete"
      BY <1>4, OpOfStep DEF Removes, StoreInv, TypeInv
    <3> QED BY <1>0, <3>1 DEF CallOK
  <2>2. CASE h \in blobs
    <3>1. call[t].hs = {h}
      BY <1>4, <2>1, <2>2 DEF Removes
    <3>2. InstanceOf[t] = i
      BY <1>0, <1>4, <2>1, <3>1 DEF Removes, InFlightOK
    <3>3. call'[t].hs = call[t].hs
      BY <1>4, StepCallOK DEF Removes, StoreInv, TypeInv
    <3> QED BY <1>4, <3>1, <3>2, <3>3 DEF Removes
  <2>3. CASE h \notin blobs
    BY <1>1, <1>4, <2>3 DEF Removes
  <2> QED BY <2>2, <2>3
<1>5. CASE Forgets(t)
  <2>1. h \in existsSet[i] \ blobs
    BY <1>5 DEF Forgets, StoreInv, TypeOK
  <2>2. ~(InstanceOf[t] = i /\ call[t].hs = {h})
    BY <1>5 DEF Forgets, StoreInv, TypeOK
  <2>3. PICK w \in Threads : InstanceOf[w] = i /\ pc[w] = "forget" /\ call[w].hs = {h}
    BY <2>1 DEF StoreInv, CacheSound
  <2> QED BY <1>0, <2>2, <2>3
<1> QED
  BY <1>2, <1>3, <1>4, <1>5, StepEffect

(* A nil from Put is the truth: the cache and the stat it rests on are.    *)
LEMMA StepAckedStored ==
  ASSUME StoreInv, NEW t \in Threads, Step(t)
  PROVE  AckedStored'
<1>0. pc[t] # "idle" /\ CallOK(t) /\ InFlightOK(t) /\ InstanceOf[t] \in Instances
  BY StepEffect, StoreAssumption DEF StoreInv, CallsWellFormed, InFlight
<1>1. CASE acked' = acked /\ blobs \subseteq blobs'
  BY <1>1 DEF StoreInv, AckedStored
<1>2. CASE PutLock(t)
  <2>1. ASSUME call[t].hs \subseteq existsSet[InstanceOf[t]]
        PROVE  call[t].hs \subseteq blobs
    <3>1. call[t].op = "put"
      BY <1>2, OpOfStep DEF PutLock, StoreInv, TypeInv
    <3>2. SUFFICES ASSUME NEW h \in call[t].hs, h \notin blobs PROVE FALSE
      OBVIOUS
    <3>3. PICK w \in Threads : pc[w] = "forget" /\ call[w].hs = {h}
      BY SMT, <1>0, <2>1, <3>2 DEF StoreInv, CacheSound
    <3>4. call[w].op = "delete"
      BY <3>3, OpOfStep DEF StoreInv, TypeInv
    <3> QED
      BY <1>0, <3>1, <3>2, <3>3, <3>4 DEF StoreInv, DeleteAlone, Busy
  <2> QED
    BY <1>2, <2>1 DEF PutLock, disk, StoreInv, AckedStored
<1>3. CASE PutFill(t)
  BY <1>0, <1>3 DEF PutFill, InFlightOK, disk, StoreInv, AckedStored
<1>a. CASE Error(t) \/ InPlace(t) \/ \E h, seen : ReadOn(t, h, seen)
  <2>1. acked' = acked /\ UNCHANGED disk
    BY <1>a, Zenon DEF Error, InPlace, ReadOn
  <2> QED BY <1>1, <2>1 DEF disk
<1>4. CASE DeleteRemove(t)
  <2>1. CASE ~Error(t)
    BY <1>4, <2>1 DEF DeleteRemove, StoreInv, AckedStored
  <2> QED BY <1>a, <2>1
<1>5. CASE Reject(t)        BY <1>5, <1>a DEF Reject
<1>6. CASE PutStat(t)       BY <1>6, <1>1, <1>a DEF PutStat, disk
<1>7. CASE PutWrite(t)      BY <1>7, <1>1, <1>a DEF PutWrite
<1>8. CASE PutRename(t)     BY <1>8, <1>1, <1>a DEF PutRename
<1>9. CASE PutSync(t)       BY <1>9, <1>1, <1>a DEF PutSync
<1>10. CASE CachePass(t)    BY <1>10, <1>1 DEF CachePass, disk
<1>11. CASE ExistsStat(t)   BY <1>11, <1>a, Zenon DEF ExistsStat
<1>12. CASE ReadShard(t)    BY <1>12, <1>a, Zenon DEF ReadShard
<1>13. CASE ReadFill(t)     BY <1>13, <1>1 DEF ReadFill, disk
<1>14. CASE Get(t)          BY <1>14, <1>1, <1>a DEF Get, disk
<1>15. CASE DeleteForget(t) BY <1>15, <1>1 DEF DeleteForget, disk
<1> QED
  BY <1>2, <1>3, <1>4, <1>5, <1>6, <1>7, <1>8, <1>9, <1>10, <1>11, <1>12, <1>13,
     <1>14, <1>15, Step(t) DEF Step

(* What the call that takes the step relies on stays true.                 *)
LEMMA StepOwnInFlight ==
  ASSUME StoreInv, NEW t \in Threads, Step(t)
  PROVE  InFlightOK(t)'
<1>0. /\ pc[t] # "idle" /\ CallOK(t) /\ InFlightOK(t)
      /\ found \in [Threads -> SUBSET Hashes] /\ pc \in [Threads -> Steps]
      /\ call \in [Threads -> Abstract!Calls] /\ call[t] \in Abstract!Calls
  BY StepEffect DEF StoreInv, TypeOK, CallsWellFormed, InFlight
<1>1. CASE pc'[t] = "idle"
  <2>1. Shape(t) /\ found \in [Threads -> SUBSET Hashes] /\ call[t].op \in Abstract!Ops
    BY <1>0, StepShape, CallFacts, Zenon DEF StoreInv, TypeInv
  <2>2. ASSUME NEW todo, NEW yes, NEW f, NEW s \in StepsOf(call[t].op),
               GoesOn(t, todo, yes, f, s)
        PROVE  FALSE
    <3>1. s # "idle"
      BY <2>1 DEF StepsOf, Abstract!Ops
    <3> QED BY <1>0, <1>1, <2>2, <3>1 DEF GoesOn, Goto
  <2>3. CASE Error(t)
    BY <1>1, <2>1, <2>3 DEF Error, InFlightOK
  <2>4. CASE \E yes \in SUBSET Hashes : Return(t, {}, yes)
    BY <1>1, <2>1, <2>4 DEF Return, InFlightOK
  <2> QED BY <2>1, <2>2, <2>3, <2>4, Zenon DEF Shape
<1>2. CASE pc'[t] # "idle"
  <2>1. call'[t].op = call[t].op /\ call'[t].hs = call[t].hs
    BY <1>2, StepCallOK DEF StoreInv, TypeInv
  <2>a. ~Error(t) /\ \A todo, yes : ~Return(t, todo, yes)
    BY <1>0, <1>2 DEF Error, Return
  <2>2. ASSUME found'[t] \subseteq blobs', found'[t] \subseteq call[t].hs,
               existsSet' = existsSet,
               call[t].op = "delete" => found'[t] = {},
               call[t].op = "put" /\ pc'[t] \in {"sync", "fill"}
                   => call[t].hs \subseteq blobs'
        PROVE  InFlightOK(t)'
    BY <1>0, <1>2, <2>1, <2>2 DEF InFlightOK
  <2>b. /\ found[t] \subseteq blobs /\ found[t] \subseteq call[t].hs
        /\ call[t].op = "delete" => found[t] = {}
        /\ call[t].op = "put" /\ pc[t] \in {"sync", "fill"} => call[t].hs \subseteq blobs
    BY <1>0 DEF InFlightOK
  <2>c. ASSUME UNCHANGED <<blobs, existsSet, found>>,
               call[t].op = "put" /\ pc'[t] \in {"sync", "fill"}
                   => call[t].hs \subseteq blobs
        PROVE  InFlightOK(t)'
    BY <2>2, <2>b, <2>c
  <2>d. ASSUME InPlace(t), call[t].hs \subseteq blobs PROVE InFlightOK(t)'
    BY <2>c, <2>d DEF InPlace, disk
  <2>3. CASE PutLock(t)
    BY <1>0, <2>a, <2>c, <2>3 DEF PutLock, Goto, disk
  <2>4. CASE PutStat(t)
    <3>1. CASE InPlace(t) /\ call[t].hs \subseteq blobs
      BY <2>d, <3>1
    <3>2. CASE Goto(t, "write") /\ UNCHANGED <<disk, existsSet, found>>
      BY <1>0, <2>c, <3>2 DEF Goto, disk
    <3> QED BY <2>4, <3>1, <3>2 DEF PutStat
  <2>5. CASE PutWrite(t)
    BY <1>0, <2>a, <2>c, <2>5 DEF PutWrite, Goto
  <2>6. CASE PutRename(t)
    <3>1. CASE InPlace(t) /\ call[t].hs \subseteq blobs
      BY <2>d, <3>1
    <3>2. CASE blobs' = blobs \cup call[t].hs /\ UNCHANGED <<existsSet, found>>
      BY <2>2, <2>b, <3>2
    <3> QED BY <2>a, <2>6, <3>1, <3>2 DEF PutRename
  <2>7. CASE PutSync(t)
    BY <1>0, <2>a, <2>b, <2>c, <2>7 DEF PutSync
  <2>8. CASE CachePass(t)
    <3>1. call[t].op = "exists"
      BY <2>8, OpOfStep DEF CachePass, StoreInv, TypeInv
    <3> QED BY <2>a, <2>c, <2>8, <3>1 DEF CachePass, disk
  <2>9. ASSUME NEW h \in call[t].todo, NEW seen \in SUBSET ({h} \cap blobs),
               ReadOn(t, h, seen), call[t].op \in {"exists", "list", "warm"}
        PROVE  InFlightOK(t)'
    <3>1. /\ found'[t] = found[t] \cup seen
          /\ UNCHANGED <<disk, existsSet, acked>>
      BY <1>0, <2>a, <2>9 DEF ReadOn
    <3>2. h \in call[t].hs
      BY <1>0, <2>9 DEF CallOK
    <3> QED BY <2>2, <2>b, <2>9, <3>1, <3>2 DEF disk
  <2>10. CASE ExistsStat(t)
    <3>1. PICK h \in call[t].todo : ReadOn(t, h, {h} \cap blobs)
      BY <2>a, <2>10 DEF ExistsStat
    <3>2. {h} \cap blobs \in SUBSET ({h} \cap blobs) /\ call[t].op = "exists"
      BY <2>10 DEF ExistsStat
    <3> QED BY <2>9, <3>1, <3>2
  <2>11. CASE ReadShard(t)
    <3>1. PICK h \in call[t].todo : ReadOn(t, h, {h} \cap blobs) \/ ReadOn(t, h, {})
      BY <2>11 DEF ReadShard
    <3>2. /\ {h} \cap blobs \in SUBSET ({h} \cap blobs) /\ {} \in SUBSET ({h} \cap blobs)
          /\ call[t].op \in {"exists", "list", "warm"}
      BY <2>11 DEF ReadShard
    <3> QED BY <2>9, <3>1, <3>2
  <2>12. CASE DeleteRemove(t)
    <3>1. call[t].op = "delete"
      BY <2>12, OpOfStep DEF DeleteRemove, StoreInv, TypeInv
    <3> QED BY <2>2, <2>a, <2>b, <2>12, <3>1 DEF DeleteRemove
  <2>13. CASE Reject(t) \/ PutFill(t) \/ ReadFill(t) \/ Get(t) \/ DeleteForget(t)
    BY <2>a, <2>13 DEF Reject, PutFill, ReadFill, Get, DeleteForget
  <2> QED
    BY <2>3, <2>4, <2>5, <2>6, <2>7, <2>8, <2>10, <2>11, <2>12, <2>13, Step(t) DEF Step
<1> QED BY <1>1, <1>2

(* A call that starts where MayStart allows it keeps the invariant.        *)
LEMMA InvokeSafe ==
  ASSUME StoreInv, DeleteMode = "quiet", NEW t \in Threads, Invoke(t)
  PROVE  DeleteAlone' /\ InFlight' /\ CacheSound' /\ AckedStored'
<1>0. /\ call \in [Threads -> Abstract!Calls] /\ pc \in [Threads -> Steps]
      /\ found \in [Threads -> SUBSET Hashes]
      /\ pc[t] = "idle" /\ found' = found /\ blobs' = blobs /\ acked' = acked
      /\ existsSet' = existsSet
  BY DEF Invoke, StoreInv, TypeOK, disk
<1>1. PICK op \in Abstract!Ops : \E hs \in Abstract!Args(op) :
            /\ MayStart(t, op, hs)
            /\ call'[t] = Abstract!NewCall(op, hs) /\ pc'[t] = FirstStep(op)
            /\ \A u \in Threads \ {t} : call'[u] = call[u] /\ pc'[u] = pc[u]
  BY InvokeFacts, Zenon DEF StoreInv, TypeInv
<1>2. PICK hs \in Abstract!Args(op) :
            /\ MayStart(t, op, hs)
            /\ call'[t] = Abstract!NewCall(op, hs) /\ pc'[t] = FirstStep(op)
            /\ \A u \in Threads \ {t} : call'[u] = call[u] /\ pc'[u] = pc[u]
  BY <1>1, Zenon
<1>3. /\ call'[t].op = op /\ call'[t].hs = hs /\ pc'[t] = FirstStep(op)
      /\ \A u \in Threads \ {t} : call'[u] = call[u] /\ pc'[u] = pc[u]
  <2>1. call'[t] = Abstract!NewCall(op, hs)
    BY <1>2
  <2>2. call'[t].op = op /\ call'[t].hs = hs
    BY SMT, <2>1 DEF Abstract!NewCall
  <2> QED BY <1>2, <2>2
<1>4. FirstStep(op) \notin {"idle", "sync", "fill", "forget"}
  BY DEF FirstStep, Abstract!Ops
<1>5. DeleteAlone'
  <2> SUFFICES ASSUME NEW a \in Threads, NEW b \in Threads, a # b,
                      pc'[a] # "idle", call'[a].op = "delete", pc'[b] # "idle"
               PROVE  call'[b].hs \cap call'[a].hs = {}
    BY DEF DeleteAlone, Busy
  <2>1. CASE a = t
    <3>1. Busy(b, hs) => op # "delete"
      BY <2>1, <1>2 DEF MayStart
    <3> QED BY <3>1, <2>1, <1>3 DEF Busy
  <2>2. CASE b = t
    <3>1. Busy(a, hs) => call[a].op # "delete"
      BY <2>2, <1>2 DEF MayStart
    <3>2. call[a].hs \cap hs = {}
      BY <3>1, <2>2, <1>3 DEF Busy
    <3> QED BY <3>2, <2>2, <1>3
  <2>3. CASE a # t /\ b # t
    <3>1. ~Busy(b, call[a].hs)
      BY <2>3, <1>3 DEF StoreInv, DeleteAlone
    <3> QED BY <3>1, <2>3, <1>3 DEF Busy
  <2> QED BY <2>1, <2>2, <2>3
<1>6. InFlight'
  <2>1. InFlightOK(t)'
    BY <1>0, <1>2, <1>3, <1>4, SMTT(30) DEF StoreInv, InFlight, InFlightOK, MayStart
  <2>2. \A u \in Threads \ {t} : InFlightOK(u)'
    BY <1>0, <1>3 DEF StoreInv, InFlight, InFlightOK
  <2> QED BY <2>1, <2>2 DEF InFlight
<1>7. CacheSound'
  <2>1. ASSUME NEW i \in Instances, NEW h \in existsSet[i] \ blobs
        PROVE  \E u \in Threads : InstanceOf[u] = i /\ pc'[u] = "forget" /\ call'[u].hs = {h}
    <3>1. PICK u \in Threads : InstanceOf[u] = i /\ pc[u] = "forget" /\ call[u].hs = {h}
      BY <2>1 DEF StoreInv, CacheSound
    <3>2. u # t
      BY <3>1 DEF Invoke
    <3> QED BY <3>1, <3>2, <1>3
  <2> QED BY <2>1, <1>0 DEF CacheSound
<1> QED
  BY <1>0, <1>5, <1>6, <1>7 DEF StoreInv, AckedStored

(* A killed process takes its cache along and leaves the files.            *)
LEMMA KillSafe ==
  ASSUME StoreInv, NEW i \in Instances, Kill(i)
  PROVE  DeleteAlone' /\ InFlight' /\ CacheSound' /\ AckedStored'
<1>0. /\ blobs' = blobs /\ acked' = acked /\ Die({i})
  BY DEF Kill, disk
<1>1. \A u \in Threads :
        IF InstanceOf[u] = i THEN pc'[u] = "idle" /\ found'[u] = {}
        ELSE call'[u] = call[u] /\ pc'[u] = pc[u] /\ found'[u] = found[u]
  BY <1>0 DEF Die
<1>2. \A j \in Instances : existsSet'[j] = IF j = i THEN {} ELSE existsSet[j]
  BY <1>0 DEF Die
<1>3. DeleteAlone'
  BY <1>1 DEF StoreInv, DeleteAlone, Busy
<1>4. InFlight'
  <2>1. ASSUME NEW u \in Threads, InstanceOf[u] = i PROVE InFlightOK(u)'
    <3>1. pc'[u] = "idle" /\ found'[u] = {}
      BY <2>1, <1>1
    <3> QED BY <3>1 DEF InFlightOK
  <2>2. ASSUME NEW u \in Threads, InstanceOf[u] # i PROVE InFlightOK(u)'
    <3>1. call'[u] = call[u] /\ pc'[u] = pc[u] /\ found'[u] = found[u]
      BY <2>2, <1>1
    <3>2. \A j \in Instances : existsSet'[j] \subseteq existsSet[j]
      BY <1>2
    <3>3. InFlightOK(u)
      BY DEF StoreInv, InFlight
    <3> QED BY <3>1, <3>2, <3>3, <1>0 DEF InFlightOK
  <2> QED BY <2>1, <2>2 DEF InFlight
<1>5. CacheSound'
  <2>1. ASSUME NEW j \in Instances, NEW h \in existsSet'[j] \ blobs
        PROVE  \E u \in Threads : InstanceOf[u] = j /\ pc'[u] = "forget" /\ call'[u].hs = {h}
    <3>1. j # i /\ h \in existsSet[j] \ blobs
      BY <1>2
    <3>2. PICK u \in Threads : InstanceOf[u] = j /\ pc[u] = "forget" /\ call[u].hs = {h}
      BY <3>1 DEF StoreInv, CacheSound
    <3> QED BY <3>1, <3>2, <1>1
  <2> QED BY <2>1, <1>0 DEF CacheSound
<1> QED
  BY <1>0, <1>3, <1>4, <1>5 DEF StoreInv, AckedStored

(* StoreInv is inductive where callers keep Deletes apart and the power    *)
(* holds.                                                                  *)
LEMMA StoreInvInductive ==
  ASSUME DeleteMode = "quiet", "power" \notin Faults
  PROVE  StoreInv /\ [Next]_vars => StoreInv'
<1> SUFFICES ASSUME StoreInv, [Next]_vars PROVE StoreInv'
  OBVIOUS
<1>0. TypeInv'
  BY TypeInductive DEF StoreInv, TypeInv
<1>1. ASSUME NEW t \in Threads, Invoke(t) PROVE StoreInv'
  BY <1>0, <1>1, InvokeSafe DEF StoreInv, TypeInv
<1>2. ASSUME NEW t \in Threads, Step(t) PROVE StoreInv'
  <2>1. InFlight'
    BY <1>2, StepOwnInFlight, StepOthersInFlight DEF InFlight
  <2> QED
    BY <1>0, <1>2, <2>1, StepDeleteAlone, StepCacheSound, StepAckedStored
       DEF StoreInv, TypeInv
<1>3. ASSUME NEW i \in Instances, Kill(i) PROVE StoreInv'
  BY <1>0, <1>3, KillSafe DEF StoreInv, TypeInv
<1>4. CASE PowerLoss
  BY <1>4 DEF PowerLoss
<1>5. CASE UNCHANGED vars
  <2>1. /\ blobs' = blobs /\ existsSet' = existsSet /\ call' = call /\ pc' = pc
        /\ found' = found /\ acked' = acked
    BY <1>5 DEF vars
  <2>2. DeleteAlone' /\ InFlight'
    BY <2>1 DEF StoreInv, DeleteAlone, Busy, InFlight, InFlightOK
  <2>3. CacheSound'
    <3>1. ASSUME NEW i \in Instances, NEW h \in existsSet[i] \ blobs
          PROVE  \E t \in Threads : InstanceOf[t] = i /\ pc'[t] = "forget" /\ call'[t].hs = {h}
      <4>1. PICK t \in Threads : InstanceOf[t] = i /\ pc[t] = "forget" /\ call[t].hs = {h}
        BY <3>1 DEF StoreInv, CacheSound
      <4> QED BY <4>1, <2>1
    <3> QED BY <3>1, <2>1 DEF CacheSound
  <2>4. AckedStored'
    BY <2>1 DEF StoreInv, AckedStored
  <2> QED
    BY <2>2, <2>3, <2>4, <1>0 DEF StoreInv, TypeInv
<1> QED
  BY <1>1, <1>2, <1>3, <1>4, <1>5 DEF Next

(* The invariant holds of a new store with empty caches.                   *)
LEMMA StoreInvInitial == Init => StoreInv
<1> SUFFICES ASSUME Init PROVE StoreInv
  OBVIOUS
<1>1. TypeOK /\ CallsWellFormed
  BY TypeInitial DEF TypeInv
<1> QED
  BY <1>1 DEF Init, StoreInv, DeleteAlone, Busy, InFlight, InFlightOK, CacheSound,
     AckedStored

(* The inductive invariant holds in every reachable state.                 *)
THEOREM StoreInvariant ==
  ASSUME DeleteMode = "quiet", "power" \notin Faults
  PROVE  Spec => []StoreInv
BY StoreInvInitial, StoreInvInductive, PTL DEF Spec

(* The exists cache of no instance ever vouches for a missing blob, but    *)
(* between the two steps of a Delete: for any number of goroutines calling *)
(* any number of instances, with any system call failing and any process   *)
(* killed at any point, so long as Deletes do not overlap other calls.     *)
THEOREM CacheIsSound ==
  ASSUME DeleteMode = "quiet", "power" \notin Faults
  PROVE  Spec => []CacheSound
BY StoreInvariant, PTL DEF StoreInv

(* Under the same conditions a blob whose Put returned nil is in the store *)
(* until it is deleted.                                                    *)
THEOREM AckedBlobsStay ==
  ASSUME DeleteMode = "quiet", "power" \notin Faults
  PROVE  Spec => []AckedStored
BY StoreInvariant, PTL DEF StoreInv

-----------------------------------------------------------------------------
(* What a call has done when it is at a step: nothing, at the first steps  *)
(* of a Put, a Get or a Delete, and all of it at the last ones.            *)
CallState(t) ==
    LET c == call[t] IN
    /\ pc[t] = "idle" <=> c.out # "pending"
    /\ \/ pc[t] \in {"lock", "write", "rename", "cache", "remove"}
       \/ pc[t] = "stat" /\ c.op = "put"
       \/ pc[t] = "read" /\ c.op = "get"
       => c.todo = c.hs /\ c.yes = {}
    /\ pc[t] \in {"sync", "fill", "forget"} => c.todo = {}
    /\ pc[t] \in {"sync", "forget"} \/ (pc[t] = "fill" /\ c.op = "put") => c.yes = {}

RefinementInv == StoreInv /\ \A t \in Threads : CallState(t)

(* What the caller of t sees after an update of its call.                  *)
LEMMA SetCallFacts ==
  ASSUME TypeOK, NEW t \in Threads, NEW todo, NEW yes, NEW out, SetCall(t, todo, yes, out)
  PROVE  /\ call'[t].op = call[t].op /\ call'[t].hs = call[t].hs
         /\ call'[t].todo = todo /\ call'[t].yes = yes /\ call'[t].out = out
BY DEF TypeOK, SetCall, Abstract!With

(* An error is a failure of the abstract call.                             *)
LEMMA ErrorFails ==
  ASSUME RefinementInv, NEW t \in Threads, pc[t] # "idle", Error(t)
  PROVE  Abstract!Next /\ CallState(t)'
<1>1. call[t].out = "pending" /\ TypeOK
  BY DEF RefinementInv, StoreInv, CallState, TypeOK, Abstract!Calls
<1>2. Abstract!Fail(t)
  BY <1>1 DEF Error, SetCall, Abstract!Fail, Abstract!Pending, disk
<1>3. pc'[t] = "idle" /\ call'[t].out = "err"
  BY <1>1, SetCallFacts DEF Error, TypeOK
<1> QED
  BY <1>2, <1>3 DEF Abstract!Next, CallState

(* A step that acts on the keys ds, and answers with seen, is an effect.   *)
LEMMA ActsOn ==
  ASSUME RefinementInv, NEW t \in Threads, pc[t] # "idle",
         NEW ds \in SUBSET Hashes, ds \subseteq call[t].todo,
         NEW seen \in SUBSET (ds \cap blobs), NEW o \in {"pending", "ok"},
         o = "ok" => ds = call[t].todo,
         call[t].op = "get" => ds \subseteq blobs,
         call[t].op \in {"get", "exists"} => seen = ds \cap blobs,
         call[t].op \in {"put", "delete"} => seen = {},
         blobs' = CASE call[t].op = "put" -> blobs \cup ds
                    [] call[t].op = "delete" -> blobs \ ds
                    [] OTHER -> blobs,
         NEW todo, NEW yes, todo = call[t].todo \ ds, yes = call[t].yes \cup seen,
         SetCall(t, todo, yes, o)
  PROVE  Abstract!Next
<1>1. Abstract!Pending(t)
  BY DEF RefinementInv, CallState, Abstract!Pending
<1>2. call' = [call EXCEPT ![t] = Abstract!With(call[t], call[t].todo \ ds, call[t].yes \cup seen, o)]
  BY DEF SetCall
<1>3. Abstract!Effect(t, ds)
  BY <1>1, <1>2 DEF Abstract!Effect
<1> QED
  BY <1>3 DEF Abstract!Next

(* A cached hash that a call asks for is in the directory: the only Delete *)
(* that could still forget it would overlap the call.                      *)
LEMMA CacheHits ==
  ASSUME StoreInv, NEW t \in Threads, pc[t] \notin {"idle", "forget"},
         NEW h \in call[t].hs, h \in existsSet[InstanceOf[t]]
  PROVE  h \in blobs
<1> SUFFICES ASSUME h \notin blobs PROVE FALSE
  OBVIOUS
<1>1. InstanceOf[t] \in Instances
  BY StoreAssumption
<1>2. PICK u \in Threads : pc[u] = "forget" /\ call[u].hs = {h}
  BY SMT, <1>1 DEF StoreInv, CacheSound
<1>3. call[u].op = "delete" /\ u # t
  BY <1>2, OpOfStep DEF StoreInv, TypeInv
<1>4. Busy(t, {h})
  BY DEF Busy
<1> QED
  BY <1>2, <1>3, <1>4 DEF StoreInv, DeleteAlone

-----------------------------------------------------------------------------
(* What a step starts from.                                                *)
LEMMA AtStep ==
  ASSUME RefinementInv, NEW t \in Threads, pc[t] # "idle"
  PROVE  /\ TypeOK /\ TypeInv /\ StoreInv /\ CallState(t) /\ CallOK(t)
         /\ call[t].out = "pending" /\ call[t].op \in Abstract!Ops
         /\ call[t].todo \subseteq call[t].hs
<1>1. TypeOK /\ TypeInv /\ StoreInv /\ CallState(t)
  BY DEF RefinementInv, StoreInv, TypeInv
<1> QED
  BY <1>1, CallFacts, Zenon DEF CallState

(* A call that returns has nothing left to do.                             *)
LEMMA Returns ==
  ASSUME RefinementInv, NEW t \in Threads, NEW todo, NEW yes, Return(t, todo, yes)
  PROVE  CallState(t)' /\ SetCall(t, todo, yes, "ok")
<1>1. TypeOK
  BY DEF RefinementInv, StoreInv
<1>2. pc'[t] = "idle" /\ SetCall(t, todo, yes, "ok")
  BY <1>1 DEF Return, TypeOK
<1>3. call'[t].out = "ok"
  BY <1>1, <1>2, SetCallFacts
<1> QED
  BY <1>2, <1>3 DEF CallState

(* A call that goes on.                                                    *)
LEMMA Proceeds ==
  ASSUME RefinementInv, NEW t \in Threads, pc[t] # "idle", NEW todo, NEW yes,
         Progress(t, todo, yes)
  PROVE  /\ call'[t].op = call[t].op /\ call'[t].hs = call[t].hs
         /\ call'[t].todo = todo /\ call'[t].yes = yes /\ call'[t].out = "pending"
         /\ SetCall(t, todo, yes, "pending")
<1>1. SetCall(t, todo, yes, "pending")
  BY AtStep DEF Progress
<1>2. TypeOK
  BY AtStep
<1>3. /\ call'[t].op = call[t].op /\ call'[t].hs = call[t].hs
      /\ call'[t].todo = todo /\ call'[t].yes = yes /\ call'[t].out = "pending"
  BY <1>1, <1>2, SetCallFacts
<1> QED
  BY <1>1, <1>3

(* A Put acts when its file gets its name, when it finds it there, or when *)
(* the cache says so.                                                      *)
LEMMA PutInPlace ==
  ASSUME RefinementInv, NEW t \in Threads, call[t].op = "put",
         pc[t] \in {"stat", "rename"}, NEW s \in {"sync", "fill"},
         Progress(t, {}, call[t].yes), Goto(t, s), blobs' = blobs \cup call[t].hs
  PROVE  Abstract!Next /\ CallState(t)'
<1>1. /\ TypeOK /\ call[t].todo = call[t].hs /\ call[t].yes = {}
      /\ call[t].hs \in SUBSET Hashes
  BY AtStep DEF CallState, CallOK
<1>2. /\ call'[t].op = "put" /\ call'[t].todo = {} /\ call'[t].yes = {}
      /\ call'[t].out = "pending" /\ SetCall(t, {}, {}, "pending")
  <2>1. pc[t] # "idle" /\ Progress(t, {}, {})
    BY <1>1
  <2> QED BY <2>1, Proceeds
<1>3. pc'[t] = s
  BY <1>1 DEF Goto, TypeOK
<1>4. Abstract!Next
  BY <1>1, <1>2, ActsOn
<1> QED
  BY <1>2, <1>3, <1>4 DEF CallState

(* A step that only moves the call on, within what it has done.            *)
LEMMA MovesOn ==
  ASSUME RefinementInv, NEW t \in Threads, call[t].op = "put",
         NEW s \in {"stat", "write", "rename", "fill"}, Goto(t, s),
         s = "fill" => pc[t] = "sync",
         s # "fill" => pc[t] \in {"lock", "stat", "write"},
         UNCHANGED <<call, blobs>>
  PROVE  [Abstract!Next]_Abstract!vars /\ CallState(t)'
<1>1. CallState(t) /\ pc'[t] = s /\ call'[t] = call[t] /\ pc[t] # "idle"
  BY DEF RefinementInv, StoreInv, TypeOK, Goto
<1>2. CallState(t)'
  BY <1>1 DEF CallState
<1> QED
  BY <1>2 DEF Abstract!vars

(* putBlob, step by step.                                                  *)
LEMMA PutRefines ==
  ASSUME RefinementInv, NEW t \in Threads,
         PutLock(t) \/ PutStat(t) \/ PutWrite(t) \/ PutRename(t) \/ PutSync(t) \/ PutFill(t)
  PROVE  [Abstract!Next]_Abstract!vars /\ CallState(t)'
<1>0. /\ pc[t] \in {"lock", "stat", "write", "rename", "sync", "fill"} /\ call[t].op = "put"
      /\ TypeInv
  <2>1. TypeInv
    BY DEF RefinementInv, StoreInv, TypeInv
  <2>2. \/ pc[t] \in {"lock", "write", "rename", "sync"}
        \/ pc[t] \in {"stat", "fill"} /\ call[t].op = "put"
    BY DEF PutLock, PutStat, PutWrite, PutRename, PutSync, PutFill
  <2> QED
    BY <2>1, <2>2, OpOfStep
<1>e. ASSUME Error(t) PROVE Abstract!Next /\ CallState(t)'
  BY <1>0, <1>e, ErrorFails
<1>p. ASSUME pc[t] \in {"stat", "rename"}, call[t].hs \subseteq blobs, InPlace(t)
      PROVE  Abstract!Next /\ CallState(t)'
  <2>1. blobs' = blobs \cup call[t].hs
    BY <1>p DEF InPlace, disk
  <2> QED
    BY <1>0, <1>p, <2>1, PutInPlace DEF InPlace
<1>1. CASE PutLock(t)
  <2>1. CASE call[t].hs \subseteq existsSet[InstanceOf[t]] /\ Return(t, {}, {})
    <3>1. call[t].todo = call[t].hs /\ call[t].yes = {} /\ StoreInv /\ pc[t] = "lock"
      BY <1>1, AtStep DEF CallState, PutLock
    <3>2. call[t].hs \subseteq blobs /\ call[t].hs \in SUBSET Hashes
      BY <1>1, <2>1, <3>1, CacheHits DEF PutLock
    <3>3. blobs' = blobs \cup call[t].hs
      BY <1>1, <3>2 DEF PutLock, disk
    <3>4. SetCall(t, {}, {}, "ok") /\ CallState(t)'
      BY <2>1, Returns
    <3> QED
      BY <1>0, <3>1, <3>2, <3>3, <3>4, ActsOn
  <2>2. CASE Goto(t, "stat") /\ UNCHANGED call
    <3>1. pc[t] = "lock" /\ UNCHANGED blobs
      BY <1>1 DEF PutLock, disk
    <3> QED
      BY <1>0, <2>2, <3>1, MovesOn
  <2> QED
    BY <1>1, <2>1, <2>2 DEF PutLock
<1>2. CASE PutStat(t)
  <2>1. CASE call[t].hs \subseteq blobs /\ InPlace(t)
    BY <1>2, <2>1, <1>p DEF PutStat
  <2>2. CASE Goto(t, "write") /\ UNCHANGED <<disk, call>>
    BY <1>0, <1>2, <2>2, MovesOn DEF PutStat, disk
  <2> QED
    BY <1>2, <2>1, <2>2 DEF PutStat
<1>3. CASE PutWrite(t)
  <2>1. CASE Goto(t, "rename") /\ UNCHANGED <<blobs, call>>
    BY <1>0, <1>3, <2>1, MovesOn DEF PutWrite
  <2> QED
    BY <1>3, <2>1, <1>e DEF PutWrite
<1>4. CASE PutRename(t)
  <2>1. CASE blobs' = blobs \cup call[t].hs /\ Progress(t, {}, call[t].yes) /\ Goto(t, "sync")
    BY <1>0, <1>4, <2>1, PutInPlace DEF PutRename
  <2> QED
    BY <1>4, <2>1, <1>e, <1>p DEF PutRename
<1>5. CASE PutSync(t)
  <2>1. CASE Goto(t, "fill") /\ UNCHANGED <<blobs, call>>
    BY <1>0, <1>5, <2>1, MovesOn DEF PutSync
  <2> QED
    BY <1>5, <2>1, <1>e DEF PutSync
<1>6. CASE PutFill(t)
  <2>1. call[t].todo = {} /\ call[t].yes = {} /\ Return(t, {}, {}) /\ blobs' = blobs
    BY <1>0, <1>6, AtStep DEF CallState, PutFill, disk
  <2>2. SetCall(t, {}, {}, "ok") /\ CallState(t)'
    BY <2>1, Returns
  <2> QED
    BY <1>0, <2>1, <2>2, ActsOn
<1> QED
  BY <1>1, <1>2, <1>3, <1>4, <1>5, <1>6

-----------------------------------------------------------------------------
(* The cache pass of Exists and ExistsBatch answers for the hits.          *)
LEMMA CachePassRefines ==
  ASSUME RefinementInv, NEW t \in Threads, CachePass(t)
  PROVE  Abstract!Next /\ CallState(t)'
<1> DEFINE hits == call[t].hs \cap existsSet[InstanceOf[t]]
           misses == call[t].hs \ hits
<1>1. /\ pc[t] = "cache" /\ call[t].hs \subseteq Hashes /\ blobs' = blobs
      /\ \/ misses = {} /\ Return(t, {}, hits)
         \/ Progress(t, misses, hits) /\ Goto(t, "stat")
  BY DEF CachePass, disk
<1>2. /\ TypeOK /\ TypeInv /\ StoreInv
      /\ call[t].todo = call[t].hs /\ call[t].yes = {}
  BY <1>1, AtStep DEF CallState
<1>3. call[t].op = "exists"
  BY <1>1, <1>2, OpOfStep
<1>4. hits \subseteq blobs /\ hits \subseteq call[t].hs /\ hits \in SUBSET Hashes
  BY <1>1, <1>2, CacheHits
<1>5. misses = call[t].todo \ hits /\ hits = call[t].yes \cup hits
  BY <1>2
<1>6. hits \in SUBSET (hits \cap blobs) /\ hits = hits \cap blobs /\ hits \subseteq call[t].todo
  BY <1>2, <1>4
<1> HIDE DEF hits
<1>7. CASE misses = {} /\ Return(t, {}, hits)
  <2>1. SetCall(t, {}, hits, "ok") /\ CallState(t)'
    BY <1>7, Returns
  <2>2. {} = call[t].todo \ hits /\ hits = call[t].todo
    BY <1>5, <1>6, <1>7
  <2> QED
    BY <1>1, <1>3, <1>4, <1>5, <1>6, <2>1, <2>2, ActsOn
<1>8. CASE Progress(t, misses, hits) /\ Goto(t, "stat")
  <2>1. /\ call'[t].op = "exists" /\ call'[t].out = "pending"
        /\ SetCall(t, misses, hits, "pending")
    BY <1>1, <1>3, <1>8, Proceeds
  <2>2. pc'[t] = "stat"
    BY <1>2, <1>8 DEF Goto, TypeOK
  <2>3. Abstract!Next
    BY <1>1, <1>3, <1>4, <1>5, <1>6, <2>1, ActsOn
  <2> QED
    BY <2>1, <2>2, <2>3 DEF CallState
<1> QED
  BY <1>1, <1>7, <1>8

(* One more stat, or one more directory read, answers for its key.         *)
LEMMA ReadOnRefines ==
  ASSUME RefinementInv, NEW t \in Threads, pc[t] \in {"stat", "read"},
         call[t].op \in {"exists", "list", "warm"},
         NEW h \in call[t].todo, NEW seen \in SUBSET ({h} \cap blobs),
         call[t].op = "exists" => seen = {h} \cap blobs,
         ReadOn(t, h, seen)
  PROVE  Abstract!Next /\ CallState(t)'
<1> DEFINE todo == call[t].todo \ {h}
           yes == call[t].yes \cup seen
<1>1. TypeOK /\ TypeInv /\ CallOK(t) /\ CallState(t)
  BY AtStep
<1>2. h \in Hashes
  BY <1>1 DEF CallOK, StepsOf
<1>3. blobs' = blobs
  BY DEF ReadOn, disk
<1>4. todo = {} => {h} = call[t].todo
  OBVIOUS
<1>5. ASSUME NEW o \in {"pending", "ok"}, o = "ok" => todo = {}, SetCall(t, todo, yes, o)
      PROVE  Abstract!Next
  <2>1. PICK ds \in SUBSET Hashes : ds = {h}
    BY <1>2
  <2>2. /\ ds \subseteq call[t].todo /\ seen \in SUBSET (ds \cap blobs) /\ pc[t] # "idle"
        /\ o = "ok" => ds = call[t].todo
        /\ call[t].op \in {"get", "exists"} => seen = ds \cap blobs
    BY <1>4, <1>5, <2>1
  <2>3. /\ todo = call[t].todo \ ds /\ yes = call[t].yes \cup seen
        /\ call[t].op \notin {"get", "put", "delete"}
    BY <2>1
  <2>4. Abstract!Pending(t)
    BY <1>1 DEF CallState, Abstract!Pending
  <2>5. call' = [call EXCEPT ![t] = Abstract!With(call[t], call[t].todo \ ds, call[t].yes \cup seen, o)]
    BY <1>5, <2>3 DEF SetCall
  <2>6. ds \subseteq call[t].todo \cap Hashes
    BY <2>1, <2>2
  <2> HIDE DEF todo, yes
  <2>7. Abstract!Effect(t, ds)
    BY <1>3, <2>2, <2>3, <2>4, <2>5, <2>6 DEF Abstract!Effect
  <2> QED
    BY <2>7 DEF Abstract!Next
<1>6. CASE todo = {} /\ Return(t, todo, yes)
  <2> HIDE DEF todo, yes
  <2>1. SetCall(t, todo, yes, "ok") /\ CallState(t)'
    BY <1>6, Returns
  <2> QED
    BY <1>5, <1>6, <2>1
<1>7. CASE Progress(t, todo, yes) /\ Goto(t, IF todo = {} THEN "fill" ELSE pc[t])
  <2> HIDE DEF todo, yes
  <2>1. /\ call'[t].op = call[t].op /\ call'[t].todo = todo /\ call'[t].out = "pending"
        /\ SetCall(t, todo, yes, "pending")
    BY <1>7, Proceeds
  <2>2. pc'[t] = IF todo = {} THEN "fill" ELSE pc[t]
    BY <1>1, <1>7 DEF Goto, TypeOK
  <2>3. CallState(t)'
    BY <2>1, <2>2 DEF CallState
  <2> QED
    BY <1>5, <2>1, <2>3
<1> QED
  BY <1>6, <1>7 DEF ReadOn

(* Exists, List, WarmExistsCache and Get.                                  *)
LEMMA ReadRefines ==
  ASSUME RefinementInv, NEW t \in Threads,
         ExistsStat(t) \/ ReadShard(t) \/ ReadFill(t) \/ Get(t)
  PROVE  Abstract!Next /\ CallState(t)'
<1>0. pc[t] \in {"stat", "read", "fill"}
  BY DEF ExistsStat, ReadShard, ReadFill, Get
<1>e. ASSUME Error(t) PROVE Abstract!Next /\ CallState(t)'
  BY <1>0, <1>e, ErrorFails
<1>1. CASE ExistsStat(t)
  <2>1. ASSUME NEW h \in call[t].todo, ReadOn(t, h, {h} \cap blobs)
        PROVE  Abstract!Next /\ CallState(t)'
    <3>1. call[t].op = "exists" /\ {h} \cap blobs \in SUBSET ({h} \cap blobs)
      BY <1>1 DEF ExistsStat
    <3> QED
      BY <1>0, <1>1, <2>1, <3>1, ReadOnRefines DEF ExistsStat
  <2> QED
    BY <1>1, <1>e, <2>1 DEF ExistsStat
<1>2. CASE ReadShard(t)
  <2>1. PICK h \in call[t].todo : ReadOn(t, h, {h} \cap blobs) \/ ReadOn(t, h, {})
    BY <1>2 DEF ReadShard
  <2>2. pc[t] = "read" /\ call[t].op \in {"list", "warm"}
    BY <1>2 DEF ReadShard
  <2>3. {h} \cap blobs \in SUBSET ({h} \cap blobs) /\ {} \in SUBSET ({h} \cap blobs)
    OBVIOUS
  <2> QED
    BY <2>1, <2>2, <2>3, ReadOnRefines
<1>3. CASE ReadFill(t)
  <2>1. /\ call[t].todo = {} /\ Return(t, {}, call[t].yes) /\ blobs' = blobs
        /\ call[t].op \in {"exists", "warm"}
    BY <1>0, <1>3, AtStep DEF CallState, ReadFill, disk
  <2>2. SetCall(t, {}, call[t].yes, "ok") /\ CallState(t)'
    BY <2>1, Returns
  <2> QED
    BY <1>0, <2>1, <2>2, ActsOn
<1>4. CASE Get(t)
  <2>1. CASE call[t].hs \subseteq blobs /\ Return(t, {}, call[t].hs) /\ UNCHANGED disk
    <3>1. /\ call[t].todo = call[t].hs /\ call[t].yes = {} /\ call[t].op = "get"
          /\ call[t].hs \in SUBSET Hashes /\ blobs' = blobs
      BY <1>0, <1>4, <2>1, AtStep DEF CallState, Get, disk
    <3>2. SetCall(t, {}, call[t].hs, "ok") /\ CallState(t)'
      BY <2>1, Returns
    <3> QED
      BY <1>0, <2>1, <3>1, <3>2, ActsOn
  <2> QED
    BY <1>4, <1>e, <2>1 DEF Get
<1> QED
  BY <1>1, <1>2, <1>3, <1>4

(* Delete acts when it removes the file.                                   *)
LEMMA DeleteRefines ==
  ASSUME RefinementInv, NEW t \in Threads, DeleteRemove(t) \/ DeleteForget(t)
  PROVE  Abstract!Next /\ CallState(t)'
<1>0. pc[t] \in {"remove", "forget"}
  BY DEF DeleteRemove, DeleteForget
<1>1. TypeOK /\ TypeInv /\ CallState(t)
  BY <1>0, AtStep
<1>2. call[t].op = "delete"
  BY <1>0, <1>1, OpOfStep
<1>3. CASE DeleteRemove(t)
  <2>1. CASE blobs' = blobs \ call[t].hs /\ Progress(t, {}, call[t].yes) /\ Goto(t, "forget")
    <3>1. /\ call[t].todo = call[t].hs /\ call[t].yes = {} /\ call[t].hs \in SUBSET Hashes
      BY <1>1, <1>3 DEF CallState, DeleteRemove
    <3>2. /\ call'[t].todo = {} /\ call'[t].yes = {} /\ call'[t].out = "pending"
          /\ SetCall(t, {}, {}, "pending")
      <4>1. Progress(t, {}, {}) /\ pc[t] # "idle"
        BY <1>0, <2>1, <3>1
      <4> QED
        BY <4>1, Proceeds
    <3>3. pc'[t] = "forget"
      BY <1>1, <2>1 DEF Goto, TypeOK
    <3>4. Abstract!Next
      BY <1>0, <1>2, <2>1, <3>1, <3>2, ActsOn
    <3> QED
      BY <3>2, <3>3, <3>4 DEF CallState
  <2>2. CASE Error(t)
    BY <1>0, <2>2, ErrorFails
  <2> QED
    BY <1>3, <2>1, <2>2 DEF DeleteRemove
<1>4. CASE DeleteForget(t)
  <2>1. call[t].todo = {} /\ call[t].yes = {} /\ Return(t, {}, {}) /\ blobs' = blobs
    BY <1>1, <1>4 DEF CallState, DeleteForget, disk
  <2>2. SetCall(t, {}, {}, "ok") /\ CallState(t)'
    BY <2>1, Returns
  <2>3. blobs' = blobs \ {}
    BY <2>1
  <2> QED
    BY <1>0, <1>2, <2>1, <2>2, <2>3, ActsOn
<1> QED
  BY <1>3, <1>4

-----------------------------------------------------------------------------
(* Every step of a method is a step of the abstract call, or none.         *)
LEMMA StepRefines ==
  ASSUME RefinementInv, NEW t \in Threads, Step(t)
  PROVE  [Abstract!Next]_Abstract!vars /\ \A u \in Threads : CallState(u)'
<1>1. [Abstract!Next]_Abstract!vars /\ CallState(t)'
  <2>1. CASE Reject(t)
    BY <2>1, ErrorFails DEF Reject
  <2>2. CASE \/ PutLock(t) \/ PutStat(t) \/ PutWrite(t) \/ PutRename(t) \/ PutSync(t)
             \/ PutFill(t)
    BY <2>2, PutRefines
  <2>3. CASE CachePass(t)
    BY <2>3, CachePassRefines
  <2>4. CASE ExistsStat(t) \/ ReadShard(t) \/ ReadFill(t) \/ Get(t)
    BY <2>4, ReadRefines
  <2>5. CASE DeleteRemove(t) \/ DeleteForget(t)
    BY <2>5, DeleteRefines
  <2> QED
    BY <2>1, <2>2, <2>3, <2>4, <2>5 DEF Step
<1>2. ASSUME NEW u \in Threads, u # t PROVE CallState(u)'
  <2>1. call'[u] = call[u] /\ pc'[u] = pc[u] /\ CallState(u)
    BY <1>2, StepLocal DEF RefinementInv, StoreInv, TypeInv
  <2> QED
    BY <2>1 DEF CallState
<1> QED
  BY <1>1, <1>2

(* A method is called.                                                     *)
LEMMA InvokeRefines ==
  ASSUME RefinementInv, NEW t \in Threads, Invoke(t)
  PROVE  Abstract!Next /\ \A u \in Threads : CallState(u)'
<1>0. PICK op \in Abstract!Ops : \E hs \in Abstract!Args(op) :
         call' = [call EXCEPT ![t] = Abstract!NewCall(op, hs)] /\ Goto(t, FirstStep(op))
  BY DEF Invoke
<1>1. PICK hs \in Abstract!Args(op) :
         call' = [call EXCEPT ![t] = Abstract!NewCall(op, hs)] /\ Goto(t, FirstStep(op))
  BY <1>0
<1>2. TypeOK /\ pc[t] = "idle" /\ blobs' = blobs /\ \A u \in Threads : CallState(u)
  BY DEF RefinementInv, StoreInv, Invoke, disk
<1>3. Abstract!Invoke(t)
  BY <1>1, <1>2 DEF Abstract!Invoke, Abstract!Pending, CallState
<1>4. call'[t] = Abstract!NewCall(op, hs) /\ pc'[t] = FirstStep(op)
  BY <1>1, <1>2 DEF Goto, TypeOK
<1>5. CallState(t)'
  <2>1. call'[t].todo = call'[t].hs /\ call'[t].yes = {} /\ call'[t].out = "pending"
    BY SMT, <1>4 DEF Abstract!NewCall
  <2>2. pc'[t] \in {"lock", "cache", "read", "remove"}
    BY <1>4, FirstStepOf
  <2> QED BY <2>1, <2>2 DEF CallState
<1>6. ASSUME NEW u \in Threads, u # t PROVE CallState(u)'
  <2>1. call'[u] = call[u] /\ pc'[u] = pc[u] /\ CallState(u)
    BY <1>1, <1>2, <1>6 DEF Goto, TypeOK
  <2> QED
    BY <2>1 DEF CallState
<1> QED
  BY <1>3, <1>5, <1>6 DEF Abstract!Next

(* A process is killed.                                                    *)
LEMMA KillRefines ==
  ASSUME RefinementInv, NEW i \in Instances, Kill(i)
  PROVE  Abstract!Next /\ \A u \in Threads : CallState(u)'
<1> DEFINE dead == {t \in Threads : InstanceOf[t] \in {i}}
<1>1. /\ call' = [t \in Threads |-> IF t \in dead THEN Abstract!NoCall ELSE call[t]]
      /\ pc' = [t \in Threads |-> IF t \in dead THEN "idle" ELSE pc[t]]
      /\ blobs' = blobs
  BY DEF Kill, Die, disk
<1>2. dead \in SUBSET Threads
  OBVIOUS
<1> HIDE DEF dead
<1>3. Abstract!Kill
  BY <1>1, <1>2 DEF Abstract!Kill
<1>4. Abstract!NoCall.out = "err"
  BY DEF Abstract!NoCall, Abstract!With
<1>5. ASSUME NEW u \in Threads PROVE CallState(u)'
  <2>1. CASE u \in dead
    <3>1. pc'[u] = "idle" /\ call'[u].out = "err"
      BY <1>1, <1>4, <2>1
    <3> QED
      BY <3>1 DEF CallState
  <2>2. CASE u \notin dead
    <3>1. pc'[u] = pc[u] /\ call'[u] = call[u] /\ CallState(u)
      BY <1>1, <2>2 DEF RefinementInv
    <3> QED
      BY <3>1 DEF CallState
  <2> QED
    BY <2>1, <2>2
<1> QED
  BY <1>3, <1>5 DEF Abstract!Next

(* The steps of the store are steps of the abstract one, or none.          *)
LEMMA NextRefines ==
  ASSUME DeleteMode = "quiet", "power" \notin Faults
  PROVE  RefinementInv /\ [Next]_vars => RefinementInv' /\ [Abstract!Next]_Abstract!vars
<1> SUFFICES ASSUME RefinementInv, [Next]_vars
             PROVE  RefinementInv' /\ [Abstract!Next]_Abstract!vars
  OBVIOUS
<1>0. StoreInv'
  BY StoreInvInductive DEF RefinementInv
<1> SUFFICES [Abstract!Next]_Abstract!vars /\ \A u \in Threads : CallState(u)'
  BY <1>0 DEF RefinementInv
<1>1. ASSUME NEW t \in Threads, Invoke(t)
      PROVE  [Abstract!Next]_Abstract!vars /\ \A u \in Threads : CallState(u)'
  BY <1>1, InvokeRefines
<1>2. ASSUME NEW t \in Threads, Step(t)
      PROVE  [Abstract!Next]_Abstract!vars /\ \A u \in Threads : CallState(u)'
  BY <1>2, StepRefines
<1>3. ASSUME NEW i \in Instances, Kill(i)
      PROVE  [Abstract!Next]_Abstract!vars /\ \A u \in Threads : CallState(u)'
  BY <1>3, KillRefines
<1>4. CASE PowerLoss
  BY <1>4 DEF PowerLoss
<1>5. CASE UNCHANGED vars
  BY <1>5 DEF vars, Abstract!vars, RefinementInv, CallState
<1> QED
  BY <1>1, <1>2, <1>3, <1>4, <1>5 DEF Next

(* A new store is an abstract one.                                         *)
LEMMA InitRefines == Init => RefinementInv /\ Abstract!Init
<1> SUFFICES ASSUME Init PROVE RefinementInv /\ Abstract!Init
  OBVIOUS
<1>1. StoreInv
  BY StoreInvInitial
<1>2. \A t \in Threads : CallState(t)
  BY DEF Init, CallState, Abstract!NoCall, Abstract!With
<1>3. Abstract!Init
  BY StoreAssumption DEF Init, Abstract!Init
<1> QED
  BY <1>1, <1>2, <1>3 DEF RefinementInv

(* The local store is a blob store: every Put, Delete, Exists, ExistsBatch,*)
(* Get, List and WarmExistsCache of simple/local_store.go acts on the set  *)
(* of blob files, and answers from it, between its invocation and return.  *)
THEOREM LocalIsBlobStore ==
  ASSUME DeleteMode = "quiet", "power" \notin Faults
  PROVE  Spec => ImplementsBlobStore
<1>1. Init => RefinementInv /\ Abstract!Init
  BY InitRefines
<1>2. RefinementInv /\ [Next]_vars => RefinementInv' /\ [Abstract!Next]_Abstract!vars
  BY NextRefines
<1> QED
  BY <1>1, <1>2, PTL DEF Spec, ImplementsBlobStore, Abstract!Spec

=============================================================================
