------------------------- MODULE RateLimiterTokens -------------------------
(***************************************************************************)
(* RateLimiter with a ledger: the tokens the limiter may have granted, in  *)
(* tenths, and the tokens its callers have taken.  A tick grants a tenth of*)
(* the rate it loaded; the start of the refill loop grants one second's    *)
(* worth.  The ledger is closed after MaxTicks ticks, the limiter goes on. *)
(***************************************************************************)
EXTENDS RateLimiter

CONSTANTS MaxTicks,  \* ticks the ledger covers
          MaxSets    \* bound: calls of SetRate

ASSUME LedgerAssumption == MaxTicks \in Nat /\ MaxSets \in Nat

VARIABLES granted,  \* tenths of tokens
          taken,    \* tokens
          ticks,    \* ticks so far, MaxTicks + 1 when the ledger is closed
          sets      \* calls of SetRate so far

tvars == <<limiterVars, granted, taken, ticks, sets>>

Open == ticks <= MaxTicks

TInit ==
    /\ NewLimiter
    /\ granted = 10 * rate /\ taken = 0 /\ ticks = 0 /\ sets = 0

(* An entry of the ledger.                                                 *)
Book(tenths, tokensTaken) ==
    /\ granted' = IF Open THEN granted + tenths ELSE granted
    /\ taken' = IF Open THEN taken + tokensTaken ELSE taken

TTick ==
    /\ TickAdd
    /\ IF ticks < MaxTicks
       THEN ticks' = ticks + 1 /\ Book(tick.rate, 0)
       ELSE ticks' = MaxTicks + 1 /\ granted' = 0 /\ taken' = 0
    /\ UNCHANGED sets

TTake(w) ==
    /\ WaitTake(w)
    /\ Book(0, waiter[w].n - waiter'[w].n)
    /\ UNCHANGED <<ticks, sets>>

TSetRate(r) ==
    /\ sets < MaxSets /\ sets' = sets + 1
    /\ SetRate(r)
    /\ Book(IF loops = 0 /\ r > 0 THEN 10 * r ELSE 0, 0)
    /\ UNCHANGED ticks

ledger == <<granted, taken, ticks, sets>>

TRefill == \/ TTick
           \/ (TickLoad \/ RefillReturn) /\ UNCHANGED ledger

TWait(w) == \/ TTake(w)
            \/ (WaitRate(w) \/ WaitPause(w)) /\ UNCHANGED ledger

TOther == (Stop \/ \E w \in Waiters : Cancel(w)) /\ UNCHANGED ledger

TNext ==
    \/ TRefill \/ TOther
    \/ \E w \in Waiters : TWait(w)
    \/ \E r \in Rates : TSetRate(r)

TSpec == TInit /\ [][TNext]_tvars

(* Goroutines are scheduled, and tickers and timers fire; SetRate is called*)
(* finitely often.                                                         *)
TFairSpec ==
    /\ TSpec
    /\ WF_tvars(TRefill)
    /\ \A w \in Waiters : WF_tvars(TWait(w))

-----------------------------------------------------------------------------
(* The callers never get more than was granted, and what is left is in the *)
(* bucket: no interleaving of waiters, ticks and rate changes hands a      *)
(* token out twice.                                                        *)
TokensConserved == Open => 10 * taken + 10 * bucket + fracAccum <= granted
=============================================================================
