----------------------------- MODULE Discovery -----------------------------
(***************************************************************************)
(* Startup: NewBackground's goroutine runs New, which checks the           *)
(* configuration, retries the provider's discovery document within a       *)
(* wall-clock budget, and publishes the result to whoever calls Ready, Get *)
(* or Err (auth.go:38-87, discovery_retry.go, deferred.go).  Time is in    *)
(* units of half the base delay.                                           *)
(***************************************************************************)
EXTENDS Config

CONSTANTS
    Configs,                          \* the configurations New is called with
    DiscoveryRetryPerAttemptTimeout,
    DiscoveryRetryBaseDelay,
    DiscoveryRetryMaxDelay,
    DurationBits,                     \* width of time.Duration, 64 in the code
    Getters,                          \* goroutines that call Get
    None, Pending,
    MaxAttempts                       \* bound on the attempts followed

ASSUME DiscoveryAssumption ==
    /\ Configs \subseteq Configurations
    /\ DiscoveryRetryPerAttemptTimeout \in Nat /\ DiscoveryRetryPerAttemptTimeout > 0
    /\ DiscoveryRetryBaseDelay \in Nat /\ DiscoveryRetryBaseDelay > 1
    /\ DiscoveryRetryMaxDelay \in Nat /\ DiscoveryRetryMaxDelay >= DiscoveryRetryBaseDelay
    /\ DurationBits \in Nat /\ DurationBits > 1
    /\ Pending # None
    /\ {Pending, None} \cap {"ok", "invalid", "transient", "permanent", "canceled"} = {}

VARIABLES
    cfg,        \* New's configuration, from Configure on with its defaults
    now,        \* time since started
    pc,         \* the goroutine: new, loop, attempting, backoff, returned, stored, done
    attempt,    \* attempts made
    due,        \* when the attempt times out, or the sleep ends
    err,        \* lastErr, then New's error
    canceled,   \* the parent context is done
    endedAt,    \* when the last attempt ended
    gap,        \* the shortest pause there was between two attempts
    slot,       \* d.auth and d.err, None before they are written
    ready,      \* d.ready is closed
    got         \* what each Get returned

vars == <<cfg, now, pc, attempt, due, err, canceled, endedAt, gap, slot, ready, got>>

Errors == {"transient", "permanent", "canceled"}

Budget == cfg.DiscoveryRetryBudget

Init ==
    /\ cfg \in Configs
    /\ now = 0 /\ pc = "new" /\ attempt = 0 /\ due = 0 /\ err = None
    /\ canceled = FALSE /\ endedAt = 0 /\ gap = DiscoveryRetryBaseDelay
    /\ slot = None /\ ready = FALSE
    /\ got = [g \in Getters |-> None]

-----------------------------------------------------------------------------
(* Seeded faults.                                                          *)

\* An attempt given its full timeout whatever is left of the budget.
PerAttemptFull == DiscoveryRetryPerAttemptTimeout

\* A timeout classified with the permanent errors.
RetryableNever(e) == FALSE

\* The doubling started from nothing.
BaseDelayFromZero(n) == IF n = 1 THEN 0 ELSE DiscoveryRetryBaseDelay

\* The ready channel closed before the slot is written.
StoreAfterClose ==
    /\ pc = "returned"
    /\ ready' = TRUE
    /\ pc' = "stored"
    /\ UNCHANGED <<cfg, now, attempt, due, err, canceled, endedAt, gap, slot, got>>

\* The ready channel closed on success only.
CloseReadyOnSuccess ==
    /\ pc = "stored" /\ slot = "ok"
    /\ ready' = TRUE
    /\ pc' = "done"
    /\ UNCHANGED <<cfg, now, attempt, due, err, canceled, endedAt, gap, slot, got>>

-----------------------------------------------------------------------------
(* New: the configuration first.                                           *)

\* applyDefaults, then validate: an invalid configuration never gets to the
\* provider.
Configure ==
    /\ pc = "new"
    /\ cfg' = ApplyDefaults(cfg)
    /\ IF Validate(cfg') THEN pc' = "loop" /\ UNCHANGED err
                         ELSE pc' = "returned" /\ err' = "invalid"
    /\ UNCHANGED <<now, attempt, due, canceled, endedAt, gap, slot, ready, got>>

-----------------------------------------------------------------------------
(* discoverWithRetry.                                                      *)

Remaining == Budget - now

PerAttempt ==
    IF Remaining < DiscoveryRetryPerAttemptTimeout
    THEN Remaining ELSE DiscoveryRetryPerAttemptTimeout

\* Two's complement, as a shift of a time.Duration wraps.
Signed(n) ==
    LET m == n % 2^DurationBits
    IN  IF m >= 2^(DurationBits - 1) THEN m - 2^DurationBits ELSE m

\* The sleep before jitter, after n attempts.
BaseDelay(n) ==
    LET base == Signed(DiscoveryRetryBaseDelay * 2^(n - 1))
    IN  IF base > DiscoveryRetryMaxDelay THEN DiscoveryRetryMaxDelay ELSE base

\* rand.Int63n(base / 2)
Jitters(base) == IF base > 0 THEN 0 .. (base \div 2) - 1 ELSE {0}

\* isDiscoveryRetryable
Retryable(e) == e = "transient"

Return(e) ==
    /\ pc' = "returned" /\ err' = e
    /\ UNCHANGED <<cfg, now, attempt, due, canceled, gap, slot, ready, got>>

\* The head of the loop, with time left.  With a negative budget there is no
\* loop, only one attempt without a timeout of its own.
BeginAttempt ==
    /\ pc = "loop" /\ attempt < MaxAttempts
    /\ Budget > 0 => Remaining > 0
    /\ pc' = "attempting"
    /\ due' = IF Budget > 0 THEN now + PerAttempt ELSE now
    /\ gap' = IF attempt > 0 /\ now - endedAt < gap THEN now - endedAt ELSE gap
    /\ UNCHANGED <<cfg, now, attempt, err, canceled, endedAt, slot, ready, got>>

\* The head of the loop, with the budget exhausted.
Exhausted ==
    /\ pc = "loop" /\ Budget > 0 /\ Remaining <= 0
    /\ Return(err)
    /\ UNCHANGED endedAt

\* An answer that has already arrived wins over a cancellation.
AttemptSucceeds ==
    /\ pc = "attempting"
    /\ pc' = "returned" /\ err' = "ok"
    /\ attempt' = attempt + 1 /\ endedAt' = now
    /\ UNCHANGED <<cfg, now, due, canceled, gap, slot, ready, got>>

\* discover erred: a permanent class, one attempt only, or a sleep past the
\* deadline ends it; anything else backs off.
AttemptFails(e) ==
    /\ pc = "attempting"
    /\ e = "canceled" => canceled
    /\ attempt' = attempt + 1 /\ endedAt' = now /\ err' = e
    /\ IF Budget <= 0 \/ ~Retryable(e)
       THEN pc' = "returned" /\ UNCHANGED due
       ELSE LET base == BaseDelay(attempt + 1) IN
            \E jitter \in Jitters(base) :
               IF base + jitter > Remaining
               THEN pc' = "returned" /\ UNCHANGED due
               ELSE /\ pc' = "backoff"
                    /\ due' = IF base + jitter > 0 THEN now + base + jitter ELSE now
    /\ UNCHANGED <<cfg, now, canceled, gap, slot, ready, got>>

\* time.After fired.
Wake ==
    /\ pc = "backoff" /\ now >= due
    /\ pc' = "loop"
    /\ UNCHANGED <<cfg, now, attempt, due, err, canceled, endedAt, gap, slot, ready, got>>

\* ctx.Done while sleeping.
WakeCanceled ==
    /\ pc = "backoff" /\ canceled
    /\ Return("canceled")
    /\ UNCHANGED endedAt

-----------------------------------------------------------------------------
(* DeferredAuth.                                                           *)

\* The slot is written under the lock, and then the channel is closed.
Store ==
    /\ pc = "returned"
    /\ slot' = err
    /\ pc' = "stored"
    /\ UNCHANGED <<cfg, now, attempt, due, err, canceled, endedAt, gap, ready, got>>

CloseReady ==
    /\ pc = "stored"
    /\ ready' = TRUE
    /\ pc' = "done"
    /\ UNCHANGED <<cfg, now, attempt, due, err, canceled, endedAt, gap, slot, got>>

Get(g) ==
    /\ got[g] = None /\ ready
    /\ got' = [got EXCEPT ![g] = slot]
    /\ UNCHANGED <<cfg, now, pc, attempt, due, err, canceled, endedAt, gap, slot, ready>>

CancelContext ==
    /\ ~canceled /\ pc # "done"
    /\ canceled' = TRUE
    /\ UNCHANGED <<cfg, now, pc, attempt, due, err, endedAt, gap, slot, ready, got>>

\* Time passes while an attempt or a sleep lasts.
Tick ==
    /\ pc \in {"attempting", "backoff"} /\ now < due
    /\ now' = now + 1
    /\ UNCHANGED <<cfg, pc, attempt, due, err, canceled, endedAt, gap, slot, ready, got>>

Run ==
    \/ Configure
    \/ BeginAttempt \/ Exhausted
    \/ AttemptSucceeds \/ \E e \in Errors : AttemptFails(e)
    \/ Wake \/ WakeCanceled
    \/ Store \/ CloseReady

Next == Run \/ Tick \/ CancelContext \/ \E g \in Getters : Get(g)

Spec == Init /\ [][Next]_vars

\* The goroutine is scheduled, time passes, whoever may return from Get does, and
\* an attempt that has a timeout ends.
FairSpec ==
    Spec /\ WF_vars(Run /\ (pc = "attempting" => Budget > 0)) /\ WF_vars(Tick)
         /\ \A g \in Getters : WF_vars(Get(g))

-----------------------------------------------------------------------------
(* Properties.                                                             *)

(***************************************************************************)
(* New does not outstay its budget: however long attempts hang and however *)
(* the jitter falls, it has returned by the deadline.                      *)
(***************************************************************************)
BudgetHeld == Budget > 0 => now <= Budget

(***************************************************************************)
(* Discovery gives up on a transient error only when the next sleep could  *)
(* not end within the budget: a provider that comes up in time is met.     *)
(***************************************************************************)
GivesUpLate ==
    (pc \in {"returned", "stored", "done"} /\ err = "transient" /\ Budget > 0) =>
        Remaining < DiscoveryRetryMaxDelay + DiscoveryRetryMaxDelay \div 2

(***************************************************************************)
(* constants.go:360-361: the sleep between two attempts "doubles each      *)
(* attempt up to discoveryRetryMaxDelay", so it never falls below the      *)
(* first one.  The budgets of the run allow fewer attempts than the shift  *)
(* needs to overflow a Duration; beyond that the delay turns negative.     *)
(***************************************************************************)
AttemptsSpaced == gap >= DiscoveryRetryBaseDelay

(***************************************************************************)
(* Nobody waits in Get for ever: unless the budget is opted out of, it     *)
(* ends the loop even if the provider never answers and the context is     *)
(* never canceled, and a configuration that is refused is reported too.    *)
(***************************************************************************)
GetReturns ==
    \A g \in Getters : (Budget > 0 \/ err = "invalid") ~> got[g] # None

\* A DeferredAuth as its callers see it.
Handle == INSTANCE Future WITH
    Results <- Errors \cup {"ok", "invalid"},
    result <- IF ready THEN slot ELSE Pending,
    got <- [g \in Getters |-> IF got[g] = None THEN Pending ELSE got[g]]

(***************************************************************************)
(* deferred.go:21-24: the goroutine, its slot and its channel implement a  *)
(* future.  Though the result is stored and announced in two steps, every  *)
(* Get returns the one result New had, and none returns a slot that has    *)
(* not been written.                                                       *)
(***************************************************************************)
HandleIsFuture == Handle!Spec

\* New has accepted the configuration.
Accepted == pc # "new" /\ err # "invalid"

(***************************************************************************)
(* config.go:544-549: no accepted setting is silently inert.  A session    *)
(* minted at any moment under an accepted floor is asked about before it   *)
(* ends, with a token to ask with, unless the floor falls in the last      *)
(* second of its life, which the whole seconds of the cookie may swallow;  *)
(* a re-resolution has such a floor and a resolver; and the cookies of an  *)
(* accepted prefix are ones a browser keeps.                               *)
(***************************************************************************)
NothingInert ==
    Accepted =>
        /\ cfg.RevalidateInterval > 0 =>
              \A t \in 0 .. TicksPerSecond - 1 :
                 \/ cfg.SessionTTL - cfg.RevalidateInterval \in 1 .. TicksPerSecond - 1
                 \/ \E d \in 0 .. cfg.SessionTTL : Asks(cfg, MintedAt(cfg, t), t + d)
        /\ cfg.ReresolveOnRevalidate => cfg.RevalidateInterval > 0 /\ cfg.UserResolver
        /\ cfg.CookieHostPrefix =>
              \A name \in {cfg.CookieName, FlowCookieName(cfg)} :
                 name = "prefixed" /\ Stored(CookieWritten(cfg, name))
=============================================================================
