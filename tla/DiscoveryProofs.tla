-------------------------- MODULE DiscoveryProofs --------------------------
(***************************************************************************)
(* Proofs about startup, for every set of configurations, every base,      *)
(* cap, timeout and width of the delays, any number of attempts and any    *)
(* number of callers of Get: New returns within its budget and not before  *)
(* it must, no accepted setting is inert, and the goroutine, its slot and  *)
(* its channel take only the steps of a future.                            *)
(***************************************************************************)
EXTENDS Discovery, FiniteSetTheorems, TLAPS

Ended == {"returned", "stored", "done"}

TypeOK ==
    /\ cfg \in Configurations
    /\ pc \in {"new", "loop", "attempting", "backoff"} \cup Ended
    /\ now \in Nat /\ attempt \in Nat /\ due \in Nat /\ endedAt \in Nat /\ gap \in Int
    /\ canceled \in BOOLEAN /\ ready \in BOOLEAN

\* Nothing has happened before the configuration is accepted, and New waits for
\* nothing that ends after its budget.
Deadlines ==
    /\ pc = "new" => now = 0 /\ attempt = 0
    /\ pc \in {"attempting", "backoff"} =>
          now <= due /\ (Budget > 0 => due <= Budget)
    /\ pc = "backoff" => Budget > 0
    /\ BudgetHeld

Outcomes == Errors \cup {"ok", "invalid"}

\* An outcome is decided when the goroutine ends, and it has one by then.
Decided ==
    /\ err \in Outcomes \cup {None}
    /\ pc = "new" => err = None
    /\ pc = "backoff" => err = "transient"
    /\ pc = "loop" => err = "transient" \/ (err = None /\ now = 0)
    /\ pc \in Ended => err # None

\* It is stored before it is announced, and not touched after that.
Delivered ==
    /\ pc \in {"stored", "done"} => slot = err
    /\ ready => pc = "done"
    /\ got \in [Getters -> Outcomes \cup {None}]
    /\ \A g \in Getters : got[g] # None => ready /\ got[g] = slot

\* What New goes on with has its defaults and has been validated.
Configured ==
    /\ err = "invalid" => pc \in Ended
    /\ Accepted => Validate(cfg) /\ \E c \in Configurations : cfg = ApplyDefaults(c)

Inv == TypeOK /\ Deadlines /\ Decided /\ Delivered /\ Configured /\ GivesUpLate

-----------------------------------------------------------------------------
(* Arithmetic.                                                             *)

(* A power of two is a positive number: it is the number of subsets of a   *)
(* finite set.                                                             *)
LEMMA PowerPositive ==
    ASSUME NEW n \in Nat
    PROVE  2^n \in Nat /\ 2^n > 0
  <1>1. IsFiniteSet(1 .. n) /\ Cardinality(1 .. n) = n
    BY FS_Interval
  <1>2. IsFiniteSet(SUBSET (1 .. n)) /\ Cardinality(SUBSET (1 .. n)) = 2^n
    BY <1>1, FS_SUBSET
  <1>3. 2^n \in Nat /\ 2^n # 0
    BY <1>2, FS_CardinalityType, FS_EmptySet
  <1>4. QED
    BY <1>3

(* One more bit does not make it smaller.                                  *)
LEMMA PowerGrows ==
    ASSUME NEW n \in Nat, n > 0
    PROVE  2^(n - 1) <= 2^n
  <1>1. /\ IsFiniteSet(1 .. n) /\ Cardinality(1 .. n) = n
        /\ IsFiniteSet(1 .. (n - 1)) /\ Cardinality(1 .. (n - 1)) = n - 1
    BY FS_Interval
  <1>2. /\ IsFiniteSet(SUBSET (1 .. n)) /\ Cardinality(SUBSET (1 .. n)) = 2^n
        /\ Cardinality(SUBSET (1 .. (n - 1))) = 2^(n - 1)
    BY <1>1, FS_SUBSET
  <1>3. SUBSET (1 .. (n - 1)) \subseteq SUBSET (1 .. n)
    OBVIOUS
  <1>4. QED
    BY <1>2, <1>3, FS_Subset

(* The sleep before jitter is a number, however the shift wraps, and never *)
(* more than the cap.                                                      *)
LEMMA BaseDelayRange ==
    ASSUME NEW n \in Nat, n > 0
    PROVE  BaseDelay(n) \in Int /\ BaseDelay(n) <= DiscoveryRetryMaxDelay
  <1> DEFINE x == DiscoveryRetryBaseDelay * 2^(n - 1)
             w == 2^DurationBits
             h == 2^(DurationBits - 1)
  <1>1. x \in Int /\ w \in Nat /\ w > 0 /\ h \in Nat
    BY PowerPositive, DiscoveryAssumption
  <1>2. BaseDelay(n) =
           LET base == (IF x % w >= h THEN (x % w) - w ELSE x % w)
           IN  IF base > DiscoveryRetryMaxDelay THEN DiscoveryRetryMaxDelay ELSE base
    BY DEF BaseDelay, Signed
  <1> HIDE DEF x, w, h
  <1>3. x % w \in Int
    BY <1>1
  <1>4. QED
    BY <1>1, <1>2, <1>3, DiscoveryAssumption
-----------------------------------------------------------------------------
(* One lemma per step of the goroutine.                                    *)

(* Defaults keep a configuration one.                                      *)
LEMMA ApplyDefaultsType ==
    ASSUME NEW c \in Configurations
    PROVE  ApplyDefaults(c) \in Configurations
  <1> DEFINE plr == Default(c.PostLoginRedirect, "unset", "path")
             ttl == Default(c.SessionTTL, 0, DefaultSessionTTL)
             name == IF c.CookieHostPrefix THEN "prefixed"
                     ELSE Default(c.CookieName, "unset", "plain")
             path == Default(c.CookiePath, "unset", "root")
             budget == Default(c.DiscoveryRetryBudget, 0, DiscoveryRetryBudgetDefault)
  <1>1. /\ plr \in {"unset", "path", "absolute"}
        /\ ttl \in Int
        /\ name \in {"unset", "plain", "prefixed"}
        /\ path \in {"unset", "root", "other"}
        /\ budget \in Int
    BY ConfigConstants DEF Default, Configurations
  <1> DEFINE r == [c EXCEPT !.PostLoginRedirect = plr, !.SessionTTL = ttl, !.CookieName = name]
  <1>2. ApplyDefaults(c) = [r EXCEPT !.CookiePath = path, !.DiscoveryRetryBudget = budget]
    BY DEF ApplyDefaults, Configurations
  <1> HIDE DEF plr, ttl, name, path, budget
  <1>3. r \in Configurations
    BY <1>1 DEF Configurations
  <1> HIDE DEF r
  <1>4. QED
    BY <1>1, <1>2, <1>3 DEF Configurations

(* No outcome is the absence of one.                                       *)
LEMMA OutcomesDistinct ==
    /\ \A o \in Outcomes : o # None /\ o # Pending
    /\ "ok" \in Outcomes /\ "invalid" \in Outcomes /\ "transient" \in Outcomes
    /\ "permanent" \in Outcomes /\ "canceled" \in Outcomes
    /\ Pending # None
  BY DiscoveryAssumption DEF Outcomes, Errors

(* New refuses a configuration, or starts with no attempt made.            *)
LEMMA ConfigureStep ==
    ASSUME Inv, Configure
    PROVE  Inv'
  <1>1. cfg' \in Configurations /\ cfg' = ApplyDefaults(cfg) /\ cfg \in Configurations
    BY ApplyDefaultsType DEF Inv, TypeOK, Configure
  <1>2. TypeOK' /\ Deadlines'
    <2>1. Budget' \in Int
      BY <1>1 DEF Budget, Configurations
    <2>2. QED
      BY <1>1, <2>1 DEF Inv, TypeOK, Deadlines, BudgetHeld, Configure, Ended
  <1>3. Configured' /\ GivesUpLate'
    BY <1>1 DEF Inv, Configured, Accepted, GivesUpLate, Configure, Ended
  <1>4. Decided' /\ Delivered'
    BY OutcomesDistinct DEF Inv, Deadlines, BudgetHeld, Decided, Delivered, Configure, Ended
  <1>5. QED
    BY <1>2, <1>3, <1>4 DEF Inv

(* An attempt starts within the budget, with its own timeout.              *)
LEMMA BeginAttemptStep ==
    ASSUME Inv, BeginAttempt
    PROVE  Inv'
  <1>1. Budget \in Int /\ Budget' = Budget
    BY DEF Inv, TypeOK, Configurations, Budget, BeginAttempt
  <1>2. /\ due' \in Nat /\ now <= due' /\ (Budget > 0 => due' <= Budget)
    BY <1>1, DiscoveryAssumption DEF Inv, TypeOK, BeginAttempt, PerAttempt, Remaining
  <1>3. TypeOK' /\ Deadlines'
    BY <1>1, <1>2 DEF Inv, TypeOK, Deadlines, BudgetHeld, BeginAttempt, Ended
  <1>4. Decided' /\ Delivered' /\ Configured' /\ GivesUpLate'
    BY DEF Inv, Decided, Delivered, Configured, Accepted, GivesUpLate, BeginAttempt, Ended
  <1>5. QED
    BY <1>3, <1>4 DEF Inv

(* The budget is used up: the loop ends with the last error.               *)
LEMMA ExhaustedStep ==
    ASSUME Inv, Exhausted
    PROVE  Inv'
  <1>1. Budget \in Int /\ Budget' = Budget
    BY DEF Inv, TypeOK, Configurations, Budget, Exhausted, Return
  <1>2. TypeOK' /\ Deadlines'
    BY <1>1 DEF Inv, TypeOK, Deadlines, BudgetHeld, Exhausted, Return, Ended
  <1>3. err = "transient"
    BY <1>1 DEF Inv, TypeOK, Decided, Delivered, Exhausted, Remaining
  <1>4. Decided' /\ Delivered' /\ Configured'
    BY <1>3, OutcomesDistinct
    DEF Inv, Decided, Delivered, Configured, Accepted, Exhausted, Return, Ended
  <1>5. GivesUpLate'
    BY <1>1, DiscoveryAssumption DEF Inv, TypeOK, GivesUpLate, Exhausted, Return, Remaining
  <1>6. QED
    BY <1>2, <1>4, <1>5 DEF Inv

(* Discovery answered: the loop ends with its result.                      *)
LEMMA AttemptSucceedsStep ==
    ASSUME Inv, AttemptSucceeds
    PROVE  Inv'
  <1>1. TypeOK' /\ Deadlines'
    BY DEF Inv, TypeOK, Deadlines, BudgetHeld, AttemptSucceeds, Ended, Budget
  <1>2. Decided' /\ Delivered' /\ Configured' /\ GivesUpLate'
    BY DiscoveryAssumption DEF Inv, Decided, Delivered, Configured, Accepted, GivesUpLate, AttemptSucceeds, Ended, Outcomes
  <1>3. QED
    BY <1>1, <1>2 DEF Inv

(* An attempt failed: the loop gives up, or sleeps within the budget.      *)
LEMMA AttemptFailsStep ==
    ASSUME Inv, NEW e \in Errors, AttemptFails(e)
    PROVE  Inv'
  <1> DEFINE base == BaseDelay(attempt + 1)
  <1>1. Budget \in Int /\ Budget' = Budget /\ now \in Nat /\ now' = now
    BY DEF Inv, TypeOK, Configurations, Budget, AttemptFails
  <1>2. base \in Int /\ base <= DiscoveryRetryMaxDelay
    BY BaseDelayRange DEF Inv, TypeOK
  <1>3. \A jitter \in Jitters(base) :
           /\ jitter \in Nat
           /\ base + jitter < DiscoveryRetryMaxDelay + DiscoveryRetryMaxDelay \div 2
    BY <1>2, DiscoveryAssumption DEF Jitters
  <1>4. \/ pc' = "returned" /\ due' = due /\ (Budget <= 0 \/ e # "transient")
        \/ /\ Budget > 0 /\ e = "transient"
           /\ \E jitter \in Jitters(base) :
               IF base + jitter > Remaining
               THEN pc' = "returned" /\ due' = due
               ELSE /\ pc' = "backoff"
                    /\ due' = IF base + jitter > 0 THEN now + base + jitter ELSE now
    BY <1>1 DEF AttemptFails, Retryable
  <1> HIDE DEF base
  <1>5. TypeOK' /\ Deadlines'
    BY <1>1, <1>2, <1>3, <1>4 DEF Inv, TypeOK, Deadlines, BudgetHeld, AttemptFails, Remaining, Ended
  <1>6. Decided' /\ Delivered' /\ Configured'
    BY <1>4, OutcomesDistinct
    DEF Inv, Decided, Delivered, Configured, Accepted, AttemptFails, Ended, Outcomes, Errors
  <1>7. GivesUpLate'
    BY <1>1, <1>2, <1>3, <1>4, DiscoveryAssumption DEF GivesUpLate, AttemptFails, Remaining
  <1>8. QED
    BY <1>5, <1>6, <1>7 DEF Inv

(* The sleep is over, or its context ended.                                *)
LEMMA WakeStep ==
    ASSUME Inv, Wake \/ WakeCanceled
    PROVE  Inv'
  <1>1. TypeOK' /\ Deadlines'
    BY DEF Inv, TypeOK, Deadlines, BudgetHeld, Wake, WakeCanceled, Return, Ended, Budget
  <1>2. Decided' /\ Delivered' /\ Configured' /\ GivesUpLate'
    BY OutcomesDistinct
    DEF Inv, Decided, Delivered, Configured, Accepted, GivesUpLate, Wake, WakeCanceled, Return,
        Ended
  <1>3. QED
    BY <1>1, <1>2 DEF Inv

(* The goroutine fills the slot and then closes the channel.               *)
LEMMA PublishStep ==
    ASSUME Inv, Store \/ CloseReady
    PROVE  Inv'
  <1>1. TypeOK' /\ Deadlines'
    BY DEF Inv, TypeOK, Deadlines, BudgetHeld, Store, CloseReady, Ended, Budget
  <1>2. Configured' /\ GivesUpLate'
    BY DEF Inv, Configured, Accepted, GivesUpLate, Store, CloseReady, Ended, Remaining, Budget
  <1>3. Decided' /\ Delivered'
    BY OutcomesDistinct DEF Inv, Decided, Delivered, Store, CloseReady, Ended
  <1>4. QED
    BY <1>1, <1>2, <1>3 DEF Inv

(* Time passes only while something that ends in time is waited for.       *)
LEMMA TickStep ==
    ASSUME Inv, Tick
    PROVE  Inv'
  <1>1. TypeOK' /\ Deadlines'
    <2>1. Budget \in Int /\ Budget' = Budget
      BY DEF Inv, TypeOK, Configurations, Budget, Tick
    <2>2. QED
      BY <2>1 DEF Inv, TypeOK, Deadlines, BudgetHeld, Tick, Ended
  <1>2. Decided' /\ Delivered' /\ Configured' /\ GivesUpLate'
    BY DEF Inv, TypeOK, Decided, Delivered, Configured, Accepted, GivesUpLate, Tick, Ended
  <1>3. QED
    BY <1>1, <1>2 DEF Inv

(* A caller gets the result or cancels; neither moves the goroutine.       *)
LEMMA CallerStep ==
    ASSUME Inv, CancelContext \/ \E g \in Getters : Get(g)
    PROVE  Inv'
  <1>1. TypeOK' /\ Deadlines'
    BY DEF Inv, TypeOK, Deadlines, BudgetHeld, CancelContext, Get, Budget
  <1>2. Configured' /\ GivesUpLate'
    BY DEF Inv, Configured, Accepted, GivesUpLate, CancelContext, Get, Remaining, Budget
  <1>3. Decided' /\ Delivered'
    BY DEF Inv, Decided, Delivered, CancelContext, Get, Ended
  <1>4. QED
    BY <1>1, <1>2, <1>3 DEF Inv

-----------------------------------------------------------------------------
(* Theorems.                                                               *)

(* The invariant holds of every run.                                       *)
THEOREM InvHolds == Spec => []Inv
  <1>1. Init => Inv
    <2> SUFFICES ASSUME Init PROVE Inv
      OBVIOUS
    <2>1. TypeOK
      <3>1. cfg \in Configurations /\ gap \in Int
        BY DiscoveryAssumption DEF Init
      <3>2. now \in Nat /\ attempt \in Nat /\ due \in Nat /\ endedAt \in Nat
        BY DEF Init
      <3>3. QED
        BY <3>1, <3>2 DEF Init, TypeOK
    <2>2. Deadlines /\ Decided /\ Delivered
      <3>1. Budget \in Int
        BY <2>1 DEF TypeOK, Configurations, Budget
      <3>2. QED
        BY <3>1, OutcomesDistinct DEF Init, Deadlines, BudgetHeld, Decided, Delivered, Ended
    <2>3. Configured /\ GivesUpLate
      BY OutcomesDistinct DEF Init, Configured, Accepted, GivesUpLate
    <2>4. QED
      BY <2>1, <2>2, <2>3 DEF Inv
  <1>2. Inv /\ [Next]_vars => Inv'
    <2> SUFFICES ASSUME Inv, [Next]_vars PROVE Inv'
      OBVIOUS
    <2>1. CASE Configure
      BY <2>1, ConfigureStep
    <2>2. CASE BeginAttempt
      BY <2>2, BeginAttemptStep
    <2>3. CASE Exhausted
      BY <2>3, ExhaustedStep
    <2>4. CASE AttemptSucceeds
      BY <2>4, AttemptSucceedsStep
    <2>5. CASE \E e \in Errors : AttemptFails(e)
      BY <2>5, AttemptFailsStep
    <2>6. CASE Wake \/ WakeCanceled
      BY <2>6, WakeStep
    <2>7. CASE Store \/ CloseReady
      BY <2>7, PublishStep
    <2>8. CASE Tick
      BY <2>8, TickStep
    <2>9. CASE CancelContext \/ \E g \in Getters : Get(g)
      BY <2>9, CallerStep
    <2>10. CASE UNCHANGED vars
      BY <2>10 DEF vars, Inv, TypeOK, Deadlines, BudgetHeld, Decided, Delivered, Configured, Accepted,
                   GivesUpLate, Remaining, Budget
    <2>11. QED
      BY <2>1, <2>2, <2>3, <2>4, <2>5, <2>6, <2>7, <2>8, <2>9, <2>10 DEF Next, Run
  <1>3. QED
    BY <1>1, <1>2, PTL DEF Spec

(* New returns within its budget, however long attempts hang               *)
(* (discoverWithRetry: the timeout of an attempt is cut to what is left,   *)
(* and a sleep that would end later is not begun).                         *)
THEOREM DiscoveryBudgetHeld == Spec => []BudgetHeld
  <1>1. Inv => BudgetHeld
    BY DEF Inv, Deadlines
  <1>2. QED
    BY <1>1, InvHolds, PTL

(* A transient error is given up on only when the longest sleep does not   *)
(* fit into what is left of the budget.                                    *)
THEOREM DiscoveryGivesUpLate == Spec => []GivesUpLate
  <1>1. Inv => GivesUpLate
    BY DEF Inv
  <1>2. QED
    BY <1>1, InvHolds, PTL

-----------------------------------------------------------------------------
(* What an accepted configuration does.                                    *)

(* Rounding down to whole seconds loses less than one.                     *)
LEMMA UnixRounds ==
    ASSUME NEW t \in Nat
    PROVE  /\ Unix(t) \in Nat
           /\ Unix(t) * TicksPerSecond <= t
           /\ t < Unix(t) * TicksPerSecond + TicksPerSecond
           /\ t < TicksPerSecond => Unix(t) = 0
  <1> DEFINE k == TicksPerSecond
             n == t \div k
  <1>1. k \in Nat /\ k > 0
    BY ConfigConstants
  <1>2. n \in Nat /\ n * k <= t /\ t < n * k + k
    BY <1>1, SMTT(30)
  <1>3. t < k => n = 0
    BY <1>1, SMTT(30)
  <1>4. QED
    BY <1>2, <1>3 DEF Unix

(* validate: under a floor that was accepted, whoever signs in at t is     *)
(* asked about when the floor is due, before the cookie ends.              *)
LEMMA FloorAsks ==
    ASSUME NEW c \in Configurations, FloorValid(c), c.RevalidateInterval > 0,
           NEW t \in 0 .. TicksPerSecond - 1,
           c.SessionTTL - c.RevalidateInterval >= TicksPerSecond
    PROVE  \E d \in 0 .. c.SessionTTL : Asks(c, MintedAt(c, t), t + d)
  <1> DEFINE R == c.RevalidateInterval
             L == c.SessionTTL
             k == TicksPerSecond
             d == IF R > t THEN R - t ELSE 0
             x == Unix(t + L)
  <1>1. /\ R \in Nat /\ R > 0 /\ L \in Nat /\ k \in Nat /\ k > 0 /\ L - R >= k
        /\ t \in Nat /\ t < k /\ c.RetainTokens
    BY ConfigConstants DEF Configurations, FloorValid
  <1>2. Unix(t) = 0 /\ x \in Nat /\ t + L < x * k + k
    <2>1. t + L \in Nat
      BY <1>1
    <2>2. x \in Nat /\ t + L < x * k + k
      BY <2>1, UnixRounds
    <2>3. Unix(t) = 0
      BY <1>1, UnixRounds
    <2>4. QED
      BY <2>2, <2>3
  <1>3. d \in 0 .. L /\ t + d >= R
    BY <1>1
  <1>4. t + d < x * k
    <2>1. x * k \in Int
      BY <1>1, <1>2
    <2>2. QED
      BY <1>1, <1>2, <2>1
  <1> DEFINE s == MintedAt(c, t)
  <1>5. s.exp = x /\ s.lv = 0 /\ s.rt
    BY <1>1, <1>2 DEF MintedAt
  <1> HIDE DEF s, x, d
  <1>6. Asks(c, s, t + d)
    BY <1>1, <1>3, <1>4, <1>5 DEF Asks
  <1>7. QED
    BY <1>3, <1>6 DEF s

(* No accepted setting is silently inert, for any lifetime, floor and      *)
(* resolution of the clock (Config.validate, after applyDefaults).         *)
THEOREM AcceptedNothingInert == Spec => []NothingInert
  <1>1. Inv => NothingInert
    <2> SUFFICES ASSUME Inv, Accepted
                 PROVE  NothingInert
      BY DEF NothingInert
    <2>1. PICK c \in Configurations : cfg = ApplyDefaults(c)
      BY DEF Inv, Configured
    <2>2. /\ cfg \in Configurations
          /\ FloorValid(cfg) /\ ReresolveValid(cfg) /\ HostPrefixValid(cfg)
      BY DEF Inv, TypeOK, Configured, Validate
    <2>3. cfg.CookieHostPrefix => cfg.CookieName = "prefixed"
      BY <2>1 DEF ApplyDefaults, Configurations
    <2>4. ASSUME cfg.RevalidateInterval > 0, NEW t \in 0 .. TicksPerSecond - 1
          PROVE  \/ cfg.SessionTTL - cfg.RevalidateInterval \in 1 .. TicksPerSecond - 1
                 \/ \E d \in 0 .. cfg.SessionTTL : Asks(cfg, MintedAt(cfg, t), t + d)
      <3>1. /\ cfg.SessionTTL \in Int /\ cfg.RevalidateInterval \in Int
            /\ cfg.RevalidateInterval < cfg.SessionTTL
            /\ TicksPerSecond \in Nat
        BY <2>2, <2>4, ConfigConstants DEF Configurations, FloorValid
      <3>2. CASE cfg.SessionTTL - cfg.RevalidateInterval >= TicksPerSecond
        BY <2>2, <2>4, <3>2, FloorAsks
      <3>3. QED
        BY <3>1, <3>2
    <2>5. cfg.ReresolveOnRevalidate => cfg.RevalidateInterval > 0 /\ cfg.UserResolver
      BY <2>2 DEF ReresolveValid
    <2>6. ASSUME cfg.CookieHostPrefix, NEW name \in {cfg.CookieName, FlowCookieName(cfg)}
          PROVE  name = "prefixed" /\ Stored(CookieWritten(cfg, name))
      BY <2>2, <2>3, <2>6 DEF FlowCookieName, HostPrefixValid, Stored, CookieWritten, SecureCookie
    <2>7. QED
      BY <2>4, <2>5, <2>6 DEF NothingInert
  <1>2. QED
    BY <1>1, InvHolds, PTL

-----------------------------------------------------------------------------
(* The pauses.                                                             *)

\* The shifts of the first n sleeps fit into a Duration.
ShiftFits(n) ==
    \A k \in 0 .. n - 1 : DiscoveryRetryBaseDelay * 2^k < 2^(DurationBits - 1)

\* The pause that is under way, and the one that has just ended, are long enough.
Pausing ==
    /\ AttemptsSpaced
    /\ pc = "backoff" => due >= endedAt + DiscoveryRetryBaseDelay
    /\ (pc = "loop" /\ attempt > 0) => now >= endedAt + DiscoveryRetryBaseDelay

Spaced == ShiftFits(attempt) => Pausing

(* A shift that fits gives a sleep no shorter than the first.              *)
LEMMA BaseDelayFits ==
    ASSUME NEW n \in Nat, ShiftFits(n + 1)
    PROVE  BaseDelay(n + 1) >= DiscoveryRetryBaseDelay
  <1> DEFINE b == DiscoveryRetryBaseDelay
             p == 2^n
             x == b * p
             w == 2^DurationBits
             h == 2^(DurationBits - 1)
  <1>1. /\ b \in Nat /\ p \in Nat /\ p > 0 /\ w \in Nat /\ h \in Nat /\ h <= w
        /\ DiscoveryRetryMaxDelay \in Nat /\ DiscoveryRetryMaxDelay >= b
    BY PowerPositive, PowerGrows, DiscoveryAssumption
  <1>2. x < h
    BY DEF ShiftFits
  <1>3. x \in Nat /\ x >= b
    <2> HIDE DEF p, b
    <2>1. QED
      BY <1>1, SMTT(30)
  <1>4. BaseDelay(n + 1) =
           LET base == (IF x % w >= h THEN (x % w) - w ELSE x % w)
           IN  IF base > DiscoveryRetryMaxDelay THEN DiscoveryRetryMaxDelay ELSE base
    <2>1. (n + 1) - 1 = n
      OBVIOUS
    <2>2. QED
      BY <2>1 DEF BaseDelay, Signed
  <1> HIDE DEF x, w, h, p
  <1>5. x % w = x
    BY <1>1, <1>2, <1>3
  <1>6. QED
    BY <1>1, <1>2, <1>3, <1>4, <1>5

(* The sleep between two attempts never falls below the first one for as   *)
(* long as its shift fits into a Duration (the doubling in                 *)
(* discoverWithRetry).                                                     *)
THEOREM AttemptsSpacedUntilOverflow == Spec => [](ShiftFits(attempt) => AttemptsSpaced)
  <1>1. Init => Spaced
    BY DiscoveryAssumption DEF Init, Spaced, Pausing, AttemptsSpaced
  <1>2. Inv /\ Spaced /\ [Next]_vars => Spaced'
    <2> SUFFICES ASSUME Inv, Spaced, [Next]_vars, ShiftFits(attempt')
                 PROVE  Pausing'
      BY DEF Spaced, ShiftFits
    <2> USE DEF Pausing, AttemptsSpaced
    <2>1. /\ now \in Nat /\ attempt \in Nat /\ due \in Nat /\ endedAt \in Nat /\ gap \in Int
          /\ DiscoveryRetryBaseDelay \in Nat /\ DiscoveryRetryBaseDelay > 1
      BY DiscoveryAssumption DEF Inv, TypeOK
    <2>2. attempt' = attempt \/ attempt' = attempt + 1
      BY DEF Next, Run, Configure, BeginAttempt, Exhausted, AttemptSucceeds, AttemptFails, Wake,
             WakeCanceled, Return, Store, CloseReady, Tick, CancelContext, Get, vars
    <2>3. Pausing
      BY <2>1, <2>2 DEF Spaced, ShiftFits
    <2>4. CASE Configure \/ Exhausted \/ AttemptSucceeds \/ WakeCanceled \/ Store \/ CloseReady
      BY <2>1, <2>3, <2>4
      DEF Inv, Deadlines, Configure, Exhausted, AttemptSucceeds, WakeCanceled, Return, Store,
          CloseReady
    <2>5. CASE BeginAttempt
      BY <2>1, <2>3, <2>5 DEF BeginAttempt
    <2>6. CASE Wake \/ Tick
      BY <2>1, <2>3, <2>6 DEF Wake, Tick
    <2>7. ASSUME NEW e \in Errors, AttemptFails(e)
          PROVE  Pausing'
      <3> DEFINE base == BaseDelay(attempt + 1)
      <3>1. base \in Int /\ base >= DiscoveryRetryBaseDelay
        BY <2>1, <2>7, BaseDelayRange, BaseDelayFits DEF AttemptFails
      <3>2. \/ pc' = "returned" /\ due' = due
            \/ \E jitter \in Jitters(base) :
                  /\ pc' = "backoff"
                  /\ due' = IF base + jitter > 0 THEN now + base + jitter ELSE now
        BY <2>7 DEF AttemptFails
      <3>3. \A jitter \in Jitters(base) : jitter \in Nat
        BY <3>1 DEF Jitters
      <3> HIDE DEF base
      <3>4. QED
        BY <2>1, <2>3, <2>7, <3>1, <3>2, <3>3 DEF AttemptFails
    <2>8. CASE CancelContext \/ (\E g \in Getters : Get(g)) \/ UNCHANGED vars
      BY <2>3, <2>8 DEF CancelContext, Get, vars
    <2>9. QED
      BY <2>4, <2>5, <2>6, <2>7, <2>8 DEF Next, Run
  <1>3. Spaced => (ShiftFits(attempt) => AttemptsSpaced)
    BY DEF Spaced, Pausing
  <1>4. QED
    BY <1>1, <1>2, <1>3, InvHolds, PTL DEF Spec

-----------------------------------------------------------------------------
(* The future.                                                             *)

(* The goroutine, its slot and its channel take only steps of a future:    *)
(* announcing the outcome settles it, every return from Get takes it over, *)
(* and nothing else shows (NewBackground, Get).  This is HandleIsFuture    *)
(* without its fairness.                                                   *)
THEOREM DeferredStepsLikeFuture == Spec => Handle!Init /\ [][Handle!Next]_(Handle!vars)
  <1>1. Init => Handle!Init
    BY DEF Init, Handle!Init
  <1>2. Inv /\ Inv' /\ [Next]_vars => [Handle!Next]_(Handle!vars)
    <2> SUFFICES ASSUME Inv, Inv', [Next]_vars PROVE [Handle!Next]_(Handle!vars)
      OBVIOUS
    <2>1. CASE CloseReady
      <3>1. ~ready /\ ready' = TRUE /\ slot' = slot /\ got' = got
        BY <2>1 DEF CloseReady, Inv, Delivered
      <3>2. slot \in Outcomes
        BY <2>1, OutcomesDistinct DEF CloseReady, Inv, Decided, Delivered, Ended
      <3>3. Handle!Settle
        BY <3>1, <3>2 DEF Handle!Settle, Outcomes
      <3>4. QED
        BY <3>3 DEF Handle!Next
    <2>2. ASSUME NEW g \in Getters, Get(g)
          PROVE  Handle!Get(g)
      <3>1. /\ got[g] = None /\ ready /\ got' = [got EXCEPT ![g] = slot]
            /\ ready' = ready /\ slot' = slot
        BY <2>2 DEF Get
      <3>2. slot # None /\ slot # Pending /\ got \in [Getters -> Outcomes \cup {None}]
        BY <3>1, OutcomesDistinct DEF Inv, Decided, Delivered, Ended
      <3>3. QED
        BY <3>1, <3>2 DEF Handle!Get
    <2>3. CASE UNCHANGED <<ready, slot, got>> \/ (~ready /\ UNCHANGED <<ready, got>>)
      BY <2>3 DEF Handle!vars
    <2>4. CASE Store
      <3>1. ~ready /\ UNCHANGED <<ready, got>>
        BY <2>4 DEF Store, Inv, Delivered
      <3>2. QED
        BY <2>3, <3>1
    <2>5. CASE \/ Configure \/ BeginAttempt \/ Exhausted \/ AttemptSucceeds
               \/ (\E e \in Errors : AttemptFails(e)) \/ Wake \/ WakeCanceled
               \/ Tick \/ CancelContext \/ UNCHANGED vars
      <3>1. UNCHANGED <<ready, slot, got>>
        BY <2>5 DEF Configure, BeginAttempt, Exhausted, AttemptSucceeds, AttemptFails, Wake,
                    WakeCanceled, Return, Tick, CancelContext, vars
      <3>2. QED
        BY <2>3, <3>1
    <2>6. QED
      BY <2>1, <2>2, <2>4, <2>5 DEF Next, Run, Handle!Next
  <1>3. QED
    BY <1>1, <1>2, InvHolds, PTL DEF Spec
=============================================================================
