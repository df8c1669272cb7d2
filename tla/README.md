# Verification of go-vai-oidc

TLA+ models of the go-vai-oidc library (OIDC login, encrypted session cookies,
revalidation, session sync, step-up, tenancy), TLC runs over small instances, and
TLAPS proofs of the safety properties for every value of the constants:
any number of requests, replicas, tabs and round trips, any interval, retention and
budget. Paths are relative to the repository (`src/`).

## 1. Inventory

The server keeps almost nothing. All session state is in cookies the browser
holds, so every request works on a *copy* of the session, and the response
that is delivered last wins. The only shared server state is one flight map
per process.

| Component | State | Operations | Hard behaviour | What makes it correct |
|---|---|---|---|---|
| Session payload (`session.go`, `revalidate.go`, `stepup.go`) | `Exp`, `LastValidated`, `ResolveRetryAt`, `Aut`, `RefreshToken`, `Src` in the cookie | login callback, `IssueSession`, `maybeRevalidate` (grant, resolver, retry), sync, `AccessToken`, logout | outages, soft failures and retries move three deadlines against each other; failed writes | bounded life, the floor holds, retries are paced, `auth_time` is not forged |
| Revalidation flights (`revalidate_flight.go`) | `calls` map, per-call channel, result, end time | `do`, `pruneLocked` | concurrent callers, panic of the leader, cancelled waiter, retained answers | one question at a time, fresh answers, nobody hangs |
| Concurrent revalidation (`revalidate.go`, `auth.go`, `user.go`) | cookie in the browser, copies in requests, live refresh token at the IdP | requests with and without the middleware, `handleSession`, `UpdateSession`, `AccessToken`, deliveries | refresh-token rotation; several replicas, restarts; late responses | a browser does not sign itself out; sign-outs reach every request |
| Round trips (`auth.go`, `sessionsync.go`, `stepup.go`, `cookieguard.go`) | four flow cookies shared by all tabs, and cookies of the same names set by other hosts of the site | `handleLogin`, `handleSessionSync`, `handleCallback`, `uniqueCookie` | tabs overwrite each other's cookies; replies come back in any order; two cookies of one name | step-ups are honoured, sync ends sessions only on evidence, no duplicate decides anything |
| Admission, tenancy and the staff gate (`admission.go`, `email_domain.go`, `reresolve.go`, `obolresolver/`, `staff.go`) | organization, memberships, address, verification and realm roles in the cookie | login, `IssueSession`, re-resolution, retry, `UpdateSession`, `RequireStaff` | memberships and claims change while the directory or the IdP is down | the tenant is one the directory vouched for; a lost role or address closes its gate within a bound |
| Configuration (`config.go`) | the `Config` given to `New` | `applyDefaults`, `validate` | durations compared as such, stored as whole seconds; settings that depend on each other | an accepted setting takes effect |
| Discovery (`discovery_retry.go`, `deferred.go`) | attempt, deadline, result slot, ready channel | retry loop, `NewBackground`, `Get`, `Ready`, `Err` | hanging attempts, jitter, overflow, publication order | the budget is held and everybody gets the result |
| Browser script (`sessionsync_script.js`) | `inFlight`, `stopped`, `silentRuns`, the frame | `sync`, `finish`, `act`, timer | late messages, stripped scripts, blocked frames | closing verdicts reload, nothing else does, a block is reported |
| Cookie chunking (`session.go`) | base cookie and chunks in the browser | `setSessionCookie`, `readSessionCookie`, `clearSessionCookie` | sessions that shrink or grow, overtaking responses, eviction | what is read is what was written last, or nothing |

Interactions: requests call `maybeRevalidate`, which calls the IdP and the
resolver through the flight map and writes the cookie; sync and login callbacks
write the same cookie without the flight map; the script drives the sync
endpoint from hidden frames and reloads pages; `New` builds all of this after
discovery.

Not modelled: redirect and logout URLs (`postLoginTarget`, `isValidRedirect`,
`appendQueryParam`, `buildLogoutURL`) and the parsing of addresses and cookie
values, which are functions of one string; ID-token verification and claim
extraction, which are the go-oidc library and a copy of claims; script serving
and the blocked report, which keep no state (reasons in `PROJECT.json`).

## 2. Modules

| Module | Models | State and actions |
|---|---|---|
| `Session` | what each operation writes into a payload | no state: one operator per write (`Stamped`, `SoftResolved`, `PersistBackoff`, `RetryApplied`, ...). `ConfigAssumption` is what `Config.validate` accepts |
| `SessionLife` | one line of cookies, from a login on | `jar` is the cookie; the other variables record what really happened (when the IdP vouched, was asked, when the resolver answered). One action per outcome of a request, callback or call |
| `Flights` | `revalFlights.do` | a call is named by the caller that leads it: `calls` is the map, `done` its closed channels, `res` and `finished` its fields. `Enter` is the first critical section, `Publish` the deferred one; panics and cancellations are actions |
| `Memo` | the abstract specification of `do`: no map, no pruning, no channel; a call is decided in one step and answers for its key for exactly the retention | implemented by `Flights` under the mapping in `Promise` |
| `Revalidation` | composes `Session` and `Flights` (by `INSTANCE`) with a browser, replicas and an IdP | a request is sent with a copy of `jar`, arrives, joins or leads a flight, applies the answer to its own copy, runs its handler, responds, is delivered; `ArriveBare` is a route without the middleware, `Restart` a replica that loses its flights and the requests it was serving |
| `LoginFlow` | login, step-up and sync round trips of one browser, and the duplicate-cookie guard | the four flow cookies, the session cookie, the IdP's SSO session; a callback reads cookies when it arrives and writes when its response is delivered. `shadow` is the set of names under which the browser also sends another host's cookie: `Sent` is what a request carries, `Duplicate`, `Missing` and `Carried` the three answers of `uniqueCookie` |
| `Tenancy` | uses `Session` for the deadlines; adds organization, memberships, landings, the login gates and the staff gate | the directory changes at any time and what the IdP says of the person (`claims`) once; the cookie carries the identity as it was last read; one action per operation |
| `Config` | `applyDefaults`, `validate`, and what the accepted values make of a session and its cookies | no state; a configuration is a record, a string one of the classes the checks tell apart, a duration a number of ticks, several to a second |
| `Discovery` | `New` (extends `Config`), the retry loop and `DeferredAuth` | `Configure` is `applyDefaults` and `validate`; time passes inside attempts and sleeps; the delay is shifted modulo the width of a `Duration` |
| `Future` | the abstract specification of a `DeferredAuth`: decided once, returned to everybody | implemented by `Discovery` under the mapping in `Handle` |
| `SyncClient` | the browser script in several tabs | frames, queued messages and load events, timers |
| `SessionCookie` | chunking over a browser's cookie jar | a cookie value is a sequence of (write, position) bytes, so a mixed reassembly is visible; AES-GCM is "all bytes of one write, in order" |

`*Proofs` modules hold the proofs about the module they are named after (section 4).
`MC*` modules only add symmetry sets and non-scalar constants. `SessionLife`, `Flights`,
`SyncClient` and `SessionCookie` are checked directly. Operators under "Seeded faults" are what a
definition would be under a plausible slip; each property fails when one of
them takes the definition's place (`PROJECT.json`, `mutants`).

### Why one line of cookies is enough for the bounds

Every operation derives the cookie it writes from the one cookie its request
carried. A property that holds along every such line therefore holds for every
cookie in any browser, whatever the interleaving. Concurrency adds one thing: the
answer a request applies may have been given to another request earlier. Its age
is the constant `AnswerAge`; `Revalidation`'s `AnswerFresh` says that the flights
keep it (retention plus the bound on the shared work), and is proved too.

### Abstractions

* Times are whole seconds, the unit stored in cookies. The code compares the
  floor with sub-second clocks; a bound read with the models is exact up to one
  second. `Tick` is one second, and the constants are scaled down so that the order
  relations between them (backoff below, at and above the interval; interval
  below and above the retention) are kept.
* Encryption is an ideal check of integrity. Identities, tokens, states and codes are
  model values or numbers.
* A write of the session cookie may fail (too many chunks) wherever the code tolerates
  it; the cookie then stays.
* In `SessionCookie` the browser applies the `Set-Cookie` headers of one response
  together. Applied one at a time, with a request sent in between, the new header
  over old chunks could be read; that window is not modelled.
* The IdP is external: it may answer, refuse, fail, lose the reply, rotate
  tokens, ignore `max_age`, or answer a sync with any error.

## 3. Runs

Twelve runs: ten that hold, two that must be violated.

| Run | Shows |
|---|---|
| `life` | with re-resolution and sync: `LifeBound`, `FloorHolds`, `GrantPaced`, `ResolverPaced`, `ResolvedLifeBound`, `AuthTimeEvidenced`. The horizon is two intervals past one TTL, so that an outage, a soft failure and a retry can follow one another inside a session's life |
| `flights` | three callers, two keys, panics and cancellations: `AskedOnce`, `AnswerShared`, `DoIsMemo`, the refinement of `Memo`, and `EveryoneReturns`: nobody hangs in `do`, and nobody leaves without an answer. Three callers allow leader, waiter and straggler, or two rival keys |
| `revalidation_prompt` | `NoSelfSignOut`, `RotationNotLost` over two floors, IdP outages included |
| `revalidation_faults` | two replicas, slow wires, lost replies, panics, cancellations, a restart, handlers: `SignOutHasCause` lists the six ways a live session can be refused and shows there is no seventh |
| `revalidation_signout` | interval shorter than retention, no rotation, re-resolution: `SignOutReaches`, with `UpdateSession`, also on a route without the middleware, putting back a cleared cookie, and `AnsweredOnce`, the reason the anchor is in the flight key; `AnswerFresh`, with the resolver keeping an answer waiting |
| `login` | two people, two round trips of any kind, account switches, inline sessions, the same-site refusal, an IdP with or without `auth_time`, and a cookie of any one of the four names set by another host: `StepUpHonoured`, `LoginLostHasCause`, `SoleCookiesDecide`, `SyncEndsOnEvidence` |
| `tenancy` | re-resolution and sync, both gates and the staff policy on: `TenantVouched`, `RemovalBounded`, `OrglessExplained`, `PickKept`, `GateEndsSession`, `StaffBounded` |
| `discovery` | some 300 configurations, each differing from a sound one in a group of fields that are checked together: `NothingInert`; for budgets opted out, defaulted and set `BudgetHeld`, `GivesUpLate`, `AttemptsSpaced`, `GetReturns`; and `HandleIsFuture`, the refinement of `Future` |
| `sync_client` | two tabs: `NoIdleReload`, `ClosingVerdictHeard`, `BlockedReported` |
| `session_cookie` | `ReadBack`, `ClearedClean` with sizes at, below and above each chunk boundary and over the limit |

`NoSelfSignOut` and `RotationNotLost` in `revalidation_prompt` are stated where the
library's own text states them: one replica, a request and its response together
travelling less than the retention, no lost reply, no panic, and stragglers of one
revalidation settled before the next is due (`Prompt` in section 4, under which both are
proved for any number of requests). `revalidation_faults` drops all of
these and says what can then go wrong.

Runs that TLC must find violated: what a comment of the repository says
and the code does not keep.

| Run | Finding |
|---|---|
| `revalidation_rotation_lost` | a resolver-only retry overlapping the next grant writes the spent refresh token back (`revalidate.go:292`) |
| `login_marker` | the sync marker of a frame sends another tab's login callback to the sync handler (`auth.go:637`) |

Other places where the code does less than its text, which the models follow and
the properties are stated around:

* a resolver retry after an IdP outage slides `Exp` past the last provider check plus
  `SessionTTL` (`README.md:189` says never), because `persistBackoff` moves
  `LastValidated` without a check; for the same reason `RevalidatedAt` can name a time
  at which the IdP confirmed nothing (`auth.go:998`). `LifeBound` is the bound that does hold;
* a session sync slides `Exp` and asks no resolver, also under re-resolution
  (`config.go:265`); `ResolvedLifeBound` and `RemovalBounded` say so;
* `handleSyncCallback` judges an error reply before it compares the state
  (`sessionsync.go:176`), so such a reply to another round trip can end the session;
* a login sent to a landing has already set a session cookie without an organization,
  which later requests are served on (`reresolve.go:91`); `OrglessExplained` excepts it;
* the doubling of the discovery delay overflows at attempt 36 of the real constants (500 ms
  shifted by 35 exceeds 2^63 ns), after which a very long budget is retried without a pause;
  `AttemptsSpaced` is checked for budgets below that;
* `Err` can be non-nil while `Ready` is still false, since the slot is filled before the channel
  is closed (`deferred.go:54`, `deferred.go:83`);
* a budget of 0 is replaced by the default and does not disable retries (`config.go:354`);
* the roles a staff route looks at are not only those "captured at login" (`staff.go:159`): re-resolution
  replaces them from the refreshed ID token (`config.go:245`). A grant at which the resolver fails
  discards that token, though, and the retry asks about the stored identity, so under a directory that
  keeps failing at grants and answering at retries a revoked role can outlive one `SessionTTL`;
  `StaffBounded` names this way past the bound and excludes every other;
* a floor that falls in the last second of `SessionTTL` is accepted (`config.go:556` compares durations)
  and may never run, because `Exp` and the cookie's `Expires` are whole seconds; `NothingInert` excepts it;
* a negative `SessionTTL` without a floor is accepted, and every session is then expired at birth.

### Bounds

Every bound is a constant named in the module (`MaxTime`, `MaxToken`,
`MaxSSO`, `MaxWrites`, `MaxInFlight`, `MaxSessions`, `MaxLate`, `MaxAttempts`, `Transit`). The clock bounds let at least
two floors, or one session life and one floor, pass. Two or three concurrent actors
suffice for every overlap the code distinguishes: it treats the others only as
"leader or not" (`Flights`), "cookies mine or another's" (`LoginFlow`), "own frame or another's"
(`SyncClient`). The
silent-run limit is 2 instead of the script's 3: the script only compares a counter with it.
In `Tenancy` the claims change once, and in `Revalidation` one restart happens, because each
property is about the time since the last such event. `LoginFlow` has at most one name shadowed at a time:
the callbacks look at each name separately, and with `CookieHostPrefix` there is none. IdP outages are
in `revalidation_prompt`, the other faults in `revalidation_faults`.
What section 4 proves holds for every value of every bound.

Deadlock checking is off where the system may stop: everyone has returned, all round trips
are over, the clock is at its bound. `SessionLife` keeps it on, since a login is always possible.

### Fairness

* `Flights` (`FairSpec`): weak fairness of each caller's own steps. Goroutines are
  scheduled, and the work ends because `sharedContext` bounds it. No fairness for
  cancellation: waiters need not be rescued by it.
* `Discovery`: the goroutine, the clock and each `Get` are weakly fair. An attempt
  must end only if it has a timeout, that is, only with a positive budget; with
  the budget opted out nothing bounds it but the caller's context, and `GetReturns` does not
  claim anything there.
* `Future` asks that everybody who may return from `Get` does; `HandleIsFuture` gets it from the fairness
  of `Get` above. Nothing is assumed of how or when the result is decided.
* `SyncClient`: the interval keeps calling `sync` in a tab that stays visible and the frame's
  timer fires. Only the tabs in `Visible` are fair: a hidden tab may stay silent for ever.
  A frame that answers is not assumed.

## 4. Proofs

Eight modules prove all 35 invariants that the passing runs check, for every value of the constants: 30 without
a condition and five under one the table names (`AnsweredOnce`, `SignOutReaches`, `AttemptsSpaced`,
`NoSelfSignOut`, `RotationNotLost`). They also prove that `Flights` implements `Memo` and, without its fairness, that `Discovery` implements `Future`, and results no run checks:
what chunking computes, an action property of the flights, and how long a sign-out can be outlived when everything fails. In
each module the invariant that is inductive
is called `Inv` or named after its subject (`CookieInv`; `LifeInv`, `PaceInv`, `AutInv`, `Spaced`, `PromptInv` and `MortalInv` extend `Inv`
where a theorem needs more), a theorem or lemma proves that it always holds (mostly `InvHolds`), one lemma per action or group of actions carries it over a step, and the
theorems below read the property off it and close by `PTL`. Before it was proved, every such invariant was
model-checked with the constants of the runs of its module.

| Module | Theorem | States |
|---|---|---|
| `SessionLifeProofs` | `TypeCorrect`, `FloorAlwaysHolds`, `LifeBounded`, `GrantsPaced`, `RetriesPaced`, `AuthTimeAlwaysEvidenced`, `ResolvedLifeBounded` | `TypeOK`, `FloorHolds`, `LifeBound`, `GrantPaced`, `ResolverPaced`, `AuthTimeEvidenced`, `ResolvedLifeBound` |
| `FlightsProofs` | `FlightsTypeCorrect`, `QuestionAskedOnce`, `AnswersShared`, `DoKeepsItsPromise`, `ResultsPublishedForGood`, `WaitersHaveLeaders` | `TypeOK`, `AskedOnce`, `AnswerShared`, `DoIsMemo`; `PublishedForGood`, an action property: a closed call never changes; `NobodyWaitsInVain`: the leader of every waiter runs or is done |
| `RevalidationProofs` | `SignOutsHaveCauses`, `AnswersStayFresh`, `AnswersUsedOnce`, `SignOutsReach`, `NeverSignedOutByOneself`, `RotationsNotLost`, `SignOutIsFinal` | `SignOutHasCause`, `AnswerFresh`, `AnsweredOnce` (for a floor other than one second), `SignOutReaches` (where the IdP's verdict is not kept from a request), `NoSelfSignOut` and `RotationNotLost` (under `Prompt`), `SignOutFinal`: under every fault no cookie outlives a sign-out by more than the age of an answer and one `SessionTTL`, two under re-resolution (with a floor) |
| `LoginFlowProofs` | `StepUpsHonoured`, `LostLoginsHaveCauses`, `OnlySoleCookiesDecide`, `SyncsEndOnEvidence` | `StepUpHonoured`, `LoginLostHasCause`, `SoleCookiesDecide`, `SyncEndsOnEvidence` |
| `TenancyProofs` | `SessionTenantVouched`, `SessionRemovalBounded`, `SessionOrglessExplained`, `SessionPickKept`, `GateRefusalEndsSession`, `StaffGateBounded` | `TenantVouched`, `RemovalBounded`, `OrglessExplained`, `PickKept`, `GateEndsSession`, `StaffBounded` |
| `DiscoveryProofs` | `DiscoveryBudgetHeld`, `DiscoveryGivesUpLate`, `AcceptedNothingInert`, `AttemptsSpacedUntilOverflow`, `DeferredStepsLikeFuture` | `BudgetHeld`, `GivesUpLate`, `NothingInert`, `AttemptsSpaced` while the shift fits, `HandleIsFuture` without its fairness |
| `SyncClientProofs` | `SyncClientTypeCorrect`, `NoTabReloadsIdly`, `ClosingVerdictsHeard` | `TypeOK`, `NoIdleReload`, `ClosingVerdictHeard` |
| `SessionCookieProofs` | `ChunksReassemble`, `SignOutLeavesNothing`, `LastWriteIsRead` | that joining the chunks of any payload gives it back, `ClearedClean`, `ReadBack` |

### Assumptions

TLC evaluates all of them on the runs.

* `ConfigAssumption` (`Session`): what `Config.validate` accepts, and a positive `SessionTTL`. `validate`
  refuses a non-positive one only together with a floor; without a floor every session would be expired
  at birth and nothing is left to prove. `LifeAssumption`, `TenancyAssumption`: the clock starts after the
  first interval since the epoch; the values that mean "none" are not among those they stand beside.
* `FlightsAssumption`, `RevalidationAssumption`, `ValuesAssumption`: a positive retention, a bound on the
  shared work, and distinct markers for "no answer", "abandoned", "no session", "no Set-Cookie".
* `DiscoveryAssumption`, `ConfigConstants`: the first delay is more than one tick and no more than the cap, the
  timeout, the default lifetime and the default budget are positive, a `Duration` has at least two bits, and the
  configurations given to `New` are records of the right types.
* `LoginFlowAssumption`, `OutcomesAssumption`, `SyncClientAssumption`: bounds are numbers, and "none" is no
  round trip, cookie or outcome.
* `SessionCookieAssumption`: sizes and bounds are positive, and a chunk is no longer than the browser's limit on one cookie, as
  `maxCookieValueBytes` is chosen.

One condition is no assumption on the library but the hypothesis of two theorems. `Prompt` asks for one replica; no fault but
outages and routes without the middleware; no re-resolution (with it `revalidation_rotation_lost` refutes the
conclusion); a request and a response that together travel less than the retention; and, where there is a floor, that the bound on the
shared work and four journeys end before the session is asked about again, which is a floor after an answer and a backoff after an
outage. With the library's constants (retention 10 s, shared work 30 s, backoff 30 s) that means journeys below 5 s and a
floor above 30 s plus four of them, if there is no outage. Through an outage it needs an IdP that fails in less than the backoff minus
the four journeys, read as the value of `RevalidateSharedTimeout`: a call that hangs to the end of its 30 s may meet the next
question, and nothing is claimed of that. `RevalidationPrompt.cfg` satisfies `Prompt`.

### Arguments

**SessionLife.** None of the bounds is inductive: a cookie does not say whether its
`LastValidated` is a provider check or a backoff. `Anchored` supplies the link: the
anchor of the floor is never later than the clock of the last request that applied an IdP
outcome, which is at most `AnswerAge` after the IdP was asked, and `Exp` is never more
than a `SessionTTL` ahead of the clock. `TypeOK /\ Anchored` is inductive and gives the
floor; the key fact is `BackoffRange`, that the backoff is shorter than the interval
(the half-interval rule of `transportBackoff`). `LifeInv` adds that `Exp` is within one `SessionTTL` of
the last word of the IdP unless a resolver retry may still be or has been applied; `PaceInv` ties each
persisted deadline to the attempt it records; `AutInv` keeps an evidenced
`auth_time` positive so that a refresh never takes it for unknown.

**Flights.** `AskedOnce` says nothing about the map, and the map is what a caller looks at. `Registered` ties
them: a call that has ended with an answer is in the map until its retention is over, and a call that
runs is in it; so a caller that finds none of its key may lead. `Waiters` keeps what a waiter knew when
it joined, since its call may be pruned before it wakes. The same two give the refinement: `MapIsMemo` says that what a
caller finds in the map after pruning is exactly what is live by the clock, so that neither lazy pruning nor the entry a panic deletes
can be seen, and `PublishDecides` that a call is over in one step although its result is written before the lock is taken.

**Revalidation.** Three layers. The flight layer is that of `Flights` again, weakened for the flights a restart
forgot. The journey layer (`Place`) says that from its question to the answer a request keeps the
payload its key was made of and the clock it read when it entered. The evidence layer has `Sound` for every
payload anywhere (browser, requests, responses): its anchor is in the past, the flight that last stamped
it was asked about another anchor, and after a sign-out, where the IdP answers, the anchor is at most the
age of an answer past it; so `Sound` survives any order of deliveries, late writes and lost
responses, since they only move payloads around. `Spent` says that a token spent in a
flight was spent by its leader, who has its grant or has answered. A refused leader therefore is not
the spender, and `Asked` leaves only the six causes (`RefusalExcused`, the heart of `SignOutsHaveCauses`).
`AnswersUsedOnce` needs that a backoff moves the anchor. At a floor of one second half the floor is no whole
second, the backed-off cookie may keep its anchor and its `Exp`, and thus its key; so the theorem excludes that
floor, and only that one. `SignOutsReach` excludes outages, lost replies, panics and cancelled waiters
(`IdPAnswers`), after each of which the code deliberately serves on.

`NeverSignedOutByOneself` needs more than excluding the six causes one by one: that two requests never ask about different
stamps of one session depends on where every copy of the cookie is. `PromptInv` says it: at any time either everybody holds one payload
nobody has asked about (`Calm`), or one flight has asked about the payload everybody held and everything else in the browser, the
requests and the responses is that payload or what its answer makes of it (`Chain`). While such a flight is open nothing new is
written; once it is closed, every request sent with the old payload joins it within the retention, and the last of them has been
delivered before the new payload is due, which is where the travel times come in (`Punctual`).

`SignOutIsFinal` assumes nothing of the kind. `Mortal` holds for every payload anywhere: `Exp` is at most one `SessionTTL`
ahead of the clock, and after a sign-out it is below the sign-out plus the age of an answer plus one `SessionTTL`, or, only
under re-resolution and only once no retry is pending, plus two. The second case is the resolver-only retry that slides `Exp` from an
anchor a backoff has moved (section 3); it clears the pending retry, and only a grant, which a signed-out session no longer gets,
sets a new one. The bound with one `SessionTTL` fails there: TLC finds it.

**LoginFlow.** What a pending round trip may rely on (`Held`: its cookies are its own unless a rival
touched them or they ran out; `Undisturbed`, `Current`) is what no other tab's step can take from it.
`Phased` places each round trip, `AllKnown` says every cookie of the browser belongs to a round trip that was started.

**Tenancy.** `Vouched` relates the organization in the cookie to when the directory last answered for it, and
the deadlines of the cookie to that time; the bounds on removals and roles follow by arithmetic.

**Discovery.** `Deadlines` (an attempt and a sleep end within the budget), `Configured` (a loop runs on what `validate`
accepted), `Decided` and `Delivered` (slot, channel and callers agree). `BaseDelayRange` holds however the shift wraps, so the
budget is held beyond the overflow; `Spaced` needs a shift that fits (`ShiftFits`). `DeferredStepsLikeFuture` maps each step
to one of `Future` or to a stutter.

**SyncClient.** `OpenFrame` and `GoneBehind`: an open message of a tab belongs to the frame it has in flight, and
a closing verdict among the messages means that the session the page shows is gone.

**SessionCookie.** `ChunkString` and `FlattenSeq` are recursive functions and the provers do no induction, so what they compute is
proved without it: a closed form (the chunks as subsequences, the join as a prefix) satisfies the equation of the recursion, so the equation
has a solution, and two solutions agree, because the least argument where they differed (`LeastNatural`, from the
well-foundedness of `<`) would not be one. With that, `CookieInv` says that the jar holds exactly what the last response that was taken
wrote, up to evictions, and whatever older chunks lie above its count, which the reader never looks at.

### Only model-checked

The liveness properties `EveryoneReturns`, `GetReturns` and `BlockedReported`, and the fairness of `HandleIsFuture`: fairness and
`ENABLED` are outside the prover's reach. Of `EveryoneReturns` the part that needs no fairness is proved (`WaitersHaveLeaders`), of
`HandleIsFuture` the initial states and the steps (`DeferredStepsLikeFuture`).

## 5. Plan

Order of work: the session's lifetime first, since every other part writes into it, then the flights and their composition,
then the round trips, then tenancy, and last the parts with a state of their own (discovery, script, cookies); then the
proofs, in the same order. All of these are on disk. What is left, in order:

1. That `Validate` gives the `ConfigAssumption` that the life proofs rest on, where there is a floor.
2. `Revalidation` shown to refine `SessionLife`'s cookie steps; `SyncClient` composed with the server's verdicts of
   `LoginFlow` instead of its own summary of them; `Set-Cookie` headers applied one at a time in `SessionCookie`.
