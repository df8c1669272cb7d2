------------------------------ MODULE Session ------------------------------
(***************************************************************************)
(* The session payload of session.go and what each operation writes into  *)
(* the fields that decide how long a session lives and when its claims     *)
(* are re-checked.  Every operator takes a payload and returns the one     *)
(* the code would write back as the cookie.  A payload is any record with  *)
(* at least the fields below; the modules that use this one add more.      *)
(*                                                                         *)
(*   exp   Exp: the cookie is refused once now > exp                       *)
(*   lv    LastValidated: the anchor of the revalidation floor, 0 = not    *)
(*         recorded (cookies minted before v0.19.0)                        *)
(*   rra   ResolveRetryAt: when a soft-failed re-resolution is retried,    *)
(*         0 = no retry pending                                            *)
(*   aut   Aut: the ID token's auth_time, 0 = unknown                      *)
(*   rt    RefreshToken, NoToken = none                                    *)
(*   src   Src: "code" for the browser flow, "grant" for IssueSession      *)
(*                                                                         *)
(* Times are whole seconds, as stored in the cookie.                       *)
(***************************************************************************)
EXTENDS Integers

CONSTANTS
    SessionTTL,                  \* Config.SessionTTL
    RevalidateInterval,          \* Config.RevalidateInterval, 0 = floor off
    RevalidateTransportBackoff,  \* revalidateTransportBackoff
    ReresolveOnRevalidate,       \* Config.ReresolveOnRevalidate
    RetainTokens,                \* Config.RetainTokens
    NoToken                      \* the empty refresh token

(***************************************************************************)
(* What Config.validate accepts (config.go:543-575): a floor needs the     *)
(* retained refresh token and must be shorter than the session, and a      *)
(* re-resolution needs a floor.  The transport backoff is a positive       *)
(* constant of the library.                                                *)
(***************************************************************************)
ASSUME ConfigAssumption ==
    /\ SessionTTL \in Nat /\ SessionTTL > 0
    /\ RevalidateInterval \in Nat
    /\ RevalidateTransportBackoff \in Nat /\ RevalidateTransportBackoff > 0
    /\ ReresolveOnRevalidate \in BOOLEAN
    /\ RetainTokens \in BOOLEAN
    /\ RevalidateInterval > 0 => RetainTokens /\ RevalidateInterval < SessionTTL
    /\ ReresolveOnRevalidate => RevalidateInterval > 0

-----------------------------------------------------------------------------
(* Seeded faults: what the operators of this module would be under a       *)
(* plausible slip in the code.  Each shows that some property notices it.  *)

\* The floor compared with > and a second of tolerance.
FloorDueLate(p, now) ==
    /\ RevalidateInterval > 0
    /\ now - (IF p.lv > 0 THEN p.lv ELSE p.exp - SessionTTL) > RevalidateInterval + 1

\* A pending retry taken as due.
RetryDueAtOnce(p, now) == ReresolveOnRevalidate /\ p.rra > 0

\* The refreshed auth_time taken as it comes.
AdoptRefreshedAuthTime(stored, refreshed) ==
    IF refreshed > 0 THEN refreshed ELSE stored

\* The soft failure of versions before v0.30.0, which backed the IdP anchor off.
SoftResolvedAnchorBackoff(p, now) ==
    LET b == IF RevalidateTransportBackoff >= RevalidateInterval
             THEN RevalidateInterval \div 2 ELSE RevalidateTransportBackoff
    IN  [p EXCEPT !.lv = now + b - RevalidateInterval, !.rra = now + b]

\* A soft failure that slides the session all the same.
SoftResolvedSlides(p, now) ==
    [p EXCEPT !.lv = now, !.rra = now + RevalidateTransportBackoff, !.exp = now + SessionTTL]

\* A backoff that slides the session all the same.
PersistBackoffSlides(p, now) ==
    [p EXCEPT !.lv = now + RevalidateTransportBackoff - RevalidateInterval,
              !.exp = now + SessionTTL]

\* A backoff computed from the zero time.
PersistBackoffFromEpoch(p, now) ==
    [p EXCEPT !.lv = RevalidateTransportBackoff - RevalidateInterval]

\* The rotated refresh token not stored.
RefreshedDropsToken(p, rt, aut) ==
    [p EXCEPT !.aut = IF aut > 0 /\ (@ <= 0 \/ aut < @) THEN aut ELSE @]

-----------------------------------------------------------------------------
(* Reading a payload.                                                      *)

\* decryptSession: a cookie is accepted up to and including its Exp.
Expired(p, now) == now > p.exp

\* isGrantMinted
IsGrantMinted(p) == p.src = "grant"

\* A backoff at or beyond the interval would move the anchor into the future.
TransportBackoff ==
    IF RevalidateTransportBackoff >= RevalidateInterval
    THEN RevalidateInterval \div 2
    ELSE RevalidateTransportBackoff

\* The time the floor is measured from: an unrecorded LastValidated falls back
\* to the issue time, recovered from Exp.
ValidationAnchor(p) == IF p.lv > 0 THEN p.lv ELSE p.exp - SessionTTL

\* maybeRevalidate's first arm: the IdP must be asked.
FloorDue(p, now) ==
    /\ RevalidateInterval > 0
    /\ now - ValidationAnchor(p) >= RevalidateInterval

\* maybeRevalidate's second arm: only the resolver must be asked again.
ResolveRetryDue(p, now) == ReresolveOnRevalidate /\ p.rra > 0 /\ now >= p.rra

-----------------------------------------------------------------------------
(* Writing a payload.                                                      *)

\* A refresh is not an authentication: auth_time may fill an unknown or move
\* earlier, never later.
MergeRefreshedAuthTime(stored, refreshed) ==
    IF refreshed > 0 /\ (stored <= 0 \/ refreshed < stored) THEN refreshed ELSE stored

\* The fields a successful refresh grant always replaces, whatever the
\* resolver then says.
Refreshed(p, rt, aut) ==
    [p EXCEPT !.rt  = IF rt = NoToken THEN @ ELSE rt,
              !.aut = MergeRefreshedAuthTime(@, aut)]

\* The grant succeeded and nothing is left to resolve: the session slides.
Stamped(p, now) ==
    [p EXCEPT !.rra = 0, !.lv = now, !.exp = now + SessionTTL]

\* The grant succeeded and the resolver erred: the IdP check is recorded, the
\* resolver gets its own retry time, Exp does not slide.
SoftResolved(p, now) ==
    [p EXCEPT !.lv = now, !.rra = now + TransportBackoff]

\* The grant got no verdict: the anchor is moved so that the next attempt is
\* one backoff away.  Exp is not touched.
PersistBackoff(p, now) ==
    [p EXCEPT !.lv = now + TransportBackoff - RevalidateInterval]

\* A resolver-only retry that erred again.
RetrySoft(p, now) == [p EXCEPT !.rra = now + TransportBackoff]

\* A resolver-only retry that was answered: Exp slides to what LastValidated
\* allows and is never shortened.
RetryApplied(p, now) ==
    [p EXCEPT !.rra = 0,
              !.exp = IF p.lv + SessionTTL > @ THEN p.lv + SessionTTL ELSE @]

\* A session sync that found the same person: stamped like a revalidation,
\* except that a pending resolver retry stays pending.  A grant-minted session
\* does not adopt the browser's tokens.
SyncStamped(p, now, rt) ==
    [p EXCEPT !.lv  = now,
              !.exp = now + SessionTTL,
              !.rt  = IF RetainTokens /\ ~IsGrantMinted(p) /\ rt # NoToken
                      THEN rt ELSE @]

\* AccessToken stores a rotated token pair and nothing else.
AccessTokenStored(p, rt) == [p EXCEPT !.rt = IF rt = NoToken THEN @ ELSE rt]
=============================================================================
