------------------------------- MODULE Config -------------------------------
(***************************************************************************)
(* Config as New meets it: what applyDefaults fills in, what validate      *)
(* refuses, and what the accepted values make of a session and of the      *)
(* cookies (config.go, auth.go:38-44).                                     *)
(*                                                                         *)
(* A configuration is a record of the fields that take part in a check.    *)
(* Durations count ticks, TicksPerSecond of them to a second, because a    *)
(* Duration need not be whole seconds and the times in a cookie are.       *)
(*                                                                         *)
(*   blank                 the required strings left empty                 *)
(*   SessionSecret         "key", "malformed" base64, "short"              *)
(*   PostLoginRedirect     "unset", "path", "absolute"                     *)
(*   RequireEmailDomain    "unset", "domain", "malformed"                  *)
(*   CookieName            "unset", "plain", "prefixed"                    *)
(*   CookiePath            "unset", "root", "other"                        *)
(*   UserResolver          whether there is one                            *)
(*   SessionTTL, RevalidateInterval, DiscoveryRetryBudget   durations      *)
(*   RetainTokens, ReresolveOnRevalidate, CookieHostPrefix, InsecureCookie *)
(***************************************************************************)
EXTENDS Integers

CONSTANTS
    DefaultSessionTTL,             \* defaultSessionTTL
    DiscoveryRetryBudgetDefault,
    TicksPerSecond

ASSUME ConfigConstants ==
    /\ DefaultSessionTTL \in Nat \ {0}
    /\ DiscoveryRetryBudgetDefault \in Nat \ {0}
    /\ TicksPerSecond \in Nat \ {0}

\* Every configuration a caller may pass to New.
Configurations ==
    [blank : SUBSET {"IssuerURL", "KeycloakURL", "Realm", "ClientID", "ClientSecret",
                     "CallbackURL", "SessionSecret"},
     SessionSecret : {"key", "malformed", "short"},
     PostLoginRedirect : {"unset", "path", "absolute"},
     RequireEmailDomain : {"unset", "domain", "malformed"},
     CookieName : {"unset", "plain", "prefixed"},
     CookiePath : {"unset", "root", "other"},
     UserResolver : BOOLEAN,
     SessionTTL : Int, RevalidateInterval : Int, DiscoveryRetryBudget : Int,
     RetainTokens : BOOLEAN, ReresolveOnRevalidate : BOOLEAN,
     CookieHostPrefix : BOOLEAN, InsecureCookie : BOOLEAN]

-----------------------------------------------------------------------------
(* Seeded faults.                                                          *)

\* A floor accepted whatever the session's lifetime.
FloorValidAnyLength(c) == c.RevalidateInterval > 0 => c.RetainTokens

\* The prefix accepted on any path, as if Secure were all it needs.
HostPrefixValidAnyPath(c) == c.CookieHostPrefix => ~c.InsecureCookie

-----------------------------------------------------------------------------
(* applyDefaults and validate.                                             *)

Default(v, unset, d) == IF v = unset THEN d ELSE v

\* The session cookie joins the flow cookies under the prefix.
ApplyDefaults(c) ==
    [c EXCEPT !.PostLoginRedirect = Default(@, "unset", "path"),
              !.SessionTTL = Default(@, 0, DefaultSessionTTL),
              !.CookieName = IF c.CookieHostPrefix THEN "prefixed"
                             ELSE Default(@, "unset", "plain"),
              !.CookiePath = Default(@, "unset", "root"),
              !.DiscoveryRetryBudget = Default(@, 0, DiscoveryRetryBudgetDefault)]

\* The provider is named by IssuerURL, or by KeycloakURL and Realm.
Required(c) ==
    {"ClientID", "ClientSecret", "CallbackURL", "SessionSecret"}
        \cup (IF "IssuerURL" \in c.blank THEN {"KeycloakURL", "Realm"} ELSE {})

StringsValid(c) ==
    /\ Required(c) \cap c.blank = {}
    /\ c.SessionSecret = "key"
    /\ c.RequireEmailDomain # "malformed"
    /\ c.PostLoginRedirect = "path"

\* The interval refusals: no floor without a refresh token, nor one that comes
\* after the session's end.
FloorValid(c) ==
    c.RevalidateInterval > 0 => c.RetainTokens /\ c.RevalidateInterval < c.SessionTTL

ReresolveValid(c) ==
    c.ReresolveOnRevalidate => c.RevalidateInterval > 0 /\ c.UserResolver

\* A hand-prefixed CookieName without the option is only warned about.
HostPrefixValid(c) ==
    c.CookieHostPrefix => ~c.InsecureCookie /\ c.CookiePath = "root"

\* validate, on what applyDefaults left.
Validate(c) ==
    StringsValid(c) /\ FloorValid(c) /\ ReresolveValid(c) /\ HostPrefixValid(c)

-----------------------------------------------------------------------------
(* What the values are used for.                                           *)

SecureCookie(c) == ~c.InsecureCookie

\* flowCookieName; the session cookie has its own.
FlowCookieName(c) == IF c.CookieHostPrefix THEN "prefixed" ELSE "plain"

\* Every cookie is written on CookiePath, Secure unless configured otherwise,
\* and without a Domain.
CookieWritten(c, name) ==
    [name |-> name, secure |-> SecureCookie(c), path |-> c.CookiePath]

\* The browser drops a prefixed cookie that is not Secure or not on "/".
Stored(k) == k.name = "prefixed" => k.secure /\ k.path = "root"

Unix(t) == t \div TicksPerSecond

\* A session minted at t: Exp and LastValidated in seconds, and its token.
MintedAt(c, t) ==
    [exp |-> Unix(t + c.SessionTTL), lv |-> Unix(t), rt |-> c.RetainTokens]

\* A request at time t makes maybeRevalidate ask the IdP about s: the browser
\* still sends the cookie, whose Expires is Exp, the floor is due, and there is
\* a token to ask with.
Asks(c, s, t) ==
    /\ t < s.exp * TicksPerSecond
    /\ c.RevalidateInterval > 0
    /\ t - s.lv * TicksPerSecond >= c.RevalidateInterval
    /\ s.rt
=============================================================================
