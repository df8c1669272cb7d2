---------------------------- MODULE MCDiscovery ----------------------------
(* Discovery with every kind of budget (opted out, defaulted and set), and *)
(* with the configurations that differ in one group of fields that are     *)
(* checked together: the floor and the resolver, the cookies, the strings. *)
(* TicksPerSecond is 2, so lifetimes and floors fall on half seconds too.  *)
EXTENDS Discovery

Sound ==
    [blank |-> {"IssuerURL"}, SessionSecret |-> "key", PostLoginRedirect |-> "unset",
     RequireEmailDomain |-> "unset", CookieName |-> "unset", CookiePath |-> "unset",
     UserResolver |-> TRUE, SessionTTL |-> 0, RevalidateInterval |-> 0,
     DiscoveryRetryBudget |-> -1, RetainTokens |-> FALSE, ReresolveOnRevalidate |-> FALSE,
     CookieHostPrefix |-> FALSE, InsecureCookie |-> FALSE]

Budgets == {[Sound EXCEPT !.DiscoveryRetryBudget = b] : b \in {-1, 0, 8, 12}}

Floors ==
    {[Sound EXCEPT !.SessionTTL = ttl, !.RevalidateInterval = floor, !.RetainTokens = rt,
                   !.ReresolveOnRevalidate = rr, !.UserResolver = r] :
        ttl \in {-2, 0, 3, 4}, floor \in {-1, 0, 1, 2, 3, 4, 5, 8},
        rt \in BOOLEAN, rr \in BOOLEAN, r \in BOOLEAN}

Cookies ==
    {[Sound EXCEPT !.CookieHostPrefix = hp, !.InsecureCookie = in, !.CookieName = name,
                   !.CookiePath = path] :
        hp \in BOOLEAN, in \in BOOLEAN, name \in {"unset", "plain", "prefixed"},
        path \in {"unset", "root", "other"}}

Strings ==
    {[Sound EXCEPT !.blank = b] :
        b \in {{}, {"KeycloakURL", "Realm"}, {"IssuerURL", "Realm"}, {"IssuerURL", "ClientID"},
               {"IssuerURL", "SessionSecret"}}}
    \cup {[Sound EXCEPT !.SessionSecret = s] : s \in {"malformed", "short"}}
    \cup {[Sound EXCEPT !.PostLoginRedirect = p] : p \in {"path", "absolute"}}
    \cup {[Sound EXCEPT !.RequireEmailDomain = e] : e \in {"domain", "malformed"}}

MCConfigs == Budgets \cup Floors \cup Cookies \cup Strings
=============================================================================
