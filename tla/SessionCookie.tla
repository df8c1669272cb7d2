--------------------------- MODULE SessionCookie ---------------------------
(***************************************************************************)
(* The session as the browser holds it: one cookie, or a "chunked:N"       *)
(* header and N chunk cookies (session.go).  The payload changes size from *)
(* one write to the next, responses of concurrent requests arrive in any   *)
(* order, and the browser may evict any cookie.                            *)
(*                                                                         *)
(* An encrypted payload is the sequence of its bytes, each marked with the *)
(* write that made it, so that GCM's authentication is equality with what  *)
(* that write encoded.  The browser applies one response's Set-Cookie      *)
(* headers together.                                                       *)
(***************************************************************************)
EXTENDS Integers, Sequences, SequencesExt, FiniteSets

CONSTANTS
    ChunkSize,    \* maxCookieValueBytes
    MaxChunks,    \* maxSessionCookieChunks
    CookieCap,    \* the browser's limit on one cookie
    Sizes,        \* encoded lengths of the payloads written
    MaxWrites,    \* bound: payloads written
    MaxInFlight   \* bound: responses under way

ASSUME SessionCookieAssumption ==
    /\ {ChunkSize, MaxChunks, CookieCap, MaxWrites, MaxInFlight} \subseteq Nat \ {0}
    /\ ChunkSize <= CookieCap
    /\ Sizes \subseteq Nat \ {0}

VARIABLES
    jar,       \* the browser's cookies: base is 0, chunk i is i
    sizes,     \* encoded length of each payload written
    inFlight,  \* responses under way, as the cookies they set
    last,      \* the write of the last response delivered, 0 if it cleared
    evicted    \* a cookie was evicted since

vars == <<jar, sizes, inFlight, last, evicted>>

Names == 0 .. MaxChunks

\* Cookie values.  chunks > 0 is the "chunked:N" header, which no payload can
\* look like.
Header(n) == [chunks |-> n, bytes |-> <<>>]
Data(bytes) == [chunks |-> 0, bytes |-> bytes]
NoCookie == [chunks |-> -1, bytes |-> <<>>]

-----------------------------------------------------------------------------
(* Writing.                                                                *)

\* encryptSession.
Encrypt(w, size) == [i \in 1 .. size |-> <<w, i>>]

\* A fault: a last chunk one byte too long is not cut.
ChunkStringGreedy(s) ==
    LET cut[rest \in 0 .. Len(s)] ==
            IF rest > ChunkSize + 1
            THEN <<SubSeq(s, Len(s) - rest + 1, Len(s) - rest + ChunkSize)>>
                     \o cut[rest - ChunkSize]
            ELSE <<SubSeq(s, Len(s) - rest + 1, Len(s))>>
    IN  cut[Len(s)]

\* chunkString(s, maxCookieValueBytes): cut off a chunk while more than one
\* chunk is left.
ChunkString(s) ==
    LET cut[rest \in 0 .. Len(s)] ==
            IF rest > ChunkSize
            THEN <<SubSeq(s, Len(s) - rest + 1, Len(s) - rest + ChunkSize)>>
                     \o cut[rest - ChunkSize]
            ELSE <<SubSeq(s, Len(s) - rest + 1, Len(s))>>
    IN  cut[Len(s)]

\* A fault: the cap is checked after the header is written.
SetSessionCookieHeaderFirst(encrypted) ==
    LET chunks == ChunkString(encrypted)
        n == Len(chunks)
    IN  IF Len(encrypted) <= ChunkSize THEN [name \in {0} |-> Data(encrypted)]
        ELSE IF n > MaxChunks THEN [name \in {0} |-> Header(n)]
        ELSE [name \in 0 .. n |-> IF name = 0 THEN Header(n) ELSE Data(chunks[name])]

\* The cookies setSessionCookie sets.  A payload over the cap is refused before
\* any cookie is written.
SetSessionCookie(encrypted) ==
    LET chunks == ChunkString(encrypted)
        n == Len(chunks)
    IN  IF Len(encrypted) <= ChunkSize THEN [name \in {0} |-> Data(encrypted)]
        ELSE IF n > MaxChunks THEN <<>>
        ELSE [name \in 0 .. n |-> IF name = 0 THEN Header(n) ELSE Data(chunks[name])]

\* A fault: only the base cookie is expired.
ClearBaseOnly == [name \in {0} |-> NoCookie]

\* The cookies clearSessionCookie expires.
ClearSessionCookie == [name \in Names |-> NoCookie]

-----------------------------------------------------------------------------
(* Reading.                                                                *)

NoSession == -1   \* ErrNoSession
Invalid == -2     \* ErrSessionInvalid

\* decryptSession: the write whose encoding this is.
Decrypt(bytes) ==
    IF \E w \in DOMAIN sizes : bytes = Encrypt(w, sizes[w])
    THEN CHOOSE w \in DOMAIN sizes : bytes = Encrypt(w, sizes[w])
    ELSE Invalid

\* A fault: every chunk cookie the request carries is appended.
ReadEveryChunk ==
    LET base == jar[0]
        present == {i \in 1 .. MaxChunks : jar[i] # NoCookie}
    IN  IF base = NoCookie THEN NoSession
        ELSE IF base.chunks = 0 THEN Decrypt(base.bytes)
        ELSE Decrypt(FlattenSeq([i \in 1 .. Cardinality(present) |-> jar[i].bytes]))

\* readSessionCookie.
ReadSessionCookie ==
    LET base == jar[0]
        n == base.chunks
    IN  IF base = NoCookie THEN NoSession
        ELSE IF n = 0 THEN Decrypt(base.bytes)
        ELSE IF \/ n > MaxChunks
                \/ \E i \in 1 .. n : jar[i] = NoCookie \/ Len(jar[i].bytes) > ChunkSize
             THEN Invalid
        ELSE Decrypt(FlattenSeq([i \in 1 .. n |-> jar[i].bytes]))

-----------------------------------------------------------------------------
Init ==
    /\ jar = [name \in Names |-> NoCookie]
    /\ sizes = <<>>
    /\ inFlight = {}
    /\ last = 0
    /\ evicted = FALSE

\* A handler writes the session.  A refused write leaves the response, which
\* every caller lets go on or answers with an error, without session cookies.
Write(size) ==
    /\ Len(sizes) < MaxWrites /\ Cardinality(inFlight) < MaxInFlight
    /\ sizes' = Append(sizes, size)
    /\ LET w == Len(sizes')
           cookies == SetSessionCookie(Encrypt(w, size))
       IN  inFlight' = inFlight \cup {[write |-> w, set |-> cookies]}
    /\ UNCHANGED <<jar, last, evicted>>

\* A handler clears the session.
Clear ==
    /\ Cardinality(inFlight) < MaxInFlight
    /\ inFlight' = inFlight \cup {[write |-> 0, set |-> ClearSessionCookie]}
    /\ UNCHANGED <<jar, sizes, last, evicted>>

\* The browser takes the cookies of a response.  It drops a Set-Cookie that is
\* over its limit and keeps what it has under that name.
Deliver(response) ==
    /\ inFlight' = inFlight \ {response}
    /\ jar' = [name \in Names |->
                  IF /\ name \in DOMAIN response.set
                     /\ Len(response.set[name].bytes) <= CookieCap
                  THEN response.set[name] ELSE jar[name]]
    /\ IF response.write # 0 /\ sizes[response.write] > ChunkSize * MaxChunks
       THEN UNCHANGED <<last, evicted>>
       ELSE last' = response.write /\ evicted' = FALSE
    /\ UNCHANGED sizes

\* The browser evicts one cookie of the domain.
Evict(name) ==
    /\ jar[name] # NoCookie
    /\ jar' = [jar EXCEPT ![name] = NoCookie]
    /\ evicted' = TRUE
    /\ UNCHANGED <<sizes, inFlight, last>>

Next ==
    \/ \E size \in Sizes : Write(size)
    \/ Clear
    \/ \E response \in inFlight : Deliver(response)
    \/ \E name \in Names : Evict(name)

Spec == Init /\ [][Next]_vars

-----------------------------------------------------------------------------
(* Properties.                                                             *)

(***************************************************************************)
(* The last write is what the next request reads, whatever sizes the       *)
(* sessions before it had and whatever chunks they left behind; a write    *)
(* refused over the cap leaves the session that was there.  If the browser *)
(* evicts a cookie, the session may be gone but is never an older one.     *)
(***************************************************************************)
ReadBack ==
    LET expected == IF last = 0 THEN NoSession ELSE last
    IN  IF evicted THEN ReadSessionCookie \in {expected, NoSession, Invalid}
        ELSE ReadSessionCookie = expected

(***************************************************************************)
(* A sign-out leaves nothing of the session in the browser, the chunks of  *)
(* sessions larger than the last one included.                             *)
(***************************************************************************)
ClearedClean == last = 0 => \A name \in Names : jar[name] = NoCookie
=============================================================================
