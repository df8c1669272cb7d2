----------------------------- MODULE SyncClient -----------------------------
(***************************************************************************)
(* The browser half of session sync: sessionsync_script.js in several tabs *)
(* of one browser, which share the session cookie.  A run opens a hidden   *)
(* frame; the frame's verdict comes back as a message and as an attribute  *)
(* its load event reads; a timer gives the frame up.  Events are handled   *)
(* in any order, and a message outlives the frame that posted it.          *)
(***************************************************************************)
EXTENDS Integers, FiniteSets

CONSTANTS
    Tabs,
    Visible,      \* the tabs that stay visible; the others are hidden at times
    MaxSilent,    \* MAX_SILENT
    MaxSessions,  \* bound: sessions minted
    MaxLate       \* bound: messages of earlier frames still on their way to a tab

ASSUME SyncClientAssumption ==
    /\ Visible \subseteq Tabs /\ MaxSilent \in Nat /\ MaxSilent > 0
    /\ MaxSessions \in Nat /\ MaxSessions > 0 /\ MaxLate \in Nat

VARIABLES
    enabled,     \* Config.SessionSyncEnabled
    blocked,     \* the deployment's CSP blocks the frame
    session,     \* number of the browser's session, 0 = none
    minted,      \* sessions minted so far
    grant,       \* whether the session was minted by IssueSession
    idp,         \* the browser at the IdP, seen from the session: same, other, none
    page,        \* the session each tab's page was rendered with
    inFlight, stopped, silentRuns,  \* the script's variables
    answered,    \* the open frame has become the verdict document
    events,      \* verdict events not handled yet: via, result, and whether their
                 \* frame is the open one
    reports,     \* beacons sent since the page was loaded
    ended,       \* whether the tab's own frame ended the session: none; pending,
                 \* until the page is reloaded; lost, if its run was closed before
                 \* its verdict was heard
    flashed      \* some tab reloaded although its session stood

vars == <<enabled, blocked, session, minted, grant, idp, page, inFlight, stopped,
          silentRuns, answered, events, reports, ended, flashed>>

browserVars == <<enabled, blocked, session, minted, grant, idp>>

Closing == {"switched", "signed_out"}

Results == Closing \cup {"unchanged", "no_session", "disabled", "error", "not_applicable"}

(***************************************************************************)
(* Types and ranges; in particular the script never counts past            *)
(* MAX_SILENT and a page never sends a second beacon.                      *)
(***************************************************************************)
TypeOK ==
    /\ session \in 0 .. minted /\ minted \in 0 .. MaxSessions
    /\ \A t \in Tabs :
          /\ page[t] \in 0 .. minted
          /\ silentRuns[t] \in 0 .. MaxSilent
          /\ \A e \in events[t] : e.result \in Results
          /\ reports[t] \in {0, 1}

Init ==
    /\ enabled \in BOOLEAN /\ blocked \in BOOLEAN
    /\ session = 1 /\ minted = 1 /\ grant \in BOOLEAN
    /\ idp \in {"same", "other", "none"}
    /\ page = [t \in Tabs |-> 1]
    /\ inFlight = [t \in Tabs |-> FALSE]
    /\ stopped = [t \in Tabs |-> FALSE]
    /\ silentRuns = [t \in Tabs |-> 0]
    /\ answered = [t \in Tabs |-> FALSE]
    /\ events = [t \in Tabs |-> {}]
    /\ reports = [t \in Tabs |-> 0]
    /\ ended = [t \in Tabs |-> "none"]
    /\ flashed = FALSE

-----------------------------------------------------------------------------
(* Seeded faults.                                                          *)

\* A result that is not "unchanged" taken for a closing one.
ReloadsUnlessUnchanged(result) == result \notin {"unchanged", "error", "disabled", "no_session"}

\* Only one of the two closing verdicts acted on.
ReloadsOnSwitched(result) == result = "switched"

\* A run that reached no verdict not counted.
SilentRunsForgotten(t) == 0

-----------------------------------------------------------------------------
(* The server's verdict (handleSessionSync and handleSyncCallback), as     *)
(* LoginFlow models it, and what it does to the session.                   *)

Verdicts ==
    IF ~enabled THEN {"disabled"}
    ELSE IF session = 0 THEN {"no_session"}
    ELSE {"error"} \cup
         (CASE idp = "same"  -> {"unchanged"}
            [] idp = "other" -> {"switched"}
            [] idp = "none"  -> {IF grant THEN "not_applicable" ELSE "signed_out"})

-----------------------------------------------------------------------------
(* The script.                                                             *)

\* sync(), whoever calls it: focus, visibilitychange, the interval, or a 401
\* trap.  A tab that is hidden just does not take this step meanwhile.
Sync(t) ==
    /\ ~stopped[t] /\ ~inFlight[t]
    /\ inFlight' = [inFlight EXCEPT ![t] = TRUE]
    /\ answered' = [answered EXCEPT ![t] = FALSE]
    /\ UNCHANGED <<browserVars, page, stopped, silentRuns, events, reports, ended,
                   flashed>>

\* The frame becomes the verdict document.  A consumer CSP may strip its
\* message.  The load event always follows.
FrameAnswers(t) ==
    /\ inFlight[t] /\ ~answered[t] /\ ~blocked
    /\ Cardinality(events[t]) <= MaxLate
    /\ \E result \in Verdicts, posts \in BOOLEAN :
          /\ session' = IF result \in Closing THEN 0 ELSE session
          /\ events' = [events EXCEPT ![t] = @ \cup
                           {[via |-> v, result |-> result, open |-> TRUE] :
                               v \in {"load"} \cup IF posts THEN {"message"} ELSE {}}]
          /\ ended' = [ended EXCEPT ![t] = IF result \in Closing THEN "pending" ELSE @]
    /\ answered' = [answered EXCEPT ![t] = TRUE]
    /\ UNCHANGED <<enabled, blocked, minted, grant, idp, page, inFlight, stopped,
                   silentRuns, reports, flashed>>

\* The frame is removed: its load event is not delivered any more, a message it
\* has posted is.
Orphaned(es) == {[e EXCEPT !.open = FALSE] : e \in {f \in es : f.via = "message"}}

\* act: which results reload the page.
Reloads(result) == result \in Closing

\* A page load: the script starts afresh.
Load(t) ==
    /\ page' = [page EXCEPT ![t] = session']
    /\ inFlight' = [inFlight EXCEPT ![t] = FALSE]
    /\ stopped' = [stopped EXCEPT ![t] = FALSE]
    /\ silentRuns' = [silentRuns EXCEPT ![t] = 0]
    /\ answered' = [answered EXCEPT ![t] = FALSE]
    /\ events' = [events EXCEPT ![t] = {}]
    /\ reports' = [reports EXCEPT ![t] = 0]
    /\ ended' = [ended EXCEPT ![t] = "none"]

\* The run is closed while its own frame's verdict has not been heard.
Lose(t) == ended' = [ended EXCEPT ![t] = IF @ = "pending" THEN "lost" ELSE @]

\* finish(result) with a verdict, and act.
Finish(t, e) ==
    \/ /\ Reloads(e.result)
       /\ flashed' = (flashed \/ page[t] \in {session} \ {0})
       /\ UNCHANGED session
       /\ Load(t)
    \/ /\ ~Reloads(e.result)
       /\ inFlight' = [inFlight EXCEPT ![t] = FALSE]
       /\ silentRuns' = [silentRuns EXCEPT ![t] = 0]
       /\ stopped' = [stopped EXCEPT ![t] = @ \/ e.result = "disabled"]
       /\ answered' = [answered EXCEPT ![t] = FALSE]
       /\ events' = [events EXCEPT ![t] = Orphaned(@ \ {e})]
       /\ IF e.open THEN UNCHANGED ended ELSE Lose(t)
       /\ UNCHANGED <<session, page, reports, flashed>>

\* The open run's handler hears the frame's load event and any message from
\* this origin, an earlier frame's included.
Heard(t, e) == inFlight[t] /\ (e.via = "message" \/ e.open)

HandleEvent(t, e) ==
    /\ e \in events[t]
    /\ \/ Heard(t, e) /\ Finish(t, e)
       \/ /\ ~Heard(t, e)
          /\ events' = [events EXCEPT ![t] = @ \ {e}]
          /\ UNCHANGED <<session, page, inFlight, stopped, silentRuns, answered, reports,
                         ended, flashed>>
    /\ UNCHANGED <<enabled, blocked, minted, grant, idp>>

\* The counter after a run without a verdict.
SilentRuns(t) == silentRuns[t] + 1

\* A fault: one run too many.
GivesUpAfter(t) == SilentRuns(t) > MaxSilent

\* Whether that run is the last.
GivesUp(t) == SilentRuns(t) >= MaxSilent

\* The timer: finish(null).
Timeout(t) ==
    /\ inFlight[t]
    /\ inFlight' = [inFlight EXCEPT ![t] = FALSE]
    /\ silentRuns' = [silentRuns EXCEPT ![t] = SilentRuns(t)]
    /\ stopped' = [stopped EXCEPT ![t] = @ \/ GivesUp(t)]
    /\ reports' = [reports EXCEPT ![t] = @ + IF GivesUp(t) THEN 1 ELSE 0]
    /\ Lose(t)
    /\ answered' = [answered EXCEPT ![t] = FALSE]
    /\ events' = [events EXCEPT ![t] = Orphaned(@)]
    /\ UNCHANGED <<browserVars, page, flashed>>

-----------------------------------------------------------------------------
(* The person.                                                             *)

\* Signs in to the product in tab t, by redirect or inline.
Login(t) ==
    /\ minted < MaxSessions
    /\ minted' = minted + 1 /\ session' = minted'
    /\ \/ grant' = FALSE /\ idp' = "same"
       \/ grant' = TRUE /\ UNCHANGED idp
    /\ Load(t)
    /\ UNCHANGED <<enabled, blocked, flashed>>

\* Signs in or out at the IdP.
ChangeIdP ==
    /\ idp' \in {"other", "none"} \ {idp}
    /\ UNCHANGED <<enabled, blocked, session, minted, grant, page, inFlight, stopped,
                   silentRuns, answered, events, reports, ended, flashed>>

Next ==
    \/ \E t \in Tabs :
          \/ Sync(t) \/ FrameAnswers(t) \/ Timeout(t) \/ Login(t)
          \/ \E e \in events[t] : HandleEvent(t, e)
    \/ ChangeIdP

Spec == Init /\ [][Next]_vars

\* In a tab that stays visible the interval runs and the frame's timer fires.
FairSpec == Spec /\ \A t \in Visible : WF_vars(Sync(t)) /\ WF_vars(Timeout(t))

-----------------------------------------------------------------------------
(* Properties.                                                             *)

(***************************************************************************)
(* A tab reloads only when the session it shows is gone: no verdict, not a *)
(* late one of an earlier frame and none about an inline login, makes a    *)
(* page flash whose session still stands.                                  *)
(***************************************************************************)
NoIdleReload == ~flashed

(***************************************************************************)
(* A closing verdict reaches its page: once a tab's own frame ended the    *)
(* session, the verdict is on its way to the reload, unless the run was    *)
(* timed out, or closed by a message of an earlier frame, before it was    *)
(* heard.  Nothing else loses it.                                          *)
(***************************************************************************)
ClosingVerdictHeard ==
    \A t \in Tabs :
        ended[t] = "pending" => \E e \in events[t] : e.open /\ e.result \in Closing

(***************************************************************************)
(* A blocked frame is reported: where no frame ever reaches a verdict, a   *)
(* tab that stays visible stops asking and has told the server, exactly    *)
(* once.                                                                   *)
(***************************************************************************)
BlockedReported ==
    \A t \in Visible : blocked => <>[](stopped[t] /\ reports[t] = 1)
=============================================================================
