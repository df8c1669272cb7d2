-------------------------- MODULE SyncClientProofs --------------------------
(***************************************************************************)
(* Proofs about sessionsync_script.js for any number of tabs, any          *)
(* MAX_SILENT and any number of late messages.                             *)
(*                                                                         *)
(* Both properties are about events that are handled late.  OpenFrame ties *)
(* an event to the frame that caused it: while the event's frame is the    *)
(* open one, the run is in flight and the frame has answered, so all such  *)
(* events carry the one verdict it gave.  GoneBehind says what a closing   *)
(* verdict still means when it is finally heard: sessions are numbered as  *)
(* they are minted, and the one the page shows is not the browser's any    *)
(* more, whoever signed in meanwhile.                                      *)
(***************************************************************************)
EXTENDS SyncClient, TLAPS

VerdictEvents == [via : {"load", "message"}, result : Results, open : BOOLEAN]

Typed ==
    /\ enabled \in BOOLEAN /\ grant \in BOOLEAN /\ idp \in {"same", "other", "none"}
    /\ minted \in 0 .. MaxSessions /\ session \in 0 .. minted
    /\ page \in [Tabs -> 0 .. minted]
    /\ inFlight \in [Tabs -> BOOLEAN] /\ stopped \in [Tabs -> BOOLEAN]
    /\ answered \in [Tabs -> BOOLEAN]
    /\ silentRuns \in [Tabs -> 0 .. MaxSilent]
    /\ events \in [Tabs -> SUBSET VerdictEvents]
    /\ reports \in [Tabs -> {0, 1}]
    /\ ended \in [Tabs -> {"none", "pending", "lost"}]
    /\ flashed \in BOOLEAN

\* The script counts and reports only while it is running, and a run is never
\* open in a tab that has stopped.
Counting ==
    \A t \in Tabs :
        /\ stopped[t] => ~inFlight[t]
        /\ ~stopped[t] => silentRuns[t] < MaxSilent /\ reports[t] = 0

\* An event of the open frame comes from a run in flight whose frame has
\* answered, and after a closing answer no such event is of another result.
OpenFrame ==
    \A t \in Tabs : \A e \in events[t] :
        e.open => /\ inFlight[t] /\ answered[t]
                  /\ ended[t] = "pending" => e.result \in Closing

\* The page a closing verdict is on its way to shows a session that is gone.
GoneBehind ==
    \A t \in Tabs : \A e \in events[t] :
        e.result \in Closing => session = 0 \/ page[t] # session

Inv ==
    /\ Typed /\ Counting /\ OpenFrame /\ GoneBehind
    /\ NoIdleReload /\ ClosingVerdictHeard

-----------------------------------------------------------------------------
(* One lemma per action.                                                   *)

(* sync() opens a frame that has given no verdict.                         *)
LEMMA SyncStep ==
    ASSUME Inv, NEW t \in Tabs, Sync(t)
    PROVE  Inv'
  <1>1. /\ inFlight'[t] /\ \A u \in Tabs \ {t} : inFlight'[u] = inFlight[u]
        /\ \A u \in Tabs \ {t} : answered'[u] = answered[u]
    BY DEF Sync, Inv, Typed
  <1>2. UNCHANGED <<enabled, blocked, session, minted, grant, idp, page, stopped, silentRuns,
                    events, reports, ended, flashed>>
    BY DEF Sync, browserVars
  <1>3. Typed'
    BY <1>2 DEF Sync, Inv, Typed
  <1>4. Counting'
    BY <1>1, <1>2 DEF Sync, Inv, Counting
  <1>5. \A e \in events[t] : ~e.open
    BY DEF Sync, Inv, OpenFrame
  <1>6. OpenFrame'
    BY <1>1, <1>2, <1>5 DEF Inv, OpenFrame
  <1>7. GoneBehind' /\ NoIdleReload' /\ ClosingVerdictHeard'
    BY <1>2 DEF Inv, GoneBehind, NoIdleReload, ClosingVerdictHeard
  <1>8. QED
    BY <1>3, <1>4, <1>6, <1>7 DEF Inv

(* The frame's one verdict: its events are the only open ones, and a       *)
(* closing one leaves the browser without a session.                       *)
LEMMA FrameAnswersStep ==
    ASSUME Inv, NEW t \in Tabs, FrameAnswers(t)
    PROVE  Inv'
  <1>1. PICK result \in Verdicts, posts \in BOOLEAN :
          /\ session' = IF result \in Closing THEN 0 ELSE session
          /\ events' = [events EXCEPT ![t] = @ \cup
                           {[via |-> v, result |-> result, open |-> TRUE] :
                               v \in {"load"} \cup IF posts THEN {"message"} ELSE {}}]
          /\ ended' = [ended EXCEPT ![t] = IF result \in Closing THEN "pending" ELSE @]
    BY DEF FrameAnswers
  <1> DEFINE new == {[via |-> v, result |-> result, open |-> TRUE] :
                        v \in {"load"} \cup IF posts THEN {"message"} ELSE {}}
             loaded == [via |-> "load", result |-> result, open |-> TRUE]
  <1>2. result \in Results
    BY DEF Verdicts, Results, Closing, Inv, Typed
  <1>3. /\ new \subseteq VerdictEvents
        /\ \A e \in new : e.open /\ e.result = result
        /\ loaded \in new
    <2> DEFINE posted == [via |-> "message", result |-> result, open |-> TRUE]
    <2>1. new = {loaded} \/ new = {loaded, posted}
      <3>1. CASE posts
        BY <3>1
      <3>2. CASE ~posts
        BY <3>2
      <3>3. QED
        BY <3>1, <3>2
    <2>2. loaded \in VerdictEvents /\ loaded.open /\ loaded.result = result
      BY <1>2 DEF VerdictEvents
    <2>3. posted \in VerdictEvents /\ posted.open /\ posted.result = result
      BY <1>2 DEF VerdictEvents
    <2> HIDE DEF new, loaded, posted
    <2>4. QED
      BY <2>1, <2>2, <2>3
  <1>4. events' = [events EXCEPT ![t] = events[t] \cup new]
    BY <1>1 DEF Inv, Typed
  <1> HIDE DEF new, loaded
  <1>5. /\ inFlight[t] /\ ~answered[t]
        /\ answered' = [answered EXCEPT ![t] = TRUE]
        /\ UNCHANGED <<enabled, blocked, minted, grant, idp, page, inFlight, stopped,
                       silentRuns, reports, flashed>>
    BY DEF FrameAnswers
  <1>6. /\ events'[t] = events[t] \cup new
        /\ answered'[t]
        /\ ended'[t] = IF result \in Closing THEN "pending" ELSE ended[t]
        /\ \A u \in Tabs \ {t} : /\ events'[u] = events[u] /\ answered'[u] = answered[u]
                                 /\ ended'[u] = ended[u]
    BY <1>1, <1>4, <1>5 DEF Inv, Typed
  <1>7. \A e \in events[t] : ~e.open
    BY <1>5 DEF Inv, OpenFrame
  <1>8. ended[t] # "pending"
    BY <1>7 DEF Inv, ClosingVerdictHeard
  <1>9. Typed'
    <2>1. session' \in 0 .. minted
      BY <1>1 DEF Inv, Typed
    <2>2. events' \in [Tabs -> SUBSET VerdictEvents]
      BY <1>3, <1>4 DEF Inv, Typed
    <2>3. ended' \in [Tabs -> {"none", "pending", "lost"}]
      BY <1>1 DEF Inv, Typed
    <2>4. QED
      BY <1>5, <2>1, <2>2, <2>3 DEF Inv, Typed
  <1>10. Counting'
    BY <1>5 DEF Inv, Counting
  <1>11. OpenFrame'
    <2>1. \A e \in events'[t] : e.open => e \in new
      BY <1>6, <1>7
    <2>2. QED
      BY <1>3, <1>5, <1>6, <1>8, <2>1 DEF Inv, OpenFrame
  <1>12. GoneBehind'
    BY <1>1, <1>3, <1>5, <1>6 DEF Inv, GoneBehind
  <1>13. NoIdleReload'
    BY <1>5 DEF Inv, NoIdleReload
  <1>14. ClosingVerdictHeard'
    BY <1>3, <1>6, <1>8 DEF Inv, ClosingVerdictHeard
  <1>15. QED
    BY <1>9, <1>10, <1>11, <1>12, <1>13, <1>14 DEF Inv

(* Removing a frame leaves no event of an open one.                        *)
LEMMA OrphanedFacts ==
    ASSUME NEW es \in SUBSET VerdictEvents
    PROVE  /\ Orphaned(es) \subseteq VerdictEvents
           /\ \A e \in Orphaned(es) : ~e.open /\ \E f \in es : e.result = f.result
  BY DEF Orphaned, VerdictEvents

(* A page load starts over: nothing is on its way to the new page.         *)
LEMMA LoadStep ==
    ASSUME Inv, NEW t \in Tabs, Load(t),
           minted' \in 0 .. MaxSessions, minted <= minted', session' \in 0 .. minted',
           session' = session \/ session' = minted + 1,
           enabled' \in BOOLEAN, grant' \in BOOLEAN, idp' \in {"same", "other", "none"},
           ~flashed', flashed' \in BOOLEAN
    PROVE  Inv'
  <1>1. /\ page'[t] = session' /\ ~inFlight'[t] /\ ~stopped'[t] /\ silentRuns'[t] = 0
        /\ events'[t] = {} /\ reports'[t] = 0 /\ ended'[t] = "none"
        /\ \A u \in Tabs \ {t} :
              /\ page'[u] = page[u] /\ inFlight'[u] = inFlight[u] /\ stopped'[u] = stopped[u]
              /\ silentRuns'[u] = silentRuns[u] /\ answered'[u] = answered[u]
              /\ events'[u] = events[u] /\ reports'[u] = reports[u] /\ ended'[u] = ended[u]
    BY DEF Load, Inv, Typed
  <1>2. Typed'
    <2>1. page' \in [Tabs -> 0 .. minted']
      BY DEF Load, Inv, Typed
    <2>2. /\ inFlight' \in [Tabs -> BOOLEAN] /\ stopped' \in [Tabs -> BOOLEAN]
          /\ answered' \in [Tabs -> BOOLEAN]
      BY DEF Load, Inv, Typed
    <2>3. silentRuns' \in [Tabs -> 0 .. MaxSilent] /\ reports' \in [Tabs -> {0, 1}]
      BY SyncClientAssumption DEF Load, Inv, Typed
    <2>4. /\ events' \in [Tabs -> SUBSET VerdictEvents]
          /\ ended' \in [Tabs -> {"none", "pending", "lost"}]
      BY DEF Load, Inv, Typed
    <2>5. QED
      BY <2>1, <2>2, <2>3, <2>4 DEF Typed
  <1>3. Counting'
    BY <1>1, SyncClientAssumption DEF Inv, Counting
  <1>4. OpenFrame' /\ ClosingVerdictHeard' /\ NoIdleReload'
    BY <1>1 DEF Inv, OpenFrame, ClosingVerdictHeard, NoIdleReload
  <1>5. GoneBehind'
    BY <1>1 DEF Inv, GoneBehind, Typed
  <1>6. QED
    BY <1>2, <1>3, <1>4, <1>5 DEF Inv

(* A run that is closed without a reload: the frame is removed, and a      *)
(* closing verdict it gave is counted as lost unless it was just heard.    *)
LEMMA CloseStep ==
    ASSUME Inv, NEW t \in Tabs, inFlight[t],
           NEW es \in SUBSET events[t],
           NEW n \in 0 .. MaxSilent, NEW off \in BOOLEAN, NEW k \in {0, 1},
           ~off => n < MaxSilent /\ k = 0,
           inFlight' = [inFlight EXCEPT ![t] = FALSE],
           silentRuns' = [silentRuns EXCEPT ![t] = n],
           stopped' = [stopped EXCEPT ![t] = off],
           reports' = [reports EXCEPT ![t] = k],
           answered' = [answered EXCEPT ![t] = FALSE],
           events' = [events EXCEPT ![t] = Orphaned(es)],
           ended' = [ended EXCEPT ![t] = IF ended[t] = "pending" THEN "lost" ELSE ended[t]],
           UNCHANGED <<enabled, blocked, session, minted, grant, idp, page, flashed>>
    PROVE  Inv'
  <1> DEFINE os == Orphaned(es)
  <1>1. /\ os \subseteq VerdictEvents
        /\ \A e \in os : ~e.open /\ \E f \in events[t] : e.result = f.result
    BY OrphanedFacts DEF Inv, Typed
  <1> HIDE DEF os
  <1>2. /\ ~inFlight'[t] /\ silentRuns'[t] = n /\ stopped'[t] = off /\ reports'[t] = k
        /\ events'[t] = os /\ ended'[t] # "pending"
        /\ \A u \in Tabs \ {t} :
              /\ inFlight'[u] = inFlight[u] /\ stopped'[u] = stopped[u]
              /\ silentRuns'[u] = silentRuns[u] /\ answered'[u] = answered[u]
              /\ events'[u] = events[u] /\ reports'[u] = reports[u] /\ ended'[u] = ended[u]
    BY DEF Inv, Typed, os
  <1>3. Typed'
    <2>1. /\ inFlight' \in [Tabs -> BOOLEAN] /\ stopped' \in [Tabs -> BOOLEAN]
          /\ answered' \in [Tabs -> BOOLEAN]
      BY DEF Inv, Typed
    <2>2. silentRuns' \in [Tabs -> 0 .. MaxSilent] /\ reports' \in [Tabs -> {0, 1}]
      BY DEF Inv, Typed
    <2>3. /\ events' \in [Tabs -> SUBSET VerdictEvents]
          /\ ended' \in [Tabs -> {"none", "pending", "lost"}]
      BY <1>1 DEF Inv, Typed, os
    <2>4. QED
      BY <2>1, <2>2, <2>3 DEF Inv, Typed
  <1>4. Counting'
    BY <1>2 DEF Inv, Counting
  <1>5. OpenFrame' /\ ClosingVerdictHeard'
    BY <1>1, <1>2 DEF Inv, OpenFrame, ClosingVerdictHeard
  <1>6. GoneBehind' /\ NoIdleReload'
    BY <1>1, <1>2 DEF Inv, GoneBehind, NoIdleReload
  <1>7. QED
    BY <1>3, <1>4, <1>5, <1>6 DEF Inv

(* The timer: the last silent run stops the script and sends its one       *)
(* beacon.                                                                 *)
LEMMA TimeoutStep ==
    ASSUME Inv, NEW t \in Tabs, Timeout(t)
    PROVE  Inv'
  <1>1. /\ inFlight[t] /\ ~stopped[t]
        /\ silentRuns[t] \in 0 .. MaxSilent /\ silentRuns[t] < MaxSilent /\ reports[t] = 0
    BY DEF Timeout, Inv, Counting, Typed
  <1> DEFINE n == silentRuns[t] + 1
             off == n >= MaxSilent
             k == IF off THEN 1 ELSE 0
  <1>2. /\ n \in 0 .. MaxSilent /\ off \in BOOLEAN /\ k \in {0, 1}
        /\ ~off => n < MaxSilent /\ k = 0
    BY <1>1, SyncClientAssumption
  <1>3. /\ silentRuns' = [silentRuns EXCEPT ![t] = n]
        /\ stopped' = [stopped EXCEPT ![t] = off]
        /\ reports' = [reports EXCEPT ![t] = k]
    <2>1. silentRuns' = [silentRuns EXCEPT ![t] = n]
      BY DEF Timeout, SilentRuns
    <2>2. stopped' = [stopped EXCEPT ![t] = off]
      <3>1. stopped' = [stopped EXCEPT ![t] = stopped[t] \/ off]
        BY DEF Timeout, GivesUp, SilentRuns
      <3>2. (stopped[t] \/ off) = off
        BY <1>1
      <3>3. QED
        BY <3>1, <3>2
    <2>3. reports' = [reports EXCEPT ![t] = k]
      BY <1>1 DEF Timeout, GivesUp, SilentRuns, Inv, Typed
    <2>4. QED
      BY <2>1, <2>2, <2>3
  <1> DEFINE es == events[t]
  <1>4. /\ inFlight' = [inFlight EXCEPT ![t] = FALSE]
        /\ answered' = [answered EXCEPT ![t] = FALSE]
        /\ events' = [events EXCEPT ![t] = Orphaned(es)]
        /\ ended' = [ended EXCEPT ![t] = IF ended[t] = "pending" THEN "lost" ELSE ended[t]]
        /\ UNCHANGED <<enabled, blocked, session, minted, grant, idp, page, flashed>>
    BY DEF Timeout, Lose, browserVars, Inv, Typed
  <1>5. es \in SUBSET events[t]
    OBVIOUS
  <1> HIDE DEF n, off, k, es
  <1>6. QED
    BY <1>1, <1>2, <1>3, <1>4, <1>5, CloseStep

(* A verdict that is heard: a closing one reloads a page whose session is  *)
(* gone; after any other, no closing one of this run's frame is left.      *)
LEMMA FinishStep ==
    ASSUME Inv, NEW t \in Tabs, NEW e \in events[t], Heard(t, e), Finish(t, e),
           UNCHANGED <<enabled, blocked, minted, grant, idp>>
    PROVE  Inv'
  <1>1. CASE /\ Reloads(e.result)
             /\ flashed' = (flashed \/ page[t] \in {session} \ {0})
             /\ UNCHANGED session
             /\ Load(t)
    <2>1. session = 0 \/ page[t] # session
      BY <1>1 DEF Inv, GoneBehind, Reloads
    <2>2. ~flashed' /\ flashed' \in BOOLEAN
      BY <1>1, <2>1 DEF Inv, NoIdleReload
    <2>3. /\ minted' \in 0 .. MaxSessions /\ minted <= minted' /\ session' \in 0 .. minted'
          /\ enabled' \in BOOLEAN /\ grant' \in BOOLEAN /\ idp' \in {"same", "other", "none"}
      BY <1>1, SyncClientAssumption DEF Inv, Typed
    <2>4. QED
      BY <1>1, <2>2, <2>3, LoadStep
  <1>2. CASE /\ ~Reloads(e.result)
             /\ inFlight' = [inFlight EXCEPT ![t] = FALSE]
             /\ silentRuns' = [silentRuns EXCEPT ![t] = 0]
             /\ stopped' = [stopped EXCEPT ![t] = @ \/ e.result = "disabled"]
             /\ answered' = [answered EXCEPT ![t] = FALSE]
             /\ events' = [events EXCEPT ![t] = Orphaned(@ \ {e})]
             /\ IF e.open THEN UNCHANGED ended ELSE Lose(t)
             /\ UNCHANGED <<session, page, reports, flashed>>
    <2>1. inFlight[t] /\ ~stopped[t] /\ reports[t] = 0
      BY DEF Heard, Inv, Counting
    <2> DEFINE off == e.result = "disabled"
               es == events[t] \ {e}
    <2>2. e.open => ended[t] # "pending"
      BY <1>2 DEF Inv, OpenFrame, Reloads
    <2>3. ended' = [ended EXCEPT ![t] = IF ended[t] = "pending" THEN "lost" ELSE ended[t]]
      <3>1. CASE e.open
        BY <1>2, <2>2, <3>1 DEF Inv, Typed
      <3>2. CASE ~e.open
        BY <1>2, <3>2 DEF Lose, Inv, Typed
      <3>3. QED
        BY <3>1, <3>2
    <2>4. /\ stopped' = [stopped EXCEPT ![t] = off]
          /\ off \in BOOLEAN
      BY <1>2, <2>1 DEF Inv, Typed
    <2>5. /\ reports' = [reports EXCEPT ![t] = 0]
          /\ 0 \in 0 .. MaxSilent /\ 0 < MaxSilent /\ 0 \in {0, 1}
      BY <1>2, <2>1, SyncClientAssumption DEF Inv, Typed
    <2>6. /\ events' = [events EXCEPT ![t] = Orphaned(es)]
          /\ es \in SUBSET events[t]
      BY <1>2 DEF Inv, Typed
    <2> HIDE DEF off, es
    <2>7. QED
      BY <1>2, <2>1, <2>3, <2>4, <2>5, <2>6, CloseStep
  <1>3. QED
    BY <1>1, <1>2 DEF Finish

(* An event that no run hears was of no open frame, and is dropped.        *)
LEMMA DropStep ==
    ASSUME Inv, NEW t \in Tabs, NEW e \in events[t], ~Heard(t, e),
           events' = [events EXCEPT ![t] = @ \ {e}],
           UNCHANGED <<session, page, inFlight, stopped, silentRuns, answered, reports,
                       ended, flashed>>,
           UNCHANGED <<enabled, blocked, minted, grant, idp>>
    PROVE  Inv'
  <1>1. /\ events'[t] = events[t] \ {e}
        /\ \A u \in Tabs \ {t} : events'[u] = events[u]
    BY DEF Inv, Typed
  <1>2. ~e.open
    BY DEF Heard, Inv, OpenFrame
  <1>3. Typed'
    BY DEF Inv, Typed
  <1>4. Counting' /\ OpenFrame' /\ GoneBehind' /\ NoIdleReload'
    BY <1>1 DEF Inv, Counting, OpenFrame, GoneBehind, NoIdleReload
  <1>5. ClosingVerdictHeard'
    BY <1>1, <1>2 DEF Inv, ClosingVerdictHeard
  <1>6. QED
    BY <1>3, <1>4, <1>5 DEF Inv

(* The handler of a verdict event.                                         *)
LEMMA HandleEventStep ==
    ASSUME Inv, NEW t \in Tabs, NEW e \in events[t], HandleEvent(t, e)
    PROVE  Inv'
  BY FinishStep, DropStep DEF HandleEvent

(* A login numbers its session anew, so no page rendered before shows it.  *)
LEMMA LoginStep ==
    ASSUME Inv, NEW t \in Tabs, Login(t)
    PROVE  Inv'
  <1>1. /\ minted' \in 0 .. MaxSessions /\ minted <= minted' /\ session' \in 0 .. minted'
        /\ session' = minted + 1
    BY SyncClientAssumption DEF Login, Inv, Typed
  <1>2. enabled' \in BOOLEAN /\ grant' \in BOOLEAN /\ idp' \in {"same", "other", "none"}
    BY DEF Login, Inv, Typed
  <1>3. ~flashed' /\ flashed' \in BOOLEAN /\ Load(t)
    BY DEF Login, Inv, NoIdleReload, Typed
  <1>4. QED
    BY <1>1, <1>2, <1>3, LoadStep

(* Signing in or out at the IdP changes nothing in the tabs.               *)
LEMMA ChangeIdPStep ==
    ASSUME Inv, ChangeIdP
    PROVE  Inv'
  BY DEF ChangeIdP, Inv, Typed, Counting, OpenFrame, GoneBehind, NoIdleReload,
         ClosingVerdictHeard

-----------------------------------------------------------------------------
(* The theorems.                                                           *)

(* Pages just loaded, whatever the deployment and the IdP.                 *)
LEMMA InitInv ==
    ASSUME Init
    PROVE  Inv
  <1>1. Typed
    <2>1. /\ minted \in 0 .. MaxSessions /\ session \in 0 .. minted
          /\ page \in [Tabs -> 0 .. minted]
      BY SyncClientAssumption DEF Init
    <2>2. /\ enabled \in BOOLEAN /\ grant \in BOOLEAN /\ idp \in {"same", "other", "none"}
          /\ inFlight \in [Tabs -> BOOLEAN] /\ stopped \in [Tabs -> BOOLEAN]
          /\ answered \in [Tabs -> BOOLEAN] /\ flashed \in BOOLEAN
      BY DEF Init
    <2>3. silentRuns \in [Tabs -> 0 .. MaxSilent] /\ reports \in [Tabs -> {0, 1}]
      BY SyncClientAssumption DEF Init
    <2>4. /\ events \in [Tabs -> SUBSET VerdictEvents]
          /\ ended \in [Tabs -> {"none", "pending", "lost"}]
      BY DEF Init
    <2>5. QED
      BY <2>1, <2>2, <2>3, <2>4 DEF Typed
  <1>2. Counting /\ OpenFrame /\ GoneBehind /\ NoIdleReload /\ ClosingVerdictHeard
    BY SyncClientAssumption DEF Init, Counting, OpenFrame, GoneBehind, NoIdleReload,
                                ClosingVerdictHeard
  <1>3. QED
    BY <1>1, <1>2 DEF Inv

(* The invariant holds whatever order the events are handled in.           *)
THEOREM InvHolds == Spec => []Inv
  <1>1. ASSUME Inv, [Next]_vars
        PROVE  Inv'
    <2>1. CASE Next
      BY <1>1, <2>1, SyncStep, FrameAnswersStep, TimeoutStep, LoginStep, HandleEventStep,
         ChangeIdPStep
      DEF Next
    <2>2. CASE UNCHANGED vars
      BY <1>1, <2>2
      DEF vars, Inv, Typed, Counting, OpenFrame, GoneBehind, NoIdleReload,
          ClosingVerdictHeard
    <2>3. QED
      BY <1>1, <2>1, <2>2
  <1>2. QED
    BY InitInv, <1>1, PTL DEF Spec

(* The script never counts past MAX_SILENT and a page never sends a second *)
(* beacon.                                                                 *)
THEOREM SyncClientTypeCorrect == Spec => []TypeOK
  <1>1. Inv => TypeOK
    BY DEF Inv, Typed, TypeOK, VerdictEvents
  <1>2. QED
    BY InvHolds, <1>1, PTL

(* No tab reloads a page whose session still stands, whatever verdict of   *)
(* whichever frame it hears.                                               *)
THEOREM NoTabReloadsIdly == Spec => []NoIdleReload
  BY InvHolds, PTL DEF Inv

(* A closing verdict is on its way to its page until the page reloads, or  *)
(* the run was closed before it was heard.                                 *)
THEOREM ClosingVerdictsHeard == Spec => []ClosingVerdictHeard
  BY InvHolds, PTL DEF Inv
=============================================================================
