------------------------------ MODULE Frontend ------------------------------
(***************************************************************************)
(* What runs in the browser apart from the feed pages: the console with    *)
(* its graph, replay and settings pages, of which one at a time is mounted *)
(* and each starts afresh when it is, and the search of the documentation  *)
(* site.  A handler, the render it causes and the effects of that are one  *)
(* step, as React runs them; timers, frames, requests and messages come    *)
(* between steps.  The messages and the settings requests outlive a page.  *)
(***************************************************************************)
EXTENDS GraphPage, ReplayPage, SettingsPage, SearchModal

CONSTANT Sessions   \* bound: the sets of pages that a visitor moves between

VARIABLE session

consoleVars == <<shellVars, graphVars, replayVars, settingsVars>>
vars        == <<session, consoleVars, searchVars>>

Init ==
    /\ session \in Sessions
    /\ ShellInit /\ GraphInit /\ ReplayInit /\ SettingsInit /\ SearchInit

-----------------------------------------------------------------------------
(* The page that the router mounts; the others are not mounted, or no more. *)
Mount(p) ==
    /\ IF p = "graph" THEN MountGraph ELSE LeaveGraph /\ UNCHANGED arrived
    /\ LeaveReplay
    /\ IF p = "settings" THEN MountSettings ELSE LeaveSettings(TRUE)

(* Signed out or unloaded: nothing is mounted, and the messages are gone.    *)
(* Only after a sign-out are answers to requests still heard.                *)
UnmountAll(heard) == LeaveGraph /\ arrived' = 0 /\ LeaveReplay /\ LeaveSettings(heard)

SignIn  == (handleAuth \/ Start) /\ Mount(page)
Move    == \E p \in Pages \cap session : navigate(p) /\ Mount(p)
SignOut == handleLogout /\ UnmountAll(TRUE)
Close   == Unload /\ UnmountAll(FALSE)

(* Messages matter only to a session that visits the graph. *)
PageStep ==
    \/ "graph" \in session /\ UNCHANGED shellVars /\ GraphStep /\ UNCHANGED <<replayVars, settingsVars>>
    \/ UNCHANGED shellVars /\ ReplayStep /\ UNCHANGED <<graphVars, settingsVars>>
    \/ UNCHANGED shellVars /\ SettingsStep /\ UNCHANGED <<graphVars, replayVars>>

ConsoleStep ==
    \/ /\ handleSubmit \/ LoginRefused \/ \E f \in Fields : Edit(f)
       /\ UNCHANGED <<graphVars, replayVars, settingsVars>>
    \/ SignIn \/ Move \/ SignOut \/ Close \/ PageStep

Next ==
    /\ UNCHANGED session
    /\ \/ "docs" \notin session /\ ConsoleStep /\ UNCHANGED searchVars
       \/ "docs" \in session /\ SearchStep /\ UNCHANGED consoleVars

(* The timer fires, and every request settles one way or another. *)
ChainAnswered ==
    \E t \in Transactions :
        On("graph") /\ fetching[t] > 0 /\ fetching' = [fetching EXCEPT ![t] = @ - 1]

Spec ==
    /\ Init /\ [][Next]_vars
    /\ WF_fetchTimer(FetchTimerFires) /\ WF_fetching(ChainAnswered)
    /\ WF_asking(IndexArrives)

(* The inductive invariant behind the pages' safety properties. *)
IInv == ReplayInv /\ RequestInv /\ GraphInv /\ SettingsInv
=============================================================================
