--------------------------- MODULE ReplaySession ---------------------------
(***************************************************************************)
(* A replay session (src/replay/session/session.go): Play starts a          *)
(* goroutine that claims one event after the other under the session's      *)
(* mutex and hands each to onEvent outside it.  Pause and Stop cancel the   *)
(* goroutine's context and do not wait for it, so a goroutine that was      *)
(* cancelled may still run next to the one a later Play starts.             *)
(*                                                                         *)
(* Of the events the model keeps their number and which gaps make the       *)
(* goroutine sleep.  StateLoading and StateFailed are never assigned.       *)
(***************************************************************************)
EXTENDS Integers

CONSTANTS
    EventCount,  \* len(events) after Create and ReplaceEvents, never 0
    Gapped,      \* indices whose delay before the next event is positive
    CallerEnds,  \* does the context given to Play end by itself, as an RPC's does?
    MaxPlays,    \* bound: how many times Play starts a goroutine
    MaxRewinds   \* bound: how many times Seek and Reset move the cursor

ASSUME SessionAssumption ==
    /\ EventCount \in Nat \ {0}
    /\ Gapped \subseteq 0 .. EventCount - 2
    /\ CallerEnds \in BOOLEAN
    /\ MaxPlays \in Nat
    /\ MaxRewinds \in Nat

VARIABLES
    state,      \* the session's state
    cursor,     \* the next event to claim
    cancelFn,   \* the goroutine whose cancel function is kept, 0 for nil
    plays,      \* goroutines started so far
    pc,         \* where each goroutine is in runPlayback
    index,      \* the event a goroutine claimed last
    cancelled,  \* the goroutines whose context is done
    rewinds,    \* history: Seek and Reset calls that moved the cursor
    from,       \* history: where the last of them put it
    claim,      \* history: in which rewind a goroutine claimed its index
    delivered,  \* history: <<rewind, index>> of the events onEvent got
    late        \* history: deliveries of a goroutine after its context was done

sessionVars  == <<state, cursor, cancelFn, plays>>
playbackVars == <<pc, index, cancelled>>
historyVars  == <<rewinds, from, claim, delivered, late>>
vars         == <<sessionVars, playbackVars, historyVars>>

Goroutines == 1 .. MaxPlays
Indices    == 0 .. EventCount - 1

TypeOK ==
    /\ state \in {"ready", "playing", "paused", "complete"}
    /\ cursor \in 0 .. EventCount
    /\ cancelFn \in 0 .. MaxPlays
    /\ plays \in 0 .. MaxPlays
    /\ pc \in [Goroutines -> {"unborn", "top", "deliver", "wait", "check", "returned"}]
    /\ index \in [Goroutines -> Indices]
    /\ cancelled \in SUBSET Goroutines
    /\ rewinds \in 0 .. MaxRewinds
    /\ from \in Indices
    /\ claim \in [Goroutines -> 0 .. MaxRewinds]
    /\ delivered \in SUBSET ((0 .. MaxRewinds) \X Indices)
    /\ late \in [Goroutines -> Nat]

Init ==
    /\ state = "ready"
    /\ cursor = 0
    /\ cancelFn = 0
    /\ plays = 0
    /\ pc = [g \in Goroutines |-> "unborn"]
    /\ index = [g \in Goroutines |-> 0]
    /\ cancelled = {}
    /\ rewinds = 0
    /\ from = 0
    /\ claim = [g \in Goroutines |-> 0]
    /\ delivered = {}
    /\ late = [g \in Goroutines |-> 0]

-----------------------------------------------------------------------------
(* The commands.  Play while playing, Play when complete, Pause when not    *)
(* playing, Reset and Seek while playing change nothing.                    *)

StartGoroutine ==
    /\ plays < MaxPlays
    /\ plays' = plays + 1
    /\ cancelFn' = plays'
    /\ state' = "playing"
    /\ pc' = [pc EXCEPT ![plays'] = "top"]
    /\ UNCHANGED <<cursor, index, cancelled, historyVars>>

Play ==
    /\ state \in {"ready", "paused"}
    /\ StartGoroutine

(* Mutant: Pause forgets to leave the playing state. *)
Pause_StaysPlaying ==
    /\ state = "playing"
    /\ cancelFn # 0
    /\ cancelled' = cancelled \cup {cancelFn}
    /\ cancelFn' = 0
    /\ UNCHANGED <<state, cursor, plays, pc, index, historyVars>>

Pause ==
    /\ state = "playing"
    /\ cancelFn # 0
    /\ cancelled' = cancelled \cup {cancelFn}
    /\ cancelFn' = 0
    /\ state' = "paused"
    /\ UNCHANGED <<cursor, plays, pc, index, historyVars>>

(* Also what Manager.Remove does to the session. *)
Stop ==
    /\ cancelled' = cancelled \cup ({cancelFn} \ {0})
    /\ cancelFn' = 0
    /\ state' = "ready"
    /\ UNCHANGED <<cursor, plays, pc, index, historyVars>>

Rewind(i) ==
    /\ rewinds < MaxRewinds
    /\ cursor' = i
    /\ rewinds' = rewinds + 1
    /\ from' = i
    /\ UNCHANGED <<state, cancelFn, plays, playbackVars, claim, delivered, late>>

Reset == state # "playing" /\ Rewind(0)

Seek(i) == state # "playing" /\ i \in Indices /\ Rewind(i)

-----------------------------------------------------------------------------
(* runPlayback, one step per lock, callback and select. *)

Complete(g) ==
    /\ pc[g] = "top"
    /\ cursor >= EventCount
    /\ state' = "complete"
    /\ pc' = [pc EXCEPT ![g] = "returned"]
    /\ UNCHANGED <<cursor, cancelFn, plays, index, cancelled, historyVars>>

(* Mutant: the cursor is not advanced under the lock. *)
Claim_NoAdvance(g) ==
    /\ pc[g] = "top"
    /\ cursor < EventCount
    /\ index' = [index EXCEPT ![g] = cursor]
    /\ claim' = [claim EXCEPT ![g] = rewinds]
    /\ pc' = [pc EXCEPT ![g] = "deliver"]
    /\ UNCHANGED <<sessionVars, cancelled, rewinds, from, delivered, late>>

(* Mutant: a cancelled goroutine returns with the event it claimed. *)
Claim_ThenChecks(g) ==
    /\ pc[g] = "top"
    /\ cursor < EventCount
    /\ index' = [index EXCEPT ![g] = cursor]
    /\ claim' = [claim EXCEPT ![g] = rewinds]
    /\ cursor' = cursor + 1
    /\ pc' = [pc EXCEPT ![g] = IF g \in cancelled THEN "returned" ELSE "deliver"]
    /\ UNCHANGED <<state, cancelFn, plays, cancelled, rewinds, from, delivered, late>>

Claim(g) ==
    /\ pc[g] = "top"
    /\ cursor < EventCount
    /\ index' = [index EXCEPT ![g] = cursor]
    /\ claim' = [claim EXCEPT ![g] = rewinds]
    /\ cursor' = cursor + 1
    /\ pc' = [pc EXCEPT ![g] = "deliver"]
    /\ UNCHANGED <<state, cancelFn, plays, cancelled, rewinds, from, delivered, late>>

(* onEvent, outside the lock; then the timer if there is a gap to sleep. *)
Deliver(g) ==
    /\ pc[g] = "deliver"
    /\ delivered' = delivered \cup {<<claim[g], index[g]>>}
    /\ late' = [late EXCEPT ![g] = IF g \in cancelled THEN @ + 1 ELSE @]
    /\ pc' = [pc EXCEPT ![g] = IF index[g] \in Gapped THEN "wait" ELSE "check"]
    /\ UNCHANGED <<sessionVars, index, cancelled, rewinds, from, claim>>

TimerFires(g) ==
    /\ pc[g] = "wait"
    /\ pc' = [pc EXCEPT ![g] = "check"]
    /\ UNCHANGED <<sessionVars, index, cancelled, historyVars>>

WaitInterrupted(g) ==
    /\ pc[g] = "wait"
    /\ g \in cancelled
    /\ pc' = [pc EXCEPT ![g] = "returned"]
    /\ UNCHANGED <<sessionVars, index, cancelled, historyVars>>

Check(g) ==
    /\ pc[g] = "check"
    /\ pc' = [pc EXCEPT ![g] = IF g \in cancelled THEN "returned" ELSE "top"]
    /\ UNCHANGED <<sessionVars, index, cancelled, historyVars>>

(* The context Play was given ends: gRPC ends a unary call's context when   *)
(* the handler returns.                                                     *)
CallerContextEnds(g) ==
    /\ CallerEnds
    /\ pc[g] # "unborn"
    /\ g \notin cancelled
    /\ cancelled' = cancelled \cup {g}
    /\ UNCHANGED <<sessionVars, pc, index, historyVars>>

Control == Play \/ Pause \/ Stop \/ Reset \/ \E i \in Indices : Seek(i)

runPlayback(g) ==
    \/ Complete(g) \/ Claim(g) \/ Deliver(g)
    \/ TimerFires(g) \/ WaitInterrupted(g) \/ Check(g)

Next == Control \/ \E g \in Goroutines : runPlayback(g) \/ CallerContextEnds(g)

Spec == Init /\ [][Next]_vars

-----------------------------------------------------------------------------
(* Properties. *)

InFlight(g) == pc[g] = "deliver"

(* However goroutines overlap, no event is handed to onEvent twice between  *)
(* two rewinds: what a goroutine is about to deliver has not been delivered *)
(* and no other goroutine is about to deliver it.                           *)
DeliveredOnce ==
    \A g \in Goroutines : InFlight(g) =>
        /\ <<claim[g], index[g]>> \notin delivered
        /\ \A h \in Goroutines \ {g} :
               InFlight(h) => <<claim[h], index[h]>> # <<claim[g], index[g]>>

(* No command loses an event: all events between the last rewind and the    *)
(* cursor have been delivered or are in a goroutine's hands, cancelled or   *)
(* not.                                                                     *)
NothingSkipped ==
    \A i \in from .. cursor - 1 :
        \/ <<rewinds, i>> \in delivered
        \/ \E g \in Goroutines : InFlight(g) /\ claim[g] = rewinds /\ index[g] = i

Live(g) == pc[g] \notin {"unborn", "returned"} /\ g \notin cancelled

(* Pause and Stop reach whatever plays: a goroutine that was not cancelled  *)
(* is the one whose cancel function the session keeps, so there is at most  *)
(* one.                                                                     *)
LiveIsCurrent == \A g \in Goroutines : Live(g) => cancelFn = g

(* A goroutine that was cancelled hands over at most one more event. *)
LateAtMostOnce == \A g \in Goroutines : late[g] <= 1

(* Playing means that a goroutine no command has cancelled is at work,      *)
(* unless the context its caller gave it has ended.                         *)
PlayingIsLive ==
    state = "playing" =>
        /\ cancelFn # 0
        /\ Live(cancelFn) \/ (CallerEnds /\ cancelFn \in cancelled)

(* The inductive invariant: claims of the current rewind are behind the     *)
(* cursor, and how far a cancelled goroutine has come is known from its pc. *)
ClaimsBehindCursor ==
    /\ from <= cursor
    /\ \A g \in Goroutines : claim[g] <= rewinds
    /\ \A g \in Goroutines :
           InFlight(g) /\ claim[g] = rewinds => index[g] < cursor
    /\ \A p \in delivered : p[1] <= rewinds /\ (p[1] = rewinds => p[2] < cursor)

LateByPlace ==
    \A g \in Goroutines :
        /\ g \notin cancelled => late[g] = 0
        /\ pc[g] \in {"top", "deliver"} => late[g] = 0

Started ==
    /\ \A g \in Goroutines : pc[g] = "unborn" <=> g > plays
    /\ cancelFn <= plays
    /\ state = "playing" => cancelFn # 0
    /\ state \in {"ready", "paused"} => cancelFn = 0
    /\ \A g \in cancelled : g <= plays

PlayingIsCurrent ==
    state = "playing" =>
        /\ cancelFn # 0
        /\ ~CallerEnds => cancelFn \notin cancelled
        /\ pc[cancelFn] = "returned" => cancelFn \in cancelled

IInv ==
    /\ TypeOK
    /\ DeliveredOnce
    /\ NothingSkipped
    /\ LiveIsCurrent
    /\ LateAtMostOnce
    /\ ClaimsBehindCursor
    /\ LateByPlace
    /\ Started
    /\ PlayingIsCurrent

(* Playback that is left alone ends: the session leaves the playing state   *)
(* unless the caller's context ended under it.                              *)
PlaybackEnds == (state = "playing") ~> (state # "playing" \/ cancelFn \in cancelled)

(* "The baseline replay mode plays recorded events in their original order  *)
(* and timing" (www/src/pages/docs/concepts/replay-sessions.mdx): no later  *)
(* event of the same rewind has been delivered before one that is still to  *)
(* be.                                                                      *)
OriginalOrder ==
    \A g \in Goroutines : InFlight(g) =>
        \A p \in delivered : p[1] = claim[g] => p[2] < index[g]
=============================================================================
