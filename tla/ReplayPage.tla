----------------------------- MODULE ReplayPage -----------------------------
(***************************************************************************)
(* The console's replay page (src/console/src/pages/Replay.tsx), which     *)
(* plays back three built-in incidents in the browser.                     *)
(*                                                                         *)
(* The playhead rests on the offsets of an incident's events and on its    *)
(* end: between two of them nothing is shown or hidden, so neither the     *)
(* speed nor the length of a frame matters.  Frames are asked for while    *)
(* `playing` holds and cancelled when it ends.                             *)
(***************************************************************************)
EXTENDS Integers, Sequences, FiniteSets, SequencesExt, Shell

CONSTANTS
    Timeouts, Latencies, Throttles  \* the positions tried for the injection sliders

(* The incidents: offsets of the events in the order of the log, those of    *)
(* the key events, the length and the timeout that repairs it.               *)
Inc001 ==
    [offsets |-> <<0, 4, 18, 45, 62, 80, 82, 85, 112, 340, 880, 882, 830, 835>>,
     keys |-> {0, 45, 80, 82, 85, 880, 882, 830, 835},
     durationMs |-> 1240, fixTimeoutMs |-> 1500]

Inc002 ==
    [offsets |-> <<0, 12, 55, 58, 480, 485, 510, 855>>,
     keys |-> {0, 55, 58, 480, 855},
     durationMs |-> 980, fixTimeoutMs |-> 2000]

Inc003 ==
    [offsets |-> <<0, 8, 9, 11, 14, 180, 460, 465>>,
     keys |-> {0, 8, 9, 11, 460, 465},
     durationMs |-> 640, fixTimeoutMs |-> 1000]

INCIDENTS == {Inc001, Inc002, Inc003}

VARIABLES incident, playing, playheadMs, injections

replayVars == <<incident, playing, playheadMs, injections>>

Points(inc) == Range(inc.offsets) \cup {inc.durationMs}

(* visibleEvents: the events the playhead has passed, by their place in the log. *)
visibleEvents(inc, ms) == { i \in DOMAIN inc.offsets : inc.offsets[i] <= ms }

DEFAULT_INJECTIONS ==
    [timeoutMs |-> 750, networkLatencyMs |-> 0, memoryPressure |-> FALSE, cpuThrottle |-> 0]

outcomeFlips(inc, inj) ==
    /\ inj.timeoutMs >= inc.fixTimeoutMs
    /\ ~inj.memoryPressure
    /\ inj.networkLatencyMs < 200

outcome == IF outcomeFlips(incident, injections) THEN "PASSED" ELSE "FAILED"

injIsModified == injections # DEFAULT_INJECTIONS

ReplayInit ==
    /\ incident = Inc001 /\ injections = DEFAULT_INJECTIONS
    /\ playing = FALSE /\ playheadMs = 0

LeaveReplay ==
    /\ incident' = Inc001 /\ injections' = DEFAULT_INJECTIONS
    /\ playing' = FALSE /\ playheadMs' = 0

-----------------------------------------------------------------------------
(* A frame in which the playhead passes at least one more point. *)
tick ==
    /\ On("replay") /\ playing
    /\ \E p \in Points(incident) : p > playheadMs /\ playheadMs' = p
    /\ playing' = (playheadMs' < incident.durationMs)
    /\ UNCHANGED <<incident, injections>>

handleSelectIncident_KeepsPlayhead(inc) ==
    /\ On("replay")
    /\ incident' = inc /\ playing' = FALSE
    /\ injections' = DEFAULT_INJECTIONS
    /\ UNCHANGED playheadMs

handleSelectIncident(inc) ==
    /\ On("replay")
    /\ incident' = inc /\ playing' = FALSE /\ playheadMs' = 0
    /\ injections' = DEFAULT_INJECTIONS

(* Play, or the space bar: from the start again when the end is reached. *)
handlePlay ==
    /\ On("replay") /\ ~playing
    /\ playing' = TRUE
    /\ playheadMs' = IF playheadMs >= incident.durationMs THEN 0 ELSE playheadMs
    /\ UNCHANGED <<incident, injections>>

handlePause == On("replay") /\ playing /\ playing' = FALSE /\ UNCHANGED <<playheadMs, incident, injections>>

(* Stop at a place: what the scrubber, the markers, reset and step do. *)
MoveTo(ms) ==
    /\ On("replay")
    /\ playing' = FALSE /\ playheadMs' = ms
    /\ UNCHANGED <<incident, injections>>

handleReset         == MoveTo(0)
handleScrub         == \E p \in Points(incident) : MoveTo(p)
handleMarkerClick   == \E p \in incident.keys : MoveTo(p)

(* The event a step goes to is found by counting the visible ones; dir is 1  *)
(* or -1, and positions count from 1.                                        *)
StepTarget(inc, ms, dir) ==
    LET cur    == Cardinality(visibleEvents(inc, ms))
        target == cur + dir - (IF dir = -1 THEN 1 ELSE 0)
        last   == Len(inc.offsets) - 1
    IN  inc.offsets[1 + (IF target < 0 THEN 0 ELSE IF target > last THEN last ELSE target)]

handleStep(dir) == MoveTo(StepTarget(incident, playheadMs, dir))

(* The arrow keys call the handleStep of the first render, for which the     *)
(* incident is the first one and the playhead is at 0.                       *)
ArrowKey(dir) == MoveTo(StepTarget(Inc001, 0, dir))

(* The sliders, the memory toggle and their reset link. *)
SetInjections ==
    /\ On("replay")
    /\ \/ \E t \in Timeouts : injections' = [injections EXCEPT !.timeoutMs = t]
       \/ \E l \in Latencies : injections' = [injections EXCEPT !.networkLatencyMs = l]
       \/ \E c \in Throttles : injections' = [injections EXCEPT !.cpuThrottle = c]
       \/ injections' = [injections EXCEPT !.memoryPressure = ~@]
       \/ injIsModified /\ injections' = DEFAULT_INJECTIONS
    /\ UNCHANGED <<incident, playing, playheadMs>>

ReplayStep ==
    \/ tick \/ handlePlay \/ handlePause \/ handleReset \/ handleScrub
    \/ handleMarkerClick \/ SetInjections
    \/ \E inc \in INCIDENTS : handleSelectIncident(inc)
    \/ \E dir \in {1, -1} : handleStep(dir) \/ ArrowKey(dir)

-----------------------------------------------------------------------------
(* Whatever is pressed while Replay.tsx plays, the playhead stays within the *)
(* incident that is selected, an incident that plays has something left to   *)
(* play, and with no injection changed its outcome is the original one.      *)
ReplayConsistent ==
    /\ playheadMs \in 0 .. incident.durationMs
    /\ playing => playheadMs < incident.durationMs
    /\ ~injIsModified => outcome = "FAILED"

(* Inductive with the incident's range. *)
ReplayInv == incident \in INCIDENTS /\ ReplayConsistent
=============================================================================
