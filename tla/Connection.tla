----------------------------- MODULE Connection -----------------------------
(***************************************************************************)
(* The console's ConnectionProvider (src/console/src/hooks/                *)
(* useConnection.tsx): a WebSocket that reconnects with a growing delay,   *)
(* the request for stored events made when the provider mounts, and the    *)
(* one list of messages that both feed and the pages read.                 *)
(*                                                                         *)
(* Events 1 .. Len(wire) are the records of kernel.processed in the order  *)
(* the API's live feed reads them; a socket misses what is aired while it  *)
(* is not open, and a feed that restarts airs some of them again.  In the  *)
(* development build StrictMode runs the provider's effect, its cleanup    *)
(* and the effect again, so the first run's request outlives it; that the   *)
(* socket it closed may still report an error, which only changes the       *)
(* status, is left out.                                                     *)
(***************************************************************************)
EXTENDS Integers, Sequences, FiniteSets, SequencesExt, Lists

CONSTANTS
    Wires,       \* the feeds: sequences of [key, ts, type], what the hook reads of an event
    MAX_MESSAGES,
    INITIAL_BACKOFF, MAX_BACKOFF,  \* also bounds how often new WebSocket throws
    MaxDrops     \* bound: sockets that fail or close

ASSUME ConnectionAssumption ==
    /\ \A w \in Wires : w \in Seq(Range(w)) /\ \A e \in DOMAIN w : w[e].ts \in Int
    /\ MAX_MESSAGES \in Nat \ {0}
    /\ INITIAL_BACKOFF \in Nat \ {0} /\ MAX_BACKOFF \in Nat
    /\ INITIAL_BACKOFF <= MAX_BACKOFF
    /\ MaxDrops \in Nat

VARIABLES
    wire,        \* the feed
    aired,       \* how many of its events the live feed has sent
    drops,
    mounted, lifecycle,
    status,
    ws,          \* the current socket: none, connecting, open, errored (its close is to come)
    timer,       \* a reconnect is scheduled
    backoff,
    requests,    \* the lifecycles whose history request is under way
    hydrated, buffered, seen, sequence,
    messages     \* [id, event], oldest first

feedVars   == <<wire, aired>>
socketVars == <<status, ws, timer, backoff>>
listVars   == <<hydrated, buffered, seen, sequence, messages>>
runVars    == <<mounted, lifecycle, requests>>
connVars   == <<feedVars, drops, socketVars, listVars, runVars>>

Events  == 1 .. Len(wire)
Key(e)  == wire[e].key
Ts(e)   == wire[e].ts
Keys(s) == { Key(s[i]) : i \in DOMAIN s }

(* The events of a list of messages. *)
Data(msgs) == [i \in DOMAIN msgs |-> msgs[i].event]

LesserOf(a, b) == IF a < b THEN a ELSE b

-----------------------------------------------------------------------------
ConnInit ==
    /\ wire \in Wires /\ aired = 0 /\ drops = 0
    /\ mounted = TRUE /\ lifecycle = 1 /\ requests = {1}
    /\ status = "connecting" /\ ws = "connecting" /\ timer = FALSE
    /\ backoff = INITIAL_BACKOFF
    /\ hydrated = FALSE /\ buffered = <<>> /\ seen = {} /\ sequence = 0
    /\ messages = <<>>

scheduleReconnect ==
    /\ timer' = TRUE
    /\ backoff' = LesserOf(2 * backoff, MAX_BACKOFF)

connect_GivesUp ==
    /\ mounted /\ timer
    /\ \/ /\ status' = "connecting" /\ ws' = "connecting" /\ timer' = FALSE
          /\ UNCHANGED <<backoff, drops>>
       \/ /\ backoff < MAX_BACKOFF
          /\ status' = "disconnected" /\ timer' = FALSE
          /\ UNCHANGED <<ws, backoff, drops>>
    /\ UNCHANGED <<feedVars, listVars, runVars>>

(* connect, run by the timer; new WebSocket throws in the second disjunct   *)
(* (bound: as long as the delay still grows).                               *)
connect ==
    /\ mounted /\ timer
    /\ \/ /\ status' = "connecting" /\ ws' = "connecting" /\ timer' = FALSE
          /\ UNCHANGED <<backoff, drops>>
       \/ /\ backoff < MAX_BACKOFF
          /\ status' = "disconnected"
          /\ scheduleReconnect
          /\ UNCHANGED <<ws, drops>>
    /\ UNCHANGED <<feedVars, listVars, runVars>>

onopen ==
    /\ ws = "connecting"
    /\ ws' = "open" /\ status' = "connected" /\ backoff' = INITIAL_BACKOFF
    /\ UNCHANGED <<timer, feedVars, drops, listVars, runVars>>

onerror ==
    /\ ws \in {"connecting", "open"} /\ drops < MaxDrops
    /\ drops' = drops + 1
    /\ ws' = "errored" /\ status' = "disconnected"
    /\ UNCHANGED <<timer, backoff, feedVars, listVars, runVars>>

(* A socket closes after its error, or because the API process restarts and *)
(* will send again from an offset it had not committed.                     *)
onclose ==
    /\ \/ ws = "errored" /\ UNCHANGED <<drops, aired>>
       \/ /\ ws = "open" /\ drops < MaxDrops /\ drops' = drops + 1
          /\ aired' \in 0 .. aired
    /\ ws' = "none" /\ status' = "disconnected"
    /\ scheduleReconnect
    /\ UNCHANGED <<wire, listVars, runVars>>

-----------------------------------------------------------------------------
(* A message is put in the list unless its key is there; the keys follow    *)
(* the list.                                                                *)
Append1(e) ==
    LET next == LastN(Append(messages, [id |-> sequence + 1, event |-> e]), MAX_MESSAGES)
    IN  /\ messages' = next
        /\ sequence' = sequence + 1
        /\ seen' = Keys(Data(next))

onmessage(e) ==
    IF ~hydrated
    THEN /\ buffered' = Append(buffered, e)
         /\ UNCHANGED <<hydrated, seen, sequence, messages>>
    ELSE /\ \/ Key(e) \in seen /\ UNCHANGED <<seen, sequence, messages>>
            \/ Key(e) \notin seen /\ Append1(e)
         /\ UNCHANGED <<hydrated, buffered>>

(* The feed sends its next event: an open socket receives it, others miss it. *)
Air ==
    /\ aired < Len(wire) /\ aired' = aired + 1
    /\ IF mounted /\ ws = "open" THEN onmessage(aired') ELSE UNCHANGED listVars
    /\ UNCHANGED <<wire, drops, socketVars, runVars>>

(* What /api/events can answer when k events are stored: the newest of them *)
(* by timestamp, those of one timestamp in any order.                       *)
Stored(k) ==
    { LastN(s, MAX_MESSAGES) : s \in { p \in [1 .. k -> 1 .. k] :
        IsInjective(p) /\ \A i, j \in 1 .. k : i < j => Ts(p[i]) <= Ts(p[j]) } }

(* The combined list with one entry per key, where the key came first and   *)
(* with the data that came last, by timestamp.  The sort is stable, so      *)
(* there is exactly one such list.                                          *)
Ordered(combined) ==
    LET firsts == { i \in DOMAIN combined :
                      \A j \in 1 .. i - 1 : Key(combined[j]) # Key(combined[i]) }
        last(i) == combined[CHOOSE j \in DOMAIN combined :
                      /\ Key(combined[j]) = Key(combined[i])
                      /\ \A k \in DOMAIN combined : Key(combined[k]) = Key(combined[i]) => k <= j]
        before(i, j) == \/ Ts(combined[i]) < Ts(combined[j])
                        \/ Ts(combined[i]) = Ts(combined[j]) /\ i < j
    IN  { LastN([n \in DOMAIN p |-> last(p[n])], MAX_MESSAGES) :
            p \in { q \in [1 .. Cardinality(firsts) -> firsts] :
                      \A m, n \in DOMAIN q : m < n => before(q[m], q[n]) } }

(* hydrateHistory after its await, for the run that asked. *)
Hydrate(historical) ==
    \E ordered \in Ordered(historical \o buffered) :
        /\ buffered' = <<>>
        /\ seen' = Keys(ordered)
        /\ sequence' = sequence + Len(ordered)
        /\ messages' = [i \in DOMAIN ordered |-> [id |-> sequence + i, event |-> ordered[i]]]
        /\ hydrated' = TRUE

hydrateHistory_AnyRun(l) ==
    /\ l \in requests /\ requests' = requests \ {l}
    /\ \/ \E k \in 0 .. Len(wire) : \E historical \in Stored(k) : Hydrate(historical)
       \/ Hydrate(<<>>)
    /\ UNCHANGED <<feedVars, drops, socketVars, mounted, lifecycle>>

hydrateHistory_FailureReturns(l) ==
    /\ l \in requests /\ requests' = requests \ {l}
    /\ IF l # lifecycle THEN UNCHANGED listVars
       ELSE \/ \E k \in 0 .. Len(wire) : \E historical \in Stored(k) : Hydrate(historical)
            \/ UNCHANGED listVars
    /\ UNCHANGED <<feedVars, drops, socketVars, mounted, lifecycle>>

(* A request is answered with stored events, or fails and counts as empty; *)
(* the answer to an earlier run is dropped.                                *)
hydrateHistory(l) ==
    /\ l \in requests /\ requests' = requests \ {l}
    /\ IF l # lifecycle THEN UNCHANGED listVars
       ELSE \/ \E k \in 0 .. Len(wire) : \E historical \in Stored(k) : Hydrate(historical)
            \/ Hydrate(<<>>)
    /\ UNCHANGED <<feedVars, drops, socketVars, mounted, lifecycle>>

-----------------------------------------------------------------------------
(* StrictMode's cleanup and second run of the effect, right after the mount. *)
Remount ==
    /\ mounted /\ lifecycle = 1 /\ requests = {1}
    /\ ws = "connecting" /\ buffered = <<>> /\ aired = 0
    /\ lifecycle' = 3 /\ requests' = {1, 3}
    /\ timer' = FALSE
    /\ status' = "connecting" /\ ws' = "connecting"
    /\ UNCHANGED <<backoff, feedVars, drops, listVars, mounted>>

(* Signing out unmounts the provider: the cleanup runs, and what is still   *)
(* under way finds mounted false.                                           *)
UnmountProvider ==
    /\ mounted /\ mounted' = FALSE
    /\ lifecycle' = 0 /\ requests' = {}
    /\ status' = "connecting" /\ ws' = "none" /\ timer' = FALSE
    /\ backoff' = INITIAL_BACKOFF
    /\ hydrated' = FALSE /\ buffered' = <<>> /\ seen' = {} /\ sequence' = 0
    /\ messages' = <<>>
    /\ UNCHANGED <<feedVars, drops>>

(* Signing in mounts a new one, whose effect connects and asks for history. *)
MountProvider ==
    /\ ~mounted /\ mounted' = TRUE
    /\ lifecycle' = 1 /\ requests' = {1}
    /\ ws' = "connecting"
    /\ UNCHANGED <<status, timer, backoff, feedVars, drops, listVars>>

(* clearMessages, which the pages call, leaves the keys as they are. *)
clearMessages ==
    /\ messages' = <<>>
    /\ UNCHANGED <<hydrated, buffered, seen, sequence>>

(* Timers fire, and a browser closes a socket after its error and settles  *)
(* every request.                                                          *)
ConnFairness ==
    /\ WF_connVars(connect) /\ WF_connVars(onclose /\ ws = "errored")
    /\ WF_requests(\E l \in requests : requests' = requests \ {l})

-----------------------------------------------------------------------------
(* A provider whose socket is gone has a new one in the end, as long as it  *)
(* stays mounted: every path that loses a socket schedules a reconnect.     *)
Reconnects == (mounted /\ ws = "none") ~> (ws # "none" \/ ~mounted)

(* Live messages held back while the history is asked for reach the list    *)
(* whether or not the request succeeds ("Live streaming remains available   *)
(* when historical storage is offline").                                    *)
LiveDespiteHistory == buffered # <<>> ~> (hydrated \/ ~mounted)

(* The safety in Reconnects: a mounted provider has a socket or a timer to  *)
(* make one, and never both, so no socket is left behind without an owner.  *)
SocketOrTimer ==
    /\ mounted => (timer <=> ws = "none")
    /\ ~mounted => ~timer /\ ws = "none"

(* The safety in LiveDespiteHistory: until the list is hydrated, the        *)
(* request of the current run of the effect is under way, and messages are  *)
(* held back only as long.                                                  *)
HistoryAwaited ==
    /\ mounted => (hydrated <=> lifecycle \notin requests)
    /\ ~mounted => ~hydrated /\ requests = {}
    /\ buffered # <<>> => mounted /\ ~hydrated

(* Inductive for what the pages show: the list is hydrated once per mount,  *)
(* its ids are the last ones that were given out, no two of its messages    *)
(* have one key, and every key of it has been seen.                         *)
ListInv ==
    /\ wire \in Wires /\ aired \in 0 .. Len(wire)
    /\ hydrated \in BOOLEAN /\ sequence \in Nat
    /\ buffered \in Seq(Events) /\ messages \in Seq([id : Nat, event : Events])
    /\ Len(messages) <= MAX_MESSAGES /\ Len(messages) <= sequence
    /\ \A i \in DOMAIN messages : messages[i].id = sequence - Len(messages) + i
    /\ \A i, j \in DOMAIN messages :
         i # j => Key(messages[i].event) # Key(messages[j].event)
    /\ Keys(Data(messages)) \subseteq seen
    /\ hydrated => mounted /\ lifecycle \notin requests
    /\ ~hydrated => sequence = 0
    /\ ~mounted => requests = {}
=============================================================================
