------------------------------ MODULE LiveFeed ------------------------------
(***************************************************************************)
(* The API's live feed: the broadcast consumer (src/api/consumer/           *)
(* broadcast.go) and injected events go through the hub (src/api/stream/    *)
(* hub.go) to the /ws handlers (src/api/main.go) and the StreamEvents calls *)
(* (src/api/handlers/causal.go), and main shuts all of it down.             *)
(*                                                                         *)
(* The hub's RWMutex lets several Broadcasts run at once and keeps          *)
(* Subscribe and Unsubscribe out meanwhile.  A hijacked connection's        *)
(* context does not end when its client goes away, a stream's does.         *)
(***************************************************************************)
EXTENDS Integers, Sequences, FiniteSets, SequencesExt

CONSTANTS
    N,          \* records in kernel.processed
    Invalid,    \* those that do not decode or have an unknown event_type
    Injects,    \* bound: requests to the injection endpoint
    Sockets,    \* the /ws handlers
    Streams,    \* the StreamEvents calls
    Cap         \* capacity of a subscriber's channel

ASSUME FeedAssumption ==
    /\ N \in Nat /\ Injects \in Nat
    /\ Invalid \subseteq 1 .. N
    /\ Sockets \cap Streams = {}
    /\ Cap \in Nat \ {0}

(* Broadcaster 0 is the consumer, the others are injections; event N + b is *)
(* the one injection b carries.                                             *)
Broadcasters == 0 .. Injects
Events       == 1 .. N + Injects
Clients      == Sockets \cup Streams

VARIABLES
    subscribers, \* the channels in the hub's map, by client
    chan,        \* their contents
    closed,      \* channels Unsubscribe has closed
    reading,     \* the broadcasters that hold the read lock
    todo,        \* subscribers a broadcaster has yet to try
    loop,        \* where the broadcast consumer is
    position,    \* the record it fetches next
    injected,    \* injections that have been made
    place,       \* where each handler is
    held,        \* the event a handler took, as a sequence of at most one
    gone,        \* clients that went away
    api,         \* how far main's shutdown is
    aired,       \* history: events whose Broadcast returned
    got,         \* history: what each handler wrote
    missed,      \* history: what did not fit in its channel
    before       \* history: what had been aired when it subscribed

hubVars      == <<subscribers, closed>>
castVars     == <<reading, todo>>
consumerVars == <<loop, position>>
clientVars   == <<place, held, gone>>
histVars     == <<aired, missed, before>>
vars == <<hubVars, chan, castVars, consumerVars, injected, clientVars, api, got, histVars>>

TypeOK ==
    /\ subscribers \subseteq Clients
    /\ chan \in [Clients -> Seq(Events)]
    /\ \A c \in Clients : Len(chan[c]) <= Cap
    /\ closed \subseteq Clients
    /\ reading \subseteq Broadcasters
    /\ todo \in [Broadcasters -> SUBSET Clients]
    /\ loop \in {"fetch", "broadcast", "returned"}
    /\ position \in 1 .. N + 1
    /\ injected \subseteq 1 .. Injects
    /\ place \in [Clients -> {"idle", "select", "write", "leave", "close", "returned"}]
    /\ held \in [Clients -> Seq(Events)]
    /\ gone \subseteq Clients
    /\ api \in {"serving", "stopping", "stopped"}
    /\ aired \subseteq Events
    /\ got \in [Clients -> Seq(Events)]
    /\ missed \in [Clients -> SUBSET Events]
    /\ before \in [Clients -> SUBSET Events]

Init ==
    /\ subscribers = {}
    /\ chan = [c \in Clients |-> <<>>]
    /\ closed = {}
    /\ reading = {}
    /\ todo = [b \in Broadcasters |-> {}]
    /\ loop = "fetch"
    /\ position = 1
    /\ injected = {}
    /\ place = [c \in Clients |-> "idle"]
    /\ held = [c \in Clients |-> <<>>]
    /\ gone = {}
    /\ api = "serving"
    /\ aired = {}
    /\ got = [c \in Clients |-> <<>>]
    /\ missed = [c \in Clients |-> {}]
    /\ before = [c \in Clients |-> {}]

Event(b) == IF b = 0 THEN position - 1 ELSE N + b

-----------------------------------------------------------------------------
(* Broadcast: take the read lock, offer the event to every subscriber, the  *)
(* map's order being arbitrary, and let go.                                 *)

Broadcast(b) ==
    /\ reading' = reading \cup {b}
    /\ todo' = [todo EXCEPT ![b] = subscribers]

(* Mutant: a full channel ends the loop. *)
Offer_StopsAtFull(b, c) ==
    /\ b \in reading
    /\ c \in todo[b]
    /\ IF Len(chan[c]) < Cap
       THEN /\ chan' = [chan EXCEPT ![c] = Append(@, Event(b))]
            /\ todo' = [todo EXCEPT ![b] = @ \ {c}]
            /\ missed' = missed
       ELSE /\ missed' = [missed EXCEPT ![c] = @ \cup {Event(b)}]
            /\ todo' = [todo EXCEPT ![b] = {}]
            /\ chan' = chan
    /\ UNCHANGED <<hubVars, reading, consumerVars, injected, clientVars, api, got, aired, before>>

Offer(b, c) ==
    /\ b \in reading
    /\ c \in todo[b]
    /\ todo' = [todo EXCEPT ![b] = @ \ {c}]
    /\ IF Len(chan[c]) < Cap
       THEN chan' = [chan EXCEPT ![c] = Append(@, Event(b))] /\ missed' = missed
       ELSE missed' = [missed EXCEPT ![c] = @ \cup {Event(b)}] /\ chan' = chan
    /\ UNCHANGED <<hubVars, reading, consumerVars, injected, clientVars, api, got, aired, before>>

BroadcastReturns(b) ==
    /\ b \in reading
    /\ todo[b] = {}
    /\ reading' = reading \ {b}
    /\ aired' = aired \cup {Event(b)}
    /\ loop' = IF b = 0 THEN "fetch" ELSE loop
    /\ UNCHANGED <<hubVars, chan, todo, position, injected, clientVars, api, got,
                   missed, before>>

-----------------------------------------------------------------------------
(* BroadcastConsumer.Consume and the injection endpoint. *)

(* An invalid record is committed without being broadcast.  The commits do  *)
(* not show: their errors are only logged, and the offset is read again by  *)
(* a new process only, whose handlers all start anew.                       *)
Fetch ==
    /\ loop = "fetch"
    /\ position <= N
    /\ position' = position + 1
    /\ IF position \in Invalid
       THEN UNCHANGED <<loop, castVars>>
       ELSE loop' = "broadcast" /\ Broadcast(0)
    /\ UNCHANGED <<hubVars, chan, injected, clientVars, api, got, histVars>>

FetchStops ==
    /\ loop = "fetch"
    /\ api # "serving"
    /\ loop' = "returned"
    /\ UNCHANGED <<hubVars, chan, castVars, position, injected, clientVars, api, got,
                   histVars>>

(* Requests that were accepted before the shutdown go on during it. *)
Inject(b) ==
    /\ api # "stopped"
    /\ b \notin injected
    /\ injected' = injected \cup {b}
    /\ Broadcast(b)
    /\ UNCHANGED <<hubVars, chan, consumerVars, clientVars, api, got, histVars>>

-----------------------------------------------------------------------------
(* The handlers.  Like an injection, a call accepted before the shutdown    *)
(* may get as far as Subscribe during it.                                   *)

Subscribe(c) ==
    /\ place[c] = "idle"
    /\ api # "stopped"
    /\ reading = {}
    /\ subscribers' = subscribers \cup {c}
    /\ place' = [place EXCEPT ![c] = "select"]
    /\ before' = [before EXCEPT ![c] = aired]
    /\ UNCHANGED <<closed, chan, castVars, consumerVars, injected, held, gone, api, got, aired, missed>>

Receive(c) ==
    /\ place[c] = "select"
    /\ chan[c] # <<>>
    /\ held' = [held EXCEPT ![c] = <<Head(chan[c])>>]
    /\ chan' = [chan EXCEPT ![c] = Tail(@)]
    /\ place' = [place EXCEPT ![c] = "write"]
    /\ UNCHANGED <<hubVars, castVars, consumerVars, injected, gone, api, got, histVars>>

(* WriteJSON or Send; the network may take what a gone client never reads. *)
Write(c) ==
    /\ place[c] = "write"
    /\ got' = [got EXCEPT ![c] = @ \o held[c]]
    /\ held' = [held EXCEPT ![c] = <<>>]
    /\ place' = [place EXCEPT ![c] = "select"]
    /\ UNCHANGED <<hubVars, chan, castVars, consumerVars, injected, gone, api, histVars>>

WriteFails(c) ==
    /\ place[c] = "write"
    /\ c \in gone
    /\ place' = [place EXCEPT ![c] = "leave"]
    /\ UNCHANGED <<hubVars, chan, castVars, consumerVars, injected, held, gone, api, got, histVars>>

(* Mutant: StreamEvents does not watch its context. *)
ContextDone_Ignored(c) == c \in Sockets \cap Streams /\ UNCHANGED vars

ContextDone(c) ==
    /\ place[c] = "select"
    /\ c \in Streams \cap gone
    /\ place' = [place EXCEPT ![c] = "leave"]
    /\ UNCHANGED <<hubVars, chan, castVars, consumerVars, injected, held, gone, api, got, histVars>>

(* Mutant: the channel is closed before it is taken from the map. *)
Unsubscribe_ClosesFirst(c) ==
    /\ place[c] = "leave"
    /\ closed' = closed \cup {c}
    /\ place' = [place EXCEPT ![c] = "close"]
    /\ UNCHANGED <<subscribers, chan, castVars, consumerVars, injected, held, gone, api, got, histVars>>

Unsubscribe(c) ==
    /\ place[c] = "leave"
    /\ reading = {}
    /\ subscribers' = subscribers \ {c}
    /\ place' = [place EXCEPT ![c] = "close"]
    /\ UNCHANGED <<closed, chan, castVars, consumerVars, injected, held, gone, api, got, histVars>>

(* The handler returns; what it got and missed is forgotten with it. *)
CloseChannel(c) ==
    /\ place[c] = "close"
    /\ closed' = closed \cup {c}
    /\ place' = [place EXCEPT ![c] = "returned"]
    /\ chan' = [chan EXCEPT ![c] = <<>>]
    /\ held' = [held EXCEPT ![c] = <<>>]
    /\ got' = [got EXCEPT ![c] = <<>>]
    /\ missed' = [missed EXCEPT ![c] = {}]
    /\ before' = [before EXCEPT ![c] = {}]
    /\ UNCHANGED <<subscribers, castVars, consumerVars, injected, gone, api, aired>>

Leaving(c) == api # "stopped" /\ (ContextDone(c) \/ Unsubscribe(c))

Handler(c) ==
    /\ api # "stopped"
    /\ \/ Receive(c) \/ Write(c) \/ WriteFails(c) \/ CloseChannel(c)
       \/ Leaving(c)

ClientGone(c) ==
    /\ place[c] \notin {"idle", "returned"}
    /\ api # "stopped"
    /\ c \notin gone
    /\ gone' = gone \cup {c}
    /\ UNCHANGED <<hubVars, chan, castVars, consumerVars, injected, place, held, api, got, histVars>>

-----------------------------------------------------------------------------
(* Shutdown: serverCancel, then Shutdown, which does not wait for hijacked  *)
(* connections, then GracefulStop, which waits for every stream.            *)

Cancel ==
    /\ api = "serving"
    /\ api' = "stopping"
    /\ UNCHANGED <<hubVars, chan, castVars, consumerVars, injected, clientVars, got, histVars>>

(* Mutant: GracefulStop waits for the sockets as well. *)
GracefulStop_AllClients ==
    /\ api = "stopping"
    /\ \A c \in Clients : place[c] \in {"idle", "returned"}
    /\ api' = "stopped"
    /\ UNCHANGED <<hubVars, chan, castVars, consumerVars, injected, clientVars, got, histVars>>

GracefulStop ==
    /\ api = "stopping"
    /\ \A c \in Streams : place[c] \in {"idle", "returned"}
    /\ api' = "stopped"
    /\ UNCHANGED <<hubVars, chan, castVars, consumerVars, injected, clientVars, got, histVars>>

Casting(b) == api # "stopped" /\ ((\E c \in Clients : Offer(b, c)) \/ BroadcastReturns(b))
Consume    == api # "stopped" /\ (Fetch \/ FetchStops \/ Casting(0))

Next ==
    \/ Consume \/ Cancel \/ GracefulStop
    \/ \E b \in 1 .. Injects : Inject(b) \/ Casting(b)
    \/ \E c \in Clients : Subscribe(c) \/ Handler(c) \/ ClientGone(c)

Spec == Init /\ [][Next]_vars

(* The consumer, injections and main are scheduled.  Of a handler nothing   *)
(* is assumed while its client is there, since a write blocks for as long   *)
(* as the client does not read, and nothing of sockets at all.  Once a      *)
(* stream's client has gone its writes end, and a waiting writer of the     *)
(* RWMutex and a ready case of the select have their turn.                  *)
FairSpec ==
    /\ Spec
    /\ \A b \in 1 .. Injects : WF_vars(Casting(b))
    /\ WF_vars(Consume)
    /\ WF_vars(GracefulStop)
    /\ \A c \in Streams : WF_vars(c \in gone /\ Handler(c)) /\ SF_vars(Leaving(c))

-----------------------------------------------------------------------------
(* Properties. *)

(* Sending on a closed channel would take the API down.  Unsubscribe closes *)
(* the channel after it let go of the lock, and no Broadcast that is under  *)
(* way still has that channel before it.                                    *)
NoSendOnClosed == \A b \in reading : todo[b] \cap closed = {}

InOrder(s) == \A i, j \in 1 .. Len(s) : i < j /\ s[j] <= N => s[i] < s[j] \/ s[i] > N

All(c) == got[c] \o held[c] \o chan[c]

(* Everything broadcast while a client is subscribed reaches its handler    *)
(* once, or was dropped because that client's own channel was full; nothing *)
(* older does; and the consumer's records stay in the topic's order.        *)
SubscriberGetsEach ==
    \A c \in subscribers :
        /\ aired \ before[c] \subseteq ToSet(All(c)) \cup missed[c]
        /\ Cardinality(ToSet(All(c))) = Len(All(c))
        /\ ToSet(All(c)) \cap (before[c] \cup missed[c]) = {}
        /\ InOrder(All(c))

(* The inductive invariant.  Broadcasts: the consumer holds the read lock    *)
(* exactly while it broadcasts, a broadcaster has only subscribers before   *)
(* it, and what it broadcasts has not been aired.                           *)
Announced(e) == IF e <= N THEN e < position ELSE e - N \in injected

Casts ==
    /\ 0 \in reading <=> loop = "broadcast"
    /\ 0 \in reading => position > 1
    /\ reading \ {0} \subseteq injected
    /\ \A b \in reading : todo[b] \subseteq subscribers /\ Event(b) \notin aired
    /\ \A e \in aired : Announced(e)

(* Handlers: who is in the map, whose channel is closed, what is empty. *)
Handlers ==
    \A c \in Clients :
        /\ c \in subscribers => place[c] \in {"select", "write", "leave"}
        /\ c \in closed => place[c] = "returned"
        /\ place[c] \in {"idle", "select"} => held[c] = <<>>
        /\ place[c] = "idle" => chan[c] = <<>> /\ got[c] = <<>> /\ missed[c] = {}

(* Deliveries: a subscriber has seen an event under broadcast exactly if     *)
(* the broadcaster has tried its channel.                                   *)
Seen(c) == ToSet(All(c)) \cup missed[c]

Delivered(c) ==
    /\ before[c] \subseteq aired
    /\ aired \ before[c] \subseteq Seen(c)
    /\ \A b \in reading : Event(b) \in Seen(c) <=> c \notin todo[b]
    /\ \A e \in Seen(c) : Announced(e)
    /\ IsInjective(All(c))
    /\ InOrder(All(c))
    /\ ToSet(All(c)) \cap (before[c] \cup missed[c]) = {}

Deliveries == \A c \in subscribers : Delivered(c)

IInv == TypeOK /\ Casts /\ Handlers /\ Deliveries

(* A StreamEvents call whose client went away ends, with or without further *)
(* events.                                                                  *)
GoneStreamsEnd ==
    \A c \in Streams : (c \in gone) ~> (place[c] = "returned" \/ api = "stopped")

Connected(c) == c \notin gone /\ place[c] \notin {"idle", "returned"}

(* Shutdown ends unless a stream's client stays connected: sockets, whose   *)
(* handlers may never notice that their clients are gone, do not hold it up.*)
StopsWithoutStreams ==
    (api = "stopping") ~> (api = "stopped" \/ \E c \in Streams : Connected(c))
=============================================================================
