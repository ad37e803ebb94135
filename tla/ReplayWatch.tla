----------------------------- MODULE ReplayWatch -----------------------------
(***************************************************************************)
(* The replay service's streams (src/api/handlers/replay.go): onEvent calls *)
(* fanOut, which offers the event to the channel of every registered        *)
(* watcher, and WatchReplay sends what it takes from its channel together   *)
(* with the state it then reads, until it reads a terminal one.             *)
(*                                                                         *)
(* One session, composed of ReplaySession.  The RWMutex lets several        *)
(* playback goroutines fan out at once and keeps addWatcher and             *)
(* removeWatcher out meanwhile.                                             *)
(***************************************************************************)
EXTENDS ReplaySession, Sequences, FiniteSets, SequencesExt

CONSTANTS
    Watchers,   \* the WatchReplay calls
    WatchCap    \* capacity of a watcher's channel

ASSUME WatchAssumption == WatchCap \in Nat \ {0}

VARIABLES
    watchChans, \* the registered watchers, in order
    fanning,    \* goroutines that hold the read lock
    todo,       \* watchers whose channel a goroutine has yet to try
    chan,       \* each watcher's channel
    place,      \* where each WatchReplay call is
    held,       \* the event it took from its channel, as a sequence of at most one
    sent,       \* history: what its client got
    missed,     \* history: what did not fit in its channel
    before      \* history: what had been delivered when it registered

fanVars   == <<watchChans, fanning, todo>>
watchVars == <<chan, place, held, sent, missed, before>>
allVars   == <<vars, fanVars, watchVars>>

Tags == (0 .. MaxRewinds) \X Indices

WatchTypeOK ==
    /\ TypeOK
    /\ watchChans \in Seq(Watchers)
    /\ fanning \in SUBSET Goroutines
    /\ todo \in [Goroutines -> Seq(Watchers)]
    /\ chan \in [Watchers -> Seq(Tags)]
    /\ \A w \in Watchers : Len(chan[w]) <= WatchCap
    /\ place \in [Watchers -> {"idle", "select", "respond", "leave", "returned"}]
    /\ held \in [Watchers -> Seq(Tags)]
    /\ sent \in [Watchers -> Seq(Tags)]
    /\ missed \in [Watchers -> SUBSET Tags]
    /\ before \in [Watchers -> SUBSET Tags]

WatchInit ==
    /\ Init
    /\ watchChans = <<>>
    /\ fanning = {}
    /\ todo = [g \in Goroutines |-> <<>>]
    /\ chan = [w \in Watchers |-> <<>>]
    /\ place = [w \in Watchers |-> "idle"]
    /\ held = [w \in Watchers |-> <<>>]
    /\ sent = [w \in Watchers |-> <<>>]
    /\ missed = [w \in Watchers |-> {}]
    /\ before = [w \in Watchers |-> {}]

-----------------------------------------------------------------------------
(* onEvent: fanOut under the read lock. *)

FanOutLock(g) ==
    /\ pc[g] = "deliver"
    /\ g \notin fanning
    /\ fanning' = fanning \cup {g}
    /\ todo' = [todo EXCEPT ![g] = watchChans]
    /\ UNCHANGED <<vars, watchChans, watchVars>>

(* Mutant: the send to a watcher's channel blocks. *)
FanOutSend_Blocks(g) ==
    /\ g \in fanning
    /\ todo[g] # <<>>
    /\ LET w == Head(todo[g]) IN
        /\ Len(chan[w]) < WatchCap
        /\ chan' = [chan EXCEPT ![w] = Append(@, <<claim[g], index[g]>>)]
    /\ todo' = [todo EXCEPT ![g] = Tail(@)]
    /\ UNCHANGED <<vars, watchChans, fanning, place, held, sent, missed, before>>

FanOutSend(g) ==
    /\ g \in fanning
    /\ todo[g] # <<>>
    /\ LET w   == Head(todo[g])
           tag == <<claim[g], index[g]>>
       IN  \/ /\ Len(chan[w]) < WatchCap
              /\ chan' = [chan EXCEPT ![w] = Append(@, tag)]
              /\ missed' = missed
           \/ /\ Len(chan[w]) = WatchCap
              /\ missed' = [missed EXCEPT ![w] = @ \cup {tag}]
              /\ chan' = chan
    /\ todo' = [todo EXCEPT ![g] = Tail(@)]
    /\ UNCHANGED <<vars, watchChans, fanning, place, held, sent, before>>

FanOutUnlock(g) ==
    /\ g \in fanning
    /\ todo[g] = <<>>
    /\ Deliver(g)
    /\ fanning' = fanning \ {g}
    /\ UNCHANGED <<watchChans, todo, watchVars>>

Playback(g) ==
    \/ /\ \/ Complete(g) \/ Claim(g)
          \/ TimerFires(g) \/ WaitInterrupted(g) \/ Check(g)
       /\ UNCHANGED <<fanVars, watchVars>>
    \/ FanOutLock(g) \/ FanOutSend(g) \/ FanOutUnlock(g)

Command ==
    /\ Control
    /\ UNCHANGED <<fanVars, watchVars>>

RpcEnds(g) ==
    /\ CallerContextEnds(g)
    /\ UNCHANGED <<fanVars, watchVars>>

-----------------------------------------------------------------------------
(* WatchReplay. *)

(* Mutant: addWatcher appends without taking the lock. *)
addWatcher_NoLock(w) ==
    /\ place[w] = "idle"
    /\ watchChans' = Append(watchChans, w)
    /\ place' = [place EXCEPT ![w] = "select"]
    /\ before' = [before EXCEPT ![w] = delivered]
    /\ UNCHANGED <<vars, fanning, todo, chan, held, sent, missed>>

addWatcher(w) ==
    /\ place[w] = "idle"
    /\ fanning = {}
    /\ watchChans' = Append(watchChans, w)
    /\ place' = [place EXCEPT ![w] = "select"]
    /\ before' = [before EXCEPT ![w] = delivered]
    /\ UNCHANGED <<vars, fanning, todo, chan, held, sent, missed>>

Receive(w) ==
    /\ place[w] = "select"
    /\ chan[w] # <<>>
    /\ held' = [held EXCEPT ![w] = <<Head(chan[w])>>]
    /\ chan' = [chan EXCEPT ![w] = Tail(@)]
    /\ place' = [place EXCEPT ![w] = "respond"]
    /\ UNCHANGED <<vars, fanVars, sent, missed, before>>

(* The state goes out with the event although it is read only now. *)
Respond(w) ==
    /\ place[w] = "respond"
    /\ sent' = [sent EXCEPT ![w] = @ \o held[w]]
    /\ held' = [held EXCEPT ![w] = <<>>]
    /\ IF state = "complete"
       THEN place' = [place EXCEPT ![w] = "leave"]
       ELSE place' = [place EXCEPT ![w] = "select"]
    /\ UNCHANGED <<vars, fanVars, chan, missed, before>>

Leave(w, at) ==
    /\ place[w] = at
    /\ place' = [place EXCEPT ![w] = "leave"]
    /\ UNCHANGED <<vars, fanVars, chan, held, sent, missed, before>>

SendFails(w)  == Leave(w, "respond")
ClientGone(w) == Leave(w, "select")

removeWatcher(w) ==
    /\ place[w] = "leave"
    /\ fanning = {}
    /\ watchChans' = RemoveFirst(watchChans, w)
    /\ place' = [place EXCEPT ![w] = "returned"]
    /\ UNCHANGED <<vars, fanning, todo, chan, held, sent, missed, before>>

WatchReplay(w) ==
    \/ addWatcher(w) \/ Receive(w) \/ Respond(w)
    \/ SendFails(w) \/ ClientGone(w) \/ removeWatcher(w)

WatchNext ==
    \/ Command
    \/ \E g \in Goroutines : Playback(g) \/ RpcEnds(g)
    \/ \E w \in Watchers : WatchReplay(w)

(* Playback goroutines are scheduled; of the watchers nothing is assumed,   *)
(* since Send blocks for as long as a client does not read.                 *)
WatchSpec ==
    /\ WatchInit /\ [][WatchNext]_allVars
    /\ \A g \in Goroutines : WF_allVars(Playback(g))

-----------------------------------------------------------------------------
(* Properties. *)

Watching(w) == place[w] \in {"select", "respond"}
Got(w)      == sent[w] \o held[w] \o chan[w]

(* As long as a call watches, every event onEvent finished handing out      *)
(* since it registered has reached it exactly once or was dropped because   *)
(* its channel was full, and nothing from before has: registration can not  *)
(* fall into the middle of a fan-out, and overlapping goroutines do not     *)
(* repeat or skip one.                                                      *)
WatcherGetsEach ==
    \A w \in Watchers : Watching(w) =>
        /\ delivered \ before[w] \subseteq ToSet(Got(w)) \cup missed[w]
        /\ Cardinality(ToSet(Got(w))) = Len(Got(w))
        /\ ToSet(Got(w)) \cap (before[w] \cup missed[w]) = {}

(* The inductive invariant, together with the session's.  A goroutine that   *)
(* fans out has its event in hand, and registered watchers only before it,  *)
(* each once.                                                               *)
Tag(g) == <<claim[g], index[g]>>

FanOuts ==
    /\ IsInjective(watchChans)
    /\ \A g \in fanning : /\ InFlight(g)
                          /\ IsInjective(todo[g])
                          /\ ToSet(todo[g]) \subseteq ToSet(watchChans)

Calls ==
    \A w \in Watchers :
        /\ w \in ToSet(watchChans) <=> place[w] \in {"select", "respond", "leave"}
        /\ place[w] \in {"idle", "select"} => held[w] = <<>>
        /\ place[w] = "idle" => chan[w] = <<>> /\ sent[w] = <<>> /\ missed[w] = {}

(* A watcher has seen an event that is being fanned out exactly if its       *)
(* channel has been tried, and nothing else that is not delivered yet.      *)
Seen(w) == ToSet(Got(w)) \cup missed[w]

Reached(w) ==
    /\ before[w] \subseteq delivered
    /\ delivered \ before[w] \subseteq Seen(w)
    /\ \A g \in fanning : Tag(g) \in Seen(w) <=> w \notin ToSet(todo[g])
    /\ Seen(w) \subseteq delivered \cup {Tag(g) : g \in fanning}
    /\ IsInjective(Got(w))
    /\ ToSet(Got(w)) \cap (before[w] \cup missed[w]) = {}

WatchInv ==
    /\ WatchTypeOK /\ IInv
    /\ FanOuts /\ Calls
    /\ \A w \in ToSet(watchChans) : Reached(w)

(* Watchers that never read, or never leave, do not hold up the playback.   *)
PlaybackNotBlocked == PlaybackEnds
=============================================================================
