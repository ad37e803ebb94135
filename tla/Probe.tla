------------------------------- MODULE Probe -------------------------------
(***************************************************************************)
(* One class of events from the kernel to kernel.raw: the eBPF programs    *)
(* (src/probe/probe-ebpf/src), which reserve and submit a record of a ring *)
(* buffer or count a drop, and the agent (src/probe/probe/src), whose drain *)
(* loop sends each record with a bounded queue for what could not be sent, *)
(* and whose main loop warns of drops.  The five classes are alike and     *)
(* share nothing but the producer.                                         *)
(*                                                                         *)
(* A thread runs one program at a time; an event is its thread and number. *)
(* A send is acknowledged, or fails before or after the broker kept the    *)
(* record.  An unsynchronised `*counter += 1` is a load and a store.       *)
(***************************************************************************)
EXTENDS Integers, Sequences, FiniteSets, SequencesExt

CONSTANTS
    Threads,
    Hooks,       \* bound: events of each thread
    RingSize,    \* records a ring buffer holds
    QueueCap     \* records the fallback queue holds

ASSUME ProbeAssumption == Hooks \in Nat /\ RingSize \in Nat \ {0} /\ QueueCap \in Nat

VARIABLES
    hook,        \* what a thread's program is about to do
    fired,       \* events of each thread so far
    ring,        \* [event, busy]: busy until it is submitted
    counter,     \* the class's entry of DROP_COUNTERS
    loaded,      \* what a thread's program read of it
    loop,        \* the drain loop: next, retry or send
    current,     \* the events it has in hand, at most one
    fallback,
    topic,       \* kernel.raw: [event, how] with how one of first, retry, unacked
    last_drops,
    running,     \* the agent
    dropped,     \* history: events for which the ring buffer had no room
    overflown,   \* history: events for which the queue had none
    unread       \* history: events whose arguments could not be read

kernelVars == <<hook, fired, counter, loaded, dropped, unread>>
loopVars   == <<loop, current, fallback, topic, overflown>>
mainVars   == <<last_drops, running>>
vars       == <<kernelVars, ring, loopVars, mainVars>>

Event == Threads \X (1 .. Hooks)

Init ==
    /\ hook = [t \in Threads |-> "idle"] /\ fired = [t \in Threads |-> 0]
    /\ ring = <<>> /\ counter = 0 /\ loaded = [t \in Threads |-> 0]
    /\ loop = "next" /\ current = {} /\ fallback = <<>> /\ topic = <<>>
    /\ last_drops = 0 /\ running = TRUE
    /\ dropped = {} /\ overflown = {} /\ unread = {}

-----------------------------------------------------------------------------
(* A program starts: its arguments cannot be read, or it reserves a record   *)
(* if there is room.                                                         *)
Fire(t) ==
    /\ running /\ hook[t] = "idle" /\ fired[t] < Hooks
    /\ fired' = [fired EXCEPT ![t] = @ + 1]
    /\ LET e == <<t, fired[t] + 1>>
       IN  \/ unread' = unread \cup {e} /\ UNCHANGED <<hook, ring, dropped>>
           \/ /\ Len(ring) < RingSize
              /\ ring' = Append(ring, [event |-> e, busy |-> TRUE])
              /\ hook' = [hook EXCEPT ![t] = "submit"]
              /\ UNCHANGED <<dropped, unread>>
           \/ /\ Len(ring) = RingSize
              /\ dropped' = dropped \cup {e}
              /\ hook' = [hook EXCEPT ![t] = "load"]
              /\ UNCHANGED <<ring, unread>>
    /\ UNCHANGED <<counter, loaded, loopVars, mainVars>>

submit(t) ==
    /\ hook[t] = "submit" /\ hook' = [hook EXCEPT ![t] = "idle"]
    /\ ring' = [i \in DOMAIN ring |->
                  [ring[i] EXCEPT !.busy = @ /\ ring[i].event[1] # t]]
    /\ UNCHANGED <<fired, counter, loaded, dropped, unread, loopVars, mainVars>>

Load(t) ==
    /\ hook[t] = "load" /\ hook' = [hook EXCEPT ![t] = "store"]
    /\ loaded' = [loaded EXCEPT ![t] = counter]
    /\ UNCHANGED <<fired, ring, counter, dropped, unread, loopVars, mainVars>>

Store_NoIncrement(t) ==
    /\ hook[t] = "store" /\ hook' = [hook EXCEPT ![t] = "idle"]
    /\ counter' = loaded[t]
    /\ UNCHANGED <<fired, ring, loaded, dropped, unread, loopVars, mainVars>>

Store(t) ==
    /\ hook[t] = "store" /\ hook' = [hook EXCEPT ![t] = "idle"]
    /\ counter' = loaded[t] + 1
    /\ UNCHANGED <<fired, ring, loaded, dropped, unread, loopVars, mainVars>>

-----------------------------------------------------------------------------
Take_WaitsForQueue ==
    /\ running /\ loop = "next" /\ ring # <<>> /\ ~Head(ring).busy
    /\ Len(fallback) < QueueCap
    /\ current' = {Head(ring).event} /\ ring' = Tail(ring)
    /\ loop' = "retry"
    /\ UNCHANGED <<kernelVars, fallback, topic, overflown, mainVars>>

(* The drain loop takes the oldest record, unless it is still being written. *)
Take ==
    /\ running /\ loop = "next" /\ ring # <<>> /\ ~Head(ring).busy
    /\ current' = {Head(ring).event} /\ ring' = Tail(ring)
    /\ loop' = "retry"
    /\ UNCHANGED <<kernelVars, fallback, topic, overflown, mainVars>>

Sent(e, how) == topic' = Append(topic, [event |-> e, how |-> how])

(* A send that fails, though the broker may have kept the record. *)
SendFails(e) == UNCHANGED topic \/ Sent(e, "unacked")

Retry_NoPop ==
    /\ running /\ loop = "retry" /\ fallback # <<>>
    /\ \/ Sent(Head(fallback), "retry") /\ loop' = "send" /\ UNCHANGED fallback
       \/ SendFails(Head(fallback)) /\ loop' = "send" /\ UNCHANGED fallback
    /\ UNCHANGED <<kernelVars, ring, current, overflown, mainVars>>

(* The front of the queue is sent until one fails or none is left. *)
Retry ==
    /\ running /\ loop = "retry" /\ fallback # <<>>
    /\ \/ Sent(Head(fallback), "retry") /\ fallback' = Tail(fallback) /\ UNCHANGED loop
       \/ SendFails(Head(fallback)) /\ loop' = "send" /\ UNCHANGED fallback
    /\ UNCHANGED <<kernelVars, ring, current, overflown, mainVars>>

RetryDone ==
    /\ running /\ loop = "retry" /\ fallback = <<>> /\ loop' = "send"
    /\ UNCHANGED <<kernelVars, ring, current, fallback, topic, overflown, mainVars>>

Keep_AtFront(e) ==
    IF Len(fallback) < QueueCap
    THEN fallback' = <<e>> \o fallback /\ UNCHANGED overflown
    ELSE overflown' = overflown \cup {e} /\ UNCHANGED fallback

Keep(e) ==
    IF Len(fallback) < QueueCap
    THEN fallback' = Append(fallback, e) /\ UNCHANGED overflown
    ELSE overflown' = overflown \cup {e} /\ UNCHANGED fallback

Send ==
    /\ running /\ loop = "send"
    /\ \E e \in current :
         \/ Sent(e, "first") /\ UNCHANGED <<fallback, overflown>>
         \/ SendFails(e) /\ Keep(e)
    /\ current' = {} /\ loop' = "next"
    /\ UNCHANGED <<kernelVars, ring, mainVars>>

DrainLoop == Take \/ Retry \/ RetryDone \/ Send

-----------------------------------------------------------------------------
(* The agent's interval: it warns of what was counted since. *)
Tick ==
    /\ running /\ counter > last_drops
    /\ last_drops' = counter
    /\ UNCHANGED <<kernelVars, ring, loopVars, running>>

(* Ctrl-C: the loops stop where they are and the programs are detached. *)
Exit ==
    /\ running /\ running' = FALSE
    /\ UNCHANGED <<kernelVars, ring, loopVars, last_drops>>

Program(t) == submit(t) \/ Load(t) \/ Store(t)

Next ==
    \/ \E t \in Threads : Fire(t) \/ Program(t)
    \/ DrainLoop \/ Tick \/ Exit

(* Programs run to their end, sends settle (message.timeout.ms) and the      *)
(* interval fires.  Nothing is assumed of what the sends come to.            *)
Spec ==
    /\ Init /\ [][Next]_vars
    /\ \A t \in Threads : WF_vars(Program(t))
    /\ WF_vars(DrainLoop) /\ WF_vars(Tick)

-----------------------------------------------------------------------------
Fired   == UNION { {t} \X (1 .. fired[t]) : t \in Threads }
InRing  == { ring[i].event : i \in DOMAIN ring }
Acked   == { i \in DOMAIN topic : topic[i].how # "unacked" }
Places  == << InRing, current, Range(fallback), { topic[i].event : i \in Acked },
              dropped, overflown, unread >>

(* Every event the programs saw is in exactly one place: in the ring buffer, *)
(* in the loop's hand, in its queue, acknowledged by the broker, or among    *)
(* the three kinds of loss; and none is queued or acknowledged twice,        *)
(* however retries, failures and a full queue follow each other.             *)
ProbeAccounted ==
    /\ Fired = UNION Range(Places)
    /\ \A i, j \in DOMAIN Places : i # j => Places[i] \cap Places[j] = {}
    /\ IsInjective(fallback)
    /\ \A i, j \in Acked : i # j => topic[i].event # topic[j].event

(* Kafka sees a thread's events out of order only across a failed send:      *)
(* those sent at once keep their order, those sent from the fallback queue   *)
(* keep theirs, and an event that is overtaken was in the queue.             *)
OvertakenWereQueued ==
    \A i, j \in Acked :
        /\ i < j /\ topic[i].event[1] = topic[j].event[1]
        /\ topic[i].event[2] > topic[j].event[2]
        => topic[i].how = "first" /\ topic[j].how = "retry"

(* The inductive invariant behind both: the types, with at most one event in *)
(* the loop's hand; each event in one place; and, of one thread's events,     *)
(* those in the ring buffer are newer than the one in hand, which is newer    *)
(* than what was queued or acknowledged, where what was sent from the queue   *)
(* is older than what is left in it.                                          *)
Hows        == {"first", "retry", "unacked"}
RingRecord  == [event : Event, busy : BOOLEAN]
TopicRecord == [event : Event, how : Hows]

TypeOK ==
    /\ hook \in [Threads -> {"idle", "submit", "load", "store"}]
    /\ fired \in [Threads -> 0 .. Hooks]
    /\ ring \in Seq(RingRecord) /\ Len(ring) <= RingSize
    /\ counter \in Nat /\ loaded \in [Threads -> Nat] /\ last_drops \in Nat
    /\ loop \in {"next", "retry", "send"} /\ running \in BOOLEAN
    /\ current \subseteq Event /\ \A d, e \in current : d = e
    /\ loop = "next" <=> current = {}
    /\ fallback \in Seq(Event) /\ Len(fallback) <= QueueCap
    /\ topic \in Seq(TopicRecord)
    /\ dropped \subseteq Event /\ overflown \subseteq Event /\ unread \subseteq Event

Older(d, e) == d[1] = e[1] => d[2] < e[2]

RingOrdered  == \A i, j \in DOMAIN ring : i < j => Older(ring[i].event, ring[j].event)
QueueOrdered == \A i, j \in DOMAIN fallback : i < j => Older(fallback[i], fallback[j])
Settled      == Range(fallback) \cup { topic[i].event : i \in Acked }

Ordered ==
    /\ RingOrdered /\ QueueOrdered
    /\ \A d \in Settled \cup current, e \in InRing : Older(d, e)
    /\ \A d \in Settled, e \in current : Older(d, e)
    /\ \A i \in Acked, e \in Range(fallback) :
         topic[i].how = "retry" => Older(topic[i].event, e)

IInv == TypeOK /\ ProbeAccounted /\ Ordered /\ OvertakenWereQueued

(* A broker that never answers well does not stop the drain loop: what the   *)
(* programs submit is taken from the ring buffer in the end.                 *)
RingDrained == ring # <<>> ~> ring = <<>> \/ ~running

(* That there are drops does not go unnoticed: although increments are lost, *)
(* the counter passes zero and the main loop warns a first time.  It is the  *)
(* first warning only: a racing store may take the counter below last_drops, *)
(* and main.rs then says nothing of further drops until it is above again.   *)
FirstDropWarned == dropped # {} ~> last_drops > 0 \/ ~running

(* The safety in RingDrained: the record that the drain loop waits for is    *)
(* being written by a program that is about to submit it.                    *)
BusyIsWritten == \A i \in DOMAIN ring : ring[i].busy => hook[ring[i].event[1]] = "submit"

(* The safety in FirstDropWarned: programs that race for the counter undo    *)
(* each other's increments, but never all of them, and the counter never     *)
(* exceeds the number of drops.                                              *)
Counting == { t \in Threads : hook[t] \in {"load", "store"} }

DropsCounted ==
    /\ dropped # {} => counter > 0 \/ Counting # {}
    /\ IsFiniteSet(dropped) /\ counter <= Cardinality(dropped)

(* Inductive for DropsCounted: each program that counts has a drop of its    *)
(* own to add to what it read.                                               *)
CountInv ==
    /\ DropsCounted /\ IsFiniteSet(Counting)
    /\ counter + Cardinality(Counting) <= Cardinality(dropped)
    /\ \A t \in Threads :
         hook[t] = "store" => loaded[t] + Cardinality(Counting) <= Cardinality(dropped)
=============================================================================
