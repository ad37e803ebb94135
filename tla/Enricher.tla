------------------------------ MODULE Enricher ------------------------------
(***************************************************************************)
(* The enricher (src/engine/enrich/enricher.go): Process gives an event the *)
(* trace context of a span of its process and holds the first half of a     *)
(* system call or of a block request until the other half arrives; AddSpan  *)
(* is called by the OpenTelemetry consumer, evictStale by a ticker.  Each   *)
(* works on one shard under that shard's mutex.                             *)
(*                                                                         *)
(* Events arrive on feeds.  A feed is the order in which the events of some *)
(* threads or block keys arrive, whatever that is: the agent's queue may    *)
(* hold events back, a record sent again is another event, and requests of  *)
(* two devices may share a block key.  Feeds interleave freely, and those   *)
(* in Lossy may lose events (a full ring buffer, a failed send).  Maps are  *)
(* sets of entries; which shard an entry is in follows from its key.        *)
(***************************************************************************)
EXTENDS Integers, Sequences, FiniteSets, SequencesExt

CONSTANTS
    Feeds,          \* names of the feeds
    Feed(_),        \* the events of a feed, in order of arrival
    Lossy,          \* the feeds that may lose events
    Spans,          \* the spans the OpenTelemetry consumer will deliver
    PIDs,           \* the processes
    NumShards,      \* numShards
    EvictThreshold, \* evictThreshold
    InflightTTL,    \* infightTTL, in ticks of the clock
    SpanTTL,        \* spanTTL, in ticks of the clock
    SpanCap,        \* spans kept per process
    SpanTrim,       \* spans dropped when there are more
    MaxClock        \* bound on the clock

(* An event: kind is "syscall", "block" or "other"; key is the thread or    *)
(* the block key, 0 when makeBlockKey finds none; phase and call say which  *)
(* half of which call or request it is; ret is its return value.            *)
Event == UNION {ToSet(Feed(f)) : f \in Feeds}

ASSUME EnricherAssumption ==
    /\ Lossy \subseteq Feeds
    /\ NumShards \in Nat \ {0}
    /\ EvictThreshold \in Nat
    /\ InflightTTL \in Nat /\ SpanTTL \in Nat
    /\ SpanCap \in Nat \ {0} /\ SpanTrim \in 1 .. SpanCap
    /\ MaxClock \in Nat
    /\ PIDs \subseteq Nat
    /\ \A e \in Event :
        /\ e.kind \in {"syscall", "block", "other"}
        /\ e.pid \in PIDs /\ e.key \in Nat /\ e.ts \in Nat
    /\ \A s \in Spans : s.pid \in PIDs /\ s.start \in Nat /\ s.end \in Nat

(* The events that Process may pair: of one thread, or of one block key. *)
Together(d, e) == d.kind = e.kind /\ d.key = e.key

(* Nothing that may be paired with the j-th event comes between the i-th     *)
(* and it.                                                                   *)
Adjacent(f, i, j) ==
    /\ i < j /\ Together(Feed(f)[i], Feed(f)[j])
    /\ \A k \in i + 1 .. j - 1 : ~Together(Feed(f)[k], Feed(f)[j])

(* The first of its call to arrive. *)
First(f, i) ==
    \A k \in 1 .. i - 1 :
        ~(Together(Feed(f)[k], Feed(f)[i]) /\ Feed(f)[k].call = Feed(f)[i].call)

IsEntryAndExit(d, e) == d.phase = "enter" /\ e.phase = "exit" /\ d.ts < e.ts

(* An event is one delivery, and events that may be paired are ordered: they *)
(* come on one feed.                                                         *)
ASSUME FeedAssumption ==
    /\ \A f \in Feeds : Feed(f) \in Seq(Event)
    /\ \A f, g \in Feeds : \A i \in DOMAIN Feed(f), j \in DOMAIN Feed(g) :
         /\ Feed(f)[i] = Feed(g)[j] => f = g /\ i = j
         /\ Together(Feed(f)[i], Feed(g)[j]) /\ Feed(f)[i].kind # "other" => f = g

(* A thread is in one call at a time.  Its halves come two by two, in either *)
(* order, unless the agent sent one again or held one back until the         *)
(* thread's next call.  The threads of which that is so:                     *)
TwoByTwo ==
    {key \in {e.key : e \in Event} :
        \A f \in Feeds : \A i, j \in DOMAIN Feed(f) :
            Feed(f)[i].kind = "syscall" /\ Feed(f)[i].key = key /\ Adjacent(f, i, j) =>
              IF Feed(f)[i].call = Feed(f)[j].call
              THEN /\ First(f, i)
                   /\ \/ IsEntryAndExit(Feed(f)[i], Feed(f)[j])
                      \/ IsEntryAndExit(Feed(f)[j], Feed(f)[i])
              ELSE ~First(f, i) /\ First(f, j)}

VARIABLES
    now,             \* the clock
    pos,             \* how far each feed has been read
    syscallInFlight, \* entries: halves of system calls
    blockInFlight,   \* entries: issued block requests
    otelSpans,       \* spans kept per process, with their arrival time
    arrived,         \* spans delivered so far
    emitted,         \* history: what Process returned
    lost,            \* history: events that never arrived
    evicted,         \* history: events evictStale deleted
    overwritten      \* history: issued requests a second issue replaced

mapVars  == <<syscallInFlight, blockInFlight>>
spanVars == <<otelSpans, arrived>>
lossVars == <<lost, evicted, overwritten>>
vars     == <<now, pos, mapVars, spanVars, emitted, lossVars>>

Shards == 0 .. NumShards - 1

TypeOK ==
    /\ now \in 0 .. MaxClock
    /\ \A f \in Feeds : pos[f] \in 0 .. Len(Feed(f))
    /\ \A x \in syscallInFlight \cup blockInFlight :
        /\ x.event \in Event /\ x.at \in 0 .. now
        /\ x.trace \subseteq Spans /\ Cardinality(x.trace) <= 1
    /\ \A p \in PIDs : Len(otelSpans[p]) <= SpanCap
    /\ arrived \subseteq Spans
    /\ lost \cup evicted \cup overwritten \subseteq Event

Init ==
    /\ now = 0
    /\ pos = [f \in Feeds |-> 0]
    /\ syscallInFlight = {}
    /\ blockInFlight = {}
    /\ otelSpans = [p \in PIDs |-> <<>>]
    /\ arrived = {}
    /\ emitted = {}
    /\ lost = {}
    /\ evicted = {}
    /\ overwritten = {}

-----------------------------------------------------------------------------
(* Shards and trace context. *)

getShard(pid) == pid % NumShards

(* Sector and bytes are xor-ed; the key stands for the result. *)
getBlockShard(key) == key % NumShards

Covers(span, e) == e.ts >= span.start /\ e.ts <= span.end

SpansIn(shard, pid) == IF getShard(pid) = shard THEN otelSpans[pid] ELSE <<>>

(* The first span of the process in the shard that covers the event. *)
enrichTrace(shard, e) ==
    LET spans == SpansIn(shard, e.pid)
        i     == SelectInSeq(spans, LAMBDA x : Covers(x.span, e))
    IN  IF i = 0 THEN {} ELSE {spans[i].span}

(* An entry carries the span found for its event, as a set of at most one,  *)
(* and, as history, whether one was known.                                  *)
EntryOf(shard, e) ==
    [event |-> e, at |-> now, trace |-> enrichTrace(shard, e),
     known |-> \E i \in 1 .. Len(otelSpans[e.pid]) : Covers(otelSpans[e.pid][i].span, e)]

Alone(x) ==
    [head |-> x.event, parts |-> {x.event}, dur |-> 0, ret |-> x.event.ret,
     trace |-> x.trace, known |-> x.known]

(* Mutant: the half that arrived first is taken for the first half. *)
completePair_ByArrival(x, y) ==
    [head |-> x.event, parts |-> {x.event, y.event}, dur |-> y.event.ts - x.event.ts,
     ret |-> y.event.ret, trace |-> x.trace, known |-> x.known]

(* The earlier half, with the return value of the later one. *)
completePair(x, y) ==
    LET first  == IF y.event.ts > x.event.ts THEN x ELSE y
        second == IF y.event.ts > x.event.ts THEN y ELSE x
    IN  [head |-> first.event, parts |-> {x.event, y.event},
         dur |-> second.event.ts - first.event.ts, ret |-> second.event.ret,
         trace |-> first.trace, known |-> first.known]

-----------------------------------------------------------------------------
(* Process. *)

WithKey(entries, key) == {x \in entries : x.event.key = key}

(* Mutant: the entry stays in the map when its pair completes. *)
pairSyscall_KeepsEntry(x) ==
    LET same == WithKey(syscallInFlight, x.event.key)
    IN  IF same = {}
        THEN /\ syscallInFlight' = syscallInFlight \cup {x}
             /\ emitted' = emitted
        ELSE /\ syscallInFlight' = syscallInFlight
             /\ emitted' = emitted \cup {completePair(y, x) : y \in same}

pairSyscall(x) ==
    LET same == WithKey(syscallInFlight, x.event.key)
    IN  IF same = {}
        THEN /\ syscallInFlight' = syscallInFlight \cup {x}
             /\ emitted' = emitted
        ELSE /\ syscallInFlight' = syscallInFlight \ same
             /\ emitted' = emitted \cup {completePair(y, x) : y \in same}

ProcessSyscall(e) ==
    /\ e.kind = "syscall"
    /\ pairSyscall(EntryOf(getShard(e.pid), e))
    /\ UNCHANGED <<blockInFlight, lossVars>>

(* Mutant: a second issue does not replace the first. *)
IssueBlock_KeepsFirst(e) ==
    /\ e.kind = "block" /\ e.key # 0 /\ e.phase = "issue"
    /\ LET same == WithKey(blockInFlight, e.key)
       IN  /\ blockInFlight' = IF same = {}
                               THEN blockInFlight \cup {EntryOf(getBlockShard(e.key), e)}
                               ELSE blockInFlight
           /\ overwritten' = IF same = {} THEN overwritten ELSE overwritten \cup {e}
    /\ UNCHANGED <<syscallInFlight, emitted, lost, evicted>>

IssueBlock(e) ==
    /\ e.kind = "block" /\ e.key # 0 /\ e.phase = "issue"
    /\ LET same == WithKey(blockInFlight, e.key)
       IN  /\ blockInFlight' = (blockInFlight \ same) \cup {EntryOf(getBlockShard(e.key), e)}
           /\ overwritten' = overwritten \cup {x.event : x \in same}
    /\ UNCHANGED <<syscallInFlight, emitted, lost, evicted>>

CompleteBlock(e) ==
    /\ e.kind = "block" /\ e.key # 0 /\ e.phase = "complete"
    /\ LET same == WithKey(blockInFlight, e.key)
           x    == EntryOf(getBlockShard(e.key), e)
       IN  /\ blockInFlight' = blockInFlight \ same
           /\ emitted' = emitted \cup
                  (IF same = {} THEN {Alone(x)} ELSE {completePair(y, x) : y \in same})
    /\ UNCHANGED <<syscallInFlight, lossVars>>

(* Every other event type, block events without a usable key, and those     *)
(* with a key that are neither issue nor completion.                        *)
PassThrough(e) ==
    /\ e.kind # "syscall"
    /\ e.kind = "block" => e.key = 0 \/ e.phase \notin {"issue", "complete"}
    /\ LET shard == IF e.kind = "block" /\ e.key # 0 THEN getBlockShard(e.key)
                                                    ELSE getShard(e.pid)
       IN  emitted' = emitted \cup {Alone(EntryOf(shard, e))}
    /\ UNCHANGED <<mapVars, lossVars>>

Process(f) ==
    /\ pos[f] < Len(Feed(f))
    /\ LET e == Feed(f)[pos[f] + 1]
       IN  ProcessSyscall(e) \/ IssueBlock(e) \/ CompleteBlock(e) \/ PassThrough(e)
    /\ pos' = [pos EXCEPT ![f] = @ + 1]
    /\ UNCHANGED <<now, spanVars>>

Lose(f) ==
    /\ f \in Lossy
    /\ pos[f] < Len(Feed(f))
    /\ lost' = lost \cup {Feed(f)[pos[f] + 1]}
    /\ pos' = [pos EXCEPT ![f] = @ + 1]
    /\ UNCHANGED <<now, mapVars, spanVars, emitted, evicted, overwritten>>

-----------------------------------------------------------------------------
(* Spans, eviction and time. *)

AddSpan(s) ==
    /\ s \in Spans \ arrived
    /\ arrived' = arrived \cup {s}
    /\ LET spans == Append(otelSpans[s.pid], [span |-> s, at |-> now])
       IN  otelSpans' = [otelSpans EXCEPT ![s.pid] =
               IF Len(spans) > SpanCap THEN SubSeq(spans, SpanTrim + 1, Len(spans)) ELSE spans]
    /\ UNCHANGED <<now, pos, mapVars, emitted, lossVars>>

Stale(x) == x.at < now - InflightTTL

evictStale(shard) ==
    LET calls  == {x \in syscallInFlight : getShard(x.event.pid) = shard}
        blocks == {x \in blockInFlight : getBlockShard(x.event.key) = shard}
        procs  == {p \in PIDs : getShard(p) = shard}
        gone   == {x \in calls \cup blocks : Stale(x)}
    IN  /\ \/ Cardinality(calls) >= EvictThreshold
           \/ Cardinality(blocks) >= EvictThreshold
           \/ Cardinality({p \in procs : otelSpans[p] # <<>>}) >= EvictThreshold
        /\ syscallInFlight' = syscallInFlight \ gone
        /\ blockInFlight' = blockInFlight \ gone
        /\ evicted' = evicted \cup {x.event : x \in gone}
        /\ otelSpans' = [p \in PIDs |->
               IF p \in procs
               THEN SelectSeq(otelSpans[p], LAMBDA x : x.at > now - SpanTTL)
               ELSE otelSpans[p]]
        /\ UNCHANGED <<now, pos, arrived, emitted, lost, overwritten>>

Tick ==
    /\ now < MaxClock
    /\ now' = now + 1
    /\ UNCHANGED <<pos, mapVars, spanVars, emitted, lossVars>>

Next ==
    \/ \E f \in Feeds : Process(f) \/ Lose(f)
    \/ \E s \in Spans : AddSpan(s)
    \/ \E shard \in Shards : evictStale(shard)
    \/ Tick

Spec == Init /\ [][Next]_vars

-----------------------------------------------------------------------------
(* Properties. *)

Read    == UNION {{Feed(f)[i] : i \in 1 .. pos[f]} : f \in Feeds}
Arrived == Read \ lost
Held    == {x.event : x \in syscallInFlight \cup blockInFlight}
Out     == UNION {r.parts : r \in emitted}

(* Whatever is paired, replaced or evicted, an event that arrived is in     *)
(* exactly one place: in flight, in exactly one thing Process returned,     *)
(* evicted or replaced by a second issue.                                   *)
Accounted ==
    /\ Arrived = Held \cup Out \cup evicted \cup overwritten
    /\ Held \cap (Out \cup evicted \cup overwritten) = {}
    /\ Out \cap (evicted \cup overwritten) = {}
    /\ evicted \cap overwritten = {}
    /\ \A r, q \in emitted : r # q => r.parts \cap q.parts = {}

(* One system call, made of its two halves. *)
IsCall(r, parts) ==
    \E first, second \in parts :
        /\ first.call = second.call /\ first.phase = "enter" /\ second.phase = "exit"
        /\ r.head = first /\ r.ret = second.ret /\ r.dur = second.ts - first.ts

(* Nothing of the thread was lost, evicted, held back or sent again. *)
Whole(key) ==
    /\ key \in TwoByTwo
    /\ ~ \E e \in lost \cup evicted : e.kind = "syscall" /\ e.key = key

(* The pairing toggles per thread without looking at what it pairs.  As     *)
(* long as nothing of the thread was lost or evicted, each pair is one      *)
(* call, with the entry's context, the exit's return value and the time     *)
(* between them, in whichever order the halves arrived.  Two things the     *)
(* agent does (module Probe) are outside the promise, and after them the    *)
(* thread's pairs may mix calls: a half that its queue holds back until the *)
(* thread's next call was sent, and one that is sent again because a send   *)
(* that arrived was reported as failed.                                     *)
SyscallPairsAreCalls ==
    \A r \in emitted :
        r.head.kind = "syscall" /\ Whole(r.head.key) => IsCall(r, r.parts)

(* The events for which pairBlock uses its map. *)
Keyed(e, key) == e.kind = "block" /\ e.key = key /\ key # 0 /\ e.phase \in {"issue", "complete"}

(* Of the first n events of a feed, the last of the key that arrived. *)
Latest(f, n, key) ==
    {i \in 1 .. n :
        /\ Keyed(Feed(f)[i], key) /\ Feed(f)[i] \notin lost
        /\ \A k \in i + 1 .. n : Keyed(Feed(f)[k], key) => Feed(f)[k] \in lost}

(* The issue it is, if it is one that was not evicted. *)
Pending(f, n, key) ==
    {Feed(f)[i] : i \in {k \in Latest(f, n, key) : Feed(f)[k].phase = "issue"}} \ evicted

(* Block pairing forgets: whatever was lost, replaced or evicted before, a  *)
(* completion is returned with the issue that arrived for its key just      *)
(* before it, and alone if a completion arrived there, nothing did or the   *)
(* issue was evicted.  So one misdelivery never shifts the later pairs.     *)
(* The issue is of its own request unless that one was lost or comes later  *)
(* (the agent's queue, another partition), or a second request used the key *)
(* meanwhile: the key has no device (GAP_REGISTER.md, CORR-003).            *)
BlockPairsRecover ==
    \A f \in Feeds : \A j \in 1 .. pos[f] :
        LET e == Feed(f)[j]
        IN  Keyed(e, e.key) /\ e.phase = "complete" =>
                \A r \in emitted : e \in r.parts => r.parts = {e} \cup Pending(f, j - 1, e.key)

(* The inductive invariant behind the three: one entry per key, of the right *)
(* kind; and what the maps hold for the last event read of a thread or key.  *)
Entries ==
    /\ pos \in [Feeds -> Nat] /\ \A f \in Feeds : pos[f] <= Len(Feed(f))
    /\ lost \subseteq Read
    /\ \A x \in syscallInFlight : x.event.kind = "syscall"
    /\ \A x \in blockInFlight :
         x.event.kind = "block" /\ x.event.key # 0 /\ x.event.phase = "issue"
    /\ \A x, y \in syscallInFlight : x.event.key = y.event.key => x = y
    /\ \A x, y \in blockInFlight : x.event.key = y.event.key => x = y
    /\ \A r \in emitted : r.head \in r.parts

LastRead(f, i) ==
    i \in 1 .. pos[f] /\ \A j \in i + 1 .. pos[f] : ~Together(Feed(f)[j], Feed(f)[i])

(* A thread whose last event was the first half of its call has that half in *)
(* flight; one whose last event was the second has none.                     *)
SyscallsHeld ==
    \A f \in Feeds : \A i \in 1 .. pos[f] :
        LastRead(f, i) /\ Feed(f)[i].kind = "syscall" /\ Whole(Feed(f)[i].key) =>
          IF First(f, i) THEN \E x \in syscallInFlight : x.event = Feed(f)[i]
          ELSE \A x \in syscallInFlight : x.event.key # Feed(f)[i].key

(* What is in flight for a block key is the issue that arrived last. *)
BlocksHeld ==
    \A f \in Feeds : \A i \in DOMAIN Feed(f) :
        LET key == Feed(f)[i].key
        IN  Keyed(Feed(f)[i], key) =>
                {x.event : x \in WithKey(blockInFlight, key)} = Pending(f, pos[f], key)

IInv ==
    /\ Entries /\ Accounted /\ SyscallsHeld /\ BlocksHeld
    /\ SyscallPairsAreCalls /\ BlockPairsRecover

(* "kernel events from the same process or cgroup in that time range can    *)
(* inherit that context" (www/src/pages/docs/concepts/                      *)
(* trace-correlation.mdx): an event gets a context when a span of its       *)
(* process that covers it is known as it is processed.                      *)
TraceInherited == \A r \in emitted : r.known => r.trace # {}
=============================================================================
