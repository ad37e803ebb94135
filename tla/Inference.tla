----------------------------- MODULE Inference -----------------------------
(***************************************************************************)
(* The causal engine's goroutine (src/engine/inference/engine.go) and the   *)
(* graph it writes (src/engine/graph/neo4j.go): Ingest offers events to a   *)
(* bounded channel, Run collects them in a window, and every tick the       *)
(* window becomes nodes and edges.  Block requests, scheduler switches and  *)
(* page faults are remembered over windows.                                 *)
(*                                                                         *)
(* The n-th event Ingest accepted has the id n.  Neo4j is external: a write *)
(* transaction applies whole or not at all, whatever the caller is told.    *)
(***************************************************************************)
EXTENDS CausalRules, Sequences, FiniteSets, SequencesExt

CONSTANTS
    Events,           \* the events the handler passes to Ingest, each once
    InputCap,         \* capacity of the input channel
    PairLimit,        \* how far back processWindow looks in a thread or process
    CrossProcWinSize, \* crossProcWinSize
    BlockIOWinSize    \* blockIOWinSize

ASSUME InferenceAssumption ==
    /\ InputCap \in Nat \ {0}
    /\ PairLimit \in Nat
    /\ CrossProcWinSize \in Nat
    /\ BlockIOWinSize \in Nat
    /\ \A e \in Events : e.type \in Types /\ e.ts \in Nat /\ e.dur \in Nat

VARIABLES
    accepted,        \* the events that entered the channel, by id
    dropped,         \* history: events a full channel refused
    input,           \* the channel
    window,          \* events of the current window
    run,             \* where Run is
    batch,           \* the window being processed
    final,           \* is it the flush of ctx.Done?
    crossProcWindow, \* remembered switches and faults, as a set: ids keep the order
    blockIOWindow,   \* remembered block requests, likewise
    ctxDone,         \* has main cancelled the context?
    nodes,           \* Neo4j: ids that have a node
    edges,           \* Neo4j: CAUSED relationships
    flushed          \* history: how many events have been through processWindow

queueVars  == <<accepted, dropped, input>>
windowVars == <<crossProcWindow, blockIOWindow>>
graphVars  == <<nodes, edges>>
vars       == <<queueVars, window, run, batch, final, windowVars, ctxDone, graphVars, flushed>>

Ids == 1 .. Len(accepted)

TypeOK ==
    /\ accepted \in Seq(Events)
    /\ dropped \subseteq Events
    /\ input \in Seq(Ids) /\ Len(input) <= InputCap
    /\ window \in Seq(Ids)
    /\ run \in {"select", "nodes", "edges", "done"}
    /\ batch \in Seq(Ids)
    /\ final \in BOOLEAN
    /\ crossProcWindow \subseteq Ids
    /\ blockIOWindow \subseteq Ids
    /\ ctxDone \in BOOLEAN
    /\ nodes \subseteq Ids
    /\ \A r \in edges : r.from \in nodes /\ r.to \in nodes
    /\ flushed \in 0 .. Len(accepted)

Init ==
    /\ accepted = <<>>
    /\ dropped = {}
    /\ input = <<>>
    /\ window = <<>>
    /\ run = "select"
    /\ batch = <<>>
    /\ final = FALSE
    /\ crossProcWindow = {}
    /\ blockIOWindow = {}
    /\ ctxDone = FALSE
    /\ nodes = {}
    /\ edges = {}
    /\ flushed = 0

-----------------------------------------------------------------------------
(* The handler's side, and main. *)

Ingest(e) ==
    /\ e \notin ToSet(accepted) \cup dropped
    /\ \/ /\ Len(input) < InputCap
          /\ accepted' = Append(accepted, e)
          /\ input' = Append(input, Len(accepted'))
          /\ dropped' = dropped
       \/ /\ Len(input) = InputCap
          /\ dropped' = dropped \cup {e}
          /\ UNCHANGED <<accepted, input>>
    /\ UNCHANGED <<window, run, batch, final, windowVars, ctxDone, graphVars, flushed>>

Cancel ==
    /\ ~ctxDone
    /\ ctxDone' = TRUE
    /\ UNCHANGED <<queueVars, window, run, batch, final, windowVars, graphVars, flushed>>

-----------------------------------------------------------------------------
(* Run: one select case per action. *)

Receive ==
    /\ run = "select"
    /\ input # <<>>
    /\ window' = Append(window, Head(input))
    /\ input' = Tail(input)
    /\ UNCHANGED <<accepted, dropped, run, batch, final, windowVars, ctxDone, graphVars, flushed>>

(* Mutant: the window is not emptied. *)
StartFlush_KeepsWindow(last) ==
    /\ run = "select"
    /\ batch' = window
    /\ window' = window
    /\ final' = last
    /\ run' = "nodes"
    /\ UNCHANGED <<queueVars, windowVars, ctxDone, graphVars, flushed>>

StartFlush(last) ==
    /\ run = "select"
    /\ batch' = window
    /\ window' = <<>>
    /\ final' = last
    /\ run' = "nodes"
    /\ UNCHANGED <<queueVars, windowVars, ctxDone, graphVars, flushed>>

(* Mutant: no ticker. *)
Tick_Missing == FALSE /\ UNCHANGED vars

Tick == window # <<>> /\ StartFlush(FALSE)

Done == ctxDone /\ StartFlush(TRUE)

(* WriteNodesBatch; the error is only logged. *)
WriteNodes(applied) ==
    /\ run = "nodes"
    /\ nodes' = IF applied THEN nodes \cup ToSet(batch) ELSE nodes
    /\ run' = "edges"
    /\ UNCHANGED <<queueVars, window, batch, final, windowVars, ctxDone, edges, flushed>>

-----------------------------------------------------------------------------
(* The edges of a window. *)

(* The pairs of positions x < y of one thread, or of one process and two    *)
(* threads, that are at most PairLimit places apart within that group.      *)
Near(x, y, group) == Cardinality(group \cap (x .. y - 1)) <= PairLimit

SameThread(x, y) == accepted[batch[x]].tid = accepted[batch[y]].tid
SameProc(x, y)   == accepted[batch[x]].pid = accepted[batch[y]].pid

Pairs == {p \in (1 .. Len(batch)) \X (1 .. Len(batch)) : p[1] < p[2]}

ThreadEdges ==
    UNION {tryCreateEdge(accepted, batch[p[1]], batch[p[2]], FALSE) :
        p \in {q \in Pairs : SameThread(q[1], q[2])
                             /\ Near(q[1], q[2], {k \in 1 .. Len(batch) : SameThread(k, q[2])})}}

ProcEdges ==
    UNION {tryCreateEdge(accepted, batch[p[1]], batch[p[2]], TRUE) :
        p \in {q \in Pairs : SameProc(q[1], q[2]) /\ ~SameThread(q[1], q[2])
                             /\ Near(q[1], q[2], {k \in 1 .. Len(batch) : SameProc(k, q[2])})}}

(* The newest max events. *)
trimEventWindow(S, max) == {n \in S : Cardinality({m \in S : m > n}) < max}

rememberCrossProcCandidates ==
    /\ blockIOWindow' =
           trimEventWindow(blockIOWindow \cup
               {n \in ToSet(batch) : accepted[n].type = "block_io"}, BlockIOWinSize)
    /\ crossProcWindow' =
           trimEventWindow(crossProcWindow \cup
               {n \in ToSet(batch) : isCrossProcCandidate(accepted[n].type)}, CrossProcWinSize)

(* The candidates of this window are remembered before they are compared. *)
CrossProcEdges ==
    UNION {tryCreateCrossProcEdge(accepted, p, n) :
        p \in blockIOWindow' \cup crossProcWindow',
        n \in {m \in ToSet(batch) : isBlocking(accepted[m].type)}}

SamePair(r, s) == r.from = s.from /\ r.to = s.to

Over(later, earlier) == later \cup {r \in earlier : ~ \E s \in later : SamePair(r, s)}

(* Mutant: the MERGE pattern leaves out the effect. *)
Merge_ByCause(new) ==
    LET found == {r \in new : r.from \in nodes /\ r.to \in nodes}
    IN  edges' = found \cup {r \in edges : \A s \in found : s.from # r.from}

(* WriteEdgesBatch: MATCH both ends, MERGE the relationship, SET its cause; *)
(* of two edges for one pair the later in the batch stays.                  *)
Merge(new) ==
    edges' = Over({r \in new : r.from \in nodes /\ r.to \in nodes}, edges)

WriteEdges(applied) ==
    /\ run = "edges"
    /\ rememberCrossProcCandidates
    /\ IF applied
       THEN Merge(Over(CrossProcEdges, ThreadEdges \cup ProcEdges))
       ELSE edges' = edges
    /\ flushed' = flushed + Len(batch)
    /\ batch' = <<>>
    /\ run' = IF final THEN "done" ELSE "select"
    /\ UNCHANGED <<queueVars, window, final, ctxDone, nodes>>

Run ==
    \/ Receive \/ Tick \/ Done
    \/ \E applied \in BOOLEAN : WriteNodes(applied) \/ WriteEdges(applied)

Next == Run \/ Cancel \/ \E e \in Events : Ingest(e)

Spec == Init /\ [][Next]_vars

(* Run is scheduled and writes return; select does not neglect ctx.Done.    *)
FairSpec == Spec /\ WF_vars(Run) /\ SF_vars(Done) /\ SF_vars(Tick)

-----------------------------------------------------------------------------
(* Properties. *)

(* Every accepted event goes through exactly one window, in the order of    *)
(* acceptance: what is done, in the batch, in the window and in the channel *)
(* are consecutive ids.                                                     *)
EachEventOnce ==
    /\ flushed + Len(batch) + Len(window) + Len(input) = Len(accepted)
    /\ \A i \in 1 .. Len(batch) : batch[i] = flushed + i
    /\ \A i \in 1 .. Len(window) : window[i] = flushed + Len(batch) + i
    /\ \A i \in 1 .. Len(input) : input[i] = flushed + Len(batch) + Len(window) + i

(* Time order, except that whatever is not a system call comes first and    *)
(* that of two events of the same time the one accepted later comes first.  *)
Layer(n) == IF isBlocking(accepted[n].type) THEN 1 ELSE 0

Precedes(m, n) ==
    \/ Layer(m) < Layer(n)
    \/ Layer(m) = Layer(n) /\ accepted[m].ts < accepted[n].ts
    \/ Layer(m) = Layer(n) /\ accepted[m].ts = accepted[n].ts /\ m > n

(* Why the graph has no cycle although block requests cause system calls    *)
(* that began before them: every edge follows one strict order of events.   *)
EdgesForward == \A r \in edges : Precedes(r.from, r.to)

(* The graph of all windows together has no cycle: every set of nodes has   *)
(* one that no other of the set caused.                                     *)
GraphAcyclic ==
    \A S \in (SUBSET nodes) \ {{}} :
        \E n \in S : \A r \in edges : r.to = n => r.from \notin S

Timely(r) ==
    LET a == accepted[r.from]
        b == accepted[r.to]
    IN  \/ a.ts <= b.ts /\ b.ts - a.ts <= Threshold
        \/ /\ a.type = "block_io" /\ isBlocking(b.type)
           /\ IntervalEnd(a) + Threshold >= b.ts
           /\ IntervalEnd(b) + Threshold >= a.ts

(* Only block requests may be later than what they caused, and then no      *)
(* farther than the threshold from its interval; every other cause precedes *)
(* its effect by at most the threshold.                                     *)
EdgesTimely == \A r \in edges : Timely(r)

(* What the graph says once it says for good: later windows add edges and   *)
(* never change the cause of one.                                           *)
EdgesStable == [][edges \subseteq edges']_vars

(* The ids that have reached the graph or are on their way there. *)
Seen == 1 .. flushed + Len(batch)

(* Only a flush holds a batch; what is remembered went through a flush and  *)
(* is a block request, or a switch or fault; edges join flushed events.     *)
BatchPlaced == run \in {"select", "done"} => batch = <<>>

Remembered ==
    /\ \A n \in blockIOWindow : n \in 1 .. flushed /\ accepted[n].type = "block_io"
    /\ \A n \in crossProcWindow : n \in 1 .. flushed /\ isCrossProcCandidate(accepted[n].type)

EdgesPlaced == \A r \in edges : r.from \in 1 .. flushed /\ r.to \in 1 .. flushed

(* The inductive invariant behind the properties of the graph.              *)
IInv ==
    /\ TypeOK /\ EachEventOnce /\ BatchPlaced /\ Remembered
    /\ nodes \subseteq Seen
    /\ EdgesPlaced /\ EdgesForward /\ EdgesTimely

(* However large a burst was, what was accepted is processed, by the ticker *)
(* if nothing else, unless main cancels.                                    *)
EventuallyFlushed == []<>(flushed = Len(accepted) \/ ctxDone)

=============================================================================
