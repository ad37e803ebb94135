----------------------------- MODULE GraphPage -----------------------------
(***************************************************************************)
(* The causal graph page (src/console/src/pages/Graph.tsx) with the        *)
(* analysis of lib/debugAnalysis.ts and the request of lib/api.ts.         *)
(*                                                                         *)
(* Live messages become nodes joined by edges the page infers itself; the  *)
(* newest transaction among them has its causal chain fetched after a      *)
(* delay, and the answer replaces the graph.  Nothing cancels a request.   *)
(* Events are numbered, and their numbers order as their ids do; 0 in the  *)
(* feed is a message mapWireEvent rejects.  dagre lays out what it is      *)
(* given, so positions are left out.                                       *)
(*                                                                         *)
(* applyGraph draws inside an update of selectedNode, which React queues:  *)
(* it runs with the next render of ordinary priority, while clicks and     *)
(* keys are rendered at once and before it.  The updates of selectedNode   *)
(* are still applied in the order they were made, so what is queued comes  *)
(* down to the selection they lead to and to the last drawing they make.   *)
(* summary and chainState are set outright: they are the value set last.   *)
(***************************************************************************)
EXTENDS Integers, Sequences, FiniteSets, SequencesExt, Graphs, Lists, Shell

CONSTANTS
    Event,       \* event -> [ts, type, service, pid, duration, tx]; tx may be NoTx
    Feed,        \* the connection's messages, in order
    Chains,      \* transaction -> the answers [nodes, edges] the API may give
    NoTx,        \* no transaction
    MAX_NODES, CAUSAL_WINDOW,
    SLOW, CRITICAL,  \* durations analyzeDebugGraph tells apart
    MaxFetches   \* bound: requests under way for one transaction

Transactions == DOMAIN Chains

ASSUME GraphAssumption ==
    /\ NoTx \notin Transactions
    /\ DOMAIN Event \subseteq Nat \ {0}
    /\ \A e \in DOMAIN Event : Event[e].ts \in Int /\ Event[e].tx \in Transactions \cup {NoTx}
    /\ Feed \in Seq(DOMAIN Event \cup {0})
    /\ \A t \in Transactions : \A answer \in Chains[t] : answer.nodes \in Seq(DOMAIN Event)
    /\ MAX_NODES \in Nat \ {0}
    /\ MaxFetches \in Nat

VARIABLES
    arrived,     \* messages the connection holds
    processed,   \* processedMessageRef
    nodes,       \* nodesRef, as events
    edges,       \* edgesRef: [from, to, cause]
    summary,     \* debugSummary
    selected,    \* selectedNode as it was rendered, 0 for none
    settled,     \* selectedNode once every queued update is applied
    drawing,     \* the drawing that the queued updates come to, if any
    svg,         \* what renderGraph last drew
    overtaken,   \* history: clicked or cleared while a drawing was queued, with
                 \* no graph applied since
    chainState,  \* [tx, status]
    requested,   \* requestedTransactionRef
    fetchTimer,  \* the transaction fetchTimerRef is set for
    fetching,    \* requests under way, per transaction
    graphPaused,
    loaded,      \* history: transactions whose chain was applied since it was asked for
    cancelled    \* history: the requested transaction if StrictMode cleared its timer

graphRefs == <<nodes, edges, summary, settled, drawing, overtaken>>
seenVars  == <<selected, svg>>
chainVars == <<chainState, requested, fetchTimer, fetching, loaded, cancelled>>
graphVars == <<arrived, processed, graphRefs, seenVars, chainVars, graphPaused>>

-----------------------------------------------------------------------------
KERNEL_TYPES    == {"page_fault", "sched_switch"}
DOMAIN_SERVICES == {"api-worker", "checkout-service", "auth-service", "database-writer"}

getLayer(e) ==
    CASE Event[e].type \in KERNEL_TYPES -> "kernel"
      [] Event[e].service \in DOMAIN_SERVICES /\ Event[e].type \notin KERNEL_TYPES -> "domain"
      [] OTHER -> "application"

(* Two nodes near in time are joined when they share a service or a process, *)
(* or when their layers suggest it.                                          *)
inferEdges(ns) ==
    LET before(i, j) == \/ Event[ns[i]].ts < Event[ns[j]].ts
                        \/ Event[ns[i]].ts = Event[ns[j]].ts /\ i < j
        linked(a, b) == \/ Event[a].service = Event[b].service
                        \/ Event[a].pid = Event[b].pid
                        \/ getLayer(a) = "kernel" /\ getLayer(b) # "kernel"
                        \/ getLayer(a) = "application" /\ getLayer(b) = "domain"
        near(i, j)   == Event[ns[j]].ts - Event[ns[i]].ts <= CAUSAL_WINDOW
    IN  SetToSeq(UNION { { [from |-> ns[i], to |-> ns[j], cause |-> ""] :
                             j \in { k \in DOMAIN ns : before(i, k) /\ near(i, k) /\ linked(ns[i], ns[k]) } } :
                         i \in DOMAIN ns })

pointsForward(e) ==
    \/ Event[e.from].ts < Event[e.to].ts
    \/ Event[e.from].ts = Event[e.to].ts /\ e.from < e.to

(* One node per id, and one forward edge per pair of them, the first given. *)
sanitizeGraph_AnyDirection(ns, es) ==
    LET unique == Filter([i \in DOMAIN ns |->
                    IF \E j \in 1 .. i - 1 : ns[j] = ns[i] THEN 0 ELSE ns[i]], Range(ns))
        safe(i) == /\ {es[i].from, es[i].to} \subseteq Range(ns)
                   /\ es[i].from # es[i].to
    IN  [nodes |-> unique,
         edges |-> { es[i] : i \in { k \in DOMAIN es : safe(k) /\
                       ~\E j \in 1 .. k - 1 : safe(j) /\ es[j].from = es[k].from
                                                      /\ es[j].to = es[k].to } }]

sanitizeGraph(ns, es) ==
    LET unique == Filter([i \in DOMAIN ns |->
                    IF \E j \in 1 .. i - 1 : ns[j] = ns[i] THEN 0 ELSE ns[i]], Range(ns))
        safe(i) == /\ {es[i].from, es[i].to} \subseteq Range(ns)
                   /\ es[i].from # es[i].to
                   /\ pointsForward(es[i])
    IN  [nodes |-> unique,
         edges |-> { es[i] : i \in { k \in DOMAIN es : safe(k) /\
                       ~\E j \in 1 .. k - 1 : safe(j) /\ es[j].from = es[k].from
                                                      /\ es[j].to = es[k].to } }]

AsGraph(ns, es) == [node |-> Range(ns), edge |-> { <<e.from, e.to>> : e \in es }]

(* The nodes that edges lead to from n: those in every set of nodes that    *)
(* has n and that no edge leaves.                                           *)
reachable(n, ns, es) ==
    { m \in Range(ns) : \A closed \in SUBSET Range(ns) :
        n \in closed /\ (\A e \in es : e.from \in closed => e.to \in closed) => m \in closed }

(* What is highlighted for a selected node, which need not be in the graph: *)
(* all it depends on and all that depends on it.                            *)
getPathIds(n, ns, es) ==
    {n} \cup { m \in Range(ns) :
                  n \in Range(ns) /\ (m \in reachable(n, ns, es) \/ n \in reachable(m, ns, es)) }

Rendering(ns, es, sel) ==
    [nodes |-> Range(ns), edges |-> es,
     path |-> IF sel = 0 THEN {} ELSE getPathIds(sel, ns, es)]

-----------------------------------------------------------------------------
(* debugAnalysis: the first of these kinds of events that occurs names the  *)
(* cause when no edge does.                                                 *)
CauseOrder == << {"block_io"}, {"sched_switch"}, {"page_fault"}, {"tcp_retransmit"},
                 {"tcp_recv", "tcp_send"} >>

inferCauseFromEvents(ns) ==
    LET present == { i \in DOMAIN CauseOrder :
                       \E n \in Range(ns) : Event[n].type \in CauseOrder[i] }
    IN  IF present = {} THEN "syscall latency"
        ELSE CauseOrder[CHOOSE i \in present : \A j \in present : i <= j]

(* The causes most edges have; the page takes the first of them. *)
topCauses(es) ==
    LET named    == { e \in es : e.cause # "" }
        count(c) == Cardinality({ e \in named : e.cause = c })
    IN  { e.cause : e \in { d \in named : \A o \in named : count(o.cause) <= count(d.cause) } }

analyzeDebugGraph(ns, es) ==
    LET slowest == ns[CHOOSE i \in DOMAIN ns : \A j \in DOMAIN ns :
                        \/ Event[ns[j]].duration < Event[ns[i]].duration
                        \/ Event[ns[j]].duration = Event[ns[i]].duration /\ i <= j]
        tagged  == Filter(ns, { n \in Range(ns) : Event[n].tx # NoTx })
    IN  [status |-> CASE Event[slowest].duration > CRITICAL -> "critical"
                      [] Event[slowest].duration \in SLOW + 1 .. CRITICAL -> "degraded"
                      [] OTHER -> IF es # {} THEN "degraded" ELSE "nominal",
         slowest |-> slowest,
         cause |-> IF topCauses(es) = {} THEN inferCauseFromEvents(ns)
                   ELSE CHOOSE c \in topCauses(es) : TRUE,
         tx |-> IF tagged = <<>> THEN NoTx ELSE Event[Head(tagged)].tx]

EMPTY_SUMMARY == [status |-> "nominal", slowest |-> 0, cause |-> "unknown", tx |-> NoTx]

-----------------------------------------------------------------------------
GraphInit ==
    /\ arrived = 0 /\ processed = 0 /\ graphPaused = FALSE
    /\ nodes = <<>> /\ edges = {} /\ summary = EMPTY_SUMMARY
    /\ selected = 0 /\ settled = 0 /\ drawing = {} /\ overtaken = FALSE
    /\ svg = Rendering(<<>>, {}, 0)
    /\ chainState = [tx |-> NoTx, status |-> "live"]
    /\ requested = NoTx /\ fetchTimer = NoTx /\ fetching = [t \in Transactions |-> 0]
    /\ loaded = {} /\ cancelled = NoTx

(* The selection is kept if it is in the new graph; what draws it is queued. *)
applyGraph(ns, es) ==
    LET safe == sanitizeGraph(ns, es)
    IN  /\ nodes' = safe.nodes /\ edges' = safe.edges
        /\ summary' = analyzeDebugGraph(safe.nodes, safe.edges)
        /\ settled' = IF settled \in Range(safe.nodes) THEN settled ELSE 0
        /\ drawing' = {Rendering(safe.nodes, safe.edges, settled')}
        /\ overtaken' = FALSE

(* A new transaction replaces the one the timer was set for.  Right after    *)
(* the mount StrictMode runs the effects' cleanups, one of which clears this *)
(* timer, and the effects again, which find nothing pending.                 *)
loadCausalChain(t, strict) ==
    /\ IF t = NoTx \/ requested = t
       THEN UNCHANGED <<chainState, requested, fetchTimer, loaded, cancelled>>
       ELSE /\ requested' = t /\ loaded' = loaded \ {t}
            /\ chainState' = [tx |-> t, status |-> "loading"]
            /\ fetchTimer' = IF strict THEN NoTx ELSE t
            /\ cancelled' = IF strict THEN t ELSE NoTx
    /\ UNCHANGED fetching

(* The effect on messages and paused: nodes for what is pending, and the     *)
(* newest transaction's chain.  shouldPromote is true of every event.        *)
(* newest is the last message, waiting the drawing that is still queued.     *)
ProcessPending(newest, waiting, strict) ==
    LET events == Filter(SubSeq(Feed, processed + 1, newest), DOMAIN Event)
        tagged == { i \in processed + 1 .. newest : Feed[i] # 0 /\ Event[Feed[i]].tx # NoTx }
        new    == LastN(nodes \o events, MAX_NODES)
        same   == drawing' = waiting /\ UNCHANGED <<nodes, edges, summary, settled, overtaken>>
    IN  IF ~On("graph")' \/ graphPaused' THEN same /\ UNCHANGED <<processed, chainVars>>
        ELSE /\ processed' = newest
             /\ loadCausalChain(IF tagged = {} THEN NoTx ELSE Event[Feed[Max(tagged)]].tx, strict)
             /\ IF events = <<>> THEN same ELSE applyGraph(new, inferEdges(new))

(* A render of ordinary priority applies what is queued, drawing included.   *)
(* The effect on selectedNode draws again if that changed, with the refs as  *)
(* the effects before it left them.                                          *)
RenderQueued ==
    /\ selected' = settled
    /\ svg' = IF selected' # selected /\ nodes' # <<>> THEN Rendering(nodes', edges', selected')
              ELSE IF drawing = {} THEN svg ELSE CHOOSE d \in drawing : TRUE

RenderGraph ==
    /\ On("graph") /\ drawing # {}
    /\ drawing' = {} /\ UNCHANGED <<nodes, edges, summary, settled, overtaken>>
    /\ RenderQueued
    /\ UNCHANGED <<arrived, processed, chainVars, graphPaused>>

Arrive ==
    /\ authed /\ arrived < Len(Feed) /\ arrived' = arrived + 1
    /\ UNCHANGED graphPaused
    /\ ProcessPending(arrived + 1, {}, FALSE)
    /\ RenderQueued

(* A click is rendered before what is queued. *)
PauseGraph ==
    /\ On("graph") /\ graphPaused' = ~graphPaused
    /\ UNCHANGED <<arrived, seenVars>>
    /\ ProcessPending(arrived, drawing, FALSE)

FetchTimerFires ==
    /\ On("graph") /\ fetchTimer # NoTx
    /\ fetching[fetchTimer] < MaxFetches
    /\ fetching' = [fetching EXCEPT ![fetchTimer] = @ + 1]
    /\ fetchTimer' = NoTx
    /\ UNCHANGED <<arrived, processed, graphRefs, seenVars, chainState, requested, loaded,
                   cancelled, graphPaused>>

ChainArrives_SilentEmpty(t) ==
    /\ \E answer \in Chains[t] :
         IF Len(answer.nodes) < 2 \/ answer.edges = <<>>
         THEN requested' = NoTx /\ UNCHANGED <<chainState, graphRefs, loaded>>
         ELSE /\ applyGraph(LastN(answer.nodes, MAX_NODES), answer.edges)
              /\ chainState' = [tx |-> t, status |-> "api"] /\ loaded' = loaded \cup {t}
              /\ UNCHANGED requested

(* A chain of one node or without edges leaves the live graph in place. *)
ChainArrives(t) ==
    /\ \E answer \in Chains[t] :
         IF Len(answer.nodes) < 2 \/ answer.edges = <<>>
         THEN /\ chainState' = [tx |-> t, status |-> "live"] /\ requested' = NoTx
              /\ UNCHANGED <<graphRefs, loaded>>
         ELSE /\ applyGraph(LastN(answer.nodes, MAX_NODES), answer.edges)
              /\ chainState' = [tx |-> t, status |-> "api"] /\ loaded' = loaded \cup {t}
              /\ UNCHANGED requested

ChainFails_KeepsRequested(t) ==
    /\ chainState' = [tx |-> t, status |-> "error"]
    /\ UNCHANGED <<requested, graphRefs, loaded>>

ChainFails(t) ==
    /\ chainState' = [tx |-> t, status |-> "error"]
    /\ requested' = NoTx
    /\ UNCHANGED <<graphRefs, loaded>>

FetchSettles(t) ==
    /\ On("graph") /\ fetching[t] > 0
    /\ fetching' = [fetching EXCEPT ![t] = @ - 1]
    /\ ChainArrives(t) \/ ChainFails(t)
    /\ UNCHANGED <<arrived, processed, seenVars, fetchTimer, cancelled, graphPaused>>

(* An update of selectedNode that a click or a key makes: rendered at once,  *)
(* and applied again after the updates that were queued before it.           *)
SetSelected(now, then) ==
    /\ selected' = now /\ settled' = then
    /\ svg' = IF selected' # selected /\ nodes # <<>> THEN Rendering(nodes, edges, selected') ELSE svg
    /\ overtaken' = (overtaken \/ drawing # {})
    /\ UNCHANGED <<arrived, processed, nodes, edges, summary, drawing, chainVars, graphPaused>>

(* A click on a node that is drawn toggles it; a click beside it, Escape and *)
(* the panel's button deselect.                                              *)
SelectNode(n) ==
    LET toggle(prev) == IF prev = n THEN 0 ELSE n
    IN  On("graph") /\ n \in svg.nodes /\ SetSelected(toggle(selected), toggle(settled))

Deselect == On("graph") /\ (selected # 0 \/ settled # 0) /\ SetSelected(0, 0)

(* The timer, the requests under way and a queued drawing stay as they are.  *)
clearGraph ==
    /\ On("graph")
    /\ nodes' = <<>> /\ edges' = {} /\ summary' = EMPTY_SUMMARY
    /\ selected' = 0 /\ settled' = 0 /\ svg' = Rendering(<<>>, {}, 0)
    /\ overtaken' = (drawing # {})
    /\ requested' = NoTx /\ chainState' = [tx |-> NoTx, status |-> "live"] /\ cancelled' = NoTx
    /\ UNCHANGED <<arrived, processed, drawing, fetchTimer, fetching, loaded, graphPaused>>

GraphStep ==
    \/ Arrive \/ PauseGraph \/ FetchTimerFires \/ RenderGraph \/ Deselect \/ clearGraph
    \/ \E t \in Transactions : FetchSettles(t)
    \/ \E n \in svg.nodes : SelectNode(n)

(* The page is left: its timer is cleared, and answers to come find no page. *)
LeaveGraph ==
    /\ nodes' = <<>> /\ edges' = {} /\ summary' = EMPTY_SUMMARY
    /\ selected' = 0 /\ settled' = 0 /\ drawing' = {} /\ overtaken' = FALSE
    /\ svg' = Rendering(<<>>, {}, 0)
    /\ chainState' = [tx |-> NoTx, status |-> "live"]
    /\ requested' = NoTx /\ fetchTimer' = NoTx /\ fetching' = [t \in Transactions |-> 0]
    /\ loaded' = {} /\ cancelled' = NoTx /\ processed' = 0 /\ graphPaused' = FALSE

(* The page mounts: its effects take all the messages there are and draw     *)
(* them, and run twice in the development build.                             *)
MountGraph ==
    /\ UNCHANGED <<arrived, graphPaused>>
    /\ \E strict \in BOOLEAN : ProcessPending(arrived, drawing, strict)
    /\ selected' = selected
    /\ svg' = IF nodes' # <<>> THEN Rendering(nodes', edges', selected) ELSE svg

-----------------------------------------------------------------------------
(* What Graph.tsx holds is one graph: distinct nodes, edges between them     *)
(* that never lead back and the summary of exactly these, whatever mix of    *)
(* live messages, chains of other transactions and clears led to it.  Once   *)
(* the queued updates are rendered, the selection is among the nodes and the *)
(* drawing is of this graph and this selection, unless a click or a clear    *)
(* overtook them: then an old graph may stay on the screen, or a selection   *)
(* without its path, until the next graph is applied, which repairs both.    *)
GraphConsistent ==
    /\ IsInjective(nodes)
    /\ IsDirectedGraph(AsGraph(nodes, edges))
    /\ \A a, b \in Range(nodes) : a # b =>
         ~(b \in reachable(a, nodes, edges) /\ a \in reachable(b, nodes, edges))
    /\ summary = IF nodes = <<>> THEN EMPTY_SUMMARY ELSE analyzeDebugGraph(nodes, edges)
    /\ drawing = {} /\ ~overtaken =>
         /\ selected = 0 \/ selected \in Range(nodes)
         /\ svg = Rendering(nodes, edges, selected)

(* The transaction that loadCausalChain will not ask for again is one whose  *)
(* chain is on its way or was applied since: a request that failed or came   *)
(* back empty, of this transaction or of another, never blocks a retry.  The *)
(* exception is the one whose timer StrictMode's cleanup cleared.            *)
RequestedIsLive ==
    requested # NoTx => \/ fetchTimer = requested
                        \/ fetching[requested] > 0
                        \/ requested \in loaded
                        \/ requested = cancelled

(* "loading chain" does not stay on the screen once messages stop coming:    *)
(* the timer fires and the request settles, or the page is left; except for  *)
(* the chain asked for at a mount whose timer StrictMode's cleanup cleared.  *)
ChainLoads ==
    chainState.status = "loading" /\ cancelled = NoTx ~> chainState.status # "loading"

(* The safety in ChainLoads: whichever requests are cleared, superseded or   *)
(* answered meanwhile, the page that says "loading chain" has the timer of   *)
(* this very chain or a request for it, unless StrictMode cleared the timer. *)
ChainAwaited ==
    chainState.status = "loading" =>
        /\ On("graph") /\ chainState.tx \in Transactions
        /\ \/ fetchTimer = chainState.tx
           \/ fetching[chainState.tx] > 0
           \/ cancelled = chainState.tx

(* Inductive for RequestedIsLive: what the requests are about. *)
RequestInv ==
    /\ arrived \in 0 .. Len(Feed) /\ processed \in Nat
    /\ requested \in Transactions \cup {NoTx} /\ fetchTimer \in Transactions \cup {NoTx}
    /\ fetching \in [Transactions -> Nat]
    /\ RequestedIsLive

(* Inductive for GraphConsistent: the nodes are events, and what is queued   *)
(* leads to a drawing of them unless it was overtaken.                       *)
QueueInv ==
    /\ drawing = {} => settled = selected
    /\ ~overtaken =>
         /\ settled = 0 \/ settled \in Range(nodes)
         /\ drawing \subseteq {Rendering(nodes, edges, settled)}

GraphInv == nodes \in Seq(DOMAIN Event) /\ QueueInv /\ GraphConsistent
=============================================================================
