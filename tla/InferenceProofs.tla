-------------------------- MODULE InferenceProofs --------------------------
(***************************************************************************)
(* Proofs about Inference, for any events, thresholds and sizes: the graph  *)
(* of all windows has no cycle, its edges respect the time bounds, and no   *)
(* edge ever changes.                                                       *)
(***************************************************************************)
EXTENDS Inference, TLAPS, SequenceTheorems, WellFoundedInduction

(* A cause the rules name never leads from a system call to anything else. *)
LEMMA CauseLayers ==
    ASSUME NEW a, NEW b, NEW c \in BOOLEAN,
           eventPairToCause(a, b, c)[2] # "",
           isBlocking(a)
    PROVE  isBlocking(b)
    BY DEF eventPairToCause, isBlocking

LEMMA ThresholdNat == Threshold \in Nat
    BY ThresholdAssumption

LEMMA EventFields ==
    ASSUME accepted \in Seq(Events), NEW n \in Ids
    PROVE  /\ accepted[n] \in Events
           /\ accepted[n].type \in Types
           /\ accepted[n].ts \in Nat
           /\ accepted[n].dur \in Nat
    BY InferenceAssumption DEF Ids

LEMMA NotFarther ==
    ASSUME NEW x \in Nat, NEW y \in Nat, NEW t \in Nat, ~(y - x > t)
    PROVE  y - x <= t
    OBVIOUS

(* EdgeInOrder, for a pair in time order. *)
LEMMA OrderedEdge ==
    ASSUME accepted \in Seq(Events), NEW a \in Ids, NEW b \in Ids, NEW c \in BOOLEAN,
           accepted[a].ts <= accepted[b].ts,
           accepted[a].ts = accepted[b].ts => a > b,
           NEW r \in EdgeInOrder(accepted, a, b, c)
    PROVE  r.from = a /\ r.to = b /\ Precedes(a, b) /\ Timely(r)
<1> DEFINE cause == eventPairToCause(accepted[a].type, accepted[b].type, c)
<1>0. accepted[a].ts \in Nat /\ accepted[b].ts \in Nat
    BY EventFields
<1>1. /\ accepted[b].ts - accepted[a].ts <= Threshold
      /\ cause[2] # ""
      /\ r = Edge(a, b, cause, accepted[b].ts - accepted[a].ts)
  <2> HIDE DEF cause
  <2>1. EdgeInOrder(accepted, a, b, c) =
            IF accepted[b].ts - accepted[a].ts > Threshold \/ cause[2] = ""
            THEN {} ELSE {Edge(a, b, cause, accepted[b].ts - accepted[a].ts)}
      BY DEF EdgeInOrder, cause
  <2>2. ~(accepted[b].ts - accepted[a].ts > Threshold \/ cause[2] = "")
      BY <2>1, Zenon
  <2>4. r = Edge(a, b, cause, accepted[b].ts - accepted[a].ts)
      BY <2>1, <2>2, Zenon
  <2>3. accepted[b].ts - accepted[a].ts <= Threshold
      BY <1>0, <2>2, ThresholdNat, NotFarther, Zenon
  <2> QED
      BY <2>2, <2>3, <2>4
<1>2. r.from = a /\ r.to = b
    BY <1>1 DEF Edge
<1>3. isBlocking(accepted[a].type) => isBlocking(accepted[b].type)
    BY <1>1, CauseLayers
<1>4. Layer(a) < Layer(b) \/ Layer(a) = Layer(b)
    BY <1>3 DEF Layer
<1>5. Precedes(a, b)
    BY <1>4, EventFields DEF Precedes
<1>6. Timely(r)
    BY <1>1, <1>2 DEF Timely
<1> QED
    BY <1>2, <1>5, <1>6

LEMMA WindowEdge ==
    ASSUME accepted \in Seq(Events), NEW i \in Ids, NEW j \in Ids, i < j, NEW c \in BOOLEAN,
           NEW r \in tryCreateEdge(accepted, i, j, c)
    PROVE  r.from \in {i, j} /\ r.to \in {i, j} /\ Precedes(r.from, r.to) /\ Timely(r)
<1>1. i \in Nat /\ j \in Nat
    BY DEF Ids
<1>2. accepted[i].ts \in Nat /\ accepted[j].ts \in Nat
    BY EventFields
<1>3. CASE accepted[j].ts <= accepted[i].ts
  <2>1. r \in EdgeInOrder(accepted, j, i, c)
      BY <1>3 DEF tryCreateEdge
  <2>2. accepted[j].ts = accepted[i].ts => j > i
      BY <1>1
  <2> QED
      BY <1>3, <2>1, <2>2, OrderedEdge
<1>4. CASE ~(accepted[j].ts <= accepted[i].ts)
  <2>1. r \in EdgeInOrder(accepted, i, j, c)
      BY <1>4 DEF tryCreateEdge
  <2>2. accepted[i].ts <= accepted[j].ts /\ accepted[i].ts # accepted[j].ts
      BY <1>2, <1>4
  <2> QED
      BY <2>1, <2>2, OrderedEdge
<1> QED
    BY <1>3, <1>4

(* An edge between a remembered event and a system call. *)
LEMMA CrossEdge ==
    ASSUME accepted \in Seq(Events), NEW p \in Ids, NEW n \in Ids,
           accepted[p].type \in {"block_io", "sched_switch", "page_fault"},
           isBlocking(accepted[n].type),
           NEW r \in tryCreateCrossProcEdge(accepted, p, n)
    PROVE  r.from = p /\ r.to = n /\ Precedes(p, n) /\ Timely(r)
<1> USE ThresholdNat
<1>1. /\ accepted[p].ts \in Nat /\ accepted[p].dur \in Nat
      /\ accepted[n].ts \in Nat /\ accepted[n].dur \in Nat
    BY EventFields
<1>2. PICK l \in crossProcLatencyNs(accepted[p], accepted[n]) :
          r = Edge(p, n, <<FALSE, crossProcCause(accepted[p], accepted[n])>>, l)
    BY DEF tryCreateCrossProcEdge
<1>3. r.from = p /\ r.to = n
    BY <1>2 DEF Edge
<1>4. Precedes(p, n)
    BY DEF Precedes, Layer, isBlocking
<1>5. CASE accepted[p].type = "block_io"
  <2>1. l \in intervalLatencyNs(accepted[p], accepted[n])
      BY <1>2, <1>5 DEF crossProcLatencyNs
  <2>2. /\ IntervalEnd(accepted[p]) + Threshold >= accepted[n].ts
        /\ IntervalEnd(accepted[n]) + Threshold >= accepted[p].ts
    <3>1. CASE Overlap(accepted[p], accepted[n])
        BY <3>1, <1>1 DEF Overlap, IntervalEnd
    <3>2. CASE ~Overlap(accepted[p], accepted[n])
      <4> DEFINE gap == IF IntervalEnd(accepted[p]) < accepted[n].ts
                        THEN accepted[n].ts - IntervalEnd(accepted[p])
                        ELSE accepted[p].ts - IntervalEnd(accepted[n])
      <4>1. ~(gap > Threshold)
          BY <3>2, <2>1, Zenon DEF intervalLatencyNs
      <4> DEFINE ps == accepted[p].ts
                 pd == accepted[p].dur
                 ns == accepted[n].ts
                 nd == accepted[n].dur
      <4>2. ~(ps + pd >= ns /\ ns + nd >= ps)
          BY <3>2 DEF Overlap, IntervalEnd
      <4>3. ~((IF ps + pd < ns THEN ns - (ps + pd) ELSE ps - (ns + nd)) > Threshold)
          BY <4>1 DEF IntervalEnd
      <4>4. ps \in Nat /\ pd \in Nat /\ ns \in Nat /\ nd \in Nat
          BY <1>1
      <4>5. (ps + pd) + Threshold >= ns /\ (ns + nd) + Threshold >= ps
        <5> HIDE DEF ps, pd, ns, nd
        <5> QED
            BY <4>2, <4>3, <4>4
      <4> QED
          BY <4>5 DEF IntervalEnd
    <3> QED
        BY <3>1, <3>2
  <2> QED
      BY <1>3, <1>4, <1>5, <2>2 DEF Timely
<1>6. CASE accepted[p].type # "block_io"
  <2>1. accepted[p].ts <= accepted[n].ts /\ accepted[n].ts - accepted[p].ts <= Threshold
      BY <1>1, <1>2, <1>6 DEF crossProcLatencyNs
  <2> QED
      BY <1>3, <1>4, <2>1 DEF Timely
<1> QED
    BY <1>5, <1>6

-----------------------------------------------------------------------------
(* The step that writes edges. *)

LEMMA SeenIds ==
    ASSUME IInv
    PROVE  /\ Seen \subseteq Ids
           /\ flushed \in Nat /\ Len(batch) \in Nat
           /\ \A x \in 1 .. Len(batch) : batch[x] = flushed + x
    BY DEF IInv, TypeOK, EachEventOnce, Seen, Ids

LEMMA BatchIds ==
    ASSUME IInv
    PROVE  ToSet(batch) \subseteq flushed + 1 .. flushed + Len(batch)
<1>1. ToSet(batch) = {batch[x] : x \in 1 .. Len(batch)}
    BY DEF ToSet, IInv, TypeOK
<1> QED
    BY <1>1, SeenIds

LEMMA RememberedNext ==
    ASSUME IInv, rememberCrossProcCandidates
    PROVE  /\ \A n \in blockIOWindow' : n \in Seen /\ accepted[n].type = "block_io"
           /\ \A n \in crossProcWindow' : n \in Seen /\ isCrossProcCandidate(accepted[n].type)
<1>1. ToSet(batch) \subseteq Seen /\ 1 .. flushed \subseteq Seen
    BY BatchIds, SeenIds DEF Seen
<1> QED
    BY <1>1 DEF rememberCrossProcCandidates, trimEventWindow, IInv, Remembered

LEMMA PairEdge ==
    ASSUME IInv, NEW q \in Pairs, NEW c \in BOOLEAN,
           NEW r \in tryCreateEdge(accepted, batch[q[1]], batch[q[2]], c)
    PROVE  /\ r.from \in Seen /\ r.to \in Seen /\ r.to > flushed
           /\ Precedes(r.from, r.to) /\ Timely(r)
<1>1. q[1] \in 1 .. Len(batch) /\ q[2] \in 1 .. Len(batch) /\ q[1] < q[2]
    BY DEF Pairs
<1>2. /\ batch[q[1]] = flushed + q[1] /\ batch[q[2]] = flushed + q[2]
      /\ flushed \in Nat /\ Len(batch) \in Nat
    BY <1>1, SeenIds
<1> DEFINE i == batch[q[1]]
           j == batch[q[2]]
<1>3. i \in Seen /\ j \in Seen /\ i < j /\ i > flushed /\ j > flushed
    BY <1>1, <1>2 DEF Seen
<1>4. i \in Ids /\ j \in Ids
    BY <1>3, SeenIds
<1>5. accepted \in Seq(Events)
    BY DEF IInv, TypeOK
<1> HIDE DEF i, j
<1>6. r \in tryCreateEdge(accepted, i, j, c)
    BY DEF i, j
<1>7. r.from \in {i, j} /\ r.to \in {i, j} /\ Precedes(r.from, r.to) /\ Timely(r)
    BY <1>3, <1>4, <1>5, <1>6, WindowEdge
<1> QED
    BY <1>3, <1>7

LEMMA NewEdge ==
    ASSUME IInv, rememberCrossProcCandidates,
           NEW r \in Over(CrossProcEdges, ThreadEdges \cup ProcEdges)
    PROVE  /\ r.from \in Seen /\ r.to \in Seen /\ r.to > flushed
           /\ Precedes(r.from, r.to) /\ Timely(r)
<1>1. CASE r \in ThreadEdges
  <2>1. PICK q \in Pairs : r \in tryCreateEdge(accepted, batch[q[1]], batch[q[2]], FALSE)
      BY <1>1 DEF ThreadEdges
  <2> QED
      BY <2>1, PairEdge
<1>2. CASE r \in ProcEdges
  <2>1. PICK q \in Pairs : r \in tryCreateEdge(accepted, batch[q[1]], batch[q[2]], TRUE)
      BY <1>2 DEF ProcEdges
  <2> QED
      BY <2>1, PairEdge
<1>3. CASE r \in CrossProcEdges
  <2>1. PICK p \in blockIOWindow' \cup crossProcWindow', n \in ToSet(batch) :
            isBlocking(accepted[n].type) /\ r \in tryCreateCrossProcEdge(accepted, p, n)
      BY <1>3 DEF CrossProcEdges
  <2>2. /\ p \in Seen
        /\ accepted[p].type \in {"block_io", "sched_switch", "page_fault"}
      BY RememberedNext DEF isCrossProcCandidate
  <2>3. n \in Seen /\ n > flushed
      BY BatchIds, SeenIds DEF Seen
  <2>4. p \in Ids /\ n \in Ids /\ accepted \in Seq(Events)
      BY <2>2, <2>3, SeenIds DEF IInv, TypeOK
  <2>5. r.from = p /\ r.to = n /\ Precedes(p, n) /\ Timely(r)
      BY <2>1, <2>2, <2>4, CrossEdge
  <2> QED
      BY <2>2, <2>3, <2>5
<1> QED
    BY <1>1, <1>2, <1>3 DEF Over

(* What WriteEdges leaves in the graph: everything it found there, and new  *)
(* edges whose effect is in the batch.                                      *)
LEMMA WriteEdgesGraph ==
    ASSUME IInv, NEW applied \in BOOLEAN, WriteEdges(applied)
    PROVE  /\ edges \subseteq edges'
           /\ \A r \in edges' \ edges :
                  /\ r.from \in Seen \cap nodes /\ r.to \in Seen \cap nodes
                  /\ Precedes(r.from, r.to) /\ Timely(r)
<1> DEFINE new == Over(CrossProcEdges, ThreadEdges \cup ProcEdges)
<1>1. CASE ~applied
    BY <1>1 DEF WriteEdges
<1>2. CASE applied
  <2> DEFINE found == {r \in new : r.from \in nodes /\ r.to \in nodes}
  <2>1. edges' = Over(found, edges)
      BY <1>2 DEF WriteEdges, Merge
  <2>2. \A r \in found : /\ r.from \in Seen /\ r.to \in Seen /\ r.to > flushed
                         /\ Precedes(r.from, r.to) /\ Timely(r)
      BY NewEdge DEF WriteEdges
  <2>3. \A r \in edges : ~(r.to > flushed)
      BY SeenIds DEF IInv, EdgesPlaced
  <2> HIDE DEF new, found
  <2>4. edges \subseteq edges'
      BY <2>1, <2>2, <2>3 DEF Over, SamePair
  <2>5. \A r \in edges' \ edges : r \in found
      BY <2>1 DEF Over
  <2>6. \A r \in found : r.from \in nodes /\ r.to \in nodes
      BY DEF found
  <2> QED
      BY <2>2, <2>4, <2>5, <2>6
<1> QED
    BY <1>1, <1>2

-----------------------------------------------------------------------------
(* The invariant. *)

LEMMA InitInv == Init => IInv
<1> SUFFICES ASSUME Init PROVE IInv
    OBVIOUS
<1> USE DEF Init
<1>1. TypeOK
  <2>1. accepted \in Seq(Events) /\ input \in Seq(Ids) /\ window \in Seq(Ids) /\ batch \in Seq(Ids)
      OBVIOUS
  <2>2. Len(input) <= InputCap /\ flushed \in 0 .. Len(accepted)
      BY InferenceAssumption
  <2> QED
      BY <2>1, <2>2 DEF TypeOK
<1>2. EachEventOnce /\ BatchPlaced
    BY DEF EachEventOnce, BatchPlaced
<1>3. Remembered /\ nodes \subseteq Seen /\ EdgesPlaced /\ EdgesForward /\ EdgesTimely
    BY DEF Remembered, EdgesPlaced, EdgesForward, EdgesTimely
<1> QED
    BY <1>1, <1>2, <1>3 DEF IInv

(* What is said about the graph depends on the events up to flushed only. *)
LEMMA GraphFrame ==
    ASSUME IInv, UNCHANGED <<windowVars, edges, flushed>>,
           \A n \in Ids : accepted'[n] = accepted[n]
    PROVE  Remembered' /\ EdgesPlaced' /\ EdgesForward' /\ EdgesTimely'
<1>1. 1 .. flushed \subseteq Ids
    BY DEF IInv, TypeOK, Ids
<1>2. Remembered' /\ EdgesPlaced'
    BY <1>1 DEF IInv, Remembered, EdgesPlaced, windowVars
<1>3. \A r \in edges : accepted'[r.from] = accepted[r.from] /\ accepted'[r.to] = accepted[r.to]
    BY <1>1 DEF IInv, EdgesPlaced
<1>4. EdgesForward'
    BY <1>3 DEF IInv, EdgesForward, Precedes, Layer
<1>5. EdgesTimely'
    BY <1>3 DEF IInv, EdgesTimely, Timely
<1> QED
    BY <1>2, <1>4, <1>5

LEMMA IngestInv == ASSUME IInv, NEW e \in Events, Ingest(e) PROVE IInv'
<1> USE InferenceAssumption
<1>1. UNCHANGED <<window, run, batch, final, crossProcWindow, blockIOWindow, ctxDone, nodes, edges, flushed>>
    BY DEF Ingest, windowVars, graphVars
<1>2. CASE UNCHANGED <<accepted, input>>
  <2>1. dropped' \subseteq Events
      BY <1>2 DEF Ingest, IInv, TypeOK
  <2>2. TypeOK' /\ EachEventOnce' /\ BatchPlaced' /\ (nodes \subseteq Seen)'
      BY <1>1, <1>2, <2>1 DEF IInv, TypeOK, Ids, EachEventOnce, BatchPlaced, Seen
  <2>3. Remembered' /\ EdgesPlaced' /\ EdgesForward' /\ EdgesTimely'
      BY <1>1, <1>2, GraphFrame DEF windowVars
  <2> QED
      BY <2>2, <2>3 DEF IInv
<1>3. CASE /\ Len(input) < InputCap
           /\ accepted' = Append(accepted, e)
           /\ input' = Append(input, Len(accepted'))
           /\ dropped' = dropped
  <2>1. /\ accepted \in Seq(Events) /\ input \in Seq(Ids) /\ window \in Seq(Ids)
        /\ batch \in Seq(Ids) /\ Len(input) <= InputCap
      BY DEF IInv, TypeOK
  <2>2. /\ accepted' \in Seq(Events) /\ Len(accepted') = Len(accepted) + 1
        /\ \A n \in Ids : accepted'[n] = accepted[n]
        /\ Ids' = 1 .. Len(accepted) + 1 /\ Ids \subseteq Ids'
      BY <1>3, <2>1 DEF Ids
  <2>3. input \in Seq(Ids') /\ window \in Seq(Ids') /\ batch \in Seq(Ids')
    <3>1. input \in Seq(Ids')
        BY <2>1, <2>2, SeqMonotonic, Zenon
    <3>2. window \in Seq(Ids')
        BY <2>1, <2>2, SeqMonotonic, Zenon
    <3>3. batch \in Seq(Ids')
        BY <2>1, <2>2, SeqMonotonic, Zenon
    <3> QED
        BY <3>1, <3>2, <3>3
  <2>4. /\ input' \in Seq(Ids') /\ Len(input') = Len(input) + 1 /\ Len(input') <= InputCap
        /\ \A i \in 1 .. Len(input) : input'[i] = input[i]
        /\ input'[Len(input) + 1] = Len(accepted) + 1
    <3>1. input' = Append(input, Len(accepted) + 1) /\ Len(accepted) + 1 \in Ids'
        BY <1>3, <2>1, <2>2
    <3> QED
        BY <3>1, <2>3, <1>3
  <2>5. TypeOK'
    <3>1. /\ crossProcWindow' \subseteq Ids' /\ blockIOWindow' \subseteq Ids' /\ nodes' \subseteq Ids'
          /\ flushed' \in 0 .. Len(accepted')
        BY <1>1, <2>1, <2>2 DEF IInv, TypeOK
    <3>2. /\ dropped' \subseteq Events /\ run' \in {"select", "nodes", "edges", "done"}
          /\ final' \in BOOLEAN /\ ctxDone' \in BOOLEAN
          /\ \A r \in edges' : r.from \in nodes' /\ r.to \in nodes'
        BY <1>1, <1>3 DEF IInv, TypeOK
    <3> QED
        BY <1>1, <2>2, <2>3, <2>4, <3>1, <3>2 DEF TypeOK
  <2>6. EachEventOnce'
    <3>1. EachEventOnce /\ flushed \in Nat
        BY DEF IInv, TypeOK
    <3>0. Len(input) \in Nat /\ Len(window) \in Nat /\ Len(batch) \in Nat /\ Len(accepted) \in Nat
        BY <2>1
    <3>4. /\ flushed + Len(batch) + Len(window) + Len(input) = Len(accepted)
          /\ \A i \in 1 .. Len(input) : input[i] = flushed + Len(batch) + Len(window) + i
        BY <3>1 DEF EachEventOnce
    <3>2. flushed' + Len(batch') + Len(window') + Len(input') = Len(accepted')
      <4>1. flushed + Len(batch) + Len(window) + (Len(input) + 1) = Len(accepted) + 1
          BY <3>0, <3>1, <3>4
      <4> QED
          BY <4>1, <1>1, <2>2, <2>4
    <3>3. \A i \in 1 .. Len(input') : input'[i] = flushed' + Len(batch') + Len(window') + i
      <4> SUFFICES ASSUME NEW i \in 1 .. Len(input) + 1
                   PROVE  input'[i] = flushed + Len(batch) + Len(window) + i
          BY <1>1, <2>4
      <4>1. CASE i \in 1 .. Len(input)
          BY <4>1, <2>4, <3>4
      <4>2. CASE i = Len(input) + 1
          BY <4>2, <2>4, <3>4, <3>0, <3>1
      <4> QED
          BY <4>1, <4>2, <3>0
    <3> QED
        BY <1>1, <3>1, <3>2, <3>3 DEF EachEventOnce
  <2>7. BatchPlaced' /\ (nodes \subseteq Seen)'
      BY <1>1 DEF IInv, BatchPlaced, Seen
  <2>8. Remembered' /\ EdgesPlaced' /\ EdgesForward' /\ EdgesTimely'
      BY <1>1, <2>2, GraphFrame DEF windowVars
  <2> QED
      BY <2>5, <2>6, <2>7, <2>8 DEF IInv
<1> QED
    BY <1>2, <1>3 DEF Ingest

LEMMA ReceiveInv == ASSUME IInv, Receive PROVE IInv'
<1>1. /\ UNCHANGED <<accepted, dropped, run, batch, final, crossProcWindow, blockIOWindow, ctxDone,
                     nodes, edges, flushed>>
      /\ Ids' = Ids
    BY DEF Receive, windowVars, graphVars, Ids
<1>2. input \in Seq(Ids) /\ input # <<>> /\ window \in Seq(Ids) /\ batch \in Seq(Ids) /\ Len(input) <= InputCap
    BY DEF IInv, TypeOK, Receive
<1>3. /\ input' \in Seq(Ids) /\ Len(input') = Len(input) - 1
      /\ \A i \in 1 .. Len(input') : input'[i] = input[i + 1]
    BY <1>2 DEF Receive
<1>4. /\ window' \in Seq(Ids) /\ Len(window') = Len(window) + 1
      /\ \A i \in 1 .. Len(window) : window'[i] = window[i]
      /\ window'[Len(window) + 1] = input[1]
  <2>1. Head(input) \in Ids /\ Head(input) = input[1]
      BY <1>2
  <2> QED
      BY <1>2, <2>1 DEF Receive
<1>5. TypeOK'
  <2>1. Len(input') <= InputCap
      BY <1>2, <1>3, InferenceAssumption
  <2> QED
      BY <1>1, <1>3, <1>4, <2>1 DEF IInv, TypeOK
<1>6. EachEventOnce'
  <2>1. EachEventOnce /\ flushed \in Nat /\ Len(input) > 0
      BY <1>2 DEF IInv, TypeOK
  <2>0. Len(input) \in Nat /\ Len(window) \in Nat /\ Len(batch) \in Nat
      BY <1>2
  <2>5. /\ flushed + Len(batch) + Len(window) + Len(input) = Len(accepted)
        /\ \A i \in 1 .. Len(window) : window[i] = flushed + Len(batch) + i
        /\ \A i \in 1 .. Len(input) : input[i] = flushed + Len(batch) + Len(window) + i
      BY <2>1 DEF EachEventOnce
  <2>2. flushed' + Len(batch') + Len(window') + Len(input') = Len(accepted')
    <3>1. flushed + Len(batch) + (Len(window) + 1) + (Len(input) - 1) = Len(accepted)
        BY <2>0, <2>1, <2>5
    <3> QED
        BY <3>1, <1>1, <1>3, <1>4
  <2>3. \A i \in 1 .. Len(window') : window'[i] = flushed' + Len(batch') + i
    <3> SUFFICES ASSUME NEW i \in 1 .. Len(window) + 1
                 PROVE  window'[i] = flushed + Len(batch) + i
        BY <1>1, <1>4
    <3>1. CASE i \in 1 .. Len(window)
        BY <3>1, <1>4, <2>5
    <3>2. CASE i = Len(window) + 1
        BY <3>2, <1>4, <2>0, <2>1, <2>5
    <3> QED
        BY <3>1, <3>2, <2>0
  <2>4. \A i \in 1 .. Len(input') : input'[i] = flushed' + Len(batch') + Len(window') + i
    <3> SUFFICES ASSUME NEW i \in 1 .. Len(input) - 1
                 PROVE  input'[i] = flushed + Len(batch) + (Len(window) + 1) + i
        BY <1>1, <1>3, <1>4
    <3>1. i + 1 \in 1 .. Len(input) /\ input'[i] = input[i + 1]
        BY <1>3, <2>0
    <3> QED
        BY <3>1, <2>0, <2>1, <2>5
  <2> QED
      BY <1>1, <2>1, <2>2, <2>3, <2>4 DEF EachEventOnce
<1>7. BatchPlaced' /\ (nodes \subseteq Seen)'
    BY <1>1 DEF IInv, BatchPlaced, Seen
<1>8. Remembered' /\ EdgesPlaced' /\ EdgesForward' /\ EdgesTimely'
    BY <1>1, GraphFrame DEF windowVars
<1> QED
    BY <1>5, <1>6, <1>7, <1>8 DEF IInv

LEMMA StartFlushInv == ASSUME IInv, NEW last \in BOOLEAN, StartFlush(last) PROVE IInv'
<1>1. /\ UNCHANGED <<accepted, dropped, input, crossProcWindow, blockIOWindow, ctxDone, nodes, edges, flushed>>
      /\ Ids' = Ids /\ final' = last /\ run' = "nodes" /\ batch' = window /\ window' = <<>>
      /\ run = "select"
    BY DEF StartFlush, queueVars, windowVars, graphVars, Ids
<1>2. batch = <<>> /\ window \in Seq(Ids) /\ input \in Seq(Ids) /\ <<>> \in Seq(Ids)
    BY <1>1 DEF IInv, TypeOK, BatchPlaced
<1>3. TypeOK'
    BY <1>1, <1>2 DEF IInv, TypeOK
<1>4. Len(batch) = 0 /\ Len(window') = 0 /\ Len(batch') = Len(window) /\ flushed \in Nat
    BY <1>1, <1>2 DEF IInv, TypeOK
<1>5. EachEventOnce'
    BY <1>1, <1>2, <1>4 DEF IInv, EachEventOnce
<1>6. BatchPlaced' /\ (nodes \subseteq Seen)'
    BY <1>1, <1>2, <1>4 DEF IInv, BatchPlaced, Seen
<1>7. Remembered' /\ EdgesPlaced' /\ EdgesForward' /\ EdgesTimely'
    BY <1>1, GraphFrame DEF windowVars
<1> QED
    BY <1>3, <1>5, <1>6, <1>7 DEF IInv

LEMMA WriteNodesInv == ASSUME IInv, NEW applied \in BOOLEAN, WriteNodes(applied) PROVE IInv'
<1>1. /\ UNCHANGED <<accepted, dropped, input, window, batch, final, crossProcWindow, blockIOWindow, ctxDone,
                     edges, flushed>>
      /\ Ids' = Ids /\ Seen' = Seen /\ run' = "edges"
    BY DEF WriteNodes, queueVars, windowVars, Ids, Seen
<1>2. ToSet(batch) \subseteq Seen
    BY BatchIds, SeenIds DEF Seen
<1>3. nodes \subseteq nodes' /\ nodes' \subseteq Seen /\ nodes' \subseteq Ids
    BY <1>2, SeenIds DEF WriteNodes, IInv
<1>4. TypeOK'
    BY <1>1, <1>3 DEF IInv, TypeOK
<1>5. EachEventOnce' /\ BatchPlaced' /\ (nodes \subseteq Seen)'
    BY <1>1, <1>3 DEF IInv, EachEventOnce, BatchPlaced
<1>6. Remembered' /\ EdgesPlaced' /\ EdgesForward' /\ EdgesTimely'
    BY <1>1, GraphFrame DEF windowVars
<1> QED
    BY <1>4, <1>5, <1>6 DEF IInv

LEMMA WriteEdgesInv == ASSUME IInv, NEW applied \in BOOLEAN, WriteEdges(applied) PROVE IInv'
<1>1. /\ UNCHANGED <<accepted, dropped, input, window, final, ctxDone, nodes>>
      /\ Ids' = Ids /\ batch' = <<>> /\ flushed' = flushed + Len(batch)
      /\ run' \in {"select", "done"}
    BY DEF WriteEdges, queueVars, Ids
<1>2. /\ flushed \in Nat /\ Len(batch) \in Nat /\ Len(batch') = 0 /\ flushed' \in Nat
      /\ Seen' = Seen /\ Seen = 1 .. flushed' /\ Seen \subseteq Ids
    BY <1>1, SeenIds DEF Seen
<1>3. /\ \A n \in blockIOWindow' : n \in Seen /\ accepted[n].type = "block_io"
      /\ \A n \in crossProcWindow' : n \in Seen /\ isCrossProcCandidate(accepted[n].type)
    BY RememberedNext DEF WriteEdges
<1>4. \A r \in edges' : /\ r.from \in Seen \cap nodes /\ r.to \in Seen \cap nodes
                        /\ Precedes(r.from, r.to) /\ Timely(r)
  <2>1. \A r \in edges : /\ r.from \in Seen \cap nodes /\ r.to \in Seen \cap nodes
                         /\ Precedes(r.from, r.to) /\ Timely(r)
      BY DEF IInv, TypeOK, EdgesForward, EdgesTimely
  <2> QED
      BY <2>1, WriteEdgesGraph
<1>5. EachEventOnce'
  <2>1. EachEventOnce /\ window \in Seq(Ids) /\ input \in Seq(Ids)
      BY DEF IInv, TypeOK
  <2> QED
      BY <1>1, <1>2, <2>1 DEF EachEventOnce
<1>6. TypeOK'
  <2>1. <<>> \in Seq(Ids)
      OBVIOUS
  <2>2. flushed' \in 0 .. Len(accepted')
      BY <1>1, <1>2, <1>5 DEF EachEventOnce, IInv, TypeOK
  <2>3. blockIOWindow' \subseteq Ids /\ crossProcWindow' \subseteq Ids
      BY <1>2, <1>3
  <2>4. \A r \in edges' : r.from \in nodes' /\ r.to \in nodes'
      BY <1>1, <1>4
  <2> QED
      BY <1>1, <2>1, <2>2, <2>3, <2>4 DEF IInv, TypeOK
<1>7. BatchPlaced' /\ (nodes \subseteq Seen)' /\ Remembered' /\ EdgesPlaced'
    BY <1>1, <1>2, <1>3, <1>4 DEF IInv, BatchPlaced, Remembered, EdgesPlaced
<1>8. EdgesForward'
    BY <1>1, <1>4 DEF EdgesForward, Precedes, Layer
<1>9. EdgesTimely'
    BY <1>1, <1>4 DEF EdgesTimely, Timely
<1> QED
    BY <1>5, <1>6, <1>7, <1>8, <1>9 DEF IInv

LEMMA NextInv == IInv /\ [Next]_vars => IInv'
<1> SUFFICES ASSUME IInv, [Next]_vars PROVE IInv'
    OBVIOUS
<1>1. CASE Cancel
  <2>1. /\ UNCHANGED <<accepted, dropped, input, window, run, batch, final, crossProcWindow,
                       blockIOWindow, nodes, edges, flushed>>
        /\ Ids' = Ids /\ Seen' = Seen /\ ctxDone' = TRUE
      BY <1>1 DEF Cancel, queueVars, windowVars, graphVars, Ids, Seen
  <2>2. TypeOK' /\ EachEventOnce' /\ BatchPlaced' /\ (nodes \subseteq Seen)'
      BY <2>1 DEF IInv, TypeOK, EachEventOnce, BatchPlaced
  <2>3. Remembered' /\ EdgesPlaced' /\ EdgesForward' /\ EdgesTimely'
      BY <2>1, GraphFrame DEF windowVars
  <2> QED
      BY <2>2, <2>3 DEF IInv
<1>2. CASE UNCHANGED vars
  <2>1. /\ UNCHANGED <<accepted, dropped, input, window, run, batch, final, crossProcWindow,
                       blockIOWindow, ctxDone, nodes, edges, flushed>>
        /\ Ids' = Ids /\ Seen' = Seen
      BY <1>2 DEF vars, queueVars, windowVars, graphVars, Ids, Seen
  <2>2. TypeOK' /\ EachEventOnce' /\ BatchPlaced' /\ (nodes \subseteq Seen)'
      BY <2>1 DEF IInv, TypeOK, EachEventOnce, BatchPlaced
  <2>3. Remembered' /\ EdgesPlaced' /\ EdgesForward' /\ EdgesTimely'
      BY <2>1, GraphFrame DEF windowVars
  <2> QED
      BY <2>2, <2>3 DEF IInv
<1>3. CASE Run
    BY <1>3, ReceiveInv, StartFlushInv, WriteNodesInv, WriteEdgesInv DEF Run, Tick, Done
<1>4. CASE \E e \in Events : Ingest(e)
    BY <1>4, IngestInv
<1> QED
    BY <1>1, <1>2, <1>3, <1>4 DEF Next

(* The inductive invariant holds in every reachable state. *)
THEOREM InvariantCorrect == Spec => []IInv
    BY InitInv, NextInv, PTL DEF Spec

-----------------------------------------------------------------------------
(* No cycle. *)

LEMMA NatMinimum ==
    ASSUME NEW S, S \subseteq Nat, S # {}
    PROVE  \E x \in S : \A y \in S : x <= y
<1> DEFINE R == {ss \in Nat \X Nat : ss[1] < ss[2]}
<1>1. IsWellFoundedOn(R, Nat)
    BY NatLessThanWellFounded DEF OpToRel
<1> HIDE DEF R
<1>2. PICK x \in S : \A y \in S : ~(<<y, x>> \in R)
    BY <1>1, WFMin
<1>3. ASSUME NEW y \in S PROVE x <= y
  <2>1. x \in Nat /\ y \in Nat /\ ~(<<y, x>> \in R)
      BY <1>2
  <2>2. y < x => <<y, x>> \in R
      BY <2>1 DEF R
  <2> QED
      BY <2>1, <2>2
<1> QED
    BY <1>3

(* Precedes has no infinite descent: take the lowest layer, in it the       *)
(* earliest time, and of those the event accepted last.                     *)
LEMMA MinimalEvent ==
    ASSUME IInv, NEW S, S \subseteq Seen, S # {}
    PROVE  \E n \in S : \A m \in S : ~Precedes(m, n)
<1> DEFINE ts(n) == accepted[n].ts
<1>1. /\ flushed + Len(batch) \in Nat
      /\ \A n \in S : n \in 1 .. flushed + Len(batch) /\ ts(n) \in Nat /\ Layer(n) \in Nat
  <2>1. S \subseteq Ids /\ accepted \in Seq(Events) /\ flushed + Len(batch) \in Nat
      BY SeenIds DEF IInv, TypeOK
  <2>2. \A n \in S : ts(n) \in Nat
      BY <2>1, EventFields
  <2>3. \A n \in S : Layer(n) \in Nat
      BY DEF Layer
  <2> QED
      BY <2>1, <2>2, <2>3 DEF Seen
<1> DEFINE last == flushed + Len(batch)
<1> HIDE DEF ts, last
<1>2. last \in Nat /\ \A n \in S : n \in 1 .. last
    BY <1>1 DEF last
<1>3. PICK l \in {Layer(n) : n \in S} : \A k \in {Layer(n) : n \in S} : l <= k
  <2>1. {Layer(n) : n \in S} \subseteq Nat /\ {Layer(n) : n \in S} # {}
      BY <1>1
  <2> QED
      BY <2>1, NatMinimum
<1> DEFINE A == {n \in S : Layer(n) = l}
<1>4. PICK t \in {ts(n) : n \in A} : \A k \in {ts(n) : n \in A} : t <= k
  <2>1. {ts(n) : n \in A} \subseteq Nat /\ {ts(n) : n \in A} # {}
      BY <1>1, <1>3
  <2> QED
      BY <2>1, NatMinimum
<1> DEFINE B == {n \in A : ts(n) = t}
<1>5. PICK d \in {last - n : n \in B} : \A k \in {last - n : n \in B} : d <= k
  <2>1. {last - n : n \in B} \subseteq Nat /\ {last - n : n \in B} # {}
      BY <1>2, <1>4
  <2> QED
      BY <2>1, NatMinimum
<1>6. PICK n \in B : d = last - n
    BY <1>5
<1>7. ASSUME NEW m \in S PROVE ~Precedes(m, n)
  <2>1. Layer(n) <= Layer(m) /\ Layer(m) \in Nat /\ Layer(n) \in Nat
      BY <1>1, <1>3
  <2>2. Layer(m) = Layer(n) => ts(n) <= ts(m)
      BY <1>4
  <2>3. Layer(m) = Layer(n) /\ ts(m) = ts(n) => m <= n
    <3> SUFFICES ASSUME Layer(m) = Layer(n), ts(m) = ts(n) PROVE m <= n
        OBVIOUS
    <3>1. m \in B
        OBVIOUS
    <3>2. last - n <= last - m
        BY <3>1, <1>5, <1>6
    <3> QED
        BY <3>2, <1>2
  <2>4. ts(m) \in Nat /\ ts(n) \in Nat /\ m \in Nat /\ n \in Nat
      BY <1>1, <1>2
  <2>5. /\ ~(Layer(m) < Layer(n))
        /\ ~(Layer(m) = Layer(n) /\ ts(m) < ts(n))
        /\ ~(Layer(m) = Layer(n) /\ ts(m) = ts(n) /\ m > n)
      BY <2>1, <2>2, <2>3, <2>4
  <2> QED
      BY <2>5 DEF Precedes, ts
<1> QED
    BY <1>6, <1>7

LEMMA InvAcyclic == IInv => GraphAcyclic
<1> SUFFICES ASSUME IInv, NEW S \in (SUBSET nodes) \ {{}}
             PROVE  \E n \in S : \A r \in edges : r.to = n => r.from \notin S
    BY DEF GraphAcyclic
<1>1. S \subseteq Seen /\ S # {}
    BY DEF IInv
<1>2. PICK n \in S : \A m \in S : ~Precedes(m, n)
    BY <1>1, MinimalEvent
<1>3. \A r \in edges : Precedes(r.from, r.to)
    BY DEF IInv, EdgesForward
<1> QED
    BY <1>2, <1>3

-----------------------------------------------------------------------------
(* The properties. *)

(* Every event the channel accepted goes through exactly one window, in the *)
(* order of acceptance, however flushes cut the stream.                     *)
THEOREM EachEventOnceCorrect == Spec => []EachEventOnce
<1>1. IInv => EachEventOnce
    BY DEF IInv
<1> QED
    BY <1>1, InvariantCorrect, PTL

(* Whatever processWindow writes respects the time bounds. *)
THEOREM EdgesTimelyCorrect == Spec => []EdgesTimely
<1>1. IInv => EdgesTimely
    BY DEF IInv
<1> QED
    BY <1>1, InvariantCorrect, PTL

(* The causal graph never has a cycle, whatever the events, their time      *)
(* stamps, the order they arrive in and the writes that fail.               *)
THEOREM GraphAcyclicCorrect == Spec => []GraphAcyclic
    BY InvAcyclic, InvariantCorrect, PTL

(* No step removes an edge or changes its cause or latency. *)
THEOREM EdgesStableCorrect == Spec => EdgesStable
<1>1. IInv /\ [Next]_vars => [edges \subseteq edges']_vars
  <2> SUFFICES ASSUME IInv, [Next]_vars PROVE edges \subseteq edges'
      OBVIOUS
  <2>1. CASE \E applied \in BOOLEAN : WriteEdges(applied)
      BY <2>1, WriteEdgesGraph
  <2>2. CASE ~ \E applied \in BOOLEAN : WriteEdges(applied)
      BY <2>2 DEF Next, Run, Receive, Tick, Done, StartFlush, WriteNodes, Cancel, Ingest, vars, graphVars
  <2> QED
      BY <2>1, <2>2
<1> QED
    BY <1>1, InvariantCorrect, PTL DEF Spec, EdgesStable
=============================================================================
