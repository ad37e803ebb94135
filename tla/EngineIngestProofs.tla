------------------------- MODULE EngineIngestProofs -------------------------
(***************************************************************************)
(* Proofs about the engine's ingestion.  First the consumer alone: it      *)
(* acknowledges a record only after routing it, for any partition, channel *)
(* capacities, batch size and restarts.  Then the consumer, the enricher's *)
(* held half and the store together, through any sequence of shutdowns,    *)
(* crashes and restarts: what was acknowledged is stored, in memory or     *)
(* given up, and only a crash loses the event of a whole record.  Last,    *)
(* that the engine implements the abstract specification Delivery.         *)
(***************************************************************************)
EXTENDS EngineIngest, FiniteSetTheorems, SequenceTheorems, TLAPS

LEMMA EmptyRecords == <<>> \in Seq(Records) /\ Len(<<>>) = 0
BY EmptySeq

LEMMA ConsumerTypeInit == Init => TypeOK
<1> SUFFICES ASSUME Init PROVE TypeOK
  OBVIOUS
<1>1. /\ runs \in 0 .. MaxRestarts /\ position \in 1 .. N + 1 /\ committed \in 0 .. N
  BY ConsumerAssumption, IngestAssumption DEF Init
<1>2. /\ commitCh \in Seq(Records) /\ Len(commitCh) <= CommitCap
      /\ dlqCh \in Seq(Records) /\ Len(dlqCh) <= DlqCap
      /\ batch \in Seq(Records)
  BY ConsumerAssumption, IngestAssumption, EmptyRecords DEF Init
<1>3. /\ up \in BOOLEAN /\ ctxDone \in BOOLEAN /\ readerOpen \in BOOLEAN
      /\ loop \in {"fetch", "route", "enqueue", "returned"}
      /\ worker \in {"select", "commit", "stopped"}
      /\ dlqWorker \in {"select", "stopped"}
      /\ dlq \in SUBSET Records /\ routed \in SUBSET Records
  BY DEF Init
<1> QED BY <1>1, <1>2, <1>3 DEF TypeOK

LEMMA ConsumerInit == Init => IInv
<1> SUFFICES ASSUME Init PROVE IInv
  OBVIOUS
<1>1. PendingContiguous /\ ReleasedRouted /\ CommitBehindPending
  BY EmptyRecords DEF Init, PendingContiguous, ReleasedRouted, CommitBehindPending, Released,
     Current
<1> QED BY <1>1, ConsumerTypeInit DEF IInv

(* Each step of the Consume loop keeps the invariant. *)
LEMMA ConsumeStep == ASSUME IInv, Consume PROVE IInv'
<1> USE ConsumerAssumption, IngestAssumption
<1> USE DEF IInv, procVars, loopVars, ackVars, dlqVars
<1>1. CASE Fetch
  <2>1. TypeOK'
    BY <1>1 DEF TypeOK, Fetch
  <2>2. Released' = Released
    BY <1>1 DEF TypeOK, Fetch, Released
  <2> QED
    BY <1>1, <2>1, <2>2 DEF Fetch, PendingContiguous, ReleasedRouted, CommitBehindPending, TypeOK
<1>2. CASE FetchStops
  <2>1. TypeOK' /\ Released' = Released
    BY <1>2 DEF TypeOK, FetchStops, Released
  <2> QED
    BY <1>2, <2>1 DEF FetchStops, PendingContiguous, ReleasedRouted, CommitBehindPending, TypeOK
<1>3. CASE Handle
  <2>1. Current \in Records
    BY <1>3 DEF TypeOK, Handle, ReleasedRouted, Current, Records
  <2>2. TypeOK' /\ Released' = Released /\ Current' = Current
    BY <1>3, <2>1 DEF TypeOK, Handle, Released, Current
  <2> QED
    BY <1>3, <2>2 DEF Handle, PendingContiguous, ReleasedRouted, CommitBehindPending, TypeOK
<1>4. CASE RouteInvalid
  <2>1. Current \in Records
    BY <1>4 DEF RouteInvalid, Records
  <2>2. dlqCh' \in Seq(Records) /\ Len(dlqCh') <= DlqCap
    BY <1>4, <2>1, AppendProperties, LenProperties DEF TypeOK, RouteInvalid
  <2>3. TypeOK' /\ Released' = Released /\ Current' = Current
    BY <1>4, <2>1, <2>2 DEF TypeOK, RouteInvalid, Released, Current
  <2> QED
    BY <1>4, <2>3 DEF RouteInvalid, PendingContiguous, ReleasedRouted, CommitBehindPending, TypeOK
<1>5. CASE Enqueue
  <2>1. Current \in Records /\ Current = Released + 1
    BY <1>5 DEF TypeOK, Enqueue, ReleasedRouted, Current, Released, Records
  <2>2. /\ commitCh' \in Seq(Records)
        /\ Len(commitCh') = Len(commitCh) + 1
        /\ \A i \in 1 .. Len(commitCh) : commitCh'[i] = commitCh[i]
        /\ commitCh'[Len(commitCh) + 1] = Current
    BY <1>5, <2>1, AppendProperties DEF TypeOK, Enqueue
  <2>3. Len(commitCh) \in Nat /\ Len(batch) \in Nat
    BY LenProperties DEF TypeOK
  <2>4. TypeOK'
    BY <1>5, <2>2, <2>3 DEF TypeOK, Enqueue
  <2>5. Released' = Released + 1 /\ Released \in Int
    BY <1>5 DEF TypeOK, Enqueue, Released
  <2>6. PendingContiguous'
    BY <1>5, <2>1, <2>2, <2>3, <2>5 DEF Enqueue, PendingContiguous
  <2>7. ReleasedRouted'
    BY <1>5, <2>1, <2>5 DEF Enqueue, ReleasedRouted, TypeOK
  <2>8. CommitBehindPending'
    BY <1>5, <2>2, <2>3, <2>5 DEF Enqueue, CommitBehindPending, TypeOK
  <2> QED BY <2>4, <2>6, <2>7, <2>8
<1> QED BY <1>1, <1>2, <1>3, <1>4, <1>5 DEF Consume

(* What commitWorker commits: the last record of its batch, which is as far *)
(* as the loop got before what still waits in commitCh.                     *)
LEMMA CommitToFact ==
    ASSUME IInv, batch # <<>>, worker # "stopped"
    PROVE  /\ CommitTo = Released - Len(commitCh)
           /\ CommitTo \in Records
           /\ CommitTo > committed
<1>1. Len(batch) \in Nat \ {0} /\ Len(commitCh) \in Nat /\ Released \in Int
  BY EmptySeq, LenProperties DEF IInv, TypeOK, Released
<1>2. CommitTo = Released - Len(commitCh)
  BY <1>1 DEF IInv, PendingContiguous, CommitTo
<1>3. CommitTo \in Records
  BY <1>1, ElementOfSeq DEF IInv, TypeOK, CommitTo
<1> QED BY <1>1, <1>2, <1>3 DEF IInv, CommitBehindPending, TypeOK

LEMMA WorkerStep == ASSUME IInv, CommitWorker PROVE IInv'
<1> USE ConsumerAssumption, IngestAssumption
<1> USE DEF IInv, procVars, loopVars, ackVars, dlqVars
<1>0. Len(batch) \in Nat /\ Len(commitCh) \in Nat /\ Released \in Int
  BY LenProperties DEF TypeOK, Released
<1>1. CASE Receive
  <2>1. /\ Head(commitCh) \in Records
        /\ Tail(commitCh) \in Seq(Records)
        /\ Len(Tail(commitCh)) = Len(commitCh) - 1
        /\ Head(commitCh) = commitCh[1]
        /\ \A i \in 1 .. Len(Tail(commitCh)) : Tail(commitCh)[i] = commitCh[i + 1]
        /\ Len(commitCh) > 0
    BY <1>0, <1>1, HeadTailProperties, EmptySeq DEF TypeOK, Receive
  <2>2. /\ batch' \in Seq(Records)
        /\ Len(batch') = Len(batch) + 1
        /\ \A i \in 1 .. Len(batch) : batch'[i] = batch[i]
        /\ batch'[Len(batch) + 1] = Head(commitCh)
        /\ batch' # <<>>
    BY <1>1, <2>1, AppendProperties DEF TypeOK, Receive
  <2>3. TypeOK'
    BY <1>0, <1>1, <2>1, <2>2 DEF TypeOK, Receive
  <2>4. Released' = Released /\ Current' = Current
    BY <1>1 DEF Receive, Released, Current
  <2>5. PendingContiguous'
    BY <1>0, <1>1, <2>1, <2>2, <2>4 DEF Receive, PendingContiguous
  <2>6. ReleasedRouted' /\ CommitBehindPending'
    BY <1>0, <1>1, <2>1, <2>2, <2>4 DEF Receive, ReleasedRouted, CommitBehindPending, TypeOK
  <2> QED BY <2>3, <2>5, <2>6
<1>2. CASE CommitTick
  BY <1>2 DEF CommitTick, TypeOK, PendingContiguous, ReleasedRouted, CommitBehindPending,
              Released, Current
<1>3. ASSUME NEW applied \in BOOLEAN, Commit(applied) PROVE IInv'
  <2>1. batch # <<>> /\ worker = "commit"
    BY <1>3 DEF Commit, CommitBehindPending
  <2>2. /\ CommitTo = Released - Len(commitCh)
        /\ CommitTo \in Records
        /\ CommitTo > committed
    BY <2>1, CommitToFact
  <2>3. TypeOK'
    BY <1>3, <2>2, EmptyRecords DEF Commit, TypeOK, Records
  <2>4. Released' = Released /\ Current' = Current /\ Len(batch') = 0
    BY <1>3, EmptyRecords DEF Commit, Released, Current
  <2>5. PendingContiguous' /\ ReleasedRouted'
    BY <1>0, <1>3, <2>1, <2>4 DEF Commit, PendingContiguous, ReleasedRouted
  <2>6. CommitBehindPending'
    BY <1>0, <1>3, <2>1, <2>2, <2>4 DEF Commit, CommitBehindPending, TypeOK
  <2> QED BY <2>3, <2>5, <2>6
<1>4. ASSUME NEW applied \in BOOLEAN, WorkerStops(applied) PROVE IInv'
  <2>1. applied => /\ CommitTo = Released - Len(commitCh)
                   /\ CommitTo \in Records
    BY <1>4, CommitToFact DEF WorkerStops
  <2>2. TypeOK'
    BY <1>4, <2>1 DEF WorkerStops, TypeOK, Records
  <2>3. Released' = Released /\ Current' = Current
    BY <1>4 DEF WorkerStops, Released, Current
  <2> QED
    BY <1>0, <1>4, <2>1, <2>2, <2>3
       DEF WorkerStops, PendingContiguous, ReleasedRouted, CommitBehindPending, TypeOK
<1> QED BY <1>1, <1>2, <1>3, <1>4 DEF CommitWorker

LEMMA DlqStep == ASSUME IInv, DlqWorker PROVE IInv'
<1> USE DEF IInv, procVars, loopVars, ackVars, dlqVars
<1>1. CASE DlqStops
  BY <1>1 DEF DlqStops, TypeOK, PendingContiguous, ReleasedRouted, CommitBehindPending,
              Released, Current
<1>2. ASSUME NEW written \in BOOLEAN, DlqWrite(written) PROVE IInv'
  <2>1. /\ Head(dlqCh) \in Records
        /\ Tail(dlqCh) \in Seq(Records)
        /\ Len(Tail(dlqCh)) = Len(dlqCh) - 1
        /\ Len(dlqCh) \in Nat
    BY <1>2, HeadTailProperties, LenProperties DEF TypeOK, DlqWrite
  <2>2. TypeOK'
    BY <1>2, <2>1, ConsumerAssumption, IngestAssumption DEF DlqWrite, TypeOK
  <2> QED
    BY <1>2, <2>2 DEF DlqWrite, PendingContiguous, ReleasedRouted, CommitBehindPending,
                      Released, Current
<1> QED BY <1>1, <1>2 DEF DlqWorker

LEMMA ProcessStep == ASSUME IInv, Process PROVE IInv'
<1> USE ConsumerAssumption, IngestAssumption
<1> USE DEF IInv, procVars, loopVars, ackVars, dlqVars
<1>1. CASE Cancel \/ Close \/ Down
  BY <1>1 DEF Cancel, Close, Down, TypeOK, PendingContiguous, ReleasedRouted,
              CommitBehindPending, Released, Current
<1>2. CASE Restart
  <2>1. TypeOK'
    <3>1. /\ position' \in 1 .. N + 1 /\ runs' \in 0 .. MaxRestarts /\ committed' \in 0 .. N
      BY <1>2 DEF Restart, TypeOK
    <3>2. /\ commitCh' \in Seq(Records) /\ Len(commitCh') <= CommitCap
          /\ dlqCh' \in Seq(Records) /\ Len(dlqCh') <= DlqCap
          /\ batch' \in Seq(Records)
      BY <1>2, EmptyRecords DEF Restart
    <3> QED BY <1>2, <3>1, <3>2 DEF Restart, TypeOK
  <2>2. Released' = committed
    BY <1>2 DEF Restart, Released, TypeOK
  <2>3. \A r \in 1 .. committed : r \in routed
    BY DEF ReleasedRouted, CommitBehindPending, Released, TypeOK
  <2>4. PendingContiguous'
    BY <1>2, EmptyRecords DEF Restart, PendingContiguous
  <2>5. ReleasedRouted'
    BY <1>2, <2>2, <2>3 DEF Restart, ReleasedRouted
  <2>6. CommitBehindPending'
    BY <1>2, <2>2, EmptyRecords DEF Restart, CommitBehindPending, TypeOK
  <2> QED BY <2>1, <2>4, <2>5, <2>6
<1> QED BY <1>1, <1>2 DEF Process

LEMMA ConsumerNext == IInv /\ [Next]_vars => IInv'
<1> SUFFICES ASSUME IInv, [Next]_vars PROVE IInv'
  OBVIOUS
<1>1. CASE UNCHANGED vars
  BY <1>1 DEF vars, procVars, loopVars, ackVars, dlqVars, IInv, TypeOK, PendingContiguous,
              ReleasedRouted, CommitBehindPending, Released, Current
<1> QED BY <1>1, ConsumeStep, WorkerStep, DlqStep, ProcessStep DEF Next

(* The invariant behind the consumer's guarantees, over any number of       *)
(* restarts and any outcome of commits.                                     *)
THEOREM ConsumerInvCorrect == Spec => []IInv
BY ConsumerInit, ConsumerNext, PTL DEF Spec

(* At-least-once: committed records have been handed to the handler or to   *)
(* the dead-letter path (Consume, commitWorker).                            *)
THEOREM CommitFollowsRoutingCorrect == Spec => []CommitFollowsRouting
<1>1. IInv => CommitFollowsRouting
  BY DEF IInv, TypeOK, ReleasedRouted, CommitBehindPending, CommitFollowsRouting, Released
<1> QED BY <1>1, ConsumerInvCorrect, PTL

LEMMA CommittedStep ==
    ASSUME IInv, [Next]_vars
    PROVE  /\ committed' >= committed
           /\ committed' # committed => up /\ readerOpen /\ CommitWorker
<1>0. committed \in Nat
  BY DEF IInv, TypeOK
<1>1. ASSUME NEW applied \in BOOLEAN, Commit(applied)
      PROVE  committed' >= committed /\ (committed' # committed => up /\ readerOpen)
  BY <1>0, <1>1, CommitToFact DEF Commit, IInv, CommitBehindPending, TypeOK, Records
<1>2. ASSUME NEW applied \in BOOLEAN, WorkerStops(applied)
      PROVE  committed' >= committed /\ (committed' # committed => up /\ readerOpen)
  BY <1>0, <1>2, CommitToFact DEF WorkerStops, Records
<1>3. CASE UNCHANGED committed
  BY <1>0, <1>3
<1>4. CASE Consume
  BY <1>3, <1>4 DEF Consume, Fetch, FetchStops, Handle, RouteInvalid, Enqueue
<1>5. CASE CommitWorker
  BY <1>1, <1>2, <1>3, <1>5, ConsumerAssumption, IngestAssumption DEF CommitWorker, Receive,
     CommitTick
<1>6. CASE DlqWorker \/ Process
  BY <1>3, <1>6 DEF DlqWorker, DlqStops, DlqWrite, Process, Cancel, Close, Down,
                    Restart
<1> QED BY <1>3, <1>4, <1>5, <1>6 DEF Next, vars

(* The committed offset never moves back (commitWorker, restart). *)
THEOREM CommittedMonotoneCorrect == Spec => CommittedMonotone
<1>1. IInv /\ [Next]_vars => [committed' >= committed]_vars
  BY CommittedStep
<1> QED BY <1>1, ConsumerInvCorrect, PTL DEF Spec, CommittedMonotone

-----------------------------------------------------------------------------
(* The store: what each of its steps does to the events it holds. *)

StoreSteps ==
    \/ \E e \in Events : S!InsertEvent("consumer", e)
    \/ S!Signal("consumer") \/ S!Flusher \/ S!Close
    \/ UNCHANGED storeVars

StoreInv == S!TypeOK /\ S!FlushShape /\ S!Conservation /\ S!FinalFlushTakesAll

LEMMA EmptyEvents == <<>> \in Seq(Events) /\ Len(<<>>) = 0 /\ Range(<<>>) = {}
BY EmptySeq DEF Range

LEMMA RangeAppend ==
    ASSUME NEW T, NEW q \in Seq(T), NEW x \in T
    PROVE  Range(Append(q, x)) = Range(q) \cup {x}
<1>1. Append(q, x) = q \o <<x>>
  BY AppendIsConcat
<1>2. <<x>> \in Seq(T) /\ Range(<<x>>) = {x}
  BY DEF Range
<1>3. Range(q \o <<x>>) = Range(q) \cup Range(<<x>>)
  BY <1>2, RangeConcatenation
<1> QED BY <1>1, <1>2, <1>3

LEMMA StoreStart == S!Init => StoreInv
<1> SUFFICES ASSUME S!Init
             PROVE  StoreInv
  OBVIOUS
<1>1. attempt \in 0 .. MaxRetries - 1 /\ rows \in [Events -> Nat] /\ atClose \in Nat
  BY ConsumerAssumption, IngestAssumption DEF S!Init
<1>2. /\ buf \in Seq(Events) /\ flushBatch \in Seq(Events)
      /\ inserted \in Seq(Events) /\ settled \in Seq(Events)
  BY EmptyEvents DEF S!Init
<1>3. /\ signalFlush \in BOOLEAN /\ final \in BOOLEAN /\ closing \in BOOLEAN
      /\ notify \in SUBSET {"consumer"} /\ dropped \in SUBSET Events
      /\ flusher \in S!FlusherStates
  BY DEF S!Init, S!FlusherStates
<1>4. S!Conservation
  BY EmptyEvents, ConcatEmptySeq DEF S!Init, S!Conservation
<1>5. S!FlushShape /\ S!FinalFlushTakesAll
  BY EmptyEvents DEF S!Init, S!FlushShape, S!FinalFlushTakesAll
<1> QED BY <1>1, <1>2, <1>3, <1>4, <1>5 DEF StoreInv, S!TypeOK

LEMMA ConservedLength ==
    ASSUME StoreInv
    PROVE  /\ Len(settled) \in Nat /\ Len(flushBatch) \in Nat /\ Len(buf) \in Nat
           /\ Len(inserted) = Len(settled) + Len(flushBatch) + Len(buf)
<1>1. settled \o flushBatch \in Seq(Events) /\ Len(settled \o flushBatch) = Len(settled) + Len(flushBatch)
  BY ConcatProperties DEF StoreInv, S!TypeOK
<1>2. Len((settled \o flushBatch) \o buf) = Len(settled \o flushBatch) + Len(buf)
  BY <1>1, ConcatProperties DEF StoreInv, S!TypeOK
<1> QED BY <1>1, <1>2, LenProperties DEF StoreInv, S!TypeOK, S!Conservation

LEMMA StoreInsert ==
    ASSUME StoreInv, NEW e \in Events, S!InsertEvent("consumer", e)
    PROVE  StoreInv'
<1>1. S!TypeOK'
  BY AppendProperties DEF StoreInv, S!TypeOK, S!InsertEvent
<1>2. Len(buf') = Len(buf) + 1 /\ Len(inserted') = Len(inserted) + 1
  BY AppendProperties DEF StoreInv, S!TypeOK, S!InsertEvent
<1>3. S!Conservation'
  <2>1. settled \o flushBatch \in Seq(Events)
    BY ConcatProperties DEF StoreInv, S!TypeOK
  <2>2. buf \in Seq(Events) /\ <<e>> \in Seq(Events) /\ (settled \o flushBatch) \o buf \in Seq(Events)
    BY <2>1, ConcatProperties DEF StoreInv, S!TypeOK
  <2>3. /\ Append(buf, e) = buf \o <<e>>
        /\ Append((settled \o flushBatch) \o buf, e) = ((settled \o flushBatch) \o buf) \o <<e>>
    BY <2>2, AppendIsConcat
  <2>4. Append((settled \o flushBatch) \o buf, e) = (settled \o flushBatch) \o Append(buf, e)
    BY <2>1, <2>2, <2>3, ConcatAssociative
  <2> QED BY <2>4 DEF StoreInv, S!Conservation, S!InsertEvent
<1>4. S!FlushShape' /\ S!FinalFlushTakesAll'
  BY <1>2, ConservedLength
     DEF StoreInv, S!TypeOK, S!FlushShape, S!FinalFlushTakesAll, S!InsertEvent
<1> QED BY <1>1, <1>3, <1>4 DEF StoreInv

LEMMA StoreSwap ==
    ASSUME StoreInv, S!SwapBuffer
    PROVE  StoreInv'
<1>0. /\ flushBatch = <<>> /\ flusher = "swap"
      /\ UNCHANGED <<signalFlush, notify, final, closing, rows, dropped, inserted, settled, atClose>>
  BY DEF StoreInv, S!SwapBuffer, S!FlushShape, S!histVars
<1>1. CASE buf = <<>>
  <2>1. flusher' = S!AfterFlush /\ UNCHANGED <<buf, flushBatch, attempt>>
    BY <1>1 DEF S!SwapBuffer
  <2>2. S!TypeOK' /\ S!Conservation' /\ S!FlushShape'
    BY <1>0, <2>1 DEF StoreInv, S!TypeOK, S!Conservation, S!FlushShape, S!AfterFlush,
       S!FlusherStates
  <2>3. S!FinalFlushTakesAll'
    BY <1>0, <1>1, <2>1, ConservedLength, EmptyEvents
       DEF StoreInv, S!TypeOK, S!FlushShape, S!FinalFlushTakesAll, S!AfterFlush
  <2> QED BY <2>2, <2>3 DEF StoreInv
<1>2. CASE buf # <<>>
  <2>1. flushBatch' = buf /\ buf' = <<>> /\ attempt' = 0 /\ flusher' = "write"
    BY <1>2 DEF S!SwapBuffer
  <2>2. S!TypeOK'
    BY <1>0, <2>1, EmptyEvents, ConsumerAssumption, IngestAssumption DEF StoreInv, S!TypeOK,
       S!FlusherStates
  <2>3. S!Conservation'
    <3>1. settled \o flushBatch = settled /\ settled \o buf \in Seq(Events)
      BY <1>0, ConcatEmptySeq, ConcatProperties DEF StoreInv, S!TypeOK
    <3>2. (settled \o buf) \o <<>> = settled \o buf
      BY <3>1, ConcatEmptySeq
    <3> QED BY <1>0, <2>1, <3>1, <3>2 DEF StoreInv, S!Conservation
  <2>4. S!FlushShape' /\ S!FinalFlushTakesAll'
    BY <1>0, <2>1, ConservedLength, EmptyEvents
       DEF StoreInv, S!TypeOK, S!FlushShape, S!FinalFlushTakesAll
  <2> QED BY <2>2, <2>3, <2>4 DEF StoreInv
<1> QED BY <1>1, <1>2

LEMMA StoreFinish ==
    ASSUME StoreInv, S!FinishBatch, flusher = "write",
           UNCHANGED <<buf, signalFlush, notify, final, closing, inserted, atClose>>,
           rows' \in [Events -> Nat], dropped' \in SUBSET Events
    PROVE  StoreInv'
<1>1. flusher' = S!AfterFlush /\ settled' = settled \o flushBatch /\ flushBatch' = <<>> /\ attempt' = 0
  BY DEF S!FinishBatch
<1>2. settled' \in Seq(Events) /\ Len(settled') = Len(settled) + Len(flushBatch)
  BY <1>1, ConcatProperties DEF StoreInv, S!TypeOK
<1>3. S!TypeOK'
  BY <1>1, <1>2, EmptyEvents, ConsumerAssumption, IngestAssumption
     DEF StoreInv, S!TypeOK, S!AfterFlush, S!FlusherStates
<1>4. S!Conservation'
  <2>1. (settled \o flushBatch) \o <<>> = settled \o flushBatch
    BY <1>1, <1>2, ConcatEmptySeq
  <2> QED BY <1>1, <2>1 DEF StoreInv, S!Conservation
<1>5. S!FlushShape' /\ S!FinalFlushTakesAll'
  BY <1>1, <1>2, ConservedLength
     DEF StoreInv, S!TypeOK, S!FlushShape, S!FinalFlushTakesAll, S!AfterFlush
<1> QED BY <1>3, <1>4, <1>5 DEF StoreInv

(* One attempt: what it stores, and what it may give up. *)
LEMMA StoredFacts ==
    ASSUME StoreInv
    PROVE  /\ S!Stored \in [Events -> Nat]
           /\ \A e \in Events : S!Stored[e] >= rows[e]
           /\ \A e \in Range(flushBatch) : e \in Events /\ S!Stored[e] > 0
           /\ Range(flushBatch) \subseteq Events
<1>1. Range(flushBatch) \subseteq Events
  BY RangeOfSeq DEF StoreInv, S!TypeOK
<1>2. rows \in [Events -> Nat]
  BY DEF StoreInv, S!TypeOK
<1>3. S!Stored = [e \in Events |-> IF e \in Range(flushBatch) THEN rows[e] + 1 ELSE rows[e]]
  BY DEF S!Stored, S!Range, Range
<1> QED BY <1>1, <1>2, <1>3

LEMMA StoreStepInv ==
    ASSUME StoreInv, StoreSteps
    PROVE  StoreInv'
<1>1. ASSUME NEW e \in Events, S!InsertEvent("consumer", e)
      PROVE  StoreInv'
  BY <1>1, StoreInsert
<1>2. CASE S!Signal("consumer")
  BY <1>2 DEF S!Signal, S!histVars, StoreInv, S!TypeOK, S!FlushShape, S!Conservation,
              S!FinalFlushTakesAll
<1>3. CASE S!Tick \/ S!TakeSignal \/ S!TakeClose
  <2>1. CASE S!Tick
    BY <2>1 DEF S!Tick, S!histVars, StoreInv, S!TypeOK, S!FlushShape, S!Conservation,
                S!FinalFlushTakesAll, S!FlusherStates
  <2>2. CASE S!TakeSignal
    BY <2>2 DEF S!TakeSignal, S!histVars, StoreInv, S!TypeOK, S!FlushShape, S!Conservation,
                S!FinalFlushTakesAll, S!FlusherStates
  <2>3. CASE S!TakeClose
    BY <2>3 DEF S!TakeClose, S!histVars, StoreInv, S!TypeOK, S!FlushShape, S!Conservation,
                S!FinalFlushTakesAll, S!FlusherStates
  <2> QED BY <1>3, <2>1, <2>2, <2>3
<1>4. CASE S!SwapBuffer
  BY <1>4, StoreSwap
<1>5. CASE S!WriteOk
  <2>1. dropped' \in SUBSET Events /\ rows' \in [Events -> Nat]
    BY <1>5, StoredFacts DEF S!WriteOk, StoreInv, S!TypeOK
  <2> QED BY <1>5, <2>1, StoreFinish DEF S!WriteOk
<1>6. ASSUME NEW kept \in BOOLEAN, S!WriteFail(kept)
      PROVE  StoreInv'
  <2>1. rows' \in [Events -> Nat]
    BY <1>6, StoredFacts DEF S!WriteFail, StoreInv, S!TypeOK
  <2>2. CASE attempt = MaxRetries - 1
    <3>1. dropped' = dropped \cup Range(flushBatch) /\ dropped \in SUBSET Events
      BY <1>6, <2>2 DEF S!WriteFail, StoreInv, S!TypeOK, S!Range, Range
    <3>2. dropped' \in SUBSET Events
      BY <3>1, StoredFacts
    <3> QED BY <1>6, <2>1, <2>2, <3>2, StoreFinish DEF S!WriteFail
  <2>3. CASE attempt # MaxRetries - 1
    <3>1. /\ attempt' = attempt + 1
          /\ UNCHANGED <<flusher, flushBatch, settled, dropped, buf, signalFlush, notify, final,
                         closing, inserted, atClose>>
      BY <1>6, <2>3 DEF S!WriteFail
    <3> QED BY <2>1, <2>3, <3>1, ConsumerAssumption, IngestAssumption
               DEF StoreInv, S!TypeOK, S!FlushShape, S!Conservation, S!FinalFlushTakesAll
  <2> QED BY <2>2, <2>3
<1>7. CASE S!Close
  BY <1>7, ConservedLength DEF S!Close, StoreInv, S!TypeOK, S!FlushShape, S!Conservation,
                               S!FinalFlushTakesAll
<1>8. CASE UNCHANGED storeVars
  BY <1>8 DEF storeVars, StoreInv, S!TypeOK, S!FlushShape, S!Conservation, S!FinalFlushTakesAll
<1> QED BY <1>1, <1>2, <1>3, <1>4, <1>5, <1>6, <1>7, <1>8 DEF StoreSteps, S!Flusher, S!Write

(* No event disappears from the store while it runs: what it holds stays     *)
(* held, is stored or is given up.                                           *)
Grows ==
    /\ \A e \in Events : rows[e] > 0 => rows'[e] > 0
    /\ dropped \subseteq dropped'
    /\ \A e \in Range(buf) \cup Range(flushBatch) :
           e \in Range(buf') \cup Range(flushBatch') \/ rows'[e] > 0 \/ e \in dropped'

LEMMA StoreGrows ==
    ASSUME StoreInv, StoreSteps
    PROVE  Grows
<1>0. rows \in [Events -> Nat]
  BY DEF StoreInv, S!TypeOK
<1>1. ASSUME NEW e \in Events, S!InsertEvent("consumer", e)
      PROVE  Grows
  <2>1. Range(buf') = Range(buf) \cup {e} /\ UNCHANGED <<flushBatch, rows, dropped>>
    BY <1>1, RangeAppend DEF StoreInv, S!TypeOK, S!InsertEvent
  <2> QED BY <2>1 DEF Grows
<1>2. CASE UNCHANGED <<buf, flushBatch, rows, dropped>>
  BY <1>2 DEF Grows
<1>3. CASE S!SwapBuffer
  <2>1. /\ UNCHANGED <<rows, dropped>>
        /\ \/ UNCHANGED <<buf, flushBatch>>
           \/ flushBatch' = buf /\ flushBatch = <<>>
    BY <1>3 DEF S!SwapBuffer, StoreInv, S!FlushShape
  <2> QED BY <2>1, EmptyEvents DEF Grows
<1>4. CASE S!WriteOk
  <2>1. rows' = S!Stored /\ UNCHANGED <<buf, dropped>>
    BY <1>4 DEF S!WriteOk
  <2> QED BY <1>0, <2>1, StoredFacts DEF Grows
<1>5. ASSUME NEW kept \in BOOLEAN, S!WriteFail(kept)
      PROVE  Grows
  <2>1. rows' = S!Stored \/ rows' = rows
    BY <1>5 DEF S!WriteFail
  <2>2. \/ UNCHANGED <<buf, flushBatch, dropped>>
        \/ UNCHANGED buf /\ dropped' = dropped \cup Range(flushBatch)
    BY <1>5 DEF S!WriteFail, S!Range, Range
  <2>3. \A e \in Events : rows[e] > 0 => rows'[e] > 0
    BY <1>0, <2>1, StoredFacts
  <2> QED BY <2>2, <2>3 DEF Grows
<1>6. \/ \E e \in Events : S!InsertEvent("consumer", e)
      \/ UNCHANGED <<buf, flushBatch, rows, dropped>>
      \/ S!SwapBuffer \/ S!WriteOk \/ \E kept \in BOOLEAN : S!WriteFail(kept)
  BY DEF StoreSteps, S!Signal, S!Flusher, S!Tick, S!TakeSignal, S!TakeClose, S!Close, S!Write,
     storeVars
<1> QED BY <1>1, <1>2, <1>3, <1>4, <1>5, <1>6

-----------------------------------------------------------------------------
(* The composition.  A step of a process that goes on: the store's events    *)
(* and the enricher's half are kept.                                         *)
LiveStep ==
    /\ up /\ up' /\ UNCHANGED <<runs, resumed, crashes>>
    /\ [Next]_vars /\ StoreSteps
    /\ evicted \subseteq evicted'
    /\ \/ held = 0 \/ held' = held \/ held \in evicted'
       \/ \E e \in Range(buf') \cap Events : held \in e.src

LEMMA KeptStays ==
    ASSUME StoreInv, LiveStep, NEW r \in 1 .. N, Kept(r)
    PROVE  Kept(r)'
<1>0. Grows /\ up' /\ r # 0
  BY StoreGrows DEF LiveStep
<1>1. CASE Durable(r)
  BY <1>0, <1>1 DEF Grows, Durable, EventsOf, Kept
<1>2. CASE Abandoned(r)
  BY <1>0, <1>2 DEF Grows, LiveStep, Abandoned, EventsOf, Kept
<1>3. CASE r = held
  BY <1>0, <1>3 DEF LiveStep, Abandoned, InMemory, EventsOf, Kept
<1>4. ASSUME NEW e \in EventsOf(r), e \in Range(buf) \cup Range(flushBatch)
      PROVE  Kept(r)'
  BY <1>0, <1>4 DEF Grows, Durable, Abandoned, InMemory, EventsOf, Kept
<1> QED BY <1>1, <1>2, <1>3, <1>4 DEF Kept, InMemory

(* What the handler emits is an event. *)
LEMMA EmitFacts ==
    ASSUME NEW a \in 1 .. N, NEW b \in 1 .. N, runs \in 0 .. MaxRestarts
    PROVE  [src |-> {a, b}, run |-> runs] \in Events
<1>1. Cardinality({a, b}) \in 1 .. 2
  <2>1. CASE a = b
    BY <2>1, FS_Singleton
  <2>2. CASE a # b
    <3>1. IsFiniteSet({a}) /\ Cardinality({a}) = 1
      BY FS_Singleton
    <3>2. {a, b} = {a} \cup {b}
      OBVIOUS
    <3>3. Cardinality({a} \cup {b}) = Cardinality({a}) + 1
      BY <2>2, <3>1, FS_AddElement
    <3> QED BY <3>1, <3>2, <3>3
  <2> QED BY <2>1, <2>2
<1>2. {a, b} \in Sources
  BY <1>1 DEF Sources
<1> QED BY <1>2 DEF Events

LEMMA HandledFacts ==
    ASSUME IngestInv
    PROVE  /\ Handled \in Int /\ committed \in Nat /\ committed <= Released
           /\ Released <= Handled
           /\ loop \in {"route", "enqueue"} =>
                /\ Current \in 1 .. N /\ Current = Released + 1 /\ Current > committed
<1>1. IInv
  BY DEF IngestInv
<1> QED BY <1>1, ConsumerAssumption, IngestAssumption
           DEF IInv, TypeOK, ReleasedRouted, CommitBehindPending, Released, Current, Handled

(* The handler keeps the record it is given, and inserts nothing that is     *)
(* acknowledged already except as the other half of a pair.                  *)
HandlesOne ==
    /\ Handle /\ LiveStep /\ Kept(Current)'
    /\ held' \in {0} \cup Halves
    /\ UNCHANGED <<evicted, closing, atClose, settled, rows, dropped>>
    /\ \/ UNCHANGED <<inserted, emitted>>
       \/ \E e \in Events : /\ inserted' = Append(inserted, e)
                            /\ emitted' = IF closing THEN emitted ELSE emitted \cup e.src
                            /\ \A r \in e.src \cap Whole : r > committed

LEMMA EmitOne ==
    ASSUME IngestInv, Handle, NEW a \in 1 .. N, Emit({a, Current}), a \notin Whole \/ a = Current,
           UNCHANGED <<evicted, resumed, crashes>>,
           held' \in {0} \cup Halves, held = 0 \/ held' = held \/ held = a
    PROVE  HandlesOne
<1> DEFINE e == [src |-> {a, Current}, run |-> runs]
<1>0. /\ up /\ loop = "route" /\ UNCHANGED <<up, runs>> /\ [Next]_vars
  BY DEF Handle, Next, Consume, procVars
<1>1. Current \in 1 .. N /\ Current > committed
  BY <1>0, HandledFacts
<1>2. runs \in 0 .. MaxRestarts
  BY DEF IngestInv, IngestTypeOK, TypeOK
<1>3. e \in Events /\ e.src = {a, Current}
  BY <1>1, <1>2, EmitFacts
<1>4. /\ S!InsertEvent("consumer", e)
      /\ emitted' = IF closing THEN emitted ELSE emitted \cup e.src
  BY DEF Emit
<1> HIDE DEF e
<1>5. /\ Range(buf') = Range(buf) \cup {e} /\ inserted' = Append(inserted, e)
      /\ UNCHANGED <<closing, atClose, settled, rows, dropped>>
  BY <1>3, <1>4, RangeAppend DEF IngestInv, IngestTypeOK, S!TypeOK, S!InsertEvent
<1>6. Kept(Current)'
  <2>1. Current' = Current
    BY DEF Handle, Current
  <2>2. e \in EventsOf(Current) /\ e \in Range(buf')
    BY <1>3, <1>5 DEF EventsOf
  <2> QED BY <1>0, <2>1, <2>2 DEF Kept, InMemory, EventsOf
<1>7. LiveStep
  BY <1>0, <1>3, <1>4, <1>5 DEF LiveStep, StoreSteps
<1>8. \A r \in e.src \cap Whole : r > committed
  BY <1>1, <1>3
<1> QED BY <1>3, <1>4, <1>5, <1>6, <1>7, <1>8 DEF HandlesOne

LEMMA HandleStep ==
    ASSUME IngestInv, HandleWhole \/ HandleFirstHalf \/ HandleSecondHalf
    PROVE  HandlesOne
<1>0. Handle /\ loop = "route" /\ up /\ held \in {0} \cup Halves
  BY DEF HandleWhole, HandleFirstHalf, HandleSecondHalf, Handle, IngestInv, IngestTypeOK
<1>1. Current \in 1 .. N
  BY <1>0, HandledFacts
<1>2. CASE HandleWhole
  <2>1. Emit({Current, Current}) /\ UNCHANGED <<held, evicted, resumed, crashes>>
    <3>1. {Current, Current} = {Current}
      OBVIOUS
    <3> QED BY <1>2, <3>1 DEF HandleWhole
  <2> QED BY <1>0, <1>1, <2>1, EmitOne
<1>3. CASE HandleSecondHalf
  <2>1. held \in Halves /\ held \in 1 .. N /\ held \notin Whole
    BY <1>0, <1>3, ConsumerAssumption, IngestAssumption DEF HandleSecondHalf, Whole
  <2>2. Emit({held, Current}) /\ held' = 0 /\ UNCHANGED <<evicted, resumed, crashes>>
    BY <1>3 DEF HandleSecondHalf
  <2> QED BY <1>0, <1>1, <2>1, <2>2, EmitOne
<1>4. CASE HandleFirstHalf
  <2>1. /\ Current \in Halves /\ held = 0 /\ held' = Current
        /\ UNCHANGED <<storeVars, evicted, emitted, resumed, crashes>>
    BY <1>4 DEF HandleFirstHalf
  <2>2. UNCHANGED <<up, runs>> /\ [Next]_vars /\ Current' = Current
    BY <1>0 DEF Handle, Next, Consume, procVars, Current
  <2>3. LiveStep
    BY <1>0, <2>1, <2>2 DEF LiveStep, StoreSteps
  <2>4. Kept(Current)'
    BY <1>0, <2>1, <2>2 DEF Kept, InMemory
  <2>5. UNCHANGED <<closing, atClose, inserted, settled, rows, dropped>>
    BY <2>1 DEF storeVars
  <2> QED BY <1>0, <2>1, <2>3, <2>4, <2>5 DEF HandlesOne
<1> QED BY <1>2, <1>3, <1>4

(* Every other step of a process that goes on. *)
OtherSteps ==
    \/ EvictHeld \/ Acknowledge \/ ConsumerStep \/ StoreStep
    \/ CancelEngine \/ CloseConsumer \/ CloseStore

LEMMA OtherIsLive ==
    ASSUME IngestInv, OtherSteps
    PROVE  /\ LiveStep /\ UNCHANGED <<inserted, emitted>>
           /\ held' \in {0} \cup Halves /\ evicted' \in SUBSET Halves
           /\ ~closing' => ~closing
           /\ closing' /\ ~closing => ~readerOpen' /\ atClose' = Len(inserted)
           /\ closing => UNCHANGED atClose
           /\ readerOpen' => readerOpen
<1>0. held \in {0} \cup Halves /\ evicted \in SUBSET Halves
  BY DEF IngestInv, IngestTypeOK
<1>1. CASE EvictHeld
  <2>1. /\ up /\ held # 0 /\ held' = 0 /\ evicted' = evicted \cup {held}
        /\ UNCHANGED <<vars, storeVars, emitted, resumed, crashes>>
    BY <1>1 DEF EvictHeld
  <2>2. LiveStep
    BY <2>1 DEF LiveStep, StoreSteps, vars, procVars, loopVars, ackVars, dlqVars
  <2> QED BY <1>0, <2>1, <2>2 DEF vars, procVars, loopVars, ackVars, dlqVars, storeVars
<1>2. CASE Acknowledge \/ ConsumerStep \/ CancelEngine \/ CloseConsumer
  <2>1. /\ Enqueue \/ Fetch \/ FetchStops \/ RouteInvalid \/ CommitWorker
           \/ DlqWorker \/ Cancel \/ Close
        /\ UNCHANGED <<storeVars, held, evicted, emitted, resumed, crashes>>
    BY <1>2 DEF Acknowledge, ConsumerStep, CancelEngine, CloseConsumer, enricherVars
  <2>2. Next
    BY <2>1 DEF Next, Consume, Process
  <2>3. up /\ UNCHANGED <<up, runs>> /\ (readerOpen' => readerOpen)
    BY <2>1, ConsumerAssumption, IngestAssumption
       DEF Enqueue, Fetch, FetchStops, RouteInvalid, CommitWorker, Receive, CommitTick,
           Commit, WorkerStops, DlqWorker, DlqStops, DlqWrite, Cancel, Close, procVars
  <2>4. LiveStep
    BY <2>1, <2>2, <2>3 DEF LiveStep, StoreSteps
  <2> QED BY <1>0, <2>1, <2>3, <2>4 DEF storeVars
<1>3. CASE StoreStep
  <2>1. /\ up /\ (S!Signal("consumer") \/ S!Flusher)
        /\ UNCHANGED <<vars, held, evicted, emitted, resumed, crashes>>
    BY <1>3 DEF StoreStep, enricherVars
  <2>2. LiveStep
    BY <1>3, <2>1 DEF StoreStep, LiveStep, StoreSteps, vars, procVars, loopVars, ackVars, dlqVars
  <2>3. UNCHANGED <<closing, inserted, atClose>>
    BY <2>1 DEF S!Signal, S!Flusher, S!Tick, S!TakeSignal, S!TakeClose, S!SwapBuffer, S!Write,
                S!WriteOk, S!WriteFail, S!histVars
  <2> QED BY <1>0, <2>1, <2>2, <2>3 DEF vars, procVars, loopVars, ackVars, dlqVars
<1>4. CASE CloseStore
  <2>1. /\ up /\ ~readerOpen /\ S!Close
        /\ UNCHANGED <<vars, held, evicted, emitted, resumed, crashes>>
    BY <1>4 DEF CloseStore, enricherVars
  <2>2. LiveStep
    BY <2>1 DEF LiveStep, StoreSteps, vars, procVars, loopVars, ackVars, dlqVars
  <2>3. ~closing /\ closing' /\ atClose' = Len(inserted) /\ UNCHANGED inserted
    BY <2>1 DEF S!Close
  <2> QED BY <1>0, <2>1, <2>2, <2>3 DEF vars, procVars, loopVars, ackVars, dlqVars
<1> QED BY <1>1, <1>2, <1>3, <1>4 DEF OtherSteps

(* The steps, by what becomes of the process. *)
LEMMA StepKinds ==
    ASSUME IngestInv, [IngestNext]_ingestVars
    PROVE  HandlesOne \/ OtherSteps \/ Exit \/ Crash \/ RestartEngine \/ UNCHANGED ingestVars
BY HandleStep DEF IngestNext, OtherSteps

LEMMA DownFacts ==
    ASSUME Exit \/ Crash
    PROVE  /\ [Next]_vars /\ up /\ ~up' /\ UNCHANGED <<runs, readerOpen, committed>>
           /\ UNCHANGED <<storeVars, held, evicted, emitted, resumed>>
           /\ Exit => flusher = "done" /\ UNCHANGED crashes
           /\ Crash => crashes' = crashes + 1
BY DEF Exit, Crash, Down, Next, Process, enricherVars

LEMMA RestartFacts ==
    ASSUME RestartEngine
    PROVE  /\ [Next]_vars /\ ~up /\ up' /\ runs' = runs + 1 /\ UNCHANGED committed
           /\ Released' = position' - 1 /\ position' = committed + 1 /\ Handled' = Released'
           /\ buf' = <<>> /\ flushBatch' = <<>> /\ ~closing' /\ held' = 0 /\ resumed' = committed
           /\ UNCHANGED <<rows, dropped, evicted, emitted, crashes>>
<1>1. Restart /\ Next
  BY DEF RestartEngine, Next, Process
<1>2. /\ ~up /\ up' /\ runs' = runs + 1 /\ UNCHANGED committed
      /\ position' = committed + 1 /\ loop' = "fetch"
  BY <1>1 DEF Restart
<1>3. Released' = position' - 1 /\ Handled' = Released'
  <2>1. loop' \notin {"route", "enqueue"} /\ loop' # "enqueue"
    BY <1>2
  <2> QED BY <2>1, Zenon DEF Released, Handled
<1>4. /\ buf' = <<>> /\ flushBatch' = <<>> /\ ~closing' /\ held' = 0 /\ resumed' = committed
      /\ UNCHANGED <<rows, dropped, evicted, emitted, crashes>>
  BY DEF RestartEngine
<1> QED BY <1>1, <1>2, <1>3, <1>4

LEMMA CrashBound ==
    ASSUME NEW c \in Nat, NEW m \in Nat, NEW n \in 0 .. m, NEW b, c <= IF b THEN n ELSE n + 1
    PROVE  c \in 0 .. m + 1
<1>1. CASE b
  BY <1>1
<1>2. CASE ~b
  BY <1>2
<1> QED BY <1>1, <1>2

LEMMA PartsNext ==
    ASSUME IngestInv, [IngestNext]_ingestVars
    PROVE  IngestTypeOK' /\ IInv' /\ StoreInv' /\ CrashesCounted'
<1>0. /\ IInv /\ StoreInv /\ CrashesCounted /\ held \in {0} \cup Halves /\ evicted \in SUBSET Halves
      /\ emitted \in SUBSET (1 .. N) /\ resumed \in 0 .. N
      /\ crashes \in Nat /\ runs \in 0 .. MaxRestarts /\ MaxRestarts \in Nat
  BY ConsumerAssumption, IngestAssumption DEF IngestInv, IngestTypeOK, StoreInv, TypeOK
<1>1. ASSUME IInv', StoreInv', held' \in {0} \cup Halves, evicted' \in SUBSET Halves,
             emitted' \in SUBSET (1 .. N), resumed' \in 0 .. N, crashes' \in Nat, CrashesCounted'
      PROVE  IngestTypeOK' /\ IInv' /\ StoreInv' /\ CrashesCounted'
  <2>1. runs' \in 0 .. MaxRestarts
    BY <1>1 DEF IInv, TypeOK
  <2>2. crashes' \in 0 .. MaxRestarts + 1
    BY <1>0, <1>1, <2>1, CrashBound DEF CrashesCounted
  <2> QED BY <1>1, <2>2 DEF IngestTypeOK, StoreInv, IInv
<1>2. ASSUME LiveStep, held' \in {0} \cup Halves, evicted' \in SUBSET Halves,
             emitted' \in SUBSET (1 .. N)
      PROVE  IngestTypeOK' /\ IInv' /\ StoreInv' /\ CrashesCounted'
  <2>1. IInv' /\ StoreInv'
    BY <1>0, <1>2, ConsumerNext, StoreStepInv DEF LiveStep
  <2>2. CrashesCounted' /\ crashes' \in Nat
    BY <1>0, <1>2 DEF LiveStep, CrashesCounted
  <2>3. resumed' \in 0 .. N
    BY <1>0, <1>2 DEF LiveStep
  <2> QED BY <1>1, <1>2, <2>1, <2>2, <2>3
<1>3. CASE HandlesOne
  <2>1. emitted' \in SUBSET (1 .. N)
    BY <1>0, <1>3 DEF HandlesOne, Events, Sources
  <2> QED BY <1>0, <1>2, <1>3, <2>1 DEF HandlesOne
<1>4. CASE OtherSteps
  BY <1>0, <1>2, <1>4, OtherIsLive
<1>5. CASE Exit \/ Crash
  <2>1. IInv' /\ StoreInv'
    BY <1>0, <1>5, DownFacts, ConsumerNext, StoreStepInv DEF StoreSteps
  <2>2. CrashesCounted' /\ crashes' \in Nat
    BY <1>0, <1>5, DownFacts DEF CrashesCounted
  <2>3. /\ held' \in {0} \cup Halves /\ evicted' \in SUBSET Halves
        /\ emitted' \in SUBSET (1 .. N) /\ resumed' \in 0 .. N
    BY <1>0, <1>5, DownFacts
  <2> QED BY <1>1, <2>1, <2>2, <2>3
<1>6. CASE RestartEngine
  <2>1. IInv'
    BY <1>0, <1>6, RestartFacts, ConsumerNext
  <2>2. StoreInv'
    <3>1. /\ buf' = <<>> /\ signalFlush' = FALSE /\ notify' = {}
          /\ flusher' = "select" /\ final' = FALSE /\ flushBatch' = <<>> /\ attempt' = 0
          /\ closing' = FALSE /\ inserted' = <<>> /\ settled' = <<>> /\ atClose' = 0
          /\ UNCHANGED <<rows, dropped>>
      BY <1>6 DEF RestartEngine
    <3>2. S!TypeOK'
      <4>1. rows' \in [Events -> Nat] /\ dropped' \in SUBSET Events
        BY <1>0, <3>1 DEF StoreInv, S!TypeOK
      <4>2. attempt' \in 0 .. MaxRetries - 1 /\ atClose' \in Nat
        BY <3>1, ConsumerAssumption, IngestAssumption
      <4>3. /\ buf' \in Seq(Events) /\ flushBatch' \in Seq(Events)
            /\ inserted' \in Seq(Events) /\ settled' \in Seq(Events)
        BY <3>1, EmptyEvents
      <4>4. flusher' \in S!FlusherStates /\ notify' \in SUBSET {"consumer"}
        BY <3>1 DEF S!FlusherStates
      <4> QED BY <3>1, <4>1, <4>2, <4>3, <4>4 DEF S!TypeOK
    <3>3. S!Conservation'
      BY <3>1, EmptyEvents, ConcatEmptySeq DEF S!Conservation
    <3>4. S!FlushShape' /\ S!FinalFlushTakesAll'
      BY <3>1 DEF S!FlushShape, S!FinalFlushTakesAll
    <3> QED BY <3>2, <3>3, <3>4 DEF StoreInv
  <2>3. CrashesCounted' /\ crashes' \in Nat
    BY <1>0, <1>6, RestartFacts DEF CrashesCounted
  <2>4. /\ held' \in {0} \cup Halves /\ evicted' \in SUBSET Halves
        /\ emitted' \in SUBSET (1 .. N)
    BY <1>0, <1>6, RestartFacts
  <2>5. resumed' \in 0 .. N
    BY <1>0, <1>6, RestartFacts DEF IInv, TypeOK
  <2> QED BY <1>1, <2>1, <2>2, <2>3, <2>4, <2>5
<1>7. CASE UNCHANGED ingestVars
  <2>1. UNCHANGED <<vars, storeVars, held, evicted, emitted, resumed, crashes, up, runs>>
    BY <1>7 DEF ingestVars, enricherVars, vars, procVars, loopVars, ackVars, dlqVars
  <2>2. IInv' /\ StoreInv'
    BY <1>0, <2>1, ConsumerNext, StoreStepInv DEF StoreSteps
  <2> QED BY <1>0, <1>1, <2>1, <2>2 DEF CrashesCounted
<1> QED BY <1>3, <1>4, <1>5, <1>6, <1>7, StepKinds

(* What a step adds to the records handled: none, the one the handler kept,  *)
(* or an invalid one.                                                        *)
LEMMA HandledStep ==
    ASSUME IngestInv, [Next]_vars, up'
    PROVE  \/ Handled' = Handled
           \/ Handled' = Handled + 1 /\ Handle /\ Handled' = Current'
           \/ Handled' = Handled + 1 /\ Handled' \in Invalid
           \/ ~up
<1> SUFFICES ASSUME up
             PROVE  \/ Handled' = Handled
                    \/ Handled' = Handled + 1 /\ Handle /\ Handled' = Current'
                    \/ Handled' = Handled + 1 /\ Handled' \in Invalid
  OBVIOUS
<1>0. position \in Int
  BY DEF IngestInv, IngestTypeOK, TypeOK
<1>1. CASE Handle
  BY <1>0, <1>1 DEF Handle, Handled, Released, Current
<1>2. CASE RouteInvalid
  BY <1>0, <1>2 DEF RouteInvalid, Handled, Released, Current
<1>3. CASE Fetch \/ FetchStops \/ Enqueue
  BY <1>0, <1>3 DEF Fetch, FetchStops, Enqueue, Handled, Released, Current
<1>4. CASE UNCHANGED <<position, loop>>
  BY <1>4 DEF Handled, Released, Current
<1>5. CASE CommitWorker
  BY <1>4, <1>5 DEF CommitWorker, Receive, CommitTick, Commit, WorkerStops, loopVars
<1>6. CASE DlqWorker
  BY <1>4, <1>6 DEF DlqWorker, DlqStops, DlqWrite, loopVars
<1>7. CASE Process
  BY <1>4, <1>7 DEF Process, Cancel, Close, Down, Restart, loopVars
<1>8. CASE UNCHANGED vars
  BY <1>4, <1>8 DEF vars, loopVars
<1> QED BY <1>1, <1>2, <1>3, <1>5, <1>6, <1>7, <1>8 DEF Next, Consume

LEMMA HandledKeptNext ==
    ASSUME IngestInv, [IngestNext]_ingestVars
    PROVE  HandledKept'
<1>0. /\ IInv /\ StoreInv /\ HandledKept /\ Handled \in Int /\ committed \in Nat
      /\ committed' \in Nat /\ Handled' \in Int /\ Handled' <= N
      /\ resumed \in Nat /\ resumed <= committed
  <2>1. IInv /\ IInv'
    BY PartsNext DEF IngestInv
  <2>2. committed' \in Nat /\ Handled' \in Int /\ Handled' <= N
    <3>1. committed' \in 0 .. N /\ position' \in 1 .. N + 1 /\ N \in Nat
      BY <2>1, ConsumerAssumption, IngestAssumption DEF IInv, TypeOK
    <3>2. Handled' = position' - 1 \/ Handled' = position' - 2
      BY Zenon DEF Handled, Released, Current
    <3> QED BY <3>1, <3>2
  <2> QED BY <2>1, <2>2, HandledFacts DEF IngestInv, IngestTypeOK, StoreInv, HandledKept
<1>1. ASSUME LiveStep, Handle => Kept(Current)'
      PROVE  HandledKept'
  <2>1. committed' >= committed /\ up /\ resumed' = resumed
    BY <1>0, <1>1, CommittedStep DEF LiveStep
  <2> SUFFICES ASSUME NEW r \in (resumed' + 1 .. Handled') \ Invalid
               PROVE  Kept(r)'
    BY <1>0, <2>1 DEF HandledKept
  <2>2. r \in 1 .. N /\ r >= resumed + 1 /\ r \notin Invalid
    <3>1. r \in Int /\ r >= resumed + 1 /\ r <= Handled' /\ N \in Nat
      BY <1>0, <2>1, ConsumerAssumption, IngestAssumption
    <3> QED BY <1>0, <3>1
  <2>3. CASE r <= Handled
    <3>1. Kept(r)
      BY <1>0, <2>1, <2>2, <2>3 DEF HandledKept
    <3> QED BY <1>0, <1>1, <2>2, <3>1, KeptStays
  <2>4. CASE r > Handled
    <3>1. Handled' = Handled + 1 /\ Handle /\ Handled' = Current'
      BY <1>0, <1>1, <2>1, <2>4, HandledStep DEF LiveStep
    <3>2. r = Handled'
      BY <1>0, <2>4, <3>1
    <3>3. r = Current'
      BY <3>1, <3>2
    <3> QED BY <1>1, <3>1, <3>3 DEF Kept, Durable, Abandoned, InMemory, EventsOf
  <2> QED BY <1>0, <2>3, <2>4
<1>2. CASE HandlesOne
  BY <1>1, <1>2 DEF HandlesOne
<1>3. CASE OtherSteps
  <2>1. ~Handle
    BY <1>3 DEF OtherSteps, EvictHeld, vars, procVars, loopVars, ackVars, dlqVars, StoreStep,
       CloseStore, Acknowledge, ConsumerStep,
                CancelEngine, CloseConsumer, Handle, Enqueue, Fetch, FetchStops, RouteInvalid,
                CommitWorker, Receive, CommitTick, Commit, WorkerStops, DlqWorker,
                DlqStops, DlqWrite, Cancel, Close, loopVars
  <2> QED BY <1>1, <1>3, <2>1, OtherIsLive
<1>4. CASE Exit \/ Crash
  BY <1>0, <1>4, DownFacts DEF HandledKept
<1>5. CASE RestartEngine
  <2>1. UNCHANGED committed /\ resumed' = committed /\ Handled' = committed
    <3>1. UNCHANGED committed /\ resumed' = committed
      BY <1>5, RestartFacts
    <3>2. Handled' = Released' /\ Released' = position' - 1 /\ position' = committed + 1
      BY <1>5, RestartFacts
    <3> QED BY <1>0, <3>1, <3>2
  <2> SUFFICES ASSUME NEW r \in (resumed' + 1 .. Handled') \ Invalid
               PROVE  FALSE
    BY <1>0, <2>1 DEF HandledKept
  <2> QED BY <1>0, <2>1
<1>6. CASE UNCHANGED ingestVars
  BY <1>0, <1>6 DEF ingestVars, vars, procVars, loopVars, ackVars, dlqVars, storeVars,
     enricherVars, HandledKept, Handled, Released, Current,
              Kept, Durable, Abandoned, InMemory
<1> QED BY <1>2, <1>3, <1>4, <1>5, <1>6, StepKinds

(* An insertion not yet settled is in the batch or in the buffer. *)
LEMMA UnsettledHeld ==
    ASSUME StoreInv, NEW i \in 1 .. Len(inserted), i > Len(settled)
    PROVE  inserted[i] \in Range(buf) \cup Range(flushBatch)
<1>0. /\ Len(settled) \in Nat /\ Len(flushBatch) \in Nat /\ Len(buf) \in Nat
      /\ Len(inserted) = Len(settled) + Len(flushBatch) + Len(buf)
      /\ settled \in Seq(Events) /\ flushBatch \in Seq(Events) /\ buf \in Seq(Events)
  BY ConservedLength DEF StoreInv, S!TypeOK
<1> DEFINE front == settled \o flushBatch
<1>1. front \in Seq(Events) /\ Len(front) = Len(settled) + Len(flushBatch)
  BY <1>0, ConcatProperties
<1>2. inserted = front \o buf
  BY DEF StoreInv, S!Conservation
<1>3. DOMAIN flushBatch = 1 .. Len(flushBatch) /\ DOMAIN buf = 1 .. Len(buf)
  BY <1>0, LenProperties
<1>4. CASE i <= Len(front)
  <2>1. inserted[i] = front[i]
    BY <1>0, <1>1, <1>2, <1>4, ConcatProperties
  <2>2. front[i] = flushBatch[i - Len(settled)] /\ i - Len(settled) \in 1 .. Len(flushBatch)
    BY <1>0, <1>1, <1>4, ConcatProperties
  <2> QED BY <1>3, <2>1, <2>2 DEF Range
<1>5. CASE i > Len(front)
  <2>1. i - Len(front) \in 1 .. Len(buf)
    BY <1>0, <1>1, <1>5
  <2>2. inserted[i] = buf[i - Len(front)]
    BY <1>0, <1>1, <1>2, <1>5, <2>1, ConcatProperties
  <2> QED BY <1>3, <2>1, <2>2 DEF Range
<1> QED BY <1>0, <1>1, <1>4, <1>5

(* What the flusher settles in a step is stored or given up. *)
LEMMA SettledStep ==
    ASSUME StoreInv, StoreSteps
    PROVE  /\ \/ UNCHANGED settled
              \/ /\ settled' = settled \o flushBatch
                 /\ \A e \in Range(flushBatch) : rows'[e] > 0 \/ e \in dropped'
<1>1. CASE S!WriteOk
  <2>1. rows' = S!Stored /\ settled' = settled \o flushBatch
    BY <1>1 DEF S!WriteOk, S!FinishBatch
  <2> QED BY <2>1, StoredFacts
<1>2. ASSUME NEW kept \in BOOLEAN, S!WriteFail(kept)
      PROVE  \/ UNCHANGED settled
             \/ settled' = settled \o flushBatch /\ dropped' = dropped \cup Range(flushBatch)
  BY <1>2 DEF S!WriteFail, S!FinishBatch, S!Range, Range
<1>3. UNCHANGED settled \/ S!WriteOk \/ \E kept \in BOOLEAN : S!WriteFail(kept)
  BY DEF StoreSteps, S!InsertEvent, S!Signal, S!Flusher, S!Tick, S!TakeSignal, S!TakeClose,
     S!SwapBuffer, S!Close, S!Write, S!histVars, storeVars
<1> QED BY <1>1, <1>2, <1>3

(* An insertion not yet settled stays so, or is stored or given up. *)
LEMMA PendingStep ==
    ASSUME StoreInv, StoreSteps, UNCHANGED inserted,
           NEW i \in Len(settled) + 1 .. Len(inserted)
    PROVE  \/ i > Len(settled')
           \/ inserted[i] \in Events /\ (rows'[inserted[i]] > 0 \/ inserted[i] \in dropped')
<1>0. /\ Len(settled) \in Nat /\ Len(flushBatch) \in Nat /\ Len(buf) \in Nat
      /\ Len(inserted) = Len(settled) + Len(flushBatch) + Len(buf)
      /\ inserted \in Seq(Events) /\ settled \in Seq(Events) /\ flushBatch \in Seq(Events)
      /\ buf \in Seq(Events)
  BY ConservedLength DEF StoreInv, S!TypeOK
<1>1. inserted[i] \in Events
  BY <1>0, ElementOfSeq
<1>2. CASE UNCHANGED settled
  BY <1>0, <1>2
<1>3. ASSUME settled' = settled \o flushBatch,
             \A e \in Range(flushBatch) : rows'[e] > 0 \/ e \in dropped',
             i <= Len(settled')
      PROVE  rows'[inserted[i]] > 0 \/ inserted[i] \in dropped'
  <2>1. Len(settled') = Len(settled) + Len(flushBatch) /\ settled' \in Seq(Events)
    BY <1>0, <1>3, ConcatProperties
  <2>2. inserted = settled' \o buf
    BY <1>3 DEF StoreInv, S!Conservation
  <2>3. inserted[i] = settled'[i]
    BY <1>0, <1>3, <2>1, <2>2, ConcatProperties
  <2>4. settled'[i] = flushBatch[i - Len(settled)]
    BY <1>0, <1>3, <2>1, ConcatProperties
  <2>5. flushBatch[i - Len(settled)] \in Range(flushBatch)
    <3>1. i - Len(settled) \in 1 .. Len(flushBatch)
      BY <1>0, <1>3, <2>1
    <3>2. DOMAIN flushBatch = 1 .. Len(flushBatch)
      BY <1>0, LenProperties
    <3> QED BY <3>1, <3>2 DEF Range
  <2> QED BY <1>3, <2>3, <2>4, <2>5
<1>4. Len(settled') \in Nat
  BY <1>0, SettledStep, ConcatProperties, LenProperties
<1> QED BY <1>0, <1>1, <1>2, <1>3, <1>4, SettledStep

LEMMA EmittedKeptNext ==
    ASSUME IngestInv, [IngestNext]_ingestVars
    PROVE  EmittedKept'
<1>0. /\ StoreInv /\ EmittedKept /\ crashes \in Nat /\ closing \in BOOLEAN /\ atClose \in Nat
      /\ inserted \in Seq(Events) /\ Len(inserted) \in Nat /\ Len(settled) \in Nat
      /\ Len(settled) <= Len(inserted) /\ (closing => atClose <= Len(inserted))
      /\ emitted \in SUBSET (1 .. N)
  BY ConservedLength DEF IngestInv, IngestTypeOK, StoreInv, S!TypeOK, S!FinalFlushTakesAll
<1>1. CASE HandlesOne
  <2> SUFFICES ASSUME crashes' = 0, NEW r \in emitted'
               PROVE  \/ Durable(r)' \/ Abandoned(r)'
                      \/ up' /\ \E i \in OnTime' : r \in inserted'[i].src
    BY DEF EmittedKept
  <2>1. /\ up /\ up' /\ crashes = 0
        /\ UNCHANGED <<evicted, closing, atClose, settled, rows, dropped>>
    BY <1>1 DEF HandlesOne, LiveStep
  <2>2. /\ Durable(r) => Durable(r)'
        /\ Abandoned(r) => Abandoned(r)'
    BY <2>1 DEF Durable, Abandoned, EventsOf
  <2>3. CASE UNCHANGED <<inserted, emitted>>
    BY <1>0, <2>1, <2>2, <2>3 DEF EmittedKept, OnTime
  <2>4. ASSUME NEW e \in Events, inserted' = Append(inserted, e),
               emitted' = IF closing THEN emitted ELSE emitted \cup e.src
        PROVE  \/ Durable(r)' \/ Abandoned(r)'
               \/ up' /\ \E i \in OnTime' : r \in inserted'[i].src
    <3>1. /\ Len(inserted') = Len(inserted) + 1 /\ inserted'[Len(inserted) + 1] = e
          /\ \A i \in 1 .. Len(inserted) : inserted'[i] = inserted[i]
      BY <1>0, <2>4, AppendProperties
    <3>2. CASE r \in emitted
      <4>1. ASSUME NEW i \in OnTime, r \in inserted[i].src
            PROVE  i \in OnTime' /\ r \in inserted'[i].src
        <5>1. i \in 1 .. Len(inserted) /\ i \in OnTime'
          BY <1>0, <2>1, <3>1, <4>1 DEF OnTime
        <5> QED BY <3>1, <4>1, <5>1
      <4> QED BY <1>0, <2>1, <2>2, <3>2, <4>1 DEF EmittedKept
    <3>3. CASE r \notin emitted
      <4>1. ~closing /\ r \in e.src
        BY <2>4, <3>3
      <4>2. Len(inserted) + 1 \in OnTime'
        BY <1>0, <2>1, <3>1, <4>1 DEF OnTime
      <4> QED BY <2>1, <3>1, <4>1, <4>2
    <3> QED BY <3>2, <3>3
  <2> QED BY <1>1, <2>3, <2>4 DEF HandlesOne
<1>2. CASE OtherSteps
  <2>0. /\ LiveStep /\ UNCHANGED <<inserted, emitted>>
        /\ ~closing' => ~closing
        /\ closing' /\ ~closing => atClose' = Len(inserted)
        /\ closing => UNCHANGED atClose
        /\ closing' \in BOOLEAN /\ Grows /\ StoreInv'
    BY <1>0, <1>2, OtherIsLive, StoreGrows, PartsNext DEF LiveStep, StoreInv, S!TypeOK
  <2> SUFFICES ASSUME crashes' = 0, NEW r \in emitted
               PROVE  \/ Durable(r)' \/ Abandoned(r)'
                      \/ up' /\ \E i \in OnTime' : r \in inserted'[i].src
    BY <2>0 DEF EmittedKept
  <2>1. up' /\ crashes = 0 /\ evicted \subseteq evicted' /\ StoreSteps
    BY <2>0 DEF LiveStep
  <2>2. /\ Durable(r) => Durable(r)'
        /\ Abandoned(r) => Abandoned(r)'
    BY <2>0, <2>1 DEF Grows, Durable, Abandoned, EventsOf
  <2>3. ASSUME NEW i \in OnTime, r \in inserted[i].src
        PROVE  \/ Durable(r)' \/ Abandoned(r)'
               \/ \E j \in OnTime' : r \in inserted'[j].src
    <3>1. i \in Len(settled) + 1 .. Len(inserted)
      BY <1>0, <2>3 DEF OnTime
    <3>2. CASE i > Len(settled')
      <4>1. Len(settled') \in Nat
        BY <2>0, LenProperties DEF StoreInv, S!TypeOK
      <4>2. i \in OnTime'
        BY <1>0, <2>0, <2>3, <3>1, <3>2, <4>1 DEF OnTime
      <4> QED BY <2>0, <2>3, <4>2
    <3>3. CASE inserted[i] \in Events /\ (rows'[inserted[i]] > 0 \/ inserted[i] \in dropped')
      BY <2>3, <3>3 DEF Durable, Abandoned, EventsOf
    <3> QED BY <1>0, <2>0, <2>1, <3>1, <3>2, <3>3, PendingStep
  <2> QED BY <1>0, <2>1, <2>2, <2>3 DEF EmittedKept
<1>3. CASE Exit
  <2>1. /\ flusher = "done" /\ UNCHANGED <<rows, dropped, evicted, emitted, crashes>>
    BY <1>3, DownFacts DEF storeVars
  <2>2. closing /\ Len(settled) >= atClose
    BY <1>0, <2>1 DEF StoreInv, S!FinalFlushTakesAll, S!FlushShape
  <2>3. OnTime = {}
    BY <1>0, <2>2 DEF OnTime
  <2> QED BY <1>0, <2>1, <2>3 DEF EmittedKept, Durable, Abandoned, EventsOf
<1>4. CASE Crash
  BY <1>0, <1>4, DownFacts DEF EmittedKept
<1>5. CASE RestartEngine
  <2>1. ~up /\ UNCHANGED <<rows, dropped, evicted, emitted, crashes>>
    BY <1>5, RestartFacts
  <2> QED BY <1>0, <2>1 DEF EmittedKept, Durable, Abandoned, EventsOf
<1>6. CASE UNCHANGED ingestVars
  BY <1>0, <1>6 DEF ingestVars, vars, procVars, storeVars, enricherVars, EmittedKept, Durable,
     Abandoned, EventsOf, OnTime
<1> QED BY <1>1, <1>2, <1>3, <1>4, <1>5, <1>6, StepKinds

LEMMA LateNext ==
    ASSUME IngestInv, [IngestNext]_ingestVars
    PROVE  LateUnacknowledged'
<1>0. /\ IInv /\ LateUnacknowledged /\ committed \in Nat
      /\ inserted \in Seq(Events) /\ atClose \in Nat /\ Len(inserted) \in Nat
      /\ closing \in BOOLEAN /\ (closing => atClose <= Len(inserted))
  BY HandledFacts, LenProperties DEF IngestInv, IngestTypeOK, S!TypeOK, S!FinalFlushTakesAll
<1>1. CASE HandlesOne
  <2>1. UNCHANGED <<closing, atClose, readerOpen, committed>>
    BY <1>1 DEF HandlesOne, Handle, procVars
  <2>2. CASE UNCHANGED inserted
    BY <1>0, <2>1, <2>2 DEF LateUnacknowledged
  <2>3. ASSUME NEW e \in Events, inserted' = Append(inserted, e),
               \A r \in e.src \cap Whole : r > committed
        PROVE  LateUnacknowledged'
    <3>1. /\ Len(inserted') = Len(inserted) + 1 /\ inserted'[Len(inserted) + 1] = e
          /\ \A i \in 1 .. Len(inserted) : inserted'[i] = inserted[i]
      BY <1>0, <2>3, AppendProperties
    <3> SUFFICES ASSUME closing', NEW i \in atClose' + 1 .. Len(inserted'),
                        NEW r \in inserted'[i].src \cap Whole
                 PROVE  r > committed'
      BY <1>0, <2>1 DEF LateUnacknowledged
    <3>2. CASE i = Len(inserted) + 1
      BY <2>1, <2>3, <3>1, <3>2
    <3>3. CASE i # Len(inserted) + 1
      <4>1. i \in atClose + 1 .. Len(inserted) /\ inserted'[i] = inserted[i] /\ closing
        BY <1>0, <2>1, <3>1, <3>3
      <4> QED BY <1>0, <2>1, <4>1 DEF LateUnacknowledged
    <3> QED BY <3>2, <3>3
  <2> QED BY <1>1, <2>2, <2>3 DEF HandlesOne
<1>2. CASE OtherSteps
  <2>0. /\ [Next]_vars /\ UNCHANGED inserted /\ (~closing' => ~closing)
        /\ closing' /\ ~closing => ~readerOpen' /\ atClose' = Len(inserted)
        /\ closing => UNCHANGED atClose
        /\ readerOpen' => readerOpen
    BY <1>2, OtherIsLive DEF LiveStep
  <2>1. CASE closing
    <3>1. ~readerOpen /\ UNCHANGED <<committed, atClose>>
      BY <1>0, <2>0, <2>1, CommittedStep DEF LateUnacknowledged
    <3> QED BY <1>0, <2>0, <2>1, <3>1 DEF LateUnacknowledged
  <2>2. CASE ~closing
    BY <1>0, <2>0, <2>2 DEF LateUnacknowledged
  <2> QED BY <2>1, <2>2
<1>3. CASE Exit \/ Crash
  BY <1>0, <1>3, DownFacts DEF LateUnacknowledged, storeVars
<1>4. CASE RestartEngine
  BY <1>4, RestartFacts DEF LateUnacknowledged
<1>5. CASE UNCHANGED ingestVars
  BY <1>0, <1>5 DEF ingestVars, vars, procVars, loopVars, ackVars, dlqVars, storeVars,
     LateUnacknowledged
<1> QED BY <1>1, <1>2, <1>3, <1>4, <1>5, StepKinds

(* When the store is done, nothing acknowledged is left in its buffer. *)
LEMMA DrainedAtExit ==
    ASSUME IngestInv, flusher = "done", NEW r \in Whole, r <= committed,
           NEW e \in EventsOf(r)
    PROVE  e \notin Range(buf) \cup Range(flushBatch)
<1>1. flushBatch = <<>> /\ closing /\ Len(settled) >= atClose /\ StoreInv
  BY DEF IngestInv, IngestTypeOK, StoreInv, S!FlushShape, S!FinalFlushTakesAll
<1>2. /\ settled \in Seq(Events) /\ buf \in Seq(Events) /\ atClose \in Nat
      /\ Len(settled) \in Nat /\ Len(buf) \in Nat
      /\ settled \o flushBatch = settled /\ inserted = settled \o buf
  <2>1. settled \in Seq(Events) /\ buf \in Seq(Events) /\ atClose \in Nat
    BY <1>1 DEF StoreInv, S!TypeOK
  <2>2. settled \o flushBatch = settled
    BY <1>1, <2>1, ConcatEmptySeq
  <2> QED BY <1>1, <2>1, <2>2, LenProperties DEF StoreInv, S!Conservation
<1>3. ASSUME e \in Range(buf)
      PROVE  FALSE
  <2>1. PICK j \in 1 .. Len(buf) : buf[j] = e
    BY <1>2, <1>3, LenProperties DEF Range
  <2>2. /\ Len(inserted) = Len(settled) + Len(buf)
        /\ inserted[Len(settled) + j] = e
    BY <1>2, <2>1, ConcatProperties
  <2>3. Len(settled) + j \in atClose + 1 .. Len(inserted)
    BY <1>1, <1>2, <2>1, <2>2
  <2>4. r \in inserted[Len(settled) + j].src \cap Whole
    BY <2>2 DEF EventsOf
  <2>5. r > committed
    BY <1>1, <2>3, <2>4 DEF IngestInv, LateUnacknowledged
  <2>6. committed \in Nat /\ r \in Nat
    BY HandledFacts, ConsumerAssumption, IngestAssumption DEF Whole
  <2> QED BY <2>5, <2>6
<1> QED BY <1>1, <1>3, EmptyEvents

(* What is kept stays kept, unless the process crashes. *)
LEMMA KeptNext ==
    ASSUME IngestInv, [IngestNext]_ingestVars, NEW r \in Whole, r <= committed, Kept(r)
    PROVE  Kept(r)' \/ crashes' > crashes
<1>0. r \in 1 .. N /\ r # held /\ StoreInv /\ crashes \in Nat
  BY ConsumerAssumption, IngestAssumption DEF IngestInv, IngestTypeOK, StoreInv, Whole
<1>1. CASE HandlesOne
  BY <1>0, <1>1, KeptStays DEF HandlesOne
<1>2. CASE OtherSteps
  BY <1>0, <1>2, KeptStays, OtherIsLive
<1>3. CASE Exit
  <2>1. flusher = "done" /\ UNCHANGED <<rows, dropped, evicted>>
    BY <1>3, DownFacts DEF storeVars
  <2>2. Durable(r) \/ Abandoned(r)
    BY <1>0, <2>1, DrainedAtExit DEF Kept, InMemory
  <2> QED BY <2>1, <2>2 DEF Kept, Durable, Abandoned, EventsOf
<1>4. CASE Crash
  BY <1>0, <1>4, DownFacts
<1>5. CASE RestartEngine
  <2>1. ~up /\ UNCHANGED <<rows, dropped, evicted>>
    BY <1>5, RestartFacts
  <2>2. Durable(r) \/ Abandoned(r)
    BY <2>1 DEF Kept, InMemory
  <2> QED BY <2>1, <2>2 DEF Kept, Durable, Abandoned, EventsOf
<1>6. CASE UNCHANGED ingestVars
  BY <1>6 DEF ingestVars, vars, procVars, loopVars, ackVars, dlqVars, storeVars, enricherVars,
     Kept, Durable, Abandoned, InMemory, EventsOf
<1> QED BY <1>1, <1>2, <1>3, <1>4, <1>5, <1>6, StepKinds

(* What a step acknowledges was handled by this process, and is kept. *)
LEMMA NewlyKept ==
    ASSUME IngestInv, [IngestNext]_ingestVars, NEW r \in Whole, ~(r <= committed), r <= committed'
    PROVE  Kept(r)'
<1>0. /\ r \in 1 .. N /\ r \notin Invalid /\ IInv /\ StoreInv /\ HandledKept /\ committed \in Nat
      /\ IInv' /\ committed' \in Nat
  <2>1. IInv'
    BY PartsNext
  <2> QED BY <2>1, HandledFacts, ConsumerAssumption, IngestAssumption
             DEF IngestInv, IngestTypeOK, StoreInv, Whole, IInv, TypeOK
<1>1. committed' # committed
  BY <1>0
<1>2. LiveStep
  <2>1. CASE HandlesOne
    BY <2>1 DEF HandlesOne
  <2>2. CASE OtherSteps
    BY <2>2, OtherIsLive
  <2>3. CASE Exit \/ Crash \/ RestartEngine \/ UNCHANGED ingestVars
    BY <1>1, <2>3, DownFacts, RestartFacts DEF ingestVars, vars, procVars, loopVars, ackVars,
       dlqVars
  <2> QED BY <2>1, <2>2, <2>3, StepKinds
<1>3. up /\ CommitWorker
  BY <1>0, <1>1, <1>2, CommittedStep DEF LiveStep
<1>4. committed' <= Released' /\ Released' = Released
  BY <1>0, <1>3 DEF IInv, CommitBehindPending, CommitWorker, Receive, CommitTick, Commit,
                    WorkerStops, loopVars, Released
<1>5. r <= Handled /\ Handled \in Int /\ r > committed
  <2>1. Released <= Handled /\ Handled \in Int /\ Released \in Int
    BY HandledFacts DEF IngestInv, IInv, TypeOK, Released
  <2> QED BY <1>0, <1>4, <2>1
<1>6. Kept(r)
  <2>1. resumed <= committed /\ resumed \in Nat
    BY DEF IngestInv, IngestTypeOK, HandledKept
  <2>2. r \in resumed + 1 .. Handled
    BY <1>0, <1>5, <2>1
  <2> QED BY <1>0, <1>3, <2>2 DEF HandledKept
<1> QED BY <1>0, <1>2, <1>6, KeptStays

LEMMA WholeKeptNext ==
    ASSUME IngestInv, [IngestNext]_ingestVars
    PROVE  WholeKept'
<1> SUFFICES ASSUME crashes' = 0, NEW r \in Whole, r <= committed'
             PROVE  Kept(r)'
  BY DEF WholeKept
<1>1. CASE r <= committed
  <2>1. crashes \in Nat /\ crashes' >= crashes
    <3>1. crashes \in Nat
      BY DEF IngestInv, IngestTypeOK
    <3>2. crashes' = crashes \/ crashes' = crashes + 1
      BY StepKinds, OtherIsLive, DownFacts, RestartFacts DEF HandlesOne, LiveStep, ingestVars
    <3> QED BY <3>1, <3>2
  <2>2. crashes = 0
    BY <2>1
  <2>3. Kept(r)
    BY <1>1, <2>2 DEF IngestInv, WholeKept
  <2> QED BY <1>1, <2>1, <2>3, KeptNext
<1>2. CASE ~(r <= committed)
  BY <1>2, NewlyKept
<1> QED BY <1>1, <1>2

-----------------------------------------------------------------------------
LEMMA InitInv == IngestInit => IngestInv
<1> SUFFICES ASSUME IngestInit
             PROVE  IngestInv
  OBVIOUS
<1>1. IInv /\ StoreInv
  BY ConsumerInit, StoreStart DEF IngestInit
<1>2. IngestTypeOK
  BY <1>1, ConsumerAssumption, IngestAssumption DEF IngestInit, IngestTypeOK, StoreInv, IInv
<1>3. /\ position = 1 /\ loop = "fetch" /\ committed = 0 /\ closing = FALSE /\ crashes = 0
      /\ runs = 0 /\ up = TRUE /\ emitted = {} /\ resumed = 0
  BY DEF IngestInit, Init, S!Init
<1>4. Handled = 0
  BY <1>3 DEF Handled, Released
<1>5. HandledKept
  BY <1>3, <1>4 DEF HandledKept
<1>6. WholeKept
  BY <1>3, ConsumerAssumption, IngestAssumption DEF WholeKept, Whole
<1>7. LateUnacknowledged /\ CrashesCounted /\ EmittedKept
  BY <1>3 DEF LateUnacknowledged, CrashesCounted, EmittedKept
<1> QED BY <1>1, <1>2, <1>5, <1>6, <1>7 DEF IngestInv, StoreInv

LEMMA NextInv == IngestInv /\ [IngestNext]_ingestVars => IngestInv'
BY PartsNext, HandledKeptNext, EmittedKeptNext, LateNext, WholeKeptNext DEF IngestInv, StoreInv

(* The inductive invariant of the engine's ingestion: the consumer's, the    *)
(* store's, and what ties an acknowledged record to the event made of it.    *)
THEOREM InvCorrect == IngestSpec => []IngestInv
BY InitInv, NextInv, PTL DEF IngestSpec

(* The engine's consumer behaves as the consumer does with any handler:     *)
(* main's handler, the store's final flush and the order of the deferred    *)
(* calls (main.go) add nothing to what Consume and its workers may do, so   *)
(* the two theorems about the consumer hold of the engine.                  *)
THEOREM IngestImplementsConsumer == IngestSpec => Spec
<1>1. IngestInit => Init
  BY DEF IngestInit
<1>2. IngestInv /\ [IngestNext]_ingestVars => [Next]_vars
  <2> SUFFICES ASSUME IngestInv, [IngestNext]_ingestVars PROVE [Next]_vars
    OBVIOUS
  <2>1. CASE HandlesOne
    BY <2>1 DEF HandlesOne, LiveStep
  <2>2. CASE OtherSteps
    BY <2>2, OtherIsLive DEF LiveStep
  <2>3. CASE Exit \/ Crash \/ RestartEngine
    BY <2>3, DownFacts, RestartFacts
  <2>4. CASE UNCHANGED ingestVars
    BY <2>4 DEF ingestVars
  <2> QED BY <2>1, <2>2, <2>3, <2>4, StepKinds
<1> QED BY <1>1, <1>2, InvCorrect, PTL DEF IngestSpec, Spec

(* For any partition, any batch and flush sizes, any outcome of commits and  *)
(* writes: as long as no process crashed, a record that commitWorker         *)
(* acknowledged is stored, in memory or given up, except for a half of a     *)
(* process now gone whose pair the handler had not inserted when main closed *)
(* the store (main.go, kafka.go, clickhouse.go).                             *)
THEOREM AcknowledgedAccountedCorrect == IngestSpec => []AcknowledgedAccounted
<1>1. IngestInv => AcknowledgedAccounted
  <2> SUFFICES ASSUME IngestInv, crashes = 0, NEW r \in CommittedValid,
                      ~(r \in Halves \ emitted /\ (~up \/ r <= resumed))
               PROVE  Kept(r)
    BY DEF AcknowledgedAccounted
  <2>1. /\ committed \in Nat /\ committed <= N /\ r \in 1 .. committed /\ r \notin Invalid
        /\ r \in 1 .. N /\ resumed \in Nat /\ N \in Nat
    BY ConsumerAssumption, IngestAssumption DEF IngestInv, IngestTypeOK, TypeOK, CommittedValid
  <2>2. CASE r \in emitted
    <3>1. ASSUME up, NEW i \in OnTime, r \in inserted[i].src
          PROVE  InMemory(r)
      <4>1. /\ StoreInv /\ inserted \in Seq(Events) /\ i \in 1 .. Len(inserted)
            /\ i > Len(settled) /\ Len(settled) \in Nat
        BY <3>1, ConservedLength
           DEF IngestInv, IngestTypeOK, StoreInv, S!TypeOK, S!FinalFlushTakesAll, OnTime
      <4>2. inserted[i] \in EventsOf(r)
        BY <3>1, <4>1, ElementOfSeq DEF EventsOf
      <4>3. inserted[i] \in Range(buf) \cup Range(flushBatch)
        BY <4>1, UnsettledHeld
      <4> QED BY <3>1, <4>2, <4>3 DEF InMemory
    <3> QED BY <2>2, <3>1 DEF IngestInv, EmittedKept, Kept
  <2>3. CASE r \in Halves /\ up /\ r > resumed
    <3>1. r \in (resumed + 1 .. Handled) \ Invalid
      BY <2>1, <2>3, HandledFacts DEF IngestInv, IInv, TypeOK, Released
    <3> QED BY <2>3, <3>1 DEF IngestInv, HandledKept
  <2>4. CASE r \notin Halves
    BY <2>1, <2>4 DEF IngestInv, WholeKept, Whole
  <2> QED BY <2>1, <2>2, <2>3, <2>4
<1> QED BY <1>1, InvCorrect, PTL

(* Over any sequence of shutdowns, crashes and restarts only a crash loses   *)
(* the event of an acknowledged record: the deferred calls of main.go close  *)
(* the consumer first, so what misses the final flush was not acknowledged.  *)
THEOREM LossOnlyByCrashCorrect == IngestSpec => LossOnlyByCrash
<1>1. IngestInv /\ [IngestNext]_ingestVars =>
        [\A r \in Whole : r <= committed' /\ ~Kept(r)' =>
            (r <= committed /\ ~Kept(r)) \/ crashes' > crashes]_ingestVars
  BY KeptNext, NewlyKept
<1> QED BY <1>1, InvCorrect, PTL DEF IngestSpec, LossOnlyByCrash

-----------------------------------------------------------------------------
(* The abstract specification of delivery.  What the store settles it had in *)
(* memory, and its own steps take nothing into memory.                       *)
Settles ==
    \A e \in Events :
        /\ rows'[e] > 0 \/ e \in dropped' =>
               rows[e] > 0 \/ e \in dropped \/ e \in Range(buf) \cup Range(flushBatch)
        /\ e \in Range(buf') \cup Range(flushBatch') => e \in Range(buf) \cup Range(flushBatch)

LEMMA StoreSettles ==
    ASSUME StoreInv, S!Signal("consumer") \/ S!Flusher \/ S!Close \/ UNCHANGED storeVars
    PROVE  Settles
<1>0. /\ rows \in [Events -> Nat]
      /\ \A e \in Events : S!Stored[e] > 0 => rows[e] > 0 \/ e \in Range(flushBatch)
  BY DEF StoreInv, S!TypeOK, S!Stored, S!Range, Range
<1>1. CASE UNCHANGED <<buf, flushBatch, rows, dropped>>
  BY <1>1 DEF Settles
<1>2. CASE S!SwapBuffer
  <2>1. /\ UNCHANGED <<rows, dropped>>
        /\ \/ UNCHANGED <<buf, flushBatch>>
           \/ flushBatch' = buf /\ buf' = <<>>
    BY <1>2 DEF S!SwapBuffer
  <2> QED BY <2>1, EmptyEvents DEF Settles
<1>3. CASE S!WriteOk
  <2>1. rows' = S!Stored /\ flushBatch' = <<>> /\ UNCHANGED <<buf, dropped>>
    BY <1>3 DEF S!WriteOk, S!FinishBatch
  <2> QED BY <1>0, <2>1, EmptyEvents DEF Settles
<1>4. ASSUME NEW kept \in BOOLEAN, S!WriteFail(kept)
      PROVE  Settles
  <2>1. rows' = S!Stored \/ rows' = rows
    BY <1>4 DEF S!WriteFail
  <2>2. /\ UNCHANGED buf
        /\ \/ UNCHANGED <<flushBatch, dropped>>
           \/ flushBatch' = <<>> /\ dropped' = dropped \cup Range(flushBatch)
    BY <1>4 DEF S!WriteFail, S!FinishBatch, S!Range, Range
  <2>3. \A e \in Events : rows'[e] > 0 => rows[e] > 0 \/ e \in Range(flushBatch)
    BY <1>0, <2>1
  <2> QED BY <2>2, <2>3, EmptyEvents DEF Settles
<1>5. \/ UNCHANGED <<buf, flushBatch, rows, dropped>>
      \/ S!SwapBuffer \/ S!WriteOk \/ \E kept \in BOOLEAN : S!WriteFail(kept)
  BY DEF S!Signal, S!Flusher, S!Tick, S!TakeSignal, S!TakeClose, S!Close, S!Write, storeVars
<1> QED BY <1>1, <1>2, <1>3, <1>4, <1>5

(* A step of the store, or of the eviction, settles what leaves the memory.  *)
LEMMA SettleDelivers ==
    ASSUME IngestInv, LiveStep, Settles, UNCHANGED committed,
           held' \in {0} \cup Halves, evicted' \in SUBSET Halves
    PROVE  D!Settle
<1>0. StoreInv /\ Grows /\ up /\ up' /\ UNCHANGED crashes
  BY StoreGrows DEF IngestInv, IngestTypeOK, StoreInv, LiveStep
<1>1. ASSUME NEW r \in Whole
      PROVE  /\ r # held /\ r # held' /\ r \notin evicted /\ r \notin evicted'
             /\ EventsOf(r) \subseteq Events
  BY <1>1, ConsumerAssumption, IngestAssumption DEF IngestInv, IngestTypeOK, Whole, EventsOf
<1>2. ASSUME NEW r \in Whole, Durable(r) \/ Abandoned(r)
      PROVE  (Durable(r) \/ Abandoned(r))'
  BY <1>0, <1>1, <1>2 DEF Grows, Durable, Abandoned, EventsOf
<1>3. ASSUME NEW r \in Whole, (Durable(r) \/ Abandoned(r))'
      PROVE  Durable(r) \/ Abandoned(r) \/ InMemory(r)
  BY <1>0, <1>1, <1>3 DEF Settles, Durable, Abandoned, InMemory, EventsOf
<1>4. ASSUME NEW r \in Whole, InMemory(r)'
      PROVE  InMemory(r)
  BY <1>0, <1>1, <1>4 DEF Settles, InMemory, EventsOf
<1>5. ASSUME NEW r \in Whole, InMemory(r), ~InMemory(r)'
      PROVE  (Durable(r) \/ Abandoned(r))'
  BY <1>0, <1>1, <1>5 DEF Grows, Durable, Abandoned, InMemory, EventsOf
<1> QED BY <1>0, <1>2, <1>3, <1>4, <1>5 DEF D!Settle

(* A commit acknowledges only what the engine has. *)
LEMMA AcknowledgeDelivers ==
    ASSUME IngestInv, [IngestNext]_ingestVars, [Next]_vars,
           UNCHANGED <<storeVars, enricherVars, crashes, up>>
    PROVE  D!Acknowledge
<1>1. ASSUME NEW r \in Whole
      PROVE  /\ Durable(r)' <=> Durable(r)
             /\ Abandoned(r)' <=> Abandoned(r)
             /\ InMemory(r)' <=> InMemory(r)
  BY DEF storeVars, enricherVars, Durable, Abandoned, InMemory, EventsOf
<1>2. committed \in Nat /\ committed' \in Nat /\ committed' >= committed
  BY PartsNext, CommittedStep DEF IngestInv, IInv, TypeOK
<1>3. ASSUME NEW r \in Whole, r \in 1 .. committed', r \notin 1 .. committed
      PROVE  Durable(r) \/ Abandoned(r) \/ InMemory(r)
  <2>1. ~(r <= committed) /\ r <= committed'
    BY <1>2, <1>3
  <2> QED BY <1>1, <2>1, NewlyKept DEF Kept
<1>4. Whole \cap 1 .. committed \subseteq Whole \cap 1 .. committed'
  BY <1>2
<1>5. /\ {r \in Whole : InMemory(r)}' = {r \in Whole : InMemory(r)}
      /\ {r \in Whole : Durable(r) \/ Abandoned(r)}' = {r \in Whole : Durable(r) \/ Abandoned(r)}
  BY <1>1 DEF Whole
<1> QED BY <1>3, <1>4, <1>5 DEF D!Acknowledge

(* The handler takes the record it was given into memory, or a half. *)
LEMMA ReceiveDelivers ==
    ASSUME IngestInv, HandleWhole \/ HandleFirstHalf \/ HandleSecondHalf
    PROVE  D!Receive \/ UNCHANGED D!vars
<1>0. /\ HandlesOne /\ up /\ up' /\ Current \in 1 .. N /\ Current > committed
      /\ UNCHANGED <<committed, crashes, evicted>> /\ StoreInv /\ committed \in Nat
      /\ runs \in 0 .. MaxRestarts
  <2>1. HandlesOne /\ Handle /\ loop = "route"
    BY HandleStep DEF HandlesOne, Handle
  <2>2. UNCHANGED committed
    BY <2>1 DEF Handle, ackVars
  <2> QED BY <2>1, <2>2, HandledFacts
             DEF HandlesOne, LiveStep, IngestInv, IngestTypeOK, TypeOK, StoreInv
<1>1. ASSUME NEW r \in Whole
      PROVE  /\ r # held /\ r # held' /\ r \in 1 .. N
             /\ EventsOf(r) \subseteq Events
  BY <1>0, <1>1, ConsumerAssumption, IngestAssumption
     DEF HandlesOne, IngestInv, IngestTypeOK, Whole, EventsOf
<1>2. UNCHANGED <<rows, dropped, flushBatch>>
  BY DEF HandleWhole, HandleFirstHalf, HandleSecondHalf, Emit, S!InsertEvent, storeVars
<1>3. {r \in Whole : Durable(r) \/ Abandoned(r)}' = {r \in Whole : Durable(r) \/ Abandoned(r)}
  BY <1>0, <1>2 DEF Durable, Abandoned, EventsOf, Whole
<1>4. CASE HandleWhole
  <2>1. Current \in Whole \ (Whole \cap 1 .. committed)
    <3>1. Current \notin Invalid
      BY <1>4 DEF HandleWhole, Handle
    <3> QED BY <1>0, <1>4, <3>1 DEF HandleWhole, Whole
  <2> DEFINE e == [src |-> {Current}, run |-> runs]
  <2>2. e \in Events /\ e.src = {Current}
    <3>1. {Current, Current} = {Current}
      OBVIOUS
    <3> QED BY <1>0, <3>1, EmitFacts
  <2>3. S!InsertEvent("consumer", e)
    BY <1>4 DEF HandleWhole, Emit
  <2> HIDE DEF e
  <2>4. Range(buf') = Range(buf) \cup {e}
    BY <1>0, <2>2, <2>3, RangeAppend DEF StoreInv, S!TypeOK, S!InsertEvent
  <2>5. ASSUME NEW r \in Whole
        PROVE  InMemory(r)' <=> InMemory(r) \/ r = Current
    BY <1>0, <1>1, <1>2, <2>2, <2>4 DEF InMemory, EventsOf
  <2>6. {r \in Whole : InMemory(r)}' = {r \in Whole : InMemory(r)} \cup {Current}
    BY <2>1, <2>5 DEF Whole
  <2> QED BY <1>0, <1>3, <2>1, <2>6 DEF D!Receive
<1>5. CASE HandleFirstHalf
  <2>1. UNCHANGED buf
    BY <1>5 DEF HandleFirstHalf, storeVars
  <2>2. {r \in Whole : InMemory(r)}' = {r \in Whole : InMemory(r)}
    BY <1>0, <1>1, <1>2, <2>1 DEF InMemory, EventsOf, Whole
  <2> QED BY <1>0, <1>3, <2>2 DEF D!vars
<1>6. CASE HandleSecondHalf
  <2>1. Current \in Halves /\ held \in Halves /\ held \in 1 .. N
    BY <1>6, ConsumerAssumption, IngestAssumption DEF HandleSecondHalf, IngestInv, IngestTypeOK
  <2> DEFINE e == [src |-> {held, Current}, run |-> runs]
  <2>2. e \in Events /\ e.src = {held, Current}
    BY <1>0, <2>1, EmitFacts
  <2>3. S!InsertEvent("consumer", e)
    BY <1>6 DEF HandleSecondHalf, Emit
  <2> HIDE DEF e
  <2>4. Range(buf') = Range(buf) \cup {e}
    BY <1>0, <2>2, <2>3, RangeAppend DEF StoreInv, S!TypeOK, S!InsertEvent
  <2>5. ASSUME NEW r \in Whole
        PROVE  InMemory(r)' <=> InMemory(r)
    <3>1. e \notin EventsOf(r)
      BY <2>1, <2>2 DEF EventsOf, Whole
    <3> QED BY <1>0, <1>1, <1>2, <2>4, <3>1 DEF InMemory, EventsOf
  <2>6. {r \in Whole : InMemory(r)}' = {r \in Whole : InMemory(r)}
    BY <2>5 DEF Whole
  <2> QED BY <1>0, <1>3, <2>6 DEF D!vars
<1> QED BY <1>4, <1>5, <1>6

(* A process that ends or starts has nothing in memory; at an exit nothing   *)
(* acknowledged was left there.                                              *)
LEMMA EndsDeliver ==
    ASSUME IngestInv
    PROVE  /\ Exit => D!Stop
           /\ Crash => D!Crash
           /\ RestartEngine => UNCHANGED D!vars
<1>0. ASSUME UNCHANGED <<rows, dropped, evicted, committed>>
      PROVE  /\ {r \in Whole : Durable(r) \/ Abandoned(r)}' = {r \in Whole : Durable(r) \/ Abandoned(r)}
             /\ (Whole \cap 1 .. committed)' = Whole \cap 1 .. committed
  BY <1>0 DEF Durable, Abandoned, EventsOf, Whole
<1>1. ASSUME Exit \/ Crash
      PROVE  /\ {r \in Whole : InMemory(r)}' = {}
             /\ {r \in Whole : Durable(r) \/ Abandoned(r)}' = {r \in Whole : Durable(r) \/ Abandoned(r)}
             /\ (Whole \cap 1 .. committed)' = Whole \cap 1 .. committed
  <2>1. UNCHANGED <<rows, dropped, evicted, committed>> /\ ~up'
    BY <1>1, DownFacts DEF storeVars
  <2>2. {r \in Whole : InMemory(r)}' = {}
    BY <2>1 DEF InMemory
  <2> QED BY <1>0, <2>1, <2>2
<1>2. ASSUME Exit
      PROVE  D!Stop
  <2>1. ASSUME NEW r \in Whole, r \in 1 .. committed, InMemory(r)
        PROVE  FALSE
    <3>1. r # held /\ r <= committed /\ flusher = "done"
      BY <1>2, <2>1, ConsumerAssumption, IngestAssumption, DownFacts, HandledFacts
         DEF IngestInv, IngestTypeOK, Whole
    <3> QED BY <2>1, <3>1, DrainedAtExit DEF InMemory
  <2>2. {r \in Whole : InMemory(r)} \cap (Whole \cap 1 .. committed) = {}
    BY <2>1
  <2>3. UNCHANGED crashes
    BY <1>2, DownFacts
  <2> QED BY <1>1, <1>2, <2>2, <2>3 DEF D!Stop
<1>3. ASSUME Crash
      PROVE  D!Crash
  <2>1. crashes' = crashes + 1
    BY <1>3, DownFacts
  <2> QED BY <1>1, <1>3, <2>1 DEF D!Crash
<1>4. ASSUME RestartEngine
      PROVE  UNCHANGED D!vars
  <2>1. /\ ~up /\ buf' = <<>> /\ flushBatch' = <<>> /\ held' = 0
        /\ UNCHANGED <<rows, dropped, evicted, committed, crashes>>
    BY <1>4, RestartFacts
  <2>2. {r \in Whole : InMemory(r)} = {} /\ {r \in Whole : InMemory(r)}' = {}
    <3>1. 0 \notin Whole
      BY DEF Whole
    <3> QED BY <2>1, <3>1, EmptyEvents DEF InMemory, Whole
  <2> QED BY <1>0, <2>1, <2>2 DEF D!vars
<1> QED BY <1>2, <1>3, <1>4

(* The engine keeps its promise about delivery, for any partition, sizes,    *)
(* outcomes of commits and writes, and sequence of shutdowns, crashes and    *)
(* restarts: the commits of kafka.go follow what main.go's handler has taken *)
(* in, and main's deferred calls wait for it to be settled.                  *)
THEOREM IngestImplementsDelivery == IngestSpec => Delivers
<1>1. IngestInit => D!Init
  <2> SUFFICES ASSUME IngestInit PROVE D!Init
    OBVIOUS
  <2>1. /\ committed = 0 /\ crashes = 0 /\ held = 0 /\ evicted = {} /\ dropped = {}
        /\ buf = <<>> /\ flushBatch = <<>> /\ \A e \in Events : ~(rows[e] > 0)
    BY DEF IngestInit, Init, S!Init
  <2>2. \A r \in Whole : r # 0 /\ ~InMemory(r) /\ ~Durable(r) /\ ~Abandoned(r)
    BY <2>1, EmptyEvents DEF Whole, InMemory, Durable, Abandoned, EventsOf
  <2>3. Whole \cap 1 .. committed = {}
    BY <2>1
  <2> QED BY <2>1, <2>2, <2>3 DEF D!Init
<1>2. IngestInv /\ [IngestNext]_ingestVars => [D!Next]_(D!vars)
  <2> SUFFICES ASSUME IngestInv, [IngestNext]_ingestVars PROVE [D!Next]_(D!vars)
    OBVIOUS
  <2>1. CASE HandleWhole \/ HandleFirstHalf \/ HandleSecondHalf
    BY <2>1, ReceiveDelivers DEF D!Next
  <2>2. CASE EvictHeld \/ StoreStep \/ CloseStore
    <3>1. /\ UNCHANGED vars
          /\ S!Signal("consumer") \/ S!Flusher \/ S!Close \/ UNCHANGED storeVars
      BY <2>2 DEF EvictHeld, StoreStep, CloseStore
    <3>2. Settles /\ UNCHANGED committed
      BY <3>1, StoreSettles DEF IngestInv, IngestTypeOK, StoreInv, vars, ackVars
    <3> QED BY <2>2, <3>2, OtherIsLive, SettleDelivers DEF OtherSteps, D!Next
  <2>3. CASE Acknowledge \/ ConsumerStep \/ CancelEngine \/ CloseConsumer
    <3>1. UNCHANGED <<storeVars, enricherVars, crashes>>
      BY <2>3 DEF Acknowledge, ConsumerStep, CancelEngine, CloseConsumer
    <3>2. [Next]_vars /\ UNCHANGED up
      BY <2>3, OtherIsLive DEF OtherSteps, LiveStep
    <3> QED BY <3>1, <3>2, AcknowledgeDelivers DEF D!Next
  <2>4. CASE Exit \/ Crash \/ RestartEngine
    BY <2>4, EndsDeliver DEF D!Next
  <2>5. CASE UNCHANGED ingestVars
    BY <2>5 DEF ingestVars, vars, procVars, loopVars, ackVars, dlqVars, storeVars, enricherVars,
       D!vars, Durable, Abandoned, InMemory, EventsOf, Whole
  <2> QED BY <2>1, <2>2, <2>3, <2>4, <2>5 DEF IngestNext
<1> QED BY <1>1, <1>2, InvCorrect, PTL DEF IngestSpec, Delivers, D!Spec
=============================================================================
