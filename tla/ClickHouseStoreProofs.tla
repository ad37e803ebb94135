------------------------ MODULE ClickHouseStoreProofs ------------------------
(***************************************************************************)
(* Proofs that the event store keeps IInv, for any events, callers, flush   *)
(* size and number of attempts.                                             *)
(***************************************************************************)
EXTENDS ClickHouseStore, SequenceTheorems, TLAPS

(* What Append does to the set of elements of a sequence: InsertEvent's     *)
(* append adds exactly the new event.                                       *)
LEMMA RangeAppend ==
    ASSUME NEW S, NEW s \in Seq(S), NEW x \in S
    PROVE  Range(Append(s, x)) = Range(s) \cup {x}
<1>1. Append(s, x) = s \o <<x>>
  BY AppendIsConcat
<1>2. <<x>> \in Seq(S) /\ Range(<<x>>) = {x}
  BY DEF Range
<1>3. Range(s \o <<x>>) = Range(s) \cup Range(<<x>>)
  BY <1>2, RangeConcatenation
<1> QED BY <1>1, <1>2, <1>3

LEMMA EmptyFacts == <<>> \in Seq(Events) /\ Len(<<>>) = 0 /\ Range(<<>>) = {}
BY EmptySeq DEF Range

(* Every step keeps the shape of the state. *)
LEMMA TypeStep == TypeOK /\ [Next]_vars => TypeOK'
<1> SUFFICES ASSUME TypeOK, [Next]_vars PROVE TypeOK'
  OBVIOUS
<1> USE StoreAssumption
<1>0. Stored \in [Events -> Nat]
  BY DEF TypeOK, Stored
<1>1. ASSUME NEW c \in Callers, NEW e \in Events, InsertEvent(c, e) PROVE TypeOK'
  BY <1>1, AppendProperties DEF TypeOK, InsertEvent
<1>2. ASSUME NEW c \in Callers, Signal(c) PROVE TypeOK'
  BY <1>2 DEF TypeOK, Signal, histVars
<1>3. CASE Tick
  BY <1>3 DEF TypeOK, Tick, histVars, FlusherStates
<1>4. CASE TakeSignal
  BY <1>4 DEF TypeOK, TakeSignal, histVars, FlusherStates
<1>5. CASE TakeClose
  BY <1>5 DEF TypeOK, TakeClose, histVars, FlusherStates
<1>6. CASE SwapBuffer
  <2>1. 0 \in 0 .. MaxRetries - 1 /\ <<>> \in Seq(Events)
    BY EmptyFacts
  <2>2. CASE buf = <<>>
    BY <1>6, <2>2 DEF TypeOK, SwapBuffer, AfterFlush, histVars, FlusherStates
  <2>3. CASE buf # <<>>
    BY <1>6, <2>1, <2>3 DEF TypeOK, SwapBuffer, histVars, FlusherStates
  <2> QED BY <2>2, <2>3
<1>7. ASSUME FinishBatch PROVE flusher' \in FlusherStates /\ settled' \in Seq(Events)
                               /\ batch' \in Seq(Events) /\ attempt' \in 0 .. MaxRetries - 1
  BY <1>7, ConcatProperties, EmptyFacts DEF TypeOK, FinishBatch, AfterFlush, FlusherStates
<1>8. CASE WriteOk
  BY <1>0, <1>7, <1>8 DEF TypeOK, WriteOk
<1>9. ASSUME NEW kept \in BOOLEAN, WriteFail(kept) PROVE TypeOK'
  <2>1. rows' \in [Events -> Nat]
    BY <1>0, <1>9 DEF TypeOK, WriteFail
  <2>2. CASE attempt = MaxRetries - 1
    <3>1. Range(batch) \in SUBSET Events
      BY RangeOfSeq DEF TypeOK
    <3> QED BY <1>7, <1>9, <2>1, <2>2, <3>1 DEF TypeOK, WriteFail
  <2>3. CASE attempt # MaxRetries - 1
    BY <1>9, <2>1, <2>3 DEF TypeOK, WriteFail
  <2> QED BY <2>2, <2>3
<1>10. CASE Close
  <2>1. Len(inserted) \in Nat
    BY LenProperties DEF TypeOK
  <2> QED BY <1>10, <2>1 DEF TypeOK, Close
<1>11. CASE UNCHANGED vars
  BY <1>11 DEF TypeOK, vars, sysVars, histVars
<1> QED
  BY <1>1, <1>2, <1>3, <1>4, <1>5, <1>6, <1>8, <1>9, <1>10, <1>11
     DEF Next, Insert, Flusher, Write

LEMMA TypeInit == Init => TypeOK
<1> SUFFICES ASSUME Init PROVE TypeOK
  OBVIOUS
<1>1. /\ attempt \in 0 .. MaxRetries - 1
      /\ rows \in [Events -> Nat]
      /\ atClose \in Nat
  BY StoreAssumption DEF Init
<1>2. /\ buf \in Seq(Events) /\ batch \in Seq(Events)
      /\ inserted \in Seq(Events) /\ settled \in Seq(Events)
  BY EmptyFacts DEF Init
<1>3. /\ signalFlush \in BOOLEAN /\ final \in BOOLEAN /\ closing \in BOOLEAN
      /\ notify \in SUBSET Callers /\ dropped \in SUBSET Events
      /\ flusher \in FlusherStates
  BY DEF Init, FlusherStates
<1> QED BY <1>1, <1>2, <1>3 DEF TypeOK

(* The store's state always has its type, for every choice of constants. *)
THEOREM TypeCorrect == Spec => []TypeOK
BY TypeInit, TypeStep, PTL DEF Spec

(* Conservation fixes the lengths, too. *)
LEMMA ConservedLength ==
    ASSUME TypeOK, Conservation
    PROVE  Len(inserted) = Len(settled) + Len(batch) + Len(buf)
<1>1. settled \o batch \in Seq(Events) /\ Len(settled \o batch) = Len(settled) + Len(batch)
  BY ConcatProperties DEF TypeOK
<1>2. Len((settled \o batch) \o buf) = Len(settled \o batch) + Len(buf)
  BY <1>1, ConcatProperties DEF TypeOK
<1> QED BY <1>1, <1>2 DEF Conservation

(* Inserting: the new event is the last of the buffer and of the history.   *)
LEMMA InsertStep ==
    ASSUME IInv, TypeOK', NEW c \in Callers, NEW e \in Events, InsertEvent(c, e)
    PROVE  IInv'
<1> USE StoreAssumption DEF IInv
<1>1. /\ Range(buf') = Range(buf) \cup {e}
      /\ Range(inserted') = Range(inserted) \cup {e}
  BY RangeAppend DEF TypeOK, InsertEvent
<1>2. Len(buf') = Len(buf) + 1 /\ Len(inserted') = Len(inserted) + 1
  BY AppendProperties DEF TypeOK, InsertEvent
<1>3. Conservation'
  <2>1. settled \o batch \in Seq(Events)
    BY ConcatProperties DEF TypeOK
  <2>2. Append((settled \o batch) \o buf, e) = (settled \o batch) \o Append(buf, e)
    <3>1. buf \in Seq(Events) /\ <<e>> \in Seq(Events)
          /\ (settled \o batch) \o buf \in Seq(Events)
      BY <2>1, ConcatProperties DEF TypeOK
    <3>2. Append(buf, e) = buf \o <<e>>
          /\ Append((settled \o batch) \o buf, e) = ((settled \o batch) \o buf) \o <<e>>
      BY <3>1, AppendIsConcat
    <3> QED BY <2>1, <3>1, <3>2, ConcatAssociative
  <2> QED BY <2>2 DEF Conservation, InsertEvent
<1>4. NoLostWakeup'
  BY DEF NoLostWakeup, InsertEvent
<1>5. FreshEvents' /\ CopiesBounded'
  BY <1>1 DEF FreshEvents, CopiesBounded, InsertEvent, TypeOK
<1>6. SettledAccounted' /\ FlushShape'
  BY DEF SettledAccounted, FlushShape, InsertEvent
<1>7. FinalFlushTakesAll'
  BY <1>2, LenProperties DEF FinalFlushTakesAll, InsertEvent, TypeOK
<1> QED BY <1>3, <1>4, <1>5, <1>6, <1>7

(* The swap moves the buffer into an empty batch. *)
LEMMA SwapStep == ASSUME IInv, TypeOK', SwapBuffer PROVE IInv'
<1> USE StoreAssumption DEF IInv
<1>0. batch = <<>> /\ flusher = "swap"
  BY DEF SwapBuffer, FlushShape
<1>1. CASE buf = <<>>
  <2>1. Conservation' /\ NoLostWakeup'
    BY <1>1, EmptyFacts DEF SwapBuffer, Conservation, NoLostWakeup, histVars
  <2>2. FlushShape' /\ SettledAccounted' /\ FreshEvents' /\ CopiesBounded'
    BY <1>0, <1>1 DEF SwapBuffer, AfterFlush, FlushShape, SettledAccounted, FreshEvents,
                      CopiesBounded, histVars, TypeOK
  <2>3. FinalFlushTakesAll'
    BY <1>0, <1>1, ConservedLength, EmptyFacts, LenProperties
       DEF SwapBuffer, AfterFlush, FinalFlushTakesAll, FlushShape, histVars, TypeOK
  <2> QED BY <2>1, <2>2, <2>3
<1>2. CASE buf # <<>>
  <2>1. batch' = buf /\ buf' = <<>> /\ attempt' = 0 /\ flusher' = "write"
        /\ UNCHANGED <<signalFlush, notify, final, closing, rows, dropped, inserted, settled, atClose>>
    BY <1>2 DEF SwapBuffer, histVars
  <2>2. Conservation'
    <3>1. settled \o batch = settled /\ settled \o buf \in Seq(Events)
      BY <1>0, ConcatEmptySeq, ConcatProperties DEF TypeOK
    <3>2. (settled \o buf) \o <<>> = settled \o buf
      BY <3>1, ConcatEmptySeq
    <3> QED BY <2>1, <3>1, <3>2 DEF Conservation
  <2>3. NoLostWakeup'
    BY <2>1, EmptyFacts DEF NoLostWakeup
  <2>4. FlushShape' /\ SettledAccounted'
    BY <1>0, <2>1 DEF FlushShape, SettledAccounted
  <2>5. FreshEvents' /\ CopiesBounded'
    BY <2>1, EmptyFacts DEF FreshEvents, CopiesBounded, TypeOK
  <2>6. FinalFlushTakesAll'
    BY <1>0, <2>1, ConservedLength, EmptyFacts, LenProperties
       DEF FinalFlushTakesAll, FlushShape, TypeOK
  <2> QED BY <2>2, <2>3, <2>4, <2>5, <2>6
<1> QED BY <1>1, <1>2

(* The end of a batch, once its events are accounted for. *)
LEMMA FinishStep ==
    ASSUME IInv, TypeOK', FinishBatch, flusher = "write",
           UNCHANGED <<buf, signalFlush, notify, final, closing, inserted, atClose>>,
           dropped \subseteq dropped',
           rows' = Stored \/ rows' = rows,
           \A e \in Range(batch) : rows'[e] > 0 \/ e \in dropped' \/ e \in Unencodable
    PROVE  IInv'
<1> USE StoreAssumption DEF IInv
<1>1. flusher' = AfterFlush /\ settled' = settled \o batch /\ batch' = <<>> /\ attempt' = 0
  BY DEF FinishBatch
<1>2. /\ Range(settled') = Range(settled) \cup Range(batch)
      /\ Len(settled') = Len(settled) + Len(batch)
  BY <1>1, RangeConcatenation, ConcatProperties DEF TypeOK
<1>3. Conservation'
  <2>1. (settled \o batch) \o <<>> = settled \o batch
    BY <1>1, ConcatEmptySeq, ConcatProperties DEF TypeOK
  <2> QED BY <1>1, <2>1 DEF Conservation
<1>4. NoLostWakeup'
  BY DEF NoLostWakeup
<1>5. FlushShape'
  BY <1>1 DEF FlushShape, AfterFlush
<1>6. \A e \in Events : /\ rows'[e] >= rows[e]
                        /\ e \notin Range(batch) => rows'[e] = rows[e]
                        /\ rows'[e] <= rows[e] + 1
  BY DEF Stored, TypeOK
<1>7. Range(settled) \subseteq Events /\ Range(batch) \subseteq Events
  BY RangeOfSeq DEF TypeOK
<1>8. SettledAccounted'
  <2> SUFFICES ASSUME NEW e \in Range(settled')
               PROVE  rows'[e] > 0 \/ e \in dropped' \/ e \in Unencodable
    BY DEF SettledAccounted
  <2>1. CASE e \in Range(settled)
    BY <1>6, <1>7, <2>1 DEF SettledAccounted, TypeOK
  <2> QED BY <1>2, <2>1
<1>9. FreshEvents'
  BY <1>1, <1>6, EmptyFacts DEF FreshEvents
<1>10. CopiesBounded'
  BY <1>1, <1>6, EmptyFacts DEF FreshEvents, CopiesBounded, TypeOK
<1>11. FinalFlushTakesAll'
  BY <1>1, <1>2, LenProperties DEF FinalFlushTakesAll, FlushShape, AfterFlush, TypeOK
<1> QED BY <1>3, <1>4, <1>5, <1>8, <1>9, <1>10, <1>11

(* IInv is inductive. *)
LEMMA InvStep == IInv /\ [Next]_vars => IInv'
<1> SUFFICES ASSUME IInv, [Next]_vars PROVE IInv'
  OBVIOUS
<1> USE StoreAssumption
<1>0. TypeOK'
  BY TypeStep DEF IInv
<1>1. ASSUME NEW c \in Callers, NEW e \in Events, InsertEvent(c, e) PROVE IInv'
  BY <1>0, <1>1, InsertStep
<1>2. ASSUME NEW c \in Callers, Signal(c) PROVE IInv'
  BY <1>0, <1>2 DEF Signal, histVars, IInv, FlushShape, Conservation, NoLostWakeup, FreshEvents,
                    SettledAccounted, FinalFlushTakesAll, CopiesBounded
<1>3. CASE Tick
  BY <1>0, <1>3 DEF Tick, histVars, IInv, FlushShape, Conservation, NoLostWakeup, FreshEvents,
                    SettledAccounted, FinalFlushTakesAll, CopiesBounded
<1>4. CASE TakeSignal
  BY <1>0, <1>4 DEF TakeSignal, histVars, IInv, FlushShape, Conservation, NoLostWakeup,
                    FreshEvents, SettledAccounted, FinalFlushTakesAll, CopiesBounded
<1>5. CASE TakeClose
  BY <1>0, <1>5 DEF TakeClose, histVars, IInv, FlushShape, Conservation, NoLostWakeup,
                    FreshEvents, SettledAccounted, FinalFlushTakesAll, CopiesBounded
<1>6. CASE SwapBuffer
  BY <1>0, <1>6, SwapStep
<1>7. CASE WriteOk
  <2>1. \A e \in Range(batch) : rows'[e] > 0 \/ e \in Unencodable
    BY <1>7, RangeOfSeq DEF WriteOk, Stored, IInv, TypeOK
  <2> QED BY <1>0, <1>7, <2>1, FinishStep DEF WriteOk
<1>8. ASSUME NEW kept \in BOOLEAN, WriteFail(kept) PROVE IInv'
  <2>1. CASE attempt = MaxRetries - 1
    BY <1>0, <1>8, <2>1, FinishStep DEF WriteFail
  <2>2. CASE attempt # MaxRetries - 1
    <3>1. /\ flusher = "write" /\ attempt' = attempt + 1
          /\ UNCHANGED <<flusher, batch, settled, dropped, buf, signalFlush, notify, final,
                         closing, inserted, atClose>>
      BY <1>8, <2>2 DEF WriteFail
    <3>2. \A e \in Events : /\ rows'[e] >= rows[e]
                            /\ e \notin Range(batch) => rows'[e] = rows[e]
                            /\ rows'[e] <= rows[e] + 1
      BY <1>8 DEF WriteFail, Stored, IInv, TypeOK
    <3>3. CopiesBounded' /\ FreshEvents'
      BY <1>0, <2>2, <3>1, <3>2 DEF IInv, CopiesBounded, FreshEvents, TypeOK
    <3>4. SettledAccounted'
      BY <1>0, <3>1, <3>2, RangeOfSeq DEF IInv, SettledAccounted, TypeOK
    <3> QED
      BY <1>0, <3>1, <3>3, <3>4 DEF IInv, FlushShape, Conservation, NoLostWakeup, FinalFlushTakesAll
  <2> QED BY <2>1, <2>2
<1>9. CASE Close
  <2>1. Len(inserted) \in Nat /\ flusher # "done" /\ ~final
    BY <1>9, LenProperties DEF Close, IInv, TypeOK, FlushShape
  <2> QED
    BY <1>0, <1>9, <2>1 DEF Close, IInv, FlushShape, Conservation, NoLostWakeup, FreshEvents,
                            SettledAccounted, FinalFlushTakesAll, CopiesBounded
<1>10. CASE UNCHANGED vars
  BY <1>0, <1>10 DEF vars, sysVars, histVars, IInv, FlushShape, Conservation, NoLostWakeup,
                     FreshEvents, SettledAccounted, FinalFlushTakesAll, CopiesBounded
<1> QED
  BY <1>1, <1>2, <1>3, <1>4, <1>5, <1>6, <1>7, <1>8, <1>9, <1>10
     DEF Next, Insert, Flusher, Write

LEMMA InvInit == Init => IInv
<1> SUFFICES ASSUME Init PROVE IInv
  OBVIOUS
<1>1. TypeOK
  BY TypeInit
<1>2. Conservation
  BY EmptyFacts, ConcatEmptySeq DEF Init, Conservation
<1>3. NoLostWakeup /\ FlushShape /\ FinalFlushTakesAll
  BY StoreAssumption, EmptyFacts DEF Init, NoLostWakeup, FlushShape, FinalFlushTakesAll
<1>4. FreshEvents /\ SettledAccounted /\ CopiesBounded
  BY StoreAssumption, EmptyFacts DEF Init, FreshEvents, SettledAccounted, CopiesBounded
<1> QED BY <1>1, <1>2, <1>3, <1>4 DEF IInv

(* Every property of the store follows from the inductive invariant: events *)
(* are neither lost nor reordered, a full buffer is noticed, finished       *)
(* batches are accounted for, rows are bounded by the attempts, and a done  *)
(* flusher has drained what was inserted before Close.                      *)
THEOREM InvCorrect == Spec => []IInv
BY InvInit, InvStep, PTL DEF Spec

(* No inserted event is lost, duplicated or reordered between the buffer,   *)
(* the batch and the finished batches (InsertEvent, executeFlush).          *)
THEOREM ConservationCorrect == Spec => []Conservation
<1>1. IInv => Conservation
  BY DEF IInv
<1> QED BY <1>1, InvCorrect, PTL

(* A buffer at flushSize is always about to be flushed (signalFlush). *)
THEOREM NoLostWakeupCorrect == Spec => []NoLostWakeup
<1>1. IInv => NoLostWakeup
  BY DEF IInv
<1> QED BY <1>1, InvCorrect, PTL

(* Finished batches are rows, dropped after maxRetries, or unencodable. *)
THEOREM SettledAccountedCorrect == Spec => []SettledAccounted
<1>1. IInv => SettledAccounted
  BY DEF IInv
<1> QED BY <1>1, InvCorrect, PTL

(* An event has at most maxRetries rows, and none before its batch. *)
THEOREM CopiesBoundedCorrect == Spec => []CopiesBounded
<1>1. IInv => CopiesBounded
  BY DEF IInv
<1> QED BY <1>1, InvCorrect, PTL

(* When Close returns, all that was inserted before it has been flushed. *)
THEOREM CloseDrainsCorrect == Spec => []CloseDrains
<1>1. IInv => CloseDrains
  BY DEF IInv, CloseDrains, FlushShape, FinalFlushTakesAll
<1> QED BY <1>1, InvCorrect, PTL
=============================================================================
