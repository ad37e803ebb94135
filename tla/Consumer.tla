------------------------------ MODULE Consumer ------------------------------
(***************************************************************************)
(* The engine's Kafka consumer (src/engine/consumer/kafka.go): the Consume  *)
(* loop fetches records in offset order, hands valid ones to the handler    *)
(* and invalid ones to the dead-letter channel, and passes every record to  *)
(* commitWorker, which commits offsets in batches of its own.               *)
(*                                                                         *)
(* One partition of kernel.enriched with records 1 .. N.  Kafka is          *)
(* external: the group's committed offset survives the process, a commit    *)
(* may fail with or without effect, and a new process resumes after it.     *)
(***************************************************************************)
EXTENDS Integers, Sequences

CONSTANTS
    N,           \* records in the partition
    Invalid,     \* those that do not unmarshal or have an unknown event_type
    CommitCap,   \* capacity of commitCh
    DlqCap,      \* capacity of dlqCh
    CommitSize,  \* batch length at which commitWorker commits at once
    CommitOutcomes, \* does a commit take effect? the outcomes Kafka produces
    MaxRestarts  \* bound: how often a stopped process is started again

ASSUME ConsumerAssumption ==
    /\ N \in Nat
    /\ Invalid \subseteq 1 .. N
    /\ CommitCap \in Nat \ {0}
    /\ DlqCap \in Nat \ {0}
    /\ CommitSize \in Nat \ {0}
    /\ CommitOutcomes \in SUBSET BOOLEAN
    /\ MaxRestarts \in Nat

VARIABLES
    up,         \* is the process running?
    runs,       \* restarts so far
    ctxDone,    \* has main cancelled the context?
    readerOpen, \* false once Close closed the reader
    position,   \* the record Consume fetches next
    loop,       \* where the Consume loop is
    commitCh,   \* records waiting for commitWorker
    batch,      \* commitWorker's batch
    worker,     \* where commitWorker is
    dlqCh,      \* records waiting for dlqWorker
    dlqWorker,  \* where dlqWorker is
    committed,  \* Kafka: the group's committed offset
    dlq,        \* Kafka: records written to kernel.dlq
    routed      \* history: records the handler or sendDLQAsync was called for

procVars == <<up, runs, ctxDone, readerOpen>>
loopVars == <<position, loop>>
ackVars  == <<commitCh, batch, worker>>
dlqVars  == <<dlqCh, dlqWorker>>
vars     == <<procVars, loopVars, ackVars, dlqVars, committed, dlq, routed>>

Records == 1 .. N

TypeOK ==
    /\ up \in BOOLEAN
    /\ runs \in 0 .. MaxRestarts
    /\ ctxDone \in BOOLEAN
    /\ readerOpen \in BOOLEAN
    /\ position \in 1 .. N + 1
    /\ loop \in {"fetch", "route", "enqueue", "returned"}
    /\ commitCh \in Seq(Records)
    /\ Len(commitCh) <= CommitCap
    /\ batch \in Seq(Records)
    /\ worker \in {"select", "commit", "stopped"}
    /\ dlqCh \in Seq(Records)
    /\ Len(dlqCh) <= DlqCap
    /\ dlqWorker \in {"select", "stopped"}
    /\ committed \in 0 .. N
    /\ dlq \in SUBSET Records
    /\ routed \in SUBSET Records

Init ==
    /\ up = TRUE
    /\ runs = 0
    /\ ctxDone = FALSE
    /\ readerOpen = TRUE
    /\ position = 1
    /\ loop = "fetch"
    /\ commitCh = <<>>
    /\ batch = <<>>
    /\ worker = "select"
    /\ dlqCh = <<>>
    /\ dlqWorker = "select"
    /\ committed = 0
    /\ dlq = {}
    /\ routed = {}

-----------------------------------------------------------------------------
(* Consume.  The record in hand is the one before position. *)

Current == position - 1

(* Mutant: the record is acknowledged as soon as it is fetched. *)
Fetch_AckFirst ==
    /\ up
    /\ loop = "fetch"
    /\ readerOpen
    /\ position <= N
    /\ Len(commitCh) < CommitCap
    /\ commitCh' = Append(commitCh, position)
    /\ position' = position + 1
    /\ loop' = "route"
    /\ UNCHANGED <<procVars, batch, worker, dlqVars, committed, dlq, routed>>

(* FetchMessage may still return a record after the context is cancelled:   *)
(* its select picks among what is ready.                                    *)
Fetch ==
    /\ up
    /\ loop = "fetch"
    /\ readerOpen
    /\ position <= N
    /\ position' = position + 1
    /\ loop' = "route"
    /\ UNCHANGED <<procVars, ackVars, dlqVars, committed, dlq, routed>>

FetchStops ==
    /\ up
    /\ loop = "fetch"
    /\ ctxDone
    /\ loop' = "returned"
    /\ UNCHANGED <<procVars, position, ackVars, dlqVars, committed, dlq, routed>>

Handle ==
    /\ up
    /\ loop = "route"
    /\ Current \notin Invalid
    /\ routed' = routed \cup {Current}
    /\ loop' = "enqueue"
    /\ UNCHANGED <<procVars, position, ackVars, dlqVars, committed, dlq>>

(* sendDLQAsync: when dlqCh is full the record is dropped. *)
RouteInvalid ==
    /\ up
    /\ loop = "route"
    /\ Current \in Invalid
    /\ routed' = routed \cup {Current}
    /\ dlqCh' = IF Len(dlqCh) < DlqCap THEN Append(dlqCh, Current) ELSE dlqCh
    /\ loop' = "enqueue"
    /\ UNCHANGED <<procVars, position, ackVars, dlqWorker, committed, dlq>>

(* commitCh <- msg blocks while the channel is full. *)
Enqueue ==
    /\ up
    /\ loop = "enqueue"
    /\ Len(commitCh) < CommitCap
    /\ commitCh' = Append(commitCh, Current)
    /\ loop' = "fetch"
    /\ UNCHANGED <<procVars, position, batch, worker, dlqVars, committed, dlq, routed>>

-----------------------------------------------------------------------------
(* commitWorker. *)

Receive ==
    /\ up
    /\ worker = "select"
    /\ commitCh # <<>>
    /\ batch' = Append(batch, Head(commitCh))
    /\ commitCh' = Tail(commitCh)
    /\ worker' = IF Len(batch') >= CommitSize THEN "commit" ELSE "select"
    /\ UNCHANGED <<procVars, loopVars, dlqVars, committed, dlq, routed>>

(* Mutant: no ticker, only full batches are committed. *)
CommitTick_Missing == FALSE /\ UNCHANGED vars

CommitTick ==
    /\ up
    /\ worker = "select"
    /\ batch # <<>>
    /\ worker' = "commit"
    /\ UNCHANGED <<procVars, loopVars, commitCh, batch, dlqVars, committed, dlq, routed>>

(* Kafka keeps the highest offset of the batch; commits stop with Close. *)
CommitTo == batch[Len(batch)]

(* The batch is forgotten whether or not CommitMessages succeeded. *)
Commit(applied) ==
    /\ up
    /\ worker = "commit"
    /\ applied => readerOpen
    /\ committed' = IF applied THEN CommitTo ELSE committed
    /\ batch' = <<>>
    /\ worker' = "select"
    /\ UNCHANGED <<procVars, loopVars, commitCh, dlqVars, dlq, routed>>

(* ctx.Done: the batch is committed, what is still in commitCh is not. *)
WorkerStops(applied) ==
    /\ up
    /\ worker = "select"
    /\ ctxDone
    /\ applied => readerOpen /\ batch # <<>>
    /\ committed' = IF applied THEN CommitTo ELSE committed
    /\ worker' = "stopped"
    /\ UNCHANGED <<procVars, loopVars, commitCh, batch, dlqVars, dlq, routed>>

-----------------------------------------------------------------------------
(* dlqWorker: a failed write is logged and the record is gone. *)

DlqWrite(written) ==
    /\ up
    /\ dlqWorker = "select"
    /\ dlqCh # <<>>
    /\ dlq' = IF written THEN dlq \cup {Head(dlqCh)} ELSE dlq
    /\ dlqCh' = Tail(dlqCh)
    /\ UNCHANGED <<procVars, loopVars, ackVars, dlqWorker, committed, routed>>

DlqStops ==
    /\ up
    /\ dlqWorker = "select"
    /\ ctxDone
    /\ dlqWorker' = "stopped"
    /\ UNCHANGED <<procVars, loopVars, ackVars, dlqCh, committed, dlq, routed>>

-----------------------------------------------------------------------------
(* The process: main cancels, closes the consumer and exits, or it crashes. *)

Cancel ==
    /\ up
    /\ ~ctxDone
    /\ ctxDone' = TRUE
    /\ UNCHANGED <<up, runs, readerOpen, loopVars, ackVars, dlqVars, committed, dlq, routed>>

Close ==
    /\ up
    /\ ctxDone
    /\ readerOpen
    /\ readerOpen' = FALSE
    /\ UNCHANGED <<up, runs, ctxDone, loopVars, ackVars, dlqVars, committed, dlq, routed>>

(* A crash, or main returning: whatever was in memory is gone. *)
Down ==
    /\ up
    /\ up' = FALSE
    /\ UNCHANGED <<runs, ctxDone, readerOpen, loopVars, ackVars, dlqVars, committed, dlq, routed>>

Restart ==
    /\ ~up
    /\ runs < MaxRestarts
    /\ up' = TRUE
    /\ runs' = runs + 1
    /\ ctxDone' = FALSE
    /\ readerOpen' = TRUE
    /\ position' = committed + 1
    /\ loop' = "fetch"
    /\ commitCh' = <<>>
    /\ batch' = <<>>
    /\ worker' = "select"
    /\ dlqCh' = <<>>
    /\ dlqWorker' = "select"
    /\ UNCHANGED <<committed, dlq, routed>>

Consume      == Fetch \/ FetchStops \/ Handle \/ RouteInvalid \/ Enqueue
CommitWorker == \/ Receive \/ CommitTick
                \/ \E applied \in CommitOutcomes : Commit(applied)
                \/ \E applied \in BOOLEAN : WorkerStops(applied)
DlqWorker    == DlqStops \/ \E written \in BOOLEAN : DlqWrite(written)
Process      == Cancel \/ Close \/ Down \/ Restart

Next == Consume \/ CommitWorker \/ DlqWorker \/ Process

Spec == Init /\ [][Next]_vars

(* The loop and commitWorker are scheduled; nothing is assumed about        *)
(* dlqWorker, which may hang in a write to a broker that does not answer.   *)
FairSpec == Spec /\ WF_vars(Consume) /\ WF_vars(CommitWorker)

-----------------------------------------------------------------------------
(* Properties. *)

(* At least once: an offset is committed only after every record up to it   *)
(* went through the handler or the dead-letter path, in this or an earlier  *)
(* process, although commits are asynchronous, batched, may fail with or    *)
(* without effect, and are forgotten when they fail.                        *)
CommitFollowsRouting == 1 .. committed \subseteq routed

(* The committed offset never moves back, over restarts and redelivery. *)
CommittedMonotone == [][committed' >= committed]_vars

(* Why committing the last offset of a batch is enough: what the worker     *)
(* holds and what waits for it are consecutive records, up to the last one  *)
(* the loop let go of.                                                      *)
Released == IF loop \in {"route", "enqueue"} THEN position - 2 ELSE position - 1

PendingContiguous ==
    worker # "stopped" =>
        /\ \A i \in 1 .. Len(commitCh) : commitCh[i] = Released - Len(commitCh) + i
        /\ \A i \in 1 .. Len(batch) :
               batch[i] = Released - Len(commitCh) - Len(batch) + i

(* The inductive invariant: everything the loop let go of has been routed,  *)
(* and the committed offset is not past the records still pending.          *)
ReleasedRouted ==
    /\ loop \in {"route", "enqueue"} => position >= 2
    /\ \A r \in 1 .. Released : r \in routed
    /\ loop = "enqueue" => Current \in routed

CommitBehindPending ==
    /\ worker # "stopped" => committed <= Released - Len(commitCh) - Len(batch)
    /\ committed <= Released
    /\ worker = "commit" => batch # <<>>

IInv == TypeOK /\ PendingContiguous /\ ReleasedRouted /\ CommitBehindPending

(* Every record is offered to CommitMessages unless the process is          *)
(* cancelled or goes down: the tick flushes a batch that never reaches      *)
(* CommitSize.  Whether Kafka applies the commit is out of its hands.       *)
EventuallyOffered ==
    <>(\/ position = N + 1 /\ loop = "fetch" /\ commitCh = <<>> /\ batch = <<>>
       \/ ctxDone \/ ~up)
=============================================================================
