--------------------------- MODULE ClickHouseStore ---------------------------
(***************************************************************************)
(* The engine's event store (src/engine/store/clickhouse.go): callers      *)
(* append to a buffer guarded by a mutex, one flusher goroutine swaps the  *)
(* buffer out on a tick, on a "buffer full" signal or on Close, and writes *)
(* it to ClickHouse with a bounded number of attempts.                     *)
(*                                                                         *)
(* Time is abstracted: the ticker may fire whenever the flusher is in its  *)
(* select.  ClickHouse is external: one attempt either succeeds, or fails  *)
(* before the rows are kept, or fails after they are (Send returning an    *)
(* error, or timing out, although the server took the block).              *)
(***************************************************************************)
EXTENDS Naturals, Sequences, FiniteSets, Functions

CONSTANTS
    Events,      \* the events the callers insert; each carries a fresh uuid
    Unencodable, \* those whose payload json.Marshal or Append refuses
    Callers,     \* goroutines that call InsertEvent
    FlushSize,   \* flushSize: the buffer length at which a flush is signalled
    MaxRetries   \* maxRetries: the write attempts one batch gets

ASSUME StoreAssumption ==
    /\ Unencodable \subseteq Events
    /\ FlushSize \in Nat \ {0}
    /\ MaxRetries \in Nat \ {0}

VARIABLES
    buf,         \* s.buf
    signalFlush, \* is the token in the one-slot channel s.signalFlush?
    notify,      \* callers that saw the buffer full and have not signalled yet
    flusher,     \* where the flusher goroutine is
    final,       \* was the flush in progress started by the close case?
    batch,       \* the slice executeFlush works on
    attempt,     \* i of the retry loop
    closing,     \* has Close closed s.close?
    rows,        \* rows of kprobe.kernel_events carrying each event's id
    dropped,     \* events of batches that ran out of attempts
    inserted,    \* history: every event inserted, in order
    settled,     \* history: the events of finished batches, in order
    atClose      \* history: how many events were inserted before Close

sysVars  == <<buf, signalFlush, notify, flusher, final, batch, attempt, closing>>
histVars == <<inserted, settled, atClose>>
vars     == <<sysVars, rows, dropped, histVars>>

FlusherStates == {"select", "swap", "write", "done"}

TypeOK ==
    /\ buf \in Seq(Events)
    /\ signalFlush \in BOOLEAN
    /\ notify \in SUBSET Callers
    /\ flusher \in FlusherStates
    /\ final \in BOOLEAN
    /\ batch \in Seq(Events)
    /\ attempt \in 0 .. MaxRetries - 1
    /\ closing \in BOOLEAN
    /\ rows \in [Events -> Nat]
    /\ dropped \in SUBSET Events
    /\ inserted \in Seq(Events)
    /\ settled \in Seq(Events)
    /\ atClose \in Nat

Init ==
    /\ buf = <<>>
    /\ signalFlush = FALSE
    /\ notify = {}
    /\ flusher = "select"
    /\ final = FALSE
    /\ batch = <<>>
    /\ attempt = 0
    /\ closing = FALSE
    /\ rows = [e \in Events |-> 0]
    /\ dropped = {}
    /\ inserted = <<>>
    /\ settled = <<>>
    /\ atClose = 0

-----------------------------------------------------------------------------
(* InsertEvent: the append under the lock, then the signal outside it.     *)

InsertEvent(c, e) ==
    /\ c \notin notify
    /\ e \notin Range(inserted)
    /\ buf' = Append(buf, e)
    /\ inserted' = Append(inserted, e)
    /\ notify' = IF Len(buf') >= FlushSize THEN notify \cup {c} ELSE notify
    /\ UNCHANGED <<signalFlush, flusher, final, batch, attempt, closing, rows,
                   dropped, settled, atClose>>

(* The non-blocking send: a token that is already there absorbs it. *)
Signal(c) ==
    /\ c \in notify
    /\ notify' = notify \ {c}
    /\ signalFlush' = TRUE
    /\ UNCHANGED <<buf, flusher, final, batch, attempt, closing, rows, dropped, histVars>>

-----------------------------------------------------------------------------
(* flusher: the three cases of its select. *)

(* Mutant: no ticker. *)
Tick_Missing == FALSE /\ UNCHANGED vars

Tick ==
    /\ flusher = "select"
    /\ flusher' = "swap"
    /\ UNCHANGED <<buf, signalFlush, notify, final, batch, attempt, closing, rows,
                   dropped, histVars>>

TakeSignal ==
    /\ flusher = "select"
    /\ signalFlush
    /\ flusher' = "swap"
    /\ signalFlush' = FALSE
    /\ UNCHANGED <<buf, notify, final, batch, attempt, closing, rows, dropped, histVars>>

(* Mutant: the close case returns without the last executeFlush. *)
TakeClose_NoFlush ==
    /\ flusher = "select"
    /\ closing
    /\ flusher' = "done"
    /\ final' = TRUE
    /\ UNCHANGED <<buf, signalFlush, notify, batch, attempt, closing, rows, dropped,
                   histVars>>

TakeClose ==
    /\ flusher = "select"
    /\ closing
    /\ flusher' = "swap"
    /\ final' = TRUE
    /\ UNCHANGED <<buf, signalFlush, notify, batch, attempt, closing, rows, dropped,
                   histVars>>

-----------------------------------------------------------------------------
(* executeFlush and writeBatch. *)

AfterFlush == IF final THEN "done" ELSE "select"

(* Mutant: the batch is taken but s.buf is not replaced. *)
SwapBuffer_KeepsBuffer ==
    /\ flusher = "swap"
    /\ buf # <<>>
    /\ flusher' = "write"
    /\ batch' = buf
    /\ attempt' = 0
    /\ UNCHANGED <<buf, signalFlush, notify, final, closing, rows, dropped, histVars>>

(* Under the lock: an empty buffer ends the flush, otherwise it is swapped. *)
SwapBuffer ==
    /\ flusher = "swap"
    /\ IF buf = <<>>
       THEN /\ flusher' = AfterFlush
            /\ UNCHANGED <<buf, batch, attempt>>
       ELSE /\ flusher' = "write"
            /\ batch' = buf
            /\ buf' = <<>>
            /\ attempt' = 0
    /\ UNCHANGED <<signalFlush, notify, final, closing, rows, dropped, histVars>>

(* The block one attempt sends holds a row for every event of the batch     *)
(* that encodes; the others are skipped.                                    *)
Stored == [e \in Events |-> IF e \in Range(batch) \ Unencodable THEN rows[e] + 1
                                                              ELSE rows[e]]

FinishBatch ==
    /\ flusher' = AfterFlush
    /\ settled' = settled \o batch
    /\ batch' = <<>>
    /\ attempt' = 0

(* Mutant: a finished flush also discards a pending signal. *)
WriteOk_DrainsSignal ==
    /\ flusher = "write"
    /\ rows' = Stored
    /\ FinishBatch
    /\ signalFlush' = FALSE
    /\ UNCHANGED <<buf, notify, final, closing, dropped, inserted, atClose>>

WriteOk ==
    /\ flusher = "write"
    /\ rows' = Stored
    /\ FinishBatch
    /\ UNCHANGED <<buf, signalFlush, notify, final, closing, dropped, inserted, atClose>>

(* Mutant: one attempt too many. *)
WriteFail_OffByOne(kept) ==
    /\ flusher = "write"
    /\ rows' = IF kept THEN Stored ELSE rows
    /\ IF attempt = MaxRetries
       THEN FinishBatch /\ dropped' = dropped \cup Range(batch)
       ELSE attempt' = attempt + 1 /\ UNCHANGED <<flusher, batch, settled, dropped>>
    /\ UNCHANGED <<buf, signalFlush, notify, final, closing, inserted, atClose>>

(* Mutant: the loop leaves on the first error as it does on success. *)
WriteFail_NoRetry(kept) ==
    /\ flusher = "write"
    /\ rows' = IF kept THEN Stored ELSE rows
    /\ FinishBatch
    /\ UNCHANGED <<buf, signalFlush, notify, final, closing, dropped, inserted, atClose>>

(* A failed attempt; kept says whether the server has the rows anyway. *)
WriteFail(kept) ==
    /\ flusher = "write"
    /\ rows' = IF kept THEN Stored ELSE rows
    /\ IF attempt = MaxRetries - 1
       THEN /\ FinishBatch
            /\ dropped' = dropped \cup Range(batch)
       ELSE /\ attempt' = attempt + 1
            /\ UNCHANGED <<flusher, batch, settled, dropped>>
    /\ UNCHANGED <<buf, signalFlush, notify, final, closing, inserted, atClose>>

-----------------------------------------------------------------------------
(* Close closes s.close and then waits for done; main calls it once. *)
Close ==
    /\ ~closing
    /\ closing' = TRUE
    /\ atClose' = Len(inserted)
    /\ UNCHANGED <<buf, signalFlush, notify, flusher, final, batch, attempt, rows,
                   dropped, inserted, settled>>

Insert  == \E c \in Callers : \/ \E e \in Events : InsertEvent(c, e)
                              \/ Signal(c)
Write   == WriteOk \/ \E kept \in BOOLEAN : WriteFail(kept)
Flusher == Tick \/ TakeSignal \/ TakeClose \/ SwapBuffer \/ Write

Next == Insert \/ Flusher \/ Close

Spec == Init /\ [][Next]_vars

(* The flusher goroutine is always scheduled and every attempt ends: a      *)
(* write has a five second timeout.  The select picks uniformly among its   *)
(* ready cases, so the closed channel cannot be passed over for ever.       *)
FairSpec == Spec /\ WF_vars(Flusher) /\ SF_vars(TakeClose)

-----------------------------------------------------------------------------
(* Properties. *)

(* Between the buffer, the batch in flight and the finished batches no     *)
(* event InsertEvent accepted is lost, duplicated or reordered, whatever    *)
(* the swap, the retries and concurrent inserts do.                         *)
Conservation == inserted = settled \o batch \o buf

(* A full buffer is always noticed: if the buffer has reached flushSize,    *)
(* then some caller is about to signal, or the token is in the channel, or  *)
(* the flusher is about to swap.  InsertEvent signals after it unlocks, and *)
(* drops the signal when the channel is full.                               *)
NoLostWakeup ==
    Len(buf) >= FlushSize => notify # {} \/ signalFlush \/ flusher = "swap"

(* A finished batch is accounted for: each of its events is a row, or was   *)
(* dropped after the last attempt, or could not be encoded.                 *)
SettledAccounted ==
    \A e \in Range(settled) : rows[e] > 0 \/ e \in dropped \/ e \in Unencodable

(* What Close promises when the flusher is done: everything inserted before *)
(* Close was called has been through a flush, even though the select may    *)
(* have served ticks and signals first and inserts may continue.            *)
CloseDrains == flusher = "done" => closing /\ Len(settled) >= atClose

(* writeBatch is not idempotent: a retry after an attempt the server kept   *)
(* stores the rows again.  An event is stored at most once per attempt, and *)
(* not at all before its batch is being written.                            *)
CopiesBounded ==
    \A e \in Events :
        /\ rows[e] <= MaxRetries
        /\ e \in Range(batch) => rows[e] <= attempt
        /\ e \in Range(buf) => rows[e] = 0

(* The inductive invariant behind the properties above. *)

(* Outside a write there is no batch; only the final flush reaches done. *)
FlushShape ==
    /\ flusher # "write" => batch = <<>>
    /\ final => closing /\ flusher # "select"
    /\ flusher = "done" => final

(* Uuids are fresh, so the buffer and the batch never share an event. *)
FreshEvents ==
    /\ Range(buf) \subseteq Range(inserted)
    /\ Range(batch) \subseteq Range(inserted)
    /\ Range(buf) \cap Range(batch) = {}
    /\ \A e \in Events \ Range(inserted) : rows[e] = 0

(* The swap of the final flush takes everything inserted before Close. *)
FinalFlushTakesAll ==
    /\ closing => atClose <= Len(inserted)
    /\ flusher = "write" /\ final => Len(settled) + Len(batch) >= atClose
    /\ flusher = "done" => Len(settled) >= atClose

IInv ==
    /\ TypeOK
    /\ FlushShape
    /\ Conservation
    /\ NoLostWakeup
    /\ FreshEvents
    /\ SettledAccounted
    /\ FinalFlushTakesAll
    /\ CopiesBounded

(* An event inserted while the store is open is eventually in a finished    *)
(* batch: the ticker bounds the time it spends in the buffer.               *)
EventuallySettled ==
    \A e \in Events : (e \in Range(buf) /\ ~closing) ~> (e \in Range(settled))

=============================================================================
