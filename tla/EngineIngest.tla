---------------------------- MODULE EngineIngest ----------------------------
(***************************************************************************)
(* The engine process (src/engine/main.go): the Kafka consumer's handler    *)
(* runs the enricher and inserts what it emits into the ClickHouse store,   *)
(* while the consumer acknowledges the record on its own schedule.  Main    *)
(* cancels the context on a signal and its deferred calls close the         *)
(* consumer first and the store last; a crash loses everything in memory.   *)
(*                                                                         *)
(* The module extends Consumer and instantiates ClickHouseStore as S.  Of   *)
(* the enricher it keeps what matters to delivery: the first half of a      *)
(* system call is held in memory until its other half arrives or it is      *)
(* evicted.                                                                 *)
(***************************************************************************)
EXTENDS Consumer, FiniteSets, Functions

CONSTANTS
    FlushSize, MaxRetries,  \* of the store
    Halves       \* the records that are halves of one thread's system calls

ASSUME IngestAssumption ==
    /\ FlushSize \in Nat \ {0} /\ MaxRetries \in Nat \ {0}
    /\ Halves \subseteq (1 .. N) \ Invalid

VARIABLES
    buf, signalFlush, notify, flusher, final, attempt, closing, rows, dropped,
    inserted, settled, atClose,  \* of the store
    flushBatch,  \* the store's batch
    held,        \* the half the enricher holds, 0 if none
    evicted,     \* history: halves evictStale deleted
    emitted,     \* history: records whose event was inserted before store.Close
    resumed,     \* history: the offset committed when the process started
    crashes      \* history: how often the process died without shutting down

(* What the handler emits: the records it stands for and the process that   *)
(* gave it its uuid.                                                        *)
Sources == {s \in SUBSET (1 .. N) : Cardinality(s) \in 1 .. 2}
Events  == [src : Sources, run : 0 .. MaxRestarts]

S == INSTANCE ClickHouseStore WITH
         Callers <- {"consumer"}, Unencodable <- {}, batch <- flushBatch

storeVars    == <<buf, signalFlush, notify, flusher, final, flushBatch, attempt, closing, rows,
                  dropped, inserted, settled, atClose>>
enricherVars == <<held, evicted, emitted>>
ingestVars   == <<vars, storeVars, enricherVars, resumed, crashes>>

IngestTypeOK ==
    /\ TypeOK
    /\ S!TypeOK
    /\ held \in {0} \cup Halves
    /\ evicted \in SUBSET Halves
    /\ emitted \in SUBSET (1 .. N)
    /\ resumed \in 0 .. N
    /\ crashes \in 0 .. MaxRestarts + 1

IngestInit ==
    /\ Init
    /\ S!Init
    /\ held = 0
    /\ evicted = {}
    /\ emitted = {}
    /\ resumed = 0
    /\ crashes = 0

-----------------------------------------------------------------------------
(* The handler: enricher.Process, a fresh EventID, InsertEvent. *)

Emit(src) ==
    /\ S!InsertEvent("consumer", [src |-> src, run |-> runs])
    /\ emitted' = IF closing THEN emitted ELSE emitted \cup src

HandleWhole ==
    /\ Handle
    /\ Current \notin Halves
    /\ Emit({Current})
    /\ UNCHANGED <<held, evicted, resumed, crashes>>

HandleFirstHalf ==
    /\ Handle
    /\ Current \in Halves
    /\ held = 0
    /\ held' = Current
    /\ UNCHANGED <<storeVars, evicted, emitted, resumed, crashes>>

(* Mutant: the second half is emitted alone. *)
HandleSecondHalf_Alone ==
    /\ Handle
    /\ Current \in Halves
    /\ held # 0
    /\ Emit({Current})
    /\ held' = 0
    /\ UNCHANGED <<evicted, resumed, crashes>>

HandleSecondHalf ==
    /\ Handle
    /\ Current \in Halves
    /\ held # 0
    /\ Emit({held, Current})
    /\ held' = 0
    /\ UNCHANGED <<evicted, resumed, crashes>>

EvictHeld ==
    /\ up
    /\ held # 0
    /\ held' = 0
    /\ evicted' = evicted \cup {held}
    /\ UNCHANGED <<vars, storeVars, emitted, resumed, crashes>>

(* The handler returns, after InsertEvent has signalled, before the record  *)
(* is passed on.                                                            *)
Acknowledge ==
    /\ Enqueue
    /\ notify = {}
    /\ UNCHANGED <<storeVars, enricherVars, resumed, crashes>>

ConsumerStep ==
    /\ Fetch \/ FetchStops \/ RouteInvalid \/ CommitWorker \/ DlqWorker
    /\ UNCHANGED <<storeVars, enricherVars, resumed, crashes>>

StoreStep ==
    /\ up
    /\ S!Signal("consumer") \/ S!Flusher
    /\ UNCHANGED <<vars, enricherVars, resumed, crashes>>

-----------------------------------------------------------------------------
(* main: cancel on a signal, then the deferred calls in LIFO order. *)

CancelEngine ==
    /\ Cancel
    /\ UNCHANGED <<storeVars, enricherVars, resumed, crashes>>

CloseConsumer ==
    /\ Close
    /\ UNCHANGED <<storeVars, enricherVars, resumed, crashes>>

(* Mutant: the deferred calls run in the other order. *)
CloseStore_First ==
    /\ up
    /\ ctxDone
    /\ S!Close
    /\ UNCHANGED <<vars, enricherVars, resumed, crashes>>

CloseStore ==
    /\ up
    /\ ~readerOpen
    /\ S!Close
    /\ UNCHANGED <<vars, enricherVars, resumed, crashes>>

(* store.Close has returned and main ends; nobody waits for the consumer. *)
Exit ==
    /\ flusher = "done"
    /\ Down
    /\ UNCHANGED <<storeVars, enricherVars, resumed, crashes>>

Crash ==
    /\ flusher # "done"
    /\ Down
    /\ crashes' = crashes + 1
    /\ UNCHANGED <<storeVars, enricherVars, resumed>>

RestartEngine ==
    /\ Restart
    /\ buf' = <<>> /\ signalFlush' = FALSE /\ notify' = {}
    /\ flusher' = "select" /\ final' = FALSE /\ flushBatch' = <<>> /\ attempt' = 0
    /\ closing' = FALSE /\ inserted' = <<>> /\ settled' = <<>> /\ atClose' = 0
    /\ held' = 0
    /\ resumed' = committed
    /\ UNCHANGED <<rows, dropped, evicted, emitted, crashes>>

IngestNext ==
    \/ HandleWhole \/ HandleFirstHalf \/ HandleSecondHalf \/ EvictHeld
    \/ Acknowledge \/ ConsumerStep \/ StoreStep
    \/ CancelEngine \/ CloseConsumer \/ CloseStore \/ Exit \/ Crash \/ RestartEngine

IngestSpec == IngestInit /\ [][IngestNext]_ingestVars

-----------------------------------------------------------------------------
(* Properties. *)

EventsOf(r) == {e \in Events : r \in e.src}

Durable(r)   == \E e \in EventsOf(r) : rows[e] > 0
Abandoned(r) == r \in evicted \/ \E e \in EventsOf(r) : e \in dropped
InMemory(r)  == up /\ (r = held \/ \E e \in EventsOf(r) : e \in Range(buf) \cup Range(flushBatch))

CommittedValid == (1 .. committed) \ Invalid

Kept(r) == Durable(r) \/ Abandoned(r) \/ InMemory(r)

(* As long as no process crashed, nothing acknowledged disappears without a *)
(* trace, although a record is acknowledged once its event is in memory and *)
(* main does not wait for the consumer before the store's final flush: the  *)
(* event is stored, or in memory, or was given up by the retry limit or the *)
(* eviction.  The exception is a half that a process now gone acknowledged  *)
(* and whose pair the handler had not inserted when the store was closed:   *)
(* the enricher forgot it with the process, or the pair came too late for   *)
(* the final flush.                                                         *)
AcknowledgedAccounted ==
    crashes = 0 =>
        \A r \in CommittedValid :
            \/ Kept(r)
            \/ r \in Halves \ emitted /\ (~up \/ r <= resumed)

Whole == (1 .. N) \ (Invalid \cup Halves)

(* Over any sequence of shutdowns, crashes and restarts, the event of an    *)
(* acknowledged record is lost only by a crash; a graceful shutdown, whose  *)
(* final flush may run before the handler's last insert, never loses one.   *)
LossOnlyByCrash ==
    [][\A r \in Whole : r <= committed' /\ ~Kept(r)' =>
           (r <= committed /\ ~Kept(r)) \/ crashes' > crashes]_ingestVars

(* The promise behind it, in terms of the engine's state. *)
D == INSTANCE Delivery WITH
         Record  <- Whole,
         acked   <- Whole \cap 1 .. committed,
         memory  <- {r \in Whole : InMemory(r)},
         settled <- {r \in Whole : Durable(r) \/ Abandoned(r)}

(* The engine implements it: commitWorker acknowledges only what the        *)
(* handler has taken in, a running process loses nothing from memory before *)
(* it is settled, and main exits when nothing acknowledged is left there.   *)
Delivers == D!Spec

(* The inductive invariant behind them: the consumer's, the part of the     *)
(* store's that a restart keeps, and what ties the two together.            *)

(* The records this process or an earlier one has routed. *)
Handled == IF loop = "enqueue" THEN Current ELSE Released

(* What this process handled is kept, before it is acknowledged and after. *)
HandledKept ==
    /\ resumed <= committed
    /\ up => \A r \in (resumed + 1 .. Handled) \ Invalid : Kept(r)

(* What was inserted before store.Close, and is not settled, is among the   *)
(* insertions that the final flush still takes.                             *)
OnTime == Len(settled) + 1 .. IF closing THEN atClose ELSE Len(inserted)

EmittedKept ==
    crashes = 0 =>
        \A r \in emitted :
            \/ Durable(r) \/ Abandoned(r)
            \/ up /\ \E i \in OnTime : r \in inserted[i].src

(* The consumer is closed before the store, and a closed reader commits     *)
(* nothing: what is inserted too late for the final flush is not            *)
(* acknowledged.                                                            *)
LateUnacknowledged ==
    closing => /\ ~readerOpen
               /\ \A i \in atClose + 1 .. Len(inserted) :
                      \A r \in inserted[i].src \cap Whole : r > committed

WholeKept == crashes = 0 => \A r \in Whole : r <= committed => Kept(r)

CrashesCounted == crashes <= IF up THEN runs ELSE runs + 1

IngestInv ==
    /\ IngestTypeOK
    /\ IInv
    /\ S!FlushShape /\ S!Conservation /\ S!FinalFlushTakesAll
    /\ HandledKept
    /\ EmittedKept
    /\ LateUnacknowledged
    /\ WholeKept
    /\ CrashesCounted
=============================================================================
