------------------------------ MODULE Delivery ------------------------------
(***************************************************************************)
(* What the engine promises about the records of its partition, whatever    *)
(* consumer, enricher and store do to keep it: a record is acknowledged     *)
(* only while the engine has it, a graceful stop waits until everything     *)
(* acknowledged is settled, and a crash loses memory and nothing else.      *)
(* EngineIngest implements this specification.                              *)
(***************************************************************************)
EXTENDS Naturals

CONSTANT Record

VARIABLES
    acked,    \* the records that are acknowledged and not read again
    memory,   \* the records whose event the running process holds
    settled,  \* the records whose event is stored or was given up for good
    crashes   \* how often the process died without shutting down

vars == <<acked, memory, settled, crashes>>

Init == acked = {} /\ memory = {} /\ settled = {} /\ crashes = 0

(* A record is read, possibly not for the first time. *)
Receive ==
    /\ \E r \in Record \ acked : memory' = memory \cup {r}
    /\ UNCHANGED <<acked, settled, crashes>>

(* Any number of records is settled; nothing else leaves the memory. *)
Settle ==
    /\ settled \subseteq settled' /\ settled' \subseteq settled \cup memory
    /\ memory' \subseteq memory /\ memory \ memory' \subseteq settled'
    /\ UNCHANGED <<acked, crashes>>

Acknowledge ==
    /\ acked \subseteq acked' /\ acked' \ acked \subseteq memory \cup settled
    /\ UNCHANGED <<memory, settled, crashes>>

Stop ==
    /\ memory \cap acked = {}
    /\ memory' = {}
    /\ UNCHANGED <<acked, settled, crashes>>

Crash ==
    /\ memory' = {}
    /\ crashes' = crashes + 1
    /\ UNCHANGED <<acked, settled>>

Next == Receive \/ Settle \/ Acknowledge \/ Stop \/ Crash

Spec == Init /\ [][Next]_vars
=============================================================================
