----------------------------- MODULE CausalRules -----------------------------
(***************************************************************************)
(* The rules of the causal engine (src/engine/inference/engine.go): which   *)
(* pairs of kernel events are taken for cause and effect, in which          *)
(* direction, and with which latency.                                       *)
(*                                                                         *)
(* An event is a record with its type, ts (TimestampNs), dur (DurationNs),  *)
(* tid, pid, cpu and next (SchedNextPID).  A rule returns the edge as a set *)
(* of at most one element, in place of the code's (edge, ok).               *)
(***************************************************************************)
EXTENDS Integers

CONSTANT Threshold   \* causalThresholdNs

ASSUME ThresholdAssumption == Threshold \in Nat

Types == {"tcp_send", "tcp_recv", "tcp_retransmit", "sys_read", "sys_write",
          "sched_switch", "page_fault", "block_io"}

isCrossProcCandidate(t) == t \in {"sched_switch", "page_fault"}

(* Mutant: block requests count as blocking. *)
isBlocking_Disk(t) == t \in {"sys_read", "sys_write", "block_io"}

isBlocking(t) == t \in {"sys_read", "sys_write"}

-----------------------------------------------------------------------------
(* Pairs of one window: the earlier event is the cause. *)

(* The cause types eventPairToCause names, "" for none.  The crossThread    *)
(* prefix is the boolean in the result.                                     *)
eventPairToCause(from, to, crossThread) ==
    CASE from = "tcp_send" /\ to = "tcp_recv"       -> <<crossThread, "TCP_RTT">>
      [] from = "sys_read" /\ to = "sys_write"      -> <<crossThread, "READ_TO_WRITE">>
      [] from = "sys_write" /\ to = "sys_read"      -> <<crossThread, "WRITE_TO_READ">>
      [] from = "block_io" /\ isBlocking(to)        -> <<crossThread, "DISK_TO_SYSCALL">>
      [] from = "page_fault" /\ isBlocking(to)      -> <<crossThread, "MEMORY_PRESSURE">>
      [] from = "sched_switch" /\ isBlocking(to)    -> <<crossThread, "CPU_CONTENTION">>
      [] from = to /\ ~crossThread                  -> <<FALSE, "SEQUENTIAL">>
      [] OTHER                                      -> <<FALSE, "">>

Edge(from, to, cause, latency) ==
    [from |-> from, to |-> to, cause |-> cause, latency |-> latency]

(* An edge from a to b, ids of events in ev, unless they are too far apart. *)
EdgeInOrder(ev, a, b, crossThread) ==
    LET cause == eventPairToCause(ev[a].type, ev[b].type, crossThread)
    IN  IF ev[b].ts - ev[a].ts > Threshold \/ cause[2] = ""
        THEN {}
        ELSE {Edge(a, b, cause, ev[b].ts - ev[a].ts)}

(* i arrived before j. *)
tryCreateEdge(ev, i, j, crossThread) ==
    IF ev[j].ts <= ev[i].ts
    THEN EdgeInOrder(ev, j, i, crossThread)
    ELSE EdgeInOrder(ev, i, j, crossThread)

-----------------------------------------------------------------------------
(* Pairs across processes and windows. *)

(* Start and end; durations are far too small to wrap a uint64 around. *)
IntervalEnd(e) == e.ts + e.dur

Overlap(a, b) == IntervalEnd(a) >= b.ts /\ IntervalEnd(b) >= a.ts

Distance(x, y) == IF x > y THEN x - y ELSE y - x

(* overlappingLatencyNs, then adjacentLatencyNs; a set of at most one. *)
intervalLatencyNs(a, b) ==
    IF Overlap(a, b) THEN {Distance(a.ts, b.ts)}
    ELSE LET gap == IF IntervalEnd(a) < b.ts THEN b.ts - IntervalEnd(a)
                                             ELSE a.ts - IntervalEnd(b)
         IN  IF gap > Threshold THEN {} ELSE {gap}

crossProcLatencyNs(prior, e) ==
    IF prior.type = "block_io" THEN intervalLatencyNs(prior, e)
    ELSE IF e.ts <= prior.ts \/ e.ts - prior.ts > Threshold THEN {}
    ELSE {e.ts - prior.ts}

crossProcCause(prior, e) ==
    CASE prior.type = "block_io" /\ isBlocking(e.type)      -> "DISK_TO_SYSCALL"
      [] prior.type = "sched_switch" /\ prior.next = e.pid /\ prior.cpu = e.cpu -> "SCHED_DELAY"
      [] prior.type = "page_fault"                          -> "MEMORY_PRESSURE"
      [] OTHER                                              -> ""

tryCreateCrossProcEdge(ev, p, i) ==
    IF \/ ev[p].pid = ev[i].pid /\ ev[p].type # "block_io"
       \/ crossProcCause(ev[p], ev[i]) = ""
    THEN {}
    ELSE {Edge(p, i, <<FALSE, crossProcCause(ev[p], ev[i])>>, l) :
              l \in crossProcLatencyNs(ev[p], ev[i])}
=============================================================================
