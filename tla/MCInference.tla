---------------------------- MODULE MCInference ----------------------------
(* Events for TLC: a process with two threads whose reads and writes share  *)
(* time stamps, a block request that starts after the call it delays, and a *)
(* scheduler switch on another process.                                     *)
EXTENDS Inference

Ev(type, ts, dur, tid, pid, next) ==
    [type |-> type, ts |-> ts, dur |-> dur, tid |-> tid, pid |-> pid, cpu |-> 0, next |-> next]

MCEvents ==
    { Ev("sys_read", 3, 4, 1, 1, 0), Ev("sys_write", 3, 0, 1, 1, 0),
      Ev("block_io", 5, 1, 2, 1, 0), Ev("block_io", 4, 2, 2, 1, 0),
      Ev("sched_switch", 2, 0, 3, 2, 1) }
=============================================================================
