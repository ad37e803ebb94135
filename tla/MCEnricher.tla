----------------------------- MODULE MCEnricher -----------------------------
(* Feeds and spans for TLC: a thread with a call whose halves arrive in     *)
(* order and one whose halves do not, and a block key whose first issue has *)
(* no completion, both of which may lose more; a block key of two devices   *)
(* with a completion that overtakes its issue and one that is sent twice,   *)
(* with events that are not paired; and a request of the process that has   *)
(* spans.                                                                   *)
EXTENDS Enricher

Half(key, pid, call, phase, ts) ==
    [kind |-> "syscall", key |-> key, pid |-> pid, call |-> call, phase |-> phase,
     ts |-> ts, ret |-> IF phase = "exit" THEN call ELSE 0, copy |-> 1]

Block(key, pid, call, phase, ts) ==
    [kind |-> "block", key |-> key, pid |-> pid, call |-> call, phase |-> phase,
     ts |-> ts, ret |-> 0, copy |-> 1]

Other(pid, ts) ==
    [kind |-> "other", key |-> 0, pid |-> pid, call |-> 1, phase |-> "", ts |-> ts, ret |-> 0,
     copy |-> 1]

Again(e) == [e EXCEPT !.copy = 2]

MCFeed(f) ==
    CASE f = "thread" -> << Half(1, 1, 1, "enter", 1), Half(1, 1, 1, "exit", 2),
                            Half(1, 1, 2, "exit", 5), Half(1, 1, 2, "enter", 3) >>
      [] f = "disk"   -> << Block(2, 2, 1, "issue", 1), Block(2, 2, 2, "issue", 3),
                            Block(2, 2, 2, "complete", 4) >>
      [] f = "mixed"  -> << Block(3, 2, 1, "complete", 2), Block(3, 2, 1, "issue", 1),
                            Block(3, 2, 2, "issue", 2), Other(2, 2), Block(3, 2, 2, "", 2),
                            Block(3, 2, 2, "complete", 3), Again(Block(3, 2, 2, "complete", 3)) >>
      [] f = "traced" -> << Block(2, 1, 1, "issue", 1), Block(2, 2, 1, "complete", 2) >>

MCSpans == { [pid |-> 1, start |-> 1, end |-> 2], [pid |-> 1, start |-> 3, end |-> 4] }
=============================================================================
