---------------------------- MODULE MCFeedPages ----------------------------
(* Feeds for TLC: one whose events do not come in the order of their        *)
(* timestamps, and one with a malformed event and two events that the key   *)
(* does not tell apart.                                                     *)
EXTENDS FeedPages

Wire(key, ts, type) == [key |-> key, ts |-> ts, type |-> type]

MCWires == {
    << Wire(1, 1, "tcp"), Wire(2, 3, "sys"), Wire(3, 2, "tcp") >>,
    << Wire(1, 1, "tcp"), Wire(1, 1, "tcp"), Wire(2, 2, "bad") >> }

(* Filter is JavaScript's filter, which SelectSeq is, on every short list.  *)
ASSUME FilterIsSelectSeq ==
    \A n \in 0 .. 4 : \A s \in [1 .. n -> 1 .. 3], T \in SUBSET (1 .. 3) :
      Filter(s, T) = SelectSeq(s, LAMBDA x : x \in T)
=============================================================================
