------------------------ MODULE ReplaySessionProofs ------------------------
(***************************************************************************)
(* Proofs about ReplaySession and about ReplayWatch, which composes it with *)
(* the watchers' streams, for any number of events, goroutines, rewinds and *)
(* watchers, any channel capacity, and whether or not callers' contexts end *)
(* by themselves.                                                           *)
(***************************************************************************)
EXTENDS ReplayWatch, SequenceTheorems, FiniteSetTheorems, TLAPS

LEMMA InitInv == Init => IInv
<1> USE SessionAssumption
<1> SUFFICES ASSUME Init PROVE IInv
    OBVIOUS
<1>1. TypeOK
    BY DEF Init, TypeOK, Goroutines, Indices
<1>2. DeliveredOnce /\ NothingSkipped /\ LiveIsCurrent /\ LateAtMostOnce
    BY DEF Init, DeliveredOnce, InFlight, NothingSkipped, LiveIsCurrent, Live, LateAtMostOnce,
           Goroutines
<1>3. ClaimsBehindCursor /\ LateByPlace /\ Started /\ PlayingIsCurrent
    BY DEF Init, ClaimsBehindCursor, InFlight, LateByPlace, Started, PlayingIsCurrent, Goroutines
<1> QED
    BY <1>1, <1>2, <1>3 DEF IInv

LEMMA NextType == TypeOK /\ [Next]_vars => TypeOK'
<1> USE SessionAssumption DEF TypeOK, Goroutines, Indices
<1> SUFFICES ASSUME TypeOK, [Next]_vars PROVE TypeOK'
    OBVIOUS
<1>1. CASE Play
  <2>1. plays + 1 \in Goroutines /\ plays' = plays + 1 /\ cancelFn' = plays + 1
      BY <1>1 DEF Play, StartGoroutine
  <2>2. pc' = [pc EXCEPT ![plays + 1] = "top"] /\ state' = "playing"
      BY <1>1, <2>1 DEF Play, StartGoroutine
  <2>3. UNCHANGED <<cursor, index, cancelled, rewinds, from, claim, delivered, late>>
      BY <1>1 DEF Play, StartGoroutine, historyVars
  <2> QED
      BY <2>1, <2>2, <2>3
<1>2. CASE Pause
  <2>1. cancelled' \in SUBSET Goroutines /\ cancelFn' = 0 /\ state' = "paused"
      BY <1>2 DEF Pause
  <2>2. UNCHANGED <<cursor, plays, pc, index, rewinds, from, claim, delivered, late>>
      BY <1>2 DEF Pause, historyVars
  <2> QED
      BY <2>1, <2>2
<1>3. CASE Stop
  <2>1. cancelled' \in SUBSET Goroutines /\ cancelFn' = 0 /\ state' = "ready"
      BY <1>3 DEF Stop
  <2>2. UNCHANGED <<cursor, plays, pc, index, rewinds, from, claim, delivered, late>>
      BY <1>3 DEF Stop, historyVars
  <2> QED
      BY <2>1, <2>2
<1>4. ASSUME NEW i \in Indices, Rewind(i) PROVE TypeOK'
  <2>1. rewinds' \in 0 .. MaxRewinds /\ cursor' \in 0 .. EventCount /\ from' \in Indices
      BY <1>4 DEF Rewind
  <2>2. UNCHANGED <<state, cancelFn, plays, pc, index, cancelled, claim, delivered, late>>
      BY <1>4 DEF Rewind, playbackVars
  <2> QED
      BY <2>1, <2>2
<1>5. CASE Reset
  <2>1. 0 \in Indices /\ Rewind(0)
      BY <1>5 DEF Reset
  <2> HIDE DEF TypeOK, Indices
  <2> QED
      BY <2>1, <1>4
<1>6. ASSUME NEW i \in Indices, Seek(i) PROVE TypeOK'
    BY <1>6, <1>4 DEF Seek
<1>7. ASSUME NEW g \in Goroutines, runPlayback(g) PROVE TypeOK'
  <2>1. CASE Complete(g)
      BY <2>1 DEF Complete, historyVars
  <2>2. CASE Claim(g)
      BY <2>2 DEF Claim
  <2>3. CASE Deliver(g)
    <3>1. <<claim[g], index[g]>> \in (0 .. MaxRewinds) \X Indices
        OBVIOUS
    <3>2. late' \in [Goroutines -> Nat]
        BY <2>3 DEF Deliver
    <3> QED
        BY <2>3, <3>1, <3>2 DEF Deliver, sessionVars
  <2>4. CASE TimerFires(g) \/ WaitInterrupted(g) \/ Check(g)
      BY <2>4 DEF TimerFires, WaitInterrupted, Check, sessionVars, historyVars
  <2> QED
      BY <1>7, <2>1, <2>2, <2>3, <2>4 DEF runPlayback
<1>8. ASSUME NEW g \in Goroutines, CallerContextEnds(g) PROVE TypeOK'
    BY <1>8 DEF CallerContextEnds, sessionVars, historyVars
<1>9. CASE UNCHANGED vars
    BY <1>9 DEF vars, sessionVars, playbackVars, historyVars
<1> QED
    BY <1>1, <1>2, <1>3, <1>5, <1>6, <1>7, <1>8, <1>9 DEF Next, Control

(* Which goroutines are live, and how late a cancelled one can be. *)
Places == LiveIsCurrent /\ LateAtMostOnce /\ LateByPlace /\ Started /\ PlayingIsCurrent

LEMMA NextPlaces == TypeOK /\ Places /\ [Next]_vars => Places'
<1> USE SessionAssumption DEF Goroutines
<1> SUFFICES ASSUME TypeOK, Places, [Next]_vars PROVE Places'
    OBVIOUS
<1> USE DEF TypeOK, Places, LiveIsCurrent, Live, LateAtMostOnce, LateByPlace, Started,
            PlayingIsCurrent
<1>1. CASE Play
    BY <1>1 DEF Play, StartGoroutine, historyVars
<1>2. CASE Pause
    BY <1>2 DEF Pause, historyVars
<1>3. CASE Stop
    BY <1>3 DEF Stop, historyVars
<1>4. CASE Reset
    BY <1>4 DEF Reset, Rewind, playbackVars
<1>5. ASSUME NEW i \in Indices, Seek(i) PROVE Places'
    BY <1>5 DEF Seek, Rewind, playbackVars
<1>6. ASSUME NEW g \in Goroutines, runPlayback(g) PROVE Places'
  <2>1. CASE Complete(g)
      BY <2>1 DEF Complete, historyVars
  <2>2. CASE Claim(g)
      BY <2>2 DEF Claim
  <2>3. CASE Deliver(g)
      BY <2>3 DEF Deliver, sessionVars
  <2>4. CASE TimerFires(g)
      BY <2>4 DEF TimerFires, sessionVars, historyVars
  <2>5. CASE WaitInterrupted(g)
      BY <2>5 DEF WaitInterrupted, sessionVars, historyVars
  <2>6. CASE Check(g)
      BY <2>6 DEF Check, sessionVars, historyVars
  <2> QED
      BY <1>6, <2>1, <2>2, <2>3, <2>4, <2>5, <2>6 DEF runPlayback
<1>7. ASSUME NEW g \in Goroutines, CallerContextEnds(g) PROVE Places'
    BY <1>7 DEF CallerContextEnds, sessionVars, historyVars
<1>8. CASE UNCHANGED vars
    BY <1>8 DEF vars, sessionVars, playbackVars, historyVars
<1> QED
    BY <1>1, <1>2, <1>3, <1>4, <1>5, <1>6, <1>7, <1>8 DEF Next, Control

(* What happens to each event between two rewinds. *)
Once == DeliveredOnce /\ NothingSkipped /\ ClaimsBehindCursor

LEMMA NextOnce == TypeOK /\ Places /\ Once /\ [Next]_vars => Once'
<1> USE SessionAssumption DEF Goroutines
<1> SUFFICES ASSUME TypeOK, Places, Once, [Next]_vars PROVE Once'
    OBVIOUS
<1> USE DEF TypeOK, Once, DeliveredOnce, NothingSkipped, ClaimsBehindCursor, InFlight, Indices
<1>1. CASE Play
    BY <1>1 DEF Play, StartGoroutine, historyVars, Places, Started
<1>2. CASE Pause \/ Stop
  <2>1. UNCHANGED <<cursor, pc, index, rewinds, from, claim, delivered>>
      BY <1>2 DEF Pause, Stop, historyVars
  <2> QED
      BY <2>1
<1>3. ASSUME NEW i \in Indices, Rewind(i) PROVE Once'
  <2>1. DeliveredOnce'
      BY <1>3 DEF Rewind, playbackVars
  <2>2. NothingSkipped'
      BY <1>3 DEF Rewind
  <2>3. ClaimsBehindCursor'
    <3>1. rewinds' = rewinds + 1 /\ cursor' = i /\ from' = i
        BY <1>3 DEF Rewind
    <3>2. \A h \in Goroutines : claim[h] \in Nat /\ claim[h] < rewinds'
        BY <3>1
    <3>3. \A p \in delivered : p[1] \in Nat /\ p[1] < rewinds'
        BY <3>1
    <3> QED
        BY <1>3, <3>1, <3>2, <3>3 DEF Rewind, playbackVars
  <2> QED
      BY <2>1, <2>2, <2>3
<1>4. CASE Reset
    BY <1>4, <1>3 DEF Reset
<1>5. ASSUME NEW i \in Indices, Seek(i) PROVE Once'
    BY <1>5, <1>3 DEF Seek
<1>6. ASSUME NEW g \in Goroutines, runPlayback(g) PROVE Once'
  <2>1. CASE Complete(g)
      BY <2>1 DEF Complete, historyVars
  <2>2. CASE Claim(g)
    <3>1. ClaimsBehindCursor'
        BY <2>2 DEF Claim
    <3>2. DeliveredOnce'
      <4>1. ASSUME NEW h \in Goroutines, InFlight(h)', h # g
            PROVE  /\ InFlight(h)
                   /\ <<claim[h], index[h]>>' = <<claim[h], index[h]>>
                   /\ <<claim[h], index[h]>> # <<rewinds, cursor>>
          BY <2>2, <4>1 DEF Claim
      <4>2. <<claim[g], index[g]>>' = <<rewinds, cursor>>
          BY <2>2 DEF Claim
      <4>3. <<rewinds, cursor>> \notin delivered
          OBVIOUS
      <4>4. delivered' = delivered
          BY <2>2 DEF Claim
      <4>5. ASSUME NEW h \in Goroutines, InFlight(h)'
            PROVE  <<claim[h], index[h]>>' \notin delivered'
        <5>1. CASE h = g
            BY <5>1, <4>2, <4>3, <4>4
        <5>2. CASE h # g
            BY <5>2, <4>5, <4>1, <4>4
        <5> QED
            BY <5>1, <5>2
      <4>6. ASSUME NEW h \in Goroutines, NEW k \in Goroutines \ {h},
                   InFlight(h)', InFlight(k)'
            PROVE  <<claim[k], index[k]>>' # <<claim[h], index[h]>>'
        <5>1. CASE h = g
            BY <5>1, <4>6, <4>1, <4>2
        <5>2. CASE k = g
            BY <5>2, <4>6, <4>1, <4>2
        <5>3. CASE h # g /\ k # g
          <6>1. InFlight(h) /\ InFlight(k)
              BY <5>3, <4>6, <4>1
          <6>2. <<claim[k], index[k]>> # <<claim[h], index[h]>>
              BY <6>1, <4>6 DEF DeliveredOnce
          <6> QED
              BY <6>2, <5>3, <4>6, <4>1
        <5> QED
            BY <5>1, <5>2, <5>3
      <4> QED
          BY <4>5, <4>6 DEF DeliveredOnce
    <3>3. NothingSkipped'
        BY <2>2 DEF Claim
    <3> QED
        BY <3>1, <3>2, <3>3
  <2>3. CASE Deliver(g)
    <3>1. ClaimsBehindCursor'
        BY <2>3 DEF Deliver, sessionVars
    <3>2. DeliveredOnce'
        BY <2>3 DEF Deliver, sessionVars
    <3>3. NothingSkipped'
        BY <2>3 DEF Deliver, sessionVars
    <3> QED
        BY <3>1, <3>2, <3>3
  <2>4. CASE TimerFires(g)
      BY <2>4 DEF TimerFires, sessionVars, historyVars
  <2>5. CASE WaitInterrupted(g)
      BY <2>5 DEF WaitInterrupted, sessionVars, historyVars
  <2>6. CASE Check(g)
      BY <2>6 DEF Check, sessionVars, historyVars
  <2> QED
      BY <1>6, <2>1, <2>2, <2>3, <2>4, <2>5, <2>6 DEF runPlayback
<1>7. ASSUME NEW g \in Goroutines, CallerContextEnds(g) PROVE Once'
    BY <1>7 DEF CallerContextEnds, sessionVars, historyVars
<1>8. CASE UNCHANGED vars
    BY <1>8 DEF vars, sessionVars, playbackVars, historyVars
<1> QED
    BY <1>1, <1>2, <1>4, <1>5, <1>6, <1>7, <1>8 DEF Next, Control

(* The inductive invariant holds in every behaviour of the session. *)
THEOREM InvCorrect == Spec => []IInv
<1>1. IInv /\ [Next]_vars => IInv'
    BY NextType, NextPlaces, NextOnce DEF IInv, Places, Once
<1> QED
    BY InitInv, <1>1, PTL DEF Spec

(* No event is handed to onEvent twice between two rewinds, for any number  *)
(* of overlapping playback goroutines.                                      *)
THEOREM DeliveredOnceCorrect == Spec => []DeliveredOnce
<1>1. IInv => DeliveredOnce
    BY DEF IInv
<1> QED
    BY InvCorrect, <1>1, PTL

(* No command makes runPlayback lose an event it claimed. *)
THEOREM NothingSkippedCorrect == Spec => []NothingSkipped
<1>1. IInv => NothingSkipped
    BY DEF IInv
<1> QED
    BY InvCorrect, <1>1, PTL

(* At most one goroutine plays without having been cancelled, and Pause and *)
(* Stop reach it.                                                           *)
THEOREM LiveIsCurrentCorrect == Spec => []LiveIsCurrent
<1>1. IInv => LiveIsCurrent
    BY DEF IInv
<1> QED
    BY InvCorrect, <1>1, PTL

(* A cancelled goroutine delivers at most one more event. *)
THEOREM LateAtMostOnceCorrect == Spec => []LateAtMostOnce
<1>1. IInv => LateAtMostOnce
    BY DEF IInv
<1> QED
    BY InvCorrect, <1>1, PTL

(* While the state is playing, a goroutine that no command has cancelled is *)
(* at work unless its caller's context ended.                               *)
THEOREM PlayingIsLiveCorrect == Spec => []PlayingIsLive
<1>1. IInv => PlayingIsLive
    BY SessionAssumption
       DEF IInv, TypeOK, PlayingIsLive, PlayingIsCurrent, Started, Live, Goroutines
<1> QED
    BY InvCorrect, <1>1, PTL

-----------------------------------------------------------------------------
(* ReplayWatch implements ReplaySession: fanning out and watching leave the  *)
(* session alone, and the callback ends where Deliver stands.                *)

LEMMA WatchStep == [WatchNext]_allVars => [Next]_vars
<1> SUFFICES ASSUME [WatchNext]_allVars PROVE [Next]_vars
    OBVIOUS
<1>1. CASE Command
    BY <1>1 DEF Command, Next
<1>2. ASSUME NEW g \in Goroutines, Playback(g) PROVE [Next]_vars
    BY <1>2 DEF Playback, FanOutLock, FanOutSend, FanOutUnlock, Next, runPlayback
<1>3. ASSUME NEW g \in Goroutines, RpcEnds(g) PROVE [Next]_vars
    BY <1>3 DEF RpcEnds, Next
<1>4. ASSUME NEW w \in Watchers, WatchReplay(w) PROVE UNCHANGED vars
    BY <1>4 DEF WatchReplay, addWatcher, Receive, Respond, SendFails, ClientGone, Leave,
                removeWatcher
<1>5. CASE UNCHANGED allVars
    BY <1>5 DEF allVars
<1> QED
    BY <1>1, <1>2, <1>3, <1>4, <1>5 DEF WatchNext

(* The streams do not change what the session does: ReplayWatch implements   *)
(* ReplaySession, so that everything proved of the session holds with any    *)
(* number of watchers.                                                       *)
THEOREM WatchImplementsSession == WatchSpec => Spec
<1>1. WatchInit => Init
    BY DEF WatchInit
<1> QED
    BY <1>1, WatchStep, PTL DEF WatchSpec, Spec

-----------------------------------------------------------------------------
(* Facts about sequences. *)

LEMMA EmptySequence == ASSUME NEW S PROVE <<>> \in Seq(S)
    OBVIOUS

LEMMA OneElement == ASSUME NEW S, NEW e \in S PROVE <<e>> \in Seq(S)
    OBVIOUS

LEMMA ToSetOfSeq ==
    ASSUME NEW S, NEW s \in Seq(S)
    PROVE  ToSet(s) = {s[i] : i \in 1 .. Len(s)}
    BY DEF ToSet

(* A sequence without repetitions has as many elements as its length says. *)
LEMMA InjectiveCardinality ==
    ASSUME NEW S, NEW s \in Seq(S), IsInjective(s)
    PROVE  Cardinality(ToSet(s)) = Len(s)
<1>1. Len(s) \in Nat /\ s \in [1 .. Len(s) -> ToSet(s)]
    BY DEF ToSet
<1>2. s \in Injection(1 .. Len(s), ToSet(s))
    BY <1>1 DEF Injection
<1>3. s \in Surjection(1 .. Len(s), ToSet(s))
    BY <1>1 DEF Surjection, ToSet
<1>4. ExistsBijection(1 .. Len(s), ToSet(s))
    BY <1>2, <1>3 DEF ExistsBijection, Bijection
<1> QED
    BY <1>1, <1>4, FS_CountingElements

(* Appending an element that is not there. *)
LEMMA AppendNew ==
    ASSUME NEW S, NEW s \in Seq(S), NEW e \in S, e \notin ToSet(s)
    PROVE  /\ Append(s, e) \in Seq(S)
           /\ ToSet(Append(s, e)) = ToSet(s) \cup {e}
           /\ IsInjective(s) => IsInjective(Append(s, e))
<1>1. /\ Append(s, e) \in Seq(S) /\ Len(s) \in Nat /\ Len(Append(s, e)) = Len(s) + 1
      /\ \A i \in 1 .. Len(s) : Append(s, e)[i] = s[i]
      /\ Append(s, e)[Len(s) + 1] = e
    BY AppendProperties
<1>2. ToSet(s) = {s[i] : i \in 1 .. Len(s)}
    BY ToSetOfSeq
<1>3. ToSet(Append(s, e)) = {Append(s, e)[i] : i \in 1 .. Len(s) + 1}
    BY <1>1, ToSetOfSeq
<1>4. ToSet(Append(s, e)) = ToSet(s) \cup {e}
    BY <1>1, <1>2, <1>3
<1>5. ASSUME IsInjective(s) PROVE IsInjective(Append(s, e))
  <2>1. \A i \in 1 .. Len(s) : s[i] # e
      BY <1>2
  <2>2. DOMAIN s = 1 .. Len(s) /\ DOMAIN Append(s, e) = 1 .. Len(s) + 1
      BY <1>1
  <2> QED
      BY <1>1, <1>5, <2>1, <2>2 DEF IsInjective
<1> QED
    BY <1>1, <1>4, <1>5

(* What a call sent, holds and has in its channel, seen as one sequence:     *)
(* only FanOutSend changes it.                                               *)
LEMMA ReceiveKeeps ==
    ASSUME NEW S, NEW g \in Seq(S), NEW ch \in Seq(S), ch # <<>>
    PROVE  g \o <<Head(ch)>> \o Tail(ch) = g \o <<>> \o ch
<1>1. Head(ch) \in S /\ Tail(ch) \in Seq(S) /\ ch = <<Head(ch)>> \o Tail(ch)
    OBVIOUS
<1>2. <<Head(ch)>> \in Seq(S)
    BY <1>1
<1>3. (g \o <<Head(ch)>>) \o Tail(ch) = g \o (<<Head(ch)>> \o Tail(ch))
    BY <1>1, <1>2, ConcatAssociative
<1> QED
    BY <1>1, <1>3, ConcatEmptySeq

LEMMA RespondKeeps ==
    ASSUME NEW S, NEW g \in Seq(S), NEW h \in Seq(S), NEW ch \in Seq(S)
    PROVE  (g \o h) \o <<>> \o ch = g \o h \o ch
<1>1. g \o h \in Seq(S)
    BY ConcatProperties
<1> QED
    BY <1>1, ConcatEmptySeq

LEMMA SendAppends ==
    ASSUME NEW S, NEW g \in Seq(S), NEW h \in Seq(S), NEW ch \in Seq(S), NEW e \in S
    PROVE  g \o h \o Append(ch, e) = Append(g \o h \o ch, e)
<1>1. g \o h \in Seq(S) /\ <<e>> \in Seq(S)
    BY ConcatProperties, OneElement
<1>2. g \o h \o ch \in Seq(S)
    BY <1>1, ConcatProperties
<1>3. Append(ch, e) = ch \o <<e>> /\ Append(g \o h \o ch, e) = (g \o h \o ch) \o <<e>>
    BY <1>2, AppendIsConcat
<1> QED
    BY <1>1, <1>3, ConcatAssociative

(* The head of a sequence without repetitions is not in its tail. *)
LEMMA TailRemoves ==
    ASSUME NEW S, NEW s \in Seq(S), s # <<>>, IsInjective(s)
    PROVE  /\ Head(s) \in ToSet(s) /\ Tail(s) \in Seq(S)
           /\ ToSet(Tail(s)) = ToSet(s) \ {Head(s)}
           /\ IsInjective(Tail(s))
<1>1. /\ Len(s) \in Nat \ {0} /\ Head(s) = s[1] /\ Tail(s) \in Seq(S)
      /\ Len(Tail(s)) = Len(s) - 1 /\ \A i \in 1 .. Len(s) - 1 : Tail(s)[i] = s[i + 1]
    OBVIOUS
<1>2. \A i, j \in 1 .. Len(s) : s[i] = s[j] => i = j
    BY DEF IsInjective
<1>3. DOMAIN Tail(s) = 1 .. Len(s) - 1
    BY <1>1
<1>4. ToSet(s) = {s[i] : i \in 1 .. Len(s)} /\ ToSet(Tail(s)) = {Tail(s)[i] : i \in 1 .. Len(s) - 1}
    BY <1>1, ToSetOfSeq
<1>5. ASSUME NEW x \in ToSet(s), x # Head(s) PROVE x \in ToSet(Tail(s))
  <2>1. PICK i \in 1 .. Len(s) : x = s[i]
      BY <1>4
  <2>2. i - 1 \in 1 .. Len(s) - 1 /\ Tail(s)[i - 1] = x
      BY <1>1, <1>5, <2>1
  <2> QED
      BY <1>4, <2>2
<1>6. ASSUME NEW x \in ToSet(Tail(s)) PROVE x \in ToSet(s) /\ x # Head(s)
  <2>1. PICK i \in 1 .. Len(s) - 1 : x = Tail(s)[i]
      BY <1>4
  <2>2. i + 1 \in 1 .. Len(s) /\ x = s[i + 1] /\ i + 1 # 1 /\ 1 \in 1 .. Len(s)
      BY <1>1, <2>1
  <2> QED
      BY <1>1, <1>2, <1>4, <2>2
<1>7. IsInjective(Tail(s))
  <2> SUFFICES ASSUME NEW i \in 1 .. Len(s) - 1, NEW j \in 1 .. Len(s) - 1,
                      Tail(s)[i] = Tail(s)[j]
               PROVE  i = j
      BY <1>3 DEF IsInjective
  <2>1. s[i + 1] = s[j + 1] /\ i + 1 \in 1 .. Len(s) /\ j + 1 \in 1 .. Len(s)
      BY <1>1
  <2> QED
      BY <1>2, <2>1
<1> QED
    BY <1>1, <1>4, <1>5, <1>6, <1>7

(* Removing one place of a sequence without repetitions. *)
LEMMA RemoveAtRemoves ==
    ASSUME NEW S, NEW s \in Seq(S), IsInjective(s), NEW k \in 1 .. Len(s)
    PROVE  /\ RemoveAt(s, k) \in Seq(S)
           /\ ToSet(RemoveAt(s, k)) = ToSet(s) \ {s[k]}
           /\ IsInjective(RemoveAt(s, k))
<1> DEFINE r == RemoveAt(s, k)
           a == SubSeq(s, 1, k - 1)
           b == SubSeq(s, k + 1, Len(s))
<1>1. Len(s) \in Nat /\ \A i \in 1 .. Len(s) : s[i] \in S
    BY ElementOfSeq
<1>2. a \in Seq(S) /\ Len(a) = k - 1 /\ \A i \in 1 .. k - 1 : a[i] = s[i]
    BY <1>1, SubSeqProperties
<1>3. b \in Seq(S) /\ Len(b) = Len(s) - k /\ \A i \in 1 .. Len(s) - k : b[i] = s[k + i]
    BY <1>1, SubSeqProperties
<1>4. r = a \o b
    BY DEF RemoveAt
<1> HIDE DEF a, b, r
<1>5. /\ r \in Seq(S) /\ Len(r) = Len(s) - 1
      /\ \A i \in 1 .. Len(s) - 1 : r[i] = IF i < k THEN s[i] ELSE s[i + 1]
  <2>1. /\ r \in Seq(S) /\ Len(r) = Len(a) + Len(b)
        /\ \A i \in 1 .. Len(a) + Len(b) : r[i] = IF i <= Len(a) THEN a[i] ELSE b[i - Len(a)]
      BY <1>2, <1>3, <1>4, ConcatProperties
  <2>2. Len(a) + Len(b) = Len(s) - 1
      BY <1>1, <1>2, <1>3
  <2>3. ASSUME NEW i \in 1 .. Len(s) - 1 PROVE r[i] = IF i < k THEN s[i] ELSE s[i + 1]
    <3>1. CASE i < k
        BY <1>1, <1>2, <2>1, <2>2, <3>1
    <3>2. CASE i >= k
      <4>1. i - (k - 1) \in 1 .. Len(s) - k /\ k + (i - (k - 1)) = i + 1
          BY <1>1, <3>2
      <4>2. r[i] = b[i - (k - 1)]
          BY <1>1, <1>2, <2>1, <2>2, <3>2
      <4> QED
          BY <1>3, <3>2, <4>1, <4>2
    <3> QED
        BY <1>1, <3>1, <3>2
  <2> QED
      BY <2>1, <2>2, <2>3
<1>6. \A i, j \in 1 .. Len(s) : s[i] = s[j] => i = j
    BY DEF IsInjective
<1>7. ToSet(s) = {s[i] : i \in 1 .. Len(s)} /\ ToSet(r) = {r[i] : i \in 1 .. Len(s) - 1}
    BY <1>5, ToSetOfSeq
<1>8. ASSUME NEW x \in ToSet(s), x # s[k] PROVE x \in ToSet(r)
  <2>1. PICK i \in 1 .. Len(s) : x = s[i]
      BY <1>7
  <2>2. CASE i < k
      BY <1>1, <1>5, <1>7, <2>1, <2>2
  <2>3. CASE i > k
    <3>1. i - 1 \in 1 .. Len(s) - 1 /\ r[i - 1] = x
        BY <1>1, <1>5, <2>1, <2>3
    <3> QED
        BY <1>7, <3>1
  <2> QED
      BY <1>1, <1>8, <2>1, <2>2, <2>3
<1>9. ASSUME NEW x \in ToSet(r) PROVE x \in ToSet(s) /\ x # s[k]
  <2>1. PICK i \in 1 .. Len(s) - 1 : x = r[i]
      BY <1>7
  <2>2. CASE i < k
      BY <1>1, <1>5, <1>6, <1>7, <2>1, <2>2
  <2>3. CASE i >= k
    <3>1. i + 1 \in 1 .. Len(s) /\ x = s[i + 1] /\ i + 1 # k
        BY <1>1, <1>5, <2>1, <2>3
    <3> QED
        BY <1>6, <1>7, <3>1
  <2> QED
      BY <1>1, <2>2, <2>3
<1>10. IsInjective(r)
  <2>1. DOMAIN r = 1 .. Len(s) - 1
      BY <1>5
  <2> QED
      BY <1>1, <1>5, <1>6, <2>1 DEF IsInjective
<1> QED
    BY <1>5, <1>8, <1>9, <1>10 DEF r

(* A non-empty set of positions has a first one. *)
LEMMA FirstPosition ==
    ASSUME NEW n \in Nat, NEW I \in SUBSET (1 .. n), I # {}
    PROVE  Min(I) \in I
<1> DEFINE R == {ss \in Nat \X Nat : ss[1] < ss[2]}
<1>1. IsWellFoundedOn(R, Nat)
    BY NatLessThanWellFounded DEF OpToRel
<1>2. I \subseteq Nat
    OBVIOUS
<1> HIDE DEF R
<1>3. PICK m \in I : \A i \in I : ~(<<i, m>> \in R)
    BY <1>1, <1>2, WFMin
<1>4. ASSUME NEW i \in I PROVE m <= i
  <2>1. i \in Nat /\ m \in Nat /\ ~(<<i, m>> \in R)
      BY <1>2, <1>3
  <2>2. i < m => <<i, m>> \in R
      BY <2>1 DEF R
  <2> QED
      BY <2>1, <2>2
<1> QED
    BY <1>4 DEF Min

LEMMA RemoveFirstRemoves ==
    ASSUME NEW S, NEW s \in Seq(S), IsInjective(s), NEW e \in ToSet(s)
    PROVE  /\ RemoveFirst(s, e) \in Seq(S)
           /\ ToSet(RemoveFirst(s, e)) = ToSet(s) \ {e}
           /\ IsInjective(RemoveFirst(s, e))
<1> DEFINE I == {i \in 1 .. Len(s) : s[i] = e}
<1>1. I \in SUBSET (1 .. Len(s)) /\ I # {} /\ Len(s) \in Nat
    BY DEF ToSet
<1>2. Min(I) \in I
    BY <1>1, FirstPosition
<1>3. RemoveFirst(s, e) = RemoveAt(s, Min(I))
    BY <1>1 DEF RemoveFirst, SelectInSeq
<1>4. Min(I) \in 1 .. Len(s) /\ s[Min(I)] = e
    BY <1>2
<1> HIDE DEF I
<1> QED
    BY <1>3, <1>4, RemoveAtRemoves

LEMMA GotType == ASSUME WatchTypeOK, NEW w \in Watchers PROVE Got(w) \in Seq(Tags)
<1>1. sent[w] \in Seq(Tags) /\ held[w] \in Seq(Tags) /\ chan[w] \in Seq(Tags)
    BY DEF WatchTypeOK
<1>2. sent[w] \o held[w] \in Seq(Tags)
    BY <1>1, ConcatProperties
<1> QED
    BY <1>1, <1>2, ConcatProperties DEF Got

-----------------------------------------------------------------------------
(* The watchers' invariant. *)

LEMMA WatchInitInv == WatchInit => WatchInv
<1> SUFFICES ASSUME WatchInit PROVE WatchInv
    OBVIOUS
<1>1. IInv /\ TypeOK
    BY InitInv DEF WatchInit, IInv
<1>2. /\ <<>> \in Seq(Watchers) /\ <<>> \in Seq(Tags) /\ Len(<<>>) = 0
      /\ ToSet(<<>>) = {} /\ IsInjective(<<>>)
    BY DEF ToSet, IsInjective
<1>3. WatchTypeOK
    BY <1>1, <1>2, WatchAssumption DEF WatchInit, WatchTypeOK
<1>4. FanOuts /\ Calls
    BY <1>2 DEF WatchInit, FanOuts, Calls
<1>5. \A w \in ToSet(watchChans) : Reached(w)
    BY <1>2 DEF WatchInit
<1> QED
    BY <1>1, <1>3, <1>4, <1>5 DEF WatchInv

(* What the session does on its own. *)
SessionStep ==
    \/ Control
    \/ \E g \in Goroutines :
          \/ Complete(g) \/ Claim(g) \/ TimerFires(g) \/ WaitInterrupted(g) \/ Check(g)
          \/ CallerContextEnds(g)

(* The event a goroutine fans out stays in its hands. *)
LEMMA HandsKept ==
    ASSUME TypeOK, Started, SessionStep \/ UNCHANGED vars
    PROVE  /\ delivered' = delivered
           /\ \A g \in Goroutines : InFlight(g) => InFlight(g)' /\ Tag(g)' = Tag(g)
<1> USE SessionAssumption DEF TypeOK, InFlight, Tag
<1>1. CASE Play
  <2>1. plays + 1 \in Goroutines /\ pc[plays + 1] = "unborn"
      BY <1>1 DEF Play, StartGoroutine, Started, Goroutines
  <2> QED
      BY <1>1, <2>1 DEF Play, StartGoroutine, historyVars
<1>2. CASE Pause \/ Stop
    BY <1>2 DEF Pause, Stop, historyVars
<1>3. CASE Reset \/ \E i \in Indices : Seek(i)
    BY <1>3 DEF Reset, Seek, Rewind, playbackVars
<1>4. ASSUME NEW g \in Goroutines,
             \/ Complete(g) \/ Claim(g) \/ TimerFires(g) \/ WaitInterrupted(g) \/ Check(g)
             \/ CallerContextEnds(g)
      PROVE  /\ delivered' = delivered
             /\ \A h \in Goroutines : InFlight(h) => InFlight(h)' /\ Tag(h)' = Tag(h)
  <2>1. CASE Claim(g)
      BY <2>1 DEF Claim
  <2>2. CASE ~Claim(g)
      BY <1>4, <2>2 DEF Complete, TimerFires, WaitInterrupted, Check, CallerContextEnds, historyVars
  <2> QED
      BY <2>1, <2>2
<1>5. CASE UNCHANGED vars
    BY <1>5 DEF vars, playbackVars, historyVars
<1> QED
    BY <1>1, <1>2, <1>3, <1>4, <1>5 DEF SessionStep, Control

(* A step of the composition is one of the session, of a fan-out, of a       *)
(* call, or none.                                                            *)
LEMMA WatchCases ==
    ASSUME [WatchNext]_allVars
    PROVE  \/ (SessionStep \/ UNCHANGED vars) /\ UNCHANGED <<fanVars, watchVars>>
           \/ \E g \in Goroutines : FanOutLock(g) \/ FanOutSend(g) \/ FanOutUnlock(g)
           \/ \E w \in Watchers : WatchReplay(w)
    BY DEF WatchNext, allVars, Command, Playback, RpcEnds, SessionStep

LEMMA WatchTypeStep ==
    ASSUME WatchInv, [WatchNext]_allVars
    PROVE  WatchTypeOK'
<1>1. TypeOK'
    BY WatchStep, NextType DEF WatchInv, IInv
<1> USE WatchAssumption DEF WatchInv, WatchTypeOK, fanVars, watchVars
<1>2. CASE UNCHANGED <<fanVars, watchVars>>
    BY <1>1, <1>2
<1>3. ASSUME NEW g \in Goroutines, FanOutLock(g) PROVE WatchTypeOK'
    BY <1>1, <1>3 DEF FanOutLock
<1>4. ASSUME NEW g \in Goroutines, FanOutSend(g) PROVE WatchTypeOK'
  <2> DEFINE w == Head(todo[g])
             tag == <<claim[g], index[g]>>
  <2>1. w \in Watchers /\ Tail(todo[g]) \in Seq(Watchers)
      BY <1>4 DEF FanOutSend
  <2>2. tag \in Tags
      BY DEF TypeOK, Tags
  <2>3. todo' = [todo EXCEPT ![g] = Tail(todo[g])]
        /\ UNCHANGED <<watchChans, fanning, place, held, sent, before>>
      BY <1>4 DEF FanOutSend
  <2>4. todo' \in [Goroutines -> Seq(Watchers)]
      BY <2>1, <2>3
  <2>5. \/ Len(chan[w]) < WatchCap /\ chan' = [chan EXCEPT ![w] = Append(chan[w], tag)]
           /\ missed' = missed
        \/ missed' = [missed EXCEPT ![w] = missed[w] \cup {tag}] /\ chan' = chan
      BY <1>4 DEF FanOutSend
  <2> HIDE DEF w, tag
  <2>6. CASE /\ Len(chan[w]) < WatchCap
             /\ chan' = [chan EXCEPT ![w] = Append(chan[w], tag)] /\ missed' = missed
    <3>1. chan[w] \in Seq(Tags) /\ Len(chan[w]) \in Nat
        BY <2>1
    <3>2. Append(chan[w], tag) \in Seq(Tags) /\ Len(Append(chan[w], tag)) = Len(chan[w]) + 1
        BY <2>2, <3>1, AppendProperties
    <3>3. chan' \in [Watchers -> Seq(Tags)]
        BY <2>6, <3>2
    <3>4. \A v \in Watchers : chan'[v] = IF v = w THEN Append(chan[w], tag) ELSE chan[v]
        BY <2>6
    <3>5. \A v \in Watchers : Len(chan'[v]) <= WatchCap
        BY <2>6, <3>1, <3>2, <3>4
    <3> QED
        BY <1>1, <2>3, <2>4, <2>6, <3>3, <3>5
  <2>7. CASE missed' = [missed EXCEPT ![w] = missed[w] \cup {tag}] /\ chan' = chan
    <3>1. missed[w] \cup {tag} \in SUBSET Tags
        BY <2>1, <2>2
    <3>2. missed' \in [Watchers -> SUBSET Tags]
        BY <2>7, <3>1
    <3> QED
        BY <1>1, <2>3, <2>4, <2>7, <3>2
  <2> QED
      BY <2>5, <2>6, <2>7
<1>5. ASSUME NEW g \in Goroutines, FanOutUnlock(g) PROVE WatchTypeOK'
    BY <1>1, <1>5 DEF FanOutUnlock
<1>6. ASSUME NEW w \in Watchers, WatchReplay(w) PROVE WatchTypeOK'
  <2>1. CASE addWatcher(w)
    <3>1. Append(watchChans, w) \in Seq(Watchers) /\ delivered \in SUBSET Tags
        BY DEF TypeOK, Tags
    <3> QED
        BY <1>1, <2>1, <3>1 DEF addWatcher
  <2>2. CASE Receive(w)
    <3>1. <<Head(chan[w])>> \in Seq(Tags) /\ Tail(chan[w]) \in Seq(Tags)
          /\ Len(Tail(chan[w])) <= WatchCap
        BY <2>2 DEF Receive
    <3> QED
        BY <1>1, <2>2, <3>1 DEF Receive
  <2>3. CASE Respond(w)
    <3>1. sent[w] \o held[w] \in Seq(Tags) /\ <<>> \in Seq(Tags)
        BY EmptySequence, ConcatProperties
    <3>2. place' \in [Watchers -> {"idle", "select", "respond", "leave", "returned"}]
        BY <2>3 DEF Respond
    <3> QED
        BY <1>1, <2>3, <3>1, <3>2 DEF Respond
  <2>4. CASE SendFails(w) \/ ClientGone(w)
      BY <1>1, <2>4 DEF SendFails, ClientGone, Leave
  <2>5. CASE removeWatcher(w)
    <3>1. w \in ToSet(watchChans) /\ IsInjective(watchChans)
        BY <2>5 DEF removeWatcher, Calls, FanOuts
    <3>2. RemoveFirst(watchChans, w) \in Seq(Watchers)
        BY <3>1, RemoveFirstRemoves
    <3> QED
        BY <1>1, <2>5, <3>2 DEF removeWatcher
  <2> QED
      BY <1>6, <2>1, <2>2, <2>3, <2>4, <2>5 DEF WatchReplay
<1> QED
    BY <1>2, <1>3, <1>4, <1>5, <1>6, WatchCases

LEMMA FanOutsStep ==
    ASSUME WatchInv, [WatchNext]_allVars
    PROVE  FanOuts'
<1> USE DEF fanVars, watchVars
<1>1. /\ watchChans \in Seq(Watchers) /\ todo \in [Goroutines -> Seq(Watchers)]
      /\ fanning \subseteq Goroutines /\ TypeOK /\ Started /\ FanOuts /\ Calls
    BY DEF WatchInv, WatchTypeOK, IInv
<1>2. CASE (SessionStep \/ UNCHANGED vars) /\ UNCHANGED <<fanVars, watchVars>>
  <2>1. \A g \in fanning : InFlight(g)'
      BY <1>1, <1>2, HandsKept DEF FanOuts
  <2> QED
      BY <1>1, <1>2, <2>1 DEF FanOuts
<1>3. ASSUME NEW g \in Goroutines, FanOutLock(g) PROVE FanOuts'
    BY <1>1, <1>3 DEF FanOutLock, FanOuts, InFlight, vars, playbackVars
<1>4. ASSUME NEW g \in Goroutines, FanOutSend(g) PROVE FanOuts'
  <2>1. /\ g \in fanning /\ todo[g] # <<>> /\ todo' = [todo EXCEPT ![g] = Tail(todo[g])]
        /\ UNCHANGED <<pc, watchChans, fanning>>
      BY <1>4 DEF FanOutSend, vars, playbackVars
  <2>2. todo[g] \in Seq(Watchers) /\ IsInjective(todo[g])
      BY <1>1, <2>1 DEF FanOuts
  <2>3. ToSet(Tail(todo[g])) = ToSet(todo[g]) \ {Head(todo[g])} /\ IsInjective(Tail(todo[g]))
      BY <2>1, <2>2, TailRemoves
  <2>4. todo'[g] = Tail(todo[g]) /\ \A h \in fanning \ {g} : todo'[h] = todo[h]
      BY <1>1, <2>1
  <2> QED
      BY <1>1, <2>1, <2>3, <2>4 DEF FanOuts, InFlight
<1>5. ASSUME NEW g \in Goroutines, FanOutUnlock(g) PROVE FanOuts'
  <2>1. UNCHANGED <<watchChans, todo>> /\ fanning' = fanning \ {g}
      BY <1>5 DEF FanOutUnlock
  <2>2. \A h \in fanning \ {g} : InFlight(h)'
      BY <1>1, <1>5 DEF FanOutUnlock, Deliver, FanOuts, InFlight, TypeOK
  <2> QED
      BY <1>1, <2>1, <2>2 DEF FanOuts
<1>6. ASSUME NEW w \in Watchers, WatchReplay(w) PROVE FanOuts'
  <2>1. CASE addWatcher(w)
    <3>1. fanning' = {} /\ watchChans' = Append(watchChans, w) /\ w \notin ToSet(watchChans)
        BY <1>1, <2>1 DEF addWatcher, Calls
    <3>2. IsInjective(watchChans')
        BY <1>1, <3>1, AppendNew DEF FanOuts
    <3> QED
        BY <3>1, <3>2 DEF FanOuts
  <2>2. CASE removeWatcher(w)
    <3>1. fanning' = {} /\ watchChans' = RemoveFirst(watchChans, w) /\ w \in ToSet(watchChans)
        BY <1>1, <2>2 DEF removeWatcher, Calls
    <3>2. IsInjective(watchChans')
        BY <1>1, <3>1, RemoveFirstRemoves DEF FanOuts
    <3> QED
        BY <3>1, <3>2 DEF FanOuts
  <2>3. CASE Receive(w) \/ Respond(w) \/ SendFails(w) \/ ClientGone(w)
    <3>1. UNCHANGED <<pc, watchChans, fanning, todo>>
        BY <2>3 DEF Receive, Respond, SendFails, ClientGone, Leave, vars, playbackVars
    <3> QED
        BY <1>1, <3>1 DEF FanOuts, InFlight
  <2> QED
      BY <1>6, <2>1, <2>2, <2>3 DEF WatchReplay
<1> QED
    BY <1>2, <1>3, <1>4, <1>5, <1>6, WatchCases

LEMMA CallsStep ==
    ASSUME WatchInv, [WatchNext]_allVars
    PROVE  Calls'
<1> USE DEF fanVars, watchVars
<1>1. /\ watchChans \in Seq(Watchers) /\ todo \in [Goroutines -> Seq(Watchers)]
      /\ chan \in [Watchers -> Seq(Tags)] /\ held \in [Watchers -> Seq(Tags)]
      /\ sent \in [Watchers -> Seq(Tags)] /\ missed \in [Watchers -> SUBSET Tags]
      /\ place \in [Watchers -> {"idle", "select", "respond", "leave", "returned"}]
      /\ FanOuts /\ Calls
    BY DEF WatchInv, WatchTypeOK
<1>2. CASE UNCHANGED <<fanVars, watchVars>>
    BY <1>1, <1>2 DEF Calls
<1>3. ASSUME NEW g \in Goroutines, FanOutLock(g) \/ FanOutUnlock(g) PROVE Calls'
    BY <1>1, <1>3 DEF FanOutLock, FanOutUnlock, Calls
<1>4. ASSUME NEW g \in Goroutines, FanOutSend(g) PROVE Calls'
  <2> DEFINE w == Head(todo[g])
  <2>1. todo[g] # <<>> /\ g \in fanning /\ UNCHANGED <<watchChans, place, held, sent>>
      BY <1>4 DEF FanOutSend
  <2>2. w \in Watchers /\ w \in ToSet(watchChans)
      BY <1>1, <2>1, TailRemoves DEF FanOuts
  <2>3. place[w] # "idle"
      BY <1>1, <2>2 DEF Calls
  <2>4. \A v \in Watchers \ {w} : chan'[v] = chan[v] /\ missed'[v] = missed[v]
      BY <1>1, <1>4 DEF FanOutSend
  <2> HIDE DEF w
  <2> QED
      BY <1>1, <2>1, <2>3, <2>4 DEF Calls
<1>5. ASSUME NEW w \in Watchers, WatchReplay(w) PROVE Calls'
  <2>1. CASE addWatcher(w)
    <3>1. /\ watchChans' = Append(watchChans, w) /\ place' = [place EXCEPT ![w] = "select"]
          /\ place[w] = "idle" /\ UNCHANGED <<chan, held, sent, missed>>
        BY <2>1 DEF addWatcher
    <3>2. w \notin ToSet(watchChans)
        BY <1>1, <3>1 DEF Calls
    <3>3. ToSet(watchChans') = ToSet(watchChans) \cup {w}
        BY <1>1, <3>1, <3>2, AppendNew
    <3> QED
        BY <1>1, <3>1, <3>3 DEF Calls
  <2>2. CASE Receive(w)
    <3>1. /\ place[w] = "select" /\ place' = [place EXCEPT ![w] = "respond"]
          /\ held' = [held EXCEPT ![w] = <<Head(chan[w])>>]
          /\ chan' = [chan EXCEPT ![w] = Tail(chan[w])] /\ UNCHANGED <<watchChans, sent, missed>>
        BY <2>2 DEF Receive
    <3> QED
        BY <1>1, <3>1 DEF Calls
  <2>3. CASE Respond(w)
    <3>1. /\ place[w] = "respond" /\ held' = [held EXCEPT ![w] = <<>>]
          /\ sent' = [sent EXCEPT ![w] = sent[w] \o held[w]]
          /\ UNCHANGED <<watchChans, chan, missed>>
          /\ \/ place' = [place EXCEPT ![w] = "leave"] \/ place' = [place EXCEPT ![w] = "select"]
        BY <2>3 DEF Respond
    <3> QED
        BY <1>1, <3>1 DEF Calls
  <2>4. CASE SendFails(w) \/ ClientGone(w)
      BY <1>1, <2>4 DEF SendFails, ClientGone, Leave, Calls
  <2>5. CASE removeWatcher(w)
    <3>1. /\ watchChans' = RemoveFirst(watchChans, w) /\ place' = [place EXCEPT ![w] = "returned"]
          /\ place[w] = "leave" /\ UNCHANGED <<chan, held, sent, missed>>
        BY <2>5 DEF removeWatcher
    <3>2. w \in ToSet(watchChans)
        BY <1>1, <3>1 DEF Calls
    <3>3. ToSet(watchChans') = ToSet(watchChans) \ {w}
        BY <1>1, <3>1, <3>2, RemoveFirstRemoves DEF FanOuts
    <3> QED
        BY <1>1, <3>1, <3>3 DEF Calls
  <2> QED
      BY <1>5, <2>1, <2>2, <2>3, <2>4, <2>5 DEF WatchReplay
<1> QED
    BY <1>2, <1>3, <1>4, <1>5, WatchCases

(* A watcher is not affected by what leaves its sequence, its registration   *)
(* and the fan-outs alone.                                                   *)
LEMMA ReachedFrame ==
    ASSUME NEW w, Reached(w), Got(w)' = Got(w),
           UNCHANGED <<missed[w], before[w], delivered, fanning>>,
           \A g \in fanning : /\ Tag(g)' = Tag(g)
                              /\ w \in ToSet(todo'[g]) <=> w \in ToSet(todo[g])
    PROVE  Reached(w)'
<1>1. Seen(w)' = Seen(w)
    BY DEF Seen
<1>2. {Tag(g) : g \in fanning}' = {Tag(g) : g \in fanning}
    OBVIOUS
<1> QED
    BY <1>1, <1>2 DEF Reached

(* The event of a goroutine that is about to fan out is new to everyone. *)
LEMMA TagIsNew ==
    ASSUME WatchInv, NEW g \in Goroutines, InFlight(g), g \notin fanning,
           NEW w \in ToSet(watchChans)
    PROVE  Tag(g) \notin Seen(w)
<1>1. DeliveredOnce /\ fanning \subseteq Goroutines /\ FanOuts /\ Reached(w)
    BY DEF WatchInv, IInv, WatchTypeOK
<1>2. Tag(g) \notin delivered
    BY <1>1 DEF DeliveredOnce, Tag
<1>3. \A h \in fanning : Tag(h) # Tag(g)
    BY <1>1 DEF DeliveredOnce, FanOuts, Tag
<1> QED
    BY <1>1, <1>2, <1>3 DEF Reached

LEMMA SendReaches ==
    ASSUME WatchInv, NEW g \in Goroutines, FanOutSend(g), NEW v \in ToSet(watchChans)
    PROVE  Reached(v)'
<1> DEFINE w == Head(todo[g])
           tag == <<claim[g], index[g]>>
<1>1. /\ watchChans \in Seq(Watchers) /\ todo \in [Goroutines -> Seq(Watchers)]
      /\ chan \in [Watchers -> Seq(Tags)] /\ missed \in [Watchers -> SUBSET Tags]
      /\ fanning \subseteq Goroutines /\ TypeOK /\ DeliveredOnce /\ FanOuts /\ Reached(v)
      /\ WatchTypeOK
    BY DEF WatchInv, WatchTypeOK, IInv
<1>2. /\ g \in fanning /\ todo[g] # <<>> /\ todo' = [todo EXCEPT ![g] = Tail(todo[g])]
      /\ UNCHANGED <<vars, watchChans, fanning, held, sent, before>>
    BY DEF FanOutSend
<1>3. /\ w \in Watchers /\ w \in ToSet(todo[g]) /\ w \in ToSet(watchChans)
      /\ ToSet(Tail(todo[g])) = ToSet(todo[g]) \ {w}
    BY <1>1, <1>2, TailRemoves DEF FanOuts
<1>4. todo'[g] = Tail(todo[g]) /\ \A h \in fanning \ {g} : todo'[h] = todo[h]
    BY <1>1, <1>2
<1>5. delivered' = delivered /\ \A h : Tag(h)' = Tag(h)
    BY <1>2 DEF vars, playbackVars, historyVars, Tag
<1>6. \/ chan' = [chan EXCEPT ![w] = Append(chan[w], tag)] /\ missed' = missed
      \/ missed' = [missed EXCEPT ![w] = missed[w] \cup {tag}] /\ chan' = chan
    BY DEF FanOutSend
<1>7. tag = Tag(g) /\ tag \in Tags
    BY <1>1 DEF Tag, TypeOK, Tags
<1>8. v \in Watchers
    BY <1>1 DEF ToSet
<1> HIDE DEF w, tag
<1>9. CASE v # w
  <2>1. chan'[v] = chan[v] /\ missed'[v] = missed[v]
      BY <1>1, <1>6, <1>8, <1>9
  <2>2. Got(v)' = Got(v)
      BY <1>2, <2>1 DEF Got
  <2>3. \A h \in fanning : v \in ToSet(todo'[h]) <=> v \in ToSet(todo[h])
      BY <1>3, <1>4, <1>9
  <2>4. UNCHANGED <<missed[v], before[v], delivered, fanning>>
      BY <1>2, <1>5, <2>1
  <2> QED
      BY <1>1, <1>5, <2>2, <2>3, <2>4, ReachedFrame
<1>10. CASE v = w
  <2>1. tag \notin Seen(v) /\ tag \notin delivered
      BY <1>1, <1>2, <1>3, <1>7, <1>10 DEF Reached, DeliveredOnce, FanOuts, Tag
  <2>2. tag \notin ToSet(Got(v)) /\ tag \notin missed[v] /\ tag \notin before[v]
      BY <1>1, <2>1 DEF Seen, Reached
  <2>3. Got(v) \in Seq(Tags)
      BY <1>1, <1>8, GotType
  <2>4. /\ Seen(v)' = Seen(v) \cup {tag} /\ IsInjective(Got(v))'
        /\ ToSet(Got(v))' \cap (before[v] \cup missed[v])' = {}
    <3>1. CASE chan' = [chan EXCEPT ![w] = Append(chan[w], tag)] /\ missed' = missed
      <4>1. chan'[v] = Append(chan[v], tag)
          BY <1>1, <1>8, <1>10, <3>1
      <4>2. Got(v)' = Append(Got(v), tag)
        <5> DEFINE s == sent[v]
                   h == held[v]
                   ch == chan[v]
        <5>1. s \in Seq(Tags) /\ h \in Seq(Tags) /\ ch \in Seq(Tags)
            BY <1>1, <1>8 DEF WatchTypeOK
        <5>2. Got(v)' = s \o h \o Append(ch, tag) /\ Got(v) = s \o h \o ch
            BY <1>2, <4>1 DEF Got
        <5> HIDE DEF s, h, ch
        <5>3. s \o h \o Append(ch, tag) = Append(s \o h \o ch, tag)
            BY <1>7, <5>1, SendAppends
        <5> QED
            BY <5>2, <5>3
      <4>3. ToSet(Got(v))' = ToSet(Got(v)) \cup {tag} /\ IsInjective(Got(v))'
          BY <1>1, <1>7, <2>2, <2>3, <4>2, AppendNew DEF Reached
      <4> QED
          BY <1>1, <1>2, <2>2, <3>1, <4>3 DEF Seen, Reached
    <3>2. CASE missed' = [missed EXCEPT ![w] = missed[w] \cup {tag}] /\ chan' = chan
      <4>1. missed'[v] = missed[v] \cup {tag}
          BY <1>1, <1>8, <1>10, <3>2
      <4>2. Got(v)' = Got(v)
          BY <1>2, <3>2 DEF Got
      <4>3. Seen(v)' = Seen(v) \cup {tag}
          BY <4>1, <4>2 DEF Seen
      <4>4. IsInjective(Got(v))' /\ ToSet(Got(v))' \cap (before[v] \cup missed[v])' = {}
          BY <1>1, <1>2, <2>2, <4>1, <4>2 DEF Reached
      <4> QED
          BY <4>3, <4>4
    <3> QED
        BY <1>6, <3>1, <3>2
  <2>5. \A h \in fanning' : Tag(h)' \in Seen(v)' <=> v \notin ToSet(todo'[h])
    <3>1. \A h \in fanning : Tag(h) \in Seen(v) <=> v \notin ToSet(todo[h])
        BY <1>1 DEF Reached
    <3>2. \A h \in fanning \ {g} : Tag(h) # Tag(g)
        BY <1>1, <1>2 DEF DeliveredOnce, FanOuts, Tag
    <3> QED
        BY <1>2, <1>3, <1>4, <1>5, <1>7, <1>10, <2>4, <3>1, <3>2
  <2>6. Seen(v)' \subseteq delivered' \cup {Tag(h)' : h \in fanning'}
      BY <1>1, <1>2, <1>5, <1>7, <2>4 DEF Reached
  <2>7. before[v]' \subseteq delivered' /\ delivered' \ before[v]' \subseteq Seen(v)'
      BY <1>1, <1>2, <1>5, <2>4 DEF Reached
  <2> QED
      BY <2>4, <2>5, <2>6, <2>7 DEF Reached
<1> QED
    BY <1>9, <1>10

LEMMA ReachedStep ==
    ASSUME WatchInv, [WatchNext]_allVars, NEW v \in ToSet(watchChans)'
    PROVE  Reached(v)'
<1>1. /\ watchChans \in Seq(Watchers) /\ todo \in [Goroutines -> Seq(Watchers)]
      /\ chan \in [Watchers -> Seq(Tags)] /\ held \in [Watchers -> Seq(Tags)]
      /\ sent \in [Watchers -> Seq(Tags)] /\ before \in [Watchers -> SUBSET Tags]
      /\ fanning \subseteq Goroutines /\ TypeOK /\ Started /\ FanOuts /\ Calls
      /\ \A w \in ToSet(watchChans) : w \in Watchers /\ Reached(w)
    BY DEF WatchInv, WatchTypeOK, IInv, ToSet
<1>2. CASE (SessionStep \/ UNCHANGED vars) /\ UNCHANGED <<fanVars, watchVars>>
  <2>1. delivered' = delivered /\ \A g \in fanning : Tag(g)' = Tag(g)
      BY <1>1, <1>2, HandsKept DEF FanOuts
  <2>2. UNCHANGED <<watchChans, fanning, todo, chan, held, sent, missed, before>>
      BY <1>2 DEF fanVars, watchVars
  <2>3. Got(v)' = Got(v) /\ v \in ToSet(watchChans)
      BY <2>2 DEF Got
  <2>4. UNCHANGED <<missed[v], before[v], delivered, fanning>>
      BY <2>1, <2>2
  <2>5. \A g \in fanning : v \in ToSet(todo'[g]) <=> v \in ToSet(todo[g])
      BY <2>2
  <2> QED
      BY <1>1, <2>1, <2>3, <2>4, <2>5, ReachedFrame
<1>3. ASSUME NEW g \in Goroutines, FanOutLock(g) PROVE Reached(v)'
  <2>1. /\ InFlight(g) /\ g \notin fanning /\ fanning' = fanning \cup {g}
        /\ todo' = [todo EXCEPT ![g] = watchChans]
        /\ UNCHANGED <<vars, watchChans, watchVars>>
      BY <1>3 DEF FanOutLock, InFlight
  <2>2. v \in ToSet(watchChans) /\ Reached(v) /\ Tag(g) \notin Seen(v)
      BY <1>1, <2>1, TagIsNew
  <2>3. Seen(v)' = Seen(v) /\ Got(v)' = Got(v) /\ UNCHANGED <<missed, before>>
      BY <2>1 DEF watchVars, Seen, Got
  <2>4. delivered' = delivered /\ \A h : Tag(h)' = Tag(h)
      BY <2>1 DEF vars, playbackVars, historyVars, Tag
  <2>5. todo'[g] = watchChans /\ \A h \in fanning : todo'[h] = todo[h]
      BY <1>1, <2>1
  <2>6. \A h \in fanning' : Tag(h)' \in Seen(v)' <=> v \notin ToSet(todo'[h])
      BY <2>1, <2>2, <2>3, <2>4, <2>5 DEF Reached
  <2>7. Seen(v)' \subseteq delivered' \cup {Tag(h)' : h \in fanning'}
      BY <2>1, <2>2, <2>3, <2>4 DEF Reached
  <2> QED
      BY <2>2, <2>3, <2>4, <2>6, <2>7 DEF Reached
<1>4. ASSUME NEW g \in Goroutines, FanOutSend(g) PROVE Reached(v)'
  <2>1. v \in ToSet(watchChans)
      BY <1>4 DEF FanOutSend
  <2> QED
      BY <1>4, <2>1, SendReaches
<1>5. ASSUME NEW g \in Goroutines, FanOutUnlock(g) PROVE Reached(v)'
  <2>1. /\ g \in fanning /\ todo[g] = <<>> /\ fanning' = fanning \ {g}
        /\ delivered' = delivered \cup {Tag(g)}
        /\ UNCHANGED <<watchChans, todo, watchVars, index, claim>>
      BY <1>5 DEF FanOutUnlock, Deliver, Tag
  <2>2. v \in ToSet(watchChans) /\ Reached(v)
      BY <1>1, <2>1
  <2>3. Tag(g) \in Seen(v)
      BY <2>1, <2>2 DEF Reached, ToSet
  <2>4. Seen(v)' = Seen(v) /\ Got(v)' = Got(v) /\ UNCHANGED <<missed, before>>
      BY <2>1 DEF watchVars, Seen, Got
  <2>5. \A h : Tag(h)' = Tag(h)
      BY <2>1 DEF Tag
  <2>6. \A h \in fanning' : Tag(h)' \in Seen(v)' <=> v \notin ToSet(todo'[h])
      BY <2>1, <2>2, <2>4, <2>5 DEF Reached
  <2>7. Seen(v)' \subseteq delivered' \cup {Tag(h)' : h \in fanning'}
      BY <2>1, <2>2, <2>4, <2>5 DEF Reached
  <2> QED
      BY <2>1, <2>2, <2>3, <2>4, <2>6, <2>7 DEF Reached
<1>6. ASSUME NEW w \in Watchers, WatchReplay(w) PROVE Reached(v)'
  <2>1. UNCHANGED vars /\ UNCHANGED <<fanning, todo>>
      BY <1>6 DEF WatchReplay, addWatcher, Receive, Respond, SendFails, ClientGone, Leave,
                  removeWatcher, fanVars
  <2>2. delivered' = delivered /\ \A h : Tag(h)' = Tag(h)
      BY <2>1 DEF vars, playbackVars, historyVars, Tag
  <2>3. CASE addWatcher(w) /\ v = w
    <3>1. /\ fanning = {} /\ place[w] = "idle" /\ before' = [before EXCEPT ![w] = delivered]
          /\ UNCHANGED <<fanning, chan, held, sent, missed>>
        BY <2>3 DEF addWatcher
    <3>2. chan[w] = <<>> /\ held[w] = <<>> /\ sent[w] = <<>> /\ missed[w] = {}
        BY <1>1, <3>1 DEF Calls
    <3>3. Got(w)' = <<>>
        BY <3>1, <3>2 DEF Got
    <3>4. ToSet(Got(w))' = {} /\ IsInjective(Got(w))' /\ Seen(w)' = {}
        BY <3>1, <3>2, <3>3 DEF ToSet, IsInjective, Seen
    <3>5. before'[w] = delivered
        BY <1>1, <3>1
    <3> QED
        BY <2>2, <2>3, <3>1, <3>4, <3>5 DEF Reached
  <2>4. CASE ~(addWatcher(w) /\ v = w)
    <3>1. v \in ToSet(watchChans)
      <4>1. CASE addWatcher(w)
        <5>1. watchChans' = Append(watchChans, w) /\ w \notin ToSet(watchChans)
            BY <1>1, <4>1 DEF addWatcher, Calls
        <5>2. ToSet(watchChans') = ToSet(watchChans) \cup {w}
            BY <1>1, <5>1, AppendNew
        <5> QED
            BY <2>4, <4>1, <5>2
      <4>2. CASE removeWatcher(w)
        <5>1. watchChans' = RemoveFirst(watchChans, w) /\ w \in ToSet(watchChans)
            BY <1>1, <4>2 DEF removeWatcher, Calls
        <5>2. ToSet(watchChans') = ToSet(watchChans) \ {w}
            BY <1>1, <5>1, RemoveFirstRemoves DEF FanOuts
        <5> QED
            BY <5>2
      <4>3. CASE Receive(w) \/ Respond(w) \/ SendFails(w) \/ ClientGone(w)
          BY <4>3 DEF Receive, Respond, SendFails, ClientGone, Leave, fanVars
      <4> QED
          BY <1>6, <4>1, <4>2, <4>3 DEF WatchReplay
    <3>2. v \in Watchers /\ Reached(v)
        BY <1>1, <3>1
    <3>3. Got(v)' = Got(v) /\ UNCHANGED <<missed[v], before[v]>>
      <4>1. sent[w] \in Seq(Tags) /\ held[w] \in Seq(Tags) /\ chan[w] \in Seq(Tags)
          BY <1>1
      <4>2. CASE Receive(w)
        <5>1. chan[w] # <<>> /\ held[w] = <<>>
            BY <1>1, <4>2 DEF Receive, Calls
        <5>2. sent[w] \o <<Head(chan[w])>> \o Tail(chan[w]) = sent[w] \o <<>> \o chan[w]
            BY <4>1, <5>1, ReceiveKeeps
        <5>3. /\ held'[w] = <<Head(chan[w])>> /\ chan'[w] = Tail(chan[w])
              /\ \A u \in Watchers \ {w} : held'[u] = held[u] /\ chan'[u] = chan[u]
              /\ UNCHANGED <<sent, missed, before>>
            BY <1>1, <4>2 DEF Receive
        <5> QED
            BY <3>2, <5>1, <5>2, <5>3 DEF Got
      <4>3. CASE Respond(w)
        <5>1. (sent[w] \o held[w]) \o <<>> \o chan[w] = sent[w] \o held[w] \o chan[w]
            BY <4>1, RespondKeeps
        <5>2. /\ held'[w] = <<>> /\ sent'[w] = sent[w] \o held[w]
              /\ \A u \in Watchers \ {w} : held'[u] = held[u] /\ sent'[u] = sent[u]
              /\ UNCHANGED <<chan, missed, before>>
            BY <1>1, <4>3 DEF Respond
        <5> QED
            BY <3>2, <5>1, <5>2 DEF Got
      <4>4. CASE addWatcher(w)
          BY <1>1, <2>4, <3>2, <4>4 DEF addWatcher, Got
      <4>5. CASE SendFails(w) \/ ClientGone(w) \/ removeWatcher(w)
          BY <4>5 DEF SendFails, ClientGone, Leave, removeWatcher, Got
      <4> QED
          BY <1>6, <4>2, <4>3, <4>4, <4>5 DEF WatchReplay
    <3>4. UNCHANGED <<missed[v], before[v], delivered, fanning>>
        BY <2>1, <2>2, <3>3
    <3>5. \A g \in fanning : v \in ToSet(todo'[g]) <=> v \in ToSet(todo[g])
        BY <2>1
    <3> QED
        BY <2>2, <3>2, <3>3, <3>4, <3>5, ReachedFrame
  <2> QED
      BY <2>3, <2>4
<1> QED
    BY <1>2, <1>3, <1>4, <1>5, <1>6, WatchCases

(* The session's and the watchers' invariant holds in every behaviour of     *)
(* the composition.                                                          *)
THEOREM WatchInvCorrect == WatchSpec => []WatchInv
<1>1. WatchInv /\ [WatchNext]_allVars => WatchInv'
  <2> SUFFICES ASSUME WatchInv, [WatchNext]_allVars PROVE WatchInv'
      OBVIOUS
  <2>1. IInv'
      BY WatchStep, NextType, NextPlaces, NextOnce DEF WatchInv, IInv, Places, Once
  <2> QED
      BY <2>1, WatchTypeStep, FanOutsStep, CallsStep, ReachedStep DEF WatchInv
<1> QED
    BY WatchInitInv, <1>1, PTL DEF WatchSpec

(* While a WatchReplay call watches, every event delivered since it          *)
(* registered reached it exactly once or was dropped by its full channel,    *)
(* and nothing older did, for any number of goroutines and watchers.         *)
THEOREM WatcherGetsEachCorrect == WatchSpec => []WatcherGetsEach
<1>1. WatchInv => WatcherGetsEach
  <2> SUFFICES ASSUME WatchInv, NEW w \in Watchers, Watching(w)
               PROVE  /\ delivered \ before[w] \subseteq ToSet(Got(w)) \cup missed[w]
                      /\ Cardinality(ToSet(Got(w))) = Len(Got(w))
                      /\ ToSet(Got(w)) \cap (before[w] \cup missed[w]) = {}
      BY DEF WatcherGetsEach
  <2>1. Reached(w) /\ Got(w) \in Seq(Tags)
      BY GotType DEF WatchInv, Calls, Watching
  <2>2. Cardinality(ToSet(Got(w))) = Len(Got(w))
      BY <2>1, InjectiveCardinality DEF Reached
  <2> QED
      BY <2>1, <2>2 DEF Reached, Seen
<1> QED
    BY WatchInvCorrect, <1>1, PTL
=============================================================================
