---------------------------- MODULE ProbeProofs ----------------------------
(***************************************************************************)
(* Proofs about Probe, for any threads, any number of their events and any  *)
(* sizes of the ring buffer and of the fallback queue.                      *)
(***************************************************************************)
EXTENDS Probe, FiniteSetTheorems, SequenceTheorems, TLAPS

-----------------------------------------------------------------------------
(* Facts about sequences. *)

LEMMA EmptySequence == ASSUME NEW S PROVE <<>> \in Seq(S)
    OBVIOUS

LEMMA AppendFacts ==
    ASSUME NEW S, NEW s \in Seq(S), NEW x \in S
    PROVE  /\ Append(s, x) \in Seq(S) /\ Len(s) \in Nat /\ Len(Append(s, x)) = Len(s) + 1
           /\ DOMAIN s = 1 .. Len(s) /\ DOMAIN Append(s, x) = 1 .. Len(s) + 1
           /\ \A i \in 1 .. Len(s) : Append(s, x)[i] = s[i]
           /\ Append(s, x)[Len(s) + 1] = x
           /\ Range(Append(s, x)) = Range(s) \cup {x}
<1>1. /\ Append(s, x) \in Seq(S) /\ Len(s) \in Nat /\ Len(Append(s, x)) = Len(s) + 1
      /\ DOMAIN s = 1 .. Len(s) /\ DOMAIN Append(s, x) = 1 .. Len(s) + 1
      /\ \A i \in 1 .. Len(s) : Append(s, x)[i] = s[i]
      /\ Append(s, x)[Len(s) + 1] = x
    BY AppendProperties
<1>2. Range(Append(s, x)) = Range(s) \cup {x}
    BY <1>1 DEF Range
<1> QED
    BY <1>1, <1>2

LEMMA TailFacts ==
    ASSUME NEW S, NEW s \in Seq(S), s # <<>>
    PROVE  /\ Head(s) \in S /\ Head(s) = s[1] /\ Len(s) \in Nat \ {0}
           /\ Tail(s) \in Seq(S) /\ Len(Tail(s)) = Len(s) - 1
           /\ DOMAIN s = 1 .. Len(s) /\ DOMAIN Tail(s) = 1 .. Len(s) - 1
           /\ \A i \in 1 .. Len(s) - 1 : Tail(s)[i] = s[i + 1]
           /\ Range(s) = Range(Tail(s)) \cup {Head(s)}
<1>1. /\ Head(s) \in S /\ Head(s) = s[1] /\ Len(s) \in Nat \ {0}
      /\ Tail(s) \in Seq(S) /\ Len(Tail(s)) = Len(s) - 1
      /\ DOMAIN s = 1 .. Len(s) /\ \A i \in 1 .. Len(s) - 1 : Tail(s)[i] = s[i + 1]
    OBVIOUS
<1>2. DOMAIN Tail(s) = 1 .. Len(s) - 1
    BY <1>1
<1>3. Range(Tail(s)) \cup {Head(s)} \subseteq Range(s)
    BY <1>1, <1>2 DEF Range
<1>4. ASSUME NEW i \in 1 .. Len(s) PROVE s[i] \in Range(Tail(s)) \cup {Head(s)}
  <2>1. CASE i = 1
      BY <1>1, <2>1
  <2>2. CASE i # 1
    <3>1. i - 1 \in 1 .. Len(s) - 1 /\ Tail(s)[i - 1] = s[i]
        BY <1>1, <2>2
    <3> QED
        BY <1>2, <3>1 DEF Range
  <2> QED
      BY <2>1, <2>2
<1> QED
    BY <1>1, <1>2, <1>3, <1>4 DEF Range

-----------------------------------------------------------------------------
(* Events in places. *)

Partition(P, F) ==
    /\ F = UNION Range(P)
    /\ \A i, j \in DOMAIN P : i # j => P[i] \cap P[j] = {}

LEMMA MovePlace ==
    ASSUME NEW F, NEW e, NEW P, NEW Q, DOMAIN P = 1 .. 7, DOMAIN Q = 1 .. 7,
           Partition(P, F), NEW a \in 1 .. 7, NEW b \in 1 .. 7, a # b,
           e \in P[a], Q[a] = P[a] \ {e}, Q[b] = P[b] \cup {e},
           \A i \in (1 .. 7) \ {a, b} : Q[i] = P[i]
    PROVE  Partition(Q, F)
<1>1. \A x : x \in F <=> \E i \in 1 .. 7 : x \in P[i]
    BY DEF Partition, Range
<1>2. \A x : (\E i \in 1 .. 7 : x \in P[i]) <=> (\E i \in 1 .. 7 : x \in Q[i])
    OBVIOUS
<1>3. \A x : x \in UNION Range(Q) <=> \E i \in 1 .. 7 : x \in Q[i]
    BY DEF Range
<1>4. F = UNION Range(Q)
    BY <1>1, <1>2, <1>3
<1>5. \A i, j \in 1 .. 7 : i # j => Q[i] \cap Q[j] = {}
    BY DEF Partition
<1> QED
    BY <1>4, <1>5 DEF Partition

LEMMA NewPlace ==
    ASSUME NEW F, NEW e, NEW P, NEW Q, DOMAIN P = 1 .. 7, DOMAIN Q = 1 .. 7,
           Partition(P, F), NEW b \in 1 .. 7, e \notin F,
           Q[b] = P[b] \cup {e}, \A i \in (1 .. 7) \ {b} : Q[i] = P[i]
    PROVE  Partition(Q, F \cup {e})
<1>1. \A x : x \in F <=> \E i \in 1 .. 7 : x \in P[i]
    BY DEF Partition, Range
<1>2. \A x : (x = e \/ \E i \in 1 .. 7 : x \in P[i]) <=> (\E i \in 1 .. 7 : x \in Q[i])
    OBVIOUS
<1>3. \A x : x \in UNION Range(Q) <=> \E i \in 1 .. 7 : x \in Q[i]
    BY DEF Range
<1>4. F \cup {e} = UNION Range(Q)
    BY <1>1, <1>2, <1>3
<1>5. \A i, j \in 1 .. 7 : i # j => Q[i] \cap Q[j] = {}
    BY <1>1 DEF Partition
<1> QED
    BY <1>4, <1>5 DEF Partition

AckedEvents == { topic[i].event : i \in Acked }

LEMMA PlacesAre ==
    /\ DOMAIN Places = 1 .. 7 /\ Places[1] = InRing /\ Places[2] = current
    /\ Places[3] = Range(fallback) /\ Places[4] = AckedEvents /\ Places[5] = dropped
    /\ Places[6] = overflown /\ Places[7] = unread
    BY DEF Places, AckedEvents

LEMMA PlacesAreNext ==
    /\ DOMAIN Places' = 1 .. 7 /\ Places'[1] = InRing' /\ Places'[2] = current'
    /\ Places'[3] = Range(fallback') /\ Places'[4] = AckedEvents' /\ Places'[5] = dropped'
    /\ Places'[6] = overflown' /\ Places'[7] = unread'
    BY DEF Places, AckedEvents

LEMMA FiredEvents ==
    ASSUME TypeOK
    PROVE  \A e : e \in Fired <=> e \in Event /\ e[2] <= fired[e[1]]
<1>1. \A t \in Threads : fired[t] \in 0 .. Hooks
    BY DEF TypeOK
<1>2. ASSUME NEW e, e \in Fired PROVE e \in Event /\ e[2] <= fired[e[1]]
  <2>1. PICK t \in Threads : e \in {t} \X (1 .. fired[t])
      BY <1>2 DEF Fired
  <2> QED
      BY <1>1, <2>1, ProbeAssumption DEF Event
<1>3. ASSUME NEW e \in Event, e[2] <= fired[e[1]] PROVE e \in Fired
  <2>1. e[1] \in Threads /\ e \in {e[1]} \X (1 .. fired[e[1]])
      BY <1>1, <1>3, ProbeAssumption DEF Event
  <2> QED
      BY <2>1 DEF Fired
<1> QED
    BY <1>2, <1>3

-----------------------------------------------------------------------------
(* Initially. *)

LEMMA InitInv == Init => IInv
<1> SUFFICES ASSUME Init PROVE IInv
    OBVIOUS
<1>1. TypeOK
    BY EmptySequence, ProbeAssumption DEF Init, TypeOK
<1>2. /\ InRing = {} /\ current = {} /\ Range(fallback) = {} /\ AckedEvents = {} /\ Acked = {}
      /\ dropped = {} /\ overflown = {} /\ unread = {}
    BY DEF Init, InRing, Range, AckedEvents, Acked
<1>3. Fired = {}
    BY <1>1, FiredEvents, ProbeAssumption DEF Init, Event
<1>4. Partition(Places, Fired)
    BY <1>2, <1>3, PlacesAre DEF Partition, Range
<1>5. IsInjective(fallback)
    BY DEF Init, IsInjective
<1>6. ProbeAccounted
    BY <1>2, <1>4, <1>5 DEF ProbeAccounted, Partition
<1>7. RingOrdered /\ QueueOrdered
    BY DEF Init, RingOrdered, QueueOrdered
<1>8. Ordered
    BY <1>2, <1>7 DEF Ordered, Settled
<1>9. OvertakenWereQueued
    BY <1>2 DEF OvertakenWereQueued
<1> QED
    BY <1>1, <1>6, <1>8, <1>9 DEF IInv

-----------------------------------------------------------------------------
(* What each step does to the places and to the broker's records. *)

LEMMA SentAcked ==
    ASSUME TypeOK, NEW e \in Event, NEW how \in Hows \ {"unacked"}, Sent(e, how)
    PROVE  /\ topic' \in Seq(TopicRecord)
           /\ Len(topic) \in Nat /\ Acked \subseteq 1 .. Len(topic)
           /\ Acked' = Acked \cup {Len(topic) + 1}
           /\ topic'[Len(topic) + 1] = [event |-> e, how |-> how]
           /\ \A i \in Acked : topic'[i] = topic[i]
           /\ AckedEvents' = AckedEvents \cup {e}
<1> DEFINE r == [event |-> e, how |-> how]
<1>1. r \in TopicRecord /\ r.how # "unacked" /\ r.event = e /\ topic \in Seq(TopicRecord) /\ topic' = Append(topic, r)
    BY DEF TypeOK, Sent, TopicRecord
<1> HIDE DEF r
<1>2. /\ Append(topic, r) \in Seq(TopicRecord) /\ Len(topic) \in Nat
      /\ DOMAIN topic = 1 .. Len(topic) /\ DOMAIN topic' = 1 .. Len(topic) + 1
      /\ \A i \in 1 .. Len(topic) : topic'[i] = topic[i]
      /\ topic'[Len(topic) + 1] = r
    BY <1>1, AppendFacts
<1>3. Acked \subseteq 1 .. Len(topic) /\ Acked' = Acked \cup {Len(topic) + 1}
    BY <1>1, <1>2 DEF Acked
<1>4. \A i \in Acked : topic'[i] = topic[i]
    BY <1>2, <1>3
<1>5. AckedEvents' = AckedEvents \cup {e}
    BY <1>1, <1>2, <1>3, <1>4 DEF AckedEvents
<1> QED
    BY <1>1, <1>2, <1>3, <1>4, <1>5 DEF r

LEMMA FailedAcked ==
    ASSUME TypeOK, NEW e \in Event, SendFails(e)
    PROVE  /\ topic' \in Seq(TopicRecord)
           /\ Acked' = Acked /\ \A i \in Acked : topic'[i] = topic[i]
           /\ AckedEvents' = AckedEvents
<1>1. CASE UNCHANGED topic
    BY <1>1 DEF TypeOK, Acked, AckedEvents
<1>2. CASE Sent(e, "unacked")
  <2> DEFINE r == [event |-> e, how |-> "unacked"]
    <2>1. r \in TopicRecord /\ r.how = "unacked" /\ topic \in Seq(TopicRecord) /\ topic' = Append(topic, r)
      BY <1>2 DEF TypeOK, Sent, Hows, TopicRecord
  <2> HIDE DEF r
  <2>2. /\ Append(topic, r) \in Seq(TopicRecord) /\ Len(topic) \in Nat
        /\ DOMAIN topic = 1 .. Len(topic) /\ DOMAIN topic' = 1 .. Len(topic) + 1
        /\ \A i \in 1 .. Len(topic) : topic'[i] = topic[i]
        /\ topic'[Len(topic) + 1] = r
      BY <2>1, AppendFacts
  <2>3. Acked' = Acked /\ Acked \subseteq 1 .. Len(topic)
      BY <2>1, <2>2 DEF Acked
  <2>4. \A i \in Acked : topic'[i] = topic[i]
      BY <2>2, <2>3
  <2>5. AckedEvents' = AckedEvents
      BY <2>3, <2>4 DEF AckedEvents
  <2>6. topic' \in Seq(TopicRecord)
      BY <2>1, <2>2
  <2> QED
      BY <2>3, <2>4, <2>5, <2>6
<1> QED
    BY <1>1, <1>2 DEF SendFails

LEMMA FireEffect ==
    ASSUME IInv, NEW t \in Threads, Fire(t), NEW e, e = <<t, fired[t] + 1>>
    PROVE  /\ fired' \in [Threads -> 0 .. Hooks]
           /\ e \in Event /\ e \notin Fired /\ Fired' = Fired \cup {e}
           /\ \A d \in Fired : Older(d, e)
<1>1. /\ fired' = [fired EXCEPT ![t] = fired[t] + 1] /\ fired[t] < Hooks
      /\ fired \in [Threads -> 0 .. Hooks]
    BY DEF Fire, IInv, TypeOK
<1>2. fired[t] + 1 \in 1 .. Hooks
    BY <1>1, ProbeAssumption
<1>3. /\ fired' \in [Threads -> 0 .. Hooks] /\ fired'[t] = fired[t] + 1
      /\ \A u \in Threads : u # t => fired'[u] = fired[u]
    BY <1>1, <1>2
<1>4. e \in Event /\ e[1] = t /\ e[2] = fired[t] + 1
    BY <1>2 DEF Event
<1>5. \A d : d \in Fired <=> d \in Event /\ d[2] <= fired[d[1]]
    BY FiredEvents DEF IInv
<1>6. \A d : d \in Fired' <=> d \in Event /\ d[2] <= fired'[d[1]]
  <2>1. ASSUME NEW d, d \in Fired' PROVE d \in Event /\ d[2] <= fired'[d[1]]
    <3>1. PICK u \in Threads : d \in {u} \X (1 .. fired'[u])
        BY <2>1 DEF Fired
    <3> QED
        BY <1>3, <3>1, ProbeAssumption DEF Event
  <2>2. ASSUME NEW d \in Event, d[2] <= fired'[d[1]] PROVE d \in Fired'
    <3>1. d[1] \in Threads /\ d \in {d[1]} \X (1 .. fired'[d[1]])
        BY <1>3, <2>2, ProbeAssumption DEF Event
    <3> QED
        BY <3>1 DEF Fired
  <2> QED
      BY <2>1, <2>2
<1>7. \A d \in Event : d[1] \in Threads /\ d[2] \in Nat
    BY ProbeAssumption DEF Event
<1>8. \A d \in Event : d[1] = t /\ d[2] = fired[t] + 1 => d = e
    BY <1>4 DEF Event
<1>9. \A d \in Event : d[2] <= fired'[d[1]] <=> d = e \/ d[2] <= fired[d[1]]
    BY <1>1, <1>3, <1>4, <1>7, <1>8
<1> QED
    BY <1>1, <1>3, <1>4, <1>5, <1>6, <1>7, <1>9 DEF Older

(* The steps of Next, one by one. *)
LEMMA NextCases ==
    ASSUME [Next]_vars
    PROVE  \/ \E t \in Threads : Fire(t) \/ submit(t) \/ Load(t) \/ Store(t)
           \/ Take \/ Retry \/ RetryDone \/ Send \/ Tick \/ Exit \/ UNCHANGED vars
    BY DEF Next, Program, DrainLoop

(* Where the places other than the ring's are left alone. *)
LEMMA SubmitEffect ==
    ASSUME TypeOK, NEW t \in Threads, submit(t)
    PROVE  /\ ring' \in Seq(RingRecord) /\ Len(ring') = Len(ring)
           /\ DOMAIN ring' = DOMAIN ring
           /\ \A i \in DOMAIN ring : ring'[i].event = ring[i].event
           /\ InRing' = InRing
<1> DEFINE b(i) == ring[i].busy /\ ring[i].event[1] # t
<1>1. /\ ring \in Seq(RingRecord)
      /\ ring' = [i \in DOMAIN ring |-> [ring[i] EXCEPT !.busy = b(i)]]
    BY DEF TypeOK, submit
<1>2. /\ Len(ring) \in Nat /\ DOMAIN ring = 1 .. Len(ring)
      /\ \A i \in 1 .. Len(ring) : ring[i] \in RingRecord
    BY <1>1
<1>3. \A i \in 1 .. Len(ring) :
         /\ [ring[i] EXCEPT !.busy = b(i)] \in RingRecord
         /\ [ring[i] EXCEPT !.busy = b(i)].event = ring[i].event
    BY <1>2 DEF RingRecord
<1>4. DOMAIN ring' = 1 .. Len(ring) /\ \A i \in 1 .. Len(ring) :
         ring'[i] \in RingRecord /\ ring'[i].event = ring[i].event
    BY <1>1, <1>2, <1>3
<1>5. ring' \in [1 .. Len(ring) -> RingRecord]
    BY <1>1, <1>2, <1>3
<1>6. ring' \in Seq(RingRecord) /\ Len(ring') = Len(ring)
    BY <1>2, <1>5
<1>7. InRing' = InRing
    BY <1>2, <1>4 DEF InRing
<1> QED
    BY <1>2, <1>4, <1>6, <1>7

LEMMA NextType == IInv /\ [Next]_vars => TypeOK'
<1> SUFFICES ASSUME IInv, [Next]_vars PROVE TypeOK'
    OBVIOUS
<1>1. TypeOK
    BY DEF IInv
<1>2. ASSUME NEW t \in Threads, Fire(t) PROVE TypeOK'
  <2> DEFINE e == <<t, fired[t] + 1>>
  <2>1. fired' \in [Threads -> 0 .. Hooks] /\ e \in Event
      BY <1>2, FireEffect
  <2>2. UNCHANGED <<counter, loaded, loopVars, mainVars>>
      BY <1>2 DEF Fire
  <2> HIDE DEF e
  <2>3. hook' \in [Threads -> {"idle", "submit", "load", "store"}]
      BY <1>1, <1>2 DEF Fire, TypeOK
  <2>4. /\ dropped' \subseteq Event /\ unread' \subseteq Event
        /\ ring' = ring \/ (Len(ring) < RingSize /\ ring' = Append(ring, [event |-> e, busy |-> TRUE]))
      BY <1>1, <1>2, <2>1 DEF Fire, TypeOK, e
  <2>5. [event |-> e, busy |-> TRUE] \in RingRecord
      BY <2>1 DEF RingRecord
  <2>6. ring' \in Seq(RingRecord) /\ Len(ring') <= RingSize
    <3>1. ring \in Seq(RingRecord) /\ Len(ring) <= RingSize
        BY <1>1 DEF TypeOK
    <3>2. CASE ring' = ring
        BY <3>1, <3>2
    <3>3. CASE Len(ring) < RingSize /\ ring' = Append(ring, [event |-> e, busy |-> TRUE])
      <4>1. ring' \in Seq(RingRecord) /\ Len(ring) \in Nat /\ Len(ring') = Len(ring) + 1
          BY <2>5, <3>1, <3>3, AppendFacts
      <4> QED
          BY <3>3, <4>1, ProbeAssumption
    <3> QED
        BY <2>4, <3>2, <3>3
  <2> QED
      BY <1>1, <2>1, <2>2, <2>3, <2>4, <2>6 DEF TypeOK, loopVars, mainVars
<1>3. ASSUME NEW t \in Threads, submit(t) PROVE TypeOK'
  <2>1. ring' \in Seq(RingRecord) /\ Len(ring') = Len(ring)
      BY <1>1, <1>3, SubmitEffect
  <2> QED
      BY <1>1, <1>3, <2>1 DEF submit, TypeOK, loopVars, mainVars
<1>4. ASSUME NEW t \in Threads, Load(t) \/ Store(t) PROVE TypeOK'
  <2>1. /\ hook' \in [Threads -> {"idle", "submit", "load", "store"}]
        /\ counter' \in Nat /\ loaded' \in [Threads -> Nat]
    <3>1. /\ hook \in [Threads -> {"idle", "submit", "load", "store"}]
          /\ counter \in Nat /\ loaded \in [Threads -> Nat]
        BY <1>1 DEF TypeOK
    <3>2. CASE Load(t)
      <4>1. /\ hook' = [hook EXCEPT ![t] = "store"] /\ loaded' = [loaded EXCEPT ![t] = counter]
            /\ UNCHANGED counter
          BY <3>2 DEF Load
      <4> QED
          BY <3>1, <4>1
    <3>3. CASE Store(t)
      <4>1. hook' = [hook EXCEPT ![t] = "idle"] /\ counter' = loaded[t] + 1 /\ UNCHANGED loaded
          BY <3>3 DEF Store
      <4> QED
          BY <3>1, <4>1
    <3> QED
        BY <1>4, <3>2, <3>3
  <2>2. UNCHANGED <<fired, ring, dropped, unread, loopVars, mainVars>>
      BY <1>4 DEF Load, Store
  <2> QED
      BY <1>1, <2>1, <2>2 DEF TypeOK, loopVars, mainVars
<1>5. CASE Take
  <2>1. /\ ring' = Tail(ring) /\ ring # <<>> /\ current' = {Head(ring).event} /\ loop' = "retry"
        /\ UNCHANGED <<hook, fired, counter, loaded, dropped, unread, fallback, topic, overflown, last_drops, running>>
      BY <1>5 DEF Take, kernelVars, mainVars
  <2>2. /\ ring' \in Seq(RingRecord) /\ Len(ring') <= RingSize
        /\ Head(ring) \in RingRecord
      BY <1>1, <2>1, TailFacts, ProbeAssumption DEF TypeOK
  <2>3. Head(ring).event \in Event
      BY <2>2 DEF RingRecord
  <2> QED
      BY <1>1, <2>1, <2>2, <2>3 DEF TypeOK
<1>6. CASE Retry
  <2>1. /\ fallback # <<>> /\ fallback \in Seq(Event) /\ loop = "retry"
        /\ UNCHANGED <<hook, fired, counter, loaded, dropped, unread, ring, current, overflown, last_drops, running>>
      BY <1>1, <1>6 DEF Retry, kernelVars, mainVars, TypeOK
  <2>2. /\ Head(fallback) \in Event /\ Tail(fallback) \in Seq(Event)
        /\ Len(Tail(fallback)) <= QueueCap
      BY <1>1, <2>1, TailFacts, ProbeAssumption DEF TypeOK
  <2>3. CASE Sent(Head(fallback), "retry") /\ fallback' = Tail(fallback) /\ UNCHANGED loop
    <3>1. topic' \in Seq(TopicRecord)
        BY <1>1, <2>2, <2>3, SentAcked DEF Hows
    <3> QED
        BY <1>1, <2>1, <2>2, <2>3, <3>1 DEF TypeOK
  <2>4. CASE SendFails(Head(fallback)) /\ loop' = "send" /\ UNCHANGED fallback
    <3>1. topic' \in Seq(TopicRecord)
        BY <1>1, <2>2, <2>4, FailedAcked
    <3> QED
        BY <1>1, <2>1, <2>2, <2>4, <3>1 DEF TypeOK
  <2> QED
      BY <1>6, <2>3, <2>4 DEF Retry
<1>7. CASE RetryDone
    BY <1>1, <1>7 DEF RetryDone, TypeOK, kernelVars, mainVars
<1>8. CASE Send
  <2>1. PICK e \in current :
            \/ Sent(e, "first") /\ UNCHANGED <<fallback, overflown>>
            \/ SendFails(e) /\ Keep(e)
      BY <1>8 DEF Send
  <2>2. /\ e \in Event /\ current' = {} /\ loop' = "next"
        /\ UNCHANGED <<hook, fired, counter, loaded, dropped, unread, ring, last_drops, running>>
      BY <1>1, <1>8 DEF Send, kernelVars, mainVars, TypeOK
  <2>3. topic' \in Seq(TopicRecord)
      BY <1>1, <2>1, <2>2, SentAcked, FailedAcked DEF Hows
  <2>4. /\ fallback' \in Seq(Event) /\ Len(fallback') <= QueueCap /\ overflown' \subseteq Event
    <3>1. CASE UNCHANGED <<fallback, overflown>>
        BY <1>1, <3>1 DEF TypeOK
    <3>2. CASE Keep(e) /\ Len(fallback) < QueueCap
      <4>1. fallback \in Seq(Event) /\ fallback' = Append(fallback, e) /\ UNCHANGED overflown
          BY <1>1, <3>2 DEF TypeOK, Keep
      <4>2. fallback' \in Seq(Event) /\ Len(fallback) \in Nat /\ Len(fallback') = Len(fallback) + 1
          BY <2>2, <4>1, AppendFacts
      <4> QED
          BY <1>1, <3>2, <4>1, <4>2, ProbeAssumption DEF TypeOK
    <3>3. CASE Keep(e) /\ ~(Len(fallback) < QueueCap)
        BY <1>1, <2>2, <3>3 DEF TypeOK, Keep
    <3> QED
        BY <2>1, <3>1, <3>2, <3>3
  <2> QED
      BY <1>1, <2>2, <2>3, <2>4 DEF TypeOK
<1>9. CASE Tick \/ Exit \/ UNCHANGED vars
    BY <1>1, <1>9 DEF Tick, Exit, TypeOK, vars, kernelVars, loopVars, mainVars
<1> QED
    BY <1>2, <1>3, <1>4, <1>5, <1>6, <1>7, <1>8, <1>9, NextCases

-----------------------------------------------------------------------------
(* What the drain loop's steps do to the places. *)

LEMMA Ids == \A e \in Event : e[1] \in Threads /\ e[2] \in Nat
    BY ProbeAssumption DEF Event

LEMMA TakeEffect ==
    ASSUME IInv, Take, NEW e, e = Head(ring).event
    PROVE  /\ e \in Event /\ e \in InRing /\ InRing' = InRing \ {e}
           /\ current = {} /\ current' = {e}
           /\ \A d \in InRing' : Older(e, d)
           /\ RingOrdered'
           /\ UNCHANGED <<fired, fallback, topic, dropped, overflown, unread>>
<1>1. /\ ring \in Seq(RingRecord) /\ ring # <<>> /\ ring' = Tail(ring)
      /\ current = {} /\ current' = {e} /\ RingOrdered
      /\ UNCHANGED <<fired, fallback, topic, dropped, overflown, unread>>
    BY DEF IInv, TypeOK, Take, kernelVars, Ordered
<1>2. /\ Head(ring) = ring[1] /\ Len(ring) \in Nat \ {0}
      /\ DOMAIN ring = 1 .. Len(ring) /\ DOMAIN ring' = 1 .. Len(ring) - 1
      /\ \A i \in 1 .. Len(ring) - 1 : ring'[i] = ring[i + 1]
    BY <1>1, TailFacts
<1>3. \A i \in 1 .. Len(ring) : ring[i].event \in Event
  <2>1. \A i \in 1 .. Len(ring) : ring[i] \in RingRecord
      BY <1>1
  <2> QED
      BY <2>1 DEF RingRecord
<1>4. 1 \in 1 .. Len(ring) /\ e = ring[1].event /\ e \in Event
    BY <1>2, <1>3
<1>5. \A i \in 2 .. Len(ring) : Older(e, ring[i].event) /\ ring[i].event # e
  <2> SUFFICES ASSUME NEW i \in 2 .. Len(ring)
               PROVE  Older(e, ring[i].event) /\ ring[i].event # e
      OBVIOUS
  <2>1. i \in 1 .. Len(ring) /\ 1 < i
      BY <1>2
  <2>2. Older(e, ring[i].event)
      BY <1>1, <1>2, <1>4, <2>1 DEF RingOrdered
  <2> QED
      BY <1>4, <2>2, Ids DEF Older
<1>6. InRing = {ring[i].event : i \in 1 .. Len(ring)} /\ InRing' = {ring'[i].event : i \in 1 .. Len(ring) - 1}
    BY <1>2 DEF InRing
<1>7. \A d : d \in InRing' <=> \E i \in 2 .. Len(ring) : d = ring[i].event
  <2>1. ASSUME NEW d, d \in InRing' PROVE \E i \in 2 .. Len(ring) : d = ring[i].event
    <3>1. PICK i \in 1 .. Len(ring) - 1 : d = ring'[i].event
        BY <1>6, <2>1
    <3>2. i + 1 \in 2 .. Len(ring) /\ d = ring[i + 1].event
        BY <1>2, <3>1
    <3> QED
        BY <3>2
  <2>2. ASSUME NEW i \in 2 .. Len(ring) PROVE ring[i].event \in InRing'
    <3>1. i - 1 \in 1 .. Len(ring) - 1 /\ ring'[i - 1] = ring[i]
        BY <1>2
    <3> QED
        BY <1>6, <3>1
  <2> QED
      BY <2>1, <2>2
<1>8. \A d : d \in InRing <=> d = e \/ \E i \in 2 .. Len(ring) : d = ring[i].event
    BY <1>2, <1>4, <1>6
<1>9. InRing' = InRing \ {e} /\ e \in InRing
    BY <1>5, <1>7, <1>8
<1>10. \A d \in InRing' : Older(e, d)
    BY <1>5, <1>7
<1>11. RingOrdered'
  <2> SUFFICES ASSUME NEW i \in 1 .. Len(ring) - 1, NEW j \in 1 .. Len(ring) - 1, i < j
               PROVE  Older(ring'[i].event, ring'[j].event)
      BY <1>2 DEF RingOrdered, Older
  <2>1. i + 1 \in 1 .. Len(ring) /\ j + 1 \in 1 .. Len(ring) /\ i + 1 < j + 1
      BY <1>2
  <2>2. Older(ring[i + 1].event, ring[j + 1].event)
      BY <1>1, <1>2, <2>1 DEF RingOrdered
  <2> QED
      BY <1>2, <2>2
<1> QED
    BY <1>1, <1>4, <1>9, <1>10, <1>11

LEMMA PopEffect ==
    ASSUME IInv, fallback # <<>>, fallback' = Tail(fallback), NEW e, e = Head(fallback)
    PROVE  /\ e \in Event /\ e \in Range(fallback) /\ Range(fallback') = Range(fallback) \ {e}
           /\ \A d \in Range(fallback') : Older(e, d)
           /\ QueueOrdered'
<1>1. fallback \in Seq(Event) /\ QueueOrdered
    BY DEF IInv, TypeOK, Ordered
<1>2. /\ e = fallback[1] /\ e \in Event /\ Len(fallback) \in Nat \ {0}
      /\ DOMAIN fallback = 1 .. Len(fallback) /\ DOMAIN fallback' = 1 .. Len(fallback) - 1
      /\ \A i \in 1 .. Len(fallback) - 1 : fallback'[i] = fallback[i + 1]
      /\ Range(fallback) = Range(fallback') \cup {e}
    BY <1>1, TailFacts
<1>3. ASSUME NEW i \in 1 .. Len(fallback) - 1 PROVE Older(e, fallback'[i]) /\ fallback'[i] # e
  <2>1. i + 1 \in 1 .. Len(fallback) /\ 1 \in 1 .. Len(fallback) /\ 1 < i + 1
      BY <1>2
  <2>2. Older(e, fallback[i + 1])
      BY <1>1, <1>2, <2>1 DEF QueueOrdered
  <2> QED
      BY <1>2, <2>2, Ids DEF Older
<1>4. \A d \in Range(fallback') : Older(e, d) /\ d # e
    BY <1>2, <1>3 DEF Range
<1>5. QueueOrdered'
  <2> SUFFICES ASSUME NEW i \in 1 .. Len(fallback) - 1, NEW j \in 1 .. Len(fallback) - 1, i < j
               PROVE  Older(fallback'[i], fallback'[j])
      BY <1>2 DEF QueueOrdered, Older
  <2>1. i + 1 \in 1 .. Len(fallback) /\ j + 1 \in 1 .. Len(fallback) /\ i + 1 < j + 1
      BY <1>2
  <2>2. Older(fallback[i + 1], fallback[j + 1])
      BY <1>1, <1>2, <2>1 DEF QueueOrdered
  <2> QED
      BY <1>2, <2>2
<1> QED
    BY <1>2, <1>4, <1>5

LEMMA PushEffect ==
    ASSUME IInv, NEW e \in current, fallback' = Append(fallback, e)
    PROVE  Range(fallback') = Range(fallback) \cup {e} /\ QueueOrdered'
<1>1. fallback \in Seq(Event) /\ QueueOrdered /\ e \in Event
    BY DEF IInv, TypeOK, Ordered
<1>2. /\ Len(fallback) \in Nat
      /\ DOMAIN fallback = 1 .. Len(fallback) /\ DOMAIN fallback' = 1 .. Len(fallback) + 1
      /\ \A i \in 1 .. Len(fallback) : fallback'[i] = fallback[i]
      /\ fallback'[Len(fallback) + 1] = e
      /\ Range(fallback') = Range(fallback) \cup {e}
    BY <1>1, AppendFacts
<1>3. \A i \in 1 .. Len(fallback) : Older(fallback[i], e)
    BY <1>2 DEF IInv, Ordered, Settled, Range
<1>4. \A i, j \in 1 .. Len(fallback) : i < j => Older(fallback[i], fallback[j])
    BY <1>1, <1>2 DEF QueueOrdered
<1>5. ASSUME NEW i \in 1 .. Len(fallback) + 1, NEW j \in 1 .. Len(fallback) + 1, i < j
      PROVE  Older(fallback'[i], fallback'[j])
  <2>1. CASE j = Len(fallback) + 1
      BY <1>2, <1>3, <1>5, <2>1
  <2>2. CASE j # Len(fallback) + 1
      BY <1>2, <1>4, <1>5, <2>2
  <2> QED
      BY <2>1, <2>2
<1> QED
    BY <1>2, <1>5 DEF QueueOrdered, Older

(* What the queue does when a send of the event in hand fails. *)
LEMMA KeepEffect ==
    ASSUME IInv, NEW e \in current, Keep(e)
    PROVE  \/ /\ Range(fallback') = Range(fallback) \cup {e} /\ QueueOrdered'
              /\ UNCHANGED overflown
           \/ overflown' = overflown \cup {e} /\ UNCHANGED fallback
<1>1. CASE Len(fallback) < QueueCap
    BY <1>1, PushEffect DEF Keep
<1>2. CASE ~(Len(fallback) < QueueCap)
    BY <1>2 DEF Keep
<1> QED
    BY <1>1, <1>2

(* The steps that leave every event where it is. *)
Quiet ==
    /\ InRing' = InRing /\ (RingOrdered => RingOrdered')
    /\ Acked' = Acked /\ (\A i \in Acked : topic'[i] = topic[i])
    /\ UNCHANGED <<fired, current, fallback, dropped, overflown, unread>>

LEMMA QuietSteps ==
    ASSUME IInv, \/ \E t \in Threads : submit(t) \/ Load(t) \/ Store(t)
                 \/ RetryDone \/ Tick \/ Exit \/ UNCHANGED vars
    PROVE  Quiet
<1>1. CASE \E t \in Threads : submit(t)
  <2>1. PICK t \in Threads : submit(t)
      BY <1>1
  <2>2. /\ DOMAIN ring' = DOMAIN ring /\ InRing' = InRing
        /\ \A i \in DOMAIN ring : ring'[i].event = ring[i].event
      BY <2>1, SubmitEffect DEF IInv
  <2>3. RingOrdered => RingOrdered'
      BY <2>2 DEF RingOrdered, Older
  <2>4. UNCHANGED <<fired, current, fallback, topic, dropped, overflown, unread>>
      BY <2>1 DEF submit, loopVars
  <2> QED
      BY <2>2, <2>3, <2>4 DEF Quiet, Acked
<1>2. CASE \/ \E t \in Threads : Load(t) \/ Store(t)
           \/ RetryDone \/ Tick \/ Exit \/ UNCHANGED vars
  <2>1. UNCHANGED <<ring, fired, current, fallback, topic, dropped, overflown, unread>>
      BY <1>2 DEF Load, Store, RetryDone, Tick, Exit, vars, kernelVars, loopVars, mainVars
  <2> QED
      BY <2>1 DEF Quiet, Acked, InRing, RingOrdered, Older
<1> QED
    BY <1>1, <1>2

(* A failed retry too. *)
LEMMA RetrySteps ==
    ASSUME IInv, Retry, NEW e, e = Head(fallback)
    PROVE  \/ Quiet
           \/ /\ e \in Event /\ e \in Range(fallback) /\ Sent(e, "retry")
              /\ Range(fallback') = Range(fallback) \ {e}
              /\ (\A d \in Range(fallback') : Older(e, d)) /\ QueueOrdered'
              /\ UNCHANGED <<fired, ring, current, dropped, overflown, unread>>
<1>1. /\ fallback # <<>> /\ fallback \in Seq(Event)
      /\ UNCHANGED <<fired, ring, current, dropped, overflown, unread>>
    BY DEF IInv, TypeOK, Retry, kernelVars
<1>2. e \in Event
    BY <1>1, TailFacts
<1>3. CASE Sent(e, "retry") /\ fallback' = Tail(fallback)
    BY <1>1, <1>3, PopEffect
<1>4. CASE SendFails(e) /\ UNCHANGED fallback
  <2>1. Acked' = Acked /\ \A i \in Acked : topic'[i] = topic[i]
      BY <1>2, <1>4, FailedAcked DEF IInv
  <2> QED
      BY <1>1, <1>4, <2>1 DEF Quiet, InRing, RingOrdered, Older
<1> QED
    BY <1>3, <1>4 DEF Retry

LEMMA AppendRing ==
    ASSUME IInv, NEW e \in Event, \A d \in Fired : Older(d, e),
           ring' = Append(ring, [event |-> e, busy |-> TRUE])
    PROVE  InRing' = InRing \cup {e} /\ RingOrdered'
<1> DEFINE r == [event |-> e, busy |-> TRUE]
<1>1. r \in RingRecord /\ r.event = e /\ ring \in Seq(RingRecord) /\ RingOrdered
    BY DEF RingRecord, IInv, TypeOK, Ordered
<1> HIDE DEF r
<1>2. /\ Len(ring) \in Nat
      /\ DOMAIN ring = 1 .. Len(ring) /\ DOMAIN Append(ring, r) = 1 .. Len(ring) + 1
      /\ \A i \in 1 .. Len(ring) : Append(ring, r)[i] = ring[i]
      /\ Append(ring, r)[Len(ring) + 1] = r
    BY <1>1, AppendFacts
<1>3. ring' = Append(ring, r)
    BY DEF r
<1>4. InRing' = InRing \cup {e}
    BY <1>1, <1>2, <1>3 DEF InRing
<1>5. \A d \in InRing : Older(d, e)
  <2>1. InRing \subseteq Fired
      BY PlacesAre DEF IInv, ProbeAccounted, Range
  <2> QED
      BY <2>1
<1>6. \A i \in 1 .. Len(ring) : Older(ring[i].event, e)
    BY <1>2, <1>5 DEF InRing
<1>7. \A i, j \in 1 .. Len(ring) : i < j => Older(ring[i].event, ring[j].event)
    BY <1>1, <1>2 DEF RingOrdered
<1>8. ASSUME NEW i \in 1 .. Len(ring) + 1, NEW j \in 1 .. Len(ring) + 1, i < j
      PROVE  Older(ring'[i].event, ring'[j].event)
  <2>1. CASE j = Len(ring) + 1
      BY <1>1, <1>2, <1>3, <1>6, <1>8, <2>1
  <2>2. CASE j # Len(ring) + 1
      BY <1>2, <1>3, <1>7, <1>8, <2>2
  <2> QED
      BY <2>1, <2>2
<1> QED
    BY <1>2, <1>3, <1>4, <1>8 DEF RingOrdered, Older

(* Where a fired event goes. *)
LEMMA FireSteps ==
    ASSUME IInv, NEW t \in Threads, Fire(t), NEW e, e = <<t, fired[t] + 1>>
    PROVE  /\ UNCHANGED <<current, fallback, topic, overflown>>
           /\ \/ unread' = unread \cup {e} /\ UNCHANGED <<ring, dropped>>
              \/ InRing' = InRing \cup {e} /\ RingOrdered' /\ UNCHANGED <<dropped, unread>>
              \/ dropped' = dropped \cup {e} /\ UNCHANGED <<ring, unread>>
<1>1. UNCHANGED <<current, fallback, topic, overflown>>
    BY DEF Fire, loopVars
<1>2. e \in Event /\ \A d \in Fired : Older(d, e)
    BY FireEffect
<1>3. \/ unread' = unread \cup {e} /\ UNCHANGED <<ring, dropped>>
      \/ ring' = Append(ring, [event |-> e, busy |-> TRUE]) /\ UNCHANGED <<dropped, unread>>
      \/ dropped' = dropped \cup {e} /\ UNCHANGED <<ring, unread>>
    BY DEF Fire
<1>4. ASSUME ring' = Append(ring, [event |-> e, busy |-> TRUE])
      PROVE  InRing' = InRing \cup {e} /\ RingOrdered'
    BY <1>2, <1>4, AppendRing
<1> QED
    BY <1>1, <1>3, <1>4

LEMMA SendSteps ==
    ASSUME IInv, Send
    PROVE  \E e \in Event :
             /\ current = {e} /\ current' = {}
             /\ UNCHANGED <<fired, ring, dropped, unread>>
             /\ \/ Sent(e, "first") /\ UNCHANGED <<fallback, overflown>>
                \/ /\ Acked' = Acked /\ AckedEvents' = AckedEvents
                   /\ \A i \in Acked : topic'[i] = topic[i]
                   /\ \/ /\ Range(fallback') = Range(fallback) \cup {e} /\ QueueOrdered'
                         /\ UNCHANGED overflown
                      \/ overflown' = overflown \cup {e} /\ UNCHANGED fallback
<1>1. PICK e \in current : \/ Sent(e, "first") /\ UNCHANGED <<fallback, overflown>>
                           \/ SendFails(e) /\ Keep(e)
    BY DEF Send
<1>2. /\ e \in Event /\ current = {e} /\ current' = {}
      /\ UNCHANGED <<fired, ring, dropped, unread>>
    BY DEF Send, kernelVars, IInv, TypeOK
<1>3. ASSUME SendFails(e)
      PROVE  /\ Acked' = Acked /\ AckedEvents' = AckedEvents
             /\ \A i \in Acked : topic'[i] = topic[i]
    BY <1>2, <1>3, FailedAcked DEF IInv
<1>4. ASSUME Keep(e)
      PROVE  \/ /\ Range(fallback') = Range(fallback) \cup {e} /\ QueueOrdered'
                /\ UNCHANGED overflown
             \/ overflown' = overflown \cup {e} /\ UNCHANGED fallback
    BY <1>4, KeepEffect
<1> QED
    BY <1>1, <1>2, <1>3, <1>4

(* The places, and the events that are in none twice. *)
LEMMA Apart ==
    ASSUME IInv
    PROVE  /\ Partition(Places, Fired)
           /\ current \cap AckedEvents = {} /\ Range(fallback) \cap AckedEvents = {}
           /\ \A d \in InRing \cup current \cup Settled : d \in Fired
<1>1. Partition(Places, Fired)
    BY DEF IInv, ProbeAccounted, Partition
<1>2. \A i, j \in 1 .. 7 : i # j => Places[i] \cap Places[j] = {}
    BY <1>1, PlacesAre DEF Partition
<1>3. \A i \in 1 .. 7 : Places[i] \subseteq Fired
    BY <1>1, PlacesAre DEF Partition, Range
<1>4. Settled = Range(fallback) \cup AckedEvents
    BY DEF Settled, AckedEvents
<1> QED
    BY <1>1, <1>2, <1>3, <1>4, PlacesAre

LEMMA QuietFrame ==
    ASSUME Quiet
    PROVE  Fired' = Fired /\ Places' = Places /\ AckedEvents' = AckedEvents /\ Settled' = Settled
    BY DEF Quiet, Fired, Places, AckedEvents, Settled, Range

LEMMA NextPartition == ASSUME IInv, [Next]_vars PROVE Partition(Places, Fired)'
<1>0. Partition(Places, Fired) /\ DOMAIN Places = 1 .. 7 /\ DOMAIN Places' = 1 .. 7
    BY Apart, PlacesAre, PlacesAreNext
<1>1. SUFFICES Partition(Places', Fired')
    BY DEF Partition, Range
<1>2. CASE Quiet
    BY <1>0, <1>2, QuietFrame
<1>3. ASSUME NEW t \in Threads, Fire(t) PROVE Partition(Places', Fired')
  <2> DEFINE e == <<t, fired[t] + 1>>
  <2>1. e \notin Fired /\ Fired' = Fired \cup {e}
      BY <1>3, FireEffect
  <2>2. /\ UNCHANGED <<current, fallback, topic, overflown>>
        /\ \/ unread' = unread \cup {e} /\ UNCHANGED <<ring, dropped>>
           \/ InRing' = InRing \cup {e} /\ UNCHANGED <<dropped, unread>>
           \/ dropped' = dropped \cup {e} /\ UNCHANGED <<ring, unread>>
      BY <1>3, FireSteps
  <2> HIDE DEF e
  <2>3. AckedEvents' = AckedEvents /\ Range(fallback') = Range(fallback)
      BY <2>2 DEF AckedEvents, Acked
  <2>4. ring' = ring => InRing' = InRing
      BY DEF InRing
  <2>5. PICK b \in 1 .. 7 : Places'[b] = Places[b] \cup {e} /\ \A i \in (1 .. 7) \ {b} : Places'[i] = Places[i]
    <3>1. CASE unread' = unread \cup {e} /\ UNCHANGED <<ring, dropped>>
      <4>1. Places'[7] = Places[7] \cup {e} /\ \A i \in (1 .. 7) \ {7} : Places'[i] = Places[i]
          BY <2>2, <2>3, <2>4, <3>1, PlacesAre, PlacesAreNext
      <4> QED
          BY <4>1
    <3>2. CASE InRing' = InRing \cup {e} /\ UNCHANGED <<dropped, unread>>
      <4>1. Places'[1] = Places[1] \cup {e} /\ \A i \in (1 .. 7) \ {1} : Places'[i] = Places[i]
          BY <2>2, <2>3, <3>2, PlacesAre, PlacesAreNext
      <4> QED
          BY <4>1
    <3>3. CASE dropped' = dropped \cup {e} /\ UNCHANGED <<ring, unread>>
      <4>1. Places'[5] = Places[5] \cup {e} /\ \A i \in (1 .. 7) \ {5} : Places'[i] = Places[i]
          BY <2>2, <2>3, <2>4, <3>3, PlacesAre, PlacesAreNext
      <4> QED
          BY <4>1
    <3> QED
        BY <2>2, <3>1, <3>2, <3>3
  <2> QED
      BY <1>0, <2>1, <2>5, NewPlace
<1>4. CASE Take
  <2> DEFINE e == Head(ring).event
  <2>1. /\ e \in InRing /\ InRing' = InRing \ {e} /\ current = {} /\ current' = {e}
        /\ UNCHANGED <<fired, fallback, topic, dropped, overflown, unread>>
      BY <1>4, TakeEffect
  <2> HIDE DEF e
  <2>2. Fired' = Fired /\ AckedEvents' = AckedEvents /\ Range(fallback') = Range(fallback)
      BY <2>1 DEF Fired, AckedEvents, Acked
  <2>3. /\ e \in Places[1] /\ Places'[1] = Places[1] \ {e} /\ Places'[2] = Places[2] \cup {e}
        /\ \A i \in (1 .. 7) \ {1, 2} : Places'[i] = Places[i]
      BY <2>1, <2>2, PlacesAre, PlacesAreNext
  <2> QED
      BY <1>0, <2>2, <2>3, MovePlace
<1>5. CASE Retry /\ ~Quiet
  <2> DEFINE e == Head(fallback)
  <2>1. /\ e \in Event /\ e \in Range(fallback) /\ Sent(e, "retry")
        /\ Range(fallback') = Range(fallback) \ {e}
        /\ UNCHANGED <<fired, ring, current, dropped, overflown, unread>>
      BY <1>5, RetrySteps
  <2> HIDE DEF e
  <2>2. Fired' = Fired /\ InRing' = InRing /\ AckedEvents' = AckedEvents \cup {e}
    <3>1. AckedEvents' = AckedEvents \cup {e}
        BY <2>1, SentAcked DEF Hows, IInv
    <3> QED
        BY <2>1, <3>1 DEF Fired, InRing
  <2>3. /\ e \in Places[3] /\ Places'[3] = Places[3] \ {e} /\ Places'[4] = Places[4] \cup {e}
        /\ \A i \in (1 .. 7) \ {3, 4} : Places'[i] = Places[i]
      BY <2>1, <2>2, PlacesAre, PlacesAreNext
  <2> QED
      BY <1>0, <2>2, <2>3, MovePlace
<1>6. CASE Send
  <2>1. PICK e \in Event :
             /\ current = {e} /\ current' = {}
             /\ UNCHANGED <<fired, ring, dropped, unread>>
             /\ \/ Sent(e, "first") /\ UNCHANGED <<fallback, overflown>>
                \/ /\ Acked' = Acked /\ AckedEvents' = AckedEvents
                   /\ \A i \in Acked : topic'[i] = topic[i]
                   /\ \/ /\ Range(fallback') = Range(fallback) \cup {e} /\ QueueOrdered'
                         /\ UNCHANGED overflown
                      \/ overflown' = overflown \cup {e} /\ UNCHANGED fallback
      BY <1>6, SendSteps
  <2>2. Fired' = Fired /\ InRing' = InRing
      BY <2>1 DEF Fired, InRing
  <2>3. \/ /\ AckedEvents' = AckedEvents \cup {e} /\ Range(fallback') = Range(fallback)
           /\ UNCHANGED overflown
        \/ /\ AckedEvents' = AckedEvents
           /\ Range(fallback') = Range(fallback) \cup {e} /\ UNCHANGED overflown
        \/ /\ AckedEvents' = AckedEvents
           /\ overflown' = overflown \cup {e} /\ Range(fallback') = Range(fallback)
    <3>1. ASSUME Sent(e, "first") PROVE AckedEvents' = AckedEvents \cup {e}
        BY <3>1, SentAcked DEF Hows, IInv
    <3> QED
        BY <2>1, <3>1
  <2>4. \E b \in (1 .. 7) \ {2} :
           /\ e \in Places[2] /\ Places'[2] = Places[2] \ {e} /\ Places'[b] = Places[b] \cup {e}
           /\ \A i \in (1 .. 7) \ {2, b} : Places'[i] = Places[i]
    <3>1. CASE /\ AckedEvents' = AckedEvents \cup {e} /\ Range(fallback') = Range(fallback)
               /\ UNCHANGED overflown
      <4>1. /\ e \in Places[2] /\ Places'[2] = Places[2] \ {e} /\ Places'[4] = Places[4] \cup {e}
            /\ \A i \in (1 .. 7) \ {2, 4} : Places'[i] = Places[i]
          BY <2>1, <2>2, <3>1, PlacesAre, PlacesAreNext
      <4> QED
          BY <4>1
    <3>2. CASE /\ AckedEvents' = AckedEvents
               /\ Range(fallback') = Range(fallback) \cup {e} /\ UNCHANGED overflown
      <4>1. /\ e \in Places[2] /\ Places'[2] = Places[2] \ {e} /\ Places'[3] = Places[3] \cup {e}
            /\ \A i \in (1 .. 7) \ {2, 3} : Places'[i] = Places[i]
          BY <2>1, <2>2, <3>2, PlacesAre, PlacesAreNext
      <4> QED
          BY <4>1
    <3>3. CASE /\ AckedEvents' = AckedEvents
               /\ overflown' = overflown \cup {e} /\ Range(fallback') = Range(fallback)
      <4>1. /\ e \in Places[2] /\ Places'[2] = Places[2] \ {e} /\ Places'[6] = Places[6] \cup {e}
            /\ \A i \in (1 .. 7) \ {2, 6} : Places'[i] = Places[i]
          BY <2>1, <2>2, <3>3, PlacesAre, PlacesAreNext
      <4> QED
          BY <4>1
    <3> QED
        BY <2>3, <3>1, <3>2, <3>3
  <2> QED
      BY <1>0, <2>2, <2>4, MovePlace
<1> QED
    BY <1>2, <1>3, <1>4, <1>5, <1>6, NextCases, QuietSteps

(* No event is acknowledged twice, and one acknowledged event overtakes     *)
(* another only as OvertakenWereQueued says.                                *)
AckedOnce == \A i, j \in Acked : i # j => topic[i].event # topic[j].event

LEMMA AckedMore ==
    ASSUME IInv, NEW e \in Event, NEW how \in {"first", "retry"}, Sent(e, how),
           e \notin AckedEvents,
           \A i \in Acked : topic[i].how = "retry" \/ how = "first" => Older(topic[i].event, e)
    PROVE  AckedOnce' /\ OvertakenWereQueued'
<1>1. /\ Len(topic) \in Nat /\ Acked \subseteq 1 .. Len(topic)
      /\ Acked' = Acked \cup {Len(topic) + 1}
      /\ topic'[Len(topic) + 1] = [event |-> e, how |-> how]
      /\ \A i \in Acked : topic'[i] = topic[i]
    BY SentAcked DEF Hows, IInv
<1>2. topic'[Len(topic) + 1].event = e /\ topic'[Len(topic) + 1].how = how
    BY <1>1
<1>3. \A i, j \in Acked : i # j => topic[i].event # topic[j].event
    BY DEF IInv, ProbeAccounted
<1>4. \A i \in Acked : topic[i].event # e
    BY DEF AckedEvents
<1>5. AckedOnce'
    BY <1>1, <1>2, <1>3, <1>4 DEF AckedOnce
<1>6. \A i \in Acked : topic[i].event \in Event /\ topic[i].how \in {"first", "retry"}
  <2>1. \A i \in 1 .. Len(topic) : topic[i] \in TopicRecord
      BY DEF IInv, TypeOK
  <2> QED
      BY <1>1, <2>1 DEF TopicRecord, Hows, Acked
<1>7. ASSUME NEW i \in Acked', NEW j \in Acked', i < j,
             topic'[i].event[1] = topic'[j].event[1], topic'[i].event[2] > topic'[j].event[2]
      PROVE  topic'[i].how = "first" /\ topic'[j].how = "retry"
  <2>1. i \in Acked /\ i # Len(topic) + 1
      BY <1>1, <1>7
  <2>2. CASE j \in Acked
      BY <1>1, <1>7, <2>1, <2>2 DEF IInv, OvertakenWereQueued
  <2>3. CASE j = Len(topic) + 1
    <3>1. topic[i].event[1] = e[1] /\ topic[i].event[2] > e[2]
        BY <1>1, <1>2, <1>7, <2>1, <2>3
    <3>2. ~Older(topic[i].event, e)
        BY <1>6, <2>1, <3>1, Ids DEF Older
    <3> QED
        BY <1>1, <1>2, <1>6, <2>1, <2>3, <3>2
  <2> QED
      BY <1>1, <2>2, <2>3
<1> QED
    BY <1>5, <1>7 DEF OvertakenWereQueued

LEMMA NextAcked == ASSUME IInv, [Next]_vars PROVE AckedOnce' /\ OvertakenWereQueued'
<1>1. AckedOnce /\ OvertakenWereQueued
    BY DEF IInv, ProbeAccounted, AckedOnce
<1>2. ASSUME Acked' = Acked, \A i \in Acked : topic'[i] = topic[i]
      PROVE  AckedOnce' /\ OvertakenWereQueued'
    BY <1>1, <1>2 DEF AckedOnce, OvertakenWereQueued
<1>3. ASSUME UNCHANGED topic PROVE AckedOnce' /\ OvertakenWereQueued'
    BY <1>2, <1>3 DEF Acked
<1>4. CASE Quiet
    BY <1>2, <1>4 DEF Quiet
<1>5. ASSUME NEW t \in Threads, Fire(t) PROVE AckedOnce' /\ OvertakenWereQueued'
    BY <1>3, <1>5 DEF Fire, loopVars
<1>6. CASE Take
    BY <1>3, <1>6 DEF Take
<1>7. CASE Retry /\ ~Quiet
  <2> DEFINE e == Head(fallback)
  <2>1. e \in Event /\ e \in Range(fallback) /\ Sent(e, "retry")
      BY <1>7, RetrySteps
  <2> HIDE DEF e
  <2>2. e \notin AckedEvents
      BY <2>1, Apart
  <2>3. \A i \in Acked : topic[i].how = "retry" => Older(topic[i].event, e)
      BY <2>1 DEF IInv, Ordered
  <2> QED
      BY <2>1, <2>2, <2>3, AckedMore
<1>8. CASE Send
  <2>1. PICK e \in Event :
             /\ current = {e}
             /\ \/ Sent(e, "first")
                \/ Acked' = Acked /\ \A i \in Acked : topic'[i] = topic[i]
      BY <1>8, SendSteps
  <2>2. e \notin AckedEvents
      BY <2>1, Apart
  <2>3. \A i \in Acked : Older(topic[i].event, e)
      BY <2>1 DEF IInv, Ordered, Settled
  <2> QED
      BY <1>2, <2>1, <2>2, <2>3, AckedMore
<1> QED
    BY <1>4, <1>5, <1>6, <1>7, <1>8, NextCases, QuietSteps

LEMMA OrderedInjective ==
    ASSUME NEW f \in Seq(Event), \A i, j \in DOMAIN f : i < j => Older(f[i], f[j])
    PROVE  IsInjective(f)
<1>1. Len(f) \in Nat /\ DOMAIN f = 1 .. Len(f)
    OBVIOUS
<1>2. \A i \in 1 .. Len(f) : f[i] \in Event
    OBVIOUS
<1>3. \A i, j \in 1 .. Len(f) : i < j => f[i] # f[j]
    BY <1>1, <1>2, Ids DEF Older
<1> QED
    BY <1>1, <1>3 DEF IsInjective

(* The order of a thread's events on their way. *)
LEMMA NextOrdered == ASSUME IInv, [Next]_vars PROVE Ordered'
<1>1. /\ RingOrdered /\ QueueOrdered
      /\ \A d \in Settled \cup current, e \in InRing : Older(d, e)
      /\ \A d \in Settled, e \in current : Older(d, e)
      /\ \A i \in Acked, e \in Range(fallback) :
           topic[i].how = "retry" => Older(topic[i].event, e)
    BY DEF IInv, Ordered
<1>2. Settled = Range(fallback) \cup AckedEvents /\ Settled' = Range(fallback') \cup AckedEvents'
    BY DEF Settled, AckedEvents
<1>3. CASE Quiet
  <2>1. RingOrdered' /\ QueueOrdered'
      BY <1>1, <1>3 DEF Quiet, QueueOrdered, Older
  <2> QED
      BY <1>1, <1>3, <2>1, QuietFrame DEF Quiet, Ordered, Older
<1>4. ASSUME NEW t \in Threads, Fire(t) PROVE Ordered'
  <2> DEFINE e == <<t, fired[t] + 1>>
  <2>1. \A d \in Fired : Older(d, e)
      BY <1>4, FireEffect
  <2>2. /\ UNCHANGED <<current, fallback, topic>>
        /\ ring' = ring \/ (InRing' = InRing \cup {e} /\ RingOrdered')
      BY <1>4, FireSteps
  <2> HIDE DEF e
  <2>3. Acked' = Acked /\ Settled' = Settled /\ QueueOrdered' /\ Range(fallback') = Range(fallback)
      BY <1>1, <2>2 DEF Acked, Settled, QueueOrdered, Older
  <2>4. RingOrdered' /\ InRing' \subseteq InRing \cup {e}
    <3>1. ring' = ring => RingOrdered' /\ InRing' = InRing
        BY <1>1 DEF RingOrdered, InRing, Older
    <3> QED
        BY <2>2, <3>1
  <2>5. \A d \in Settled \cup current : Older(d, e)
      BY <2>1, Apart
  <2>6. \A d \in Settled' \cup current', x \in InRing' : Older(d, x)
      BY <1>1, <2>2, <2>3, <2>4, <2>5
  <2> QED
      BY <1>1, <2>2, <2>3, <2>4, <2>6 DEF Ordered, Older
<1>5. CASE Take
  <2> DEFINE e == Head(ring).event
  <2>1. /\ e \in InRing /\ InRing' = InRing \ {e} /\ current = {} /\ current' = {e}
        /\ (\A d \in InRing' : Older(e, d)) /\ RingOrdered' /\ UNCHANGED <<fallback, topic>>
      BY <1>5, TakeEffect
  <2> HIDE DEF e
  <2>2. Acked' = Acked /\ Settled' = Settled /\ QueueOrdered' /\ Range(fallback') = Range(fallback)
      BY <1>1, <2>1 DEF Acked, Settled, QueueOrdered, Older
  <2>3. /\ \A d \in Settled' \cup current', x \in InRing' : Older(d, x)
        /\ \A d \in Settled', x \in current' : Older(d, x)
      BY <1>1, <2>1, <2>2
  <2> QED
      BY <1>1, <2>1, <2>2, <2>3 DEF Ordered, Older
<1>6. CASE Retry /\ ~Quiet
  <2> DEFINE e == Head(fallback)
  <2>1. /\ e \in Event /\ e \in Range(fallback) /\ Sent(e, "retry")
        /\ Range(fallback') = Range(fallback) \ {e}
        /\ (\A d \in Range(fallback') : Older(e, d)) /\ QueueOrdered'
        /\ UNCHANGED <<ring, current>>
      BY <1>6, RetrySteps
  <2> HIDE DEF e
  <2>2. /\ Acked' = Acked \cup {Len(topic) + 1}
        /\ topic'[Len(topic) + 1] = [event |-> e, how |-> "retry"]
        /\ \A i \in Acked : topic'[i] = topic[i]
        /\ AckedEvents' = AckedEvents \cup {e}
      BY <2>1, SentAcked DEF Hows, IInv
  <2>3. Settled' = Settled
      BY <1>2, <2>1, <2>2
  <2>4. RingOrdered' /\ InRing' = InRing
      BY <1>1, <2>1 DEF RingOrdered, InRing, Older
  <2>5. topic'[Len(topic) + 1].event = e
      BY <2>2
  <2>6. \A i \in Acked', x \in Range(fallback') :
           topic'[i].how = "retry" => Older(topic'[i].event, x)
      BY <1>1, <2>1, <2>2, <2>5
  <2> QED
      BY <1>1, <2>1, <2>3, <2>4, <2>6 DEF Ordered, Older
<1>7. CASE Send
  <2>1. PICK e \in Event :
             /\ current = {e} /\ current' = {} /\ UNCHANGED ring
             /\ \/ Sent(e, "first") /\ UNCHANGED <<fallback, overflown>>
                \/ /\ Acked' = Acked /\ AckedEvents' = AckedEvents
                   /\ \A i \in Acked : topic'[i] = topic[i]
                   /\ \/ /\ Range(fallback') = Range(fallback) \cup {e} /\ QueueOrdered'
                         /\ UNCHANGED overflown
                      \/ overflown' = overflown \cup {e} /\ UNCHANGED fallback
      BY <1>7, SendSteps
  <2>2. RingOrdered' /\ InRing' = InRing
      BY <1>1, <2>1 DEF RingOrdered, InRing, Older
  <2>3. UNCHANGED fallback => QueueOrdered' /\ Range(fallback') = Range(fallback)
      BY <1>1 DEF QueueOrdered, Older
  <2>4. CASE Sent(e, "first") /\ UNCHANGED <<fallback, overflown>>
    <3>1. /\ Acked' = Acked \cup {Len(topic) + 1}
          /\ topic'[Len(topic) + 1] = [event |-> e, how |-> "first"]
          /\ \A i \in Acked : topic'[i] = topic[i]
          /\ AckedEvents' = AckedEvents \cup {e}
        BY <2>4, SentAcked DEF Hows, IInv
    <3>2. topic'[Len(topic) + 1].how = "first"
        BY <3>1
    <3>3. Settled' = Settled \cup current
        BY <1>2, <2>1, <2>3, <2>4, <3>1
    <3>4. \A i \in Acked', x \in Range(fallback') :
             topic'[i].how = "retry" => Older(topic'[i].event, x)
        BY <1>1, <2>3, <2>4, <3>1, <3>2
    <3> QED
        BY <1>1, <2>1, <2>2, <2>3, <2>4, <3>3, <3>4 DEF Ordered, Older
  <2>5. CASE /\ Acked' = Acked /\ AckedEvents' = AckedEvents
             /\ \A i \in Acked : topic'[i] = topic[i]
    <3>1. QueueOrdered' /\ Range(fallback') \subseteq Range(fallback) \cup {e}
        BY <2>1, <2>3, <2>4, <2>5
    <3>2. Settled' \subseteq Settled \cup current
        BY <1>2, <2>1, <2>5, <3>1
    <3>3. \A i \in Acked : Older(topic[i].event, e)
        BY <1>1, <1>2, <2>1 DEF AckedEvents
    <3>4. \A i \in Acked', x \in Range(fallback') :
             topic'[i].how = "retry" => Older(topic'[i].event, x)
        BY <1>1, <2>5, <3>1, <3>3
    <3> QED
        BY <1>1, <2>1, <2>2, <3>1, <3>2, <3>4 DEF Ordered, Older
  <2> QED
      BY <2>1, <2>4, <2>5
<1> QED
    BY <1>3, <1>4, <1>5, <1>6, <1>7, NextCases, QuietSteps

-----------------------------------------------------------------------------
(* The inductive invariant holds of the agent and its programs however their *)
(* steps interleave.                                                         *)
THEOREM InvCorrect == Spec => []IInv
<1>1. IInv /\ [Next]_vars => IInv'
  <2> SUFFICES ASSUME IInv, [Next]_vars PROVE IInv'
      OBVIOUS
  <2>1. TypeOK' /\ Ordered' /\ AckedOnce' /\ OvertakenWereQueued' /\ Partition(Places, Fired)'
      BY NextType, NextOrdered, NextAcked, NextPartition
  <2>2. /\ fallback' \in Seq(Event)
        /\ \A i, j \in DOMAIN fallback' : i < j => Older(fallback'[i], fallback'[j])
      BY <2>1 DEF TypeOK, Ordered, QueueOrdered, Older
  <2>3. IsInjective(fallback')
      BY <2>2, OrderedInjective
  <2>4. ProbeAccounted'
      BY <2>1, <2>3 DEF ProbeAccounted, Partition, AckedOnce
  <2> QED
      BY <2>1, <2>4 DEF IInv
<1> QED
    BY InitInv, <1>1, PTL DEF Spec

(* Every event the eBPF programs saw is in exactly one place, and none is   *)
(* queued or acknowledged twice (main.rs's drain loop and its fallback      *)
(* queue), for any sizes of the ring buffer and the queue.                  *)
THEOREM ProbeAccountedCorrect == Spec => []ProbeAccounted
    BY InvCorrect, PTL DEF IInv

(* A thread's events leave kernel.raw's order only across a failed send: an *)
(* event overtakes another only if it was sent at once and the other from   *)
(* the fallback queue.                                                      *)
THEOREM OvertakenWereQueuedCorrect == Spec => []OvertakenWereQueued
    BY InvCorrect, PTL DEF IInv

-----------------------------------------------------------------------------
(* What the liveness of the drain loop and of the warnings rests on. *)

LEMMA BusyNext == ASSUME TypeOK, BusyIsWritten, [Next]_vars PROVE BusyIsWritten'
<1>1. /\ hook \in [Threads -> {"idle", "submit", "load", "store"}] /\ ring \in Seq(RingRecord)
      /\ Len(ring) \in Nat /\ DOMAIN ring = 1 .. Len(ring)
  BY DEF TypeOK
<1>2. \A i \in DOMAIN ring : ring[i] \in RingRecord
  BY <1>1
<1>3. \A i \in DOMAIN ring : ring[i].event[1] \in Threads /\ ring[i].busy \in BOOLEAN
  BY <1>2 DEF RingRecord, Event
<1>4. ASSUME UNCHANGED <<hook, ring>> PROVE BusyIsWritten'
  BY <1>4 DEF BusyIsWritten
<1>5. ASSUME NEW t \in Threads, hook[t] # "submit", UNCHANGED ring,
             \A s \in Threads : s # t => hook'[s] = hook[s]
      PROVE  BusyIsWritten'
  BY <1>3, <1>5 DEF BusyIsWritten
<1>6. ASSUME NEW t \in Threads, Fire(t) PROVE BusyIsWritten'
  <2> DEFINE e == <<t, fired[t] + 1>>
             r == [event |-> e, busy |-> TRUE]
  <2>1. hook[t] = "idle"
    BY <1>6 DEF Fire
  <2>2. CASE UNCHANGED <<hook, ring>>
    BY <2>2, <1>4
  <2>3. CASE ring' = Append(ring, r) /\ hook' = [hook EXCEPT ![t] = "submit"]
    <3>1. e \in Event
      <4>1. fired[t] \in 0 .. Hooks /\ fired[t] < Hooks /\ Hooks \in Nat
        BY <1>6, ProbeAssumption DEF Fire, TypeOK
      <4>2. fired[t] + 1 \in 1 .. Hooks
        BY <4>1
      <4> QED BY <4>2 DEF Event
    <3>2. r \in RingRecord
      BY <3>1 DEF RingRecord
    <3> HIDE DEF r
    <3>3. /\ DOMAIN ring' = 1 .. Len(ring) + 1 /\ ring'[Len(ring) + 1] = r
          /\ \A i \in 1 .. Len(ring) : ring'[i] = ring[i]
      BY <1>1, <2>3, <3>2, AppendFacts
    <3>4. r.event[1] = t /\ hook'[t] = "submit"
      BY <1>1, <2>3 DEF r
    <3>5. \A s \in Threads : s # t => hook'[s] = hook[s]
      BY <1>1, <2>3
    <3>6. ASSUME NEW i \in DOMAIN ring', ring'[i].busy PROVE hook'[ring'[i].event[1]] = "submit"
      <4>1. CASE i = Len(ring) + 1
        BY <4>1, <3>3, <3>4
      <4>2. CASE i \in 1 .. Len(ring)
        BY <4>2, <3>3, <3>4, <3>5, <3>6, <1>1, <1>3 DEF BusyIsWritten
      <4> QED BY <4>1, <4>2, <3>3, <1>1
    <3> QED BY <3>6 DEF BusyIsWritten
  <2>4. CASE ring' = ring /\ hook' = [hook EXCEPT ![t] = "load"]
    BY <2>1, <2>4, <1>1, <1>5
  <2> QED BY <1>6, <2>2, <2>3, <2>4 DEF Fire
<1>7. ASSUME NEW t \in Threads, submit(t) PROVE BusyIsWritten'
  <2>1. /\ hook' = [hook EXCEPT ![t] = "idle"]
        /\ ring' = [i \in DOMAIN ring |-> [ring[i] EXCEPT !.busy = @ /\ ring[i].event[1] # t]]
    BY <1>7 DEF submit
  <2>2. ASSUME NEW i \in DOMAIN ring
        PROVE  ring'[i].event = ring[i].event /\ (ring'[i].busy => ring[i].busy /\ ring[i].event[1] # t)
    BY <2>1, <1>2 DEF RingRecord
  <2>3. \A s \in Threads : s # t => hook'[s] = hook[s]
    BY <1>1, <2>1
  <2>4. DOMAIN ring' = DOMAIN ring
    BY <2>1
  <2> QED BY <2>2, <2>3, <2>4, <1>3 DEF BusyIsWritten
<1>8. ASSUME NEW t \in Threads, Load(t) \/ Store(t) PROVE BusyIsWritten'
  BY <1>1, <1>5, <1>8 DEF Load, Store
<1>9. CASE Take
  <2>1. ring # <<>> /\ ring' = Tail(ring) /\ hook' = hook
    BY <1>9 DEF Take, kernelVars
  <2>2. /\ DOMAIN ring' = 1 .. Len(ring) - 1 /\ \A i \in 1 .. Len(ring) - 1 : ring'[i] = ring[i + 1]
    BY <1>1, <2>1, TailFacts
  <2>3. ASSUME NEW i \in DOMAIN ring', ring'[i].busy PROVE hook'[ring'[i].event[1]] = "submit"
    BY <1>1, <2>1, <2>2, <2>3 DEF BusyIsWritten
  <2> QED BY <2>3 DEF BusyIsWritten
<1>10. CASE Retry \/ RetryDone \/ Send \/ Tick \/ Exit \/ UNCHANGED vars
  BY <1>4, <1>10 DEF Retry, RetryDone, Send, Tick, Exit, vars, kernelVars
<1> QED BY <1>6, <1>7, <1>8, <1>9, <1>10 DEF Next, Program, DrainLoop

(* For any threads and sizes: a record that the drain loops of publisher.rs  *)
(* cannot take yet has a program behind it that is about to submit it.       *)
THEOREM BusyIsWrittenCorrect == Spec => []BusyIsWritten
<1>1. Init => BusyIsWritten
  BY DEF Init, BusyIsWritten
<1>2. IInv /\ BusyIsWritten /\ [Next]_vars => BusyIsWritten'
  BY BusyNext DEF IInv
<1> QED BY <1>1, <1>2, InvCorrect, PTL DEF Spec

-----------------------------------------------------------------------------
LEMMA CountNext == ASSUME IInv, CountInv, [Next]_vars PROVE CountInv'
<1>1. /\ hook \in [Threads -> {"idle", "submit", "load", "store"}]
      /\ counter \in Nat /\ loaded \in [Threads -> Nat]
  BY DEF IInv, TypeOK
<1>2. /\ IsFiniteSet(dropped) /\ IsFiniteSet(Counting)
      /\ Cardinality(dropped) \in Nat /\ Cardinality(Counting) \in Nat
      /\ counter + Cardinality(Counting) <= Cardinality(dropped)
      /\ dropped # {} => counter > 0 \/ Counting # {}
  BY FS_CardinalityType DEF CountInv, DropsCounted
<1>3. ASSUME UNCHANGED <<hook, counter, loaded, dropped>> PROVE CountInv'
  BY <1>3 DEF CountInv, DropsCounted, Counting
<1>4. ASSUME UNCHANGED <<counter, loaded, dropped>>, Counting' = Counting,
             \A t \in Threads : hook'[t] = "store" => hook[t] = "store"
      PROVE  CountInv'
  BY <1>4 DEF CountInv, DropsCounted
<1>5. ASSUME NEW t \in Threads, Fire(t) PROVE CountInv'
  <2> DEFINE e == <<t, fired[t] + 1>>
  <2>1. hook[t] = "idle" /\ UNCHANGED <<counter, loaded>>
    BY <1>5 DEF Fire
  <2>2. CASE UNCHANGED <<hook, dropped>>
    BY <2>1, <2>2, <1>3
  <2>3. CASE hook' = [hook EXCEPT ![t] = "submit"] /\ UNCHANGED dropped
    BY <1>1, <2>1, <2>3, <1>4 DEF Counting
  <2>4. CASE hook' = [hook EXCEPT ![t] = "load"] /\ dropped' = dropped \cup {e}
    <3>1. e \notin dropped
      <4>1. e \notin Fired
        BY DEF Fired, IInv, TypeOK
      <4>2. dropped \subseteq Fired
        <5>1. Places[5] = dropped /\ 5 \in DOMAIN Places
          BY DEF Places
        <5> QED BY <5>1 DEF IInv, ProbeAccounted, Range
      <4> QED BY <4>1, <4>2
    <3>2. Counting' = Counting \cup {t} /\ t \notin Counting
      BY <1>1, <2>1, <2>4 DEF Counting
    <3>3. /\ IsFiniteSet(dropped') /\ Cardinality(dropped') = Cardinality(dropped) + 1
          /\ IsFiniteSet(Counting') /\ Cardinality(Counting') = Cardinality(Counting) + 1
      BY <1>2, <2>4, <3>1, <3>2, FS_AddElement
    <3>4. \A s \in Threads : hook'[s] = "store" => hook[s] = "store"
      BY <1>1, <2>4
    <3>5. \A s \in Threads : hook'[s] = "store" =>
             loaded'[s] + Cardinality(Counting') <= Cardinality(dropped')
      BY <1>1, <1>2, <2>1, <3>3, <3>4 DEF CountInv
    <3>6. counter' + Cardinality(Counting') <= Cardinality(dropped') /\ Counting' # {}
      BY <1>1, <1>2, <2>1, <3>2, <3>3
    <3>7. counter' <= Cardinality(dropped')
      BY <1>1, <1>2, <2>1, <3>3
    <3> QED BY <3>3, <3>5, <3>6, <3>7 DEF CountInv, DropsCounted
  <2> QED BY <1>5, <2>2, <2>3, <2>4 DEF Fire
<1>6. ASSUME NEW t \in Threads, submit(t) PROVE CountInv'
  BY <1>1, <1>4, <1>6 DEF submit, Counting
<1>7. ASSUME NEW t \in Threads, Load(t) PROVE CountInv'
  <2>1. /\ hook[t] = "load" /\ hook' = [hook EXCEPT ![t] = "store"]
        /\ loaded' = [loaded EXCEPT ![t] = counter] /\ UNCHANGED <<counter, dropped>>
    BY <1>7 DEF Load
  <2>2. Counting' = Counting
    BY <1>1, <2>1 DEF Counting
  <2>3. ASSUME NEW s \in Threads, hook'[s] = "store"
        PROVE  loaded'[s] + Cardinality(Counting') <= Cardinality(dropped')
    <3>1. CASE s = t
      BY <1>1, <1>2, <2>1, <2>2, <3>1
    <3>2. CASE s # t
      BY <1>1, <1>2, <2>1, <2>2, <2>3, <3>2 DEF CountInv
    <3> QED BY <3>1, <3>2
  <2> QED BY <2>1, <2>2, <2>3 DEF CountInv, DropsCounted
<1>8. ASSUME NEW t \in Threads, Store(t) PROVE CountInv'
  <2>1. /\ hook[t] = "store" /\ hook' = [hook EXCEPT ![t] = "idle"]
        /\ counter' = loaded[t] + 1 /\ UNCHANGED <<loaded, dropped>>
    BY <1>8 DEF Store
  <2>2. Counting' = Counting \ {t} /\ t \in Counting
    BY <1>1, <2>1 DEF Counting
  <2>3. IsFiniteSet(Counting') /\ Cardinality(Counting') = Cardinality(Counting) - 1
    BY <1>2, <2>2, FS_RemoveElement
  <2>4. loaded[t] \in Nat /\ loaded[t] + Cardinality(Counting) <= Cardinality(dropped)
    BY <1>1, <2>1 DEF CountInv
  <2>5. counter' + Cardinality(Counting') <= Cardinality(dropped') /\ counter' > 0
    BY <1>2, <2>1, <2>3, <2>4
  <2>6. counter' <= Cardinality(dropped')
    <3>1. Cardinality(Counting') \in Nat
      BY <2>3, FS_CardinalityType
    <3> QED BY <1>2, <2>1, <2>4, <2>5, <3>1
  <2>7. ASSUME NEW s \in Threads, hook'[s] = "store"
        PROVE  loaded'[s] + Cardinality(Counting') <= Cardinality(dropped')
    <3>1. hook[s] = "store"
      BY <1>1, <2>1, <2>7
    <3>2. loaded[s] \in Nat /\ loaded[s] + Cardinality(Counting) <= Cardinality(dropped)
      BY <1>1, <3>1 DEF CountInv
    <3> QED BY <1>2, <2>1, <2>3, <3>2
  <2> QED BY <1>2, <2>1, <2>3, <2>5, <2>6, <2>7 DEF CountInv, DropsCounted
<1>9. CASE DrainLoop \/ Tick \/ Exit \/ UNCHANGED vars
  BY <1>3, <1>9 DEF DrainLoop, Take, Retry, RetryDone, Send, Tick, Exit, vars, kernelVars
<1> QED BY <1>5, <1>6, <1>7, <1>8, <1>9 DEF Next, Program

(* For any threads: the unsynchronised `*counter += 1` of the eBPF programs  *)
(* never leaves the counter at zero once an event was dropped, nor above the *)
(* number of drops: the agent has something to warn of exactly if there is.  *)
THEOREM DropsCountedCorrect == Spec => []DropsCounted
<1>1. Init => CountInv
  <2> SUFFICES ASSUME Init PROVE CountInv
    OBVIOUS
  <2>1. dropped = {} /\ counter = 0 /\ hook = [t \in Threads |-> "idle"]
    BY DEF Init
  <2>2. Counting = {} /\ \A t \in Threads : hook[t] # "store"
    BY <2>1 DEF Counting
  <2> QED BY <2>1, <2>2, FS_EmptySet DEF CountInv, DropsCounted
<1>2. IInv /\ CountInv /\ [Next]_vars => CountInv'
  BY CountNext
<1>3. CountInv => DropsCounted
  BY DEF CountInv
<1> QED BY <1>1, <1>2, <1>3, InvCorrect, PTL DEF Spec
=============================================================================
