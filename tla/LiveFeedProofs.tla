--------------------------- MODULE LiveFeedProofs ---------------------------
(***************************************************************************)
(* Proofs about LiveFeed, for any number of records, injections, clients    *)
(* and any channel capacity.                                                *)
(***************************************************************************)
EXTENDS LiveFeed, SequenceTheorems, FiniteSetTheorems, TLAPS

-----------------------------------------------------------------------------
(* Facts about sequences. *)

LEMMA EmptySequence == ASSUME NEW S PROVE <<>> \in Seq(S)
    OBVIOUS

LEMMA OneElement == ASSUME NEW S, NEW e \in S PROVE <<e>> \in Seq(S)
    OBVIOUS

LEMMA ToSetOfSeq ==
    ASSUME NEW S, NEW s \in Seq(S)
    PROVE  ToSet(s) = {s[i] : i \in 1 .. Len(s)}
    BY DEF ToSet

(* A sequence without repetitions has as many elements as its length says. *)
LEMMA InjectiveCardinality ==
    ASSUME NEW S, NEW s \in Seq(S), IsInjective(s)
    PROVE  Cardinality(ToSet(s)) = Len(s)
<1>1. Len(s) \in Nat /\ s \in [1 .. Len(s) -> ToSet(s)]
    BY DEF ToSet
<1>2. s \in Injection(1 .. Len(s), ToSet(s))
    BY <1>1 DEF Injection
<1>3. s \in Surjection(1 .. Len(s), ToSet(s))
    BY <1>1 DEF Surjection, ToSet
<1>4. ExistsBijection(1 .. Len(s), ToSet(s))
    BY <1>2, <1>3 DEF ExistsBijection, Bijection
<1> QED
    BY <1>1, <1>4, FS_CountingElements

(* Appending an element that is not there. *)
LEMMA AppendNew ==
    ASSUME NEW S, NEW s \in Seq(S), NEW e \in S, e \notin ToSet(s)
    PROVE  /\ Append(s, e) \in Seq(S)
           /\ ToSet(Append(s, e)) = ToSet(s) \cup {e}
           /\ IsInjective(s) => IsInjective(Append(s, e))
<1>1. /\ Append(s, e) \in Seq(S) /\ Len(s) \in Nat /\ Len(Append(s, e)) = Len(s) + 1
      /\ \A i \in 1 .. Len(s) : Append(s, e)[i] = s[i]
      /\ Append(s, e)[Len(s) + 1] = e
    BY AppendProperties
<1>2. ToSet(s) = {s[i] : i \in 1 .. Len(s)}
    BY ToSetOfSeq
<1>3. ToSet(Append(s, e)) = {Append(s, e)[i] : i \in 1 .. Len(s) + 1}
    BY <1>1, ToSetOfSeq
<1>4. ToSet(Append(s, e)) = ToSet(s) \cup {e}
    BY <1>1, <1>2, <1>3
<1>5. ASSUME IsInjective(s) PROVE IsInjective(Append(s, e))
  <2>1. \A i \in 1 .. Len(s) : s[i] # e
      BY <1>2
  <2>2. DOMAIN s = 1 .. Len(s) /\ DOMAIN Append(s, e) = 1 .. Len(s) + 1
      BY <1>1
  <2> QED
      BY <1>1, <1>5, <2>1, <2>2 DEF IsInjective
<1> QED
    BY <1>1, <1>4, <1>5

(* What a handler wrote, holds and has in its channel, seen as one sequence: *)
(* only Offer changes it.                                                    *)
LEMMA ReceiveKeeps ==
    ASSUME NEW S, NEW g \in Seq(S), NEW ch \in Seq(S), ch # <<>>
    PROVE  g \o <<Head(ch)>> \o Tail(ch) = g \o <<>> \o ch
<1>1. Head(ch) \in S /\ Tail(ch) \in Seq(S) /\ ch = <<Head(ch)>> \o Tail(ch)
    OBVIOUS
<1>2. <<Head(ch)>> \in Seq(S)
    BY <1>1
<1>3. (g \o <<Head(ch)>>) \o Tail(ch) = g \o (<<Head(ch)>> \o Tail(ch))
    BY <1>1, <1>2, ConcatAssociative
<1> QED
    BY <1>1, <1>3, ConcatEmptySeq

LEMMA WriteKeeps ==
    ASSUME NEW S, NEW g \in Seq(S), NEW h \in Seq(S), NEW ch \in Seq(S)
    PROVE  (g \o h) \o <<>> \o ch = g \o h \o ch
<1>1. g \o h \in Seq(S)
    BY ConcatProperties
<1> QED
    BY <1>1, ConcatEmptySeq

LEMMA OfferAppends ==
    ASSUME NEW S, NEW g \in Seq(S), NEW h \in Seq(S), NEW ch \in Seq(S), NEW e \in S
    PROVE  g \o h \o Append(ch, e) = Append(g \o h \o ch, e)
<1>1. g \o h \in Seq(S) /\ <<e>> \in Seq(S)
    BY ConcatProperties, OneElement
<1>2. g \o h \o ch \in Seq(S)
    BY <1>1, ConcatProperties
<1>3. Append(ch, e) = ch \o <<e>> /\ Append(g \o h \o ch, e) = (g \o h \o ch) \o <<e>>
    BY <1>2, AppendIsConcat
<1> QED
    BY <1>1, <1>3, ConcatAssociative

LEMMA AllType == ASSUME TypeOK, NEW c \in Clients PROVE All(c) \in Seq(Events)
<1>1. got[c] \in Seq(Events) /\ held[c] \in Seq(Events) /\ chan[c] \in Seq(Events)
    BY DEF TypeOK
<1>2. got[c] \o held[c] \in Seq(Events)
    BY <1>1, ConcatProperties
<1> QED
    BY <1>1, <1>2, ConcatProperties DEF All

-----------------------------------------------------------------------------
(* The inductive invariant. *)

LEMMA InitInv == Init => IInv
<1> SUFFICES ASSUME Init PROVE IInv
    OBVIOUS
<1> USE FeedAssumption
<1>1. <<>> \in Seq(Events) /\ Len(<<>>) = 0
    BY EmptySequence
<1>2. TypeOK
    BY <1>1 DEF Init, TypeOK, Broadcasters
<1>3. Casts
    BY DEF Init, Casts
<1>4. Handlers
    BY DEF Init, Handlers
<1>5. Deliveries
    BY DEF Init, Deliveries
<1> QED
    BY <1>2, <1>3, <1>4, <1>5 DEF IInv

(* What a broadcaster that holds the lock broadcasts is an event. *)
LEMMA EventType ==
    ASSUME TypeOK, Casts, NEW b \in reading
    PROVE  Event(b) \in Events /\ (b = 0 => Event(b) <= N) /\ (b # 0 => Event(b) > N)
<1> USE FeedAssumption
<1>1. b \in 0 .. Injects /\ position \in 1 .. N + 1 /\ (b = 0 => position > 1)
    BY DEF TypeOK, Casts, Broadcasters
<1> QED
    BY <1>1 DEF Event, Events

LEMMA NextType == TypeOK /\ Casts /\ [Next]_vars => TypeOK'
<1> SUFFICES ASSUME TypeOK, Casts, [Next]_vars PROVE TypeOK'
    OBVIOUS
<1> USE FeedAssumption
<1> USE DEF TypeOK, hubVars, castVars, consumerVars, clientVars, histVars
<1>1. ASSUME NEW b \in Broadcasters, NEW c \in Clients, Offer(b, c) PROVE TypeOK'
  <2>1. Event(b) \in Events
      BY <1>1, EventType DEF Offer
  <2>2. Append(chan[c], Event(b)) \in Seq(Events)
        /\ Len(Append(chan[c], Event(b))) = Len(chan[c]) + 1 /\ Len(chan[c]) \in Nat
      BY <2>1
  <2>3. chan' \in [Clients -> Seq(Events)] /\ \A d \in Clients : Len(chan'[d]) <= Cap
    <3>1. CASE Len(chan[c]) < Cap
      <4>1. chan' = [chan EXCEPT ![c] = Append(chan[c], Event(b))]
          BY <1>1, <3>1 DEF Offer
      <4>2. Len(Append(chan[c], Event(b))) <= Cap
          BY <2>2, <3>1
      <4>3. chan' \in [Clients -> Seq(Events)]
          BY <2>2, <4>1
      <4>4. \A d \in Clients : chan'[d] = IF d = c THEN Append(chan[c], Event(b)) ELSE chan[d]
          BY <4>1
      <4> QED
          BY <4>2, <4>3, <4>4
    <3>2. CASE ~(Len(chan[c]) < Cap)
        BY <1>1, <3>2 DEF Offer
    <3> QED
        BY <3>1, <3>2
  <2>4. missed' \in [Clients -> SUBSET Events]
    <3>1. CASE Len(chan[c]) < Cap
        BY <1>1, <3>1 DEF Offer
    <3>2. CASE ~(Len(chan[c]) < Cap)
      <4>1. missed[c] \cup {Event(b)} \in SUBSET Events
          BY <2>1
      <4> QED
          BY <1>1, <3>2, <4>1 DEF Offer
    <3> QED
        BY <3>1, <3>2
  <2>5. todo' \in [Broadcasters -> SUBSET Clients]
      BY <1>1 DEF Offer
  <2> QED
      BY <1>1, <2>3, <2>4, <2>5 DEF Offer
<1>2. ASSUME NEW b \in Broadcasters, BroadcastReturns(b) PROVE TypeOK'
  <2>1. Event(b) \in Events
      BY <1>2, EventType DEF BroadcastReturns
  <2> QED
      BY <1>2, <2>1 DEF BroadcastReturns
<1>3. CASE Fetch
  <2>1. position' \in 1 .. N + 1 /\ loop' \in {"fetch", "broadcast", "returned"}
      BY <1>3 DEF Fetch
  <2>2. reading' \subseteq Broadcasters /\ todo' \in [Broadcasters -> SUBSET Clients]
    <3>1. CASE position \in Invalid
        BY <1>3, <3>1 DEF Fetch
    <3>2. CASE position \notin Invalid
      <4>1. reading' = reading \cup {0} /\ todo' = [todo EXCEPT ![0] = subscribers]
          BY <1>3, <3>2 DEF Fetch, Broadcast
      <4> QED
          BY <4>1 DEF Broadcasters
    <3> QED
        BY <3>1, <3>2
  <2> QED
      BY <1>3, <2>1, <2>2 DEF Fetch
<1>4. CASE FetchStops \/ Cancel \/ GracefulStop
    BY <1>4 DEF FetchStops, Cancel, GracefulStop
<1>5. ASSUME NEW b \in 1 .. Injects, Inject(b) PROVE TypeOK'
  <2>1. reading' \subseteq Broadcasters /\ todo' \in [Broadcasters -> SUBSET Clients]
      BY <1>5 DEF Inject, Broadcast, Broadcasters
  <2> QED
      BY <1>5, <2>1 DEF Inject
<1>6. ASSUME NEW c \in Clients, Subscribe(c) PROVE TypeOK'
    BY <1>6 DEF Subscribe
<1>7. ASSUME NEW c \in Clients, Handler(c) PROVE TypeOK'
  <2>1. CASE Receive(c)
    <3>1. <<Head(chan[c])>> \in Seq(Events) /\ Tail(chan[c]) \in Seq(Events)
          /\ Len(Tail(chan[c])) <= Cap
        BY <2>1 DEF Receive
    <3> QED
        BY <2>1, <3>1 DEF Receive
  <2>2. CASE Write(c)
    <3>1. got[c] \o held[c] \in Seq(Events) /\ <<>> \in Seq(Events)
        BY EmptySequence, ConcatProperties
    <3> QED
        BY <2>2, <3>1 DEF Write
  <2>3. CASE WriteFails(c) \/ Leaving(c)
      BY <2>3 DEF WriteFails, Leaving, ContextDone, Unsubscribe
  <2>4. CASE CloseChannel(c)
    <3>1. <<>> \in Seq(Events) /\ Len(<<>>) <= Cap
        BY EmptySequence
    <3> QED
        BY <2>4, <3>1 DEF CloseChannel
  <2> QED
      BY <1>7, <2>1, <2>2, <2>3, <2>4 DEF Handler
<1>8. ASSUME NEW c \in Clients, ClientGone(c) PROVE TypeOK'
    BY <1>8 DEF ClientGone
<1>9. CASE UNCHANGED vars
    BY <1>9 DEF vars
<1>10. 0 \in Broadcasters /\ 1 .. Injects \subseteq Broadcasters
    BY DEF Broadcasters
<1> QED
    BY <1>1, <1>2, <1>3, <1>4, <1>5, <1>6, <1>7, <1>8, <1>9, <1>10 DEF Next, Consume, Casting

LEMMA NextCasts == TypeOK /\ Casts /\ [Next]_vars => Casts'
<1> SUFFICES ASSUME TypeOK, Casts, [Next]_vars PROVE Casts'
    OBVIOUS
<1> USE FeedAssumption
<1> USE DEF hubVars, castVars, consumerVars, clientVars, histVars
<1>1. ASSUME NEW b \in Broadcasters, NEW c \in Clients, Offer(b, c) PROVE Casts'
    BY <1>1 DEF Offer, Casts, Announced, Event, TypeOK
<1>2. ASSUME NEW b \in Broadcasters, BroadcastReturns(b) PROVE Casts'
  <2>1. Event(b) \in Events /\ Announced(Event(b))
      BY <1>2, EventType DEF BroadcastReturns, Casts, Announced, Event, TypeOK, Broadcasters
  <2>2. ASSUME NEW d \in reading \ {b} PROVE Event(d) # Event(b)
      BY <1>2, <2>2 DEF BroadcastReturns, Casts, Event, TypeOK, Broadcasters
  <2> QED
      BY <1>2, <2>1, <2>2 DEF BroadcastReturns, Casts, Announced, Event, TypeOK
<1>3. CASE Fetch
  <2>1. 0 \notin reading /\ position \in Nat /\ position' = position + 1
      BY <1>3 DEF Fetch, Casts, TypeOK
  <2>2. \A e \in aired : Announced(e)' /\ e # position
      BY <1>3, <2>1 DEF Fetch, Casts, Announced, TypeOK, Events
  <2>3. CASE position \in Invalid
      BY <1>3, <2>1, <2>2, <2>3 DEF Fetch, Casts, Event, TypeOK
  <2>4. CASE position \notin Invalid
    <3>1. /\ reading' = reading \cup {0} /\ todo' = [todo EXCEPT ![0] = subscribers]
          /\ loop' = "broadcast" /\ UNCHANGED <<subscribers, aired, injected>>
        BY <1>3, <2>4 DEF Fetch, Broadcast
    <3>2. todo'[0] = subscribers /\ \A b \in reading : b # 0 /\ todo'[b] = todo[b]
        BY <2>1, <3>1 DEF TypeOK, Broadcasters
    <3>3. Event(0)' = position /\ \A b \in reading : Event(b)' = Event(b)
        BY <2>1, <3>2 DEF Event
    <3>4. \A b \in reading' : todo'[b] \subseteq subscribers /\ Event(b)' \notin aired
        BY <2>2, <3>1, <3>2, <3>3 DEF Casts
    <3>5. position' > 1 /\ reading' \ {0} \subseteq injected
        BY <2>1, <3>1 DEF Casts, TypeOK
    <3> QED
        BY <2>2, <3>1, <3>4, <3>5 DEF Casts
  <2> QED
      BY <2>3, <2>4
<1>4. CASE FetchStops \/ Cancel \/ GracefulStop
    BY <1>4 DEF FetchStops, Cancel, GracefulStop, Casts, Announced, Event
<1>5. ASSUME NEW b \in 1 .. Injects, Inject(b) PROVE Casts'
  <2>1. N + b \notin aired /\ \A e \in aired : Announced(e)'
      BY <1>5 DEF Inject, Casts, Announced, TypeOK, Events
  <2> QED
    <3>1. /\ reading' = reading \cup {b} /\ todo' = [todo EXCEPT ![b] = subscribers]
          /\ injected' = injected \cup {b} /\ b \notin injected
          /\ UNCHANGED <<subscribers, aired, loop, position>>
        BY <1>5 DEF Inject, Broadcast
    <3>2. b \in Broadcasters /\ b # 0 /\ b \notin reading
        BY <3>1 DEF Casts, Broadcasters
    <3>3. todo'[b] = subscribers /\ \A d \in reading : todo'[d] = todo[d]
        BY <3>1, <3>2 DEF TypeOK
    <3>4. Event(b)' = N + b /\ \A d \in reading : Event(d)' = Event(d)
        BY <3>1, <3>2 DEF Event
    <3>5. \A d \in reading' : todo'[d] \subseteq subscribers /\ Event(d)' \notin aired
        BY <2>1, <3>1, <3>3, <3>4 DEF Casts
    <3>6. (0 \in reading' <=> 0 \in reading) /\ reading' \ {0} \subseteq injected'
        BY <3>1, <3>2 DEF Casts
    <3> QED
        BY <2>1, <3>1, <3>5, <3>6 DEF Casts
<1>6. ASSUME NEW c \in Clients, Subscribe(c) PROVE Casts'
    BY <1>6 DEF Subscribe, Casts, Announced, Event
<1>7. ASSUME NEW c \in Clients, Handler(c) PROVE Casts'
  <2>1. CASE Unsubscribe(c)
      BY <2>1 DEF Unsubscribe, Casts, Announced, Event
  <2>2. CASE ~Unsubscribe(c)
    <3>1. UNCHANGED <<reading, todo, loop, position, injected, subscribers, aired>>
        BY <1>7, <2>2 DEF Handler, Receive, Write, WriteFails, CloseChannel, Leaving, ContextDone
    <3> QED
        BY <3>1 DEF Casts, Announced, Event
  <2> QED
      BY <2>1, <2>2
<1>8. ASSUME NEW c \in Clients, ClientGone(c) PROVE Casts'
    BY <1>8 DEF ClientGone, Casts, Announced, Event
<1>9. CASE UNCHANGED vars
    BY <1>9 DEF vars, Casts, Announced, Event
<1>10. 0 \in Broadcasters /\ 1 .. Injects \subseteq Broadcasters
    BY DEF Broadcasters
<1> QED
    BY <1>1, <1>2, <1>3, <1>4, <1>5, <1>6, <1>7, <1>8, <1>9, <1>10 DEF Next, Consume, Casting

LEMMA NextHandlers == TypeOK /\ Casts /\ Handlers /\ [Next]_vars => Handlers'
<1> SUFFICES ASSUME TypeOK, Casts, Handlers, [Next]_vars PROVE Handlers'
    OBVIOUS
<1> USE FeedAssumption
<1> USE DEF TypeOK, Handlers, hubVars, castVars, consumerVars, clientVars, histVars
<1>1. ASSUME NEW b \in Broadcasters, NEW c \in Clients, Offer(b, c) PROVE Handlers'
  <2>1. c \in subscribers /\ place[c] # "idle"
      BY <1>1 DEF Offer, Casts
  <2>2. \A d \in Clients \ {c} : chan'[d] = chan[d] /\ missed'[d] = missed[d]
      BY <1>1 DEF Offer
  <2> QED
      BY <1>1, <2>1, <2>2 DEF Offer
<1>2. ASSUME NEW b \in Broadcasters, BroadcastReturns(b) PROVE Handlers'
    BY <1>2 DEF BroadcastReturns
<1>3. CASE Fetch \/ FetchStops \/ Cancel \/ GracefulStop
    BY <1>3 DEF Fetch, FetchStops, Cancel, GracefulStop
<1>4. ASSUME NEW b \in 1 .. Injects, Inject(b) PROVE Handlers'
    BY <1>4 DEF Inject
<1>5. ASSUME NEW c \in Clients, Subscribe(c) PROVE Handlers'
    BY <1>5 DEF Subscribe
<1>6. ASSUME NEW c \in Clients, Handler(c) PROVE Handlers'
  <2>1. CASE Receive(c)
      BY <2>1 DEF Receive
  <2>2. CASE Write(c)
      BY <2>2 DEF Write
  <2>3. CASE WriteFails(c) \/ ContextDone(c)
      BY <2>3 DEF WriteFails, ContextDone
  <2>4. CASE Unsubscribe(c)
      BY <2>4 DEF Unsubscribe
  <2>5. CASE CloseChannel(c)
      BY <2>5 DEF CloseChannel
  <2> QED
      BY <1>6, <2>1, <2>2, <2>3, <2>4, <2>5 DEF Handler, Leaving
<1>7. ASSUME NEW c \in Clients, ClientGone(c) PROVE Handlers'
    BY <1>7 DEF ClientGone
<1>8. CASE UNCHANGED vars
    BY <1>8 DEF vars
<1>9. 0 \in Broadcasters /\ 1 .. Injects \subseteq Broadcasters
    BY DEF Broadcasters
<1> QED
    BY <1>1, <1>2, <1>3, <1>4, <1>5, <1>6, <1>7, <1>8, <1>9 DEF Next, Consume, Casting

(* A client is not affected by what leaves its sequence, its subscription    *)
(* and the broadcasts alone.                                                 *)
LEMMA DeliveredFrame ==
    ASSUME NEW c, Delivered(c), All(c)' = All(c),
           UNCHANGED <<missed[c], before[c], aired, reading, position, injected>>,
           \A b \in reading : c \in todo'[b] <=> c \in todo[b]
    PROVE  Delivered(c)'
    BY DEF Delivered, Seen, Announced, Event, InOrder

(* Announced events stay announced. *)
LEMMA AnnouncedKept ==
    ASSUME TypeOK, NEW e \in Events, Announced(e), injected \subseteq injected',
           position' \in {position, position + 1}
    PROVE  Announced(e)'
    BY FeedAssumption DEF TypeOK, Announced, Events

LEMMA OfferDelivers ==
    ASSUME TypeOK, Casts, Deliveries, NEW b \in Broadcasters, NEW c \in Clients, Offer(b, c)
    PROVE  Deliveries'
<1> USE FeedAssumption
<1>1. b \in reading /\ c \in todo[b] /\ c \in subscribers /\ Event(b) \in Events
    BY EventType DEF Offer, Casts
<1>2. /\ UNCHANGED <<subscribers, reading, position, injected, aired, before, got, held>>
      /\ todo' = [todo EXCEPT ![b] = todo[b] \ {c}]
    BY DEF Offer, hubVars, consumerVars, clientVars
<1>3. todo'[b] = todo[b] \ {c} /\ \A d \in Broadcasters \ {b} : todo'[d] = todo[d]
    BY <1>2 DEF TypeOK
<1>4. reading \subseteq Broadcasters
    BY DEF TypeOK
<1>5. ASSUME NEW d \in subscribers, d # c PROVE Delivered(d)'
  <2>1. d \in Clients /\ chan'[d] = chan[d] /\ missed'[d] = missed[d]
      BY <1>5 DEF Offer, TypeOK
  <2>2. All(d)' = All(d)
      BY <1>2, <2>1 DEF All
  <2>3. \A a \in reading : d \in todo'[a] <=> d \in todo[a]
      BY <1>3, <1>4, <1>5
  <2>4. UNCHANGED <<missed[d], before[d], aired, reading, position, injected>>
      BY <1>2, <2>1
  <2>5. Delivered(d)
      BY DEF Deliveries
  <2> QED
      BY <2>2, <2>3, <2>4, <2>5, DeliveredFrame
<1>6. Delivered(c)'
  <2>1. Delivered(c) /\ Event(b) \notin Seen(c) /\ Event(b) \notin aired
      BY <1>1 DEF Deliveries, Delivered, Casts
  <2>2. Event(b) \notin ToSet(All(c)) /\ Event(b) \notin missed[c] /\ Event(b) \notin before[c]
      BY <2>1 DEF Seen, Delivered
  <2>3. All(c) \in Seq(Events)
      BY AllType
  <2>4. Announced(Event(b))
      BY <1>1 DEF Casts, Announced, Event, TypeOK, Broadcasters
  <2>5. \A a \in reading : Event(a)' = Event(a) /\ (a # b => Event(a) # Event(b))
      BY <1>1, <1>2 DEF Event, TypeOK, Casts, Broadcasters
  <2>6. /\ Seen(c)' = Seen(c) \cup {Event(b)}
        /\ IsInjective(All(c))' /\ InOrder(All(c))'
        /\ ToSet(All(c))' \cap (before[c] \cup missed[c])' = {}
    <3>1. CASE Len(chan[c]) < Cap
      <4>1. chan' = [chan EXCEPT ![c] = Append(chan[c], Event(b))] /\ missed' = missed
          BY <3>1 DEF Offer
      <4>2. chan'[c] = Append(chan[c], Event(b))
          BY <4>1 DEF TypeOK
      <4>3. All(c)' = Append(All(c), Event(b))
        <5> DEFINE g == got[c]
                   h == held[c]
                   ch == chan[c]
                   e == Event(b)
        <5>1. g \in Seq(Events) /\ h \in Seq(Events) /\ ch \in Seq(Events) /\ e \in Events
            BY <1>1 DEF TypeOK
        <5>2. All(c)' = g \o h \o Append(ch, e) /\ All(c) = g \o h \o ch
            BY <1>2, <4>2 DEF All
        <5> HIDE DEF g, h, ch, e
        <5>3. g \o h \o Append(ch, e) = Append(g \o h \o ch, e)
            BY <5>1, OfferAppends
        <5> QED
            BY <5>2, <5>3 DEF e
      <4>4. ToSet(All(c))' = ToSet(All(c)) \cup {Event(b)} /\ IsInjective(All(c))'
          BY <1>1, <2>1, <2>2, <2>3, <4>3, AppendNew DEF Delivered
      <4>5. Seen(c)' = Seen(c) \cup {Event(b)}
          BY <4>1, <4>4 DEF Seen
      <4>6. InOrder(All(c))'
        <5>1. \A i \in 1 .. Len(All(c)) : All(c)[i] \in Seen(c)
            BY <2>3 DEF Seen, ToSet
        <5>2. \A i \in 1 .. Len(All(c)) :
                  All(c)[i] \in Events /\ All(c)[i] # Event(b) /\ Announced(All(c)[i])
            BY <2>1, <2>3, <5>1, ElementOfSeq DEF Delivered
        <5>3. Event(b) <= N => Event(b) = position - 1
            BY <1>1 DEF Event, TypeOK, Broadcasters
        <5>4. \A i \in 1 .. Len(All(c)) :
                  Event(b) <= N => All(c)[i] < Event(b) \/ All(c)[i] > N
            BY <1>1, <5>2, <5>3 DEF Announced, TypeOK, Events
        <5>5. /\ Len(All(c)) \in Nat /\ Len(Append(All(c), Event(b))) = Len(All(c)) + 1
              /\ \A i \in 1 .. Len(All(c)) : Append(All(c), Event(b))[i] = All(c)[i]
              /\ Append(All(c), Event(b))[Len(All(c)) + 1] = Event(b)
            BY <1>1, <2>3, AppendProperties
        <5>6. InOrder(All(c))
            BY <2>1 DEF Delivered
        <5> QED
            BY <4>3, <5>4, <5>5, <5>6 DEF InOrder
      <4>7. ToSet(All(c))' \cap (before[c] \cup missed[c])' = {}
          BY <1>2, <2>1, <2>2, <4>1, <4>4 DEF Delivered
      <4> QED
          BY <4>4, <4>5, <4>6, <4>7
    <3>2. CASE ~(Len(chan[c]) < Cap)
      <4>1. missed' = [missed EXCEPT ![c] = missed[c] \cup {Event(b)}] /\ chan' = chan
          BY <3>2 DEF Offer
      <4>2. missed'[c] = missed[c] \cup {Event(b)}
          BY <4>1 DEF TypeOK
      <4>3. All(c)' = All(c)
          BY <1>2, <4>1 DEF All
      <4>4. Seen(c)' = Seen(c) \cup {Event(b)}
          BY <4>2, <4>3 DEF Seen
      <4>5. IsInjective(All(c))' /\ InOrder(All(c))'
          BY <2>1, <4>3 DEF Delivered, InOrder
      <4>6. ToSet(All(c))' \cap (before[c] \cup missed[c])' = {}
          BY <1>2, <2>1, <2>2, <4>2, <4>3 DEF Delivered
      <4> QED
          BY <4>4, <4>5, <4>6
    <3> QED
        BY <3>1, <3>2
  <2>7. before[c]' \subseteq aired' /\ aired' \ before[c]' \subseteq Seen(c)'
      BY <1>2, <2>1, <2>6 DEF Delivered
  <2>8. \A a \in reading' : Event(a)' \in Seen(c)' <=> c \notin todo'[a]
    <3>1. \A a \in reading : Event(a) \in Seen(c) <=> c \notin todo[a]
        BY <2>1 DEF Delivered
    <3> QED
        BY <1>1, <1>2, <1>3, <1>4, <2>5, <2>6, <3>1
  <2>9. \A e \in Seen(c)' : Announced(e)'
    <3>1. \A e \in Seen(c) : Announced(e)
        BY <2>1 DEF Delivered
    <3> QED
        BY <1>2, <2>4, <2>6, <3>1 DEF Announced
  <2> QED
      BY <2>6, <2>7, <2>8, <2>9 DEF Delivered
<1> QED
    BY <1>2, <1>5, <1>6 DEF Deliveries

LEMMA NextDeliveries ==
    TypeOK /\ Casts /\ Handlers /\ Deliveries /\ [Next]_vars => Deliveries'
<1> SUFFICES ASSUME TypeOK, Casts, Handlers, Deliveries, [Next]_vars PROVE Deliveries'
    OBVIOUS
<1> USE FeedAssumption
<1>1. ASSUME NEW b \in Broadcasters, NEW c \in Clients, Offer(b, c) PROVE Deliveries'
    BY <1>1, OfferDelivers
<1>2. ASSUME NEW b \in Broadcasters, BroadcastReturns(b) PROVE Deliveries'
  <2>1. /\ UNCHANGED <<subscribers, chan, todo, position, injected, held, got, missed, before>>
        /\ reading' = reading \ {b} /\ aired' = aired \cup {Event(b)}
        /\ b \in reading /\ todo[b] = {}
      BY <1>2 DEF BroadcastReturns, hubVars, clientVars
  <2>2. ASSUME NEW c \in subscribers PROVE Delivered(c)'
    <3>1. Delivered(c) /\ Event(b) \in Seen(c)
        BY <2>1 DEF Deliveries, Delivered
    <3>2. All(c)' = All(c) /\ Seen(c)' = Seen(c)
        BY <2>1 DEF All, Seen
    <3>3. \A a : Event(a)' = Event(a) /\ (Announced(a)' <=> Announced(a))
        BY <2>1 DEF Event, Announced
    <3> QED
        BY <2>1, <3>1, <3>2, <3>3 DEF Delivered, InOrder
  <2> QED
      BY <2>1, <2>2 DEF Deliveries
<1>3. CASE Fetch
  <2>1. /\ UNCHANGED <<subscribers, chan, injected, held, got, aired, missed, before>>
        /\ 0 \notin reading /\ position' = position + 1
      BY <1>3 DEF Fetch, Casts, hubVars, clientVars, histVars
  <2>2. ASSUME NEW c \in subscribers PROVE Delivered(c)'
    <3>1. Delivered(c) /\ c \in Clients
        BY DEF Deliveries, TypeOK
    <3>2. All(c)' = All(c) /\ Seen(c)' = Seen(c)
        BY <2>1 DEF All, Seen
    <3>3. Seen(c) \subseteq Events
        BY <3>1, AllType DEF Seen, ToSet, TypeOK
    <3>4. \A e \in Seen(c)' : Announced(e)'
        BY <2>1, <3>1, <3>2, <3>3, AnnouncedKept DEF Delivered
    <3>5. position \notin Seen(c)
        BY <1>3, <3>1 DEF Delivered, Announced, Fetch, TypeOK
    <3>6. \A b \in reading' : Event(b)' \in Seen(c)' <=> c \notin todo'[b]
      <4>1. \A b \in reading : b # 0 /\ Event(b)' = Event(b)
          BY <2>1 DEF Event
      <4>2. CASE position \in Invalid
          BY <1>3, <3>1, <3>2, <4>1, <4>2 DEF Fetch, castVars, Delivered
      <4>3. CASE position \notin Invalid
        <5>1. reading' = reading \cup {0} /\ todo' = [todo EXCEPT ![0] = subscribers]
            BY <1>3, <4>3 DEF Fetch, Broadcast
        <5>2. todo'[0] = subscribers /\ \A b \in reading : todo'[b] = todo[b]
            BY <5>1, <4>1 DEF TypeOK, Broadcasters
        <5>3. Event(0)' = position
            BY <2>1 DEF Event, TypeOK
        <5> QED
            BY <3>1, <3>2, <3>5, <4>1, <5>1, <5>2, <5>3 DEF Delivered
      <4> QED
          BY <4>2, <4>3
    <3> QED
        BY <2>1, <3>1, <3>2, <3>4, <3>6 DEF Delivered, InOrder
  <2> QED
      BY <2>1, <2>2 DEF Deliveries
<1>4. ASSUME NEW b \in 1 .. Injects, Inject(b) PROVE Deliveries'
  <2>1. /\ UNCHANGED <<subscribers, chan, position, held, got, aired, missed, before>>
        /\ injected' = injected \cup {b} /\ b \notin injected
        /\ reading' = reading \cup {b} /\ todo' = [todo EXCEPT ![b] = subscribers]
      BY <1>4 DEF Inject, Broadcast, hubVars, consumerVars, clientVars, histVars
  <2>2. b \notin reading /\ b # 0 /\ b \in Broadcasters
      BY <2>1 DEF Casts, Broadcasters
  <2>3. todo'[b] = subscribers /\ \A d \in reading : todo'[d] = todo[d]
      BY <2>1, <2>2 DEF TypeOK
  <2>4. Event(b)' = N + b /\ \A d : Event(d)' = Event(d)
      BY <2>1, <2>2 DEF Event
  <2>5. ASSUME NEW c \in subscribers PROVE Delivered(c)'
    <3>1. Delivered(c) /\ c \in Clients
        BY DEF Deliveries, TypeOK
    <3>2. All(c)' = All(c) /\ Seen(c)' = Seen(c)
        BY <2>1 DEF All, Seen
    <3>3. Seen(c) \subseteq Events
        BY <3>1, AllType DEF Seen, ToSet, TypeOK
    <3>4. \A e \in Seen(c)' : Announced(e)'
        BY <2>1, <3>1, <3>2, <3>3, AnnouncedKept DEF Delivered
    <3>5. N + b \notin Seen(c)
        BY <2>1, <3>1 DEF Delivered, Announced
    <3>6. \A d \in reading' : Event(d)' \in Seen(c)' <=> c \notin todo'[d]
        BY <2>1, <2>3, <2>4, <3>1, <3>2, <3>5 DEF Delivered
    <3> QED
        BY <2>1, <3>1, <3>2, <3>4, <3>6 DEF Delivered, InOrder
  <2> QED
      BY <2>1, <2>5 DEF Deliveries
<1>5. ASSUME NEW c \in Clients, Subscribe(c) PROVE Deliveries'
  <2>1. /\ UNCHANGED <<chan, reading, todo, position, injected, held, got, aired, missed>>
        /\ subscribers' = subscribers \cup {c} /\ before' = [before EXCEPT ![c] = aired]
        /\ reading = {} /\ place[c] = "idle"
      BY <1>5 DEF Subscribe, castVars, consumerVars
  <2>2. ASSUME NEW d \in subscribers, d # c PROVE Delivered(d)'
    <3>1. All(d)' = All(d) /\ before'[d] = before[d] /\ Delivered(d)
        BY <2>1, <2>2 DEF All, TypeOK, Deliveries
    <3>2. UNCHANGED <<missed[d], before[d], aired, reading, position, injected>>
        BY <2>1, <3>1
    <3>3. \A b \in reading : d \in todo'[b] <=> d \in todo[b]
        BY <2>1
    <3> QED
        BY <3>1, <3>2, <3>3, DeliveredFrame
  <2>3. Delivered(c)'
    <3>1. chan[c] = <<>> /\ held[c] = <<>> /\ got[c] = <<>> /\ missed[c] = {}
        BY <2>1 DEF Handlers
    <3>2. All(c)' = <<>>
        BY <2>1, <3>1 DEF All
    <3>3. ToSet(All(c))' = {} /\ IsInjective(All(c))' /\ InOrder(All(c))' /\ Seen(c)' = {}
        BY <2>1, <3>1, <3>2 DEF ToSet, IsInjective, InOrder, Seen
    <3>4. before'[c] = aired
        BY <2>1 DEF TypeOK
    <3> QED
        BY <2>1, <3>3, <3>4 DEF Delivered
  <2> QED
      BY <2>1, <2>2, <2>3 DEF Deliveries
<1>6. ASSUME NEW c \in Clients, Handler(c) PROVE Deliveries'
  <2>1. UNCHANGED <<reading, todo, position, injected, aired>> /\ subscribers' \subseteq subscribers
      BY <1>6 DEF Handler, Receive, Write, WriteFails, CloseChannel, Leaving, ContextDone,
                  Unsubscribe, hubVars, castVars, consumerVars, histVars
  <2>2. ASSUME NEW d \in subscribers' PROVE All(d)' = All(d) /\ UNCHANGED <<missed[d], before[d]>>
    <3> d \in Clients /\ d \in subscribers
        BY <2>1 DEF TypeOK
    <3>1. got[c] \in Seq(Events) /\ held[c] \in Seq(Events) /\ chan[c] \in Seq(Events)
        BY DEF TypeOK
    <3>2. CASE Receive(c)
      <4>1. chan[c] # <<>> /\ held[c] = <<>>
          BY <3>2 DEF Receive, Handlers
      <4>2. got[c] \o <<Head(chan[c])>> \o Tail(chan[c]) = got[c] \o <<>> \o chan[c]
          BY <3>1, <4>1, ReceiveKeeps
      <4>3. /\ held'[c] = <<Head(chan[c])>> /\ chan'[c] = Tail(chan[c])
            /\ \A e \in Clients \ {c} : held'[e] = held[e] /\ chan'[e] = chan[e]
            /\ UNCHANGED <<got, missed, before>>
          BY <3>2 DEF Receive, TypeOK, histVars
      <4> QED
          BY <4>1, <4>2, <4>3 DEF All
    <3>3. CASE Write(c)
      <4>1. (got[c] \o held[c]) \o <<>> \o chan[c] = got[c] \o held[c] \o chan[c]
          BY <3>1, WriteKeeps
      <4>2. /\ held'[c] = <<>> /\ got'[c] = got[c] \o held[c]
            /\ \A e \in Clients \ {c} : held'[e] = held[e] /\ got'[e] = got[e]
            /\ UNCHANGED <<chan, missed, before>>
          BY <3>3 DEF Write, TypeOK, histVars
      <4> QED
          BY <4>1, <4>2 DEF All
    <3>4. CASE WriteFails(c) \/ Leaving(c)
        BY <3>4 DEF WriteFails, Leaving, ContextDone, Unsubscribe, histVars, All
    <3>5. CASE CloseChannel(c)
      <4>1. d # c
          BY <3>5 DEF CloseChannel, Handlers
      <4> QED
          BY <3>5, <4>1 DEF CloseChannel, All, TypeOK
    <3> QED
        BY <1>6, <3>2, <3>3, <3>4, <3>5 DEF Handler
  <2>3. ASSUME NEW d \in subscribers' PROVE Delivered(d)'
    <3>1. Delivered(d) /\ All(d)' = All(d) /\ UNCHANGED <<missed[d], before[d]>>
        BY <2>1, <2>2 DEF Deliveries
    <3>2. UNCHANGED <<missed[d], before[d], aired, reading, position, injected>>
        BY <2>1, <3>1
    <3>3. \A b \in reading : d \in todo'[b] <=> d \in todo[b]
        BY <2>1
    <3> QED
        BY <3>1, <3>2, <3>3, DeliveredFrame
  <2> QED
      BY <2>3 DEF Deliveries
<1>7. CASE \/ FetchStops \/ Cancel \/ GracefulStop \/ (\E c \in Clients : ClientGone(c))
           \/ UNCHANGED vars
  <2>1. UNCHANGED <<subscribers, chan, reading, todo, position, injected, held, got, aired,
                    missed, before>>
      BY <1>7 DEF FetchStops, Cancel, GracefulStop, ClientGone, vars, hubVars, castVars,
                  consumerVars, clientVars, histVars
  <2>2. ASSUME NEW d \in subscribers PROVE Delivered(d)'
    <3>1. Delivered(d) /\ All(d)' = All(d)
        BY <2>1 DEF Deliveries, All
    <3>2. UNCHANGED <<missed[d], before[d], aired, reading, position, injected>>
        BY <2>1
    <3>3. \A b \in reading : d \in todo'[b] <=> d \in todo[b]
        BY <2>1
    <3> QED
        BY <3>1, <3>2, <3>3, DeliveredFrame
  <2> QED
      BY <2>1, <2>2 DEF Deliveries
<1>8. 0 \in Broadcasters /\ 1 .. Injects \subseteq Broadcasters
    BY DEF Broadcasters
<1> QED
    BY <1>1, <1>2, <1>3, <1>4, <1>5, <1>6, <1>7, <1>8 DEF Next, Consume, Casting

-----------------------------------------------------------------------------
(* The inductive invariant holds in every behaviour of the live feed. *)
THEOREM InvCorrect == Spec => []IInv
<1>1. IInv /\ [Next]_vars => IInv'
    BY NextType, NextCasts, NextHandlers, NextDeliveries DEF IInv
<1> QED
    BY InitInv, <1>1, PTL DEF Spec

(* No Broadcast sends on a channel that Unsubscribe has closed, whatever     *)
(* the number of broadcasts, subscriptions and departures under way.         *)
THEOREM NoSendOnClosedCorrect == Spec => []NoSendOnClosed
<1>1. IInv => NoSendOnClosed
  <2> SUFFICES ASSUME IInv, NEW b \in reading, NEW c \in todo[b] \cap closed PROVE FALSE
      BY DEF NoSendOnClosed
  <2>1. c \in subscribers /\ c \in Clients
      BY DEF IInv, Casts, TypeOK
  <2> QED
      BY <2>1 DEF IInv, Handlers
<1> QED
    BY InvCorrect, <1>1, PTL

(* Every subscriber gets each event broadcast since it subscribed once, in   *)
(* the topic's order, or missed it because its own channel was full.         *)
THEOREM SubscriberGetsEachCorrect == Spec => []SubscriberGetsEach
<1>1. IInv => SubscriberGetsEach
  <2> SUFFICES ASSUME IInv, NEW c \in subscribers
               PROVE  /\ aired \ before[c] \subseteq ToSet(All(c)) \cup missed[c]
                      /\ Cardinality(ToSet(All(c))) = Len(All(c))
                      /\ ToSet(All(c)) \cap (before[c] \cup missed[c]) = {}
                      /\ InOrder(All(c))
      BY DEF SubscriberGetsEach
  <2>1. Delivered(c) /\ All(c) \in Seq(Events)
      BY AllType DEF IInv, TypeOK, Deliveries
  <2>2. Cardinality(ToSet(All(c))) = Len(All(c))
      BY <2>1, InjectiveCardinality DEF Delivered
  <2> QED
      BY <2>1, <2>2 DEF Delivered, Seen
<1> QED
    BY InvCorrect, <1>1, PTL
=============================================================================
