--------------------------- MODULE EnricherProofs ---------------------------
(***************************************************************************)
(* Proofs about Enricher, for any feeds that FeedAssumption allows, any     *)
(* loss and eviction, and any number of shards.                             *)
(***************************************************************************)
EXTENDS Enricher, WellFoundedInduction, TLAPS

-----------------------------------------------------------------------------
(* Facts about feeds. *)

LEMMA FeedFacts ==
    ASSUME NEW f \in Feeds
    PROVE  /\ Len(Feed(f)) \in Nat /\ DOMAIN Feed(f) = 1 .. Len(Feed(f))
           /\ \A i \in 1 .. Len(Feed(f)) : Feed(f)[i] \in Event
<1>1. Feed(f) \in Seq(Event)
    BY FeedAssumption
<1> QED
    BY <1>1

LEMMA Distinct ==
    \A f, g \in Feeds : \A i \in DOMAIN Feed(f), j \in DOMAIN Feed(g) :
         /\ Feed(f)[i] = Feed(g)[j] => f = g /\ i = j
         /\ Together(Feed(f)[i], Feed(g)[j]) /\ Feed(f)[i].kind # "other" => f = g
    BY Zenon, FeedAssumption

(* Of the positions up to n with a property, one is the last. *)
LEMMA LastPosition ==
    ASSUME NEW n \in Nat, NEW S, S \subseteq 1 .. n, NEW m \in S
    PROVE  \E i \in S : \A j \in i + 1 .. n : j \notin S
<1> DEFINE R == {ss \in Nat \X Nat : ss[1] < ss[2]}
           T == {n - i : i \in S}
<1>1. IsWellFoundedOn(R, Nat)
    BY NatLessThanWellFounded DEF OpToRel
<1>2. T \subseteq Nat /\ n - m \in T
  <2>1. \A i \in S : i \in Int /\ i <= n
      OBVIOUS
  <2>2. \A i \in S : n - i \in Nat
      BY <2>1
  <2> QED
      BY <2>2
<1>3. PICK t \in T : \A u \in T : ~(<<u, t>> \in R)
    BY <1>1, <1>2, WFMin
<1>4. PICK i \in S : t = n - i
    BY <1>3
<1>5. ASSUME NEW j \in i + 1 .. n, j \in S PROVE FALSE
  <2>1. n - j \in T /\ n - j < t /\ n - j \in Nat /\ t \in Nat
      BY <1>2, <1>4, <1>5
  <2> QED
      BY <1>3, <2>1
<1> QED
    BY <1>5

(* The next event of a feed. *)
Reads(f, e) ==
    /\ pos[f] < Len(Feed(f)) /\ e = Feed(f)[pos[f] + 1]
    /\ pos' = [pos EXCEPT ![f] = @ + 1]

LEMMA NextEvent ==
    ASSUME Entries, NEW f \in Feeds, NEW e, Reads(f, e)
    PROVE  /\ pos[f] \in Nat /\ pos[f] + 1 \in 1 .. Len(Feed(f)) /\ e \in Event
           /\ pos' \in [Feeds -> Nat] /\ \A g \in Feeds : pos'[g] <= Len(Feed(g))
           /\ pos'[f] = pos[f] + 1 /\ \A g \in Feeds \ {f} : pos'[g] = pos[g]
           /\ e \notin Read /\ Read' = Read \cup {e}
<1>1. /\ pos \in [Feeds -> Nat] /\ Len(Feed(f)) \in Nat /\ DOMAIN Feed(f) = 1 .. Len(Feed(f))
      /\ pos[f] < Len(Feed(f)) /\ e = Feed(f)[pos[f] + 1] /\ pos' = [pos EXCEPT ![f] = pos[f] + 1]
    BY FeedFacts DEF Entries, Reads
<1>2. /\ pos[f] \in Nat /\ pos[f] + 1 \in 1 .. Len(Feed(f)) /\ e \in Event
      /\ pos' \in [Feeds -> Nat]
      /\ pos'[f] = pos[f] + 1 /\ \A g \in Feeds \ {f} : pos'[g] = pos[g]
    BY <1>1, FeedFacts
<1>3. \A g \in Feeds : pos'[g] <= Len(Feed(g))
    BY <1>1, <1>2 DEF Entries
<1>4. ASSUME e \in Read PROVE FALSE
  <2>0. PICK g \in Feeds : e \in {Feed(g)[i] : i \in 1 .. pos[g]}
      BY <1>4 DEF Read
  <2>1. PICK i \in 1 .. pos[g] : e = Feed(g)[i]
      BY <2>0
  <2>2. i \in DOMAIN Feed(g) /\ pos[f] + 1 \in DOMAIN Feed(f)
      BY <1>1, <1>2, FeedFacts DEF Entries
  <2>3. g = f /\ i = pos[f] + 1
    <3>1. Feed(g)[i] = Feed(f)[pos[f] + 1]
        BY <1>1, <2>1
    <3> QED
        BY <2>2, <3>1, Distinct
  <2> QED
      BY <1>1, <2>3
<1>5. \A d : d \in Read' <=> d \in Read \/ d = e
  <2>1. \A d : d \in Read <=> \E g \in Feeds : \E i \in 1 .. pos[g] : d = Feed(g)[i]
      BY DEF Read
  <2>2. \A d : d \in Read' <=> \E g \in Feeds : \E i \in 1 .. pos'[g] : d = Feed(g)[i]
      BY DEF Read
  <2>3. 1 .. pos'[f] = (1 .. pos[f]) \cup {pos[f] + 1}
      BY <1>2
  <2> QED
      BY <1>1, <1>2, <2>1, <2>2, <2>3
<1> QED
    BY <1>2, <1>3, <1>4, <1>5

-----------------------------------------------------------------------------
(* What Process does with an event, seen apart from its trace context. *)

LEMMA EntryEvent == \A shard, e : EntryOf(shard, e).event = e
    BY DEF EntryOf

LEMMA PairFields ==
    ASSUME NEW y, NEW x
    PROVE  /\ completePair(y, x).parts = {y.event, x.event}
           /\ completePair(y, x).head \in {y.event, x.event}
           /\ x.event.ts > y.event.ts =>
                /\ completePair(y, x).head = y.event /\ completePair(y, x).ret = x.event.ret
                /\ completePair(y, x).dur = x.event.ts - y.event.ts
           /\ ~(x.event.ts > y.event.ts) =>
                /\ completePair(y, x).head = x.event /\ completePair(y, x).ret = y.event.ret
                /\ completePair(y, x).dur = y.event.ts - x.event.ts
    BY DEF completePair

LEMMA AloneFields == \A x : Alone(x).parts = {x.event} /\ Alone(x).head = x.event
    BY DEF Alone

Holds(e, x) ==
    /\ e.kind = "syscall" /\ \A y \in syscallInFlight : y.event.key # e.key
    /\ syscallInFlight' = syscallInFlight \cup {x}
    /\ UNCHANGED <<blockInFlight, emitted, overwritten>>

PairsCall(e, x) ==
    /\ e.kind = "syscall"
    /\ \E y \in syscallInFlight :
         /\ y.event.key = e.key /\ syscallInFlight' = syscallInFlight \ {y}
         /\ emitted' = emitted \cup {completePair(y, x)}
    /\ UNCHANGED <<blockInFlight, overwritten>>

Issues(e, x) ==
    /\ e.kind = "block" /\ e.key # 0 /\ e.phase = "issue"
    /\ blockInFlight' = (blockInFlight \ WithKey(blockInFlight, e.key)) \cup {x}
    /\ overwritten' = overwritten \cup {z.event : z \in WithKey(blockInFlight, e.key)}
    /\ UNCHANGED <<syscallInFlight, emitted>>

PairsBlock(e, x) ==
    /\ e.kind = "block" /\ e.key # 0 /\ e.phase = "complete"
    /\ \E y \in blockInFlight :
         /\ y.event.key = e.key /\ blockInFlight' = blockInFlight \ {y}
         /\ emitted' = emitted \cup {completePair(y, x)}
    /\ UNCHANGED <<syscallInFlight, overwritten>>

Passes(e, x) ==
    /\ e.kind # "syscall"
    /\ Keyed(e, e.key) => e.phase = "complete" /\ WithKey(blockInFlight, e.key) = {}
    /\ emitted' = emitted \cup {Alone(x)}
    /\ UNCHANGED <<mapVars, overwritten>>

LEMMA OneEntry ==
    ASSUME NEW M, NEW y \in M, NEW key, y.event.key = key,
           \A v, w \in M : v.event.key = w.event.key => v = w
    PROVE  WithKey(M, key) = {y}
    BY DEF WithKey

LEMMA ProcessSteps ==
    ASSUME Entries, NEW f \in Feeds, Process(f)
    PROVE  \E e, x : /\ Reads(f, e) /\ x.event = e /\ UNCHANGED <<lost, evicted>>
                     /\ \/ Holds(e, x) \/ PairsCall(e, x) \/ Issues(e, x)
                        \/ PairsBlock(e, x) \/ Passes(e, x)
<1> DEFINE e == Feed(f)[pos[f] + 1]
<1>1. Reads(f, e)
    BY DEF Reads, Process
<1>2. ProcessSyscall(e) \/ IssueBlock(e) \/ CompleteBlock(e) \/ PassThrough(e)
    BY DEF Process
<1> HIDE DEF e
<1>3. CASE ProcessSyscall(e)
  <2> DEFINE x == EntryOf(getShard(e.pid), e)
  <2>1. x.event = e
      BY EntryEvent
  <2>2. /\ e.kind = "syscall" /\ pairSyscall(x)
        /\ UNCHANGED <<blockInFlight, lost, evicted, overwritten>>
      BY <1>3 DEF ProcessSyscall, lossVars
  <2> HIDE DEF x
  <2>3. CASE WithKey(syscallInFlight, e.key) = {}
    <3>1. Holds(e, x)
        BY <2>1, <2>2, <2>3 DEF Holds, pairSyscall, WithKey
    <3> QED
        BY <1>1, <2>1, <2>2, <3>1
  <2>4. CASE WithKey(syscallInFlight, e.key) # {}
    <3>1. PICK y \in syscallInFlight : y.event.key = e.key
        BY <2>4 DEF WithKey
    <3>2. WithKey(syscallInFlight, e.key) = {y}
      <4>1. \A v, w \in syscallInFlight : v.event.key = w.event.key => v = w
          BY DEF Entries
      <4> QED
          BY <3>1, <4>1, OneEntry
    <3>3. /\ syscallInFlight' = syscallInFlight \ {y}
          /\ emitted' = emitted \cup {completePair(y, x)}
        BY <2>1, <2>2, <3>2 DEF pairSyscall
    <3>4. PairsCall(e, x)
        BY <2>2, <3>1, <3>3 DEF PairsCall
    <3> QED
        BY <1>1, <2>1, <2>2, <3>4
  <2> QED
      BY <2>3, <2>4
<1>4. CASE IssueBlock(e)
  <2> DEFINE x == EntryOf(getBlockShard(e.key), e)
  <2>1. x.event = e
      BY EntryEvent
  <2>2. Issues(e, x) /\ UNCHANGED <<lost, evicted>>
      BY <1>4 DEF IssueBlock, Issues
  <2> QED
      BY <1>1, <2>1, <2>2
<1>5. CASE CompleteBlock(e)
  <2> DEFINE x == EntryOf(getBlockShard(e.key), e)
  <2>1. x.event = e
      BY EntryEvent
  <2>2. /\ e.kind = "block" /\ e.key # 0 /\ e.phase = "complete"
        /\ blockInFlight' = blockInFlight \ WithKey(blockInFlight, e.key)
        /\ emitted' = emitted \cup
             (IF WithKey(blockInFlight, e.key) = {} THEN {Alone(x)}
              ELSE {completePair(y, x) : y \in WithKey(blockInFlight, e.key)})
        /\ UNCHANGED <<syscallInFlight, lost, evicted, overwritten>>
      BY <1>5 DEF CompleteBlock, lossVars
  <2> HIDE DEF x
  <2>3. CASE WithKey(blockInFlight, e.key) = {}
    <3>1. Passes(e, x)
        BY <2>2, <2>3 DEF Passes, Keyed, mapVars
    <3> QED
        BY <1>1, <2>1, <2>2, <3>1
  <2>4. CASE WithKey(blockInFlight, e.key) # {}
    <3>1. PICK y \in blockInFlight : y.event.key = e.key
        BY <2>4 DEF WithKey
    <3>2. WithKey(blockInFlight, e.key) = {y}
      <4>1. \A v, w \in blockInFlight : v.event.key = w.event.key => v = w
          BY DEF Entries
      <4> QED
          BY <3>1, <4>1, OneEntry
    <3>3. PairsBlock(e, x)
        BY <2>2, <3>1, <3>2 DEF PairsBlock
    <3> QED
        BY <1>1, <2>1, <2>2, <3>3
  <2> QED
      BY <2>3, <2>4
<1>6. CASE PassThrough(e)
  <2> DEFINE shard == IF e.kind = "block" /\ e.key # 0 THEN getBlockShard(e.key)
                                                      ELSE getShard(e.pid)
             x == EntryOf(shard, e)
  <2>1. x.event = e
      BY EntryEvent
  <2>2. /\ e.kind # "syscall" /\ ~Keyed(e, e.key) /\ emitted' = emitted \cup {Alone(x)}
        /\ UNCHANGED <<mapVars, lossVars>>
      BY <1>6 DEF PassThrough, Keyed
  <2> HIDE DEF x
  <2>3. Passes(e, x) /\ UNCHANGED <<lost, evicted>>
      BY <2>2 DEF Passes, lossVars
  <2> QED
      BY <1>1, <2>1, <2>3
<1> QED
    BY <1>2, <1>3, <1>4, <1>5, <1>6

Handles(f, e, x) ==
    /\ Reads(f, e) /\ x.event = e /\ UNCHANGED <<lost, evicted>>
    /\ \/ Holds(e, x) \/ PairsCall(e, x) \/ Issues(e, x) \/ PairsBlock(e, x) \/ Passes(e, x)

Loses(f, e) ==
    /\ Reads(f, e) /\ lost' = lost \cup {e}
    /\ UNCHANGED <<mapVars, emitted, evicted, overwritten>>

Evicts(gone) ==
    /\ gone \subseteq syscallInFlight \cup blockInFlight
    /\ syscallInFlight' = syscallInFlight \ gone /\ blockInFlight' = blockInFlight \ gone
    /\ evicted' = evicted \cup {x.event : x \in gone}
    /\ UNCHANGED <<pos, emitted, lost, overwritten>>

LEMMA Steps ==
    ASSUME Entries, [Next]_vars
    PROVE  \/ \E f \in Feeds : \E e, x : Handles(f, e, x)
           \/ \E f \in Feeds : \E e : Loses(f, e)
           \/ \E gone : Evicts(gone)
           \/ UNCHANGED <<pos, mapVars, emitted, lossVars>>
<1>1. ASSUME NEW f \in Feeds, Process(f) PROVE \E e, x : Handles(f, e, x)
    BY <1>1, ProcessSteps DEF Handles
<1>2. ASSUME NEW f \in Feeds, Lose(f) PROVE \E e : Loses(f, e)
  <2>1. Loses(f, Feed(f)[pos[f] + 1])
      BY <1>2 DEF Lose, Loses, Reads
  <2> QED
      BY <2>1
<1>3. ASSUME NEW shard \in Shards, evictStale(shard) PROVE \E gone : Evicts(gone)
  <2> DEFINE calls  == {x \in syscallInFlight : getShard(x.event.pid) = shard}
             blocks == {x \in blockInFlight : getBlockShard(x.event.key) = shard}
             gone   == {x \in calls \cup blocks : Stale(x)}
  <2>1. Evicts(gone)
      BY <1>3 DEF evictStale, Evicts
  <2> QED
      BY <2>1
<1>4. ASSUME NEW s \in Spans, AddSpan(s) PROVE UNCHANGED <<pos, mapVars, emitted, lossVars>>
    BY <1>4 DEF AddSpan
<1>5. Tick \/ UNCHANGED vars => UNCHANGED <<pos, mapVars, emitted, lossVars>>
    BY DEF Tick, vars
<1> QED
    BY <1>1, <1>2, <1>3, <1>4, <1>5 DEF Next

-----------------------------------------------------------------------------
LEMMA InitInv == Init => IInv
<1> SUFFICES ASSUME Init PROVE IInv
    OBVIOUS
<1>1. pos \in [Feeds -> Nat] /\ \A f \in Feeds : pos[f] = 0 /\ 1 .. pos[f] = {}
    BY DEF Init
<1>2. Read = {} /\ Held = {} /\ Out = {}
    BY <1>1 DEF Init, Read, Held, Out
<1>3. Entries
    BY <1>1, <1>2, FeedFacts DEF Init, Entries
<1>4. Accounted
    BY <1>2 DEF Init, Accounted, Arrived
<1>5. SyscallsHeld
    BY <1>1 DEF SyscallsHeld
<1>6. BlocksHeld
    BY <1>1 DEF Init, BlocksHeld, WithKey, Pending, Latest
<1>7. SyscallPairsAreCalls /\ BlockPairsRecover
    BY <1>1 DEF Init, SyscallPairsAreCalls, BlockPairsRecover
<1> QED
    BY <1>3, <1>4, <1>5, <1>6, <1>7 DEF IInv

LEMMA NextEntries == ASSUME Entries, [Next]_vars PROVE Entries'
<1>1. ASSUME NEW f \in Feeds, NEW e, NEW x, Handles(f, e, x) PROVE Entries'
  <2>1. /\ pos' \in [Feeds -> Nat] /\ \A g \in Feeds : pos'[g] <= Len(Feed(g))
        /\ Read' = Read \cup {e} /\ x.event = e /\ UNCHANGED lost
      BY <1>1, NextEvent DEF Handles
  <2>2. lost' \subseteq Read'
      BY <2>1 DEF Entries
  <2>3. CASE Holds(e, x)
      BY <2>1, <2>2, <2>3 DEF Holds, Entries
  <2>4. CASE PairsCall(e, x)
    <3>1. PICK y \in syscallInFlight :
              /\ y.event.key = e.key /\ syscallInFlight' = syscallInFlight \ {y}
              /\ emitted' = emitted \cup {completePair(y, x)}
        BY <2>4 DEF PairsCall
    <3>2. \A r \in emitted' : r.head \in r.parts
        BY <3>1, PairFields DEF Entries
    <3> QED
        BY <2>1, <2>2, <2>4, <3>1, <3>2 DEF PairsCall, Entries
  <2>5. CASE Issues(e, x)
    <3>1. UNCHANGED <<syscallInFlight, emitted>>
        BY <2>5 DEF Issues
    <3>2. \A y \in blockInFlight' : y = x \/ (y \in blockInFlight /\ y.event.key # e.key)
        BY <2>5 DEF Issues, WithKey
    <3>3. e.kind = "block" /\ e.key # 0 /\ e.phase = "issue"
        BY <2>5 DEF Issues
    <3>4. \A y \in blockInFlight' :
              y.event.kind = "block" /\ y.event.key # 0 /\ y.event.phase = "issue"
        BY <2>1, <3>2, <3>3 DEF Entries
    <3>5. \A y, z \in blockInFlight' : y.event.key = z.event.key => y = z
        BY <2>1, <3>2 DEF Entries
    <3> QED
        BY <2>1, <2>2, <3>1, <3>4, <3>5 DEF Entries
  <2>6. CASE PairsBlock(e, x)
    <3>1. PICK y \in blockInFlight :
              /\ y.event.key = e.key /\ blockInFlight' = blockInFlight \ {y}
              /\ emitted' = emitted \cup {completePair(y, x)}
        BY <2>6 DEF PairsBlock
    <3>2. \A r \in emitted' : r.head \in r.parts
        BY <3>1, PairFields DEF Entries
    <3> QED
        BY <2>1, <2>2, <2>6, <3>1, <3>2 DEF PairsBlock, Entries
  <2>7. CASE Passes(e, x)
    <3>1. \A r \in emitted' : r.head \in r.parts
        BY <2>7, AloneFields DEF Passes, Entries
    <3> QED
        BY <2>1, <2>2, <2>7, <3>1 DEF Passes, Entries, mapVars
  <2> QED
      BY <1>1, <2>3, <2>4, <2>5, <2>6, <2>7 DEF Handles
<1>2. ASSUME NEW f \in Feeds, NEW e, Loses(f, e) PROVE Entries'
  <2>1. /\ pos' \in [Feeds -> Nat] /\ \A g \in Feeds : pos'[g] <= Len(Feed(g))
        /\ Read' = Read \cup {e} /\ lost' = lost \cup {e}
      BY <1>2, NextEvent DEF Loses
  <2> QED
      BY <1>2, <2>1 DEF Loses, Entries, mapVars
<1>3. ASSUME NEW gone, Evicts(gone) PROVE Entries'
  <2>1. Read' = Read
      BY <1>3 DEF Evicts, Read
  <2> QED
      BY <1>3, <2>1 DEF Evicts, Entries
<1>4. CASE UNCHANGED <<pos, mapVars, emitted, lossVars>>
  <2>1. Read' = Read
      BY <1>4 DEF Read
  <2> QED
      BY <1>4, <2>1 DEF Entries, mapVars, lossVars
<1> QED
    BY <1>1, <1>2, <1>3, <1>4, Steps

(* Where an event is. *)
LEMMA NextAccounted == ASSUME Entries, Accounted, [Next]_vars PROVE Accounted'
<1>1. /\ Read \ lost = Held \cup Out \cup evicted \cup overwritten
      /\ Held \cap (Out \cup evicted \cup overwritten) = {}
      /\ Out \cap (evicted \cup overwritten) = {} /\ evicted \cap overwritten = {}
      /\ \A r, q \in emitted : r # q => r.parts \cap q.parts = {}
      /\ lost \subseteq Read
    BY DEF Accounted, Arrived, Entries
<1>2. /\ Held = {y.event : y \in syscallInFlight} \cup {y.event : y \in blockInFlight}
      /\ Held' = {y.event : y \in syscallInFlight'} \cup {y.event : y \in blockInFlight'}
    BY DEF Held
<1>3. \A y \in syscallInFlight, z \in blockInFlight : y.event # z.event
    BY DEF Entries
<1>4. ASSUME NEW r, emitted' = emitted \cup {r}, NEW S, r.parts = S, S \cap Out = {}
      PROVE  Out' = Out \cup S /\ \A q, p \in emitted' : q # p => q.parts \cap p.parts = {}
  <2>1. Out' = Out \cup S
      BY <1>4 DEF Out
  <2>2. \A q \in emitted : q.parts \cap S = {}
      BY <1>4 DEF Out
  <2> QED
      BY <1>1, <1>4, <2>1, <2>2
<1>5. ASSUME emitted' = emitted
      PROVE  Out' = Out /\ \A q, p \in emitted' : q # p => q.parts \cap p.parts = {}
    BY <1>1, <1>5 DEF Out
<1>6. ASSUME NEW f \in Feeds, NEW e, NEW x, Handles(f, e, x) PROVE Accounted'
  <2>1. /\ e \notin Read /\ Read' = Read \cup {e} /\ x.event = e /\ UNCHANGED <<lost, evicted>>
      BY <1>6, NextEvent DEF Handles
  <2>2. e \notin Held \cup Out \cup evicted \cup overwritten \cup lost
      BY <1>1, <2>1
  <2>3. CASE Holds(e, x)
    <3>1. Held' = Held \cup {e}
        BY <1>2, <2>1, <2>3 DEF Holds
    <3>2. UNCHANGED <<emitted, overwritten>>
        BY <2>3 DEF Holds
    <3>3. Out' = Out /\ \A q, p \in emitted' : q # p => q.parts \cap p.parts = {}
        BY <1>5, <3>2
    <3> QED
        BY <1>1, <2>1, <2>2, <3>1, <3>2, <3>3 DEF Accounted, Arrived
  <2>4. CASE PairsCall(e, x)
    <3>1. PICK y \in syscallInFlight :
              /\ y.event.key = e.key /\ syscallInFlight' = syscallInFlight \ {y}
              /\ emitted' = emitted \cup {completePair(y, x)}
        BY <2>4 DEF PairsCall
    <3>2. UNCHANGED <<blockInFlight, overwritten>>
        BY <2>4 DEF PairsCall
    <3>3. \A z \in syscallInFlight : z # y => z.event # y.event
        BY <3>1 DEF Entries
    <3>4. Held' = Held \ {y.event} /\ y.event \in Held
        BY <1>2, <1>3, <3>1, <3>2, <3>3
    <3>5. completePair(y, x).parts = {y.event, e}
        BY <2>1, PairFields
    <3>6. {y.event, e} \cap Out = {}
        BY <1>1, <2>2, <3>4
    <3>7. /\ Out' = Out \cup {y.event, e}
          /\ \A q, p \in emitted' : q # p => q.parts \cap p.parts = {}
        BY <1>4, <3>1, <3>5, <3>6
    <3> QED
        BY <1>1, <2>1, <2>2, <3>2, <3>4, <3>7 DEF Accounted, Arrived
  <2>5. CASE Issues(e, x)
    <3> DEFINE S == {z.event : z \in WithKey(blockInFlight, e.key)}
    <3>1. overwritten' = overwritten \cup S /\ UNCHANGED <<syscallInFlight, emitted>>
        BY <2>5 DEF Issues
    <3>2. \A z \in blockInFlight : z.event \in S <=> z \in WithKey(blockInFlight, e.key)
        BY DEF WithKey
    <3>3. S \subseteq {z.event : z \in blockInFlight}
        BY DEF WithKey
    <3>4. blockInFlight' = (blockInFlight \ WithKey(blockInFlight, e.key)) \cup {x}
        BY <2>5 DEF Issues
    <3> HIDE DEF S
    <3>5. {z.event : z \in blockInFlight'} = ({z.event : z \in blockInFlight} \ S) \cup {e}
        BY <2>1, <3>2, <3>4
    <3>6. Held' = (Held \ S) \cup {e} /\ S \subseteq Held
        BY <1>2, <1>3, <3>1, <3>3, <3>5
    <3>7. Out' = Out /\ \A q, p \in emitted' : q # p => q.parts \cap p.parts = {}
        BY <1>5, <3>1
    <3> QED
        BY <1>1, <2>1, <2>2, <3>1, <3>6, <3>7 DEF Accounted, Arrived
  <2>6. CASE PairsBlock(e, x)
    <3>1. PICK y \in blockInFlight :
              /\ y.event.key = e.key /\ blockInFlight' = blockInFlight \ {y}
              /\ emitted' = emitted \cup {completePair(y, x)}
        BY <2>6 DEF PairsBlock
    <3>2. UNCHANGED <<syscallInFlight, overwritten>>
        BY <2>6 DEF PairsBlock
    <3>3. \A z \in blockInFlight : z # y => z.event # y.event
        BY <3>1 DEF Entries
    <3>4. Held' = Held \ {y.event} /\ y.event \in Held
        BY <1>2, <1>3, <3>1, <3>2, <3>3
    <3>5. completePair(y, x).parts = {y.event, e}
        BY <2>1, PairFields
    <3>6. {y.event, e} \cap Out = {}
        BY <1>1, <2>2, <3>4
    <3>7. /\ Out' = Out \cup {y.event, e}
          /\ \A q, p \in emitted' : q # p => q.parts \cap p.parts = {}
        BY <1>4, <3>1, <3>5, <3>6
    <3> QED
        BY <1>1, <2>1, <2>2, <3>2, <3>4, <3>7 DEF Accounted, Arrived
  <2>7. CASE Passes(e, x)
    <3>1. emitted' = emitted \cup {Alone(x)} /\ Alone(x).parts = {e}
        BY <2>1, <2>7, AloneFields DEF Passes
    <3>2. {e} \cap Out = {}
        BY <2>2
    <3>3. Out' = Out \cup {e} /\ \A q, p \in emitted' : q # p => q.parts \cap p.parts = {}
        BY <1>4, <3>1, <3>2
    <3>4. Held' = Held /\ UNCHANGED overwritten
        BY <2>7 DEF Passes, mapVars, Held
    <3> QED
        BY <1>1, <2>1, <2>2, <3>3, <3>4 DEF Accounted, Arrived
  <2> QED
      BY <1>6, <2>3, <2>4, <2>5, <2>6, <2>7 DEF Handles
<1>7. ASSUME NEW f \in Feeds, NEW e, Loses(f, e) PROVE Accounted'
  <2>1. /\ e \notin Read /\ Read' = Read \cup {e} /\ lost' = lost \cup {e}
        /\ UNCHANGED <<emitted, evicted, overwritten>> /\ Held' = Held
      BY <1>7, NextEvent DEF Loses, Held, mapVars
  <2>2. Out' = Out /\ \A q, p \in emitted' : q # p => q.parts \cap p.parts = {}
      BY <1>5, <2>1
  <2> QED
      BY <1>1, <2>1, <2>2 DEF Accounted, Arrived
<1>8. ASSUME NEW gone, Evicts(gone) PROVE Accounted'
  <2> DEFINE G == {x.event : x \in gone}
  <2>1. /\ Read' = Read /\ UNCHANGED <<emitted, lost, overwritten>> /\ evicted' = evicted \cup G
      BY <1>8 DEF Evicts, Read
  <2>2. Out' = Out /\ \A q, p \in emitted' : q # p => q.parts \cap p.parts = {}
      BY <1>5, <2>1
  <2>3. \A y, z \in syscallInFlight \cup blockInFlight : y.event = z.event => y = z
      BY <1>3 DEF Entries
  <2>4. /\ gone \subseteq syscallInFlight \cup blockInFlight
        /\ syscallInFlight' \cup blockInFlight' = (syscallInFlight \cup blockInFlight) \ gone
      BY <1>8 DEF Evicts
  <2>5. Held' = Held \ G /\ G \subseteq Held
      BY <2>3, <2>4 DEF Held
  <2> HIDE DEF G
  <2> QED
      BY <1>1, <2>1, <2>2, <2>5 DEF Accounted, Arrived
<1>9. CASE UNCHANGED <<pos, mapVars, emitted, lossVars>>
  <2>1. Read' = Read /\ Held' = Held /\ Out' = Out
      BY <1>9 DEF Read, Held, Out, mapVars
  <2> QED
      BY <1>1, <1>9, <2>1 DEF Accounted, Arrived, lossVars
<1> QED
    BY <1>6, <1>7, <1>8, <1>9, Steps

-----------------------------------------------------------------------------
(* What the maps hold for the last event read. *)

LEMMA LastReadStep ==
    ASSUME Entries, NEW f \in Feeds, NEW e, Reads(f, e),
           NEW g \in Feeds, NEW i \in 1 .. pos'[g], LastRead(g, i)', Feed(g)[i].kind # "other"
    PROVE  \/ g = f /\ i = pos[f] + 1 /\ Feed(g)[i] = e
           \/ i \in 1 .. pos[g] /\ LastRead(g, i) /\ ~Together(e, Feed(g)[i])
<1>1. /\ pos[f] \in Nat /\ pos[f] + 1 \in 1 .. Len(Feed(f)) /\ pos'[f] = pos[f] + 1
      /\ \A h \in Feeds \ {f} : pos'[h] = pos[h]
      /\ pos[g] \in Nat /\ pos'[g] \in Nat /\ pos[g] <= Len(Feed(g))
    BY NextEvent DEF Entries
<1>2. e = Feed(f)[pos[f] + 1]
    BY DEF Reads
<1>3. \A j \in i + 1 .. pos'[g] : ~Together(Feed(g)[j], Feed(g)[i])
    BY DEF LastRead
<1>4. CASE g = f /\ i = pos[f] + 1
    BY <1>2, <1>4
<1>5. CASE g = f /\ i # pos[f] + 1
  <2>1. i \in 1 .. pos[g] /\ \A j \in i + 1 .. pos[g] : j \in i + 1 .. pos'[g]
      BY <1>1, <1>5
  <2>2. pos[f] + 1 \in i + 1 .. pos'[g]
      BY <1>1, <1>5
  <2> QED
      BY <1>2, <1>3, <1>5, <2>1, <2>2 DEF LastRead
<1>6. CASE g # f
  <2>1. pos'[g] = pos[g] /\ LastRead(g, i) /\ i \in 1 .. pos[g]
      BY <1>1, <1>3, <1>6 DEF LastRead
  <2>2. i \in DOMAIN Feed(g) /\ pos[f] + 1 \in DOMAIN Feed(f)
      BY <1>1, <2>1, FeedFacts
  <2>3. ~Together(Feed(g)[i], Feed(f)[pos[f] + 1])
      BY <1>6, <2>2, Distinct
  <2> QED
      BY <1>2, <2>1, <2>3 DEF Together
<1> QED
    BY <1>4, <1>5, <1>6

LEMMA CallOrder ==
    ASSUME NEW f \in Feeds, NEW i \in DOMAIN Feed(f), NEW j \in DOMAIN Feed(f),
           Feed(f)[i].kind = "syscall", Feed(f)[i].key \in TwoByTwo, Adjacent(f, i, j)
    PROVE  IF Feed(f)[i].call = Feed(f)[j].call
           THEN /\ First(f, i)
                /\ \/ IsEntryAndExit(Feed(f)[i], Feed(f)[j])
                   \/ IsEntryAndExit(Feed(f)[j], Feed(f)[i])
           ELSE ~First(f, i) /\ First(f, j)
<1>1. \A key \in TwoByTwo : \A a \in Feeds : \A k, m \in DOMAIN Feed(a) :
         Feed(a)[k].kind = "syscall" /\ Feed(a)[k].key = key /\ Adjacent(a, k, m) =>
           IF Feed(a)[k].call = Feed(a)[m].call
           THEN /\ First(a, k)
                /\ \/ IsEntryAndExit(Feed(a)[k], Feed(a)[m])
                   \/ IsEntryAndExit(Feed(a)[m], Feed(a)[k])
           ELSE ~First(a, k) /\ First(a, m)
    BY Zenon DEF TwoByTwo
<1> QED
    BY <1>1

(* The last event read before e that may be paired with it. *)
LEMMA LastBefore ==
    ASSUME Entries, NEW f \in Feeds, NEW e, Reads(f, e),
           NEW m \in 1 .. pos[f], Together(Feed(f)[m], e)
    PROVE  \E i \in 1 .. pos[f] :
              LastRead(f, i) /\ Adjacent(f, i, pos[f] + 1) /\ Together(Feed(f)[i], e)
<1> DEFINE S == {i \in 1 .. pos[f] : Together(Feed(f)[i], e)}
<1>1. pos[f] \in Nat /\ e = Feed(f)[pos[f] + 1]
    BY DEF Entries, Reads
<1>2. PICK i \in S : \A j \in i + 1 .. pos[f] : j \notin S
    BY <1>1, LastPosition
<1>3. \A j \in i + 1 .. pos[f] : ~Together(Feed(f)[j], e)
    BY <1>1, <1>2
<1>4. LastRead(f, i)
    BY <1>2, <1>3 DEF LastRead, Together
<1>5. Adjacent(f, i, pos[f] + 1)
    BY <1>1, <1>2, <1>3 DEF Adjacent
<1> QED
    BY <1>2, <1>4, <1>5

LEMMA HeldOnFeed ==
    ASSUME Entries, Accounted, NEW f \in Feeds, NEW e, Reads(f, e), e.kind # "other",
           NEW y \in syscallInFlight \cup blockInFlight, Together(y.event, e)
    PROVE  \E m \in 1 .. pos[f] : Feed(f)[m] = y.event
<1>1. y.event \in Read
    BY DEF Accounted, Held, Arrived
<1>2. PICK g \in Feeds : y.event \in {Feed(g)[i] : i \in 1 .. pos[g]}
    BY <1>1 DEF Read
<1>3. PICK m \in 1 .. pos[g] : y.event = Feed(g)[m]
    BY <1>2
<1>4. m \in DOMAIN Feed(g) /\ pos[f] + 1 \in DOMAIN Feed(f) /\ e = Feed(f)[pos[f] + 1]
    BY NextEvent, FeedFacts DEF Entries, Reads
<1>5. g = f
  <2>1. Together(Feed(g)[m], Feed(f)[pos[f] + 1]) /\ Feed(g)[m].kind # "other"
      BY <1>3, <1>4 DEF Together
  <2> QED
      BY <1>4, <2>1, Distinct
<1> QED
    BY <1>3, <1>5

LEMMA HalfArrives ==
    ASSUME IInv, NEW f \in Feeds, NEW e, Reads(f, e), e.kind = "syscall", Whole(e.key)
    PROVE  /\ \A y \in syscallInFlight : y.event.key = e.key =>
                /\ ~First(f, pos[f] + 1) /\ y.event.call = e.call
                /\ IsEntryAndExit(y.event, e) \/ IsEntryAndExit(e, y.event)
           /\ (\A y \in syscallInFlight : y.event.key # e.key) => First(f, pos[f] + 1)
<1>1. Entries /\ Accounted /\ SyscallsHeld
    BY DEF IInv
<1>2. /\ pos[f] \in Nat /\ pos[f] + 1 \in DOMAIN Feed(f) /\ e = Feed(f)[pos[f] + 1]
      /\ \A i \in 1 .. pos[f] : i \in DOMAIN Feed(f)
    BY <1>1, NextEvent, FeedFacts DEF Entries, Reads
<1>3. ASSUME NEW i \in 1 .. pos[f], LastRead(f, i), Together(Feed(f)[i], e)
      PROVE  IF First(f, i) THEN \E x \in syscallInFlight : x.event = Feed(f)[i]
             ELSE \A x \in syscallInFlight : x.event.key # e.key
    BY <1>1, <1>3 DEF SyscallsHeld, Together
<1>4. ASSUME NEW y \in syscallInFlight, y.event.key = e.key
      PROVE  /\ ~First(f, pos[f] + 1) /\ y.event.call = e.call
             /\ IsEntryAndExit(y.event, e) \/ IsEntryAndExit(e, y.event)
  <2>1. Together(y.event, e)
      BY <1>1, <1>4 DEF Entries, Together
  <2>2. PICK m \in 1 .. pos[f] : Feed(f)[m] = y.event
      BY <1>1, <2>1, HeldOnFeed
  <2>3. PICK i \in 1 .. pos[f] :
            LastRead(f, i) /\ Adjacent(f, i, pos[f] + 1) /\ Together(Feed(f)[i], e)
      BY <1>1, <2>1, <2>2, LastBefore
  <2>4. First(f, i) /\ \E x \in syscallInFlight : x.event = Feed(f)[i]
      BY <1>3, <1>4, <2>3
  <2>5. y.event = Feed(f)[i]
      BY <1>1, <1>4, <2>3, <2>4 DEF Entries, Together
  <2>6. /\ Feed(f)[i].call = e.call
        /\ IsEntryAndExit(Feed(f)[i], e) \/ IsEntryAndExit(e, Feed(f)[i])
      BY <1>2, <2>3, <2>4, CallOrder DEF Together, Whole
  <2>7. ~First(f, pos[f] + 1)
      BY <1>2, <2>3, <2>6 DEF First
  <2> QED
      BY <2>5, <2>6, <2>7
<1>5. ASSUME \A y \in syscallInFlight : y.event.key # e.key, ~First(f, pos[f] + 1)
      PROVE  FALSE
  <2>1. PICK m \in 1 .. pos[f] : Together(Feed(f)[m], e) /\ Feed(f)[m].call = e.call
      BY <1>2, <1>5 DEF First
  <2>2. PICK i \in 1 .. pos[f] :
            LastRead(f, i) /\ Adjacent(f, i, pos[f] + 1) /\ Together(Feed(f)[i], e)
      BY <1>1, <2>1, LastBefore
  <2>3. ~First(f, i)
    <3>1. ASSUME First(f, i) PROVE FALSE
      <4>1. PICK x \in syscallInFlight : x.event = Feed(f)[i]
          BY <1>3, <2>2, <3>1
      <4> QED
          BY <1>5, <2>2, <4>1 DEF Together
    <3> QED
        BY <3>1
  <2> QED
      BY <1>2, <1>5, <2>2, <2>3, CallOrder DEF Together, Whole
<1> QED
    BY <1>4, <1>5

LEMMA WholeBefore ==
    ASSUME Entries, [Next]_vars, NEW key, Whole(key)'
    PROVE  Whole(key)
<1>1. lost \subseteq lost' /\ evicted \subseteq evicted'
  <2>1. ASSUME NEW f \in Feeds, NEW e, NEW x, Handles(f, e, x) PROVE UNCHANGED <<lost, evicted>>
      BY <2>1 DEF Handles
  <2>2. ASSUME NEW f \in Feeds, NEW e, Loses(f, e) PROVE lost' = lost \cup {e} /\ UNCHANGED evicted
      BY <2>2 DEF Loses
  <2>3. ASSUME NEW gone, Evicts(gone) PROVE UNCHANGED lost /\ evicted \subseteq evicted'
      BY <2>3 DEF Evicts
  <2> QED
      BY <2>1, <2>2, <2>3, Steps DEF lossVars
<1> QED
    BY <1>1 DEF Whole

(* A thread's half in flight. *)
LEMMA NextSyscallsHeld == ASSUME IInv, [Next]_vars PROVE SyscallsHeld'
<1>1. Entries /\ SyscallsHeld
    BY DEF IInv
<1> SUFFICES ASSUME NEW g \in Feeds, NEW i \in 1 .. pos'[g], LastRead(g, i)',
                    Feed(g)[i].kind = "syscall", Whole(Feed(g)[i].key)'
             PROVE  IF First(g, i) THEN \E x \in syscallInFlight' : x.event = Feed(g)[i]
                    ELSE \A x \in syscallInFlight' : x.event.key # Feed(g)[i].key
    BY DEF SyscallsHeld, First, LastRead, Whole, Together
<1> DEFINE d == Feed(g)[i]
           Goal == IF First(g, i) THEN \E x \in syscallInFlight' : x.event = d
                   ELSE \A x \in syscallInFlight' : x.event.key # d.key
<1>2. Whole(d.key)
    BY <1>1, WholeBefore
<1>3. ASSUME i \in 1 .. pos[g], LastRead(g, i)
      PROVE  IF First(g, i) THEN \E x \in syscallInFlight : x.event = d
             ELSE \A x \in syscallInFlight : x.event.key # d.key
    BY <1>1, <1>2, <1>3 DEF SyscallsHeld
<1>4. ASSUME NEW f \in Feeds, NEW e, NEW x, Handles(f, e, x) PROVE Goal
  <2>1. Reads(f, e) /\ x.event = e
      BY <1>4 DEF Handles
  <2>2. \/ g = f /\ i = pos[f] + 1 /\ d = e
        \/ i \in 1 .. pos[g] /\ LastRead(g, i) /\ ~Together(e, d)
      BY <1>1, <2>1, LastReadStep
  <2>3. CASE g = f /\ i = pos[f] + 1 /\ d = e
    <3>1. e.kind = "syscall" /\ Whole(e.key)
        BY <1>2, <2>3
    <3>2. CASE Holds(e, x)
      <4>1. First(f, pos[f] + 1) /\ x \in syscallInFlight'
          BY <2>1, <3>1, <3>2, HalfArrives DEF Holds
      <4> QED
          BY <2>1, <2>3, <4>1
    <3>3. CASE PairsCall(e, x)
      <4>1. PICK y \in syscallInFlight :
                y.event.key = e.key /\ syscallInFlight' = syscallInFlight \ {y}
          BY <3>3 DEF PairsCall
      <4>2. ~First(f, pos[f] + 1)
          BY <2>1, <3>1, <4>1, HalfArrives
      <4>3. \A z \in syscallInFlight' : z.event.key # e.key
          BY <1>1, <4>1 DEF Entries
      <4> QED
          BY <2>3, <4>2, <4>3
    <3> QED
        BY <1>4, <3>1, <3>2, <3>3 DEF Handles, Issues, PairsBlock, Passes
  <2>4. CASE i \in 1 .. pos[g] /\ LastRead(g, i) /\ ~Together(e, d)
    <3>1. IF First(g, i) THEN \E z \in syscallInFlight : z.event = d
          ELSE \A z \in syscallInFlight : z.event.key # d.key
        BY <1>3, <2>4
    <3>2. \A z : z.event.key = d.key /\ z \in syscallInFlight => z \in syscallInFlight'
      <4>1. CASE PairsCall(e, x)
        <5>1. PICK y \in syscallInFlight :
                  y.event.key = e.key /\ syscallInFlight' = syscallInFlight \ {y} /\ e.kind = "syscall"
            BY <4>1 DEF PairsCall
        <5>2. e.key # d.key
            BY <2>4, <5>1 DEF Together
        <5> QED
            BY <5>1, <5>2
      <4> QED
          BY <1>4, <4>1 DEF Handles, Holds, Issues, PairsBlock, Passes, mapVars
    <3>3. \A z \in syscallInFlight' : z \in syscallInFlight \/ z.event.key # d.key
      <4>1. CASE Holds(e, x)
        <5>1. e.key # d.key
            BY <2>4, <4>1 DEF Holds, Together
        <5> QED
            BY <2>1, <4>1, <5>1 DEF Holds
      <4> QED
          BY <1>4, <4>1 DEF Handles, PairsCall, Issues, PairsBlock, Passes, mapVars
    <3> HIDE DEF d
    <3> QED
        BY <3>1, <3>2, <3>3
  <2> QED
      BY <2>2, <2>3, <2>4
<1>5. ASSUME NEW f \in Feeds, NEW e, Loses(f, e) PROVE Goal
  <2>1. Reads(f, e) /\ lost' = lost \cup {e} /\ UNCHANGED syscallInFlight
      BY <1>5 DEF Loses, mapVars
  <2>2. d # e
      BY <2>1 DEF Whole
  <2>3. i \in 1 .. pos[g] /\ LastRead(g, i)
      BY <1>1, <2>1, <2>2, LastReadStep
  <2> QED
      BY <1>3, <2>1, <2>3
<1>6. ASSUME NEW gone, Evicts(gone) PROVE Goal
  <2>1. /\ UNCHANGED pos /\ syscallInFlight' = syscallInFlight \ gone
        /\ evicted' = evicted \cup {x.event : x \in gone}
      BY <1>6 DEF Evicts
  <2>2. i \in 1 .. pos[g] /\ LastRead(g, i)
      BY <2>1 DEF LastRead
  <2>3. ASSUME NEW z \in syscallInFlight, z.event = d PROVE z \in syscallInFlight'
      BY <2>1, <2>3 DEF Whole
  <2> QED
      BY <1>3, <2>1, <2>2, <2>3
<1>7. CASE UNCHANGED <<pos, mapVars, emitted, lossVars>>
  <2>1. UNCHANGED <<pos, syscallInFlight>>
      BY <1>7 DEF mapVars
  <2>2. i \in 1 .. pos[g] /\ LastRead(g, i)
      BY <2>1 DEF LastRead
  <2> QED
      BY <1>3, <2>1, <2>2
<1> QED
    BY <1>1, <1>4, <1>5, <1>6, <1>7, Steps

(* What was returned for a thread. *)
LEMMA NextPairsAreCalls == ASSUME IInv, [Next]_vars PROVE SyscallPairsAreCalls'
<1>1. Entries /\ SyscallPairsAreCalls
    BY DEF IInv
<1>2. ASSUME NEW r \in emitted, r.head.kind = "syscall", Whole(r.head.key)'
      PROVE  IsCall(r, r.parts)
    BY <1>1, <1>2, WholeBefore DEF SyscallPairsAreCalls
<1>3. ASSUME UNCHANGED emitted PROVE SyscallPairsAreCalls'
  <2> SUFFICES ASSUME NEW r \in emitted', r.head.kind = "syscall", Whole(r.head.key)'
               PROVE  IsCall(r, r.parts)
      BY DEF SyscallPairsAreCalls, Whole, IsCall
  <2> QED
      BY <1>2, <1>3
<1>4. ASSUME NEW s, emitted' = emitted \cup {s},
             s.head.kind = "syscall" /\ Whole(s.head.key)' => IsCall(s, s.parts)
      PROVE  SyscallPairsAreCalls'
  <2> SUFFICES ASSUME NEW r \in emitted', r.head.kind = "syscall", Whole(r.head.key)'
               PROVE  IsCall(r, r.parts)
      BY DEF SyscallPairsAreCalls, Whole, IsCall
  <2> QED
      BY <1>2, <1>4
<1>5. ASSUME NEW f \in Feeds, NEW e, NEW x, Handles(f, e, x) PROVE SyscallPairsAreCalls'
  <2>1. Reads(f, e) /\ x.event = e
      BY <1>5 DEF Handles
  <2>2. CASE Holds(e, x) \/ Issues(e, x)
      BY <1>3, <2>2 DEF Holds, Issues
  <2>3. CASE PairsCall(e, x)
    <3>1. PICK y \in syscallInFlight :
              y.event.key = e.key /\ emitted' = emitted \cup {completePair(y, x)}
        BY <2>3 DEF PairsCall
    <3> DEFINE s == completePair(y, x)
               p == y.event
    <3>2. /\ s.parts = {p, e} /\ s.head \in {p, e}
          /\ e.ts > p.ts => s.head = p /\ s.ret = e.ret /\ s.dur = e.ts - p.ts
          /\ ~(e.ts > p.ts) => s.head = e /\ s.ret = p.ret /\ s.dur = p.ts - e.ts
        BY <2>1, PairFields
    <3>3. e.kind = "syscall" /\ p.key = e.key
        BY <2>3, <3>1 DEF PairsCall
    <3>4. p \in Event /\ e \in Event
      <4>1. p.kind = "syscall"
          BY <1>1 DEF Entries
      <4>2. \E m \in 1 .. pos[f] : Feed(f)[m] = p
          BY <1>1, <2>1, <3>3, <4>1, HeldOnFeed DEF IInv, Together
      <4>3. \A m \in 1 .. pos[f] : m \in 1 .. Len(Feed(f))
          BY <1>1, FeedFacts DEF Entries
      <4> QED
          BY <1>1, <2>1, <4>2, <4>3, FeedFacts, NextEvent
    <3>5. p.ts \in Nat /\ e.ts \in Nat
        BY <3>4, EnricherAssumption
    <3> HIDE DEF s, p
    <3>6. ASSUME Whole(s.head.key)' PROVE IsCall(s, s.parts)
      <4>1. Whole(e.key)
          BY <1>1, <3>2, <3>3, <3>6, WholeBefore
      <4>2. p.call = e.call /\ (IsEntryAndExit(p, e) \/ IsEntryAndExit(e, p))
          BY <2>1, <3>1, <3>3, <4>1, HalfArrives DEF p
      <4> QED
          BY <3>2, <3>5, <4>2 DEF IsCall, IsEntryAndExit
    <3> QED
        BY <1>4, <3>1, <3>6 DEF s
  <2>4. CASE PairsBlock(e, x)
    <3>1. PICK y \in blockInFlight : emitted' = emitted \cup {completePair(y, x)}
        BY <2>4 DEF PairsBlock
    <3>2. y.event.kind = "block" /\ e.kind = "block"
        BY <1>1, <2>4 DEF Entries, PairsBlock
    <3>3. completePair(y, x).head.kind # "syscall"
        BY <2>1, <3>2, PairFields
    <3> QED
        BY <1>4, <3>1, <3>3
  <2>5. CASE Passes(e, x)
    <3>1. emitted' = emitted \cup {Alone(x)} /\ Alone(x).head.kind # "syscall"
        BY <2>1, <2>5, AloneFields DEF Passes
    <3> QED
        BY <1>4, <3>1
  <2> QED
      BY <1>5, <2>2, <2>3, <2>4, <2>5 DEF Handles
<1>6. ASSUME NEW f \in Feeds, NEW e, Loses(f, e) PROVE SyscallPairsAreCalls'
    BY <1>3, <1>6 DEF Loses
<1>7. ASSUME NEW gone, Evicts(gone) PROVE SyscallPairsAreCalls'
    BY <1>3, <1>7 DEF Evicts
<1>8. CASE UNCHANGED <<pos, mapVars, emitted, lossVars>>
    BY <1>3, <1>8
<1> QED
    BY <1>1, <1>5, <1>6, <1>7, <1>8, Steps

-----------------------------------------------------------------------------
(* Block requests. *)

(* What block keys wait for, as a function of what was lost and evicted. *)

LatestIn(L, f, n, key) ==
    {i \in 1 .. n :
        /\ Keyed(Feed(f)[i], key) /\ Feed(f)[i] \notin L
        /\ \A k \in i + 1 .. n : Keyed(Feed(f)[k], key) => Feed(f)[k] \in L}

PendingIn(L, V, f, n, key) ==
    {Feed(f)[i] : i \in {k \in LatestIn(L, f, n, key) : Feed(f)[k].phase = "issue"}} \ V

EventsWith(M, key) == {x.event : x \in WithKey(M, key)}

Follows(r, e, L, V, f, j) == e \in r.parts => r.parts = {e} \cup PendingIn(L, V, f, j - 1, e.key)

Completes(e) == Keyed(e, e.key) /\ e.phase = "complete"

LEMMA BlockForms ==
    /\ BlocksHeld <=>
         \A f \in Feeds : \A i \in DOMAIN Feed(f) : Keyed(Feed(f)[i], Feed(f)[i].key) =>
            EventsWith(blockInFlight, Feed(f)[i].key)
              = PendingIn(lost, evicted, f, pos[f], Feed(f)[i].key)
    /\ BlocksHeld' <=>
         \A f \in Feeds : \A i \in DOMAIN Feed(f) : Keyed(Feed(f)[i], Feed(f)[i].key) =>
            EventsWith(blockInFlight', Feed(f)[i].key)
              = PendingIn(lost', evicted', f, pos'[f], Feed(f)[i].key)
    /\ BlockPairsRecover <=>
         \A f \in Feeds : \A j \in 1 .. pos[f] : Completes(Feed(f)[j]) =>
            \A r \in emitted : Follows(r, Feed(f)[j], lost, evicted, f, j)
    /\ BlockPairsRecover' <=>
         \A f \in Feeds : \A j \in 1 .. pos'[f] : Completes(Feed(f)[j]) =>
            \A r \in emitted' : Follows(r, Feed(f)[j], lost', evicted', f, j)
    BY Zenon DEF BlocksHeld, BlockPairsRecover, Pending, Latest, PendingIn, LatestIn, EventsWith,
       Follows, Completes, WithKey, Keyed

LEMMA KeyOnFeed ==
    ASSUME NEW f \in Feeds, NEW i \in DOMAIN Feed(f), NEW g \in Feeds, NEW j \in DOMAIN Feed(g),
           NEW key, Keyed(Feed(f)[i], key), Keyed(Feed(g)[j], key)
    PROVE  f = g
<1>1. Together(Feed(f)[i], Feed(g)[j]) /\ Feed(f)[i].kind # "other"
    BY DEF Keyed, Together
<1> QED
    BY <1>1, Distinct

(* The last arrival after one more event. *)
LEMMA LatestStep ==
    ASSUME NEW L, NEW f, NEW n \in Nat, NEW key
    PROVE  /\ Keyed(Feed(f)[n + 1], key) /\ Feed(f)[n + 1] \notin L =>
                 LatestIn(L, f, n + 1, key) = {n + 1}
           /\ ~(Keyed(Feed(f)[n + 1], key) /\ Feed(f)[n + 1] \notin L) =>
                 LatestIn(L, f, n + 1, key) = LatestIn(L, f, n, key)
<1>1. /\ 1 .. n + 1 = (1 .. n) \cup {n + 1} /\ n + 1 \notin 1 .. n
      /\ \A i \in 1 .. n : i + 1 .. n + 1 = (i + 1 .. n) \cup {n + 1}
      /\ (n + 1) + 1 .. n + 1 = {}
    OBVIOUS
<1> DEFINE Arr(i) == Keyed(Feed(f)[i], key) /\ Feed(f)[i] \notin L
<1>2. \A m, i : i \in LatestIn(L, f, m, key) <=>
          i \in 1 .. m /\ Arr(i) /\ \A k \in i + 1 .. m : ~Arr(k)
    BY DEF LatestIn
<1> HIDE DEF Arr
<1>3. ASSUME Arr(n + 1)
      PROVE  LatestIn(L, f, n + 1, key) = {n + 1}
  <2>1. \A i \in 1 .. n : n + 1 \in i + 1 .. n + 1
      BY <1>1
  <2>2. \A i : i \in LatestIn(L, f, n + 1, key) <=> i = n + 1
      BY <1>1, <1>2, <1>3, <2>1
  <2> QED
      BY <2>2
<1>4. ASSUME ~Arr(n + 1)
      PROVE  LatestIn(L, f, n + 1, key) = LatestIn(L, f, n, key)
  <2>1. ASSUME NEW i
        PROVE  i \in LatestIn(L, f, n + 1, key) <=> i \in LatestIn(L, f, n, key)
    <3>1. i \in 1 .. n + 1 /\ Arr(i) <=> i \in 1 .. n /\ Arr(i)
        BY <1>1, <1>4
    <3>2. i \in 1 .. n => ((\A k \in i + 1 .. n + 1 : ~Arr(k)) <=> (\A k \in i + 1 .. n : ~Arr(k)))
        BY <1>1, <1>4
    <3> QED
        BY <1>2, <3>1, <3>2
  <2> QED
      BY <2>1
<1> QED
    BY <1>3, <1>4 DEF Arr

(* A step loses nothing that was read before, and evicts only what is held. *)
LEMMA ReadIsFixed ==
    ASSUME Entries, [Next]_vars
    PROVE  /\ lost \subseteq lost' /\ \A d \in Read : d \in lost' => d \in lost
           /\ evicted \subseteq evicted' /\ \A d \in evicted' : d \in evicted \/ d \in Held
<1>1. ASSUME NEW f \in Feeds, NEW e, NEW x, Handles(f, e, x) PROVE UNCHANGED <<lost, evicted>>
    BY <1>1 DEF Handles
<1>2. ASSUME NEW f \in Feeds, NEW e, Loses(f, e)
      PROVE  lost' = lost \cup {e} /\ e \notin Read /\ UNCHANGED evicted
    BY <1>2, NextEvent DEF Loses
<1>3. ASSUME NEW gone, Evicts(gone)
      PROVE  /\ UNCHANGED lost /\ evicted \subseteq evicted'
             /\ \A d \in evicted' : d \in evicted \/ d \in Held
    BY <1>3 DEF Evicts, Held
<1> QED
    BY <1>1, <1>2, <1>3, Steps DEF lossVars

LEMMA LatestStays ==
    ASSUME Entries, [Next]_vars, NEW f \in Feeds, NEW n \in Nat, n <= pos[f], NEW key
    PROVE  LatestIn(lost', f, n, key) = LatestIn(lost, f, n, key)
<1>1. \A i \in 1 .. n : Feed(f)[i] \in Read
  <2>1. \A i \in 1 .. n : i \in 1 .. pos[f]
      BY DEF Entries
  <2> QED
      BY <2>1 DEF Read
<1>2. \A i \in 1 .. n : Feed(f)[i] \in lost' <=> Feed(f)[i] \in lost
    BY <1>1, ReadIsFixed
<1>3. \A i \in 1 .. n : \A k \in i + 1 .. n : k \in 1 .. n
    OBVIOUS
<1> QED
    BY <1>2, <1>3 DEF LatestIn

LEMMA NextBlocksHeld == ASSUME IInv, [Next]_vars PROVE BlocksHeld'
<1>1. Entries /\ Accounted /\ BlocksHeld /\ lost \subseteq Read /\ evicted \subseteq Read
    BY DEF IInv, Entries, Accounted, Arrived
<1> SUFFICES ASSUME NEW g \in Feeds, NEW i \in DOMAIN Feed(g), Keyed(Feed(g)[i], Feed(g)[i].key)
             PROVE  EventsWith(blockInFlight', Feed(g)[i].key)
                      = PendingIn(lost', evicted', g, pos'[g], Feed(g)[i].key)
    BY BlockForms
<1> DEFINE key == Feed(g)[i].key
<1>2. EventsWith(blockInFlight, key) = PendingIn(lost, evicted, g, pos[g], key)
    BY <1>1, BlockForms
<1>3. Keyed(Feed(g)[i], key) /\ pos[g] \in Nat /\ pos[g] <= pos[g]
    BY <1>1 DEF Entries
<1> HIDE DEF key
<1>4. LatestIn(lost', g, pos[g], key) = LatestIn(lost, g, pos[g], key)
    BY <1>1, <1>3, LatestStays
<1> DEFINE Goal == EventsWith(blockInFlight', key) = PendingIn(lost', evicted', g, pos'[g], key)
<1>5. ASSUME NEW f \in Feeds, NEW e, Reads(f, e), ~Keyed(e, key) \/ e \in lost'
      PROVE  LatestIn(lost', g, pos'[g], key) = LatestIn(lost, g, pos[g], key)
  <2>1. /\ pos[f] \in Nat /\ e = Feed(f)[pos[f] + 1] /\ pos'[f] = pos[f] + 1
        /\ \A h \in Feeds \ {f} : pos'[h] = pos[h]
      BY <1>1, <1>5, NextEvent DEF Reads
  <2>2. CASE g = f
    <3>1. ~(Keyed(Feed(g)[pos[g] + 1], key) /\ Feed(g)[pos[g] + 1] \notin lost')
        BY <1>5, <2>1, <2>2
    <3>2. LatestIn(lost', g, pos[g] + 1, key) = LatestIn(lost', g, pos[g], key)
      <4>1. PICK L, n : L = lost' /\ n = pos[g]
          OBVIOUS
      <4>2. n \in Nat /\ ~(Keyed(Feed(g)[n + 1], key) /\ Feed(g)[n + 1] \notin L)
          BY <1>3, <3>1, <4>1
      <4>3. LatestIn(L, g, n + 1, key) = LatestIn(L, g, n, key)
          BY <4>2, LatestStep
      <4> QED
          BY <4>1, <4>3
    <3> QED
        BY <1>4, <2>1, <2>2, <3>2
  <2>3. CASE g # f
      BY <1>4, <2>1, <2>3
  <2> QED
      BY <2>2, <2>3
<1>6. ASSUME NEW f \in Feeds, NEW e, NEW x, Handles(f, e, x) PROVE Goal
  <2>1. /\ Reads(f, e) /\ x.event = e /\ UNCHANGED <<lost, evicted>>
        /\ e \notin Read /\ pos[f] \in Nat /\ pos[f] + 1 \in DOMAIN Feed(f)
        /\ e = Feed(f)[pos[f] + 1] /\ pos'[f] = pos[f] + 1
      BY <1>1, <1>6, NextEvent, FeedFacts DEF Handles, Reads
  <2>2. CASE Keyed(e, key)
    <3>1. g = f
        BY <1>3, <2>1, <2>2, KeyOnFeed
    <3>2. LatestIn(lost', g, pos'[g], key) = {pos[f] + 1}
      <4>1. Keyed(Feed(f)[pos[f] + 1], key) /\ Feed(f)[pos[f] + 1] \notin lost'
          BY <1>1, <2>1, <2>2
      <4>2. LatestIn(lost', f, pos[f] + 1, key) = {pos[f] + 1}
        <5>1. PICK L, n : L = lost' /\ n = pos[f]
            OBVIOUS
        <5>2. n \in Nat /\ Keyed(Feed(f)[n + 1], key) /\ Feed(f)[n + 1] \notin L
            BY <2>1, <4>1, <5>1
        <5>3. LatestIn(L, f, n + 1, key) = {n + 1}
            BY <5>2, LatestStep
        <5> QED
            BY <5>1, <5>3
      <4> QED
          BY <2>1, <3>1, <4>2
    <3>3. PendingIn(lost', evicted', g, pos'[g], key) = IF e.phase = "issue" THEN {e} ELSE {}
        BY <1>1, <2>1, <3>1, <3>2 DEF PendingIn
    <3>4. e.kind = "block" /\ e.key = key
        BY <2>2 DEF Keyed
    <3>5. CASE Issues(e, x)
      <4>1. WithKey(blockInFlight', key) = {x} /\ e.phase = "issue"
          BY <2>1, <3>4, <3>5 DEF Issues, WithKey
      <4> QED
          BY <2>1, <3>3, <4>1 DEF EventsWith
    <3>6. CASE PairsBlock(e, x)
      <4>1. PICK y \in blockInFlight :
                y.event.key = e.key /\ blockInFlight' = blockInFlight \ {y}
          BY <3>6 DEF PairsBlock
      <4>2. WithKey(blockInFlight', key) = {}
          BY <1>1, <3>4, <4>1 DEF Entries, WithKey
      <4>3. e.phase = "complete"
          BY <3>6 DEF PairsBlock
      <4> QED
          BY <3>3, <4>2, <4>3 DEF EventsWith
    <3>7. CASE Passes(e, x)
      <4>1. WithKey(blockInFlight', key) = {} /\ e.phase = "complete"
          BY <2>2, <3>4, <3>7 DEF Passes, mapVars
      <4> QED
          BY <3>3, <4>1 DEF EventsWith
    <3> QED
        BY <1>6, <3>4, <3>5, <3>6, <3>7 DEF Handles, Holds, PairsCall
  <2>3. CASE ~Keyed(e, key)
    <3>1. LatestIn(lost', g, pos'[g], key) = LatestIn(lost, g, pos[g], key)
        BY <1>5, <2>1, <2>3
    <3>2. key # 0
        BY <1>3 DEF Keyed
    <3>3. WithKey(blockInFlight', key) = WithKey(blockInFlight, key)
      <4>1. CASE Issues(e, x)
        <5>1. e.key # key
            BY <2>3, <3>2, <4>1 DEF Issues, Keyed
        <5> QED
            BY <2>1, <4>1, <5>1 DEF Issues, WithKey
      <4>2. CASE PairsBlock(e, x)
        <5>1. e.key # key
            BY <2>3, <3>2, <4>2 DEF PairsBlock, Keyed
        <5> QED
            BY <4>2, <5>1 DEF PairsBlock, WithKey
      <4> QED
          BY <1>6, <4>1, <4>2 DEF Handles, Holds, PairsCall, Passes, mapVars
    <3> QED
        BY <1>2, <2>1, <3>1, <3>3 DEF EventsWith, PendingIn
  <2> QED
      BY <2>2, <2>3
<1>7. ASSUME NEW f \in Feeds, NEW e, Loses(f, e) PROVE Goal
  <2>1. Reads(f, e) /\ lost' = lost \cup {e} /\ UNCHANGED <<blockInFlight, evicted>>
      BY <1>7 DEF Loses, mapVars
  <2>2. LatestIn(lost', g, pos'[g], key) = LatestIn(lost, g, pos[g], key)
      BY <1>5, <2>1
  <2> QED
      BY <1>2, <2>1, <2>2 DEF PendingIn
<1>8. ASSUME NEW gone, Evicts(gone) PROVE Goal
  <2> DEFINE G == {x.event : x \in gone}
  <2>1. /\ UNCHANGED <<pos, lost>> /\ blockInFlight' = blockInFlight \ gone
        /\ evicted' = evicted \cup G /\ gone \subseteq syscallInFlight \cup blockInFlight
      BY <1>8 DEF Evicts
  <2>2. \A y \in blockInFlight : y.event \in G => y \in gone
    <3>1. \A y \in syscallInFlight, z \in blockInFlight : y.event # z.event
        BY <1>1 DEF Entries
    <3>2. \A y, z \in blockInFlight : y.event = z.event => y = z
        BY <1>1 DEF Entries
    <3> QED
        BY <2>1, <3>1, <3>2
  <2>3. EventsWith(blockInFlight', key) = EventsWith(blockInFlight, key) \ G
      BY <2>1, <2>2 DEF EventsWith, WithKey
  <2> HIDE DEF G
  <2>4. PendingIn(lost', evicted', g, pos'[g], key) = PendingIn(lost, evicted, g, pos[g], key) \ G
      BY <2>1 DEF PendingIn
  <2> QED
      BY <1>2, <2>3, <2>4
<1>9. ASSUME UNCHANGED <<pos, mapVars, emitted, lossVars>> PROVE Goal
  <2>1. UNCHANGED <<pos, blockInFlight, lost, evicted>>
      BY <1>9 DEF mapVars, lossVars
  <2> QED
      BY <1>2, <2>1
<1> QED
    BY <1>1, <1>6, <1>7, <1>8, <1>9, Steps DEF key

(* What a step returns, if it is a completion with an issue or alone, has   *)
(* what blockInFlight held for the key.                                      *)
LEMMA NewlyReturned ==
    ASSUME IInv, NEW f \in Feeds, NEW e, NEW x, Handles(f, e, x), NEW r \in emitted', r \notin emitted
    PROVE  /\ \A d \in r.parts : Completes(d) => d = e
           /\ Completes(e) => r.parts = {e} \cup EventsWith(blockInFlight, e.key)
<1>1. Entries /\ x.event = e
    BY DEF IInv, Handles
<1>2. CASE Holds(e, x) \/ Issues(e, x)
    BY <1>2 DEF Holds, Issues
<1>3. CASE PairsCall(e, x)
  <2>1. PICK y \in syscallInFlight : emitted' = emitted \cup {completePair(y, x)}
      BY <1>3 DEF PairsCall
  <2>2. r.parts = {y.event, e} /\ y.event.kind = "syscall" /\ e.kind = "syscall"
      BY <1>1, <1>3, <2>1, PairFields DEF Entries, PairsCall
  <2> QED
      BY <2>2 DEF Completes, Keyed
<1>4. CASE PairsBlock(e, x)
  <2>1. PICK y \in blockInFlight :
            y.event.key = e.key /\ emitted' = emitted \cup {completePair(y, x)}
      BY <1>4 DEF PairsBlock
  <2>2. r.parts = {y.event, e} /\ y.event.phase = "issue"
      BY <1>1, <2>1, PairFields DEF Entries
  <2>3. WithKey(blockInFlight, e.key) = {y}
    <3>1. \A v, w \in blockInFlight : v.event.key = w.event.key => v = w
        BY <1>1 DEF Entries
    <3> QED
        BY <2>1, <3>1, OneEntry
  <2> QED
      BY <2>2, <2>3 DEF Completes, EventsWith
<1>5. CASE Passes(e, x)
  <2>1. r.parts = {e}
      BY <1>1, <1>5, AloneFields DEF Passes
  <2>2. Completes(e) => WithKey(blockInFlight, e.key) = {}
      BY <1>5 DEF Passes, Completes
  <2> QED
      BY <2>1, <2>2 DEF EventsWith
<1> QED
    BY <1>2, <1>3, <1>4, <1>5 DEF Handles

LEMMA NextPairsRecover == ASSUME IInv, [Next]_vars PROVE BlockPairsRecover'
<1>1. /\ Entries /\ Accounted /\ BlocksHeld /\ BlockPairsRecover
      /\ \A r \in emitted : r.parts \subseteq Read /\ r.parts \cap Held = {}
  <2>1. \A r \in emitted : r.parts \subseteq Out
      BY DEF Out
  <2> QED
      BY <2>1 DEF IInv, Accounted, Arrived
<1> SUFFICES ASSUME NEW g \in Feeds, NEW j \in 1 .. pos'[g], Completes(Feed(g)[j]),
                    NEW r \in emitted', Feed(g)[j] \in r.parts
             PROVE  r.parts = {Feed(g)[j]} \cup PendingIn(lost', evicted', g, j - 1, Feed(g)[j].key)
    BY BlockForms DEF Follows
<1> DEFINE d == Feed(g)[j]
           Goal == r.parts = {d} \cup PendingIn(lost', evicted', g, j - 1, d.key)
<1>2. ASSUME j \in 1 .. pos[g], r \in emitted PROVE Goal
  <2>1. r.parts = {d} \cup PendingIn(lost, evicted, g, j - 1, d.key)
      BY <1>1, <1>2, BlockForms DEF Follows
  <2>2. LatestIn(lost', g, j - 1, d.key) = LatestIn(lost, g, j - 1, d.key)
    <3>1. j - 1 \in Nat /\ j - 1 <= pos[g]
        BY <1>1, <1>2 DEF Entries
    <3> QED
        BY <1>1, <3>1, LatestStays
  <2>3. PendingIn(lost', evicted', g, j - 1, d.key)
          = PendingIn(lost, evicted, g, j - 1, d.key) \ evicted'
      BY <1>1, <2>2, ReadIsFixed DEF PendingIn
  <2>4. PendingIn(lost, evicted, g, j - 1, d.key) \cap evicted' = {}
    <3>1. PendingIn(lost, evicted, g, j - 1, d.key) \cap evicted = {}
        BY DEF PendingIn
    <3>2. PendingIn(lost, evicted, g, j - 1, d.key) \cap Held = {}
        BY <1>1, <1>2, <2>1
    <3> QED
        BY <1>1, <3>1, <3>2, ReadIsFixed
  <2> QED
      BY <2>1, <2>3, <2>4
<1>3. ASSUME NEW f \in Feeds, NEW e, NEW x, Handles(f, e, x) PROVE Goal
  <2>1. /\ Reads(f, e) /\ UNCHANGED <<lost, evicted>>
        /\ e \notin Read /\ pos[f] \in Nat /\ pos[f] + 1 \in DOMAIN Feed(f)
        /\ e = Feed(f)[pos[f] + 1] /\ pos'[f] = pos[f] + 1
        /\ \A h \in Feeds \ {f} : pos'[h] = pos[h]
    <3>1. Reads(f, e) /\ UNCHANGED <<lost, evicted>>
        BY <1>3 DEF Handles
    <3>2. e \notin Read /\ pos[f] \in Nat /\ e = Feed(f)[pos[f] + 1] /\ pos'[f] = pos[f] + 1
        BY <1>1, <3>1, NextEvent DEF Reads
    <3>3. pos[f] + 1 \in DOMAIN Feed(f) /\ \A h \in Feeds \ {f} : pos'[h] = pos[h]
        BY <1>1, <3>1, NextEvent, FeedFacts DEF Reads
    <3> QED
        BY <3>1, <3>2, <3>3
  <2>2. CASE j \in 1 .. pos[g]
    <3>1. d \in Read
        BY <2>2 DEF Read
    <3>2. r \in emitted
        BY <1>3, <2>1, <3>1, NewlyReturned
    <3> QED
        BY <1>2, <2>2, <3>2
  <2>3. CASE j \notin 1 .. pos[g]
    <3>1. g = f /\ j = pos[f] + 1 /\ d = e
        BY <1>1, <2>1, <2>3 DEF Entries
    <3>2. r \notin emitted
        BY <1>1, <2>1, <3>1
    <3>3. r.parts = {e} \cup EventsWith(blockInFlight, e.key)
        BY <1>3, <3>1, <3>2, NewlyReturned
    <3>4. EventsWith(blockInFlight, e.key) = PendingIn(lost, evicted, f, pos[f], e.key)
        BY <1>1, <2>1, <3>1, BlockForms DEF Completes
    <3>5. j - 1 = pos[f]
        BY <2>1, <3>1
    <3> QED
        BY <2>1, <3>1, <3>3, <3>4, <3>5
  <2> QED
      BY <2>2, <2>3
<1>4. ASSUME UNCHANGED emitted, \A h \in Feeds : pos'[h] = pos[h] PROVE Goal
    BY <1>2, <1>4
<1>5. ASSUME NEW f \in Feeds, NEW e, Loses(f, e) PROVE Goal
  <2>1. /\ Reads(f, e) /\ UNCHANGED emitted
        /\ e \notin Read /\ pos[f] \in Nat
        /\ e = Feed(f)[pos[f] + 1] /\ pos'[f] = pos[f] + 1
        /\ \A h \in Feeds \ {f} : pos'[h] = pos[h]
      BY <1>1, <1>5, NextEvent DEF Loses, Reads
  <2>2. j \in 1 .. pos[g]
    <3>1. ASSUME g = f, j = pos[f] + 1 PROVE FALSE
        BY <1>1, <2>1, <3>1
    <3> QED
        BY <1>1, <2>1, <3>1 DEF Entries
  <2> QED
      BY <1>2, <2>1, <2>2
<1>6. ASSUME NEW gone, Evicts(gone) PROVE Goal
    BY <1>4, <1>6 DEF Evicts
<1>7. CASE UNCHANGED <<pos, mapVars, emitted, lossVars>>
    BY <1>4, <1>7
<1> QED
    BY <1>1, <1>3, <1>5, <1>6, <1>7, Steps

-----------------------------------------------------------------------------
(* The inductive invariant holds whatever Process, AddSpan, evictStale and   *)
(* the feeds do.                                                             *)
THEOREM InvCorrect == Spec => []IInv
<1>1. IInv /\ [Next]_vars => IInv'
    BY NextEntries, NextAccounted, NextSyscallsHeld, NextBlocksHeld,
       NextPairsAreCalls, NextPairsRecover DEF IInv
<1> QED
    BY InitInv, <1>1, PTL DEF Spec

(* Process and evictStale lose no event and return none twice: each that     *)
(* arrived is in flight, in one returned event, evicted or replaced.         *)
THEOREM AccountedCorrect == Spec => []Accounted
    BY InvCorrect, PTL DEF IInv

(* pairSyscall, which toggles without looking, pairs the halves of one call  *)
(* as long as nothing of the thread was lost, evicted, held back or sent     *)
(* again by the agent.                                                       *)
THEOREM SyscallPairsAreCallsCorrect == Spec => []SyscallPairsAreCalls
    BY InvCorrect, PTL DEF IInv

(* pairBlock returns a completion with the issue that arrived for its key    *)
(* just before it, and alone if there is none, in any order of arrival and   *)
(* whatever was lost, sent again, replaced or evicted before, for keys that  *)
(* several requests share as well.                                           *)
THEOREM BlockPairsRecoverCorrect == Spec => []BlockPairsRecover
    BY InvCorrect, PTL DEF IInv
=============================================================================
