--------------------------- MODULE FrontendProofs ---------------------------
(***************************************************************************)
(* Proofs about the console's pages: the replay page stays within its      *)
(* incident, the graph page shows one sound graph and never forgets to ask *)
(* for a chain, and the two copies of the settings agree whenever nothing  *)
(* disturbed them.  The pages share no state but the shell's, so each      *)
(* invariant is preserved by its own page's steps and by mounting and      *)
(* leaving it.  The pages of the live feed stand on the connection's list, *)
(* which is numbered without a gap and has one message per key: a page     *)
(* ends with the newest of what it took from it.                           *)
(*                                                                         *)
(* What Filter computes is proved by induction on the list, from the       *)
(* least index where the claim fails.                                      *)
(***************************************************************************)
EXTENDS Frontend, FeedPages, FiniteSetTheorems, SequenceTheorems, NaturalsInduction,
        WellFoundedInduction, TLAPS

-----------------------------------------------------------------------------
(* Filter, by induction on the list. *)
IsUpto(f, s, T, n) == f = [k \in 0 .. n |-> IF k = 0 THEN <<>>
          ELSE IF s[k] \in T THEN Append(f[k - 1], s[k]) ELSE f[k - 1]]

LEMMA FilterIs ==
    ASSUME NEW s, NEW T
    PROVE  Filter(s, T) = (CHOOSE f : IsUpto(f, s, T, Len(s)))[Len(s)]
BY Zenon DEF Filter, IsUpto

LEMMA Least ==
    ASSUME NEW C, C \subseteq Nat, C # {}
    PROVE  \E n \in C : \A m \in C : n <= m
<1> DEFINE R == {ss \in Nat \X Nat : ss[1] < ss[2]}
<1>1. IsWellFoundedOn(R, Nat)
    BY NatLessThanWellFounded DEF OpToRel
<1>2. PICK n \in C : \A m \in C : ~(<<m, n>> \in R)
    BY <1>1, WFMin
<1>3. \A m \in C : m < n => <<m, n>> \in R
    OBVIOUS
<1>4. \A m \in C : ~(m < n)
    BY <1>2, <1>3, Zenon
<1>5. \A m \in C : n <= m
    BY <1>4
<1> QED BY <1>5

LEMMA UptoExists ==
    ASSUME NEW s, NEW T, NEW n \in Nat
    PROVE  \E f : IsUpto(f, s, T, n)
<1> DEFINE C == {m \in Nat : ~\E f : IsUpto(f, s, T, m)}
<1>1. SUFFICES ASSUME C # {} PROVE FALSE
    OBVIOUS
<1>2. PICK m \in C : \A k \in C : m <= k
    BY <1>1, Least
<1>3. CASE m = 0
  <2>1. IsUpto([k \in 0 .. 0 |-> <<>>], s, T, 0)
      BY DEF IsUpto
  <2> QED BY <2>1, <1>3
<1>4. CASE m # 0
  <2>1. m - 1 \in Nat /\ m - 1 \notin C
      BY <1>2, <1>4
  <2>2. PICK f : IsUpto(f, s, T, m - 1)
      BY <2>1
  <2> DEFINE g == [k \in 0 .. m |-> IF k < m THEN f[k] 
                   ELSE IF s[k] \in T THEN Append(f[k - 1], s[k]) ELSE f[k - 1]]
  <2>3. \A k \in 0 .. m - 1 : f[k] = IF k = 0 THEN <<>>
          ELSE IF s[k] \in T THEN Append(f[k - 1], s[k]) ELSE f[k - 1]
      BY <2>2, Zenon DEF IsUpto
  <2>4. \A k \in 0 .. m : k - 1 \in 0 .. m - 1 \/ k = 0
      BY <2>1
  <2>5. \A k \in 0 .. m - 1 : g[k] = f[k]
      BY <2>1
  <2>6. \A k \in 0 .. m : g[k] = IF k = 0 THEN <<>>
          ELSE IF s[k] \in T THEN Append(g[k - 1], s[k]) ELSE g[k - 1]
    <3> TAKE k \in 0 .. m
    <3> HIDE DEF g
    <3>1. CASE k = m
      <4>1. g[m] = IF s[m] \in T THEN Append(f[m - 1], s[m]) ELSE f[m - 1]
        BY <2>1 DEF g
      <4>2. g[m - 1] = f[m - 1]
        BY <2>5, <2>1
      <4> QED BY <4>1, <4>2, <3>1, <1>4
    <3>2. CASE k # m
      <4>1. k \in 0 .. m - 1
        BY <3>2, <2>1
      <4>2. k = 0 \/ g[k - 1] = f[k - 1]
        BY <4>1, <2>5
      <4> QED BY <4>1, <4>2, <2>3, <2>5
    <3> QED BY <3>1, <3>2
  <2>7. IsUpto(g, s, T, m)
    BY <2>6, Zenon DEF IsUpto
  <2> QED BY <2>7, <1>2
<1> QED BY <1>3, <1>4
LEMMA UptoAt ==
    ASSUME NEW f, NEW s, NEW T, NEW n \in Nat, IsUpto(f, s, T, n)
    PROVE  /\ f[0] = <<>>
           /\ \A k \in 1 .. n : f[k] = IF s[k] \in T THEN Append(f[k - 1], s[k]) ELSE f[k - 1]
<1>1. \A k \in 0 .. n : f[k] = IF k = 0 THEN <<>>
          ELSE IF s[k] \in T THEN Append(f[k - 1], s[k]) ELSE f[k - 1]
    BY Zenon DEF IsUpto
<1> QED BY <1>1

LEMMA FilterUpto ==
    ASSUME NEW s, NEW T, Len(s) \in Nat
    PROVE  \E f : IsUpto(f, s, T, Len(s)) /\ Filter(s, T) = f[Len(s)]
<1>1. \E f : IsUpto(f, s, T, Len(s))
    BY UptoExists
<1>2. IsUpto(CHOOSE f : IsUpto(f, s, T, Len(s)), s, T, Len(s))
    BY <1>1, Zenon
<1> QED BY <1>2, FilterIs, Zenon

LEMMA FilterEmpty == \A T : Filter(<<>>, T) = <<>>
<1> TAKE T
<1>1. PICK f : IsUpto(f, <<>>, T, Len(<<>>)) /\ Filter(<<>>, T) = f[Len(<<>>)]
    BY FilterUpto
<1>2. Len(<<>>) = 0
    OBVIOUS
<1> QED BY <1>1, <1>2, UptoAt

LEMMA FilterAppend ==
    ASSUME NEW S, NEW T, NEW s \in Seq(S), NEW x \in S
    PROVE  Filter(Append(s, x), T) = IF x \in T THEN Append(Filter(s, T), x) ELSE Filter(s, T)
<1> DEFINE t == Append(s, x)
           n == Len(s)
<1>1. /\ n \in Nat /\ Len(t) = n + 1 /\ Len(t) \in Nat
      /\ t[n + 1] = x /\ \A k \in 1 .. n : s[k] = t[k]
    OBVIOUS
<1> HIDE DEF t
<1>2. PICK f : IsUpto(f, s, T, n) /\ Filter(s, T) = f[n]
    BY <1>1, FilterUpto
<1>3. PICK g : IsUpto(g, t, T, n + 1) /\ Filter(t, T) = g[n + 1]
    BY <1>1, FilterUpto
<1> HIDE DEF n
<1>3a. /\ f[0] = <<>>
      /\ \A k \in 1 .. n : f[k] = IF s[k] \in T THEN Append(f[k - 1], s[k]) ELSE f[k - 1]
    BY <1>1, <1>2, UptoAt
<1>3b. /\ g[0] = <<>>
      /\ \A k \in 1 .. n + 1 : g[k] = IF t[k] \in T THEN Append(g[k - 1], t[k]) ELSE g[k - 1]
    BY <1>1, <1>3, UptoAt
<1> DEFINE C == {k \in 0 .. n : f[k] # g[k]}
<1>4. ASSUME C # {} PROVE FALSE
  <2>1. C \subseteq Nat
      BY <1>1
  <2>2. PICK k \in C : \A j \in C : k <= j
      BY <1>4, <2>1, Least
  <2>3. k \in 1 .. n /\ k - 1 \in 0 .. n /\ k - 1 \notin C
      BY <1>1, <1>3a, <1>3b, <2>2
  <2>4. f[k - 1] = g[k - 1]
      BY <2>3
  <2>5. f[k] = g[k]
      BY <1>1, <1>3a, <1>3b, <2>3, <2>4
  <2> QED BY <2>2, <2>5
<1>5. g[n + 1] = IF x \in T THEN Append(g[n], x) ELSE g[n]
    BY <1>1, <1>3b
<1>6. f[n] = g[n]
    BY <1>1, <1>4
<1> QED BY <1>2, <1>3, <1>5, <1>6 DEF t

LEMMA ListInduction ==
    ASSUME NEW S, NEW P, <<>> \in P,
           \A s \in Seq(S) : s \in P => \A x \in S : Append(s, x) \in P
    PROVE  Seq(S) \subseteq P
<1> SUFFICES ASSUME NEW z \in Seq(S), z \notin P PROVE FALSE
    OBVIOUS
<1> DEFINE C == {Len(s) : s \in {u \in Seq(S) : u \notin P}}
<1>1. C \subseteq Nat /\ C # {}
  <2>1. Len(z) \in C
      OBVIOUS
  <2>2. C \subseteq Nat
      OBVIOUS
  <2> QED BY <2>1, <2>2
<1>2. PICK n \in C : \A m \in C : n <= m
    BY <1>1, Least
<1>3. PICK s \in Seq(S) : s \notin P /\ n = Len(s)
    BY <1>2
<1>4. n # 0 /\ n \in Nat
    BY <1>3
<1> DEFINE u == SubSeq(s, 1, n - 1)
<1>5. u \in Seq(S) /\ s[n] \in S /\ Append(u, s[n]) = s /\ Len(u) = n - 1
    BY <1>3, <1>4
<1>6. u \in P
  <2>1. ~(n <= n - 1)
      BY <1>4
  <2>2. n - 1 \notin C
      BY <1>2, <2>1, Zenon
  <2> HIDE DEF u
  <2> QED BY <1>5, <2>2
<1> QED BY <1>3, <1>5, <1>6

LEMMA RangeAppend ==
    ASSUME NEW S, NEW s \in Seq(S), NEW x \in S
    PROVE  Range(Append(s, x)) = Range(s) \cup {x}
<1>1. /\ DOMAIN Append(s, x) = 1 .. Len(s) + 1 /\ DOMAIN s = 1 .. Len(s)
      /\ \A i \in 1 .. Len(s) : Append(s, x)[i] = s[i]
      /\ Append(s, x)[Len(s) + 1] = x
    OBVIOUS
<1> QED BY <1>1 DEF Range

LEMMA FilterFacts ==
    ASSUME NEW S, NEW T, NEW s \in Seq(S)
    PROVE  /\ Filter(s, T) \in Seq(S) /\ Len(Filter(s, T)) <= Len(s)
           /\ Range(Filter(s, T)) = Range(s) \cap T
           /\ Range(s) \subseteq T => Filter(s, T) = s
           /\ Range(s) \cap T = {} => Filter(s, T) = <<>>
<1> DEFINE Good(u) == /\ Filter(u, T) \in Seq(S) /\ Len(Filter(u, T)) <= Len(u)
                      /\ Range(Filter(u, T)) = Range(u) \cap T
                      /\ Range(u) \subseteq T => Filter(u, T) = u
                      /\ Range(u) \cap T = {} => Filter(u, T) = <<>>
           P == {u \in Seq(S) : Good(u)}
<1>1. <<>> \in P
  <2>1. <<>> \in Seq(S) /\ Len(<<>>) <= Len(<<>>)
      OBVIOUS
  <2>2. Range(<<>>) = {}
      BY DEF Range
  <2>3. Filter(<<>>, T) = <<>>
      BY FilterEmpty
  <2>4. Good(<<>>)
      BY <2>1, <2>2, <2>3
  <2> QED BY <2>1, <2>4
<1>2. ASSUME NEW u \in Seq(S), u \in P, NEW x \in S PROVE Append(u, x) \in P
  <2>1. Filter(Append(u, x), T) = IF x \in T THEN Append(Filter(u, T), x) ELSE Filter(u, T)
      BY FilterAppend
  <2>2. Good(u)
      BY <1>2
  <2>3. Range(Append(u, x)) = Range(u) \cup {x}
      BY RangeAppend
  <2>4. x \in T => Range(Append(Filter(u, T), x)) = Range(Filter(u, T)) \cup {x}
      BY <2>2, RangeAppend
  <2>5. Append(u, x) \in Seq(S) /\ Len(Append(u, x)) = Len(u) + 1 /\ Len(u) \in Nat
      OBVIOUS
  <2>6. CASE x \in T
    <3>1. Append(Filter(u, T), x) \in Seq(S) /\ Len(Append(Filter(u, T), x)) <= Len(u) + 1
        BY <2>2
    <3> QED BY <3>1, <2>1, <2>2, <2>3, <2>4, <2>5, <2>6
  <2>7. CASE x \notin T
      BY <2>1, <2>2, <2>3, <2>5, <2>7
  <2> QED BY <2>6, <2>7
<1> HIDE DEF P
<1>3. Seq(S) \subseteq P
    BY <1>1, <1>2, ListInduction
<1> QED BY <1>3 DEF P

LEMMA FilterConcat ==
    ASSUME NEW S, NEW T, NEW s \in Seq(S), NEW t \in Seq(S)
    PROVE  Filter(s \o t, T) = Filter(s, T) \o Filter(t, T)
<1> DEFINE P == {u \in Seq(S) : Filter(s \o u, T) = Filter(s, T) \o Filter(u, T)}
<1>0. Filter(s, T) \in Seq(S)
    BY FilterFacts
<1>1. <<>> \in P
    BY FilterEmpty, <1>0
<1>2. ASSUME NEW u \in Seq(S), u \in P, NEW x \in S PROVE Append(u, x) \in P
  <2>1. Filter(Append(u, x), T) = IF x \in T THEN Append(Filter(u, T), x) ELSE Filter(u, T)
      BY FilterAppend
  <2>2. s \o Append(u, x) = Append(s \o u, x) /\ s \o u \in Seq(S)
      OBVIOUS
  <2>3. Filter(Append(s \o u, x), T) =
          IF x \in T THEN Append(Filter(s \o u, T), x) ELSE Filter(s \o u, T)
    <3> DEFINE v == s \o u
    <3>1. v \in Seq(S)
        BY <2>2
    <3> HIDE DEF v, P
    <3>2. Filter(Append(v, x), T) = IF x \in T THEN Append(Filter(v, T), x) ELSE Filter(v, T)
        BY <3>1, FilterAppend
    <3> QED BY <3>2 DEF v
  <2>4. Filter(u, T) \in Seq(S) /\ Filter(s \o u, T) = Filter(s, T) \o Filter(u, T)
      BY <1>2, FilterFacts
  <2>5. Filter(s, T) \o Append(Filter(u, T), x) = Append(Filter(s, T) \o Filter(u, T), x)
      BY <1>0, <2>4
  <2>6. Append(u, x) \in Seq(S)
      OBVIOUS
  <2> QED BY <2>1, <2>2, <2>3, <2>4, <2>5, <2>6
<1> HIDE DEF P
<1>3. Seq(S) \subseteq P
    BY <1>1, <1>2, ListInduction
<1> QED BY <1>3 DEF P

(* Elements that occur once are listed once. *)
LEMMA FilterInjective ==
    ASSUME NEW S, NEW T, NEW s \in Seq(S),
           \A i, j \in DOMAIN s : i # j /\ s[i] \in T => s[i] # s[j]
    PROVE  IsInjective(Filter(s, T))
<1> DEFINE Once(u) == \A i, j \in DOMAIN u : i # j /\ u[i] \in T => u[i] # u[j]
           P == {u \in Seq(S) : Once(u) => IsInjective(Filter(u, T))}
<1>1. <<>> \in P
    BY FilterEmpty DEF IsInjective
<1>2. ASSUME NEW u \in Seq(S), u \in P, NEW x \in S PROVE Append(u, x) \in P
  <2> DEFINE v == Append(u, x)
  <2>0. v \in Seq(S)
      OBVIOUS
  <2> SUFFICES ASSUME Once(v) PROVE IsInjective(Filter(v, T))
      BY <2>0
  <2>1. Filter(v, T) = IF x \in T THEN Append(Filter(u, T), x) ELSE Filter(u, T)
      BY FilterAppend
  <2>2. /\ DOMAIN v = 1 .. Len(u) + 1 /\ DOMAIN u = 1 .. Len(u) /\ v[Len(u) + 1] = x
        /\ \A i \in DOMAIN u : v[i] = u[i] /\ Len(u) \in Nat
      OBVIOUS
  <2> HIDE DEF v
  <2>3. Once(u) /\ (x \in T => \A i \in DOMAIN u : u[i] # x)
      BY <2>2
  <2>4. IsInjective(Filter(u, T))
      BY <1>2, <2>3
  <2>5. CASE x \in T
    <3> DEFINE w == Filter(u, T)
    <3>1. w \in Seq(S) /\ Range(w) = Range(u) \cap T
        BY FilterFacts
    <3>2. x \notin Range(w)
        BY <3>1, <2>3, <2>5 DEF Range
    <3> HIDE DEF w
    <3>3. \A i \in 1 .. Len(w) : w[i] # x
        BY <3>1, <3>2 DEF Range
    <3>4. \A i, j \in 1 .. Len(w) : w[i] = w[j] => i = j
        BY <2>4, <3>1 DEF w, IsInjective
    <3>5. IsInjective(Append(w, x))
        BY <3>1, <3>3, <3>4 DEF IsInjective
    <3> QED BY <2>1, <2>5, <3>5 DEF w
  <2>6. CASE x \notin T
      BY <2>1, <2>4, <2>6
  <2> QED BY <2>5, <2>6
<1> HIDE DEF P
<1>3. Seq(S) \subseteq P
    BY <1>1, <1>2, ListInduction
<1> QED BY <1>3 DEF P

LEMMA LastNFacts ==
    ASSUME NEW S, NEW s \in Seq(S), NEW n \in Nat
    PROVE  /\ LastN(s, n) \in Seq(S)
           /\ Len(LastN(s, n)) = IF Len(s) <= n THEN Len(s) ELSE n
           /\ \A i \in 1 .. Len(LastN(s, n)) :
                LastN(s, n)[i] = s[Len(s) - Len(LastN(s, n)) + i]
<1>1. CASE Len(s) <= n
  BY <1>1 DEF LastN
<1>2. CASE ~(Len(s) <= n)
  BY <1>2 DEF LastN
<1> QED BY <1>1, <1>2

(* Only what is in the list matters to the test. *)
LEMMA FilterSame ==
    ASSUME NEW S, NEW T, NEW U, NEW s \in Seq(S), \A i \in DOMAIN s : s[i] \in T <=> s[i] \in U
    PROVE  Filter(s, T) = Filter(s, U)
<1> DEFINE Same(u) == \A i \in DOMAIN u : u[i] \in T <=> u[i] \in U
           P == {u \in Seq(S) : Same(u) => Filter(u, T) = Filter(u, U)}
<1>1. <<>> \in P
  BY FilterEmpty
<1>2. ASSUME NEW u \in Seq(S), u \in P, NEW x \in S PROVE Append(u, x) \in P
  <2> DEFINE v == Append(u, x)
  <2>0. v \in Seq(S)
    OBVIOUS
  <2> SUFFICES ASSUME Same(v) PROVE Filter(v, T) = Filter(v, U)
    BY <2>0
  <2>1. /\ Filter(v, T) = IF x \in T THEN Append(Filter(u, T), x) ELSE Filter(u, T)
        /\ Filter(v, U) = IF x \in U THEN Append(Filter(u, U), x) ELSE Filter(u, U)
    BY FilterAppend
  <2>2. /\ DOMAIN v = 1 .. Len(u) + 1 /\ DOMAIN u = 1 .. Len(u) /\ v[Len(u) + 1] = x
        /\ \A i \in DOMAIN u : v[i] = u[i] /\ Len(u) \in Nat
    OBVIOUS
  <2> HIDE DEF v
  <2>3. Same(u) /\ (x \in T <=> x \in U)
    BY <2>2
  <2>4. Filter(u, T) = Filter(u, U)
    BY <1>2, <2>3
  <2> QED BY <2>1, <2>3, <2>4
<1> HIDE DEF P
<1>3. Seq(S) \subseteq P
  BY <1>1, <1>2, ListInduction
<1> QED BY <1>3 DEF P

(* A list whose elements in T come first is these followed by the others. *)
LEMMA FilterSplit ==
    ASSUME NEW S, NEW T, NEW U, NEW s \in Seq(S),
           \A i \in DOMAIN s : s[i] \in U <=> s[i] \notin T,
           \A i, j \in DOMAIN s : i < j /\ s[j] \in T => s[i] \in T
    PROVE  s = Filter(s, T) \o Filter(s, U)
<1> DEFINE Parts(u) == /\ \A i \in DOMAIN u : u[i] \in U <=> u[i] \notin T
                       /\ \A i, j \in DOMAIN u : i < j /\ u[j] \in T => u[i] \in T
           P == {u \in Seq(S) : Parts(u) => u = Filter(u, T) \o Filter(u, U)}
<1>1. <<>> \in P
  <2>1. Filter(<<>>, T) = <<>> /\ Filter(<<>>, U) = <<>>
    BY FilterEmpty
  <2>2. <<>> \o <<>> = <<>> /\ <<>> \in Seq(S)
    OBVIOUS
  <2> QED BY <2>1, <2>2
<1>2. ASSUME NEW u \in Seq(S), u \in P, NEW x \in S PROVE Append(u, x) \in P
  <2> DEFINE v == Append(u, x)
  <2>0. v \in Seq(S)
    OBVIOUS
  <2> SUFFICES ASSUME Parts(v) PROVE v = Filter(v, T) \o Filter(v, U)
    BY <2>0
  <2>1. /\ Filter(v, T) = IF x \in T THEN Append(Filter(u, T), x) ELSE Filter(u, T)
        /\ Filter(v, U) = IF x \in U THEN Append(Filter(u, U), x) ELSE Filter(u, U)
    BY FilterAppend
  <2>2. /\ DOMAIN v = 1 .. Len(u) + 1 /\ DOMAIN u = 1 .. Len(u) /\ v[Len(u) + 1] = x
        /\ \A i \in DOMAIN u : v[i] = u[i] /\ Len(u) \in Nat
    OBVIOUS
  <2> HIDE DEF v
  <2>3. Parts(u) /\ (x \in U <=> x \notin T) /\ (x \in T => \A i \in DOMAIN u : u[i] \in T)
    BY <2>2
  <2>4. u = Filter(u, T) \o Filter(u, U)
    BY <1>2, <2>3
  <2>5. Filter(u, T) \in Seq(S) /\ Filter(u, U) \in Seq(S)
    BY FilterFacts
  <2>6. CASE x \in T
    <3>1. Range(u) \subseteq T /\ Range(u) \cap U = {}
      BY <2>3, <2>6 DEF Range
    <3>2. Filter(u, T) = u /\ Filter(u, U) = <<>>
      BY <3>1, FilterFacts
    <3>3. v = v \o <<>>
      BY <2>0
    <3> QED BY <2>1, <2>3, <2>6, <3>2, <3>3 DEF v
  <2>7. CASE x \notin T
    <3>1. Filter(u, T) \o Append(Filter(u, U), x) = Append(Filter(u, T) \o Filter(u, U), x)
      BY <2>5
    <3> QED BY <2>1, <2>3, <2>4, <2>7, <3>1 DEF v
  <2> QED BY <2>6, <2>7
<1> HIDE DEF P
<1>3. Seq(S) \subseteq P
  BY <1>1, <1>2, ListInduction
<1> QED BY <1>3 DEF P

(* The list b ends with the last n elements of a, or all of them. *)
Ends(a, b, n) ==
    \A i \in 0 .. n - 1 : i < Len(a) => i < Len(b) /\ a[Len(a) - i] = b[Len(b) - i]

LEMMA EndsIsSuffix ==
    ASSUME NEW S, NEW a \in Seq(S), NEW b \in Seq(S), NEW n \in Nat
    PROVE  Ends(a, b, n) <=> IsSuffix(LastN(a, n), b)
<1> DEFINE c == LastN(a, n)
<1>1. /\ c \in Seq(S) /\ Len(c) = IF Len(a) <= n THEN Len(a) ELSE n
      /\ \A i \in 1 .. Len(c) : c[i] = a[Len(a) - Len(c) + i]
  BY LastNFacts
<1> HIDE DEF c
<1> DEFINE rc == Reverse(c)
           rb == Reverse(b)
<1>2. /\ rc \in Seq(S) /\ Len(rc) = Len(c) /\ \A i \in 1 .. Len(c) : rc[i] = c[Len(c) - i + 1]
      /\ rb \in Seq(S) /\ Len(rb) = Len(b) /\ \A i \in 1 .. Len(b) : rb[i] = b[Len(b) - i + 1]
  BY <1>1 DEF Reverse
<1>3. IsSuffix(c, b) <=>
        Len(rc) <= Len(rb) /\ SubSeq(rc, 1, Len(rc)) = SubSeq(rb, 1, Len(rc))
  BY Zenon DEF IsSuffix, IsPrefix
<1> HIDE DEF rc, rb
<1>3a. Len(a) \in Nat /\ Len(b) \in Nat /\ Len(c) \in Nat
  BY <1>1
<1>4. IsSuffix(c, b) <=> Len(c) <= Len(b) /\ \A i \in 1 .. Len(c) : rc[i] = rb[i]
  <2>1. ASSUME Len(rc) <= Len(rb)
        PROVE  /\ SubSeq(rc, 1, Len(rc)) = [i \in 1 .. Len(rc) |-> rc[i]]
               /\ SubSeq(rb, 1, Len(rc)) = [i \in 1 .. Len(rc) |-> rb[i]]
    BY <1>2, <2>1
  <2>2. Len(rc) <= Len(rb) =>
          (SubSeq(rc, 1, Len(rc)) = SubSeq(rb, 1, Len(rc)) <=> \A i \in 1 .. Len(rc) : rc[i] = rb[i])
    BY <2>1, Zenon
  <2> QED BY <1>2, <1>3, <2>2
<1>5. ASSUME Ends(a, b, n) PROVE IsSuffix(c, b)
  <2>1. \A i \in 0 .. Len(c) - 1 : i \in 0 .. n - 1 /\ i < Len(a)
    BY <1>1
  <2>2. \A i \in 0 .. Len(c) - 1 : i < Len(b) /\ a[Len(a) - i] = b[Len(b) - i]
    BY <1>5, <2>1 DEF Ends
  <2>3. Len(c) <= Len(b)
    <3>1. CASE Len(c) = 0
      BY <3>1, <1>1
    <3>2. CASE Len(c) # 0
      <4>1. Len(c) - 1 \in 0 .. Len(c) - 1
        BY <1>1, <3>2
      <4> QED BY <4>1, <2>2, <1>1
    <3> QED BY <3>1, <3>2
  <2>4. ASSUME NEW i \in 1 .. Len(c) PROVE rc[i] = rb[i]
    <3>1. i - 1 \in 0 .. Len(c) - 1 /\ Len(c) - i + 1 \in 1 .. Len(c) /\ i \in 1 .. Len(b)
      BY <1>1, <2>3
    <3>2. a[Len(a) - (i - 1)] = b[Len(b) - (i - 1)]
      BY <2>2, <3>1
    <3>3. rc[i] = a[Len(a) - Len(c) + (Len(c) - i + 1)]
      BY <1>1, <1>2, <3>1
    <3>4. /\ Len(a) - Len(c) + (Len(c) - i + 1) = Len(a) - (i - 1)
          /\ Len(b) - i + 1 = Len(b) - (i - 1)
      BY <1>3a
    <3> QED BY <1>2, <3>1, <3>2, <3>3, <3>4
  <2> QED BY <1>4, <2>3, <2>4
<1>6. ASSUME IsSuffix(c, b) PROVE Ends(a, b, n)
  <2> SUFFICES ASSUME NEW i \in 0 .. n - 1, i < Len(a)
               PROVE  i < Len(b) /\ a[Len(a) - i] = b[Len(b) - i]
    BY DEF Ends
  <2>1. i + 1 \in 1 .. Len(c) /\ Len(c) - (i + 1) + 1 \in 1 .. Len(c)
    BY <1>1
  <2>2. i < Len(b) /\ i + 1 \in 1 .. Len(b)
    BY <1>1, <1>4, <1>6, <2>1
  <2>3. rc[i + 1] = c[Len(c) - (i + 1) + 1] /\ rb[i + 1] = b[Len(b) - (i + 1) + 1]
    BY <1>2, <2>1, <2>2
  <2>4. c[Len(c) - (i + 1) + 1] = a[Len(a) - Len(c) + (Len(c) - (i + 1) + 1)]
    BY <1>1, <2>1
  <2>5. /\ Len(a) - Len(c) + (Len(c) - (i + 1) + 1) = Len(a) - i
        /\ Len(b) - (i + 1) + 1 = Len(b) - i
    BY <1>1
  <2> QED BY <1>4, <1>6, <2>1, <2>2, <2>3, <2>4, <2>5
<1> QED BY <1>5, <1>6 DEF c

LEMMA EndsConcat ==
    ASSUME NEW S, NEW a \in Seq(S), NEW b \in Seq(S), NEW c \in Seq(S), NEW n \in Nat,
           Ends(a, b, n)
    PROVE  Ends(a \o c, LastN(b \o c, n), n)
<1> DEFINE ac == a \o c
           bc == b \o c
           l  == LastN(bc, n)
<1>1. /\ ac \in Seq(S) /\ Len(ac) = Len(a) + Len(c) /\ bc \in Seq(S) /\ Len(bc) = Len(b) + Len(c)
      /\ \A i \in 1 .. Len(ac) : ac[i] = IF i <= Len(a) THEN a[i] ELSE c[i - Len(a)]
      /\ \A i \in 1 .. Len(bc) : bc[i] = IF i <= Len(b) THEN b[i] ELSE c[i - Len(b)]
  OBVIOUS
<1> HIDE DEF ac, bc
<1>2. /\ l \in Seq(S) /\ Len(l) = IF Len(bc) <= n THEN Len(bc) ELSE n
      /\ \A i \in 1 .. Len(l) : l[i] = bc[Len(bc) - Len(l) + i]
  <2>1. bc \in Seq(S)
    BY <1>1
  <2> QED BY <2>1, LastNFacts
<1> HIDE DEF l
<1> SUFFICES ASSUME NEW i \in 0 .. n - 1, i < Len(ac)
             PROVE  i < Len(l) /\ ac[Len(ac) - i] = l[Len(l) - i]
  BY DEF Ends, ac, bc, l
<1>3. i < Len(bc) /\ ac[Len(ac) - i] = bc[Len(bc) - i]
  <2>1. CASE i < Len(c)
    <3> DEFINE p == Len(ac) - i
               q == Len(bc) - i
    <3>1. /\ p \in 1 .. Len(ac) /\ ~(p <= Len(a)) /\ p - Len(a) = Len(c) - i
          /\ q \in 1 .. Len(bc) /\ ~(q <= Len(b)) /\ q - Len(b) = Len(c) - i
      BY <1>1, <2>1
    <3> HIDE DEF p, q
    <3>2. ac[p] = c[p - Len(a)] /\ bc[q] = c[q - Len(b)]
      BY <1>1, <3>1
    <3>3. i < Len(bc)
      BY <1>1, <2>1
    <3> QED BY <3>1, <3>2, <3>3 DEF p, q
  <2>2. CASE ~(i < Len(c))
    <3> DEFINE k == i - Len(c)
    <3>1. k \in 0 .. n - 1 /\ k < Len(a)
      BY <1>1, <2>2
    <3>2. k < Len(b) /\ a[Len(a) - k] = b[Len(b) - k]
      BY <3>1 DEF Ends
    <3>3. /\ Len(ac) - i \in 1 .. Len(ac) /\ Len(ac) - i <= Len(a) /\ Len(ac) - i = Len(a) - k
          /\ Len(bc) - i \in 1 .. Len(bc) /\ Len(bc) - i <= Len(b) /\ Len(bc) - i = Len(b) - k
      BY <1>1, <2>2, <3>1, <3>2
    <3> HIDE DEF k
    <3>4. ac[Len(ac) - i] = a[Len(a) - k]
      BY <1>1, <3>3
    <3>5. bc[Len(bc) - i] = b[Len(b) - k]
      BY <1>1, <3>3
    <3> QED BY <3>2, <3>3, <3>4, <3>5, <1>1
  <2> QED BY <2>1, <2>2
<1>4. i < Len(l) /\ Len(l) - i \in 1 .. Len(l) /\ Len(bc) - Len(l) + (Len(l) - i) = Len(bc) - i
  BY <1>1, <1>2, <1>3
<1> QED BY <1>2, <1>3, <1>4

LEMMA EndsDrop ==
    ASSUME NEW S, NEW a \in Seq(S), NEW x \in Seq(S), NEW b \in Seq(S), NEW n \in Nat,
           Ends(x \o a, b, n)
    PROVE  Ends(a, b, n)
<1> DEFINE xa == x \o a
<1>1. /\ Len(xa) = Len(x) + Len(a)
      /\ \A i \in 1 .. Len(xa) : xa[i] = IF i <= Len(x) THEN x[i] ELSE a[i - Len(x)]
  OBVIOUS
<1> HIDE DEF xa
<1> SUFFICES ASSUME NEW i \in 0 .. n - 1, i < Len(a)
             PROVE  i < Len(b) /\ a[Len(a) - i] = b[Len(b) - i]
  BY DEF Ends
<1>2. /\ i < Len(xa) /\ Len(xa) - i \in 1 .. Len(xa) /\ Len(xa) - i > Len(x)
      /\ Len(xa) - i - Len(x) = Len(a) - i
  BY <1>1
<1>3. i < Len(b) /\ xa[Len(xa) - i] = b[Len(b) - i]
  BY <1>2 DEF Ends, xa
<1>4. xa[Len(xa) - i] = a[Len(a) - i]
  BY <1>1, <1>2
<1> QED BY <1>3, <1>4

-----------------------------------------------------------------------------
(* Every offset and every key event of an incident lies within it; each has  *)
(* n of them and lasts d milliseconds.                                       *)
Log(inc, n, d) ==
    /\ DOMAIN inc.offsets = 1 .. n /\ Len(inc.offsets) = n
    /\ inc.durationMs = d /\ inc.keys \subseteq 0 .. d
    /\ \A i \in 1 .. n : inc.offsets[i] \in 0 .. d

LEMMA Logs == Log(Inc001, 14, 1240) /\ Log(Inc002, 8, 980) /\ Log(Inc003, 8, 640)
<1>1. Log(Inc001, 14, 1240)
  BY DEF Log, Inc001
<1>2. Log(Inc002, 8, 980)
  BY DEF Log, Inc002
<1>3. Log(Inc003, 8, 640)
  BY DEF Log, Inc003
<1> QED BY <1>1, <1>2, <1>3

LEMMA Incidents ==
    ASSUME NEW inc \in INCIDENTS
    PROVE  \E n \in Nat \ {0} : \E d \in Nat : d >= 640 /\ Log(inc, n, d)
<1>1. CASE inc = Inc001
  <2>1. Log(inc, 14, 1240)
    BY <1>1, Logs
  <2> WITNESS 14 \in Nat \ {0}
  <2> WITNESS 1240 \in Nat
  <2> QED BY <2>1
<1>2. CASE inc = Inc002
  <2>1. Log(inc, 8, 980)
    BY <1>2, Logs
  <2> WITNESS 8 \in Nat \ {0}
  <2> WITNESS 980 \in Nat
  <2> QED BY <2>1
<1>3. CASE inc = Inc003
  <2>1. Log(inc, 8, 640)
    BY <1>3, Logs
  <2> WITNESS 8 \in Nat \ {0}
  <2> WITNESS 640 \in Nat
  <2> QED BY <2>1
<1> QED BY <1>1, <1>2, <1>3, Zenon DEF INCIDENTS

LEMMA IncidentFacts ==
    ASSUME NEW inc \in INCIDENTS
    PROVE  /\ inc.durationMs \in Nat /\ inc.durationMs >= 640
           /\ inc.keys \subseteq 0 .. inc.durationMs
           /\ Points(inc) \subseteq 0 .. inc.durationMs
<1>1. PICK n \in Nat \ {0} : \E d \in Nat : d >= 640 /\ Log(inc, n, d)
  BY Incidents
<1>2. PICK d \in Nat : d >= 640 /\ Log(inc, n, d)
  BY <1>1
<1>3. Range(inc.offsets) \subseteq 0 .. d
  BY <1>2 DEF Range, Log
<1> QED BY <1>2, <1>3 DEF Points, Log

(* A step goes to the offset of an event. *)
LEMMA StepTargetWithin ==
    ASSUME NEW inc \in INCIDENTS, NEW ms, NEW dir \in {1, -1}
    PROVE  StepTarget(inc, ms, dir) \in 0 .. inc.durationMs
<1> DEFINE cur    == Cardinality(visibleEvents(inc, ms))
           target == cur + dir - (IF dir = -1 THEN 1 ELSE 0)
           last   == Len(inc.offsets) - 1
           place  == 1 + (IF target < 0 THEN 0 ELSE IF target > last THEN last ELSE target)
<1>0. PICK n \in Nat \ {0} : \E d \in Nat : d >= 640 /\ Log(inc, n, d)
  BY Incidents
<1>1. PICK d \in Nat : Log(inc, n, d)
  BY <1>0
<1>2. IsFiniteSet(1 .. n)
  BY FS_Interval
<1>3. cur \in Nat
  BY <1>1, <1>2, FS_Subset, FS_CardinalityType DEF visibleEvents, Log
<1> HIDE DEF cur
<1>4. target \in Int
  BY <1>3
<1> HIDE DEF target
<1>5. place \in 1 .. n
  BY <1>1, <1>4 DEF Log
<1>6. StepTarget(inc, ms, dir) = inc.offsets[place]
  BY Zenon DEF StepTarget, place, last, target, cur
<1> QED BY <1>1, <1>5, <1>6 DEF Log

(* The arrow keys go to 0 or to 18, wherever the page is. *)
LEMMA ArrowWithin ==
    ASSUME NEW dir \in {1, -1}
    PROVE  StepTarget(Inc001, 0, dir) \in {0, 18}
<1>1. \A i \in 1 .. 14 : Inc001.offsets[i] <= 0 <=> i = 1
  BY DEF Inc001
<1>2. DOMAIN Inc001.offsets = 1 .. 14 /\ Len(Inc001.offsets) = 14
  BY DEF Inc001
<1>3. Cardinality(visibleEvents(Inc001, 0)) = 1
  <2>1. visibleEvents(Inc001, 0) = { i \in 1 .. 14 : Inc001.offsets[i] <= 0 }
    BY <1>2, Zenon DEF visibleEvents
  <2>2. visibleEvents(Inc001, 0) = {1}
    BY <1>1, <2>1
  <2> QED BY <2>2, FS_Singleton
<1>4. Inc001.offsets[1] = 0 /\ Inc001.offsets[3] = 18
  BY DEF Inc001
<1> DEFINE cur    == Cardinality(visibleEvents(Inc001, 0))
           target == cur + dir - (IF dir = -1 THEN 1 ELSE 0)
           last   == Len(Inc001.offsets) - 1
           place  == 1 + (IF target < 0 THEN 0 ELSE IF target > last THEN last ELSE target)
<1>5. StepTarget(Inc001, 0, dir) = Inc001.offsets[place]
  BY Zenon DEF StepTarget
<1>6. cur = 1 /\ last = 13
  BY <1>2, <1>3
<1> HIDE DEF cur, last
<1>7. place \in {1, 3}
  BY <1>6
<1> HIDE DEF place
<1> QED BY <1>4, <1>5, <1>7

(* With the default injections every incident fails as it did. *)
LEMMA DefaultFails == \A inc \in INCIDENTS : ~outcomeFlips(inc, DEFAULT_INJECTIONS)
  BY DEF INCIDENTS, Inc001, Inc002, Inc003, outcomeFlips, DEFAULT_INJECTIONS

(* Stopping at a place within the incident. *)
LEMMA MoveWithin ==
    ASSUME ReplayInv, NEW ms \in 0 .. incident.durationMs, MoveTo(ms)
    PROVE  ReplayInv'
  BY DEF ReplayInv, ReplayConsistent, MoveTo, injIsModified, outcome

LEMMA ReplayStepInv ==
    ASSUME ReplayInv, ReplayStep
    PROVE  ReplayInv'
<1>0. /\ incident \in INCIDENTS /\ incident.durationMs \in Nat /\ incident.durationMs >= 640
      /\ incident.keys \subseteq 0 .. incident.durationMs
      /\ Points(incident) \subseteq 0 .. incident.durationMs
      /\ playheadMs \in 0 .. incident.durationMs
  BY IncidentFacts DEF ReplayInv, ReplayConsistent
<1>1. CASE tick
  BY <1>0, <1>1 DEF tick, ReplayInv, ReplayConsistent, injIsModified, outcome
<1>2. CASE handlePlay
  BY <1>0, <1>2 DEF handlePlay, ReplayInv, ReplayConsistent, injIsModified, outcome
<1>3. CASE handlePause
  BY <1>0, <1>3 DEF handlePause, ReplayInv, ReplayConsistent, injIsModified, outcome
<1>4. CASE handleReset
  BY <1>0, <1>4, MoveWithin DEF handleReset
<1>5. CASE handleScrub
  BY <1>0, <1>5, MoveWithin DEF handleScrub
<1>6. CASE handleMarkerClick
  BY <1>0, <1>6, MoveWithin DEF handleMarkerClick
<1>7. CASE SetInjections
  <2>1. UNCHANGED <<incident, playing, playheadMs>>
    BY <1>7 DEF SetInjections
  <2>2. ~injIsModified' => outcome' = "FAILED"
    BY <1>0, <2>1, DefaultFails DEF injIsModified, outcome
  <2> QED BY <2>1, <2>2 DEF ReplayInv, ReplayConsistent
<1>8. ASSUME NEW inc \in INCIDENTS, handleSelectIncident(inc)
      PROVE  ReplayInv'
  BY <1>8, IncidentFacts, DefaultFails
     DEF handleSelectIncident, ReplayInv, ReplayConsistent, injIsModified, outcome
<1>9. ASSUME NEW dir \in {1, -1}, handleStep(dir)
      PROVE  ReplayInv'
  BY <1>0, <1>9, StepTargetWithin, MoveWithin DEF handleStep
<1>10. ASSUME NEW dir \in {1, -1}, ArrowKey(dir)
       PROVE  ReplayInv'
  <2>1. StepTarget(Inc001, 0, dir) \in 0 .. incident.durationMs
    BY <1>0, ArrowWithin
  <2> QED BY <1>10, <2>1, MoveWithin DEF ArrowKey
<1> QED BY <1>1, <1>2, <1>3, <1>4, <1>5, <1>6, <1>7, <1>8, <1>9, <1>10 DEF ReplayStep

LEMMA ReplayStart ==
    /\ ReplayInit => ReplayInv
    /\ LeaveReplay => ReplayInv'
<1>1. Inc001 \in INCIDENTS
  BY Zenon DEF INCIDENTS
<1>2. Inc001.durationMs \in Nat /\ Inc001.durationMs >= 640
  BY <1>1, IncidentFacts
<1>3. ReplayInit => ReplayInv
  BY <1>1, <1>2, DefaultFails
     DEF ReplayInit, ReplayInv, ReplayConsistent, injIsModified, outcome
<1>4. LeaveReplay => ReplayInv'
  BY <1>1, <1>2, DefaultFails
     DEF LeaveReplay, ReplayInv, ReplayConsistent, injIsModified, outcome
<1> QED BY <1>3, <1>4

-----------------------------------------------------------------------------
(* A set of numbers from 1 to n has a largest, which is the one Max takes. *)
LEMMA MaxIsIn ==
    ASSUME NEW n \in Nat, NEW S, S \subseteq 1 .. n, NEW m \in S
    PROVE  Max(S) \in S
<1> DEFINE R == {ss \in Nat \X Nat : ss[1] < ss[2]}
           T == {n - i : i \in S}
<1>1. IsWellFoundedOn(R, Nat)
  BY NatLessThanWellFounded DEF OpToRel
<1>2. \A i \in S : i \in Int /\ i <= n /\ n - i \in Nat
  OBVIOUS
<1>3. T \subseteq Nat /\ n - m \in T
  BY <1>2
<1>4. PICK t \in T : \A u \in T : ~(<<u, t>> \in R)
  BY <1>1, <1>3, WFMin
<1>5. PICK i \in S : t = n - i
  BY <1>4
<1>6. ASSUME NEW j \in S
      PROVE  i >= j
  <2>1. n - j \in T /\ n - j \in Nat /\ t \in Nat
    BY <1>2, <1>3
  <2>2. ~(n - j < t)
    BY <1>4, <2>1
  <2> QED BY <1>2, <1>5, <2>2
<1> QED BY <1>6, Zenon DEF Max

(* The part of the assumption about the feed, as it is used. *)
LEMMA FeedTypes ==
    /\ NoTx \notin Transactions /\ Len(Feed) \in Nat /\ DOMAIN Feed = 1 .. Len(Feed)
    /\ \A i \in 1 .. Len(Feed) : Feed[i] # 0 => Event[Feed[i]].tx \in Transactions \cup {NoTx}
<1>1. /\ NoTx \notin Transactions
      /\ \A e \in DOMAIN Event : Event[e].tx \in Transactions \cup {NoTx}
      /\ Feed \in Seq(DOMAIN Event \cup {0})
  BY Zenon, GraphAssumption
<1>2. Len(Feed) \in Nat /\ DOMAIN Feed = 1 .. Len(Feed)
  BY <1>1
<1>3. \A i \in 1 .. Len(Feed) : Feed[i] \in DOMAIN Event \cup {0}
  BY <1>1, <1>2
<1> QED BY <1>1, <1>2, <1>3

(* loadCausalChain leaves what it asks for with the timer set or cancelled. *)
LEMMA LoadInv ==
    ASSUME RequestInv, NEW t \in Transactions \cup {NoTx}, NEW strict, loadCausalChain(t, strict),
           processed' \in Nat, arrived' \in 0 .. Len(Feed)
    PROVE  RequestInv'
<1>1. CASE t = NoTx \/ requested = t
  BY <1>1 DEF loadCausalChain, RequestInv, RequestedIsLive
<1>2. CASE ~(t = NoTx \/ requested = t)
  <2>1. /\ requested' = t /\ fetchTimer' \in {t, NoTx} /\ UNCHANGED fetching
        /\ fetchTimer' = t \/ cancelled' = t
    BY <1>2 DEF loadCausalChain
  <2> QED BY <2>1 DEF RequestInv, RequestedIsLive
<1> QED BY <1>1, <1>2

LEMMA ProcessInv ==
    ASSUME RequestInv, NEW newest \in 0 .. Len(Feed), NEW waiting, NEW strict,
           ProcessPending(newest, waiting, strict), arrived' = newest
    PROVE  RequestInv'
<1>1. CASE ~On("graph")' \/ graphPaused'
  <2>1. UNCHANGED <<processed, chainVars>>
    BY <1>1 DEF ProcessPending
  <2> QED BY <2>1 DEF chainVars, RequestInv, RequestedIsLive
<1>2. CASE ~(~On("graph")' \/ graphPaused')
  <2> DEFINE tagged == { i \in processed + 1 .. newest : Feed[i] # 0 /\ Event[Feed[i]].tx # NoTx }
             t      == IF tagged = {} THEN NoTx ELSE Event[Feed[Max(tagged)]].tx
  <2>1. processed' = newest /\ loadCausalChain(t, strict)
    BY <1>2 DEF ProcessPending
  <2>2. tagged \subseteq 1 .. Len(Feed) /\ Len(Feed) \in Nat
    BY FeedTypes DEF RequestInv
  <2>3. t \in Transactions \cup {NoTx}
    <3>1. CASE tagged = {}
      BY <3>1
    <3>2. CASE tagged # {}
      <4>1. Max(tagged) \in tagged
        <5> HIDE DEF tagged
        <5> QED BY <2>2, <3>2, MaxIsIn
      <4>2. Feed[Max(tagged)] # 0
        BY <4>1
      <4> HIDE DEF tagged
      <4>3. Event[Feed[Max(tagged)]].tx \in Transactions \cup {NoTx}
        BY <2>2, <4>1, <4>2, FeedTypes
      <4> QED BY <3>2, <4>3
    <3> QED BY <3>1, <3>2
  <2> HIDE DEF t
  <2> QED BY <2>1, <2>3, LoadInv
<1> QED BY <1>1, <1>2

LEMMA GraphStepInv ==
    ASSUME RequestInv, GraphStep
    PROVE  RequestInv'
<1>0. Len(Feed) \in Nat /\ arrived \in 0 .. Len(Feed) /\ NoTx \notin Transactions
  BY FeedTypes DEF RequestInv
<1>1. CASE Arrive
  <2>1. arrived + 1 \in 0 .. Len(Feed)
    BY <1>0, <1>1 DEF Arrive
  <2> QED BY <1>1, <2>1, ProcessInv DEF Arrive
<1>2. CASE PauseGraph
  BY <1>0, <1>2, ProcessInv DEF PauseGraph
<1>8. CASE RenderGraph
  BY <1>8 DEF RenderGraph, chainVars, RequestInv, RequestedIsLive
<1>3. CASE FetchTimerFires
  BY <1>0, <1>3 DEF FetchTimerFires, RequestInv, RequestedIsLive
<1>4. CASE Deselect
  BY <1>4 DEF Deselect, SetSelected, chainVars, RequestInv, RequestedIsLive
<1>5. CASE clearGraph
  BY <1>5 DEF clearGraph, RequestInv, RequestedIsLive
<1>6. ASSUME NEW t \in Transactions, FetchSettles(t)
      PROVE  RequestInv'
  <2>1. /\ fetching[t] > 0 /\ fetching' = [fetching EXCEPT ![t] = @ - 1]
        /\ UNCHANGED <<arrived, processed, fetchTimer, cancelled>>
    BY <1>6 DEF FetchSettles
  <2>2. \/ requested' = NoTx
        \/ UNCHANGED requested /\ loaded' = loaded \cup {t}
    BY <1>6 DEF FetchSettles, ChainArrives, ChainFails
  <2>3. fetching' \in [Transactions -> Nat]
    BY <2>1 DEF RequestInv
  <2>4. RequestedIsLive'
    BY <2>1, <2>2 DEF RequestInv, RequestedIsLive
  <2> QED BY <2>1, <2>2, <2>3, <2>4 DEF RequestInv
<1>7. ASSUME NEW n \in svg.nodes, SelectNode(n)
      PROVE  RequestInv'
  BY <1>7 DEF SelectNode, SetSelected, chainVars, RequestInv, RequestedIsLive
<1> QED BY <1>1, <1>2, <1>3, <1>4, <1>5, <1>6, <1>7, <1>8 DEF GraphStep

LEMMA GraphStart ==
    /\ GraphInit => RequestInv
    /\ RequestInv /\ LeaveGraph /\ (UNCHANGED arrived \/ arrived' = 0) => RequestInv'
    /\ RequestInv /\ MountGraph => RequestInv'
<1>1. GraphInit => RequestInv
  BY FeedTypes DEF GraphInit, RequestInv, RequestedIsLive
<1>2. RequestInv /\ LeaveGraph /\ (UNCHANGED arrived \/ arrived' = 0) => RequestInv'
  BY FeedTypes DEF LeaveGraph, RequestInv, RequestedIsLive
<1>3. RequestInv /\ MountGraph => RequestInv'
  BY ProcessInv DEF MountGraph, RequestInv
<1> QED BY <1>1, <1>2, <1>3

-----------------------------------------------------------------------------
(* sanitizeGraph and what it makes of any nodes and edges. *)
Before(a, b) == \/ Event[a].ts < Event[b].ts
                \/ Event[a].ts = Event[b].ts /\ a < b

LEMMA BeforeOrders ==
    ASSUME NEW a \in DOMAIN Event, NEW b \in DOMAIN Event
    PROVE  /\ ~(Before(a, b) /\ Before(b, a))
           /\ \A c \in DOMAIN Event : Before(a, b) /\ Before(b, c) => Before(a, c)
<1>1. \A e \in DOMAIN Event : Event[e].ts \in Int /\ e \in Nat
  BY GraphAssumption
<1> QED BY <1>1 DEF Before

(* Edges that all point forward lead nowhere but forward. *)
LEMMA OnlyForward ==
    ASSUME NEW ns, Range(ns) \subseteq DOMAIN Event, NEW es,
           \A e \in es : e.to \in Range(ns) /\ Before(e.from, e.to),
           NEW a \in Range(ns), NEW b \in reachable(a, ns, es), a # b
    PROVE  Before(a, b)
<1> DEFINE closed == { x \in Range(ns) : x = a \/ Before(a, x) }
<1>1. closed \in SUBSET Range(ns) /\ a \in closed
  OBVIOUS
<1>2. ASSUME NEW e \in es, e.from \in closed PROVE e.to \in closed
  <2>1. e.from = a \/ Before(a, e.from)
    BY <1>2
  <2>2. e.to \in Range(ns) /\ Before(e.from, e.to) /\ e.from \in Range(ns)
    BY <1>2
  <2>3. Before(a, e.to)
    <3>1. CASE e.from = a
      BY <2>2, <3>1
    <3>2. CASE Before(a, e.from)
      <4>1. a \in DOMAIN Event /\ e.from \in DOMAIN Event /\ e.to \in DOMAIN Event
        BY <2>2
      <4> QED BY <2>2, <3>2, <4>1, BeforeOrders
    <3> QED BY <2>1, <3>1, <3>2
  <2> QED BY <2>2, <2>3
<1>3. b \in closed
  <2> HIDE DEF closed
  <2> QED BY <1>1, <1>2 DEF reachable
<1> QED BY <1>3

(* What GraphConsistent says of the nodes and edges alone. *)
Sound(ns, es) ==
    /\ ns \in Seq(DOMAIN Event) /\ IsInjective(ns) /\ IsDirectedGraph(AsGraph(ns, es))
    /\ \A a, b \in Range(ns) : a # b =>
         ~(b \in reachable(a, ns, es) /\ a \in reachable(b, ns, es))

LEMMA ForwardIsSound ==
    ASSUME NEW ns \in Seq(DOMAIN Event), IsInjective(ns), NEW es,
           \A e \in es : {e.from, e.to} \subseteq Range(ns) /\ Before(e.from, e.to)
    PROVE  Sound(ns, es)
<1>1. Range(ns) \subseteq DOMAIN Event
  BY DEF Range
<1>2. IsDirectedGraph(AsGraph(ns, es))
  BY DEF IsDirectedGraph, AsGraph
<1>3. ASSUME NEW a \in Range(ns), NEW b \in Range(ns), a # b,
             b \in reachable(a, ns, es), a \in reachable(b, ns, es)
      PROVE  FALSE
  <2>1. Before(a, b) /\ Before(b, a)
    BY <1>1, <1>3, OnlyForward
  <2>2. a \in DOMAIN Event /\ b \in DOMAIN Event
    BY <1>1
  <2> QED BY <2>1, <2>2, BeforeOrders
<1> QED BY <1>2, <1>3 DEF Sound

(* The first occurrence of every node is what is kept. *)
Firsts(ns) == [i \in DOMAIN ns |-> IF \E j \in 1 .. i - 1 : ns[j] = ns[i] THEN 0 ELSE ns[i]]

LEMMA FirstsKept ==
    ASSUME NEW ns \in Seq(DOMAIN Event)
    PROVE  LET unique == Filter(Firsts(ns), Range(ns))
           IN  /\ unique \in Seq(DOMAIN Event) /\ IsInjective(unique)
               /\ Range(unique) = Range(ns)
<1> DEFINE fs == Firsts(ns)
           unique == Filter(fs, Range(ns))
<1>0. 0 \notin DOMAIN Event
  BY GraphAssumption
<1>1. fs \in Seq(DOMAIN Event \cup {0}) /\ DOMAIN fs = DOMAIN ns /\ DOMAIN ns = 1 .. Len(ns)
  BY DEF Firsts
<1>2. Range(ns) \subseteq DOMAIN Event
  BY DEF Range
<1>3. ASSUME NEW i \in DOMAIN ns, NEW j \in DOMAIN ns, i # j, fs[i] \in Range(ns)
      PROVE  fs[i] # fs[j]
  <2>1. fs[i] # 0
    BY <1>0, <1>2, <1>3
  <2>2. fs[i] = ns[i] /\ (fs[j] = 0 \/ fs[j] = ns[j])
    BY <2>1 DEF Firsts
  <2>3. i < j => (ns[i] = ns[j] => fs[j] = 0)
    BY <1>1 DEF Firsts
  <2>4. j < i => ns[i] # ns[j]
    BY <1>1, <2>1 DEF Firsts
  <2> QED BY <1>1, <1>3, <2>1, <2>2, <2>3, <2>4
<1>4. ASSUME NEW x \in Range(ns) PROVE x \in Range(fs)
  <2> DEFINE C == { i \in DOMAIN ns : ns[i] = x }
  <2>1. C \subseteq Nat /\ C # {}
    BY <1>1 DEF Range
  <2>2. PICK i \in C : \A k \in C : i <= k
    <3> HIDE DEF C
    <3> QED BY <2>1, Least
  <2>3. \A j \in 1 .. i - 1 : ns[j] # ns[i]
    BY <1>1, <2>2
  <2>4. fs[i] = x /\ i \in DOMAIN fs
    BY <1>1, <2>2, <2>3 DEF Firsts
  <2> QED BY <2>4 DEF Range
<1> HIDE DEF fs
<1>5. /\ unique \in Seq(DOMAIN Event \cup {0})
      /\ Range(unique) = Range(fs) \cap Range(ns)
  BY <1>1, FilterFacts
<1>6. IsInjective(unique)
  BY <1>1, <1>3, FilterInjective
<1>7. Range(unique) = Range(ns)
  BY <1>4, <1>5
<1> HIDE DEF unique
<1>8. unique \in Seq(DOMAIN Event)
  <2>1. \A i \in 1 .. Len(unique) : unique[i] \in DOMAIN Event
    <3> TAKE i \in 1 .. Len(unique)
    <3>1. unique[i] \in Range(unique)
      BY <1>5 DEF Range
    <3> QED BY <3>1, <1>2, <1>7
  <2> QED BY <1>5, <2>1
<1> QED BY <1>6, <1>7, <1>8 DEF unique, fs

(* What is kept of a list is a sound graph, and it is not empty. *)
LEMMA SanitizeSound ==
    ASSUME NEW ns \in Seq(DOMAIN Event), ns # <<>>, NEW es
    PROVE  LET safe == sanitizeGraph(ns, es)
           IN  Sound(safe.nodes, safe.edges) /\ safe.nodes # <<>>
<1> DEFINE unique == Filter(Firsts(ns), Range(ns))
           safe   == sanitizeGraph(ns, es)
           ok(i)  == /\ {es[i].from, es[i].to} \subseteq Range(ns)
                     /\ es[i].from # es[i].to
                     /\ pointsForward(es[i])
<1>1. /\ safe.nodes = unique
      /\ \A e \in safe.edges : \E i \in DOMAIN es : e = es[i] /\ ok(i)
  BY DEF sanitizeGraph, Firsts
<1>2. unique \in Seq(DOMAIN Event) /\ IsInjective(unique) /\ Range(unique) = Range(ns)
  BY FirstsKept
<1>3. \A e \in safe.edges : {e.from, e.to} \subseteq Range(ns) /\ Before(e.from, e.to)
  BY <1>1, Zenon DEF Before, pointsForward
<1>4. unique # <<>>
  <2>1. ns[1] \in Range(ns)
    BY DEF Range
  <2>2. Range(<<>>) = {}
    BY DEF Range
  <2> QED BY <1>2, <2>1, <2>2
<1> HIDE DEF unique, safe
<1>5. Sound(unique, safe.edges)
  BY <1>2, <1>3, ForwardIsSound
<1> QED BY <1>1, <1>4, <1>5 DEF safe

LEMMA GraphInvIs ==
    ASSUME Sound(nodes', edges'),
           summary' = IF nodes' = <<>> THEN EMPTY_SUMMARY ELSE analyzeDebugGraph(nodes', edges'),
           drawing' = {} => settled' = selected',
           ~overtaken' => /\ settled' = 0 \/ settled' \in Range(nodes')
                          /\ drawing' \subseteq {Rendering(nodes', edges', settled')},
           drawing' = {} /\ ~overtaken' => svg' = Rendering(nodes', edges', selected')
    PROVE  GraphInv'
  BY Zenon DEF GraphInv, QueueInv, GraphConsistent, Sound

LEMMA GraphInvThen ==
    ASSUME GraphInv
    PROVE  /\ Sound(nodes, edges)
           /\ summary = IF nodes = <<>> THEN EMPTY_SUMMARY ELSE analyzeDebugGraph(nodes, edges)
           /\ drawing = {} => settled = selected
           /\ ~overtaken => /\ settled = 0 \/ settled \in Range(nodes)
                            /\ drawing \subseteq {Rendering(nodes, edges, settled)}
           /\ drawing = {} /\ ~overtaken => svg = Rendering(nodes, edges, selected)
  BY Zenon DEF GraphInv, QueueInv, GraphConsistent, Sound

(* Whatever it is given, applyGraph keeps one graph and queues its drawing. *)
LEMMA ApplyGraphInv ==
    ASSUME NEW ns \in Seq(DOMAIN Event), ns # <<>>, NEW es, applyGraph(ns, es)
    PROVE  GraphInv'
<1> DEFINE safe == sanitizeGraph(ns, es)
<1>1. Sound(safe.nodes, safe.edges) /\ safe.nodes # <<>>
  BY SanitizeSound
<1>2. /\ nodes' = safe.nodes /\ edges' = safe.edges
      /\ summary' = analyzeDebugGraph(safe.nodes, safe.edges)
      /\ settled' = IF settled \in Range(safe.nodes) THEN settled ELSE 0
      /\ drawing' = {Rendering(safe.nodes, safe.edges, settled')}
  BY DEF applyGraph
<1> HIDE DEF safe
<1>3. settled' = 0 \/ settled' \in Range(nodes')
  BY <1>2
<1>4. Sound(nodes', edges') /\ nodes' # <<>> /\ summary' = analyzeDebugGraph(nodes', edges')
  BY <1>1, <1>2
<1>5. drawing' = {Rendering(nodes', edges', settled')} /\ drawing' # {}
  BY <1>2
<1> QED BY <1>3, <1>4, <1>5, GraphInvIs

(* What the effect on messages does if it applies no graph. *)
SameGraph(waiting) ==
    drawing' = waiting /\ UNCHANGED <<nodes, edges, summary, settled, overtaken>>

LEMMA ProcessGraph ==
    ASSUME GraphInv, RequestInv, NEW newest \in 0 .. Len(Feed), NEW waiting, NEW strict,
           ProcessPending(newest, waiting, strict)
    PROVE  GraphInv' \/ SameGraph(waiting)
<1> DEFINE events == Filter(SubSeq(Feed, processed + 1, newest), DOMAIN Event)
           new    == LastN(nodes \o events, MAX_NODES)
<1>2. ASSUME events # <<>>, applyGraph(new, inferEdges(new)) PROVE GraphInv'
  <2>1. Feed \in Seq(DOMAIN Event \cup {0}) /\ MAX_NODES \in Nat \ {0}
    BY Zenon, GraphAssumption
  <2>2. SubSeq(Feed, processed + 1, newest) \in Seq(DOMAIN Event \cup {0})
    BY <2>1 DEF RequestInv
  <2>3. /\ events \in Seq(DOMAIN Event \cup {0})
        /\ Range(events) = Range(SubSeq(Feed, processed + 1, newest)) \cap DOMAIN Event
    BY <2>2, FilterFacts
  <2> HIDE DEF events
  <2>4. events \in Seq(DOMAIN Event)
    <3>1. \A i \in 1 .. Len(events) : events[i] \in DOMAIN Event
      BY <2>3 DEF Range
    <3> QED BY <2>3, <3>1
  <2>5. nodes \o events \in Seq(DOMAIN Event) /\ Len(nodes \o events) > 0
    BY <2>4, <1>2 DEF GraphInv
  <2>6. new \in Seq(DOMAIN Event) /\ new # <<>>
    <3>1. /\ new \in Seq(DOMAIN Event)
          /\ Len(new) = IF Len(nodes \o events) <= MAX_NODES THEN Len(nodes \o events) ELSE MAX_NODES
      BY <2>1, <2>5, LastNFacts
    <3> HIDE DEF new
    <3> QED BY <2>1, <2>5, <3>1
  <2> HIDE DEF new
  <2> QED BY <1>2, <2>6, ApplyGraphInv
<1> QED BY <1>2, Zenon DEF ProcessPending, SameGraph

(* Nothing is queued, drawn or selected anew. *)
LEMMA SameInv == ASSUME GraphInv, SameGraph(drawing), UNCHANGED seenVars PROVE GraphInv'
<1>1. UNCHANGED <<nodes, edges, summary, settled, drawing, overtaken, selected, svg>>
  BY DEF SameGraph, seenVars
<1> QED BY <1>1, Zenon DEF GraphInv, QueueInv, GraphConsistent

(* A render brings the drawing and the selection up to date. *)
LEMMA RenderInv == ASSUME GraphInv, SameGraph({}), RenderQueued PROVE GraphInv'
<1>1. UNCHANGED <<nodes, edges, summary, settled, overtaken>> /\ drawing' = {} /\ selected' = settled
  BY DEF SameGraph, RenderQueued
<1>2. ASSUME ~overtaken PROVE svg' = Rendering(nodes', edges', selected')
  <2>1. CASE selected' # selected /\ nodes' # <<>>
    BY <2>1 DEF RenderQueued
  <2>2. CASE drawing = {} /\ selected' = selected
    <3>1. svg' = svg
      BY <2>2 DEF RenderQueued
    <3> QED BY <1>1, <1>2, <2>2, <3>1, GraphInvThen
  <2>3. CASE drawing # {} /\ ~(selected' # selected /\ nodes' # <<>>)
    <3>1. svg' \in drawing
      BY <2>3 DEF RenderQueued
    <3>2. drawing \subseteq {Rendering(nodes, edges, settled)}
      BY <1>2, GraphInvThen
    <3> QED BY <1>1, <3>1, <3>2
  <2>4. drawing = {} => selected' = selected
    BY <1>1, GraphInvThen
  <2> QED BY <2>1, <2>2, <2>3, <2>4
<1>3. ~overtaken' => ~overtaken
  BY <1>1, Zenon
<1>4. ~overtaken => settled = 0 \/ settled \in Range(nodes)
  BY GraphInvThen
<1>5. Sound(nodes, edges)
      /\ summary = IF nodes = <<>> THEN EMPTY_SUMMARY ELSE analyzeDebugGraph(nodes, edges)
  BY GraphInvThen
<1>6. Sound(nodes', edges')
      /\ summary' = IF nodes' = <<>> THEN EMPTY_SUMMARY ELSE analyzeDebugGraph(nodes', edges')
  BY <1>1, <1>5
<1>7. ~overtaken' => /\ settled' = 0 \/ settled' \in Range(nodes')
                     /\ drawing' \subseteq {Rendering(nodes', edges', settled')}
  BY <1>1, <1>3, <1>4
<1> QED BY <1>1, <1>2, <1>3, <1>6, <1>7, GraphInvIs, Zenon

(* A selection among the nodes drawn, with nothing queued, is drawn. *)
LEMMA SelectGraph ==
    ASSUME GraphInv, NEW now, NEW then, SetSelected(now, then),
           drawing = {} /\ ~overtaken =>
               now = then /\ now # selected /\ (now = 0 \/ now \in Range(nodes)),
           drawing = {} => now = then
    PROVE  GraphInv'
<1>1. /\ selected' = now /\ settled' = then /\ UNCHANGED <<nodes, edges, summary, drawing>>
      /\ svg' = IF selected' # selected /\ nodes # <<>> THEN Rendering(nodes, edges, selected') ELSE svg
  BY DEF SetSelected
<1>2. ~overtaken' => ~overtaken /\ drawing = {}
  BY Zenon DEF SetSelected
<1>3. drawing = {} /\ ~overtaken => nodes # <<>>
  <2>1. Range(<<>>) = {}
    BY DEF Range
  <2>2. drawing = {} /\ ~overtaken => selected = 0 \/ selected \in Range(nodes)
    BY GraphInvThen
  <2> QED BY <2>1, <2>2
<1>4. Sound(nodes', edges')
      /\ summary' = IF nodes' = <<>> THEN EMPTY_SUMMARY ELSE analyzeDebugGraph(nodes', edges')
  BY <1>1, GraphInvThen
<1>5. drawing = {} /\ ~overtaken => svg' = Rendering(nodes', edges', selected')
  BY <1>1, <1>3
<1>6. ~overtaken' => /\ settled' = 0 \/ settled' \in Range(nodes')
                     /\ drawing' \subseteq {Rendering(nodes', edges', settled')}
  BY <1>1, <1>2
<1>7. drawing' = {} => settled' = selected'
  BY <1>1
<1> QED BY <1>2, <1>4, <1>5, <1>6, <1>7, GraphInvIs, Zenon

LEMMA NothingIsSound == Sound(<<>>, {})
<1>1. <<>> \in Seq(DOMAIN Event) /\ IsInjective(<<>>) /\ Range(<<>>) = {}
  BY DEF IsInjective, Range
<1>2. IsDirectedGraph(AsGraph(<<>>, {}))
  BY DEF IsDirectedGraph, AsGraph
<1> QED BY <1>1, <1>2 DEF Sound

LEMMA NothingShown ==
    ASSUME nodes' = <<>>, edges' = {}, selected' = 0, settled' = 0, summary' = EMPTY_SUMMARY,
           svg' = Rendering(<<>>, {}, 0), ~overtaken' => drawing' = {}
    PROVE  GraphInv'
<1>1. Sound(nodes', edges')
      /\ summary' = IF nodes' = <<>> THEN EMPTY_SUMMARY ELSE analyzeDebugGraph(nodes', edges')
  BY NothingIsSound
<1>2. ~overtaken' => drawing' \subseteq {Rendering(nodes', edges', settled')}
  OBVIOUS
<1>3. svg' = Rendering(nodes', edges', selected')
  OBVIOUS
<1> QED BY <1>1, <1>2, <1>3, GraphInvIs, Zenon

LEMMA GraphStepGraph ==
    ASSUME GraphInv, RequestInv, GraphStep
    PROVE  GraphInv'
<1>0. Len(Feed) \in Nat /\ arrived \in 0 .. Len(Feed)
  BY FeedTypes DEF RequestInv
<1>1. CASE Arrive
  <2>1. arrived + 1 \in 0 .. Len(Feed)
    BY <1>0, <1>1 DEF Arrive
  <2>2. ProcessPending(arrived + 1, {}, FALSE) /\ RenderQueued
    BY <1>1 DEF Arrive
  <2> QED BY <2>1, <2>2, ProcessGraph, RenderInv
<1>2. CASE PauseGraph
  <2>1. ProcessPending(arrived, drawing, FALSE) /\ UNCHANGED seenVars
    BY <1>2 DEF PauseGraph
  <2> QED BY <1>0, <2>1, ProcessGraph, SameInv
<1>3. CASE UNCHANGED <<graphRefs, seenVars>>
  BY <1>3, SameInv DEF graphRefs, SameGraph
<1>4. CASE Deselect
  <2>1. SetSelected(0, 0) /\ (selected # 0 \/ settled # 0)
    BY <1>4 DEF Deselect
  <2>2. drawing = {} => selected # 0
    BY <2>1, GraphInvThen
  <2> QED BY <2>1, <2>2, SelectGraph
<1>5. CASE clearGraph
  <2>1. ~overtaken' => drawing' = {}
    BY <1>5, Zenon DEF clearGraph
  <2> QED BY <1>5, <2>1, NothingShown DEF clearGraph
<1>6. ASSUME NEW t \in Transactions, FetchSettles(t), ~UNCHANGED graphRefs
      PROVE  GraphInv'
  <2>1. PICK answer \in Chains[t] : ~(Len(answer.nodes) < 2 \/ answer.edges = <<>>)
            /\ applyGraph(LastN(answer.nodes, MAX_NODES), answer.edges)
    BY <1>6 DEF FetchSettles, ChainArrives, ChainFails
  <2>2. answer.nodes \in Seq(DOMAIN Event) /\ MAX_NODES \in Nat \ {0}
    BY GraphAssumption
  <2> DEFINE new == LastN(answer.nodes, MAX_NODES)
  <2>3. new \in Seq(DOMAIN Event) /\ new # <<>>
    <3>1. /\ new \in Seq(DOMAIN Event)
          /\ Len(new) = IF Len(answer.nodes) <= MAX_NODES THEN Len(answer.nodes) ELSE MAX_NODES
      BY <2>2, LastNFacts
    <3> HIDE DEF new
    <3> QED BY <2>1, <2>2, <3>1
  <2> HIDE DEF new
  <2> QED BY <2>1, <2>3, ApplyGraphInv DEF new
<1>7. ASSUME NEW n \in svg.nodes, SelectNode(n)
      PROVE  GraphInv'
  <2> DEFINE toggle(prev) == IF prev = n THEN 0 ELSE n
  <2>1. SetSelected(toggle(selected), toggle(settled))
    BY <1>7 DEF SelectNode
  <2>2. ASSUME drawing = {}, ~overtaken
        PROVE  /\ toggle(selected) # selected
               /\ toggle(selected) = 0 \/ toggle(selected) \in Range(nodes)
    <3>1. svg.nodes = Range(nodes)
      BY <2>2, GraphInvThen DEF Rendering
    <3>2. n \in DOMAIN Event
      BY <3>1 DEF Range, GraphInv
    <3>3. n # 0
      BY <3>2, GraphAssumption
    <3> QED BY <1>7, <3>1, <3>3
  <2>3. drawing = {} => toggle(selected) = toggle(settled)
    BY GraphInvThen
  <2> HIDE DEF toggle
  <2> QED BY <2>1, <2>2, <2>3, SelectGraph
<1>8. /\ FetchTimerFires => UNCHANGED <<graphRefs, seenVars>>
      /\ \A t \in Transactions : FetchSettles(t) => UNCHANGED seenVars
  BY DEF FetchTimerFires, FetchSettles
<1>9. CASE RenderGraph
  BY <1>9, RenderInv DEF RenderGraph, SameGraph
<1> QED BY <1>1, <1>2, <1>3, <1>4, <1>5, <1>6, <1>7, <1>8, <1>9 DEF GraphStep

LEMMA GraphStartGraph ==
    /\ GraphInit => GraphInv
    /\ LeaveGraph => GraphInv'
    /\ GraphInv /\ RequestInv /\ MountGraph => GraphInv'
<1>1. GraphInit => GraphInv
  BY NothingIsSound DEF GraphInit, GraphInv, QueueInv, GraphConsistent, Sound
<1>2. LeaveGraph => GraphInv'
  BY NothingShown DEF LeaveGraph
<1>3. ASSUME GraphInv, RequestInv, MountGraph PROVE GraphInv'
  <2>1. PICK strict \in BOOLEAN : ProcessPending(arrived, drawing, strict)
    BY <1>3 DEF MountGraph
  <2>2. arrived \in 0 .. Len(Feed)
    BY <1>3 DEF RequestInv
  <2>3. CASE SameGraph(drawing)
    <3>1. UNCHANGED <<nodes, edges, summary, settled, overtaken, drawing, selected>>
      BY <1>3, <2>3 DEF SameGraph, MountGraph
    <3>2. drawing = {} /\ ~overtaken => svg = Rendering(nodes, edges, selected)
      BY <1>3, GraphInvThen
    <3>3. drawing = {} /\ ~overtaken => svg' = svg
      BY <1>3, <3>1, <3>2 DEF MountGraph
    <3> QED BY <1>3, <3>1, <3>3, Zenon DEF GraphInv, QueueInv, GraphConsistent
  <2> QED BY <1>3, <2>1, <2>2, <2>3, ProcessGraph
<1> QED BY <1>1, <1>2, <1>3

-----------------------------------------------------------------------------
(* What the requests under way become: one more or one less. *)
LEMMA AppendOne ==
    ASSUME NEW S, NEW q \in Seq(S), NEW e \in S
    PROVE  /\ Append(q, e) \in Seq(S) /\ Append(q, e) # <<>>
           /\ q = <<>> => Len(Append(q, e)) = 1 /\ Append(q, e)[1] = e
  OBVIOUS

LEMMA RemoveOne ==
    ASSUME NEW S, NEW q \in Seq(S), NEW i \in DOMAIN q
    PROVE  /\ RemoveAt(q, i) \in Seq(S) /\ Len(RemoveAt(q, i)) = Len(q) - 1
           /\ Len(q) <= 1 => RemoveAt(q, i) = <<>> /\ i = 1
<1>1. /\ Len(q) \in Nat /\ i \in 1 .. Len(q)
      /\ SubSeq(q, 1, i - 1) \in Seq(S) /\ Len(SubSeq(q, 1, i - 1)) = i - 1
      /\ SubSeq(q, i + 1, Len(q)) \in Seq(S) /\ Len(SubSeq(q, i + 1, Len(q))) = Len(q) - i
  BY SubSeqProperties, LenProperties
<1>2. RemoveAt(q, i) \in Seq(S) /\ Len(RemoveAt(q, i)) = Len(q) - 1
  <2> DEFINE a == SubSeq(q, 1, i - 1)
             b == SubSeq(q, i + 1, Len(q))
  <2>1. RemoveAt(q, i) = a \o b
    BY Zenon DEF RemoveAt
  <2> HIDE DEF a, b
  <2>2. a \o b \in Seq(S) /\ Len(a \o b) = (i - 1) + (Len(q) - i)
    BY <1>1, ConcatProperties DEF a, b
  <2>3. (i - 1) + (Len(q) - i) = Len(q) - 1
    BY <1>1
  <2> QED BY <2>1, <2>2, <2>3
<1>3. Len(q) <= 1 => RemoveAt(q, i) = <<>> /\ i = 1
  BY <1>1, <1>2, EmptySeq
<1> QED BY <1>2, <1>3

(* A copy that is stored is the one loaded. *)
LEMMA OneStored == \A v : (CHOOSE w \in {v} : TRUE) = v
  OBVIOUS

(* A request that is sent alone starts from copies that agree; a write has   *)
(* reached the browser's copy in the same step.                              *)
LEMMA SendInv ==
    ASSUME SettingsInv, NEW kind \in {"get", "put", "reset"}, NEW value \in Values,
           Send(kind, value), UNCHANGED server, settings' \in Values,
           kind = "get" => UNCHANGED stored,
           kind = "put" => stored' = {value},
           kind = "reset" => stored' = {} /\ value = DEFAULTS
    PROVE  SettingsInv'
<1> DEFINE r == [kind |-> kind, value |-> value, stage |-> "sent", from |-> "mounted"]
<1>1. r \in Requests
  BY DEF Requests
<1>2. /\ r.kind = kind /\ r.value = value /\ r.stage = "sent"
      /\ sent' = Append(sent, r) /\ calm' = (sent = <<>>) /\ apart' = (apart \/ sent # <<>>)
  BY DEF Send
<1> HIDE DEF r
<1>3. /\ settings \in Values /\ server \in Values /\ sent \in Seq(Requests)
      /\ calm \in BOOLEAN /\ apart \in BOOLEAN
      /\ stored = {} \/ \E v \in Values : stored = {v}
  BY DEF SettingsInv, SettingsTypeOK
<1>4. SettingsTypeOK'
  <2>1. sent' \in Seq(Requests)
    BY <1>1, <1>2, <1>3, AppendOne
  <2>2. calm' \in BOOLEAN /\ apart' \in BOOLEAN
    BY <1>2, <1>3
  <2>3. stored' = {} \/ \E v \in Values : stored' = {v}
    BY <1>3
  <2> QED BY <1>3, <2>1, <2>2, <2>3 DEF SettingsTypeOK
<1>5. CASE sent # <<>>
  BY <1>2, <1>4, <1>5 DEF SettingsInv
<1>6. CASE sent = <<>>
  <2>1. Len(sent') = 1 /\ sent'[1] = r /\ sent' # <<>>
    BY <1>1, <1>2, <1>3, <1>6, AppendOne
  <2>2. calm' /\ (apart' <=> apart)
    BY <1>2, <1>6
  <2>3. ~apart => loadFromStorage = server
    BY <1>6 DEF SettingsInv
  <2>4. kind # "get" => loadFromStorage' = value
    BY OneStored DEF loadFromStorage
  <2>5. kind = "get" => loadFromStorage' = loadFromStorage
    BY DEF loadFromStorage
  <2> QED BY <1>2, <1>4, <2>1, <2>2, <2>3, <2>4, <2>5 DEF SettingsInv
<1> QED BY <1>5, <1>6

LEMMA LeaveInv ==
    ASSUME SettingsInv, NEW heard \in BOOLEAN, LeaveSettings(heard)
    PROVE  SettingsInv'
<1>0. /\ settings' = DEFAULTS /\ UNCHANGED <<stored, server, calm>>
      /\ apart' = (apart \/ (~heard /\ sent # <<>>))
      /\ sent' = [i \in DOMAIN sent |->
                    [sent[i] EXCEPT !.from = IF heard /\ @ # "gone" THEN "left" ELSE "gone"]]
  BY DEF LeaveSettings
<1>1. /\ server \in Values /\ sent \in Seq(Requests) /\ calm \in BOOLEAN /\ apart \in BOOLEAN
      /\ stored = {} \/ \E v \in Values : stored = {v}
      /\ DEFAULTS \in Values
  BY SettingsAssumption DEF SettingsInv, SettingsTypeOK
<1>2. Len(sent) \in Nat /\ DOMAIN sent = 1 .. Len(sent)
  BY <1>1
<1>3. ASSUME NEW i \in DOMAIN sent
      PROVE  /\ sent'[i] \in Requests
             /\ sent'[i].kind = sent[i].kind /\ sent'[i].value = sent[i].value
             /\ sent'[i].stage = sent[i].stage
  <2>1. sent[i] \in Requests
    BY <1>1, <1>2, ElementOfSeq
  <2>2. sent'[i] = [sent[i] EXCEPT !.from = IF heard /\ @ # "gone" THEN "left" ELSE "gone"]
    BY <1>0
  <2> QED BY <2>1, <2>2 DEF Requests
<1>4. sent' \in Seq(Requests) /\ Len(sent') = Len(sent)
  <2>1. sent' \in [1 .. Len(sent) -> Requests]
    BY <1>0, <1>2, <1>3
  <2>2. sent' \in Seq(Requests)
    BY <1>2, <2>1, SeqDef
  <2> QED BY <1>2, <2>1, <2>2, LenProperties
<1>5. SettingsTypeOK'
  BY <1>0, <1>1, <1>4 DEF SettingsTypeOK
<1>6. sent' = <<>> <=> sent = <<>>
  BY <1>1, <1>4, EmptySeq
<1>7. sent # <<>> => 1 \in DOMAIN sent
  BY <1>1, <1>2, EmptySeq
<1>8. loadFromStorage' = loadFromStorage
  BY <1>0 DEF loadFromStorage
<1> QED BY <1>0, <1>3, <1>4, <1>5, <1>6, <1>7, <1>8 DEF SettingsInv

LEMMA ServeInv ==
    ASSUME SettingsInv, NEW i \in DOMAIN sent, Serve(i)
    PROVE  SettingsInv'
<1> DEFINE r == sent[i]
           refused == r.kind = "put" /\ r.value \in Refused
           served == [r EXCEPT !.stage = "served",
                               !.value = IF r.kind = "get" THEN server ELSE r.value]
<1>1. /\ settings \in Values /\ server \in Values /\ sent \in Seq(Requests)
      /\ calm \in BOOLEAN /\ apart \in BOOLEAN
      /\ stored = {} \/ \E v \in Values : stored = {v}
  BY DEF SettingsInv, SettingsTypeOK
<1>2. Len(sent) \in Nat /\ i \in 1 .. Len(sent) /\ r \in Requests
  BY <1>1, ElementOfSeq
<1>3. /\ server' = (IF r.kind = "get" \/ refused THEN server ELSE r.value)
      /\ apart' = (apart \/ refused)
      /\ UNCHANGED <<settings, stored, calm>>
  BY DEF Serve
<1>4. sent' = [sent EXCEPT ![i] = served]
  <2>1. sent' = [sent EXCEPT ![i].stage = "served",
                             ![i].value = IF r.kind = "get" THEN server ELSE r.value]
    BY DEF Serve
  <2> QED BY <1>1, <1>2, <2>1
<1>5. /\ served \in Requests /\ served.kind = r.kind /\ served.stage = "served"
      /\ served.value = IF r.kind = "get" THEN server ELSE r.value
  BY <1>1, <1>2 DEF Requests
<1> HIDE DEF served
<1>6. sent' \in Seq(Requests) /\ Len(sent') = Len(sent) /\ sent'[i] = served
  BY <1>1, <1>2, <1>4, <1>5, ExceptSeq
<1>7. r.value \in Values
  BY <1>2 DEF Requests
<1> HIDE DEF r
<1>8. SettingsTypeOK'
  BY <1>1, <1>3, <1>6, <1>7 DEF SettingsTypeOK
<1>9. loadFromStorage' = loadFromStorage
  BY <1>3 DEF loadFromStorage
<1>10. CASE ~calm
  BY <1>3, <1>8, <1>10 DEF SettingsInv
<1>11. CASE calm
  <2>1. i = 1 /\ Len(sent) = 1 /\ sent # <<>> /\ sent' # <<>>
    BY <1>1, <1>2, <1>6, <1>11, EmptySeq DEF SettingsInv
  <2>2. r = sent[1] /\ sent'[1] = served
    BY <1>6, <2>1 DEF r
  <2>3. ~apart => IF r.kind = "get" THEN loadFromStorage = server ELSE loadFromStorage = r.value
    BY <2>1, <2>2 DEF SettingsInv
  <2> QED BY <1>3, <1>5, <1>6, <1>8, <1>9, <1>11, <2>1, <2>2, <2>3 DEF SettingsInv
<1> QED BY <1>1, <1>10, <1>11

LEMMA SettleInv ==
    ASSUME SettingsInv, NEW i \in DOMAIN sent, Settle(i)
    PROVE  SettingsInv'
<1> DEFINE r == sent[i]
<1>1. /\ settings \in Values /\ server \in Values /\ sent \in Seq(Requests)
      /\ calm \in BOOLEAN /\ apart \in BOOLEAN
      /\ stored = {} \/ \E v \in Values : stored = {v}
  BY DEF SettingsInv, SettingsTypeOK
<1>2. Len(sent) \in Nat /\ i \in 1 .. Len(sent) /\ r \in Requests
  BY <1>1, ElementOfSeq
<1>3. r.value \in Values
  BY <1>2 DEF Requests
<1>4. sent' = RemoveAt(sent, i) /\ UNCHANGED <<server, calm>>
  BY DEF Settle
<1>5. sent' \in Seq(Requests) /\ (Len(sent) <= 1 => sent' = <<>> /\ i = 1)
  BY <1>1, <1>4, RemoveOne
<1>6. \/ /\ r.stage = "served" /\ r.kind = "get"
         /\ stored' = (IF r.from = "gone" THEN stored ELSE {r.value})
         /\ settings' = (IF r.from = "mounted" THEN r.value ELSE settings)
         /\ apart' = (IF calm /\ r.from # "gone" THEN FALSE ELSE apart)
      \/ /\ UNCHANGED <<settings, stored, apart>>
         /\ r.kind = "get" \/ r.stage = "served"
      \/ UNCHANGED <<settings, stored>> /\ apart' = TRUE
  BY DEF Settle, LoadAnswered, WriteSettled
<1> HIDE DEF r
<1>7. SettingsTypeOK'
  <2>1. settings' \in Values /\ apart' \in BOOLEAN
    BY <1>1, <1>3, <1>6
  <2>2. stored' = {} \/ \E v \in Values : stored' = {v}
    BY <1>1, <1>3, <1>6
  <2> QED BY <1>1, <1>4, <1>5, <2>1, <2>2 DEF SettingsTypeOK
<1>8. CASE ~calm
  <2>1. apart /\ apart'
    BY <1>6, <1>8 DEF SettingsInv
  <2> QED BY <1>4, <1>7, <1>8, <2>1 DEF SettingsInv
<1>9. CASE calm
  <2>1. sent' = <<>> /\ Len(sent') = 0 /\ r = sent[1] /\ sent # <<>>
    BY <1>1, <1>2, <1>5, <1>9, EmptySeq DEF SettingsInv, r
  <2>2. /\ r.kind = "get" /\ r.stage = "served" => r.value = server
        /\ ~apart /\ (r.kind = "get" \/ r.stage = "served") => loadFromStorage = server
    BY <1>9, <2>1 DEF SettingsInv
  <2>3. ~apart' => loadFromStorage' = server
    BY <1>6, <1>9, <2>2, OneStored DEF loadFromStorage
  <2> QED BY <1>4, <1>7, <1>9, <2>1, <2>3 DEF SettingsInv
<1> QED BY <1>1, <1>8, <1>9

LEMMA SettingsFrame ==
    ASSUME SettingsInv, UNCHANGED <<stored, server, sent, calm, apart>>, settings' \in Values
    PROVE  SettingsInv'
<1>1. loadFromStorage' = loadFromStorage
  BY DEF loadFromStorage
<1>2. SettingsTypeOK'
  BY DEF SettingsInv, SettingsTypeOK
<1> QED BY <1>1, <1>2 DEF SettingsInv

LEMMA SettingsStepInv ==
    ASSUME SettingsInv, SettingsStep
    PROVE  SettingsInv'
<1>0. settings \in Values /\ DEFAULTS \in Values
  BY SettingsAssumption DEF SettingsInv, SettingsTypeOK
<1>1. CASE handleSave
  BY <1>0, <1>1, SendInv DEF handleSave
<1>2. CASE handleResetSettings
  BY <1>0, <1>2, SendInv DEF handleResetSettings
<1>3. CASE SavedTimerFires
  BY <1>0, <1>3, SettingsFrame DEF SavedTimerFires
<1>4. CASE Restart
  <2>1. /\ server' = DEFAULTS /\ calm' = (sent = <<>>) /\ apart' = TRUE
        /\ UNCHANGED <<settings, stored, sent>>
    BY <1>4 DEF Restart
  <2>2. SettingsTypeOK'
    BY <1>0, <2>1 DEF SettingsInv, SettingsTypeOK
  <2>3. calm' => Len(sent') = 0 /\ sent' = <<>>
    BY <2>1
  <2>4. (calm' => Len(sent') <= 1) /\ apart'
    BY <2>1, <2>3
  <2> QED BY <2>2, <2>3, <2>4 DEF SettingsInv
<1>5. ASSUME NEW v \in Values, set(v)
      PROVE  SettingsInv'
  BY <1>5, SettingsFrame DEF set
<1>6. ASSUME NEW i \in DOMAIN sent, Serve(i) \/ Settle(i)
      PROVE  SettingsInv'
  BY <1>6, ServeInv, SettleInv
<1> QED BY <1>1, <1>2, <1>3, <1>4, <1>5, <1>6 DEF SettingsStep

LEMMA SettingsStart ==
    /\ SettingsInit => SettingsInv
    /\ SettingsInv /\ MountSettings => SettingsInv'
<1>1. SettingsInit => SettingsInv
  <2> SUFFICES ASSUME SettingsInit
               PROVE  SettingsInv
    OBVIOUS
  <2>1. /\ settings = DEFAULTS /\ stored = {} /\ server = DEFAULTS /\ sent = <<>>
        /\ calm = TRUE /\ apart = FALSE /\ DEFAULTS \in Values
    BY SettingsAssumption DEF SettingsInit
  <2>2. SettingsTypeOK
    BY <2>1, EmptySeq DEF SettingsTypeOK
  <2>3. loadFromStorage = server /\ Len(sent) = 0
    BY <2>1 DEF loadFromStorage
  <2> QED BY <2>1, <2>2, <2>3 DEF SettingsInv
<1>2. ASSUME SettingsInv, MountSettings
      PROVE  SettingsInv'
  <2>1. loadFromStorage \in Values
    <3>1. stored = {} \/ \E v \in Values : stored = {v}
      BY <1>2 DEF SettingsInv, SettingsTypeOK
    <3>2. CASE stored = {}
      BY <3>2, SettingsAssumption DEF loadFromStorage
    <3>3. ASSUME NEW v \in Values, stored = {v}
          PROVE  loadFromStorage \in Values
      BY <3>3, OneStored DEF loadFromStorage
    <3> QED BY <3>1, <3>2, <3>3
  <2>2. DEFAULTS \in Values
    BY SettingsAssumption
  <2> QED BY <1>2, <2>1, <2>2, SendInv DEF MountSettings
<1> QED BY <1>1, <1>2

-----------------------------------------------------------------------------
LEMMA InitInv == Init => IInv
  BY ReplayStart, GraphStart, GraphStartGraph, SettingsStart DEF Init, IInv

(* A page that is mounted or left. *)
LEMMA MountInv ==
    ASSUME IInv, NEW p, Mount(p)
    PROVE  IInv'
<1>1. ReplayInv'
  BY ReplayStart DEF Mount
<1>2. RequestInv' /\ GraphInv'
  BY GraphStart, GraphStartGraph DEF Mount, IInv
<1>3. SettingsInv'
  BY SettingsStart, LeaveInv DEF Mount, IInv
<1> QED BY <1>1, <1>2, <1>3 DEF IInv

LEMMA UnmountInv ==
    ASSUME IInv, NEW heard \in BOOLEAN, UnmountAll(heard)
    PROVE  IInv'
<1>1. ReplayInv'
  BY ReplayStart DEF UnmountAll
<1>2. RequestInv' /\ GraphInv'
  BY GraphStart, GraphStartGraph DEF UnmountAll, IInv
<1>3. SettingsInv'
  BY LeaveInv DEF UnmountAll, IInv
<1> QED BY <1>1, <1>2, <1>3 DEF IInv

(* A page that nothing happens to. *)
LEMMA PageFrames ==
    /\ ReplayInv /\ UNCHANGED replayVars => ReplayInv'
    /\ RequestInv /\ UNCHANGED graphVars => RequestInv'
    /\ GraphInv /\ UNCHANGED graphVars => GraphInv'
    /\ SettingsInv /\ UNCHANGED settingsVars => SettingsInv'
<1>1. ReplayInv /\ UNCHANGED replayVars => ReplayInv'
  BY DEF ReplayInv, ReplayConsistent, replayVars, injIsModified, outcome
<1>2. RequestInv /\ UNCHANGED graphVars => RequestInv'
  BY DEF RequestInv, RequestedIsLive, graphVars, chainVars
<1>3. SettingsInv /\ UNCHANGED settingsVars => SettingsInv'
  <2>1. ASSUME SettingsInv, UNCHANGED settingsVars
        PROVE  /\ UNCHANGED <<stored, server, sent, calm, apart>>
               /\ settings' \in Values
    BY <2>1 DEF SettingsInv, SettingsTypeOK, settingsVars
  <2> QED BY <2>1, SettingsFrame
<1>4. GraphInv /\ UNCHANGED graphVars => GraphInv'
  BY SameInv DEF SameGraph, graphVars, graphRefs
<1> QED BY <1>1, <1>2, <1>3, <1>4

LEMMA NextInv == IInv /\ [Next]_vars => IInv'
<1> SUFFICES ASSUME IInv, [Next]_vars
             PROVE  IInv'
  OBVIOUS
<1> USE DEF IInv
<1>1. CASE UNCHANGED <<graphVars, replayVars, settingsVars>>
  BY <1>1, PageFrames
<1>2. CASE SignIn
  BY <1>2, MountInv DEF SignIn
<1>3. CASE Move
  BY <1>3, MountInv DEF Move
<1>4. CASE SignOut
  BY <1>4, UnmountInv DEF SignOut
<1>5. CASE Close
  BY <1>5, UnmountInv DEF Close
<1>6. CASE PageStep
  <2>1. CASE GraphStep /\ UNCHANGED <<replayVars, settingsVars>>
    BY <2>1, GraphStepInv, GraphStepGraph, PageFrames
  <2>2. CASE ReplayStep /\ UNCHANGED <<graphVars, settingsVars>>
    BY <2>2, ReplayStepInv, PageFrames
  <2>3. CASE SettingsStep /\ UNCHANGED <<graphVars, replayVars>>
    BY <2>3, SettingsStepInv, PageFrames
  <2> QED BY <1>6, <2>1, <2>2, <2>3 DEF PageStep
<1>7. \/ UNCHANGED <<graphVars, replayVars, settingsVars>>
      \/ SignIn \/ Move \/ SignOut \/ Close \/ PageStep
  BY DEF Next, ConsoleStep, vars, consoleVars
<1> QED BY <1>1, <1>2, <1>3, <1>4, <1>5, <1>6, <1>7

(* The inductive invariant of the console's pages holds in every state: of   *)
(* Replay.tsx the playhead, the incident and the injections, of Graph.tsx    *)
(* the graph and the requests, of Settings.tsx and settings.go both copies.  *)
THEOREM InvCorrect == Spec => []IInv
  BY InitInv, NextInv, PTL DEF Spec

(* Whatever is pressed on the replay page, in any order and on any incident, *)
(* the playhead stays within it, what plays has something left to play, and  *)
(* the outcome without injections is the original one.                       *)
THEOREM ReplayConsistentCorrect == Spec => []ReplayConsistent
  BY InvCorrect, PTL DEF IInv, ReplayInv

(* For every feed and every answer the API may give: requestedTransactionRef *)
(* of Graph.tsx never names a transaction whose chain is neither on its way  *)
(* nor shown since, so no failure blocks a retry.  StrictMode may: it names  *)
(* the one whose timer the cleanup after a mount cleared.                    *)
THEOREM RequestedIsLiveCorrect == Spec => []RequestedIsLive
  BY InvCorrect, PTL DEF IInv, RequestInv

(* For every feed, every answer the API may give and any MAX_NODES, what     *)
(* Graph.tsx holds is one graph: distinct nodes, forward edges among them    *)
(* and hence no cycle, and the summary of exactly these.  With no drawing    *)
(* queued, and none that a click or a clear overtook since a graph was last  *)
(* applied, selection and drawing are of this graph too.                     *)
THEOREM GraphConsistentCorrect == Spec => []GraphConsistent
  BY InvCorrect, PTL DEF IInv, GraphInv

(* For any number of requests and restarts: while nothing is under way and   *)
(* nothing disturbed them, the browser's copy of the settings and that of    *)
(* the API are equal.                                                        *)
THEOREM CopiesAgreeCorrect == Spec => []CopiesAgree
<1>1. SettingsInv => CopiesAgree
  BY DEF SettingsInv, CopiesAgree
<1> QED BY InvCorrect, <1>1, PTL DEF IInv

-----------------------------------------------------------------------------
(* The connection's list: numbered without a gap, one message per key. *)
LEMMA WireFacts ==
    ASSUME wire \in Wires
    PROVE  /\ Len(wire) \in Nat /\ Events \subseteq Nat /\ MAX_MESSAGES \in Nat \ {0}
           /\ \A e \in Events : Ts(e) \in Int
<1>1. wire \in Seq(Range(wire)) /\ \A e \in DOMAIN wire : wire[e].ts \in Int
  BY ConnectionAssumption
<1>2. Len(wire) \in Nat /\ DOMAIN wire = 1 .. Len(wire)
  BY <1>1
<1>3. MAX_MESSAGES \in Nat \ {0}
  BY ConnectionAssumption
<1> QED BY <1>1, <1>2, <1>3 DEF Events, Ts

LEMMA StoredEvents ==
    ASSUME wire \in Wires, NEW k \in 0 .. Len(wire), NEW h \in Stored(k)
    PROVE  h \in Seq(Events)
<1>1. PICK p \in [1 .. k -> 1 .. k] : h = LastN(p, MAX_MESSAGES)
  BY DEF Stored
<1>2. k \in Nat /\ 1 .. k \subseteq Events /\ MAX_MESSAGES \in Nat
  BY WireFacts DEF Events
<1>3. p \in Seq(Events)
  BY <1>2
<1> QED BY <1>1, <1>2, <1>3, LastNFacts

LEMMA Greatest ==
    ASSUME NEW n \in Nat, NEW S, S \subseteq 1 .. n, S # {}
    PROVE  \E i \in S : \A j \in S : j <= i
<1> DEFINE C == {n - i : i \in S}
<1>1. C \subseteq Nat /\ C # {}
  <2>1. \A i \in S : n - i \in Nat
    OBVIOUS
  <2>2. PICK i \in S : TRUE
    OBVIOUS
  <2>3. n - i \in C
    OBVIOUS
  <2> QED BY <2>1, <2>3
<1>2. PICK c \in C : \A d \in C : c <= d
  <2> HIDE DEF C
  <2> QED BY <1>1, Least
<1>3. PICK i \in S : c = n - i
  BY <1>2
<1>4. ASSUME NEW j \in S PROVE j <= i
  <2>1. c <= n - j
    BY <1>2
  <2> QED BY <1>3, <2>1
<1> QED BY <1>4

(* One entry per key is left, whatever was combined. *)
LEMMA OrderedFacts ==
    ASSUME wire \in Wires, NEW combined \in Seq(Events), NEW ordered \in Ordered(combined)
    PROVE  /\ ordered \in Seq(Events) /\ Len(ordered) <= MAX_MESSAGES
           /\ \A i, j \in DOMAIN ordered : i # j => Key(ordered[i]) # Key(ordered[j])
<1> DEFINE len == Len(combined)
           firsts == { i \in DOMAIN combined :
                         \A j \in 1 .. i - 1 : Key(combined[j]) # Key(combined[i]) }
           isLast(i, j) == /\ Key(combined[j]) = Key(combined[i])
                           /\ \A k \in DOMAIN combined :
                                Key(combined[k]) = Key(combined[i]) => k <= j
           last(i) == combined[CHOOSE j \in DOMAIN combined : isLast(i, j)]
           before(i, j) == \/ Ts(combined[i]) < Ts(combined[j])
                           \/ Ts(combined[i]) = Ts(combined[j]) /\ i < j
<1>1. PICK q \in [1 .. Cardinality(firsts) -> firsts] :
         /\ \A m, n \in DOMAIN q : m < n => before(q[m], q[n])
         /\ ordered = LastN([n \in DOMAIN q |-> last(q[n])], MAX_MESSAGES)
  BY Zenon DEF Ordered
<1>2. DOMAIN combined = 1 .. len /\ len \in Nat /\ firsts \subseteq 1 .. len
  OBVIOUS
<1>3. Cardinality(firsts) \in Nat
  <2>1. IsFiniteSet(1 .. len)
    BY <1>2, FS_Interval
  <2> QED BY <1>2, <2>1, FS_Subset, FS_CardinalityType
<1>4. \A i \in 1 .. len : combined[i] \in Events /\ Ts(combined[i]) \in Int
  BY WireFacts
<1>5. ASSUME NEW i \in 1 .. len PROVE last(i) \in Events /\ Key(last(i)) = Key(combined[i])
  <2> DEFINE C == { j \in 1 .. len : Key(combined[j]) = Key(combined[i]) }
  <2>1. C \subseteq 1 .. len /\ C # {}
    OBVIOUS
  <2>2. PICK j \in C : \A k \in C : k <= j
    <3> HIDE DEF C
    <3> QED BY <1>2, <2>1, Greatest
  <2>3. j \in DOMAIN combined /\ isLast(i, j)
    BY <1>2, <2>2
  <2> DEFINE l == CHOOSE k \in DOMAIN combined : isLast(i, k)
  <2>4. l \in DOMAIN combined /\ isLast(i, l)
    BY <2>3, Zenon
  <2> QED BY <1>2, <1>4, <2>4
<1> DEFINE full == [n \in DOMAIN q |-> last(q[n])]
<1>6. \A m, n \in DOMAIN q : m # n => q[m] # q[n] /\ q[m] \in firsts /\ q[n] \in firsts
  <2>1. ASSUME NEW m \in DOMAIN q, NEW n \in DOMAIN q, m < n PROVE q[m] # q[n]
    <3>1. before(q[m], q[n]) /\ q[m] \in 1 .. len /\ q[n] \in 1 .. len
      BY <1>1, <1>2, <2>1
    <3> QED BY <1>4, <3>1
  <2>2. DOMAIN q = 1 .. Cardinality(firsts) /\ \A m \in DOMAIN q : q[m] \in firsts
    BY <1>1
  <2>3. \A m, n \in DOMAIN q : m # n => m < n \/ n < m
    BY <1>3, <2>2
  <2> QED BY <2>1, <2>2, <2>3, Zenon
<1>7. \A i, j \in firsts : i # j => Key(combined[i]) # Key(combined[j])
  <2>1. ASSUME NEW i \in firsts, NEW j \in firsts, i < j PROVE Key(combined[i]) # Key(combined[j])
    BY <1>2, <2>1
  <2>2. ASSUME NEW i \in firsts, NEW j \in firsts, i # j PROVE Key(combined[i]) # Key(combined[j])
    <3>1. i < j \/ j < i
      BY <1>2, <2>2
    <3> QED BY <2>1, <3>1
  <2> QED BY <2>2
<1> HIDE DEF last, firsts
<1>8. \A m \in DOMAIN q : q[m] \in 1 .. len
  BY <1>1, <1>2
<1>9. full \in Seq(Events) /\ Len(full) = Cardinality(firsts) /\ DOMAIN full = DOMAIN q
  BY <1>1, <1>3, <1>5, <1>8
<1>10. ASSUME NEW m \in DOMAIN full, NEW n \in DOMAIN full, m # n PROVE Key(full[m]) # Key(full[n])
  <2>1. Key(full[m]) = Key(combined[q[m]]) /\ Key(full[n]) = Key(combined[q[n]])
    BY <1>5, <1>8, <1>9
  <2> QED BY <1>6, <1>7, <1>9, <1>10, <2>1
<1> HIDE DEF full
<1>11. MAX_MESSAGES \in Nat
  BY WireFacts
<1>12. /\ ordered \in Seq(Events)
       /\ Len(ordered) = IF Len(full) <= MAX_MESSAGES THEN Len(full) ELSE MAX_MESSAGES
       /\ \A i \in 1 .. Len(ordered) : ordered[i] = full[Len(full) - Len(ordered) + i]
  <2>1. ordered = LastN(full, MAX_MESSAGES)
    BY <1>1 DEF full
  <2> QED BY <1>9, <1>11, <2>1, LastNFacts
<1>13. ASSUME NEW i \in DOMAIN ordered, NEW j \in DOMAIN ordered, i # j
       PROVE  Key(ordered[i]) # Key(ordered[j])
  <2> DEFINE x == Len(full) - Len(ordered) + i
             y == Len(full) - Len(ordered) + j
  <2>1. ordered[i] = full[x] /\ ordered[j] = full[y]
    BY <1>12
  <2>2. x \in DOMAIN full /\ y \in DOMAIN full /\ x # y
    BY <1>9, <1>11, <1>12, <1>13
  <2> HIDE DEF x, y
  <2> QED BY <1>10, <2>1, <2>2
<1> QED BY <1>11, <1>12, <1>13, <1>9

(* What ListInv says of the messages, of any list of them. *)
Numbered(w, msgs, seq) ==
    /\ msgs \in Seq([id : Nat, event : 1 .. Len(w)])
    /\ Len(msgs) <= MAX_MESSAGES /\ Len(msgs) <= seq
    /\ \A i \in DOMAIN msgs : msgs[i].id = seq - Len(msgs) + i
    /\ \A i, j \in DOMAIN msgs : i # j => w[msgs[i].event].key # w[msgs[j].event].key

LEMMA ListInvIs ==
    ListInv <=>
      /\ wire \in Wires /\ aired \in 0 .. Len(wire) /\ hydrated \in BOOLEAN /\ sequence \in Nat
      /\ buffered \in Seq(1 .. Len(wire)) /\ Numbered(wire, messages, sequence)
      /\ \A i \in DOMAIN messages : wire[messages[i].event].key \in seen
      /\ hydrated => mounted /\ lifecycle \notin requests
      /\ ~hydrated => sequence = 0
      /\ ~mounted => requests = {}
  BY DEF ListInv, Numbered, Events, Key, Keys, Data

LEMMA ListInvThen ==
    ListInv' <=>
      /\ wire' \in Wires /\ aired' \in 0 .. Len(wire') /\ hydrated' \in BOOLEAN /\ sequence' \in Nat
      /\ buffered' \in Seq(1 .. Len(wire')) /\ Numbered(wire', messages', sequence')
      /\ \A i \in DOMAIN messages' : wire'[messages'[i].event].key \in seen'
      /\ hydrated' => mounted' /\ lifecycle' \notin requests'
      /\ ~hydrated' => sequence' = 0
      /\ ~mounted' => requests' = {}
  BY DEF ListInv, Numbered, Events, Key, Keys, Data

LEMMA NumberedAppend ==
    ASSUME MAX_MESSAGES \in Nat \ {0}, NEW w, NEW msgs, NEW seq \in Nat, Numbered(w, msgs, seq),
           NEW e \in 1 .. Len(w), \A i \in DOMAIN msgs : w[msgs[i].event].key # w[e].key
    PROVE  Numbered(w, LastN(Append(msgs, [id |-> seq + 1, event |-> e]), MAX_MESSAGES), seq + 1)
<1> DEFINE M == [id : Nat, event : 1 .. Len(w)]
           m == [id |-> seq + 1, event |-> e]
           long == Append(msgs, m)
           next == LastN(long, MAX_MESSAGES)
<1>1. msgs \in Seq(M) /\ m \in M /\ m.id = seq + 1 /\ m.event = e
  BY DEF Numbered
<1> HIDE DEF m, M
<1>2. /\ long \in Seq(M) /\ Len(long) = Len(msgs) + 1 /\ Len(msgs) \in Nat
      /\ DOMAIN msgs = 1 .. Len(msgs)
      /\ \A i \in 1 .. Len(long) : long[i] = IF i <= Len(msgs) THEN msgs[i] ELSE m
  BY <1>1
<1> HIDE DEF long
<1>3. /\ next \in Seq(M)
      /\ Len(next) = IF Len(long) <= MAX_MESSAGES THEN Len(long) ELSE MAX_MESSAGES
      /\ \A i \in 1 .. Len(next) : next[i] = long[Len(long) - Len(next) + i]
  BY <1>2, LastNFacts
<1> HIDE DEF next
<1>4. \A i \in 1 .. Len(long) : long[i].id = seq + 1 - Len(long) + i
  <2> TAKE i \in 1 .. Len(long)
  <2>1. CASE i <= Len(msgs)
    <3>1. i \in DOMAIN msgs /\ long[i] = msgs[i]
      BY <1>2, <2>1
    <3>2. msgs[i].id = seq - Len(msgs) + i
      BY <3>1 DEF Numbered
    <3> QED BY <1>2, <3>1, <3>2
  <2>2. CASE ~(i <= Len(msgs))
    <3>1. i = Len(msgs) + 1 /\ long[i] = m
      BY <1>2, <2>2
    <3> QED BY <1>1, <1>2, <3>1
  <2> QED BY <2>1, <2>2
<1>5. \A i, j \in 1 .. Len(long) : i < j => w[long[i].event].key # w[long[j].event].key
  <2> TAKE i, j \in 1 .. Len(long)
  <2> HAVE i < j
  <2>1. i \in DOMAIN msgs /\ long[i] = msgs[i]
    BY <1>2
  <2>2. CASE j <= Len(msgs)
    <3>1. j \in DOMAIN msgs /\ long[j] = msgs[j] /\ i # j
      BY <1>2, <2>2
    <3> QED BY <2>1, <3>1 DEF Numbered
  <2>3. CASE ~(j <= Len(msgs))
    <3>1. long[j] = m
      BY <1>2, <2>3
    <3> QED BY <1>1, <2>1, <3>1
  <2> QED BY <2>2, <2>3
<1>6. Len(long) <= seq + 1 /\ Len(next) <= MAX_MESSAGES /\ Len(next) <= Len(long) /\ Len(next) \in Nat
  BY <1>2, <1>3 DEF Numbered
<1>7. /\ DOMAIN next = 1 .. Len(next)
      /\ \A i \in DOMAIN next : /\ Len(long) - Len(next) + i \in 1 .. Len(long)
                               /\ next[i] = long[Len(long) - Len(next) + i]
  <2>1. DOMAIN next = 1 .. Len(next)
    BY <1>3
  <2>2. Len(long) \in Nat
    BY <1>2
  <2>3. \A i \in 1 .. Len(next) : Len(long) - Len(next) + i \in 1 .. Len(long)
    BY <1>6, <2>2
  <2> QED BY <1>3, <2>1, <2>3
<1>8. ASSUME NEW i \in DOMAIN next
      PROVE  next[i].id = seq + 1 - Len(next) + i
  <2> DEFINE k == Len(long) - Len(next) + i
  <2>1. k \in 1 .. Len(long) /\ next[i] = long[k]
    BY <1>7
  <2>2. long[k].id = seq + 1 - Len(long) + k
    <3> HIDE DEF k
    <3> QED BY <1>4, <2>1
  <2> QED BY <1>2, <1>6, <1>7, <2>1, <2>2
<1>9. ASSUME NEW i \in DOMAIN next, NEW j \in DOMAIN next, i # j
      PROVE  w[next[i].event].key # w[next[j].event].key
  <2> DEFINE k == Len(long) - Len(next) + i
             l == Len(long) - Len(next) + j
  <2>1. /\ k \in 1 .. Len(long) /\ next[i] = long[k]
        /\ l \in 1 .. Len(long) /\ next[j] = long[l]
    BY <1>7
  <2>2. k < l \/ l < k
    BY <1>2, <1>6, <1>7, <1>9
  <2> HIDE DEF k, l
  <2> QED BY <1>5, <2>1, <2>2
<1>10. Len(next) <= seq + 1
  BY <1>2, <1>6
<1>11. Numbered(w, next, seq + 1)
  <2>1. next \in Seq([id : Nat, event : 1 .. Len(w)])
    BY <1>3 DEF M
  <2>2. Len(next) <= MAX_MESSAGES /\ Len(next) <= seq + 1
    BY <1>6, <1>10
  <2>3. \A i \in DOMAIN next : next[i].id = (seq + 1) - Len(next) + i
    BY <1>8
  <2>4. \A i, j \in DOMAIN next : i # j => w[next[i].event].key # w[next[j].event].key
    BY <1>9
  <2> QED BY <2>1, <2>2, <2>3, <2>4, Zenon DEF Numbered
<1> QED BY <1>11 DEF next, long, m

(* How a step of the provider changes the list. *)
Grows ==
    \/ messages' = messages /\ sequence' = sequence
    \/ sequence = 0
    \/ /\ sequence' = sequence + 1
       /\ \E e \in Events : messages' =
            LastN(Append(messages, [id |-> sequence + 1, event |-> e]), MAX_MESSAGES)

LEMMA AppendList ==
    ASSUME ListInv, NEW e \in Events, wire' = wire, aired' \in 0 .. Len(wire),
           UNCHANGED runVars, mounted, onmessage(e)
    PROVE  ListInv' /\ Grows
<1> USE ListInvIs
<1>1. MAX_MESSAGES \in Nat \ {0} /\ Len(wire) \in Nat /\ e \in 1 .. Len(wire)
  BY WireFacts DEF Events
<1>2. CASE ~hydrated
  <2>1. buffered' = Append(buffered, e) /\ UNCHANGED <<hydrated, seen, sequence, messages>>
    BY <1>2 DEF onmessage
  <2>2. buffered' \in Seq(1 .. Len(wire))
    BY <1>1, <2>1
  <2> QED BY <2>1, <2>2, ListInvThen DEF runVars, Grows
<1>3. CASE hydrated /\ Key(e) \in seen
  <2>1. UNCHANGED <<hydrated, buffered, seen, sequence, messages>>
    BY <1>3 DEF onmessage
  <2> QED BY <2>1, ListInvThen DEF runVars, Grows
<1>4. CASE hydrated /\ Key(e) \notin seen
  <2> DEFINE next == LastN(Append(messages, [id |-> sequence + 1, event |-> e]), MAX_MESSAGES)
  <2>1. /\ messages' = next /\ sequence' = sequence + 1 /\ seen' = Keys(Data(next))
        /\ UNCHANGED <<hydrated, buffered>>
    BY <1>4 DEF onmessage, Append1
  <2>2. \A i \in DOMAIN messages : wire[messages[i].event].key # wire[e].key
    BY <1>4 DEF Key
  <2>3. Numbered(wire, next, sequence + 1)
    BY <1>1, <2>2, NumberedAppend
  <2>4. Grows
    BY <2>1 DEF Grows
  <2> HIDE DEF next
  <2>5. \A i \in DOMAIN next : wire[next[i].event].key \in seen'
    BY <2>1 DEF Keys, Data, Key
  <2> QED BY <1>4, <2>1, <2>3, <2>4, <2>5, ListInvThen DEF runVars
<1> QED BY <1>2, <1>3, <1>4

LEMMA HydrateList ==
    ASSUME ListInv, NEW h \in Seq(Events), Hydrate(h), lifecycle \in requests,
           requests' = requests \ {lifecycle}, UNCHANGED <<feedVars, mounted, lifecycle>>
    PROVE  ListInv' /\ Grows
<1> USE ListInvIs
<1>1. sequence = 0 /\ wire' = wire /\ aired' = aired /\ mounted
  BY DEF feedVars
<1>2. MAX_MESSAGES \in Nat \ {0} /\ Len(wire) \in Nat
  BY WireFacts
<1>3. PICK ordered \in Ordered(h \o buffered) :
         /\ buffered' = <<>> /\ seen' = Keys(ordered)
         /\ sequence' = sequence + Len(ordered)
         /\ messages' = [i \in DOMAIN ordered |-> [id |-> sequence + i, event |-> ordered[i]]]
         /\ hydrated' = TRUE
  BY DEF Hydrate
<1>4. h \o buffered \in Seq(Events)
  BY DEF Events
<1>5. /\ ordered \in Seq(1 .. Len(wire)) /\ Len(ordered) <= MAX_MESSAGES
      /\ \A i, j \in DOMAIN ordered : i # j => wire[ordered[i]].key # wire[ordered[j]].key
  BY <1>3, <1>4, OrderedFacts DEF Key, Events
<1>6. /\ Len(ordered) \in Nat /\ sequence' = Len(ordered)
      /\ DOMAIN messages' = 1 .. Len(ordered) /\ DOMAIN ordered = 1 .. Len(ordered)
      /\ \A i \in 1 .. Len(ordered) : messages'[i] = [id |-> i, event |-> ordered[i]]
      /\ messages' \in Seq([id : Nat, event : 1 .. Len(wire)]) /\ Len(messages') = Len(ordered)
  <2>1. Len(ordered) \in Nat /\ DOMAIN ordered = 1 .. Len(ordered)
    BY <1>5
  <2>2. \A i \in 1 .. Len(ordered) : sequence + i = i /\ ordered[i] \in 1 .. Len(wire)
    BY <1>1, <1>5, <2>1
  <2>3. messages' = [i \in 1 .. Len(ordered) |-> [id |-> i, event |-> ordered[i]]]
    BY <1>3, <2>1, <2>2
  <2>4. \A i \in 1 .. Len(ordered) :
           [id |-> i, event |-> ordered[i]] \in [id : Nat, event : 1 .. Len(wire)]
    BY <2>1, <2>2
  <2> DEFINE f == [i \in 1 .. Len(ordered) |-> [id |-> i, event |-> ordered[i]]]
  <2>5. f \in Seq([id : Nat, event : 1 .. Len(wire)]) /\ Len(f) = Len(ordered)
    BY <2>1, <2>4
  <2>6. sequence' = Len(ordered)
    BY <1>1, <1>3, <2>1
  <2> QED BY <2>1, <2>3, <2>5, <2>6
<1>7. Numbered(wire, messages', sequence')
  <2>1. \A i \in DOMAIN messages' : messages'[i].id = sequence' - Len(messages') + i
    BY <1>6
  <2>2. \A i \in DOMAIN messages' : messages'[i].event = ordered[i]
    BY <1>6
  <2>3. /\ messages' \in Seq([id : Nat, event : 1 .. Len(wire)])
        /\ Len(messages') <= MAX_MESSAGES /\ Len(messages') <= sequence'
    BY <1>5, <1>6
  <2>4. \A i, j \in DOMAIN messages' : i # j =>
           wire[messages'[i].event].key # wire[messages'[j].event].key
    BY <1>5, <1>6, <2>2
  <2> QED BY <2>1, <2>3, <2>4, Zenon DEF Numbered
<1>8. \A i \in DOMAIN messages' : wire[messages'[i].event].key \in seen'
  BY <1>3, <1>6 DEF Keys, Key
<1>9. buffered' \in Seq(1 .. Len(wire))
  BY <1>3
<1> QED BY <1>1, <1>3, <1>6, <1>7, <1>8, <1>9, ListInvThen DEF Grows

LEMMA ListKept ==
    ASSUME ListInv, UNCHANGED <<wire, listVars>>, aired' \in 0 .. Len(wire),
           hydrated => mounted' /\ lifecycle' \notin requests', ~mounted' => requests' = {}
    PROVE  ListInv' /\ Grows
  BY ListInvIs, ListInvThen DEF listVars, Grows

LEMMA ProviderList ==
    ASSUME ListInv,
           \/ connect \/ onopen \/ onerror \/ onclose \/ Air \/ Remount
           \/ \E l \in requests : hydrateHistory(l)
    PROVE  ListInv' /\ Grows /\ wire' = wire
<1> USE ListInvIs
<1>0. Len(wire) \in Nat
  BY WireFacts
<1>1. CASE connect \/ onopen \/ onerror
  <2>1. UNCHANGED <<feedVars, listVars, runVars>>
    BY <1>1 DEF connect, onopen, onerror
  <2> QED BY <2>1, ListKept DEF feedVars, runVars
<1>2. CASE onclose
  <2>1. UNCHANGED <<wire, listVars, runVars>> /\ aired' \in 0 .. Len(wire)
    BY <1>0, <1>2 DEF onclose
  <2> QED BY <2>1, ListKept DEF runVars
<1>3. CASE Air
  <2>1. UNCHANGED <<wire, runVars>> /\ aired' \in 0 .. Len(wire) /\ aired' \in Events
    BY <1>0, <1>3 DEF Air, Events
  <2>2. CASE mounted /\ ws = "open"
    <3>1. onmessage(aired')
      BY <1>3, <2>2 DEF Air
    <3> QED BY <2>1, <2>2, <3>1, AppendList
  <2>3. CASE ~(mounted /\ ws = "open")
    <3>1. UNCHANGED listVars
      BY <1>3, <2>3 DEF Air
    <3> QED BY <2>1, <3>1, ListKept DEF runVars
  <2> QED BY <2>2, <2>3
<1>4. CASE Remount
  <2>1. /\ mounted /\ lifecycle = 1 /\ requests = {1} /\ mounted' = mounted
        /\ UNCHANGED <<feedVars, listVars>>
    BY <1>4 DEF Remount
  <2>2. ~hydrated
    BY <2>1
  <2> QED BY <2>1, <2>2, ListKept DEF feedVars
<1>5. ASSUME NEW l \in requests, hydrateHistory(l) PROVE ListInv' /\ Grows /\ wire' = wire
  <2>1. requests' = requests \ {l} /\ UNCHANGED <<feedVars, mounted, lifecycle>>
    BY <1>5 DEF hydrateHistory
  <2>2. CASE l # lifecycle
    <3>1. UNCHANGED listVars
      BY <1>5, <2>2 DEF hydrateHistory
    <3> QED BY <2>1, <3>1, ListKept DEF feedVars
  <2>3. CASE l = lifecycle
    <3>1. \E h \in Seq(Events) : Hydrate(h)
      <4>1. CASE \E k \in 0 .. Len(wire) : \E historical \in Stored(k) : Hydrate(historical)
        BY <4>1, StoredEvents
      <4>2. CASE Hydrate(<<>>)
        <5>1. <<>> \in Seq(Events)
          OBVIOUS
        <5> QED BY <4>2, <5>1
      <4> QED BY <1>5, <2>3, <4>1, <4>2 DEF hydrateHistory
    <3> QED BY <2>1, <2>3, <3>1, HydrateList DEF feedVars
  <2> QED BY <2>2, <2>3
<1> QED BY <1>1, <1>2, <1>3, <1>4, <1>5

(* clearMessages, and the provider that is mounted and unmounted. *)
LEMMA OtherLists ==
    ASSUME ListInv
    PROVE  /\ clearMessages /\ UNCHANGED <<feedVars, runVars>> => ListInv' /\ wire' = wire
           /\ UnmountProvider => ListInv' /\ wire' = wire
           /\ MountProvider =>
                ListInv' /\ wire' = wire /\ messages' = messages /\ sequence' = sequence
           /\ UNCHANGED connVars => ListInv' /\ Grows /\ wire' = wire
<1> USE ListInvIs
<1>0. MAX_MESSAGES \in Nat \ {0} /\ Len(wire) \in Nat
  BY WireFacts
<1>1. Numbered(wire, <<>>, sequence) /\ Numbered(wire, <<>>, 0)
  BY <1>0 DEF Numbered
<1>2. ASSUME clearMessages, UNCHANGED <<feedVars, runVars>> PROVE ListInv' /\ wire' = wire
  BY <1>1, <1>2, ListInvThen DEF clearMessages, feedVars, runVars
<1>3. ASSUME UnmountProvider PROVE ListInv' /\ wire' = wire
  <2>1. <<>> \in Seq(1 .. Len(wire))
    OBVIOUS
  <2>2. /\ wire' = wire /\ aired' = aired /\ hydrated' = FALSE /\ sequence' = 0
        /\ buffered' = <<>> /\ messages' = <<>> /\ requests' = {}
    BY <1>3 DEF UnmountProvider, feedVars
  <2>3. Numbered(wire', messages', sequence')
    BY <1>1, <2>2
  <2>4. \A i \in DOMAIN messages' : wire'[messages'[i].event].key \in seen'
    BY <2>2
  <2> QED BY <2>1, <2>2, <2>3, <2>4, ListInvThen
<1>4. ASSUME MountProvider
      PROVE  ListInv' /\ wire' = wire /\ messages' = messages /\ sequence' = sequence
  <2>1. UNCHANGED <<feedVars, listVars>> /\ ~hydrated /\ mounted'
    BY <1>4 DEF MountProvider
  <2> QED BY <2>1, ListKept DEF feedVars, listVars
<1>5. ASSUME UNCHANGED connVars PROVE ListInv' /\ Grows /\ wire' = wire
  BY <1>5, ListKept DEF connVars, feedVars, runVars
<1> QED BY <1>2, <1>3, <1>4, <1>5

-----------------------------------------------------------------------------
(* What a page has taken of the list, and what is pending. *)
LEMMA DataFacts ==
    ASSUME NEW E, NEW msgs \in Seq([id : Nat, event : E])
    PROVE  /\ Data(msgs) \in Seq(E) /\ Len(Data(msgs)) = Len(msgs)
           /\ \A i \in 1 .. Len(msgs) : Data(msgs)[i] = msgs[i].event
<1>1. Len(msgs) \in Nat /\ DOMAIN msgs = 1 .. Len(msgs)
  OBVIOUS
<1>2. \A i \in 1 .. Len(msgs) : msgs[i] \in [id : Nat, event : E]
  <2> DEFINE M == [id : Nat, event : E]
  <2>1. msgs \in Seq(M)
    OBVIOUS
  <2> HIDE DEF M
  <2>2. \A i \in 1 .. Len(msgs) : msgs[i] \in M
    BY <2>1
  <2> QED BY <2>2 DEF M
<1>3. \A i \in 1 .. Len(msgs) : msgs[i].event \in E
  BY <1>2
<1>4. Data(msgs) = [i \in 1 .. Len(msgs) |-> msgs[i].event]
  BY <1>1 DEF Data
<1> QED BY <1>1, <1>3, <1>4

LEMMA ConcatFacts ==
    ASSUME NEW S, NEW s \in Seq(S), NEW t \in Seq(S)
    PROVE  /\ s \o t \in Seq(S) /\ Len(s \o t) = Len(s) + Len(t)
           /\ \A i \in 1 .. Len(s \o t) :
                (s \o t)[i] = IF i <= Len(s) THEN s[i] ELSE t[i - Len(s)]
  OBVIOUS

LEMMA DataConcat ==
    ASSUME NEW E, NEW a \in Seq([id : Nat, event : E]), NEW b \in Seq([id : Nat, event : E])
    PROVE  Data(a \o b) = Data(a) \o Data(b)
<1> DEFINE ab == a \o b
           d  == Data(a) \o Data(b)
<1>1. /\ ab \in Seq([id : Nat, event : E]) /\ Len(ab) = Len(a) + Len(b)
      /\ \A i \in 1 .. Len(ab) : ab[i] = IF i <= Len(a) THEN a[i] ELSE b[i - Len(a)]
  OBVIOUS
<1>2. /\ Data(a) \in Seq(E) /\ Len(Data(a)) = Len(a)
      /\ Data(b) \in Seq(E) /\ Len(Data(b)) = Len(b)
      /\ \A i \in 1 .. Len(a) : Data(a)[i] = a[i].event
      /\ \A i \in 1 .. Len(b) : Data(b)[i] = b[i].event
  BY DataFacts
<1>3. /\ d \in Seq(E) /\ Len(d) = Len(a) + Len(b)
      /\ \A i \in 1 .. Len(d) : d[i] = IF i <= Len(a) THEN Data(a)[i] ELSE Data(b)[i - Len(a)]
  <2> DEFINE da == Data(a)
             db == Data(b)
  <2>1. da \in Seq(E) /\ db \in Seq(E) /\ Len(da) = Len(a) /\ Len(db) = Len(b)
    BY <1>2
  <2> HIDE DEF da, db
  <2>2. /\ da \o db \in Seq(E) /\ Len(da \o db) = Len(da) + Len(db)
        /\ \A i \in 1 .. Len(da \o db) :
             (da \o db)[i] = IF i <= Len(da) THEN da[i] ELSE db[i - Len(da)]
    BY <2>1, ConcatFacts
  <2> QED BY <2>1, <2>2 DEF da, db
<1> HIDE DEF ab, d
<1>4. Data(ab) \in Seq(E) /\ Len(Data(ab)) = Len(ab)
      /\ \A i \in 1 .. Len(ab) : Data(ab)[i] = ab[i].event
  BY <1>1, DataFacts
<1>5. \A i \in 1 .. Len(ab) : Data(ab)[i] = d[i]
  <2> TAKE i \in 1 .. Len(ab)
  <2>1. CASE i <= Len(a)
    <3>1. i \in 1 .. Len(a) /\ i \in 1 .. Len(d)
      BY <1>1, <1>3, <2>1
    <3> QED BY <1>1, <1>2, <1>3, <1>4, <2>1, <3>1
  <2>2. CASE ~(i <= Len(a))
    <3>1. i - Len(a) \in 1 .. Len(b) /\ i \in 1 .. Len(d)
      BY <1>1, <1>3, <2>2
    <3> QED BY <1>1, <1>2, <1>3, <1>4, <2>2, <3>1
  <2> QED BY <2>1, <2>2
<1>6. Data(ab) = d
  BY <1>1, <1>3, <1>4, <1>5, SeqEqual
<1> QED BY <1>6 DEF ab, d

Untaken(msgs, from) == Filter(msgs, { m \in Range(msgs) : m.id > from })

LEMMA TakenSplit ==
    ASSUME NEW w, NEW msgs, NEW seq \in Nat, Numbered(w, msgs, seq), NEW from \in Nat
    PROVE  /\ msgs \in Seq([id : Nat, event : 1 .. Len(w)])
           /\ Taken(msgs, from) \in Seq([id : Nat, event : 1 .. Len(w)])
           /\ Untaken(msgs, from) \in Seq([id : Nat, event : 1 .. Len(w)])
           /\ msgs = Taken(msgs, from) \o Untaken(msgs, from)
<1> DEFINE M == [id : Nat, event : 1 .. Len(w)]
           T == { m \in Range(msgs) : m.id <= from }
           U == { m \in Range(msgs) : m.id > from }
<1>1. msgs \in Seq(M)
  BY DEF Numbered
<1>2. \A i \in DOMAIN msgs : msgs[i] \in Range(msgs) /\ msgs[i].id \in Nat
  <2>1. \A i \in DOMAIN msgs : msgs[i] \in M
    <3> HIDE DEF M
    <3> QED BY <1>1
  <2> QED BY <2>1 DEF Range
<1>3. \A i \in DOMAIN msgs : msgs[i] \in U <=> msgs[i] \notin T
  BY <1>2
<1>4. ASSUME NEW i \in DOMAIN msgs, NEW j \in DOMAIN msgs, i < j, msgs[j] \in T
      PROVE  msgs[i] \in T
  <2>1. /\ msgs[i].id = seq - Len(msgs) + i /\ msgs[j].id = seq - Len(msgs) + j
        /\ i \in Nat /\ j \in Nat /\ Len(msgs) \in Nat
    BY <1>1 DEF Numbered
  <2>2. msgs[i].id <= from
    BY <1>4, <2>1
  <2> QED BY <1>2, <2>2
<1> HIDE DEF M, T, U
<1>5. Filter(msgs, T) \in Seq(M) /\ Filter(msgs, U) \in Seq(M)
  BY <1>1, FilterFacts
<1>6. msgs = Filter(msgs, T) \o Filter(msgs, U)
  BY <1>1, <1>3, <1>4, FilterSplit
<1> QED BY <1>1, <1>5, <1>6 DEF M, T, U, Taken, Untaken

LEMMA TakenAll ==
    ASSUME NEW w, NEW msgs, NEW seq \in Nat, Numbered(w, msgs, seq)
    PROVE  Taken(msgs, seq) = msgs
<1> DEFINE T == { m \in Range(msgs) : m.id <= seq }
<1>1. msgs \in Seq([id : Nat, event : 1 .. Len(w)])
  BY DEF Numbered
<1>2. \A i \in DOMAIN msgs : msgs[i].id <= seq
  <2> TAKE i \in DOMAIN msgs
  <2>1. msgs[i].id = seq - Len(msgs) + i /\ i \in 1 .. Len(msgs) /\ Len(msgs) \in Nat
    BY <1>1 DEF Numbered
  <2> QED BY <2>1
<1>3. Range(msgs) \subseteq T
  BY <1>2 DEF Range
<1> HIDE DEF T
<1>4. Filter(msgs, T) = msgs
  BY <1>1, <1>3, FilterFacts
<1> QED BY <1>4 DEF Taken, T

LEMMA TakenNone ==
    ASSUME NEW w, NEW msgs, NEW seq \in Nat, Numbered(w, msgs, seq)
    PROVE  Taken(msgs, 0) = <<>>
<1> DEFINE T == { m \in Range(msgs) : m.id <= 0 }
<1>1. msgs \in Seq([id : Nat, event : 1 .. Len(w)])
  BY DEF Numbered
<1>2. \A i \in DOMAIN msgs : ~(msgs[i].id <= 0)
  <2> TAKE i \in DOMAIN msgs
  <2>1. /\ msgs[i].id = seq - Len(msgs) + i /\ i \in 1 .. Len(msgs) /\ Len(msgs) \in Nat
        /\ Len(msgs) <= seq
    BY <1>1 DEF Numbered
  <2> QED BY <2>1
<1>3. Range(msgs) \cap T = {}
  BY <1>2 DEF Range
<1> HIDE DEF T
<1>4. Filter(msgs, T) = <<>>
  BY <1>1, <1>3, FilterFacts
<1> QED BY <1>4 DEF Taken, T

LEMMA LastUntaken ==
    ASSUME NEW w, NEW msgs, NEW seq \in Nat, Numbered(w, msgs, seq), NEW from \in Nat,
           Untaken(msgs, from) # <<>>
    PROVE  Last(Untaken(msgs, from)).id = seq
<1> DEFINE M == [id : Nat, event : 1 .. Len(w)]
           t == Taken(msgs, from)
           u == Untaken(msgs, from)
<1>1. msgs \in Seq(M) /\ t \in Seq(M) /\ u \in Seq(M) /\ msgs = t \o u
  BY TakenSplit
<1> HIDE DEF M, t, u
<1>2. Len(u) > 0 /\ Len(msgs) = Len(t) + Len(u) /\ Len(t) \in Nat /\ Len(u) \in Nat
  BY <1>1 DEF u
<1>3. msgs[Len(msgs)] = u[Len(u)]
  BY <1>1, <1>2
<1>4. Len(msgs) \in DOMAIN msgs
  BY <1>1, <1>2
<1>5. msgs[Len(msgs)].id = seq - Len(msgs) + Len(msgs)
  BY <1>4 DEF Numbered
<1> QED BY <1>2, <1>3, <1>5 DEF Last, u

(* The events that map, and what ShownInv says of a list and a page. *)
Mapping(w) == { e \in 1 .. Len(w) : w[e].type \in EVENT_TYPES /\ w[e].ts > 0 }

Held(w, msgs, seq, r, events, upTo) ==
    /\ r \in Routes /\ upTo \in Nat /\ upTo <= seq /\ events \in Seq(1 .. Len(w))
    /\ r = "other" => events = <<>> /\ upTo = 0
    /\ r # "other" => /\ Len(events) <= Cap(r)
                      /\ Ends(Filter(Data(Taken(msgs, upTo)), Mapping(w)), events, Cap(r))
    /\ 1 .. Len(w) \subseteq Mapping(w) =>
         /\ IsInjective(events)
         /\ Len(msgs) < MAX_MESSAGES => Len(events) <= Len(Taken(msgs, upTo))

LEMMA CapFacts ==
    /\ MAX_MESSAGES \in Nat \ {0}
    /\ \A r : Cap(r) \in Nat /\ Cap(r) <= MAX_MESSAGES
<1>1. MAX_MESSAGES \in Nat \ {0}
  BY ConnectionAssumption
<1>2. StreamCap \in 1 .. MAX_MESSAGES /\ TimelineCap \in 1 .. MAX_MESSAGES
  BY PagesAssumption
<1> QED BY <1>1, <1>2 DEF Cap

LEMMA HeldFresh ==
    ASSUME NEW w, NEW msgs, NEW seq \in Nat, Numbered(w, msgs, seq), NEW r \in Routes,
           NEW from \in Nat, from <= seq, r = "other" => from = 0, Taken(msgs, from) = <<>>
    PROVE  Held(w, msgs, seq, r, <<>>, from)
<1>1. Data(<<>>) = <<>>
  BY DEF Data
<1>2. Filter(Data(Taken(msgs, from)), Mapping(w)) = <<>>
  BY <1>1, FilterEmpty
<1>3. Ends(<<>>, <<>>, Cap(r)) /\ Len(<<>>) <= Cap(r) /\ IsInjective(<<>>) /\ <<>> \in Seq(1 .. Len(w))
  BY CapFacts DEF Ends, IsInjective
<1> QED BY <1>2, <1>3 DEF Held

(* The list is hydrated while the page shows nothing yet. *)
LEMMA HeldHydrate ==
    ASSUME NEW w, NEW msgs, Numbered(w, msgs, 0), NEW r, NEW events, NEW upTo,
           Held(w, msgs, 0, r, events, upTo),
           NEW more, NEW seq \in Nat, Numbered(w, more, seq)
    PROVE  Held(w, more, seq, r, events, upTo)
<1>1. upTo = 0 /\ events \in Seq(1 .. Len(w)) /\ r \in Routes
  BY DEF Held
<1>2. Taken(more, upTo) = <<>> /\ Taken(msgs, upTo) = <<>>
  BY <1>1, TakenNone
<1>3. msgs = <<>>
  <2>1. msgs \in Seq([id : Nat, event : 1 .. Len(w)]) /\ Len(msgs) <= 0
    BY DEF Numbered
  <2> QED BY <2>1
<1>4. 1 .. Len(w) \subseteq Mapping(w) => IsInjective(events) /\ Len(events) <= Len(<<>>)
  <2>1. Len(msgs) < MAX_MESSAGES
    BY <1>3, CapFacts
  <2> QED BY <1>2, <2>1 DEF Held
<1> QED BY <1>1, <1>2, <1>4 DEF Held

(* A message is appended, and the oldest one dropped if the list was full. *)
LEMMA HeldAppend ==
    ASSUME NEW w, NEW msgs, NEW seq \in Nat, Numbered(w, msgs, seq), NEW r, NEW events, NEW upTo,
           Held(w, msgs, seq, r, events, upTo), NEW e \in 1 .. Len(w),
           NEW more, more = LastN(Append(msgs, [id |-> seq + 1, event |-> e]), MAX_MESSAGES)
    PROVE  Held(w, more, seq + 1, r, events, upTo)
<1> DEFINE M == [id : Nat, event : 1 .. Len(w)]
           m == [id |-> seq + 1, event |-> e]
           long == Append(msgs, m)
           T == { x \in M : x.id <= upTo }
<1>1. /\ msgs \in Seq(M) /\ m \in M /\ m.id = seq + 1 /\ upTo \in Nat /\ upTo <= seq
      /\ MAX_MESSAGES \in Nat
  BY CapFacts DEF Numbered, Held
<1>2. m \notin T
  BY <1>1
<1> HIDE DEF M, m
<1>3. long \in Seq(M) /\ Len(long) = Len(msgs) + 1 /\ Len(msgs) \in Nat
  BY <1>1
<1>4. PICK x \in Seq(M) : /\ long = x \o more /\ more \in Seq(M)
                          /\ Len(more) < MAX_MESSAGES => x = <<>>
  <2> HIDE DEF long
  <2>1. CASE Len(long) <= MAX_MESSAGES
    <3>1. more = long
      BY <2>1 DEF LastN, long, m
    <3>2. <<>> \in Seq(M) /\ <<>> \o long = long
      BY <1>3
    <3> QED BY <1>3, <3>1, <3>2
  <2>2. CASE ~(Len(long) <= MAX_MESSAGES)
    <3> DEFINE k == Len(long) - MAX_MESSAGES
    <3>1. k \in Nat /\ k <= Len(long) /\ Len(long) - MAX_MESSAGES + 1 = k + 1
      BY <1>1, <1>3, <2>2
    <3>2. more = SubSeq(long, k + 1, Len(long))
      BY <2>2, <3>1 DEF LastN, long, m
    <3> DEFINE x == SubSeq(long, 1, k)
    <3>3. /\ x \in Seq(M) /\ more \in Seq(M) /\ long = x \o more /\ Len(more) = Len(long) - k
      <4> HIDE DEF k
      <4>1. x \in Seq(M) /\ Len(x) = k /\ \A i \in 1 .. k : x[i] = long[i]
        BY <1>3, <3>1
      <4>2. /\ more \in Seq(M) /\ Len(more) = Len(long) - k
            /\ \A i \in 1 .. Len(long) - k : more[i] = long[k + i]
        <5>1. more = LastN(long, MAX_MESSAGES)
          BY DEF long, m
        <5>2. /\ more \in Seq(M) /\ Len(more) = MAX_MESSAGES
              /\ \A i \in 1 .. Len(more) : more[i] = long[Len(long) - Len(more) + i]
          <6>1. long \in Seq(M) /\ MAX_MESSAGES \in Nat
            BY <1>1, <1>3
          <6>2. LET l == LastN(long, MAX_MESSAGES)
                IN  /\ l \in Seq(M)
                    /\ Len(l) = IF Len(long) <= MAX_MESSAGES THEN Len(long) ELSE MAX_MESSAGES
                    /\ \A i \in 1 .. Len(l) : l[i] = long[Len(long) - Len(l) + i]
            BY <6>1, LastNFacts
          <6> QED BY <2>2, <5>1, <6>2
        <5>3. Len(more) = Len(long) - k /\ Len(long) - Len(more) = k
          BY <1>1, <1>3, <5>2 DEF k
        <5> QED BY <5>2, <5>3
      <4> HIDE DEF x
      <4>3. /\ x \o more \in Seq(M) /\ Len(x \o more) = Len(long)
            /\ \A i \in 1 .. Len(long) : (x \o more)[i] = IF i <= k THEN x[i] ELSE more[i - k]
        BY <1>3, <3>1, <4>1, <4>2
      <4>4. \A i \in 1 .. Len(long) : (x \o more)[i] = long[i]
        <5> TAKE i \in 1 .. Len(long)
        <5>1. CASE i <= k
          BY <3>1, <4>1, <4>3, <5>1
        <5>2. CASE ~(i <= k)
          <6>1. i - k \in 1 .. Len(long) - k /\ k + (i - k) = i
            BY <1>3, <3>1, <5>2
          <6> QED BY <4>2, <4>3, <5>2, <6>1
        <5> QED BY <5>1, <5>2
      <4>5. long = x \o more
        BY <1>3, <4>3, <4>4, SeqEqual
      <4> QED BY <4>1, <4>2, <4>5
    <3>4. ~(Len(more) < MAX_MESSAGES)
      BY <1>1, <1>3, <3>3
    <3> QED BY <3>3, <3>4
  <2> QED BY <2>1, <2>2
<1>5. \A s \in Seq(M) : Taken(s, upTo) = Filter(s, T)
  <2> TAKE s \in Seq(M)
  <2> DEFINE U == { y \in Range(s) : y.id <= upTo }
  <2>1. \A i \in DOMAIN s : s[i] \in U <=> s[i] \in T
    BY DEF Range
  <2> HIDE DEF U, T
  <2>2. Filter(s, U) = Filter(s, T)
    BY <2>1, FilterSame
  <2> QED BY <2>2 DEF Taken, U
<1> HIDE DEF T
<1>6. Filter(long, T) = Filter(msgs, T)
  BY <1>1, <1>2, FilterAppend
<1> HIDE DEF long
<1>7. Filter(long, T) = Filter(x, T) \o Filter(more, T)
  BY <1>4, FilterConcat
<1> DEFINE dx == Filter(Data(Filter(x, T)), Mapping(w))
           dm == Filter(Data(Filter(more, T)), Mapping(w))
<1>8. /\ Filter(x, T) \in Seq(M) /\ Filter(more, T) \in Seq(M)
      /\ Data(Filter(x, T)) \in Seq(1 .. Len(w)) /\ Data(Filter(more, T)) \in Seq(1 .. Len(w))
  <2>1. Filter(x, T) \in Seq(M) /\ Filter(more, T) \in Seq(M)
    BY <1>4, FilterFacts
  <2> QED BY <2>1, DataFacts DEF M
<1>9. dx \in Seq(1 .. Len(w)) /\ dm \in Seq(1 .. Len(w))
  BY <1>8, FilterFacts
<1>10. Filter(Data(Taken(msgs, upTo)), Mapping(w)) = dx \o dm
  <2>1. Taken(msgs, upTo) = Filter(x, T) \o Filter(more, T)
    BY <1>1, <1>5, <1>6, <1>7
  <2>2. Data(Filter(x, T) \o Filter(more, T)) = Data(Filter(x, T)) \o Data(Filter(more, T))
    BY <1>8, DataConcat DEF M
  <2> DEFINE px == Data(Filter(x, T))
             pm == Data(Filter(more, T))
  <2>3. Data(Taken(msgs, upTo)) = px \o pm
    BY <2>1, <2>2
  <2>4. px \in Seq(1 .. Len(w)) /\ pm \in Seq(1 .. Len(w))
    BY <1>8
  <2> HIDE DEF px, pm
  <2>5. Filter(px \o pm, Mapping(w)) = Filter(px, Mapping(w)) \o Filter(pm, Mapping(w))
    BY <2>4, FilterConcat
  <2> QED BY <2>3, <2>5 DEF px, pm
<1>11. Filter(Data(Taken(more, upTo)), Mapping(w)) = dm
  BY <1>4, <1>5
<1>12. /\ r # "other" => Len(events) <= Cap(r) /\ Ends(dx \o dm, events, Cap(r))
       /\ events \in Seq(1 .. Len(w)) /\ r \in Routes /\ (r = "other" => events = <<>> /\ upTo = 0)
  BY <1>10 DEF Held
<1> HIDE DEF dx, dm
<1>13. r # "other" => Ends(dm, events, Cap(r))
  BY <1>9, <1>12, CapFacts, EndsDrop
<1>14. ASSUME 1 .. Len(w) \subseteq Mapping(w)
       PROVE  /\ IsInjective(events)
              /\ Len(more) < MAX_MESSAGES => Len(events) <= Len(Taken(more, upTo))
  <2>1. IsInjective(events)
    BY <1>14 DEF Held
  <2>2. ASSUME Len(more) < MAX_MESSAGES PROVE Len(events) <= Len(Taken(more, upTo))
    <3>1. x = <<>> /\ long = more
      BY <1>4, <2>2
    <3>2. Taken(more, upTo) = Taken(msgs, upTo)
      BY <1>1, <1>4, <1>5, <1>6, <3>1
    <3>3. Len(msgs) < MAX_MESSAGES
      BY <1>1, <1>3, <2>2, <3>1
    <3> QED BY <1>14, <3>2, <3>3 DEF Held
  <2> QED BY <2>1, <2>2
<1>15. upTo <= seq + 1
  BY <1>1
<1> QED BY <1>1, <1>11, <1>12, <1>13, <1>14, <1>15 DEF Held

(* The page takes what is pending. *)
LEMMA HeldTake ==
    ASSUME NEW w, NEW msgs, NEW seq \in Nat, Numbered(w, msgs, seq), NEW r, r # "other",
           NEW base, NEW from, Held(w, msgs, seq, r, base, from), Untaken(msgs, from) # <<>>
    PROVE  Held(w, msgs, seq, r,
                LastN(base \o Filter(Data(Untaken(msgs, from)), Mapping(w)), Cap(r)), seq)
<1> DEFINE E == 1 .. Len(w)
           t == Data(Taken(msgs, from))
           u == Data(Untaken(msgs, from))
           ft == Filter(t, Mapping(w))
           fu == Filter(u, Mapping(w))
           bu == base \o fu
           next == LastN(bu, Cap(r))
<1>1. /\ r \in Routes /\ from \in Nat /\ base \in Seq(E) /\ Len(base) <= Cap(r)
      /\ Ends(ft, base, Cap(r)) /\ Cap(r) \in Nat /\ Cap(r) <= MAX_MESSAGES /\ MAX_MESSAGES \in Nat
  BY CapFacts DEF Held
<1>2. /\ msgs \in Seq([id : Nat, event : E])
      /\ Taken(msgs, from) \in Seq([id : Nat, event : E])
      /\ Untaken(msgs, from) \in Seq([id : Nat, event : E])
      /\ msgs = Taken(msgs, from) \o Untaken(msgs, from)
  BY <1>1, TakenSplit
<1>3. /\ t \in Seq(E) /\ u \in Seq(E) /\ Data(msgs) \in Seq(E)
      /\ Len(t) = Len(Taken(msgs, from)) /\ Len(Data(msgs)) = Len(msgs)
      /\ \A i \in 1 .. Len(msgs) : Data(msgs)[i] = msgs[i].event
  BY <1>2, DataFacts
<1>4. Data(msgs) = t \o u
  <2>1. Data(Taken(msgs, from) \o Untaken(msgs, from)) = t \o u
    BY <1>2, DataConcat
  <2> QED BY <1>2, <2>1
<1> HIDE DEF E, t, u
<1>5. Filter(Data(msgs), Mapping(w)) = ft \o fu
  BY <1>3, <1>4, FilterConcat
<1>6. ft \in Seq(E) /\ fu \in Seq(E)
  BY <1>3, FilterFacts
<1> HIDE DEF ft, fu
<1>7. bu \in Seq(E) /\ Len(bu) = Len(base) + Len(fu)
  BY <1>1, <1>6
<1>8. Ends(ft \o fu, next, Cap(r))
  BY <1>1, <1>6, EndsConcat
<1> HIDE DEF bu
<1>9. /\ next \in Seq(E) /\ Len(next) = IF Len(bu) <= Cap(r) THEN Len(bu) ELSE Cap(r)
      /\ \A i \in 1 .. Len(next) : next[i] = bu[Len(bu) - Len(next) + i]
  BY <1>1, <1>7, LastNFacts
<1>10. Taken(msgs, seq) = msgs
  BY TakenAll
<1> HIDE DEF next
<1>11. Len(next) <= Cap(r)
  BY <1>1, <1>7, <1>9
<1>12. ASSUME E \subseteq Mapping(w)
       PROVE  IsInjective(next) /\ Len(next) <= Len(msgs)
  <2>1. ft = t /\ fu = u
    <3>1. Range(t) \subseteq Mapping(w) /\ Range(u) \subseteq Mapping(w)
      BY <1>3, <1>12 DEF Range
    <3> QED BY <1>3, <3>1, FilterFacts DEF ft, fu
  <2>2. Len(msgs) = Len(t) + Len(u) /\ Len(t) \in Nat /\ Len(u) \in Nat
    <3>1. Len(t \o u) = Len(t) + Len(u) /\ Len(t) \in Nat /\ Len(u) \in Nat
      BY <1>3
    <3> QED BY <1>3, <1>4, <3>1
  <2>3. Len(base) <= Len(t) \/ Cap(r) <= Len(msgs)
    <3>1. CASE Len(msgs) < MAX_MESSAGES
      BY <1>3, <1>12, <3>1 DEF Held, E
    <3>2. CASE ~(Len(msgs) < MAX_MESSAGES)
      BY <1>1, <2>2, <3>2
    <3> QED BY <3>1, <3>2
  <2>4. Len(next) <= Len(msgs) /\ Len(next) \in Nat
    BY <1>1, <1>7, <1>9, <2>1, <2>2, <2>3
  <2>5. ASSUME NEW i \in 1 .. Len(next)
        PROVE  /\ Len(msgs) - Len(next) + i \in 1 .. Len(msgs)
               /\ next[i] = msgs[Len(msgs) - Len(next) + i].event
    <3> DEFINE k == Len(next) - i
    <3>1. k \in 0 .. Cap(r) - 1 /\ k < Len(msgs) /\ k < Len(next)
      BY <1>1, <1>11, <2>2, <2>4
    <3>2. /\ Len(msgs) - Len(next) + i = Len(msgs) - k /\ Len(msgs) - k \in 1 .. Len(msgs)
          /\ Len(next) - k = i
      BY <1>1, <2>2, <2>4, <3>1
    <3>3. Ends(Data(msgs), next, Cap(r))
      BY <1>4, <1>8, <2>1
    <3> HIDE DEF k
    <3>4. Data(msgs)[Len(msgs) - k] = next[Len(next) - k]
      BY <1>3, <3>1, <3>3 DEF Ends
    <3>5. Data(msgs)[Len(msgs) - k] = msgs[Len(msgs) - k].event
      BY <1>3, <3>2
    <3> QED BY <3>2, <3>4, <3>5
  <2>6. ASSUME NEW i \in 1 .. Len(next), NEW j \in 1 .. Len(next), i # j
        PROVE  next[i] # next[j]
    <3> DEFINE x == Len(msgs) - Len(next) + i
               y == Len(msgs) - Len(next) + j
    <3>1. /\ x \in 1 .. Len(msgs) /\ y \in 1 .. Len(msgs)
          /\ next[i] = msgs[x].event /\ next[j] = msgs[y].event
      BY <2>5
    <3>2. x # y
      BY <2>2, <2>4, <2>6
    <3>3. x \in DOMAIN msgs /\ y \in DOMAIN msgs
      BY <1>2, <3>1
    <3> HIDE DEF x, y
    <3>4. w[msgs[x].event].key # w[msgs[y].event].key
      BY <3>2, <3>3 DEF Numbered
    <3> QED BY <3>1, <3>4
  <2>7. DOMAIN next = 1 .. Len(next)
    BY <1>9
  <2> QED BY <2>4, <2>6, <2>7 DEF IsInjective
<1>13. Ends(Filter(Data(Taken(msgs, seq)), Mapping(w)), next, Cap(r))
  BY <1>5, <1>8, <1>10
<1>14. Held(w, msgs, seq, r, next, seq)
  BY <1>1, <1>9, <1>10, <1>11, <1>12, <1>13 DEF Held, E
<1> QED BY <1>14 DEF next, bu, fu, u

-----------------------------------------------------------------------------
(* The pages' steps. *)
LEMMA HeldSuffix ==
    ASSUME NEW w, NEW msgs, NEW seq \in Nat, Numbered(w, msgs, seq), NEW from \in Nat, NEW r,
           NEW events \in Seq(1 .. Len(w))
    PROVE  Ends(Filter(Data(Taken(msgs, from)), Mapping(w)), events, Cap(r)) <=>
             IsSuffix(LastN(Filter(Data(Taken(msgs, from)), Mapping(w)), Cap(r)), events)
<1> DEFINE f == Filter(Data(Taken(msgs, from)), Mapping(w))
<1>1. Taken(msgs, from) \in Seq([id : Nat, event : 1 .. Len(w)])
  BY TakenSplit
<1>2. Data(Taken(msgs, from)) \in Seq(1 .. Len(w))
  BY <1>1, DataFacts
<1>3. f \in Seq(1 .. Len(w)) /\ Cap(r) \in Nat
  BY <1>2, FilterFacts, CapFacts
<1> HIDE DEF f
<1>4. Ends(f, events, Cap(r)) <=> IsSuffix(LastN(f, Cap(r)), events)
  BY <1>3, EndsIsSuffix
<1> QED BY <1>4 DEF f

LEMMA MappedIs ==
    /\ \A msgs : Mapped(msgs) = Filter(Data(msgs), Mapping(wire))
    /\ (\A e \in Events : mapWireEvent(e)) <=> 1 .. Len(wire) \subseteq Mapping(wire)
<1>1. { e \in Events : mapWireEvent(e) } = Mapping(wire)
  BY DEF Events, mapWireEvent, Mapping, Ts
<1>2. (\A e \in Events : mapWireEvent(e)) <=> 1 .. Len(wire) \subseteq Mapping(wire)
  BY DEF Events, mapWireEvent, Mapping, Ts
<1> QED BY <1>1, <1>2 DEF Mapped

LEMMA ShownInvIs ==
    ASSUME ListInv
    PROVE  ShownInv <=>
             /\ Held(wire, messages, sequence, route, shown, processedMessage)
             /\ route # "other" /\ ~paused => Taken(messages, processedMessage) = messages
<1>1. sequence \in Nat /\ Numbered(wire, messages, sequence)
  BY ListInvIs
<1>2. ASSUME processedMessage \in Nat, shown \in Seq(1 .. Len(wire))
      PROVE  Ends(Filter(Data(Taken(messages, processedMessage)), Mapping(wire)), shown, Cap(route)) <=>
             IsSuffix(LastN(Mapped(Taken(messages, processedMessage)), Cap(route)), shown)
  BY <1>1, <1>2, HeldSuffix, MappedIs
<1> QED BY <1>2, MappedIs, Zenon DEF ShownInv, Held, Events

LEMMA ShownInvThen ==
    ASSUME ListInv'
    PROVE  ShownInv' <=>
             /\ Held(wire', messages', sequence', route', shown', processedMessage')
             /\ route' # "other" /\ ~paused' => Taken(messages', processedMessage') = messages'
<1> DEFINE M == { e \in 1 .. Len(wire') : wire'[e].type \in EVENT_TYPES /\ wire'[e].ts > 0 }
<1>1. sequence' \in Nat /\ Numbered(wire', messages', sequence')
  BY ListInvThen
<1>2. M = Mapping(wire')
  BY DEF Mapping
<1>3. /\ Mapped(Taken(messages, processedMessage))' =
           Filter(Data(Taken(messages', processedMessage')), Mapping(wire'))
      /\ (\A e \in Events : mapWireEvent(e))' <=> 1 .. Len(wire') \subseteq Mapping(wire')
  BY <1>2 DEF Mapped, Events, mapWireEvent, Ts, Data, Taken
<1>4. ASSUME processedMessage' \in Nat, shown' \in Seq(1 .. Len(wire'))
      PROVE  Ends(Filter(Data(Taken(messages', processedMessage')), Mapping(wire')), shown', Cap(route')) <=>
             IsSuffix(LastN(Mapped(Taken(messages, processedMessage))', Cap(route')), shown')
  BY <1>1, <1>3, <1>4, HeldSuffix
<1> QED BY <1>3, <1>4, Zenon DEF ShownInv, Held, Events, Cap, Taken

(* The effect on messages, from the events and the id it starts with. *)
LEMMA ProcessPages ==
    ASSUME ListInv', wire' = wire, NEW base, NEW from,
           Held(wire', messages', sequence', route', base, from), ProcessMessages(base, from)
    PROVE  ShownInv'
<1> DEFINE pending == Untaken(messages', from)
<1>1. /\ sequence' \in Nat /\ Numbered(wire', messages', sequence') /\ from \in Nat
  BY ListInvThen DEF Held
<1>2. Pending(from) = pending
  BY DEF Pending, Untaken
<1>3. CASE paused' \/ route' = "other" \/ pending = <<>>
  <2>1. shown' = base /\ processedMessage' = from
    BY <1>2, <1>3 DEF ProcessMessages
  <2>2. ASSUME pending = <<>> PROVE Taken(messages', from) = messages'
    <3>1. /\ Taken(messages', from) \in Seq([id : Nat, event : 1 .. Len(wire')])
          /\ messages' = Taken(messages', from) \o pending
      BY <1>1, TakenSplit
    <3> DEFINE M == [id : Nat, event : 1 .. Len(wire')]
               t == Taken(messages', from)
    <3>2. t \in Seq(M) /\ messages' = t \o <<>>
      BY <2>2, <3>1
    <3> HIDE DEF M, t
    <3>3. messages' = t
      BY <3>2
    <3> QED BY <3>3 DEF t
  <2> QED BY <1>3, <2>1, <2>2, ShownInvThen
<1>4. CASE ~(paused' \/ route' = "other" \/ pending = <<>>)
  <2>1. /\ shown' = LastN(base \o Mapped(pending), Cap(route'))
        /\ processedMessage' = Last(pending).id
    BY <1>2, <1>4 DEF ProcessMessages
  <2>2. Mapped(pending) = Filter(Data(pending), Mapping(wire'))
    BY MappedIs
  <2>3. Last(pending).id = sequence'
    BY <1>1, <1>4, LastUntaken
  <2>4. Held(wire', messages', sequence', route', shown', processedMessage')
    BY <1>1, <1>4, <2>1, <2>2, <2>3, HeldTake
  <2>5. Taken(messages', processedMessage') = messages'
    BY <1>1, <2>1, <2>3, TakenAll
  <2> QED BY <2>4, <2>5, ShownInvThen
<1> QED BY <1>3, <1>4

(* The page that is shown while the list grows. *)
LEMMA HeldGrows ==
    ASSUME ListInv, ShownInv, ListInv', Grows, wire' = wire
    PROVE  Held(wire', messages', sequence', route, shown, processedMessage)
<1>1. /\ sequence \in Nat /\ Numbered(wire, messages, sequence)
      /\ sequence' \in Nat /\ Numbered(wire, messages', sequence')
      /\ Held(wire, messages, sequence, route, shown, processedMessage)
  BY ListInvIs, ListInvThen, ShownInvIs
<1>2. CASE messages' = messages /\ sequence' = sequence
  BY <1>1, <1>2
<1>3. CASE sequence = 0
  <2>1. Numbered(wire, messages, 0) /\ Held(wire, messages, 0, route, shown, processedMessage)
    BY <1>1, <1>3
  <2> QED BY <1>1, <2>1, HeldHydrate
<1>4. ASSUME NEW e \in Events, sequence' = sequence + 1,
             messages' = LastN(Append(messages, [id |-> sequence + 1, event |-> e]), MAX_MESSAGES)
      PROVE  Held(wire', messages', sequence', route, shown, processedMessage)
  <2>1. e \in 1 .. Len(wire)
    BY DEF Events
  <2>2. Held(wire, messages', sequence + 1, route, shown, processedMessage)
    BY <1>1, <1>4, <2>1, HeldAppend
  <2> QED BY <1>4, <2>2
<1> QED BY <1>2, <1>3, <1>4 DEF Grows

LEMMA PaintThen ==
    ASSUME wire' = wire
    PROVE  /\ PaintInv' <=>
                /\ route' = "timeline" => canvas' = Drawing(shown', activeTypes', picked', canvas'.view)
                /\ route' = "stream" /\ picked' # 0 => picked' \in Range(Active(shown', activeTypes'))
  BY DEF PaintInv, Drawing, visEvents, Active, getVisRange, Ts, Events

(* A step of the mounted page: its effects, run from the events `base`. *)
LEMMA EffectsInv ==
    ASSUME PagesInv, ListInv', wire' = wire, route' = route, NEW base, NEW sel, NEW asked,
           Held(wire', messages', sequence', route, base, processedMessage),
           Effects(base, sel, asked)
    PROVE  PagesInv'
<1>1. ShownInv'
  BY ProcessPages DEF Effects
<1>2. route' = "stream" /\ picked' # 0 => picked' \in Range(Active(shown', activeTypes'))
  BY DEF Effects, SettleRow
<1>3. route' = "timeline" => canvas' = Drawing(shown', activeTypes', picked', canvas'.view)
  <2> SUFFICES ASSUME route' = "timeline"
               PROVE  canvas' = Drawing(shown', activeTypes', picked', canvas'.view)
    OBVIOUS
  <2>1. CASE canvas' = Drawing(shown', activeTypes', picked', view')
    <3>1. canvas'.view = view'
      BY <2>1 DEF Drawing
    <3> QED BY <2>1, <3>1
  <2>2. CASE canvas' = canvas /\ shown' = shown /\ picked' = picked /\ activeTypes' = activeTypes
    BY <2>2 DEF PagesInv, PaintInv
  <2> QED BY <2>1, <2>2 DEF Effects, Paint
<1> QED BY <1>1, <1>2, <1>3, PaintThen DEF PagesInv

(* A page that mounts, from all the messages there are. *)
LEMMA MountPageInv ==
    ASSUME ListInv', wire' = wire, NEW r \in Routes, MountPage(r)
    PROVE  PagesInv'
<1>1. sequence' \in Nat /\ Numbered(wire', messages', sequence')
  BY ListInvThen
<1>2. Taken(messages', 0) = <<>>
  BY <1>1, TakenNone
<1>3. Held(wire', messages', sequence', route', <<>>, 0)
  <2>1. 0 \in Nat /\ 0 <= sequence' /\ route' = r
    BY <1>1 DEF MountPage
  <2> QED BY <1>1, <1>2, <2>1, HeldFresh
<1>4. ShownInv'
  BY <1>3, ProcessPages DEF MountPage
<1>5. route' = "timeline" => canvas' = Drawing(shown', activeTypes', picked', canvas'.view)
  <2> SUFFICES ASSUME route' = "timeline"
               PROVE  canvas' = Drawing(shown', activeTypes', picked', canvas'.view)
    OBVIOUS
  <2>1. canvas' = Drawing(shown', activeTypes', picked', view')
    BY DEF MountPage
  <2>2. canvas'.view = view'
    BY <2>1 DEF Drawing
  <2> QED BY <2>1, <2>2
<1>6. picked' = 0
  BY DEF MountPage
<1> QED BY <1>4, <1>5, <1>6, PaintThen DEF PagesInv

LEMMA PagesInitInv == PagesInit => PagesInv
<1> SUFFICES ASSUME PagesInit PROVE PagesInv
  OBVIOUS
<1>1. ListInv
  <2>1. /\ wire \in Wires /\ aired = 0 /\ hydrated = FALSE /\ buffered = <<>> /\ sequence = 0
        /\ messages = <<>> /\ mounted = TRUE
    BY DEF PagesInit, ConnInit
  <2>2. Len(wire) \in Nat /\ MAX_MESSAGES \in Nat
    BY <2>1, WireFacts
  <2>3. Numbered(wire, <<>>, 0) /\ <<>> \in Seq(1 .. Len(wire))
    BY <2>2 DEF Numbered
  <2>4. \A i \in DOMAIN messages : wire[messages[i].event].key \in seen
    BY <2>1
  <2>5. aired \in 0 .. Len(wire) /\ sequence \in Nat
    BY <2>1, <2>2
  <2>6. Numbered(wire, messages, sequence) /\ buffered \in Seq(1 .. Len(wire)) /\ sequence = 0
    BY <2>1, <2>3
  <2>7. hydrated \in BOOLEAN /\ ~hydrated /\ mounted
    BY <2>1, Zenon
  <2> QED BY <2>1, <2>4, <2>5, <2>6, <2>7, ListInvIs, Zenon
<1>2. ShownInv
  <2>1. /\ messages = <<>> /\ sequence = 0 /\ route = "stream" /\ shown = <<>>
        /\ processedMessage = 0 /\ Numbered(wire, messages, sequence)
    BY <1>1, ListInvIs DEF PagesInit, ConnInit
  <2>2. Taken(messages, 0) = <<>>
    BY <2>1, TakenNone
  <2>3. Held(wire, messages, sequence, route, <<>>, 0)
    BY <2>1, <2>2, HeldFresh DEF Routes
  <2> QED BY <1>1, <2>1, <2>2, <2>3, ShownInvIs
<1>3. PaintInv
  BY DEF PaintInv, PagesInit
<1> QED BY <1>1, <1>2, <1>3 DEF PagesInv

LEMMA PagesNextInv == PagesInv /\ [PagesNext]_pagesVars => PagesInv'
<1> SUFFICES ASSUME PagesInv, [PagesNext]_pagesVars PROVE PagesInv'
  OBVIOUS
<1>0. ListInv /\ ShownInv
  BY DEF PagesInv
<1>1. ASSUME UNCHANGED <<connVars, route>>, NEW sel, NEW asked, Effects(shown, sel, asked)
      PROVE  PagesInv'
  <2>1. ListInv' /\ Grows /\ wire' = wire
    BY <1>0, <1>1, OtherLists
  <2>2. Held(wire', messages', sequence', route, shown, processedMessage)
    BY <1>0, <2>1, HeldGrows
  <2> QED BY <1>1, <2>1, <2>2, EffectsInv
<1>2. CASE ProviderStep
  <2>1. ListInv' /\ Grows /\ wire' = wire
    BY <1>0, <1>2, ProviderList DEF ProviderStep
  <2>2. Held(wire', messages', sequence', route, shown, processedMessage)
    BY <1>0, <2>1, HeldGrows
  <2> QED BY <1>2, <2>1, <2>2, EffectsInv DEF ProviderStep, Rendered
<1>3. CASE clearEvents
  <2>1. /\ clearMessages /\ UNCHANGED <<feedVars, runVars, route>> /\ Effects(<<>>, 0, TRUE)
    BY <1>3 DEF clearEvents
  <2>2. ListInv' /\ wire' = wire
    BY <1>0, <2>1, OtherLists
  <2>3. /\ sequence' \in Nat /\ Numbered(wire', messages', sequence') /\ messages' = <<>>
        /\ processedMessage \in Nat /\ processedMessage <= sequence' /\ route \in Routes
        /\ route = "other" => processedMessage = 0
    BY <1>0, <2>1, <2>2, ListInvThen DEF clearMessages, ShownInv
  <2>4. Taken(messages', processedMessage) = <<>>
    BY <2>3, FilterEmpty DEF Taken
  <2>5. Held(wire', messages', sequence', route, <<>>, processedMessage)
    BY <2>3, <2>4, HeldFresh
  <2> QED BY <2>1, <2>2, <2>5, EffectsInv
<1>4. CASE LeaveConsole
  <2>1. UnmountProvider /\ MountPage(route) /\ route \in Routes
    BY <1>0, <1>4 DEF LeaveConsole, ShownInv
  <2>2. ListInv' /\ wire' = wire
    BY <1>0, <2>1, OtherLists
  <2> QED BY <2>1, <2>2, MountPageInv
<1>5. CASE EnterConsole
  <2>1. /\ MountProvider /\ UNCHANGED <<route, shown, processedMessage, paused, activeTypes, picked, canvas>>
    BY <1>5 DEF EnterConsole, pageVars, filterVars
  <2>2. ListInv' /\ wire' = wire /\ messages' = messages /\ sequence' = sequence
    BY <1>0, <2>1, OtherLists
  <2>3. ShownInv'
    BY <1>0, <2>1, <2>2, ShownInvIs, ShownInvThen
  <2>4. PaintInv'
    BY <2>1, <2>2, PaintThen DEF PagesInv, PaintInv
  <2> QED BY <2>2, <2>3, <2>4 DEF PagesInv
<1>6. ASSUME NEW r \in Routes, Navigate(r) PROVE PagesInv'
  <2>1. UNCHANGED connVars /\ MountPage(r)
    BY <1>6 DEF Navigate
  <2>2. ListInv' /\ wire' = wire
    BY <1>0, <2>1, OtherLists
  <2> QED BY <2>1, <2>2, MountPageInv
<1>7. CASE togglePause
  BY <1>1, <1>7 DEF togglePause
<1>8. CASE CloseRow \/ CloseDetail
  BY <1>1, <1>8 DEF CloseRow, CloseDetail
<1>9. CASE handleCanvasClick
  BY <1>1, <1>9 DEF handleCanvasClick
<1>10. CASE handleWheel \/ Redraw
  BY <1>1, <1>10 DEF handleWheel, Redraw
<1>11. ASSUME NEW t \in EVENT_TYPES, toggleType(t) PROVE PagesInv'
  BY <1>1, <1>11 DEF toggleType
<1>12. ASSUME NEW e \in Events, SelectRow(e) PROVE PagesInv'
  BY <1>1, <1>12 DEF SelectRow
<1>13. ASSUME NEW v \in Windows, SetWindow(v) PROVE PagesInv'
  BY <1>1, <1>13 DEF SetWindow
<1>14. CASE UNCHANGED pagesVars
  <2>1. UNCHANGED <<connVars, route, shown, processedMessage, paused, activeTypes, picked, canvas>>
    BY <1>14 DEF pagesVars, pageVars, filterVars
  <2>2. ListInv' /\ wire' = wire /\ messages' = messages /\ sequence' = sequence
    BY <1>0, <2>1, OtherLists DEF connVars, listVars
  <2>3. ShownInv'
    BY <1>0, <2>1, <2>2, ShownInvIs, ShownInvThen
  <2>4. PaintInv'
    BY <2>1, <2>2, PaintThen DEF PagesInv, PaintInv
  <2> QED BY <2>2, <2>3, <2>4 DEF PagesInv
<1> QED BY <1>2, <1>3, <1>4, <1>5, <1>6, <1>7, <1>8, <1>9, <1>10, <1>11, <1>12, <1>13, <1>14
        DEF PagesNext

(* The inductive invariant of the connection's list and of the page on it    *)
(* holds in every state: useConnection.tsx numbers and keys its messages as   *)
(* it should, and Stream.tsx or Timeline.tsx ends with what it took of them.  *)
THEOREM PagesInvCorrect == PagesSpec => []PagesInv
  BY PagesInitInv, PagesNextInv, PTL DEF PagesSpec

(* For every feed, every cap and every interleaving of history, live feed,   *)
(* restarts and the user: useConnection's list has no key twice, and if all  *)
(* messages map, a page shows no event twice either.                         *)
THEOREM NoDuplicatesCorrect == PagesSpec => []NoDuplicates
<1>1. PagesInv => NoDuplicates
  BY DEF PagesInv, ListInv, ShownInv, NoDuplicates
<1> QED BY <1>1, PagesInvCorrect, PTL

(* For every feed, cap and window: a page that is not paused ends with the   *)
(* newest messages that map, Timeline's canvas is never behind what the page *)
(* holds, and the row that is open in Stream is listed.                      *)
THEOREM PageCurrentCorrect == PagesSpec => []PageCurrent
<1>1. PagesInv => PageCurrent
  BY DEF PagesInv, ShownInv, PaintInv, PageCurrent
<1> QED BY <1>1, PagesInvCorrect, PTL

-----------------------------------------------------------------------------
(* What the liveness of the graph page, of the search and of the connection *)
(* rests on.                                                                *)
LEMMA ProcessChain ==
    ASSUME ChainAwaited, RequestInv', On("graph") => On("graph")', NEW newest, NEW waiting, NEW strict,
           ProcessPending(newest, waiting, strict)
    PROVE  ChainAwaited'
<1>1. ASSUME UNCHANGED <<chainState, fetchTimer, fetching, cancelled>> PROVE ChainAwaited'
  BY <1>1 DEF ChainAwaited
<1>2. CASE ~On("graph")' \/ graphPaused'
  BY <1>1, <1>2 DEF ProcessPending, chainVars
<1>3. CASE ~(~On("graph")' \/ graphPaused')
  <2>1. PICK t : loadCausalChain(t, strict)
    BY <1>3 DEF ProcessPending
  <2>2. CASE t = NoTx \/ requested = t
    BY <1>1, <2>1, <2>2 DEF loadCausalChain
  <2>3. CASE ~(t = NoTx \/ requested = t)
    <3>1. /\ chainState' = [tx |-> t, status |-> "loading"] /\ requested' = t
          /\ fetchTimer' = t \/ cancelled' = t
      BY <2>1, <2>3 DEF loadCausalChain
    <3>2. chainState'.tx = t /\ t \in Transactions
      BY <2>3, <3>1 DEF RequestInv
    <3> QED BY <1>3, <3>1, <3>2 DEF ChainAwaited
  <2> QED BY <2>2, <2>3
<1> QED BY <1>2, <1>3

LEMMA StepChain ==
    ASSUME RequestInv, RequestInv', ChainAwaited, UNCHANGED shellVars, GraphStep
    PROVE  ChainAwaited'
<1>1. ASSUME UNCHANGED <<chainState, fetchTimer, fetching, cancelled>> PROVE ChainAwaited'
  BY <1>1 DEF ChainAwaited, On, shellVars
<1>2. On("graph") => On("graph")'
  BY DEF On, shellVars
<1>3. CASE Arrive \/ PauseGraph
  BY <1>2, <1>3, ProcessChain DEF Arrive, PauseGraph
<1>4. CASE FetchTimerFires
  <2>1. /\ fetchTimer \in Transactions /\ fetching' = [fetching EXCEPT ![fetchTimer] = @ + 1]
        /\ fetching \in [Transactions -> Nat] /\ UNCHANGED <<chainState, cancelled>>
    BY <1>4 DEF FetchTimerFires, RequestInv
  <2> QED BY <1>2, <2>1 DEF ChainAwaited
<1>5. CASE Deselect
  BY <1>1, <1>5 DEF Deselect, SetSelected, chainVars
<1>6. CASE clearGraph
  <2>1. chainState' = [tx |-> NoTx, status |-> "live"]
    BY <1>6 DEF clearGraph
  <2> QED BY <2>1 DEF ChainAwaited
<1>7. ASSUME NEW t \in Transactions, FetchSettles(t) PROVE ChainAwaited'
  <2>1. PICK s \in {"live", "api", "error"} : chainState' = [tx |-> t, status |-> s]
    BY <1>7 DEF FetchSettles, ChainArrives, ChainFails
  <2>2. chainState'.status = s
    BY <2>1
  <2> QED BY <2>2 DEF ChainAwaited
<1>8. ASSUME NEW n \in svg.nodes, SelectNode(n) PROVE ChainAwaited'
  BY <1>1, <1>8 DEF SelectNode, SetSelected, chainVars
<1>9. CASE RenderGraph
  BY <1>1, <1>9 DEF RenderGraph, chainVars
<1> QED BY <1>3, <1>4, <1>5, <1>6, <1>7, <1>8, <1>9 DEF GraphStep

LEMMA MountChain ==
    ASSUME RequestInv', ChainAwaited,
           \/ LeaveGraph
           \/ ~On("graph") /\ MountGraph
    PROVE  ChainAwaited'
<1>1. CASE LeaveGraph
  <2>1. chainState' = [tx |-> NoTx, status |-> "live"]
    BY <1>1 DEF LeaveGraph
  <2> QED BY <2>1 DEF ChainAwaited
<1>2. CASE ~On("graph") /\ MountGraph
  BY <1>2, ProcessChain DEF MountGraph
<1> QED BY <1>1, <1>2

LEMMA IndexStep ==
    ASSUME IndexAwaited, SearchStep \/ UNCHANGED searchVars
    PROVE  IndexAwaited'
  BY DEF IndexAwaited, SearchStep, OpenSearch, onClose, IndexArrives, MoveCursor, Go, Type,
         searchVars

LEMMA ChainNext ==
    ASSUME RequestInv, RequestInv', ChainAwaited, [Next]_vars
    PROVE  ChainAwaited'
<1>1. CASE UNCHANGED graphVars /\ UNCHANGED <<authed, page>>
  BY <1>1 DEF ChainAwaited, On, graphVars, chainVars
<1>2. CASE SignIn
  <2>1. ~authed
    BY <1>2 DEF SignIn, handleAuth, Start, LoginShown
  <2>2. ~On("graph")
    BY <2>1 DEF On
  <2> QED BY <1>2, <2>2, MountChain DEF SignIn, Mount
<1>3. CASE Move
  <2>1. PICK p \in Pages : navigate(p) /\ Mount(p)
    BY <1>3 DEF Move
  <2>2. page # p
    BY <2>1 DEF navigate
  <2> QED BY <2>1, <2>2, MountChain DEF Mount, On
<1>4. CASE SignOut \/ Close
  BY <1>4, MountChain DEF SignOut, Close, UnmountAll
<1>5. CASE PageStep
  <2>1. CASE UNCHANGED shellVars /\ GraphStep
    BY <2>1, StepChain
  <2>2. CASE UNCHANGED shellVars /\ UNCHANGED graphVars
    BY <1>1, <2>2 DEF shellVars
  <2> QED BY <1>5, <2>1, <2>2 DEF PageStep
<1>6. CASE /\ handleSubmit \/ LoginRefused \/ \E f \in Fields : Edit(f)
           /\ UNCHANGED <<graphVars, replayVars, settingsVars>>
  BY <1>1, <1>6 DEF handleSubmit, LoginRefused, Edit
<1>7. CASE UNCHANGED consoleVars
  BY <1>1, <1>7 DEF consoleVars, shellVars
<1> QED BY <1>2, <1>3, <1>4, <1>5, <1>6, <1>7 DEF Next, ConsoleStep, vars

(* For any feed, chains and failures: while Graph.tsx says "loading", it has *)
(* the timer of that chain or a request for it, unless the cleanup of        *)
(* StrictMode after the mount cleared that timer; and while the search modal *)
(* says "Loading", it has asked for the index in this opening.               *)
THEOREM LoadingIsAwaited == Spec => [](ChainAwaited /\ IndexAwaited)
<1>1. Init => ChainAwaited /\ IndexAwaited
  <2>1. Init => ChainAwaited
    BY DEF Init, GraphInit, ChainAwaited
  <2>2. Init => IndexAwaited
    BY DEF Init, SearchInit, IndexAwaited
  <2> QED BY <2>1, <2>2
<1>2. IInv /\ IInv' /\ ChainAwaited /\ IndexAwaited /\ [Next]_vars => ChainAwaited' /\ IndexAwaited'
  <2>1. [Next]_vars => SearchStep \/ UNCHANGED searchVars
    BY DEF Next, vars
  <2> QED BY <2>1, ChainNext, IndexStep DEF IInv
<1> QED BY <1>1, <1>2, InvCorrect, PTL DEF Spec

-----------------------------------------------------------------------------
LEMMA ProviderAwaited ==
    ASSUME SocketOrTimer, HistoryAwaited,
           \/ connect \/ onopen \/ onerror \/ onclose \/ Air \/ Remount
           \/ \E l \in requests : hydrateHistory(l)
    PROVE  SocketOrTimer' /\ HistoryAwaited'
<1>1. CASE connect \/ onopen \/ onerror \/ onclose
  <2>1. UNCHANGED <<listVars, runVars>> /\ mounted
    BY <1>1 DEF connect, onopen, onerror, onclose, SocketOrTimer
  <2>2. HistoryAwaited'
    BY <2>1 DEF HistoryAwaited, listVars, runVars
  <2>3. SocketOrTimer'
    BY <1>1, <2>1 DEF connect, onopen, onerror, onclose, scheduleReconnect, SocketOrTimer, runVars
  <2> QED BY <2>2, <2>3
<1>2. CASE Air
  <2>1. UNCHANGED <<socketVars, runVars>>
    BY <1>2 DEF Air
  <2>2. SocketOrTimer'
    BY <2>1 DEF SocketOrTimer, socketVars, runVars
  <2>3. CASE UNCHANGED listVars
    BY <2>1, <2>2, <2>3 DEF HistoryAwaited, listVars, runVars
  <2>4. CASE mounted /\ onmessage(aired')
    <3>1. hydrated' = hydrated /\ (hydrated => buffered' = buffered)
      BY <2>4 DEF onmessage
    <3> QED BY <2>1, <2>2, <2>4, <3>1 DEF HistoryAwaited, runVars
  <2> QED BY <1>2, <2>2, <2>3, <2>4 DEF Air
<1>3. CASE Remount
  BY <1>3 DEF Remount, SocketOrTimer, HistoryAwaited, listVars
<1>4. ASSUME NEW l \in requests, hydrateHistory(l) PROVE SocketOrTimer' /\ HistoryAwaited'
  <2>1. requests' = requests \ {l} /\ UNCHANGED <<socketVars, mounted, lifecycle>>
    BY <1>4 DEF hydrateHistory
  <2>2. SocketOrTimer'
    BY <2>1 DEF SocketOrTimer, socketVars
  <2>3. CASE l # lifecycle /\ UNCHANGED listVars
    BY <2>1, <2>2, <2>3 DEF HistoryAwaited, listVars
  <2>4. CASE l = lifecycle
    <3>1. PICK h : Hydrate(h)
      BY <1>4, <2>4 DEF hydrateHistory
    <3>2. hydrated' = TRUE /\ buffered' = <<>>
      BY <3>1 DEF Hydrate
    <3>3. mounted' /\ hydrated' /\ lifecycle' \notin requests'
      BY <2>1, <2>4, <3>2 DEF HistoryAwaited
    <3> QED BY <2>2, <3>2, <3>3 DEF HistoryAwaited
  <2> QED BY <1>4, <2>3, <2>4 DEF hydrateHistory
<1> QED BY <1>1, <1>2, <1>3, <1>4

LEMMA AwaitedNext ==
    ASSUME SocketOrTimer, HistoryAwaited, [PagesNext]_pagesVars
    PROVE  SocketOrTimer' /\ HistoryAwaited'
<1>1. CASE ProviderStep
  BY <1>1, ProviderAwaited DEF ProviderStep
<1>2. CASE LeaveConsole
  BY <1>2 DEF LeaveConsole, UnmountProvider, SocketOrTimer, HistoryAwaited
<1>3. CASE EnterConsole
  BY <1>3 DEF EnterConsole, MountProvider, SocketOrTimer, HistoryAwaited, listVars
<1>4. CASE UNCHANGED <<socketVars, runVars, hydrated, buffered>>
  BY <1>4 DEF SocketOrTimer, HistoryAwaited, socketVars, runVars
<1>5. CASE clearEvents
  BY <1>4, <1>5 DEF clearEvents, clearMessages
<1>6. ASSUME UNCHANGED connVars PROVE UNCHANGED <<socketVars, runVars, hydrated, buffered>>
  BY <1>6 DEF connVars, listVars
<1>7. CASE UNCHANGED pagesVars
  BY <1>4, <1>6, <1>7 DEF pagesVars
<1>8. CASE \/ togglePause \/ CloseRow \/ CloseDetail \/ handleCanvasClick \/ handleWheel \/ Redraw
           \/ \E t \in EVENT_TYPES : toggleType(t)
           \/ \E e \in Events : SelectRow(e)
           \/ \E w \in Windows : SetWindow(w)
           \/ \E r \in Routes : Navigate(r)
  <2>1. UNCHANGED connVars
    BY <1>8 DEF togglePause, CloseRow, CloseDetail, handleCanvasClick, handleWheel, Redraw,
                toggleType, SelectRow, SetWindow, Navigate
  <2> QED BY <1>4, <1>6, <2>1
<1> QED BY <1>1, <1>2, <1>3, <1>5, <1>7, <1>8 DEF PagesNext

(* For any feed and any failures: useConnection's provider has either a      *)
(* socket or a timer to make one, and messages are held back only while the  *)
(* history request of the current run is under way, which hydrates once.     *)
THEOREM ConnectionIsAwaited == PagesSpec => [](SocketOrTimer /\ HistoryAwaited)
<1>1. PagesInit => SocketOrTimer /\ HistoryAwaited
  BY DEF PagesInit, ConnInit, SocketOrTimer, HistoryAwaited
<1>2. SocketOrTimer /\ HistoryAwaited /\ [PagesNext]_pagesVars => SocketOrTimer' /\ HistoryAwaited'
  BY AwaitedNext
<1> QED BY <1>1, <1>2, PTL DEF PagesSpec
=============================================================================
