-------------------------- MODULE ProjectionProofs ---------------------------
(***************************************************************************)
(* The tables of Projection are the engine: after every operation they     *)
(* restore it exactly, and no event ever misses the row it is about.       *)
(*                                                                         *)
(* Shows(db, e, X, P, O, m, I) says what the tables in db hold: positions  *)
(* P, open orders O, the mark m, the ids I, and the balances of e but for  *)
(* the accounts X, whose rows are stale.  Each kind of event repairs one   *)
(* part of it, a list of events is followed one event at a time, and what  *)
(* the invariant says is that between operations nothing is stale.         *)
(***************************************************************************)
EXTENDS Projection, PerpProofs

-----------------------------------------------------------------------------
(* A batch, event by event.                                                *)

\* g is the recursive function that Applied is defined by.
IsLog(g, db, events, n) ==
  g = [i \in 0..n |-> IF i = 0 THEN db ELSE Recorded(g[i - 1], events[i])]

LEMMA LogExists ==
  ASSUME NEW db, NEW events, NEW n \in Nat
  PROVE  \E g : IsLog(g, db, events, n)
<1> DEFINE B == {k \in Nat : ~ \E g : IsLog(g, db, events, k)}
<1>1. SUFFICES ASSUME B # {} PROVE FALSE
  BY <1>1
<1>2. PICK k \in B : \A j \in B : k <= j
  <2> HIDE DEF B
  <2>1. B \in SUBSET Nat
    BY DEF B
  <2> QED BY <1>1, <2>1, LeastNumber
<1>3. CASE k = 0
  <2> DEFINE g == [i \in 0..0 |-> db]
  <2>1. IsLog(g, db, events, 0)
    BY DEF IsLog
  <2> QED BY <1>3, <2>1
<1>4. CASE k # 0
  <2>1. k - 1 \in Nat /\ k - 1 \notin B
    BY <1>2, <1>4
  <2>2. PICK g : IsLog(g, db, events, k - 1)
    BY <2>1
  <2> DEFINE last == Recorded(g[k - 1], events[k])
             h == [i \in 0..k |-> IF i = k THEN last ELSE g[i]]
  <2>3. ASSUME NEW i \in 0..k
        PROVE  h[i] = IF i = 0 THEN db ELSE Recorded(h[i - 1], events[i])
    <3>1. CASE i = k
      <4>1. k \in Nat /\ k - 1 \in 0..k /\ k \in 0..k /\ k - 1 # k
        BY <2>1, <1>2
      <4>2. h[k - 1] = g[k - 1] /\ h[k] = last
        BY <4>1
      <4> QED BY <3>1, <4>2, <1>4
    <3>2. CASE i # k /\ i # 0
      <4>1. i \in 0..k - 1 /\ i - 1 \in 0..k /\ i - 1 # k
        BY <3>2, <1>2
      <4>2. g[i] = Recorded(g[i - 1], events[i])
        BY <2>2, <3>2, <4>1 DEF IsLog
      <4>3. h[i] = g[i] /\ h[i - 1] = g[i - 1]
        BY <3>2, <4>1
      <4> HIDE DEF h
      <4> QED BY <3>2, <4>2, <4>3
    <3>3. CASE i # k /\ i = 0
      <4>1. i \in 0..k - 1
        BY <3>3, <1>2
      <4>2. g[0] = db
        BY <2>2, <3>3, <4>1 DEF IsLog
      <4> QED BY <3>3, <4>2
    <3> QED BY <3>1, <3>2, <3>3
  <2> HIDE DEF last
  <2>4. IsLog(h, db, events, k)
    BY <2>3 DEF IsLog
  <2> QED BY <2>4
<1> QED BY <1>3, <1>4

LEMMA LogOf ==
  ASSUME NEW db, NEW events, NEW n \in Nat, n = Len(events)
  PROVE  \E g : IsLog(g, db, events, n) /\ Applied(db, events) = g[n]
<1>1. Applied(db, events) = (CHOOSE g : IsLog(g, db, events, n))[n]
  BY DEF Applied, IsLog
<1>2. \E g : IsLog(g, db, events, n)
  BY LogExists
<1>3. IsLog(CHOOSE g : IsLog(g, db, events, n), db, events, n)
  BY <1>2
<1> QED BY <1>1, <1>3

\* A stretch of a log is the log of those events.
LEMMA LogPart ==
  ASSUME NEW g, NEW db, NEW events, NEW n \in Nat, IsLog(g, db, events, n),
         NEW k \in Nat, NEW m \in Nat, k + m <= n,
         NEW part, Len(part) = m, \A i \in 1..m : part[i] = events[k + i]
  PROVE  Applied(g[k], part) = g[k + m]
<1>d. PICK d : d = g[k]
  OBVIOUS
<1>1. PICK h : IsLog(h, d, part, m) /\ Applied(d, part) = h[m]
  BY LogOf
<1>2. h[0] = d /\ \A i \in 1..m : h[i] = Recorded(h[i - 1], part[i])
  <2>1. 0 \in 0..m /\ \A i \in 1..m : i \in 0..m /\ i # 0
    OBVIOUS
  <2> QED BY <1>1, <2>1 DEF IsLog
<1>n. \A i \in 1..n : g[i] = Recorded(g[i - 1], events[i])
  <2>1. \A i \in 1..n : i \in 0..n /\ i # 0
    OBVIOUS
  <2> QED BY <2>1 DEF IsLog
<1> DEFINE B == {i \in 0..m : h[i] # g[k + i]}
<1>3. B = {}
  <2> SUFFICES ASSUME B # {} PROVE FALSE
    OBVIOUS
  <2>1. PICK i \in B : \A j \in B : i <= j
    <3>1. B \in SUBSET Nat
      OBVIOUS
    <3> HIDE DEF B
    <3> QED BY <3>1, LeastNumber
  <2>2. CASE i = 0
    BY <1>2, <1>d, <2>1, <2>2
  <2>3. CASE i # 0
    <3>0. i \in 0..m
      BY <2>1
    <3>1. i \in 1..m /\ i - 1 \in 0..m /\ ~(i <= i - 1) /\ k + i \in 1..n
          /\ (k + i) - 1 = k + (i - 1)
      BY <3>0, <2>3
    <3>2. h[i - 1] = g[k + (i - 1)]
      <4>1. i - 1 \notin B
        <5> HIDE DEF B
        <5> QED BY <2>1, <3>1
      <4> QED BY <3>1, <4>1
    <3>3. h[i] = Recorded(h[i - 1], part[i]) /\ part[i] = events[k + i]
      BY <1>2, <3>1
    <3>4. g[k + i] = Recorded(g[k + (i - 1)], events[k + i])
      BY <1>n, <3>1
    <3> QED BY <2>1, <3>2, <3>3, <3>4
  <2> QED BY <2>2, <2>3
<1>4. m \in 0..m
  OBVIOUS
<1>5. h[m] = g[k + m]
  BY <1>3, <1>4
<1> QED BY <1>1, <1>5, <1>d

IsList(events) == \E S : events \in Seq(S)

\* The events take the tables from db to end.
Leads(db, events, end) == IsList(events) /\ end = Applied(db, events)

LEMMA LeadsNone ==
  ASSUME NEW db
  PROVE  Leads(db, <<>>, db)
<1>1. <<>> \in Seq({}) /\ Len(<<>>) = 0
  BY EmptySeq
<1>2. PICK g : IsLog(g, db, <<>>, 0) /\ Applied(db, <<>>) = g[0]
  BY <1>1, LogOf
<1>3. 0 \in 0..0
  OBVIOUS
<1>4. g[0] = db
  BY <1>2, <1>3 DEF IsLog
<1> QED BY <1>1, <1>2, <1>4 DEF Leads, IsList

LEMMA LeadsOne ==
  ASSUME NEW db, NEW ev
  PROVE  Leads(db, <<ev>>, Recorded(db, ev))
<1>0. PICK s : s = <<ev>>
  OBVIOUS
<1>1. s \in Seq({ev}) /\ Len(s) = 1 /\ s[1] = ev
  BY <1>0
<1>2. PICK g : IsLog(g, db, s, 1) /\ Applied(db, s) = g[1]
  BY <1>1, LogOf
<1>3. 0 \in 0..1 /\ 1 \in 0..1
  OBVIOUS
<1>4. g[0] = db /\ g[1] = Recorded(g[0], s[1])
  BY <1>2, <1>3 DEF IsLog
<1>5. IsList(s)
  BY <1>1 DEF IsList
<1> QED BY <1>0, <1>1, <1>2, <1>4, <1>5 DEF Leads

LEMMA Joins ==
  ASSUME NEW a, NEW b, IsList(a), IsList(b)
  PROVE  /\ IsList(a \o b) /\ Len(a) \in Nat /\ Len(b) \in Nat
         /\ Len(a \o b) = Len(a) + Len(b)
         /\ \A i \in 1..Len(a) : (a \o b)[i] = a[i]
         /\ \A i \in 1..Len(b) : (a \o b)[Len(a) + i] = b[i]
<1>1. PICK S : a \in Seq(S)
  BY DEF IsList
<1>2. PICK T : b \in Seq(T)
  BY DEF IsList
<1>3. a \in Seq(S \cup T) /\ b \in Seq(S \cup T)
  BY <1>1, <1>2
<1>m. PICK m \in Nat : m = Len(a)
  BY <1>1
<1>n. PICK n \in Nat : n = Len(b)
  BY <1>2
<1>4. /\ a \o b \in Seq(S \cup T) /\ Len(a \o b) = m + n
      /\ \A i \in 1..m + n : (a \o b)[i] = IF i <= m THEN a[i] ELSE b[i - m]
  BY <1>3, <1>m, <1>n, ConcatProperties
<1>5. \A i \in 1..m : i \in 1..m + n /\ i <= m
  OBVIOUS
<1>6. \A i \in 1..n : m + i \in 1..m + n /\ ~(m + i <= m) /\ (m + i) - m = i
  OBVIOUS
<1>7. IsList(a \o b)
  BY <1>4 DEF IsList
<1>8. \A i \in 1..m : (a \o b)[i] = a[i]
  BY <1>4, <1>5
<1>9. \A i \in 1..n : (a \o b)[m + i] = b[i]
  BY <1>4, <1>6
<1> QED BY <1>4, <1>7, <1>8, <1>9, <1>m, <1>n

LEMMA LeadsThen ==
  ASSUME NEW x, NEW a, NEW y, NEW b, NEW z, Leads(x, a, y), Leads(y, b, z)
  PROVE  Leads(x, a \o b, z)
<1>c. PICK c : c = a \o b
  OBVIOUS
<1>0. IsList(a) /\ IsList(b)
  BY DEF Leads
<1>1. /\ IsList(c) /\ Len(a) \in Nat /\ Len(b) \in Nat
      /\ Len(c) = Len(a) + Len(b)
      /\ \A i \in 1..Len(a) : c[i] = a[i]
      /\ \A i \in 1..Len(b) : c[Len(a) + i] = b[i]
  BY <1>0, <1>c, Joins
<1>m. PICK m \in Nat : m = Len(a)
  BY <1>1
<1>n. PICK n \in Nat : n = Len(b)
  BY <1>1
<1>2. PICK N \in Nat : N = m + n /\ Len(c) = N
  <2>1. m + n \in Nat /\ Len(c) = m + n
    BY <1>1, <1>m, <1>n
  <2> QED BY <2>1
<1>3. PICK g : IsLog(g, x, c, N) /\ Applied(x, c) = g[N]
  BY <1>2, LogOf
<1>4. g[0] = x
  <2>1. 0 \in 0..N
    OBVIOUS
  <2> QED BY <1>3, <2>1 DEF IsLog
<1>5. Applied(g[0], a) = g[0 + m]
  <2>1. \A i \in 1..m : a[i] = c[0 + i]
    BY <1>1, <1>m
  <2>2. 0 + m <= N /\ 0 \in Nat
    BY <1>2
  <2>3. IsLog(g, x, c, N) /\ Len(a) = m
    BY <1>3, <1>m
  <2> QED BY <2>1, <2>2, <2>3, LogPart
<1>6. Applied(g[m], b) = g[m + n]
  <2>1. \A i \in 1..n : b[i] = c[m + i]
    BY <1>1, <1>m, <1>n
  <2>2. m + n <= N
    BY <1>2
  <2>3. IsLog(g, x, c, N) /\ Len(b) = n
    BY <1>3, <1>n
  <2> QED BY <2>1, <2>2, <2>3, LogPart
<1>7. 0 + m = m
  OBVIOUS
<1>8. y = g[m]
  BY <1>4, <1>5, <1>7 DEF Leads
<1>9. z = g[N]
  BY <1>2, <1>6, <1>8 DEF Leads
<1> QED BY <1>1, <1>3, <1>9, <1>c DEF Leads

LEMMA LeadsIf ==
  ASSUME NEW db, NEW condition, NEW events, NEW end,
         condition => Leads(db, events, end), ~condition => end = db
  PROVE  Leads(db, If(condition, events), end)
BY LeadsNone DEF If

LEMMA LeadsTwo ==
  ASSUME NEW db, NEW a, NEW b
  PROVE  Leads(db, <<a, b>>, Recorded(Recorded(db, a), b))
<1>1. <<a>> \o <<b>> = <<a, b>>
  <2>1. PICK x, y, z, S : x = <<a>> /\ y = <<b>> /\ z = <<a, b>> /\ S = {a, b}
    OBVIOUS
  <2>2. /\ x \in Seq(S) /\ Len(x) = 1 /\ x[1] = a /\ y \in Seq(S) /\ Len(y) = 1
        /\ y[1] = b
    BY <2>1
  <2>3. z \in Seq(S) /\ Len(z) = 2 /\ z[1] = a /\ z[2] = b
    BY <2>1
  <2>4. /\ x \o y \in Seq(S) /\ Len(x \o y) = 2
        /\ \A i \in 1..2 : (x \o y)[i] = IF i <= 1 THEN x[i] ELSE y[i - 1]
    BY <2>2, ConcatProperties
  <2>5. \A i \in 1..2 : (x \o y)[i] = z[i]
    BY <2>2, <2>3, <2>4
  <2>6. x \o y = z
    BY <2>3, <2>4, <2>5, SeqEqual
  <2> QED BY <2>1, <2>6
<1>2. Leads(db, <<a>> \o <<b>>, Recorded(Recorded(db, a), b))
  BY LeadsOne, LeadsThen
<1> QED BY <1>1, <1>2

LEMMA LeadsThree ==
  ASSUME NEW db, NEW a, NEW b, NEW c
  PROVE  Leads(db, <<a, b, c>>, Recorded(Recorded(Recorded(db, a), b), c))
<1>1. <<a, b>> \o <<c>> = <<a, b, c>>
  <2>1. PICK x, y, z, S :
          x = <<a, b>> /\ y = <<c>> /\ z = <<a, b, c>> /\ S = {a, b, c}
    OBVIOUS
  <2>2. /\ x \in Seq(S) /\ Len(x) = 2 /\ x[1] = a /\ x[2] = b
        /\ y \in Seq(S) /\ Len(y) = 1 /\ y[1] = c
    BY <2>1
  <2>3. z \in Seq(S) /\ Len(z) = 3 /\ z[1] = a /\ z[2] = b /\ z[3] = c
    BY <2>1
  <2>4. /\ x \o y \in Seq(S) /\ Len(x \o y) = 3
        /\ \A i \in 1..3 : (x \o y)[i] = IF i <= 2 THEN x[i] ELSE y[i - 2]
    <3>1. x \in Seq(S) /\ y \in Seq(S)
      BY <2>2
    <3>2. /\ x \o y \in Seq(S) /\ Len(x \o y) = Len(x) + Len(y)
          /\ \A i \in 1..Len(x) + Len(y) :
               (x \o y)[i] = IF i <= Len(x) THEN x[i] ELSE y[i - Len(x)]
      BY <3>1, ConcatProperties
    <3>3. Len(x) = 2 /\ Len(x) + Len(y) = 3
      BY <2>2
    <3> QED BY <3>2, <3>3
  <2>5. \A i \in 1..3 : (x \o y)[i] = z[i]
    BY <2>2, <2>3, <2>4
  <2>6. x \o y = z
    BY <2>3, <2>4, <2>5, SeqEqual
  <2> QED BY <2>1, <2>6
<1>2. Leads(db, <<a, b>> \o <<c>>, Recorded(Recorded(Recorded(db, a), b), c))
  BY LeadsOne, LeadsTwo, LeadsThen
<1> QED BY <1>1, <1>2

\* f is the recursive function that FlattenSeq is defined by.
IsFlat(f, lists, n) ==
  f = [i \in 1..n |-> IF i = 1 THEN lists[i] ELSE f[i - 1] \o lists[i]]

LEMMA FlatExists ==
  ASSUME NEW lists, NEW n \in Nat
  PROVE  \E f : IsFlat(f, lists, n)
<1> DEFINE B == {k \in Nat : ~ \E f : IsFlat(f, lists, k)}
<1>1. SUFFICES ASSUME B # {} PROVE FALSE
  BY <1>1
<1>2. PICK k \in B : \A j \in B : k <= j
  <2> HIDE DEF B
  <2>1. B \in SUBSET Nat
    BY DEF B
  <2> QED BY <1>1, <2>1, LeastNumber
<1>3. CASE k = 0
  <2> DEFINE f == [i \in {} |-> 0]
  <2>1. 1..0 = {}
    OBVIOUS
  <2>2. IsFlat(f, lists, 0)
    BY <2>1 DEF IsFlat
  <2> QED BY <1>3, <2>2
<1>4. CASE k # 0
  <2>1. k - 1 \in Nat /\ k - 1 \notin B
    BY <1>2, <1>4
  <2>2. PICK f : IsFlat(f, lists, k - 1)
    BY <2>1
  <2> DEFINE last == IF k = 1 THEN lists[k] ELSE f[k - 1] \o lists[k]
             h == [i \in 1..k |-> IF i = k THEN last ELSE f[i]]
  <2>3. ASSUME NEW i \in 1..k
        PROVE  h[i] = IF i = 1 THEN lists[i] ELSE h[i - 1] \o lists[i]
    <3>1. CASE i = k
      <4>1. k \in 1..k /\ (k # 1 => k - 1 \in 1..k /\ k - 1 # k)
        BY <2>1, <1>2
      <4>2. h[k] = last /\ (k # 1 => h[k - 1] = f[k - 1])
        BY <4>1
      <4> HIDE DEF h
      <4> QED BY <3>1, <4>2
    <3>2. CASE i # k
      <4>1. i \in 1..k - 1 /\ (i # 1 => i - 1 \in 1..k /\ i - 1 # k)
        BY <3>2, <1>2
      <4>2. f[i] = IF i = 1 THEN lists[i] ELSE f[i - 1] \o lists[i]
        BY <2>2, <4>1 DEF IsFlat
      <4>3. h[i] = f[i] /\ (i # 1 => h[i - 1] = f[i - 1])
        BY <3>2, <4>1
      <4> HIDE DEF h
      <4> QED BY <4>2, <4>3
    <3> QED BY <3>1, <3>2
  <2> HIDE DEF last
  <2>4. IsFlat(h, lists, k)
    BY <2>3 DEF IsFlat
  <2> QED BY <2>4
<1> QED BY <1>3, <1>4

\* Lists of events, one list after the other.
LEMMA FlattenLeads ==
  ASSUME NEW db, NEW n \in Nat, NEW lists, lists = [i \in 1..n |-> lists[i]],
         \A i \in 1..n : IsList(lists[i])
  PROVE  \E D : /\ D[0] = db
                /\ \A i \in 1..n : Leads(D[i - 1], lists[i], D[i])
                /\ Leads(db, FlattenSeq(lists), D[n])
<1>1. /\ Len(lists) = n
      /\ n = 0 => lists = <<>>
  <2>1. PICK T : T = {lists[i] : i \in 1..n}
    OBVIOUS
  <2>2. lists \in [1..n -> T]
    BY <2>1
  <2>3. lists \in Seq(T) /\ Len(lists) = n
    BY <2>2
  <2>4. lists # <<>> => Len(lists) \in Nat \ {0}
    BY <2>3, EmptySeq
  <2> QED BY <2>3, <2>4
<1>2. PICK f : IsFlat(f, lists, n) /\ (n # 0 => FlattenSeq(lists) = f[n])
  <2>1. PICK k \in Nat : k = n /\ Len(lists) = k
    BY <1>1
  <2>2. \E f : IsFlat(f, lists, k)
    BY FlatExists
  <2> DEFINE f == CHOOSE f : IsFlat(f, lists, k)
  <2>3. IsFlat(f, lists, k)
    BY <2>2
  <2>4. k # 0 => FlattenSeq(lists) = f[k]
    BY <2>1 DEF FlattenSeq, IsFlat
  <2> HIDE DEF f
  <2> QED BY <2>1, <2>3, <2>4
<1>3. \A i \in 1..n : f[i] = IF i = 1 THEN lists[i] ELSE f[i - 1] \o lists[i]
  BY <1>2 DEF IsFlat
<1> DEFINE F == [i \in 0..n |-> IF i = 0 THEN <<>> ELSE f[i]]
           D == [i \in 0..n |-> Applied(db, F[i])]
<1>4. F[0] = <<>> /\ \A i \in 1..n : F[i] = F[i - 1] \o lists[i]
  <2>1. ASSUME NEW i \in 1..n PROVE F[i] = F[i - 1] \o lists[i]
    <3>1. i \in 0..n /\ i # 0 /\ i - 1 \in 0..n /\ (i # 1 => i - 1 # 0) /\ 0 \in 0..n
      OBVIOUS
    <3>2. F[i] = f[i] /\ F[0] = <<>> /\ (i # 1 => F[i - 1] = f[i - 1])
      BY <3>1
    <3>3. CASE i = 1
      <4>1. PICK S : lists[i] \in Seq(S)
        BY DEF IsList
      <4>2. <<>> \o lists[i] = lists[i]
        BY <4>1, ConcatEmptySeq
      <4>3. F[i - 1] = <<>>
        BY <3>2, <3>3
      <4>4. f[i] = lists[i]
        BY <1>3, <3>3
      <4> QED BY <3>2, <4>2, <4>3, <4>4
    <3>4. CASE i # 1
      <4>1. f[i] = f[i - 1] \o lists[i]
        BY <1>3, <3>4
      <4> QED BY <3>2, <3>4, <4>1
    <3> QED BY <3>3, <3>4
  <2>2. 0 \in 0..n
    OBVIOUS
  <2> QED BY <2>1, <2>2
<1>5. \A i \in 0..n : D[i] = Applied(db, F[i])
  OBVIOUS
<1>6. n # 0 => FlattenSeq(lists) = F[n]
  BY <1>2
<1> HIDE DEF F, D
<1>7. FlattenSeq(lists) = F[n]
  <2>1. n = 0 => FlattenSeq(lists) = lists
    BY <1>1 DEF FlattenSeq
  <2> QED BY <1>1, <1>4, <1>6, <2>1
<1> DEFINE B == {i \in 0..n : ~Leads(db, F[i], D[i])}
<1>8. ASSUME NEW i \in 1..n, Leads(db, F[i - 1], D[i - 1])
      PROVE  Leads(D[i - 1], lists[i], D[i]) /\ Leads(db, F[i], D[i])
  <2>1. PICK y : y = Applied(D[i - 1], lists[i])
    OBVIOUS
  <2>2. Leads(D[i - 1], lists[i], y)
    BY <2>1 DEF Leads
  <2>3. Leads(db, F[i - 1] \o lists[i], y)
    BY <1>8, <2>2, LeadsThen
  <2>4. Leads(db, F[i], y)
    BY <1>4, <2>3
  <2>5. i \in 0..n
    OBVIOUS
  <2>6. D[i] = y
    BY <1>5, <2>4, <2>5 DEF Leads
  <2> QED BY <2>2, <2>4, <2>6
<1>9. D[0] = db /\ Leads(db, F[0], D[0])
  <2>1. 0 \in 0..n
    OBVIOUS
  <2>2. D[0] = Applied(db, <<>>)
    BY <1>4, <1>5, <2>1
  <2> QED BY <1>4, <2>2, LeadsNone DEF Leads
<1>10. B = {}
  <2> SUFFICES ASSUME B # {} PROVE FALSE
    OBVIOUS
  <2>1. PICK i \in B : \A j \in B : i <= j
    <3>1. B \in SUBSET Nat
      OBVIOUS
    <3> HIDE DEF B
    <3> QED BY <3>1, LeastNumber
  <2>2. i # 0
    BY <1>9, <2>1
  <2>3. i \in 0..n
    BY <2>1
  <2>4. i \in 1..n /\ i - 1 \in 0..n /\ ~(i <= i - 1)
    BY <2>2, <2>3
  <2>5. i - 1 \notin B
    <3> HIDE DEF B
    <3> QED BY <2>1, <2>4
  <2>6. Leads(db, F[i - 1], D[i - 1])
    BY <2>4, <2>5
  <2>7. Leads(db, F[i], D[i])
    BY <1>8, <2>4, <2>6
  <2> QED BY <2>1, <2>7
<1>11. \A i \in 0..n : Leads(db, F[i], D[i])
  BY <1>10
<1> HIDE DEF B
<1>12. ASSUME NEW i \in 1..n PROVE Leads(D[i - 1], lists[i], D[i])
  <2>1. i - 1 \in 0..n
    OBVIOUS
  <2> QED BY <1>8, <1>11, <2>1
<1>13. n \in 0..n
  OBVIOUS
<1> QED BY <1>7, <1>9, <1>11, <1>12, <1>13

-----------------------------------------------------------------------------
(* What the tables show, and what each kind of event makes of it.          *)

IsFunction(f) == f = [x \in DOMAIN f |-> f[x]]

Image(B, P, O, m, I) ==
  [t |-> [balances |-> B, positions |-> P, orders |-> O, mark |-> m, ids |-> I],
   bad |-> FALSE]

Row(e, a) == [available |-> e.available[a], locked |-> e.locked[a]]

Shows(db, e, X, P, O, m, I) ==
  \E B : /\ db = Image(B, P, O, m, I)
         /\ B = [a \in Accounts |-> B[a]]
         /\ \A a \in Accounts \ X : B[a] = Row(e, a)

\* The wallets of e and f are the same but for the accounts Y.
Agree(e, f, Y) ==
  \A a \in Accounts \ Y :
    e.available[a] = f.available[a] /\ e.locked[a] = f.locked[a]

\* More is stale when the wallets move.
LEMMA ShowsOther ==
  ASSUME NEW db, NEW e, NEW X, NEW P, NEW O, NEW m, NEW I, Shows(db, e, X, P, O, m, I),
         NEW f, NEW Y, Agree(e, f, Y), NEW Z, X \subseteq Z, Y \subseteq Z
  PROVE  Shows(db, f, Z, P, O, m, I)
<1>1. PICK B : /\ db = Image(B, P, O, m, I) /\ B = [a \in Accounts |-> B[a]]
               /\ \A a \in Accounts \ X : B[a] = Row(e, a)
  BY DEF Shows
<1>2. \A a \in Accounts \ Z : B[a] = Row(f, a)
  BY <1>1 DEF Agree, Row
<1> QED BY <1>1, <1>2 DEF Shows

\* The only event without a miss is one whose kind is another one's.
LEMMA NoMiss ==
  ASSUME NEW db, NEW B, NEW P, NEW O, NEW m, NEW I, db = Image(B, P, O, m, I),
         NEW ev, ~Misses(db.t, ev)
  PROVE  Recorded(db, ev) = [t |-> Written(db.t, ev), bad |-> FALSE]
<1>1. db.bad = FALSE
  BY DEF Image
<1>2. (db.bad \/ Misses(db.t, ev)) = FALSE
  BY <1>1
<1> QED BY <1>2 DEF Recorded

\* A balance event refreshes one row.
LEMMA ShowsBalance ==
  ASSUME NEW db, NEW e, NEW X, NEW P, NEW O, NEW m, NEW I, Shows(db, e, X, P, O, m, I),
         NEW a \in Accounts, NEW ev, ev = BalanceChanged(e, a)
  PROVE  Shows(Recorded(db, ev), e, X \ {a}, P, O, m, I)
<1>1. PICK B : /\ db = Image(B, P, O, m, I) /\ B = [x \in Accounts |-> B[x]]
               /\ \A x \in Accounts \ X : B[x] = Row(e, x)
  BY DEF Shows
<1>2. /\ ev.kind = "balanceChanged" /\ ev.user = a
      /\ [available |-> ev.available, locked |-> ev.locked] = Row(e, a)
  BY DEF BalanceChanged, Row
<1>3. ~Misses(db.t, ev)
  BY <1>2 DEF Misses
<1>c. PICK C : C = [B EXCEPT ![a] = Row(e, a)]
  OBVIOUS
<1>4. Written(db.t, ev) = [balances |-> C, positions |-> P, orders |-> O, mark |-> m,
                           ids |-> I]
  <2>1. db.t = [balances |-> B, positions |-> P, orders |-> O, mark |-> m, ids |-> I]
    BY <1>1 DEF Image
  <2>2. Written(db.t, ev) = [db.t EXCEPT !.balances[a] = Row(e, a)]
    BY <1>2 DEF Written
  <2> QED BY <2>1, <2>2, <1>c
<1>5. Recorded(db, ev) = Image(C, P, O, m, I)
  BY <1>1, <1>3, <1>4, NoMiss DEF Image
<1>6. C = [x \in Accounts |-> C[x]] /\ \A x \in Accounts \ (X \ {a}) : C[x] = Row(e, x)
  BY <1>1, <1>c
<1> QED BY <1>5, <1>6 DEF Shows

\* What a position event makes of the positions.
Placed(P, e, u) ==
  IF u \in DOMAIN e.positions THEN Having(P, u, e.positions[u]) ELSE Without(P, {u})

LEMMA ShowsPosition ==
  ASSUME NEW db, NEW e, NEW X, NEW P, NEW O, NEW m, NEW I, Shows(db, e, X, P, O, m, I),
         NEW f, NEW u, NEW ev, ev = PositionChanged(f, u)
  PROVE  Shows(Recorded(db, ev), e, X, Placed(P, f, u), O, m, I)
<1>1. PICK B : /\ db = Image(B, P, O, m, I) /\ B = [x \in Accounts |-> B[x]]
               /\ \A x \in Accounts \ X : B[x] = Row(e, x)
  BY DEF Shows
<1>r. PICK rows : rows = Restrict(f.positions, DOMAIN f.positions \cap {u})
  OBVIOUS
<1>2. ev.kind = "positionChanged" /\ ev.user = u /\ ev.rows = rows
  BY <1>r DEF PositionChanged
<1>3. ~Misses(db.t, ev)
  BY <1>2 DEF Misses
<1>4. Written(db.t, ev) = [balances |-> B, positions |-> Placed(P, f, u), orders |-> O,
                           mark |-> m, ids |-> I]
  <2>1. db.t = [balances |-> B, positions |-> P, orders |-> O, mark |-> m, ids |-> I]
    BY <1>1 DEF Image
  <2>2. Written(db.t, ev) =
          [db.t EXCEPT !.positions = IF rows = << >> THEN Without(@, {u})
                                     ELSE Having(@, u, rows[u])]
    BY <1>2 DEF Written
  <2>3. CASE u \in DOMAIN f.positions
    <3>1. u \in DOMAIN rows /\ rows[u] = f.positions[u]
      BY <1>r, <2>3 DEF Restrict
    <3>2. rows # << >>
      BY <3>1, EmptySeq
    <3> QED BY <2>1, <2>2, <2>3, <3>1, <3>2 DEF Placed
  <2>4. CASE u \notin DOMAIN f.positions
    <3>1. rows = << >>
      <4>1. DOMAIN f.positions \cap {u} = {}
        BY <2>4
      <4>2. rows = [x \in {} |-> f.positions[x]]
        BY <1>r, <4>1 DEF Restrict
      <4> QED BY <4>2
    <3> QED BY <2>1, <2>2, <2>4, <3>1 DEF Placed
  <2> QED BY <2>3, <2>4
<1>5. Recorded(db, ev) = Image(B, Placed(P, f, u), O, m, I)
  BY <1>1, <1>3, <1>4, NoMiss DEF Image
<1> QED BY <1>1, <1>5 DEF Shows

LEMMA ShowsAccepted ==
  ASSUME NEW db, NEW e, NEW X, NEW P, NEW O, NEW m, NEW I, Shows(db, e, X, P, O, m, I),
         NEW o, o.id \notin I
  PROVE  Shows(Recorded(db, Accepted(o)), e, X, P, Having(O, o.id, o), m, I \cup {o.id})
<1>1. PICK B : /\ db = Image(B, P, O, m, I) /\ B = [x \in Accounts |-> B[x]]
               /\ \A x \in Accounts \ X : B[x] = Row(e, x)
  BY DEF Shows
<1>e. PICK ev : ev = Accepted(o)
  OBVIOUS
<1>2. ev.kind = "orderAccepted" /\ ev.order = o
  BY <1>e DEF Accepted
<1>d. db.t = [balances |-> B, positions |-> P, orders |-> O, mark |-> m, ids |-> I]
  BY <1>1 DEF Image
<1>3. ~Misses(db.t, ev)
  BY <1>2, <1>d DEF Misses
<1>4. Written(db.t, ev) = [balances |-> B, positions |-> P, orders |-> Having(O, o.id, o),
                           mark |-> m, ids |-> I \cup {o.id}]
  <2>1. Written(db.t, ev) = [db.t EXCEPT !.orders = Having(@, ev.order.id, ev.order),
                                         !.ids = @ \cup {ev.order.id}]
    BY <1>2 DEF Written
  <2>2. PICK live, used : live = Having(O, o.id, o) /\ used = I \cup {o.id}
    OBVIOUS
  <2>3. Written(db.t, ev) = [db.t EXCEPT !.orders = live, !.ids = used]
    BY <1>2, <1>d, <2>1, <2>2
  <2>4. Written(db.t, ev) = [balances |-> B, positions |-> P, orders |-> live,
                             mark |-> m, ids |-> used]
    <3>1. PICK t : t = db.t
      OBVIOUS
    <3>2. [t EXCEPT !.orders = live, !.ids = used] =
            [balances |-> B, positions |-> P, orders |-> live, mark |-> m, ids |-> used]
      <4>1. PICK u : u = [t EXCEPT !.orders = live]
        OBVIOUS
      <4>2. u = [balances |-> B, positions |-> P, orders |-> live, mark |-> m,
                 ids |-> I]
        BY <1>d, <3>1, <4>1
      <4>3. [t EXCEPT !.orders = live, !.ids = used] = [u EXCEPT !.ids = used]
        BY <4>1
      <4> QED BY <4>2, <4>3
    <3> QED BY <2>3, <3>1, <3>2
  <2> QED BY <2>2, <2>4
<1>5. Recorded(db, ev) = Image(B, P, Having(O, o.id, o), m, I \cup {o.id})
  BY <1>1, <1>3, <1>4, NoMiss DEF Image
<1> QED BY <1>1, <1>5, <1>e DEF Shows

LEMMA ShowsCancelled ==
  ASSUME NEW db, NEW e, NEW X, NEW P, NEW O, NEW m, NEW I, Shows(db, e, X, P, O, m, I),
         NEW id \in DOMAIN O
  PROVE  Shows(Recorded(db, OrderCancelled(id)), e, X, P, Without(O, {id}), m, I)
<1>1. PICK B : /\ db = Image(B, P, O, m, I) /\ B = [x \in Accounts |-> B[x]]
               /\ \A x \in Accounts \ X : B[x] = Row(e, x)
  BY DEF Shows
<1>e. PICK ev : ev = OrderCancelled(id)
  OBVIOUS
<1>2. ev.kind = "orderCancelled" /\ ev.id = id
  BY <1>e DEF OrderCancelled
<1>d. db.t = [balances |-> B, positions |-> P, orders |-> O, mark |-> m, ids |-> I]
  BY <1>1 DEF Image
<1>3. ~Misses(db.t, ev)
  BY <1>2, <1>d DEF Misses
<1>4. Written(db.t, ev) = [balances |-> B, positions |-> P, orders |-> Without(O, {id}),
                           mark |-> m, ids |-> I]
  BY <1>2, <1>d DEF Written
<1>5. Recorded(db, ev) = Image(B, P, Without(O, {id}), m, I)
  BY <1>1, <1>3, <1>4, NoMiss DEF Image
<1> QED BY <1>1, <1>5, <1>e DEF Shows

LEMMA ShowsTrade ==
  ASSUME NEW db, NEW e, NEW X, NEW P, NEW O, NEW m, NEW I, Shows(db, e, X, P, O, m, I),
         NEW maker, NEW o
  PROVE  Shows(Recorded(db, Trade(maker, o)), e, X, P, Upserted(Upserted(O, maker), o),
               m, I)
<1>1. PICK B : /\ db = Image(B, P, O, m, I) /\ B = [x \in Accounts |-> B[x]]
               /\ \A x \in Accounts \ X : B[x] = Row(e, x)
  BY DEF Shows
<1>e. PICK ev : ev = Trade(maker, o)
  OBVIOUS
<1>2. ev.kind = "trade" /\ ev.maker = maker /\ ev.taker = o
  BY <1>e DEF Trade
<1>d. db.t = [balances |-> B, positions |-> P, orders |-> O, mark |-> m, ids |-> I]
  BY <1>1 DEF Image
<1>3. ~Misses(db.t, ev)
  BY <1>2 DEF Misses
<1>4. Written(db.t, ev) = [balances |-> B, positions |-> P,
                           orders |-> Upserted(Upserted(O, maker), o),
                           mark |-> m, ids |-> I]
  BY <1>2, <1>d DEF Written
<1>5. Recorded(db, ev) = Image(B, P, Upserted(Upserted(O, maker), o), m, I)
  BY <1>1, <1>3, <1>4, NoMiss DEF Image
<1> QED BY <1>1, <1>5, <1>e DEF Shows

LEMMA ShowsMark ==
  ASSUME NEW db, NEW e, NEW X, NEW P, NEW O, NEW m, NEW I, Shows(db, e, X, P, O, m, I),
         NEW n
  PROVE  Shows(Recorded(db, MarkSet(n)), e, X, P, O, n, I)
<1>1. PICK B : /\ db = Image(B, P, O, m, I) /\ B = [x \in Accounts |-> B[x]]
               /\ \A x \in Accounts \ X : B[x] = Row(e, x)
  BY DEF Shows
<1>e. PICK ev : ev = MarkSet(n)
  OBVIOUS
<1>2. ev.kind = "markPrice" /\ ev.price = n
  BY <1>e DEF MarkSet
<1>d. db.t = [balances |-> B, positions |-> P, orders |-> O, mark |-> m, ids |-> I]
  BY <1>1 DEF Image
<1>3. ~Misses(db.t, ev)
  BY <1>2 DEF Misses
<1>4. Written(db.t, ev) = [balances |-> B, positions |-> P, orders |-> O,
                           mark |-> n, ids |-> I]
  BY <1>2, <1>d DEF Written
<1>5. Recorded(db, ev) = Image(B, P, O, n, I)
  BY <1>1, <1>3, <1>4, NoMiss DEF Image
<1> QED BY <1>1, <1>5, <1>e DEF Shows

LEMMA ShowsFunding ==
  ASSUME NEW db, NEW e, NEW X, NEW P, NEW O, NEW m, NEW I, Shows(db, e, X, P, O, m, I),
         NEW u \in DOMAIN P, NEW n
  PROVE  Shows(Recorded(db, FundingApplied(u, n)), e, X,
               [P EXCEPT ![u] = FundedRow(@, n)], O, m, I)
<1>1. PICK B : /\ db = Image(B, P, O, m, I) /\ B = [x \in Accounts |-> B[x]]
               /\ \A x \in Accounts \ X : B[x] = Row(e, x)
  BY DEF Shows
<1>e. PICK ev : ev = FundingApplied(u, n)
  OBVIOUS
<1>2. ev.kind = "fundingApplied" /\ ev.user = u /\ ev.payment = n
  BY <1>e DEF FundingApplied
<1>d. db.t = [balances |-> B, positions |-> P, orders |-> O, mark |-> m, ids |-> I]
  BY <1>1 DEF Image
<1>3. ~Misses(db.t, ev)
  BY <1>2, <1>d DEF Misses
<1>4. Written(db.t, ev) = [balances |-> B,
                           positions |-> [P EXCEPT ![u] = FundedRow(@, n)],
                           orders |-> O, mark |-> m, ids |-> I]
  <2>1. Written(db.t, ev) = [db.t EXCEPT !.positions[u] = FundedRow(@, n)]
    BY <1>2, <1>d DEF Written
  <2> QED BY <1>d, <2>1
<1>5. Recorded(db, ev) = Image(B, [P EXCEPT ![u] = FundedRow(@, n)], O, m, I)
  BY <1>1, <1>3, <1>4, NoMiss DEF Image
<1> QED BY <1>1, <1>5, <1>e DEF Shows

-----------------------------------------------------------------------------
(* Orders that leave the book.                                             *)

LEMMA WithoutNone ==
  ASSUME NEW f, IsFunction(f)
  PROVE  Without(f, {}) = f
BY DEF Without, IsFunction

LEMMA WithoutTwice ==
  ASSUME NEW f, NEW a, NEW b
  PROVE  Without(Without(f, a), b) = Without(f, a \cup b)
<1>1. DOMAIN Without(f, a) = DOMAIN f \ a /\ \A x \in DOMAIN f \ a : Without(f, a)[x] = f[x]
  BY DEF Without
<1>2. (DOMAIN f \ a) \ b = DOMAIN f \ (a \cup b)
  OBVIOUS
<1> QED BY <1>1, <1>2 DEF Without

\* What a cancel does to the wallets.
LEMMA CancelledLedger ==
  ASSUME NEW e, Shape(e), NEW ids, NEW c, c = Cancelled(e, ids)
  PROVE  /\ \A a \in Accounts :
              /\ c.available[a] = e.available[a] + LocksOf(e.orders, ids, a)
              /\ c.locked[a] = e.locked[a] - LocksOf(e.orders, ids, a)
         /\ c.positions = e.positions /\ c.orders = Without(e.orders, ids)
<1>a. PICK x : x = [u \in Accounts |-> e.available[u] + LocksOf(e.orders, ids, u)]
  OBVIOUS
<1>k. PICK l : l = [u \in Accounts |-> e.locked[u] - LocksOf(e.orders, ids, u)]
  OBVIOUS
<1>o. PICK o : o = Without(e.orders, ids)
  OBVIOUS
<1>b. PICK b : b = [s \in Sides |-> Remaining(e.book[s], ids)]
  OBVIOUS
<1>1. c = [e EXCEPT !.available = x, !.locked = l, !.orders = o, !.book = b]
  BY <1>a, <1>k, <1>o, <1>b DEF Cancelled
<1>2. c = [available |-> x, locked |-> l, positions |-> e.positions,
           orders |-> o, book |-> b]
  BY <1>1 DEF Shape, Fields
<1>3. c.available = x /\ c.locked = l /\ c.positions = e.positions /\ c.orders = o
  BY <1>2
<1>4. ASSUME NEW a \in Accounts
      PROVE  /\ c.available[a] = e.available[a] + LocksOf(e.orders, ids, a)
             /\ c.locked[a] = e.locked[a] - LocksOf(e.orders, ids, a)
  <2>1. x[a] = e.available[a] + LocksOf(e.orders, ids, a)
    BY <1>a
  <2>2. l[a] = e.locked[a] - LocksOf(e.orders, ids, a)
    BY <1>k
  <2> QED BY <1>3, <2>1, <2>2
<1> QED BY <1>3, <1>4, <1>o

LEMMA LocksOfOne ==
  ASSUME NEW live, LockTable(live), NEW id \in DOMAIN live, NEW u
  PROVE  LocksOf(live, {id}, u) = IF live[id].user = u THEN live[id].lock ELSE 0
<1>g. PICK g : g = Shares(live, u)
  OBVIOUS
<1>1. g[id] = IF live[id].user = u THEN live[id].lock ELSE 0
  BY <1>g DEF Shares
<1>2. g[id] \in Int
  BY <1>1 DEF LockTable
<1>3. {id} \in SUBSET (DOMAIN live) /\ IsFiniteSet({id}) /\ {id} \ {id} = {}
  BY FS_Singleton
<1>4. LocksOf(live, {id}, u) = SumFunctionOnSet(g, {id})
  BY <1>3, <1>g, LocksAre
<1>5. SumFunctionOnSet(g, {id}) = g[id] + SumFunctionOnSet(g, {id} \ {id})
  BY <1>2, <1>3, SumTakeOut
<1>6. SumFunctionOnSet(g, {}) = 0
  BY FS_EmptySet, SumZero
<1> QED BY <1>1, <1>2, <1>3, <1>4, <1>5, <1>6

\* One order's cancel moves its trader's row only, and that if it had a lock.
LEMMA CancelRows ==
  ASSUME NEW e, Shape(e), NEW id \in DOMAIN e.orders, NEW c, c = Cancelled(e, {id})
  PROVE  /\ e.orders[id].lock \in Nat /\ e.orders[id].user \in Accounts
         /\ Agree(e, c, {e.orders[id].user})
         /\ e.orders[id].lock = 0 => Agree(e, c, {})
<1>1. LockTable(e.orders) /\ e.orders[id].lock \in Nat
  BY RestingTable DEF Shape
<1>2. e.orders[id].user \in Accounts
  BY AccountsFinite DEF Shape, Resting, Sound, Order
<1>3. ASSUME NEW a \in Accounts
      PROVE  /\ c.available[a] = e.available[a] + LocksOf(e.orders, {id}, a)
             /\ c.locked[a] = e.locked[a] - LocksOf(e.orders, {id}, a)
             /\ e.available[a] \in Int /\ e.locked[a] \in Int
             /\ LocksOf(e.orders, {id}, a) =
                  IF e.orders[id].user = a THEN e.orders[id].lock ELSE 0
  <2>1. LocksOf(e.orders, {id}, a) =
          IF e.orders[id].user = a THEN e.orders[id].lock ELSE 0
    BY <1>1, LocksOfOne
  <2>2. e.available[a] \in Int /\ e.locked[a] \in Int
    BY DEF Shape
  <2> QED BY <2>1, <2>2, CancelledLedger
<1>4. \A a \in Accounts : e.orders[id].user # a \/ e.orders[id].lock = 0 =>
        e.available[a] = c.available[a] /\ e.locked[a] = c.locked[a]
  <2>1. ASSUME NEW a \in Accounts, e.orders[id].user # a \/ e.orders[id].lock = 0
        PROVE  e.available[a] = c.available[a] /\ e.locked[a] = c.locked[a]
    <3>1. PICK k : k = LocksOf(e.orders, {id}, a)
      OBVIOUS
    <3>2. k = 0
      BY <1>3, <2>1, <3>1
    <3>3. c.available[a] = e.available[a] + k /\ c.locked[a] = e.locked[a] - k
      BY <1>3, <3>1
    <3>4. e.available[a] \in Int /\ e.locked[a] \in Int
      BY <1>3
    <3> QED BY <3>2, <3>3, <3>4
  <2> QED BY <2>1
<1> QED BY <1>1, <1>2, <1>4 DEF Agree

LEMMA CancelLeads ==
  ASSUME NEW e, Shape(e), NEW id \in DOMAIN e.orders,
         NEW db, NEW X, NEW P, NEW O, NEW m, NEW I, Shows(db, e, X, P, O, m, I),
         id \in DOMAIN O
  PROVE  \E end : /\ Leads(db, CancelEvents(e, id), end)
                  /\ Shows(end, Cancelled(e, {id}), X, P, Without(O, {id}), m, I)
<1>c. PICK c, u, k : /\ c = Cancelled(e, {id}) /\ u = e.orders[id].user
                     /\ k = e.orders[id].lock
  OBVIOUS
<1>1. k \in Nat /\ u \in Accounts /\ Agree(e, c, {u}) /\ (k = 0 => Agree(e, c, {}))
  BY <1>c, CancelRows
<1>x. PICK x, y : /\ x = Recorded(db, OrderCancelled(id))
                  /\ y = IF k > 0 THEN Recorded(x, BalanceChanged(c, u)) ELSE x
  OBVIOUS
<1>2. Shows(x, e, X, P, Without(O, {id}), m, I)
  BY <1>x, ShowsCancelled
<1>3. Leads(db, <<OrderCancelled(id)>>, x)
  BY <1>x, LeadsOne
<1>4. Leads(x, If(k > 0, <<BalanceChanged(c, u)>>), y)
  <2>1. k > 0 => Leads(x, <<BalanceChanged(c, u)>>, y)
    BY <1>x, LeadsOne
  <2>2. ~(k > 0) => y = x
    BY <1>x
  <2> QED BY <2>1, <2>2, LeadsIf
<1>5. Leads(db, CancelEvents(e, id), y)
  BY <1>3, <1>4, <1>c, LeadsThen DEF CancelEvents
<1>6. Shows(y, c, X, P, Without(O, {id}), m, I)
  <2>1. CASE k > 0
    <3>1. Shows(x, c, X \cup {u}, P, Without(O, {id}), m, I)
      BY <1>1, <1>2, ShowsOther
    <3>2. Shows(y, c, (X \cup {u}) \ {u}, P, Without(O, {id}), m, I)
      BY <1>1, <1>x, <2>1, <3>1, ShowsBalance
    <3>3. Agree(c, c, {})
      BY DEF Agree
    <3> QED BY <3>2, <3>3, ShowsOther
  <2>2. CASE ~(k > 0)
    <3>1. Agree(e, c, {}) /\ y = x
      BY <1>1, <1>x, <2>2
    <3> QED BY <1>2, <3>1, ShowsOther
  <2> QED BY <2>1, <2>2
<1> QED BY <1>5, <1>6, <1>c

LEMMA LeadsUnique ==
  ASSUME NEW db, NEW events, NEW a, Leads(db, events, a), NEW b, Leads(db, events, b)
  PROVE  a = b
BY DEF Leads

LEMMA LocksMore ==
  ASSUME NEW live, LockTable(live), NEW ids \in SUBSET (DOMAIN live),
         NEW id \in DOMAIN live, id \notin ids, NEW u
  PROVE  /\ LocksOf(live, ids \cup {id}, u)
              = LocksOf(live, ids, u) + IF live[id].user = u THEN live[id].lock ELSE 0
         /\ LocksOf(live, ids, u) \in Int
<1>g. PICK g : g = Shares(live, u)
  OBVIOUS
<1>t. PICK t \in SUBSET (DOMAIN live) : t = ids \cup {id}
  OBVIOUS
<1>1. g[id] = IF live[id].user = u THEN live[id].lock ELSE 0
  BY <1>g DEF Shares
<1>2. IsFiniteSet(t) /\ id \in t /\ t \ {id} = ids
  BY <1>t, FS_Subset DEF LockTable
<1>3. \A x \in t : g[x] \in Int
  BY <1>g DEF Shares, LockTable
<1>4. SumFunctionOnSet(g, t) = g[id] + SumFunctionOnSet(g, t \ {id})
  BY <1>2, <1>3, SumTakeOut
<1>5. LocksOf(live, t, u) = SumFunctionOnSet(g, t)
  BY <1>g, LocksAre
<1>6. LocksOf(live, ids, u) = SumFunctionOnSet(g, ids) /\ LocksOf(live, ids, u) \in Int
  BY <1>g, LocksAre
<1>7. g[id] \in Int
  BY <1>2, <1>3
<1>8. LocksOf(live, t, u) = g[id] + LocksOf(live, ids, u)
  BY <1>2, <1>4, <1>5, <1>6
<1>9. LocksOf(live, t, u) = LocksOf(live, ids, u) + g[id]
  BY <1>6, <1>7, <1>8
<1> QED BY <1>1, <1>6, <1>9, <1>t

\* One more cancel after others is a cancel of all of them.
LEMMA CancelledMore ==
  ASSUME NEW e, Shape(e), NEW ids \in SUBSET (DOMAIN e.orders),
         NEW id \in DOMAIN e.orders, id \notin ids,
         NEW c, c = Cancelled(e, ids), Shape(c)
  PROVE  Agree(Cancelled(c, {id}), Cancelled(e, ids \cup {id}), {})
<1>d. PICK d, f : d = Cancelled(c, {id}) /\ f = Cancelled(e, ids \cup {id})
  OBVIOUS
<1>1. LockTable(e.orders) /\ LockTable(c.orders)
  BY RestingTable DEF Shape
<1>2. c.orders = Without(e.orders, ids)
  BY CancelledLedger
<1>3. id \in DOMAIN c.orders /\ c.orders[id] = e.orders[id]
  BY <1>2 DEF Without
<1>4. ASSUME NEW a \in Accounts
      PROVE  d.available[a] = f.available[a] /\ d.locked[a] = f.locked[a]
  <2>k. PICK k : k = IF e.orders[id].user = a THEN e.orders[id].lock ELSE 0
    OBVIOUS
  <2>l. PICK l : l = LocksOf(e.orders, ids, a)
    OBVIOUS
  <2>1. LocksOf(c.orders, {id}, a) = k
    BY <1>1, <1>3, <2>k, LocksOfOne
  <2>2. LocksOf(e.orders, ids \cup {id}, a) = l + k /\ l \in Int
    BY <1>1, <2>k, <2>l, LocksMore
  <2>3. k \in Int
    BY <1>1, <2>k DEF LockTable
  <2>4. c.available[a] = e.available[a] + l /\ c.locked[a] = e.locked[a] - l
    BY <2>l, CancelledLedger
  <2>5. d.available[a] = c.available[a] + k /\ d.locked[a] = c.locked[a] - k
    BY <1>d, <2>1, CancelledLedger
  <2>6. f.available[a] = e.available[a] + (l + k) /\ f.locked[a] = e.locked[a] - (l + k)
    BY <1>d, <2>2, CancelledLedger
  <2>7. e.available[a] \in Int /\ e.locked[a] \in Int
    BY DEF Shape
  <2>8. (e.available[a] + l) + k = e.available[a] + (l + k)
        /\ (e.locked[a] - l) - k = e.locked[a] - (l + k)
    BY <2>2, <2>3, <2>7
  <2> QED BY <2>4, <2>5, <2>6, <2>8
<1> QED BY <1>d, <1>4 DEF Agree

\* Nothing is stale that was not, when the wallets are the same.
LEMMA ShowsSame ==
  ASSUME NEW db, NEW e, NEW X, NEW P, NEW O, NEW m, NEW I, Shows(db, e, X, P, O, m, I),
         NEW f, Agree(e, f, {})
  PROVE  Shows(db, f, X, P, O, m, I)
<1>1. X \subseteq X /\ {} \subseteq X
  OBVIOUS
<1> QED BY <1>1, ShowsOther

LEMMA CancelledNone ==
  ASSUME NEW e, Shape(e)
  PROVE  Agree(e, Cancelled(e, {}), {})
<1>c. PICK c : c = Cancelled(e, {})
  OBVIOUS
<1>1. LockTable(e.orders)
  BY RestingTable DEF Shape
<1>2. ASSUME NEW a \in Accounts
      PROVE  e.available[a] = c.available[a] /\ e.locked[a] = c.locked[a]
  <2>1. {} \in SUBSET (DOMAIN e.orders)
    OBVIOUS
  <2>2. LocksOf(e.orders, {}, a) = SumFunctionOnSet(Shares(e.orders, a), {})
    BY <1>1, <2>1, LocksAre
  <2>3. LocksOf(e.orders, {}, a) = 0
    BY <2>2, FS_EmptySet, SumZero
  <2>4. c.available[a] = e.available[a] + 0 /\ c.locked[a] = e.locked[a] - 0
    BY <1>c, <2>3, CancelledLedger
  <2>5. e.available[a] \in Int /\ e.locked[a] \in Int
    BY DEF Shape
  <2> QED BY <2>4, <2>5
<1> QED BY <1>c, <1>2 DEF Agree

LEMMA CancelAllLeads ==
  ASSUME NEW e, NEW extra, NEW n, Good(e, extra, n), NEW ids \in SUBSET (DOMAIN e.orders),
         NEW db, NEW X, NEW P, NEW O, NEW m, NEW I, Shows(db, e, X, P, O, m, I),
         IsFunction(O), ids \subseteq DOMAIN O
  PROVE  \E end : /\ Leads(db, CancelAllEvents(e, ids), end)
                  /\ Shows(end, Cancelled(e, ids), X, P, Without(O, ids), m, I)
<1>q. PICK queue : queue = Ascending(ids)
  OBVIOUS
<1>1. /\ Shape(e) /\ IsFiniteSet(ids) /\ ids \subseteq Int
  BY FS_Subset DEF Good, Shape, Resting
<1>2. /\ queue \in Seq(ids) /\ Len(queue) \in Nat
      /\ \A x \in ids : \E i \in 1..Len(queue) : queue[i] = x
      /\ \A i, j \in 1..Len(queue) : i < j => queue[i] < queue[j]
  <2>1. PICK S : S = ids /\ S \subseteq Int /\ IsFiniteSet(S)
    BY <1>1
  <2>2. queue = Ascending(S)
    BY <1>q, <2>1
  <2>3. /\ queue \in Seq(S) /\ Len(queue) \in Nat
        /\ \A x \in S : \E i \in 1..Len(queue) : queue[i] = x
        /\ \A i, j \in 1..Len(queue) : i < j => queue[i] < queue[j]
    BY <2>1, <2>2, AscendingLists, SMTT(20)
  <2> QED BY <2>1, <2>3
<1>k. PICK k \in Nat : k = Len(queue)
  BY <1>2
<1> DEFINE Gone(i) == {queue[j] : j \in 1..i - 1}
           lists == [i \in 1..k |-> CancelEvents(Cancelled(e, Gone(i)), queue[i])]
<1>3. CancelAllEvents(e, ids) = FlattenSeq(lists)
  <2>1. DOMAIN queue = 1..k
    BY <1>2, <1>k
  <2> QED BY <1>q, <2>1 DEF CancelAllEvents
<1>4. \A i \in 1..k : IsList(lists[i])
  <2> SUFFICES ASSUME NEW i \in 1..k PROVE IsList(lists[i])
    OBVIOUS
  <2>1. PICK f, id : f = Cancelled(e, Gone(i)) /\ id = queue[i]
    OBVIOUS
  <2>2. IsList(CancelEvents(f, id))
    <3>1. PICK s : s = <<OrderCancelled(id)>>
      OBVIOUS
    <3>2. PICK t : t = If(f.orders[id].lock > 0,
                          <<BalanceChanged(Cancelled(f, {id}), f.orders[id].user)>>)
      OBVIOUS
    <3>3. IsList(s)
      BY <3>1, LeadsOne DEF Leads
    <3>4. IsList(<<BalanceChanged(Cancelled(f, {id}), f.orders[id].user)>>)
          /\ IsList(<<>>)
      BY LeadsOne, LeadsNone DEF Leads
    <3>5. IsList(t)
      BY <3>2, <3>4 DEF If
    <3> QED BY <3>1, <3>2, <3>3, <3>5, Joins DEF CancelEvents
  <2> QED BY <2>1, <2>2
<1>5. PICK D : /\ D[0] = db
               /\ \A i \in 1..k : Leads(D[i - 1], lists[i], D[i])
               /\ Leads(db, FlattenSeq(lists), D[k])
  <2>1. lists = [i \in 1..k |-> lists[i]]
    OBVIOUS
  <2> HIDE DEF lists
  <2> QED BY <1>4, <2>1, FlattenLeads
<1>6. Gone(1) = {} /\ Gone(k + 1) = ids
      /\ \A i \in 1..k : /\ Gone(i + 1) = Gone(i) \cup {queue[i]}
                         /\ queue[i] \notin Gone(i) /\ queue[i] \in ids
                         /\ Gone(i) \in SUBSET ids
  <2>1. 1..1 - 1 = {} /\ (k + 1) - 1 = k
    OBVIOUS
  <2>2. \A i \in 1..k : queue[i] \in ids
    BY <1>2, <1>k
  <2>3. Gone(k + 1) = ids
    BY <1>2, <1>k, <2>1, <2>2
  <2>4. ASSUME NEW i \in 1..k
        PROVE  /\ Gone(i + 1) = Gone(i) \cup {queue[i]}
               /\ queue[i] \notin Gone(i) /\ queue[i] \in ids
               /\ Gone(i) \in SUBSET ids
    <3>1. 1..(i + 1) - 1 = (1..i - 1) \cup {i} /\ 1..i - 1 \subseteq 1..k
      OBVIOUS
    <3>2. \A j \in 1..i - 1 : queue[j] < queue[i]
      BY <1>2, <1>k
    <3>3. queue[i] \in Int /\ ~(queue[i] < queue[i])
      BY <1>1, <2>2
    <3> QED BY <2>2, <3>1, <3>2, <3>3
  <2> QED BY <2>1, <2>3, <2>4
<1> DEFINE Done(i) == Shows(D[i], Cancelled(e, Gone(i + 1)), X, P,
                            Without(O, Gone(i + 1)), m, I)
           B == {i \in 0..k : ~Done(i)}
<1>7. \A i \in 1..k : lists[i] = CancelEvents(Cancelled(e, Gone(i)), queue[i])
  OBVIOUS
<1>8. Done(0)
  <2>1. 0 + 1 = 1
    OBVIOUS
  <2>2. Agree(e, Cancelled(e, {}), {}) /\ Without(O, {}) = O
    BY <1>1, CancelledNone, WithoutNone
  <2>3. Shows(db, Cancelled(e, {}), X, P, Without(O, {}), m, I)
    BY <2>2, ShowsSame
  <2> QED BY <1>5, <1>6, <2>1, <2>3
<1> HIDE DEF lists, Gone
<1>9. ASSUME NEW i \in 1..k, Done(i - 1) PROVE Done(i)
  <2>0. (i - 1) + 1 = i
    OBVIOUS
  <2>g. PICK g, id, c : g = Gone(i) /\ id = queue[i] /\ c = Cancelled(e, g)
    OBVIOUS
  <2>1. /\ g \in SUBSET (DOMAIN e.orders) /\ id \in DOMAIN e.orders /\ id \notin g
        /\ id \in DOMAIN O
    BY <1>6, <2>g
  <2>2. /\ Good(c, extra, n) /\ DOMAIN c.orders = DOMAIN e.orders \ g
    BY <2>g, <2>1, CancelledGood
  <2>3. Shape(c) /\ id \in DOMAIN c.orders /\ id \in DOMAIN Without(O, g)
    BY <2>1, <2>2 DEF Good, Without
  <2>4. Shows(D[i - 1], c, X, P, Without(O, g), m, I)
    BY <1>9, <2>0, <2>g
  <2>5. PICK end : /\ Leads(D[i - 1], CancelEvents(c, id), end)
                   /\ Shows(end, Cancelled(c, {id}), X, P, Without(Without(O, g), {id}),
                            m, I)
    BY <2>3, <2>4, CancelLeads
  <2>6. end = D[i]
    BY <1>5, <1>7, <2>5, <2>g, LeadsUnique
  <2>7. Agree(Cancelled(c, {id}), Cancelled(e, g \cup {id}), {})
    BY <1>1, <2>1, <2>3, <2>g, CancelledMore
  <2>8. Shows(end, Cancelled(e, g \cup {id}), X, P, Without(Without(O, g), {id}), m, I)
    BY <2>5, <2>7, ShowsSame
  <2>9. Without(Without(O, g), {id}) = Without(O, g \cup {id})
    BY WithoutTwice
  <2>10. Gone(i + 1) = g \cup {id}
    BY <1>6, <2>g
  <2> QED BY <2>6, <2>8, <2>9, <2>10
<1>10. B = {}
  <2> SUFFICES ASSUME B # {} PROVE FALSE
    OBVIOUS
  <2> HIDE DEF Done
  <2>1. PICK i \in B : \A j \in B : i <= j
    <3>1. B \in SUBSET Nat
      OBVIOUS
    <3> HIDE DEF B
    <3> QED BY <3>1, LeastNumber
  <2>2. i # 0
    BY <1>8, <2>1
  <2>3. i \in 0..k
    BY <2>1
  <2>4. i \in 1..k /\ i - 1 \in 0..k /\ ~(i <= i - 1)
    BY <2>2, <2>3
  <2>5. i - 1 \notin B
    <3> HIDE DEF B
    <3> QED BY <2>1, <2>4
  <2>6. Done(i - 1)
    BY <2>4, <2>5
  <2>7. Done(i)
    BY <1>9, <2>4, <2>6
  <2> QED BY <2>1, <2>7
<1>11. Done(k)
  <2>1. k \in 0..k
    OBVIOUS
  <2> HIDE DEF Done
  <2> QED BY <1>10, <2>1
<1> QED BY <1>3, <1>5, <1>6, <1>11

-----------------------------------------------------------------------------
(* What holds between the steps.                                           *)

\* The rows of open orders: the order in flight is one until it is filled.
OpenRows ==
  IF pc = "match" /\ Rem(taker) > 0 THEN WithOrder(orders, taker) ELSE orders

Tables == [t |-> tables, bad |-> corrupt]

InStep == Shows(Tables, Engine, {}, positions, OpenRows, mark, tables.ids)

LeverageKept ==
  \A id \in DOMAIN LiveOrders :
    LiveOrders[id].leverage = leverages[LiveOrders[id].user]

Restorable ==
  /\ InStep
  /\ tables.ids \subseteq 1..nextId - 1
  /\ IsFunction(orders) /\ IsFunction(positions)
  /\ LeverageKept

ProjInv == PInv /\ Restorable

LEMMA StepShown ==
  ASSUME NEW events, ApplyBatch(events), NEW end, Leads(Tables, events, end), NEW I,
         Shows(end, Engine', {}, positions', OpenRows', mark', I),
         I \subseteq 1..nextId' - 1, IsFunction(orders'), IsFunction(positions'),
         LeverageKept'
  PROVE  Restorable'
<1>1. PICK B : /\ end = Image(B, positions', OpenRows', mark', I)
               /\ B = [a \in Accounts |-> B[a]]
               /\ \A a \in Accounts \ {} : B[a] = Row(Engine', a)
  BY DEF Shows
<1>2. end = [t |-> end.t, bad |-> end.bad] /\ end.t.ids = I
  BY <1>1 DEF Image
<1>3. tables' = end.t /\ corrupt' = end.bad
  BY DEF ApplyBatch, Leads, Tables
<1>4. Tables' = end /\ tables'.ids = I
  BY <1>2, <1>3 DEF Tables
<1>5. Shows(Tables', Engine', {}, positions', OpenRows', mark', tables'.ids)
  BY <1>4
<1>6. InStep'
  BY <1>5 DEF InStep
<1> QED BY <1>4, <1>6 DEF Restorable

LEMMA LeverageStep ==
  ASSUME ProjInv, leverages' = leverages,
         \A id \in DOMAIN LiveOrders' :
           /\ id \in DOMAIN LiveOrders
           /\ LiveOrders'[id].user = LiveOrders[id].user
           /\ LiveOrders'[id].leverage = LiveOrders[id].leverage
  PROVE  LeverageKept'
BY DEF ProjInv, Restorable, LeverageKept

LEMMA WithOrderIs ==
  ASSUME NEW live, NEW o
  PROVE  /\ IsFunction(WithOrder(live, o))
         /\ DOMAIN WithOrder(live, o) = DOMAIN live \cup {o.id}
         /\ WithOrder(live, o)[o.id] = o
         /\ \A x \in DOMAIN live : x # o.id => WithOrder(live, o)[x] = live[x]
BY DEF WithOrder, IsFunction

LEMMA WithoutIs ==
  ASSUME NEW f, NEW ids
  PROVE  /\ IsFunction(Without(f, ids))
         /\ DOMAIN Without(f, ids) = DOMAIN f \ ids
         /\ \A x \in DOMAIN f \ ids : Without(f, ids)[x] = f[x]
BY DEF Without, IsFunction

LEMMA HavingIs ==
  ASSUME NEW f, NEW x, NEW v
  PROVE  /\ IsFunction(Having(f, x, v))
         /\ DOMAIN Having(f, x, v) = DOMAIN f \cup {x}
         /\ Having(f, x, v)[x] = v
         /\ \A y \in DOMAIN f : y # x => Having(f, x, v)[y] = f[y]
BY DEF Having, IsFunction

LEMMA SameFunction ==
  ASSUME NEW f, NEW g, IsFunction(f), IsFunction(g), DOMAIN f = DOMAIN g,
         \A x \in DOMAIN f : f[x] = g[x]
  PROVE  f = g
BY DEF IsFunction

LEMMA WithoutWith ==
  ASSUME NEW live, NEW ids, NEW o, o.id \notin ids
  PROVE  WithOrder(Without(live, ids), o) = Without(WithOrder(live, o), ids)
<1>f. PICK f, g, h, w : /\ f = Without(live, ids) /\ g = WithOrder(f, o)
                        /\ w = WithOrder(live, o) /\ h = Without(w, ids)
  OBVIOUS
<1>1. DOMAIN f = DOMAIN live \ ids /\ \A x \in DOMAIN live \ ids : f[x] = live[x]
  BY <1>f, WithoutIs
<1>2. /\ IsFunction(g) /\ DOMAIN g = DOMAIN f \cup {o.id} /\ g[o.id] = o
      /\ \A x \in DOMAIN f : x # o.id => g[x] = f[x]
  BY <1>f, WithOrderIs, SMTT(20)
<1>3. /\ DOMAIN w = DOMAIN live \cup {o.id} /\ w[o.id] = o
      /\ \A x \in DOMAIN live : x # o.id => w[x] = live[x]
  BY <1>f DEF WithOrder
<1>4. /\ IsFunction(h) /\ DOMAIN h = DOMAIN w \ ids
      /\ \A x \in DOMAIN w \ ids : h[x] = w[x]
  BY <1>f, WithoutIs, ZenonT(30)
<1>5. DOMAIN g = DOMAIN h
  BY <1>1, <1>2, <1>3, <1>4
<1>6. \A x \in DOMAIN g : g[x] = h[x]
  BY <1>1, <1>2, <1>3, <1>4
<1>7. g = h
  BY <1>2, <1>4, <1>5, <1>6, SameFunction
<1> QED BY <1>7, <1>f

\* The rows are there and are functions.
LEMMA Standing ==
  ASSUME ProjInv
  PROVE  /\ Good(Engine, InFlight, supply + phantom) /\ Shape(Engine)
         /\ Shows(Tables, Engine, {}, positions, OpenRows, mark, tables.ids)
         /\ IsFunction(OpenRows) /\ IsFunction(orders) /\ IsFunction(positions)
         /\ DOMAIN orders \subseteq DOMAIN OpenRows
<1>1. IsFunction(OpenRows) /\ DOMAIN orders \subseteq DOMAIN OpenRows
  <2>1. IsFunction(orders)
    BY DEF ProjInv, Restorable
  <2>o. PICK live, o : live = orders /\ o = taker
    OBVIOUS
  <2>w. PICK w : w = WithOrder(live, o)
    OBVIOUS
  <2>2. OpenRows = live \/ OpenRows = w
    BY <2>o, <2>w DEF OpenRows
  <2>3. IsFunction(w) /\ DOMAIN w = DOMAIN live \cup {o.id}
    BY <2>w, WithOrderIs
  <2> QED BY <2>1, <2>2, <2>3, <2>o
<1> QED BY <1>1 DEF ProjInv, Restorable, PInv, Good, InStep

-----------------------------------------------------------------------------
(* Cancels, replacements and quiet steps.                                  *)

LEMMA CancelShown ==
  ASSUME ProjInv, NEW id \in DOMAIN orders, Becomes(Cancelled(Engine, {id})),
         ApplyBatch(CancelEvents(Engine, id)), pc = "match" <=> pc' = "match",
         UNCHANGED <<nextId, taker, leverages, mark>>
  PROVE  Restorable'
<1>c. PICK c : c = Cancelled(Engine, {id})
  OBVIOUS
<1>1. /\ Good(Engine, InFlight, supply + phantom) /\ Shape(Engine)
      /\ Shows(Tables, Engine, {}, positions, OpenRows, mark, tables.ids)
      /\ IsFunction(OpenRows) /\ DOMAIN orders \subseteq DOMAIN OpenRows
  BY Standing
<1>2. Good(c, InFlight, supply + phantom)
  <2>1. {id} \in SUBSET (DOMAIN Engine.orders)
    BY EngineParts
  <2> QED BY <1>1, <1>c, <2>1, CancelledGood
<1>3. Engine' = c
  BY <1>2, <1>c, Became DEF Good, Shape
<1>4. orders' = Without(orders, {id}) /\ positions' = positions
  BY CancelledOrders
<1>5. PICK end :
        /\ Leads(Tables, CancelEvents(Engine, id), end)
        /\ Shows(end, c, {}, positions, Without(OpenRows, {id}), mark, tables.ids)
  <2>1. id \in DOMAIN Engine.orders /\ id \in DOMAIN OpenRows
    BY <1>1, EngineParts
  <2> QED BY <1>1, <1>c, <2>1, CancelLeads
<1>6. OpenRows' = Without(OpenRows, {id})
  <2>1. CASE pc = "match" /\ Rem(taker) > 0
    <3>1. taker.id # id
      BY <2>1 DEF ProjInv, PInv, TakerSound
    <3>2. OpenRows = WithOrder(orders, taker) /\ OpenRows' = WithOrder(orders', taker)
      BY <2>1 DEF OpenRows
    <3>3. WithOrder(Without(orders, {id}), taker) = Without(WithOrder(orders, taker), {id})
      BY <3>1, WithoutWith
    <3> QED BY <1>4, <3>2, <3>3
  <2>2. CASE ~(pc = "match" /\ Rem(taker) > 0)
    <3>1. OpenRows = orders /\ OpenRows' = orders'
      BY <2>2 DEF OpenRows
    <3> QED BY <1>4, <3>1
  <2> QED BY <2>1, <2>2
<1>7. IsFunction(orders') /\ IsFunction(positions')
  BY <1>4, WithoutIs DEF ProjInv, Restorable
<1>8. LeverageKept'
  <2>1. LiveOrders' = Without(LiveOrders, {id})
    <3>1. CASE pc = "match"
      <4>1. taker.id # id
        BY <3>1 DEF ProjInv, PInv, TakerSound
      <4>2. LiveOrders = WithOrder(orders, taker)
            /\ LiveOrders' = WithOrder(Without(orders, {id}), taker)
        BY <1>4, <3>1 DEF LiveOrders
      <4> QED BY <4>1, <4>2, WithoutWith
    <3>2. CASE pc # "match"
      BY <1>4, <3>2 DEF LiveOrders
    <3> QED BY <3>1, <3>2
  <2>2. PICK old, new : old = LiveOrders /\ new = LiveOrders'
    OBVIOUS
  <2>3. \A x \in DOMAIN new : x \in DOMAIN old /\ new[x] = old[x]
    BY <2>1, <2>2 DEF Without
  <2> QED BY <2>2, <2>3, LeverageStep
<1>9. tables.ids \subseteq 1..nextId' - 1
  BY DEF ProjInv, Restorable
<1> QED BY <1>3, <1>4, <1>5, <1>6, <1>7, <1>8, <1>9, StepShown

\* Steps outside matchOrder that leave the orders and positions alone.
LEMMA OrdersStay ==
  ASSUME ProjInv, pc # "match", pc' # "match", UNCHANGED <<orders, positions>>
  PROVE  /\ OpenRows = orders /\ OpenRows' = orders
         /\ IsFunction(orders') /\ IsFunction(positions')
         /\ LiveOrders = orders /\ LiveOrders' = orders
         /\ leverages' = leverages => LeverageKept'
         /\ nextId' = nextId => tables.ids \subseteq 1..nextId' - 1
<1>1. OpenRows = orders /\ OpenRows' = orders /\ LiveOrders = orders /\ LiveOrders' = orders
  BY DEF OpenRows, LiveOrders
<1>2. IsFunction(orders') /\ IsFunction(positions')
  BY DEF ProjInv, Restorable
<1>3. leverages' = leverages => LeverageKept'
  BY <1>1, LeverageStep
<1> QED BY <1>1, <1>2, <1>3 DEF ProjInv, Restorable

LEMMA QuietShown ==
  ASSUME ProjInv, pc # "match", pc' # "match", ApplyBatch(<<>>),
         UNCHANGED <<available, locked, orders, positions, book, mark, nextId>>,
         LeverageKept'
  PROVE  Restorable'
<1>1. Engine' = Engine
  BY DEF Engine
<1>2. Leads(Tables, <<>>, Tables)
  BY LeadsNone
<1>3. Shows(Tables, Engine', {}, positions', OpenRows', mark', tables.ids)
  BY <1>1, Standing, OrdersStay
<1> QED BY <1>2, <1>3, OrdersStay, StepShown

LEMMA RejectShown ==
  ASSUME ProjInv, NEW req \in Incoming, Reject(req), ApplyBatch(<<>>)
  PROVE  Restorable'
<1>1. pc # "match" /\ pc' # "match"
  BY IncomingAsked DEF ProjInv, Reject
<1>2. UNCHANGED <<available, locked, orders, positions, book, mark, nextId, leverages>>
  BY DEF Reject, ledger, settings
<1> QED BY <1>1, <1>2, OrdersStay, QuietShown

LEMMA PassShown ==
  ASSUME ProjInv, PPass
  PROVE  Restorable'
<1>1. pc # "match" /\ pc' # "match"
  BY DEF PPass, PassHealthy, FinishSweep
<1>2. UNCHANGED <<available, locked, orders, positions, book, mark, nextId, leverages>>
  BY DEF PPass, PassHealthy, FinishSweep, ledger, settings
<1>3. ApplyBatch(<<>>)
  BY DEF PPass
<1> QED BY <1>1, <1>2, <1>3, OrdersStay, QuietShown

LEMMA LeverageShown ==
  ASSUME ProjInv, NEW u \in Users, NEW l \in Leverages, PLeverage(u, l)
  PROVE  Restorable'
<1>1. /\ pc = "idle" /\ LeverageFree(u) /\ ApplyBatch(<<>>)
      /\ leverages' = [leverages EXCEPT ![u] = l]
      /\ UNCHANGED <<available, locked, orders, positions, book, mark, nextId, pc>>
  BY DEF PLeverage, SetLeverage, ledger
<1>2. pc # "match" /\ pc' # "match"
  BY <1>1
<1>3. LiveOrders = orders /\ LiveOrders' = orders
  BY <1>1, <1>2, OrdersStay
<1>4. ASSUME NEW id \in DOMAIN orders
      PROVE  orders[id].leverage = leverages'[orders[id].user]
  <2>1. orders[id].leverage = leverages[orders[id].user]
    BY <1>3 DEF ProjInv, Restorable, LeverageKept
  <2>2. orders[id].user # u
    BY <1>1 DEF LeverageFree, OrdersOf, Engine
  <2>3. orders[id].user \in Users /\ leverages \in [Users -> 1..MaxLeverage]
    <3>1. Resting(orders)
      BY Standing, EngineParts DEF Shape
    <3>2. orders[id] \in Order
      BY <3>1 DEF Resting, Sound
    <3>3. orders[id].user \in Users
      BY <3>2 DEF Order
    <3> QED BY <3>3 DEF ProjInv, PInv, Settings
  <2> QED BY <1>1, <2>1, <2>2, <2>3
<1>5. LeverageKept'
  BY <1>3, <1>4 DEF LeverageKept
<1> QED BY <1>1, <1>2, <1>5, QuietShown

LEMMA MarkShown ==
  ASSUME ProjInv, NEW m \in Marks, PMark(m)
  PROVE  Restorable'
<1>1. /\ pc = "idle" /\ pc' = "sweep" /\ mark' = m /\ ApplyBatch(<<MarkSet(m)>>)
      /\ UNCHANGED <<available, locked, orders, positions, book, nextId, leverages>>
  BY DEF PMark, SetMarkPrice, BeginSweep, ledger
<1>2. Engine' = Engine
  BY <1>1 DEF Engine
<1>3. Leads(Tables, <<MarkSet(m)>>, Recorded(Tables, MarkSet(m)))
  BY LeadsOne
<1>4. Shows(Recorded(Tables, MarkSet(m)), Engine, {}, positions, OpenRows, m, tables.ids)
  BY Standing, ShowsMark
<1>5. pc # "match" /\ pc' # "match" /\ UNCHANGED <<orders, positions>>
  BY <1>1
<1>6. Shows(Recorded(Tables, MarkSet(m)), Engine', {}, positions', OpenRows', mark',
            tables.ids)
  BY <1>1, <1>2, <1>4, <1>5, OrdersStay
<1> QED BY <1>1, <1>3, <1>5, <1>6, OrdersStay, StepShown

LEMMA CancelOrderShown ==
  ASSUME ProjInv, NEW id \in DOMAIN orders, PCancel(id)
  PROVE  Restorable'
BY CancelShown DEF PCancel, CancelOrder, settings

LEMMA AmendShown ==
  ASSUME ProjInv, NEW id \in DOMAIN orders, NEW ch \in Amendments, PAmend(id, ch)
  PROVE  Restorable'
<1>1. /\ Becomes(Cancelled(Engine, {id})) /\ ApplyBatch(CancelEvents(Engine, id))
      /\ pc = "idle" /\ pc' = "submit" /\ UNCHANGED <<nextId, taker, leverages, mark>>
  BY DEF PAmend, AmendOrder, settings
<1>2. pc = "match" <=> pc' = "match"
  BY <1>1
<1> QED BY <1>1, <1>2, CancelShown

LEMMA CancelMakerShown ==
  ASSUME ProjInv, PCancelMaker
  PROVE  Restorable'
<1>1. /\ CanMatch /\ Becomes(Cancelled(Engine, {BestMaker.id}))
      /\ ApplyBatch(CancelEvents(Engine, BestMaker.id))
      /\ UNCHANGED <<nextId, pc, taker, leverages, mark>>
  BY DEF PCancelMaker, CancelMaker, settings
<1>2. BestMaker.id \in DOMAIN orders
  BY <1>1, MakerFacts DEF ProjInv
<1> QED BY <1>1, <1>2, CancelShown

-----------------------------------------------------------------------------
(* Submitting, finishing, and money in and out.                            *)

LEMMA TransferShown ==
  ASSUME ProjInv, NEW t \in Transfers, PTransfer(t)
  PROVE  Restorable'
<1>u. PICK u : u = t.user
  OBVIOUS
<1>f. PICK f, ev : /\ f = [available |-> available', locked |-> locked]
                   /\ ev = BalanceChanged(f, u)
  OBVIOUS
<1>1. /\ pc = "idle" /\ \E k : available' = Credit(available, u, k)
      /\ UNCHANGED <<locked, orders, positions, book, nextId, leverages, mark, pc>>
      /\ ApplyBatch(<<ev>>)
  BY <1>u, <1>f DEF PTransfer, Deposit, Withdraw, settings
<1>2. u \in Accounts
  BY <1>u, PerpAssumption, AccountsFinite
<1>3. Agree(Engine, Engine', {u})
  BY <1>1 DEF Agree, Engine, Credit
<1>4. ev = BalanceChanged(Engine', u)
  BY <1>1, <1>f DEF BalanceChanged, Engine
<1>5. Shows(Tables, Engine', {u}, positions, OpenRows, mark, tables.ids)
  <2>1. {} \subseteq {u} /\ {u} \subseteq {u}
    OBVIOUS
  <2> QED BY <1>3, <2>1, Standing, ShowsOther
<1>6. Shows(Recorded(Tables, ev), Engine', {u} \ {u}, positions, OpenRows, mark,
            tables.ids)
  BY <1>2, <1>4, <1>5, ShowsBalance
<1>7. {u} \ {u} = {} /\ pc # "match" /\ pc' # "match" /\ UNCHANGED <<orders, positions>>
  BY <1>1
<1>8. Shows(Recorded(Tables, ev), Engine', {}, positions', OpenRows', mark', tables.ids)
  BY <1>1, <1>6, <1>7, OrdersStay
<1>9. Leads(Tables, <<ev>>, Recorded(Tables, ev))
  BY LeadsOne
<1> QED BY <1>1, <1>7, <1>8, <1>9, OrdersStay, StepShown

\* One wallet moves, and its row is refreshed if anything moved.
LEMMA WalletShown ==
  ASSUME NEW x, NEW e, NEW P, NEW O, NEW m, NEW I, Shows(x, e, {}, P, O, m, I),
         NEW f, NEW u \in Accounts, NEW k \in Nat, Agree(e, f, {u}),
         k = 0 => Agree(e, f, {}), NEW ev, ev = BalanceChanged(f, u)
  PROVE  \E y : Leads(x, If(k > 0, <<ev>>), y) /\ Shows(y, f, {}, P, O, m, I)
<1>1. CASE k > 0
  <2>1. {} \subseteq {u} /\ {u} \subseteq {u} /\ {u} \ {u} = {}
    OBVIOUS
  <2>2. Shows(x, f, {u}, P, O, m, I)
    BY <2>1, ShowsOther
  <2>3. Shows(Recorded(x, ev), f, {u} \ {u}, P, O, m, I)
    BY <2>2, ShowsBalance
  <2>4. Leads(x, <<ev>>, Recorded(x, ev))
    BY LeadsOne
  <2> QED BY <1>1, <2>1, <2>3, <2>4 DEF If
<1>2. CASE ~(k > 0)
  <2>1. k = 0
    BY <1>2
  <2>2. Shows(x, f, {}, P, O, m, I)
    BY <2>1, ShowsSame
  <2>3. Leads(x, <<>>, x)
    BY LeadsNone
  <2> QED BY <1>2, <2>2, <2>3 DEF If
<1> QED BY <1>1, <1>2

LEMMA CreditZero ==
  ASSUME NEW f, NEW u, NEW k \in Int
  PROVE  /\ \A a \in Accounts \ {u} : f \in [Accounts -> Int] =>
              Credit(f, u, k)[a] = f[a]
         /\ f \in [Accounts -> Int] /\ k = 0 =>
              \A a \in Accounts : Credit(f, u, k)[a] = f[a]
BY DEF Credit

LEMMA AcceptShown ==
  ASSUME ProjInv, NEW req \in Incoming, Accept(req),
         ApplyBatch(AcceptEvents(OrderOf(req)))
  PROVE  Restorable'
<1>o. PICK o : o = OrderOf(req)
  OBVIOUS
<1>1. /\ Acceptable(req) /\ nextId' = nextId + 1 /\ taker' = o /\ pc' = "match"
      /\ available' = Credit(available, o.user, -o.lock)
      /\ locked' = Credit(locked, o.user, o.lock)
      /\ UNCHANGED <<positions, orders, book, leverages, mark>>
  BY <1>o DEF Accept, settings
<1>2. PInv /\ Asked(req) /\ pc # "match"
  BY IncomingAsked DEF ProjInv
<1>3. Sound(o) /\ o.user = req.user /\ o.id = nextId /\ o.lock \in Nat
  BY <1>1, <1>2, <1>o, OrderOfFacts DEF Acceptable
<1>4. o.leverage = leverages[o.user] /\ Rem(o) > 0 /\ o.user \in Accounts
  <2>1. o.leverage = leverages[req.user] /\ o.qty = req.qty /\ o.filled = 0
    BY <1>o DEF OrderOf
  <2>2. req.qty > 0 /\ req.qty \in Nat /\ req.user \in Users
    BY <1>1, <1>2 DEF Acceptable, ValidSize, Asked
  <2> QED BY <1>3, <2>1, <2>2, AccountsFinite DEF Rem
<1>5. OpenRows = orders /\ OpenRows' = Having(orders, o.id, o)
      /\ LiveOrders = orders /\ LiveOrders' = Having(orders, o.id, o)
  BY <1>1, <1>2, <1>4 DEF OpenRows, LiveOrders, WithOrder, Having
<1>6. available \in [Accounts -> Int] /\ locked \in [Accounts -> Int]
  BY Standing, EngineParts DEF Shape
<1>k. PICK k \in Nat : k = o.lock
  BY <1>3
<1>u. PICK u \in Accounts : u = o.user
  BY <1>4
<1>7. Agree(Engine, Engine', {u}) /\ (k = 0 => Agree(Engine, Engine', {}))
  <2>1. -k \in Int /\ k \in Int /\ (k = 0 => -k = 0)
    OBVIOUS
  <2>2. available' = Credit(available, u, -k) /\ locked' = Credit(locked, u, k)
    BY <1>1, <1>k, <1>u
  <2>3. Agree(Engine, Engine', {u})
    BY <1>6, <2>1, <2>2, CreditZero DEF Agree, Engine
  <2>4. k = 0 => Agree(Engine, Engine', {})
    BY <1>6, <2>1, <2>2, CreditZero DEF Agree, Engine
  <2> QED BY <2>3, <2>4
<1>e. PICK ev : ev = BalanceChanged([available |-> Credit(available, o.user, -o.lock),
                                     locked |-> Credit(locked, o.user, o.lock)], o.user)
  OBVIOUS
<1>8. ev = BalanceChanged(Engine', u)
  BY <1>1, <1>e, <1>u DEF BalanceChanged, Engine
<1>x. PICK x : x = Recorded(Tables, Accepted(o))
  OBVIOUS
<1>9. Shows(x, Engine, {}, positions, Having(orders, o.id, o), mark,
            tables.ids \cup {o.id})
  <2>1. o.id \notin tables.ids
    <3>1. tables.ids \subseteq 1..nextId - 1 /\ nextId \in Nat
      BY <1>2 DEF ProjInv, Restorable, PInv, Settings
    <3>2. nextId \notin 1..nextId - 1
      BY <3>1
    <3> QED BY <1>3, <3>1, <3>2
  <2>2. Shows(Tables, Engine, {}, positions, orders, mark, tables.ids)
    BY <1>5, Standing
  <2> QED BY <1>x, <2>1, <2>2, ShowsAccepted
<1>10. PICK y : /\ Leads(x, If(k > 0, <<ev>>), y)
                /\ Shows(y, Engine', {}, positions, Having(orders, o.id, o), mark,
                         tables.ids \cup {o.id})
  BY <1>7, <1>8, <1>9, WalletShown
<1>11. Leads(Tables, <<Accepted(o)>>, x)
  BY <1>x, LeadsOne
<1>12. Leads(Tables, AcceptEvents(o), y)
  BY <1>10, <1>11, <1>e, <1>k, LeadsThen DEF AcceptEvents
<1>13. Shows(y, Engine', {}, positions', OpenRows', mark', tables.ids \cup {o.id})
  BY <1>1, <1>5, <1>10
<1>14. tables.ids \cup {o.id} \subseteq 1..nextId' - 1
  <2>1. tables.ids \subseteq 1..nextId - 1 /\ nextId \in Nat \ {0}
    BY <1>2 DEF ProjInv, Restorable, PInv, Settings
  <2>2. nextId' - 1 = nextId /\ nextId \in 1..nextId
    BY <1>1, <2>1
  <2>3. \A i \in 1..nextId - 1 : i \in 1..nextId
    BY <2>1
  <2> QED BY <1>3, <2>1, <2>2, <2>3
<1>15. IsFunction(orders') /\ IsFunction(positions')
  BY <1>1 DEF ProjInv, Restorable
<1>16. LeverageKept'
  <2>1. \A id \in DOMAIN orders : orders[id].leverage = leverages[orders[id].user]
    BY <1>5 DEF ProjInv, Restorable, LeverageKept
  <2>2. PICK l : l = Having(orders, o.id, o)
    OBVIOUS
  <2>3. \A id \in DOMAIN l : l[id] = o \/ (id \in DOMAIN orders /\ l[id] = orders[id])
    BY <2>2 DEF Having
  <2>4. \A id \in DOMAIN l : l[id].leverage = leverages[l[id].user]
    BY <1>4, <2>1, <2>3
  <2> QED BY <1>1, <1>5, <2>2, <2>4 DEF LeverageKept
<1> QED BY <1>o, <1>12, <1>13, <1>14, <1>15, <1>16, StepShown

LEMMA FinishShown ==
  ASSUME ProjInv, PFinish
  PROVE  Restorable'
<1>1. /\ pc = "match" /\ pc' = "idle" /\ ApplyBatch(RemainderEvents)
      /\ FinishFilled \/ FinishCancelled \/ FinishResting
      /\ UNCHANGED <<positions, nextId, leverages, mark>>
  BY DEF PFinish, FinishSubmit, settings
<1>2. /\ Sound(taker) /\ taker.id \notin DOMAIN orders /\ taker.user \in Accounts
      /\ taker.lock \in Nat /\ Rem(taker) \in Nat
  <2>1. Sound(taker) /\ taker.id \notin DOMAIN orders
    BY <1>1 DEF ProjInv, PInv, TakerSound
  <2>2. LockFor(taker) \in Nat /\ Rem(taker) \in Nat
    BY <2>1, SoundLock DEF Sound
  <2> QED BY <2>1, <2>2, AccountsFinite DEF Sound, Order
<1>3. OpenRows' = orders' /\ LiveOrders' = orders' /\ LiveOrders = WithOrder(orders, taker)
  BY <1>1 DEF OpenRows, LiveOrders
<1>4. IsFunction(positions') /\ tables.ids \subseteq 1..nextId' - 1
  BY <1>1 DEF ProjInv, Restorable
<1>5. LeverageKept'
  <2>1. orders' = orders \/ orders' = WithOrder(orders, taker)
    BY <1>1 DEF FinishFilled, FinishCancelled, FinishResting
  <2>w. PICK w : w = WithOrder(orders, taker)
    OBVIOUS
  <2>2. DOMAIN orders \subseteq DOMAIN w /\ \A x \in DOMAIN orders : w[x] = orders[x]
    BY <1>2, <2>w DEF WithOrder
  <2>3. \A x \in DOMAIN orders' : x \in DOMAIN w /\ orders'[x] = w[x]
    BY <2>1, <2>2, <2>w
  <2> QED BY <1>1, <1>3, <2>w, <2>3, LeverageStep
<1>6. CASE FinishFilled
  <2>1. /\ Rem(taker) = 0 /\ UNCHANGED <<available, locked, orders, book>>
    BY <1>6 DEF FinishFilled, ledger
  <2>2. OpenRows = orders /\ RemainderEvents = <<>> /\ Engine' = Engine
    BY <1>1, <2>1 DEF OpenRows, RemainderEvents, If, Engine
  <2>3. Shows(Tables, Engine', {}, positions', OpenRows', mark', tables.ids)
    BY <1>1, <1>3, <2>1, <2>2, Standing
  <2>4. Leads(Tables, RemainderEvents, Tables) /\ IsFunction(orders')
    BY <2>1, <2>2, LeadsNone DEF ProjInv, Restorable
  <2> QED BY <1>1, <1>4, <1>5, <2>3, <2>4, StepShown
<1>7. CASE FinishResting
  <2>1. /\ Rem(taker) > 0 /\ Rests(taker) /\ UNCHANGED <<available, locked>>
        /\ orders' = WithOrder(orders, taker)
    BY <1>7 DEF FinishResting, ledger
  <2>2. OpenRows = orders' /\ RemainderEvents = <<>>
    BY <1>1, <2>1 DEF OpenRows, RemainderEvents, If
  <2>3. Agree(Engine, Engine', {})
    BY <2>1 DEF Agree, Engine
  <2>4. Shows(Tables, Engine', {}, positions', OpenRows', mark', tables.ids)
    BY <1>1, <1>3, <2>2, <2>3, Standing, ShowsSame
  <2>5. Leads(Tables, RemainderEvents, Tables) /\ IsFunction(orders')
    BY <2>1, <2>2, LeadsNone, WithOrderIs
  <2> QED BY <1>1, <1>4, <1>5, <2>4, <2>5, StepShown
<1>8. CASE FinishCancelled
  <2>1. /\ Rem(taker) > 0 /\ ~Rests(taker) /\ UNCHANGED <<orders, book>>
        /\ available' = Credit(available, taker.user, taker.lock)
        /\ locked' = Credit(locked, taker.user, -taker.lock)
    BY <1>8 DEF FinishCancelled
  <2>k. PICK k \in Nat : k = taker.lock
    BY <1>2
  <2>u. PICK u \in Accounts : u = taker.user
    BY <1>2
  <2>e. PICK ev : ev = BalanceChanged([available |-> available', locked |-> locked'],
                                      taker.user)
    OBVIOUS
  <2>2. ev = BalanceChanged(Engine', u)
    BY <2>e, <2>u DEF BalanceChanged, Engine
  <2>3. OpenRows = WithOrder(orders, taker) /\ IsFunction(orders)
    BY <1>1, <2>1 DEF OpenRows, ProjInv, Restorable
  <2>4. Without(WithOrder(orders, taker), {taker.id}) = orders
        /\ taker.id \in DOMAIN WithOrder(orders, taker)
    <3>w. PICK w, id, d : /\ w = WithOrder(orders, taker) /\ id = taker.id
                          /\ d = Without(w, {id})
      OBVIOUS
    <3>1. /\ id \notin DOMAIN orders
          /\ DOMAIN w = DOMAIN orders \cup {id} /\ \A x \in DOMAIN orders : w[x] = orders[x]
      BY <1>2, <3>w DEF WithOrder
    <3>2. /\ IsFunction(d) /\ DOMAIN d = DOMAIN w \ {id}
          /\ \A x \in DOMAIN w \ {id} : d[x] = w[x]
      BY <3>w DEF Without, IsFunction
    <3>3. DOMAIN d = DOMAIN orders /\ \A x \in DOMAIN d : d[x] = orders[x]
      BY <3>1, <3>2
    <3>4. d = orders
      BY <2>3, <3>2, <3>3, SameFunction
    <3> QED BY <3>1, <3>4, <3>w
  <2>x. PICK x : x = Recorded(Tables, OrderCancelled(taker.id))
    OBVIOUS
  <2>5. Shows(x, Engine, {}, positions, orders, mark, tables.ids)
    <3>1. Shows(Tables, Engine, {}, positions, WithOrder(orders, taker), mark, tables.ids)
      BY <2>3, Standing
    <3>2. Shows(x, Engine, {}, positions, Without(WithOrder(orders, taker), {taker.id}),
                mark, tables.ids)
      BY <2>4, <2>x, <3>1, ShowsCancelled
    <3> QED BY <2>4, <3>2
  <2>6. available \in [Accounts -> Int] /\ locked \in [Accounts -> Int]
    BY Standing, EngineParts DEF Shape
  <2>7. Agree(Engine, Engine', {u}) /\ (k = 0 => Agree(Engine, Engine', {}))
    <3>1. -k \in Int /\ k \in Int /\ (k = 0 => -k = 0)
      OBVIOUS
    <3>2. available' = Credit(available, u, k) /\ locked' = Credit(locked, u, -k)
      BY <2>1, <2>k, <2>u
    <3>3. Agree(Engine, Engine', {u})
      BY <2>6, <3>1, <3>2, CreditZero DEF Agree, Engine
    <3>4. k = 0 => Agree(Engine, Engine', {})
      BY <2>6, <3>1, <3>2, CreditZero DEF Agree, Engine
    <3> QED BY <3>3, <3>4
  <2>8. PICK y : /\ Leads(x, If(k > 0, <<ev>>), y)
                 /\ Shows(y, Engine', {}, positions, orders, mark, tables.ids)
    BY <2>2, <2>5, <2>7, WalletShown
  <2>9. Leads(Tables, RemainderEvents, y)
    <3>1. Leads(Tables, <<OrderCancelled(taker.id)>>, x)
      BY <2>x, LeadsOne
    <3>2. RemainderEvents = <<OrderCancelled(taker.id)>> \o If(k > 0, <<ev>>)
      BY <2>1, <2>e, <2>k DEF RemainderEvents, If
    <3> QED BY <2>8, <3>1, <3>2, LeadsThen
  <2>10. Shows(y, Engine', {}, positions', OpenRows', mark', tables.ids)
    BY <1>1, <1>3, <2>1, <2>8
  <2>11. IsFunction(orders')
    BY <2>1, <2>3
  <2> QED BY <1>1, <1>4, <1>5, <2>9, <2>10, <2>11, StepShown
<1> QED BY <1>1, <1>6, <1>7, <1>8

-----------------------------------------------------------------------------
(* A fill.                                                                 *)

\* The positions are the same but for the account u.
OnlyOf(held, new, u) ==
  /\ IsFunction(new)
  /\ \A w : w # u => /\ w \in DOMAIN new <=> w \in DOMAIN held
                     /\ w \in DOMAIN held => new[w] = held[w]

LEMMA OnlyTwice ==
  ASSUME NEW a, NEW b, NEW c, NEW u, OnlyOf(a, b, u), OnlyOf(b, c, u)
  PROVE  OnlyOf(a, c, u)
BY DEF OnlyOf

LEMMA OnlyHaving ==
  ASSUME NEW held, NEW u, NEW pos
  PROVE  OnlyOf(held, Having(held, u, pos), u) /\ OnlyOf(held, Without(held, {u}), u)
BY DEF OnlyOf, Having, Without, IsFunction

\* A settlement moves the trader's row and position, the fee account and the
\* clearing account, and nobody else's.
LEMMA SettleRows ==
  ASSUME NEW e, Shape(e), IsFunction(e.positions), NEW o, o.user \in Users,
         NEW p, NEW q, NEW bps, NEW r, r = SettlePerpSide(e, o, p, q, bps)
  PROVE  /\ \A a \in Accounts : a # o.user => r.locked[a] = e.locked[a]
         /\ \A a \in Accounts : a # o.user /\ a # FEE /\ a # CLEARING =>
              r.available[a] = e.available[a]
         /\ OnlyOf(e.positions, r.positions, o.user)
<1>u. PICK u \in Users : u = o.user
  OBVIOUS
<1>b. PICK budget : budget = o.lock - AfterFill(o, q).lock
  OBVIOUS
<1>h. PICK held : held = e.positions
  OBVIOUS
<1>w. PICK wallet : wallet = e.available[u]
  OBVIOUS
<1>c. PICK c : c = MinBig(q, Closable(SizesOf(held)[u], o.side))
  OBVIOUS
<1>l. PICK cl : cl = IF c = 0 THEN [cash |-> 0, fee |-> 0, clearing |-> 0]
                     ELSE CloseLeg(held[u], o.side, p, c, bps, wallet)
  OBVIOUS
<1>k. PICK kept : kept = IF c = 0 THEN held ELSE AfterClose(held, u, cl.pos)
  OBVIOUS
<1>o. PICK op : op = IF c = q THEN [fee |-> 0, margin |-> 0, left |-> budget]
                     ELSE OpenLeg(budget, o.leverage, p, q - c, bps)
  OBVIOUS
<1>n. PICK new : new = IF c = q THEN kept ELSE Opened(kept, o, p, q - c, op.margin)
  OBVIOUS
<1>x. PICK cash, fee, clearing, back :
        /\ cash = op.left + cl.cash /\ fee = cl.fee + op.fee /\ clearing = cl.clearing
        /\ back = -budget
  OBVIOUS
<1>a. PICK a : a = Credit(Credit(Credit(e.available, u, cash), FEE, fee),
                          CLEARING, clearing)
  OBVIOUS
<1>y. PICK ll : ll = Credit(e.locked, u, back)
  OBVIOUS
<1>2. r = [e EXCEPT !.available = a, !.locked = ll, !.positions = new]
  BY <1>u, <1>b, <1>h, <1>w, <1>c, <1>l, <1>k, <1>o, <1>n, <1>x, <1>a, <1>y, ZenonT(60)
     DEF SettlePerpSide
<1>3. r = [available |-> a, locked |-> ll, positions |-> new,
           orders |-> e.orders, book |-> e.book]
  BY <1>2 DEF Shape, Fields
<1>4. r.available = a /\ r.locked = ll /\ r.positions = new
  BY <1>3
<1>5. \A w \in Accounts : w # u /\ w # FEE /\ w # CLEARING => a[w] = e.available[w]
  BY <1>a DEF Shape, Credit
<1>6. \A w \in Accounts : w # u => ll[w] = e.locked[w]
  BY <1>y DEF Shape, Credit
<1>7. OnlyOf(held, held, u)
  BY <1>h DEF OnlyOf
<1>8. OnlyOf(held, kept, u)
  <2>1. OnlyOf(held, AfterClose(held, u, cl.pos), u)
    BY OnlyHaving DEF AfterClose
  <2> QED BY <1>7, <1>k, <2>1
<1>9. OnlyOf(held, new, u)
  <2>1. OnlyOf(kept, Opened(kept, o, p, q - c, op.margin), u)
    BY <1>u, OnlyHaving DEF Opened
  <2>2. OnlyOf(held, Opened(kept, o, p, q - c, op.margin), u)
    BY <1>8, <2>1, OnlyTwice
  <2> QED BY <1>8, <1>n, <2>2
<1> QED BY <1>4, <1>5, <1>6, <1>9, <1>u, <1>h

LEMMA PlacedTwice ==
  ASSUME NEW P, NEW e, NEW f, NEW g, NEW u, NEW v, IsFunction(P),
         OnlyOf(P, f, u), OnlyOf(f, g, v), g = e.positions
  PROVE  Placed(Placed(P, e, u), e, v) = g
<1>a. PICK a, b : a = Placed(P, e, u) /\ b = Placed(a, e, v)
  OBVIOUS
<1>1. /\ IsFunction(a) /\ \A w : w \in DOMAIN a <=> IF w = u THEN u \in DOMAIN g
                                                           ELSE w \in DOMAIN P
      /\ \A w \in DOMAIN a : a[w] = IF w = u THEN g[w] ELSE P[w]
  BY <1>a DEF Placed, Having, Without, IsFunction
<1>2. /\ IsFunction(b) /\ \A w : w \in DOMAIN b <=> IF w = v THEN v \in DOMAIN g
                                                           ELSE w \in DOMAIN a
      /\ \A w \in DOMAIN b : b[w] = IF w = v THEN g[w] ELSE a[w]
  BY <1>a DEF Placed, Having, Without, IsFunction
<1>3. /\ IsFunction(g)
      /\ \A w : w # u /\ w # v =>
           /\ w \in DOMAIN g <=> w \in DOMAIN P
           /\ w \in DOMAIN P => g[w] = P[w]
  BY DEF OnlyOf
<1>4. \A w : w \in DOMAIN b <=> w \in DOMAIN g
  BY <1>1, <1>2, <1>3
<1>5. \A w \in DOMAIN b : b[w] = g[w]
  BY <1>1, <1>2, <1>3
<1>6. DOMAIN b = DOMAIN g
  BY <1>4
<1>7. b = g
  BY <1>2, <1>3, <1>5, <1>6, SameFunction
<1> QED BY <1>7, <1>a

\* A balance event that comes only if the row is stale.
LEMMA BalanceIf ==
  ASSUME NEW x, NEW e, NEW X, NEW P, NEW O, NEW m, NEW I, Shows(x, e, X, P, O, m, I),
         NEW a \in Accounts, NEW c, a \in X => c, NEW ev, ev = BalanceChanged(e, a)
  PROVE  \E y : Leads(x, If(c, <<ev>>), y) /\ Shows(y, e, X \ {a}, P, O, m, I)
<1>1. CASE c
  <2>1. Shows(Recorded(x, ev), e, X \ {a}, P, O, m, I)
    BY ShowsBalance
  <2>2. Leads(x, <<ev>>, Recorded(x, ev))
    BY LeadsOne
  <2> QED BY <1>1, <2>1, <2>2 DEF If
<1>2. CASE ~c
  <2>1. X \ {a} = X /\ Leads(x, <<>>, x)
    BY <1>2, LeadsNone
  <2> QED BY <1>2, <2>1 DEF If
<1> QED BY <1>1, <1>2

\* A trader's balance and position.
SideEvents(e, u) == <<BalanceChanged(e, u), PositionChanged(e, u)>>

LEMMA SideShown ==
  ASSUME NEW x, NEW e, NEW X, NEW P, NEW O, NEW m, NEW I, Shows(x, e, X, P, O, m, I),
         NEW u \in Accounts
  PROVE  \E y : /\ Leads(x, SideEvents(e, u), y)
                /\ Shows(y, e, X \ {u}, Placed(P, e, u), O, m, I)
<1>e. PICK b, p : b = BalanceChanged(e, u) /\ p = PositionChanged(e, u)
  OBVIOUS
<1>1. Leads(x, <<b, p>>, Recorded(Recorded(x, b), p))
  BY LeadsTwo
<1>2. Shows(Recorded(x, b), e, X \ {u}, P, O, m, I)
  BY <1>e, ShowsBalance
<1>3. Shows(Recorded(Recorded(x, b), p), e, X \ {u}, Placed(P, e, u), O, m, I)
  BY <1>2, <1>e, ShowsPosition
<1> QED BY <1>1, <1>3, <1>e DEF SideEvents

\* The events of a fill before the trims.
PaidEvents(trade, e, u, v, fee, clearing) ==
  <<trade>> \o SideEvents(e, u) \o SideEvents(e, v)
    \o If(fee, <<BalanceChanged(e, FEE)>>) \o If(clearing, <<BalanceChanged(e, CLEARING)>>)

LEMMA PaidShown ==
  ASSUME NEW db, NEW e, NEW P, NEW O, NEW m, NEW I, Shows(db, e, {}, P, O, m, I),
         IsFunction(P), NEW mk, NEW ok, NEW u \in Users, NEW v \in Users,
         NEW f, NEW g, OnlyOf(P, f, u), OnlyOf(f, g, v),
         NEW s, s.positions = g, NEW fee, NEW clearing,
         \A a \in Accounts :
           \/ a = u \/ a = v \/ (a = FEE /\ fee) \/ (a = CLEARING /\ clearing)
           \/ e.available[a] = s.available[a] /\ e.locked[a] = s.locked[a]
  PROVE  \E end : /\ Leads(db, PaidEvents(Trade(mk, ok), s, u, v, fee, clearing), end)
                  /\ Shows(end, s, {}, g, Upserted(Upserted(O, mk), ok), m, I)
<1>r. PICK R : R = Upserted(Upserted(O, mk), ok)
  OBVIOUS
<1>y. PICK Y : Y = {a \in Accounts : \/ a = u \/ a = v \/ (a = FEE /\ fee)
                                     \/ (a = CLEARING /\ clearing)}
  OBVIOUS
<1>a. /\ u \in Accounts /\ v \in Accounts /\ FEE \in Accounts /\ CLEARING \in Accounts
      /\ u # FEE /\ v # FEE /\ u # CLEARING /\ v # CLEARING /\ FEE # CLEARING
  BY AccountsFinite
<1>e. PICK t : t = Trade(mk, ok)
  OBVIOUS
<1>1. PICK x0 : Leads(db, <<t>>, x0) /\ Shows(x0, e, {}, P, R, m, I)
  <2>1. Leads(db, <<t>>, Recorded(db, t))
    BY LeadsOne
  <2>2. Shows(Recorded(db, t), e, {}, P, R, m, I)
    BY <1>e, <1>r, ShowsTrade
  <2> QED BY <2>1, <2>2
<1>2. Shows(x0, s, Y, P, R, m, I)
  <2>1. Agree(e, s, Y)
    BY <1>y DEF Agree
  <2>2. {} \subseteq Y /\ Y \subseteq Y
    OBVIOUS
  <2> QED BY <1>1, <2>1, <2>2, ShowsOther
<1>3. PICK x1 : /\ Leads(x0, SideEvents(s, u), x1)
                /\ Shows(x1, s, Y \ {u}, Placed(P, s, u), R, m, I)
  BY <1>2, <1>a, SideShown
<1>4. PICK x2 : /\ Leads(x1, SideEvents(s, v), x2)
                /\ Shows(x2, s, (Y \ {u}) \ {v}, Placed(Placed(P, s, u), s, v), R, m, I)
  BY <1>3, <1>a, SideShown
<1>5. Placed(Placed(P, s, u), s, v) = g
  BY PlacedTwice
<1>6. Shows(x2, s, (Y \ {u}) \ {v}, g, R, m, I)
  BY <1>4, <1>5
<1>7. PICK x3 : /\ Leads(x2, If(fee, <<BalanceChanged(s, FEE)>>), x3)
                /\ Shows(x3, s, ((Y \ {u}) \ {v}) \ {FEE}, g, R, m, I)
  <2>1. FEE \in (Y \ {u}) \ {v} => fee
    BY <1>a, <1>y
  <2> QED BY <1>6, <1>a, <2>1, BalanceIf
<1>8. PICK x4 : /\ Leads(x3, If(clearing, <<BalanceChanged(s, CLEARING)>>), x4)
                /\ Shows(x4, s, (((Y \ {u}) \ {v}) \ {FEE}) \ {CLEARING}, g, R, m, I)
  <2>1. CLEARING \in ((Y \ {u}) \ {v}) \ {FEE} => clearing
    BY <1>a, <1>y
  <2> QED BY <1>7, <1>a, <2>1, BalanceIf
<1>9. (((Y \ {u}) \ {v}) \ {FEE}) \ {CLEARING} = {}
  BY <1>y
<1>10. Leads(db, PaidEvents(t, s, u, v, fee, clearing), x4)
  <2>1. Leads(db, <<t>> \o SideEvents(s, u), x1)
    BY <1>1, <1>3, LeadsThen
  <2>2. Leads(db, <<t>> \o SideEvents(s, u) \o SideEvents(s, v), x2)
    BY <1>4, <2>1, LeadsThen
  <2>3. Leads(db, <<t>> \o SideEvents(s, u) \o SideEvents(s, v)
                    \o If(fee, <<BalanceChanged(s, FEE)>>), x3)
    BY <1>7, <2>2, LeadsThen
  <2> QED BY <1>8, <2>3, LeadsThen DEF PaidEvents
<1> QED BY <1>8, <1>9, <1>10, <1>e, <1>r

\* The row of o is entered, or removed if o is filled.
Entered(new, rows, o, id) ==
  /\ IsFunction(new)
  /\ \A x : x \in DOMAIN new <=> \/ x = id /\ Rem(o) # 0
                                 \/ x # id /\ x \in DOMAIN rows
  /\ \A x \in DOMAIN new : new[x] = IF x = id THEN o ELSE rows[x]

LEMMA UpsertedIs ==
  ASSUME NEW rows, IsFunction(rows), NEW o
  PROVE  Entered(Upserted(rows, o), rows, o, o.id)
<1>n. PICK id, new : id = o.id /\ new = Upserted(rows, o)
  OBVIOUS
<1>1. CASE Rem(o) = 0
  <2>1. new = Without(rows, {id})
    BY <1>1, <1>n DEF Upserted
  <2>2. /\ IsFunction(new) /\ \A x : x \in DOMAIN new <=> x \in DOMAIN rows /\ x # id
        /\ \A x \in DOMAIN new : new[x] = rows[x]
    BY <2>1 DEF Without, IsFunction
  <2>3. Entered(new, rows, o, id)
    BY <1>1, <2>2, Zenon DEF Entered
  <2> QED BY <2>3, <1>n
<1>2. CASE Rem(o) # 0
  <2>1. new = Having(rows, id, o)
    BY <1>2, <1>n DEF Upserted
  <2>2. /\ IsFunction(new) /\ \A x : x \in DOMAIN new <=> x \in DOMAIN rows \/ x = id
        /\ \A x \in DOMAIN new : new[x] = IF x = id THEN o ELSE rows[x]
    BY <2>1 DEF Having, IsFunction
  <2>3. Entered(new, rows, o, id)
    BY <1>2, <2>2, Zenon DEF Entered
  <2> QED BY <2>3, <1>n
<1> QED BY <1>1, <1>2

\* A fill between mk and ok, entered in full, of which the orders in gone leave.
RowsCase(live, o, mk, ok, cut, full, rows, gone, rest) ==
  /\ o.id \notin DOMAIN live /\ ok.id = o.id /\ mk.id \in DOMAIN live
  /\ cut \subseteq DOMAIN live /\ mk.id \notin cut
  /\ DOMAIN full = DOMAIN live /\ full[mk.id] = mk
  /\ \A x \in DOMAIN live \ {mk.id} : full[x] = live[x]
  /\ rows = Upserted(Upserted(WithOrder(live, o), mk), ok)
  /\ gone = cut \cup IF Rem(mk) = 0 THEN {mk.id} ELSE {}
  /\ rest = Without(full, gone)

\* The rows after a fill are the orders after it.
LEMMA FilledRows ==
  ASSUME NEW live, NEW o, NEW mk, NEW ok, NEW cut, NEW full, NEW rows, NEW gone, NEW rest,
         RowsCase(live, o, mk, ok, cut, full, rows, gone, rest)
  PROVE  /\ IsFunction(rows) /\ cut \subseteq DOMAIN rows
         /\ Without(rows, cut) = IF Rem(ok) # 0 THEN WithOrder(rest, ok) ELSE rest
<1>i. PICK id, mid : id = o.id /\ mid = mk.id
  OBVIOUS
<1>0. /\ id = o.id /\ id \notin DOMAIN live /\ ok.id = id
      /\ mid = mk.id /\ mid \in DOMAIN live
      /\ cut \subseteq DOMAIN live /\ mid \notin cut
      /\ DOMAIN full = DOMAIN live /\ full[mid] = mk
      /\ \A x \in DOMAIN live \ {mid} : full[x] = live[x]
      /\ rows = Upserted(Upserted(WithOrder(live, o), mk), ok)
      /\ gone = cut \cup IF Rem(mk) = 0 THEN {mid} ELSE {}
      /\ rest = Without(full, gone)
  BY <1>i DEF RowsCase
<1> USE <1>0
<1>a. PICK a, b : a = WithOrder(live, o) /\ b = Upserted(a, mk)
  OBVIOUS
<1>1. /\ IsFunction(a) /\ \A x : x \in DOMAIN a <=> x = id \/ x \in DOMAIN live
      /\ \A x \in DOMAIN live : a[x] = live[x]
  BY <1>a DEF WithOrder, IsFunction
<1>2. /\ IsFunction(b)
      /\ \A x : x \in DOMAIN b <=> \/ x = mid /\ Rem(mk) # 0
                                   \/ x # mid /\ x \in DOMAIN a
      /\ \A x \in DOMAIN b : b[x] = IF x = mid THEN mk ELSE a[x]
  <2>1. Entered(b, a, mk, mid)
    BY <1>1, <1>a, UpsertedIs
  <2> QED BY <2>1 DEF Entered
<1>3. /\ IsFunction(rows)
      /\ \A x : x \in DOMAIN rows <=> \/ x = id /\ Rem(ok) # 0
                                      \/ x # id /\ x \in DOMAIN b
      /\ \A x \in DOMAIN rows : rows[x] = IF x = id THEN ok ELSE b[x]
  <2>1. Entered(rows, b, ok, id)
    BY <1>2, <1>a, UpsertedIs
  <2> QED BY <2>1 DEF Entered
<1>c. PICK c, d : /\ c = Without(rows, cut)
                  /\ d = IF Rem(ok) # 0 THEN WithOrder(rest, ok) ELSE rest
  OBVIOUS
<1>4. /\ IsFunction(c) /\ \A x : x \in DOMAIN c <=> x \in DOMAIN rows /\ x \notin cut
      /\ \A x \in DOMAIN c : c[x] = rows[x]
  BY <1>c DEF Without, IsFunction
<1>5. /\ IsFunction(rest) /\ \A x : x \in DOMAIN rest <=> x \in DOMAIN live /\ x \notin gone
      /\ \A x \in DOMAIN rest : rest[x] = full[x]
  BY DEF Without, IsFunction
<1>6. /\ IsFunction(d)
      /\ \A x : x \in DOMAIN d <=> (x = id /\ Rem(ok) # 0) \/ x \in DOMAIN rest
      /\ \A x \in DOMAIN d : d[x] = IF x = id THEN ok ELSE rest[x]
  <2>1. id \notin DOMAIN rest
    BY <1>5
  <2>2. CASE Rem(ok) # 0
    <3>1. d = WithOrder(rest, ok)
      BY <1>c, <2>2
    <3> QED BY <2>2, <3>1 DEF WithOrder, IsFunction
  <2>3. CASE Rem(ok) = 0
    <3>1. d = rest
      BY <1>c, <2>3
    <3> QED BY <1>5, <2>1, <2>3, <3>1
  <2> QED BY <2>2, <2>3
<1>7. \A x : x \in gone <=> x \in cut \/ (x = mid /\ Rem(mk) = 0)
  OBVIOUS
<1>8. \A x : x \in DOMAIN c <=> x \in DOMAIN d
  <2> SUFFICES ASSUME NEW x PROVE x \in DOMAIN c <=> x \in DOMAIN d
    OBVIOUS
  <2>1. CASE x = id
    BY <1>3, <1>4, <1>5, <1>6, <2>1
  <2>2. CASE x # id /\ x = mid
    <3>1. x \in DOMAIN c <=> Rem(mk) # 0
      BY <1>2, <1>3, <1>4, <2>2
    <3>2. x \in DOMAIN d <=> Rem(mk) # 0
      BY <1>5, <1>6, <1>7, <2>2
    <3> QED BY <3>1, <3>2
  <2>3. CASE x # id /\ x # mid
    <3>1. x \in DOMAIN c <=> x \in DOMAIN live /\ x \notin cut
      BY <1>1, <1>2, <1>3, <1>4, <2>3
    <3>2. x \in DOMAIN d <=> x \in DOMAIN live /\ x \notin cut
      BY <1>5, <1>6, <1>7, <2>3
    <3> QED BY <3>1, <3>2
  <2> QED BY <2>1, <2>2, <2>3
<1>9. \A x \in DOMAIN c : c[x] = d[x]
  <2> SUFFICES ASSUME NEW x \in DOMAIN c PROVE c[x] = d[x]
    OBVIOUS
  <2>1. x \in DOMAIN rows /\ x \in DOMAIN d /\ c[x] = rows[x]
    BY <1>4, <1>8
  <2>2. CASE x = id
    BY <1>3, <1>6, <2>1, <2>2
  <2>3. CASE x # id /\ x = mid
    <3>1. x \in DOMAIN rest /\ x \in DOMAIN b
      BY <1>3, <1>6, <2>1, <2>3
    <3> QED BY <1>2, <1>3, <1>5, <1>6, <2>1, <2>3, <3>1, SMTT(20)
  <2>4. CASE x # id /\ x # mid
    <3>1. x \in DOMAIN rest /\ x \in DOMAIN b /\ x \in DOMAIN a /\ x \in DOMAIN live
      BY <1>1, <1>2, <1>3, <1>6, <2>1, <2>4
    <3>2. full[x] = live[x]
      BY <2>4, <3>1
    <3>3. rows[x] = b[x] /\ b[x] = a[x]
      BY <1>2, <1>3, <2>1, <2>4, <3>1
    <3>4. d[x] = rest[x] /\ rest[x] = full[x] /\ a[x] = live[x]
      BY <1>1, <1>5, <1>6, <2>1, <2>4, <3>1
    <3> QED BY <2>1, <3>2, <3>3, <3>4
  <2> QED BY <2>2, <2>3, <2>4
<1>10. DOMAIN c = DOMAIN d
  BY <1>8
<1>11. c = d
  BY <1>4, <1>6, <1>9, <1>10, SameFunction
<1>12. cut \subseteq DOMAIN rows
  BY <1>1, <1>2, <1>3
<1> QED BY <1>3, <1>11, <1>12, <1>c

FeePaid(first, second, a) ==
  first.available[a] # available[a] \/ second.available[a] # available[a]

LEMMA FillEventsAre ==
  ASSUME PInv, CanMatch, NEW first, NEW second, NEW filled,
         Fills(Engine, BestMaker, taker, BestMaker.price, FillQty, first, second, filled)
  PROVE  FillEvents =
           PaidEvents(Trade(AfterFill(BestMaker, FillQty), AfterFill(taker, FillQty)),
                      second, BestMaker.user, taker.user, FeePaid(first, second, FEE),
                      FeePaid(first, second, CLEARING))
             \o CancelAllEvents(filled, TrimmedAway(AfterFill(BestMaker, FillQty)))
<1>m. PICK maker, q : maker = BestMaker /\ q = FillQty
  OBVIOUS
<1>k. PICK f : f = AfterFill(maker, q)
  OBVIOUS
<1>1. f.id = maker.id /\ f.user = maker.user
  BY <1>m, <1>k, MakerFacts, FillQtyFacts, AfterFillFacts
<1> DEFINE maker_ == AfterFill(BestMaker, FillQty)
           first_ == SettlePerpSide(Engine, BestMaker, BestMaker.price, FillQty,
                                    MakerFeeBps)
           second_ == SettlePerpSide(first_, taker, BestMaker.price, FillQty,
                                     TakerFeeBps)
           Touched_(a) == \/ first_.available[a] # available[a]
                          \/ second_.available[a] # available[a]
           Side_(u) == <<BalanceChanged(second_, u), PositionChanged(second_, u)>>
<1>2. FillEvents =
        <<Trade(maker_, AfterFill(taker, FillQty))>>
          \o Side_(maker_.user) \o Side_(taker.user)
          \o If(Touched_(FEE), <<BalanceChanged(second_, FEE)>>)
          \o If(Touched_(CLEARING), <<BalanceChanged(second_, CLEARING)>>)
          \o CancelAllEvents([second_ EXCEPT !.orders[maker_.id] = maker_],
                             TrimmedAway(maker_))
  BY ZenonT(60) DEF FillEvents
<1>3. first = first_
  BY DEF Fills
<1>4. second = second_
  <2> HIDE DEF first_
  <2>1. second = SettlePerpSide(first, taker, BestMaker.price, FillQty, TakerFeeBps)
    BY DEF Fills
  <2> QED BY <1>3, <2>1
<1>5. maker_ = f
  BY <1>m, <1>k
<1>6. filled = [second EXCEPT !.orders[f.id] = f]
  BY <1>1, <1>m, <1>k DEF Fills
<1>7. Touched_(FEE) <=> FeePaid(first, second, FEE)
  <2> HIDE DEF first_, second_
  <2> QED BY <1>3, <1>4 DEF FeePaid
<1>8. Touched_(CLEARING) <=> FeePaid(first, second, CLEARING)
  <2> HIDE DEF first_, second_
  <2> QED BY <1>3, <1>4 DEF FeePaid
<1>9. \A u : Side_(u) = SideEvents(second, u)
  <2> HIDE DEF second_
  <2> QED BY <1>4 DEF SideEvents
<1>10. If(Touched_(FEE), <<BalanceChanged(second_, FEE)>>)
         = If(FeePaid(first, second, FEE), <<BalanceChanged(second, FEE)>>)
  <2> HIDE DEF second_, Touched_
  <2> QED BY <1>4, <1>7 DEF If
<1>11. If(Touched_(CLEARING), <<BalanceChanged(second_, CLEARING)>>)
         = If(FeePaid(first, second, CLEARING), <<BalanceChanged(second, CLEARING)>>)
  <2> HIDE DEF second_, Touched_
  <2> QED BY <1>4, <1>8 DEF If
<1>12. CancelAllEvents([second_ EXCEPT !.orders[maker_.id] = maker_], TrimmedAway(maker_))
         = CancelAllEvents(filled, TrimmedAway(f))
  <2> HIDE DEF second_, maker_
  <2> QED BY <1>4, <1>5, <1>6
<1> HIDE DEF maker_, first_, second_, Touched_, Side_
<1>13. FillEvents = PaidEvents(Trade(f, AfterFill(taker, q)), second, maker.user, taker.user,
                               FeePaid(first, second, FEE), FeePaid(first, second, CLEARING))
                      \o CancelAllEvents(filled, TrimmedAway(f))
  BY <1>1, <1>2, <1>5, <1>9, <1>10, <1>11, <1>12, <1>m DEF PaidEvents
<1> QED BY <1>13, <1>m, <1>k

\* A filled order has nothing locked: its row leaves no wallet behind.
LEMMA FilledRow ==
  ASSUME NEW e, NEW extra, NEW n, Good(e, extra, n), NEW cut \in SUBSET (DOMAIN e.orders),
         NEW id \in DOMAIN e.orders, id \notin cut, Rem(e.orders[id]) = 0
  PROVE  Agree(Cancelled(e, cut), Cancelled(e, cut \cup {id}), {})
<1>c. PICK c : c = Cancelled(e, cut)
  OBVIOUS
<1>d. PICK d : d = Cancelled(c, {id})
  OBVIOUS
<1>1. Shape(e)
  BY DEF Good
<1>2. /\ Good(c, extra, n) /\ DOMAIN c.orders = DOMAIN e.orders \ cut
      /\ \A x \in DOMAIN c.orders : c.orders[x] = e.orders[x]
  BY <1>c, CancelledGood
<1>3. Shape(c) /\ id \in DOMAIN c.orders /\ c.orders[id] = e.orders[id]
  BY <1>2 DEF Good
<1>4. Agree(d, Cancelled(e, cut \cup {id}), {})
  BY <1>1, <1>3, <1>c, <1>d, CancelledMore
<1>5. Sound(e.orders[id])
  BY <1>1 DEF Shape, Resting
<1>6. e.orders[id].lock = 0
  BY <1>5, EmptyLock
<1>7. Agree(c, d, {})
  BY <1>3, <1>6, <1>d, CancelRows
<1> QED BY <1>4, <1>7, <1>c DEF Agree

\* The wallets and positions that a fill between maker and o moves.
LEMMA FillRows ==
  ASSUME NEW e, Shape(e), NoDebt(e), IsFunction(e.positions), e.available = available,
         NEW maker, Sound(maker), NEW o, Sound(o), NEW p \in Nat \ {0},
         NEW q \in Nat, q <= Rem(maker), q <= Rem(o),
         NEW first, NEW second, NEW filled,
         Fills(e, maker, o, p, q, first, second, filled)
  PROVE  /\ OnlyOf(e.positions, first.positions, maker.user)
         /\ OnlyOf(first.positions, second.positions, o.user)
         /\ \A a \in Accounts :
              \/ a = maker.user \/ a = o.user
              \/ a = FEE /\ FeePaid(first, second, FEE)
              \/ a = CLEARING /\ FeePaid(first, second, CLEARING)
              \/ e.available[a] = second.available[a] /\ e.locked[a] = second.locked[a]
         /\ Agree(second, filled, {}) /\ filled.positions = second.positions
<1>0. maker.user \in Users /\ o.user \in Users
  BY DEF Sound, Order
<1>1. MakerFeeBps \in Nat /\ TakerFeeBps \in Nat
  BY PerpConstants
<1>2. Settled(e, first, maker, q)
  BY <1>1, SettleFacts DEF Fills
<1>3. Shape(first) /\ NoDebt(first)
  BY <1>2 DEF Settled
<1>4. Shape(second)
  BY <1>1, <1>3, SettleFacts DEF Fills, Settled
<1>5. /\ \A a \in Accounts : a # maker.user => first.locked[a] = e.locked[a]
      /\ \A a \in Accounts : a # maker.user /\ a # FEE /\ a # CLEARING =>
           first.available[a] = e.available[a]
      /\ OnlyOf(e.positions, first.positions, maker.user)
  BY <1>0, SettleRows DEF Fills
<1>6. IsFunction(first.positions)
  BY <1>5 DEF OnlyOf
<1>7. /\ \A a \in Accounts : a # o.user => second.locked[a] = first.locked[a]
      /\ \A a \in Accounts : a # o.user /\ a # FEE /\ a # CLEARING =>
           second.available[a] = first.available[a]
      /\ OnlyOf(first.positions, second.positions, o.user)
  BY <1>0, <1>3, <1>6, SettleRows DEF Fills
<1>8. ASSUME NEW a \in Accounts, a # maker.user, a # o.user,
             ~(a = FEE /\ FeePaid(first, second, FEE)),
             ~(a = CLEARING /\ FeePaid(first, second, CLEARING))
      PROVE  e.available[a] = second.available[a] /\ e.locked[a] = second.locked[a]
  <2>1. e.locked[a] = second.locked[a]
    BY <1>5, <1>7, <1>8
  <2>2. CASE a = FEE \/ a = CLEARING
    BY <1>8, <2>1, <2>2 DEF FeePaid
  <2>3. CASE a # FEE /\ a # CLEARING
    BY <1>5, <1>7, <1>8, <2>1, <2>3
  <2> QED BY <2>2, <2>3
<1>9. /\ filled.available = second.available /\ filled.locked = second.locked
      /\ filled.positions = second.positions
  <2>1. PICK f : f = AfterFill(maker, q)
    OBVIOUS
  <2>2. filled = [second EXCEPT !.orders[maker.id] = f]
    BY <2>1 DEF Fills
  <2> QED BY <1>4, <2>2 DEF Shape, Fields
<1>10. Agree(second, filled, {})
  BY <1>9 DEF Agree
<1> QED BY <1>5, <1>7, <1>8, <1>9, <1>10

LEMMA FillShown ==
  ASSUME ProjInv, PExecuteFill
  PROVE  Restorable'
<1>0. PInv /\ ExecuteFill /\ ApplyBatch(FillEvents)
  BY DEF ProjInv, PExecuteFill
<1>e. PICK e, extra, n : e = Engine /\ extra = InFlight /\ n = supply + phantom
  OBVIOUS
<1>m. PICK maker : maker = BestMaker
  OBVIOUS
<1>o. PICK o : o = taker
  OBVIOUS
<1>p. PICK p : p = maker.price
  OBVIOUS
<1>q. PICK q : q = FillQty
  OBVIOUS
<1>1. /\ CanMatch /\ pc = "match" /\ pc' = pc /\ maker.user # o.user /\ Rem(o) > 0
      /\ UNCHANGED <<nextId, leverages, mark>>
  BY <1>0, <1>m, <1>o DEF ExecuteFill, CanMatch, SelfTrade, settings
<1>2. /\ Good(e, extra, n) /\ Sound(maker) /\ maker.id \in DOMAIN orders
      /\ orders[maker.id] = maker /\ Sound(o) /\ p \in Nat \ {0}
      /\ q \in Nat /\ q <= Rem(maker) /\ q <= Rem(o) /\ o.id \notin DOMAIN orders
  <2>1. Good(e, extra, n)
    BY <1>0, <1>e DEF PInv
  <2> QED BY <1>0, <1>1, <1>m, <1>o, <1>p, <1>q, <2>1, MakerFacts, FillQtyFacts
<1>3. /\ e.available = available /\ e.orders = orders /\ e.positions = positions
  BY <1>e, EngineParts
<1>4. Shape(e) /\ NoDebt(e) /\ IsFunction(e.positions) /\ Resting(orders)
  BY <1>2, <1>3 DEF Good, Shape, ProjInv, Restorable
<1>f. PICK first, second, filled, gone :
        FillIs(maker, o, q, first, second, filled, gone)
  BY <1>0, <1>m, <1>o, <1>q, ExecuteFillIs
<1>c. Fills(e, maker, o, p, q, first, second, filled)
  BY <1>e, <1>p, <1>f DEF FillIs
<1>k. PICK mk, ok : mk = AfterFill(maker, q) /\ ok = AfterFill(o, q)
  OBVIOUS
<1>5. /\ Sound(mk) /\ mk.id = maker.id
      /\ Sound(ok) /\ ok.id = o.id /\ ok.user = o.user /\ ok.leverage = o.leverage
      /\ mk.user = maker.user /\ mk.leverage = maker.leverage
      /\ Rem(ok) \in Nat
  <2>1. Rem(ok) = Rem(o) - q /\ Rem(o) \in Int
    BY <1>2, <1>k, AfterFillFacts, SoundLock DEF Sound
  <2>2. Rem(ok) \in Nat
    BY <1>2, <2>1
  <2> QED BY <1>2, <1>k, <2>2, AfterFillFacts
<1>x. PICK after : after = Paid(extra, o, q)
  OBVIOUS
<1>6. Good(filled, after, n) /\ filled.orders = FilledOrders(orders, maker, q)
  BY <1>2, <1>3, <1>x, <1>c, FilledGood
<1>l. PICK full : full = filled.orders
  OBVIOUS
<1>7. /\ Resting(full) /\ DOMAIN full = DOMAIN orders /\ full[maker.id] = mk
      /\ \A x \in DOMAIN orders \ {maker.id} : full[x] = orders[x]
  BY <1>2, <1>4, <1>6, <1>k, <1>l, FilledResting
<1>t. PICK cut : cut = TrimmedOf(full, SizesOf(filled.positions)[maker.user],
                                 maker.user, maker.id)
                       \cup TrimmedOf(full, SizesOf(filled.positions)[o.user],
                                      o.user, maker.id)
  OBVIOUS
<1>8. cut \in SUBSET (DOMAIN full) /\ maker.id \notin cut
  <2>1. \A size, u : /\ TrimmedOf(full, size, u, maker.id) \subseteq DOMAIN full
                     /\ maker.id \notin TrimmedOf(full, size, u, maker.id)
    BY <1>7, TrimmedAre DEF ReduceOnlyOf
  <2> QED BY <1>t, <2>1
<1>9. /\ gone = cut \cup IF Rem(mk) = 0 THEN {maker.id} ELSE {}
      /\ Becomes(Cancelled(filled, gone)) /\ taker' = ok
  BY <1>f, <1>t, <1>l, <1>k DEF FillIs
<1>10. gone \in SUBSET (DOMAIN full)
  BY <1>2, <1>7, <1>8, <1>9
<1>r. PICK r : r = Cancelled(filled, gone)
  OBVIOUS
<1>11. Good(r, after, n)
  BY <1>6, <1>10, <1>l, <1>r, CancelledGood
<1>12. Engine' = r
  BY <1>9, <1>11, <1>r, Became DEF Good, Shape
<1>13. orders' = Without(full, gone) /\ positions' = filled.positions
  <2>1. orders' = r.orders /\ positions' = r.positions
    BY <1>12, EngineParts DEF Engine
  <2>2. Shape(filled)
    BY <1>6 DEF Good
  <2> QED BY <2>1, <2>2, <1>l, <1>r, CancelledLedger
<1>14. TrimmedAway(mk) = cut
  <2>1. DOMAIN orders \ DOMAIN orders' = gone
    BY <1>7, <1>10, <1>13 DEF Without
  <2>2. TrimmedAway(mk) = gone \ IF Rem(mk) = 0 THEN {maker.id} ELSE {}
    BY <2>1, <1>5 DEF TrimmedAway
  <2> QED BY <2>2, <1>8, <1>9
<1>g. PICK fee, clearing : /\ fee = FeePaid(first, second, FEE)
                           /\ clearing = FeePaid(first, second, CLEARING)
  OBVIOUS
<1>15. FillEvents = PaidEvents(Trade(mk, ok), second, maker.user, o.user, fee, clearing)
                      \o CancelAllEvents(filled, cut)
  BY <1>0, <1>1, <1>14, <1>c, <1>e, <1>g, <1>k, <1>m, <1>o, <1>p, <1>q, FillEventsAre
<1>16. /\ OnlyOf(positions, first.positions, maker.user)
       /\ OnlyOf(first.positions, second.positions, o.user)
       /\ \A a \in Accounts :
            \/ a = maker.user \/ a = o.user
            \/ a = FEE /\ fee
            \/ a = CLEARING /\ clearing
            \/ e.available[a] = second.available[a] /\ e.locked[a] = second.locked[a]
       /\ Agree(second, filled, {}) /\ filled.positions = second.positions
  <2>1. /\ OnlyOf(e.positions, first.positions, maker.user)
        /\ OnlyOf(first.positions, second.positions, o.user)
        /\ \A a \in Accounts :
             \/ a = maker.user \/ a = o.user
             \/ a = FEE /\ FeePaid(first, second, FEE)
             \/ a = CLEARING /\ FeePaid(first, second, CLEARING)
             \/ e.available[a] = second.available[a] /\ e.locked[a] = second.locked[a]
        /\ Agree(second, filled, {}) /\ filled.positions = second.positions
    BY <1>2, <1>3, <1>4, <1>c, FillRows
  <2> QED BY <2>1, <1>3, <1>g
<1>w. PICK rows : rows = Upserted(Upserted(WithOrder(orders, o), mk), ok)
  OBVIOUS
<1>17. PICK x : /\ Leads(Tables, PaidEvents(Trade(mk, ok), second, maker.user, o.user,
                                            fee, clearing), x)
                /\ Shows(x, second, {}, second.positions, rows, mark, tables.ids)
  <2>1. OpenRows = WithOrder(orders, o)
    BY <1>1, <1>o DEF OpenRows
  <2>2. Shows(Tables, e, {}, positions, WithOrder(orders, o), mark, tables.ids)
    BY <2>1, <1>e, Standing
  <2>3. IsFunction(positions) /\ maker.user \in Users /\ o.user \in Users
    BY <1>2, <1>3, <1>4 DEF Sound, Order
  <2> QED BY <2>2, <2>3, <1>16, <1>w, PaidShown
<1>18. Shows(x, filled, {}, filled.positions, rows, mark, tables.ids)
  BY <1>16, <1>17, ShowsSame
<1>19. /\ IsFunction(rows) /\ cut \subseteq DOMAIN rows
       /\ Without(rows, cut) = IF Rem(ok) # 0 THEN WithOrder(orders', ok) ELSE orders'
  <2>1. PICK rest : rest = orders' /\ rest = Without(full, gone)
    BY <1>13
  <2>2. RowsCase(orders, o, mk, ok, cut, full, rows, gone, rest)
    BY <1>2, <1>5, <1>7, <1>8, <1>9, <1>w, <2>1 DEF RowsCase
  <2>3. /\ IsFunction(rows) /\ cut \subseteq DOMAIN rows
        /\ Without(rows, cut) = IF Rem(ok) # 0 THEN WithOrder(rest, ok) ELSE rest
    BY <2>2, FilledRows
  <2> QED BY <2>1, <2>3
<1>20. PICK end : /\ Leads(x, CancelAllEvents(filled, cut), end)
                  /\ Shows(end, Cancelled(filled, cut), {}, filled.positions,
                           Without(rows, cut), mark, tables.ids)
  BY <1>6, <1>8, <1>l, <1>18, <1>19, CancelAllLeads
<1>21. Agree(Cancelled(filled, cut), r, {})
  <2>1. CASE Rem(mk) = 0
    <3>1. gone = cut \cup {maker.id} /\ Rem(filled.orders[maker.id]) = 0
      BY <2>1, <1>7, <1>9, <1>l
    <3>2. maker.id \in DOMAIN filled.orders /\ cut \in SUBSET (DOMAIN filled.orders)
      BY <1>2, <1>7, <1>8, <1>l
    <3> QED BY <3>1, <3>2, <1>6, <1>8, <1>r, FilledRow
  <2>2. CASE Rem(mk) # 0
    <3>1. gone = cut
      BY <2>2, <1>9
    <3> QED BY <3>1, <1>r DEF Agree
  <2> QED BY <2>1, <2>2
<1>22. Shows(end, Engine', {}, filled.positions, Without(rows, cut), mark, tables.ids)
  BY <1>12, <1>20, <1>21, ShowsSame
<1>23. OpenRows' = IF Rem(ok) # 0 THEN WithOrder(orders', ok) ELSE orders'
  <2>1. OpenRows' = IF pc' = "match" /\ Rem(taker') > 0 THEN WithOrder(orders', taker')
                                                        ELSE orders'
    BY DEF OpenRows, WithOrder, Rem
  <2>2. pc' = "match" /\ taker' = ok
    BY <1>1, <1>9
  <2>3. Rem(taker') > 0 <=> Rem(ok) # 0
    BY <1>5, <2>2
  <2> QED BY <2>1, <2>2, <2>3
<1>24. Shows(end, Engine', {}, positions', OpenRows', mark', tables.ids)
  BY <1>1, <1>13, <1>19, <1>22, <1>23
<1>25. Leads(Tables, FillEvents, end)
  BY <1>15, <1>17, <1>20, LeadsThen
<1>26. IsFunction(orders') /\ IsFunction(positions')
  <2>1. IsFunction(orders')
    BY <1>13 DEF Without, IsFunction
  <2>2. IsFunction(positions')
    BY <1>13, <1>16 DEF OnlyOf
  <2> QED BY <2>1, <2>2
<1>27. tables.ids \subseteq 1..nextId' - 1
  BY <1>1 DEF ProjInv, Restorable
<1>28. LeverageKept'
  <2>a. PICK old, new, rest : /\ old = WithOrder(orders, o) /\ rest = orders'
                              /\ new = WithOrder(rest, ok)
    OBVIOUS
  <2>1. LiveOrders = old
    BY <1>1, <1>o, <2>a DEF LiveOrders
  <2>2. LiveOrders' = new
    BY <1>1, <1>9, <2>a DEF LiveOrders, WithOrder
  <2>3. /\ DOMAIN old = DOMAIN orders \cup {o.id} /\ old[o.id] = o
        /\ \A y \in DOMAIN orders : y # o.id => old[y] = orders[y]
    BY <2>a DEF WithOrder
  <2>4. /\ DOMAIN new = DOMAIN rest \cup {o.id} /\ new[o.id] = ok
        /\ \A y \in DOMAIN rest : y # o.id => new[y] = rest[y]
    BY <1>5, <2>a DEF WithOrder
  <2>5. DOMAIN rest \subseteq DOMAIN orders /\ \A y \in DOMAIN rest : rest[y] = full[y]
    BY <1>7, <1>13, <2>a DEF Without
  <2>6. ASSUME NEW id \in DOMAIN new
        PROVE  /\ id \in DOMAIN old /\ new[id].user = old[id].user
               /\ new[id].leverage = old[id].leverage
    <3>1. CASE id = o.id
      BY <1>5, <2>3, <2>4, <3>1
    <3>2. CASE id # o.id
      <4>1. id \in DOMAIN rest /\ new[id] = full[id] /\ old[id] = orders[id]
            /\ id \in DOMAIN old
        BY <2>3, <2>4, <2>5, <3>2
      <4>2. CASE id = maker.id
        BY <4>1, <4>2, <1>2, <1>5, <1>7
      <4>3. CASE id # maker.id
        BY <4>1, <4>3, <2>5, <1>7
      <4> QED BY <4>2, <4>3
    <3> QED BY <3>1, <3>2
  <2> QED BY <1>1, <2>1, <2>2, <2>6, LeverageStep
<1> QED BY <1>0, <1>24, <1>25, <1>26, <1>27, <1>28, StepShown

-----------------------------------------------------------------------------
(* Funding.                                                                *)

\* One holder's events: a receiver's wallet, then the payment.
HolderEvents(f, u, n) ==
  If(n > 0, <<BalanceChanged(f, u)>>) \o <<FundingApplied(u, n)>>

LEMMA HolderShown ==
  ASSUME NEW x, NEW f, NEW X, NEW P, NEW O, NEW m, NEW I, Shows(x, f, X, P, O, m, I),
         NEW u \in Accounts, u \in DOMAIN P, NEW n, u \in X => n > 0
  PROVE  \E y : /\ Leads(x, HolderEvents(f, u, n), y)
                /\ Shows(y, f, X \ {u}, [P EXCEPT ![u] = FundedRow(@, n)], O, m, I)
<1>1. PICK y : /\ Leads(x, If(n > 0, <<BalanceChanged(f, u)>>), y)
               /\ Shows(y, f, X \ {u}, P, O, m, I)
  BY BalanceIf
<1>2. Leads(y, <<FundingApplied(u, n)>>, Recorded(y, FundingApplied(u, n)))
  BY LeadsOne
<1>3. Shows(Recorded(y, FundingApplied(u, n)), f, X \ {u},
            [P EXCEPT ![u] = FundedRow(@, n)], O, m, I)
  BY <1>1, ShowsFunding
<1> QED BY <1>1, <1>2, <1>3, LeadsThen DEF HolderEvents

\* The rows once the holders in S have paid or been paid.
PaidRows(held, pay, S) ==
  [u \in DOMAIN held |-> IF u \in S THEN FundedRow(held[u], pay[u]) ELSE held[u]]

LEMMA PaidRowsMore ==
  ASSUME NEW held, NEW pay, NEW S, NEW u \in DOMAIN held, u \notin S,
         NEW r, r = PaidRows(held, pay, S)
  PROVE  [r EXCEPT ![u] = FundedRow(@, pay[u])] = PaidRows(held, pay, S \cup {u})
<1>1. /\ DOMAIN r = DOMAIN held /\ r = [x \in DOMAIN held |-> r[x]]
      /\ \A x \in DOMAIN held :
           r[x] = IF x \in S THEN FundedRow(held[x], pay[x]) ELSE held[x]
  BY DEF PaidRows
<1>n. PICK new : new = [r EXCEPT ![u] = FundedRow(@, pay[u])]
  OBVIOUS
<1>2. r[u] = held[u]
  BY <1>1
<1>3. new = [x \in DOMAIN held |-> IF x = u THEN FundedRow(held[u], pay[u]) ELSE r[x]]
  BY <1>1, <1>2, <1>n
<1>4. \A x \in DOMAIN held :
        (IF x = u THEN FundedRow(held[u], pay[u]) ELSE r[x]) =
          IF x \in S \cup {u} THEN FundedRow(held[x], pay[x]) ELSE held[x]
  BY <1>1
<1>5. new = [x \in DOMAIN held |->
               IF x \in S \cup {u} THEN FundedRow(held[x], pay[x]) ELSE held[x]]
  BY <1>3, <1>4
<1> QED BY <1>5, <1>n DEF PaidRows

LEMMA HoldersQueue ==
  ASSUME NEW held, DOMAIN held \subseteq Users, NEW queue, queue = Holders(held)
  PROVE  \E k \in Nat : /\ DOMAIN queue = 1..k
                        /\ \A i \in 1..k : queue[i] \in DOMAIN held
                        /\ \A x \in DOMAIN held : \E i \in 1..k : queue[i] = x
                        /\ \A i, j \in 1..k : i < j => queue[i] < queue[j]
<1>1. PICK S : S = DOMAIN held /\ S \subseteq Int /\ IsFiniteSet(S)
  <2>1. DOMAIN held \subseteq Int /\ IsFiniteSet(DOMAIN held)
    <3>1. IsFiniteSet(Users) /\ Users \subseteq Int
      BY PerpAssumption
    <3> QED BY <3>1, FS_Subset
  <2> QED BY <2>1
<1>2. queue = Ascending(S) /\ S \subseteq Int /\ IsFiniteSet(S)
  BY <1>1 DEF Holders
<1>3. /\ queue \in Seq(S) /\ Len(queue) = Cardinality(S) /\ Len(queue) \in Nat
      /\ \A x \in S : \E i \in 1..Len(queue) : queue[i] = x
      /\ \A i, j \in 1..Len(queue) : i < j => queue[i] < queue[j]
  BY <1>2, AscendingLists, Zenon
<1>4. DOMAIN queue = 1..Len(queue) /\ \A i \in 1..Len(queue) : queue[i] \in S
  BY <1>3
<1> QED BY <1>1, <1>3, <1>4

\* The holders, one after the other.
LEMMA HoldersShown ==
  ASSUME NEW held, IsFunction(held), DOMAIN held \subseteq Users, NEW pay, NEW queue,
         queue = Holders(held), NEW f, NEW X, NEW O, NEW m, NEW I, NEW db,
         Shows(db, f, X, held, O, m, I), \A u \in X \cap DOMAIN held : pay[u] > 0
  PROVE  \E end : /\ Leads(db, FlattenSeq([i \in DOMAIN queue |->
                                             HolderEvents(f, queue[i], pay[queue[i]])]),
                           end)
                  /\ Shows(end, f, X \ DOMAIN held, PaidRows(held, pay, DOMAIN held),
                           O, m, I)
<1>d. PICK S : S = DOMAIN held
  OBVIOUS
<1>1. S \subseteq Int /\ IsFiniteSet(S) /\ S \subseteq Accounts
  <2>1. S \subseteq Users /\ IsFiniteSet(Users) /\ Users \subseteq Int
    BY <1>d, PerpAssumption
  <2>2. IsFiniteSet(S)
    BY <2>1, FS_Subset
  <2> QED BY <2>1, <2>2, AccountsFinite
<1>k. PICK k \in Nat : /\ DOMAIN queue = 1..k /\ \A i \in 1..k : queue[i] \in S
                       /\ \A x \in S : \E i \in 1..k : queue[i] = x
                       /\ \A i, j \in 1..k : i < j => queue[i] < queue[j]
  BY <1>d, HoldersQueue
<1> DEFINE Seen(i) == {queue[j] : j \in 1..i - 1}
           lists == [i \in 1..k |-> HolderEvents(f, queue[i], pay[queue[i]])]
<1>3. [i \in DOMAIN queue |-> HolderEvents(f, queue[i], pay[queue[i]])] = lists
  BY <1>k
<1>4. \A i \in 1..k : IsList(lists[i])
  <2> SUFFICES ASSUME NEW i \in 1..k PROVE IsList(lists[i])
    OBVIOUS
  <2>1. PICK u, n : u = queue[i] /\ n = pay[u]
    OBVIOUS
  <2>2. IsList(HolderEvents(f, u, n))
    <3>1. PICK s, t : /\ s = If(n > 0, <<BalanceChanged(f, u)>>)
                      /\ t = <<FundingApplied(u, n)>>
      OBVIOUS
    <3>2. IsList(t) /\ IsList(<<BalanceChanged(f, u)>>) /\ IsList(<<>>)
      BY <3>1, LeadsOne, LeadsNone DEF Leads
    <3>3. IsList(s)
      BY <3>1, <3>2 DEF If
    <3> QED BY <3>1, <3>2, <3>3, Joins DEF HolderEvents
  <2> QED BY <2>1, <2>2
<1>5. PICK D : /\ D[0] = db
               /\ \A i \in 1..k : Leads(D[i - 1], lists[i], D[i])
               /\ Leads(db, FlattenSeq(lists), D[k])
  <2>1. lists = [i \in 1..k |-> lists[i]]
    OBVIOUS
  <2> HIDE DEF lists
  <2> QED BY <1>4, <2>1, FlattenLeads
<1>6. Seen(1) = {} /\ Seen(k + 1) = S
      /\ \A i \in 1..k : /\ Seen(i + 1) = Seen(i) \cup {queue[i]}
                         /\ queue[i] \notin Seen(i) /\ queue[i] \in S
  <2>1. 1..1 - 1 = {} /\ (k + 1) - 1 = k
    OBVIOUS
  <2>2. \A i \in 1..k : queue[i] \in S
    BY <1>k
  <2>3. Seen(k + 1) = S
    BY <1>k, <2>1, <2>2
  <2>4. ASSUME NEW i \in 1..k
        PROVE  /\ Seen(i + 1) = Seen(i) \cup {queue[i]}
               /\ queue[i] \notin Seen(i) /\ queue[i] \in S
    <3>1. 1..(i + 1) - 1 = (1..i - 1) \cup {i} /\ 1..i - 1 \subseteq 1..k
      OBVIOUS
    <3>2. \A j \in 1..i - 1 : queue[j] < queue[i]
      BY <1>k
    <3>3. PICK w \in Int : w = queue[i]
      BY <1>1, <2>2
    <3>4. ~(w < w)
      OBVIOUS
    <3> QED BY <2>2, <3>1, <3>2, <3>3, <3>4
  <2> QED BY <2>1, <2>3, <2>4
<1> DEFINE Done(i) == Shows(D[i], f, X \ Seen(i + 1), PaidRows(held, pay, Seen(i + 1)),
                            O, m, I)
           B == {i \in 0..k : ~Done(i)}
<1>7. \A i \in 1..k : lists[i] = HolderEvents(f, queue[i], pay[queue[i]])
  OBVIOUS
<1>8. Done(0)
  <2>1. 0 + 1 = 1 /\ X \ {} = X
    OBVIOUS
  <2>2. PaidRows(held, pay, {}) = held
    BY DEF PaidRows, IsFunction
  <2> QED BY <1>5, <1>6, <2>1, <2>2
<1> HIDE DEF lists, Seen
<1>9. ASSUME NEW i \in 1..k, Done(i - 1) PROVE Done(i)
  <2>0. (i - 1) + 1 = i
    OBVIOUS
  <2>g. PICK g, u, P : g = Seen(i) /\ u = queue[i] /\ P = PaidRows(held, pay, g)
    OBVIOUS
  <2>1. u \in DOMAIN held /\ u \notin g /\ u \in Accounts /\ u \in DOMAIN P
    BY <1>1, <1>6, <1>d, <2>g DEF PaidRows
  <2>2. Shows(D[i - 1], f, X \ g, P, O, m, I)
    BY <1>9, <2>0, <2>g
  <2>3. u \in X \ g => pay[u] > 0
    BY <2>1
  <2>4. PICK y : /\ Leads(D[i - 1], HolderEvents(f, u, pay[u]), y)
                 /\ Shows(y, f, (X \ g) \ {u}, [P EXCEPT ![u] = FundedRow(@, pay[u])],
                          O, m, I)
    BY <2>1, <2>2, <2>3, HolderShown
  <2>5. y = D[i]
    BY <1>5, <1>7, <2>4, <2>g, LeadsUnique
  <2>6. [P EXCEPT ![u] = FundedRow(@, pay[u])] = PaidRows(held, pay, g \cup {u})
    BY <2>1, <2>g, PaidRowsMore
  <2>7. (X \ g) \ {u} = X \ (g \cup {u}) /\ Seen(i + 1) = g \cup {u}
    BY <1>6, <2>g
  <2> QED BY <2>4, <2>5, <2>6, <2>7
<1>10. B = {}
  <2> SUFFICES ASSUME B # {} PROVE FALSE
    OBVIOUS
  <2> HIDE DEF Done
  <2>1. PICK i \in B : \A j \in B : i <= j
    <3>1. B \in SUBSET Nat
      OBVIOUS
    <3> HIDE DEF B
    <3> QED BY <3>1, LeastNumber
  <2>2. i # 0
    BY <1>8, <2>1
  <2>3. i \in 0..k
    BY <2>1
  <2>4. i \in 1..k /\ i - 1 \in 0..k /\ ~(i <= i - 1)
    BY <2>2, <2>3
  <2>5. i - 1 \notin B
    <3> HIDE DEF B
    <3> QED BY <2>1, <2>4
  <2>6. Done(i - 1)
    BY <2>4, <2>5
  <2>7. Done(i)
    BY <1>9, <2>4, <2>6
  <2> QED BY <2>1, <2>7
<1>11. Done(k)
  <2>1. k \in 0..k
    OBVIOUS
  <2> HIDE DEF Done
  <2> QED BY <1>10, <2>1
<1> QED BY <1>3, <1>5, <1>6, <1>11, <1>d

\* The rows that the payments leave are the positions of the engine.
LEMMA PaidPositions ==
  ASSUME NEW held, Held(held), NEW pay, Payable(pay, held), NEW h,
         h = [u \in DOMAIN held |-> [held[u] EXCEPT !.margin = @ + MinBig(0, pay[u])]]
  PROVE  PaidRows(held, pay, DOMAIN held) = h
<1>1. ASSUME NEW u \in DOMAIN held
      PROVE  FundedRow(held[u], pay[u]) = [held[u] EXCEPT !.margin = @ + MinBig(0, pay[u])]
  <2>p. PICK p, n : p = held[u] /\ n = pay[u]
    OBVIOUS
  <2>1. p \in Position /\ p.margin \in Int /\ n \in Int
    BY <2>p DEF Held, Position, Payable
  <2>2. CASE n < 0
    <3>1. MinBig(0, n) = n
      BY <2>1, <2>2 DEF MinBig
    <3> QED BY <2>2, <2>p, <3>1 DEF FundedRow
  <2>3. CASE ~(n < 0)
    <3>1. MinBig(0, n) = 0
      BY <2>1, <2>3 DEF MinBig
    <3>2. p.margin + 0 = p.margin
      BY <2>1
    <3>3. [p EXCEPT !.margin = @ + 0] = p
      BY <2>1, <3>2 DEF Position
    <3> QED BY <2>3, <2>p, <3>1, <3>3 DEF FundedRow
  <2> QED BY <2>2, <2>3
<1>2. PaidRows(held, pay, DOMAIN held) = [u \in DOMAIN held |-> FundedRow(held[u], pay[u])]
  BY DEF PaidRows
<1> QED BY <1>1, <1>2

\* A funding that pays `pay` to the holders in `queue`, with the ledger f after it.
FundingCase(rate, pay, queue, residual, f) ==
  /\ pay = [u \in DOMAIN positions |-> Payment(positions[u], rate)]
  /\ queue = Holders(positions)
  /\ \A i \in DOMAIN queue : queue[i] \in DOMAIN positions
  /\ residual = Residual(SumFunctionOnSet(pay, DOMAIN positions))
  /\ f = [available |-> available', locked |-> locked]

PaymentEvents(f, queue, pay) ==
  FlattenSeq([i \in DOMAIN queue |-> HolderEvents(f, queue[i], pay[queue[i]])])

LEMMA FundingEventsAre ==
  ASSUME NEW rate, NEW pay, NEW queue, NEW residual, NEW f,
         FundingCase(rate, pay, queue, residual, f)
  PROVE  FundingEvents(rate) =
           PaymentEvents(f, queue, pay)
             \o <<BalanceChanged(f, CLEARING)>>
             \o If(residual # 0, <<BalanceChanged(f, FEE)>>)
<1>0. /\ pay = [u \in DOMAIN positions |-> Payment(positions[u], rate)]
      /\ queue = Holders(positions)
      /\ \A i \in DOMAIN queue : queue[i] \in DOMAIN positions
      /\ residual = Residual(SumFunctionOnSet(pay, DOMAIN positions))
      /\ f = [available |-> available', locked |-> locked]
  BY DEF FundingCase
<1> DEFINE x_Pay(u) == Payment(positions[u], rate)
           x_total == SumFunction([u \in DOMAIN positions |-> x_Pay(u)])
           x_After == [available |-> available', locked |-> locked]
           x_Of(u) == If(x_Pay(u) > 0, <<BalanceChanged(x_After, u)>>)
                        \o <<FundingApplied(u, x_Pay(u))>>
           x_lists == [i \in DOMAIN Holders(positions) |-> x_Of(Holders(positions)[i])]
<1>1. FundingEvents(rate) = FlattenSeq(x_lists) \o <<BalanceChanged(x_After, CLEARING)>>
                              \o If(Residual(x_total) # 0, <<BalanceChanged(x_After, FEE)>>)
  BY ZenonT(60) DEF FundingEvents
<1>2. \A u \in DOMAIN positions : pay[u] = x_Pay(u)
  BY <1>0
<1>3. x_total = SumFunctionOnSet(pay, DOMAIN positions)
  <2>1. x_total = SumFunction(pay) /\ DOMAIN pay = DOMAIN positions
    BY <1>0
  <2> HIDE DEF x_Pay, x_total
  <2> QED BY <2>1 DEF SumFunction, SumFunctionOnSet
<1>4. \A u \in DOMAIN positions : x_Of(u) = HolderEvents(f, u, pay[u])
  <2> SUFFICES ASSUME NEW u \in DOMAIN positions PROVE x_Of(u) = HolderEvents(f, u, pay[u])
    OBVIOUS
  <2>1. PICK n : n = x_Pay(u) /\ pay[u] = n
    BY <1>2
  <2>2. x_After = f
    BY <1>0
  <2> HIDE DEF x_Pay, x_After
  <2> QED BY <2>1, <2>2 DEF HolderEvents
<1>5. x_lists = [i \in DOMAIN queue |-> HolderEvents(f, queue[i], pay[queue[i]])]
  <2>1. x_lists = [i \in DOMAIN queue |-> x_Of(queue[i])]
    BY <1>0
  <2> HIDE DEF x_Of, x_lists
  <2>2. \A i \in DOMAIN queue : x_Of(queue[i]) = HolderEvents(f, queue[i], pay[queue[i]])
    BY <1>0, <1>4
  <2> QED BY <2>1, <2>2
<1>6. x_After = f
  BY <1>0
<1>7. Residual(x_total) = residual
  BY <1>0, <1>3
<1> HIDE DEF x_Pay, x_total, x_After, x_Of, x_lists
<1> QED BY <1>1, <1>5, <1>6, <1>7 DEF PaymentEvents

LEMMA FundingShown ==
  ASSUME ProjInv, NEW rate \in Rates, PFunding(rate)
  PROVE  Restorable'
<1>0. PInv /\ ApplyFunding(rate) /\ ApplyBatch(FundingEvents(rate))
  BY DEF ProjInv, PFunding
<1>1. PICK pay, total, residual :
        /\ pay = [u \in DOMAIN positions |-> Payment(positions[u], rate)]
        /\ Payable(pay, positions)
        /\ Funded(Engine, pay, total, residual, available', positions')
  BY <1>0, FundingIs
<1>2. /\ pc = "idle" /\ pc' = "sweep"
      /\ UNCHANGED <<locked, leverages, orders, book, nextId, mark>>
  BY <1>0 DEF ApplyFunding, BeginSweep
<1>h. PICK held, a, h, f, D :
        /\ held = positions /\ a = available' /\ h = positions' /\ D = DOMAIN held
        /\ f = [available |-> available', locked |-> locked]
  OBVIOUS
<1>e. PICK e : e = Engine
  OBVIOUS
<1>3. /\ Shape(e) /\ NoDebt(e) /\ Held(held) /\ IsFunction(held) /\ D \subseteq Users
      /\ e.positions = held /\ e.available = available /\ e.locked = locked
  <2>1. Shape(e) /\ NoDebt(e)
    BY <1>0, <1>e DEF PInv, Good
  <2>2. e.positions = held /\ e.available = available /\ e.locked = locked
    BY <1>e, <1>h, EngineParts
  <2> QED BY <2>1, <2>2, <1>h DEF Shape, Held, ProjInv, Restorable
<1>4. Payable(pay, e.positions) /\ Funded(e, pay, total, residual, a, h)
  BY <1>1, <1>3, <1>e, <1>h
<1>5. /\ total \in Int /\ residual \in Int
      /\ \A u \in Users : a[u] =
           e.available[u] + IF u \in D THEN MaxBig(0, pay[u]) ELSE 0
      /\ a[FEE] = e.available[FEE] + residual
  BY <1>3, <1>4, <1>h, FundedWallets
<1>x. PICK X : X = {u \in D : pay[u] > 0} \cup {CLEARING}
                     \cup IF residual # 0 THEN {FEE} ELSE {}
  OBVIOUS
<1>6. /\ FEE \in Accounts /\ CLEARING \in Accounts /\ FEE # CLEARING
      /\ FEE \notin D /\ CLEARING \notin D /\ Accounts = Users \cup {FEE, CLEARING}
  BY <1>3, AccountsFinite, PerpAssumption DEF Accounts
<1>7. Agree(e, f, X)
  <2> SUFFICES ASSUME NEW c \in Accounts \ X
               PROVE  e.available[c] = f.available[c] /\ e.locked[c] = f.locked[c]
    BY DEF Agree
  <2>1. e.locked[c] = f.locked[c] /\ f.available[c] = a[c] /\ e.available[c] \in Int
    BY <1>3, <1>h DEF Shape
  <2>2. CASE c = FEE
    <3>1. residual = 0
      BY <2>2, <1>x
    <3> QED BY <2>1, <2>2, <3>1, <1>5
  <2>3. CASE c \in Users /\ c \in D
    <3>1. PICK n \in Int : n = pay[c]
      BY <2>3, <1>3, <1>4, <1>h DEF Payable
    <3>2. ~(n > 0)
      BY <2>3, <3>1, <1>x
    <3>3. MaxBig(0, n) = 0
      BY <3>1, <3>2 DEF MaxBig
    <3>4. a[c] = e.available[c] + 0
      BY <2>3, <3>1, <3>3, <1>5
    <3> QED BY <2>1, <3>4
  <2>4. CASE c \in Users /\ c \notin D
    <3>1. a[c] = e.available[c] + 0
      BY <2>4, <1>5
    <3> QED BY <2>1, <3>1
  <2>5. c # CLEARING
    BY <1>x
  <2> QED BY <2>2, <2>3, <2>4, <2>5, <1>6
<1>8. Shows(Tables, f, X, held, orders, mark, tables.ids)
  <2>1. Shows(Tables, e, {}, held, OpenRows, mark, tables.ids) /\ OpenRows = orders
    BY <1>2, <1>e, <1>h, Standing DEF OpenRows
  <2>2. {} \subseteq X /\ X \subseteq X
    OBVIOUS
  <2> QED BY <1>7, <2>1, <2>2, ShowsOther
<1>q. PICK queue : queue = Holders(held)
  OBVIOUS
<1>9. PICK x : /\ Leads(Tables, PaymentEvents(f, queue, pay), x)
               /\ Shows(x, f, X \ D, PaidRows(held, pay, D), orders, mark, tables.ids)
  <2>1. \A u \in X \cap DOMAIN held : pay[u] > 0
    BY <1>6, <1>h, <1>x
  <2> QED BY <1>3, <1>8, <1>h, <1>q, <2>1, HoldersShown, ZenonT(30) DEF PaymentEvents
<1>10. PaidRows(held, pay, D) = h
  <2>1. h = [u \in DOMAIN held |-> [held[u] EXCEPT !.margin = @ + MinBig(0, pay[u])]]
    BY <1>3, <1>4 DEF Funded
  <2> QED BY <1>3, <1>4, <1>h, <2>1, PaidPositions
<1>y. PICK y : y = Recorded(x, BalanceChanged(f, CLEARING))
  OBVIOUS
<1>11. /\ Leads(x, <<BalanceChanged(f, CLEARING)>>, y)
       /\ Shows(y, f, (X \ D) \ {CLEARING}, h, orders, mark, tables.ids)
  BY <1>6, <1>9, <1>10, <1>y, LeadsOne, ShowsBalance
<1>12. PICK end : /\ Leads(y, If(residual # 0, <<BalanceChanged(f, FEE)>>), end)
                  /\ Shows(end, f, ((X \ D) \ {CLEARING}) \ {FEE}, h, orders, mark,
                           tables.ids)
  <2>1. FEE \in (X \ D) \ {CLEARING} => residual # 0
    BY <1>6, <1>x
  <2> QED BY <1>6, <1>11, <2>1, BalanceIf
<1>13. ((X \ D) \ {CLEARING}) \ {FEE} = {}
  BY <1>x
<1>14. Agree(f, Engine', {})
  BY <1>2, <1>h DEF Agree, Engine
<1>15. Shows(end, Engine', {}, positions', OpenRows', mark', tables.ids)
  <2>1. OpenRows' = orders
    BY <1>2 DEF OpenRows
  <2>2. Shows(end, f, {}, h, orders, mark, tables.ids)
    BY <1>12, <1>13
  <2>3. Shows(end, Engine', {}, h, orders, mark, tables.ids)
    BY <1>14, <2>2, ShowsSame
  <2> QED BY <1>2, <1>h, <2>1, <2>3
<1>16. Leads(Tables, FundingEvents(rate), end)
  <2>1. residual = Residual(SumFunctionOnSet(pay, DOMAIN positions))
    BY <1>3, <1>4, <1>h DEF Funded, Residual
  <2>2. PICK k \in Nat : DOMAIN queue = 1..k /\ \A i \in 1..k : queue[i] \in DOMAIN held
    BY <1>3, <1>h, <1>q, HoldersQueue
  <2>3. FundingEvents(rate) =
          PaymentEvents(f, queue, pay)
            \o <<BalanceChanged(f, CLEARING)>>
            \o If(residual # 0, <<BalanceChanged(f, FEE)>>)
    <3>1. pay = [u \in DOMAIN positions |-> Payment(positions[u], rate)]
      BY <1>1
    <3>2. f = [available |-> available', locked |-> locked]
      BY <1>h
    <3>3. queue = Holders(positions) /\ \A i \in DOMAIN queue : queue[i] \in DOMAIN positions
      BY <1>h, <1>q, <2>2
    <3>4. FundingCase(rate, pay, queue, residual, f)
      BY <2>1, <3>1, <3>2, <3>3 DEF FundingCase
    <3> QED BY <3>4, FundingEventsAre
  <2>4. Leads(Tables, PaymentEvents(f, queue, pay) \o <<BalanceChanged(f, CLEARING)>>, y)
    BY <1>9, <1>11, LeadsThen
  <2> QED BY <1>12, <2>3, <2>4, LeadsThen
<1>17. IsFunction(orders') /\ IsFunction(positions')
  BY <1>2, <1>4, <1>h DEF ProjInv, Restorable, Funded, IsFunction
<1>18. LeverageKept'
  <2>1. LiveOrders' = LiveOrders
    BY <1>2 DEF LiveOrders
  <2> QED BY <1>2, <2>1, LeverageStep
<1>19. tables.ids \subseteq 1..nextId' - 1
  BY <1>2 DEF ProjInv, Restorable
<1> QED BY <1>0, <1>15, <1>16, <1>17, <1>18, <1>19, StepShown

-----------------------------------------------------------------------------
(* Liquidation and auto-deleveraging.                                      *)

\* A trader's position and balance and the clearing account.
ClosedEvents(e, u) ==
  <<PositionChanged(e, u), BalanceChanged(e, u), BalanceChanged(e, CLEARING)>>

LEMMA ClosedShown ==
  ASSUME NEW x, NEW e, NEW X, NEW P, NEW O, NEW m, NEW I, Shows(x, e, X, P, O, m, I),
         NEW u \in Accounts
  PROVE  \E y : /\ Leads(x, ClosedEvents(e, u), y)
                /\ Shows(y, e, (X \ {u}) \ {CLEARING}, Placed(P, e, u), O, m, I)
<1>e. PICK p, b, c : /\ p = PositionChanged(e, u) /\ b = BalanceChanged(e, u)
                     /\ c = BalanceChanged(e, CLEARING)
  OBVIOUS
<1>1. Leads(x, <<p, b, c>>, Recorded(Recorded(Recorded(x, p), b), c))
  BY LeadsThree
<1>2. Shows(Recorded(x, p), e, X, Placed(P, e, u), O, m, I)
  BY <1>e, ShowsPosition
<1>3. Shows(Recorded(Recorded(x, p), b), e, X \ {u}, Placed(P, e, u), O, m, I)
  BY <1>2, <1>e, ShowsBalance
<1>4. Shows(Recorded(Recorded(Recorded(x, p), b), c), e, (X \ {u}) \ {CLEARING},
            Placed(P, e, u), O, m, I)
  BY <1>3, <1>e, AccountsFinite, ShowsBalance
<1> QED BY <1>1, <1>4, <1>e DEF ClosedEvents

\* The events of a number of cancels are a list.
LEMMA CancelsListed ==
  ASSUME NEW e, NEW extra, NEW n, Good(e, extra, n), NEW ids \in SUBSET (DOMAIN e.orders)
  PROVE  IsList(CancelAllEvents(e, ids))
<1>b. PICK B, O : /\ B = [a \in Accounts |-> Row(e, a)]
                  /\ O = [x \in DOMAIN e.orders |-> e.orders[x]]
  OBVIOUS
<1>d. PICK P, db : P = e.positions /\ db = Image(B, P, O, 0, {})
  OBVIOUS
<1>1. Shows(db, e, {}, P, O, 0, {})
  <2>1. B = [a \in Accounts |-> B[a]] /\ \A a \in Accounts \ {} : B[a] = Row(e, a)
    BY <1>b
  <2> QED BY <2>1, <1>d DEF Shows
<1>2. IsFunction(O) /\ ids \subseteq DOMAIN O
  BY <1>b DEF IsFunction
<1>3. PICK end : Leads(db, CancelAllEvents(e, ids), end)
  BY <1>1, <1>2, CancelAllLeads
<1> QED BY <1>3 DEF Leads

\* x shows the engine e while winners are closed out: the position of u is
\* still there and the balances of X are to come.
Midway(x, e, u, X, m, I) ==
  \E P : /\ Shows(x, e, X, P, e.orders, m, I) /\ IsFunction(P) /\ IsFunction(e.orders)
         /\ e.positions = Without(P, {u})

LEMMA WithoutSwapped ==
  ASSUME NEW f, NEW a, NEW b
  PROVE  Without(Without(f, a), b) = Without(Without(f, b), a)
<1>1. Without(Without(f, a), b) = Without(f, a \cup b)
  BY WithoutTwice
<1>2. Without(Without(f, b), a) = Without(f, b \cup a)
  BY WithoutTwice
<1>3. a \cup b = b \cup a
  OBVIOUS
<1> QED BY <1>1, <1>2, <1>3

LEMMA WinnerShown ==
  ASSUME NEW extra, NEW n, NEW acc, NEW w \in Users, NEW c, c = ClosedWinner(mark, acc, w),
         NEW cut, WinnerPaid(mark, acc, w, c, extra, n, cut), NEW u, NEW X, NEW m, NEW I,
         NEW x, Midway(x, acc.e, u, X, m, I), {CLEARING, u} \subseteq X
  PROVE  \E y : /\ Leads(x, DeleverageEvents(acc, w), y)
                /\ Midway(y, Deleverage(mark, acc, w).e, u, X, m, I)
<1>e. PICK e, ids, r, O : /\ e = acc.e /\ ids = OrdersOf(c, w) /\ r = Cancelled(c, ids)
                          /\ O = e.orders
  OBVIOUS
<1>k. PICK k : k = n + (acc.rest - cut)
  OBVIOUS
<1>1. /\ Good(c, extra, k) /\ c.positions = Without(e.positions, {w}) /\ c.orders = O
      /\ c.locked = e.locked
      /\ \A a \in Accounts \ {w, CLEARING} : c.available[a] = e.available[a]
      /\ Deleverage(mark, acc, w).e = r
  BY <1>e, <1>k DEF WinnerPaid
<1>2. PICK P : /\ Shows(x, e, X, P, O, m, I) /\ IsFunction(P) /\ IsFunction(O)
               /\ e.positions = Without(P, {u})
  BY <1>e DEF Midway
<1>3. Shows(x, c, X \cup {w}, P, O, m, I)
  <2>1. Agree(e, c, {w, CLEARING})
    BY <1>1 DEF Agree
  <2>2. X \subseteq X \cup {w} /\ {w, CLEARING} \subseteq X \cup {w}
    OBVIOUS
  <2> QED BY <1>2, <2>1, <2>2, ShowsOther
<1>p. PICK Q : Q = Without(P, {w})
  OBVIOUS
<1>4. Placed(P, c, w) = Q
  <2>1. w \notin DOMAIN c.positions
    BY <1>1 DEF Without
  <2> QED BY <2>1, <1>p DEF Placed
<1>5. PICK y : /\ Leads(x, ClosedEvents(c, w), y)
               /\ Shows(y, c, ((X \cup {w}) \ {w}) \ {CLEARING}, Q, O, m, I)
  BY <1>3, <1>4, AccountsFinite, ClosedShown
<1>6. Shows(y, c, X, Q, O, m, I)
  <2>1. Agree(c, c, {})
    BY DEF Agree
  <2>2. ((X \cup {w}) \ {w}) \ {CLEARING} \subseteq X /\ {} \subseteq X
    OBVIOUS
  <2> QED BY <1>5, <2>1, <2>2, ShowsOther
<1>7. ids \in SUBSET (DOMAIN c.orders) /\ ids \subseteq DOMAIN O
  BY <1>1, <1>e DEF OrdersOf
<1>8. PICK end : /\ Leads(y, CancelAllEvents(c, ids), end)
                 /\ Shows(end, r, X, Q, Without(O, ids), m, I)
  BY <1>1, <1>2, <1>6, <1>7, <1>e, CancelAllLeads
<1>9. r.positions = c.positions /\ r.orders = Without(O, ids)
  <2>1. Fields(c)
    BY <1>1 DEF Good, Shape
  <2>2. r.orders = Without(c.orders, ids)
    BY <2>1, <1>e DEF Fields, Cancelled
  <2>3. r.positions = c.positions
    BY <1>1, <1>7, <1>e, CancelledGood
  <2> QED BY <1>1, <2>2, <2>3
<1>10. r.positions = Without(Q, {u})
  BY <1>1, <1>2, <1>9, <1>p, WithoutSwapped
<1>11. Midway(end, r, u, X, m, I)
  <2>1. IsFunction(Q)
    BY <1>p, WithoutIs
  <2>2. IsFunction(r.orders)
    <3>1. IsFunction(Without(O, ids))
      BY WithoutIs
    <3> QED BY <1>9, <3>1
  <2> QED BY <1>8, <1>9, <1>10, <2>1, <2>2 DEF Midway
<1>12. DeleverageEvents(acc, w) = ClosedEvents(c, w) \o CancelAllEvents(c, ids)
  BY <1>e DEF DeleverageEvents, ClosedEvents
<1>13. Leads(x, DeleverageEvents(acc, w), end)
  BY <1>5, <1>8, <1>12, LeadsThen
<1> QED BY <1>1, <1>11, <1>13

LEMMA WinnerListed ==
  ASSUME NEW c, NEW extra, NEW n, Good(c, extra, n), NEW acc, NEW w \in Users,
         c = ClosedWinner(mark, acc, w)
  PROVE  IsList(DeleverageEvents(acc, w))
<1>i. PICK ids : ids = OrdersOf(c, w)
  OBVIOUS
<1>1. ids \in SUBSET (DOMAIN c.orders)
  BY <1>i DEF OrdersOf
<1>2. IsList(CancelAllEvents(c, ids))
  BY <1>1, CancelsListed
<1>3. IsList(ClosedEvents(c, w))
  BY LeadsThree DEF ClosedEvents, Leads
<1>4. DeleverageEvents(acc, w) = ClosedEvents(c, w) \o CancelAllEvents(c, ids)
  BY <1>i DEF DeleverageEvents, ClosedEvents
<1> QED BY <1>2, <1>3, <1>4, Joins

\* The winners' events, one after the other.
LEMMA ClawbackShown ==
  ASSUME NEW e, NEW extra, NEW n \in Int, NEW rest \in Nat, Good(e, extra, n + rest),
         mark \in Int, NEW u, NEW X, {CLEARING, u} \subseteq X, NEW m, NEW I,
         NEW db, Midway(db, e, u, X, m, I)
  PROVE  \E y : /\ Leads(db, ClawbackEvents(e, rest), y)
                /\ Midway(y, AdlClawback(mark, e, rest).e, u, X, m, I)
<1>g. PICK g, s : g = Clawed(mark, e, rest) /\ s = Ranking(mark, e)
  OBVIOUS
<1>1. /\ Ranks(s, mark, e) /\ IsClaw(g, mark, e, rest, s, Len(s))
      /\ \A i \in 0..Len(s) : Clawing(g[i], e, extra, n, s, i)
  BY <1>g, ClawedGood
<1>k. PICK k \in Nat : k = Len(s)
  BY <1>1 DEF Ranks
<1>2. Held(e.positions)
  BY DEF Good, Shape
<1>3. \A i \in 1..k : s[i] \in Users
  <2>1. WinnersOf(mark, e) \subseteq Users
    BY <1>2 DEF WinnersOf, Held
  <2>2. \A i \in 1..k : s[i] \in WinnersOf(mark, e)
    BY <1>1, <1>k DEF Ranks
  <2> QED BY <2>1, <2>2
<1>4. /\ DOMAIN s = 1..k /\ g[0] = [e |-> e, rest |-> rest]
      /\ \A i \in 1..k : g[i] = Deleverage(mark, g[i - 1], s[i])
  <2>1. DOMAIN s = 1..k
    BY <1>1, <1>k DEF Ranks
  <2>2. g[0] = [e |-> e, rest |-> rest]
    <3>1. 0 \in 0..k
      OBVIOUS
    <3> QED BY <1>1, <1>k, <3>1 DEF IsClaw
  <2>3. ASSUME NEW i \in 1..k PROVE g[i] = Deleverage(mark, g[i - 1], s[i])
    <3>1. i \in 0..k /\ i # 0
      OBVIOUS
    <3> QED BY <1>1, <1>k, <3>1 DEF IsClaw
  <2> QED BY <2>1, <2>2, <2>3
\* Of each winner: the debt that is there and what closing it makes of the engine.
<1>5. ASSUME NEW i \in 1..k, NEW acc, acc = g[i - 1], NEW w, w = s[i], NEW c,
             c = ClosedWinner(mark, acc, w), acc.rest # 0
      PROVE  \E cut \in Nat : WinnerPaid(mark, acc, w, c, extra, n, cut)
  <2>1. i \in 1..Len(s) /\ i - 1 \in 0..Len(s)
    BY <1>k
  <2>2. Clawing(acc, e, extra, n, s, i - 1)
    BY <1>1, <1>5, <2>1
  <2> QED BY <1>1, <1>2, <1>5, <2>1, <2>2, WinnerGood
<1>6. \A i \in 0..k : g[i].rest \in Nat
  BY <1>1, <1>k DEF Clawing
<1> DEFINE lists == [i \in 1..k |-> If(g[i - 1].rest > 0, DeleverageEvents(g[i - 1], s[i]))]
<1>7. ClawbackEvents(e, rest) = FlattenSeq(lists)
  BY <1>g, <1>4 DEF ClawbackEvents
<1>8. \A i \in 1..k : IsList(lists[i])
  <2> SUFFICES ASSUME NEW i \in 1..k PROVE IsList(lists[i])
    OBVIOUS
  <2>1. PICK acc, w, c : acc = g[i - 1] /\ w = s[i] /\ c = ClosedWinner(mark, acc, w)
    OBVIOUS
  <2>2. lists[i] = If(acc.rest > 0, DeleverageEvents(acc, w))
    BY <2>1
  <2> HIDE DEF lists
  <2>3. CASE acc.rest = 0
    <3>1. lists[i] = <<>>
      BY <2>2, <2>3 DEF If
    <3> QED BY <3>1, LeadsNone DEF Leads
  <2>4. CASE acc.rest # 0
    <3>1. PICK cut \in Nat : WinnerPaid(mark, acc, w, c, extra, n, cut)
      BY <1>5, <2>1, <2>4
    <3>2. PICK j : Good(c, extra, j)
      BY <3>1 DEF WinnerPaid
    <3>3. IsList(DeleverageEvents(acc, w))
      BY <1>3, <2>1, <3>2, WinnerListed
    <3>4. acc.rest > 0
      <4>1. i - 1 \in 0..k
        OBVIOUS
      <4>2. acc.rest \in Nat
        BY <1>6, <2>1, <4>1
      <4> QED BY <2>4, <4>2
    <3> QED BY <2>2, <3>3, <3>4 DEF If
  <2> QED BY <2>3, <2>4
<1>9. PICK D : /\ D[0] = db
               /\ \A i \in 1..k : Leads(D[i - 1], lists[i], D[i])
               /\ Leads(db, FlattenSeq(lists), D[k])
  <2>1. lists = [i \in 1..k |-> lists[i]]
    OBVIOUS
  <2> HIDE DEF lists
  <2> QED BY <1>8, <2>1, FlattenLeads
<1>10. \A i \in 1..k : lists[i] = If(g[i - 1].rest > 0, DeleverageEvents(g[i - 1], s[i]))
  OBVIOUS
<1> HIDE DEF lists
<1> DEFINE Done(i) == Midway(D[i], g[i].e, u, X, m, I)
           B == {i \in 0..k : ~Done(i)}
<1>11. Done(0)
  <2>1. g[0].e = e
    BY <1>4
  <2> QED BY <1>9, <2>1
<1>12. ASSUME NEW i \in 1..k, Done(i - 1) PROVE Done(i)
  <2>1. PICK acc, w, c : acc = g[i - 1] /\ w = s[i] /\ c = ClosedWinner(mark, acc, w)
    OBVIOUS
  <2>2. /\ Midway(D[i - 1], acc.e, u, X, m, I) /\ g[i] = Deleverage(mark, acc, w)
        /\ lists[i] = If(acc.rest > 0, DeleverageEvents(acc, w))
        /\ Leads(D[i - 1], lists[i], D[i])
    BY <1>4, <1>9, <1>10, <1>12, <2>1
  <2>r. PICK r \in Nat : r = acc.rest
    <3>1. i - 1 \in 0..k
      OBVIOUS
    <3> QED BY <1>6, <2>1, <3>1
  <2>3. CASE r = 0
    <3>1. lists[i] = <<>> /\ g[i] = acc
      BY <2>2, <2>3, <2>r DEF If, Deleverage
    <3>2. D[i] = D[i - 1]
      <4>1. PICK x, y : x = D[i - 1] /\ y = D[i]
        OBVIOUS
      <4>2. Leads(x, <<>>, y) /\ Leads(x, <<>>, x)
        BY <2>2, <3>1, <4>1, LeadsNone
      <4> QED BY <4>1, <4>2 DEF Leads
    <3> QED BY <2>2, <3>1, <3>2
  <2>4. CASE r # 0
    <3>1. PICK cut \in Nat : WinnerPaid(mark, acc, w, c, extra, n, cut)
      BY <1>5, <2>1, <2>4, <2>r
    <3>2. PICK y : /\ Leads(D[i - 1], DeleverageEvents(acc, w), y)
                   /\ Midway(y, Deleverage(mark, acc, w).e, u, X, m, I)
      BY <1>3, <2>1, <2>2, <3>1, WinnerShown
    <3>3. lists[i] = DeleverageEvents(acc, w)
      <4>1. r > 0
        BY <2>4
      <4> QED BY <2>2, <2>r, <4>1 DEF If
    <3>4. y = D[i]
      BY <2>2, <3>2, <3>3, LeadsUnique
    <3> QED BY <2>2, <3>2, <3>4
  <2> QED BY <2>3, <2>4
<1>13. B = {}
  <2> SUFFICES ASSUME B # {} PROVE FALSE
    OBVIOUS
  <2> HIDE DEF Done
  <2>1. PICK i \in B : \A j \in B : i <= j
    <3>1. B \in SUBSET Nat
      OBVIOUS
    <3> HIDE DEF B
    <3> QED BY <3>1, LeastNumber
  <2>2. i # 0
    BY <1>11, <2>1
  <2>3. i \in 0..k
    BY <2>1
  <2>4. i \in 1..k /\ i - 1 \in 0..k /\ ~(i <= i - 1)
    BY <2>2, <2>3
  <2>5. i - 1 \notin B
    <3> HIDE DEF B
    <3> QED BY <2>1, <2>4
  <2>6. Done(i - 1)
    BY <2>4, <2>5
  <2>7. Done(i)
    BY <1>12, <2>4, <2>6
  <2> QED BY <2>1, <2>7
<1>14. Done(k)
  <2>1. k \in 0..k
    OBVIOUS
  <2> HIDE DEF Done
  <2> QED BY <1>13, <2>1
<1>15. AdlClawback(mark, e, rest) = g[k]
  BY <1>g, <1>k DEF AdlClawback
<1> QED BY <1>7, <1>9, <1>14, <1>15

\* A forced close moves the trader's wallet, the clearing account and, if it
\* covers anything, the fee account.
LEMMA ForcedRows ==
  ASSUME PInv, NEW u \in Users, NEW p \in Position, NEW f, f = ForceClosed(u, p),
         NEW X, X = {u, CLEARING} \cup IF FeeCover(p) > 0 THEN {FEE} ELSE {}
  PROVE  Agree(Engine, f, X) /\ f.positions = Without(positions, {u}) /\ f.orders = orders
<1>1. available \in [Accounts -> Int] /\ available[FEE] >= 0
  <2>1. Shape(Engine) /\ NoDebt(Engine) /\ Engine.available = available
    BY EngineParts DEF PInv, Good
  <2>2. FEE \in Accounts \ {CLEARING}
    BY AccountsFinite
  <2> QED BY <2>1, <2>2 DEF Shape, NoDebt
<1>2. PICK w \in Nat : w = available[FEE]
  <2>1. FEE \in Accounts
    BY AccountsFinite
  <2>2. available[FEE] \in Int /\ available[FEE] >= 0
    BY <1>1, <2>1
  <2> QED BY <2>2
<1>3. PICK margin \in Int, re \in Int : margin = p.margin /\ re = UnrealizedPnl(p, mark)
  <2>1. p.size \in Int /\ p.entry \in Int /\ p.margin \in Int
    BY DEF Position
  <2>2. mark \in Int
    BY PerpAssumption DEF PInv, Settings
  <2> QED BY <2>1, <2>2, PnlInt
<1>4. PICK deficit \in Nat : deficit = Deficit(p)
  <2>1. Deficit(p) = MaxBig(0, -(margin + re))
    BY <1>3 DEF Deficit
  <2>2. MaxBig(0, -(margin + re)) \in Nat
    BY DEF MaxBig
  <2> QED BY <2>1, <2>2
<1>5. PICK fee \in Nat : fee = FeeCover(p)
  <2>1. MaxBig(0, w) = w
    BY DEF MaxBig
  <2>2. FeeCover(p) = MinBig(deficit, w)
    BY <2>1, <1>2, <1>4 DEF FeeCover
  <2> QED BY <2>2, MinNat
<1>6. PICK k \in Int : k = MaxBig(0, margin + re)
  BY DEF MaxBig
<1>a. PICK a, l, h, o, b : a = available /\ l = locked /\ h = positions
                           /\ o = orders /\ b = book
  OBVIOUS
<1>x. PICK x : x = Credit(Credit(Credit(a, CLEARING, -re), u, k), FEE, -fee)
  OBVIOUS
<1>7. f = [available |-> x, locked |-> l, positions |-> Without(h, {u}), orders |-> o,
           book |-> b]
  <2>1. Engine = [available |-> a, locked |-> l, positions |-> h, orders |-> o, book |-> b]
    BY <1>a DEF Engine
  <2>2. f = [Engine EXCEPT
              !.positions = Without(@, {u}),
              !.available = Credit(Credit(Credit(@, CLEARING, -re), u, k), FEE, -fee)]
    BY <1>3, <1>5, <1>6 DEF ForceClosed
  <2> QED BY <2>1, <2>2, <1>x
<1>8. /\ u \in Accounts /\ FEE \in Accounts /\ CLEARING \in Accounts /\ FEE # CLEARING
      /\ FEE # u /\ CLEARING # u
  BY AccountsFinite
<1>9. /\ \A y \in Accounts : y # u /\ y # FEE /\ y # CLEARING => x[y] = a[y]
      /\ x[FEE] = a[FEE] - fee
  <2>1. a \in [Accounts -> Int]
    BY <1>1, <1>a
  <2> QED BY <2>1, <1>8, <1>x DEF Credit
<1>10. ASSUME NEW y \in Accounts \ X PROVE x[y] = a[y]
  <2>1. CASE y = FEE
    <3>1. ~(fee > 0)
      BY <2>1, <1>5
    <3>2. fee = 0
      BY <3>1
    <3>3. w - 0 = w
      OBVIOUS
    <3> QED BY <2>1, <3>2, <3>3, <1>2, <1>9, <1>a
  <2>2. CASE y # FEE
    BY <2>2, <1>9
  <2> QED BY <2>1, <2>2
<1>11. Agree(Engine, f, X)
  <2>1. Engine.available = a /\ Engine.locked = l
    BY <1>a, EngineParts
  <2> QED BY <2>1, <1>7, <1>10 DEF Agree
<1> QED BY <1>7, <1>11, <1>a

LEMMA LiquidationEventsAre ==
  ASSUME NEW u, NEW p, NEW debt, NEW k, NEW paid, LiquidationCase(u, p, debt, k, paid)
  PROVE  LiquidationEvents =
           If(adl, ClawbackEvents(ForceClosed(u, p), debt))
             \o ClosedEvents(paid, u)
             \o If(FeeCover(p) > 0, <<BalanceChanged(paid, FEE)>>)
             \o CancelAllEvents(paid, OrdersOf(paid, u))
<1>0. /\ u = Visited.user /\ p = Visited.pos /\ debt = Deficit(p) - FeeCover(p)
      /\ k = IF adl THEN AdlClawback(mark, ForceClosed(u, p), debt)
                    ELSE [e |-> ForceClosed(u, p), rest |-> debt]
      /\ paid = [k.e EXCEPT !.available = Credit(@, CLEARING, -k.rest)]
  BY DEF LiquidationCase
<1> DEFINE x_u == Visited.user
           x_p == Visited.pos
           x_debt == Deficit(x_p) - FeeCover(x_p)
           x_clawed == IF adl THEN AdlClawback(mark, ForceClosed(x_u, x_p), x_debt)
                              ELSE [e |-> ForceClosed(x_u, x_p), rest |-> x_debt]
           x_paid == [x_clawed.e EXCEPT !.available = Credit(@, CLEARING, -x_clawed.rest)]
<1>1. LiquidationEvents =
        If(adl, ClawbackEvents(ForceClosed(x_u, x_p), x_debt))
          \o <<PositionChanged(x_paid, x_u), BalanceChanged(x_paid, x_u),
               BalanceChanged(x_paid, CLEARING)>>
          \o If(FeeCover(x_p) > 0, <<BalanceChanged(x_paid, FEE)>>)
          \o CancelAllEvents(x_paid, OrdersOf(x_paid, x_u))
  BY ZenonT(60) DEF LiquidationEvents
<1>2. x_u = u /\ x_p = p
  BY <1>0
<1> HIDE DEF x_u, x_p
<1>3. x_debt = debt
  BY <1>0, <1>2
<1> HIDE DEF x_debt
<1>4. x_clawed = k
  BY <1>0, <1>2, <1>3
<1> HIDE DEF x_clawed
<1>5. x_paid = paid
  BY <1>0, <1>4
<1> HIDE DEF x_paid
<1> QED BY <1>1, <1>2, <1>3, <1>5 DEF ClosedEvents

LEMMA LiquidateShown ==
  ASSUME ProjInv, PLiquidate
  PROVE  Restorable'
<1>0. PInv /\ Liquidate /\ ApplyBatch(LiquidationEvents)
  BY DEF ProjInv, PLiquidate
<1>1. pc = "sweep" /\ UNCHANGED <<nextId, pc, taker, leverages, mark>>
  BY <1>0 DEF Liquidate, settings
<1>2. PICK u \in Users, p \in Position, debt \in Nat, n \in Int : \E q, r :
        /\ LiquidationCase(u, p, debt, q, r)
        /\ LiquidationGood(u, p, debt, q, r, n)
        /\ Becomes(Cancelled(r, OrdersOf(r, u)))
  BY <1>0, LiquidationIs
<1>3. PICK k, paid :
        /\ LiquidationCase(u, p, debt, k, paid)
        /\ LiquidationGood(u, p, debt, k, paid, n)
        /\ Becomes(Cancelled(paid, OrdersOf(paid, u)))
  BY <1>2
<1>c. PICK c, extra, ke, O : /\ c = ForceClosed(u, p) /\ extra = InFlight /\ ke = k.e
                             /\ O = ke.orders
  OBVIOUS
<1>4. /\ Good(c, extra, n + debt) /\ k.rest \in Nat /\ Good(ke, extra, n + k.rest)
      /\ Good(paid, extra, n) /\ paid.positions = ke.positions /\ paid.orders = O
  BY <1>3, <1>c DEF LiquidationGood
<1>5. /\ k = IF adl THEN AdlClawback(mark, c, debt) ELSE [e |-> c, rest |-> debt]
      /\ paid = [ke EXCEPT !.available = Credit(@, CLEARING, -k.rest)]
  BY <1>3, <1>c DEF LiquidationCase
<1>x. PICK X : X = {u, CLEARING} \cup IF FeeCover(p) > 0 THEN {FEE} ELSE {}
  OBVIOUS
<1>i. PICK I : I = tables.ids
  OBVIOUS
<1>6. Agree(Engine, c, X) /\ c.positions = Without(positions, {u}) /\ c.orders = orders
  BY <1>0, <1>c, <1>x, ForcedRows
<1>7. OpenRows = orders /\ OpenRows' = orders' /\ LiveOrders = orders /\ LiveOrders' = orders'
  BY <1>1 DEF OpenRows, LiveOrders
<1>8. Midway(Tables, c, u, X, mark, I)
  <2>1. /\ Shows(Tables, Engine, {}, positions, orders, mark, I)
        /\ IsFunction(orders) /\ IsFunction(positions)
    BY <1>7, <1>i, Standing
  <2>2. {} \subseteq X /\ X \subseteq X
    OBVIOUS
  <2>3. Shows(Tables, c, X, positions, orders, mark, I)
    BY <1>6, <2>1, <2>2, ShowsOther
  <2> QED BY <1>6, <2>1, <2>3 DEF Midway
<1>9. PICK y : /\ Leads(Tables, If(adl, ClawbackEvents(c, debt)), y)
               /\ Midway(y, ke, u, X, mark, I)
  <2>1. CASE adl
    <3>1. {CLEARING, u} \subseteq X /\ mark \in Int
      BY <1>0, <1>x, PerpAssumption DEF PInv, Settings
    <3>2. PICK y : /\ Leads(Tables, ClawbackEvents(c, debt), y)
                   /\ Midway(y, AdlClawback(mark, c, debt).e, u, X, mark, I)
      BY <1>4, <1>8, <3>1, ClawbackShown
    <3>3. ke = AdlClawback(mark, c, debt).e
      BY <2>1, <1>5, <1>c
    <3>4. If(adl, ClawbackEvents(c, debt)) = ClawbackEvents(c, debt)
      BY <2>1 DEF If
    <3> QED BY <3>2, <3>3, <3>4
  <2>2. CASE ~adl
    <3>1. ke = c /\ If(adl, ClawbackEvents(c, debt)) = <<>>
      BY <2>2, <1>5, <1>c DEF If
    <3> QED BY <3>1, <1>8, LeadsNone
  <2> QED BY <2>1, <2>2
<1>10. PICK P : /\ Shows(y, ke, X, P, O, mark, I) /\ IsFunction(P) /\ IsFunction(O)
                /\ ke.positions = Without(P, {u})
  BY <1>9, <1>c DEF Midway
<1>q. PICK Q, ids, t : /\ Q = Without(P, {u}) /\ ids = OrdersOf(paid, u)
                       /\ t = Cancelled(paid, ids)
  OBVIOUS
<1>11. Shows(y, paid, X, P, O, mark, I)
  <2>1. PICK a, l, h, o, b : a = ke.available /\ l = ke.locked /\ h = ke.positions
                             /\ o = ke.orders /\ b = ke.book
    OBVIOUS
  <2>2. ke = [available |-> a, locked |-> l, positions |-> h, orders |-> o, book |-> b]
    BY <1>4, <2>1 DEF Good, Shape, Fields
  <2>3. PICK x : x = Credit(a, CLEARING, -k.rest)
    OBVIOUS
  <2>4. paid = [available |-> x, locked |-> l, positions |-> h, orders |-> o, book |-> b]
    BY <1>5, <2>2, <2>3
  <2>5. \A z \in Accounts \ {CLEARING} : x[z] = a[z]
    <3>1. a \in [Accounts -> Int]
      BY <1>4, <2>1 DEF Good, Shape
    <3> QED BY <2>3, <3>1 DEF Credit
  <2>6. Agree(ke, paid, {CLEARING})
    BY <2>1, <2>4, <2>5 DEF Agree
  <2>7. X \subseteq X /\ {CLEARING} \subseteq X
    BY <1>x
  <2> QED BY <1>10, <2>6, <2>7, ShowsOther
<1>12. Placed(P, paid, u) = Q
  <2>1. u \notin DOMAIN paid.positions
    BY <1>4, <1>10 DEF Without
  <2> QED BY <2>1, <1>q DEF Placed
<1>13. PICK y1 : /\ Leads(y, ClosedEvents(paid, u), y1)
                 /\ Shows(y1, paid, (X \ {u}) \ {CLEARING}, Q, O, mark, I)
  BY <1>11, <1>12, AccountsFinite, ClosedShown
<1>f. PICK fee : fee = (FeeCover(p) > 0)
  OBVIOUS
<1>14. PICK y2 : /\ Leads(y1, If(FeeCover(p) > 0, <<BalanceChanged(paid, FEE)>>), y2)
                 /\ Shows(y2, paid, {}, Q, O, mark, I)
  <2>1. FEE \in (X \ {u}) \ {CLEARING} => FeeCover(p) > 0
    <3>1. FEE # u /\ FEE # CLEARING
      BY AccountsFinite
    <3> QED BY <3>1, <1>x
  <2>2. ((X \ {u}) \ {CLEARING}) \ {FEE} = {}
    BY <1>x
  <2>3. PICK Y, ev : Y = (X \ {u}) \ {CLEARING} /\ ev = BalanceChanged(paid, FEE)
    OBVIOUS
  <2>4. FEE \in Accounts
    BY AccountsFinite
  <2>5. FEE \in Y => fee
    BY <2>1, <2>3, <1>f
  <2>6. Shows(y1, paid, Y, Q, O, mark, I)
    BY <1>13, <2>3
  <2>7. PICK z : /\ Leads(y1, If(fee, <<ev>>), z)
                 /\ Shows(z, paid, Y \ {FEE}, Q, O, mark, I)
    BY <2>3, <2>4, <2>5, <2>6, BalanceIf
  <2> QED BY <2>2, <2>3, <2>7, <1>f
<1>15. ids \in SUBSET (DOMAIN paid.orders) /\ ids \subseteq DOMAIN O
  BY <1>4, <1>q DEF OrdersOf
<1>16. PICK end : /\ Leads(y2, CancelAllEvents(paid, ids), end)
                  /\ Shows(end, t, {}, Q, Without(O, ids), mark, I)
  BY <1>4, <1>10, <1>14, <1>15, <1>q, CancelAllLeads
<1>17. t.positions = Q /\ t.orders = Without(O, ids) /\ Fields(t)
  <2>1. Fields(paid)
    BY <1>4 DEF Good, Shape
  <2>2. t.orders = Without(paid.orders, ids)
    BY <2>1, <1>q DEF Fields, Cancelled
  <2>3. t.positions = paid.positions /\ Good(t, extra, n)
    BY <1>4, <1>15, <1>q, CancelledGood
  <2> QED BY <1>4, <1>10, <1>q, <2>2, <2>3 DEF Good, Shape
<1>18. Engine' = t /\ positions' = Q /\ orders' = Without(O, ids)
  <2>1. Becomes(t)
    BY <1>3, <1>q
  <2> QED BY <2>1, <1>17, Became DEF Becomes
<1>19. Shows(end, Engine', {}, positions', OpenRows', mark', I)
  BY <1>1, <1>7, <1>16, <1>18
<1>20. Leads(Tables, LiquidationEvents, end)
  <2>1. LiquidationEvents =
          If(adl, ClawbackEvents(c, debt)) \o ClosedEvents(paid, u)
            \o If(FeeCover(p) > 0, <<BalanceChanged(paid, FEE)>>)
            \o CancelAllEvents(paid, ids)
    BY <1>3, <1>c, <1>q, LiquidationEventsAre
  <2>2. Leads(Tables, If(adl, ClawbackEvents(c, debt)) \o ClosedEvents(paid, u), y1)
    BY <1>9, <1>13, LeadsThen
  <2>3. Leads(Tables, If(adl, ClawbackEvents(c, debt)) \o ClosedEvents(paid, u)
                        \o If(FeeCover(p) > 0, <<BalanceChanged(paid, FEE)>>), y2)
    BY <1>14, <2>2, LeadsThen
  <2> QED BY <1>16, <2>1, <2>3, LeadsThen
<1>21. IsFunction(orders') /\ IsFunction(positions')
  BY <1>18, <1>q, WithoutIs
<1>22. LeverageKept'
  <2>1. PICK old, new : old = Engine /\ new = Engine'
    OBVIOUS
  <2>2. Cleared(new, old) /\ old.orders = orders /\ new.orders = orders'
    <3>1. new.orders = orders' /\ old.orders = orders
      BY <2>1 DEF Engine
    <3> QED BY <1>0, <2>1, <3>1, LiquidateInv
  <2>3. \A x \in DOMAIN orders' : x \in DOMAIN orders /\ orders'[x] = orders[x]
    BY <2>2 DEF Cleared
  <2> QED BY <1>1, <1>7, <2>3, LeverageStep
<1>23. I \subseteq 1..nextId' - 1
  BY <1>1, <1>i DEF ProjInv, Restorable
<1> QED BY <1>0, <1>19, <1>20, <1>21, <1>22, <1>23, StepShown

-----------------------------------------------------------------------------
(* The tables keep up with the engine.                                     *)

LEMMA ProjInit == PInit => ProjInv
<1> SUFFICES ASSUME PInit PROVE ProjInv
  OBVIOUS
<1>1. Init /\ PInv
  BY PerpInitInv DEF PInit
<1>2. PICK s \in Starts : available = s.available /\ positions = s.positions
  BY <1>1 DEF Init
<1>3. /\ orders = [id \in {} |-> NoOrder] /\ locked = [u \in Accounts |-> 0]
      /\ nextId = 1 /\ mark = 0 /\ pc = "idle"
  BY <1>1 DEF Init
<1>4. IsFunction(orders) /\ IsFunction(positions)
  <2>1. IsFunction(s.positions)
    BY PerpAssumption DEF IsFunction
  <2>2. IsFunction(orders)
    BY <1>3 DEF IsFunction
  <2> QED BY <1>2, <2>1, <2>2
<1>5. OpenRows = orders /\ LiveOrders = orders
  BY <1>3 DEF OpenRows, LiveOrders
<1>6. LeverageKept
  BY <1>3, <1>5 DEF LeverageKept
<1>b. PICK B : B = [a \in Accounts |-> [available |-> available[a], locked |-> 0]]
  OBVIOUS
<1>7. Tables = Image(B, positions, orders, mark, {}) /\ tables.ids = {}
  BY <1>3, <1>b DEF PInit, Tables, Image
<1>8. \A a \in Accounts : B[a] = Row(Engine, a)
  <2>1. Engine.available = available /\ Engine.locked = locked
    BY EngineParts
  <2> QED BY <2>1, <1>3, <1>b DEF Row
<1>9. InStep
  <2>1. B = [a \in Accounts |-> B[a]]
    BY <1>b
  <2> QED BY <2>1, <1>5, <1>7, <1>8 DEF InStep, Shows
<1> QED BY <1>1, <1>4, <1>6, <1>7, <1>9 DEF ProjInv, Restorable

\* The projection only watches: each of its steps is one of the engine's.
LEMMA ProjSteps == [PNext]_pvars => [Next]_vars
<1> SUFFICES ASSUME [PNext]_pvars PROVE [Next]_vars
  OBVIOUS
<1>1. CASE PSubmit
  BY <1>1 DEF PSubmit, Next, SubmitOrder
<1>2. CASE PCancelMaker \/ PExecuteFill \/ PFinish
  BY <1>2 DEF PCancelMaker, PExecuteFill, PFinish, Next, MatchOrder
<1>3. CASE \E id \in DOMAIN orders : PCancel(id)
  BY <1>3 DEF PCancel, Next
<1>4. CASE \E id \in DOMAIN orders, ch \in Amendments : PAmend(id, ch)
  BY <1>4 DEF PAmend, Next
<1>5. CASE \E u \in Users, l \in Leverages : PLeverage(u, l)
  BY <1>5 DEF PLeverage, Next
<1>6. CASE \E m \in Marks : PMark(m)
  BY <1>6 DEF PMark, Next
<1>7. CASE \E r \in Rates : PFunding(r)
  BY <1>7 DEF PFunding, Next
<1>8. CASE PPass \/ PLiquidate
  BY <1>8 DEF PPass, PLiquidate, Next, LiquidationSweep
<1>9. CASE \E t \in Transfers : PTransfer(t)
  BY <1>9 DEF PTransfer, Next
<1>10. CASE UNCHANGED pvars
  BY <1>10 DEF pvars
<1> QED BY <1>1, <1>2, <1>3, <1>4, <1>5, <1>6, <1>7, <1>8, <1>9, <1>10 DEF PNext

LEMMA ProjStays ==
  ASSUME ProjInv, UNCHANGED pvars
  PROVE  Restorable'
<1>1. /\ UNCHANGED <<tables, corrupt, orders, positions, mark, nextId, leverages, pc, taker>>
      /\ UNCHANGED <<available, locked, book>>
  BY DEF pvars, vars
<1>2. Tables' = Tables /\ Engine' = Engine /\ OpenRows' = OpenRows /\ LiveOrders' = LiveOrders
  BY <1>1 DEF Tables, Engine, OpenRows, LiveOrders
<1>3. Restorable
  BY DEF ProjInv
<1>4. InStep'
  <2>1. Shows(Tables, Engine, {}, positions, OpenRows, mark, tables.ids)
    BY <1>3 DEF Restorable, InStep
  <2>2. Shows(Tables', Engine', {}, positions', OpenRows', mark', tables'.ids)
    BY <2>1, <1>1, <1>2
  <2> QED BY <2>2 DEF InStep
<1>5. LeverageKept'
  BY <1>1, <1>2, LeverageStep
<1> QED BY <1>1, <1>3, <1>4, <1>5 DEF Restorable, IsFunction

LEMMA ProjNext == ProjInv /\ [PNext]_pvars => ProjInv'
<1> SUFFICES ASSUME ProjInv, [PNext]_pvars PROVE ProjInv'
  OBVIOUS
<1>0. PInv'
  BY ProjSteps, PerpNextInv DEF ProjInv
<1> SUFFICES Restorable'
  BY <1>0 DEF ProjInv
<1>1. CASE PSubmit
  BY <1>1, RejectShown, AcceptShown DEF PSubmit
<1>2. CASE PCancelMaker
  BY <1>2, CancelMakerShown
<1>3. CASE PExecuteFill
  BY <1>3, FillShown
<1>4. CASE PFinish
  BY <1>4, FinishShown
<1>5. CASE \E id \in DOMAIN orders : PCancel(id)
  BY <1>5, CancelOrderShown
<1>6. CASE \E id \in DOMAIN orders, ch \in Amendments : PAmend(id, ch)
  BY <1>6, AmendShown
<1>7. CASE \E u \in Users, l \in Leverages : PLeverage(u, l)
  BY <1>7, LeverageShown
<1>8. CASE \E m \in Marks : PMark(m)
  BY <1>8, MarkShown
<1>9. CASE \E r \in Rates : PFunding(r)
  BY <1>9, FundingShown
<1>10. CASE PPass
  BY <1>10, PassShown
<1>11. CASE PLiquidate
  BY <1>11, LiquidateShown
<1>12. CASE \E t \in Transfers : PTransfer(t)
  BY <1>12, TransferShown
<1>13. CASE UNCHANGED pvars
  BY <1>13, ProjStays
<1> QED BY <1>1, <1>2, <1>3, <1>4, <1>5, <1>6, <1>7, <1>8, <1>9, <1>10, <1>11, <1>12,
           <1>13 DEF PNext

\* The projector writes beside the engine and never in its way: a run of the
\* two is a run of the engine.
THEOREM ProjectionWatches == PSpec => Spec
<1>1. PInit => Init
  BY DEF PInit
<1> QED BY <1>1, ProjSteps, PTL DEF PSpec, Spec

\* After every handler the rows of the tables are the wallets, positions, open
\* orders and mark of the engine, each order at its trader's leverage.
THEOREM ProjectionInvariant == PSpec => []ProjInv
<1> QED BY ProjInit, ProjNext, PTL DEF PSpec

LEMMA RestoredRows ==
  ASSUME PInv, LeverageKept, pc = "idle", NEW id \in DOMAIN orders
  PROVE  RestoredOrder(orders[id]) = orders[id]
<1>1. Resting(orders)
  BY EngineParts DEF PInv, Good, Shape
<1>2. PICK o : o = orders[id]
  OBVIOUS
<1>3. o \in Order /\ o.lock = LockFor(o)
  BY <1>1, <1>2 DEF Resting, Sound
<1>4. o.leverage = leverages[o.user]
  BY <1>2 DEF LeverageKept, LiveOrders
<1>5. [o EXCEPT !.leverage = leverages[o.user]] = o
  BY <1>3, <1>4 DEF Order
<1>6. [o EXCEPT !.lock = LockFor(o)] = o
  BY <1>3 DEF Order
<1> QED BY <1>2, <1>5, <1>6 DEF RestoredOrder

LEMMA RestoredBook ==
  ASSUME PInv
  PROVE  BookOf(orders) = book
<1>1. /\ Resting(orders) /\ book = [s \in Sides |-> book[s]]
      /\ \A s \in Sides : Queue(s, book[s], orders)
  BY EngineParts DEF PInv, Good, Shape
<1>2. /\ Priced(orders) /\ IsFiniteSet(DOMAIN orders)
      /\ \A x \in DOMAIN orders : orders[x].id = x
  <2>1. \A x \in DOMAIN orders : orders[x].price \in Nat
    BY <1>1 DEF Resting, Sound, Order
  <2> QED BY <2>1, <1>1 DEF Resting, Priced
<1>3. \A s \in Sides : BookOf(orders)[s] = book[s]
  BY <1>1, <1>2, RestoredQueue
<1>4. BookOf(orders) = [s \in Sides |-> BookOf(orders)[s]]
  BY DEF BookOf
<1> QED BY <1>1, <1>3, <1>4

LEMMA RestoredEngine == ProjInv => RestoreIsEngine
<1> SUFFICES ASSUME ProjInv, pc = "idle" PROVE Restored = Engine /\ tables.mark = mark
  BY DEF RestoreIsEngine
<1>1. /\ Shows(Tables, Engine, {}, positions, orders, mark, tables.ids)
      /\ IsFunction(orders) /\ PInv /\ LeverageKept
  BY DEF ProjInv, Restorable, InStep, OpenRows
<1>2. PICK B : /\ Tables = Image(B, positions, orders, mark, tables.ids)
               /\ \A a \in Accounts \ {} : B[a] = Row(Engine, a)
  BY <1>1 DEF Shows
<1>3. /\ tables.balances = B /\ tables.positions = positions /\ tables.orders = orders
      /\ tables.mark = mark
  BY <1>2 DEF Tables, Image
<1>4. \A a \in Accounts : B[a].available = available[a] /\ B[a].locked = locked[a]
  <2>e. PICK e : e = Engine
    OBVIOUS
  <2>1. e.available = available /\ e.locked = locked
    BY <2>e, EngineParts
  <2>2. \A a \in Accounts : B[a] = Row(e, a)
    BY <1>2, <2>e
  <2>3. ASSUME NEW a \in Accounts
        PROVE  B[a].available = available[a] /\ B[a].locked = locked[a]
    <3>1. PICK x, y : x = available[a] /\ y = locked[a]
      OBVIOUS
    <3>2. Row(e, a) = [available |-> x, locked |-> y]
      BY <2>1, <3>1 DEF Row
    <3>3. B[a] = [available |-> x, locked |-> y]
      BY <2>2, <3>2
    <3> QED BY <3>1, <3>3
  <2> QED BY <2>3
<1>5. available \in [Accounts -> Int] /\ locked \in [Accounts -> Int]
  BY <1>1, EngineParts DEF PInv, Good, Shape
<1>6. /\ [a \in Accounts |-> tables.balances[a].available] = available
      /\ [a \in Accounts |-> tables.balances[a].locked] = locked
  BY <1>3, <1>4, <1>5
<1>7. [id \in DOMAIN tables.orders |-> RestoredOrder(tables.orders[id])] = orders
  <2>1. \A id \in DOMAIN orders : RestoredOrder(orders[id]) = orders[id]
    BY <1>1, RestoredRows
  <2> QED BY <2>1, <1>1, <1>3 DEF IsFunction
<1>8. Restored = Engine
  <2>1. BookOf(orders) = book
    BY <1>1, RestoredBook
  <2> QED BY <2>1, <1>3, <1>6, <1>7 DEF Restored, Engine
<1> QED BY <1>3, <1>8

\* A restart at the end of any operation is exact: the tables restore the
\* balances, positions, orders, queues and mark of the engine that wrote them.
THEOREM BootRestoreIsExact == PSpec => []RestoreIsEngine
<1> QED BY ProjectionInvariant, RestoredEngine, PTL

LEMMA StreamKept == ProjInv => StreamSound
<1> SUFFICES ASSUME ProjInv PROVE ~corrupt
  BY DEF StreamSound
<1>1. PICK B : Tables = Image(B, positions, OpenRows, mark, tables.ids)
  BY DEF ProjInv, Restorable, InStep, Shows
<1>2. Tables.bad = FALSE /\ Tables.bad = corrupt
  BY <1>1 DEF Tables, Image
<1> QED BY <1>2

\* No event names a row that is not there, or inserts one that is: applyEvent
\* never throws on the engine's stream, and no filled order is cancelled in it.
THEOREM StreamIsSound == PSpec => []StreamSound
<1> QED BY ProjectionInvariant, StreamKept, PTL
=============================================================================
