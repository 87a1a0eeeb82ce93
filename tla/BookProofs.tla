----------------------------- MODULE BookProofs -----------------------------
(***************************************************************************)
(* Facts about one side of the book: what removing, inserting and partly   *)
(* filling an order does to a queue in price-time order, and that putting  *)
(* the orders back into an empty book rebuilds it.                         *)
(***************************************************************************)
EXTENDS OrderBook, ArithmeticProofs, SequenceTheorems

\* `ids` is the queue of `side` over the live orders `live`.
Queue(side, ids, live) ==
  /\ ids \in Seq(DOMAIN live)
  /\ PriceTime(side, ids, live)
  /\ \A i \in 1..Len(ids) : live[ids[i]].side = side
  /\ \A id \in DOMAIN live :
       live[id].side = side => \E i \in 1..Len(ids) : ids[i] = id

\* What the orders must be for prices and ages to be comparable.
Priced(live) ==
  DOMAIN live \subseteq Nat /\ \A id \in DOMAIN live : live[id].price \in Nat

LEMMA RemoveAtFacts ==
  ASSUME NEW S, NEW s \in Seq(S), NEW k \in 1..Len(s)
  PROVE  /\ RemoveAt(s, k) \in Seq(S)
         /\ Len(RemoveAt(s, k)) = Len(s) - 1
         /\ \A i \in 1..Len(s) - 1 :
              RemoveAt(s, k)[i] = IF i < k THEN s[i] ELSE s[i + 1]
<1> DEFINE a == SubSeq(s, 1, k - 1)  b == SubSeq(s, k + 1, Len(s))
<1>1. Len(s) \in Nat /\ \A i \in 1..Len(s) : s[i] \in S
  BY LenProperties, ElementOfSeq
<1>2. /\ a \in Seq(S) /\ Len(a) = k - 1
      /\ \A i \in 1..k - 1 : a[i] = s[i]
  <2>1. \A i \in 1..k - 1 : s[i] \in S
    BY <1>1
  <2>2. /\ a \in Seq(S)
        /\ Len(a) = IF 1 <= k - 1 THEN k - 1 - 1 + 1 ELSE 0
        /\ \A i \in 1..k - 1 - 1 + 1 : a[i] = s[1 + i - 1]
    BY <1>1, <2>1, SubSeqProperties
  <2> HIDE DEF a
  <2> QED BY <1>1, <2>2
<1>3. /\ b \in Seq(S) /\ Len(b) = Len(s) - k
      /\ \A i \in 1..Len(s) - k : b[i] = s[k + i]
  <2>1. \A i \in k + 1..Len(s) : s[i] \in S
    BY <1>1
  <2>2. /\ b \in Seq(S)
        /\ Len(b) = IF k + 1 <= Len(s) THEN Len(s) - (k + 1) + 1 ELSE 0
        /\ \A i \in 1..Len(s) - (k + 1) + 1 : b[i] = s[k + 1 + i - 1]
    BY <1>1, <2>1, SubSeqProperties
  <2> HIDE DEF b
  <2> QED BY <1>1, <2>2
<1> HIDE DEF a, b
<1>4. /\ a \o b \in Seq(S) /\ Len(a \o b) = Len(a) + Len(b)
      /\ \A i \in 1..Len(a) + Len(b) :
           (a \o b)[i] = IF i <= Len(a) THEN a[i] ELSE b[i - Len(a)]
  BY <1>2, <1>3, ConcatProperties
<1>5. RemoveAt(s, k) = a \o b
  BY DEF RemoveAt, a, b
<1>6. Len(a \o b) = Len(s) - 1
  BY <1>1, <1>2, <1>3, <1>4
<1>7. ASSUME NEW i \in 1..Len(s) - 1
      PROVE  (a \o b)[i] = IF i < k THEN s[i] ELSE s[i + 1]
  <2>1. (a \o b)[i] = IF i <= k - 1 THEN a[i] ELSE b[i - (k - 1)]
    BY <1>1, <1>2, <1>3, <1>4
  <2>2. CASE i < k
    BY <2>1, <2>2, <1>1, <1>2
  <2>3. CASE i >= k
    <3>1. i - (k - 1) \in 1..Len(s) - k /\ k + (i - (k - 1)) = i + 1
      BY <2>3, <1>1
    <3>2. (a \o b)[i] = b[i - (k - 1)]
      BY <2>1, <2>3, <1>1
    <3> QED BY <3>1, <3>2, <2>3, <1>1, <1>3
  <2>4. i < k \/ i >= k
    BY <1>1
  <2> QED BY <2>2, <2>3, <2>4
<1> QED BY <1>4, <1>5, <1>6, <1>7

LEMMA InsertAtFacts ==
  ASSUME NEW S, NEW s \in Seq(S), NEW k \in 0..Len(s), NEW e \in S
  PROVE  /\ InsertAt(s, k + 1, e) \in Seq(S)
         /\ Len(InsertAt(s, k + 1, e)) = Len(s) + 1
         /\ \A i \in 1..Len(s) + 1 :
              InsertAt(s, k + 1, e)[i] =
                IF i <= k THEN s[i] ELSE IF i = k + 1 THEN e ELSE s[i - 1]
<1> DEFINE a == SubSeq(s, 1, (k + 1) - 1)
           b == SubSeq(s, k + 1, Len(s))
           m == <<e>>
<1>1. Len(s) \in Nat /\ \A i \in 1..Len(s) : s[i] \in S
  BY LenProperties, ElementOfSeq
<1>2. /\ a \in Seq(S) /\ Len(a) = k
      /\ \A i \in 1..k : a[i] = s[i]
  <2>1. \A i \in 1..(k + 1) - 1 : s[i] \in S
    BY <1>1
  <2>2. /\ a \in Seq(S)
        /\ Len(a) = IF 1 <= (k + 1) - 1 THEN (k + 1) - 1 - 1 + 1 ELSE 0
        /\ \A i \in 1..(k + 1) - 1 - 1 + 1 : a[i] = s[1 + i - 1]
    BY <1>1, <2>1, SubSeqProperties
  <2> HIDE DEF a
  <2> QED BY <1>1, <2>2
<1>3. /\ b \in Seq(S) /\ Len(b) = Len(s) - k
      /\ \A i \in 1..Len(s) - k : b[i] = s[k + i]
  <2>1. \A i \in k + 1..Len(s) : s[i] \in S
    BY <1>1
  <2>2. /\ b \in Seq(S)
        /\ Len(b) = IF k + 1 <= Len(s) THEN Len(s) - (k + 1) + 1 ELSE 0
        /\ \A i \in 1..Len(s) - (k + 1) + 1 : b[i] = s[k + 1 + i - 1]
    BY <1>1, <2>1, SubSeqProperties
  <2> HIDE DEF b
  <2>3. Len(b) = Len(s) - k
    BY <1>1, <2>2
  <2>4. ASSUME NEW i \in 1..Len(s) - k PROVE b[i] = s[k + i]
    <3>1. i \in 1..Len(s) - (k + 1) + 1 /\ k + 1 + i - 1 = k + i
      BY <1>1
    <3> QED BY <2>2, <3>1
  <2> QED BY <2>2, <2>3, <2>4
<1>4. m \in Seq(S) /\ Len(m) = 1 /\ m[1] = e
  OBVIOUS
<1>7. InsertAt(s, k + 1, e) = (a \o m) \o b
  BY Zenon DEF InsertAt
<1> HIDE DEF a, b, m
<1> DEFINE am == a \o m
<1>5. /\ am \in Seq(S) /\ Len(am) = k + 1
      /\ \A i \in 1..k + 1 : am[i] = IF i <= k THEN a[i] ELSE m[i - k]
  <2>1. /\ a \o m \in Seq(S) /\ Len(a \o m) = Len(a) + Len(m)
        /\ \A i \in 1..Len(a) + Len(m) :
             (a \o m)[i] = IF i <= Len(a) THEN a[i] ELSE m[i - Len(a)]
    BY <1>2, <1>4, ConcatProperties
  <2> HIDE DEF am
  <2> QED BY <2>1, <1>1, <1>2, <1>4 DEF am
<1> HIDE DEF am
<1>6. /\ am \o b \in Seq(S) /\ Len(am \o b) = Len(am) + Len(b)
      /\ \A i \in 1..Len(am) + Len(b) :
           (am \o b)[i] = IF i <= Len(am) THEN am[i] ELSE b[i - Len(am)]
  BY <1>3, <1>5, ConcatProperties
<1>8. ASSUME NEW i \in 1..Len(s) + 1
      PROVE  (am \o b)[i] =
               IF i <= k THEN s[i] ELSE IF i = k + 1 THEN e ELSE s[i - 1]
  <2>0. (am \o b)[i] = IF i <= k + 1 THEN am[i] ELSE b[i - (k + 1)]
    BY <1>1, <1>3, <1>5, <1>6
  <2>1. CASE i <= k
    BY <2>0, <2>1, <1>1, <1>2, <1>5
  <2>2. CASE i = k + 1
    <3>1. k + 1 - k = 1 /\ ~(k + 1 <= k)
      BY <1>1
    <3>2. am[k + 1] = m[k + 1 - k]
      BY <3>1, <1>1, <1>5
    <3> QED BY <2>0, <2>2, <3>1, <3>2, <1>1, <1>4
  <2>3. CASE i > k + 1
    <3>1. i - (k + 1) \in 1..Len(s) - k /\ k + (i - (k + 1)) = i - 1
      BY <2>3, <1>1
    <3> QED BY <2>0, <2>3, <3>1, <1>1, <1>3
  <2>4. i <= k \/ i = k + 1 \/ i > k + 1
    BY <1>1
  <2> QED BY <2>1, <2>2, <2>3, <2>4
<1>9. Len(am \o b) = Len(s) + 1
  BY <1>1, <1>3, <1>5, <1>6 DEF am
<1> QED BY <1>6, <1>7, <1>8, <1>9 DEF am

-----------------------------------------------------------------------------

\* In a queue no id occurs twice: an id would have to be older than itself.
LEMMA QueueDistinct ==
  ASSUME NEW side \in Sides, NEW live, NEW ids, Priced(live),
         Queue(side, ids, live),
         NEW i \in 1..Len(ids), NEW j \in 1..Len(ids), ids[i] = ids[j]
  PROVE  i = j
<1>1. /\ Len(ids) \in Nat /\ DOMAIN ids = 1..Len(ids)
      /\ \A n \in 1..Len(ids) : ids[n] \in DOMAIN live
  BY LenProperties, ElementOfSeq DEF Queue
<1>2. ASSUME NEW m \in 1..Len(ids), NEW n \in 1..Len(ids), m < n,
             ids[m] = ids[n]
      PROVE  FALSE
  <2>1. \/ Better(side, live[ids[m]].price, live[ids[n]].price)
        \/ ids[m] < ids[n]
    BY <1>1, <1>2 DEF Queue, PriceTime
  <2>2. ids[m] \in Nat /\ live[ids[m]].price \in Nat
    BY <1>1 DEF Priced
  <2> QED BY <1>2, <2>1, <2>2 DEF Better
<1>3. i < j \/ j < i \/ i = j
  BY <1>1
<1> QED BY <1>2, <1>3

\* Taking an order out of its queue leaves the queue of the other orders.
LEMMA RemoveFromQueue ==
  ASSUME NEW side \in Sides, NEW live, NEW ids, Priced(live),
         Queue(side, ids, live), NEW id \in DOMAIN live, live[id].side = side
  PROVE  Queue(side, WithoutId(ids, id),
               [x \in DOMAIN live \ {id} |-> live[x]])
<1> DEFINE k == IndexOf(ids, id)
           rest == [x \in DOMAIN live \ {id} |-> live[x]]
           n == Len(ids)
           new == RemoveAt(ids, k)
<1>1. /\ n \in Nat /\ DOMAIN ids = 1..n
      /\ \A i \in 1..n : ids[i] \in DOMAIN live
  BY LenProperties, ElementOfSeq DEF Queue
<1>2. k \in 1..n /\ ids[k] = id
  <2>1. \E i \in DOMAIN ids : ids[i] = id
    BY <1>1 DEF Queue
  <2> QED BY <1>1, <2>1 DEF IndexOf
<1>3. \A i \in 1..n : i # k => ids[i] # id
  BY <1>2, QueueDistinct
<1> HIDE DEF k
<1>4. /\ new \in Seq(DOMAIN live) /\ Len(new) = n - 1
      /\ \A i \in 1..n - 1 : new[i] = IF i < k THEN ids[i] ELSE ids[i + 1]
  BY <1>2, RemoveAtFacts DEF Queue
<1> DEFINE from(i) == IF i < k THEN i ELSE i + 1
<1>5. /\ \A i \in 1..n - 1 : /\ from(i) \in 1..n /\ from(i) # k
                              /\ new[i] = ids[from(i)]
      /\ \A i, j \in 1..n - 1 : i < j => from(i) < from(j)
  BY <1>1, <1>2, <1>4
<1>6. \A j \in 1..n : j # k => \E i \in 1..n - 1 : from(i) = j
  <2> SUFFICES ASSUME NEW j \in 1..n, j # k
               PROVE  \E i \in 1..n - 1 : from(i) = j
    OBVIOUS
  <2>1. CASE j < k
    <3>1. j \in 1..n - 1 /\ from(j) = j
      BY <2>1, <1>1, <1>2
    <3> QED BY <3>1
  <2>2. CASE j > k
    <3>1. j - 1 \in 1..n - 1 /\ from(j - 1) = j
      BY <2>2, <1>1, <1>2
    <3> QED BY <3>1
  <2>3. j < k \/ j > k
    BY <1>1, <1>2
  <2> QED BY <2>1, <2>2, <2>3
<1> HIDE DEF new, from, n
<1>7. DOMAIN rest = DOMAIN live \ {id} /\ \A x \in DOMAIN rest : rest[x] = live[x]
  OBVIOUS
<1>8. \A i \in 1..n - 1 : new[i] \in DOMAIN rest /\ rest[new[i]] = live[new[i]]
  BY <1>1, <1>3, <1>5, <1>7
<1>9. new \in Seq(DOMAIN rest) /\ DOMAIN new = 1..n - 1
  <2>1. DOMAIN new = 1..n - 1 /\ new \in [1..n - 1 -> DOMAIN live] /\ n - 1 \in Nat
    <3>1. n - 1 \in Nat
      BY <1>1, <1>2
    <3> QED BY <3>1, <1>4, LenProperties
  <2>2. new \in [1..n - 1 -> DOMAIN rest]
    BY <1>8, <2>1
  <2> QED BY <2>1, <2>2, SeqDef
<1>10. PriceTime(side, new, rest)
  <2> SUFFICES ASSUME NEW i \in 1..n - 1, NEW j \in 1..n - 1, i < j
               PROVE  \/ Better(side, rest[new[i]].price, rest[new[j]].price)
                      \/ rest[new[i]].price = rest[new[j]].price
                           /\ new[i] < new[j]
    BY <1>9 DEF PriceTime
  <2>1. from(i) < from(j) /\ from(i) \in 1..n /\ from(j) \in 1..n
    BY <1>5
  <2>2. \/ Better(side, live[ids[from(i)]].price, live[ids[from(j)]].price)
        \/ live[ids[from(i)]].price = live[ids[from(j)]].price
             /\ ids[from(i)] < ids[from(j)]
    BY <2>1, <1>1 DEF Queue, PriceTime
  <2> QED BY <2>2, <1>5, <1>8
<1>11. \A i \in 1..n - 1 : rest[new[i]].side = side
  <2> SUFFICES ASSUME NEW i \in 1..n - 1 PROVE rest[new[i]].side = side
    OBVIOUS
  <2>1. from(i) \in 1..n /\ new[i] = ids[from(i)]
    BY <1>5
  <2>2. live[ids[from(i)]].side = side
    BY <2>1 DEF Queue, n
  <2> QED BY <2>1, <2>2, <1>8
<1>12. \A x \in DOMAIN rest : rest[x].side = side => \E i \in 1..n - 1 : new[i] = x
  <2> SUFFICES ASSUME NEW x \in DOMAIN rest, rest[x].side = side
               PROVE  \E i \in 1..n - 1 : new[i] = x
    OBVIOUS
  <2>1. PICK j \in 1..n : ids[j] = x
    BY <1>7 DEF Queue, n
  <2>2. j # k
    BY <2>1, <1>2, <1>7
  <2>3. PICK i \in 1..n - 1 : from(i) = j
    BY <1>6, <2>2
  <2> QED BY <2>1, <2>3, <1>5
<1>13. Len(new) = n - 1
  BY <1>4
<1>14. Queue(side, new, rest)
  BY <1>9, <1>10, <1>11, <1>12, <1>13 DEF Queue
<1> QED BY <1>14 DEF new, k, WithoutId

\* A change that keeps every order's side and price keeps the queue.
LEMMA SameQueue ==
  ASSUME NEW side \in Sides, NEW live, NEW new, NEW ids, Queue(side, ids, live),
         DOMAIN new = DOMAIN live,
         \A x \in DOMAIN live :
           new[x].side = live[x].side /\ new[x].price = live[x].price
  PROVE  Queue(side, ids, new)
<1>1. /\ Len(ids) \in Nat /\ DOMAIN ids = 1..Len(ids)
      /\ \A i \in 1..Len(ids) : ids[i] \in DOMAIN live
  BY LenProperties, ElementOfSeq DEF Queue
<1> QED BY <1>1 DEF Queue, PriceTime

\* An order of the other side leaves or joins without touching the queue.
LEMMA OtherQueue ==
  ASSUME NEW side \in Sides, NEW live, NEW new, NEW ids, Queue(side, ids, live),
         \A x \in DOMAIN live : live[x].side = side => x \in DOMAIN new,
         \A x \in DOMAIN new : new[x].side = side =>
           x \in DOMAIN live /\ new[x] = live[x],
         \A x \in DOMAIN live : x \in DOMAIN new => new[x] = live[x]
  PROVE  Queue(side, ids, new)
<1>1. /\ Len(ids) \in Nat /\ DOMAIN ids = 1..Len(ids)
      /\ ids \in [1..Len(ids) -> DOMAIN live]
      /\ \A i \in 1..Len(ids) : ids[i] \in DOMAIN live
  BY LenProperties, ElementOfSeq DEF Queue
<1>2. \A i \in 1..Len(ids) : ids[i] \in DOMAIN new /\ new[ids[i]] = live[ids[i]]
  BY <1>1 DEF Queue
<1>3. ids \in Seq(DOMAIN new)
  <2>1. ids \in [1..Len(ids) -> DOMAIN new]
    BY <1>1, <1>2
  <2> QED BY <1>1, <2>1, SeqDef
<1>4. PriceTime(side, ids, new)
  BY <1>1, <1>2 DEF Queue, PriceTime
<1>5. \A i \in 1..Len(ids) : new[ids[i]].side = side
  BY <1>2 DEF Queue
<1>6. \A x \in DOMAIN new :
        new[x].side = side => \E i \in 1..Len(ids) : ids[i] = x
  BY DEF Queue
<1> QED BY <1>3, <1>4, <1>5, <1>6 DEF Queue

\* The newest order, put where BookSide.insert puts it, keeps price-time order.
LEMMA InsertIntoQueue ==
  ASSUME NEW side \in Sides, NEW live, NEW ids, Priced(live),
         Queue(side, ids, live),
         NEW o, o.price \in Nat, o.side = side, o.id \in Nat,
         \A x \in DOMAIN live : x < o.id,
         NEW k \in 0..Len(ids), InsertPosition(side, o, live, ids, k)
  PROVE  Queue(side, InsertAt(ids, k + 1, o.id), WithOrder(live, o))
<1> DEFINE new == WithOrder(live, o)
           id == o.id
           n == Len(ids)
           q == InsertAt(ids, k + 1, id)
<1>1. /\ n \in Nat /\ DOMAIN ids = 1..n
      /\ \A i \in 1..n : ids[i] \in DOMAIN live
  BY LenProperties, ElementOfSeq DEF Queue
<1>2. id \notin DOMAIN live
  BY DEF Priced
<1>3. DOMAIN new = DOMAIN live \cup {id} /\ id \in DOMAIN new
  BY DEF WithOrder
<1>4. new[id] = o /\ \A x \in DOMAIN live : new[x] = live[x]
  BY <1>2 DEF WithOrder
<1> HIDE DEF new
<1>5. ids \in Seq(DOMAIN new)
  <2>1. DOMAIN live \subseteq DOMAIN new
    BY <1>3
  <2> QED BY <2>1, SeqMonotonic DEF Queue
<1>6. /\ q \in Seq(DOMAIN new) /\ Len(q) = n + 1
      /\ \A i \in 1..n + 1 :
           q[i] = IF i <= k THEN ids[i] ELSE IF i = k + 1 THEN id ELSE ids[i - 1]
  <2> DEFINE S == DOMAIN new
  <2>1. ids \in Seq(S) /\ id \in S /\ k \in 0..Len(ids)
    BY <1>3, <1>5
  <2> HIDE DEF S, id
  <2>2. /\ q \in Seq(S) /\ Len(q) = Len(ids) + 1
        /\ \A i \in 1..Len(ids) + 1 :
             q[i] = IF i <= k THEN ids[i]
                    ELSE IF i = k + 1 THEN id ELSE ids[i - 1]
    BY <2>1, InsertAtFacts
  <2> QED BY <2>2 DEF S
<1>7. DOMAIN q = 1..n + 1
  BY <1>6, LenProperties
<1> HIDE DEF q
<1>8. \A i, j \in 1..n : i < j =>
        \/ Better(side, live[ids[i]].price, live[ids[j]].price)
        \/ live[ids[i]].price = live[ids[j]].price /\ ids[i] < ids[j]
  BY <1>1 DEF Queue, PriceTime
<1>9. /\ \A i \in 1..k : ~Better(side, o.price, live[ids[i]].price)
      /\ \A i \in k + 1..n : Better(side, o.price, live[ids[i]].price)
  BY DEF InsertPosition
<1>10. \A i \in 1..n : /\ ids[i] < id /\ ids[i] \in Nat
                       /\ live[ids[i]].price \in Nat /\ new[ids[i]] = live[ids[i]]
  BY <1>1, <1>4 DEF Priced
<1>11. PriceTime(side, q, new)
  <2> SUFFICES ASSUME NEW i \in 1..n + 1, NEW j \in 1..n + 1, i < j
               PROVE  \/ Better(side, new[q[i]].price, new[q[j]].price)
                      \/ new[q[i]].price = new[q[j]].price /\ q[i] < q[j]
    BY <1>7 DEF PriceTime
  <2>1. CASE j <= k
    <3>1. i \in 1..n /\ j \in 1..n /\ q[i] = ids[i] /\ q[j] = ids[j]
      BY <2>1, <1>1, <1>6
    <3>2. \/ Better(side, live[ids[i]].price, live[ids[j]].price)
          \/ live[ids[i]].price = live[ids[j]].price /\ ids[i] < ids[j]
      BY <3>1, <1>8
    <3>3. new[ids[i]] = live[ids[i]] /\ new[ids[j]] = live[ids[j]]
      BY <3>1, <1>10
    <3> QED BY <3>1, <3>2, <3>3
  <2>2. CASE j = k + 1
    <3>1. i \in 1..k /\ i \in 1..n /\ q[i] = ids[i] /\ q[j] = id
      BY <2>2, <1>1, <1>6
    <3>2. ~Better(side, o.price, live[ids[i]].price)
      BY <3>1, <1>9
    <3> QED BY <3>1, <3>2, <1>4, <1>10 DEF Better
  <2>3. CASE i = k + 1
    <3>1. j - 1 \in k + 1..n /\ j - 1 \in 1..n /\ q[i] = id /\ q[j] = ids[j - 1]
      BY <2>3, <1>1, <1>6
    <3>2. Better(side, o.price, live[ids[j - 1]].price)
      BY <3>1, <1>9
    <3> QED BY <3>1, <3>2, <1>4, <1>10
  <2>4. CASE i > k + 1
    <3>1. /\ i - 1 \in 1..n /\ j - 1 \in 1..n /\ i - 1 < j - 1
          /\ q[i] = ids[i - 1] /\ q[j] = ids[j - 1]
      BY <2>4, <1>1, <1>6
    <3>2. \/ Better(side, live[ids[i - 1]].price, live[ids[j - 1]].price)
          \/ live[ids[i - 1]].price = live[ids[j - 1]].price
               /\ ids[i - 1] < ids[j - 1]
      BY <3>1, <1>8
    <3>3. new[ids[i - 1]] = live[ids[i - 1]] /\ new[ids[j - 1]] = live[ids[j - 1]]
      BY <3>1, <1>10
    <3> QED BY <3>1, <3>2, <3>3
  <2>5. CASE i <= k /\ j > k + 1
    <3>1. /\ i \in 1..n /\ j - 1 \in 1..n /\ i < j - 1
          /\ q[i] = ids[i] /\ q[j] = ids[j - 1]
      BY <2>5, <1>1, <1>6
    <3>2. \/ Better(side, live[ids[i]].price, live[ids[j - 1]].price)
          \/ live[ids[i]].price = live[ids[j - 1]].price
               /\ ids[i] < ids[j - 1]
      BY <3>1, <1>8
    <3>3. new[ids[i]] = live[ids[i]] /\ new[ids[j - 1]] = live[ids[j - 1]]
      BY <3>1, <1>10
    <3> QED BY <3>1, <3>2, <3>3
  <2>6. j <= k \/ j = k + 1 \/ i = k + 1 \/ i > k + 1 \/ (i <= k /\ j > k + 1)
    BY <1>1
  <2> QED BY <2>1, <2>2, <2>3, <2>4, <2>5, <2>6
<1>12. \A i \in 1..n + 1 : new[q[i]].side = side
  <2> SUFFICES ASSUME NEW i \in 1..n + 1 PROVE new[q[i]].side = side
    OBVIOUS
  <2>1. \A j \in 1..n : new[ids[j]].side = side
    BY <1>10 DEF Queue
  <2>2. q[i] = id \/ \E j \in 1..n : q[i] = ids[j]
    <3>1. CASE i <= k
      BY <3>1, <1>1, <1>6
    <3>2. CASE i = k + 1
      BY <3>2, <1>1, <1>6
    <3>3. CASE i > k + 1
      <4>1. i - 1 \in 1..n /\ q[i] = ids[i - 1]
        BY <3>3, <1>1, <1>6
      <4> QED BY <4>1
    <3>4. i <= k \/ i = k + 1 \/ i > k + 1
      BY <1>1
    <3> QED BY <3>1, <3>2, <3>3, <3>4
  <2> QED BY <2>1, <2>2, <1>4
<1>13. \A x \in DOMAIN new :
         new[x].side = side => \E i \in 1..n + 1 : q[i] = x
  <2> SUFFICES ASSUME NEW x \in DOMAIN new, new[x].side = side
               PROVE  \E i \in 1..n + 1 : q[i] = x
    OBVIOUS
  <2>1. CASE x = id
    <3>1. k + 1 \in 1..n + 1 /\ q[k + 1] = id
      BY <1>1, <1>6
    <3> QED BY <2>1, <3>1
  <2>2. CASE x # id
    <3>1. x \in DOMAIN live /\ live[x].side = side
      BY <2>2, <1>3, <1>4
    <3>2. PICK j \in 1..n : ids[j] = x
      BY <3>1 DEF Queue
    <3>3. CASE j <= k
      <4>1. j \in 1..n + 1 /\ q[j] = x
        BY <3>2, <3>3, <1>1, <1>6
      <4> QED BY <4>1
    <3>4. CASE j > k
      <4>1. j + 1 \in 1..n + 1 /\ q[j + 1] = ids[j]
        BY <3>4, <1>1, <1>6
      <4> QED BY <4>1, <3>2
    <3>5. j <= k \/ j > k
      BY <1>1
    <3> QED BY <3>3, <3>4, <3>5
  <2> QED BY <2>1, <2>2
<1>14. Queue(side, q, new)
  BY <1>6, <1>11, <1>12, <1>13 DEF Queue
<1> QED BY <1>14 DEF q, new

-----------------------------------------------------------------------------
(* Laying a finite set out in an order, by rank.                           *)

\* before[x] is what comes before x in a strict total order on S.
Ordering(S, before) ==
  /\ \A x \in S : before[x] \subseteq S /\ x \notin before[x]
  /\ \A x, y \in S : x = y \/ x \in before[y] \/ y \in before[x]
  /\ \A x, y \in S : x \in before[y] => before[x] \subseteq before[y]

\* s lists S, each element once and after those that come before it.
Lists(s, S, before) ==
  /\ s \in Seq(S) /\ Len(s) = Cardinality(S) /\ Len(s) \in Nat
  /\ \A x \in S : \E i \in 1..Len(s) : s[i] = x
  /\ \A i, j \in 1..Len(s) : i < j => s[i] # s[j] /\ s[i] \in before[s[j]]

\* The i-th element of s has i - 1 before it.
Ranked(s, S, before) ==
  /\ s \in [1..Cardinality(S) -> S]
  /\ \A i \in 1..Cardinality(S) : Cardinality(before[s[i]]) = i - 1

\* Every rank is taken, and a sequence by rank lists the set.
LEMMA RanksListed ==
  ASSUME NEW S, IsFiniteSet(S), NEW before, Ordering(S, before)
  PROVE  /\ \A i \in 1..Cardinality(S) : \E x \in S : Cardinality(before[x]) = i - 1
         /\ \A s : Ranked(s, S, before) => Lists(s, S, before)
<1> DEFINE n == Cardinality(S)
           rank == [x \in S |-> Cardinality(before[x])]
<1>1. n \in Nat
  BY FS_CardinalityType
<1>2. \A x \in S : IsFiniteSet(before[x]) /\ rank[x] \in 0..n - 1
  <2> TAKE x \in S
  <2>1. before[x] \in SUBSET S /\ before[x] # S
    BY DEF Ordering
  <2>2. /\ IsFiniteSet(before[x]) /\ Cardinality(before[x]) <= n
        /\ n = Cardinality(before[x]) => S = before[x]
    BY <2>1, FS_Subset
  <2>3. Cardinality(before[x]) \in Nat
    BY <2>2, FS_CardinalityType
  <2> QED BY <1>1, <2>1, <2>2, <2>3
<1>3. ASSUME NEW x \in S, NEW y \in S, x \in before[y]
      PROVE  rank[x] < rank[y]
  <2>1. before[x] \in SUBSET before[y] /\ before[x] # before[y]
    BY <1>3 DEF Ordering
  <2>2. /\ Cardinality(before[x]) <= Cardinality(before[y])
        /\ Cardinality(before[y]) = Cardinality(before[x]) => before[y] = before[x]
    BY <1>2, <2>1, FS_Subset
  <2> QED BY <1>1, <1>2, <2>1, <2>2
<1>4. \A x, y \in S : x # y => rank[x] # rank[y]
  <2> TAKE x, y \in S
  <2> HAVE x # y
  <2>1. x \in before[y] \/ y \in before[x]
    BY DEF Ordering
  <2>2. rank[x] \in Int /\ rank[y] \in Int
    BY <1>1, <1>2
  <2> HIDE DEF rank
  <2> QED BY <1>3, <2>1, <2>2
<1>5. rank \in Injection(S, 0..n - 1)
  BY <1>2, <1>4 DEF Injection, IsInjective
<1>6. IsFiniteSet(0..n - 1) /\ Cardinality(0..n - 1) = n
  BY <1>1, FS_Interval
<1>7. rank \in Surjection(S, 0..n - 1)
  BY <1>5, <1>6, FS_Injection
<1>0. \A i \in 1..n : \E x \in S : Cardinality(before[x]) = i - 1
  <2> TAKE i \in 1..n
  <2>1. i - 1 \in 0..n - 1
    BY <1>1
  <2>2. \E x \in S : rank[x] = i - 1
    BY <1>7, <2>1 DEF Surjection
  <2> QED BY <2>2
<1> SUFFICES ASSUME NEW s, Ranked(s, S, before) PROVE Lists(s, S, before)
  BY <1>0
<1>8. s \in [1..n -> S] /\ \A i \in 1..n : s[i] \in S /\ Cardinality(before[s[i]]) = i - 1
  BY DEF Ranked
<1>9. s \in Seq(S) /\ Len(s) = n
  BY <1>1, <1>8
<1>10. \A x \in S : \E i \in 1..n : s[i] = x
  <2> TAKE x \in S
  <2>1. rank[x] + 1 \in 1..n
    BY <1>1, <1>2
  <2>2. s[rank[x] + 1] \in S /\ rank[s[rank[x] + 1]] = (rank[x] + 1) - 1
    BY <1>8, <2>1
  <2>3. rank[s[rank[x] + 1]] = rank[x]
    BY <1>2, <2>2
  <2>4. s[rank[x] + 1] = x
    BY <1>4, <2>2, <2>3
  <2> QED BY <2>1, <2>4
<1>11. ASSUME NEW i \in 1..n, NEW j \in 1..n, i < j
       PROVE  s[i] # s[j] /\ s[i] \in before[s[j]]
  <2>1. s[i] \in S /\ s[j] \in S /\ rank[s[i]] = i - 1 /\ rank[s[j]] = j - 1
    BY <1>8
  <2>2. s[i] = s[j] \/ s[i] \in before[s[j]] \/ s[j] \in before[s[i]]
    BY <2>1 DEF Ordering
  <2>3. s[j] \notin before[s[i]]
    <3> SUFFICES ASSUME s[j] \in before[s[i]] PROVE FALSE
      OBVIOUS
    <3>1. rank[s[j]] < rank[s[i]]
      BY <1>3, <2>1
    <3> HIDE DEF rank
    <3> QED BY <1>1, <1>11, <2>1, <3>1
  <2>4. s[i] # s[j]
    <3> SUFFICES ASSUME s[i] = s[j] PROVE FALSE
      OBVIOUS
    <3>1. i - 1 = j - 1
      BY <2>1
    <3> QED BY <1>1, <1>11, <3>1
  <2> QED BY <2>2, <2>3, <2>4
<1> HIDE DEF n
<1> QED BY <1>1, <1>9, <1>10, <1>11 DEF Lists, n

\* Numbers, smallest first.
LEMMA AscendingLists ==
  ASSUME NEW S, S \subseteq Int, IsFiniteSet(S), NEW s, s = Ascending(S)
  PROVE  /\ s \in Seq(S) /\ Len(s) = Cardinality(S) /\ Len(s) \in Nat
         /\ \A x \in S : \E i \in 1..Len(s) : s[i] = x
         /\ \A i, j \in 1..Len(s) : i < j => s[i] < s[j]
<1> DEFINE before == [n \in S |-> {m \in S : m < n}]
           count == Cardinality(S)
<1>1. Ordering(S, before)
  <2>1. \A x \in S : before[x] \subseteq S /\ x \notin before[x]
    OBVIOUS
  <2>2. \A x, y \in S : x \in before[y] <=> x < y
    OBVIOUS
  <2>3. \A x, y \in S : x = y \/ x < y \/ y < x
    OBVIOUS
  <2>4. \A x, y, z \in S : x < y /\ z < x => z < y
    OBVIOUS
  <2> HIDE DEF before
  <2>5. \A x, y \in S : x \in before[y] => before[x] \subseteq before[y]
    BY <2>1, <2>2, <2>4
  <2> QED BY <2>1, <2>2, <2>3, <2>5 DEF Ordering
<1>2. \A i \in 1..count : \E x \in S : Cardinality(before[x]) = i - 1
  <2> HIDE DEF before
  <2> QED BY <1>1, RanksListed
<1>3. \A x \in S : before[x] = {m \in S : m < x}
  OBVIOUS
<1> DEFINE nth(i) == CHOOSE n \in S : Cardinality({m \in S : m < n}) = i - 1
<1>4. s = [i \in 1..count |-> nth(i)]
  BY DEF Ascending
<1>5. ASSUME NEW i \in 1..count
      PROVE  nth(i) \in S /\ Cardinality(before[nth(i)]) = i - 1
  <2>1. PICK x \in S : Cardinality(before[x]) = i - 1
    BY <1>2
  <2>2. Cardinality({m \in S : m < x}) = i - 1
    BY <1>3, <2>1
  <2>3. nth(i) \in S /\ Cardinality({m \in S : m < nth(i)}) = i - 1
    BY <2>2
  <2> HIDE DEF nth, before
  <2> QED BY <1>3, <2>3
<1> HIDE DEF before, nth
<1>6. Ranked(s, S, before)
  BY <1>4, <1>5 DEF Ranked
<1>7. Lists(s, S, before)
  BY <1>1, <1>6, RanksListed
<1>8. /\ s \in Seq(S) /\ Len(s) = Cardinality(S) /\ Len(s) \in Nat
      /\ \A x \in S : \E i \in 1..Len(s) : s[i] = x
      /\ \A i, j \in 1..Len(s) : i < j => s[i] \in before[s[j]]
  BY <1>7 DEF Lists
<1>9. \A i \in 1..Len(s) : s[i] \in S
  BY <1>8
<1>10. \A i, j \in 1..Len(s) : i < j => s[i] < s[j]
  BY <1>3, <1>8, <1>9
<1> QED BY <1>8, <1>10

\* `left` is what is left of a queue: its other elements, in their order.
LeftOf(left, ids, gone) ==
  /\ \A i \in 1..Len(left) : \E j \in 1..Len(ids) : left[i] = ids[j]
  /\ \A j \in 1..Len(ids) : ids[j] \notin gone =>
       \E i \in 1..Len(left) : left[i] = ids[j]
  /\ \A i, j \in 1..Len(left) : i < j =>
       \E k, l \in 1..Len(ids) : k < l /\ left[i] = ids[k] /\ left[j] = ids[l]

LEMMA RemainingFacts ==
  ASSUME NEW S, NEW ids \in Seq(S), NEW gone
  PROVE  /\ Remaining(ids, gone) \in Seq(S \ gone)
         /\ LeftOf(Remaining(ids, gone), ids, gone)
<1> PICK left : left = Remaining(ids, gone)
  OBVIOUS
<1> DEFINE K == {i \in DOMAIN ids : ids[i] \notin gone}
           kept == Ascending(K)
<1>1. Len(ids) \in Nat /\ DOMAIN ids = 1..Len(ids) /\ \A i \in 1..Len(ids) : ids[i] \in S
  BY LenProperties, ElementOfSeq
<1>2. K \subseteq 1..Len(ids) /\ IsFiniteSet(K) /\ K \subseteq Int
  <2>1. K \in SUBSET (1..Len(ids))
    BY <1>1
  <2>2. IsFiniteSet(1..Len(ids))
    BY <1>1, FS_Interval
  <2>3. K \subseteq Int
    BY <1>1, <2>1
  <2> HIDE DEF K
  <2>4. IsFiniteSet(K)
    BY <2>1, <2>2, FS_Subset
  <2> QED BY <2>1, <2>3, <2>4
<1>3. /\ kept \in Seq(K) /\ Len(kept) \in Nat
      /\ \A x \in K : \E i \in 1..Len(kept) : kept[i] = x
      /\ \A i, j \in 1..Len(kept) : i < j => kept[i] < kept[j]
  <2>1. kept = Ascending(K)
    OBVIOUS
  <2>2. K \subseteq Int /\ IsFiniteSet(K)
    BY <1>2
  <2> HIDE DEF K, kept
  <2>3. \A s : s = Ascending(K) =>
          /\ s \in Seq(K) /\ Len(s) = Cardinality(K) /\ Len(s) \in Nat
          /\ \A x \in K : \E i \in 1..Len(s) : s[i] = x
          /\ \A i, j \in 1..Len(s) : i < j => s[i] < s[j]
    BY <2>2, AscendingLists, Zenon
  <2> QED BY <2>1, <2>3, Zenon
<1> DEFINE n == Len(kept)
<1>4. n \in Nat /\ DOMAIN kept = 1..n /\ \A i \in 1..n : kept[i] \in K
  <2> HIDE DEF K, kept
  <2> QED BY <1>3
<1>7. left = [k \in DOMAIN kept |-> ids[kept[k]]]
  BY DEF Remaining
<1>5. \A i \in 1..n : kept[i] \in 1..Len(ids) /\ left[i] = ids[kept[i]] /\ left[i] \in S \ gone
  <2> HIDE DEF kept
  <2> QED BY <1>1, <1>2, <1>4, <1>7
<1>6. left \in Seq(S \ gone) /\ Len(left) = n
  <2> HIDE DEF kept, K
  <2>1. left \in [1..n -> S \ gone]
    BY <1>4, <1>5, <1>7
  <2> QED BY <1>4, <2>1
<1>8. \A j \in 1..Len(ids) : ids[j] \notin gone => \E i \in 1..n : left[i] = ids[j]
  <2> TAKE j \in 1..Len(ids)
  <2> HAVE ids[j] \notin gone
  <2>1. j \in K
    BY <1>1
  <2>2. PICK i \in 1..n : kept[i] = j
    BY <1>3, <2>1
  <2>3. left[i] = ids[j]
    BY <1>5, <2>2
  <2> QED BY <2>3
<1> HIDE DEF kept, K, n
<1>9. \A i, j \in 1..n : i < j =>
        \E k, l \in 1..Len(ids) : k < l /\ left[i] = ids[k] /\ left[j] = ids[l]
  BY <1>3, <1>5, ZenonT(30) DEF n
<1>10. \A i \in 1..n : \E j \in 1..Len(ids) : left[i] = ids[j]
  BY <1>5
<1>11. LeftOf(left, ids, gone)
  BY <1>6, <1>8, <1>9, <1>10 DEF LeftOf
<1> QED BY <1>6, <1>11

\* Orders that leave the book leave the queue of the others behind.
LEMMA RemainingQueue ==
  ASSUME NEW side \in Sides, NEW live, NEW ids, Queue(side, ids, live), NEW gone,
         NEW new, DOMAIN new = DOMAIN live \ gone,
         \A x \in DOMAIN new : new[x] = live[x]
  PROVE  Queue(side, Remaining(ids, gone), new)
<1> PICK left : left = Remaining(ids, gone)
  OBVIOUS
<1> PICK all : all = DOMAIN live
  OBVIOUS
<1>1. ids \in Seq(all) /\ Len(ids) \in Nat /\ DOMAIN ids = 1..Len(ids)
      /\ \A i \in 1..Len(ids) : ids[i] \in all /\ live[ids[i]].side = side
  BY LenProperties, ElementOfSeq DEF Queue
<1>2. /\ left \in Seq(all \ gone)
      /\ \A i \in 1..Len(left) : \E j \in 1..Len(ids) : left[i] = ids[j]
      /\ \A j \in 1..Len(ids) : ids[j] \notin gone =>
           \E i \in 1..Len(left) : left[i] = ids[j]
      /\ \A i, j \in 1..Len(left) : i < j =>
           \E k, l \in 1..Len(ids) : k < l /\ left[i] = ids[k] /\ left[j] = ids[l]
  <2>1. ids \in Seq(all)
    BY <1>1
  <2>2. /\ Remaining(ids, gone) \in Seq(all \ gone)
        /\ LeftOf(Remaining(ids, gone), ids, gone)
    BY <2>1, RemainingFacts
  <2> QED BY <2>2 DEF LeftOf
<1>3. /\ DOMAIN left = 1..Len(left) /\ left \in Seq(DOMAIN new)
      /\ \A i \in 1..Len(left) : left[i] \in DOMAIN new /\ new[left[i]] = live[left[i]]
  BY <1>2, LenProperties, ElementOfSeq
<1>4. ASSUME NEW i \in 1..Len(left), NEW j \in 1..Len(left), i < j
      PROVE  \/ Better(side, new[left[i]].price, new[left[j]].price)
             \/ new[left[i]].price = new[left[j]].price /\ left[i] < left[j]
  <2>1. PICK k \in 1..Len(ids), l \in 1..Len(ids) :
          k < l /\ left[i] = ids[k] /\ left[j] = ids[l]
    BY <1>2, <1>4
  <2>2. \/ Better(side, live[ids[k]].price, live[ids[l]].price)
        \/ live[ids[k]].price = live[ids[l]].price /\ ids[k] < ids[l]
    BY <1>1, <2>1 DEF Queue, PriceTime
  <2> QED BY <1>3, <2>1, <2>2
<1>5. PriceTime(side, left, new)
  BY <1>3, <1>4 DEF PriceTime
<1>6. \A i \in 1..Len(left) : new[left[i]].side = side
  BY <1>1, <1>2, <1>3
<1>7. \A x \in DOMAIN new : new[x].side = side => \E i \in 1..Len(left) : left[i] = x
  <2> TAKE x \in DOMAIN new
  <2> HAVE new[x].side = side
  <2>1. PICK j \in 1..Len(ids) : ids[j] = x
    BY DEF Queue
  <2> QED BY <1>2, <2>1
<1> QED BY <1>3, <1>5, <1>6, <1>7 DEF Queue

-----------------------------------------------------------------------------
(* A restart: the orders put back one by one, oldest first, stand in the   *)
(* queue they stood in.                                                    *)

\* What BookOf computes for one side, order after order.
IsReplay(q, side, live, ids, n) ==
  q = [k \in 0..n |-> IF k = 0 THEN <<>> ELSE Reinsert(side, live, q[k - 1], ids[k])]

LEMMA ReplayExists ==
  ASSUME NEW side, NEW live, NEW ids, NEW n \in Nat
  PROVE  \E q : IsReplay(q, side, live, ids, n)
<1> DEFINE B == {m \in Nat : ~ \E q : IsReplay(q, side, live, ids, m)}
<1>1. B = {}
  <2> SUFFICES ASSUME B # {} PROVE FALSE
    OBVIOUS
  <2>1. PICK m \in B : \A l \in B : m <= l
    <3> HIDE DEF B
    <3>1. B \in SUBSET Nat
      BY DEF B
    <3> QED BY <3>1, LeastNumber
  <2>2. CASE m = 0
    <3> DEFINE q == [k \in 0..0 |-> <<>>]
    <3>1. \A k \in 0..0 : k = 0
      OBVIOUS
    <3>2. IsReplay(q, side, live, ids, 0)
      BY <3>1 DEF IsReplay
    <3> QED BY <2>2, <3>2
  <2>3. CASE m # 0
    <3>1. m - 1 \in Nat /\ m - 1 \notin B
      BY <2>1, <2>3
    <3>2. PICK p : IsReplay(p, side, live, ids, m - 1)
      BY <3>1
    <3> DEFINE v(k) == IF k = 0 THEN <<>> ELSE Reinsert(side, live, p[k - 1], ids[k])
               q == [k \in 0..m |-> v(k)]
    <3>3. \A k \in 0..(m - 1) : k \in 0..m /\ p[k] = v(k)
      BY <3>1, <3>2 DEF IsReplay
    <3>4. \A k \in 0..m : q[k] = v(k)
      OBVIOUS
    <3>5. \A k \in 0..m : k # 0 => k - 1 \in 0..(m - 1)
      BY <3>1
    <3> HIDE DEF q
    <3>6. \A k \in 0..m : k # 0 => v(k) = Reinsert(side, live, q[k - 1], ids[k])
      BY <3>3, <3>4, <3>5
    <3>7. q = [k \in 0..m |-> IF k = 0 THEN <<>>
                              ELSE Reinsert(side, live, q[k - 1], ids[k])]
      BY <3>6 DEF q
    <3> QED BY <3>7 DEF IsReplay
  <2> QED BY <2>2, <2>3
<1> QED BY <1>1

\* An order has a place in every queue.
LEMMA PositionExists ==
  ASSUME NEW side \in Sides, NEW live, NEW ids, Priced(live), Queue(side, ids, live),
         NEW o, o.price \in Nat
  PROVE  \E k \in 0..Len(ids) : InsertPosition(side, o, live, ids, k)
<1>0. PICK n \in Nat : n = Len(ids)
  BY LenProperties DEF Queue
<1> DEFINE ahead(j) == Better(side, o.price, live[ids[j]].price)
           B == {k \in 0..n : k = n \/ ahead(k + 1)}
<1>1. /\ DOMAIN ids = 1..n
      /\ \A i \in 1..n : live[ids[i]].price \in Nat
  BY <1>0, LenProperties, ElementOfSeq DEF Queue, Priced
<1>2. B \in SUBSET Nat /\ n \in B
  BY <1>1
<1> HIDE DEF B
<1>3. PICK k \in 0..n : k \in B /\ \A j \in B : k <= j
  <2>1. PICK k \in B : \A j \in B : k <= j
    BY <1>2, LeastNumber
  <2>2. k \in 0..n
    BY DEF B
  <2> QED BY <2>1, <2>2
<1>4. k = n \/ ahead(k + 1)
  BY <1>3 DEF B
<1>5. ASSUME NEW i \in 1..k PROVE ~ahead(i)
  <2>1. i - 1 \in 0..n /\ (i - 1) + 1 = i /\ ~(k <= i - 1)
    OBVIOUS
  <2>2. i - 1 \notin B
    BY <1>3, <2>1
  <2> QED BY <2>1, <2>2 DEF B
<1>6. ASSUME NEW i \in (k + 1)..n PROVE ahead(i)
  <2>1. ahead(k + 1) /\ k + 1 \in 1..n /\ i \in 1..n /\ (i = k + 1 \/ k + 1 < i)
    <3>1. k # n /\ k + 1 \in 1..n /\ i \in 1..n /\ (i = k + 1 \/ k + 1 < i)
      OBVIOUS
    <3> QED BY <1>4, <3>1
  <2>2. CASE k + 1 < i
    <3>1. \/ Better(side, live[ids[k + 1]].price, live[ids[i]].price)
          \/ live[ids[k + 1]].price = live[ids[i]].price
      BY <1>1, <2>1, <2>2 DEF Queue, PriceTime
    <3> QED BY <1>1, <2>1, <3>1 DEF Better
  <2> QED BY <2>1, <2>2
<1> QED BY <1>0, <1>4, <1>5, <1>6 DEF InsertPosition

\* Two queues of the same orders agree as far as they agreed before.
LEMMA QueuesGoOn ==
  ASSUME NEW side \in Sides, NEW live, Priced(live),
         NEW a, NEW b, Queue(side, a, live), Queue(side, b, live),
         NEW i \in 1..Len(a),
         \A j \in 1..(i - 1) : j \in 1..Len(b) /\ a[j] = b[j]
  PROVE  i \in 1..Len(b) /\ a[i] = b[i]
<1>1. /\ Len(a) \in Nat /\ DOMAIN a = 1..Len(a) /\ Len(b) \in Nat /\ DOMAIN b = 1..Len(b)
      /\ \A n \in 1..Len(a) : a[n] \in DOMAIN live /\ live[a[n]].side = side
      /\ \A n \in 1..Len(b) : b[n] \in DOMAIN live /\ live[b[n]].side = side
  BY LenProperties, ElementOfSeq DEF Queue
<1>2. PICK k \in 1..Len(b) : b[k] = a[i]
  BY <1>1 DEF Queue
<1>3. ~(k < i)
  <2> SUFFICES ASSUME k < i PROVE FALSE
    OBVIOUS
  <2>1. k \in 1..(i - 1) /\ k \in 1..Len(a)
    BY <1>1
  <2> QED BY <1>1, <1>2, <2>1, QueueDistinct
<1>4. CASE k > i
  <2>1. i \in 1..Len(b) /\ i < k
    BY <1>1, <1>4
  <2>2. PICK l \in 1..Len(a) : a[l] = b[i]
    BY <1>1, <2>1 DEF Queue
  <2>3. ~(l < i)
    <3> SUFFICES ASSUME l < i PROVE FALSE
      OBVIOUS
    <3>1. l \in 1..(i - 1) /\ l \in 1..Len(b) /\ b[l] = b[i]
      BY <1>1, <2>2
    <3> QED BY <1>1, <2>1, <3>1, QueueDistinct
  <2>4. CASE l > i
    <3>1. /\ live[b[i]].price \in Nat /\ live[a[i]].price \in Nat
          /\ a[i] \in Nat /\ b[i] \in Nat
      BY <1>1, <2>1 DEF Priced
    <3>2. \/ Better(side, live[b[i]].price, live[a[i]].price)
          \/ live[b[i]].price = live[a[i]].price /\ b[i] < a[i]
      <4>1. \/ Better(side, live[b[i]].price, live[b[k]].price)
            \/ live[b[i]].price = live[b[k]].price /\ b[i] < b[k]
        BY <1>1, <2>1 DEF Queue, PriceTime
      <4> QED BY <1>2, <4>1
    <3>3. \/ Better(side, live[a[i]].price, live[b[i]].price)
          \/ live[a[i]].price = live[b[i]].price /\ a[i] < b[i]
      <4>1. \/ Better(side, live[a[i]].price, live[a[l]].price)
            \/ live[a[i]].price = live[a[l]].price /\ a[i] < a[l]
        BY <1>1, <2>4 DEF Queue, PriceTime
      <4> QED BY <2>2, <4>1
    <3> QED BY <3>1, <3>2, <3>3 DEF Better
  <2> QED BY <1>1, <2>1, <2>2, <2>3, <2>4
<1> QED BY <1>1, <1>2, <1>3, <1>4

\* A side of the book has one queue: its orders in price-time order.
LEMMA QueueUnique ==
  ASSUME NEW side \in Sides, NEW live, Priced(live),
         NEW a, NEW b, Queue(side, a, live), Queue(side, b, live)
  PROVE  a = b
<1>1. /\ a \in Seq(DOMAIN live) /\ b \in Seq(DOMAIN live)
      /\ Len(a) \in Nat /\ Len(b) \in Nat
  BY LenProperties DEF Queue
<1>2. ASSUME NEW x, NEW y, Queue(side, x, live), Queue(side, y, live), Len(x) \in Nat
      PROVE  \A i \in 1..Len(x) : i \in 1..Len(y) /\ x[i] = y[i]
  <2> DEFINE B == {i \in 1..Len(x) : ~(i \in 1..Len(y) /\ x[i] = y[i])}
  <2>1. B = {}
    <3> SUFFICES ASSUME B # {} PROVE FALSE
      OBVIOUS
    <3>1. B \in SUBSET Nat
      BY <1>2
    <3>2. PICK i \in B : \A j \in B : i <= j
      <4> HIDE DEF B
      <4> QED BY <3>1, LeastNumber
    <3>3. ASSUME NEW j \in 1..(i - 1) PROVE j \in 1..Len(y) /\ x[j] = y[j]
      <4>1. j \in 1..Len(x) /\ ~(i <= j)
        BY <1>2
      <4> QED BY <3>2, <4>1
    <3> QED BY <1>2, <3>2, <3>3, QueuesGoOn
  <2> QED BY <2>1
<1>3. \A i \in 1..Len(a) : i \in 1..Len(b) /\ a[i] = b[i]
  BY <1>1, <1>2
<1>4. \A i \in 1..Len(b) : i \in 1..Len(a) /\ b[i] = a[i]
  BY <1>1, <1>2
<1>5. Len(a) = Len(b)
  <2>1. Len(a) > 0 => Len(a) \in 1..Len(a)
    BY <1>1
  <2>2. Len(b) > 0 => Len(b) \in 1..Len(b)
    BY <1>1
  <2> QED BY <1>1, <1>3, <1>4, <2>1, <2>2
<1> QED BY <1>1, <1>3, <1>5, SeqEqual

\* The orders live[ids[1]] .. live[ids[k]].
Part(live, ids, k) == [x \in {ids[i] : i \in 1..k} |-> live[x]]

\* Each order that is put back goes behind those that are back already.
LEMMA ReplayStep ==
  ASSUME NEW side \in Sides, NEW live, NEW ids, NEW n \in Nat, Priced(live),
         \A i \in 1..n : ids[i] \in DOMAIN live /\ live[ids[i]].side = side
                        /\ live[ids[i]].id = ids[i],
         \A i, j \in 1..n : i < j => ids[i] < ids[j],
         NEW k \in 1..n, NEW queue, Queue(side, queue, Part(live, ids, k - 1))
  PROVE  Queue(side, Reinsert(side, live, queue, ids[k]), Part(live, ids, k))
<1> DEFINE part == Part(live, ids, k - 1)
           o == live[ids[k]]
<1>1. /\ DOMAIN part = {ids[i] : i \in 1..(k - 1)}
      /\ \A x \in DOMAIN part : part[x] = live[x]
      /\ DOMAIN part \subseteq DOMAIN live
  BY DEF Part
<1>2. /\ ids[k] \in DOMAIN live /\ ids[k] \in Nat /\ o.side = side /\ o.id = ids[k]
      /\ o.price \in Nat
  BY DEF Priced
<1>3. \A x \in DOMAIN part : x < o.id
  <2>1. \A i \in 1..(k - 1) : i \in 1..n /\ i < k
    OBVIOUS
  <2> QED BY <1>1, <1>2, <2>1
<1>4. Priced(part)
  BY <1>1 DEF Priced
<1> HIDE DEF part, o
<1>5. \E j \in 0..Len(queue) : InsertPosition(side, o, part, queue, j)
  BY <1>2, <1>4, PositionExists DEF part
<1>6. ASSUME NEW j \in 0..Len(queue)
      PROVE  InsertPosition(side, o, part, queue, j)
               <=> InsertPosition(side, o, live, queue, j)
  <2>1. /\ Len(queue) \in Nat
        /\ \A i \in 1..Len(queue) : part[queue[i]] = live[queue[i]]
    BY <1>1, LenProperties, ElementOfSeq DEF Queue, part
  <2>2. \A i \in 1..j : i \in 1..Len(queue)
    BY <2>1
  <2>3. \A i \in j + 1..Len(queue) : i \in 1..Len(queue)
    BY <2>1
  <2> QED BY <2>1, <2>2, <2>3 DEF InsertPosition
<1> DEFINE at == CHOOSE j \in 0..Len(queue) : InsertPosition(side, o, live, queue, j)
<1>7. at \in 0..Len(queue) /\ InsertPosition(side, o, part, queue, at)
  <2>1. at \in 0..Len(queue) /\ InsertPosition(side, o, live, queue, at)
    BY <1>5, <1>6
  <2> HIDE DEF at
  <2> QED BY <1>6, <2>1
<1>8. Reinsert(side, live, queue, ids[k]) = InsertAt(queue, at + 1, o.id)
  BY <1>2 DEF Reinsert, o
<1> HIDE DEF at
<1>9. Queue(side, InsertAt(queue, at + 1, o.id), WithOrder(part, o))
  BY <1>2, <1>3, <1>4, <1>7, InsertIntoQueue DEF part
<1>10. WithOrder(part, o) = Part(live, ids, k)
  <2>1. {ids[i] : i \in 1..k} = DOMAIN part \cup {ids[k]}
    <3>1. \A i \in 1..k : i = k \/ i \in 1..(k - 1)
      OBVIOUS
    <3>2. \A i \in 1..(k - 1) : i \in 1..k
      OBVIOUS
    <3>3. k \in 1..k
      OBVIOUS
    <3> QED BY <1>1, <3>1, <3>2, <3>3
  <2>2. \A x \in DOMAIN part \cup {ids[k]} :
          (IF x = o.id THEN o ELSE part[x]) = live[x]
    BY <1>1, <1>2 DEF o
  <2> QED BY <1>2, <2>1, <2>2 DEF WithOrder, Part
<1> QED BY <1>8, <1>9, <1>10

\* A restart gives every order its place back.
LEMMA RestoredQueue ==
  ASSUME NEW side \in Sides, NEW live, Priced(live), IsFiniteSet(DOMAIN live),
         \A x \in DOMAIN live : live[x].id = x,
         NEW old, Queue(side, old, live)
  PROVE  BookOf(live)[side] = old
<1> DEFINE S == {x \in DOMAIN live : live[x].side = side}
           ids == Ascending(S)
           n == Len(ids)
<1>1. S \subseteq Int /\ IsFiniteSet(S)
  BY FS_Subset DEF Priced
<1> HIDE DEF S
<1>2. /\ ids \in Seq(S) /\ n \in Nat
      /\ \A x \in S : \E i \in 1..n : ids[i] = x
      /\ \A i, j \in 1..n : i < j => ids[i] < ids[j]
  <2>1. ids = Ascending(S)
    OBVIOUS
  <2> HIDE DEF ids, n
  <2>2. \A s : s = Ascending(S) =>
          /\ s \in Seq(S) /\ Len(s) = Cardinality(S) /\ Len(s) \in Nat
          /\ \A x \in S : \E i \in 1..Len(s) : s[i] = x
          /\ \A i, j \in 1..Len(s) : i < j => s[i] < s[j]
    BY <1>1, AscendingLists, Zenon
  <2> QED BY <2>1, <2>2 DEF n
<1> HIDE DEF ids
<1>3. \A i \in 1..n : ids[i] \in S
  BY <1>2, ElementOfSeq
<1> DEFINE q == CHOOSE q : IsReplay(q, side, live, ids, n)
<1>4. BookOf(live)[side] = q[n]
  BY DEF BookOf, IsReplay, ids, S
<1> HIDE DEF n
<1>5. IsReplay(q, side, live, ids, n)
  BY <1>2, ReplayExists
<1> HIDE DEF q
<1>6. /\ q[0] = <<>>
      /\ \A k \in 1..n : q[k] = Reinsert(side, live, q[k - 1], ids[k])
  <2>1. q = [k \in 0..n |-> IF k = 0 THEN <<>>
                            ELSE Reinsert(side, live, q[k - 1], ids[k])]
    BY <1>5 DEF IsReplay
  <2>2. 0 \in 0..n /\ \A k \in 1..n : k \in 0..n /\ k # 0
    BY <1>2
  <2> QED BY <2>1, <2>2
<1>7. /\ \A i \in 1..n : ids[i] \in DOMAIN live /\ live[ids[i]].side = side
                         /\ live[ids[i]].id = ids[i]
  BY <1>3 DEF S
<1> DEFINE B == {k \in 0..n : ~Queue(side, q[k], Part(live, ids, k))}
<1>8. B = {}
  <2> SUFFICES ASSUME B # {} PROVE FALSE
    OBVIOUS
  <2>1. B \in SUBSET Nat
    BY <1>2
  <2>2. PICK k \in B : \A j \in B : k <= j
    <3> HIDE DEF B
    <3> QED BY <2>1, LeastNumber
  <2>3. CASE k = 0
    <3>1. DOMAIN Part(live, ids, 0) = {}
      BY DEF Part
    <3>2. /\ <<>> \in Seq(DOMAIN Part(live, ids, 0)) /\ Len(<<>>) = 0 /\ DOMAIN <<>> = {}
      BY EmptySeq
    <3>3. Queue(side, <<>>, Part(live, ids, 0))
      BY <3>1, <3>2 DEF Queue, PriceTime
    <3> QED BY <1>6, <2>2, <2>3, <3>3
  <2>4. CASE k # 0
    <3>1. k \in 1..n /\ k - 1 \in 0..n /\ ~(k <= k - 1)
      BY <1>2, <2>2, <2>4
    <3>2. Queue(side, q[k - 1], Part(live, ids, k - 1))
      BY <2>2, <3>1
    <3>3. Queue(side, q[k], Part(live, ids, k))
      <4>1. PICK queue : queue = q[k - 1]
        OBVIOUS
      <4>2. Queue(side, Reinsert(side, live, queue, ids[k]), Part(live, ids, k))
        BY <1>2, <1>7, <3>1, <3>2, <4>1, ReplayStep
      <4> QED BY <1>6, <3>1, <4>1, <4>2
    <3> QED BY <2>2, <3>3
  <2> QED BY <2>3, <2>4
<1>9. Queue(side, q[n], Part(live, ids, n))
  BY <1>2, <1>8
<1>10. Queue(side, q[n], live)
  <2>1. DOMAIN Part(live, ids, n) = S /\ \A x \in S : Part(live, ids, n)[x] = live[x]
    BY <1>2, <1>3 DEF Part
  <2>2. S \subseteq DOMAIN live /\ \A x \in DOMAIN live : live[x].side = side => x \in S
    BY DEF S
  <2> QED BY <1>9, <2>1, <2>2, OtherQueue
<1> QED BY <1>4, <1>10, QueueUnique
=============================================================================
