----------------------------- MODULE PerpProofs -----------------------------
(***************************************************************************)
(* Theorems of the perpetual market, for any users, requests, prices,      *)
(* scale, fees, leverages, tiers, marks and funding rates: the shape of    *)
(* the state, solvency, and where every unit of money is.                  *)
(***************************************************************************)
EXTENDS PerpExchange, BookProofs, ArithmeticProofs

LEMMA PerpConstants ==
  /\ MakerFeeBps \in Nat /\ TakerFeeBps \in Nat
  /\ MaxLeverage \in Nat \ {0} /\ SCALE \in Nat \ {0}
BY PerpAssumption, FixedPointAssumption

LEMMA AccountsFinite ==
  /\ IsFiniteSet(Users) /\ IsFiniteSet(Accounts) /\ Users \subseteq Accounts
  /\ FEE \in Accounts /\ CLEARING \in Accounts
  /\ FEE \notin Users /\ CLEARING \notin Users /\ FEE # CLEARING
<1>1. IsFiniteSet(Users)
  BY PerpAssumption
<1>2. IsFiniteSet(Users \cup {FEE})
  BY <1>1, FS_AddElement
<1>3. IsFiniteSet((Users \cup {FEE}) \cup {CLEARING})
  BY <1>2, FS_AddElement
<1>4. Accounts = (Users \cup {FEE}) \cup {CLEARING}
  BY DEF Accounts
<1> QED BY <1>1, <1>3, <1>4, PerpAssumption

-----------------------------------------------------------------------------
(* The arithmetic of locks, entries and margins.                           *)

LEMMA DivCeilFacts ==
  ASSUME NEW n \in Nat, NEW m \in Nat, n <= m, NEW d \in Nat \ {0}
  PROVE  /\ DivCeil(n, d) \in Nat /\ DivCeil(m, d) \in Nat
         /\ DivCeil(n, d) <= DivCeil(m, d)
<1> DEFINE x == (-n) \div d  y == (-m) \div d  z == 0 \div d
<1>1. -n \in Int /\ -m \in Int /\ -m <= -n /\ -n <= 0 /\ -m <= 0
  OBVIOUS
<1>2. x \in Int /\ y \in Int /\ z = 0
  BY <1>1, DivBounds
<1>3. y <= x
  BY <1>1, DivMonotone
<1>4. x <= z /\ y <= z
  BY <1>1, DivMonotone
<1>5. DivCeil(n, d) = -x /\ DivCeil(m, d) = -y
  BY DEF DivCeil
<1> HIDE DEF x, y, z
<1> QED BY <1>2, <1>3, <1>4, <1>5

LEMMA PerpLockFacts ==
  ASSUME NEW P \in Nat, NEW a \in Nat, NEW b \in Nat, a <= b,
         NEW l \in Nat \ {0}, NEW bps \in Nat
  PROVE  /\ PerpLock(P, a, l, bps) \in Nat /\ PerpLock(P, b, l, bps) \in Nat
         /\ PerpLock(P, a, l, bps) <= PerpLock(P, b, l, bps)
<1> DEFINE n == MulUnits(P, a)  m == MulUnits(P, b)
           f == FeeOn(n, bps)  g == FeeOn(m, bps)
           x == DivCeil(n, l)  y == DivCeil(m, l)
<1>1. n \in Nat /\ m \in Nat
  BY MulUnitsNat
<1>2. n <= m
  <2>1. P * a \in Int /\ P * b \in Int /\ P * a <= P * b
    BY SMT
  <2> QED BY <2>1, DivMonotone, PerpConstants DEF MulUnits, DivFloor
<1>3. PerpLock(P, a, l, bps) = x + f /\ PerpLock(P, b, l, bps) = y + g
  BY DEF PerpLock
<1> HIDE DEF n, m
<1>4. x \in Nat /\ y \in Nat /\ x <= y
  BY <1>1, <1>2, DivCeilFacts
<1>5. f \in Nat /\ g \in Nat
  BY <1>1, FeeBounds
<1>6. f <= g
  BY <1>1, <1>2, FeeMonotone
<1> HIDE DEF x, y, f, g
<1> QED BY <1>3, <1>4, <1>5, <1>6

\* An average of positive prices is positive.
LEMMA VwapPositive ==
  ASSUME NEW e \in Nat \ {0}, NEW a \in Nat \ {0}, NEW p \in Nat \ {0},
         NEW q \in Nat \ {0}
  PROVE  VwapEntry(e, a, p, q) \in Nat \ {0}
<1> DEFINE num == e * a + p * q  den == a + q
<1>1. den \in Nat \ {0}
  OBVIOUS
<1>2. num \in Nat /\ num >= den
  <2>1. e * a \in Nat /\ e * a >= a
    BY SMT
  <2>2. p * q \in Nat /\ p * q >= q
    BY SMT
  <2> QED BY <2>1, <2>2
<1>3. VwapEntry(e, a, p, q) = (2 * num + den) \div (2 * den)
  BY <1>2 DEF VwapEntry, DivHalfUp
<1> HIDE DEF num, den
<1> DEFINE N == 2 * num + den  D == 2 * den
<1>4. N \in Int /\ D \in Nat \ {0} /\ D <= N
  BY <1>1, <1>2
<1>5. VwapEntry(e, a, p, q) = N \div D
  BY <1>3
<1> HIDE DEF N, D
<1>6. N \div D \in Int /\ N < (N \div D) * D + D
  BY <1>4, DivBounds
<1>7. N \div D >= 1
  <2>1. 1 * D < (N \div D) * D + D
    BY <1>4, <1>6
  <2> PICK x \in Int : x = N \div D
    BY <1>6
  <2>2. 1 * D < x * D + D
    BY <2>1
  <2>3. 1 <= x
    BY <1>4, <2>2, ProductBelow
  <2> QED BY <2>3
<1> QED BY <1>5, <1>6, <1>7

LEMMA PnlInt ==
  ASSUME NEW p, p.size \in Int, p.entry \in Int, NEW m \in Int
  PROVE  UnrealizedPnl(p, m) \in Int
<1>1. ASSUME NEW a \in Int, NEW b \in Int PROVE MulUnits(a, b) \in Int
  <2>1. a * b \in Int
    BY SMT
  <2> QED BY <2>1, DivBounds, PerpConstants DEF MulUnits, DivFloor
<1>2. m - p.entry \in Int /\ p.entry - m \in Int /\ -p.size \in Int
  OBVIOUS
<1> QED BY <1>1, <1>2 DEF UnrealizedPnl

Released(margin, c, size) == (margin * c) \div size

\* The margin that closing c of a position releases: some of it, and all when
\* the whole position closes.
LEMMA ReleasedMargin ==
  ASSUME NEW margin \in Nat, NEW size \in Nat \ {0}, NEW c \in Nat, c <= size
  PROVE  /\ Released(margin, c, size) \in Nat /\ Released(margin, c, size) <= margin
         /\ c = size => Released(margin, c, size) = margin
<1> PICK x : x = Released(margin, c, size)
  OBVIOUS
<1>1. margin * c \in Nat /\ margin * c <= margin * size /\ margin * size \in Nat
  BY SMT
<1>2. x \in Int /\ x * size <= margin * c /\ margin * c < x * size + size
  BY <1>1, DivBounds DEF Released
<1>3. x * size \in Int
  BY <1>2
<1>4. x <= margin
  <2>1. x * size < margin * size + size
    BY <1>1, <1>2, <1>3
  <2> QED BY <1>2, <2>1, ProductBelow
<1>5. 0 <= x
  <2>1. 0 * size < x * size + size
    BY <1>1, <1>2, <1>3
  <2> QED BY <1>2, <2>1, ProductBelow
<1>6. ASSUME c = size PROVE margin <= x
  <2>1. margin * size < x * size + size
    BY <1>1, <1>2, <1>6
  <2> QED BY <1>2, <2>1, ProductBelow
<1> QED BY <1>2, <1>4, <1>5, <1>6

LEMMA SignFacts ==
  ASSUME NEW n \in Int \ {0}
  PROVE  /\ AbsBig(n) \in Nat \ {0} /\ SignBig(n) \in {1, -1}
         /\ n = SignBig(n) * AbsBig(n)
         /\ SignBig(n) = 1 => AbsBig(n) = n
         /\ SignBig(n) = -1 => AbsBig(n) = -n
BY DEF AbsBig, SignBig

LEMMA DirFacts ==
  ASSUME NEW side \in Sides
  PROVE  Dir(side) \in {1, -1}
BY DEF Dir, Sides

\* The two roundings the engine uses on signed amounts.
LEMMA MinMax ==
  ASSUME NEW a \in Int, NEW b \in Int
  PROVE  /\ MinBig(a, b) \in Int /\ MinBig(a, b) <= a /\ MinBig(a, b) <= b
         /\ MinBig(a, b) = a \/ MinBig(a, b) = b
         /\ MaxBig(a, b) \in Int /\ MaxBig(a, b) >= a /\ MaxBig(a, b) >= b
         /\ MaxBig(a, b) = a \/ MaxBig(a, b) = b
BY DEF MinBig, MaxBig

LEMMA MinNat ==
  ASSUME NEW a \in Nat, NEW b \in Nat
  PROVE  MinBig(a, b) \in Nat /\ MinBig(a, b) <= a /\ MinBig(a, b) <= b
BY DEF MinBig

\* How a closing fill's proceeds and shortfall are divided up.
Divided(margin, released, realized, fee, wallet,
        pot, owe, fromMargin, fromWallet, waived, unpaid) ==
  /\ pot = released + realized - fee
  /\ owe = MaxBig(0, -pot)
  /\ fromMargin = MinBig(owe, margin - released)
  /\ fromWallet = MinBig(owe - fromMargin, MaxBig(wallet, 0))
  /\ waived = MinBig(owe - fromMargin - fromWallet, fee)
  /\ unpaid = owe - fromMargin - fromWallet - waived

\* The waterfall of a closing fill loses nothing: what the trader, the fee
\* account and the clearing account get is what leaves the margin.
LEMMA Waterfall ==
  ASSUME NEW margin \in Nat, NEW released \in Nat, released <= margin,
         NEW realized \in Int, NEW fee \in Nat, NEW wallet \in Int,
         NEW pot, NEW owe, NEW fromMargin, NEW fromWallet, NEW waived, NEW unpaid,
         Divided(margin, released, realized, fee, wallet,
                 pot, owe, fromMargin, fromWallet, waived, unpaid)
  PROVE  /\ fromMargin \in Nat /\ fromMargin <= margin - released
         /\ MaxBig(pot, 0) - fromWallet \in Int
         /\ MaxBig(pot, 0) - fromWallet >= -MaxBig(wallet, 0)
         /\ fee - waived \in Nat /\ -realized - unpaid \in Int
         /\ (MaxBig(pot, 0) - fromWallet) + (fee - waived) + (-realized - unpaid)
              = released + fromMargin
<1>0. /\ pot = released + realized - fee
      /\ owe = MaxBig(0, -pot)
      /\ fromMargin = MinBig(owe, margin - released)
      /\ fromWallet = MinBig(owe - fromMargin, MaxBig(wallet, 0))
      /\ waived = MinBig(owe - fromMargin - fromWallet, fee)
      /\ unpaid = owe - fromMargin - fromWallet - waived
  BY DEF Divided
<1>1. pot \in Int /\ owe \in Nat /\ MaxBig(pot, 0) = pot + owe
  BY <1>0 DEF MaxBig
<1>2. fromMargin \in Nat /\ fromMargin <= margin - released /\ fromMargin <= owe
  <2>1. margin - released \in Nat
    OBVIOUS
  <2> QED BY <1>0, <1>1, <2>1, MinNat
<1>3. fromWallet \in Nat /\ fromWallet <= MaxBig(wallet, 0) /\ MaxBig(wallet, 0) \in Nat
      /\ fromWallet <= owe - fromMargin
  <2>1. owe - fromMargin \in Nat
    BY <1>1, <1>2
  <2>2. MaxBig(wallet, 0) \in Nat
    BY DEF MaxBig
  <2> QED BY <1>0, <2>1, <2>2, MinNat
<1>4. waived \in Nat /\ waived <= fee
  <2>1. owe - fromMargin - fromWallet \in Nat
    BY <1>1, <1>2, <1>3
  <2> QED BY <1>0, <2>1, MinNat
<1>5. unpaid \in Int /\ unpaid = owe - fromMargin - fromWallet - waived
  BY <1>0, <1>1, <1>2, <1>3, <1>4
<1>6. MaxBig(pot, 0) \in Nat
  BY <1>1 DEF MaxBig
<1>7. MaxBig(pot, 0) - fromWallet >= -MaxBig(wallet, 0)
  BY <1>3, <1>6
<1>8. (MaxBig(pot, 0) - fromWallet) + (fee - waived) + (-realized - unpaid)
        = released + fromMargin
  <2>1. pot = released + realized - fee
    BY <1>0
  <2> QED BY <1>1, <1>2, <1>3, <1>4, <1>5, <2>1
<1>9. fee - waived \in Nat
  BY <1>4
<1> QED BY <1>2, <1>3, <1>5, <1>6, <1>7, <1>8, <1>9

\* A closing leg r of c: what leaves the margin goes to the trader, the fee
\* account and the clearing account, and the wallet is not overdrawn.
LegClosed(r, pos, side, c, wallet) ==
  /\ r.pos = [pos EXCEPT !.size = @ + Dir(side) * c, !.margin = r.pos.margin]
  /\ r.pos.size = pos.size + Dir(side) * c
  /\ r.pos.margin \in Nat /\ r.cash \in Int /\ r.fee \in Nat /\ r.clearing \in Int
  /\ r.cash >= -MaxBig(wallet, 0)
  /\ r.cash + r.fee + r.clearing + r.pos.margin = pos.margin
  /\ c = AbsBig(pos.size) => r.pos.margin = 0

LEMMA CloseLegFacts ==
  ASSUME NEW pos \in Position, pos.margin >= 0, NEW side \in Sides,
         SignBig(pos.size) = -Dir(side), NEW p \in Nat,
         NEW c \in Nat \ {0}, c <= AbsBig(pos.size),
         NEW bps \in Nat, NEW wallet \in Int,
         NEW r, r = CloseLeg(pos, side, p, c, bps, wallet)
  PROVE  LegClosed(r, pos, side, c, wallet)
<1> PICK mg : mg = pos.margin
  OBVIOUS
<1> PICK abs : abs = AbsBig(pos.size)
  OBVIOUS
<1> DEFINE closed_   == [pos EXCEPT !.size = SignBig(@) * c]
           released_ == Released(mg, c, abs)
           realized_ == UnrealizedPnl(closed_, p)
           fee_ == FeeOn(MulUnits(p, c), bps)
           pot_ == released_ + realized_ - fee_
           owe_ == MaxBig(0, -pot_)
           fromMargin_ == MinBig(owe_, mg - released_)
           fromWallet_ == MinBig(owe_ - fromMargin_, MaxBig(wallet, 0))
           waived_ == MinBig(owe_ - fromMargin_ - fromWallet_, fee_)
           unpaid_ == owe_ - fromMargin_ - fromWallet_ - waived_
<1> PICK released : released = released_
  OBVIOUS
<1> PICK realized : realized = realized_
  OBVIOUS
<1> PICK fee : fee = fee_
  OBVIOUS
<1> PICK pot : pot = released + realized - fee
  OBVIOUS
<1> PICK owe : owe = MaxBig(0, -pot)
  OBVIOUS
<1> PICK fromMargin : fromMargin = MinBig(owe, mg - released)
  OBVIOUS
<1> PICK fromWallet : fromWallet = MinBig(owe - fromMargin, MaxBig(wallet, 0))
  OBVIOUS
<1> PICK waived : waived = MinBig(owe - fromMargin - fromWallet, fee)
  OBVIOUS
<1> PICK unpaid : unpaid = owe - fromMargin - fromWallet - waived
  OBVIOUS
<1>1. r = [pos |-> [pos EXCEPT !.size = @ + Dir(side) * c,
                               !.margin = @ - released - fromMargin],
           cash |-> MaxBig(pot, 0) - fromWallet,
           fee |-> fee - waived,
           clearing |-> -realized - unpaid]
  BY ZenonT(30) DEF CloseLeg, Released
<1>2. /\ pos.size \in Int \ {0} /\ pos.entry \in Nat /\ pos.margin \in Nat
  BY DEF Position
<1>3. AbsBig(pos.size) \in Nat \ {0} /\ SignBig(pos.size) \in {1, -1}
  BY <1>2, SignFacts
<1>4. released \in Nat /\ released <= pos.margin
      /\ (c = AbsBig(pos.size) => released = pos.margin)
  <2>1. mg \in Nat /\ abs \in Nat \ {0} /\ c <= abs /\ c \in Nat
    BY <1>2, <1>3
  <2>2. released = Released(mg, c, abs)
    OBVIOUS
  <2>3. /\ Released(mg, c, abs) \in Nat /\ Released(mg, c, abs) <= mg
        /\ c = abs => Released(mg, c, abs) = mg
    <3> HIDE DEF released_, fee_, realized_
    <3> QED BY <2>1, ReleasedMargin
  <2> QED BY <2>2, <2>3
<1>5. realized \in Int
  <2>1. closed_.size \in Int /\ closed_.entry = pos.entry
    <3>1. closed_.size = SignBig(pos.size) * c /\ closed_.entry = pos.entry
      BY DEF Position
    <3>2. 1 * c \in Int /\ (-1) * c \in Int
      OBVIOUS
    <3> QED BY <1>3, <3>1, <3>2
  <2>2. closed_.entry \in Int
    BY <1>2, <2>1
  <2> HIDE DEF closed_
  <2>3. UnrealizedPnl(closed_, p) \in Int
    BY <2>1, <2>2, PnlInt
  <2> QED BY <2>3
<1>6. fee \in Nat
  BY MulUnitsNat, FeeBounds
<1> HIDE DEF closed_, released_, realized_, fee_, pot_, owe_, fromMargin_,
             fromWallet_, waived_, unpaid_
<1>7. /\ fromMargin \in Nat /\ fromMargin <= pos.margin - released
      /\ MaxBig(pot, 0) - fromWallet \in Int
      /\ MaxBig(pot, 0) - fromWallet >= -MaxBig(wallet, 0)
      /\ fee - waived \in Nat /\ -realized - unpaid \in Int
      /\ (MaxBig(pot, 0) - fromWallet) + (fee - waived) + (-realized - unpaid)
           = released + fromMargin
  <2>1. mg \in Nat /\ released \in Nat /\ released <= mg
    BY <1>2, <1>4
  <2>2. /\ fromMargin \in Nat /\ fromMargin <= mg - released
        /\ MaxBig(pot, 0) - fromWallet \in Int
        /\ MaxBig(pot, 0) - fromWallet >= -MaxBig(wallet, 0)
        /\ fee - waived \in Nat /\ -realized - unpaid \in Int
        /\ (MaxBig(pot, 0) - fromWallet) + (fee - waived) + (-realized - unpaid)
             = released + fromMargin
    <3>1. Divided(mg, released, realized, fee, wallet,
                  pot, owe, fromMargin, fromWallet, waived, unpaid)
      BY DEF Divided
    <3> QED BY <1>5, <1>6, <2>1, <3>1, Waterfall
  <2> QED BY <2>2
<1> PICK margin : margin = pos.margin - released - fromMargin
  OBVIOUS
<1>8. margin \in Nat /\ (c = AbsBig(pos.size) => margin = 0)
  BY <1>2, <1>4, <1>7
<1>9. r.pos = [pos EXCEPT !.size = @ + Dir(side) * c, !.margin = margin]
      /\ r.cash = MaxBig(pot, 0) - fromWallet
      /\ r.fee = fee - waived /\ r.clearing = -realized - unpaid
  BY <1>1
<1>10. r.pos.margin = margin /\ r.pos.size = pos.size + Dir(side) * c
  BY <1>9 DEF Position
<1>11. r.cash + r.fee + r.clearing + margin = pos.margin
  BY <1>2, <1>4, <1>7, <1>9
<1> QED BY <1>7, <1>8, <1>9, <1>10, <1>11 DEF LegClosed

\* The slice of the lock is spent and nothing else.
Spent(r, budget) ==
  /\ r.fee \in Nat /\ r.margin \in Nat /\ r.left \in Nat
  /\ r.fee + r.margin + r.left = budget

LEMMA OpenLegFacts ==
  ASSUME NEW budget \in Nat, NEW l \in Nat \ {0}, NEW p \in Nat, NEW q \in Nat,
         NEW bps \in Nat, NEW r, r = OpenLeg(budget, l, p, q, bps)
  PROVE  Spent(r, budget)
<1> PICK n : n = MulUnits(p, q)
  OBVIOUS
<1> PICK fee : fee = MinBig(FeeOn(n, bps), budget)
  OBVIOUS
<1> PICK margin : margin = MinBig(n \div l, budget - fee)
  OBVIOUS
<1>1. r = [fee |-> fee, margin |-> margin, left |-> budget - fee - margin]
  BY DEF OpenLeg
<1>2. n \in Nat
  BY MulUnitsNat
<1>3. FeeOn(n, bps) \in Nat
  BY <1>2, FeeBounds
<1>4. fee \in Nat /\ fee <= budget
  BY <1>3 DEF MinBig
<1>5. n \div l \in Nat
  BY <1>2, SMT
<1>6. margin \in Nat /\ margin <= budget - fee
  BY <1>4, <1>5 DEF MinBig
<1> QED BY <1>1, <1>4, <1>6 DEF Spent

-----------------------------------------------------------------------------
(* The engine's state, as the handlers pass it on.                         *)

\* An order whose lock is what its remainder needs.
Sound(o) ==
  o \in Order /\ o.price # 0 /\ o.filled <= o.qty /\ o.lock = LockFor(o)

Held(held) ==
  /\ DOMAIN held \subseteq Users
  /\ \A u \in DOMAIN held : held[u] \in Position /\ held[u].margin >= 0

Resting(live) ==
  /\ IsFiniteSet(DOMAIN live) /\ DOMAIN live \subseteq Nat \ {0}
  /\ \A id \in DOMAIN live : Sound(live[id]) /\ live[id].id = id

Fields(e) ==
  e = [available |-> e.available, locked |-> e.locked, positions |-> e.positions,
       orders |-> e.orders, book |-> e.book]

Shape(e) ==
  /\ Fields(e)
  /\ e.available \in [Accounts -> Int] /\ e.locked \in [Accounts -> Int]
  /\ Held(e.positions) /\ Resting(e.orders)
  /\ e.book = [s \in Sides |-> e.book[s]]
  /\ \A s \in Sides : Queue(s, e.book[s], e.orders)

\* Nobody but the clearing account owes anything.
NoDebt(e) == \A u \in Accounts \ {CLEARING} : e.available[u] >= 0

\* What is locked backs the live orders, but for what `extra` tells of: the
\* lock of the order in flight.
Backed(e, extra) ==
  \A u \in Accounts :
    e.locked[u] = LocksOf(e.orders, DOMAIN e.orders, u) + extra[u]

\* Everything an account owns, and all there is.
MarginOf(held, u) == IF u \in DOMAIN held THEN held[u].margin ELSE 0
Worth(e) ==
  [u \in Accounts |-> e.available[u] + e.locked[u] + MarginOf(e.positions, u)]
Money(e) == SumFunctionOnSet(Worth(e), Accounts)

LEMMA SoundLock ==
  ASSUME NEW o, o \in Order, o.filled <= o.qty
  PROVE  LockFor(o) \in Nat /\ Rem(o) \in Nat
<1>1. /\ o.price \in Nat /\ Rem(o) \in Nat /\ o.leverage \in Nat \ {0}
      /\ TakerFeeBps \in Nat
  BY PerpConstants DEF Order, Rem
<1>2. PerpLock(o.price, Rem(o), o.leverage, TakerFeeBps) \in Nat
  <2> PICK P \in Nat, r \in Nat, l \in Nat \ {0} :
         P = o.price /\ r = Rem(o) /\ l = o.leverage
    BY <1>1
  <2>1. r <= r
    OBVIOUS
  <2>2. PerpLock(P, r, l, TakerFeeBps) \in Nat
    BY <1>1, <2>1, PerpLockFacts
  <2> QED BY <2>2
<1> QED BY <1>1, <1>2 DEF LockFor

LEMMA WorthInt ==
  ASSUME NEW e, Shape(e), NEW u \in Accounts
  PROVE  /\ e.available[u] \in Int /\ e.locked[u] \in Int
         /\ MarginOf(e.positions, u) \in Nat
         /\ Worth(e)[u] \in Int
         /\ Worth(e)[u] = e.available[u] + e.locked[u] + MarginOf(e.positions, u)
<1>1. e.available[u] \in Int /\ e.locked[u] \in Int
  BY DEF Shape
<1>2. MarginOf(e.positions, u) \in Nat
  BY DEF Shape, Held, MarginOf, Position
<1> QED BY <1>1, <1>2 DEF Worth

\* What an order adds to u's locks.
Shares(live, u) ==
  [id \in DOMAIN live |-> IF live[id].user = u THEN live[id].lock ELSE 0]

\* Finitely many orders with locks that are numbers.
LockTable(live) ==
  IsFiniteSet(DOMAIN live) /\ \A id \in DOMAIN live : live[id].lock \in Int

LEMMA RestingTable ==
  ASSUME NEW live, Resting(live)
  PROVE  /\ LockTable(live)
         /\ \A id \in DOMAIN live : live[id].lock \in Nat
<1>1. \A id \in DOMAIN live : live[id].lock \in Nat
  BY SoundLock DEF Resting, Sound
<1> QED BY <1>1 DEF Resting, LockTable

LEMMA LocksAre ==
  ASSUME NEW live, LockTable(live), NEW ids \in SUBSET (DOMAIN live), NEW u
  PROVE  /\ LocksOf(live, ids, u) = SumFunctionOnSet(Shares(live, u), ids)
         /\ LocksOf(live, ids, u) \in Int
<1> DEFINE H == {x \in ids : live[x].user = u}
           f == [id \in H |-> live[id].lock]
           g == Shares(live, u)
<1>1. IsFiniteSet(ids) /\ IsFiniteSet(H) /\ H \in SUBSET ids
  BY FS_Subset DEF LockTable
<1>2. DOMAIN f = H
  OBVIOUS
<1>3. LocksOf(live, ids, u) = SumFunctionOnSet(f, H)
  BY <1>2 DEF LocksOf, SumFunction
<1>4. /\ \A x \in ids : g[x] \in Int
      /\ \A x \in ids \ H : g[x] = 0
      /\ \A x \in H : f[x] = g[x]
  BY DEF LockTable, Shares
<1> HIDE DEF H, f, g
<1>5. SumFunctionOnSet(f, H) = SumFunctionOnSet(g, H)
  BY <1>1, <1>4, SumSame
<1>6. SumFunctionOnSet(g, ids) = SumFunctionOnSet(g, H)
  BY <1>1, <1>4, SumPart
<1>7. SumFunctionOnSet(g, ids) \in Int
  BY <1>1, <1>4, SumInt
<1> QED BY <1>3, <1>5, <1>6, <1>7 DEF g

\* Orders that leave take their locks with them.
LEMMA LocksLeave ==
  ASSUME NEW live, LockTable(live), NEW ids \in SUBSET (DOMAIN live), NEW u,
         NEW new, DOMAIN new = DOMAIN live \ ids,
         \A x \in DOMAIN new : new[x] = live[x]
  PROVE  LocksOf(new, DOMAIN new, u)
           = LocksOf(live, DOMAIN live, u) - LocksOf(live, ids, u)
<1> DEFINE f == Shares(live, u)  g == Shares(new, u)
<1> PICK all : all = DOMAIN live
  OBVIOUS
<1> PICK left : left = DOMAIN new
  OBVIOUS
<1>1. LockTable(new)
  <2>1. DOMAIN new \in SUBSET (DOMAIN live)
    OBVIOUS
  <2> QED BY <2>1, FS_Subset DEF LockTable
<1>2. /\ IsFiniteSet(all) /\ IsFiniteSet(left) /\ left = all \ ids
      /\ ids \in SUBSET all /\ left \in SUBSET left /\ all \in SUBSET all
  BY <1>1 DEF LockTable
<1>3. /\ LocksOf(live, all, u) = SumFunctionOnSet(f, all)
      /\ LocksOf(live, ids, u) = SumFunctionOnSet(f, ids)
      /\ LocksOf(live, ids, u) \in Int
  BY <1>2, LocksAre
<1>4. LocksOf(new, left, u) = SumFunctionOnSet(g, left)
      /\ LocksOf(new, left, u) \in Int
  BY <1>1, <1>2, LocksAre
<1>5. /\ \A x \in all : f[x] \in Int
      /\ \A x \in left : g[x] = f[x]
  BY DEF LockTable, Shares
<1> HIDE DEF f, g
<1>6. SumFunctionOnSet(f, all) = SumFunctionOnSet(f, ids) + SumFunctionOnSet(f, left)
  BY <1>2, <1>5, SumSplit
<1>7. SumFunctionOnSet(g, left) = SumFunctionOnSet(f, left)
  BY <1>2, <1>5, SumSame
<1> QED BY <1>3, <1>4, <1>6, <1>7

\* One order's lock changes.
LEMMA LocksChange ==
  ASSUME NEW live, LockTable(live), NEW id \in DOMAIN live, NEW o,
         o.user = live[id].user, o.lock \in Int,
         NEW new, DOMAIN new = DOMAIN live, new[id] = o,
         \A x \in DOMAIN live \ {id} : new[x] = live[x],
         NEW u
  PROVE  LocksOf(new, DOMAIN new, u) = LocksOf(live, DOMAIN live, u)
           + IF u = o.user THEN o.lock - live[id].lock ELSE 0
<1> DEFINE f == Shares(live, u)  g == Shares(new, u)
<1> PICK all : all = DOMAIN live
  OBVIOUS
<1>1. LockTable(new)
  BY DEF LockTable
<1>2. IsFiniteSet(all) /\ all \in SUBSET all /\ id \in all
  BY DEF LockTable
<1>3. LocksOf(live, all, u) = SumFunctionOnSet(f, all)
      /\ LocksOf(live, all, u) \in Int
  BY <1>2, LocksAre
<1>4. LocksOf(new, all, u) = SumFunctionOnSet(g, all)
  BY <1>1, <1>2, LocksAre
<1>5. /\ \A x \in all : f[x] \in Int /\ g[x] \in Int
      /\ \A x \in all \ {id} : g[x] = f[x]
  BY DEF LockTable, Shares
<1>6. g[id] - f[id] = IF u = o.user THEN o.lock - live[id].lock ELSE 0
  BY DEF LockTable, Shares
<1> HIDE DEF f, g
<1>7. SumFunctionOnSet(g, all) = SumFunctionOnSet(f, all) + (g[id] - f[id])
  BY <1>2, <1>5, SumChange
<1> QED BY <1>3, <1>4, <1>6, <1>7

\* An order joins.
LEMMA LocksJoin ==
  ASSUME NEW live, LockTable(live), NEW o, o.id \notin DOMAIN live, o.lock \in Int,
         NEW u
  PROVE  /\ LockTable(WithOrder(live, o))
         /\ LocksOf(WithOrder(live, o), DOMAIN WithOrder(live, o), u)
              = LocksOf(live, DOMAIN live, u) + IF u = o.user THEN o.lock ELSE 0
<1>w. PICK new : new = WithOrder(live, o)
  OBVIOUS
<1>d. PICK ids : ids = {o.id}
  OBVIOUS
<1>1. /\ DOMAIN new = DOMAIN live \cup {o.id} /\ new[o.id] = o
      /\ \A x \in DOMAIN live : new[x] = live[x]
  BY <1>w DEF WithOrder
<1>2. LockTable(new)
  <2>1. IsFiniteSet(DOMAIN live \cup {o.id})
    BY FS_AddElement DEF LockTable
  <2> QED BY <1>1, <2>1 DEF LockTable
<1>3. /\ ids \in SUBSET (DOMAIN new) /\ DOMAIN live = DOMAIN new \ ids
      /\ \A x \in DOMAIN live : live[x] = new[x]
  BY <1>1, <1>d
<1>4. LocksOf(live, DOMAIN live, u)
        = LocksOf(new, DOMAIN new, u) - LocksOf(new, ids, u)
  BY <1>2, <1>3, LocksLeave
<1>5. LocksOf(new, ids, u) = IF u = o.user THEN o.lock ELSE 0
  <2> DEFINE g == Shares(new, u)
  <2>1. LocksOf(new, ids, u) = SumFunctionOnSet(g, ids)
    BY <1>2, <1>3, LocksAre
  <2>2. IsFiniteSet(ids) /\ o.id \in ids /\ \A x \in ids : g[x] \in Int
    <3>1. IsFiniteSet(ids) /\ o.id \in ids /\ \A x \in ids : x = o.id
      BY <1>d, FS_Singleton
    <3>2. g[o.id] \in Int
      BY <1>1, <1>2, <1>3 DEF LockTable, Shares
    <3> HIDE DEF g
    <3> QED BY <3>1, <3>2
  <2>3. g[o.id] = IF u = o.user THEN o.lock ELSE 0
    BY <1>1 DEF Shares
  <2> HIDE DEF g
  <2>4. SumFunctionOnSet(g, ids) = g[o.id] + SumFunctionOnSet(g, ids \ {o.id})
    BY <2>2, SumTakeOut
  <2>5. SumFunctionOnSet(g, ids \ {o.id}) = 0
    <3>1. ids \ {o.id} = {}
      BY <1>d
    <3>2. SumFunctionOnSet(g, {}) = 0
      BY FS_EmptySet, SumEquation
    <3> QED BY <3>1, <3>2
  <2>6. g[o.id] \in Int
    BY <2>2
  <2> QED BY <2>1, <2>3, <2>4, <2>5, <2>6
<1>6. LocksOf(new, DOMAIN new, u) \in Int
  <2>1. DOMAIN new \in SUBSET (DOMAIN new)
    OBVIOUS
  <2> QED BY <1>2, <2>1, LocksAre
<1>7. LocksOf(live, DOMAIN live, u) \in Int
  <2>1. DOMAIN live \in SUBSET (DOMAIN live)
    OBVIOUS
  <2> QED BY <2>1, LocksAre
<1>8. LocksOf(new, DOMAIN new, u)
        = LocksOf(live, DOMAIN live, u) + IF u = o.user THEN o.lock ELSE 0
  BY <1>4, <1>5, <1>6, <1>7
<1> QED BY <1>2, <1>8, <1>w

LEMMA EngineEq ==
  ASSUME NEW e, NEW a, NEW l, NEW p, NEW o, NEW b,
         e = [available |-> a, locked |-> l, positions |-> p, orders |-> o, book |-> b]
  PROVE  /\ Fields(e) /\ e.available = a /\ e.locked = l /\ e.positions = p
         /\ e.orders = o /\ e.book = b
BY DEF Fields

LEMMA RestingWithout ==
  ASSUME NEW live, Resting(live), NEW ids
  PROVE  /\ Resting(Without(live, ids))
         /\ DOMAIN Without(live, ids) = DOMAIN live \ ids
         /\ \A x \in DOMAIN live \ ids : Without(live, ids)[x] = live[x]
<1> PICK new : new = Without(live, ids)
  OBVIOUS
<1>1. DOMAIN new = DOMAIN live \ ids /\ \A x \in DOMAIN new : new[x] = live[x]
  BY DEF Without
<1>2. IsFiniteSet(DOMAIN new)
  <2>1. DOMAIN new \in SUBSET (DOMAIN live)
    BY <1>1
  <2> QED BY <2>1, FS_Subset DEF Resting
<1>3. Resting(new)
  BY <1>1, <1>2 DEF Resting
<1> QED BY <1>1, <1>3

\* Orders leave: their locks become available to their owners, so that nobody
\* gains or loses, and the rest stay backed and in order.
LEMMA CancelledFacts ==
  ASSUME NEW e, Shape(e), NEW ids \in SUBSET (DOMAIN e.orders), NEW extra,
         Backed(e, extra), extra \in [Accounts -> Int],
         NEW r, r = Cancelled(e, ids)
  PROVE  /\ Shape(r) /\ Backed(r, extra)
         /\ Worth(r) = Worth(e) /\ r.positions = e.positions
         /\ \A u \in Accounts : r.available[u] >= e.available[u]
         /\ DOMAIN r.orders = DOMAIN e.orders \ ids
         /\ \A x \in DOMAIN r.orders : r.orders[x] = e.orders[x]
<1> DEFINE freed(u) == LocksOf(e.orders, ids, u)
<1>l. PICK live : live = e.orders
  OBVIOUS
<1>a. PICK a : a = [u \in Accounts |-> e.available[u] + freed(u)]
  OBVIOUS
<1>k. PICK l : l = [u \in Accounts |-> e.locked[u] - freed(u)]
  OBVIOUS
<1>o. PICK o : o = Without(live, ids)
  OBVIOUS
<1>b. PICK b : b = [s \in Sides |-> Remaining(e.book[s], ids)]
  OBVIOUS
<1>1. r = [e EXCEPT !.available = a, !.locked = l, !.orders = o, !.book = b]
  BY <1>l, <1>a, <1>k, <1>o, <1>b DEF Cancelled
<1>2. r = [available |-> a, locked |-> l, positions |-> e.positions,
           orders |-> o, book |-> b]
  BY <1>1 DEF Shape, Fields
<1>3. /\ Fields(r) /\ r.available = a /\ r.locked = l /\ r.positions = e.positions
      /\ r.orders = o /\ r.book = b
  BY <1>2, EngineEq
<1>4. /\ Resting(o) /\ DOMAIN o = DOMAIN e.orders \ ids
      /\ \A x \in DOMAIN o : o[x] = e.orders[x]
  <2>1. Resting(live)
    BY <1>l DEF Shape
  <2>2. /\ Resting(o) /\ DOMAIN o = DOMAIN live \ ids
        /\ \A x \in DOMAIN live \ ids : o[x] = live[x]
    BY <2>1, <1>o, RestingWithout
  <2> QED BY <2>2, <1>l
<1>5. LockTable(e.orders) /\ \A id \in DOMAIN e.orders : e.orders[id].lock \in Nat
  BY RestingTable DEF Shape
<1>6. ASSUME NEW u \in Accounts
      PROVE  /\ freed(u) \in Nat
             /\ LocksOf(o, DOMAIN o, u)
                  = LocksOf(e.orders, DOMAIN e.orders, u) - freed(u)
             /\ LocksOf(e.orders, DOMAIN e.orders, u) \in Int
  <2>1. freed(u) \in Int /\ freed(u) = SumFunctionOnSet(Shares(e.orders, u), ids)
    BY <1>5, LocksAre
  <2>2. freed(u) >= 0
    <3> PICK g : g = Shares(e.orders, u)
      OBVIOUS
    <3> PICK z : z = [x \in ids |-> 0]
      OBVIOUS
    <3>1. \A x \in ids : z[x] \in Int /\ g[x] \in Int /\ z[x] <= g[x] /\ z[x] = 0
      BY <1>5 DEF Shares
    <3>2. IsFiniteSet(ids)
      BY <1>5, FS_Subset DEF LockTable
    <3>3. SumFunctionOnSet(z, ids) <= SumFunctionOnSet(g, ids)
      BY <3>1, <3>2, SumAtMost
    <3>4. SumFunctionOnSet(z, ids) = 0
      BY <3>1, <3>2, SumZero
    <3> QED BY <2>1, <3>3, <3>4
  <2>3. LocksOf(o, DOMAIN o, u) = LocksOf(e.orders, DOMAIN e.orders, u) - freed(u)
    <3>1. LocksOf(o, DOMAIN o, u) = LocksOf(live, DOMAIN live, u) - LocksOf(live, ids, u)
      <4>1. LockTable(live) /\ ids \in SUBSET (DOMAIN live)
        BY <1>5, <1>l
      <4>2. DOMAIN o = DOMAIN live \ ids /\ \A x \in DOMAIN o : o[x] = live[x]
        BY <1>4, <1>l
      <4> QED BY <4>1, <4>2, LocksLeave
    <3> QED BY <3>1, <1>l
  <2>4. LocksOf(e.orders, DOMAIN e.orders, u) \in Int
    <3>1. DOMAIN e.orders \in SUBSET (DOMAIN e.orders)
      OBVIOUS
    <3> QED BY <1>5, <3>1, LocksAre
  <2> QED BY <2>1, <2>2, <2>3, <2>4
<1> HIDE DEF freed
<1>7. \A u \in Accounts : /\ a[u] = e.available[u] + freed(u) /\ a[u] \in Int
                          /\ l[u] = e.locked[u] - freed(u) /\ l[u] \in Int
                          /\ freed(u) \in Nat
                          /\ e.available[u] \in Int /\ e.locked[u] \in Int
  BY <1>6, <1>a, <1>k DEF Shape
<1>8. a \in [Accounts -> Int] /\ l \in [Accounts -> Int]
  BY <1>7, <1>a, <1>k
<1>9. ASSUME NEW s \in Sides PROVE Queue(s, b[s], o)
  <2> PICK q : q = e.book[s]
    OBVIOUS
  <2>1. Queue(s, q, e.orders)
    BY DEF Shape
  <2>2. Queue(s, Remaining(q, ids), o)
    BY <1>4, <2>1, RemainingQueue
  <2> QED BY <2>2, <1>b
<1>10. b = [s \in Sides |-> b[s]]
  BY <1>b
<1>11. Shape(r)
  BY <1>3, <1>4, <1>8, <1>9, <1>10 DEF Shape
<1>12. Backed(r, extra)
  <2> SUFFICES ASSUME NEW u \in Accounts
               PROVE  l[u] = LocksOf(o, DOMAIN o, u) + extra[u]
    BY <1>3 DEF Backed
  <2>1. e.locked[u] = LocksOf(e.orders, DOMAIN e.orders, u) + extra[u]
    BY DEF Backed
  <2>2. extra[u] \in Int
    OBVIOUS
  <2> QED BY <1>6, <1>7, <2>1, <2>2
<1>13. \A u \in Accounts : Worth(r)[u] = Worth(e)[u]
  <2> TAKE u \in Accounts
  <2>1. /\ MarginOf(r.positions, u) \in Nat
        /\ Worth(r)[u] = r.available[u] + r.locked[u] + MarginOf(r.positions, u)
    BY <1>11, WorthInt
  <2>2. Worth(e)[u] = e.available[u] + e.locked[u] + MarginOf(e.positions, u)
    BY WorthInt
  <2>3. MarginOf(r.positions, u) = MarginOf(e.positions, u)
    BY <1>3
  <2> QED BY <1>3, <1>7, <2>1, <2>2, <2>3
<1>14. Worth(r) = Worth(e)
  BY <1>13 DEF Worth
<1>15. \A u \in Accounts : r.available[u] >= e.available[u]
  BY <1>3, <1>7
<1> QED BY <1>3, <1>4, <1>11, <1>12, <1>14, <1>15

-----------------------------------------------------------------------------
(* What a fill does to the two traders.                                    *)

\* What a fill of q leaves of an order.
LEMMA AfterFillFacts ==
  ASSUME NEW o, Sound(o), NEW q \in Nat, q <= Rem(o), NEW f, f = AfterFill(o, q)
  PROVE  /\ Sound(f) /\ Rem(f) = Rem(o) - q
         /\ f.id = o.id /\ f.side = o.side /\ f.price = o.price
         /\ f.user = o.user /\ f.reduceOnly = o.reduceOnly
         /\ f.leverage = o.leverage /\ f.type = o.type /\ f.tif = o.tif
         /\ o.lock - f.lock \in Nat /\ f.lock \in Nat /\ o.lock \in Nat
<1>g. PICK g : g = [o EXCEPT !.filled = @ + q]
  OBVIOUS
<1>l. PICK l : l = LockFor(g)
  OBVIOUS
<1>1. /\ o \in Order /\ o.filled \in Nat /\ o.qty \in Nat /\ o.price \in Nat
      /\ o.filled + q <= o.qty /\ o.price # 0 /\ o.leverage \in Nat \ {0}
      /\ o.lock = LockFor(o) /\ Rem(o) \in Nat /\ Rem(o) = o.qty - o.filled
  BY PerpConstants DEF Sound, Order, Rem
<1>2. g \in Order /\ g.filled = o.filled + q /\ g.qty = o.qty /\ g.price = o.price
      /\ g.reduceOnly = o.reduceOnly /\ g.leverage = o.leverage
  BY <1>1, <1>g DEF Order
<1>3. l \in Nat /\ o.lock \in Nat
  BY <1>1, <1>2, <1>l, SoundLock
<1>4. f = [g EXCEPT !.lock = l]
  BY <1>g, <1>l DEF AfterFill
<1>5. /\ f \in Order /\ f.filled = o.filled + q /\ f.qty = o.qty /\ f.price = o.price
      /\ f.id = o.id /\ f.side = o.side /\ f.user = o.user
      /\ f.reduceOnly = o.reduceOnly /\ f.leverage = o.leverage /\ f.lock = l
      /\ f.type = o.type /\ f.tif = o.tif
  <2>1. /\ g.id = o.id /\ g.side = o.side /\ g.user = o.user
        /\ g.type = o.type /\ g.tif = o.tif
    BY <1>1, <1>g DEF Order
  <2> QED BY <1>2, <1>3, <1>4, <2>1 DEF Order
<1>6. Rem(f) = Rem(o) - q /\ Rem(g) = Rem(f)
  BY <1>1, <1>2, <1>5 DEF Rem
<1>7. f.lock = LockFor(f)
  BY <1>2, <1>5, <1>6, <1>l DEF LockFor
<1>8. l <= o.lock
  <2>1. CASE o.reduceOnly
    BY <2>1, <1>1, <1>2, <1>l DEF LockFor
  <2>2. CASE ~o.reduceOnly
    <3>1. o.lock = PerpLock(o.price, Rem(o), o.leverage, TakerFeeBps)
      BY <2>2, <1>1 DEF LockFor
    <3>2. l = PerpLock(o.price, Rem(f), o.leverage, TakerFeeBps)
      BY <2>2, <1>2, <1>6, <1>l DEF LockFor
    <3>3. Rem(f) \in Nat /\ Rem(f) <= Rem(o) /\ Rem(o) \in Nat
      BY <1>1, <1>5, <1>6 DEF Rem
    <3>4. PICK P \in Nat, a \in Nat, b \in Nat, v \in Nat \ {0}, bps \in Nat :
            /\ P = o.price /\ a = Rem(f) /\ b = Rem(o) /\ v = o.leverage
            /\ bps = TakerFeeBps /\ a <= b
      BY <3>3, <1>1, PerpConstants
    <3>5. PerpLock(P, a, v, bps) <= PerpLock(P, b, v, bps)
      BY <3>4, PerpLockFacts
    <3> QED BY <3>1, <3>2, <3>4, <3>5
  <2> QED BY <2>1, <2>2
<1>9. f.filled <= f.qty
  BY <1>1, <1>5
<1>10. Sound(f)
  BY <1>1, <1>5, <1>7, <1>9 DEF Sound
<1> QED BY <1>3, <1>5, <1>6, <1>8, <1>10

\* How much of a position a fill closes.
LEMMA ClosableFacts ==
  ASSUME NEW held, Held(held), NEW u \in Users, NEW side \in Sides
  PROVE  /\ Closable(SizesOf(held)[u], side) \in Nat
         /\ Closable(SizesOf(held)[u], side) # 0 =>
              /\ u \in DOMAIN held
              /\ SignBig(held[u].size) = -Dir(side)
              /\ Closable(SizesOf(held)[u], side) = AbsBig(held[u].size)
         /\ u \in DOMAIN held /\ Closable(SizesOf(held)[u], side) = 0 =>
              SignBig(held[u].size) = Dir(side)
<1>s. PICK s : s = SizesOf(held)[u]
  OBVIOUS
<1>d. PICK d \in {1, -1} : d = Dir(side)
  BY DirFacts
<1>1. s = IF u \in DOMAIN held THEN held[u].size ELSE 0
  BY <1>s DEF SizesOf
<1>2. CASE u \notin DOMAIN held
  <2>1. Closable(s, side) = 0
    BY <1>1, <1>2, <1>d DEF Closable, SignBig, AbsBig
  <2> QED BY <1>s, <1>2, <2>1
<1>3. CASE u \in DOMAIN held
  <2>1. s = held[u].size /\ s \in Int \ {0}
    BY <1>1, <1>3 DEF Held, Position
  <2>2. AbsBig(s) \in Nat \ {0} /\ SignBig(s) \in {1, -1}
    BY <2>1, SignFacts
  <2>3. Closable(s, side) = IF SignBig(s) = -d THEN AbsBig(s) ELSE 0
    BY <1>d DEF Closable
  <2> QED BY <1>s, <1>d, <1>3, <2>1, <2>2, <2>3
<1> QED BY <1>2, <1>3

\* One holder's margin and size become m and s, and nobody else's change.
Changed(held, new, u, s, m) ==
  /\ MarginOf(new, u) = m /\ SizesOf(new)[u] = s
  /\ \A w \in Accounts : w # u => MarginOf(new, w) = MarginOf(held, w)
  /\ \A w \in Users : w # u => SizesOf(new)[w] = SizesOf(held)[w]
  /\ \A w \in Users : w # u => (w \in DOMAIN new <=> w \in DOMAIN held)

LEMMA HavingFacts ==
  ASSUME NEW held, Held(held), NEW u \in Users, NEW pos \in Position, pos.margin >= 0,
         NEW new, new = Having(held, u, pos)
  PROVE  /\ Held(new) /\ Changed(held, new, u, pos.size, pos.margin)
         /\ u \in DOMAIN new /\ new[u] = pos
<1>1. /\ DOMAIN new = DOMAIN held \cup {u} /\ new[u] = pos
      /\ \A w \in DOMAIN held : w # u => new[w] = held[w]
  BY DEF Having
<1>2. Held(new)
  BY <1>1 DEF Held
<1>3. MarginOf(new, u) = pos.margin /\ SizesOf(new)[u] = pos.size
  BY <1>1 DEF MarginOf, SizesOf
<1>4. ASSUME NEW w, w # u
      PROVE  /\ w \in DOMAIN new <=> w \in DOMAIN held
             /\ MarginOf(new, w) = MarginOf(held, w)
             /\ w \in Users => SizesOf(new)[w] = SizesOf(held)[w]
  BY <1>1, <1>4 DEF MarginOf, SizesOf
<1> QED BY <1>1, <1>2, <1>3, <1>4 DEF Changed

LEMMA WithoutFacts ==
  ASSUME NEW held, Held(held), NEW u \in Users, NEW new, new = Without(held, {u})
  PROVE  /\ Held(new) /\ Changed(held, new, u, 0, 0)
         /\ DOMAIN new = DOMAIN held \ {u}
         /\ \A w \in DOMAIN new : new[w] = held[w]
<1>1. /\ DOMAIN new = DOMAIN held \ {u}
      /\ \A w \in DOMAIN new : new[w] = held[w]
  BY DEF Without
<1>2. Held(new)
  BY <1>1 DEF Held
<1>3. MarginOf(new, u) = 0 /\ SizesOf(new)[u] = 0
  BY <1>1 DEF MarginOf, SizesOf
<1>4. ASSUME NEW w, w # u
      PROVE  /\ w \in DOMAIN new <=> w \in DOMAIN held
             /\ MarginOf(new, w) = MarginOf(held, w)
             /\ w \in Users => SizesOf(new)[w] = SizesOf(held)[w]
  BY <1>1, <1>4 DEF MarginOf, SizesOf
<1> QED BY <1>1, <1>2, <1>3, <1>4 DEF Changed

\* The closing part of a fill, whether or not there is one.
LEMMA CloseFacts ==
  ASSUME NEW held, Held(held), NEW u \in Users, NEW side \in Sides,
         NEW p \in Nat, NEW c \in Nat, c <= Closable(SizesOf(held)[u], side),
         NEW bps \in Nat, NEW wallet \in Nat,
         NEW r, r = IF c = 0 THEN [cash |-> 0, fee |-> 0, clearing |-> 0]
                    ELSE CloseLeg(held[u], side, p, c, bps, wallet),
         NEW new, new = IF c = 0 THEN held ELSE AfterClose(held, u, r.pos)
  PROVE  /\ r.cash \in Int /\ r.fee \in Nat /\ r.clearing \in Int
         /\ r.cash >= -wallet
         /\ Held(new)
         /\ MarginOf(new, u) \in Nat /\ MarginOf(held, u) \in Nat
         /\ r.cash + r.fee + r.clearing + MarginOf(new, u) = MarginOf(held, u)
         /\ Changed(held, new, u, SizesOf(held)[u] + Dir(side) * c, MarginOf(new, u))
         /\ c = Closable(SizesOf(held)[u], side) /\ u \in DOMAIN new =>
              SignBig(new[u].size) = Dir(side)
<1>s. PICK s : s = SizesOf(held)[u]
  OBVIOUS
<1>d. PICK d \in {1, -1} : d = Dir(side)
  BY DirFacts
<1>1. /\ Closable(s, side) \in Nat
      /\ Closable(s, side) # 0 =>
           /\ u \in DOMAIN held /\ SignBig(held[u].size) = -d
           /\ Closable(s, side) = AbsBig(held[u].size)
      /\ u \in DOMAIN held /\ Closable(s, side) = 0 => SignBig(held[u].size) = d
  BY <1>s, <1>d, ClosableFacts
<1>2. /\ s \in Int /\ MarginOf(held, u) \in Nat
      /\ u \in DOMAIN held => held[u] \in Position /\ held[u].margin >= 0
                              /\ s = held[u].size /\ MarginOf(held, u) = held[u].margin
  BY <1>s DEF SizesOf, MarginOf, Held, Position
<1>3. CASE c = 0
  <2>1. r.cash = 0 /\ r.fee = 0 /\ r.clearing = 0 /\ new = held
    BY <1>3
  <2>2. s + d * c = s
    BY <1>2, <1>3, <1>d
  <2>3. Changed(held, new, u, s + d * c, MarginOf(new, u))
    BY <2>1, <2>2, <1>s DEF Changed
  <2> QED BY <1>1, <1>2, <1>3, <2>1, <2>3, <1>s, <1>d
<1>4. CASE c # 0
  <2>p. PICK pos : pos = held[u]
    OBVIOUS
  <2>0. /\ u \in DOMAIN held /\ pos \in Position /\ pos.margin >= 0 /\ s = pos.size
        /\ MarginOf(held, u) = pos.margin /\ pos.margin \in Nat
        /\ SignBig(pos.size) = -d /\ c \in Nat \ {0}
        /\ c <= AbsBig(pos.size) /\ AbsBig(pos.size) = Closable(s, side)
        /\ pos.size \in Int \ {0}
    BY <1>1, <1>2, <1>4, <1>s, <2>p DEF Position
  <2>1. r = CloseLeg(pos, side, p, c, bps, wallet)
    BY <1>4, <2>p
  <2>2. /\ r.pos = [pos EXCEPT !.size = @ + Dir(side) * c, !.margin = r.pos.margin]
        /\ r.pos.size = pos.size + Dir(side) * c
        /\ r.pos.margin \in Nat /\ r.cash \in Int /\ r.fee \in Nat /\ r.clearing \in Int
        /\ r.cash >= -MaxBig(wallet, 0)
        /\ r.cash + r.fee + r.clearing + r.pos.margin = pos.margin
        /\ c = AbsBig(pos.size) => r.pos.margin = 0
    <3>1. SignBig(pos.size) = -Dir(side) /\ wallet \in Int
      BY <2>0, <1>d
    <3>2. LegClosed(r, pos, side, c, wallet)
      BY <2>0, <2>1, <3>1, CloseLegFacts
    <3> QED BY <3>2 DEF LegClosed
  <2>3. MaxBig(wallet, 0) = wallet
    BY DEF MaxBig
  <2>n. PICK n : n = pos.size + d * c
    OBVIOUS
  <2>4. n \in Int /\ (n = 0 <=> c = AbsBig(pos.size))
    <3>z. PICK z \in Int \ {0} : z = pos.size
      BY <2>0
    <3>1. AbsBig(z) \in Nat \ {0}
          /\ (SignBig(z) = 1 => AbsBig(z) = z)
          /\ (SignBig(z) = -1 => AbsBig(z) = -z)
      BY SignFacts
    <3>2. CASE d = 1
      <4>1. n = z + c /\ AbsBig(z) = -z
        BY <2>0, <2>n, <3>1, <3>2, <3>z
      <4> QED BY <4>1, <3>z
    <3>3. CASE d = -1
      <4>1. n = z - c /\ AbsBig(z) = z
        BY <2>0, <2>n, <3>1, <3>3, <3>z
      <4> QED BY <4>1, <3>z
    <3> QED BY <1>d, <3>2, <3>3
  <2>5. r.pos.size = n /\ new = AfterClose(held, u, r.pos)
    BY <2>2, <2>n, <1>d, <1>4
  <2>6. CASE n = 0
    <3>1. new = Without(held, {u})
      BY <2>5, <2>6 DEF AfterClose
    <3>2. Held(new) /\ Changed(held, new, u, 0, 0) /\ u \notin DOMAIN new
      <4>1. Held(new) /\ Changed(held, new, u, 0, 0) /\ DOMAIN new = DOMAIN held \ {u}
        BY <3>1, WithoutFacts
      <4> QED BY <4>1
    <3>3. MarginOf(new, u) = 0 /\ r.pos.margin = 0
      BY <3>2, <2>2, <2>4, <2>6 DEF Changed
    <3>4. Changed(held, new, u, s + Dir(side) * c, MarginOf(new, u))
      BY <3>2, <3>3, <2>0, <2>6, <2>n, <1>d
    <3>5. r.cash + r.fee + r.clearing + MarginOf(new, u) = MarginOf(held, u)
      BY <2>0, <2>2, <3>3
    <3> QED BY <1>2, <1>s, <2>2, <2>3, <3>2, <3>3, <3>4, <3>5
  <2>7. CASE n # 0
    <3>1. new = Having(held, u, r.pos)
      BY <2>5, <2>7 DEF AfterClose
    <3>2. r.pos \in Position /\ r.pos.margin >= 0
      <4>1. r.pos = [pos EXCEPT !.size = n, !.margin = r.pos.margin]
        BY <2>2, <2>n, <1>d
      <4>m. PICK m \in Nat : m = r.pos.margin
        BY <2>2
      <4>2. r.pos = [pos EXCEPT !.size = n, !.margin = m]
        BY <4>1, <4>m
      <4>4. pos = [size |-> pos.size, entry |-> pos.entry, margin |-> pos.margin,
                   leverage |-> pos.leverage]
            /\ pos.entry \in Nat \ {0} /\ pos.leverage \in 1..MaxLeverage
        BY <2>0 DEF Position
      <4>5. r.pos = [size |-> n, entry |-> pos.entry, margin |-> m,
                     leverage |-> pos.leverage]
        BY <4>2, <4>4
      <4>3. r.pos \in Position
        <5>1. n \in Int \ {0} /\ m \in Int
          BY <2>4, <2>7
        <5> QED BY <4>4, <4>5, <5>1 DEF Position
      <4> QED BY <2>2, <4>3
    <3>3. Held(new) /\ Changed(held, new, u, n, r.pos.margin)
      <4>1. Changed(held, new, u, r.pos.size, r.pos.margin) /\ Held(new)
        BY <3>1, <3>2, HavingFacts
      <4> QED BY <4>1, <2>5
    <3>4. MarginOf(new, u) = r.pos.margin
      BY <3>3 DEF Changed
    <3>5. Changed(held, new, u, s + Dir(side) * c, MarginOf(new, u))
      BY <3>3, <3>4, <2>0, <2>n, <1>d
    <3>6. c # Closable(s, side)
      BY <2>0, <2>4, <2>7
    <3>7. r.cash + r.fee + r.clearing + MarginOf(new, u) = MarginOf(held, u)
      BY <2>0, <2>2, <3>4
    <3> QED BY <1>2, <1>s, <2>2, <2>3, <3>3, <3>4, <3>5, <3>6, <3>7
  <2> QED BY <2>6, <2>7
<1> QED BY <1>3, <1>4

LEMMA ChangedTwice ==
  ASSUME NEW a, NEW b, NEW new, NEW u, NEW s, NEW m, NEW s2, NEW m2,
         Changed(a, b, u, s, m), Changed(b, new, u, s2, m2)
  PROVE  Changed(a, new, u, s2, m2)
BY DEF Changed

\* A position that grew by q, its margin by `margin`.
Grown(held, new, o, q, margin) ==
  /\ Held(new)
  /\ Changed(held, new, o.user, SizesOf(held)[o.user] + Dir(o.side) * q,
             MarginOf(held, o.user) + margin)

\* Opening q more on the side a position is on already, or from nothing.
LEMMA OpenFacts ==
  ASSUME NEW held, Held(held), NEW o \in Order, NEW p \in Nat \ {0},
         NEW q \in Nat \ {0}, NEW margin \in Nat,
         o.user \in DOMAIN held => SignBig(held[o.user].size) = Dir(o.side),
         NEW new, new = Opened(held, o, p, q, margin)
  PROVE  Grown(held, new, o, q, margin)
<1>u. PICK u \in Users : u = o.user
  BY DEF Order
<1>d. PICK d \in {1, -1} : d = Dir(o.side)
  BY DirFacts DEF Order
<1>0. o.leverage \in 1..MaxLeverage
  BY DEF Order
<1>1. CASE u \in DOMAIN held
  <2>p. PICK pos \in Position : pos = held[u] /\ pos.margin >= 0
    BY <1>1 DEF Held
  <2>z. PICK z \in Int \ {0} : z = pos.size
    BY DEF Position
  <2>1. /\ pos = [size |-> z, entry |-> pos.entry, margin |-> pos.margin,
                  leverage |-> pos.leverage]
        /\ pos.entry \in Nat \ {0} /\ pos.leverage \in 1..MaxLeverage
        /\ pos.margin \in Nat
    BY <2>p, <2>z DEF Position
  <2>v. PICK v : v = VwapEntry(pos.entry, AbsBig(z), p, q)
    OBVIOUS
  <2>2. v \in Nat \ {0}
    <3>e. PICK e \in Nat \ {0}, a \in Nat \ {0} : e = pos.entry /\ a = AbsBig(z)
      BY <2>1, SignFacts
    <3>1. VwapEntry(e, a, p, q) \in Nat \ {0}
      BY VwapPositive
    <3> QED BY <3>1, <3>e, <2>v
  <2>n. PICK n : n = z + d * q
    OBVIOUS
  <2>3. n \in Int \ {0}
    <3>1. /\ SignBig(z) = 1 => AbsBig(z) = z
          /\ SignBig(z) = -1 => AbsBig(z) = -z
          /\ AbsBig(z) \in Nat \ {0}
      BY SignFacts
    <3>2. SignBig(z) = d
      BY <1>1, <1>u, <1>d, <2>p, <2>z
    <3>3. CASE d = 1
      BY <3>1, <3>2, <3>3, <2>n
    <3>4. CASE d = -1
      BY <3>1, <3>2, <3>4, <2>n
    <3> QED BY <3>3, <3>4
  <2>m. PICK m \in Nat : m = pos.margin + margin
    BY <2>1
  <2>c. PICK np : np = [size |-> n, entry |-> v, margin |-> m, leverage |-> pos.leverage]
    OBVIOUS
  <2>4. np \in Position /\ np.size = n /\ np.margin = m
    BY <2>1, <2>2, <2>3, <2>c DEF Position
  <2>5. new = Having(held, u, np)
    <3>1. new = Having(held, u, [pos EXCEPT !.size = @ + d * q, !.entry = v,
                                            !.margin = @ + margin])
      BY <1>1, <1>u, <1>d, <2>p, <2>z, <2>v DEF Opened
    <3>r. PICK r : r = [pos EXCEPT !.size = @ + d * q, !.entry = v,
                                   !.margin = @ + margin]
      OBVIOUS
    <3>2. r = [size |-> z + d * q, entry |-> v, margin |-> pos.margin + margin,
               leverage |-> pos.leverage]
      <4>e. PICK e, g, l : e = pos.entry /\ g = pos.margin /\ l = pos.leverage
        OBVIOUS
      <4>1. pos = [size |-> z, entry |-> e, margin |-> g, leverage |-> l]
        BY <2>1, <4>e
      <4>2. r = [size |-> z + d * q, entry |-> v, margin |-> g + margin,
                 leverage |-> l]
        BY <4>1, <3>r
      <4> QED BY <4>2, <4>e
    <3>3. r = np
      BY <3>2, <2>n, <2>m, <2>c
    <3> QED BY <3>1, <3>r, <3>3
  <2>6. Held(new) /\ Changed(held, new, u, np.size, np.margin)
    BY <2>4, <2>5, HavingFacts
  <2>7. SizesOf(held)[u] = z /\ MarginOf(held, u) = pos.margin
    BY <1>1, <2>p, <2>z DEF SizesOf, MarginOf
  <2> QED BY <2>4, <2>6, <2>7, <2>n, <2>m, <1>u, <1>d DEF Grown
<1>2. CASE u \notin DOMAIN held
  <2>n. PICK n : n = d * q
    OBVIOUS
  <2>1. n \in Int \ {0} /\ n = 0 + d * q
    <3>3. CASE d = 1
      BY <3>3, <2>n
    <3>4. CASE d = -1
      BY <3>4, <2>n
    <3> QED BY <3>3, <3>4
  <2>c. PICK np : np = [size |-> n, entry |-> p, margin |-> margin,
                        leverage |-> o.leverage]
    OBVIOUS
  <2>4. np \in Position /\ np.size = n /\ np.margin = margin /\ margin = 0 + margin
    BY <1>0, <2>1, <2>c DEF Position
  <2>5. new = Having(held, u, np)
    BY <1>2, <1>u, <1>d, <2>n, <2>c DEF Opened
  <2>6. Held(new) /\ Changed(held, new, u, np.size, np.margin)
    BY <2>4, <2>5, HavingFacts
  <2>7. SizesOf(held)[u] = 0 /\ MarginOf(held, u) = 0
    BY <1>2 DEF SizesOf, MarginOf
  <2> QED BY <2>1, <2>4, <2>6, <2>7, <1>u, <1>d DEF Grown
<1> QED BY <1>1, <1>2

LEMMA ClosableSizes ==
  ASSUME NEW held, Held(held), NEW u \in Users
  PROVE  SizesOf(held)[u] \in Int /\ MarginOf(held, u) \in Nat
BY DEF SizesOf, MarginOf, Held, Position

\* The two legs of a fill of q for the price p: c closes, the rest opens.
BothLegs(held, o, p, q, bps, wallet, budget, c, cl, kept, op, new) ==
  /\ c = MinBig(q, Closable(SizesOf(held)[o.user], o.side))
  /\ cl = IF c = 0 THEN [cash |-> 0, fee |-> 0, clearing |-> 0]
          ELSE CloseLeg(held[o.user], o.side, p, c, bps, wallet)
  /\ kept = IF c = 0 THEN held ELSE AfterClose(held, o.user, cl.pos)
  /\ op = IF c = q THEN [fee |-> 0, margin |-> 0, left |-> budget]
          ELSE OpenLeg(budget, o.leverage, p, q - c, bps)
  /\ new = IF c = q THEN kept ELSE Opened(kept, o, p, q - c, op.margin)

\* The position moves by q, and what leaves the lock slice and the margin is
\* what the three accounts receive.
LegsPay(held, new, o, q, wallet, budget, cash, fee, clearing) ==
  /\ Held(new) /\ MarginOf(new, o.user) \in Nat
  /\ Changed(held, new, o.user, SizesOf(held)[o.user] + Dir(o.side) * q,
             MarginOf(new, o.user))
  /\ cash \in Int /\ fee \in Nat /\ clearing \in Int
  /\ cash >= -wallet
  /\ cash + fee + clearing + (MarginOf(new, o.user) - MarginOf(held, o.user)) = budget

LEMMA LegsFacts ==
  ASSUME NEW held, Held(held), NEW o \in Order, NEW p \in Nat \ {0}, NEW q \in Nat,
         NEW bps \in Nat, NEW wallet \in Nat, NEW budget \in Nat,
         NEW c, NEW cl, NEW kept, NEW op, NEW new,
         BothLegs(held, o, p, q, bps, wallet, budget, c, cl, kept, op, new)
  PROVE  LegsPay(held, new, o, q, wallet, budget,
                 op.left + cl.cash, cl.fee + op.fee, cl.clearing)
<1>u. PICK u \in Users : u = o.user
  BY DEF Order
<1>d. PICK d \in {1, -1} : d = Dir(o.side)
  BY DirFacts DEF Order
<1>s. PICK s \in Int : s = SizesOf(held)[u]
  BY ClosableSizes
<1>g. PICK g \in Nat : g = MarginOf(held, u)
  BY ClosableSizes
<1>0. o.side \in Sides /\ o.leverage \in Nat \ {0}
  BY PerpConstants DEF Order
<1>1. c \in Nat /\ c <= q /\ c <= Closable(s, o.side)
      /\ (c # q => c = Closable(s, o.side))
  <2>1. Closable(s, o.side) \in Nat
    BY <1>0, <1>s, ClosableFacts
  <2>2. c = MinBig(q, Closable(s, o.side))
    BY <1>u, <1>s DEF BothLegs
  <2> QED BY <2>1, <2>2 DEF MinBig
<1>2. /\ cl.cash \in Int /\ cl.fee \in Nat /\ cl.clearing \in Int
      /\ cl.cash >= -wallet /\ Held(kept) /\ MarginOf(kept, u) \in Nat
      /\ cl.cash + cl.fee + cl.clearing + MarginOf(kept, u) = g
      /\ Changed(held, kept, u, s + d * c, MarginOf(kept, u))
      /\ c = Closable(s, o.side) /\ u \in DOMAIN kept => SignBig(kept[u].size) = d
  <2>1. c <= Closable(SizesOf(held)[u], o.side)
    BY <1>1, <1>s
  <2>2. /\ cl = IF c = 0 THEN [cash |-> 0, fee |-> 0, clearing |-> 0]
                ELSE CloseLeg(held[u], o.side, p, c, bps, wallet)
        /\ kept = IF c = 0 THEN held ELSE AfterClose(held, u, cl.pos)
    BY <1>u DEF BothLegs
  <2>3. /\ cl.cash \in Int /\ cl.fee \in Nat /\ cl.clearing \in Int
        /\ cl.cash >= -wallet
        /\ Held(kept)
        /\ MarginOf(kept, u) \in Nat /\ MarginOf(held, u) \in Nat
        /\ cl.cash + cl.fee + cl.clearing + MarginOf(kept, u) = MarginOf(held, u)
        /\ Changed(held, kept, u, SizesOf(held)[u] + Dir(o.side) * c, MarginOf(kept, u))
        /\ c = Closable(SizesOf(held)[u], o.side) /\ u \in DOMAIN kept =>
              SignBig(kept[u].size) = Dir(o.side)
    BY <2>1, <2>2, <1>0, <1>1, CloseFacts, SMTT(60)
  <2> QED BY <2>3, <1>s, <1>g, <1>d
<1>x. PICK cash \in Int, fee \in Nat, clearing \in Int, k \in Nat :
        /\ cash = cl.cash /\ fee = cl.fee /\ clearing = cl.clearing
        /\ k = MarginOf(kept, u) /\ cash >= -wallet /\ cash + fee + clearing + k = g
  BY <1>2
<1>3. ASSUME NEW left \in Nat, NEW paid \in Nat, NEW m \in Nat,
             left = op.left, paid = op.fee, left + paid + m = budget,
             Held(new), Changed(held, new, u, s + d * q, k + m)
      PROVE  LegsPay(held, new, o, q, wallet, budget,
                     op.left + cl.cash, cl.fee + op.fee, cl.clearing)
  <2>1. MarginOf(new, u) = k + m
    BY <1>3 DEF Changed
  <2>2. /\ left + cash \in Int /\ fee + paid \in Nat /\ left + cash >= -wallet
        /\ (left + cash) + (fee + paid) + clearing + (k + m - g) = budget
    BY <1>3, <1>x
  <2>3. LegsPay(held, new, o, q, wallet, budget, left + cash, fee + paid, clearing)
    BY <1>3, <2>1, <2>2, <1>u, <1>d, <1>s, <1>g DEF LegsPay
  <2> QED BY <2>3, <1>3, <1>x
<1>4. CASE c = q
  <2>1. new = kept /\ op.left = budget /\ op.fee = 0
    BY <1>4 DEF BothLegs
  <2>2. Changed(held, new, u, s + d * q, k + 0)
    BY <1>2, <1>4, <2>1, <1>x
  <2> QED BY <1>2, <1>3, <2>1, <2>2
<1>5. CASE c # q
  <2>0. q - c \in Nat \ {0}
    <3>1. c \in Nat /\ c <= q
      BY <1>1
    <3> QED BY <1>5, <3>1
  <2>q. PICK n \in Nat \ {0} : n = q - c
    BY <2>0
  <2>l. PICK l \in Nat \ {0} : l = o.leverage
    BY <1>0
  <2>1. op = OpenLeg(budget, l, p, n, bps)
    BY <1>5, <2>q, <2>l DEF BothLegs
  <2>2. /\ op.fee \in Nat /\ op.margin \in Nat /\ op.left \in Nat
        /\ op.fee + op.margin + op.left = budget
    <3>1. p \in Nat /\ n \in Nat
      OBVIOUS
    <3>2. Spent(op, budget)
      BY <2>1, <3>1, OpenLegFacts
    <3> QED BY <3>2 DEF Spent
  <2>m. PICK left \in Nat, paid \in Nat, m \in Nat :
          /\ left = op.left /\ paid = op.fee /\ m = op.margin
          /\ left + paid + m = budget
    BY <2>2
  <2>3. new = Opened(kept, o, p, n, m)
    BY <1>5, <2>q, <2>m DEF BothLegs
  <2>4. o.user \in DOMAIN kept => SignBig(kept[o.user].size) = Dir(o.side)
    BY <1>1, <1>2, <1>5, <1>u, <1>d
  <2>5. Grown(kept, new, o, n, m)
    BY <1>2, <2>3, <2>4, OpenFacts
  <2>6. SizesOf(kept)[u] = s + d * c
    BY <1>2 DEF Changed
  <2>7. s + d * c + d * n = s + d * q
    <3>1. CASE d = 1
      BY <3>1, <1>1, <2>q
    <3>2. CASE d = -1
      BY <3>2, <1>1, <2>q
    <3> QED BY <3>1, <3>2
  <2>8. Held(new) /\ Changed(held, new, u, s + d * q, k + m)
    <3>1. Held(new) /\ Changed(kept, new, u, s + d * q, k + m)
      BY <2>5, <2>6, <2>7, <1>x, <1>u, <1>d DEF Grown
    <3> QED BY <1>2, <3>1, ChangedTwice
  <2> QED BY <1>3, <2>m, <2>8
<1> QED BY <1>4, <1>5

\* A settled side: the lock slice is gone, the position has moved, and there is
\* as much money as before and no new debt.
Settled(e, r, o, q) ==
  /\ Shape(r) /\ NoDebt(r) /\ r.orders = e.orders /\ r.book = e.book
  /\ r.locked = Credit(e.locked, o.user, -(o.lock - AfterFill(o, q).lock))
  /\ Money(r) = Money(e)
  /\ SizesOf(r.positions)[o.user] = SizesOf(e.positions)[o.user] + Dir(o.side) * q
  /\ \A w \in Users : w # o.user =>
       SizesOf(r.positions)[w] = SizesOf(e.positions)[w]

LEMMA SettleFacts ==
  ASSUME NEW e, Shape(e), NoDebt(e), NEW o, Sound(o), NEW p \in Nat \ {0},
         NEW q \in Nat, q <= Rem(o), NEW bps \in Nat,
         NEW r, r = SettlePerpSide(e, o, p, q, bps)
  PROVE  Settled(e, r, o, q)
<1>0. o \in Order /\ o.user \in Users /\ o.side \in Sides
  BY DEF Sound, Order
<1>u. PICK u \in Users : u = o.user
  BY <1>0
<1>b. PICK budget \in Nat : budget = o.lock - AfterFill(o, q).lock
  BY AfterFillFacts
<1>h. PICK held : held = e.positions
  OBVIOUS
<1>w. PICK wallet \in Nat : wallet = e.available[u]
  <2>1. u \in Accounts \ {CLEARING}
    BY AccountsFinite
  <2>2. e.available[u] \in Int /\ e.available[u] >= 0
    BY <2>1 DEF Shape, NoDebt
  <2> QED BY <2>2
<1>c. PICK c : c = MinBig(q, Closable(SizesOf(held)[u], o.side))
  OBVIOUS
<1>l. PICK cl : cl = IF c = 0 THEN [cash |-> 0, fee |-> 0, clearing |-> 0]
                     ELSE CloseLeg(held[u], o.side, p, c, bps, wallet)
  OBVIOUS
<1>k. PICK kept : kept = IF c = 0 THEN held ELSE AfterClose(held, u, cl.pos)
  OBVIOUS
<1>o. PICK op : op = IF c = q THEN [fee |-> 0, margin |-> 0, left |-> budget]
                     ELSE OpenLeg(budget, o.leverage, p, q - c, bps)
  OBVIOUS
<1>n. PICK new : new = IF c = q THEN kept ELSE Opened(kept, o, p, q - c, op.margin)
  OBVIOUS
<1>1. LegsPay(held, new, o, q, wallet, budget,
              op.left + cl.cash, cl.fee + op.fee, cl.clearing)
  <2>1. Held(held)
    BY <1>h DEF Shape
  <2>2. BothLegs(held, o, p, q, bps, wallet, budget, c, cl, kept, op, new)
    BY <1>u, <1>c, <1>l, <1>k, <1>o, <1>n DEF BothLegs
  <2> QED BY <1>0, <2>1, <2>2, LegsFacts
<1>x. PICK cash \in Int, fee \in Nat, clearing \in Int :
        cash = op.left + cl.cash /\ fee = cl.fee + op.fee /\ clearing = cl.clearing
  BY <1>1 DEF LegsPay
<1>p. /\ Held(new) /\ MarginOf(new, u) \in Nat
      /\ Changed(held, new, u, SizesOf(held)[u] + Dir(o.side) * q, MarginOf(new, u))
      /\ cash >= -wallet
      /\ cash + fee + clearing + (MarginOf(new, u) - MarginOf(held, u)) = budget
  BY <1>1, <1>x, <1>u DEF LegsPay
<1>a. PICK a : a = Credit(Credit(Credit(e.available, u, cash), FEE, fee),
                          CLEARING, clearing)
  OBVIOUS
<1>y. PICK ll : ll = Credit(e.locked, u, -budget)
  OBVIOUS
<1>2. r = [e EXCEPT !.available = a, !.locked = ll, !.positions = new]
  BY <1>u, <1>b, <1>h, <1>w, <1>c, <1>l, <1>k, <1>o, <1>n, <1>x, <1>a, <1>y, ZenonT(60)
     DEF SettlePerpSide
<1>3. r = [available |-> a, locked |-> ll, positions |-> new,
           orders |-> e.orders, book |-> e.book]
  BY <1>2 DEF Shape, Fields
<1>4. /\ Fields(r) /\ r.available = a /\ r.locked = ll /\ r.positions = new
      /\ r.orders = e.orders /\ r.book = e.book
  BY <1>3, EngineEq
<1>5. /\ u \in Accounts /\ FEE \in Accounts /\ CLEARING \in Accounts
      /\ u # FEE /\ u # CLEARING /\ FEE # CLEARING
  BY AccountsFinite
<1>6. /\ a \in [Accounts -> Int] /\ a[u] = wallet + cash
      /\ a[FEE] = e.available[FEE] + fee
      /\ a[CLEARING] = e.available[CLEARING] + clearing
      /\ \A w \in Accounts : w # u /\ w # FEE /\ w # CLEARING => a[w] = e.available[w]
  BY <1>5, <1>a, <1>w DEF Shape, Credit
<1>7. /\ ll \in [Accounts -> Int] /\ ll[u] = e.locked[u] - budget
      /\ \A w \in Accounts : w # u => ll[w] = e.locked[w]
  BY <1>5, <1>y DEF Shape, Credit
<1>8. Shape(r)
  BY <1>p, <1>4, <1>6, <1>7 DEF Shape
<1>9. NoDebt(r)
  <2> SUFFICES ASSUME NEW w \in Accounts \ {CLEARING} PROVE a[w] >= 0
    BY <1>4 DEF NoDebt
  <2>1. e.available[w] \in Int /\ e.available[w] >= 0
    BY DEF Shape, NoDebt
  <2>2. CASE w = u
    BY <2>2, <1>6, <1>p
  <2>3. CASE w # u
    BY <2>1, <2>3, <1>6
  <2> QED BY <2>2, <2>3
<1>10. Money(r) = Money(e)
  <2>f. PICK f : f = Worth(e)
    OBVIOUS
  <2>g. PICK g : g = Worth(r)
    OBVIOUS
  <2>1. ASSUME NEW w \in Accounts
        PROVE  /\ e.available[w] \in Int /\ e.locked[w] \in Int
               /\ MarginOf(held, w) \in Nat /\ f[w] \in Int
               /\ f[w] = e.available[w] + e.locked[w] + MarginOf(held, w)
    BY WorthInt, <2>f, <1>h
  <2>2. ASSUME NEW w \in Accounts
        PROVE  /\ MarginOf(new, w) \in Nat /\ g[w] \in Int
               /\ g[w] = a[w] + ll[w] + MarginOf(new, w)
    <3>1. /\ MarginOf(r.positions, w) \in Nat /\ Worth(r)[w] \in Int
          /\ Worth(r)[w] = r.available[w] + r.locked[w] + MarginOf(r.positions, w)
      BY <1>8, WorthInt
    <3> QED BY <3>1, <2>g, <1>4
  <2>3. \A w \in Accounts : w # u => MarginOf(new, w) = MarginOf(held, w)
    BY <1>p DEF Changed
  <2>4. \A w \in Accounts : w # u /\ w # FEE /\ w # CLEARING => g[w] = f[w]
    BY <2>1, <2>2, <2>3, <1>6, <1>7
  <2>5. /\ g[u] - f[u] = cash - budget + (MarginOf(new, u) - MarginOf(held, u))
        /\ g[FEE] - f[FEE] = fee /\ g[CLEARING] - f[CLEARING] = clearing
    <3>1. g[u] - f[u] = cash - budget + (MarginOf(new, u) - MarginOf(held, u))
      BY <2>1, <2>2, <1>5, <1>6, <1>7, <1>w
    <3>2. g[FEE] - f[FEE] = fee
      <4>1. /\ g[FEE] = a[FEE] + ll[FEE] + MarginOf(new, FEE)
            /\ f[FEE] = e.available[FEE] + e.locked[FEE] + MarginOf(held, FEE)
            /\ e.available[FEE] \in Int /\ e.locked[FEE] \in Int
            /\ MarginOf(held, FEE) \in Nat
        BY <2>1, <2>2, <1>5
      <4>2. a[FEE] = e.available[FEE] + fee /\ ll[FEE] = e.locked[FEE]
            /\ MarginOf(new, FEE) = MarginOf(held, FEE)
        BY <2>3, <1>5, <1>6, <1>7
      <4> QED BY <4>1, <4>2
    <3>3. g[CLEARING] - f[CLEARING] = clearing
      <4>1. /\ g[CLEARING] = a[CLEARING] + ll[CLEARING] + MarginOf(new, CLEARING)
            /\ f[CLEARING] = e.available[CLEARING] + e.locked[CLEARING]
                               + MarginOf(held, CLEARING)
            /\ e.available[CLEARING] \in Int /\ e.locked[CLEARING] \in Int
            /\ MarginOf(held, CLEARING) \in Nat
        BY <2>1, <2>2, <1>5
      <4>2. a[CLEARING] = e.available[CLEARING] + clearing
            /\ ll[CLEARING] = e.locked[CLEARING]
            /\ MarginOf(new, CLEARING) = MarginOf(held, CLEARING)
        BY <2>3, <1>5, <1>6, <1>7
      <4> QED BY <4>1, <4>2
    <3> QED BY <3>1, <3>2, <3>3
  <2>6. SumFunctionOnSet(g, Accounts) = SumFunctionOnSet(f, Accounts)
          + (g[u] - f[u]) + (g[FEE] - f[FEE]) + (g[CLEARING] - f[CLEARING])
    BY <2>1, <2>2, <2>4, <1>5, AccountsFinite, SumMoves
  <2>7. (g[u] - f[u]) + (g[FEE] - f[FEE]) + (g[CLEARING] - f[CLEARING]) = 0
    <3>1. cash + fee + clearing + (MarginOf(new, u) - MarginOf(held, u)) = budget
      BY <1>p
    <3>2. MarginOf(new, u) \in Nat /\ MarginOf(held, u) \in Nat
      BY <2>1, <2>2, <1>5
    <3> QED BY <2>5, <3>1, <3>2
  <2>8. SumFunctionOnSet(f, Accounts) \in Int
    BY <2>1, AccountsFinite, SumInt
  <2>9. g[u] - f[u] \in Int /\ g[FEE] - f[FEE] \in Int
        /\ g[CLEARING] - f[CLEARING] \in Int
    BY <2>1, <2>2, <1>5
  <2>10. SumFunctionOnSet(g, Accounts) = SumFunctionOnSet(f, Accounts)
    BY <2>6, <2>7, <2>8, <2>9
  <2> QED BY <2>10, <2>f, <2>g DEF Money
<1>11. /\ SizesOf(new)[u] = SizesOf(held)[u] + Dir(o.side) * q
       /\ \A w \in Users : w # u => SizesOf(new)[w] = SizesOf(held)[w]
  BY <1>p DEF Changed
<1>12. ll = Credit(e.locked, o.user, -(o.lock - AfterFill(o, q).lock))
  BY <1>u, <1>b, <1>y
<1> QED BY <1>4, <1>8, <1>9, <1>10, <1>11, <1>12, <1>u, <1>h DEF Settled

-----------------------------------------------------------------------------
(* The inductive invariant.                                                *)

\* A sound state with n units of money in it.
Good(e, extra, n) ==
  /\ extra \in [Accounts -> Int]
  /\ Shape(e) /\ NoDebt(e) /\ Backed(e, extra) /\ Money(e) = n

\* What the order in flight has locked.
InFlight ==
  [u \in Accounts |-> IF pc = "match" /\ u = taker.user THEN taker.lock ELSE 0]

\* What submitOrder may be called with.
Asked(req) ==
  /\ req.user \in Users /\ req.side \in Sides
  /\ req.type \in {"limit", "market"} /\ req.tif \in {"GTC", "IOC", "FOK"}
  /\ req.price \in Nat /\ req.qty \in Nat
  /\ req.postOnly \in BOOLEAN /\ req.reduceOnly \in BOOLEAN
  /\ req.oco \in Groups \cup {NoGroup}

\* The order in flight is the newest.
TakerSound ==
  pc = "match" => /\ Sound(taker) /\ taker.id = nextId - 1
                  /\ taker.id \notin DOMAIN orders

\* A position the sweep has yet to visit is as the sweep's list has it, if it
\* is still there, and is listed once.
SweepSound ==
  /\ sweep \in Seq([user : Users, pos : Position])
  /\ \A i \in 1..Len(sweep) : sweep[i].user \in DOMAIN positions =>
       positions[sweep[i].user] = sweep[i].pos
  /\ \A i, j \in 1..Len(sweep) : i < j => sweep[i].user # sweep[j].user
  /\ pc # "sweep" => sweep = <<>>

Settings ==
  /\ leverages \in [Users -> 1..MaxLeverage]
  /\ nextId \in Nat \ {0} /\ mark \in Marks \cup {0} /\ adl \in BOOLEAN
  /\ pc \in {"idle", "submit", "match", "sweep"}
  /\ supply \in Int /\ phantom \in Int

PInv ==
  /\ Settings
  /\ Good(Engine, InFlight, supply + phantom)
  /\ DOMAIN orders \subseteq 1..nextId - 1
  /\ TakerSound /\ SweepSound
  /\ pc # "match" => taker = NoOrder
  /\ pc = "submit" => Asked(pending)

-----------------------------------------------------------------------------
(* trimReduceOnly.                                                         *)

\* g is the recursive function that trimReduceOnly's loop is defined by, over
\* the first n orders of the queue.
IsTrim(g, live, size, cap, queue, n) ==
  g = [i \in 0..n |-> IF i = 0 THEN [used |-> 0, cut |-> {}]
                      ELSE TrimVisit(live, size, cap, g[i - 1], queue[i])]

LEMMA TrimExists ==
  ASSUME NEW live, NEW size, NEW cap, NEW queue, NEW n \in Nat
  PROVE  \E g : IsTrim(g, live, size, cap, queue, n)
<1> DEFINE B == {m \in Nat : ~ \E g : IsTrim(g, live, size, cap, queue, m)}
<1>1. SUFFICES ASSUME B # {} PROVE FALSE
  BY <1>1
<1>2. PICK m \in B : \A k \in B : m <= k
  <2> HIDE DEF B
  <2>1. B \in SUBSET Nat
    BY DEF B
  <2> QED BY <1>1, <2>1, LeastNumber
<1>3. CASE m = 0
  <2> DEFINE g == [i \in 0..0 |-> [used |-> 0, cut |-> {}]]
  <2>1. IsTrim(g, live, size, cap, queue, 0)
    BY DEF IsTrim
  <2> QED BY <1>3, <2>1
<1>4. CASE m # 0
  <2>1. m - 1 \in Nat /\ m - 1 \notin B
    BY <1>2, <1>4
  <2>2. PICK g : IsTrim(g, live, size, cap, queue, m - 1)
    BY <2>1
  <2> DEFINE last == TrimVisit(live, size, cap, g[m - 1], queue[m])
             h == [i \in 0..m |-> IF i = m THEN last ELSE g[i]]
  <2>3. ASSUME NEW i \in 0..m
        PROVE  h[i] = IF i = 0 THEN [used |-> 0, cut |-> {}]
                      ELSE TrimVisit(live, size, cap, h[i - 1], queue[i])
    <3>1. CASE i = m
      <4>1. m \in Nat /\ m - 1 \in 0..m /\ m \in 0..m /\ m - 1 # m
        BY <2>1, <1>2
      <4>2. h[m - 1] = g[m - 1] /\ h[m] = last
        BY <4>1
      <4> QED BY <3>1, <4>2, <1>4
    <3>2. CASE i # m /\ i # 0
      <4>1. i \in 0..m - 1 /\ i - 1 \in 0..m /\ i - 1 # m
        BY <3>2, <1>2
      <4>2. g[i] = TrimVisit(live, size, cap, g[i - 1], queue[i])
        BY <2>2, <3>2, <4>1 DEF IsTrim
      <4>3. h[i] = g[i] /\ h[i - 1] = g[i - 1]
        BY <3>2, <4>1
      <4> HIDE DEF h
      <4> QED BY <3>2, <4>2, <4>3
    <3>3. CASE i # m /\ i = 0
      <4>1. i \in 0..m - 1
        BY <3>3, <1>2
      <4>2. g[0] = [used |-> 0, cut |-> {}]
        BY <2>2, <3>3, <4>1 DEF IsTrim
      <4> QED BY <3>3, <4>2
    <3> QED BY <3>1, <3>2, <3>3
  <2> HIDE DEF last
  <2>4. IsTrim(h, live, size, cap, queue, m)
    BY <2>3 DEF IsTrim
  <2> QED BY <2>4
<1> QED BY <1>3, <1>4

TrimCap(live, size, u, kept) ==
  MaxBig(0, AbsBig(size) - QtyOf(live,
    {id \in ReduceOnlyOf(live, u) \cap {kept} : Closable(size, live[id].side) > 0}))

TrimQueue(live, u, kept) == Ascending(ReduceOnlyOf(live, u) \ {kept})

LEMMA TrimIsChosen ==
  ASSUME NEW live, NEW size, NEW u, NEW kept
  PROVE  TrimmedOf(live, size, u, kept) =
           (CHOOSE g : IsTrim(g, live, size, TrimCap(live, size, u, kept),
                              TrimQueue(live, u, kept),
                              Len(TrimQueue(live, u, kept))))
             [Len(TrimQueue(live, u, kept))].cut
BY DEF TrimmedOf, IsTrim, TrimCap, TrimQueue

LEMMA TrimmedBy ==
  ASSUME NEW live, NEW size, NEW u, NEW kept,
         NEW queue, queue = TrimQueue(live, u, kept),
         NEW cap, cap = TrimCap(live, size, u, kept),
         NEW n \in Nat, n = Len(queue)
  PROVE  \E g : IsTrim(g, live, size, cap, queue, n)
              /\ TrimmedOf(live, size, u, kept) = g[n].cut
<1>1. \E g : IsTrim(g, live, size, cap, queue, n)
  BY TrimExists
<1>2. IsTrim(CHOOSE g : IsTrim(g, live, size, cap, queue, n),
             live, size, cap, queue, n)
  BY <1>1
<1> QED BY <1>2, TrimIsChosen

\* Only the trader's own reduce-only orders are trimmed, and never the maker.
LEMMA TrimmedAre ==
  ASSUME NEW live, Resting(live), NEW size, NEW u, NEW kept
  PROVE  TrimmedOf(live, size, u, kept) \subseteq ReduceOnlyOf(live, u) \ {kept}
<1>m. PICK mine : mine = ReduceOnlyOf(live, u) \ {kept}
  OBVIOUS
<1>q. PICK queue : queue = TrimQueue(live, u, kept)
  OBVIOUS
<1>c. PICK cap : cap = TrimCap(live, size, u, kept)
  OBVIOUS
<1>1. queue \in Seq(mine) /\ Len(queue) \in Nat
  <2>1. mine \in SUBSET (DOMAIN live)
    BY <1>m DEF ReduceOnlyOf
  <2>2. mine \subseteq Int /\ IsFiniteSet(mine)
    BY <2>1, FS_Subset DEF Resting
  <2>3. queue = Ascending(mine)
    BY <1>m, <1>q DEF TrimQueue
  <2> QED BY <2>2, <2>3, AscendingLists
<1>2. PICK n \in Nat : n = Len(queue)
  BY <1>1
<1>3. PICK g : IsTrim(g, live, size, cap, queue, n)
            /\ TrimmedOf(live, size, u, kept) = g[n].cut
  BY <1>2, <1>q, <1>c, TrimmedBy
<1> DEFINE B == {m \in 0..n : g[m] \notin [used : Int, cut : SUBSET mine]}
<1>4. B = {}
  <2> SUFFICES ASSUME B # {} PROVE FALSE
    OBVIOUS
  <2>1. PICK m \in B : \A k \in B : m <= k
    <3>1. B \in SUBSET Nat
      OBVIOUS
    <3> HIDE DEF B
    <3> QED BY <3>1, LeastNumber
  <2>2. m \in 0..n /\ g[m] = IF m = 0 THEN [used |-> 0, cut |-> {}]
                             ELSE TrimVisit(live, size, cap, g[m - 1], queue[m])
    BY <1>3 DEF IsTrim
  <2>3. CASE m = 0
    BY <2>1, <2>2, <2>3
  <2>4. CASE m # 0
    <3>1. m - 1 \in 0..n /\ m - 1 \notin B
      BY <2>1, <2>2, <2>4
    <3>a. PICK acc \in [used : Int, cut : SUBSET mine] : acc = g[m - 1]
      BY <3>1
    <3>3. queue[m] \in mine
      BY <1>1, <1>2, <2>2, <2>4
    <3>i. PICK id \in mine : id = queue[m]
      BY <3>3
    <3>r. PICK rem \in Int : rem = Rem(live[id])
      BY <1>m DEF ReduceOnlyOf, Resting, Sound, Order, Rem
    <3>4. g[m] = TrimVisit(live, size, cap, acc, id)
      BY <2>2, <2>4, <3>a, <3>i
    <3>5. \/ g[m] = [acc EXCEPT !.cut = @ \cup {id}]
          \/ g[m] = [acc EXCEPT !.used = @ + rem]
      BY <3>4, <3>r DEF TrimVisit
    <3>6. g[m] \in [used : Int, cut : SUBSET mine]
      BY <3>5
    <3> QED BY <2>1, <3>6
  <2> QED BY <2>3, <2>4
<1>5. g[n].cut \subseteq mine
  <2>1. n \in 0..n /\ n \notin B
    BY <1>4
  <2> QED BY <2>1
<1> QED BY <1>3, <1>5, <1>m

-----------------------------------------------------------------------------
(* A fill.                                                                 *)

\* Cancelling orders keeps the state sound and moves no money.
LEMMA CancelledGood ==
  ASSUME NEW e, NEW extra, NEW n, Good(e, extra, n),
         NEW ids \in SUBSET (DOMAIN e.orders), NEW r, r = Cancelled(e, ids)
  PROVE  /\ Good(r, extra, n) /\ r.positions = e.positions
         /\ DOMAIN r.orders = DOMAIN e.orders \ ids
         /\ \A x \in DOMAIN r.orders : r.orders[x] = e.orders[x]
         /\ \A u \in Accounts : r.available[u] >= e.available[u]
<1>1. Shape(e) /\ Backed(e, extra) /\ extra \in [Accounts -> Int]
  BY DEF Good
<1>2. /\ Shape(r) /\ Backed(r, extra)
      /\ Worth(r) = Worth(e) /\ r.positions = e.positions
      /\ \A u \in Accounts : r.available[u] >= e.available[u]
      /\ DOMAIN r.orders = DOMAIN e.orders \ ids
      /\ \A x \in DOMAIN r.orders : r.orders[x] = e.orders[x]
  BY <1>1, CancelledFacts
<1>3. Money(r) = n
  BY <1>2 DEF Money, Good
<1>4. NoDebt(r)
  <2> SUFFICES ASSUME NEW u \in Accounts \ {CLEARING} PROVE r.available[u] >= 0
    BY DEF NoDebt
  <2>1. e.available[u] \in Int /\ e.available[u] >= 0 /\ r.available[u] \in Int
    BY <1>1, <1>2 DEF Good, NoDebt, Shape
  <2> QED BY <1>2, <2>1
<1> QED BY <1>1, <1>2, <1>3, <1>4 DEF Good

\* Both sides of a fill of q settled, and the maker written back.
Fills(e, maker, o, p, q, first, second, filled) ==
  /\ first = SettlePerpSide(e, maker, p, q, MakerFeeBps)
  /\ second = SettlePerpSide(first, o, p, q, TakerFeeBps)
  /\ filled = [second EXCEPT !.orders[maker.id] = AfterFill(maker, q)]

\* A fill of q moves its two traders' positions.
Moves(old, new, maker, o, q) ==
  \A u \in Users :
    new[u] = old[u] + (IF u = maker.user THEN Dir(maker.side) * q ELSE 0)
                    + (IF u = o.user THEN Dir(o.side) * q ELSE 0)

\* The orders of a fill, with the maker written back, before anybody is trimmed.
FilledOrders(live, maker, q) == [live EXCEPT ![maker.id] = AfterFill(maker, q)]

\* What is locked for the order in flight o, once q of it has filled.
Paid(extra, o, q) ==
  [extra EXCEPT ![o.user] = @ - (o.lock - AfterFill(o, q).lock)]

LEMMA FilledGood ==
  ASSUME NEW e, NEW extra, NEW n, Good(e, extra, n),
         NEW maker, Sound(maker), maker.id \in DOMAIN e.orders,
         e.orders[maker.id] = maker,
         NEW o, Sound(o), NEW p \in Nat \ {0},
         NEW q \in Nat, q <= Rem(maker), q <= Rem(o),
         NEW first, NEW second, NEW filled,
         Fills(e, maker, o, p, q, first, second, filled)
  PROVE  /\ Good(filled, Paid(extra, o, q), n)
         /\ filled.orders = FilledOrders(e.orders, maker, q)
         /\ DOMAIN filled.orders = DOMAIN e.orders
         /\ Moves(SizesOf(e.positions), SizesOf(filled.positions), maker, o, q)
<1>a. PICK after : after = Paid(extra, o, q)
  OBVIOUS
<1>0. /\ Shape(e) /\ NoDebt(e) /\ Backed(e, extra) /\ extra \in [Accounts -> Int]
      /\ Money(e) = n
  BY DEF Good
<1>1. MakerFeeBps \in Nat /\ TakerFeeBps \in Nat
  BY PerpConstants
<1>2. Settled(e, first, maker, q)
  BY <1>0, <1>1, SettleFacts DEF Fills
<1>3. Shape(first) /\ NoDebt(first)
  BY <1>2 DEF Settled
<1>4. Settled(first, second, o, q)
  BY <1>1, <1>3, SettleFacts DEF Fills
<1>5. /\ Shape(second) /\ NoDebt(second) /\ Money(second) = n
      /\ second.orders = e.orders /\ second.book = e.book
  BY <1>0, <1>2, <1>4 DEF Settled
<1>f. PICK f : f = AfterFill(maker, q)
  OBVIOUS
<1>6. /\ Sound(f) /\ f.id = maker.id /\ f.side = maker.side
      /\ f.price = maker.price /\ f.user = maker.user
      /\ maker.lock - f.lock \in Nat /\ f.lock \in Nat /\ maker.lock \in Nat
  BY <1>f, AfterFillFacts
<1>l. PICK live : live = [e.orders EXCEPT ![maker.id] = f]
  OBVIOUS
<1>7. /\ DOMAIN live = DOMAIN e.orders /\ live[maker.id] = f
      /\ \A x \in DOMAIN e.orders \ {maker.id} : live[x] = e.orders[x]
  BY <1>l
<1>8. filled = [available |-> second.available, locked |-> second.locked,
                positions |-> second.positions, orders |-> live,
                book |-> second.book]
  <2>1. filled = [second EXCEPT !.orders = live]
    BY <1>5, <1>f, <1>l DEF Fills
  <2> QED BY <2>1, <1>5 DEF Shape, Fields
<1>9. /\ Fields(filled) /\ filled.available = second.available
      /\ filled.locked = second.locked /\ filled.positions = second.positions
      /\ filled.orders = live /\ filled.book = second.book
  <2>a. PICK a, l, h, b : /\ a = second.available /\ l = second.locked
                          /\ h = second.positions /\ b = second.book
    OBVIOUS
  <2>1. filled = [available |-> a, locked |-> l, positions |-> h, orders |-> live,
                  book |-> b]
    BY <1>8, <2>a
  <2>2. /\ Fields(filled) /\ filled.available = a /\ filled.locked = l
        /\ filled.positions = h /\ filled.orders = live /\ filled.book = b
    BY <2>1, EngineEq
  <2> QED BY <2>2, <2>a
<1>10. Resting(live)
  BY <1>0, <1>6, <1>7 DEF Resting, Shape
<1>11. Shape(filled)
  <2>1. ASSUME NEW s \in Sides PROVE Queue(s, filled.book[s], filled.orders)
    <3>1. Queue(s, e.book[s], e.orders)
      BY <1>0 DEF Shape
    <3>2. \A x \in DOMAIN e.orders :
            live[x].side = e.orders[x].side /\ live[x].price = e.orders[x].price
      BY <1>6, <1>7
    <3>3. Queue(s, e.book[s], live)
      BY <1>7, <3>1, <3>2, SameQueue
    <3> QED BY <3>3, <1>5, <1>9
  <2> QED BY <2>1, <1>5, <1>9, <1>10 DEF Shape
<1>12. NoDebt(filled)
  BY <1>5, <1>9 DEF NoDebt
<1>13. Money(filled) = n
  BY <1>5, <1>9 DEF Money, Worth
<1>m. PICK bm \in Nat, bt \in Nat :
        bm = maker.lock - f.lock /\ bt = o.lock - AfterFill(o, q).lock
  BY <1>6, AfterFillFacts
<1>u. PICK um \in Users, ut \in Users : um = maker.user /\ ut = o.user
  BY DEF Sound, Order
<1>14. second.locked = Credit(Credit(e.locked, um, -bm), ut, -bt)
  BY <1>2, <1>4, <1>f, <1>m, <1>u DEF Settled
<1>15. um \in Accounts /\ ut \in Accounts
  BY AccountsFinite
<1>16. after \in [Accounts -> Int]
       /\ \A u \in Accounts : after[u] = extra[u] - IF u = ut THEN bt ELSE 0
  <2>1. after = [extra EXCEPT ![ut] = extra[ut] - bt]
    BY <1>m, <1>u, <1>a DEF Paid
  <2>2. DOMAIN extra = Accounts /\ \A u \in Accounts : extra[u] \in Int
    BY <1>0
  <2>3. after = [u \in Accounts |-> IF u = ut THEN extra[ut] - bt ELSE extra[u]]
    BY <2>1, <2>2
  <2>4. \A u \in Accounts : after[u] = extra[u] - IF u = ut THEN bt ELSE 0
    BY <2>2, <2>3, <1>15
  <2>5. \A u \in Accounts : after[u] \in Int
    BY <2>2, <2>4
  <2> QED BY <2>3, <2>4, <2>5
<1>17. Backed(filled, after)
  <2> SUFFICES ASSUME NEW u \in Accounts
               PROVE  second.locked[u] = LocksOf(live, DOMAIN live, u) + after[u]
    BY <1>9 DEF Backed
  <2>1. LockTable(e.orders)
    BY <1>0, RestingTable DEF Shape
  <2>2. LocksOf(live, DOMAIN live, u) = LocksOf(e.orders, DOMAIN e.orders, u)
          + IF u = f.user THEN f.lock - e.orders[maker.id].lock ELSE 0
    BY <1>6, <1>7, <2>1, LocksChange
  <2>l. PICK k \in Int : k = LocksOf(e.orders, DOMAIN e.orders, u)
    <3>1. DOMAIN e.orders \in SUBSET (DOMAIN e.orders)
      OBVIOUS
    <3> QED BY <2>1, <3>1, LocksAre
  <2>3. LocksOf(live, DOMAIN live, u) = k + IF u = um THEN -bm ELSE 0
    BY <2>2, <2>l, <1>6, <1>m, <1>u
  <2>4. e.locked[u] \in Int /\ e.locked[u] = k + extra[u] /\ extra[u] \in Int
    BY <1>0, <2>l DEF Backed, Shape
  <2>5. second.locked[u] = e.locked[u] + (IF u = um THEN -bm ELSE 0)
                             + (IF u = ut THEN -bt ELSE 0)
    BY <1>0, <1>14, <1>15 DEF Credit, Shape
  <2> QED BY <2>3, <2>4, <2>5, <1>16
<1>18. filled.orders = FilledOrders(e.orders, maker, q)
  BY <1>9, <1>f, <1>l DEF FilledOrders
<1>19. Moves(SizesOf(e.positions), SizesOf(filled.positions), maker, o, q)
  <2>s. PICK a, b, c : /\ a = SizesOf(e.positions) /\ b = SizesOf(first.positions)
                       /\ c = SizesOf(second.positions)
    OBVIOUS
  <2>d. PICK dm, dt : dm = Dir(maker.side) * q /\ dt = Dir(o.side) * q
    OBVIOUS
  <2>1. b[um] = a[um] + dm /\ \A w \in Users : w # um => b[w] = a[w]
    BY <1>2, <1>u, <2>s, <2>d DEF Settled
  <2>2. c[ut] = b[ut] + dt /\ \A w \in Users : w # ut => c[w] = b[w]
    BY <1>4, <1>u, <2>s, <2>d DEF Settled
  <2>3. dm \in Int /\ dt \in Int /\ \A w \in Users : a[w] \in Int
    <3>1. \A w \in Users : a[w] \in Int
      BY <1>0, <2>s, ClosableSizes DEF Shape
    <3>0. maker.side \in Sides /\ o.side \in Sides
      BY <1>0 DEF Sound, Order
    <3>2. PICK x \in {1, -1}, y \in {1, -1} : x = Dir(maker.side) /\ y = Dir(o.side)
      BY <3>0, DirFacts
    <3>3. x * q \in Int /\ y * q \in Int
      BY <3>2
    <3> QED BY <3>1, <3>2, <3>3, <2>d
  <2>4. \A w \in Users : c[w] = a[w] + (IF w = um THEN dm ELSE 0)
                                   + (IF w = ut THEN dt ELSE 0)
    BY <2>1, <2>2, <2>3
  <2>5. SizesOf(filled.positions) = c
    BY <1>9, <2>s
  <2> QED BY <2>4, <2>5, <2>s, <2>d, <1>u DEF Moves
<1> QED BY <1>7, <1>9, <1>11, <1>12, <1>13, <1>16, <1>17, <1>18, <1>19, <1>a DEF Good

-----------------------------------------------------------------------------
(* matchOrder.                                                             *)

LEMMA EngineParts ==
  /\ Engine.available = available /\ Engine.locked = locked
  /\ Engine.positions = positions /\ Engine.orders = orders /\ Engine.book = book
BY DEF Engine

LEMMA Became ==
  ASSUME NEW e, Fields(e), Becomes(e)
  PROVE  Engine' = e
<1>1. Engine' = [available |-> available', locked |-> locked',
                 positions |-> positions', orders |-> orders', book |-> book']
  BY DEF Engine
<1>2. Engine' = [available |-> e.available, locked |-> e.locked,
                 positions |-> e.positions, orders |-> e.orders, book |-> e.book]
  BY <1>1 DEF Becomes
<1> QED BY <1>2 DEF Fields

\* The head of a side's queue is a live order.
LEMMA MakerFacts ==
  ASSUME PInv, CanMatch
  PROVE  /\ BestMaker.id \in DOMAIN orders /\ orders[BestMaker.id] = BestMaker
         /\ Sound(BestMaker) /\ BestMaker.price \in Nat \ {0}
         /\ Sound(taker) /\ taker.id = nextId - 1 /\ taker.id \notin DOMAIN orders
<1>1. Sound(taker) /\ taker.side \in Sides /\ taker.id = nextId - 1
      /\ taker.id \notin DOMAIN orders
  BY DEF PInv, TakerSound, CanMatch, Sound, Order
<1>s. PICK s \in Sides : s = Opposite(taker.side)
  BY <1>1 DEF Opposite, Sides
<1>q. PICK q : q = book[s]
  OBVIOUS
<1>2. Queue(s, q, orders) /\ Resting(orders)
  BY <1>q, EngineParts DEF PInv, Good, Shape
<1>3. q \in Seq(DOMAIN orders) /\ q # <<>>
  BY <1>2, <1>s, <1>q DEF Queue, CanMatch
<1>h. PICK h \in DOMAIN orders : h = Head(q)
  BY <1>3
<1>4. BestMaker = orders[h]
  BY <1>s, <1>q, <1>h DEF BestMaker
<1>5. Sound(orders[h]) /\ orders[h].id = h
  BY <1>2 DEF Resting
<1>6. orders[h].price \in Nat \ {0}
  BY <1>5 DEF Sound, Order
<1> QED BY <1>1, <1>4, <1>5, <1>6

LEMMA FillQtyFacts ==
  ASSUME PInv, CanMatch
  PROVE  FillQty \in Nat /\ FillQty <= Rem(BestMaker) /\ FillQty <= Rem(taker)
<1>m. PICK maker : maker = BestMaker
  OBVIOUS
<1>1. Sound(maker) /\ Sound(taker)
  BY <1>m, MakerFacts
<1>2. PICK a \in Nat, b \in Nat : a = Rem(taker) /\ b = Rem(maker)
  BY <1>1, SoundLock DEF Sound
<1>3. Held(positions) /\ maker.user \in Users /\ maker.side \in Sides
  BY <1>1, EngineParts DEF PInv, Good, Shape, Sound, Order
<1>4. PICK c \in Nat : c = Closable(SizesOf(positions)[maker.user], maker.side)
  BY <1>3, ClosableFacts
<1>5. PICK q \in Nat : q = MinBig(a, b) /\ q <= a /\ q <= b
  BY MinNat
<1>6. MinBig(q, c) \in Nat /\ MinBig(q, c) <= q
  BY MinNat
<1>7. FillQty = IF maker.reduceOnly THEN MinBig(q, c) ELSE q
  BY <1>m, <1>2, <1>4, <1>5 DEF FillQty, Offer
<1> QED BY <1>2, <1>5, <1>6, <1>7, <1>m

\* A step of the matching loop from one sound state to another.
LEMMA MatchStep ==
  ASSUME PInv, pc = "match", NEW r, Becomes(r),
         Good(r, InFlight', supply + phantom), DOMAIN r.orders \subseteq DOMAIN orders,
         Sound(taker'), taker'.id = taker.id,
         UNCHANGED <<nextId, pc, pending, sweep, settings, history>>
  PROVE  PInv'
<1>1. Fields(r)
  BY DEF Good, Shape
<1>2. Engine' = r /\ orders' = r.orders
  BY <1>1, Became DEF Becomes
<1>3. Good(Engine', InFlight', supply' + phantom')
  BY <1>2 DEF history
<1>4. Settings'
  BY DEF PInv, Settings, settings, history
<1>5. DOMAIN orders' \subseteq 1..nextId' - 1
  BY <1>2 DEF PInv
<1>6. TakerSound'
  BY <1>2 DEF PInv, TakerSound
<1>7. sweep' = <<>>
  BY DEF PInv, SweepSound
<1>8. SweepSound'
  BY <1>7 DEF SweepSound
<1> QED BY <1>3, <1>4, <1>5, <1>6, <1>8 DEF PInv

LEMMA CancelMakerInv ==
  ASSUME PInv, CancelMaker
  PROVE  PInv'
<1>m. PICK id : id = BestMaker.id
  OBVIOUS
<1>r. PICK r : r = Cancelled(Engine, {id})
  OBVIOUS
<1>1. CanMatch /\ pc = "match"
  BY DEF CancelMaker, CanMatch
<1>2. id \in DOMAIN orders
  BY <1>1, <1>m, MakerFacts
<1>3. Good(r, InFlight, supply + phantom)
      /\ DOMAIN r.orders = DOMAIN orders \ {id}
  <2>g. PICK ids, e, extra, n :
          /\ ids \in SUBSET (DOMAIN Engine.orders) /\ ids = {id}
          /\ e = Engine /\ extra = InFlight /\ n = supply + phantom
    BY <1>2, EngineParts
  <2>1. Good(e, extra, n) /\ r = Cancelled(e, ids) /\ ids \in SUBSET (DOMAIN e.orders)
    BY <1>r, <2>g DEF PInv
  <2>2. Good(r, extra, n) /\ DOMAIN r.orders = DOMAIN e.orders \ ids
    BY <2>1, CancelledGood
  <2> QED BY <2>2, <2>g, EngineParts
<1>4. InFlight' = InFlight
  BY DEF CancelMaker, InFlight
<1>5. Becomes(r) /\ taker' = taker
      /\ UNCHANGED <<nextId, pc, pending, sweep, settings, history>>
  BY <1>m, <1>r DEF CancelMaker
<1>6. Sound(taker)
  BY <1>1, MakerFacts
<1>7. Sound(taker')
  BY <1>5, <1>6 DEF Sound
<1>8. DOMAIN r.orders \subseteq DOMAIN orders /\ Good(r, InFlight', supply + phantom)
  BY <1>3, <1>4
<1>9. taker'.id = taker.id
  BY <1>5
<1> QED BY <1>1, <1>5, <1>7, <1>8, <1>9, MatchStep

\* The steps of a fill: both sides settled, then the orders that leave.
FillIs(maker, o, q, first, second, filled, gone) ==
  /\ Fills(Engine, maker, o, maker.price, q, first, second, filled)
  /\ gone = TrimmedOf(filled.orders, SizesOf(filled.positions)[maker.user],
                      maker.user, maker.id)
            \cup TrimmedOf(filled.orders, SizesOf(filled.positions)[o.user],
                           o.user, maker.id)
            \cup IF Rem(AfterFill(maker, q)) = 0 THEN {maker.id} ELSE {}
  /\ Becomes(Cancelled(filled, gone)) /\ taker' = AfterFill(o, q)

LEMMA ExecuteFillIs ==
  ASSUME PInv, ExecuteFill
  PROVE  \E first, second, filled, gone :
           FillIs(BestMaker, taker, FillQty, first, second, filled, gone)
<1>m. PICK maker : maker = BestMaker
  OBVIOUS
<1>q. PICK q : q = FillQty
  OBVIOUS
<1>1. Sound(maker) /\ q \in Nat /\ q <= Rem(maker)
  BY <1>m, <1>q, MakerFacts, FillQtyFacts DEF ExecuteFill
<1> DEFINE maker_ == AfterFill(BestMaker, FillQty)
           first_ == SettlePerpSide(Engine, BestMaker, BestMaker.price, FillQty,
                                    MakerFeeBps)
           second_ == SettlePerpSide(first_, taker, BestMaker.price, FillQty,
                                     TakerFeeBps)
           filled_ == [second_ EXCEPT !.orders[maker_.id] = maker_]
           Trimmed_(u) == TrimmedOf(filled_.orders, SizesOf(filled_.positions)[u],
                                    u, maker_.id)
           gone_ == Trimmed_(maker_.user) \cup Trimmed_(taker.user)
                      \cup IF Rem(maker_) = 0 THEN {maker_.id} ELSE {}
<1>2. Becomes(Cancelled(filled_, gone_)) /\ taker' = AfterFill(taker, FillQty)
  BY DEF ExecuteFill
<1>k. PICK f : f = maker_
  OBVIOUS
<1>a. PICK first : first = first_
  OBVIOUS
<1>b. PICK second : second = second_
  OBVIOUS
<1>f. PICK filled : filled = filled_
  OBVIOUS
<1>g. PICK gone : gone = gone_
  OBVIOUS
<1>3. gone = TrimmedOf(filled.orders, SizesOf(filled.positions)[f.user], f.user, f.id)
             \cup TrimmedOf(filled.orders, SizesOf(filled.positions)[taker.user],
                            taker.user, f.id)
             \cup IF Rem(f) = 0 THEN {f.id} ELSE {}
  BY <1>g, <1>f, <1>k
<1>4. first = SettlePerpSide(Engine, maker, maker.price, q, MakerFeeBps)
  BY <1>a, <1>m, <1>q
<1>5. second = SettlePerpSide(first, taker, maker.price, q, TakerFeeBps)
  <2>1. second_ = SettlePerpSide(first, taker, maker.price, q, TakerFeeBps)
    <3> HIDE DEF first_
    <3> QED BY <1>a, <1>m, <1>q
  <2> QED BY <2>1, <1>b
<1>6. filled = [second EXCEPT !.orders[f.id] = f]
  <2> HIDE DEF second_, maker_
  <2> QED BY <1>f, <1>b, <1>k
<1>7. f = AfterFill(maker, q)
  BY <1>k, <1>m, <1>q
<1>8. Becomes(Cancelled(filled, gone))
  BY <1>2, <1>f, <1>g
<1> HIDE DEF maker_, first_, second_, filled_, Trimmed_, gone_
<1>9. f.id = maker.id /\ f.user = maker.user
  BY <1>1, <1>7, AfterFillFacts
<1>10. Fills(Engine, maker, taker, maker.price, q, first, second, filled)
  BY <1>4, <1>5, <1>6, <1>7, <1>9 DEF Fills
<1>11. FillIs(maker, taker, q, first, second, filled, gone)
  BY <1>2, <1>3, <1>7, <1>8, <1>9, <1>10, <1>q DEF FillIs
<1> QED BY <1>11, <1>m, <1>q

LEMMA ExecuteFillInv ==
  ASSUME PInv, ExecuteFill
  PROVE  PInv'
<1>e. PICK e, extra, n : e = Engine /\ extra = InFlight /\ n = supply + phantom
  OBVIOUS
<1>m. PICK maker : maker = BestMaker
  OBVIOUS
<1>o. PICK o : o = taker
  OBVIOUS
<1>p. PICK p : p = maker.price
  OBVIOUS
<1>q. PICK q : q = FillQty
  OBVIOUS
<1>1. CanMatch /\ pc = "match"
  BY DEF ExecuteFill, CanMatch
<1>2. /\ Good(e, extra, n) /\ Sound(maker) /\ maker.id \in DOMAIN e.orders
      /\ e.orders[maker.id] = maker /\ Sound(o) /\ p \in Nat \ {0}
      /\ q \in Nat /\ q <= Rem(maker) /\ q <= Rem(o)
  <2>1. Good(e, extra, n)
    BY <1>e DEF PInv
  <2> QED BY <1>1, <1>e, <1>m, <1>o, <1>p, <1>q, <2>1, MakerFacts, FillQtyFacts,
             EngineParts
<1>7. UNCHANGED <<nextId, pc, pending, sweep, settings, history>>
  BY DEF ExecuteFill
<1>f. PICK first, second, filled, gone :
        FillIs(maker, o, q, first, second, filled, gone)
  BY <1>m, <1>o, <1>q, ExecuteFillIs
<1>c. Fills(e, maker, o, p, q, first, second, filled)
  BY <1>e, <1>p, <1>f DEF FillIs
<1>h. gone = TrimmedOf(filled.orders, SizesOf(filled.positions)[maker.user],
                       maker.user, maker.id)
             \cup TrimmedOf(filled.orders, SizesOf(filled.positions)[o.user],
                            o.user, maker.id)
             \cup IF Rem(AfterFill(maker, q)) = 0 THEN {maker.id} ELSE {}
  BY <1>f DEF FillIs
<1>6. /\ Sound(AfterFill(o, q)) /\ AfterFill(o, q).id = o.id
      /\ AfterFill(o, q).user = o.user
  BY <1>2, AfterFillFacts
<1>x. PICK after : after = Paid(extra, o, q)
  OBVIOUS
<1>3. Good(filled, after, n) /\ DOMAIN filled.orders = DOMAIN e.orders
  BY <1>2, <1>x, <1>c, FilledGood
<1>4. gone \in SUBSET (DOMAIN filled.orders)
  <2>1. Resting(filled.orders)
    BY <1>3 DEF Good, Shape
  <2>2. \A size, u : TrimmedOf(filled.orders, size, u, maker.id)
                       \subseteq DOMAIN filled.orders
    BY <2>1, TrimmedAre DEF ReduceOnlyOf
  <2> QED BY <1>2, <1>3, <1>h, <2>2
<1>r. PICK r : r = Cancelled(filled, gone)
  OBVIOUS
<1>5. Good(r, after, n) /\ DOMAIN r.orders \subseteq DOMAIN e.orders
  BY <1>3, <1>4, <1>r, CancelledGood
<1>y. Becomes(r) /\ taker' = AfterFill(o, q)
  BY <1>f, <1>r DEF FillIs
<1>8. after = InFlight'
  <2>u. PICK u \in Users : u = o.user
    BY <1>2 DEF Sound, Order
  <2>1. extra = [w \in Accounts |-> IF w = u THEN o.lock ELSE 0]
    BY <1>1, <1>e, <1>o, <2>u DEF InFlight
  <2>2. o.lock \in Int /\ AfterFill(o, q).lock \in Int
    BY <1>2, AfterFillFacts
  <2>3. InFlight' = [w \in Accounts |-> IF w = u THEN AfterFill(o, q).lock ELSE 0]
    BY <1>1, <1>6, <1>7, <1>y, <2>u DEF InFlight
  <2>4. u \in Accounts
    BY AccountsFinite
  <2>l. PICK a \in Int, b \in Int : a = o.lock /\ b = AfterFill(o, q).lock
    BY <2>2
  <2>5. after = [extra EXCEPT ![u] = @ - (a - b)]
    BY <1>x, <2>u, <2>l DEF Paid
  <2>6. extra = [w \in Accounts |-> IF w = u THEN a ELSE 0]
    BY <2>1, <2>l
  <2>7. after = [w \in Accounts |-> IF w = u THEN b ELSE 0]
    <3>1. DOMAIN extra = Accounts /\ extra[u] = a
      BY <2>4, <2>6
    <3>2. a - (a - b) = b
      OBVIOUS
    <3>3. after = [w \in Accounts |-> IF w = u THEN a - (a - b) ELSE extra[w]]
      BY <2>5, <3>1
    <3> QED BY <2>6, <3>2, <3>3
  <2> QED BY <2>3, <2>7, <2>l
<1>9. DOMAIN r.orders \subseteq DOMAIN orders
      /\ Good(r, InFlight', supply + phantom)
  BY <1>5, <1>8, <1>e, EngineParts
<1>10. Sound(taker') /\ taker'.id = taker.id
  BY <1>6, <1>y, <1>o
<1> QED BY <1>1, <1>7, <1>9, <1>10, <1>y, MatchStep

-----------------------------------------------------------------------------
(* The rest of submitOrder, and the operations on orders and wallets.      *)

LEMMA NothingInFlight ==
  ASSUME pc # "match"
  PROVE  InFlight = [u \in Accounts |-> 0]
BY DEF InFlight

LEMMA EmptyLock ==
  ASSUME NEW o, Sound(o), Rem(o) = 0
  PROVE  o.lock = 0
<1>0. \A d \in Nat \ {0} : 0 \div d = 0
  BY SMT
<1>1. CASE o.reduceOnly
  BY <1>1 DEF Sound, LockFor
<1>2. CASE ~o.reduceOnly
  <2>1. PICK P \in Nat, l \in Nat \ {0} : P = o.price /\ l = o.leverage
    BY PerpConstants DEF Sound, Order
  <2>2. o.lock = PerpLock(P, 0, l, TakerFeeBps)
    BY <1>2, <2>1 DEF Sound, LockFor
  <2>3. MulUnits(P, 0) = 0
    <3>1. P * 0 = 0
      OBVIOUS
    <3> QED BY <1>0, <3>1, PerpConstants DEF MulUnits, DivFloor
  <2>4. DivCeil(0, l) = 0
    BY <1>0 DEF DivCeil
  <2>5. FeeOn(0, TakerFeeBps) = 0
    <3>1. PICK t \in Nat, d \in Nat \ {0} : t = TakerFeeBps /\ d = BPS
      BY PerpConstants, FixedPointAssumption
    <3>2. 0 * t = 0
      BY SMT
    <3>3. FeeOn(0, TakerFeeBps) = DivCeil(0, d)
      BY <3>1, <3>2 DEF FeeOn
    <3>4. DivCeil(0, d) = 0
      BY <1>0 DEF DivCeil
    <3> QED BY <3>3, <3>4
  <2> QED BY <2>2, <2>3, <2>4, <2>5 DEF PerpLock
<1> QED BY <1>1, <1>2

\* k units of u's wallet are locked, or unlocked when k is negative.
Moved(e, u, k) ==
  [available |-> Credit(e.available, u, -k), locked |-> Credit(e.locked, u, k),
   positions |-> e.positions, orders |-> e.orders, book |-> e.book]

LEMMA MovedGood ==
  ASSUME NEW e, NEW extra, NEW n, Good(e, extra, n), NEW u \in Users, NEW k \in Int,
         k <= e.available[u]
  PROVE  Good(Moved(e, u, k), Credit(extra, u, k), n)
<1>r. PICK r : r = Moved(e, u, k)
  OBVIOUS
<1>x. PICK x : x = Credit(extra, u, k)
  OBVIOUS
<1>a. PICK a, l, h, o, b : /\ a = Credit(e.available, u, -k)
                           /\ l = Credit(e.locked, u, k) /\ h = e.positions
                           /\ o = e.orders /\ b = e.book
  OBVIOUS
<1>0. /\ Shape(e) /\ NoDebt(e) /\ Backed(e, extra) /\ extra \in [Accounts -> Int]
      /\ Money(e) = n /\ u \in Accounts /\ u # CLEARING
  BY AccountsFinite DEF Good
<1>1. /\ Fields(r) /\ r.available = a /\ r.locked = l /\ r.positions = h
      /\ r.orders = o /\ r.book = b
  <2>1. r = [available |-> a, locked |-> l, positions |-> h, orders |-> o, book |-> b]
    BY <1>r, <1>a DEF Moved
  <2> QED BY <2>1, EngineEq
<1>2. /\ a \in [Accounts -> Int] /\ l \in [Accounts -> Int] /\ x \in [Accounts -> Int]
      /\ \A w \in Accounts : /\ a[w] = e.available[w] - (IF w = u THEN k ELSE 0)
                             /\ l[w] = e.locked[w] + (IF w = u THEN k ELSE 0)
                             /\ x[w] = extra[w] + (IF w = u THEN k ELSE 0)
                             /\ e.available[w] \in Int /\ e.locked[w] \in Int
                             /\ extra[w] \in Int
  BY <1>0, <1>a, <1>x DEF Shape, Credit
<1>3. Shape(r)
  BY <1>0, <1>1, <1>2, <1>a DEF Shape
<1>4. NoDebt(r)
  BY <1>0, <1>1, <1>2 DEF NoDebt
<1>5. Backed(r, x)
  <2> SUFFICES ASSUME NEW w \in Accounts
               PROVE  l[w] = LocksOf(e.orders, DOMAIN e.orders, w) + x[w]
    BY <1>1, <1>a DEF Backed
  <2>1. PICK c \in Int : c = LocksOf(e.orders, DOMAIN e.orders, w)
    <3>1. LockTable(e.orders)
      BY <1>0, RestingTable DEF Shape
    <3>2. DOMAIN e.orders \in SUBSET (DOMAIN e.orders)
      OBVIOUS
    <3> QED BY <3>1, <3>2, LocksAre
  <2>2. e.locked[w] = c + extra[w]
    BY <1>0, <2>1 DEF Backed
  <2> QED BY <1>2, <2>1, <2>2
<1>6. Money(r) = n
  <2>1. \A w \in Accounts : Worth(r)[w] = Worth(e)[w]
    <3> TAKE w \in Accounts
    <3>1. /\ Worth(r)[w] = r.available[w] + r.locked[w] + MarginOf(r.positions, w)
          /\ MarginOf(r.positions, w) \in Nat
      BY <1>3, WorthInt
    <3>2. Worth(e)[w] = e.available[w] + e.locked[w] + MarginOf(e.positions, w)
      BY <1>0, WorthInt
    <3>3. MarginOf(r.positions, w) = MarginOf(e.positions, w)
      BY <1>1, <1>a
    <3> QED BY <3>1, <3>2, <3>3, <1>1, <1>2
  <2>2. Worth(r) = Worth(e)
    BY <2>1 DEF Worth
  <2> QED BY <2>2, <1>0 DEF Money
<1> QED BY <1>2, <1>3, <1>4, <1>5, <1>6, <1>r, <1>x DEF Good

LEMMA IncomingAsked ==
  ASSUME PInv, NEW req \in Incoming
  PROVE  Asked(req) /\ (pc = "idle" \/ pc = "submit")
BY PerpAssumption DEF PInv, Incoming, Asked

LEMMA OrderOfFacts ==
  ASSUME PInv, NEW req, Asked(req), ValidSize(req.price, req.qty)
  PROVE  /\ Sound(OrderOf(req)) /\ OrderOf(req).user = req.user
         /\ OrderOf(req).id = nextId /\ OrderOf(req).lock \in Nat
<1>i. PICK id \in Nat \ {0} : id = nextId
  BY DEF PInv, Settings
<1>l. PICK l \in 1..MaxLeverage : l = leverages[req.user]
  BY DEF PInv, Settings, Asked
<1>1. req.price > 0 /\ req.qty \in Nat /\ req.price \in Nat
  BY DEF ValidSize, Asked
<1>o. PICK o : o = [id |-> id, user |-> req.user, side |-> req.side,
                    type |-> req.type, price |-> req.price, qty |-> req.qty,
                    filled |-> 0, tif |-> req.tif, postOnly |-> req.postOnly,
                    reduceOnly |-> req.reduceOnly, oco |-> req.oco,
                    leverage |-> l, lock |-> 0]
  OBVIOUS
<1>2. o \in Order /\ o.filled <= o.qty
  BY <1>o, <1>1 DEF Order, Asked
<1>k. PICK k \in Nat : k = LockFor(o)
  BY <1>2, SoundLock
<1>r. PICK r : r = OrderOf(req)
  OBVIOUS
<1>3. r = [o EXCEPT !.lock = k]
  BY <1>i, <1>l, <1>o, <1>k, <1>r DEF OrderOf
<1>4. r = [id |-> id, user |-> req.user, side |-> req.side,
           type |-> req.type, price |-> req.price, qty |-> req.qty,
           filled |-> 0, tif |-> req.tif, postOnly |-> req.postOnly,
           reduceOnly |-> req.reduceOnly, oco |-> req.oco,
           leverage |-> l, lock |-> k]
  BY <1>3, <1>o
<1>5. r \in Order /\ r.filled <= r.qty /\ r.price # 0 /\ r.lock = k
      /\ r.id = id /\ r.user = req.user
  BY <1>4, <1>1 DEF Order, Asked
<1>6. LockFor(r) = LockFor(o)
  BY <1>4, <1>o DEF LockFor, Rem
<1> QED BY <1>5, <1>6, <1>i, <1>k, <1>r DEF Sound

LEMMA AcceptInv ==
  ASSUME PInv, NEW req \in Incoming, Accept(req)
  PROVE  PInv'
<1>o. PICK o : o = OrderOf(req)
  OBVIOUS
<1>e. PICK e, extra, n : e = Engine /\ extra = InFlight /\ n = supply + phantom
  OBVIOUS
<1>1. Asked(req) /\ pc # "match" /\ pc # "sweep"
  BY IncomingAsked
<1>2. /\ ValidSize(req.price, req.qty) /\ available[req.user] >= o.lock
      /\ nextId' = nextId + 1 /\ taker' = o /\ pc' = "match" /\ pending' = NoOrder
      /\ available' = Credit(available, o.user, -o.lock)
      /\ locked' = Credit(locked, o.user, o.lock)
      /\ UNCHANGED <<positions, orders, book, sweep, settings, history>>
  BY <1>o DEF Accept, Acceptable
<1>3. Sound(o) /\ o.user = req.user /\ o.id = nextId /\ o.lock \in Nat
  BY <1>1, <1>2, <1>o, OrderOfFacts
<1>u. PICK u \in Users, k \in Nat : u = o.user /\ k = o.lock
  BY <1>1, <1>3 DEF Asked
<1>4. Good(Moved(e, u, k), Credit(extra, u, k), n)
  <2>1. Good(e, extra, n)
    BY <1>e DEF PInv
  <2>2. k \in Int /\ k <= e.available[u]
    <3>1. available[u] \in Int
      BY EngineParts, AccountsFinite DEF PInv, Good, Shape
    <3>2. available[u] >= k
      BY <1>2, <1>3, <1>u
    <3>3. e.available[u] = available[u]
      BY <1>e, EngineParts
    <3> QED BY <3>1, <3>2, <3>3
  <2> QED BY <2>1, <2>2, MovedGood
<1>5. Engine' = Moved(e, u, k)
  BY <1>2, <1>u, <1>e, EngineParts DEF Engine, Moved
<1>6. InFlight' = Credit(extra, u, k)
  <2>1. extra = [w \in Accounts |-> 0]
    BY <1>1, <1>e, NothingInFlight
  <2>2. InFlight' = [w \in Accounts |-> IF w = u THEN k ELSE 0]
    BY <1>2, <1>u DEF InFlight
  <2> QED BY <2>1, <2>2 DEF Credit
<1>7. Good(Engine', InFlight', supply' + phantom')
  BY <1>2, <1>4, <1>5, <1>6, <1>e DEF history
<1>8. Settings'
  BY <1>2 DEF PInv, Settings, settings, history
<1>9. DOMAIN orders' \subseteq 1..nextId' - 1
  BY <1>2 DEF PInv, Settings
<1>10. TakerSound'
  <2>1. o.id \notin DOMAIN orders
    BY <1>3 DEF PInv, Settings
  <2>2. nextId' - 1 = nextId
    BY <1>2 DEF PInv, Settings
  <2>3. taker'.id = nextId' - 1 /\ taker'.id \notin DOMAIN orders'
    BY <1>2, <1>3, <2>1, <2>2
  <2>4. Sound(taker')
    BY <1>2, <1>3
  <2> QED BY <2>3, <2>4 DEF TakerSound
<1>11. SweepSound'
  <2>1. sweep' = <<>>
    BY <1>1, <1>2 DEF PInv, SweepSound
  <2> QED BY <2>1 DEF SweepSound
<1> QED BY <1>2, <1>7, <1>8, <1>9, <1>10, <1>11 DEF PInv

\* Every step that ends in "idle" or "submit" without touching the sweep.
LEMMA QuietStep ==
  ASSUME PInv, pc # "sweep" \/ sweep = <<>>, pc' \in {"idle", "submit"},
         taker' = NoOrder, sweep' = sweep, pc' = "submit" => Asked(pending'),
         Good(Engine', InFlight', supply' + phantom'),
         Settings', DOMAIN orders' \subseteq 1..nextId' - 1
  PROVE  PInv'
<1>1. sweep' = <<>>
  BY DEF PInv, SweepSound
<1>2. SweepSound' /\ TakerSound'
  BY <1>1 DEF SweepSound, TakerSound
<1>3. (pc = "submit" => Asked(pending))'
  BY DEF Asked
<1> QED BY <1>2, <1>3 DEF PInv

LEMMA RejectInv ==
  ASSUME PInv, NEW req \in Incoming, Reject(req)
  PROVE  PInv'
<1>1. Asked(req) /\ pc # "match" /\ pc # "sweep"
  BY IncomingAsked
<1>2. /\ pc' = "idle" /\ pending' = NoOrder /\ taker' = taker /\ sweep' = sweep
      /\ UNCHANGED <<ledger, positions, orders, book, nextId, settings, history>>
  BY DEF Reject
<1>3. Engine' = Engine
  BY <1>2 DEF Engine, ledger
<1>4. InFlight' = InFlight
  BY <1>1, <1>2 DEF InFlight
<1>5. Good(Engine', InFlight', supply' + phantom')
  BY <1>2, <1>3, <1>4 DEF PInv, history
<1>6. Settings' /\ DOMAIN orders' \subseteq 1..nextId' - 1 /\ taker' = NoOrder
  BY <1>1, <1>2 DEF PInv, Settings, settings, history
<1> QED BY <1>1, <1>2, <1>5, <1>6, QuietStep

\* The place an order is put at exists.
LEMMA PlaceExists ==
  ASSUME NEW side \in Sides, NEW live, Priced(live), NEW ids, Queue(side, ids, live),
         NEW o, o.price \in Nat
  PROVE  \E k \in 0..Len(ids) : InsertPosition(side, o, live, ids, k)
<1>1. ids \in Seq(DOMAIN live) /\ Len(ids) \in Nat /\ DOMAIN ids = 1..Len(ids)
  BY DEF Queue
<1>p. PICK p : p = [i \in 1..Len(ids) |-> live[ids[i]].price]
  OBVIOUS
<1>2. \A i \in 1..Len(ids) : p[i] = live[ids[i]].price /\ p[i] \in Nat
  BY <1>1, <1>p DEF Priced
<1>3. ASSUME NEW i \in 1..Len(ids), NEW j \in 1..Len(ids), i < j
      PROVE  Better(side, p[i], p[j]) \/ p[i] = p[j]
  <2>1. \A a, b \in DOMAIN ids : a < b =>
          \/ Better(side, live[ids[a]].price, live[ids[b]].price)
          \/ live[ids[a]].price = live[ids[b]].price /\ ids[a] < ids[b]
    BY DEF Queue, PriceTime
  <2>2. \/ Better(side, live[ids[i]].price, live[ids[j]].price)
        \/ live[ids[i]].price = live[ids[j]].price
    BY <2>1, <1>1, <1>3
  <2>3. p[i] = live[ids[i]].price /\ p[j] = live[ids[j]].price
    BY <1>2
  <2> QED BY <2>2, <2>3
<1> DEFINE B == {j \in 1..Len(ids) : Better(side, o.price, p[j])}
<1>4. CASE B = {}
  <2>1. \A i \in 1..Len(ids) : ~Better(side, o.price, live[ids[i]].price)
    BY <1>2, <1>4
  <2>2. Len(ids) + 1..Len(ids) = {}
    BY <1>1
  <2>3. InsertPosition(side, o, live, ids, Len(ids))
    BY <2>1, <2>2 DEF InsertPosition
  <2> QED BY <1>1, <2>3
<1>5. CASE B # {}
  <2>1. PICK j \in B : \A m \in B : j <= m
    <3>1. B \in SUBSET Nat
      OBVIOUS
    <3> HIDE DEF B
    <3> QED BY <1>5, <3>1, LeastNumber
  <2>2. j \in 1..Len(ids) /\ Better(side, o.price, p[j])
    OBVIOUS
  <2>k. PICK k \in 0..Len(ids) : k = j - 1
    BY <2>2, <1>1
  <2>3. ASSUME NEW i \in 1..k PROVE ~Better(side, o.price, p[i])
    <3>1. i \in 1..Len(ids) /\ i \notin B
      BY <1>1, <2>1, <2>2, <2>k
    <3> QED BY <3>1
  <2>4. ASSUME NEW i \in k + 1..Len(ids) PROVE Better(side, o.price, p[i])
    <3>1. i \in 1..Len(ids) /\ (i = j \/ j < i)
      BY <1>1, <2>2, <2>k
    <3>2. CASE i = j
      BY <2>2, <3>2
    <3>3. CASE j < i
      <4>1. Better(side, p[j], p[i]) \/ p[j] = p[i]
        BY <1>3, <2>2, <3>1, <3>3
      <4>2. p[j] \in Nat /\ p[i] \in Nat
        BY <1>2, <2>2, <3>1
      <4> QED BY <2>2, <4>1, <4>2 DEF Better
    <3> QED BY <3>1, <3>2, <3>3
  <2>5. /\ \A i \in 1..k : i \in 1..Len(ids)
        /\ \A i \in k + 1..Len(ids) : i \in 1..Len(ids)
    BY <1>1, <2>k
  <2>6. InsertPosition(side, o, live, ids, k)
    <3> HIDE DEF B
    <3> QED BY <1>2, <2>3, <2>4, <2>5 DEF InsertPosition
  <2> QED BY <2>6
<1> QED BY <1>4, <1>5

\* An order that is put back among others goes to its place.
LEMMA ReinsertPlace ==
  ASSUME NEW side \in Sides, NEW live, Priced(live), NEW ids, Queue(side, ids, live),
         NEW o, o.price \in Nat, o.id \notin DOMAIN live
  PROVE  \E k \in 0..Len(ids) :
           /\ InsertPosition(side, o, live, ids, k)
           /\ Reinsert(side, WithOrder(live, o), ids, o.id) = InsertAt(ids, k + 1, o.id)
<1>n. PICK new : new = WithOrder(live, o)
  OBVIOUS
<1>1. new[o.id] = o /\ \A x \in DOMAIN live : new[x] = live[x]
  BY <1>n DEF WithOrder
<1>2. \A i \in 1..Len(ids) : ids[i] \in DOMAIN live /\ Len(ids) \in Nat
  BY DEF Queue
<1>3. \A k \in 0..Len(ids) : InsertPosition(side, new[o.id], new, ids, k)
                               <=> InsertPosition(side, o, live, ids, k)
  <2> TAKE k \in 0..Len(ids)
  <2>1. /\ \A i \in 1..k : i \in 1..Len(ids)
        /\ \A i \in k + 1..Len(ids) : i \in 1..Len(ids)
    <3>1. Len(ids) \in Nat
      BY DEF Queue
    <3> QED BY <3>1
  <2>2. \A i \in 1..Len(ids) : new[ids[i]] = live[ids[i]]
    BY <1>1, <1>2
  <2> QED BY <1>1, <2>1, <2>2 DEF InsertPosition
<1> DEFINE k == CHOOSE j \in 0..Len(ids) : InsertPosition(side, new[o.id], new, ids, j)
<1>4. k \in 0..Len(ids) /\ InsertPosition(side, new[o.id], new, ids, k)
  <2>1. \E j \in 0..Len(ids) : InsertPosition(side, new[o.id], new, ids, j)
    BY <1>3, PlaceExists
  <2> QED BY <2>1
<1>5. Reinsert(side, new, ids, o.id) = InsertAt(ids, k + 1, o.id)
  BY DEF Reinsert
<1> HIDE DEF k
<1> QED BY <1>3, <1>4, <1>5, <1>n

\* The order in flight joins the book.
Rested(e, o) ==
  [available |-> e.available, locked |-> e.locked, positions |-> e.positions,
   orders |-> WithOrder(e.orders, o),
   book |-> [e.book EXCEPT ![o.side] =
               Reinsert(o.side, WithOrder(e.orders, o), @, o.id)]]

LEMMA RestedGood ==
  ASSUME NEW e, NEW extra, NEW n, Good(e, extra, n), NEW o, Sound(o),
         \A x \in DOMAIN e.orders : x < o.id,
         extra = [u \in Accounts |-> IF u = o.user THEN o.lock ELSE 0]
  PROVE  Good(Rested(e, o), [u \in Accounts |-> 0], n)
<1>r. PICK r : r = Rested(e, o)
  OBVIOUS
<1>z. PICK z : z = [u \in Accounts |-> 0]
  OBVIOUS
<1>l. PICK live : live = e.orders
  OBVIOUS
<1>n. PICK new : new = WithOrder(live, o)
  OBVIOUS
<1>a. PICK a, l, h : a = e.available /\ l = e.locked /\ h = e.positions
  OBVIOUS
<1>b. PICK b : b = [e.book EXCEPT ![o.side] = Reinsert(o.side, new, @, o.id)]
  OBVIOUS
<1>0. /\ Shape(e) /\ NoDebt(e) /\ Backed(e, extra) /\ Money(e) = n
      /\ Resting(live) /\ e.book = [s \in Sides |-> e.book[s]]
      /\ \A s \in Sides : Queue(s, e.book[s], live)
  BY <1>l DEF Good, Shape
<1>1. /\ Fields(r) /\ r.available = a /\ r.locked = l /\ r.positions = h
      /\ r.orders = new /\ r.book = b
  <2>1. r = [available |-> a, locked |-> l, positions |-> h, orders |-> new,
             book |-> b]
    BY <1>r, <1>a, <1>n, <1>b, <1>l DEF Rested
  <2> QED BY <2>1, EngineEq
<1>2. /\ o.id \in Nat \ {0} /\ o.side \in Sides /\ o.price \in Nat /\ o.user \in Users
      /\ o.lock \in Nat
  BY SoundLock DEF Sound, Order
<1>3. o.id \notin DOMAIN live
  BY <1>2, <1>l
<1>4. /\ DOMAIN new = DOMAIN live \cup {o.id} /\ new[o.id] = o
      /\ \A x \in DOMAIN live : new[x] = live[x]
  BY <1>3, <1>n DEF WithOrder
<1>5. Resting(new)
  <2>1. IsFiniteSet(DOMAIN new)
    BY <1>0, <1>4, FS_AddElement DEF Resting
  <2> QED BY <1>0, <1>2, <1>4, <2>1 DEF Resting
<1>6. Priced(live)
  BY <1>0 DEF Priced, Resting, Sound, Order
<1>7. ASSUME NEW s \in Sides PROVE Queue(s, b[s], new)
  <2>i. PICK ids : ids = e.book[s]
    OBVIOUS
  <2>0. Queue(s, ids, live)
    BY <1>0, <2>i
  <2>1. CASE s = o.side
    <3>1. PICK k \in 0..Len(ids) :
            /\ InsertPosition(s, o, live, ids, k)
            /\ Reinsert(s, new, ids, o.id) = InsertAt(ids, k + 1, o.id)
      BY <1>2, <1>3, <1>6, <1>n, <2>0, ReinsertPlace
    <3>2. Queue(s, InsertAt(ids, k + 1, o.id), new)
      <4>1. o.side = s /\ o.id \in Nat /\ \A x \in DOMAIN live : x < o.id
        BY <1>2, <1>l, <2>1
      <4> QED BY <1>2, <1>6, <1>n, <2>0, <3>1, <4>1, InsertIntoQueue
    <3>3. b[s] = Reinsert(s, new, ids, o.id)
      BY <1>0, <1>b, <2>1, <2>i
    <3> QED BY <3>1, <3>2, <3>3
  <2>2. CASE s # o.side
    <3>1. b[s] = ids
      BY <1>0, <1>b, <2>2, <2>i
    <3>2. Queue(s, ids, new)
      <4>1. /\ \A x \in DOMAIN live : live[x].side = s => x \in DOMAIN new
            /\ \A x \in DOMAIN new : new[x].side = s =>
                 x \in DOMAIN live /\ new[x] = live[x]
            /\ \A x \in DOMAIN live : x \in DOMAIN new => new[x] = live[x]
        BY <1>4, <2>2
      <4> QED BY <2>0, <4>1, OtherQueue
    <3> QED BY <3>1, <3>2
  <2> QED BY <2>1, <2>2
<1>8. b = [s \in Sides |-> b[s]]
  <2>1. DOMAIN e.book = Sides
    BY <1>0
  <2> QED BY <1>b, <2>1
<1>9. Shape(r)
  BY <1>0, <1>1, <1>5, <1>7, <1>8, <1>a DEF Shape
<1>10. NoDebt(r)
  BY <1>0, <1>1, <1>a DEF NoDebt
<1>11. Money(r) = n
  BY <1>0, <1>1, <1>a DEF Money, Worth
<1>12. Backed(r, z)
  <2> SUFFICES ASSUME NEW u \in Accounts
               PROVE  l[u] = LocksOf(new, DOMAIN new, u) + z[u]
    BY <1>1 DEF Backed
  <2>1. LockTable(live)
    BY <1>0, RestingTable
  <2>c. PICK c \in Int : c = LocksOf(live, DOMAIN live, u)
    <3>2. DOMAIN live \in SUBSET (DOMAIN live)
      OBVIOUS
    <3> QED BY <2>1, <3>2, LocksAre
  <2>2. LocksOf(new, DOMAIN new, u) = c + IF u = o.user THEN o.lock ELSE 0
    <3>1. o.lock \in Int
      BY <1>2
    <3>2. LocksOf(WithOrder(live, o), DOMAIN WithOrder(live, o), u)
            = LocksOf(live, DOMAIN live, u) + IF u = o.user THEN o.lock ELSE 0
      BY <1>3, <2>1, <3>1, LocksJoin
    <3> QED BY <3>2, <2>c, <1>n
  <2>3. l[u] = c + IF u = o.user THEN o.lock ELSE 0
    BY <1>0, <1>a, <1>l, <2>c DEF Backed
  <2>4. z[u] = 0
    BY <1>z
  <2> QED BY <1>2, <2>2, <2>3, <2>4
<1>13. z \in [Accounts -> Int]
  BY <1>z
<1> QED BY <1>9, <1>10, <1>11, <1>12, <1>13, <1>r, <1>z DEF Good

LEMMA FinishSubmitInv ==
  ASSUME PInv, FinishSubmit
  PROVE  PInv'
<1>o. PICK o : o = taker
  OBVIOUS
<1>e. PICK e, extra, n : e = Engine /\ extra = InFlight /\ n = supply + phantom
  OBVIOUS
<1>z. PICK z : z = [u \in Accounts |-> 0]
  OBVIOUS
<1>1. /\ pc = "match" /\ pc' = "idle" /\ taker' = NoOrder
      /\ UNCHANGED <<positions, nextId, pending, sweep, settings, history>>
      /\ FinishFilled \/ FinishCancelled \/ FinishResting
  BY DEF FinishSubmit
<1>2. /\ Sound(o) /\ o.id = nextId - 1 /\ o.id \notin DOMAIN orders
      /\ Good(e, extra, n) /\ DOMAIN orders \subseteq 1..nextId - 1
      /\ nextId \in Nat \ {0}
  BY <1>1, <1>o, <1>e DEF PInv, TakerSound, Settings
<1>3. o.user \in Users /\ o.lock \in Nat /\ Rem(o) \in Nat /\ o.id \in Nat \ {0}
  BY <1>2, SoundLock DEF Sound, Order
<1>4. extra = [u \in Accounts |-> IF u = o.user THEN o.lock ELSE 0]
  BY <1>1, <1>e, <1>o DEF InFlight
<1>5. InFlight' = z
  BY <1>1, <1>z DEF InFlight
<1>6. Settings' /\ supply' + phantom' = n /\ nextId' = nextId
  BY <1>1, <1>e DEF PInv, Settings, settings, history
<1>7. Good(Engine', z, n) /\ DOMAIN orders' \subseteq 1..nextId - 1
  <2>1. CASE FinishFilled
    <3>1. Engine' = e
      BY <1>1, <1>e, <2>1 DEF FinishFilled, Engine, ledger
    <3>2. o.lock = 0
      BY <1>2, <1>o, <2>1, EmptyLock DEF FinishFilled
    <3>3. extra = z
      BY <1>4, <1>z, <3>2
    <3> QED BY <1>2, <2>1, <3>1, <3>3 DEF FinishFilled
  <2>2. CASE FinishCancelled
    <3>u. PICK u \in Users, k \in Int : u = o.user /\ k = -o.lock
      BY <1>3
    <3>1. Engine' = Moved(e, u, k)
      <4>1. /\ available' = Credit(available, u, -k) /\ locked' = Credit(locked, u, k)
            /\ orders' = orders /\ book' = book /\ positions' = positions
        <5>1. o.lock = -k
          BY <1>3, <3>u
        <5> QED BY <1>1, <1>o, <2>2, <3>u, <5>1 DEF FinishCancelled
      <4> QED BY <4>1, <1>e, EngineParts DEF Engine, Moved
    <3>2. k <= e.available[u]
      <4>1. u \in Accounts \ {CLEARING}
        BY AccountsFinite
      <4>2. e.available[u] \in Int /\ e.available[u] >= 0
        BY <1>2, <4>1 DEF Good, Shape, NoDebt
      <4> QED BY <1>3, <3>u, <4>2
    <3>3. Good(Engine', Credit(extra, u, k), n)
      BY <1>2, <3>1, <3>2, MovedGood
    <3>4. Credit(extra, u, k) = z
      <4>1. extra = [w \in Accounts |-> IF w = u THEN -k ELSE 0]
        BY <1>3, <1>4, <3>u
      <4> QED BY <4>1, <1>z DEF Credit
    <3> QED BY <1>2, <2>2, <3>3, <3>4 DEF FinishCancelled
  <2>3. CASE FinishResting
    <3>1. Engine' = Rested(e, o)
      BY <1>1, <1>o, <1>e, <2>3, EngineParts DEF FinishResting, Engine, Rested, ledger
    <3>2. \A x \in DOMAIN e.orders : x < o.id
      BY <1>2, <1>e, EngineParts
    <3>3. Good(Engine', z, n)
      BY <1>2, <1>4, <1>z, <3>1, <3>2, RestedGood
    <3>4. DOMAIN orders' = DOMAIN orders \cup {o.id}
      BY <1>o, <2>3 DEF FinishResting, WithOrder
    <3>5. o.id \in 1..nextId - 1
      BY <1>2, <1>3
    <3> QED BY <1>2, <3>3, <3>4, <3>5
  <2> QED BY <1>1, <2>1, <2>2, <2>3
<1>8. /\ Good(Engine', InFlight', supply' + phantom')
      /\ DOMAIN orders' \subseteq 1..nextId' - 1
  BY <1>5, <1>6, <1>7
<1> QED BY <1>1, <1>6, <1>8, QuietStep

\* A cancelled order, when nothing is in flight.
LEMMA CancelStep ==
  ASSUME PInv, pc = "idle", NEW id \in DOMAIN orders,
         Becomes(Cancelled(Engine, {id})), pc' \in {"idle", "submit"},
         pc' = "submit" => Asked(pending'),
         UNCHANGED <<nextId, taker, sweep, settings, history>>
  PROVE  PInv'
<1>r. PICK r : r = Cancelled(Engine, {id})
  OBVIOUS
<1>1. Good(r, InFlight, supply + phantom)
      /\ DOMAIN r.orders = DOMAIN orders \ {id}
  <2>g. PICK ids, e, extra, n :
          /\ ids \in SUBSET (DOMAIN Engine.orders) /\ ids = {id}
          /\ e = Engine /\ extra = InFlight /\ n = supply + phantom
    BY EngineParts
  <2>1. Good(e, extra, n) /\ r = Cancelled(e, ids) /\ ids \in SUBSET (DOMAIN e.orders)
    BY <1>r, <2>g DEF PInv
  <2>2. Good(r, extra, n) /\ DOMAIN r.orders = DOMAIN e.orders \ ids
    BY <2>1, CancelledGood
  <2> QED BY <2>2, <2>g, EngineParts
<1>2. Fields(r) /\ Becomes(r)
  BY <1>1, <1>r DEF Good, Shape
<1>3. Engine' = r /\ orders' = r.orders
  BY <1>2, Became DEF Becomes
<1>4. InFlight' = InFlight
  BY DEF InFlight
<1>5. Good(Engine', InFlight', supply' + phantom')
  BY <1>1, <1>3, <1>4 DEF history
<1>6. Settings' /\ DOMAIN orders' \subseteq 1..nextId' - 1
  <2>1. Settings'
    BY DEF PInv, Settings, settings, history
  <2> QED BY <1>1, <1>3, <2>1 DEF PInv
<1>7. taker' = NoOrder
  BY DEF PInv
<1> QED BY <1>5, <1>6, <1>7, QuietStep

LEMMA CancelOrderInv ==
  ASSUME PInv, NEW id \in DOMAIN orders, CancelOrder(id)
  PROVE  PInv'
<1>1. /\ pc = "idle" /\ pc' = "idle" /\ Becomes(Cancelled(Engine, {id}))
      /\ UNCHANGED <<nextId, taker, sweep, settings, history>>
  BY DEF CancelOrder
<1> QED BY <1>1, CancelStep

LEMMA AmendOrderInv ==
  ASSUME PInv, NEW id \in DOMAIN orders, NEW ch \in Amendments, AmendOrder(id, ch)
  PROVE  PInv'
<1>1. /\ pc = "idle" /\ pc' = "submit" /\ Becomes(Cancelled(Engine, {id}))
      /\ pending' = Replacement(orders[id], ch)
      /\ UNCHANGED <<nextId, taker, sweep, settings, history>>
  BY DEF AmendOrder
<1>2. orders[id] \in Order
  BY EngineParts DEF PInv, Good, Shape, Resting, Sound
<1>3. Asked(pending')
  <2>1. ch.price \in Nat /\ ch.qty \in Nat
    BY PerpAssumption
  <2> QED BY <1>1, <1>2, <2>1 DEF Asked, Replacement, Order
<1> QED BY <1>1, <1>3, CancelStep

LEMMA SetLeverageInv ==
  ASSUME PInv, NEW u \in Users, NEW l \in Leverages, SetLeverage(u, l)
  PROVE  PInv'
<1>1. /\ pc = "idle" /\ pc' = "idle" /\ leverages' = [leverages EXCEPT ![u] = l]
      /\ UNCHANGED <<ledger, positions, orders, book, nextId, mark, adl, taker,
                     sweep, history>>
  BY DEF SetLeverage
<1>2. l \in 1..MaxLeverage
  BY PerpAssumption
<1>3. Engine' = Engine /\ InFlight' = InFlight
  BY <1>1 DEF Engine, InFlight, ledger
<1>4. Good(Engine', InFlight', supply' + phantom')
  BY <1>1, <1>3 DEF PInv, history
<1>5. Settings' /\ DOMAIN orders' \subseteq 1..nextId' - 1 /\ taker' = NoOrder
  BY <1>1, <1>2 DEF PInv, Settings, history
<1> QED BY <1>1, <1>4, <1>5, QuietStep

\* Wallets and positions change, the orders and their locks do not.
Holding(e, a, h) ==
  [available |-> a, locked |-> e.locked, positions |-> h, orders |-> e.orders,
   book |-> e.book]

\* d is what each account gains.
Gains(e, a, h, d) ==
  \A u \in Accounts :
    /\ d[u] \in Int
    /\ a[u] + MarginOf(h, u) = e.available[u] + MarginOf(e.positions, u) + d[u]

\* The money there is grows by what the accounts gain together.
LEMMA HoldingGood ==
  ASSUME NEW e, NEW extra, NEW n, Good(e, extra, n), NEW a \in [Accounts -> Int],
         \A u \in Accounts \ {CLEARING} : a[u] >= 0, NEW h, Held(h),
         NEW d, Gains(e, a, h, d)
  PROVE  Good(Holding(e, a, h), extra, n + SumFunctionOnSet(d, Accounts))
<1>r. PICK r : r = Holding(e, a, h)
  OBVIOUS
<1>f. PICK l, o, b : l = e.locked /\ o = e.orders /\ b = e.book
  OBVIOUS
<1>0. /\ Shape(e) /\ Backed(e, extra) /\ Money(e) = n /\ extra \in [Accounts -> Int]
  BY DEF Good
<1>1. /\ Fields(r) /\ r.available = a /\ r.locked = l /\ r.positions = h
      /\ r.orders = o /\ r.book = b
  <2>1. r = [available |-> a, locked |-> l, positions |-> h, orders |-> o, book |-> b]
    BY <1>r, <1>f DEF Holding
  <2> QED BY <2>1, EngineEq
<1>2. Shape(r)
  BY <1>0, <1>1, <1>f DEF Shape
<1>3. NoDebt(r)
  BY <1>1 DEF NoDebt
<1>4. Backed(r, extra)
  BY <1>0, <1>1, <1>f DEF Backed
<1>x. PICK x, y : x = Worth(e) /\ y = Worth(r)
  OBVIOUS
<1>5. \A u \in Accounts : x[u] \in Int /\ d[u] \in Int /\ y[u] = x[u] + d[u]
  <2> TAKE u \in Accounts
  <2>1. /\ e.available[u] \in Int /\ e.locked[u] \in Int
        /\ MarginOf(e.positions, u) \in Nat
        /\ x[u] = e.available[u] + e.locked[u] + MarginOf(e.positions, u)
    BY <1>0, <1>x, WorthInt
  <2>2. /\ MarginOf(r.positions, u) \in Nat
        /\ y[u] = r.available[u] + r.locked[u] + MarginOf(r.positions, u)
    BY <1>2, <1>x, WorthInt
  <2>3. y[u] = a[u] + e.locked[u] + MarginOf(h, u) /\ MarginOf(h, u) \in Nat
    BY <2>2, <1>1, <1>f
  <2>4. d[u] \in Int /\ a[u] + MarginOf(h, u)
          = e.available[u] + MarginOf(e.positions, u) + d[u]
    BY DEF Gains
  <2>5. a[u] \in Int
    OBVIOUS
  <2> QED BY <2>1, <2>3, <2>4, <2>5
<1>6. SumFunctionOnSet(y, Accounts)
        = SumFunctionOnSet(x, Accounts) + SumFunctionOnSet(d, Accounts)
  BY <1>5, AccountsFinite, SumAdd
<1>7. Money(r) = n + SumFunctionOnSet(d, Accounts)
  BY <1>0, <1>6, <1>x DEF Money
<1> QED BY <1>0, <1>2, <1>3, <1>4, <1>7, <1>r DEF Good

\* A sum in which only a user and the two house accounts take part.
LEMMA ThreeParts ==
  ASSUME NEW d, \A w \in Accounts : d[w] \in Int, NEW u \in Users,
         \A w \in Accounts : w # u /\ w # FEE /\ w # CLEARING => d[w] = 0
  PROVE  SumFunctionOnSet(d, Accounts) = d[u] + d[FEE] + d[CLEARING]
<1>z. PICK z : z = [w \in Accounts |-> 0]
  OBVIOUS
<1>1. /\ \A w \in Accounts : z[w] \in Int /\ d[w] \in Int /\ z[w] = 0
      /\ \A w \in Accounts : w # u /\ w # FEE /\ w # CLEARING => d[w] = z[w]
  BY <1>z
<1>2. /\ u \in Accounts /\ FEE \in Accounts /\ CLEARING \in Accounts
      /\ u # FEE /\ u # CLEARING /\ FEE # CLEARING /\ IsFiniteSet(Accounts)
  BY AccountsFinite
<1>3. SumFunctionOnSet(d, Accounts) = SumFunctionOnSet(z, Accounts)
        + (d[u] - z[u]) + (d[FEE] - z[FEE]) + (d[CLEARING] - z[CLEARING])
  BY <1>1, <1>2, SumMoves
<1>4. SumFunctionOnSet(z, Accounts) = 0
  BY <1>1, <1>2, SumZero
<1> QED BY <1>1, <1>2, <1>3, <1>4

\* A deposit or a withdrawal of k units that the wallet can bear.
LEMMA TransferStep ==
  ASSUME PInv, pc = "idle", NEW u \in Users, NEW k \in Int, 0 <= available[u] + k,
         available' = Credit(available, u, k), supply' = supply + k,
         UNCHANGED <<locked, positions, orders, book, nextId, pc, taker, sweep,
                     settings, phantom>>
  PROVE  PInv'
<1>e. PICK e, extra : e = Engine /\ extra = InFlight
  OBVIOUS
<1>n. PICK n \in Int : n = supply + phantom
  BY DEF PInv, Settings
<1>a. PICK a : a = Credit(available, u, k)
  OBVIOUS
<1>d. PICK d : d = [w \in Accounts |-> IF w = u THEN k ELSE 0]
  OBVIOUS
<1>h. PICK h : h = positions
  OBVIOUS
<1>0. Good(e, extra, n) /\ Shape(e) /\ NoDebt(e)
  BY <1>e, <1>n DEF PInv, Good
<1>1. u \in Accounts /\ available \in [Accounts -> Int] /\ Held(h)
  BY <1>0, <1>e, <1>h, EngineParts, AccountsFinite DEF Shape
<1>2. /\ a \in [Accounts -> Int]
      /\ \A w \in Accounts : a[w] = available[w] + IF w = u THEN k ELSE 0
  BY <1>1, <1>a DEF Credit
<1>3. \A w \in Accounts \ {CLEARING} : a[w] >= 0
  <2> TAKE w \in Accounts \ {CLEARING}
  <2>1. available[w] >= 0 /\ available[w] \in Int
    BY <1>0, <1>1, <1>e, EngineParts DEF NoDebt
  <2> QED BY <1>2, <2>1
<1>4. Gains(e, a, h, d)
  <2> SUFFICES ASSUME NEW w \in Accounts
               PROVE  /\ d[w] \in Int
                      /\ a[w] + MarginOf(h, w)
                           = e.available[w] + MarginOf(e.positions, w) + d[w]
    BY DEF Gains
  <2>1. d[w] = IF w = u THEN k ELSE 0
    BY <1>d
  <2>2. PICK m \in Nat : m = MarginOf(h, w)
    <3>1. MarginOf(e.positions, w) \in Nat
      BY <1>0, WorthInt
    <3> QED BY <3>1, <1>e, <1>h, EngineParts
  <2>3. e.available[w] = available[w] /\ available[w] \in Int
        /\ MarginOf(e.positions, w) = m
    BY <1>1, <1>e, <1>h, <2>2, EngineParts
  <2> QED BY <1>2, <2>1, <2>2, <2>3
<1>5. Good(Holding(e, a, h), extra, n + SumFunctionOnSet(d, Accounts))
  BY <1>0, <1>1, <1>2, <1>3, <1>4, HoldingGood
<1>6. SumFunctionOnSet(d, Accounts) = k
  <2>1. /\ \A w \in Accounts : d[w] \in Int
        /\ \A w \in Accounts : w # u /\ w # FEE /\ w # CLEARING => d[w] = 0
        /\ d[u] = k /\ d[FEE] = 0 /\ d[CLEARING] = 0
    BY <1>d, AccountsFinite
  <2>2. SumFunctionOnSet(d, Accounts) = d[u] + d[FEE] + d[CLEARING]
    BY <2>1, ThreeParts
  <2> QED BY <2>1, <2>2
<1>7. Engine' = Holding(e, a, h)
  BY <1>a, <1>e, <1>h, EngineParts DEF Engine, Holding
<1>8. InFlight' = InFlight
  BY DEF InFlight
<1>9. /\ Settings' /\ supply' + phantom' = n + k
      /\ DOMAIN orders' \subseteq 1..nextId' - 1
  <2>1. supply' + phantom' = n + k
    BY <1>n DEF PInv, Settings
  <2> QED BY <2>1 DEF PInv, Settings, settings
<1>10. Good(Engine', InFlight', supply' + phantom')
  BY <1>5, <1>6, <1>7, <1>8, <1>9, <1>e, <1>n
<1>11. taker' = NoOrder
  BY DEF PInv
<1> QED BY <1>9, <1>10, <1>11, QuietStep

LEMMA DepositInv ==
  ASSUME PInv, NEW t \in Transfers, Deposit(t)
  PROVE  PInv'
<1>1. t.user \in Users /\ t.amount \in Nat \ {0}
  BY PerpAssumption
<1>k. PICK u \in Users, k \in Int : u = t.user /\ k = t.amount /\ k > 0
  BY <1>1
<1>2. 0 <= available[u] + k
  <2>1. u \in Accounts \ {CLEARING}
    BY AccountsFinite
  <2>2. available[u] \in Int /\ available[u] >= 0
    BY <2>1, EngineParts DEF PInv, Good, Shape, NoDebt
  <2> QED BY <1>k, <2>2
<1>3. /\ pc = "idle" /\ available' = Credit(available, u, k) /\ supply' = supply + k
      /\ UNCHANGED <<locked, positions, orders, book, nextId, pc, taker, sweep,
                     settings, phantom>>
  BY <1>k DEF Deposit
<1> QED BY <1>2, <1>3, TransferStep

LEMMA WithdrawInv ==
  ASSUME PInv, NEW t \in Transfers, Withdraw(t)
  PROVE  PInv'
<1>1. t.user \in Users /\ t.amount \in Nat \ {0}
  BY PerpAssumption
<1>k. PICK u \in Users, k \in Int : u = t.user /\ k = -t.amount /\ t.amount = -k
  BY <1>1
<1>2. 0 <= available[u] + k
  <2>1. u \in Accounts
    BY AccountsFinite
  <2>2. available[u] \in Int /\ available[u] >= -k
    BY <1>k, <2>1, EngineParts DEF PInv, Good, Shape, Withdraw
  <2> QED BY <2>2
<1>3. /\ pc = "idle" /\ available' = Credit(available, u, k) /\ supply' = supply + k
      /\ UNCHANGED <<locked, positions, orders, book, nextId, pc, taker, sweep,
                     settings, phantom>>
  <2>1. supply' = supply - t.amount /\ supply \in Int
    BY DEF Withdraw, PInv, Settings
  <2>2. supply' = supply + k
    BY <1>k, <2>1
  <2> QED BY <1>k, <2>2 DEF Withdraw
<1> QED BY <1>2, <1>3, TransferStep

-----------------------------------------------------------------------------
(* Marks and funding, and the sweep they start.                            *)

\* s lists the positions of h, each once.
Listed(s, h) ==
  /\ s \in Seq([user : Users, pos : Position])
  /\ \A i \in 1..Len(s) : s[i].user \in DOMAIN h /\ h[s[i].user] = s[i].pos
  /\ \A i, j \in 1..Len(s) : i < j => s[i].user # s[j].user

LEMMA SweepListed ==
  ASSUME NEW h, Held(h), NEW s,
         s = [i \in DOMAIN Holders(h) |->
                [user |-> Holders(h)[i], pos |-> h[Holders(h)[i]]]]
  PROVE  Listed(s, h)
<1>o. PICK o : o = Holders(h)
  OBVIOUS
<1>1. DOMAIN h \subseteq Int /\ IsFiniteSet(DOMAIN h) /\ DOMAIN h \subseteq Users
  <2>1. DOMAIN h \subseteq Users
    BY DEF Held
  <2>2. IsFiniteSet(Users) /\ Users \subseteq Int
    BY PerpAssumption
  <2>3. IsFiniteSet(DOMAIN h)
    BY <2>1, <2>2, FS_Subset
  <2> QED BY <2>1, <2>2, <2>3
<1>2. /\ o \in Seq(DOMAIN h) /\ Len(o) \in Nat
      /\ \A i, j \in 1..Len(o) : i < j => o[i] < o[j]
  <2>1. o = Ascending(DOMAIN h)
    BY <1>o DEF Holders
  <2> QED BY <1>1, <2>1, AscendingLists
<1>n. PICK n \in Nat : n = Len(o)
  BY <1>2
<1>3. s = [i \in 1..n |-> [user |-> o[i], pos |-> h[o[i]]]]
  BY <1>o, <1>n, <1>2
<1>4. ASSUME NEW i \in 1..n
      PROVE  /\ o[i] \in DOMAIN h /\ o[i] \in Users /\ h[o[i]] \in Position
             /\ s[i] = [user |-> o[i], pos |-> h[o[i]]]
             /\ s[i].user = o[i] /\ s[i].pos = h[o[i]]
  <2>1. /\ o[i] \in DOMAIN h /\ o[i] \in Users /\ h[o[i]] \in Position
        /\ s[i] = [user |-> o[i], pos |-> h[o[i]]]
    BY <1>1, <1>2, <1>3, <1>n DEF Held
  <2>2. PICK u, pos : u = o[i] /\ pos = h[o[i]]
    OBVIOUS
  <2>3. s[i] = [user |-> u, pos |-> pos]
    BY <2>1, <2>2
  <2>4. s[i].user = u /\ s[i].pos = pos
    BY <2>3
  <2> QED BY <2>1, <2>2, <2>4
<1>5. \A i \in 1..n : s[i] \in [user : Users, pos : Position]
  <2> TAKE i \in 1..n
  <2>1. PICK u \in Users, pos \in Position : u = o[i] /\ pos = h[o[i]]
    BY <1>4
  <2>2. s[i] = [user |-> u, pos |-> pos]
    BY <1>4, <2>1
  <2> HIDE DEF Position
  <2> QED BY <2>2
<1>6. s \in Seq([user : Users, pos : Position]) /\ Len(s) = n
  <2>1. s \in [1..n -> [user : Users, pos : Position]]
    BY <1>3, <1>5
  <2> QED BY <2>1
<1>7. \A i, j \in 1..n : i < j => s[i].user # s[j].user
  <2> SUFFICES ASSUME NEW i \in 1..n, NEW j \in 1..n, i < j
               PROVE  s[i].user # s[j].user
    OBVIOUS
  <2>1. o[i] < o[j] /\ o[i] \in DOMAIN h /\ o[j] \in DOMAIN h
    BY <1>2, <1>4, <1>n
  <2>2. PICK a \in Int, b \in Int : a = o[i] /\ b = o[j] /\ a < b
    BY <1>1, <2>1
  <2>3. s[i].user = o[i] /\ s[j].user = o[j]
    BY <1>4
  <2> QED BY <2>2, <2>3
<1>8. \A i \in 1..n : s[i].user \in DOMAIN h /\ h[s[i].user] = s[i].pos
  BY <1>4, ZenonT(30)
<1> QED BY <1>6, <1>7, <1>8 DEF Listed

\* The sweep begins over the positions as they then are.
LEMMA BeginSweepStep ==
  ASSUME PInv, pc = "idle", BeginSweep(positions'), Held(positions'), Settings',
         Good(Engine', InFlight, supply' + phantom'),
         UNCHANGED <<orders, nextId, taker>>
  PROVE  PInv'
<1>p. PICK h : h = positions'
  OBVIOUS
<1>s. PICK s : s = sweep'
  OBVIOUS
<1>1. pc' = "sweep"
  BY DEF BeginSweep
<1>2. Listed(s, h)
  <2>1. s = [i \in DOMAIN Holders(h) |->
               [user |-> Holders(h)[i], pos |-> h[Holders(h)[i]]]]
    BY <1>p, <1>s DEF BeginSweep
  <2> QED BY <1>p, <2>1, SweepListed
<1>3. SweepSound'
  BY <1>1, <1>2, <1>p, <1>s DEF SweepSound, Listed
<1>4. TakerSound' /\ taker' = NoOrder
  BY <1>1 DEF TakerSound, PInv
<1>5. InFlight' = InFlight
  BY <1>1 DEF InFlight
<1> QED BY <1>1, <1>3, <1>4, <1>5 DEF PInv

LEMMA SetMarkPriceInv ==
  ASSUME PInv, NEW m \in Marks, SetMarkPrice(m)
  PROVE  PInv'
<1>1. /\ pc = "idle" /\ mark' = m /\ positions' = positions
      /\ pc' = "sweep" /\ BeginSweep(positions)
      /\ UNCHANGED <<available, locked, positions, leverages, orders, book, nextId,
                     adl, taker, supply, phantom>>
  BY DEF SetMarkPrice, BeginSweep, ledger, history
<1>2. Engine' = Engine
  BY <1>1 DEF Engine
<1>3. Good(Engine', InFlight, supply' + phantom')
  BY <1>1, <1>2 DEF PInv
<1>4. Held(positions) /\ Held(positions')
  BY <1>1, EngineParts DEF PInv, Good, Shape
<1>5. Settings'
  BY <1>1 DEF PInv, Settings
<1>6. BeginSweep(positions')
  BY <1>1 DEF BeginSweep
<1> QED BY <1>1, <1>3, <1>4, <1>5, <1>6, BeginSweepStep

LEMMA MulUnitsInt ==
  ASSUME NEW a \in Int, NEW b \in Int
  PROVE  MulUnits(a, b) \in Int
<1>1. a * b \in Int
  BY SMT
<1> QED BY <1>1, DivBounds, PerpConstants DEF MulUnits, DivFloor

LEMMA PaymentFacts ==
  ASSUME NEW p \in Position, p.margin >= 0, NEW rate \in Int, mark \in Int
  PROVE  Payment(p, rate) \in Int /\ Payment(p, rate) >= -p.margin
<1>1. p.size \in Int /\ p.margin \in Int
  BY DEF Position
<1>2. MulUnits(MulUnits(p.size, mark), rate) \in Int
  BY <1>1, MulUnitsInt
<1>3. PICK a \in Int, b \in Int :
        a = -MulUnits(MulUnits(p.size, mark), rate) /\ b = -p.margin
  BY <1>1, <1>2
<1> QED BY <1>3, MinMax DEF Payment

\* What a funding at these payments does to a state.
Funded(e, pay, total, residual, a, h) ==
  /\ total = SumFunctionOnSet(pay, DOMAIN e.positions)
  /\ residual = MaxBig(-total, -MaxBig(0, e.available[FEE]))
  /\ a = Credit(Credit([u \in Accounts |-> e.available[u] +
                          IF u \in DOMAIN e.positions THEN MaxBig(0, pay[u]) ELSE 0],
                       FEE, residual),
                CLEARING, -total - residual)
  /\ h = [u \in DOMAIN e.positions |->
            [e.positions[u] EXCEPT !.margin = @ + MinBig(0, pay[u])]]

\* No payment takes more than the margin of the position.
Payable(pay, held) ==
  \A u \in DOMAIN held : pay[u] \in Int /\ pay[u] >= -held[u].margin

\* The wallets of the users only grow, and the clearing account loses only when
\* the fee account is empty.
Netted(old, new) ==
  /\ \A u \in Users : new[u] >= old[u]
  /\ \/ new[CLEARING] = old[CLEARING]
     \/ new[CLEARING] < old[CLEARING] /\ new[FEE] = 0

LEMMA FundedWallets ==
  ASSUME NEW e, Shape(e), NoDebt(e), NEW pay, NEW total, NEW residual, NEW a, NEW h,
         Payable(pay, e.positions), Funded(e, pay, total, residual, a, h)
  PROVE  /\ total \in Int /\ residual \in Int
         /\ a \in [Accounts -> Int] /\ \A u \in Accounts \ {CLEARING} : a[u] >= 0
         /\ \A u \in Users : a[u] =
              e.available[u] + IF u \in DOMAIN e.positions THEN MaxBig(0, pay[u]) ELSE 0
         /\ a[FEE] = e.available[FEE] + residual
         /\ a[CLEARING] = e.available[CLEARING] + (-total - residual)
         /\ Netted(e.available, a)
<1>a. PICK w \in [Accounts -> Int] : w = e.available
  BY DEF Shape
<1>h. PICK D : D = DOMAIN e.positions
  OBVIOUS
<1>1. D \subseteq Users /\ IsFiniteSet(D) /\ \A u \in D : pay[u] \in Int
  <2>1. D \subseteq Users /\ \A u \in D : pay[u] \in Int
    BY <1>h DEF Shape, Held, Payable
  <2> QED BY <2>1, AccountsFinite, FS_Subset
<1>2. total \in Int
  <2>1. total = SumFunctionOnSet(pay, D)
    BY <1>h DEF Funded
  <2> QED BY <1>1, <2>1, SumInt
<1>3. /\ FEE \in Accounts /\ CLEARING \in Accounts /\ FEE # CLEARING
      /\ FEE \notin Users /\ CLEARING \notin Users /\ Users \subseteq Accounts
      /\ Accounts = Users \cup {FEE, CLEARING}
  BY AccountsFinite DEF Accounts
<1>f. PICK f \in Nat : f = w[FEE] /\ f = MaxBig(0, w[FEE])
  <2>1. w[FEE] \in Int /\ w[FEE] >= 0
    BY <1>3, <1>a DEF NoDebt
  <2> QED BY <2>1 DEF MaxBig
<1>4. /\ residual \in Int /\ residual >= -f
      /\ residual = -total \/ (residual = -f /\ residual > -total)
  <2>1. residual = MaxBig(-total, -f)
    BY <1>a, <1>f DEF Funded
  <2> QED BY <2>1, <1>2 DEF MaxBig
<1>g. PICK g : g = [u \in Accounts |-> IF u \in D THEN MaxBig(0, pay[u]) ELSE 0]
  OBVIOUS
<1>5. g \in [Accounts -> Nat]
  <2>1. \A u \in Accounts : g[u] \in Nat
    <3> TAKE u \in Accounts
    <3>1. u \in D => MaxBig(0, pay[u]) \in Nat
      BY <1>1 DEF MaxBig
    <3> QED BY <3>1, <1>g
  <2> QED BY <2>1, <1>g
<1>6. a = Credit(Credit([u \in Accounts |-> w[u] + g[u]], FEE, residual),
                 CLEARING, -total - residual)
  <2>1. a = Credit(Credit([u \in Accounts |-> w[u] +
                             IF u \in D THEN MaxBig(0, pay[u]) ELSE 0],
                          FEE, residual),
                   CLEARING, -total - residual)
    BY <1>a, <1>h DEF Funded
  <2>2. [u \in Accounts |-> w[u] + IF u \in D THEN MaxBig(0, pay[u]) ELSE 0]
          = [u \in Accounts |-> w[u] + g[u]]
    BY <1>g
  <2> QED BY <2>1, <2>2
<1>b. PICK b \in [Accounts -> Int] : b = [u \in Accounts |-> w[u] + g[u]]
  <2>1. [u \in Accounts |-> w[u] + g[u]] \in [Accounts -> Int]
    BY <1>5
  <2> QED BY <2>1
<1>t. PICK t \in Int : t = -total - residual
  <2>1. total \in Int /\ residual \in Int
    BY <1>2, <1>4
  <2>2. -total - residual \in Int
    BY <2>1
  <2> QED BY <2>2
<1>7. /\ a \in [Accounts -> Int]
      /\ \A u \in Users : a[u] = b[u]
      /\ a[FEE] = b[FEE] + residual /\ a[CLEARING] = b[CLEARING] + t
  <2>1. a = Credit(Credit(b, FEE, residual), CLEARING, t)
    BY <1>6, <1>b, <1>t
  <2> QED BY <2>1, <1>3, <1>4 DEF Credit
<1>8. g[FEE] = 0 /\ g[CLEARING] = 0
  BY <1>g, <1>1, <1>3
<1>9. \A u \in Users : g[u] \in Nat
          /\ g[u] = IF u \in D THEN MaxBig(0, pay[u]) ELSE 0
  BY <1>g, <1>5, <1>3
<1>10. \A u \in Users : a[u] = w[u] + g[u] /\ w[u] \in Int
  BY <1>7, <1>b, <1>3
<1>11. /\ a[FEE] = f + residual
       /\ a[CLEARING] = w[CLEARING] + t /\ w[CLEARING] \in Int
  <2>1. b[FEE] = w[FEE] + g[FEE] /\ b[CLEARING] = w[CLEARING] + g[CLEARING]
    BY <1>3, <1>b
  <2>2. w[FEE] \in Int /\ w[CLEARING] \in Int
    BY <1>3
  <2>3. b[FEE] = f /\ b[CLEARING] = w[CLEARING]
    BY <2>1, <2>2, <1>8, <1>f
  <2> QED BY <2>2, <2>3, <1>7
<1>12. \A u \in Accounts \ {CLEARING} : a[u] >= 0
  <2> TAKE u \in Accounts \ {CLEARING}
  <2>1. CASE u = FEE
    BY <2>1, <1>4, <1>11
  <2>2. CASE u # FEE
    <3>1. u \in Users
      BY <2>2, <1>3
    <3>2. w[u] >= 0
      BY <1>a DEF NoDebt
    <3> QED BY <3>1, <3>2, <1>9, <1>10
  <2> QED BY <2>1, <2>2
<1>13. \A u \in Users : a[u] >= w[u]
  BY <1>9, <1>10
<1>14. \/ a[CLEARING] = w[CLEARING]
       \/ a[CLEARING] < w[CLEARING] /\ a[FEE] = 0
  BY <1>2, <1>4, <1>11, <1>t
<1>15. Netted(w, a)
  BY <1>13, <1>14 DEF Netted
<1>16. \A u \in Users : a[u] =
         w[u] + IF u \in D THEN MaxBig(0, pay[u]) ELSE 0
  BY <1>9, <1>10
<1> QED BY <1>2, <1>4, <1>7, <1>11, <1>12, <1>15, <1>16, <1>a, <1>f, <1>h, <1>t

\* Margins after the payments: still nobody's is negative.
LEMMA FundedMargins ==
  ASSUME NEW held, Held(held), NEW pay, Payable(pay, held), NEW h,
         h = [u \in DOMAIN held |->
                [held[u] EXCEPT !.margin = @ + MinBig(0, pay[u])]]
  PROVE  /\ Held(h) /\ DOMAIN h = DOMAIN held
         /\ \A u \in DOMAIN held :
              MarginOf(h, u) = MarginOf(held, u) + MinBig(0, pay[u])
         /\ \A u \in DOMAIN held : MinBig(0, pay[u]) \in Int
<1>1. DOMAIN h = DOMAIN held /\ DOMAIN held \subseteq Users
  BY DEF Held
<1>2. ASSUME NEW u \in DOMAIN held
      PROVE  /\ h[u] \in Position /\ h[u].margin >= 0 /\ MinBig(0, pay[u]) \in Int
             /\ h[u].margin = held[u].margin + MinBig(0, pay[u])
  <2>1. PICK p \in Position : p = held[u] /\ p.margin >= 0
    BY DEF Held
  <2>2. PICK k \in Int : k = MinBig(0, pay[u]) /\ k >= -p.margin
    <3>1. pay[u] \in Int /\ pay[u] >= -p.margin /\ p.margin \in Int
      BY <2>1 DEF Payable, Position
    <3> QED BY <3>1, <2>1 DEF MinBig
  <2>3. PICK s, en, m, l : s = p.size /\ en = p.entry /\ m = p.margin /\ l = p.leverage
    OBVIOUS
  <2>4. p = [size |-> s, entry |-> en, margin |-> m, leverage |-> l]
        /\ s \in Int \ {0} /\ en \in Nat \ {0} /\ m \in Int /\ l \in 1..MaxLeverage
    BY <2>3 DEF Position
  <2>5. h[u] = [p EXCEPT !.margin = @ + k]
    BY <2>1, <2>2
  <2>6. h[u] = [size |-> s, entry |-> en, margin |-> m + k, leverage |-> l]
    BY <2>4, <2>5
  <2>7. m + k \in Int /\ m + k >= 0
    BY <2>1, <2>2, <2>3, <2>4
  <2>8. h[u].margin = m + k /\ held[u].margin = m
    BY <2>1, <2>3, <2>6
  <2>9. h[u] \in Position
    BY <2>4, <2>6, <2>7 DEF Position
  <2> QED BY <2>2, <2>7, <2>8, <2>9
<1>3. Held(h)
  BY <1>1, <1>2 DEF Held
<1>4. \A u \in DOMAIN held :
        MarginOf(h, u) = MarginOf(held, u) + MinBig(0, pay[u])
  BY <1>1, <1>2 DEF MarginOf
<1> QED BY <1>1, <1>2, <1>3, <1>4

\* Funding makes and destroys no money.
LEMMA FundedGood ==
  ASSUME NEW e, NEW extra, NEW n \in Int, Good(e, extra, n), NEW pay, NEW total,
         NEW residual, NEW a, NEW h, DOMAIN e.positions # {},
         Payable(pay, e.positions), Funded(e, pay, total, residual, a, h)
  PROVE  Good(Holding(e, a, h), extra, n)
<1>D. PICK D : D = DOMAIN e.positions
  OBVIOUS
<1>0. Shape(e) /\ NoDebt(e) /\ Held(e.positions)
  BY DEF Good, Shape
<1>1. /\ total \in Int /\ residual \in Int
      /\ a \in [Accounts -> Int] /\ \A u \in Accounts \ {CLEARING} : a[u] >= 0
      /\ \A u \in Users : a[u] =
           e.available[u] + IF u \in D THEN MaxBig(0, pay[u]) ELSE 0
      /\ a[FEE] = e.available[FEE] + residual
      /\ a[CLEARING] = e.available[CLEARING] + (-total - residual)
  BY <1>0, <1>D, FundedWallets
<1>2. /\ Held(h) /\ DOMAIN h = D
      /\ \A u \in D : MarginOf(h, u) = MarginOf(e.positions, u) + MinBig(0, pay[u])
      /\ \A u \in D : MinBig(0, pay[u]) \in Int
  BY <1>0, <1>D, FundedMargins DEF Funded
<1>3. /\ FEE \in Accounts /\ CLEARING \in Accounts /\ FEE # CLEARING
      /\ FEE \notin Users /\ CLEARING \notin Users /\ Users \subseteq Accounts
      /\ Accounts = Users \cup {FEE, CLEARING} /\ IsFiniteSet(Accounts)
  BY AccountsFinite DEF Accounts
<1>4. D \subseteq Users /\ D # {} /\ \A u \in D : pay[u] \in Int
  BY <1>0, <1>D DEF Held, Payable
<1>t. PICK t \in Int : t = -total - residual
  <2>1. -total - residual \in Int
    BY <1>1
  <2> QED BY <2>1
<1>f. PICK f : f = [w \in Accounts |-> IF w \in D THEN pay[w] ELSE 0]
  OBVIOUS
<1>k. PICK k : k = [w \in Accounts |-> IF w = FEE THEN residual
                                       ELSE IF w = CLEARING THEN t ELSE 0]
  OBVIOUS
<1>d. PICK d : d = [w \in Accounts |-> f[w] + k[w]]
  OBVIOUS
<1>5. \A w \in Accounts : f[w] \in Int /\ k[w] \in Int /\ d[w] = f[w] + k[w]
  BY <1>1, <1>4, <1>t, <1>f, <1>k, <1>d
<1>6. SumFunctionOnSet(f, Accounts) = total
  <2>1. D \in SUBSET Accounts /\ \A w \in Accounts \ D : f[w] = 0
    BY <1>3, <1>4, <1>f
  <2>2. SumFunctionOnSet(f, Accounts) = SumFunctionOnSet(f, D)
    BY <1>3, <1>5, <2>1, SumPart
  <2>3. IsFiniteSet(D) /\ \A w \in D : f[w] = pay[w]
    BY <1>3, <1>f, <2>1, FS_Subset
  <2>4. SumFunctionOnSet(f, D) = SumFunctionOnSet(pay, D)
    BY <2>3, SumSame
  <2> QED BY <2>2, <2>4, <1>D DEF Funded
<1>7. SumFunctionOnSet(k, Accounts) = -total
  <2>1. PICK u \in Users : TRUE
    BY <1>4
  <2>2. k[u] = 0 /\ k[FEE] = residual /\ k[CLEARING] = t
    BY <1>3, <1>k
  <2>3. \A w \in Accounts : w # u /\ w # FEE /\ w # CLEARING => k[w] = 0
    BY <1>k
  <2>4. SumFunctionOnSet(k, Accounts) = k[u] + k[FEE] + k[CLEARING]
    BY <1>5, <2>3, ThreeParts
  <2> QED BY <2>2, <2>4, <1>1, <1>t
<1>8. SumFunctionOnSet(d, Accounts) = 0
  <2>1. SumFunctionOnSet(d, Accounts)
          = SumFunctionOnSet(f, Accounts) + SumFunctionOnSet(k, Accounts)
    BY <1>3, <1>5, SumAdd
  <2> QED BY <2>1, <1>1, <1>6, <1>7
<1>9. Gains(e, a, h, d)
  <2> SUFFICES ASSUME NEW u \in Accounts
               PROVE  /\ d[u] \in Int
                      /\ a[u] + MarginOf(h, u)
                           = e.available[u] + MarginOf(e.positions, u) + d[u]
    BY DEF Gains
  <2>1. PICK w \in Int, m \in Nat : w = e.available[u] /\ m = MarginOf(e.positions, u)
    BY <1>0, WorthInt
  <2>2. PICK x \in Int : x = a[u]
    BY <1>1
  <2>3. PICK b \in Int, c \in Int : b = f[u] /\ c = k[u] /\ d[u] = b + c
    BY <1>5
  <2>4. CASE u \in D
    <3>1. PICK pu \in Int : pu = pay[u] /\ b = pu
      BY <2>3, <2>4, <1>4, <1>f
    <3>2. c = 0
      BY <2>3, <2>4, <1>3, <1>4, <1>k
    <3>3. x = w + MaxBig(0, pu)
      BY <1>1, <1>4, <2>1, <2>2, <2>4, <3>1
    <3>4. MarginOf(h, u) = m + MinBig(0, pu)
      BY <1>2, <2>1, <2>4, <3>1
    <3>5. MaxBig(0, pu) \in Int /\ MinBig(0, pu) \in Int
          /\ MaxBig(0, pu) + MinBig(0, pu) = pu
      BY DEF MaxBig, MinBig
    <3> QED BY <2>1, <2>2, <2>3, <3>1, <3>2, <3>3, <3>4, <3>5
  <2>5. CASE u \notin D
    <3>1. b = 0 /\ m = 0 /\ MarginOf(h, u) = 0
      BY <2>1, <2>3, <2>5, <1>f, <1>D, <1>2 DEF MarginOf
    <3>2. x = w + c
      <4>1. CASE u \in Users
        BY <4>1, <2>1, <2>2, <2>3, <2>5, <1>1, <1>3, <1>k
      <4>2. CASE u = FEE
        BY <4>2, <2>1, <2>2, <2>3, <1>1, <1>3, <1>k
      <4>3. CASE u = CLEARING
        BY <4>3, <2>1, <2>2, <2>3, <1>1, <1>3, <1>k, <1>t
      <4> QED BY <4>1, <4>2, <4>3, <1>3
    <3> QED BY <2>1, <2>2, <2>3, <3>1, <3>2
  <2> QED BY <2>4, <2>5
<1>10. Good(Holding(e, a, h), extra, n + SumFunctionOnSet(d, Accounts))
  BY <1>1, <1>2, <1>9, HoldingGood
<1> QED BY <1>8, <1>10

\* ApplyFunding in these terms.
LEMMA FundingIs ==
  ASSUME PInv, NEW rate \in Rates, ApplyFunding(rate)
  PROVE  \E pay, total, residual :
           /\ pay = [u \in DOMAIN positions |-> Payment(positions[u], rate)]
           /\ Payable(pay, positions)
           /\ Funded(Engine, pay, total, residual, available', positions')
<1> DEFINE x_Pay(u) == Payment(positions[u], rate)
           x_total == SumFunction([u \in DOMAIN positions |-> x_Pay(u)])
           x_residual == Residual(x_total)
           x_paid == [u \in Accounts |-> available[u] +
                        IF u \in DOMAIN positions THEN MaxBig(0, x_Pay(u)) ELSE 0]
           x_held == [u \in DOMAIN positions |->
                        [positions[u] EXCEPT !.margin = @ + MinBig(0, x_Pay(u))]]
<1>1. /\ available' = Credit(Credit(x_paid, FEE, x_residual), CLEARING,
                             -x_total - x_residual)
      /\ positions' = x_held
  BY DEF ApplyFunding
<1>p. PICK pay : pay = [u \in DOMAIN positions |-> x_Pay(u)]
  OBVIOUS
<1>t. PICK total : total = x_total
  OBVIOUS
<1>r. PICK residual : residual = x_residual
  OBVIOUS
<1>2. \A u \in DOMAIN positions : pay[u] = x_Pay(u)
  BY <1>p
<1>9. pay = [u \in DOMAIN positions |-> Payment(positions[u], rate)]
  BY <1>p
<1>3. x_paid = [u \in Accounts |-> available[u] +
                  IF u \in DOMAIN positions THEN MaxBig(0, pay[u]) ELSE 0]
  <2> HIDE DEF x_Pay
  <2> QED BY <1>2
<1>4. x_held = [u \in DOMAIN positions |->
                  [positions[u] EXCEPT !.margin = @ + MinBig(0, pay[u])]]
  <2> HIDE DEF x_Pay
  <2> QED BY <1>2
<1>5. total = SumFunctionOnSet(pay, DOMAIN positions)
  <2>1. total = SumFunction(pay) /\ DOMAIN pay = DOMAIN positions
    BY <1>p, <1>t
  <2> HIDE DEF x_Pay
  <2> QED BY <2>1 DEF SumFunction, SumFunctionOnSet
<1>6. residual = MaxBig(-total, -MaxBig(0, available[FEE]))
  <2>1. residual = Residual(total)
    BY <1>t, <1>r
  <2> QED BY <2>1 DEF Residual
<1>7. Payable(pay, positions)
  <2>1. mark \in Int /\ rate \in Int /\ Held(positions)
    BY PerpAssumption, EngineParts DEF PInv, Settings, Good, Shape
  <2>2. ASSUME NEW u \in DOMAIN positions
        PROVE  pay[u] \in Int /\ pay[u] >= -positions[u].margin
    <3>1. positions[u] \in Position /\ positions[u].margin >= 0
      BY <2>1 DEF Held
    <3>2. Payment(positions[u], rate) \in Int
          /\ Payment(positions[u], rate) >= -positions[u].margin
      BY <2>1, <3>1, PaymentFacts
    <3>3. pay[u] = Payment(positions[u], rate)
      BY <1>2
    <3> QED BY <3>2, <3>3
  <2> QED BY <2>2 DEF Payable
<1> HIDE DEF x_Pay, x_total, x_residual, x_paid, x_held
<1>8. Funded(Engine, pay, total, residual, available', positions')
  <2>1. available' = Credit(Credit([u \in Accounts |-> available[u] +
                         IF u \in DOMAIN positions THEN MaxBig(0, pay[u]) ELSE 0],
                       FEE, residual),
                CLEARING, -total - residual)
    BY <1>1, <1>3, <1>t, <1>r
  <2>2. positions' = [u \in DOMAIN positions |->
                  [positions[u] EXCEPT !.margin = @ + MinBig(0, pay[u])]]
    BY <1>1, <1>4
  <2> QED BY <2>1, <2>2, <1>5, <1>6, EngineParts DEF Funded
<1> QED BY <1>7, <1>8, <1>9

LEMMA ApplyFundingInv ==
  ASSUME PInv, NEW rate \in Rates, ApplyFunding(rate)
  PROVE  PInv'
<1>1. PICK pay, total, residual :
        /\ Payable(pay, positions)
        /\ Funded(Engine, pay, total, residual, available', positions')
  BY FundingIs
<1>n. PICK n \in Int : n = supply + phantom
  BY DEF PInv, Settings
<1>2. /\ pc = "idle" /\ pc' = "sweep" /\ DOMAIN positions # {} 
      /\ UNCHANGED <<locked, leverages, orders, book, nextId, mark, adl, taker,
                     supply, phantom>>
  BY DEF ApplyFunding, BeginSweep, history
<1>3. BeginSweep(positions')
  <2> DEFINE x_Pay(u) == Payment(positions[u], rate)
             x_held == [u \in DOMAIN positions |->
                          [positions[u] EXCEPT !.margin = @ + MinBig(0, x_Pay(u))]]
  <2>1. positions' = x_held /\ BeginSweep(x_held)
    BY DEF ApplyFunding
  <2> HIDE DEF x_held
  <2> QED BY <2>1
<1>e. PICK e, extra, a, h :
        e = Engine /\ extra = InFlight /\ a = available' /\ h = positions'
  OBVIOUS
<1>4. Good(e, extra, n) /\ Held(e.positions) /\ e.positions = positions
  BY <1>e, <1>n, EngineParts DEF PInv, Good, Shape
<1>5. Good(Holding(e, a, h), extra, n)
  <2>1. Payable(pay, e.positions) /\ Funded(e, pay, total, residual, a, h)
        /\ DOMAIN e.positions # {}
    BY <1>1, <1>2, <1>4, <1>e
  <2> QED BY <1>4, <2>1, FundedGood
<1>6. Engine' = Holding(e, a, h)
  BY <1>2, <1>e, EngineParts DEF Engine, Holding
<1>7. Good(Engine', InFlight, supply' + phantom')
  <2>1. supply' + phantom' = n
    BY <1>2, <1>n
  <2> QED BY <1>5, <1>6, <1>e, <2>1
<1>8. Held(positions')
  BY <1>1, <1>4, <1>e, FundedMargins DEF Funded
<1>9. Settings'
  BY <1>2 DEF PInv, Settings
<1> QED BY <1>2, <1>3, <1>7, <1>8, <1>9, BeginSweepStep

-----------------------------------------------------------------------------
(* Liquidation and auto-deleveraging.                                      *)

\* u's position goes; u receives k, the fee account pays `fee` and the clearing
\* account the realized r.
ClosedOut(e, u, r, k, fee) ==
  Holding(e, Credit(Credit(Credit(e.available, CLEARING, -r), u, k), FEE, -fee),
          Without(e.positions, {u}))

LEMMA ClosedGood ==
  ASSUME NEW e, NEW extra, NEW n \in Int, Good(e, extra, n), NEW u \in Users,
         NEW r \in Int, NEW k \in Nat, NEW fee \in Nat, fee <= e.available[FEE]
  PROVE  Good(ClosedOut(e, u, r, k, fee), extra,
              n + (k - r - fee - MarginOf(e.positions, u)))
<1>w. PICK w \in [Accounts -> Int] : w = e.available
  BY DEF Good, Shape
<1>p. PICK old, h : old = e.positions /\ h = Without(old, {u})
  OBVIOUS
<1>a. PICK a : a = Credit(Credit(Credit(w, CLEARING, -r), u, k), FEE, -fee)
  OBVIOUS
<1>0. Shape(e) /\ NoDebt(e) /\ Held(old)
  BY <1>p DEF Good, Shape
<1>1. /\ u \in Accounts /\ FEE \in Accounts /\ CLEARING \in Accounts /\ FEE # CLEARING
      /\ FEE # u /\ CLEARING # u /\ CLEARING \notin Users
      /\ IsFiniteSet(Accounts)
  BY AccountsFinite
<1>2. /\ a \in [Accounts -> Int]
      /\ a[u] = w[u] + k /\ a[FEE] = w[FEE] - fee /\ a[CLEARING] = w[CLEARING] - r
      /\ \A x \in Accounts : x # u /\ x # FEE /\ x # CLEARING => a[x] = w[x]
  BY <1>1, <1>a DEF Credit
<1>3. \A x \in Accounts \ {CLEARING} : w[x] >= 0 /\ w[x] \in Int
  BY <1>0, <1>w DEF NoDebt
<1>4. \A x \in Accounts \ {CLEARING} : a[x] >= 0
  <2> TAKE x \in Accounts \ {CLEARING}
  <2>1. CASE x = u
    BY <2>1, <1>2, <1>3
  <2>2. CASE x = FEE
    BY <2>2, <1>1, <1>2, <1>3, <1>w
  <2>3. CASE x # u /\ x # FEE
    BY <2>3, <1>2, <1>3
  <2> QED BY <2>1, <2>2, <2>3
<1>5. /\ Held(h) /\ MarginOf(h, u) = 0
      /\ \A x \in Accounts : x # u => MarginOf(h, x) = MarginOf(old, x)
  <2>1. Held(h) /\ Changed(old, h, u, 0, 0)
    BY <1>0, <1>p, WithoutFacts
  <2> QED BY <2>1 DEF Changed
<1>m. PICK m \in Nat : m = MarginOf(old, u)
  BY <1>0, <1>1, <1>p, WorthInt
<1>d. PICK d : d = [x \in Accounts |-> IF x = u THEN k - m ELSE IF x = FEE THEN -fee
                                       ELSE IF x = CLEARING THEN -r ELSE 0]
  OBVIOUS
<1>6. /\ \A x \in Accounts : d[x] \in Int
      /\ d[u] = k - m /\ d[FEE] = -fee /\ d[CLEARING] = -r
      /\ \A x \in Accounts : x # u /\ x # FEE /\ x # CLEARING => d[x] = 0
  BY <1>1, <1>d
<1>7. SumFunctionOnSet(d, Accounts) = (k - m) + (-fee) + (-r)
  <2>1. SumFunctionOnSet(d, Accounts) = d[u] + d[FEE] + d[CLEARING]
    BY <1>6, ThreeParts
  <2> QED BY <2>1, <1>6
<1>8. Gains(e, a, h, d)
  <2> SUFFICES ASSUME NEW x \in Accounts
               PROVE  /\ d[x] \in Int
                      /\ a[x] + MarginOf(h, x)
                           = e.available[x] + MarginOf(e.positions, x) + d[x]
    BY DEF Gains
  <2>1. PICK wx \in Int, mx \in Nat : wx = w[x] /\ mx = MarginOf(old, x)
    BY <1>0, <1>p, <1>w, WorthInt
  <2>2. CASE x = u
    BY <2>1, <2>2, <1>2, <1>5, <1>6, <1>m, <1>p, <1>w
  <2>3. CASE x # u
    <3>1. MarginOf(h, x) = mx
      BY <2>1, <2>3, <1>5
    <3>2. d[x] \in Int /\ a[x] = wx + d[x]
      <4>1. CASE x = FEE
        BY <4>1, <2>1, <1>2, <1>6
      <4>2. CASE x = CLEARING
        BY <4>2, <2>1, <1>2, <1>6
      <4>3. CASE x # FEE /\ x # CLEARING
        BY <4>3, <2>1, <2>3, <1>2, <1>6
      <4> QED BY <4>1, <4>2, <4>3
    <3> QED BY <2>1, <3>1, <3>2, <1>p, <1>w
  <2> QED BY <2>2, <2>3
<1>9. Good(Holding(e, a, h), extra, n + SumFunctionOnSet(d, Accounts))
  BY <1>2, <1>4, <1>5, <1>8, HoldingGood
<1>10. n + SumFunctionOnSet(d, Accounts) = n + (k - r - fee - m)
  BY <1>7
<1>11. ClosedOut(e, u, r, k, fee) = Holding(e, a, h)
  BY <1>a, <1>p, <1>w DEF ClosedOut
<1> QED BY <1>9, <1>10, <1>11, <1>m, <1>p

\* The winners, each once.
LEMMA RankingFacts ==
  ASSUME NEW e, Held(e.positions), NEW m \in Int, NEW s, s = Ranking(m, e)
  PROVE  /\ s \in Seq(WinnersOf(m, e)) /\ Len(s) \in Nat
         /\ \A i, j \in 1..Len(s) : i < j => s[i] # s[j]
<1>h. PICK h : h = e.positions
  OBVIOUS
<1>w. PICK W : W = WinnersOf(m, e)
  OBVIOUS
<1>1. W \subseteq DOMAIN h /\ DOMAIN h \subseteq Users
  BY <1>h, <1>w DEF WinnersOf, Held
<1>2. W \subseteq Int /\ IsFiniteSet(W)
  <2>1. Users \subseteq Int /\ W \subseteq Users
    BY <1>1, PerpAssumption
  <2> QED BY <2>1, AccountsFinite, FS_Subset
<1> DEFINE score == [u \in W |-> Score(m, h[u])]
<1>3. \A u \in W : score[u] \in Int
  <2> TAKE u \in W
  <2>1. h[u] \in Position
    BY <1>1, <1>h DEF Held
  <2>2. h[u].size \in Int /\ h[u].entry \in Int /\ h[u].leverage \in Int
    BY <2>1, PerpAssumption DEF Position
  <2>3. PICK a \in Int, b \in Int : a = UnrealizedPnl(h[u], m) /\ b = h[u].leverage
    BY <2>2, PnlInt
  <2>4. a * b \in Int
    BY SMT
  <2> QED BY <2>3, <2>4 DEF Score
<1> DEFINE Ahead(u, v) == score[u] > score[v] \/ (score[u] = score[v] /\ u < v)
           before == [u \in W |-> {v \in W : Ahead(v, u)}]
<1>4. \A u, v \in W : Outranks(m, h, u, v) <=> Ahead(u, v)
  BY DEF Outranks
<1> HIDE DEF score
<1>5. /\ \A u \in W : ~Ahead(u, u)
      /\ \A u, v \in W : u = v \/ Ahead(u, v) \/ Ahead(v, u)
      /\ \A u, v, x \in W : Ahead(u, v) /\ Ahead(v, x) => Ahead(u, x)
      /\ \A u, v \in W : Ahead(u, v) => ~Ahead(v, u)
  BY <1>2, <1>3
<1>6. \A u \in W : before[u] = {v \in W : Ahead(v, u)}
  OBVIOUS
<1> HIDE DEF Ahead, before
<1>7. Ordering(W, before)
  BY <1>5, <1>6 DEF Ordering
<1>n. PICK n : n = Cardinality(W)
  OBVIOUS
<1>8. s = [i \in 1..n |->
             CHOOSE u \in W : Cardinality({v \in W : Outranks(m, h, v, u)}) = i - 1]
  BY <1>h, <1>w, <1>n DEF Ranking
<1>9. \A u \in W : {v \in W : Outranks(m, h, v, u)} = before[u]
  BY <1>4, <1>6
<1>10. \A i \in 1..n : \E x \in W : Cardinality(before[x]) = i - 1
  <2>1. PICK bf : bf = before
    OBVIOUS
  <2>2. IsFiniteSet(W) /\ Ordering(W, bf)
    BY <1>2, <1>7, <2>1
  <2>3. \A i \in 1..Cardinality(W) : \E x \in W : Cardinality(bf[x]) = i - 1
    BY <2>2, RanksListed
  <2> QED BY <2>1, <2>3, <1>n
<1>11. ASSUME NEW i \in 1..n
       PROVE  s[i] \in W /\ Cardinality(before[s[i]]) = i - 1
  <2>1. PICK x \in W : Cardinality(before[x]) = i - 1
    BY <1>10
  <2>2. Cardinality({v \in W : Outranks(m, h, v, x)}) = i - 1
    BY <1>9, <2>1
  <2>3. /\ s[i] \in W
        /\ Cardinality({v \in W : Outranks(m, h, v, s[i])}) = i - 1
    BY <1>8, <2>2
  <2> QED BY <1>9, <2>3
<1>12. Ranked(s, W, before)
  BY <1>8, <1>11, <1>n DEF Ranked
<1>13. Lists(s, W, before)
  BY <1>2, <1>7, <1>12, RanksListed
<1>14. s \in Seq(W) /\ Len(s) \in Nat
       /\ \A i, j \in 1..Len(s) : i < j => s[i] \in before[s[j]]
  BY <1>13 DEF Lists
<1>15. \A i \in 1..Len(s) : s[i] \in W
  BY <1>14
<1>16. \A i, j \in 1..Len(s) : i < j => s[i] # s[j]
  BY <1>5, <1>6, <1>14, <1>15
<1> QED BY <1>14, <1>16, <1>w

LEMMA CreditNothing ==
  ASSUME NEW f \in [Accounts -> Int], NEW x \in Accounts
  PROVE  Credit(f, x, -0) = f
BY DEF Credit

\* Positions only closed.
Shrunk(new, old) ==
  DOMAIN new \subseteq DOMAIN old /\ \A u \in DOMAIN new : new[u] = old[u]

\* Positions only closed, orders only left, and whoever was closed out has no
\* orders left.
Cleared(new, old) ==
  /\ Shrunk(new.positions, old.positions)
  /\ DOMAIN new.orders \subseteq DOMAIN old.orders
  /\ \A x \in DOMAIN new.orders :
       /\ new.orders[x] = old.orders[x]
       /\ new.orders[x].user \in DOMAIN old.positions =>
            new.orders[x].user \in DOMAIN new.positions

\* acc is what the clawback has made of e after i winners: what is left of the
\* debt is the money there is beyond n.
Clawing(acc, e, extra, n, ranking, i) ==
  /\ acc.rest \in Nat
  /\ Good(acc.e, extra, n + acc.rest)
  /\ Cleared(acc.e, e)
  /\ \A j \in 1..Len(ranking) : i < j => ranking[j] \in DOMAIN acc.e.positions

\* The ranking of e's winners at the mark m.
Ranks(ranking, m, e) ==
  /\ ranking \in Seq(WinnersOf(m, e)) /\ Len(ranking) \in Nat
  /\ \A i, j \in 1..Len(ranking) : i < j => ranking[i] # ranking[j]

\* c is e with u's position closed out; the orders are for a later step.
DroppedFrom(c, e, extra, n, u, r, k, fee) ==
  /\ Good(c, extra, n + (k - r - fee - MarginOf(e.positions, u)))
  /\ Shrunk(c.positions, e.positions)
  /\ DOMAIN c.positions = DOMAIN e.positions \ {u}
  /\ c.orders = e.orders

LEMMA DropGood ==
  ASSUME NEW e, NEW extra, NEW n \in Int, Good(e, extra, n), NEW u \in Users,
         NEW r \in Int, NEW k \in Nat, NEW fee \in Nat, fee <= e.available[FEE],
         NEW c, c = ClosedOut(e, u, r, k, fee)
  PROVE  DroppedFrom(c, e, extra, n, u, r, k, fee)
<1>1. Good(c, extra, n + (k - r - fee - MarginOf(e.positions, u)))
  BY ClosedGood
<1>2. c.positions = Without(e.positions, {u}) /\ c.orders = e.orders
  BY DEF ClosedOut, Holding
<1>3. Shrunk(c.positions, e.positions) /\ DOMAIN c.positions = DOMAIN e.positions \ {u}
  BY <1>2 DEF Shrunk, Without
<1> QED BY <1>1, <1>2, <1>3 DEF DroppedFrom

\* c is what closing the winner u makes of the engine when `cut` of its profit is
\* kept for the debt.
WinnerPaid(m, acc, u, c, extra, n, cut) ==
  /\ cut <= acc.rest /\ Good(c, extra, n + (acc.rest - cut))
  /\ c.positions = Without(acc.e.positions, {u}) /\ c.orders = acc.e.orders
  /\ Shrunk(c.positions, acc.e.positions)
  /\ DOMAIN c.positions = DOMAIN acc.e.positions \ {u}
  /\ c.locked = acc.e.locked
  /\ \A a \in Accounts \ {u, CLEARING} : c.available[a] = acc.e.available[a]
  /\ Deleverage(m, acc, u) = [e |-> Cancelled(c, OrdersOf(c, u)),
                              rest |-> acc.rest - cut]

\* One winner, as long as there is debt: what is taken is no more than the debt.
LEMMA WinnerGood ==
  ASSUME NEW e, Held(e.positions), NEW extra, NEW n \in Int, NEW m \in Int,
         NEW ranking, Ranks(ranking, m, e), NEW i \in 1..Len(ranking),
         NEW acc, Clawing(acc, e, extra, n, ranking, i - 1), acc.rest # 0,
         NEW u, u = ranking[i], NEW c, c = ClosedWinner(m, acc, u)
  PROVE  \E cut \in Nat : WinnerPaid(m, acc, u, c, extra, n, cut)
<1>n. Len(ranking) \in Nat /\ i \in Nat
  BY DEF Ranks
<1>1. u \in WinnersOf(m, e)
  BY <1>n DEF Ranks
<1>2. /\ u \in DOMAIN e.positions /\ u \in Users
      /\ e.positions[u] \in Position /\ e.positions[u].margin >= 0
      /\ UnrealizedPnl(e.positions[u], m) > 0
  BY <1>1 DEF WinnersOf, Held
<1>s. PICK s, rest : s = acc.e /\ rest = acc.rest
  OBVIOUS
<1>3. /\ rest \in Nat /\ Good(s, extra, n + rest)
      /\ Cleared(s, e) /\ Shrunk(s.positions, e.positions)
      /\ \A j \in 1..Len(ranking) : i - 1 < j => ranking[j] \in DOMAIN s.positions
  BY <1>s DEF Clawing, Cleared
<1>4. u \in DOMAIN s.positions /\ s.positions[u] = e.positions[u]
  <2>1. i - 1 < i
    BY <1>n
  <2> QED BY <2>1, <1>3 DEF Shrunk
<1>p. PICK p : p = s.positions[u]
  OBVIOUS
<1>5. PICK margin \in Nat, re \in Nat \ {0} :
        margin = p.margin /\ re = UnrealizedPnl(p, m)
  <2>1. p.size \in Int /\ p.entry \in Int /\ p.margin \in Int /\ p.margin >= 0
        /\ UnrealizedPnl(p, m) > 0
    BY <1>2, <1>4, <1>p DEF Position
  <2>2. UnrealizedPnl(p, m) \in Int
    BY <2>1, PnlInt
  <2>3. p.margin \in Nat /\ UnrealizedPnl(p, m) \in Nat \ {0}
    BY <2>1, <2>2
  <2> QED BY <2>3
<1>6. PICK cut \in Nat : cut = MinBig(rest, re) /\ cut <= rest /\ cut <= re
  BY <1>3, MinNat
<1>7. PICK k \in Nat : k = margin + re - cut
  <2>1. margin + re - cut \in Nat
    BY <1>5, <1>6
  <2> QED BY <2>1
<1>w. PICK w \in [Accounts -> Int] : w = s.available
  BY <1>3 DEF Good, Shape
<1>8. c = [s EXCEPT
             !.positions = Without(@, {u}),
             !.available = Credit(Credit(@, CLEARING, -re), u, margin + re - cut)]
  BY <1>s, <1>p, <1>5, <1>6 DEF ClosedWinner, Haircut
<1>9. Deleverage(m, acc, u) = [e |-> Cancelled(c, OrdersOf(c, u)), rest |-> rest - cut]
  BY <1>s, <1>p, <1>5, <1>6 DEF Deleverage, Haircut
<1>10. /\ c = ClosedOut(s, u, re, k, 0)
       /\ c.positions = Without(s.positions, {u}) /\ c.locked = s.locked
       /\ \A y \in Accounts \ {u, CLEARING} : c.available[y] = s.available[y]
  <2>1. PICK a, l, h, o, b : a = s.available /\ l = s.locked /\ h = s.positions
                             /\ o = s.orders /\ b = s.book
    OBVIOUS
  <2>2. s = [available |-> a, locked |-> l, positions |-> h, orders |-> o, book |-> b]
    BY <1>3, <2>1 DEF Good, Shape, Fields
  <2>3. PICK x : x = Credit(Credit(a, CLEARING, -re), u, k)
    OBVIOUS
  <2>4. c = [available |-> x, locked |-> l, positions |-> Without(h, {u}),
             orders |-> o, book |-> b]
    BY <1>7, <1>8, <2>2, <2>3
  <2>5. a \in [Accounts -> Int] /\ u \in Accounts /\ CLEARING \in Accounts /\ -re \in Int
    BY <1>w, <2>1, <1>2, <1>5, AccountsFinite
  <2>6. PICK z \in [Accounts -> Int] :
          /\ z = Credit(a, CLEARING, -re)
          /\ \A y \in Accounts \ {CLEARING} : z[y] = a[y]
    <3>1. /\ Credit(a, CLEARING, -re) \in [Accounts -> Int]
          /\ \A y \in Accounts \ {CLEARING} : Credit(a, CLEARING, -re)[y] = a[y]
      BY <2>5 DEF Credit
    <3> QED BY <3>1
  <2>7. x = Credit(z, u, k)
    BY <2>3, <2>6
  <2>8. /\ x \in [Accounts -> Int]
        /\ \A y \in Accounts \ {u, CLEARING} : x[y] = a[y]
    BY <2>5, <2>6, <2>7, SMTT(20) DEF Credit
  <2>9. Credit(x, FEE, -0) = x
    BY <2>8, AccountsFinite, CreditNothing
  <2>10. c = ClosedOut(s, u, re, k, 0)
    BY <2>1, <2>3, <2>4, <2>9 DEF ClosedOut, Holding
  <2> QED BY <2>1, <2>4, <2>8, <2>10
<1>11. 0 <= s.available[FEE]
  BY <1>3, AccountsFinite DEF Good, NoDebt
<1>12. /\ Good(c, extra, n + rest + (k - re - 0 - MarginOf(s.positions, u)))
       /\ Shrunk(c.positions, s.positions)
       /\ DOMAIN c.positions = DOMAIN s.positions \ {u}
       /\ c.orders = s.orders
  <2>1. PICK nr \in Int : nr = n + rest
    <3>1. n + rest \in Int
      BY <1>3
    <3> QED BY <3>1
  <2>z. PICK z \in Nat : z = 0
    OBVIOUS
  <2>2. re \in Int /\ u \in Users /\ Good(s, extra, nr) /\ nr \in Int
        /\ z <= s.available[FEE] /\ c = ClosedOut(s, u, re, k, z)
    BY <1>2, <1>3, <1>10, <1>11, <2>1, <2>z
  <2>3. DroppedFrom(c, s, extra, nr, u, re, k, z)
    BY <2>2, DropGood
  <2> QED BY <2>1, <2>3, <2>z DEF DroppedFrom
<1>13. Good(c, extra, n + (rest - cut))
  <2>1. MarginOf(s.positions, u) = margin
    BY <1>4, <1>p, <1>5 DEF MarginOf
  <2>2. n + rest + (k - re - 0 - margin) = n + (rest - cut)
    BY <1>3, <1>7
  <2> QED BY <1>12, <2>1, <2>2
<1> QED BY <1>6, <1>9, <1>10, <1>12, <1>13, <1>s DEF WinnerPaid

LEMMA DeleverageStep ==
  ASSUME NEW e, Held(e.positions), NEW extra, NEW n \in Int, NEW m \in Int,
         NEW ranking, Ranks(ranking, m, e), NEW i \in 1..Len(ranking),
         NEW acc, Clawing(acc, e, extra, n, ranking, i - 1),
         NEW r, r = Deleverage(m, acc, ranking[i])
  PROVE  Clawing(r, e, extra, n, ranking, i)
<1>u. PICK u : u = ranking[i]
  OBVIOUS
<1>n. Len(ranking) \in Nat /\ i \in Nat
  BY DEF Ranks
<1>1. u \in WinnersOf(m, e)
  BY <1>u, <1>n DEF Ranks
<1>2. /\ u \in DOMAIN e.positions /\ u \in Users
      /\ e.positions[u] \in Position /\ e.positions[u].margin >= 0
      /\ UnrealizedPnl(e.positions[u], m) > 0
  BY <1>1 DEF WinnersOf, Held
<1>s. PICK s, rest : s = acc.e /\ rest = acc.rest
  OBVIOUS
<1>3. /\ rest \in Nat /\ Good(s, extra, n + rest)
      /\ Cleared(s, e) /\ Shrunk(s.positions, e.positions)
      /\ \A j \in 1..Len(ranking) : i - 1 < j => ranking[j] \in DOMAIN s.positions
  BY <1>s DEF Clawing, Cleared
<1>4. \A j \in 1..Len(ranking) : i < j => ranking[j] \in DOMAIN s.positions
                                          /\ ranking[j] # u
  BY <1>3, <1>n, <1>u, SMTT(20) DEF Ranks
<1>5. CASE rest = 0
  <2>1. r = acc
    BY <1>5, <1>s DEF Deleverage
  <2> QED BY <2>1, <1>3, <1>4, <1>s DEF Clawing
<1>6. CASE rest # 0
  <2>c. PICK c : c = ClosedWinner(m, acc, u)
    OBVIOUS
  <2>1. PICK cut \in Nat : WinnerPaid(m, acc, u, c, extra, n, cut)
    <3>1. acc.rest # 0 /\ u = ranking[i]
      BY <1>6, <1>s, <1>u
    <3> QED BY <3>1, <2>c, WinnerGood
  <2>6. r = [e |-> Cancelled(c, OrdersOf(c, u)), rest |-> rest - cut]
    BY <2>1, <1>u, <1>s DEF WinnerPaid
  <2>9. /\ Shrunk(c.positions, s.positions)
        /\ DOMAIN c.positions = DOMAIN s.positions \ {u}
        /\ c.orders = s.orders
    BY <2>1, <1>s DEF WinnerPaid
  <2>10. Good(c, extra, n + (rest - cut)) /\ cut <= rest
    BY <2>1, <1>s DEF WinnerPaid
  <2>11. /\ Good(r.e, extra, n + r.rest) /\ r.e.positions = c.positions
         /\ DOMAIN r.e.orders = DOMAIN c.orders \ OrdersOf(c, u)
         /\ \A x \in DOMAIN r.e.orders : r.e.orders[x] = c.orders[x]
         /\ r.rest \in Nat
    <3>1. PICK t : t = Cancelled(c, OrdersOf(c, u))
      OBVIOUS
    <3>2. OrdersOf(c, u) \in SUBSET (DOMAIN c.orders)
      BY DEF OrdersOf
    <3>3. /\ Good(t, extra, n + (rest - cut)) /\ t.positions = c.positions
          /\ DOMAIN t.orders = DOMAIN c.orders \ OrdersOf(c, u)
          /\ \A x \in DOMAIN t.orders : t.orders[x] = c.orders[x]
      BY <2>10, <3>1, <3>2, CancelledGood
    <3>4. r.e = t /\ r.rest = rest - cut
      BY <2>6, <3>1
    <3>5. rest - cut \in Nat
      BY <1>3, <2>10
    <3> QED BY <3>3, <3>4, <3>5
  <2>12. Cleared(r.e, e)
    <3>1. Shrunk(r.e.positions, e.positions)
      BY <1>3, <2>9, <2>11 DEF Shrunk
    <3>2. DOMAIN r.e.orders \subseteq DOMAIN e.orders
      BY <1>3, <2>9, <2>11 DEF Cleared
    <3>3. ASSUME NEW x \in DOMAIN r.e.orders
          PROVE  /\ r.e.orders[x] = e.orders[x]
                 /\ r.e.orders[x].user \in DOMAIN e.positions =>
                      r.e.orders[x].user \in DOMAIN r.e.positions
      <4>1. /\ x \in DOMAIN c.orders /\ x \notin OrdersOf(c, u)
            /\ r.e.orders[x] = c.orders[x] /\ x \in DOMAIN s.orders
            /\ c.orders[x] = s.orders[x]
        BY <2>9, <2>11
      <4>2. c.orders[x].user # u
        BY <4>1 DEF OrdersOf
      <4>3. /\ s.orders[x] = e.orders[x]
            /\ s.orders[x].user \in DOMAIN e.positions =>
                 s.orders[x].user \in DOMAIN s.positions
        BY <4>1, <1>3 DEF Cleared
      <4> QED BY <4>1, <4>2, <4>3, <2>9, <2>11
    <3> QED BY <3>1, <3>2, <3>3 DEF Cleared
  <2>13. \A j \in 1..Len(ranking) : i < j => ranking[j] \in DOMAIN r.e.positions
    BY <1>4, <2>9, <2>11
  <2> QED BY <2>11, <2>12, <2>13 DEF Clawing
<1> QED BY <1>5, <1>6

\* g is the recursive function that adlClawback's loop is defined by, over the
\* first n winners.
IsClaw(g, m, e, rest, ranking, n) ==
  g = [i \in 0..n |-> IF i = 0 THEN [e |-> e, rest |-> rest]
                      ELSE Deleverage(m, g[i - 1], ranking[i])]

LEMMA ClawExists ==
  ASSUME NEW m, NEW e, NEW rest, NEW ranking, NEW n \in Nat
  PROVE  \E g : IsClaw(g, m, e, rest, ranking, n)
<1> DEFINE B == {k \in Nat : ~ \E g : IsClaw(g, m, e, rest, ranking, k)}
<1>1. SUFFICES ASSUME B # {} PROVE FALSE
  BY <1>1
<1>2. PICK k \in B : \A j \in B : k <= j
  <2> HIDE DEF B
  <2>1. B \in SUBSET Nat
    BY DEF B
  <2> QED BY <1>1, <2>1, LeastNumber
<1>3. CASE k = 0
  <2> DEFINE g == [i \in 0..0 |-> [e |-> e, rest |-> rest]]
  <2>1. IsClaw(g, m, e, rest, ranking, 0)
    BY DEF IsClaw
  <2> QED BY <1>3, <2>1
<1>4. CASE k # 0
  <2>1. k - 1 \in Nat /\ k - 1 \notin B
    BY <1>2, <1>4
  <2>2. PICK g : IsClaw(g, m, e, rest, ranking, k - 1)
    BY <2>1
  <2> DEFINE last == Deleverage(m, g[k - 1], ranking[k])
             h == [i \in 0..k |-> IF i = k THEN last ELSE g[i]]
  <2>3. ASSUME NEW i \in 0..k
        PROVE  h[i] = IF i = 0 THEN [e |-> e, rest |-> rest]
                      ELSE Deleverage(m, h[i - 1], ranking[i])
    <3>1. CASE i = k
      <4>1. k \in Nat /\ k - 1 \in 0..k /\ k \in 0..k /\ k - 1 # k
        BY <2>1, <1>2
      <4>2. h[k - 1] = g[k - 1] /\ h[k] = last
        BY <4>1
      <4> QED BY <3>1, <4>2, <1>4
    <3>2. CASE i # k /\ i # 0
      <4>1. i \in 0..k - 1 /\ i - 1 \in 0..k /\ i - 1 # k
        BY <3>2, <1>2
      <4>2. g[i] = Deleverage(m, g[i - 1], ranking[i])
        BY <2>2, <3>2, <4>1 DEF IsClaw
      <4>3. h[i] = g[i] /\ h[i - 1] = g[i - 1]
        BY <3>2, <4>1
      <4> HIDE DEF h
      <4> QED BY <3>2, <4>2, <4>3
    <3>3. CASE i # k /\ i = 0
      <4>1. i \in 0..k - 1
        BY <3>3, <1>2
      <4>2. g[0] = [e |-> e, rest |-> rest]
        BY <2>2, <3>3, <4>1 DEF IsClaw
      <4> QED BY <3>3, <4>2
    <3> QED BY <3>1, <3>2, <3>3
  <2> HIDE DEF last
  <2>4. IsClaw(h, m, e, rest, ranking, k)
    BY <2>3 DEF IsClaw
  <2> QED BY <2>4
<1> QED BY <1>3, <1>4

LEMMA ClawedIs ==
  ASSUME NEW m, NEW e, NEW rest, NEW s, s = Ranking(m, e), NEW k \in Nat, k = Len(s)
  PROVE  IsClaw(Clawed(m, e, rest), m, e, rest, s, k)
<1>1. Clawed(m, e, rest) =
        CHOOSE g : IsClaw(g, m, e, rest, Ranking(m, e), Len(Ranking(m, e)))
  BY DEF Clawed, IsClaw
<1>2. \E g : IsClaw(g, m, e, rest, s, k)
  BY ClawExists
<1>3. IsClaw(CHOOSE g : IsClaw(g, m, e, rest, s, k), m, e, rest, s, k)
  BY <1>2
<1> QED BY <1>1, <1>3

\* Deleveraging takes from the winners no more than what is left of the debt,
\* one after the other.
LEMMA ClawedGood ==
  ASSUME NEW e, NEW extra, NEW n \in Int, NEW m \in Int, NEW rest \in Nat,
         Good(e, extra, n + rest), NEW g, g = Clawed(m, e, rest),
         NEW s, s = Ranking(m, e)
  PROVE  /\ Ranks(s, m, e) /\ IsClaw(g, m, e, rest, s, Len(s))
         /\ \A i \in 0..Len(s) : Clawing(g[i], e, extra, n, s, i)
<1>0. Held(e.positions)
  BY DEF Good, Shape
<1>1. Ranks(s, m, e)
  BY <1>0, RankingFacts DEF Ranks
<1>2. PICK k \in Nat : k = Len(s)
  BY <1>1 DEF Ranks
<1>3. IsClaw(g, m, e, rest, s, k)
  BY <1>2, ClawedIs
<1> DEFINE B == {i \in 0..k : ~Clawing(g[i], e, extra, n, s, i)}
<1>4. B = {}
  <2> SUFFICES ASSUME B # {} PROVE FALSE
    OBVIOUS
  <2>1. PICK i \in B : \A j \in B : i <= j
    <3>1. B \in SUBSET Nat
      OBVIOUS
    <3> HIDE DEF B
    <3> QED BY <3>1, LeastNumber
  <2>2. i \in 0..k /\ g[i] = IF i = 0 THEN [e |-> e, rest |-> rest]
                             ELSE Deleverage(m, g[i - 1], s[i])
    BY <1>3 DEF IsClaw
  <2>3. CASE i = 0
    <3>1. PICK acc : acc = g[0]
      OBVIOUS
    <3>2. acc.e = e /\ acc.rest = rest
      BY <2>2, <2>3, <3>1
    <3>3. \A j \in 1..Len(s) : s[j] \in DOMAIN e.positions
      <4>1. WinnersOf(m, e) \subseteq DOMAIN e.positions
        BY DEF WinnersOf
      <4>2. \A j \in 1..Len(s) : s[j] \in WinnersOf(m, e)
        BY <1>1 DEF Ranks
      <4> QED BY <4>1, <4>2
    <3>4. Cleared(e, e)
      BY DEF Shrunk, Cleared
    <3>5. Clawing(acc, e, extra, n, s, 0)
      BY <3>2, <3>3, <3>4 DEF Clawing
    <3> QED BY <2>1, <2>3, <3>1, <3>5
  <2>4. CASE i # 0
    <3>1. i - 1 \in 0..k /\ i - 1 \notin B /\ i \in 1..Len(s)
      BY <1>2, <2>1, <2>2, <2>4
    <3>2. Clawing(g[i - 1], e, extra, n, s, i - 1)
      BY <3>1
    <3>3. g[i] = Deleverage(m, g[i - 1], s[i])
      BY <2>2, <2>4
    <3>4. Clawing(g[i], e, extra, n, s, i)
      BY <1>0, <1>1, <3>1, <3>2, <3>3, DeleverageStep
    <3> QED BY <2>1, <3>4
  <2> QED BY <2>3, <2>4
<1>5. \A i \in 0..k : Clawing(g[i], e, extra, n, s, i)
  BY <1>4
<1> QED BY <1>1, <1>2, <1>3, <1>5

LEMMA ClawbackGood ==
  ASSUME NEW e, NEW extra, NEW n \in Int, NEW m \in Int, NEW rest \in Nat,
         Good(e, extra, n + rest), NEW r, r = AdlClawback(m, e, rest)
  PROVE  /\ r.rest \in Nat /\ Good(r.e, extra, n + r.rest)
         /\ Cleared(r.e, e)
<1>1. PICK g, s : g = Clawed(m, e, rest) /\ s = Ranking(m, e)
  OBVIOUS
<1>2. Ranks(s, m, e) /\ \A i \in 0..Len(s) : Clawing(g[i], e, extra, n, s, i)
  BY <1>1, ClawedGood
<1>3. Len(s) \in 0..Len(s)
  BY <1>2 DEF Ranks
<1>4. r = g[Len(s)] /\ Clawing(r, e, extra, n, s, Len(s))
  BY <1>1, <1>2, <1>3 DEF AdlClawback
<1> QED BY <1>4 DEF Clawing

\* What the clearing account absorbs.
LEMMA AbsorbedGood ==
  ASSUME NEW e, NEW extra, NEW n \in Int, NEW rest \in Nat, Good(e, extra, n + rest),
         NEW r, r = [e EXCEPT !.available = Credit(@, CLEARING, -rest)]
  PROVE  Good(r, extra, n) /\ r.positions = e.positions /\ r.orders = e.orders
<1>1. PICK a, l, h, o, b : a = e.available /\ l = e.locked /\ h = e.positions
                           /\ o = e.orders /\ b = e.book
  OBVIOUS
<1>2. e = [available |-> a, locked |-> l, positions |-> h, orders |-> o, book |-> b]
  BY <1>1 DEF Good, Shape, Fields
<1>3. a \in [Accounts -> Int] /\ Held(h) /\ Shape(e) /\ NoDebt(e)
  BY <1>1 DEF Good, Shape
<1>c. PICK c : c = Credit(a, CLEARING, -rest)
  OBVIOUS
<1>4. r = [available |-> c, locked |-> l, positions |-> h, orders |-> o, book |-> b]
  BY <1>2, <1>c
<1>5. r = Holding(e, c, h) /\ r.positions = h /\ r.orders = o
  BY <1>1, <1>4 DEF Holding
<1>6. CLEARING \in Accounts /\ IsFiniteSet(Accounts)
  BY AccountsFinite
<1>7. /\ c \in [Accounts -> Int] /\ c[CLEARING] = a[CLEARING] - rest
      /\ \A x \in Accounts \ {CLEARING} : c[x] = a[x]
  BY <1>3, <1>6, <1>c DEF Credit
<1>8. \A x \in Accounts \ {CLEARING} : c[x] >= 0
  BY <1>1, <1>3, <1>7 DEF NoDebt
<1>z. PICK z : z = [x \in Accounts |-> 0]
  OBVIOUS
<1>d. PICK d : d = [x \in Accounts |-> IF x = CLEARING THEN -rest ELSE 0]
  OBVIOUS
<1>9. /\ \A x \in Accounts : z[x] \in Int /\ d[x] \in Int /\ z[x] = 0
      /\ \A x \in Accounts \ {CLEARING} : d[x] = z[x]
      /\ z[CLEARING] = 0 /\ d[CLEARING] = -rest
  BY <1>6, <1>d, <1>z
<1>10. SumFunctionOnSet(d, Accounts) = -rest
  <2>1. SumFunctionOnSet(d, Accounts)
          = SumFunctionOnSet(z, Accounts) + (d[CLEARING] - z[CLEARING])
    BY <1>6, <1>9, SumChange
  <2>2. SumFunctionOnSet(z, Accounts) = 0
    BY <1>6, <1>9, SumZero
  <2> QED BY <2>1, <2>2, <1>9
<1>11. Gains(e, c, h, d)
  <2> SUFFICES ASSUME NEW x \in Accounts
               PROVE  /\ d[x] \in Int
                      /\ c[x] + MarginOf(h, x)
                           = e.available[x] + MarginOf(e.positions, x) + d[x]
    BY DEF Gains
  <2>1. PICK w \in Int, m \in Nat : w = a[x] /\ m = MarginOf(h, x)
    BY <1>1, <1>3, WorthInt
  <2>2. c[x] = w + d[x] /\ d[x] \in Int
    <3>1. CASE x = CLEARING
      BY <3>1, <2>1, <1>7, <1>9
    <3>2. CASE x # CLEARING
      BY <3>2, <2>1, <1>7, <1>9
    <3> QED BY <3>1, <3>2
  <2> QED BY <2>1, <2>2, <1>1
<1>12. Good(Holding(e, c, h), extra, n + rest + SumFunctionOnSet(d, Accounts))
  <2>1. PICK k \in Int : k = n + rest
    <3>1. n + rest \in Int
      OBVIOUS
    <3> QED BY <3>1
  <2>2. Good(e, extra, k)
    BY <2>1
  <2>3. Good(Holding(e, c, h), extra, k + SumFunctionOnSet(d, Accounts))
    BY <2>2, <1>3, <1>7, <1>8, <1>11, HoldingGood
  <2> QED BY <2>1, <2>3
<1>13. n + rest + SumFunctionOnSet(d, Accounts) = n
  BY <1>10
<1> QED BY <1>1, <1>5, <1>12, <1>13

\* What remains of the sweep's list is still as it should be when positions
\* only closed.
LEMMA SweepTail ==
  ASSUME PInv, pc = "sweep", sweep # <<>>, sweep' = Tail(sweep), pc' = pc,
         Shrunk(positions', positions)
  PROVE  SweepSound'
<1>s. PICK s, t, h, old : s = sweep /\ t = sweep' /\ h = positions' /\ old = positions
  OBVIOUS
<1>S. PICK S : S = [user : Users, pos : Position]
  OBVIOUS
<1>1. /\ s \in Seq(S) /\ s # <<>> /\ t = Tail(s)
      /\ \A i \in 1..Len(s) : s[i].user \in DOMAIN old => old[s[i].user] = s[i].pos
      /\ \A i, j \in 1..Len(s) : i < j => s[i].user # s[j].user
  BY <1>s, <1>S DEF PInv, SweepSound
<1>n. PICK n \in Nat : n + 1 = Len(s)
  <2>1. Len(s) \in Nat /\ Len(s) # 0
    BY <1>1
  <2>2. Len(s) - 1 \in Nat /\ (Len(s) - 1) + 1 = Len(s)
    BY <2>1
  <2> QED BY <2>2
<1>2. /\ t \in Seq(S) /\ Len(t) = n
      /\ \A i \in 1..n : t[i] = s[i + 1] /\ i + 1 \in 1..Len(s)
  BY <1>1, <1>n
<1>3. \A i \in 1..n : t[i].user \in DOMAIN h => h[t[i].user] = t[i].pos
  <2> SUFFICES ASSUME NEW i \in 1..n, t[i].user \in DOMAIN h
               PROVE  h[t[i].user] = t[i].pos
    OBVIOUS
  <2>1. PICK j \in 1..Len(s) : t[i] = s[j]
    BY <1>2
  <2> QED BY <2>1, <1>1, <1>s DEF Shrunk
<1>4. \A i, j \in 1..n : i < j => t[i].user # t[j].user
  <2> SUFFICES ASSUME NEW i \in 1..n, NEW j \in 1..n, i < j
               PROVE  t[i].user # t[j].user
    OBVIOUS
  <2>1. t[i] = s[i + 1] /\ t[j] = s[j + 1] /\ i + 1 \in 1..Len(s)
        /\ j + 1 \in 1..Len(s) /\ i + 1 < j + 1
    BY <1>2
  <2> QED BY <2>1, <1>1
<1>5. \A i \in 1..Len(t) : t[i].user \in DOMAIN h => h[t[i].user] = t[i].pos
  BY <1>2, <1>3
<1>6. \A i, j \in 1..Len(t) : i < j => t[i].user # t[j].user
  BY <1>2, <1>4
<1> QED BY <1>2, <1>5, <1>6, <1>s, <1>S DEF SweepSound

\* A step of the sweep from one sound state to another.
LEMMA SweepStep ==
  ASSUME PInv, pc = "sweep", sweep # <<>>, sweep' = Tail(sweep), pc' = pc,
         Shrunk(positions', positions), Good(Engine', InFlight, supply' + phantom'),
         Settings', DOMAIN orders' \subseteq DOMAIN orders,
         UNCHANGED <<nextId, taker>>
  PROVE  PInv'
<1>1. SweepSound'
  BY SweepTail
<1>2. TakerSound' /\ taker' = NoOrder
  BY DEF TakerSound, PInv
<1>3. InFlight' = InFlight
  BY DEF InFlight
<1>4. DOMAIN orders' \subseteq 1..nextId' - 1
  BY DEF PInv
<1> QED BY <1>1, <1>2, <1>3, <1>4 DEF PInv

LEMMA PassHealthyInv ==
  ASSUME PInv, PassHealthy
  PROVE  PInv'
<1>1. /\ pc = "sweep" /\ sweep # <<>> /\ sweep' = Tail(sweep) /\ pc' = pc
      /\ UNCHANGED <<available, locked, positions, orders, book, nextId, taker,
                     leverages, mark, adl, supply, phantom>>
  BY DEF PassHealthy, ledger, settings, history
<1>2. Engine' = Engine
  BY <1>1 DEF Engine
<1>3. Good(Engine', InFlight, supply' + phantom')
  BY <1>1, <1>2 DEF PInv
<1>4. Shrunk(positions', positions)
  BY <1>1 DEF Shrunk
<1>5. Settings'
  BY <1>1 DEF PInv, Settings
<1> QED BY <1>1, <1>3, <1>4, <1>5, SweepStep

LEMMA FinishSweepInv ==
  ASSUME PInv, FinishSweep
  PROVE  PInv'
<1>1. /\ pc = "sweep" /\ sweep = <<>> /\ pc' = "idle" /\ sweep' = sweep
      /\ UNCHANGED <<available, locked, positions, orders, book, nextId, taker,
                     leverages, mark, adl, supply, phantom>>
  BY DEF FinishSweep, ledger, settings, history
<1>2. Engine' = Engine /\ InFlight' = InFlight
  BY <1>1 DEF Engine, InFlight
<1>3. Good(Engine', InFlight', supply' + phantom')
  BY <1>1, <1>2 DEF PInv
<1>4. Settings' /\ taker' = NoOrder /\ DOMAIN orders' \subseteq 1..nextId' - 1
  BY <1>1 DEF PInv, Settings
<1> QED BY <1>1, <1>3, <1>4, QuietStep

\* The forced close of a position p of u: what the fee account does not cover of
\* the debt is money there is too much of, and so is the margin of a position
\* that was closed before.
LEMMA ForcedGood ==
  ASSUME PInv, NEW u \in Users, NEW p \in Position,
         u \in DOMAIN positions => positions[u] = p,
         NEW c, c = ForceClosed(u, p), NEW debt, debt = Deficit(p) - FeeCover(p),
         NEW n, n = supply + (phantom + IF u \in DOMAIN positions THEN 0 ELSE p.margin)
  PROVE  /\ debt \in Nat /\ n \in Int /\ Good(c, InFlight, n + debt)
         /\ Shrunk(c.positions, positions) /\ c.orders = orders
         /\ DOMAIN c.positions = DOMAIN positions \ {u}
<1>e. PICK e, extra : e = Engine /\ extra = InFlight
  OBVIOUS
<1>n. PICK n0 \in Int : n0 = supply + phantom
  BY DEF PInv, Settings
<1>0. /\ Good(e, extra, n0) /\ Shape(e) /\ NoDebt(e) /\ e.positions = positions
      /\ e.orders = orders /\ e.available = available
  BY <1>e, <1>n, EngineParts DEF PInv, Good
<1>1. mark \in Int /\ supply \in Int /\ phantom \in Int
  BY PerpAssumption DEF PInv, Settings
<1>2. PICK margin \in Int, re \in Int : margin = p.margin /\ re = UnrealizedPnl(p, mark)
  <2>1. p.size \in Int /\ p.entry \in Int /\ p.margin \in Int
    BY DEF Position
  <2> QED BY <2>1, <1>1, PnlInt
<1>3. PICK deficit \in Nat : deficit = Deficit(p) /\ deficit = MaxBig(0, -(margin + re))
  <2>1. Deficit(p) = MaxBig(0, -(margin + re))
    BY <1>2 DEF Deficit
  <2>2. MaxBig(0, -(margin + re)) \in Nat
    BY DEF MaxBig
  <2> QED BY <2>1, <2>2
<1>f. PICK w \in Nat : w = available[FEE]
  <2>1. FEE \in Accounts \ {CLEARING}
    BY AccountsFinite
  <2>2. available[FEE] \in Int /\ available[FEE] >= 0
    BY <2>1, <1>0 DEF Shape, NoDebt
  <2> QED BY <2>2
<1>4. PICK fee \in Nat : fee = FeeCover(p) /\ fee <= deficit /\ fee <= w
  <2>1. MaxBig(0, w) = w
    BY DEF MaxBig
  <2>2. FeeCover(p) = MinBig(deficit, w)
    BY <2>1, <1>3, <1>f DEF FeeCover
  <2> QED BY <2>2, MinNat
<1>5. PICK k \in Nat : k = MaxBig(0, margin + re)
  BY DEF MaxBig
<1>6. k = margin + re + deficit
  BY <1>3, <1>5 DEF MaxBig
<1>7. c = ClosedOut(e, u, re, k, fee)
  <2>1. PICK a, l, h, o, b : a = available /\ l = locked /\ h = positions
                             /\ o = orders /\ b = book
    OBVIOUS
  <2>2. e = [available |-> a, locked |-> l, positions |-> h, orders |-> o, book |-> b]
    BY <1>e, <2>1 DEF Engine
  <2>x. PICK x : x = Credit(Credit(Credit(a, CLEARING, -re), u, k), FEE, -fee)
    OBVIOUS
  <2>3. c = [e EXCEPT
              !.positions = Without(@, {u}),
              !.available = Credit(Credit(Credit(@, CLEARING, -re), u, k), FEE, -fee)]
    BY <1>e, <1>2, <1>4, <1>5 DEF ForceClosed
  <2>4. c = [available |-> x, locked |-> l, positions |-> Without(h, {u}),
             orders |-> o, book |-> b]
    BY <2>2, <2>3, <2>x
  <2>5. e.available = a /\ e.locked = l /\ e.positions = h /\ e.orders = o /\ e.book = b
    BY <2>2
  <2> QED BY <2>4, <2>5, <2>x DEF ClosedOut, Holding
<1>8. /\ Good(c, extra, n0 + (k - re - fee - MarginOf(e.positions, u)))
      /\ Shrunk(c.positions, e.positions) /\ c.orders = e.orders
      /\ DOMAIN c.positions = DOMAIN e.positions \ {u}
  <2>1. fee <= e.available[FEE]
    BY <1>0, <1>4, <1>f
  <2>2. Good(e, extra, n0)
    BY <1>0
  <2>3. PICK x : x = ClosedOut(e, u, re, k, fee)
    OBVIOUS
  <2>4. DroppedFrom(x, e, extra, n0, u, re, k, fee)
    BY <2>1, <2>2, <2>3, DropGood
  <2> QED BY <2>3, <2>4, <1>7 DEF DroppedFrom
<1>d. debt = deficit - fee /\ debt \in Nat
  <2>1. debt = deficit - fee
    BY <1>3, <1>4
  <2> QED BY <2>1, <1>3, <1>4
<1>9. n \in Int /\ n0 + (k - re - fee - MarginOf(e.positions, u)) = n + debt
  <2>k. k - re - fee = margin + debt
    BY <1>6, <1>d
  <2>1. CASE u \in DOMAIN positions
    <3>1. MarginOf(e.positions, u) = margin
      BY <2>1, <1>0, <1>2 DEF MarginOf
    <3>2. n = n0
      BY <2>1, <1>1, <1>n
    <3>3. n0 + (k - re - fee - margin) = n0 + debt
      BY <2>k, <1>d
    <3> QED BY <3>1, <3>2, <3>3
  <2>2. CASE u \notin DOMAIN positions
    <3>1. MarginOf(e.positions, u) = 0
      BY <2>2, <1>0 DEF MarginOf
    <3>2. n = n0 + margin
      BY <2>2, <1>1, <1>2, <1>n
    <3>3. n0 + (k - re - fee - 0) = n0 + margin + debt
      BY <2>k, <1>d
    <3> QED BY <3>1, <3>2, <3>3
  <2> QED BY <2>1, <2>2
<1>10. Good(c, extra, n + debt)
  BY <1>8, <1>9
<1> QED BY <1>0, <1>8, <1>9, <1>10, <1>d, <1>e

\* The parts of a liquidation: the position p of u, the debt it leaves, what the
\* clawback makes of it, and the engine once the clearing account has paid the
\* rest.
LiquidationCase(u, p, debt, k, paid) ==
  /\ u = Visited.user /\ p = Visited.pos /\ debt = Deficit(p) - FeeCover(p)
  /\ k = IF adl THEN AdlClawback(mark, ForceClosed(u, p), debt)
                ELSE [e |-> ForceClosed(u, p), rest |-> debt]
  /\ paid = [k.e EXCEPT !.available = Credit(@, CLEARING, -k.rest)]

\* The money there is in each of them, up to n.
LiquidationGood(u, p, debt, k, paid, n) ==
  LET c == ForceClosed(u, p) IN
  /\ Good(c, InFlight, n + debt) /\ Shrunk(c.positions, positions)
  /\ c.orders = orders /\ DOMAIN c.positions = DOMAIN positions \ {u}
  /\ k.rest \in Nat /\ Good(k.e, InFlight, n + k.rest) /\ Cleared(k.e, c)
  /\ Good(paid, InFlight, n) /\ paid.positions = k.e.positions
  /\ paid.orders = k.e.orders

LEMMA LiquidationIs ==
  ASSUME PInv, Liquidate
  PROVE  \E u \in Users, p \in Position, debt \in Nat, n \in Int : \E k, paid :
           /\ LiquidationCase(u, p, debt, k, paid)
           /\ LiquidationGood(u, p, debt, k, paid, n)
           /\ Becomes(Cancelled(paid, OrdersOf(paid, u)))
           /\ phantom' = phantom + IF u \in DOMAIN positions THEN 0 ELSE p.margin
           /\ n = supply + (phantom + IF u \in DOMAIN positions THEN 0 ELSE p.margin)
<1> DEFINE x_u == Visited.user
           x_p == Visited.pos
           x_debt == Deficit(x_p) - FeeCover(x_p)
           x_clawed == IF adl THEN AdlClawback(mark, ForceClosed(x_u, x_p), x_debt)
                              ELSE [e |-> ForceClosed(x_u, x_p), rest |-> x_debt]
           x_paid == [x_clawed.e EXCEPT !.available = Credit(@, CLEARING, -x_clawed.rest)]
<1>1. /\ pc = "sweep" /\ sweep # <<>>
      /\ Becomes(Cancelled(x_paid, OrdersOf(x_paid, x_u)))
      /\ sweep' = Tail(sweep)
      /\ phantom' = phantom + IF x_u \in DOMAIN positions THEN 0 ELSE x_p.margin
      /\ UNCHANGED <<nextId, pc, taker, pending, settings, supply>>
  BY DEF Liquidate
<1>2. /\ x_u \in Users /\ x_p \in Position
      /\ x_u \in DOMAIN positions => positions[x_u] = x_p
  <2>S. PICK S : S = [user : Users, pos : Position]
    OBVIOUS
  <2>1. PICK s : s = sweep /\ s \in Seq(S) /\ s # <<>>
    BY <1>1, <2>S DEF PInv, SweepSound
  <2>2. Head(s) \in S /\ Head(s) = s[1] /\ 1 \in 1..Len(s)
    BY <2>1
  <2>3. \A i \in 1..Len(s) : s[i].user \in DOMAIN positions =>
          positions[s[i].user] = s[i].pos
    BY <2>1 DEF PInv, SweepSound
  <2>4. Visited = s[1]
    BY <2>1, <2>2 DEF Visited
  <2>5. Visited.user \in Users /\ Visited.pos \in Position
    BY <2>2, <2>4, <2>S
  <2> QED BY <2>2, <2>3, <2>4, <2>5
<1>u. PICK u \in Users, p \in Position : u = x_u /\ p = x_p
  BY <1>2
<1>c. PICK c : c = ForceClosed(u, p)
  OBVIOUS
<1>d. PICK debt : debt = Deficit(p) - FeeCover(p)
  OBVIOUS
<1>n. PICK n : n = supply + (phantom + IF u \in DOMAIN positions THEN 0 ELSE p.margin)
  OBVIOUS
<1>3. /\ debt \in Nat /\ n \in Int /\ Good(c, InFlight, n + debt)
      /\ Shrunk(c.positions, positions) /\ c.orders = orders
      /\ DOMAIN c.positions = DOMAIN positions \ {u}
  <2>1. u \in DOMAIN positions => positions[u] = p
    BY <1>2, <1>u
  <2> QED BY <2>1, <1>c, <1>d, <1>n, ForcedGood
<1>k. PICK k : k = x_clawed
  OBVIOUS
<1>4. k = IF adl THEN AdlClawback(mark, c, debt) ELSE [e |-> c, rest |-> debt]
  BY <1>k, <1>u, <1>c, <1>d
<1>g. PICK paid : paid = x_paid
  OBVIOUS
<1>5. paid = [k.e EXCEPT !.available = Credit(@, CLEARING, -k.rest)]
  BY <1>g, <1>k
<1>6. /\ Becomes(Cancelled(paid, OrdersOf(paid, u)))
      /\ phantom' = phantom + IF u \in DOMAIN positions THEN 0 ELSE p.margin
  BY <1>1, <1>g, <1>u
<1>v. x_u = Visited.user /\ x_p = Visited.pos
  OBVIOUS
<1> HIDE DEF x_u, x_p, x_debt, x_clawed, x_paid
<1>i. PICK extra : extra = InFlight
  OBVIOUS
<1>7. /\ k.rest \in Nat /\ Good(k.e, extra, n + k.rest)
      /\ Cleared(k.e, c)
  <2>1. CASE adl
    <3>1. k = AdlClawback(mark, c, debt)
      BY <2>1, <1>4
    <3>m. mark \in Int
      <4>1. mark \in Marks \cup {0}
        BY DEF PInv, Settings
      <4> QED BY <4>1, PerpAssumption
    <3>2. /\ k.rest \in Nat /\ Good(k.e, extra, n + k.rest)
          /\ Cleared(k.e, c)
      BY <3>1, <3>m, <1>3, <1>i, ClawbackGood
    <3> QED BY <3>2
  <2>2. CASE ~adl
    <3>1. k.e = c /\ k.rest = debt
      BY <2>2, <1>4
    <3>2. Cleared(c, c)
      BY DEF Cleared, Shrunk
    <3> QED BY <3>1, <3>2, <1>3, <1>i
  <2> QED BY <2>1, <2>2
<1>k2. PICK ke, rest : ke = k.e /\ rest = k.rest
  OBVIOUS
<1>8. Good(paid, extra, n) /\ paid.positions = ke.positions /\ paid.orders = ke.orders
  <2>1. rest \in Nat /\ Good(ke, extra, n + rest) /\ n \in Int
    BY <1>3, <1>7, <1>k2
  <2>2. paid = [ke EXCEPT !.available = Credit(@, CLEARING, -rest)]
    BY <1>5, <1>k2
  <2> QED BY <2>1, <2>2, AbsorbedGood
<1>9. LiquidationCase(u, p, debt, k, paid)
  BY <1>4, <1>5, <1>u, <1>v, <1>c, <1>d DEF LiquidationCase
<1>10. LiquidationGood(u, p, debt, k, paid, n)
  BY <1>3, <1>7, <1>8, <1>c, <1>i, <1>k2 DEF LiquidationGood
<1> QED BY <1>3, <1>6, <1>9, <1>10, <1>n

LEMMA LiquidateInv ==
  ASSUME PInv, Liquidate
  PROVE  PInv' /\ Cleared(Engine', Engine)
<1>1. /\ pc = "sweep" /\ sweep # <<>> /\ sweep' = Tail(sweep)
      /\ UNCHANGED <<nextId, pc, taker, pending, settings, supply>>
  BY DEF Liquidate
<1>2. PICK u \in Users, p \in Position, debt \in Nat, n \in Int : \E q, r :
        /\ LiquidationCase(u, p, debt, q, r)
        /\ LiquidationGood(u, p, debt, q, r, n)
        /\ Becomes(Cancelled(r, OrdersOf(r, u)))
        /\ phantom' = phantom + IF u \in DOMAIN positions THEN 0 ELSE p.margin
        /\ n = supply + (phantom + IF u \in DOMAIN positions THEN 0 ELSE p.margin)
  BY LiquidationIs
<1>4. PICK k, paid :
        /\ LiquidationGood(u, p, debt, k, paid, n)
        /\ Becomes(Cancelled(paid, OrdersOf(paid, u)))
        /\ phantom' = phantom + IF u \in DOMAIN positions THEN 0 ELSE p.margin
        /\ n = supply + (phantom + IF u \in DOMAIN positions THEN 0 ELSE p.margin)
  BY <1>2
<1>c. PICK c, extra, ke : c = ForceClosed(u, p) /\ extra = InFlight /\ ke = k.e
  OBVIOUS
<1>3. /\ Shrunk(c.positions, positions) /\ c.orders = orders
      /\ DOMAIN c.positions = DOMAIN positions \ {u} /\ Cleared(ke, c)
      /\ Good(paid, extra, n) /\ paid.positions = ke.positions
      /\ paid.orders = ke.orders
  BY <1>4, <1>c DEF LiquidationGood
<1>t. PICK t : t = Cancelled(paid, OrdersOf(paid, u))
  OBVIOUS
<1>9. /\ Good(t, extra, n) /\ t.positions = paid.positions
      /\ DOMAIN t.orders = DOMAIN paid.orders \ OrdersOf(paid, u)
      /\ \A x \in DOMAIN t.orders : t.orders[x] = paid.orders[x]
  <2>1. OrdersOf(paid, u) \in SUBSET (DOMAIN paid.orders)
    BY DEF OrdersOf
  <2>2. /\ Good(t, extra, n) /\ t.positions = paid.positions
        /\ DOMAIN t.orders = DOMAIN paid.orders \ OrdersOf(paid, u)
        /\ \A x \in DOMAIN t.orders : t.orders[x] = paid.orders[x]
    BY <2>1, <1>3, <1>t, CancelledGood
  <2> QED BY <2>2
<1>10. Becomes(t) /\ Fields(t)
  BY <1>4, <1>9, <1>t DEF Good, Shape
<1>11. Engine' = t /\ positions' = t.positions /\ orders' = t.orders
  BY <1>10, Became DEF Becomes
<1>12. supply' + phantom' = n
  <2>1. supply' = supply
    BY <1>1
  <2> QED BY <2>1, <1>4
<1>13. Good(Engine', InFlight, supply' + phantom')
  BY <1>9, <1>11, <1>12, <1>c
<1>h. PICK old, h : old = positions /\ h = c.positions
  OBVIOUS
<1>v. PICK live : live = orders
  OBVIOUS
<1>14. /\ Shrunk(t.positions, old) /\ DOMAIN t.orders \subseteq DOMAIN live
       /\ \A x \in DOMAIN t.orders :
            /\ t.orders[x] = live[x]
            /\ t.orders[x].user \in DOMAIN old => t.orders[x].user \in DOMAIN t.positions
  <2>1. /\ Shrunk(h, old) /\ DOMAIN h = DOMAIN old \ {u} /\ c.orders = live
    BY <1>3, <1>h, <1>v
  <2>2. /\ Shrunk(ke.positions, h) /\ DOMAIN ke.orders \subseteq DOMAIN live
        /\ \A x \in DOMAIN ke.orders :
             /\ ke.orders[x] = live[x]
             /\ live[x].user \in DOMAIN h => live[x].user \in DOMAIN ke.positions
    BY <1>3, <1>h, <2>1 DEF Cleared
  <2>3. Shrunk(t.positions, old)
    BY <1>3, <1>9, <2>1, <2>2 DEF Shrunk
  <2>4. ASSUME NEW x \in DOMAIN t.orders
        PROVE  /\ x \in DOMAIN live /\ t.orders[x] = live[x]
               /\ live[x].user \in DOMAIN old => live[x].user \in DOMAIN t.positions
    <3>1. x \in DOMAIN ke.orders /\ x \notin OrdersOf(paid, u)
          /\ t.orders[x] = ke.orders[x] /\ paid.orders = ke.orders
      BY <1>3, <1>9
    <3>2. ke.orders[x].user # u
      BY <3>1 DEF OrdersOf
    <3> QED BY <3>1, <3>2, <2>1, <2>2, <1>3, <1>9
  <2> QED BY <2>3, <2>4
<1>15. Cleared(Engine', Engine) /\ Shrunk(positions', positions)
       /\ DOMAIN orders' \subseteq DOMAIN orders
  BY <1>11, <1>14, <1>h, <1>v, EngineParts DEF Cleared
<1>16. Settings'
  <2>1. supply' \in Int /\ phantom' \in Int
    <3>1. supply \in Int /\ phantom \in Int /\ p.margin \in Int
      BY DEF PInv, Settings, Position
    <3> QED BY <3>1, <1>1, <1>4
  <2> QED BY <2>1, <1>1 DEF PInv, Settings, settings
<1>17. pc' = pc /\ nextId' = nextId /\ taker' = taker
  BY <1>1
<1>18. PInv'
  BY <1>1, <1>13, <1>16, <1>17, <1>15, SweepStep
<1> QED BY <1>15, <1>18

-----------------------------------------------------------------------------
(* The invariant holds.                                                    *)

\* What there is, in wallets, locks and margins.
LEMMA MoneyParts ==
  ASSUME NEW e, Shape(e), NEW f, \A u \in Accounts : f[u] = e.available[u] + e.locked[u]
  PROVE  Money(e) = SumFunctionOnSet(f, Accounts) + Margins(e.positions)
<1>h. PICK h, D : h = e.positions /\ D = DOMAIN h
  OBVIOUS
<1>w. PICK w : w = Worth(e)
  OBVIOUS
<1>k. PICK k : k = [u \in Accounts |-> MarginOf(h, u)]
  OBVIOUS
<1>m. PICK m : m = [u \in D |-> h[u].margin]
  OBVIOUS
<1>1. IsFiniteSet(Accounts) /\ D \in SUBSET Accounts
  BY AccountsFinite, <1>h DEF Shape, Held
<1>2. \A u \in Accounts : f[u] \in Int /\ k[u] \in Int /\ w[u] = f[u] + k[u]
  <2> TAKE u \in Accounts
  <2>1. /\ e.available[u] \in Int /\ e.locked[u] \in Int
        /\ MarginOf(h, u) \in Nat
        /\ w[u] = e.available[u] + e.locked[u] + MarginOf(h, u)
    BY <1>h, <1>w, WorthInt
  <2>2. f[u] = e.available[u] + e.locked[u] /\ k[u] = MarginOf(h, u)
    BY <1>k
  <2> QED BY <2>1, <2>2
<1>3. SumFunctionOnSet(w, Accounts)
        = SumFunctionOnSet(f, Accounts) + SumFunctionOnSet(k, Accounts)
  BY <1>1, <1>2, SumAdd
<1>4. \A u \in Accounts \ D : k[u] = 0
  BY <1>h, <1>k DEF MarginOf
<1>5. SumFunctionOnSet(k, Accounts) = SumFunctionOnSet(k, D)
  BY <1>1, <1>2, <1>4, SumPart
<1>6. SumFunctionOnSet(k, D) = SumFunctionOnSet(m, D)
  <2>1. IsFiniteSet(D)
    BY <1>1, FS_Subset
  <2>2. \A u \in D : k[u] = m[u]
    BY <1>1, <1>h, <1>k, <1>m DEF MarginOf
  <2> QED BY <2>1, <2>2, SumSame
<1>7. SumFunctionOnSet(m, D) = Margins(h)
  <2>1. DOMAIN m = D
    BY <1>m
  <2>2. Margins(h) = SumFunction(m)
    BY <1>h, <1>m DEF Margins
  <2> QED BY <2>1, <2>2 DEF SumFunction, SumFunctionOnSet
<1>8. Money(e) = SumFunctionOnSet(w, Accounts)
  BY <1>w DEF Money
<1> QED BY <1>3, <1>5, <1>6, <1>7, <1>8, <1>h

LEMMA PerpInitInv == Init => PInv
<1> SUFFICES ASSUME Init PROVE PInv
  OBVIOUS
<1>1. PICK s \in Starts :
        /\ available = s.available /\ positions = s.positions
        /\ leverages = s.leverages
        /\ supply = SumFunction(s.available) + Margins(s.positions)
  BY DEF Init
<1>2. /\ locked = [u \in Accounts |-> 0] /\ orders = [id \in {} |-> NoOrder]
      /\ book = [t \in Sides |-> <<>>]
      /\ nextId = 1 /\ mark = 0 /\ adl \in AdlModes
      /\ pc = "idle" /\ taker = NoOrder /\ pending = NoOrder /\ sweep = <<>>
      /\ marks = 0 /\ fundings = 0 /\ phantom = 0
  BY DEF Init
<1>3. /\ available \in [Accounts -> Nat] /\ leverages \in [Users -> 1..MaxLeverage]
      /\ DOMAIN positions \subseteq Users
      /\ \A u \in DOMAIN positions :
           positions[u] \in [size : Int \ {0}, entry : Nat \ {0}, margin : Nat,
                             leverage : {leverages[u]}]
  BY <1>1, PerpAssumption
<1>4. Held(positions)
  <2>1. ASSUME NEW u \in DOMAIN positions
        PROVE  positions[u] \in Position /\ positions[u].margin >= 0
    <3>1. leverages[u] \in 1..MaxLeverage
      BY <1>3
    <3>2. positions[u] \in [size : Int \ {0}, entry : Nat \ {0}, margin : Nat,
                            leverage : 1..MaxLeverage]
      BY <1>3, <3>1
    <3> QED BY <3>2 DEF Position
  <2> QED BY <1>3, <2>1 DEF Held
<1>5. Resting(orders)
  <2>1. DOMAIN orders = {}
    BY <1>2
  <2> QED BY <2>1, FS_EmptySet DEF Resting
<1>6. \A t \in Sides : Queue(t, book[t], orders)
  <2> TAKE t \in Sides
  <2>1. book[t] = <<>> /\ DOMAIN orders = {} /\ Len(book[t]) = 0
    BY <1>2
  <2>2. book[t] \in Seq(DOMAIN orders)
    BY <2>1
  <2> QED BY <2>1, <2>2 DEF Queue, PriceTime
<1>e. PICK e : e = Engine
  OBVIOUS
<1>7. /\ Fields(e) /\ e.available = available /\ e.locked = locked
      /\ e.positions = positions /\ e.orders = orders /\ e.book = book
  BY <1>e, EngineEq DEF Engine
<1>8. Shape(e)
  <2>1. locked \in [Accounts -> Int] /\ available \in [Accounts -> Int]
    BY <1>2, <1>3
  <2>2. book = [t \in Sides |-> book[t]]
    BY <1>2
  <2> QED BY <1>4, <1>5, <1>6, <1>7, <2>1, <2>2 DEF Shape
<1>9. NoDebt(e)
  BY <1>3, <1>7 DEF NoDebt
<1>i. PICK extra : extra = [u \in Accounts |-> 0]
  OBVIOUS
<1>10. InFlight = extra /\ extra \in [Accounts -> Int]
  BY <1>2, <1>i DEF InFlight
<1>11. Backed(e, extra)
  <2> SUFFICES ASSUME NEW u \in Accounts
               PROVE  locked[u] = LocksOf(orders, DOMAIN orders, u) + extra[u]
    BY <1>7 DEF Backed
  <2>1. DOMAIN orders = {} /\ locked[u] = 0 /\ extra[u] = 0
    BY <1>2, <1>i
  <2>2. LocksOf(orders, DOMAIN orders, u)
          = SumFunctionOnSet(Shares(orders, u), DOMAIN orders)
    BY <1>5, RestingTable, LocksAre
  <2>3. SumFunctionOnSet(Shares(orders, u), {}) = 0
    BY FS_EmptySet, SumEquation
  <2> QED BY <2>1, <2>2, <2>3
<1>12. Money(e) = supply
  <2>1. \A u \in Accounts : available[u] = e.available[u] + e.locked[u]
    <3> TAKE u \in Accounts
    <3>1. available[u] \in Int /\ locked[u] = 0
      BY <1>2, <1>3
    <3> QED BY <3>1, <1>7
  <2>2. Money(e) = SumFunctionOnSet(available, Accounts) + Margins(positions)
    BY <1>7, <1>8, <2>1, MoneyParts
  <2>3. SumFunction(available) = SumFunctionOnSet(available, Accounts)
    <3>1. DOMAIN available = Accounts
      BY <1>3
    <3> QED BY <3>1 DEF SumFunction, SumFunctionOnSet
  <2> QED BY <1>1, <2>2, <2>3
<1>13. supply \in Int
  <2>1. \A u \in Accounts : Worth(e)[u] \in Int
    BY <1>8, WorthInt
  <2>2. Money(e) \in Int
    BY <2>1, AccountsFinite, SumInt DEF Money
  <2> QED BY <1>12, <2>2
<1>14. Good(Engine, InFlight, supply + phantom)
  <2>1. supply + phantom = supply
    BY <1>2, <1>13
  <2> QED BY <2>1, <1>8, <1>9, <1>10, <1>11, <1>12, <1>e DEF Good
<1>15. Settings
  <2>1. adl \in BOOLEAN
    BY <1>2, PerpAssumption
  <2> QED BY <1>2, <1>3, <1>13, <2>1 DEF Settings
<1>16. TakerSound /\ SweepSound
  <2>1. <<>> \in Seq([user : Users, pos : Position]) /\ Len(<<>>) = 0
    OBVIOUS
  <2> QED BY <1>2, <2>1 DEF TakerSound, SweepSound
<1>17. DOMAIN orders \subseteq 1..nextId - 1
  BY <1>2
<1> QED BY <1>2, <1>14, <1>15, <1>16, <1>17 DEF PInv

LEMMA PerpNextInv == PInv /\ [Next]_vars => PInv'
<1> SUFFICES ASSUME PInv, [Next]_vars PROVE PInv'
  OBVIOUS
<1>1. CASE SubmitOrder
  BY <1>1, RejectInv, AcceptInv DEF SubmitOrder
<1>2. CASE MatchOrder
  BY <1>2, CancelMakerInv, ExecuteFillInv DEF MatchOrder
<1>3. CASE FinishSubmit
  BY <1>3, FinishSubmitInv
<1>4. CASE \E id \in DOMAIN orders : CancelOrder(id)
  BY <1>4, CancelOrderInv
<1>5. CASE \E id \in DOMAIN orders, ch \in Amendments : AmendOrder(id, ch)
  BY <1>5, AmendOrderInv
<1>6. CASE \E u \in Users, l \in Leverages : SetLeverage(u, l)
  BY <1>6, SetLeverageInv
<1>7. CASE \E m \in Marks : SetMarkPrice(m)
  BY <1>7, SetMarkPriceInv
<1>8. CASE \E r \in Rates : ApplyFunding(r)
  BY <1>8, ApplyFundingInv
<1>9. CASE LiquidationSweep
  BY <1>9, PassHealthyInv, LiquidateInv, FinishSweepInv DEF LiquidationSweep
<1>10. CASE \E t \in Transfers : Deposit(t) \/ Withdraw(t)
  BY <1>10, DepositInv, WithdrawInv
<1>11. CASE UNCHANGED vars
  <2>1. Engine' = Engine /\ InFlight' = InFlight /\ supply' = supply
        /\ phantom' = phantom
    BY <1>11 DEF vars, Engine, InFlight
  <2>2. Good(Engine', InFlight', supply' + phantom')
    BY <2>1 DEF PInv
  <2> QED BY <1>11, <2>2 DEF vars, PInv, Settings, TakerSound, SweepSound
<1> QED BY <1>1, <1>2, <1>3, <1>4, <1>5, <1>6, <1>7, <1>8, <1>9, <1>10, <1>11 DEF Next

\* PInv holds in every reachable state.
THEOREM PerpInvariant == Spec => []PInv
<1> QED BY PerpInitInv, PerpNextInv, PTL DEF Spec

LEMMA PerpShape == PInv => TypeOK
<1> SUFFICES ASSUME PInv PROVE TypeOK
  OBVIOUS
<1>1. /\ available \in [Accounts -> Int] /\ locked \in [Accounts -> Int]
      /\ Held(positions) /\ Resting(orders)
      /\ book = [s \in Sides |-> book[s]]
      /\ \A s \in Sides : Queue(s, book[s], orders)
  BY EngineParts DEF PInv, Good, Shape
<1>2. \A id \in DOMAIN orders : orders[id] \in Order /\ orders[id].id = id
  BY <1>1 DEF Resting, Sound
<1>3. book \in [Sides -> Seq(DOMAIN orders)]
  <2>1. \A s \in Sides : book[s] \in Seq(DOMAIN orders)
    BY <1>1 DEF Queue
  <2> QED BY <2>1, <1>1
<1>4. IF pc = "match" THEN taker \in Order ELSE taker = NoOrder
  BY DEF PInv, TakerSound, Sound
<1>5. \A i \in DOMAIN sweep : sweep[i].user \in Users /\ sweep[i].pos \in Position
  <2>S. PICK S : S = [user : Users, pos : Position]
    OBVIOUS
  <2>1. sweep \in Seq(S)
    BY <2>S DEF PInv, SweepSound
  <2>2. \A i \in DOMAIN sweep : sweep[i] \in S
    BY <2>1
  <2> QED BY <2>2, <2>S
<1>6. \A u \in DOMAIN positions : positions[u] \in Position
  BY <1>1 DEF Held
<1>7. DOMAIN positions \subseteq Users
  BY <1>1 DEF Held
<1>8. Settings
  BY DEF PInv
<1> QED BY <1>1, <1>2, <1>3, <1>4, <1>5, <1>6, <1>7, <1>8 DEF TypeOK, Settings

\* The engine's state keeps its shape, and no position of size zero is kept.
THEOREM PerpTypeCorrect == Spec => []TypeOK
<1> QED BY PerpInvariant, PerpShape, PTL

LEMMA PerpMoney == PInv => PerpConservation
<1> SUFFICES ASSUME PInv PROVE PerpConservation
  OBVIOUS
<1>1. Shape(Engine) /\ Money(Engine) = supply + phantom
  BY DEF PInv, Good
<1>f. PICK f : f = [u \in Accounts |-> available[u] + locked[u]]
  OBVIOUS
<1>2. \A u \in Accounts : f[u] = Engine.available[u] + Engine.locked[u]
  BY <1>f, EngineParts
<1>3. Money(Engine) = SumFunctionOnSet(f, Accounts) + Margins(Engine.positions)
  BY <1>1, <1>2, MoneyParts
<1>4. Holdings = SumFunctionOnSet(f, Accounts) + Margins(positions)
  <2>1. DOMAIN f = Accounts /\ Holdings = SumFunction(f) + Margins(positions)
    BY <1>f DEF Holdings
  <2> QED BY <2>1 DEF SumFunction, SumFunctionOnSet
<1> QED BY <1>1, <1>3, <1>4, EngineParts DEF PerpConservation

\* No unit of money is made or lost in fills, shortfalls, liquidations,
\* deleveraging and funding, but for the margin of a position that is closed
\* once by deleveraging and again by the sweep that still has it on its list.
THEOREM PerpMoneyConserved == Spec => []PerpConservation
<1> QED BY PerpInvariant, PerpMoney, PTL

LEMMA PerpDebtFree == PInv => Solvent
<1> SUFFICES ASSUME PInv PROVE Solvent
  OBVIOUS
<1>1. /\ NoDebt(Engine) /\ Held(positions) /\ Resting(orders)
      /\ Backed(Engine, InFlight)
  BY EngineParts DEF PInv, Good, Shape
<1>2. \A u \in Accounts \ {CLEARING} : available[u] >= 0
  BY <1>1, EngineParts DEF NoDebt
<1>3. \A u \in DOMAIN positions : positions[u].margin >= 0
  BY <1>1 DEF Held
<1>4. LockTable(orders) /\ \A id \in DOMAIN orders : orders[id].lock \in Nat
  BY <1>1, RestingTable
<1>5. \A u \in Accounts : locked[u] = LocksOf(orders, DOMAIN orders, u) + InFlight[u]
  BY <1>1, EngineParts DEF Backed
<1>l. PICK live : live = LiveOrders
  OBVIOUS
<1>6. /\ \A u \in Accounts : locked[u] = LocksOf(live, DOMAIN live, u)
      /\ \A id \in DOMAIN live : live[id].lock >= 0
  <2>1. CASE pc = "match"
    <3>1. /\ Sound(taker) /\ taker.id \notin DOMAIN orders
          /\ live = WithOrder(orders, taker)
      BY <1>l, <2>1 DEF PInv, TakerSound, LiveOrders
    <3>2. taker.lock \in Nat /\ taker.lock \in Int
      BY <3>1, SoundLock DEF Sound
    <3>3. ASSUME NEW u \in Accounts
          PROVE  locked[u] = LocksOf(live, DOMAIN live, u)
      <4>1. LocksOf(live, DOMAIN live, u) = LocksOf(orders, DOMAIN orders, u)
              + IF u = taker.user THEN taker.lock ELSE 0
        BY <1>4, <3>1, <3>2, LocksJoin
      <4>2. InFlight[u] = IF u = taker.user THEN taker.lock ELSE 0
        BY <2>1 DEF InFlight
      <4> QED BY <1>5, <4>1, <4>2
    <3>4. \A id \in DOMAIN live : live[id] = taker \/ (id \in DOMAIN orders
                                                      /\ live[id] = orders[id])
      BY <3>1 DEF WithOrder
    <3> QED BY <1>4, <3>2, <3>3, <3>4
  <2>2. CASE pc # "match"
    <3>1. live = orders /\ InFlight = [u \in Accounts |-> 0]
      BY <1>l, <2>2, NothingInFlight DEF LiveOrders
    <3>2. ASSUME NEW u \in Accounts
          PROVE  locked[u] = LocksOf(orders, DOMAIN orders, u)
      <4>1. LocksOf(orders, DOMAIN orders, u) \in Int
        BY <1>4, LocksAre
      <4> QED BY <1>5, <3>1, <4>1
    <3> QED BY <1>4, <3>1, <3>2
  <2> QED BY <2>1, <2>2
<1> QED BY <1>2, <1>3, <1>6, <1>l DEF Solvent

\* Nobody but the clearing account goes negative, no margin does, and every
\* locked unit backs a live order.
THEOREM PerpSolvent == Spec => []Solvent
<1> QED BY PerpInvariant, PerpDebtFree, PTL

\* Funding takes nothing from a wallet, and moves the clearing account only
\* when the fee account has nothing left to give.
THEOREM PerpFundingNets == Spec => FundingNets
<1>1. PInv /\ [Next]_vars =>
        [fundings' # fundings =>
           /\ \A u \in Users : available'[u] >= available[u]
           /\ \/ available'[CLEARING] = available[CLEARING]
              \/ /\ available'[CLEARING] < available[CLEARING]
                 /\ available'[FEE] = 0]_vars
  <2> SUFFICES ASSUME PInv, Next, fundings' # fundings
               PROVE  Netted(available, available')
    BY DEF Netted
  <2>1. PICK rate \in Rates : ApplyFunding(rate)
    <3>1. CASE SubmitOrder \/ MatchOrder \/ FinishSubmit \/ LiquidationSweep
      BY <3>1 DEF SubmitOrder, Reject, Accept, MatchOrder, CancelMaker, ExecuteFill,
                  FinishSubmit, LiquidationSweep, PassHealthy, Liquidate, FinishSweep,
                  settings
    <3>2. CASE \/ \E id \in DOMAIN orders : CancelOrder(id)
               \/ \E id \in DOMAIN orders, ch \in Amendments : AmendOrder(id, ch)
      BY <3>2 DEF CancelOrder, AmendOrder, settings
    <3>3. CASE \/ \E u \in Users, l \in Leverages : SetLeverage(u, l)
               \/ \E m \in Marks : SetMarkPrice(m)
               \/ \E t \in Transfers : Deposit(t) \/ Withdraw(t)
      BY <3>3 DEF SetLeverage, SetMarkPrice, Deposit, Withdraw, settings
    <3> QED BY <3>1, <3>2, <3>3 DEF Next
  <2>2. PICK pay, total, residual :
          /\ Payable(pay, positions)
          /\ Funded(Engine, pay, total, residual, available', positions')
    BY <2>1, FundingIs
  <2>e. PICK e, a, h : e = Engine /\ a = available' /\ h = positions'
    OBVIOUS
  <2>3. /\ Shape(e) /\ NoDebt(e) /\ Payable(pay, e.positions)
        /\ Funded(e, pay, total, residual, a, h) /\ e.available = available
    BY <2>2, <2>e, EngineParts DEF PInv, Good
  <2>4. Netted(e.available, a)
    BY <2>3, FundedWallets
  <2> QED BY <2>3, <2>4, <2>e
<1> QED BY PerpInvariant, <1>1, PTL DEF FundingNets, Spec

-----------------------------------------------------------------------------
(* The reduce-only budget.                                                 *)

\* What each live order still takes from u's position.
ToReduce(live, u) ==
  [id \in DOMAIN live |->
     IF live[id].user = u /\ live[id].reduceOnly THEN Rem(live[id]) ELSE 0]

ToReduceAll(live, u) == SumFunctionOnSet(ToReduce(live, u), DOMAIN live)

\* u's reduce-only orders are on the closing side and fit the position.
Budget(live, size, u) ==
  /\ \A id \in DOMAIN live :
       ToReduce(live, u)[id] # 0 => SignBig(size) = -Dir(live[id].side)
  /\ ToReduceAll(live, u) <= AbsBig(size)

LEMMA ToReduceFacts ==
  ASSUME NEW live, Resting(live), NEW u
  PROVE  /\ IsFiniteSet(DOMAIN live)
         /\ \A id \in DOMAIN live :
              /\ ToReduce(live, u)[id] \in Nat /\ Rem(live[id]) \in Nat
              /\ live[id].side \in Sides
         /\ ToReduceAll(live, u) \in Nat
         /\ \A id \in DOMAIN live : ToReduce(live, u)[id] <= ToReduceAll(live, u)
<1>1. IsFiniteSet(DOMAIN live)
  BY DEF Resting
<1>2. ASSUME NEW id \in DOMAIN live
      PROVE  Rem(live[id]) \in Nat /\ live[id].side \in Sides
  BY SoundLock DEF Resting, Sound, Order
<1>3. \A id \in DOMAIN live : ToReduce(live, u)[id] \in Nat
  BY <1>2 DEF ToReduce
<1>4. /\ ToReduceAll(live, u) \in Nat
      /\ \A id \in DOMAIN live : ToReduce(live, u)[id] <= ToReduceAll(live, u)
  BY <1>1, <1>3, SumNat DEF ToReduceAll
<1> QED BY <1>1, <1>2, <1>3, <1>4

\* Orders leave, or have less left to fill.
LEMMA BudgetLess ==
  ASSUME NEW live, Resting(live), NEW new, Resting(new), NEW u, NEW size,
         AbsBig(size) \in Int,
         DOMAIN new \subseteq DOMAIN live,
         \A x \in DOMAIN new : /\ ToReduce(new, u)[x] <= ToReduce(live, u)[x]
                               /\ new[x].side = live[x].side,
         Budget(live, size, u)
  PROVE  Budget(new, size, u)
<1> PICK S, T, f, g : /\ S = DOMAIN live /\ T = DOMAIN new
                      /\ f = ToReduce(live, u) /\ g = ToReduce(new, u)
  OBVIOUS
<1>1. /\ IsFiniteSet(S) /\ IsFiniteSet(T) /\ T \in SUBSET S
      /\ \A x \in S : f[x] \in Nat
      /\ \A x \in T : g[x] \in Nat /\ f[x] \in Nat /\ g[x] <= f[x]
  BY ToReduceFacts
<1>2. \A id \in T : g[id] # 0 => SignBig(size) = -Dir(new[id].side)
  <2> SUFFICES ASSUME NEW id \in T, g[id] # 0
               PROVE  SignBig(size) = -Dir(new[id].side)
    OBVIOUS
  <2>1. f[id] # 0 /\ id \in S
    BY <1>1
  <2> QED BY <2>1 DEF Budget
<1>3. SumFunctionOnSet(g, T) <= SumFunctionOnSet(f, T)
  <2>1. \A x \in T : g[x] \in Int /\ f[x] \in Int /\ g[x] <= f[x]
    BY <1>1
  <2> QED BY <1>1, <2>1, SumAtMost
<1>4. SumFunctionOnSet(f, T) <= SumFunctionOnSet(f, S)
  <2>1. \A x \in S : f[x] \in Int
    BY <1>1
  <2>2. SumFunctionOnSet(f, S) = SumFunctionOnSet(f, T) + SumFunctionOnSet(f, S \ T)
    BY <1>1, <2>1, SumSplit
  <2>3. IsFiniteSet(S \ T) /\ \A x \in S \ T : f[x] \in Nat
    BY <1>1, FS_Difference
  <2>4. SumFunctionOnSet(f, S \ T) \in Nat /\ SumFunctionOnSet(f, T) \in Nat
    BY <1>1, <2>3, SumNat
  <2> QED BY <2>2, <2>4
<1>5. SumFunctionOnSet(g, T) <= AbsBig(size)
  <2>1. SumFunctionOnSet(f, S) <= AbsBig(size)
    BY DEF Budget, ToReduceAll
  <2>2. SumFunctionOnSet(g, T) \in Nat /\ SumFunctionOnSet(f, T) \in Nat
        /\ SumFunctionOnSet(f, S) \in Nat
    BY <1>1, SumNat
  <2> QED BY <1>3, <1>4, <2>1, <2>2
<1> QED BY <1>2, <1>5 DEF Budget, ToReduceAll

\* A reduce-only order fills, and the position shrinks by as much.
LEMMA BudgetFill ==
  ASSUME NEW live, Resting(live), NEW new, Resting(new), NEW u \in Users,
         NEW size \in Int, NEW id \in DOMAIN live, NEW q \in Nat,
         DOMAIN new = DOMAIN live, \A x \in DOMAIN live : new[x].side = live[x].side,
         q <= ToReduce(live, u)[id],
         ToReduce(new, u)[id] = ToReduce(live, u)[id] - q,
         \A x \in DOMAIN live \ {id} : ToReduce(new, u)[x] = ToReduce(live, u)[x],
         NEW moved, moved = size + Dir(live[id].side) * q,
         Budget(live, size, u)
  PROVE  Budget(new, moved, u)
<1> PICK S, f, g : S = DOMAIN live /\ f = ToReduce(live, u) /\ g = ToReduce(new, u)
  OBVIOUS
<1>t. PICK tf \in Nat, tg \in Nat :
        tf = SumFunctionOnSet(f, S) /\ tg = SumFunctionOnSet(g, S)
  BY ToReduceFacts DEF ToReduceAll
<1>1. /\ IsFiniteSet(S) /\ id \in S
      /\ \A x \in S : f[x] \in Nat /\ g[x] \in Nat /\ g[x] <= tg /\ f[x] <= tf
  BY <1>t, ToReduceFacts DEF ToReduceAll
<1>k. PICK k \in Nat : k = f[id] /\ q <= k /\ k <= tf /\ g[id] = k - q
  BY <1>1
<1>d. PICK d \in {1, -1} : d = Dir(live[id].side)
  BY ToReduceFacts, DirFacts
<1>2. tg = tf - q
  <2>1. /\ \A x \in S : f[x] \in Int /\ g[x] \in Int
        /\ \A x \in S \ {id} : g[x] = f[x]
    BY <1>1
  <2>2. SumFunctionOnSet(g, S) = SumFunctionOnSet(f, S) + (g[id] - f[id])
    BY <1>1, <2>1, SumChange
  <2> QED BY <2>2, <1>k, <1>t
<1>3. tf <= AbsBig(size)
  BY <1>t DEF Budget, ToReduceAll
<1>4. \A x \in S : g[x] # 0 => f[x] # 0 /\ SignBig(size) = -Dir(live[x].side)
  <2> SUFFICES ASSUME NEW x \in S, g[x] # 0
               PROVE  f[x] # 0 /\ SignBig(size) = -Dir(live[x].side)
    OBVIOUS
  <2>1. f[x] # 0
    BY <1>1, <1>k
  <2> QED BY <2>1 DEF Budget
<1>5. CASE q = 0
  <2>1. moved = size
    BY <1>5, <1>d
  <2> QED BY <2>1, <1>2, <1>3, <1>4, <1>5, <1>t DEF Budget, ToReduceAll
<1>6. CASE q # 0
  <2>1. SignBig(size) = -d
    <3>1. f[id] # 0
      BY <1>6, <1>k
    <3> QED BY <3>1, <1>d, <1>1 DEF Budget
  <2>2. /\ AbsBig(moved) = AbsBig(size) - q
        /\ moved = 0 => AbsBig(size) = q
        /\ moved # 0 => SignBig(moved) = SignBig(size)
    <3>1. q <= AbsBig(size) /\ moved = size + d * q
      BY <1>k, <1>d, <1>3 DEF AbsBig
    <3>2. CASE d = 1
      <4>1. size < 0
        BY <3>2, <2>1 DEF SignBig
      <4>2. moved = size + q /\ AbsBig(size) = -size /\ moved <= 0
        BY <3>1, <3>2, <4>1 DEF AbsBig
      <4> QED BY <4>1, <4>2 DEF AbsBig, SignBig
    <3>3. CASE d = -1
      <4>1. size > 0
        BY <3>3, <2>1 DEF SignBig
      <4>2. moved = size - q /\ AbsBig(size) = size /\ moved >= 0
        BY <3>1, <3>3, <4>1 DEF AbsBig
      <4> QED BY <4>1, <4>2 DEF AbsBig, SignBig
    <3> QED BY <3>2, <3>3
  <2>3. PICK a \in Int, b \in Int : a = AbsBig(size) /\ b = AbsBig(moved) /\ b = a - q
    <3>1. AbsBig(size) \in Int
      BY DEF AbsBig
    <3> QED BY <2>2, <3>1
  <2>4. tg <= b
    BY <2>3, <1>2, <1>3
  <2>5. \A x \in S : g[x] # 0 => SignBig(moved) = -Dir(new[x].side)
    <3> SUFFICES ASSUME NEW x \in S, g[x] # 0
                 PROVE  SignBig(moved) = -Dir(new[x].side)
      OBVIOUS
    <3>1. moved # 0
      <4>1. g[x] \in Nat /\ g[x] <= tg
        BY <1>1
      <4>2. tg # 0
        BY <4>1
      <4>3. moved = 0 => b = 0
        BY <2>2, <2>3
      <4> QED BY <2>4, <4>2, <4>3
    <3> QED BY <3>1, <2>2, <1>4
  <2> QED BY <2>3, <2>4, <2>5, <1>t DEF Budget, ToReduceAll
<1> QED BY <1>5, <1>6

\* An order joins the live ones.
Joined(new, live, o) ==
  /\ Resting(new) /\ DOMAIN new = DOMAIN live \cup {o.id} /\ new[o.id] = o
  /\ \A x \in DOMAIN live : new[x] = live[x]

LEMMA RestingWith ==
  ASSUME NEW live, Resting(live), NEW o, Sound(o), o.id \notin DOMAIN live
  PROVE  Joined(WithOrder(live, o), live, o)
<1> PICK new : new = WithOrder(live, o)
  OBVIOUS
<1>1. /\ DOMAIN new = DOMAIN live \cup {o.id} /\ new[o.id] = o
      /\ \A x \in DOMAIN live : new[x] = live[x]
  BY DEF WithOrder
<1>2. IsFiniteSet(DOMAIN live \cup {o.id})
  BY FS_AddElement DEF Resting
<1>3. o.id \in Nat \ {0}
  BY DEF Sound, Order
<1>4. Resting(new)
  BY <1>1, <1>2, <1>3 DEF Resting
<1> QED BY <1>1, <1>4 DEF Joined

\* What an order still takes from u's position.
Takes(o, u) == IF o.user = u /\ o.reduceOnly THEN Rem(o) ELSE 0

LEMMA BudgetJoin ==
  ASSUME NEW live, Resting(live), NEW o, Sound(o), o.id \notin DOMAIN live,
         NEW u, NEW size, Budget(live, size, u),
         Takes(o, u) # 0 => /\ SignBig(size) = -Dir(o.side)
                            /\ ToReduceAll(live, u) + Rem(o) <= AbsBig(size)
  PROVE  Budget(WithOrder(live, o), size, u)
<1>w. PICK new : new = WithOrder(live, o)
  OBVIOUS
<1>v. PICK S, T, id, f, g :
      /\ S = DOMAIN live /\ T = DOMAIN new /\ id = o.id
      /\ f = ToReduce(live, u) /\ g = ToReduce(new, u)
  OBVIOUS
<1>1. /\ Resting(new) /\ T = S \cup {id} /\ new[id] = o /\ id \notin S
      /\ \A x \in S : new[x] = live[x]
  <2>1. /\ Resting(new) /\ DOMAIN new = DOMAIN live \cup {o.id} /\ new[o.id] = o
        /\ \A x \in DOMAIN live : new[x] = live[x]
    <3>1. Joined(WithOrder(live, o), live, o)
      BY RestingWith
    <3> QED BY <3>1, <1>w DEF Joined
  <2> QED BY <2>1, <1>v
<1>2. /\ IsFiniteSet(S) /\ IsFiniteSet(T)
      /\ \A x \in S : f[x] \in Nat /\ g[x] = f[x]
      /\ \A x \in T : g[x] \in Nat /\ g[x] \in Int
      /\ g[id] = Takes(o, u)
  <2>1. \A x \in S : g[x] = f[x]
    BY <1>1, <1>v DEF ToReduce
  <2>2. g[id] = Takes(o, u)
    BY <1>1, <1>v DEF ToReduce, Takes
  <2>3. /\ IsFiniteSet(DOMAIN live)
        /\ \A x \in DOMAIN live : ToReduce(live, u)[x] \in Nat
    BY ToReduceFacts
  <2>4. /\ IsFiniteSet(DOMAIN new)
        /\ \A x \in DOMAIN new : ToReduce(new, u)[x] \in Nat
    BY <1>1, ToReduceFacts
  <2> QED BY <1>v, <2>1, <2>2, <2>3, <2>4
<1>3. ToReduceAll(new, u) = Takes(o, u) + ToReduceAll(live, u)
  <2>1. SumFunctionOnSet(g, T) = g[id] + SumFunctionOnSet(g, T \ {id})
    BY <1>1, <1>2, SumTakeOut
  <2>2. T \ {id} = S
    BY <1>1
  <2>3. SumFunctionOnSet(g, S) = SumFunctionOnSet(f, S)
    BY <1>2, SumSame
  <2> QED BY <2>1, <2>2, <2>3, <1>2, <1>v DEF ToReduceAll
<1>4. ToReduceAll(new, u) <= AbsBig(size)
  <2>1. ToReduceAll(live, u) <= AbsBig(size) /\ ToReduceAll(live, u) \in Nat
    BY ToReduceFacts DEF Budget
  <2>2. \/ Takes(o, u) = 0
        \/ Takes(o, u) = Rem(o) /\ Rem(o) \in Nat
    BY SoundLock DEF Takes, Sound
  <2> QED BY <2>1, <2>2, <1>3
<1>5. \A x \in T : g[x] # 0 => SignBig(size) = -Dir(new[x].side)
  <2> SUFFICES ASSUME NEW x \in T, g[x] # 0
               PROVE  SignBig(size) = -Dir(new[x].side)
    OBVIOUS
  <2>1. CASE x = id
    BY <2>1, <1>1, <1>2
  <2>2. CASE x \in S
    <3>1. f[x] # 0 /\ new[x] = live[x]
      BY <2>2, <1>1, <1>2
    <3> QED BY <2>2, <3>1, <1>v DEF Budget
  <2> QED BY <2>1, <2>2, <1>1
<1> QED BY <1>4, <1>5, <1>v, <1>w DEF Budget

\* The sum the engine takes over u's reduce-only orders is that of all shares.
LEMMA ReduceOnlyQty ==
  ASSUME NEW live, Resting(live), NEW u, NEW ids \in SUBSET ReduceOnlyOf(live, u),
         \A x \in ReduceOnlyOf(live, u) \ ids : Rem(live[x]) = 0
  PROVE  QtyOf(live, ids) = ToReduceAll(live, u)
<1> PICK S, f, g : /\ S = DOMAIN live /\ f = ToReduce(live, u)
                   /\ g = [id \in ids |-> Rem(live[id])]
  OBVIOUS
<1>1. IsFiniteSet(S) /\ \A x \in S : f[x] \in Int
  BY ToReduceFacts
<1>2. ids \in SUBSET S /\ IsFiniteSet(ids)
  <2>1. ids \in SUBSET S
    BY DEF ReduceOnlyOf
  <2> QED BY <1>1, <2>1, FS_Subset
<1>3. /\ \A x \in ids : g[x] = f[x]
      /\ \A x \in S \ ids : f[x] = 0
  BY DEF ReduceOnlyOf, ToReduce
<1>4. SumFunctionOnSet(g, ids) = SumFunctionOnSet(f, ids)
  BY <1>2, <1>3, SumSame
<1>5. SumFunctionOnSet(f, S) = SumFunctionOnSet(f, ids)
  BY <1>1, <1>2, <1>3, SumPart
<1>6. QtyOf(live, ids) = SumFunctionOnSet(g, ids)
  BY DEF QtyOf, SumFunction, SumFunctionOnSet
<1> QED BY <1>4, <1>5, <1>6 DEF ToReduceAll
\* What trimReduceOnly's loop knows when it has seen some orders: what it kept
\* of them is on the closing side, adds up to `used` and fits.
Trimming(acc, live, size, cap, seen) ==
  /\ acc \in [used : Nat, cut : SUBSET seen]
  /\ acc.used = SumFunctionOnSet([id \in seen |-> Rem(live[id])], seen \ acc.cut)
  /\ acc.used <= cap
  /\ \A id \in seen \ acc.cut : Closable(size, live[id].side) # 0

LEMMA TrimStep ==
  ASSUME NEW live, Resting(live), NEW size, NEW cap \in Nat,
         NEW seen \in SUBSET (DOMAIN live), NEW id \in DOMAIN live, id \notin seen,
         NEW acc, Trimming(acc, live, size, cap, seen),
         NEW r, r = TrimVisit(live, size, cap, acc, id)
  PROVE  Trimming(r, live, size, cap, seen \cup {id})
<1>n. PICK new \in SUBSET (DOMAIN live) : new = seen \cup {id}
  OBVIOUS
<1>r. PICK rem \in Nat : rem = Rem(live[id])
  BY SoundLock DEF Resting, Sound
<1>w. PICK f, g : f = [x \in seen |-> Rem(live[x])] /\ g = [x \in new |-> Rem(live[x])]
  OBVIOUS
<1>a. PICK used \in Nat, cut \in SUBSET seen :
        acc = [used |-> used, cut |-> cut]
  BY DEF Trimming
<1>1. /\ used = SumFunctionOnSet(f, seen \ cut) /\ used <= cap
      /\ \A x \in seen \ cut : Closable(size, live[x].side) # 0
  BY <1>a, <1>w DEF Trimming
<1>2. /\ IsFiniteSet(new) /\ IsFiniteSet(seen \ cut)
      /\ \A x \in new : g[x] \in Int
      /\ \A x \in seen \ cut : f[x] = g[x]
  <2>1. IsFiniteSet(DOMAIN live) /\ \A x \in DOMAIN live : Rem(live[x]) \in Nat
    BY ToReduceFacts
  <2>2. seen \ cut \in SUBSET (DOMAIN live)
    OBVIOUS
  <2> QED BY <1>n, <1>w, <2>1, <2>2, FS_Subset
<1>3. used = SumFunctionOnSet(g, seen \ cut)
  BY <1>1, <1>2, SumSame
<1>4. CASE Closable(size, live[id].side) = 0 \/ used + rem > cap
  <2>1. r = [used |-> used, cut |-> cut \cup {id}]
    BY <1>4, <1>a, <1>r DEF TrimVisit
  <2>k. PICK kept : kept = seen \ cut
    OBVIOUS
  <2>2. new \ (cut \cup {id}) = kept
    BY <1>n, <2>k
  <2>3. r \in [used : Nat, cut : SUBSET new]
    BY <2>1, <1>n
  <2>4. SumFunctionOnSet(g, kept) = used /\ used <= cap
    BY <1>1, <1>3, <2>k
  <2>5. \A x \in kept : Closable(size, live[x].side) # 0
    BY <1>1, <2>k
  <2>6. r.used = used /\ r.cut = cut \cup {id}
    BY <2>1
  <2> QED BY <2>2, <2>3, <2>4, <2>5, <2>6, <1>n, <1>w DEF Trimming
<1>5. CASE ~(Closable(size, live[id].side) = 0 \/ used + rem > cap)
  <2>1. r = [used |-> used + rem, cut |-> cut]
    BY <1>5, <1>a, <1>r DEF TrimVisit
  <2>k. PICK kept : kept = new \ cut
    OBVIOUS
  <2>2. id \in kept /\ kept \ {id} = seen \ cut /\ kept \in SUBSET new
    BY <1>n, <2>k
  <2>3. SumFunctionOnSet(g, kept) = used + rem
    <3>1. IsFiniteSet(kept) /\ \A x \in kept : g[x] \in Int
      BY <1>2, <2>2, FS_Subset
    <3>2. SumFunctionOnSet(g, kept) = g[id] + SumFunctionOnSet(g, kept \ {id})
      BY <2>2, <3>1, SumTakeOut
    <3>3. g[id] = rem
      BY <1>n, <1>w, <1>r
    <3>4. SumFunctionOnSet(g, kept \ {id}) = used
      <4> PICK rest : rest = kept \ {id} /\ rest = seen \ cut
        BY <2>2
      <4> QED BY <1>3
    <3> QED BY <3>2, <3>3, <3>4
  <2>4. r \in [used : Nat, cut : SUBSET new]
    BY <2>1, <1>n
  <2>5. used + rem <= cap
    BY <1>5
  <2>6. \A x \in kept : Closable(size, live[x].side) # 0
    BY <1>1, <1>5, <2>2
  <2>7. r.used = used + rem /\ r.cut = cut
    BY <2>1
  <2> QED BY <2>3, <2>4, <2>5, <2>6, <2>7, <2>k, <1>n, <1>w DEF Trimming
<1> QED BY <1>4, <1>5

\* What trimReduceOnly leaves fits the position, when the fill's maker is not one
\* of the orders it looks at.
LEMMA TrimBudget ==
  ASSUME NEW live, Resting(live), NEW size \in Int, NEW u, NEW kept,
         kept \notin ReduceOnlyOf(live, u),
         NEW new, DOMAIN new = DOMAIN live \ TrimmedOf(live, size, u, kept),
         \A x \in DOMAIN new : new[x] = live[x]
  PROVE  Budget(new, size, u)
<1>m. PICK mine : mine = ReduceOnlyOf(live, u)
  OBVIOUS
<1>q. PICK queue : queue = TrimQueue(live, u, kept)
  OBVIOUS
<1>c. PICK cap \in Nat : cap = TrimCap(live, size, u, kept) /\ cap = AbsBig(size)
  <2>s. PICK none : none = {id \in ReduceOnlyOf(live, u) \cap {kept} :
                              Closable(size, live[id].side) > 0}
    OBVIOUS
  <2>1. none = {}
    BY <2>s
  <2>2. QtyOf(live, none) = 0
    <3>1. SumFunctionOnSet([id \in none |-> Rem(live[id])], {}) = 0
      BY FS_EmptySet, SumEquation
    <3>2. QtyOf(live, none) = SumFunctionOnSet([id \in none |-> Rem(live[id])], none)
      BY DEF QtyOf, SumFunction, SumFunctionOnSet
    <3> QED BY <3>1, <3>2, <2>1
  <2>3. TrimCap(live, size, u, kept) = MaxBig(0, AbsBig(size) - 0)
    BY <2>2, <2>s DEF TrimCap
  <2>4. AbsBig(size) \in Nat
    BY DEF AbsBig
  <2> QED BY <2>3, <2>4 DEF MaxBig
<1>1. /\ queue \in Seq(mine) /\ Len(queue) \in Nat
      /\ \A x \in mine : \E i \in 1..Len(queue) : queue[i] = x
      /\ \A i, j \in 1..Len(queue) : i < j => queue[i] < queue[j]
      /\ \A i \in 1..Len(queue) : queue[i] \in mine
  <2>1. mine \in SUBSET (DOMAIN live)
    BY <1>m DEF ReduceOnlyOf
  <2>2. mine \subseteq Int /\ IsFiniteSet(mine)
    BY <2>1, FS_Subset DEF Resting
  <2>3. queue = Ascending(mine)
    <3>1. mine \ {kept} = mine
      BY <1>m
    <3> QED BY <3>1, <1>m, <1>q DEF TrimQueue
  <2>4. \A s : s = Ascending(mine) =>
          /\ s \in Seq(mine) /\ Len(s) = Cardinality(mine) /\ Len(s) \in Nat
          /\ \A x \in mine : \E i \in 1..Len(s) : s[i] = x
          /\ \A i, j \in 1..Len(s) : i < j => s[i] < s[j]
    BY <2>2, AscendingLists, Zenon
  <2>5. /\ queue \in Seq(mine) /\ Len(queue) \in Nat
        /\ \A x \in mine : \E i \in 1..Len(queue) : queue[i] = x
        /\ \A i, j \in 1..Len(queue) : i < j => queue[i] < queue[j]
    BY <2>3, <2>4, Zenon
  <2>6. \A i \in 1..Len(queue) : queue[i] \in mine
    BY <2>5
  <2> QED BY <2>5, <2>6
<1>2. PICK n \in Nat : n = Len(queue)
  BY <1>1
<1>3. PICK g : IsTrim(g, live, size, cap, queue, n)
            /\ TrimmedOf(live, size, u, kept) = g[n].cut
  <2>1. cap = TrimCap(live, size, u, kept)
    BY <1>c
  <2> QED BY <2>1, <1>2, <1>q, TrimmedBy
<1> DEFINE seen(m) == {queue[i] : i \in 1..m}
           B == {m \in 0..n : ~Trimming(g[m], live, size, cap, seen(m))}
<1>4. B = {}
  <2> SUFFICES ASSUME B # {} PROVE FALSE
    OBVIOUS
  <2>1. PICK m \in B : \A k \in B : m <= k
    <3>1. B \in SUBSET Nat
      OBVIOUS
    <3> HIDE DEF B
    <3> QED BY <3>1, LeastNumber
  <2>2. m \in 0..n /\ g[m] = IF m = 0 THEN [used |-> 0, cut |-> {}]
                             ELSE TrimVisit(live, size, cap, g[m - 1], queue[m])
    BY <1>3 DEF IsTrim
  <2>3. CASE m = 0
    <3>1. seen(0) = {}
      OBVIOUS
    <3>p. PICK acc, none : acc = g[0] /\ none = {}
      OBVIOUS
    <3>2. acc = [used |-> 0, cut |-> {}]
      BY <2>2, <2>3, <3>p
    <3>3. SumFunctionOnSet([id \in none |-> Rem(live[id])], {}) = 0
      BY FS_EmptySet, SumEquation
    <3>4. Trimming(acc, live, size, cap, none)
      BY <3>2, <3>3, <3>p DEF Trimming
    <3> QED BY <2>1, <2>3, <3>1, <3>4, <3>p
  <2>4. CASE m # 0
    <3>0. m - 1 \in 0..n /\ m \in 1..n /\ m \in Nat
      BY <2>2, <2>4
    <3>b. m - 1 \notin B
      <4> HIDE DEF B
      <4> QED BY <2>1, <3>0
    <3>1. m - 1 \in 0..n /\ m - 1 \notin B /\ m \in 1..Len(queue) /\ m \in Nat
      <4> HIDE DEF B
      <4> QED BY <1>2, <3>0, <3>b
    <3>s. PICK s : s = seen(m - 1)
      OBVIOUS
    <3>i. PICK id \in mine : id = queue[m]
      BY <1>1, <3>1
    <3>2. Trimming(g[m - 1], live, size, cap, s)
      BY <3>1, <3>s
    <3>3. s \in SUBSET (DOMAIN live) /\ id \in DOMAIN live
      <4>1. \A i \in 1..m - 1 : queue[i] \in mine
        BY <1>1, <1>2, <3>1
      <4>2. mine \subseteq DOMAIN live
        BY <1>m DEF ReduceOnlyOf
      <4> QED BY <4>1, <4>2, <3>s
    <3>4. id \notin s
      <4> SUFFICES ASSUME NEW i \in 1..m - 1, queue[i] = id PROVE FALSE
        BY <3>s
      <4>1. i \in 1..Len(queue) /\ i < m /\ m \in 1..Len(queue)
        BY <1>2, <3>1
      <4>2. queue[i] < queue[m]
        BY <4>1, <1>1
      <4>3. queue[m] \in Int
        BY <3>3, <3>i DEF Resting
      <4> QED BY <4>2, <4>3, <3>i
    <3>5. g[m] = TrimVisit(live, size, cap, g[m - 1], id)
      BY <2>2, <2>4, <3>i
    <3>6. Trimming(g[m], live, size, cap, s \cup {id})
      BY <3>2, <3>3, <3>4, <3>5, TrimStep
    <3>7. s \cup {id} = seen(m)
      <4>1. 1..m = (1..m - 1) \cup {m}
        BY <3>1
      <4> QED BY <4>1, <3>s, <3>i
    <3> QED BY <2>1, <3>6, <3>7
  <2> QED BY <2>3, <2>4
<1>5. Trimming(g[n], live, size, cap, seen(n)) /\ seen(n) = mine
  <2>1. n \in 0..n /\ n \notin B
    <3>1. n \in 0..n
      OBVIOUS
    <3>2. n \notin B
      <4> HIDE DEF B
      <4> QED BY <1>4
    <3> QED BY <3>1, <3>2
  <2>2. seen(n) = mine
    BY <1>1, <1>2
  <2> QED BY <2>1, <2>2
<1> HIDE DEF seen, B
<1>t. PICK cut : cut = g[n].cut
  OBVIOUS
<1>6. /\ SumFunctionOnSet([id \in mine |-> Rem(live[id])], mine \ cut) <= cap
      /\ \A id \in mine \ cut : Closable(size, live[id].side) # 0
  BY <1>5, <1>t DEF Trimming
<1>7. /\ DOMAIN new = DOMAIN live \ cut /\ Resting(new)
      /\ \A x \in DOMAIN new : new[x] = live[x]
  <2>1. DOMAIN new = DOMAIN live \ cut
    BY <1>3, <1>t
  <2>2. DOMAIN new \in SUBSET (DOMAIN live)
    OBVIOUS
  <2>3. IsFiniteSet(DOMAIN new)
    BY <2>2, FS_Subset DEF Resting
  <2> QED BY <2>1, <2>3 DEF Resting
<1>8. ReduceOnlyOf(new, u) = mine \ cut
  BY <1>7, <1>m DEF ReduceOnlyOf
<1>9. ToReduceAll(new, u) <= AbsBig(size)
  <2>k. PICK ids : ids = mine \ cut
    OBVIOUS
  <2>1. ids \in SUBSET ReduceOnlyOf(new, u)
        /\ \A x \in ReduceOnlyOf(new, u) \ ids : Rem(new[x]) = 0
    BY <1>8, <2>k
  <2>2. QtyOf(new, ids) = ToReduceAll(new, u)
    BY <1>7, <2>1, ReduceOnlyQty
  <2>w. PICK f, h : /\ f = [id \in ids |-> Rem(new[id])]
                    /\ h = [id \in mine |-> Rem(live[id])]
    OBVIOUS
  <2>3. QtyOf(new, ids) = SumFunctionOnSet(f, ids)
    BY <2>w DEF QtyOf, SumFunction, SumFunctionOnSet
  <2>4. \A x \in ids : f[x] = h[x]
    BY <1>7, <1>8, <2>k, <2>w DEF ReduceOnlyOf
  <2>5. IsFiniteSet(ids)
    <3>1. ids \in SUBSET (DOMAIN new)
      BY <1>8, <2>k DEF ReduceOnlyOf
    <3> QED BY <3>1, <1>7, FS_Subset DEF Resting
  <2>6. SumFunctionOnSet(f, ids) = SumFunctionOnSet(h, ids)
    BY <2>4, <2>5, SumSame
  <2> QED BY <2>2, <2>3, <2>6, <2>k, <2>w, <1>6, <1>c
<1>10. ASSUME NEW id \in DOMAIN new, ToReduce(new, u)[id] # 0
       PROVE  SignBig(size) = -Dir(new[id].side)
  <2>1. id \in ReduceOnlyOf(new, u)
    BY <1>10 DEF ToReduce, ReduceOnlyOf
  <2>2. Closable(size, live[id].side) # 0 /\ new[id] = live[id]
    BY <2>1, <1>6, <1>7, <1>8
  <2> QED BY <2>2 DEF Closable
<1> QED BY <1>9, <1>10 DEF Budget

Budgets(live, sizes) == \A u \in Users : Budget(live, sizes[u], u)

LEMMA MoveFacts ==
  ASSUME NEW old, NEW new, NEW maker, NEW o, NEW q \in Nat, Moves(old, new, maker, o, q),
         \A u \in Users : old[u] \in Int, maker.side \in Sides, o.side \in Sides,
         maker.user # o.user, NEW u \in Users
  PROVE  /\ old[u] \in Int /\ new[u] \in Int
         /\ u # maker.user /\ u # o.user => new[u] = old[u]
         /\ u = maker.user => new[u] = old[u] + Dir(maker.side) * q
         /\ u = o.user => new[u] = old[u] + Dir(o.side) * q
<1>1. PICK a \in Int, b \in Int : a = Dir(maker.side) * q /\ b = Dir(o.side) * q
  <2>1. PICK d \in {1, -1}, c \in {1, -1} : d = Dir(maker.side) /\ c = Dir(o.side)
    BY DirFacts
  <2>2. d * q \in Int /\ c * q \in Int
    BY <2>1
  <2> QED BY <2>1, <2>2
<1>2. new[u] = old[u] + (IF u = maker.user THEN a ELSE 0) + (IF u = o.user THEN b ELSE 0)
  BY <1>1 DEF Moves
<1>3. old[u] \in Int
  OBVIOUS
<1> QED BY <1>1, <1>2, <1>3

LEMMA FilledResting ==
  ASSUME NEW live, Resting(live), NEW maker, Sound(maker), maker.id \in DOMAIN live,
         live[maker.id] = maker, NEW q \in Nat, q <= Rem(maker),
         NEW full, full = FilledOrders(live, maker, q)
  PROVE  /\ Resting(full) /\ DOMAIN full = DOMAIN live
         /\ full[maker.id] = AfterFill(maker, q)
         /\ \A x \in DOMAIN live \ {maker.id} : full[x] = live[x]
         /\ \A x \in DOMAIN live : /\ full[x].user = live[x].user
                                   /\ full[x].side = live[x].side
                                   /\ full[x].reduceOnly = live[x].reduceOnly
<1>f. PICK f : f = AfterFill(maker, q)
  OBVIOUS
<1>1. /\ DOMAIN full = DOMAIN live /\ full[maker.id] = f
      /\ \A x \in DOMAIN live \ {maker.id} : full[x] = live[x]
  BY <1>f DEF FilledOrders
<1>2. /\ Sound(f) /\ f.id = maker.id /\ f.side = maker.side /\ f.user = maker.user
      /\ f.reduceOnly = maker.reduceOnly
  BY <1>f, AfterFillFacts
<1>3. Resting(full)
  BY <1>1, <1>2 DEF Resting
<1> QED BY <1>1, <1>2, <1>3, <1>f

\* The orders and the sizes before and after a fill of q between maker and o, of
\* which at least the trimmed orders leave.
FillCase(live, maker, o, q, old, new, full, gone, rest, o2) ==
  /\ Resting(live) /\ Sound(maker) /\ maker.id \in DOMAIN live
  /\ live[maker.id] = maker /\ Sound(o) /\ o.id \notin DOMAIN live
  /\ maker.user # o.user /\ q \in Nat /\ q <= Rem(maker) /\ q <= Rem(o)
  /\ \A u \in Users : old[u] \in Int
  /\ Moves(old, new, maker, o, q)
  /\ full = FilledOrders(live, maker, q)
  /\ TrimmedOf(full, new[maker.user], maker.user, maker.id) \subseteq gone
  /\ TrimmedOf(full, new[o.user], o.user, maker.id) \subseteq gone
  /\ DOMAIN rest = DOMAIN full \ gone
  /\ \A x \in DOMAIN rest : rest[x] = full[x]
  /\ o2 = AfterFill(o, q)

\* trimReduceOnly after a fill: every budget still holds.
LEMMA FillBudgets ==
  ASSUME NEW live, NEW maker, NEW o, NEW q, NEW old, NEW new, NEW full, NEW gone,
         NEW rest, NEW o2, FillCase(live, maker, o, q, old, new, full, gone, rest, o2),
         Budgets(WithOrder(live, o), old)
  PROVE  Budgets(WithOrder(rest, o2), new)
<1>0. /\ Resting(live) /\ Sound(maker) /\ maker.id \in DOMAIN live
      /\ live[maker.id] = maker /\ Sound(o) /\ o.id \notin DOMAIN live
      /\ maker.user # o.user /\ q \in Nat /\ q <= Rem(maker) /\ q <= Rem(o)
      /\ \A u \in Users : old[u] \in Int
      /\ Moves(old, new, maker, o, q)
      /\ full = FilledOrders(live, maker, q)
      /\ TrimmedOf(full, new[maker.user], maker.user, maker.id) \subseteq gone
      /\ TrimmedOf(full, new[o.user], o.user, maker.id) \subseteq gone
      /\ DOMAIN rest = DOMAIN full \ gone
      /\ \A x \in DOMAIN rest : rest[x] = full[x]
      /\ o2 = AfterFill(o, q)
  BY DEF FillCase
<1> USE <1>0
<1> SUFFICES ASSUME NEW u \in Users
             PROVE  Budget(WithOrder(rest, o2), new[u], u)
  BY DEF Budgets
<1>f. PICK f : f = AfterFill(maker, q)
  OBVIOUS
<1>1. /\ Sound(f) /\ Rem(f) = Rem(maker) - q /\ f.id = maker.id /\ f.side = maker.side
      /\ f.user = maker.user /\ f.reduceOnly = maker.reduceOnly
  BY <1>f, AfterFillFacts
<1>2. /\ Sound(o2) /\ Rem(o2) = Rem(o) - q /\ o2.id = o.id /\ o2.side = o.side
      /\ o2.user = o.user /\ o2.reduceOnly = o.reduceOnly
  BY AfterFillFacts
<1>3. /\ Resting(full) /\ DOMAIN full = DOMAIN live /\ full[maker.id] = f
      /\ \A x \in DOMAIN live \ {maker.id} : full[x] = live[x]
      /\ \A x \in DOMAIN live : /\ full[x].user = live[x].user
                                /\ full[x].side = live[x].side
                                /\ full[x].reduceOnly = live[x].reduceOnly
  <2>1. /\ Resting(full) /\ DOMAIN full = DOMAIN live
        /\ full[maker.id] = AfterFill(maker, q)
        /\ \A x \in DOMAIN live \ {maker.id} : full[x] = live[x]
        /\ \A x \in DOMAIN live : /\ full[x].user = live[x].user
                                  /\ full[x].side = live[x].side
                                  /\ full[x].reduceOnly = live[x].reduceOnly
    BY FilledResting
  <2> QED BY <2>1, <1>f
<1>4. Resting(rest)
  <2>1. DOMAIN rest \in SUBSET (DOMAIN full)
    OBVIOUS
  <2>2. IsFiniteSet(DOMAIN rest)
    BY <2>1, <1>3, FS_Subset DEF Resting
  <2> QED BY <2>2, <1>3 DEF Resting
<1>5. maker.side \in Sides /\ o.side \in Sides
  BY DEF Sound, Order
<1>s. PICK s \in Int, t \in Int : s = old[u] /\ t = new[u]
  BY <1>5, MoveFacts
<1>6. /\ u # maker.user /\ u # o.user => t = s
      /\ u = maker.user => t = s + Dir(maker.side) * q
      /\ u = o.user => t = s + Dir(o.side) * q
  BY <1>s, <1>5, MoveFacts
<1>L. PICK L, M, R : /\ L = WithOrder(live, o) /\ M = WithOrder(full, o2)
                     /\ R = WithOrder(rest, o2)
  OBVIOUS
<1>7. /\ Resting(L) /\ DOMAIN L = DOMAIN live \cup {o.id} /\ L[o.id] = o
      /\ \A x \in DOMAIN live : L[x] = live[x]
  <2>1. Joined(WithOrder(live, o), live, o)
    BY RestingWith
  <2> QED BY <2>1, <1>L DEF Joined
<1>8. /\ Resting(M) /\ DOMAIN M = DOMAIN live \cup {o.id} /\ M[o.id] = o2
      /\ \A x \in DOMAIN live : M[x] = full[x]
  <2>0. o2.id \notin DOMAIN full
    BY <1>2, <1>3
  <2>1. Joined(WithOrder(full, o2), full, o2)
    BY <2>0, <1>2, <1>3, RestingWith
  <2> QED BY <2>1, <1>2, <1>3, <1>L DEF Joined
<1>9. /\ Resting(R) /\ DOMAIN R = DOMAIN rest \cup {o.id} /\ R[o.id] = o2
      /\ \A x \in DOMAIN rest : R[x] = full[x]
  <2>0. o2.id \notin DOMAIN rest
    BY <1>2, <1>3
  <2>1. Joined(WithOrder(rest, o2), rest, o2)
    BY <2>0, <1>2, <1>4, RestingWith
  <2> QED BY <2>1, <1>2, <1>L DEF Joined
<1>10. Budget(L, s, u)
  BY <1>s, <1>L DEF Budgets
<1>11. ASSUME Budget(M, t, u) PROVE Budget(R, t, u)
  <2>1. DOMAIN R \subseteq DOMAIN M /\ \A x \in DOMAIN R : R[x] = M[x]
    BY <1>3, <1>8, <1>9
  <2>2. \A x \in DOMAIN R : /\ ToReduce(R, u)[x] <= ToReduce(M, u)[x]
                            /\ R[x].side = M[x].side
    <3> SUFFICES ASSUME NEW x \in DOMAIN R
                 PROVE  ToReduce(R, u)[x] <= ToReduce(M, u)[x] /\ R[x].side = M[x].side
      OBVIOUS
    <3>1. ToReduce(R, u)[x] = ToReduce(M, u)[x]
      BY <2>1 DEF ToReduce
    <3>2. ToReduce(M, u)[x] \in Nat
      BY <2>1, <1>8, ToReduceFacts
    <3> QED BY <2>1, <3>1, <3>2
  <2>3. AbsBig(t) \in Int
    BY DEF AbsBig
  <2> QED BY <1>8, <1>9, <1>11, <2>1, <2>2, <2>3, BudgetLess
<1>12. ASSUME Budget(rest, t, u), Takes(o2, u) = 0 PROVE Budget(R, t, u)
  <2>0. o2.id \notin DOMAIN rest
    BY <1>2, <1>3
  <2>1. Budget(WithOrder(rest, o2), t, u)
    BY <2>0, <1>2, <1>4, <1>12, BudgetJoin
  <2> QED BY <2>1, <1>L
<1>13. ASSUME NEW who, who \in {maker.user, o.user}, u = who,
               maker.id \notin ReduceOnlyOf(full, u)
       PROVE  Budget(rest, t, u)
  <2>1. PICK cut : cut = TrimmedOf(full, t, u, maker.id)
    OBVIOUS
  <2>2. cut \subseteq gone
    BY <1>13, <1>s, <2>1
  <2>3. PICK mid : mid = Without(full, cut)
    OBVIOUS
  <2>4. /\ Resting(mid) /\ DOMAIN mid = DOMAIN full \ cut
        /\ \A x \in DOMAIN mid : mid[x] = full[x]
    <3>1. DOMAIN mid = DOMAIN full \ cut /\ \A x \in DOMAIN mid : mid[x] = full[x]
      BY <2>3 DEF Without
    <3>2. DOMAIN mid \in SUBSET (DOMAIN full)
      BY <3>1
    <3>3. IsFiniteSet(DOMAIN mid)
      BY <3>2, <1>3, FS_Subset DEF Resting
    <3> QED BY <3>1, <3>3, <1>3 DEF Resting
  <2>5. Budget(mid, t, u)
    <3>1. PICK kept : kept = maker.id
      OBVIOUS
    <3>2. DOMAIN mid = DOMAIN full \ TrimmedOf(full, t, u, kept)
      BY <2>1, <2>4, <3>1
    <3>3. kept \notin ReduceOnlyOf(full, u)
      BY <1>13, <3>1
    <3>4. Resting(full) /\ \A x \in DOMAIN mid : mid[x] = full[x]
      BY <1>3, <2>4
    <3> QED BY <3>2, <3>3, <3>4, TrimBudget, Zenon
  <2>6. DOMAIN rest \subseteq DOMAIN mid /\ \A x \in DOMAIN rest : rest[x] = mid[x]
    BY <2>2, <2>4
  <2>7. \A x \in DOMAIN rest : /\ ToReduce(rest, u)[x] <= ToReduce(mid, u)[x]
                               /\ rest[x].side = mid[x].side
    <3> SUFFICES ASSUME NEW x \in DOMAIN rest
                 PROVE  ToReduce(rest, u)[x] <= ToReduce(mid, u)[x]
                        /\ rest[x].side = mid[x].side
      OBVIOUS
    <3>1. ToReduce(rest, u)[x] = ToReduce(mid, u)[x]
      BY <2>6 DEF ToReduce
    <3>2. ToReduce(mid, u)[x] \in Nat
      BY <2>6, <2>4, ToReduceFacts
    <3> QED BY <2>6, <3>1, <3>2
  <2>8. AbsBig(t) \in Int
    BY DEF AbsBig
  <2> QED BY <1>4, <2>4, <2>5, <2>6, <2>7, <2>8, BudgetLess
<1>14. CASE u = o.user /\ o.reduceOnly
  <2>1. Budget(M, t, u)
    <3>1. \A x \in DOMAIN L : M[x].side = L[x].side
      BY <1>2, <1>3, <1>7, <1>8
    <3>2. PICK id \in DOMAIN L : id = o.id
      BY <1>7
    <3>3. ToReduce(L, u)[id] = Rem(o) /\ ToReduce(M, u)[id] = Rem(o) - q
      BY <3>2, <1>2, <1>7, <1>8, <1>14 DEF ToReduce
    <3>4. \A x \in DOMAIN L \ {id} : ToReduce(M, u)[x] = ToReduce(L, u)[x]
      <4> SUFFICES ASSUME NEW x \in DOMAIN L \ {id}
                   PROVE  ToReduce(M, u)[x] = ToReduce(L, u)[x]
        OBVIOUS
      <4>1. x \in DOMAIN live /\ x \in DOMAIN M /\ M[x] = full[x] /\ L[x] = live[x]
        BY <3>2, <1>7, <1>8
      <4>2. CASE x = maker.id
        BY <4>1, <4>2, <1>3, <1>14 DEF ToReduce
      <4>3. CASE x # maker.id
        BY <4>1, <4>3, <1>3 DEF ToReduce
      <4> QED BY <4>2, <4>3
    <3>5. /\ q <= ToReduce(L, u)[id] /\ ToReduce(M, u)[id] = ToReduce(L, u)[id] - q
          /\ DOMAIN M = DOMAIN L /\ t = s + Dir(L[id].side) * q
      BY <3>2, <3>3, <1>6, <1>7, <1>8, <1>14
    <3> QED BY <1>7, <1>8, <1>10, <3>1, <3>4, <3>5, BudgetFill
  <2> QED BY <2>1, <1>11, <1>s, <1>L
<1>15. CASE u = maker.user /\ maker.reduceOnly
  <2>1. Budget(M, t, u)
    <3>1. \A x \in DOMAIN L : M[x].side = L[x].side
      BY <1>2, <1>3, <1>7, <1>8
    <3>2. PICK id \in DOMAIN L : id = maker.id
      BY <1>7
    <3>3. ToReduce(L, u)[id] = Rem(maker) /\ ToReduce(M, u)[id] = Rem(maker) - q
      BY <3>2, <1>1, <1>3, <1>7, <1>8, <1>15 DEF ToReduce
    <3>4. \A x \in DOMAIN L \ {id} : ToReduce(M, u)[x] = ToReduce(L, u)[x]
      <4> SUFFICES ASSUME NEW x \in DOMAIN L \ {id}
                   PROVE  ToReduce(M, u)[x] = ToReduce(L, u)[x]
        OBVIOUS
      <4>2. CASE x = o.id
        BY <4>2, <1>2, <1>7, <1>8, <1>15 DEF ToReduce
      <4>3. CASE x # o.id
        <5>1. x \in DOMAIN M /\ M[x] = L[x]
          BY <3>2, <4>3, <1>3, <1>7, <1>8
        <5> QED BY <5>1 DEF ToReduce
      <4> QED BY <4>2, <4>3
    <3>5. /\ q <= ToReduce(L, u)[id] /\ ToReduce(M, u)[id] = ToReduce(L, u)[id] - q
          /\ DOMAIN M = DOMAIN L /\ t = s + Dir(L[id].side) * q
      BY <3>2, <3>3, <1>6, <1>7, <1>8, <1>15
    <3> QED BY <1>7, <1>8, <1>10, <3>1, <3>4, <3>5, BudgetFill
  <2> QED BY <2>1, <1>11, <1>s, <1>L
<1>16. CASE u = o.user /\ ~o.reduceOnly
  <2>1. maker.id \notin ReduceOnlyOf(full, u)
    BY <1>1, <1>3, <1>16 DEF ReduceOnlyOf
  <2>2. Takes(o2, u) = 0
    BY <1>2, <1>16 DEF Takes
  <2>3. Budget(rest, t, u)
    BY <2>1, <1>13, <1>16
  <2> QED BY <2>2, <2>3, <1>12, <1>s, <1>L
<1>17. CASE u = maker.user /\ ~maker.reduceOnly
  <2>1. maker.id \notin ReduceOnlyOf(full, u)
    BY <1>1, <1>3, <1>17 DEF ReduceOnlyOf
  <2>2. Takes(o2, u) = 0
    BY <1>2, <1>17 DEF Takes
  <2>3. Budget(rest, t, u)
    BY <2>1, <1>13, <1>17
  <2> QED BY <2>2, <2>3, <1>12, <1>s, <1>L
<1>18. CASE u # maker.user /\ u # o.user
  <2>1. t = s /\ AbsBig(t) \in Int
    BY <1>6, <1>18 DEF AbsBig
  <2>2. \A x \in DOMAIN R : /\ ToReduce(R, u)[x] <= ToReduce(L, u)[x]
                            /\ R[x].side = L[x].side
    <3> SUFFICES ASSUME NEW x \in DOMAIN R
                 PROVE  ToReduce(R, u)[x] <= ToReduce(L, u)[x] /\ R[x].side = L[x].side
      OBVIOUS
    <3>0. x \in DOMAIN L /\ (x = o.id \/ x \in DOMAIN rest)
      BY <1>3, <1>7, <1>9
    <3>1. ToReduce(R, u)[x] = ToReduce(L, u)[x] /\ R[x].side = L[x].side
      <4>1. CASE x = o.id
        BY <4>1, <3>0, <1>2, <1>7, <1>9, <1>18 DEF ToReduce
      <4>2. CASE x # o.id
        <5>1. x \in DOMAIN live /\ R[x] = full[x] /\ L[x] = live[x]
          BY <3>0, <4>2, <1>3, <1>7, <1>9
        <5>2. CASE x = maker.id
          BY <3>0, <5>1, <5>2, <1>3, <1>18 DEF ToReduce
        <5>3. CASE x # maker.id
          BY <3>0, <5>1, <5>3, <1>3 DEF ToReduce
        <5> QED BY <5>2, <5>3
      <4> QED BY <4>1, <4>2
    <3>2. ToReduce(L, u)[x] \in Nat
      BY <3>0, <1>7, ToReduceFacts
    <3> QED BY <3>1, <3>2
  <2>3. DOMAIN R \subseteq DOMAIN L
    BY <1>3, <1>7, <1>9
  <2>4. Budget(R, t, u)
    BY <1>7, <1>9, <1>10, <2>1, <2>2, <2>3, BudgetLess
  <2> QED BY <2>4, <1>s, <1>L
<1> QED BY <1>14, <1>15, <1>16, <1>17, <1>18

\* The inductive invariant for the budgets, beside PInv.
BudgetOK == Budgets(LiveOrders, SizesOf(positions))

LEMMA LiveResting == PInv => Resting(LiveOrders)
<1> SUFFICES ASSUME PInv PROVE Resting(LiveOrders)
  OBVIOUS
<1>1. Resting(orders)
  BY EngineParts DEF PInv, Good, Shape
<1>2. CASE pc = "match"
  <2>1. Sound(taker) /\ taker.id \notin DOMAIN orders
    BY <1>2 DEF PInv, TakerSound
  <2>2. Joined(WithOrder(orders, taker), orders, taker)
    BY <1>1, <2>1, RestingWith
  <2> QED BY <1>2, <2>2 DEF Joined, LiveOrders
<1>3. CASE pc # "match"
  BY <1>1, <1>3 DEF LiveOrders
<1> QED BY <1>2, <1>3

\* Orders only leave, and nobody's position changes size.
LEMMA QuietBudgets ==
  ASSUME NEW live, Resting(live), NEW new, DOMAIN new \subseteq DOMAIN live,
         \A x \in DOMAIN new : new[x] = live[x],
         NEW sizes, \A u \in Users : sizes[u] \in Int, Budgets(live, sizes)
  PROVE  Resting(new) /\ Budgets(new, sizes)
<1>1. Resting(new)
  <2>1. DOMAIN new \in SUBSET (DOMAIN live)
    OBVIOUS
  <2>2. IsFiniteSet(DOMAIN new)
    BY <2>1, FS_Subset DEF Resting
  <2> QED BY <2>2 DEF Resting
<1>2. ASSUME NEW u \in Users PROVE Budget(new, sizes[u], u)
  <2>s. PICK s \in Int : s = sizes[u]
    OBVIOUS
  <2>1. Budget(live, s, u) /\ AbsBig(s) \in Int
    BY <2>s DEF Budgets, AbsBig
  <2>2. \A x \in DOMAIN new : /\ ToReduce(new, u)[x] <= ToReduce(live, u)[x]
                              /\ new[x].side = live[x].side
    <3> SUFFICES ASSUME NEW x \in DOMAIN new
                 PROVE  ToReduce(new, u)[x] <= ToReduce(live, u)[x]
                        /\ new[x].side = live[x].side
      OBVIOUS
    <3>1. x \in DOMAIN live /\ new[x] = live[x]
      OBVIOUS
    <3>2. ToReduce(new, u)[x] = ToReduce(live, u)[x]
      BY <3>1 DEF ToReduce
    <3>3. ToReduce(live, u)[x] \in Nat
      BY <3>1, ToReduceFacts
    <3> QED BY <3>1, <3>2, <3>3
  <2>3. Budget(new, s, u)
    BY <1>1, <2>1, <2>2, BudgetLess
  <2> QED BY <2>3, <2>s
<1> QED BY <1>1, <1>2 DEF Budgets

LEMMA SizesInt ==
  ASSUME PInv
  PROVE  \A u \in Users : SizesOf(positions)[u] \in Int
BY EngineParts, ClosableSizes DEF PInv, Good, Shape

LEMMA QuietBudgetStep ==
  ASSUME PInv, BudgetOK, SizesOf(positions)' = SizesOf(positions),
         DOMAIN LiveOrders' \subseteq DOMAIN LiveOrders,
         \A x \in DOMAIN LiveOrders' : LiveOrders'[x] = LiveOrders[x]
  PROVE  BudgetOK'
<1>p. PICK live, new, sizes : /\ live = LiveOrders /\ new = LiveOrders'
                              /\ sizes = SizesOf(positions)
  OBVIOUS
<1>1. Resting(live) /\ Budgets(live, sizes) /\ \A u \in Users : sizes[u] \in Int
  BY <1>p, LiveResting, SizesInt DEF BudgetOK
<1>2. Budgets(new, sizes)
  BY <1>1, <1>p, QuietBudgets
<1> QED BY <1>2, <1>p DEF BudgetOK

LEMMA ExecuteFillBudget ==
  ASSUME PInv, BudgetOK, ExecuteFill
  PROVE  BudgetOK'
<1>e. PICK e, extra, n : e = Engine /\ extra = InFlight /\ n = supply + phantom
  OBVIOUS
<1>m. PICK maker : maker = BestMaker
  OBVIOUS
<1>o. PICK o : o = taker
  OBVIOUS
<1>p. PICK p : p = maker.price
  OBVIOUS
<1>q. PICK q : q = FillQty
  OBVIOUS
<1>1. CanMatch /\ pc = "match" /\ pc' = pc /\ maker.user # o.user
  BY <1>m, <1>o DEF ExecuteFill, CanMatch, SelfTrade
<1>2. /\ Good(e, extra, n) /\ Sound(maker) /\ maker.id \in DOMAIN e.orders
      /\ e.orders[maker.id] = maker /\ Sound(o) /\ p \in Nat \ {0}
      /\ q \in Nat /\ q <= Rem(maker) /\ q <= Rem(o) /\ o.id \notin DOMAIN e.orders
  <2>1. Good(e, extra, n)
    BY <1>e DEF PInv
  <2> QED BY <1>1, <1>e, <1>m, <1>o, <1>p, <1>q, <2>1, MakerFacts, FillQtyFacts,
             EngineParts
<1>3. PICK first, second, filled, gone :
        FillIs(maker, o, q, first, second, filled, gone)
  BY <1>m, <1>o, <1>q, ExecuteFillIs
<1>4. Fills(e, maker, o, p, q, first, second, filled)
  BY <1>e, <1>p, <1>3 DEF FillIs
<1>a. PICK after : after = Paid(extra, o, q)
  OBVIOUS
<1>5. /\ Good(filled, after, n)
      /\ filled.orders = FilledOrders(e.orders, maker, q)
      /\ Moves(SizesOf(e.positions), SizesOf(filled.positions), maker, o, q)
  BY <1>2, <1>4, <1>a, FilledGood
<1>x. PICK live, full, old, new :
        /\ live = orders /\ full = filled.orders
        /\ old = SizesOf(positions) /\ new = SizesOf(filled.positions)
  OBVIOUS
<1>6. /\ Resting(live) /\ maker.id \in DOMAIN live /\ live[maker.id] = maker
      /\ o.id \notin DOMAIN live /\ \A u \in Users : old[u] \in Int
      /\ Moves(old, new, maker, o, q) /\ full = FilledOrders(live, maker, q)
      /\ Budgets(WithOrder(live, o), old)
  <2>1. Resting(live)
    BY <1>x, EngineParts DEF PInv, Good, Shape
  <2>2. Budgets(WithOrder(live, o), old)
    BY <1>1, <1>x, <1>o DEF BudgetOK, LiveOrders
  <2>3. \A u \in Users : old[u] \in Int
    BY <1>x, SizesInt
  <2> QED BY <2>1, <2>2, <2>3, <1>2, <1>5, <1>x, <1>e, EngineParts
<1>r. PICK r : r = Cancelled(filled, gone)
  OBVIOUS
<1>7. /\ TrimmedOf(full, new[maker.user], maker.user, maker.id) \subseteq gone
      /\ TrimmedOf(full, new[o.user], o.user, maker.id) \subseteq gone
  BY <1>3, <1>x DEF FillIs
<1>8. gone \in SUBSET (DOMAIN filled.orders)
  <2>1. Resting(full) /\ DOMAIN full = DOMAIN live
    BY <1>2, <1>6, FilledResting
  <2>2. \A size, u : TrimmedOf(full, size, u, maker.id) \subseteq DOMAIN full
    BY <2>1, TrimmedAre DEF ReduceOnlyOf
  <2>3. gone \subseteq DOMAIN full
    BY <1>3, <1>6, <1>x, <2>1, <2>2 DEF FillIs
  <2> QED BY <2>3, <1>x
<1>9. /\ DOMAIN r.orders = DOMAIN full \ gone
      /\ \A x \in DOMAIN r.orders : r.orders[x] = full[x]
      /\ r.positions = filled.positions
  <2>1. /\ DOMAIN r.orders = DOMAIN filled.orders \ gone
        /\ \A x \in DOMAIN r.orders : r.orders[x] = filled.orders[x]
        /\ r.positions = filled.positions
    BY <1>5, <1>8, <1>r, CancelledGood
  <2> QED BY <2>1, <1>x
<1>t. PICK rest, o2 : rest = r.orders /\ o2 = AfterFill(o, q)
  OBVIOUS
<1>10. Budgets(WithOrder(rest, o2), new)
  <2>1. DOMAIN rest = DOMAIN full \ gone /\ \A x \in DOMAIN rest : rest[x] = full[x]
    BY <1>9, <1>t
  <2>2. FillCase(live, maker, o, q, old, new, full, gone, rest, o2)
    BY <1>1, <1>2, <1>6, <1>7, <1>t, <2>1 DEF FillCase
  <2> QED BY <1>6, <2>2, FillBudgets
<1>11. orders' = rest /\ positions' = r.positions /\ taker' = o2 /\ pc' = "match"
  BY <1>1, <1>3, <1>r, <1>t DEF FillIs, Becomes
<1>12. LiveOrders' = WithOrder(rest, o2) /\ SizesOf(positions)' = new
  <2>1. LiveOrders' = WithOrder(orders', taker')
    BY <1>11 DEF LiveOrders, WithOrder
  <2>2. SizesOf(positions)' = SizesOf(r.positions)
    BY <1>11 DEF SizesOf
  <2> QED BY <2>1, <2>2, <1>9, <1>11, <1>x
<1> QED BY <1>10, <1>12 DEF BudgetOK

\* What is closed out, by the sweep or by deleveraging, leaves no orders behind.
LEMMA ClearedBudgets ==
  ASSUME NEW live, Resting(live), NEW old, Held(old), NEW rest, NEW h,
         Shrunk(h, old), DOMAIN rest \subseteq DOMAIN live,
         \A x \in DOMAIN rest :
           /\ rest[x] = live[x]
           /\ rest[x].user \in DOMAIN old => rest[x].user \in DOMAIN h,
         Budgets(live, SizesOf(old))
  PROVE  Budgets(rest, SizesOf(h))
<1>a. PICK a, b : a = SizesOf(old) /\ b = SizesOf(h)
  OBVIOUS
<1>1. \A u \in Users : a[u] \in Int
  BY <1>a, ClosableSizes
<1>2. Resting(rest) /\ Budgets(rest, a)
  BY <1>1, <1>a, QuietBudgets
<1>3. ASSUME NEW u \in Users PROVE Budget(rest, b[u], u)
  <2>1. CASE u \in DOMAIN h \/ u \notin DOMAIN old
    <3>1. b[u] = a[u]
      BY <2>1, <1>a DEF SizesOf, Shrunk
    <3> QED BY <3>1, <1>2 DEF Budgets
  <2>2. CASE u \notin DOMAIN h /\ u \in DOMAIN old
    <3>1. b[u] = 0
      BY <2>2, <1>a DEF SizesOf
    <3>2. \A x \in DOMAIN rest : rest[x].user # u
      BY <2>2
    <3>3. \A x \in DOMAIN rest : ToReduce(rest, u)[x] = 0
      BY <3>2 DEF ToReduce
    <3>4. ToReduceAll(rest, u) = 0
      <4>1. IsFiniteSet(DOMAIN rest)
        BY <1>2 DEF Resting
      <4> QED BY <4>1, <3>3, SumZero DEF ToReduceAll
    <3>5. Budget(rest, 0, u)
      BY <3>3, <3>4 DEF Budget, AbsBig
    <3> QED BY <3>1, <3>5
  <2> QED BY <2>1, <2>2
<1> QED BY <1>3, <1>a DEF Budgets

LEMMA LiquidateBudget ==
  ASSUME PInv, BudgetOK, Liquidate
  PROVE  BudgetOK'
<1>1. Cleared(Engine', Engine)
  BY LiquidateInv
<1>p. PICK live, old, rest, h :
        live = orders /\ old = positions /\ rest = orders' /\ h = positions'
  OBVIOUS
<1>2. /\ Shrunk(h, old) /\ DOMAIN rest \subseteq DOMAIN live
      /\ \A x \in DOMAIN rest :
           /\ rest[x] = live[x]
           /\ rest[x].user \in DOMAIN old => rest[x].user \in DOMAIN h
  BY <1>1, <1>p DEF Cleared, Engine
<1>3. pc # "match" /\ pc' = pc
  BY DEF Liquidate
<1>4. Resting(live) /\ Held(old) /\ Budgets(live, SizesOf(old))
  BY <1>3, <1>p, EngineParts DEF PInv, Good, Shape, BudgetOK, LiveOrders
<1>5. Budgets(rest, SizesOf(h))
  BY <1>2, <1>4, ClearedBudgets
<1>6. LiveOrders' = rest /\ SizesOf(positions)' = SizesOf(h)
  BY <1>3, <1>p DEF LiveOrders, SizesOf
<1> QED BY <1>5, <1>6 DEF BudgetOK

\* An order is accepted: a reduce-only one only if it fits beside the others.
LEMMA AcceptBudget ==
  ASSUME PInv, BudgetOK, NEW req \in Incoming, Accept(req)
  PROVE  BudgetOK'
<1>o. PICK o : o = OrderOf(req)
  OBVIOUS
<1>p. PICK live, old : live = orders /\ old = SizesOf(positions)
  OBVIOUS
<1>1. Asked(req) /\ pc # "match"
  BY IncomingAsked
<1>2. /\ ValidSize(req.price, req.qty) /\ (req.reduceOnly => FitsPosition(req))
      /\ taker' = o /\ pc' = "match" /\ UNCHANGED <<positions, orders>>
  BY <1>o DEF Accept, Acceptable
<1>3. /\ Sound(o) /\ o.user = req.user /\ o.id = nextId
      /\ o.side = req.side /\ o.reduceOnly = req.reduceOnly /\ Rem(o) = req.qty
  <2>1. Sound(o) /\ o.user = req.user /\ o.id = nextId
    BY <1>1, <1>2, <1>o, OrderOfFacts
  <2>2. /\ o.side = req.side /\ o.reduceOnly = req.reduceOnly
        /\ o.qty = req.qty /\ o.filled = 0
    BY <1>o DEF OrderOf
  <2>3. Rem(o) = req.qty
    BY <2>2, <1>1 DEF Rem, Asked
  <2> QED BY <2>1, <2>2, <2>3
<1>4. Resting(live) /\ o.id \notin DOMAIN live /\ Budgets(live, old)
  <2>1. Resting(live)
    BY <1>p, EngineParts DEF PInv, Good, Shape
  <2>2. o.id \notin DOMAIN live
    BY <1>3, <1>p DEF PInv, Settings
  <2>3. Budgets(live, old)
    BY <1>1, <1>p DEF BudgetOK, LiveOrders
  <2> QED BY <2>1, <2>2, <2>3
<1>5. ASSUME NEW u \in Users PROVE Budget(WithOrder(live, o), old[u], u)
  <2>s. PICK s \in Int : s = old[u]
    BY <1>p, SizesInt
  <2>1. Budget(live, s, u)
    BY <1>4, <2>s DEF Budgets
  <2>2. ASSUME Takes(o, u) # 0
        PROVE  /\ SignBig(s) = -Dir(o.side)
               /\ ToReduceAll(live, u) + Rem(o) <= AbsBig(s)
    <3>1. req.user = u /\ req.reduceOnly
      BY <2>2, <1>3 DEF Takes
    <3>2. PICK c, mine : c = Closable(s, o.side) /\ mine = ReduceOnlyOf(live, u)
      OBVIOUS
    <3>3. c > 0 /\ Rem(o) + QtyOf(live, mine) <= c
      BY <1>2, <1>3, <1>p, <2>s, <3>1, <3>2 DEF FitsPosition, OpenReduceOnlyQty
    <3>4. QtyOf(live, mine) = ToReduceAll(live, u)
      <4>1. /\ mine \in SUBSET ReduceOnlyOf(live, u)
            /\ \A x \in ReduceOnlyOf(live, u) \ mine : Rem(live[x]) = 0
        BY <3>2
      <4> QED BY <4>1, <1>4, ReduceOnlyQty
    <3>5. SignBig(s) = -Dir(o.side) /\ c = AbsBig(s)
      BY <3>2, <3>3 DEF Closable
    <3>6. PICK k \in Nat, t \in Nat : k = Rem(o) /\ t = ToReduceAll(live, u)
      <4>1. Rem(o) \in Nat
        BY <1>3, SoundLock DEF Sound
      <4>2. ToReduceAll(live, u) \in Nat
        BY <1>4, ToReduceFacts
      <4> QED BY <4>1, <4>2
    <3>7. t + k <= c
      BY <3>3, <3>4, <3>6
    <3> QED BY <3>5, <3>6, <3>7
  <2>3. Budget(WithOrder(live, o), s, u)
    BY <1>3, <1>4, <2>1, <2>2, BudgetJoin
  <2> QED BY <2>3, <2>s
<1>6. LiveOrders' = WithOrder(live, o) /\ SizesOf(positions)' = old
  BY <1>2, <1>p DEF LiveOrders, SizesOf, WithOrder
<1> QED BY <1>5, <1>6 DEF BudgetOK, Budgets

\* What cancelling does to the orders and to the positions.
LEMMA CancelledOrders ==
  ASSUME NEW ids, Becomes(Cancelled(Engine, ids))
  PROVE  orders' = Without(orders, ids) /\ positions' = positions
<1>1. PICK a, l, b : Cancelled(Engine, ids) =
        [Engine EXCEPT !.available = a, !.locked = l, !.orders = Without(@, ids),
                       !.book = b]
  BY DEF Cancelled
<1>2. Cancelled(Engine, ids) =
        [available |-> a, locked |-> l, positions |-> positions,
         orders |-> Without(orders, ids), book |-> b]
  BY <1>1 DEF Engine
<1> QED BY <1>2 DEF Becomes

LEMMA CancelBudget ==
  ASSUME PInv, BudgetOK, NEW ids, Becomes(Cancelled(Engine, ids)),
         taker' = taker, pc = "match" <=> pc' = "match"
  PROVE  BudgetOK'
<1>1. orders' = Without(orders, ids) /\ positions' = positions
  BY CancelledOrders
<1>p. PICK live, new : live = LiveOrders /\ new = LiveOrders'
  OBVIOUS
<1>2. DOMAIN new \subseteq DOMAIN live /\ \A x \in DOMAIN new : new[x] = live[x]
  <2>1. /\ DOMAIN orders' \subseteq DOMAIN orders
        /\ \A x \in DOMAIN orders' : orders'[x] = orders[x]
    BY <1>1 DEF Without
  <2>2. CASE pc = "match"
    BY <2>1, <2>2, <1>p DEF LiveOrders, WithOrder
  <2>3. CASE pc # "match"
    BY <2>1, <2>3, <1>p DEF LiveOrders
  <2> QED BY <2>2, <2>3
<1>3. SizesOf(positions)' = SizesOf(positions)
  BY <1>1 DEF SizesOf
<1> QED BY <1>2, <1>3, <1>p, QuietBudgetStep

\* The order in flight is done, and stays as it is or goes.
LEMMA FinishSubmitBudget ==
  ASSUME PInv, BudgetOK, FinishSubmit
  PROVE  BudgetOK'
<1>1. /\ pc = "match" /\ pc' = "idle" /\ positions' = positions
      /\ orders' = orders \/ orders' = WithOrder(orders, taker)
  BY DEF FinishSubmit, FinishFilled, FinishCancelled, FinishResting
<1>2. LiveOrders' = orders' /\ LiveOrders = WithOrder(orders, taker)
  BY <1>1 DEF LiveOrders
<1>3. /\ DOMAIN LiveOrders' \subseteq DOMAIN LiveOrders
      /\ \A x \in DOMAIN LiveOrders' : LiveOrders'[x] = LiveOrders[x]
  <2>1. taker.id \notin DOMAIN orders
    BY <1>1 DEF PInv, TakerSound
  <2>2. /\ DOMAIN orders \subseteq DOMAIN WithOrder(orders, taker)
        /\ \A x \in DOMAIN orders : WithOrder(orders, taker)[x] = orders[x]
    BY <2>1 DEF WithOrder
  <2> QED BY <1>1, <1>2, <2>2
<1>4. SizesOf(positions)' = SizesOf(positions)
  BY <1>1 DEF SizesOf
<1> QED BY <1>3, <1>4, QuietBudgetStep

\* Funding moves margins and no sizes.
LEMMA ApplyFundingBudget ==
  ASSUME PInv, BudgetOK, NEW rate \in Rates, ApplyFunding(rate)
  PROVE  BudgetOK'
<1>1. PICK pay : positions' = [u \in DOMAIN positions |->
                     [positions[u] EXCEPT !.margin = @ + MinBig(0, pay[u])]]
  <2>1. PICK pay, total, residual :
          Funded(Engine, pay, total, residual, available', positions')
    BY FundingIs
  <2> QED BY <2>1, EngineParts DEF Funded
<1>2. pc # "match" /\ pc' # "match" /\ orders' = orders
  BY DEF ApplyFunding, BeginSweep
<1>3. SizesOf(positions)' = SizesOf(positions)
  <2>1. Held(positions)
    BY EngineParts DEF PInv, Good, Shape
  <2>2. DOMAIN positions' = DOMAIN positions
    BY <1>1
  <2>3. \A u \in DOMAIN positions : positions'[u].size = positions[u].size
    BY <2>1, <1>1 DEF Held, Position
  <2> QED BY <2>2, <2>3 DEF SizesOf
<1>4. LiveOrders' = LiveOrders
  BY <1>2 DEF LiveOrders
<1> QED BY <1>3, <1>4, QuietBudgetStep

\* Every step that leaves the orders, the one in flight and the positions alone.
LEMMA IdleBudget ==
  ASSUME PInv, BudgetOK, UNCHANGED <<orders, positions, taker>>,
         pc = "match" <=> pc' = "match"
  PROVE  BudgetOK'
<1>1. LiveOrders' = LiveOrders /\ SizesOf(positions)' = SizesOf(positions)
  BY DEF LiveOrders, SizesOf, WithOrder
<1> QED BY <1>1, QuietBudgetStep

LEMMA BudgetInit == Init => BudgetOK
<1> SUFFICES ASSUME Init PROVE BudgetOK
  OBVIOUS
<1>1. PInv
  BY PerpInitInv
<1>p. PICK live : live = LiveOrders
  OBVIOUS
<1>2. DOMAIN live = {}
  BY <1>p DEF Init, LiveOrders
<1>3. ASSUME NEW u \in Users PROVE Budget(live, SizesOf(positions)[u], u)
  <2>s. PICK s \in Int : s = SizesOf(positions)[u]
    BY <1>1, SizesInt
  <2>1. ToReduceAll(live, u) = 0
    <3>1. IsFiniteSet(DOMAIN live) /\ \A x \in DOMAIN live : ToReduce(live, u)[x] = 0
      BY <1>2, FS_EmptySet
    <3> QED BY <3>1, SumZero DEF ToReduceAll
  <2>2. AbsBig(s) >= 0
    BY DEF AbsBig
  <2> QED BY <2>s, <2>1, <2>2, <1>2 DEF Budget
<1> QED BY <1>3, <1>p DEF BudgetOK, Budgets

LEMMA BudgetNext == PInv /\ BudgetOK /\ [Next]_vars => BudgetOK'
<1> SUFFICES ASSUME PInv, BudgetOK, [Next]_vars PROVE BudgetOK'
  OBVIOUS
<1>1. ASSUME NEW req \in Incoming, Reject(req) PROVE BudgetOK'
  BY <1>1, IncomingAsked, IdleBudget DEF Reject
<1>2. ASSUME CancelMaker PROVE BudgetOK'
  BY <1>2, CancelBudget DEF CancelMaker
<1>3. ASSUME NEW id \in DOMAIN orders, CancelOrder(id) PROVE BudgetOK'
  BY <1>3, CancelBudget DEF CancelOrder
<1>4. ASSUME NEW id \in DOMAIN orders, NEW ch \in Amendments, AmendOrder(id, ch)
      PROVE  BudgetOK'
  BY <1>4, CancelBudget DEF AmendOrder
<1>5. ASSUME NEW u \in Users, NEW l \in Leverages, SetLeverage(u, l) PROVE BudgetOK'
  BY <1>5, IdleBudget DEF SetLeverage
<1>6. ASSUME NEW m \in Marks, SetMarkPrice(m) PROVE BudgetOK'
  BY <1>6, IdleBudget DEF SetMarkPrice, BeginSweep
<1>7. ASSUME PassHealthy \/ FinishSweep PROVE BudgetOK'
  BY <1>7, IdleBudget DEF PassHealthy, FinishSweep
<1>8. ASSUME NEW t \in Transfers, Deposit(t) \/ Withdraw(t) PROVE BudgetOK'
  BY <1>8, IdleBudget DEF Deposit, Withdraw
<1>9. ASSUME UNCHANGED vars PROVE BudgetOK'
  BY <1>9, IdleBudget DEF vars
<1>10. CASE SubmitOrder
  BY <1>10, <1>1, AcceptBudget DEF SubmitOrder
<1>11. CASE MatchOrder
  BY <1>11, <1>2, ExecuteFillBudget DEF MatchOrder
<1>12. CASE LiquidationSweep
  BY <1>12, <1>7, LiquidateBudget DEF LiquidationSweep
<1> QED BY <1>3, <1>4, <1>5, <1>6, <1>8, <1>9, <1>10, <1>11, <1>12,
           FinishSubmitBudget, ApplyFundingBudget DEF Next

LEMMA PerpBudget == PInv /\ BudgetOK => ReduceOnlyBudget
<1> SUFFICES ASSUME PInv, BudgetOK, NEW u \in Users,
                    NEW live, live = LiveOrders,
                    NEW size \in Int, size = SizesOf(positions)[u],
                    NEW mine, mine = {id \in ReduceOnlyOf(live, u) : Rem(live[id]) > 0}
             PROVE  /\ \A id \in mine : SignBig(size) = -Dir(live[id].side)
                    /\ QtyOf(live, mine) <= AbsBig(size)
  BY SizesInt DEF ReduceOnlyBudget
<1>1. Resting(live) /\ Budget(live, size, u)
  BY LiveResting DEF BudgetOK, Budgets
<1>2. \A id \in DOMAIN live : Rem(live[id]) \in Nat
  BY <1>1, ToReduceFacts
<1>3. ASSUME NEW id \in mine PROVE SignBig(size) = -Dir(live[id].side)
  <2>1. id \in DOMAIN live /\ ToReduce(live, u)[id] # 0
    BY <1>2 DEF ReduceOnlyOf, ToReduce
  <2> QED BY <2>1, <1>1 DEF Budget
<1>4. QtyOf(live, mine) = ToReduceAll(live, u)
  <2>1. /\ mine \in SUBSET ReduceOnlyOf(live, u)
        /\ \A x \in ReduceOnlyOf(live, u) \ mine : Rem(live[x]) = 0
    BY <1>2 DEF ReduceOnlyOf
  <2> QED BY <2>1, <1>1, ReduceOnlyQty
<1> QED BY <1>1, <1>3, <1>4 DEF Budget

\* A trader's reduce-only orders, the one in flight included, never ask for more
\* than the position, however fills, liquidations and deleveraging shrink it.
THEOREM PerpBudgetKept == Spec => []ReduceOnlyBudget
<1> QED BY PerpInvariant, BudgetInit, BudgetNext, PerpBudget, PTL DEF Spec
=============================================================================
