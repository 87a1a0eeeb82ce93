----------------------------- MODULE MCTriggers -----------------------------
EXTENDS Triggers

Order0(u, s, p, q, ro, g) ==
  [user |-> u, side |-> s, type |-> "limit", price |-> p, qty |-> q,
   tif |-> "GTC", postOnly |-> FALSE, reduceOnly |-> ro, oco |-> g]

Stop(o, at, dir, trail) ==
  [user |-> o.user, side |-> o.side, type |-> o.type, price |-> o.price,
   qty |-> o.qty, tif |-> o.tif, postOnly |-> o.postOnly,
   reduceOnly |-> o.reduceOnly, oco |-> o.oco,
   trigger |-> [price |-> at, direction |-> dir, trail |-> trail]]

Market(o) == [o EXCEPT !.type = "market", !.price = 0, !.tif = "IOC"]

\* Trader 1 makes and takes liquidity on both sides.  Trader 2, who is long 3,
\* protects the position: two take-profits of group "g" (one reduce-only); the
\* last request is always refused.
MCRequests ==
  {Order0(1, "buy", 10, 2, FALSE, NoGroup), Order0(1, "buy", 12, 2, FALSE, NoGroup),
   Order0(2, "sell", 12, 1, FALSE, "g"), Order0(2, "sell", 12, 2, TRUE, "g"),
   Order0(2, "sell", 12, 0, FALSE, NoGroup)}

\* A stop-market and a trailing stop-limit in the same group, a trailing stop
\* too wide for the lowest mark, and a stop-market of the short trader that the
\* highest mark fires.
MCConditionals ==
  {Stop(Market(Order0(2, "sell", 0, 2, TRUE, "g")), 8, "below", 0),
   Stop(Order0(2, "sell", 10, 1, FALSE, "g"), 0, "below", 4),
   Stop(Order0(2, "sell", 12, 1, TRUE, NoGroup), 0, "below", 8),
   Stop(Market(Order0(1, "buy", 0, 1, FALSE, NoGroup)), 11, "above", 0)}

MCAmendments == {[price |-> 10, qty |-> 1]}
MCTiers == <<[upTo |-> 12, rate |-> 0]>>

Wallets(n, fee) ==
  [a \in Accounts |-> IF a \in Users THEN n ELSE IF a = FEE THEN fee ELSE 0]

\* 1 is short 3 and 2 long 3 from a price of 10 at leverage 2.
MCStarts ==
  {[available |-> Wallets(20, 1),
    positions |-> [u \in {1, 2} |->
                     [size |-> IF u = 1 THEN -3 ELSE 3, entry |-> 10,
                      margin |-> 9, leverage |-> 2]],
    leverages |-> <<2, 2>>]}
=============================================================================
