--------------------------- MODULE MCPerpExchange ---------------------------
EXTENDS PerpExchange

Order0(u, s, p, q, f, ro) ==
  [user |-> u, side |-> s, type |-> "limit", price |-> p, qty |-> q,
   tif |-> f, postOnly |-> FALSE, reduceOnly |-> ro, oco |-> NoGroup]

\* Traders 1 and 2.  Plain orders that open, close and flip; reduce-only orders
\* that fit the starting position alone but not together with everything else;
\* fill-or-kill orders that must look past them; one post-only; one market.
MCRequests ==
  {Order0(1, "buy", 12, 2, "GTC", FALSE), Order0(1, "sell", 10, 2, "GTC", FALSE),
   Order0(1, "buy", 12, 1, "GTC", TRUE), Order0(1, "buy", 10, 2, "GTC", TRUE),
   Order0(2, "sell", 10, 4, "FOK", FALSE), Order0(2, "sell", 12, 1, "GTC", TRUE),
   Order0(2, "buy", 10, 3, "GTC", FALSE),
   [Order0(2, "sell", 10, 2, "GTC", FALSE) EXCEPT !.postOnly = TRUE],
   [Order0(2, "sell", 10, 3, "IOC", FALSE) EXCEPT !.type = "market"]}

MCAmendments == {[price |-> 12, qty |-> 4]}
MCTransfers == {[user |-> 1, amount |-> 5]}
MCTiers == <<[upTo |-> 12, rate |-> 0]>>
MCRates == {-1, 1}

Wallets(n, fee) ==
  [a \in Accounts |-> IF a \in Users THEN n ELSE IF a = FEE THEN fee ELSE 0]

\* A fresh market, and one where 1 is short 3 and 2 long 3 from a price of 10
\* at leverage 4.
MCStarts ==
  {[available |-> Wallets(14, 0),
    positions |-> [u \in {} |-> 0],
    leverages |-> <<1, 4>>],
   [available |-> Wallets(9, 1),
    positions |-> [u \in {1, 2} |->
                     [size |-> IF u = 1 THEN -3 ELSE 3, entry |-> 10,
                      margin |-> 3, leverage |-> 4]],
    leverages |-> <<4, 4>>]}
=============================================================================
