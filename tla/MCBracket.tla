----------------------------- MODULE MCBracket -----------------------------
EXTENDS Bracket

Limit(u, s, p, q) ==
  [user |-> u, side |-> s, type |-> "limit", price |-> p, qty |-> q,
   tif |-> "GTC", postOnly |-> FALSE, reduceOnly |-> FALSE, oco |-> NoGroup]

\* Trader 1 makes the market the bracket of trader 3 needs, 2 takes profits; the
\* last request is always refused.
MCRequests ==
  {Limit(1, "sell", 10, 2), Limit(1, "buy", 9, 1), Limit(2, "buy", 12, 1),
   Limit(2, "sell", 12, 0)}

\* The trader lowers what the take-profit asks.
MCAmendments == {[price |-> 11, qty |-> 2]}

\* One the trader can pay for and one whose entry is refused.
MCBrackets == {[user |-> 3, side |-> "buy", qty |-> q, tp |-> 12, sl |-> 8, group |-> "br"] :
                 q \in {2, 20}}

MCTiers == <<[upTo |-> 12, rate |-> 0]>>

MCStarts ==
  {[available |-> [a \in Accounts |-> IF a \in Users THEN 30 ELSE 0],
    positions |-> [u \in {} |-> 0],
    leverages |-> <<2, 2, 2>>]}

ASSUME BracketAlone == Alone
=============================================================================
