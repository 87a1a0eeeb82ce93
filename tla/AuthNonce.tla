----------------------------- MODULE AuthNonce -----------------------------
(***************************************************************************)
(* Wallet login: apps/api/src/auth.ts, the two routes over it and the web  *)
(* client's login().  A nonce is issued to an address and kept in memory;  *)
(* the client signs it and trades the signature for a token.  The server   *)
(* awaits the signature check, and then the database, between taking the   *)
(* nonce and minting the token.  Requests may arrive late or twice.        *)
(***************************************************************************)
EXTENDS Integers, FiniteSets, Functions

CONSTANTS
  Tabs,         \* browser tabs, or the two ways one tab can log in
  AddressOf,    \* tab -> the address of the key it holds (tabs share a key)
  NonceTtl,     \* NONCE_TTL_MS
  NonceCap,     \* MAX_NONCES
  MaxNonces, MaxCopies   \* bounds: nonces issued, deliveries of one request

ASSUME AuthAssumption ==
  /\ DOMAIN AddressOf = Tabs /\ NonceTtl \in Nat
  /\ NonceCap \in Nat \ {0} /\ MaxNonces \in Nat /\ MaxCopies \in Nat

VARIABLES
  nonces,    \* the map: an entry an address, `at` its place in the order
  tab,       \* tab -> where its login is
  checking,  \* verify requests waiting for the signature check
  issued, minted   \* history: nonces issued, nonce -> tokens minted for it

authVars == <<nonces, tab, checking, issued, minted>>

NoLogin == [pc |-> "idle", nonce |-> 0, copies |-> 0]
WithoutAddress(s, a) == {n \in s : n.addr # a}

-----------------------------------------------------------------------------

Login(t) ==
  /\ tab[t].pc \in {"idle", "error"}
  /\ tab' = [tab EXCEPT ![t] = [NoLogin EXCEPT !.pc = "asking"]]
  /\ UNCHANGED <<nonces, checking, issued, minted>>

\* Map.set: an address that is already there keeps its place.
PlaceOf(a) ==
  IF \E n \in nonces : n.addr = a THEN (CHOOSE n \in nonces : n.addr = a).at
  ELSE issued + 1

SetNonce(a) ==
  WithoutAddress(nonces, a) \cup
    {[addr |-> a, id |-> issued + 1, life |-> NonceTtl, at |-> PlaceOf(a)]}

\* The k entries that were inserted last.
LastInserted(s, k) == {n \in s : Cardinality({m \in s : m.at > n.at}) < k}

\* Over the cap: the expired go, then the first in the map until it fits.
Prune(s) ==
  IF Cardinality(s) <= NonceCap THEN s
  ELSE LastInserted({n \in s : n.life >= 0}, NonceCap)

\* POST /auth/nonce, and the client signs the answer.
IssueNonce(t) ==
  /\ tab[t].pc = "asking" /\ issued < MaxNonces
  /\ issued' = issued + 1
  /\ nonces' = Prune(SetNonce(AddressOf[t]))
  /\ tab' = [tab EXCEPT ![t] = [pc |-> "verifying", nonce |-> issued + 1,
                                copies |-> 0]]
  /\ UNCHANGED <<checking, minted>>

\* What the client does with an answer it may no longer wait for.
Outcome(t, nonce, pc) ==
  IF tab[t].pc = "verifying" /\ tab[t].nonce = nonce
  THEN [tab EXCEPT ![t].pc = pc] ELSE tab

Consume_afterCheck(a) == nonces

\* The entry is deleted before the signature is looked at.
Consume(a) == WithoutAddress(nonces, a)

\* POST /auth/verify reaches the server, for the first time or again.
Verify(t) ==
  LET a == AddressOf[t]
      held == {n \in nonces : n.addr = a /\ n.life >= 0}
  IN  /\ tab[t].nonce # 0 /\ tab[t].copies < MaxCopies
      /\ \/ /\ held = {}
            /\ nonces' = WithoutAddress(nonces, a)
            /\ tab' = [Outcome(t, tab[t].nonce, "error") EXCEPT ![t].copies = @ + 1]
            /\ UNCHANGED checking
         \/ \E n \in held :
              /\ nonces' = Consume(a)
              /\ tab' = [tab EXCEPT ![t].copies = @ + 1]
              /\ checking' = checking \cup
                   {[tab |-> t, signed |-> tab[t].nonce, entry |-> n.id]}
      /\ UNCHANGED <<issued, minted>>

\* The signature has been checked; only one over the entry's nonce will do.
\* The user row is made, and the token.
Checked(c) ==
  LET good == c.signed = c.entry
  IN  /\ checking' = checking \ {c}
      /\ minted' = IF good THEN [minted EXCEPT ![c.entry] = @ + 1] ELSE minted
      /\ tab' = Outcome(c.tab, c.signed, IF good THEN "connected" ELSE "error")
      /\ UNCHANGED <<nonces, issued>>

\* users.getOrCreate fails.
VerifyFails(c) ==
  /\ checking' = checking \ {c}
  /\ tab' = Outcome(c.tab, c.signed, "error")
  /\ UNCHANGED <<nonces, issued, minted>>

\* The client gives up on a request; it may still arrive.
LoginFails(t) ==
  /\ tab[t].pc \in {"asking", "verifying"}
  /\ tab' = [tab EXCEPT ![t].pc = "error"]
  /\ UNCHANGED <<nonces, checking, issued, minted>>

NonceElapse ==
  /\ nonces' = {[n EXCEPT !.life = IF @ < 0 THEN @ ELSE @ - 1] : n \in nonces}
  /\ UNCHANGED <<tab, checking, issued, minted>>

AuthInit ==
  /\ nonces = {} /\ checking = {} /\ issued = 0
  /\ tab = [t \in Tabs |-> NoLogin]
  /\ minted = [n \in 1..MaxNonces |-> 0]

AuthNext ==
  \/ \E t \in Tabs : Login(t) \/ IssueNonce(t) \/ Verify(t) \/ LoginFails(t)
  \/ \E c \in checking : Checked(c) \/ VerifyFails(c)
  \/ NonceElapse

AuthSpec == AuthInit /\ [][AuthNext]_authVars

-----------------------------------------------------------------------------
(* Properties.                                                             *)

AuthTypeOK ==
  /\ issued \in 0..MaxNonces /\ minted \in [1..MaxNonces -> Nat]
  /\ \A n \in nonces :
       /\ n.addr \in Range(AddressOf) /\ n.id \in 1..issued
       /\ n.life \in (-1)..NonceTtl /\ n.at \in 1..n.id
  /\ \A t \in Tabs :
       /\ tab[t].pc \in {"idle", "asking", "verifying", "connected", "error"}
       /\ tab[t].nonce \in 0..issued /\ tab[t].copies \in 0..MaxCopies

\* "Nonces are single-use" (auth.ts:13): however logins of one key overlap, are
\* delivered twice or late, no nonce is worth two tokens, and none that has
\* been taken is still, or again, in the map.  The map holds one nonce an
\* address and stays within MAX_NONCES.
NonceOnce ==
  /\ \A n \in 1..MaxNonces : minted[n] <= 1
  /\ \A c \in checking, n \in nonces : c.entry # n.id
  /\ \A n \in nonces : minted[n.id] = 0
  /\ Cardinality(nonces) <= NonceCap
  /\ \A m, n \in nonces : m.addr = n.addr => m = n
=============================================================================
