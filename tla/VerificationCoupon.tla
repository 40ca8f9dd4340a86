------------------------- MODULE VerificationCoupon -------------------------
(***************************************************************************)
(* contracts/verification-coupon/contracts/VerificationCoupon.sol: bundles *)
(* of coupons, minted for a primary with an expiration time, and burned    *)
(* one at a time by the primary's operators.                               *)
(*                                                                         *)
(* Outside the model: the roles' grants (the deployer mints), the token's  *)
(* name and the events.  Transfers are ERC1155's.                          *)
(***************************************************************************)
EXTENDS Naturals, FiniteSets, Sequences, Permissions

CONSTANTS
  MaxTokens,    \* bound: bundles minted
  MaxQuantity,  \* bound: coupons of a bundle
  MaxTime       \* bound: block.timestamp

ASSUME CouponBoundsAssumption ==
  MaxTokens \in Nat /\ MaxQuantity \in Nat /\ MaxTime \in Nat

Token == 0..(MaxTokens - 1)

VARIABLES
  timestamp,       \* block.timestamp
  tokenIdTracker,  \* the next bundle's id
  balances,        \* ERC1155: coupons of a bundle, by owner
  expirationTime,  \* of each bundle; 0 once it is deleted
  ownerTokens,     \* the list of an owner's bundles
  bundles,         \* history: what was minted
  transferred,     \* history: bundles some coupon of which changed hands
  spendings        \* history: what burn took, and when

coupons == <<timestamp, tokenIdTracker, balances, expirationTime, ownerTokens,
             bundles, transferred, spendings>>

NoBundle == [owner |-> Zero, expires |-> 0, quantity |-> 0]

CouponsInit ==
  /\ timestamp = 0
  /\ tokenIdTracker = 0
  /\ balances = [t \in Token |-> [a \in Address |-> 0]]
  /\ expirationTime = [t \in Token |-> 0]
  /\ ownerTokens = [a \in Address |-> <<>>]
  /\ bundles = [t \in Token |-> NoBundle]
  /\ transferred = {}
  /\ spendings = [t \in Token |-> <<>>]

IsExpired(t) == timestamp >= expirationTime[t]

\* getTokenId: the lowest id listed that is not expired; reverts if there is none.
Available(primary) ==
  {t \in Token : (\E i \in DOMAIN ownerTokens[primary] : ownerTokens[primary][i] = t)
                 /\ ~ IsExpired(t)}
getTokenId(primary) == CHOOSE t \in Available(primary) :
                         \A u \in Available(primary) : t <= u

RemoveLast(list, t) ==   \* mutant: pops without moving the last id
  IF \E i \in DOMAIN list : list[i] = t THEN SubSeq(list, 1, Len(list) - 1) ELSE list

\* removeTokenId: the last id takes the place of the first one that is equal.
RemoveTokenId(list, t) ==
  LET found == {i \in DOMAIN list : list[i] = t}
      first == CHOOSE i \in found : \A j \in found : i <= j
  IN IF found = {} THEN list
     ELSE SubSeq([list EXCEPT ![first] = list[Len(list)]], 1, Len(list) - 1)

BurnAndStep(ids) ==   \* mutant: i++ after a removal too
  LET Turns[n \in Nat] ==
        IF n = 0 THEN ids
        ELSE LET list == Turns[n - 1] IN
               IF n <= Len(list) /\ IsExpired(list[n]) THEN RemoveTokenId(list, list[n]) ELSE list
  IN Turns[Len(ids)]

\* A turn of the loop of burnExpiredTokens: the id at i is taken off the list, and
\* another one is at i, or i++.
Turn(loop) == IF IsExpired(loop.list[loop.i])
              THEN [list |-> RemoveTokenId(loop.list, loop.list[loop.i]), i |-> loop.i]
              ELSE [list |-> loop.list, i |-> loop.i + 1]

\* The ids that stay on the list.  Either way one id less is ahead of i: the loop
\* takes as many turns as there are ids.
BurnExpiredTokens(ids) ==
  LET Turns[n \in Nat] == IF n = 0 THEN [list |-> ids, i |-> 1] ELSE Turn(Turns[n - 1])
  IN Turns[Len(ids)].list

mint(sender, to, expires, quantity) ==
  LET t == tokenIdTracker IN
  /\ sender = Deployer
  /\ quantity > 0
  /\ t \in Token
  /\ balances' = [balances EXCEPT ![t][to] = quantity]
  /\ ownerTokens' = [ownerTokens EXCEPT ![to] = Append(@, t)]
  /\ expirationTime' = [expirationTime EXCEPT ![t] = expires]
  /\ tokenIdTracker' = t + 1
  /\ bundles' = [bundles EXCEPT ![t] =
                   [owner |-> to, expires |-> expires, quantity |-> quantity]]
  /\ UNCHANGED <<timestamp, transferred, spendings>>

BurnUnchecked(sender, t, operator) ==   \* mutant: "bundle has no balance" dropped
  LET primary == operatorToPrimary[operator] IN
  /\ HasScope(sender, "coupon:burn")
  /\ MayWrite(operator)
  /\ balances' = [balances EXCEPT ![t][primary] = @ - 1]
  /\ spendings' = [spendings EXCEPT ![t] = Append(@, timestamp)]
  /\ UNCHANGED <<timestamp, tokenIdTracker, expirationTime, ownerTokens, bundles, transferred>>

BurnUnswept(sender, t, operator) ==   \* mutant: no burnExpiredTokens
  LET primary == operatorToPrimary[operator]
      last == balances[t][primary] = 1 IN
  /\ HasScope(sender, "coupon:burn")
  /\ MayWrite(operator)
  /\ balances[t][primary] > 0
  /\ balances' = [balances EXCEPT ![t][primary] = @ - 1]
  /\ expirationTime' = [expirationTime EXCEPT ![t] = IF last THEN 0 ELSE @]
  /\ ownerTokens' = [ownerTokens EXCEPT ![primary] = IF last THEN RemoveTokenId(@, t) ELSE @]
  /\ spendings' = [spendings EXCEPT ![t] = Append(@, timestamp)]
  /\ UNCHANGED <<timestamp, tokenIdTracker, bundles, transferred>>

\* burn by sender for operator: the primary's expired bundles go first, then one
\* coupon of the bundle named, which must still be there.
burn(sender, t, operator) ==
  LET primary == operatorToPrimary[operator]
      kept == BurnExpiredTokens(ownerTokens[primary])
      \* what burnExpiredTokens took off the list
      expired == {u \in Token : u \in {ownerTokens[primary][i] : i \in DOMAIN ownerTokens[primary]}
                                      \ {kept[i] : i \in DOMAIN kept}}
      last == balances[t][primary] = 1
  IN
  /\ HasScope(sender, "coupon:burn")
  /\ MayWrite(operator)
  /\ balances[t][primary] > 0
  /\ t \notin expired
  /\ balances' = [u \in Token |-> [balances[u] EXCEPT ![primary] =
                    IF u \in expired THEN 0 ELSE IF u = t THEN @ - 1 ELSE @]]
  /\ expirationTime' = [u \in Token |->
                          IF u \in expired \/ (u = t /\ last) THEN 0 ELSE expirationTime[u]]
  /\ ownerTokens' = [ownerTokens EXCEPT ![primary] =
                       IF last THEN RemoveTokenId(kept, t) ELSE kept]
  /\ spendings' = [spendings EXCEPT ![t] = Append(@, timestamp)]
  /\ UNCHANGED <<timestamp, tokenIdTracker, bundles, transferred>>

\* safeTransferFrom by the owner: the balances move, the lists do not.
safeTransferFrom(sender, to, t) ==
  /\ sender # to
  /\ balances[t][sender] > 0
  /\ balances' = [balances EXCEPT ![t][sender] = @ - 1, ![t][to] = @ + 1]
  /\ transferred' = transferred \cup {t}
  /\ UNCHANGED <<timestamp, tokenIdTracker, expirationTime, ownerTokens, bundles, spendings>>

Tick == /\ timestamp < MaxTime
        /\ timestamp' = timestamp + 1
        /\ UNCHANGED <<tokenIdTracker, balances, expirationTime, ownerTokens,
                       bundles, transferred, spendings>>

-----------------------------------------------------------------------------
Listed(t, owner) == \E i \in DOMAIN ownerTokens[owner] : ownerTokens[owner][i] = t

CouponsTypeOK ==
  /\ timestamp \in 0..MaxTime
  /\ tokenIdTracker \in 0..MaxTokens
  /\ balances \in [Token -> [Address -> Nat]]
  /\ expirationTime \in [Token -> 0..MaxTime]
  /\ ownerTokens \in [Address -> Seq(Token)]
  /\ bundles \in [Token -> [owner : Address \cup {Zero}, expires : 0..MaxTime,
                            quantity : 0..MaxQuantity]]
  /\ transferred \subseteq Token
  /\ spendings \in [Token -> Seq(0..MaxTime)]

\* A bundle none of whose coupons was transferred is on its owner's list, once,
\* exactly as long as the owner has coupons of it, and keeps the expiration time
\* it was minted with: removeTokenId, the two deletes of expirationTime and the
\* two burns go together.  A list that kept an empty bundle would have getTokenId
\* name it, and every paid read of the owner would revert until it expired.
ListsMatchBalances ==
  \A t \in Token \ transferred : \A a \in Address :
    /\ Listed(t, a) <=> balances[t][a] > 0
    /\ balances[t][a] > 0 => /\ bundles[t].owner = a
                             /\ expirationTime[t] = bundles[t].expires
    /\ \A i, j \in DOMAIN ownerTokens[a] :
         ownerTokens[a][i] = ownerTokens[a][j] => i = j

\* No coupon is spent at or after the time it was minted to expire, by whoever
\* burns it, as long as its bundle was not transferred; and never more coupons
\* of a bundle than were minted.
SpentInTime ==
  \A t \in Token :
    /\ Len(spendings[t]) <= bundles[t].quantity
    /\ t \notin transferred =>
         \A i \in DOMAIN spendings[t] : spendings[t][i] < bundles[t].expires

\* A burn leaves its owner without an expired bundle on the list: the loop of
\* burnExpiredTokens, which shortens the list it walks over, misses none.
BurnSweeps ==
  [][\A t \in Token, a \in Address :
       Len(spendings'[t]) > Len(spendings[t]) /\ balances'[t][a] < balances[t][a]
         => \A i \in DOMAIN ownerTokens'[a] :
              timestamp < expirationTime'[ownerTokens'[a][i]]]_coupons
=============================================================================
