----------------------- MODULE MetadataRegistryProofs -----------------------
(***************************************************************************)
(* What a read of credential metadata gives and costs, for any number of   *)
(* lists, entries, readers, bundles and changes of the free types and of   *)
(* the permissions; and the permissions' invariant in this composition.    *)
(*                                                                         *)
(* The lists of bundles are changed by the loop of burnExpiredTokens, a    *)
(* recursive function of the number of turns: it exists because its values *)
(* up to any number do (Iterates), and what a turn keeps (TurnSweeps)      *)
(* holds after any number of turns (Induction).                            *)
(***************************************************************************)
EXTENDS MetadataRegistry, PermissionsProofs, FiniteSetTheorems, WellFoundedInduction

-----------------------------------------------------------------------------
(* The permissions. *)

LEMMA InitPermissionsInv == Init => PermissionsInv
  BY AddressAssumption, RegistryAssumption
  DEF Init, PermissionsInv, PermissionsTypeOK, OperatorsHavePrimaries

\* Every call of the other contracts leaves the permissions alone.
LEMMA StepPermissionsInv == PermissionsInv /\ [Next]_vars => PermissionsInv'
<1> SUFFICES ASSUME PermissionsInv, [Next]_vars PROVE PermissionsInv'
  OBVIOUS
<1>1. CASE UNCHANGED permissions
  BY <1>1, PermissionsInvStep
<1>2. CASE ChangePermissions
  <2>1. Deployer \in Address /\ Primary \in Address /\ Operator \in Address
        /\ Registry \in Address
    BY AddressAssumption, RegistryAssumption
  <2>2. ASSUME NEW s \in Scope,
               \/ updateAddressScopes(Deployer, Primary, {}, {s})
               \/ updateAddressScopes(Deployer, Primary, {s}, {})
        PROVE  PermissionsNext
    BY <2>1, <2>2 DEF PermissionsNext
  <2>3. PermissionsNext
    BY <1>2, <2>1, <2>2 DEF ChangePermissions, PermissionsNext
  <2>4. QED
    BY <2>3, PermissionsInvStep
<1>3. CASE UNCHANGED vars
  BY <1>1, <1>3 DEF vars
<1>4. QED
  BY <1>1, <1>2, <1>3
  DEF Next, newMetadataList, setEntry, SetFreeTypes, CheckFree, ReadEntries, ReadReverts,
      Answer, BurnDirectly, MintOrTransfer

\* With the VNF, the permissioning key and the readers at work together, operators
\* still act for primaries the VNF added.
THEOREM OperatorsActForPrimariesHere == Spec => []OperatorsHavePrimaries
<1>1. PermissionsInv => OperatorsHavePrimaries
  BY DEF PermissionsInv
<1>2. QED
  BY <1>1, InitPermissionsInv, StepPermissionsInv, PTL DEF Spec

-----------------------------------------------------------------------------
(* The answers. *)

EntriesType ==
  /\ entries \in [Identifier -> SUBSET Entry]
  /\ \A id \in Identifier : \A e, f \in entries[id] : e = f
  /\ reader \in [Reader -> [stage : {"idle", "free", "paid", "done"},
                           wanted : SUBSET Identifier, answer : SUBSET Entry]]

\* An answer is made of the entries as they are now: an identifier that has one
\* keeps it.
AnswersAreEntries ==
  \A r \in Reader : reader[r].answer # {} =>
    /\ \A id \in reader[r].wanted : entries[id] # {}
    /\ reader[r].answer = UNION {entries[id] : id \in reader[r].wanted}

AnswersInv == EntriesType /\ AnswersAreEntries

LEMMA AnswersInvInit == Init => AnswersInv
  BY DEF Init, AnswersInv, EntriesType, AnswersAreEntries, NoReader

LEMMA AnswersInvStep == PermissionsInv /\ AnswersInv /\ [Next]_vars => AnswersInv'
<1> SUFFICES ASSUME PermissionsInv, AnswersInv, [Next]_vars PROVE AnswersInv'
  OBVIOUS
<1> USE DEF AnswersInv, EntriesType, AnswersAreEntries
<1>1. CASE UNCHANGED <<entries, reader>>
  BY <1>1
<1>2. ASSUME NEW o \in Address, operatorToPrimary[o] # Zero,
             NEW l \in ListId, NEW i \in Index, NEW e \in Entry, setEntry(o, l, i, e)
      PROVE  AnswersInv'
  <2> DEFINE id == <<operatorToPrimary[o], l, i>>
  <2>1. id \in Identifier
    BY <1>2 DEF Identifier, PermissionsInv, PermissionsTypeOK
  <2>2. entries[id] = {} /\ entries' = [entries EXCEPT ![id] = {e}] /\ reader' = reader
    BY <1>2 DEF setEntry
  <2> HIDE DEF id
  <2>3. EntriesType'
    BY <2>1, <2>2
  <2>4. ASSUME NEW r \in Reader, reader[r].answer # {}
        PROVE  \A x \in reader[r].wanted : entries'[x] = entries[x]
    BY <2>1, <2>2, <2>4
  <2>5. AnswersAreEntries'
    BY <2>2, <2>4
  <2>6. QED
    BY <2>3, <2>5
<1>3. ASSUME NEW r \in Reader,
             NEW wanted \in SUBSET {id \in Identifier : entries[id] # {}} \ {{}},
             CheckFree(r, wanted)
      PROVE  AnswersInv'
  BY <1>3 DEF CheckFree, registry
<1>4. ASSUME NEW r \in Reader, ReadEntries(r)
      PROVE  AnswersInv'
  <2>1. EntriesUsed(reader[r].wanted)
    BY <1>4 DEF ReadEntries, getFreeEntries, getPaidEntries
  <2>2. UNION {entries[id] : id \in reader[r].wanted} \in SUBSET Entry
    OBVIOUS
  <2>3. QED
    BY <1>4, <2>1, <2>2 DEF ReadEntries, Answer, EntriesUsed, registry
<1>5. ASSUME NEW r \in Reader, ReadReverts(r)
      PROVE  AnswersInv'
  BY <1>5 DEF ReadReverts, Answer, registry
<1>6. CASE UNCHANGED vars
  BY <1>1, <1>6 DEF vars, registry
<1>7. QED
  BY <1>1, <1>2, <1>3, <1>4, <1>5, <1>6
  DEF Next, newMetadataList, SetFreeTypes, BurnDirectly, MintOrTransfer, ChangePermissions,
      registry

\* Two reads of the same identifiers give the same entries (MetadataRegistry.sol).
THEOREM ReadersAgree == Spec => []ReadsAgree
<1>1. AnswersInv => ReadsAgree
  BY DEF AnswersInv, AnswersAreEntries, ReadsAgree
<1>2. QED
  BY <1>1, InitPermissionsInv, StepPermissionsInv, AnswersInvInit, AnswersInvStep, PTL
  DEF Spec

-----------------------------------------------------------------------------
(* The price of a read. *)

SpendingsType ==
  /\ timestamp \in Nat
  /\ spendings \in [Token -> Seq(Nat)]

LEMMA SpendingsTypeInit == Init => SpendingsType
  BY DEF Init, CouponsInit, SpendingsType

LEMMA SpendingsTypeStep == SpendingsType /\ [Next]_vars => SpendingsType'
<1> SUFFICES ASSUME SpendingsType, [Next]_vars PROVE SpendingsType'
  OBVIOUS
<1> USE DEF SpendingsType
<1>1. CASE UNCHANGED <<timestamp, spendings>>
  BY <1>1
<1>2. ASSUME NEW sender, NEW t, NEW o, burn(sender, t, o)
      PROVE  SpendingsType'
  <2>1. /\ timestamp' = timestamp
        /\ spendings' = [spendings EXCEPT ![t] = Append(@, timestamp)]
    BY <1>2 DEF burn
  <2>2. CASE t \in Token
    <3>1. Append(spendings[t], timestamp) \in Seq(Nat)
      BY <2>2
    <3>2. QED
      BY <2>1, <3>1
  <2>3. CASE t \notin Token
    BY <2>1, <2>3
  <2>4. QED
    BY <2>2, <2>3
<1>3. CASE Tick
  BY <1>3 DEF Tick
<1>4. QED
  BY <1>1, <1>2, <1>3
  DEF Next, newMetadataList, setEntry, SetFreeTypes, CheckFree, ReadEntries, ReadReverts,
      getFreeEntries, getPaidEntries, BurnDirectly, MintOrTransfer, mint, safeTransferFrom,
      ChangePermissions, coupons, vars

\* A set of numbers has a least one: the intervals up to its members are finite, and
\* strict inclusion of finite sets is well-founded.
LEMMA LeastNumber ==
  ASSUME NEW S \in SUBSET Nat, S # {}
  PROVE  \E t \in S : \A u \in S : t <= u
<1> DEFINE T == {0..t : t \in S}
<1>1. T \subseteq FiniteSubsetsOf(Nat)
  <2>1. \A t \in S : IsFiniteSet(0..t) /\ 0..t \subseteq Nat
    BY FS_Interval
  <2>2. QED
    BY <2>1 DEF FiniteSubsetsOf
<1>2. T # {}
  OBVIOUS
<1>3. PICK x \in T : \A y \in T : ~ (<<y, x>> \in StrictSubsetOrdering(Nat))
  <2> HIDE DEF T
  <2>1. IsWellFoundedOn(StrictSubsetOrdering(Nat), FiniteSubsetsOf(Nat))
    BY FS_StrictSubsetOrderingWellFounded
  <2>2. QED
    BY <1>1, <1>2, <2>1, WFMin
<1>4. PICK t \in S : x = 0..t
  OBVIOUS
<1>5. ASSUME NEW u \in S PROVE t <= u
  <2>1. ~ (<<0..u, 0..t>> \in StrictSubsetOrdering(Nat))
    BY <1>3, <1>4
  <2>2. ASSUME u < t PROVE <<0..u, 0..t>> \in StrictSubsetOrdering(Nat)
    <3>1. 0..u \in SUBSET Nat /\ 0..t \in SUBSET Nat /\ 0..u \subseteq 0..t
      BY <2>2
    <3>2. t \in 0..t /\ t \notin 0..u
      BY <2>2
    <3>3. QED
      BY <3>1, <3>2 DEF StrictSubsetOrdering
  <2>3. QED
    BY <2>1, <2>2
<1>6. QED
  BY <1>5

\* getTokenId names a bundle when there is one.
LEMMA TokenIdIsToken ==
  ASSUME NEW primary, Available(primary) # {}
  PROVE  getTokenId(primary) \in Token
<1>1. Available(primary) \subseteq Token /\ Token \subseteq Nat
  BY CouponBoundsAssumption DEF Available, Token
<1>2. \E t \in Available(primary) : \A u \in Available(primary) : t <= u
  BY <1>1, LeastNumber
<1>3. QED
  BY <1>1, <1>2 DEF getTokenId

\* A paid read spends one coupon.
LEMMA BurnSpendsOne ==
  ASSUME SpendingsType, NEW sender, NEW o, NEW t \in Token, burn(sender, t, o)
  PROVE  /\ Len(spendings'[t]) = Len(spendings[t]) + 1
         /\ \A u \in Token \ {t} : spendings'[u] = spendings[u]
  BY DEF SpendingsType, burn

LEMMA ReadIsPaid ==
  ASSUME SpendingsType, AnswersInv, [Next]_vars,
         NEW r \in Reader, reader[r].stage # "done", reader'[r].stage = "done",
         reader'[r].answer # {}
  PROVE  IF IsFree(reader[r].wanted)
         THEN spendings' = spendings
         ELSE \E t \in Token : /\ Len(spendings'[t]) = Len(spendings[t]) + 1
                               /\ \A u \in Token \ {t} : spendings'[u] = spendings[u]
<1>1. ASSUME NEW q \in Reader, ReadReverts(q) PROVE FALSE
  BY <1>1 DEF ReadReverts, Answer, AnswersInv, EntriesType
<1>2. ASSUME NEW q \in Reader, NEW wanted, CheckFree(q, wanted) PROVE FALSE
  BY <1>2 DEF CheckFree, AnswersInv, EntriesType
<1>3. ReadEntries(r)
  <2>1. reader' # reader
    OBVIOUS
  <2>2. PICK q \in Reader : ReadEntries(q)
    BY <1>1, <1>2, <2>1
    DEF Next, newMetadataList, setEntry, SetFreeTypes, BurnDirectly, MintOrTransfer,
        ChangePermissions, vars
  <2>3. q = r
    BY <2>2 DEF ReadEntries, Answer, AnswersInv, EntriesType
  <2>4. QED
    BY <2>2, <2>3
<1>4. CASE getFreeEntries(reader[r].wanted)
  BY <1>4 DEF getFreeEntries, coupons
<1>5. CASE getPaidEntries(Operator, reader[r].wanted)
  <2> DEFINE t == getTokenId(operatorToPrimary[Operator])
  <2>1. t \in Token
    BY <1>5, TokenIdIsToken DEF getPaidEntries, CanPay
  <2>2. burn(Registry, t, Operator) /\ ~ IsFree(reader[r].wanted)
    BY <1>5 DEF getPaidEntries
  <2>3. QED
    BY <2>1, <2>2, BurnSpendsOne
<1>6. QED
  BY <1>3, <1>4, <1>5 DEF ReadEntries

\* Entries that are not free when they are read cost one coupon, free ones none
\* (resolveContractEntries, getPaidEntries, burn).
THEOREM EveryReadIsPaid == Spec => ReadsArePaid
<1>1. SpendingsType /\ AnswersInv /\ [Next]_vars =>
        [\A r \in Reader :
           reader[r].stage # "done" /\ reader'[r].stage = "done" /\ reader'[r].answer # {}
             => IF IsFree(reader[r].wanted)
                  THEN spendings' = spendings
                  ELSE \E t \in Token :
                         /\ Len(spendings'[t]) = Len(spendings[t]) + 1
                         /\ \A u \in Token \ {t} : spendings'[u] = spendings[u]]_vars
  BY ReadIsPaid
<1>2. QED
  BY <1>1, InitPermissionsInv, StepPermissionsInv, AnswersInvInit, AnswersInvStep,
     SpendingsTypeInit, SpendingsTypeStep, PTL
  DEF Spec, ReadsArePaid

-----------------------------------------------------------------------------
(* Recursive functions. *)

\* What holds of 0, and of n + 1 when it holds of n, holds of every number.
LEMMA Induction ==
  ASSUME NEW P \in SUBSET Nat, 0 \in P, \A n \in P : n + 1 \in P
  PROVE  P = Nat
<1> SUFFICES ASSUME P # Nat PROVE FALSE
  OBVIOUS
<1> DEFINE S == Nat \ P
<1>1. PICK t \in S : \A u \in S : t <= u
  <2>1. S \in SUBSET Nat /\ S # {}
    OBVIOUS
  <2> HIDE DEF S
  <2>2. QED
    BY <2>1, LeastNumber
<1>2. t # 0 /\ t - 1 \in Nat /\ t - 1 \notin S
  BY <1>1
<1>3. QED
  BY <1>2

Runs(n, S, g, a) == {h \in [0..n -> S] : h[0] = a /\ \A k \in 0..(n - 1) : h[k + 1] = g[h[k]]}

LEMMA RunsExist ==
  ASSUME NEW S, NEW g \in [S -> S], NEW a \in S
  PROVE  \A n \in Nat : \E h : h \in Runs(n, S, g, a)
<1> DEFINE P == {n \in Nat : \E h : h \in Runs(n, S, g, a)}
<1>1. 0 \in P
  <2>1. [k \in 0..0 |-> a] \in Runs(0, S, g, a)
    BY DEF Runs
  <2>2. QED
    BY <2>1
<1>2. ASSUME NEW n \in P PROVE n + 1 \in P
  <2>1. PICK h : h \in Runs(n, S, g, a)
    OBVIOUS
  <2> DEFINE h1 == [k \in 0..(n + 1) |-> IF k = n + 1 THEN g[h[n]] ELSE h[k]]
  <2>2. h \in [0..n -> S] /\ h[0] = a /\ \A k \in 0..(n - 1) : h[k + 1] = g[h[k]]
    BY <2>1 DEF Runs
  <2>3. h1 \in [0..(n + 1) -> S]
    BY <2>2
  <2>4. h1[0] = a
    BY <2>2
  <2>5. \A k \in 0..n : h1[k + 1] = g[h1[k]]
    <3>1. ASSUME NEW k \in 0..n, k = n PROVE h1[k + 1] = g[h1[k]]
      BY <3>1
    <3>2. ASSUME NEW k \in 0..n, k # n PROVE h1[k + 1] = g[h1[k]]
      BY <2>2, <3>2
    <3>3. QED
      BY <3>1, <3>2
  <2> HIDE DEF h1
  <2>6. h1 \in Runs(n + 1, S, g, a)
    BY <2>3, <2>4, <2>5 DEF Runs
  <2>7. QED
    BY <2>6
<1>3. P = Nat
  <2> HIDE DEF P
  <2>1. P \in SUBSET Nat
    BY DEF P
  <2>2. QED
    BY <1>1, <1>2, <2>1, Induction
<1>4. QED
  BY <1>3

LEMMA RunsAgree ==
  ASSUME NEW S, NEW g, NEW a, NEW n \in Nat, NEW m \in Nat,
         NEW h \in Runs(n, S, g, a), NEW j \in Runs(m, S, g, a)
  PROVE  \A k \in Nat : k <= n /\ k <= m => h[k] = j[k]
<1> DEFINE P == {k \in Nat : k <= n /\ k <= m => h[k] = j[k]}
<1>1. 0 \in P
  BY DEF Runs
<1>2. ASSUME NEW k \in P PROVE k + 1 \in P
  BY DEF Runs
<1>3. P = Nat
  <2> HIDE DEF P
  <2>1. P \in SUBSET Nat
    BY DEF P
  <2>2. QED
    BY <1>1, <1>2, <2>1, Induction
<1>4. QED
  BY <1>3

\* The function of the numbers whose value at n + 1 is g of its value at n.
Iterate(S, g, a) == [n \in Nat |-> (CHOOSE h : h \in Runs(n, S, g, a))[n]]

LEMMA Iterates ==
  ASSUME NEW S, NEW g \in [S -> S], NEW a \in S, NEW m \in Nat
  PROVE  /\ Iterate(S, g, a) \in [Nat -> S]
         /\ Iterate(S, g, a)[0] = a
         /\ Iterate(S, g, a)[m + 1] = g[Iterate(S, g, a)[m]]
<1> DEFINE H == [n \in Nat |-> CHOOSE h : h \in Runs(n, S, g, a)]
           f == [n \in Nat |-> H[n][n]]
<1>1. \A n \in Nat : H[n] \in Runs(n, S, g, a)
  BY RunsExist
<1> HIDE DEF H
<1>2. f \in [Nat -> S] /\ f[0] = a
  BY <1>1 DEF Runs
<1>3. f[m + 1] = g[f[m]]
  <2> DEFINE n == m + 1
  <2>1. n \in Nat
    OBVIOUS
  <2>2. H[n][n] = g[H[n][m]]
    <3>1. H[n] \in Runs(n, S, g, a) /\ m \in 0..(n - 1)
      BY <1>1, <2>1
    <3>2. QED
      BY <3>1 DEF Runs
  <2>3. H[n][m] = H[m][m]
    <3>1. H[n] \in Runs(n, S, g, a) /\ H[m] \in Runs(m, S, g, a) /\ m <= n /\ m <= m
      BY <1>1, <2>1
    <3>2. QED
      BY <3>1, <2>1, RunsAgree
  <2>4. QED
    BY <2>1, <2>2, <2>3
<1>4. f = Iterate(S, g, a)
  BY DEF Iterate, H
<1> HIDE DEF f
<1>5. QED
  BY <1>2, <1>3, <1>4

-----------------------------------------------------------------------------
(* The lists of bundles. *)

Ids(list) == {list[i] : i \in DOMAIN list}
Distinct(list) == \A i, j \in DOMAIN list : list[i] = list[j] => i = j

LEMMA AppendedIds ==
  ASSUME NEW list \in Seq(Token), NEW t
  PROVE  Ids(Append(list, t)) = Ids(list) \cup {t}
<1> DEFINE longer == Append(list, t)
<1>1. /\ DOMAIN list = 1..Len(list) /\ DOMAIN longer = 1..(Len(list) + 1) /\ Len(list) \in Nat
      /\ \A i \in 1..Len(list) : longer[i] = list[i]
      /\ longer[Len(list) + 1] = t
  OBVIOUS
<1> HIDE DEF longer
<1>2. ASSUME NEW u \in Ids(longer) PROVE u \in Ids(list) \cup {t}
  BY <1>1 DEF Ids
<1>3. ASSUME NEW u \in Ids(list) PROVE u \in Ids(longer)
  BY <1>1 DEF Ids
<1>4. t \in Ids(longer)
  <2>1. Len(list) + 1 \in 1..(Len(list) + 1)
    BY <1>1
  <2>2. QED
    BY <1>1, <2>1 DEF Ids
<1>5. QED
  BY <1>2, <1>3, <1>4 DEF longer

LEMMA RemovedIsList ==
  ASSUME NEW list \in Seq(Token), NEW t
  PROVE  RemoveTokenId(list, t) \in Seq(Token)
<1> DEFINE found == {i \in DOMAIN list : list[i] = t}
           first == CHOOSE i \in found : \A j \in found : i <= j
           moved == [list EXCEPT ![first] = list[Len(list)]]
<1>1. CASE found = {}
  BY <1>1 DEF RemoveTokenId
<1>2. CASE found # {}
  <2>1. Len(list) \in 1..Len(list)
    BY <1>2
  <2>2. moved \in Seq(Token) /\ Len(moved) = Len(list)
    <3>1. list \in [1..Len(list) -> Token] /\ list[Len(list)] \in Token
      BY <2>1
    <3> HIDE DEF first
    <3>2. moved \in [1..Len(list) -> Token]
      BY <3>1
    <3> HIDE DEF moved
    <3>3. QED
      BY <3>2
  <2>3. SubSeq(moved, 1, Len(list) - 1) \in Seq(Token)
    <3> HIDE DEF moved
    <3>1. QED
      BY <2>1, <2>2
  <2>4. QED
    BY <1>2, <2>3 DEF RemoveTokenId
<1>3. QED
  BY <1>1, <1>2

\* removeTokenId takes its id off a list that has it once: the last id moves to its
\* place, the ids before it stay.
LEMMA RemovedAt ==
  ASSUME NEW list \in Seq(Token), Distinct(list), NEW i \in DOMAIN list
  PROVE  LET rest == RemoveTokenId(list, list[i]) IN
         /\ rest \in Seq(Token)
         /\ Len(rest) = Len(list) - 1
         /\ \A j \in 1..(Len(list) - 1) : rest[j] = IF j = i THEN list[Len(list)] ELSE list[j]
<1> DEFINE found == {j \in DOMAIN list : list[j] = list[i]}
           first == CHOOSE j \in found : \A k \in found : j <= k
           moved == [list EXCEPT ![i] = list[Len(list)]]
<1>1. found = {i}
  BY DEF Distinct
<1>2. first = i
  <2> HIDE DEF found
  <2>1. QED
    BY <1>1
<1>3. RemoveTokenId(list, list[i]) = SubSeq(moved, 1, Len(list) - 1)
  BY <1>1, <1>2 DEF RemoveTokenId
<1>4. moved \in Seq(Token) /\ Len(moved) = Len(list)
      /\ \A j \in 1..Len(list) : moved[j] = IF j = i THEN list[Len(list)] ELSE list[j]
  OBVIOUS
<1>5. Len(list) \in Nat /\ Len(list) >= 1
  OBVIOUS
<1> HIDE DEF moved
<1>6. QED
  BY <1>3, <1>4, <1>5

LEMMA RemovedIds ==
  ASSUME NEW list \in Seq(Token), Distinct(list), NEW t
  PROVE  /\ Distinct(RemoveTokenId(list, t))
         /\ Ids(RemoveTokenId(list, t)) = Ids(list) \ {t}
<1>1. CASE t \notin Ids(list)
  BY <1>1 DEF RemoveTokenId, Ids
<1>2. CASE t \in Ids(list)
  <2>1. PICK i \in DOMAIN list : t = list[i]
    BY <1>2 DEF Ids
  <2> DEFINE rest == RemoveTokenId(list, t)
             n == Len(list)
  <2>2. /\ rest \in Seq(Token)
        /\ Len(rest) = n - 1
        /\ \A j \in 1..(n - 1) : rest[j] = IF j = i THEN list[n] ELSE list[j]
    BY <2>1, RemovedAt
  <2>3. n \in Nat /\ n >= 1 /\ i \in 1..n /\ DOMAIN list = 1..n /\ DOMAIN rest = 1..(n - 1)
    BY <2>2
  <2> HIDE DEF rest, n
  <2>4. Distinct(rest)
    <3> SUFFICES ASSUME NEW j \in 1..(n - 1), NEW k \in 1..(n - 1), rest[j] = rest[k]
                 PROVE  j = k
      BY <2>3 DEF Distinct
    <3>1. \A x, y \in 1..n : list[x] = list[y] => x = y
      BY <2>3 DEF Distinct
    <3>2. QED
      BY <2>2, <2>3, <3>1
  <2>5. ASSUME NEW u \in Ids(rest) PROVE u \in Ids(list) \ {t}
    <3>1. PICK j \in 1..(n - 1) : u = rest[j]
      BY <2>3 DEF Ids
    <3>2. \A x, y \in 1..n : list[x] = list[y] => x = y
      BY <2>3 DEF Distinct
    <3>3. PICK x \in 1..n : u = list[x] /\ x # i
      BY <2>2, <2>3, <3>1
    <3>4. QED
      BY <2>1, <2>3, <3>2, <3>3 DEF Ids
  <2>6. ASSUME NEW u \in Ids(list), u # t PROVE u \in Ids(rest)
    <3>1. PICK x \in 1..n : u = list[x] /\ x # i
      BY <2>1, <2>3, <2>6 DEF Ids
    <3>2. CASE x = n
      <4>1. i \in 1..(n - 1) /\ rest[i] = u
        BY <2>2, <2>3, <3>1, <3>2
      <4>2. QED
        BY <2>3, <4>1 DEF Ids
    <3>3. CASE x # n
      <4>1. x \in 1..(n - 1) /\ rest[x] = u
        BY <2>2, <2>3, <3>1, <3>3
      <4>2. QED
        BY <2>3, <4>1 DEF Ids
    <3>4. QED
      BY <3>2, <3>3
  <2>7. QED
    BY <2>4, <2>5, <2>6 DEF rest
<1>3. QED
  BY <1>1, <1>2

-----------------------------------------------------------------------------
(* The loop of burnExpiredTokens. *)

Loop == [list : Seq(Token), i : Nat]

Turns(ids) == CHOOSE f : f = [n \in Nat |-> IF n = 0 THEN [list |-> ids, i |-> 1]
                                            ELSE Turn(f[n - 1])]

LEMMA TurnsUnfold ==
  ASSUME NEW ids \in Seq(Token)
  PROVE  /\ BurnExpiredTokens(ids) = Turns(ids)[Len(ids)].list
         /\ Turns(ids)[0] = [list |-> ids, i |-> 1]
         /\ \A n \in Nat : Turns(ids)[n + 1] = Turn(Turns(ids)[n])
<1> DEFINE a == [list |-> ids, i |-> 1]
           g == [t \in Loop |-> Turn(t)]
           IsTurns(f) == f = [n \in Nat |-> IF n = 0 THEN a ELSE Turn(f[n - 1])]
<1>1. BurnExpiredTokens(ids) = Turns(ids)[Len(ids)].list
  BY DEF BurnExpiredTokens, Turns
<1>2. a \in Loop
  BY DEF Loop
<1>3. g \in [Loop -> Loop]
  <2>1. ASSUME NEW t \in Loop PROVE Turn(t) \in Loop
    <3>1. t.list \in Seq(Token) /\ t.i \in Nat
      BY DEF Loop
    <3>2. RemoveTokenId(t.list, t.list[t.i]) \in Seq(Token) /\ t.i + 1 \in Nat
      BY <3>1, RemovedIsList
    <3>3. QED
      BY <3>1, <3>2 DEF Turn, Loop
  <2>2. QED
    BY <2>1
<1>4. \E f : IsTurns(f)
  <2> HIDE DEF a
  <2> DEFINE f == Iterate(Loop, g, a)
  <2>1. ASSUME NEW n \in Nat
        PROVE  f \in [Nat -> Loop] /\ f[0] = a /\ f[n + 1] = g[f[n]]
    <3> HIDE DEF g, a
    <3>1. QED
      BY SMTT(30), <1>2, <1>3, Iterates
  <2> HIDE DEF f
  <2>2. ASSUME NEW n \in Nat, n # 0 PROVE f[n] = Turn(f[n - 1])
    <3>1. n - 1 \in Nat /\ (n - 1) + 1 = n
      BY <2>2
    <3> DEFINE m == n - 1
    <3>2. f[m + 1] = g[f[m]] /\ f[m] \in Loop
      BY <2>1, <3>1
    <3>3. QED
      BY <3>1, <3>2
  <2>3. f[0] = a /\ f \in [Nat -> Loop]
    BY <2>1
  <2>4. IsTurns(f)
    BY <2>2, <2>3
  <2>5. QED
    BY <2>4
<1>5. IsTurns(Turns(ids))
  BY <1>4 DEF Turns
<1>6. \A n \in Nat : Turns(ids)[n + 1] = Turn(Turns(ids)[n])
  <2>1. ASSUME NEW n \in Nat PROVE n + 1 \in Nat /\ n + 1 # 0 /\ (n + 1) - 1 = n
    OBVIOUS
  <2>2. QED
    BY <1>5, <2>1
<1>7. QED
  BY <1>1, <1>5, <1>6

\* After n turns: the ids before i stay, and one less is ahead of it each time.
SweptBy(n, ids, list, i) ==
  /\ list \in Seq(Token) /\ Distinct(list)
  /\ i \in Nat /\ i >= 1
  /\ i + Len(ids) = Len(list) + 1 + n
  /\ \A j \in 1..(i - 1) : ~ IsExpired(list[j])
  /\ Ids(list) \subseteq Ids(ids)
  /\ \A t \in Ids(ids) : t \notin Ids(list) => IsExpired(t)

LEMMA TurnSweeps ==
  ASSUME NEW ids \in Seq(Token), NEW n \in Nat, n < Len(ids), NEW list, NEW i,
         SweptBy(n, ids, list, i)
  PROVE  LET next == Turn([list |-> list, i |-> i]) IN
         SweptBy(n + 1, ids, next.list, next.i)
<1>1. list \in Seq(Token) /\ i \in 1..Len(list) /\ Distinct(list) /\ Len(list) \in Nat
      /\ Len(ids) \in Nat /\ DOMAIN list = 1..Len(list)
  BY DEF SweptBy
<1>2. CASE IsExpired(list[i])
  <2> DEFINE rest == RemoveTokenId(list, list[i])
  <2>1. Turn([list |-> list, i |-> i]) = [list |-> rest, i |-> i]
    BY <1>2 DEF Turn
  <2>2. /\ rest \in Seq(Token) /\ Len(rest) = Len(list) - 1
        /\ \A j \in 1..(Len(list) - 1) : rest[j] = IF j = i THEN list[Len(list)] ELSE list[j]
    BY <1>1, RemovedAt
  <2>3. Distinct(rest) /\ Ids(rest) = Ids(list) \ {list[i]}
    BY <1>1, RemovedIds
  <2> HIDE DEF rest
  <2>4. i + Len(ids) = Len(rest) + 1 + (n + 1)
    BY <1>1, <2>2 DEF SweptBy
  <2>5. \A j \in 1..(i - 1) : ~ IsExpired(rest[j])
    BY <1>1, <2>2 DEF SweptBy
  <2>6. \A t \in Ids(ids) : t \notin Ids(rest) => IsExpired(t)
    BY <1>2, <2>3 DEF SweptBy
  <2>7. SweptBy(n + 1, ids, rest, i)
    BY <1>1, <2>2, <2>3, <2>4, <2>5, <2>6 DEF SweptBy
  <2>8. QED
    BY <2>1, <2>7
<1>3. CASE ~ IsExpired(list[i])
  <2>1. Turn([list |-> list, i |-> i]) = [list |-> list, i |-> i + 1]
    BY <1>3 DEF Turn
  <2>2. SweptBy(n + 1, ids, list, i + 1)
    BY <1>1, <1>3 DEF SweptBy
  <2>3. QED
    BY <2>1, <2>2
<1>4. QED
  BY <1>2, <1>3

\* burnExpiredTokens takes the expired ids off a list without duplicates, and no other.
LEMMA SweepIsExact ==
  ASSUME NEW ids \in Seq(Token), Distinct(ids)
  PROVE  /\ BurnExpiredTokens(ids) \in Seq(Token)
         /\ Distinct(BurnExpiredTokens(ids))
         /\ Ids(BurnExpiredTokens(ids)) = {t \in Ids(ids) : ~ IsExpired(t)}
<1> DEFINE f == Turns(ids)
           P == {n \in Nat : n <= Len(ids) =>
                   f[n] = [list |-> f[n].list, i |-> f[n].i]
                   /\ SweptBy(n, ids, f[n].list, f[n].i)}
<1>1. Len(ids) \in Nat
  OBVIOUS
<1>2. 0 \in P
  <2>1. f[0] = [list |-> ids, i |-> 1]
    BY TurnsUnfold
  <2>2. SweptBy(0, ids, ids, 1)
    BY <1>1 DEF SweptBy
  <2> HIDE DEF f
  <2>3. QED
    BY <2>1, <2>2
<1>3. ASSUME NEW n \in P PROVE n + 1 \in P
  <2> SUFFICES ASSUME n + 1 <= Len(ids)
               PROVE  f[n + 1] = [list |-> f[n + 1].list, i |-> f[n + 1].i]
                      /\ SweptBy(n + 1, ids, f[n + 1].list, f[n + 1].i)
    OBVIOUS
  <2>1. f[n] = [list |-> f[n].list, i |-> f[n].i] /\ SweptBy(n, ids, f[n].list, f[n].i)
        /\ n < Len(ids)
    BY <1>1
  <2>2. f[n + 1] = Turn(f[n])
    BY TurnsUnfold
  <2> HIDE DEF f
  <2> DEFINE list == f[n].list
             i == f[n].i
             next == Turn([list |-> list, i |-> i])
  <2>3. f[n + 1] = next
    BY <2>1, <2>2
  <2>4. next = [list |-> next.list, i |-> next.i]
    BY DEF Turn
  <2>5. SweptBy(n + 1, ids, next.list, next.i)
    BY <1>1, <2>1, TurnSweeps
  <2> HIDE DEF next
  <2>6. QED
    BY <2>3, <2>4, <2>5
<1>4. P = Nat
  <2> HIDE DEF P
  <2>1. P \in SUBSET Nat
    BY DEF P
  <2>2. QED
    BY <1>2, <1>3, <2>1, Induction
<1> DEFINE list == f[Len(ids)].list
           i == f[Len(ids)].i
<1>5. SweptBy(Len(ids), ids, list, i)
  <2>1. Len(ids) \in P
    <3> HIDE DEF P
    <3>1. QED
      BY <1>1, <1>4
  <2> HIDE DEF f
  <2>2. QED
    BY <1>1, <2>1
<1>6. BurnExpiredTokens(ids) = list
  BY TurnsUnfold
<1> HIDE DEF f, list, i, P
<1>7. \A t \in Ids(list) : ~ IsExpired(t)
  <2>1. i = Len(list) + 1 /\ Len(list) \in Nat /\ DOMAIN list = 1..Len(list)
    BY <1>1, <1>5 DEF SweptBy
  <2>2. QED
    BY <1>5, <2>1 DEF SweptBy, Ids
<1>8. QED
  BY <1>5, <1>6, <1>7 DEF SweptBy

-----------------------------------------------------------------------------
(* The bundles. *)

\* An id that is not minted yet has nothing.
FreshIds ==
  \A t \in Token : t >= tokenIdTracker =>
    /\ bundles[t] = NoBundle /\ spendings[t] = <<>> /\ t \notin transferred
    /\ \A a \in Address : balances[t][a] = 0 /\ t \notin Ids(ownerTokens[a])

ListsDistinct == \A a \in Address : Distinct(ownerTokens[a])

Others(t) == IF Deployer = Primary THEN 0 ELSE balances[t][Deployer]

\* The coupons of a bundle are with the two addresses that ever get one, or spent,
\* or went with their bundle.
Accounted ==
  \A t \in Token :
    /\ \A a \in Address \ {Primary, Deployer} : balances[t][a] = 0
    /\ Len(spendings[t]) + balances[t][Primary] + Others(t) <= bundles[t].quantity

SpentBeforeExpiry ==
  \A t \in Token \ transferred :
    \A i \in DOMAIN spendings[t] : spendings[t][i] < bundles[t].expires

CouponsInv ==
  /\ CouponsTypeOK
  /\ FreshIds
  /\ ListsDistinct
  /\ ListsMatchBalances
  /\ Accounted
  /\ SpentBeforeExpiry

LEMMA CouponsInvGivesSpentInTime == CouponsInv => SpentInTime
<1> SUFFICES ASSUME CouponsInv PROVE SpentInTime
  OBVIOUS
<1>1. ASSUME NEW t \in Token PROVE Len(spendings[t]) <= bundles[t].quantity
  <2>1. /\ balances[t][Primary] \in Nat /\ Others(t) \in Nat
        /\ Len(spendings[t]) \in Nat /\ bundles[t].quantity \in Nat
    BY AddressAssumption, RegistryAssumption, CouponBoundsAssumption
    DEF CouponsInv, CouponsTypeOK, Others
  <2>2. QED
    BY <2>1 DEF CouponsInv, Accounted
<1>2. QED
  BY <1>1 DEF CouponsInv, SpentBeforeExpiry, SpentInTime

LEMMA CouponsInvInit == Init => CouponsInv
<1> SUFFICES ASSUME Init PROVE CouponsInv
  OBVIOUS
<1> USE DEF Init, CouponsInit
<1>1. CouponsTypeOK
  BY CouponBoundsAssumption DEF CouponsTypeOK, NoBundle
<1>2. FreshIds /\ ListsDistinct /\ ListsMatchBalances
  BY DEF FreshIds, ListsDistinct, Ids, Distinct, ListsMatchBalances, Listed
<1>3. Accounted /\ SpentBeforeExpiry
  BY AddressAssumption, RegistryAssumption
  DEF Accounted, Others, SpentBeforeExpiry, NoBundle
<1>4. QED
  BY <1>1, <1>2, <1>3 DEF CouponsInv

LEMMA CouponsInvStutter == CouponsInv /\ UNCHANGED coupons => CouponsInv'
  BY DEF CouponsInv, coupons, CouponsTypeOK, FreshIds, ListsDistinct, ListsMatchBalances, Listed,
         Accounted, Others, SpentBeforeExpiry

LEMMA MintKeeps ==
  ASSUME CouponsInv, tokenIdTracker \in Token, NEW expires \in 1..MaxTime,
         mint(Deployer, Primary, expires, QuantityOf[tokenIdTracker])
  PROVE  CouponsInv'
<1> DEFINE t == tokenIdTracker
           quantity == QuantityOf[t]
<1>1. /\ Primary \in Address /\ Deployer \in Address /\ t \in Token /\ quantity \in 1..MaxQuantity
      /\ Token \subseteq Nat /\ t + 1 \in 0..MaxTokens
  BY AddressAssumption, RegistryAssumption, CouponBoundsAssumption DEF Token
<1>2. CouponsTypeOK
  BY DEF CouponsInv
<1>3. /\ balances' = [balances EXCEPT ![t][Primary] = quantity]
      /\ ownerTokens' = [ownerTokens EXCEPT ![Primary] = Append(@, t)]
      /\ expirationTime' = [expirationTime EXCEPT ![t] = expires]
      /\ tokenIdTracker' = t + 1
      /\ bundles' = [bundles EXCEPT ![t] =
                       [owner |-> Primary, expires |-> expires, quantity |-> quantity]]
      /\ timestamp' = timestamp /\ transferred' = transferred /\ spendings' = spendings
  BY DEF mint
<1>4. /\ spendings[t] = <<>> /\ t \notin transferred
      /\ \A a \in Address : balances[t][a] = 0 /\ t \notin Ids(ownerTokens[a])
  BY <1>1 DEF CouponsInv, FreshIds
<1> HIDE DEF t, quantity
<1>5. CouponsTypeOK'
  <2>1. Append(ownerTokens[Primary], t) \in Seq(Token)
    BY <1>1, <1>2 DEF CouponsTypeOK
  <2>2. quantity \in Nat /\ quantity \in 0..MaxQuantity /\ expires \in 0..MaxTime
    BY <1>1, CouponBoundsAssumption
  <2>3. balances' \in [Token -> [Address -> Nat]]
    BY <1>1, <1>2, <1>3, <2>2 DEF CouponsTypeOK
  <2>4. ownerTokens' \in [Address -> Seq(Token)]
    BY <1>1, <1>2, <1>3, <2>1 DEF CouponsTypeOK
  <2>5. QED
    BY <1>1, <1>2, <1>3, <2>2, <2>3, <2>4 DEF CouponsTypeOK
<1>6. \A a \in Address : Ids(ownerTokens'[a]) =
        Ids(ownerTokens[a]) \cup (IF a = Primary THEN {t} ELSE {})
  <2>1. ownerTokens[Primary] \in Seq(Token)
    BY <1>1, <1>2 DEF CouponsTypeOK
  <2>2. Ids(Append(ownerTokens[Primary], t)) = Ids(ownerTokens[Primary]) \cup {t}
    BY <2>1, AppendedIds
  <2>3. QED
    BY <1>1, <1>2, <1>3, <2>2 DEF CouponsTypeOK
<1>7. ListsDistinct'
  <2>1. ownerTokens[Primary] \in Seq(Token) /\ Distinct(ownerTokens[Primary])
    BY <1>1, <1>2 DEF CouponsTypeOK, CouponsInv, ListsDistinct
  <2>2. \A i \in DOMAIN ownerTokens[Primary] : ownerTokens[Primary][i] # t
    BY <1>1, <1>4 DEF Ids
  <2>3. Distinct(Append(ownerTokens[Primary], t))
    BY <1>1, <2>1, <2>2 DEF Distinct
  <2>4. QED
    BY <1>1, <1>2, <1>3, <2>3 DEF CouponsTypeOK, CouponsInv, ListsDistinct
<1>8. ASSUME NEW u \in Token, u # t
      PROVE  /\ balances'[u] = balances[u] /\ bundles'[u] = bundles[u]
             /\ expirationTime'[u] = expirationTime[u]
  BY <1>1, <1>2, <1>3, <1>8 DEF CouponsTypeOK
<1>9. /\ \A a \in Address : balances'[t][a] = IF a = Primary THEN quantity ELSE 0
      /\ bundles'[t] = [owner |-> Primary, expires |-> expires, quantity |-> quantity]
      /\ expirationTime'[t] = expires
  BY <1>1, <1>2, <1>3, <1>4 DEF CouponsTypeOK
<1>10. FreshIds'
  <2> SUFFICES ASSUME NEW u \in Token, u >= t + 1
               PROVE  /\ bundles'[u] = NoBundle /\ spendings'[u] = <<>> /\ u \notin transferred'
                      /\ \A a \in Address : balances'[u][a] = 0 /\ u \notin Ids(ownerTokens'[a])
    BY <1>3 DEF FreshIds
  <2>1. u # t /\ u >= t
    BY <1>1
  <2>2. /\ bundles[u] = NoBundle /\ spendings[u] = <<>> /\ u \notin transferred
        /\ \A a \in Address : balances[u][a] = 0 /\ u \notin Ids(ownerTokens[a])
    BY <2>1 DEF CouponsInv, FreshIds, t
  <2>3. QED
    BY <1>3, <1>6, <1>8, <2>1, <2>2
<1>11. ListsMatchBalances'
  <2> SUFFICES ASSUME NEW u \in Token, u \notin transferred, NEW a \in Address
               PROVE  /\ u \in Ids(ownerTokens'[a]) <=> balances'[u][a] > 0
                      /\ balances'[u][a] > 0 => /\ bundles'[u].owner = a
                                                /\ expirationTime'[u] = bundles'[u].expires
    BY <1>3, <1>7 DEF ListsMatchBalances, Listed, Ids, ListsDistinct, Distinct
  <2>1. CASE u = t
    BY <1>1, <1>4, <1>6, <1>9, <2>1
  <2>2. CASE u # t
    <3>1. /\ u \in Ids(ownerTokens[a]) <=> balances[u][a] > 0
          /\ balances[u][a] > 0 => /\ bundles[u].owner = a
                                   /\ expirationTime[u] = bundles[u].expires
      BY DEF CouponsInv, ListsMatchBalances, Listed, Ids
    <3>2. QED
      BY <1>6, <1>8, <2>2, <3>1
  <2>3. QED
    BY <2>1, <2>2
<1>12. Accounted'
  <2> SUFFICES ASSUME NEW u \in Token
               PROVE  Len(spendings'[u]) + balances'[u][Primary] + Others(u)' <= bundles'[u].quantity
    BY <1>8, <1>9 DEF Accounted, CouponsInv
  <2>1. CASE u = t
    <3>1. Len(spendings'[u]) = 0 /\ balances'[u][Primary] = quantity /\ Others(u)' = 0
          /\ bundles'[u].quantity = quantity
      BY <1>1, <1>3, <1>4, <1>9, <2>1 DEF Others
    <3>2. QED
      BY <1>1, <3>1
  <2>2. CASE u # t
    BY <1>3, <1>8, <2>2 DEF CouponsInv, Accounted, Others
  <2>3. QED
    BY <2>1, <2>2
<1>13. SpentBeforeExpiry'
  <2> SUFFICES ASSUME NEW u \in Token, u \notin transferred, NEW i \in DOMAIN spendings[u]
               PROVE  spendings[u][i] < bundles'[u].expires
    BY <1>3 DEF SpentBeforeExpiry
  <2>1. u # t
    BY <1>4
  <2>2. QED
    BY <1>8, <2>1 DEF CouponsInv, SpentBeforeExpiry
<1>14. QED
  BY <1>5, <1>7, <1>10, <1>11, <1>12, <1>13 DEF CouponsInv

LEMMA TransferKeeps ==
  ASSUME CouponsInv, NEW t \in Token, safeTransferFrom(Primary, Deployer, t)
  PROVE  CouponsInv'
<1>1. /\ Primary \in Address /\ Deployer \in Address /\ Primary # Deployer
      /\ balances[t][Primary] > 0
      /\ balances' = [balances EXCEPT ![t][Primary] = @ - 1, ![t][Deployer] = @ + 1]
      /\ transferred' = transferred \cup {t}
      /\ timestamp' = timestamp /\ tokenIdTracker' = tokenIdTracker
      /\ expirationTime' = expirationTime /\ ownerTokens' = ownerTokens
      /\ bundles' = bundles /\ spendings' = spendings
  BY AddressAssumption, RegistryAssumption DEF safeTransferFrom
<1>2. CouponsTypeOK
  BY DEF CouponsInv
<1>3. /\ balances'[t][Primary] = balances[t][Primary] - 1
      /\ balances'[t][Deployer] = balances[t][Deployer] + 1
      /\ \A a \in Address \ {Primary, Deployer} : balances'[t][a] = balances[t][a]
      /\ \A u \in Token \ {t} : balances'[u] = balances[u]
      /\ balances[t][Primary] \in Nat /\ balances[t][Deployer] \in Nat
  BY <1>1, <1>2 DEF CouponsTypeOK
<1>4. CouponsTypeOK'
  <2>1. balances[t][Primary] - 1 \in Nat /\ balances[t][Deployer] + 1 \in Nat
    BY <1>1, <1>3
  <2>2. balances' \in [Token -> [Address -> Nat]]
    BY <1>1, <1>2, <2>1 DEF CouponsTypeOK
  <2>3. QED
    BY <1>1, <1>2, <2>2 DEF CouponsTypeOK
<1>5. ~ (t >= tokenIdTracker)
  BY <1>1 DEF CouponsInv, FreshIds
<1>6. FreshIds'
  <2> SUFFICES ASSUME NEW u \in Token, u >= tokenIdTracker
               PROVE  /\ bundles[u] = NoBundle /\ spendings[u] = <<>> /\ u \notin transferred'
                      /\ \A a \in Address : balances'[u][a] = 0 /\ u \notin Ids(ownerTokens[a])
    BY <1>1 DEF FreshIds
  <2>1. u # t
    BY <1>5
  <2>2. balances'[u] = balances[u]
    BY <1>3, <2>1
  <2>3. /\ bundles[u] = NoBundle /\ spendings[u] = <<>> /\ u \notin transferred
        /\ \A a \in Address : balances[u][a] = 0 /\ u \notin Ids(ownerTokens[a])
    BY DEF CouponsInv, FreshIds
  <2>4. QED
    BY <1>1, <2>1, <2>2, <2>3
<1>7. ListsDistinct' /\ SpentBeforeExpiry'
  BY <1>1 DEF CouponsInv, ListsDistinct, SpentBeforeExpiry
<1>8. ListsMatchBalances'
  <2> SUFFICES ASSUME NEW u \in Token \ transferred', NEW a \in Address
               PROVE  /\ Listed(u, a)' <=> balances'[u][a] > 0
                      /\ balances'[u][a] > 0 => /\ bundles'[u].owner = a
                                                /\ expirationTime'[u] = bundles'[u].expires
                      /\ \A i, j \in DOMAIN ownerTokens'[a] :
                           ownerTokens'[a][i] = ownerTokens'[a][j] => i = j
    BY DEF ListsMatchBalances
  <2>1. u \in Token \ transferred /\ balances'[u] = balances[u]
    BY <1>1, <1>3
  <2>2. QED
    BY <1>1, <2>1 DEF CouponsInv, ListsMatchBalances, Listed
<1>9. Accounted'
  <2> SUFFICES ASSUME NEW u \in Token
               PROVE  Len(spendings'[u]) + balances'[u][Primary] + Others(u)' <= bundles'[u].quantity
    BY <1>3 DEF Accounted, CouponsInv
  <2>1. Len(spendings[u]) + balances[u][Primary] + Others(u) <= bundles[u].quantity
    BY DEF CouponsInv, Accounted
  <2>2. Len(spendings[u]) \in Nat /\ bundles[u].quantity \in Nat
    BY <1>2, CouponBoundsAssumption DEF CouponsTypeOK
  <2>3. CASE u = t
    <3>1. Others(u) = balances[t][Deployer] /\ Others(u)' = balances[t][Deployer] + 1
      BY <1>1, <1>3, <2>3 DEF Others
    <3>2. balances'[u][Primary] = balances[u][Primary] - 1 /\ balances[u][Primary] \in Nat
          /\ Others(u)' = Others(u) + 1 /\ Others(u) \in Nat /\ spendings' = spendings
          /\ bundles' = bundles
      BY <1>1, <1>3, <2>3, <3>1
    <3> HIDE DEF Others
    <3>3. QED
      BY SMTT(30), <2>1, <2>2, <3>2
  <2>4. CASE u # t
    BY <1>1, <1>3, <2>1, <2>4 DEF Others
  <2>5. QED
    BY <2>3, <2>4
<1>10. QED
  BY <1>4, <1>6, <1>7, <1>8, <1>9 DEF CouponsInv

LEMMA TickKeeps ==
  ASSUME CouponsInv, Tick
  PROVE  CouponsInv'
<1>1. CouponsTypeOK'
  BY CouponBoundsAssumption DEF CouponsInv, CouponsTypeOK, Tick
<1>2. QED
  BY <1>1
  DEF CouponsInv, Tick, FreshIds, ListsDistinct, ListsMatchBalances, Listed, Accounted, Others,
      SpentBeforeExpiry

\* burn: the expired bundles of the primary, a coupon of the one named, and its place
\* on the list if it was the last.
LEMMA BurnEffect ==
  ASSUME PermissionsInv, CouponsInv, NEW sender, NEW o \in Address, NEW t \in Token,
         burn(sender, t, o)
  PROVE  LET p == operatorToPrimary[o]
             gone == {u \in Ids(ownerTokens[p]) : IsExpired(u)}
             last == balances[t][p] = 1
         IN
         /\ p \in Address /\ balances[t][p] > 0 /\ t \notin gone
         /\ balances' = [u \in Token |-> [balances[u] EXCEPT ![p] =
                           IF u \in gone THEN 0 ELSE IF u = t THEN @ - 1 ELSE @]]
         /\ expirationTime' = [u \in Token |->
                                 IF u \in gone \/ (u = t /\ last) THEN 0 ELSE expirationTime[u]]
         /\ ownerTokens' \in [Address -> Seq(Token)]
         /\ Distinct(ownerTokens'[p])
         /\ Ids(ownerTokens'[p]) =
              {u \in Ids(ownerTokens[p]) : u \notin gone /\ ~ (u = t /\ last)}
         /\ \A a \in Address \ {p} : ownerTokens'[a] = ownerTokens[a]
         /\ spendings' = [spendings EXCEPT ![t] = Append(@, timestamp)]
         /\ UNCHANGED <<timestamp, tokenIdTracker, bundles, transferred>>
<1> DEFINE p == operatorToPrimary[o]
           ids == ownerTokens[p]
           kept == BurnExpiredTokens(ids)
           gone == {u \in Ids(ids) : IsExpired(u)}
           last == balances[t][p] = 1
           expired == {u \in Token : u \in {ids[i] : i \in DOMAIN ids}
                                           \ {kept[i] : i \in DOMAIN kept}}
           list == IF last THEN RemoveTokenId(kept, t) ELSE kept
<1>1. p \in Address
  BY DEF burn, MayWrite, PermissionsInv, PermissionsTypeOK
<1>2. ids \in Seq(Token) /\ Distinct(ids)
  BY <1>1 DEF CouponsInv, CouponsTypeOK, ListsDistinct
<1>3. kept \in Seq(Token) /\ Distinct(kept) /\ Ids(kept) = {u \in Ids(ids) : ~ IsExpired(u)}
  BY <1>2, SweepIsExact
<1>4. Ids(ids) \subseteq Token
  BY <1>2 DEF Ids
<1>5. expired = gone
  <2>1. expired = {u \in Token : u \in Ids(ids) \ Ids(kept)}
    BY DEF Ids
  <2> HIDE DEF expired, kept, ids
  <2>2. QED
    BY <1>3, <1>4, <2>1
<1>6. /\ list \in Seq(Token) /\ Distinct(list)
      /\ Ids(list) = {u \in Ids(ids) : u \notin gone /\ ~ (u = t /\ last)}
  <2> HIDE DEF kept, ids
  <2>1. CASE last
    BY <1>3, <2>1, RemovedIsList, RemovedIds
  <2>2. CASE ~ last
    BY <1>3, <2>2
  <2>3. QED
    BY <2>1, <2>2
<1>7. /\ balances[t][p] > 0 /\ t \notin expired
      /\ balances' = [u \in Token |-> [balances[u] EXCEPT ![p] =
                        IF u \in expired THEN 0 ELSE IF u = t THEN @ - 1 ELSE @]]
      /\ expirationTime' = [u \in Token |->
                              IF u \in expired \/ (u = t /\ last) THEN 0 ELSE expirationTime[u]]
      /\ ownerTokens' = [ownerTokens EXCEPT ![p] = list]
      /\ spendings' = [spendings EXCEPT ![t] = Append(@, timestamp)]
      /\ UNCHANGED <<timestamp, tokenIdTracker, bundles, transferred>>
  BY DEF burn
<1>8. ownerTokens' \in [Address -> Seq(Token)] /\ ownerTokens'[p] = list
      /\ \A a \in Address \ {p} : ownerTokens'[a] = ownerTokens[a]
  <2>1. ownerTokens \in [Address -> Seq(Token)]
    BY DEF CouponsInv, CouponsTypeOK
  <2> HIDE DEF list, p
  <2>2. QED
    BY <1>1, <1>6, <1>7, <2>1
<1> HIDE DEF list, kept, expired
<1>9. QED
  BY <1>1, <1>5, <1>6, <1>7, <1>8

LEMMA BurnKeeps ==
  ASSUME PermissionsInv, CouponsInv, NEW sender, NEW o \in Address, NEW t \in Token,
         burn(sender, t, o)
  PROVE  CouponsInv'
<1> DEFINE p == operatorToPrimary[o]
           gone == {u \in Ids(ownerTokens[p]) : IsExpired(u)}
           last == balances[t][p] = 1
<1>1. /\ p \in Address /\ balances[t][p] > 0 /\ t \notin gone
      /\ balances' = [u \in Token |-> [balances[u] EXCEPT ![p] =
                        IF u \in gone THEN 0 ELSE IF u = t THEN @ - 1 ELSE @]]
      /\ expirationTime' = [u \in Token |->
                              IF u \in gone \/ (u = t /\ last) THEN 0 ELSE expirationTime[u]]
      /\ ownerTokens' \in [Address -> Seq(Token)]
      /\ Distinct(ownerTokens'[p])
      /\ Ids(ownerTokens'[p]) =
           {u \in Ids(ownerTokens[p]) : u \notin gone /\ ~ (u = t /\ last)}
      /\ \A a \in Address \ {p} : ownerTokens'[a] = ownerTokens[a]
      /\ spendings' = [spendings EXCEPT ![t] = Append(@, timestamp)]
      /\ UNCHANGED <<timestamp, tokenIdTracker, bundles, transferred>>
  BY BurnEffect
<1>2. CouponsTypeOK /\ Primary \in Address /\ Deployer \in Address
  BY AddressAssumption, RegistryAssumption DEF CouponsInv
<1>3. gone \subseteq Token /\ gone \subseteq Ids(ownerTokens[p])
  <2>1. ownerTokens[p] \in Seq(Token)
    BY <1>1, <1>2 DEF CouponsTypeOK
  <2>2. Ids(ownerTokens[p]) \subseteq Token
    BY <2>1 DEF Ids
  <2>3. QED
    BY <2>2
<1>4. \A u \in gone : IsExpired(u)
  OBVIOUS
<1>5. \A u \in Ids(ownerTokens[p]) : u \notin gone => ~ IsExpired(u)
  OBVIOUS
<1> HIDE DEF gone, p
<1>6. /\ \A u \in Token : \A a \in Address \ {p} : balances'[u][a] = balances[u][a]
      /\ \A u \in gone : balances'[u][p] = 0
      /\ \A u \in Token : u \notin gone /\ u # t => balances'[u][p] = balances[u][p]
      /\ balances'[t][p] = balances[t][p] - 1
      /\ \A u \in Token, a \in Address : balances[u][a] \in Nat
  BY <1>1, <1>2, <1>3 DEF CouponsTypeOK
<1>7. \A u \in Token, a \in Address : balances'[u][a] <= balances[u][a] /\ balances'[u][a] \in Nat
  <2> SUFFICES ASSUME NEW u \in Token, NEW a \in Address
               PROVE  balances'[u][a] <= balances[u][a] /\ balances'[u][a] \in Nat
    OBVIOUS
  <2>1. balances[u][a] \in Nat /\ balances[t][p] \in Nat
    BY <1>1, <1>6
  <2>2. CASE a # p \/ (u \notin gone /\ u # t)
    BY <1>6, <2>1, <2>2
  <2>3. CASE a = p /\ u \in gone
    BY <1>6, <2>1, <2>3
  <2>4. CASE a = p /\ u = t
    BY <1>1, <1>6, <2>1, <2>4
  <2>5. QED
    BY <2>2, <2>3, <2>4
<1>8. CouponsTypeOK'
  <2>1. balances' \in [Token -> [Address -> Nat]]
    <3>1. \A u \in Token : balances'[u] = [a \in Address |-> balances'[u][a]]
      BY <1>1, <1>2 DEF CouponsTypeOK
    <3>2. DOMAIN balances' = Token /\ balances' = [u \in Token |-> balances'[u]]
      BY <1>1
    <3>3. QED
      BY <1>7, <3>1, <3>2
  <2>2. expirationTime' \in [Token -> 0..MaxTime]
    BY <1>1, <1>2, CouponBoundsAssumption DEF CouponsTypeOK
  <2>3. Append(spendings[t], timestamp) \in Seq(0..MaxTime)
    BY <1>2 DEF CouponsTypeOK
  <2>4. spendings' \in [Token -> Seq(0..MaxTime)]
    BY <1>1, <1>2, <2>3 DEF CouponsTypeOK
  <2>5. QED
    BY <1>1, <1>2, <2>1, <2>2, <2>4 DEF CouponsTypeOK
<1>9. \A a \in Address : Ids(ownerTokens'[a]) \subseteq Ids(ownerTokens[a])
  BY <1>1
<1>10. ListsDistinct'
  BY <1>1 DEF CouponsInv, ListsDistinct
<1>11. ~ (t >= tokenIdTracker)
  BY <1>1 DEF CouponsInv, FreshIds
<1>12. /\ \A u \in Token \ {t} : spendings'[u] = spendings[u]
       /\ spendings'[t] = Append(spendings[t], timestamp)
  BY <1>1, <1>2 DEF CouponsTypeOK
<1>13. FreshIds'
  <2> SUFFICES ASSUME NEW u \in Token, u >= tokenIdTracker
               PROVE  /\ bundles[u] = NoBundle /\ spendings'[u] = <<>> /\ u \notin transferred
                      /\ \A a \in Address : balances'[u][a] = 0 /\ u \notin Ids(ownerTokens'[a])
    BY <1>1 DEF FreshIds
  <2>1. u # t
    BY <1>11
  <2>2. /\ bundles[u] = NoBundle /\ spendings[u] = <<>> /\ u \notin transferred
        /\ \A a \in Address : balances[u][a] = 0 /\ u \notin Ids(ownerTokens[a])
    BY DEF CouponsInv, FreshIds
  <2>3. QED
    BY <1>6, <1>7, <1>9, <1>12, <2>1, <2>2
<1>14. ASSUME NEW u \in Token, u \notin transferred, NEW a \in Address
       PROVE  /\ u \in Ids(ownerTokens[a]) <=> balances[u][a] > 0
              /\ balances[u][a] > 0 => /\ bundles[u].owner = a
                                       /\ expirationTime[u] = bundles[u].expires
  BY <1>14 DEF CouponsInv, ListsMatchBalances, Listed, Ids
<1>15. ListsMatchBalances'
  <2> SUFFICES ASSUME NEW u \in Token, u \notin transferred, NEW a \in Address
               PROVE  /\ u \in Ids(ownerTokens'[a]) <=> balances'[u][a] > 0
                      /\ balances'[u][a] > 0 => /\ bundles[u].owner = a
                                                /\ expirationTime'[u] = bundles[u].expires
    BY <1>1, <1>10 DEF ListsMatchBalances, Listed, Ids, ListsDistinct, Distinct
  <2>1. CASE a = p
    <3>1. CASE u \in gone
      <4>1. balances'[u][a] = 0 /\ u \notin Ids(ownerTokens'[a])
        BY <1>1, <1>6, <2>1, <3>1
      <4>2. QED
        BY <4>1
    <3>2. CASE u = t
      BY <1>1, <1>6, <1>14, <2>1, <3>2
    <3>3. CASE u \notin gone /\ u # t
      BY <1>1, <1>6, <1>14, <2>1, <3>3
    <3>4. QED
      BY <3>1, <3>2, <3>3
  <2>2. CASE a # p
    <3>1. balances'[u][a] = balances[u][a] /\ ownerTokens'[a] = ownerTokens[a]
      BY <1>1, <1>6, <2>2
    <3>2. ASSUME balances[u][a] > 0 PROVE u \notin gone /\ u # t
      <4>1. bundles[u].owner = a
        BY <1>14, <3>2
      <4>2. ~ (balances[u][p] > 0)
        BY <1>1, <1>14, <2>2, <4>1
      <4>3. QED
        BY <1>1, <1>3, <1>14, <4>2
    <3>3. QED
      BY <1>1, <1>14, <3>1, <3>2
  <2>3. QED
    BY <2>1, <2>2
<1>16. Accounted'
  <2> SUFFICES ASSUME NEW u \in Token
               PROVE  Len(spendings'[u]) + balances'[u][Primary] + Others(u)' <= bundles[u].quantity
    <3>1. ASSUME NEW u \in Token, NEW a \in Address \ {Primary, Deployer}
          PROVE  balances'[u][a] = 0
      <4>1. balances[u][a] = 0 /\ balances'[u][a] <= balances[u][a] /\ balances'[u][a] \in Nat
        BY <1>7 DEF CouponsInv, Accounted
      <4>2. QED
        BY <4>1
    <3>2. QED
      BY <1>1, <3>1 DEF Accounted
  <2>1. Len(spendings[u]) + balances[u][Primary] + Others(u) <= bundles[u].quantity
    BY DEF CouponsInv, Accounted
  <2>2. Len(spendings[u]) \in Nat /\ bundles[u].quantity \in Nat /\ spendings[u] \in Seq(0..MaxTime)
    BY SMTT(30), <1>2, CouponBoundsAssumption DEF CouponsTypeOK
  <2>3. /\ balances'[u][Primary] \in Nat /\ balances'[u][Primary] <= balances[u][Primary]
        /\ balances[u][Primary] \in Nat
        /\ Others(u)' \in Nat /\ Others(u)' <= Others(u) /\ Others(u) \in Nat
    BY <1>2, <1>6, <1>7 DEF Others
  <2>4. CASE u # t
    <3>1. Len(spendings'[u]) = Len(spendings[u])
      BY <1>12, <2>4
    <3> HIDE DEF Others
    <3>2. QED
      BY <2>1, <2>2, <2>3, <3>1
  <2>5. CASE u = t
    <3>1. Len(spendings'[u]) = Len(spendings[u]) + 1
      BY <1>12, <2>2, <2>5
    <3>2. p \in {Primary, Deployer}
      BY <1>1, <2>5 DEF CouponsInv, Accounted
    <3>3. CASE p = Primary
      <4>1. balances'[u][Primary] = balances[u][Primary] - 1
        BY <1>6, <2>5, <3>3
      <4> HIDE DEF Others
      <4>2. QED
        BY SMTT(30), <2>1, <2>2, <2>3, <3>1, <4>1
    <3>4. CASE p = Deployer /\ p # Primary
      <4>1. Others(u)' = Others(u) - 1
        BY <1>6, <2>5, <3>4 DEF Others
      <4> HIDE DEF Others
      <4>2. QED
        BY SMTT(30), <2>1, <2>2, <2>3, <3>1, <4>1
    <3>5. QED
      BY <3>2, <3>3, <3>4
  <2>6. QED
    BY <2>4, <2>5
<1>17. SpentBeforeExpiry'
  <2> SUFFICES ASSUME NEW u \in Token, u \notin transferred, NEW i \in DOMAIN spendings'[u]
               PROVE  spendings'[u][i] < bundles[u].expires
    BY <1>1 DEF SpentBeforeExpiry
  <2>1. CASE u # t
    BY <1>12, <2>1 DEF CouponsInv, SpentBeforeExpiry
  <2>2. CASE u = t
    <3>1. t \in Ids(ownerTokens[p]) /\ expirationTime[t] = bundles[t].expires
      BY <1>1, <1>14, <2>2
    <3>2. ~ (timestamp >= bundles[t].expires)
      BY <1>1, <1>5, <3>1 DEF IsExpired
    <3>3. timestamp \in Nat /\ bundles[t].expires \in Nat /\ spendings[t] \in Seq(0..MaxTime)
      BY <1>2, CouponBoundsAssumption DEF CouponsTypeOK
    <3>4. \A j \in DOMAIN spendings[t] : spendings[t][j] < bundles[t].expires
      BY <2>2 DEF CouponsInv, SpentBeforeExpiry
    <3>5. QED
      BY SMTT(30), <1>12, <2>2, <3>2, <3>3, <3>4
  <2>3. QED
    BY <2>1, <2>2
<1>18. QED
  BY <1>8, <1>10, <1>13, <1>15, <1>16, <1>17 DEF CouponsInv

\* Every burn is of a bundle of this contract, for an operator of some primary.
LEMMA BurnsAreOfTokens ==
  ASSUME PermissionsInv, Next
  PROVE  \/ UNCHANGED coupons
         \/ MintOrTransfer
         \/ \E sender \in Address, o \in Address, t \in Token : burn(sender, t, o)
<1>1. ASSUME NEW r \in Reader, ReadEntries(r), ~ UNCHANGED coupons
      PROVE  \E sender \in Address, o \in Address, t \in Token : burn(sender, t, o)
  <2> DEFINE t == getTokenId(operatorToPrimary[Operator])
  <2>1. getPaidEntries(Operator, reader[r].wanted)
    BY <1>1 DEF ReadEntries, getFreeEntries
  <2>2. t \in Token
    BY <2>1, TokenIdIsToken DEF getPaidEntries, CanPay
  <2>3. burn(Registry, t, Operator)
    BY <2>1 DEF getPaidEntries
  <2>4. QED
    BY <2>2, <2>3, RegistryAssumption
<1>2. ASSUME NEW t \in Token, NEW o \in Address, BurnDirectly(Deployer, t, o)
      PROVE  \E sender \in Address, p \in Address, u \in Token : burn(sender, u, p)
  BY <1>2, AddressAssumption DEF BurnDirectly
<1>3. QED
  BY <1>1, <1>2
  DEF Next, newMetadataList, setEntry, SetFreeTypes, CheckFree, ReadReverts, ChangePermissions

LEMMA CouponsInvStep == PermissionsInv /\ CouponsInv /\ [Next]_vars => CouponsInv'
<1> SUFFICES ASSUME PermissionsInv, CouponsInv, [Next]_vars PROVE CouponsInv'
  OBVIOUS
<1>1. CASE UNCHANGED coupons
  BY <1>1, CouponsInvStutter
<1>2. CASE MintOrTransfer
  BY <1>2, MintKeeps, TransferKeeps, TickKeeps DEF MintOrTransfer
<1>3. ASSUME NEW sender \in Address, NEW o \in Address, NEW t \in Token, burn(sender, t, o)
      PROVE  CouponsInv'
  BY <1>3, BurnKeeps
<1>4. CASE UNCHANGED vars
  BY <1>1, <1>4 DEF vars
<1>5. QED
  BY <1>1, <1>2, <1>3, <1>4, BurnsAreOfTokens

\* The lists of bundles say what the balances say (removeTokenId, burnExpiredTokens,
\* mint and burn of VerificationCoupon.sol).
THEOREM ListsAgreeWithBalances == Spec => []ListsMatchBalances
<1>1. CouponsInv => ListsMatchBalances
  BY DEF CouponsInv
<1>2. QED
  BY <1>1, InitPermissionsInv, StepPermissionsInv, CouponsInvInit, CouponsInvStep, PTL DEF Spec

\* No coupon is spent after its time, and none is spent twice.
THEOREM CouponsAreSpentInTime == Spec => []SpentInTime
<1>1. QED
  BY CouponsInvGivesSpentInTime, InitPermissionsInv, StepPermissionsInv,
     CouponsInvInit, CouponsInvStep, PTL
  DEF Spec

LEMMA BurnLeavesNoExpired ==
  ASSUME PermissionsInv, CouponsInv, [Next]_vars, NEW t \in Token, NEW a \in Address,
         Len(spendings'[t]) > Len(spendings[t]), balances'[t][a] < balances[t][a],
         NEW i \in DOMAIN ownerTokens'[a]
  PROVE  timestamp < expirationTime'[ownerTokens'[a][i]]
<1>1. spendings' # spendings
  <2>1. Len(spendings[t]) \in Nat
    BY DEF CouponsInv, CouponsTypeOK
  <2>2. QED
    BY <2>1
<1>2. ~ UNCHANGED coupons /\ ~ UNCHANGED vars /\ ~ MintOrTransfer
  BY <1>1 DEF coupons, vars, MintOrTransfer, mint, safeTransferFrom, Tick
<1>3. PICK sender \in Address, o \in Address, u \in Token : burn(sender, u, o)
  BY <1>2, BurnsAreOfTokens
<1> DEFINE p == operatorToPrimary[o]
           gone == {v \in Ids(ownerTokens[p]) : IsExpired(v)}
           last == balances[u][p] = 1
           id == ownerTokens'[a][i]
<1>4. /\ p \in Address /\ balances[u][p] > 0 /\ u \notin gone
      /\ balances' = [v \in Token |-> [balances[v] EXCEPT ![p] =
                        IF v \in gone THEN 0 ELSE IF v = u THEN @ - 1 ELSE @]]
      /\ expirationTime' = [v \in Token |->
                              IF v \in gone \/ (v = u /\ last) THEN 0 ELSE expirationTime[v]]
      /\ ownerTokens' \in [Address -> Seq(Token)]
      /\ Distinct(ownerTokens'[p])
      /\ Ids(ownerTokens'[p]) =
           {v \in Ids(ownerTokens[p]) : v \notin gone /\ ~ (v = u /\ last)}
      /\ \A b \in Address \ {p} : ownerTokens'[b] = ownerTokens[b]
      /\ spendings' = [spendings EXCEPT ![u] = Append(@, timestamp)]
      /\ UNCHANGED <<timestamp, tokenIdTracker, bundles, transferred>>
  BY <1>3, BurnEffect
<1>5. \A v \in Ids(ownerTokens[p]) : v \notin gone => ~ IsExpired(v)
  OBVIOUS
<1>6. /\ balances \in [Token -> [Address -> Nat]] /\ timestamp \in Nat
      /\ expirationTime \in [Token -> Nat]
  BY SMTT(30), CouponBoundsAssumption DEF CouponsInv, CouponsTypeOK
<1> HIDE DEF gone, p, last
<1>7. a = p
  <2>1. CASE a # p
    <3>1. balances'[t][a] = balances[t][a] /\ balances[t][a] \in Nat
      BY <1>4, <1>6, <2>1
    <3>2. QED
      BY <3>1
  <2>2. QED
    BY <2>1
<1>8. id \in Ids(ownerTokens'[p]) /\ id \in Token
  BY <1>4, <1>7 DEF Ids
<1> HIDE DEF id
<1>9. expirationTime'[id] = expirationTime[id] /\ ~ IsExpired(id)
  BY <1>4, <1>5, <1>8
<1>10. QED
  BY <1>6, <1>8, <1>9 DEF IsExpired, id

\* A burn leaves no expired bundle on its owner's list: the loop misses none
\* (burnExpiredTokens).
THEOREM BurnsSweep == Spec => BurnSweeps
<1>1. PermissionsInv /\ CouponsInv /\ [Next]_vars =>
        [\A t \in Token, a \in Address :
           Len(spendings'[t]) > Len(spendings[t]) /\ balances'[t][a] < balances[t][a]
             => \A i \in DOMAIN ownerTokens'[a] :
                  timestamp < expirationTime'[ownerTokens'[a][i]]]_coupons
  BY BurnLeavesNoExpired
<1>2. QED
  BY <1>1, InitPermissionsInv, StepPermissionsInv, CouponsInvInit, CouponsInvStep, PTL
  DEF Spec, BurnSweeps

-----------------------------------------------------------------------------
(* Types. *)

ListsTypeOK ==
  /\ lists \in [Address -> SUBSET ListId]
  /\ freeCredentialTypes \subseteq CredentialType
  /\ changes \in 0..MaxChanges

LEMMA ListsTypeInit == Init => ListsTypeOK
  BY RegistryAssumption DEF Init, ListsTypeOK

LEMMA ListsTypeStep == PermissionsInv /\ ListsTypeOK /\ [Next]_vars => ListsTypeOK'
<1> SUFFICES ASSUME PermissionsInv, ListsTypeOK, [Next]_vars PROVE ListsTypeOK'
  OBVIOUS
<1>1. ASSUME NEW o \in Address, NEW l \in ListId, newMetadataList(o, l)
      PROVE  ListsTypeOK'
  BY <1>1 DEF newMetadataList, ListsTypeOK
<1>2. ASSUME NEW types \in SUBSET CredentialType, SetFreeTypes(Deployer, types)
      PROVE  ListsTypeOK'
  BY <1>2, RegistryAssumption DEF SetFreeTypes, ListsTypeOK
<1>3. CASE ChangePermissions
  BY <1>3, RegistryAssumption DEF ChangePermissions, ListsTypeOK, registry
<1>4. CASE UNCHANGED <<registry, changes>>
  BY <1>4 DEF ListsTypeOK, registry
<1>5. QED
  BY <1>1, <1>2, <1>3, <1>4
  DEF Next, setEntry, CheckFree, ReadEntries, ReadReverts, Answer, BurnDirectly, MintOrTransfer,
      registry, vars, ListsTypeOK

\* Type correctness of the registry, the coupons and the permissions together.
THEOREM RegistryTypes == Spec => []TypeOK
<1>1. PermissionsInv /\ CouponsInv /\ AnswersInv /\ ListsTypeOK => TypeOK
  BY DEF PermissionsInv, CouponsInv, AnswersInv, EntriesType, ListsTypeOK, TypeOK
<1>2. QED
  BY <1>1, InitPermissionsInv, StepPermissionsInv, CouponsInvInit, CouponsInvStep,
     AnswersInvInit, AnswersInvStep, ListsTypeInit, ListsTypeStep, PTL
  DEF Spec
=============================================================================
