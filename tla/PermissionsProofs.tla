-------------------------- MODULE PermissionsProofs --------------------------
(***************************************************************************)
(* The invariants of the Permissions contract, for any addresses and any   *)
(* callers, and the lemma the modules that extend it cite: every call      *)
(* preserves them.                                                         *)
(***************************************************************************)
EXTENDS Permissions, TLAPS

PermissionsInv == PermissionsTypeOK /\ OperatorsHavePrimaries

\* A new contract: nobody but the deployer has a role.
LEMMA PermissionsInvInit == PermissionsInit => PermissionsInv
  BY AddressAssumption
  DEF PermissionsInit, PermissionsInv, PermissionsTypeOK, OperatorsHavePrimaries

\* The calls of VNF.
LEMMA VnfCallsPreserve ==
  ASSUME PermissionsInv,
         NEW sender \in Address, NEW a \in Address, NEW b \in Address, NEW c \in Address,
         \/ rotateVNF(sender, a)
         \/ addPrimary(sender, a, b, c)
         \/ \E add, remove \in SUBSET Scope : updateAddressScopes(sender, a, add, remove)
  PROVE  PermissionsInv'
<1> USE DEF PermissionsInv, PermissionsTypeOK, OperatorsHavePrimaries
<1>1. CASE rotateVNF(sender, a)
  BY <1>1 DEF rotateVNF
<1>2. CASE addPrimary(sender, a, b, c)
  BY <1>2, AddressAssumption DEF addPrimary
<1>3. ASSUME NEW add \in SUBSET Scope, NEW remove \in SUBSET Scope,
             updateAddressScopes(sender, a, add, remove)
      PROVE  PermissionsInv'
  BY <1>3 DEF updateAddressScopes
<1>4. QED
  BY <1>1, <1>2, <1>3

\* A primary's keys are replaced by its rotation key, which only a primary has:
\* address(0) calls nothing.
LEMMA RotationPreserves ==
  ASSUME PermissionsInv,
         NEW sender \in Address, NEW a \in Address, NEW b \in Address, NEW c \in Address,
         rotatePermissioning(sender, a, b, c)
  PROVE  PermissionsInv'
<1>1. a \in primaries
  BY AddressAssumption
  DEF PermissionsInv, PermissionsTypeOK, OperatorsHavePrimaries, rotatePermissioning, OnlyRotation
<1>2. QED
  BY <1>1, AddressAssumption
  DEF PermissionsInv, PermissionsTypeOK, OperatorsHavePrimaries, rotatePermissioning

\* Operators are named by the permissioning key, which only a primary has.
LEMMA OperatorsPreserve ==
  ASSUME PermissionsInv,
         NEW sender \in Address, NEW primary \in Address,
         NEW removed \in SUBSET Address, NEW added \in SUBSET Address,
         ChangeOperators(sender, primary, removed, added)
  PROVE  PermissionsInv'
<1>1. primary \in primaries
  BY AddressAssumption
  DEF PermissionsInv, PermissionsTypeOK, OperatorsHavePrimaries, ChangeOperators, OnlyPermissions
<1>2. QED
  BY <1>1, AddressAssumption
  DEF PermissionsInv, PermissionsTypeOK, OperatorsHavePrimaries, ChangeOperators

\* Every step of the contract.
LEMMA PermissionsInvStep == PermissionsInv /\ [PermissionsNext]_permissions => PermissionsInv'
<1> SUFFICES ASSUME PermissionsInv, [PermissionsNext]_permissions
             PROVE  PermissionsInv'
  OBVIOUS
<1>1. CASE UNCHANGED permissions
  BY <1>1 DEF PermissionsInv, PermissionsTypeOK, OperatorsHavePrimaries, permissions
<1>2. CASE PermissionsNext
  <2> PICK sender \in Address, a \in Address, b \in Address, c \in Address :
        \/ rotateVNF(sender, a)
        \/ \E add, remove \in SUBSET Scope : updateAddressScopes(sender, a, add, remove)
        \/ addPrimary(sender, a, b, c)
        \/ rotatePermissioning(sender, a, b, c)
        \/ addOperatorKey(sender, a, b)
        \/ removeOperatorKey(sender, a, b)
        \/ rotateOperatorKey(sender, a, b, c)
    BY <1>2 DEF PermissionsNext
  <2>1. CASE addOperatorKey(sender, a, b) \/ removeOperatorKey(sender, a, b)
             \/ rotateOperatorKey(sender, a, b, c)
    BY <2>1, OperatorsPreserve DEF addOperatorKey, removeOperatorKey, rotateOperatorKey
  <2>2. QED
    BY <2>1, VnfCallsPreserve, RotationPreserves
<1>3. QED
  BY <1>1, <1>2

\* Every variable has values of its type (Permissions.sol).
THEOREM PermissionsTypeCorrect == PermissionsSpec => []PermissionsTypeOK
<1>1. PermissionsInv => PermissionsTypeOK
  BY DEF PermissionsInv
<1>2. QED
  BY <1>1, PermissionsInvInit, PermissionsInvStep, PTL DEF PermissionsSpec

\* Whoever acts for an address, or may name those who do, does it for a primary the
\* VNF added, whatever keys are added, removed and rotated by whom (Permissions.sol).
THEOREM OperatorsActForPrimaries == PermissionsSpec => []OperatorsHavePrimaries
<1>1. PermissionsInv => OperatorsHavePrimaries
  BY DEF PermissionsInv
<1>2. QED
  BY <1>1, PermissionsInvInit, PermissionsInvStep, PTL DEF PermissionsSpec
=============================================================================
