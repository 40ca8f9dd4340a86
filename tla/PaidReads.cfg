SPECIFICATION Spec
CONSTANTS
  Address <- MCAddress
  Zero = "0x0"
  Deployer = "VNF"
  Scope <- MCScope
  MaxTokens = 3
  MaxQuantity = 2
  MaxTime = 2
  Registry = "registry"
  ListId = {1}
  Index = {0}
  CredentialType = {"Email", "Course"}
  FreeTypes = {"Email"}
  PermissionOfType <- MCPermissionOfType
  PublicKey = {k1}
  Primary = "primary"
  Operator = "operator"
  QuantityOf <- MCQuantityOf
  Reader = {r1, r2}
  MaxChanges = 1
SYMMETRY Symmetry
INVARIANTS TypeOK OperatorsHavePrimaries ListsMatchBalances SpentInTime
PROPERTIES BurnSweeps ReadsArePaid
CHECK_DEADLOCK FALSE
