SPECIFICATION Spec
CONSTANTS
  Request = {r1, r2, r3}
  ServiceId <- MCServiceId
  CategoryOf <- MCCategoryOf
  KeyId <- MCKeyId
  PurposesOf <- MCPurposesOf
  NewKeys <- MCNewKeys
  PermissioningKey = "permissioning"
  RotationKey = "rotation"
  Account = "account"
  Address <- MCAddress
  Zero = "0x0"
  Deployer = "VNF"
  Scope <- MCScope
  Handlers <- Handler
  MaxInFlight = 2
  MaxFaults = 1
SYMMETRY Symmetry
INVARIANTS TypeOK SettledAgrees OperatorsAreKeys KeysInDidDoc
PROPERTY CompletedChangeAgrees
