SPECIFICATION Spec
CONSTANTS
  Request = {r1, r2}
  ServiceId <- MCServiceId
  CategoryOf <- MCCategoryOf
  KeyId <- MCKeyId
  PurposesOf <- MCPurposesOf
  NewKeys <- MCNewKeys
  PermissioningKey = "permissioning"
  RotationKey = "rotation"
  Account = "account"
  Address <- MCAddress
  Zero = "0x0"
  Deployer = "VNF"
  Scope <- MCScope
  Handlers <- Handler
  MaxInFlight = 1
  MaxFaults = 0
SYMMETRY Symmetry
PROPERTY NoMetadataKeyRemoved
