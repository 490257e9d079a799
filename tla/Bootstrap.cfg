SPECIFICATION Spec
CONSTANTS
  Registry <- MCRegistry
  Decodable <- MCDecodable
  Birthday <- MCBirthday
INVARIANTS
  ServesItsOwnIndex
  IndexIsOfOneScan
  OwnIndexIsNeverRefused
  StoredKeyDecodes
