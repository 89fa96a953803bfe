CONSTANTS
    SymBits = 2
    CodeBits = 8
    UintBits = 2
    Users <- MCUsers
    Items <- MCItems
    MaxItems = 4
    Storages <- MCStorages
    Damages <- MCDamages
SPECIFICATION MCSpec
INVARIANTS
  PayloadsComeThrough
  PulsesComeBack
  EnergiesComeBack
CHECK_DEADLOCK FALSE
