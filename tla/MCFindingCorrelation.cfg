CONSTANTS
  Assets = {1, 2}
  Endpoints = {1, 2}
  Technologies = {1}
  Classes = {1, 2}
  References = {1, 2, 3}
  Kind <- MCKind
  Inputs <- MCInputs
  MaxRecords = 4
SPECIFICATION Spec
INVARIANTS
  MergedAgree
  AgreedFamilyMerges
  ConflictNeedsDisagreement
CHECK_DEADLOCK FALSE
