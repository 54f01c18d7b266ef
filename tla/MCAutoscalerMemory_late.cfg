SPECIFICATION Spec
CONSTANTS
  MaxTime = 4
INVARIANTS
  PhantomsAreNeverOlder
