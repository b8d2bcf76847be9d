SPECIFICATION Spec
CONSTANTS
  Texts <- MCTexts
CHECK_DEADLOCK FALSE
INVARIANTS
  TypeOK
  HighTouchWaits
  UnattendedIsSafe
  ReviewIsKept
  StricterReleasesLess
