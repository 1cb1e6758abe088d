CONSTANTS
  Slots = 4
  None = "0"
  Keys <- MCKeys
  Shifts <- MCShifts
  Plain <- MCPlain
  Shifted <- MCShifted
SPECIFICATION Spec
PROPERTY KeepsPromise
