SPECIFICATION Spec
CONSTANTS
  Half = 3
  MaxCount = 4
  Addresses = {a1, a2}
  NoAddress = none
  MaxReboots = 1
INVARIANTS TypeOK NoCaptureUnasked
PROPERTY RequestAnswered
