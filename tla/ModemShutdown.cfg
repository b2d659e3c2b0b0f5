SPECIFICATION Spec
CONSTANTS
  MaxDaily = 3
  Period = 2
  MaxTime = 10
INVARIANTS TypeOK PanicAfterMaxDaily NoPanicBound
