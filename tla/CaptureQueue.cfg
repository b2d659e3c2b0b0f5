SPECIFICATION Spec
CONSTANTS
  TimeInterval = 2
  NetInterval = 3
  Decimation = 3
  Holdout = 2
INVARIANTS TypeOK RetriesBounded DecimationUnlessDropped
PROPERTIES MailboxSteps MailboxFair
