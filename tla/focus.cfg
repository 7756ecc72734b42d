\* Two visits and three managers of one or two start calls each; three tasks are one more
\* than a manager can have alive.
SPECIFICATION FairSpec
CONSTANTS
  UseAutoFocus = TRUE
  Task = {1, 2, 3}
  NoTask = 0
  MaxVisits = 2
  MaxManagers = 3
INVARIANTS
  TypeOK
  AttemptsDoNotMultiply
  CycleGoesOn
  OneManagerPerCamera
  ReleasedCameraIsLeftAlone
PROPERTY
  LeftPageGoesQuiet
\* The bounds on visits and managers end some behaviours.
CHECK_DEADLOCK FALSE
