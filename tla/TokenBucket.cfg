\* A burst of two, two ticks to a token; the clock may be set back and the
\* script may fail.
CONSTANTS
  Cap = 2
  Unit = 2
  MaxTicks = 12
  MaxRequests = 7
  RedisFails = TRUE
  None = None
SPECIFICATION Spec
INVARIANTS
  AdmissionBound
PROPERTIES
  IdealSpec
\* The bounds end the model.
CHECK_DEADLOCK FALSE
