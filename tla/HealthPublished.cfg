\* Does the last event published tell the health of the service?
SPECIFICATION Spec
CONSTANTS
  Forever = TRUE
  Buffer = 2
INVARIANT UpIsPublished
CHECK_DEADLOCK FALSE
