\* Every operation and every class of arguments; lists of up to three of two devices.
SPECIFICATION Spec
CONSTANTS
  Device = {1, 2}
  MaxListed = 3
  MaxDevices = 2
INVARIANTS SentIsApproved NoPlaceholderIsSent MalformedCostsNothing ApprovedIsSendable
CHECK_DEADLOCK FALSE
