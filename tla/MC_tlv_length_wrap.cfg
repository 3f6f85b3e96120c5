\* A length close to 2^64 makes offset + length wrap in readTypeAndLength.
CONSTANTS
  Base = 8
  SizeOctets = 8
SPECIFICATION MSpec
PROPERTY LengthWithinInput
CHECK_DEADLOCK FALSE
