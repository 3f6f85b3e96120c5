\* TLV decoder against the reference encoder, 64-bit size_t.  Every caller stops at its first error, so behaviours end.
CONSTANTS
  Base = 8
  SizeOctets = 8
SPECIFICATION MSpec
INVARIANT MTypeOK
PROPERTY DecodesEncoding
CHECK_DEADLOCK FALSE
