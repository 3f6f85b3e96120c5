------------------------------ MODULE TlvDecoder ------------------------------
(***************************************************************************)
(* The reading primitives of the NDN TLV decoder                           *)
(* (src/src/c/encoding/tlv/tlv-decoder.c), as pure operators over an input *)
(* octet sequence and an offset.  Each returns [err, val, offset]: the      *)
(* error code, the number read and the decoder's offset afterwards.        *)
(*                                                                         *)
(* An octet has Base values.  The code has Base = 256; a smaller Base      *)
(* keeps 8-octet numbers inside TLC's integers while keeping the layout:   *)
(* the three largest octet values announce 2-, 4- and 8-octet              *)
(* var-numbers, uint16/32/64 are 2, 4 and 8 octets, and a size_t is        *)
(* SizeOctets octets, so size_t arithmetic is modulo Base^SizeOctets.      *)
(***************************************************************************)
EXTENDS Naturals, Sequences, SequencesExt, TLC

CONSTANTS
  Base,        \* values of one octet (256 in the code)
  SizeOctets   \* octets of a size_t: 8 on 64-bit builds, 4 on 32-bit ones

ASSUME Base >= 4 /\ SizeOctets \in {4, 8}

Octet == 0..(Base - 1)

\* size_t wraps at this value.
SizeMod == Base ^ SizeOctets

\* The first octet 253, 254 or 255 announces a var-number of 2, 4 or 8 octets.
ExtendedWidth == (Base - 3 :> 2) @@ (Base - 2 :> 4) @@ (Base - 1 :> 8)

\* be16toh / be32toh / be64toh of the octets at the offset.
BigEndian(s) == FoldLeft(LAMBDA acc, o : acc * Base + o, 0, s)

Ok(off, v)  == [err |-> "success", val |-> v, offset |-> off]
Err(off, e) == [err |-> e, val |-> 0, offset |-> off]

Success(r) == r.err = "success"

\* A mutant of ReadExtendedVarNumber: an off-by-one in the bound check.
ReadExtendedVarNumberAtEnd(in, off, firstOctet) ==
  LET k == ExtendedWidth[firstOctet]
  IN  IF off + k >= Len(in) THEN Err(off, "read_past_the_end_of_the_input")
      ELSE Ok(off + k, BigEndian(SubSeq(in, off + 1, off + k)))

\* A mutant of ReadExtendedVarNumber: every width advances the offset by 4.
ReadExtendedVarNumberAdvance4(in, off, firstOctet) ==
  LET k == ExtendedWidth[firstOctet]
  IN  IF off + k > Len(in) THEN Err(off, "read_past_the_end_of_the_input")
      ELSE Ok(off + 4, BigEndian(SubSeq(in, off + 1, off + k)))

\* ndn_TlvDecoder_readExtendedVarNumber: the first octet (>= 253) has been
\* consumed; read the 2, 4 or 8 octets it announces.
ReadExtendedVarNumber(in, off, firstOctet) ==
  LET k == ExtendedWidth[firstOctet]
  IN  IF off + k > Len(in) THEN Err(off, "read_past_the_end_of_the_input")
      ELSE Ok(off + k, BigEndian(SubSeq(in, off + 1, off + k)))

\* ndn_TlvDecoder_readVarNumber (tlv-decoder.h): an octet below 253 is the
\* number itself; otherwise it is consumed and the extended form follows.
ReadVarNumber(in, off) ==
  IF off >= Len(in) THEN Err(off, "read_past_the_end_of_the_input")
  ELSE IF in[off + 1] < Base - 3 THEN Ok(off + 1, in[off + 1])
  ELSE ReadExtendedVarNumber(in, off + 1, in[off + 1])

\* ndn_TlvDecoder_readTypeAndLength: the type must be the expected one; the
\* length is cast to size_t, and offset + length, computed in size_t, must
\* not pass the end of the input.
ReadTypeAndLength(in, off, expectedType) ==
  LET type   == ReadVarNumber(in, off)
      len    == ReadVarNumber(in, type.offset)
      length == len.val % SizeMod
  IN  IF ~Success(type) THEN type
      ELSE IF type.val # expectedType
           THEN Err(type.offset, "did_not_get_the_expected_TLV_type")
      ELSE IF ~Success(len) THEN len
      ELSE IF (len.offset + length) % SizeMod > Len(in)
           THEN Err(len.offset, "TLV_length_exceeds_buffer_length")
      ELSE Ok(len.offset, length)

\* ndn_TlvDecoder_readExtendedNonNegativeInteger: a big-endian integer of
\* 2, 4 or 8 octets; any other length is an error.
ReadExtendedNonNegativeInteger(in, off, length) ==
  IF length \notin {2, 4, 8}
  THEN Err(off, "Invalid_length_for_nonNegativeInteger")
  ELSE IF off + length > Len(in) THEN Err(off, "read_past_the_end_of_the_input")
  ELSE Ok(off + length, BigEndian(SubSeq(in, off + 1, off + length)))

=============================================================================
