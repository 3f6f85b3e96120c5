---------------------------- MODULE MC_TlvDecoder ----------------------------
(***************************************************************************)
(* A caller of the TLV decoder, run over inputs built by a reference       *)
(* encoder of the NDN TLV format.  An input is a type, a length and an     *)
(* integer value, each encoded at one of the widths the format allows      *)
(* (non-minimal var-numbers included), cut off after any octet.  The       *)
(* caller starts at offset 0 and makes any sequence of reads until one     *)
(* fails, as the tlv-decoder.h helpers and the packet decoders do.        *)
(***************************************************************************)
EXTENDS TlvDecoder

\* ---- reference encoder (NDN packet format, TLV var-number) ----

\* The k octets of v, most significant first.
BytesOf(v, k) == [i \in 1..k |-> (v \div Base ^ (k - i)) % Base]

\* The marker octet that introduces a var-number of w octets in all.
Marker(w) == CASE w = 3 -> Base - 3 [] w = 5 -> Base - 2 [] w = 9 -> Base - 1

VarNum(v, w)  == [kind |-> "varnum", val |-> v, width |-> w]
UInt(v, w)    == [kind |-> "uint", val |-> v, width |-> w]

Encoding(tk) ==
  IF tk.kind = "uint" THEN BytesOf(tk.val, tk.width)
  ELSE IF tk.width = 1 THEN <<tk.val>>
  ELSE <<Marker(tk.width)>> \o BytesOf(tk.val, tk.width - 1)

\* ---- the inputs ----

ExpectedTypes == {1, 2}
TypeTokens   == {VarNum(1, 1), VarNum(1, 3)}
\* honest lengths (2, minimal and not), and lengths that need 2, 4 and 8
\* octets, the last close enough to 2^64 that offset + length wraps
LengthTokens == {VarNum(2, 1), VarNum(2, 3), VarNum(Base ^ 2 - 1, 3),
                 VarNum(Base ^ 4 - 1, 5), VarNum(Base ^ 8 - 8, 9)}
ValueTokens  == {UInt(1, 2), UInt(Base ^ 4 - 1, 4), UInt(Base ^ 8 - 1, 8)}
IntLengths   == {2, 3, 4, 8}

VARIABLES
  toks,    \* <<type, length, value>> tokens the input encodes
  cut,     \* the input is the first cut octets of their encoding
  offset,  \* the decoder's offset
  last     \* the caller's last call: [op, arg, res]

mvars == <<toks, cut, offset, last>>

Full  == FlattenSeq([i \in 1..3 |-> Encoding(toks[i])])
input == SubSeq(Full, 1, cut)

Start(i) == Len(FlattenSeq([j \in 1..(i - 1) |-> Encoding(toks[j])]))
End(i)   == Start(i) + Len(Encoding(toks[i]))

MInit ==
  /\ toks \in {<<t, l, v>> : t \in TypeTokens, l \in LengthTokens, v \in ValueTokens}
  /\ cut \in 1..Len(Full)
  /\ offset = 0
  /\ last = [op |-> "none", arg |-> 0, res |-> Ok(0, 0)]

Call(op, arg, res) ==
  /\ Success(last.res)
  /\ last' = [op |-> op, arg |-> arg, res |-> res]
  /\ offset' = res.offset
  /\ UNCHANGED <<toks, cut>>

CallReadVarNumber == Call("readVarNumber", 0, ReadVarNumber(input, offset))

CallReadTypeAndLength(t) ==
  Call("readTypeAndLength", t, ReadTypeAndLength(input, offset, t))

CallReadNonNegativeInteger(n) ==
  Call("readNonNegativeInteger", n, ReadExtendedNonNegativeInteger(input, offset, n))

MNext ==
  \/ CallReadVarNumber
  \/ \E t \in ExpectedTypes : CallReadTypeAndLength(t)
  \/ \E n \in IntLengths : CallReadNonNegativeInteger(n)

MSpec == MInit /\ [][MNext]_mvars

MTypeOK ==
  /\ cut \in 1..20
  /\ offset \in 0..cut
  /\ last.res.err \in {"success", "read_past_the_end_of_the_input",
                       "did_not_get_the_expected_TLV_type",
                       "TLV_length_exceeds_buffer_length",
                       "Invalid_length_for_nonNegativeInteger"}

\* A read that starts where the encoder put a var-number (or an integer of
\* the length asked for) returns the encoded number and stops where the
\* encoder stopped, at every width, and fails with read_past_the_end exactly
\* when the input was cut inside it.  A readTypeAndLength that succeeds
\* returns the encoded length and leaves the offset at the value.  This is
\* the contract of readExtendedVarNumber's width table, its bound checks and
\* readExtendedNonNegativeInteger's switch.
DecodesEncoding ==
  [][\A i \in 1..3 :
       offset = Start(i) =>
         LET r == last'.res
             asEncoded == IF End(i) <= cut THEN r = Ok(End(i), toks[i].val)
                          ELSE r.err = "read_past_the_end_of_the_input"
         IN  /\ (last'.op = "readVarNumber" /\ toks[i].kind = "varnum") => asEncoded
             /\ (last'.op = "readNonNegativeInteger" /\ toks[i].kind = "uint"
                 /\ last'.arg = toks[i].width) => asEncoded
             /\ (last'.op = "readTypeAndLength" /\ i = 1 /\ Success(r))
                   => r = Ok(End(2), toks[2].val)]_mvars

\* The length readTypeAndLength accepts lies inside the input: the value it
\* announces can be read without passing the end (the check at
\* tlv-decoder.c:64 and the error TLV_length_exceeds_buffer_length).
LengthWithinInput ==
  [][(last'.op = "readTypeAndLength" /\ Success(last'.res))
       => last'.res.offset + last'.res.val <= Len(input)]_mvars

=============================================================================
