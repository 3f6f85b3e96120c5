----------------------------- MODULE TlvInterest -----------------------------
(***************************************************************************)
(* The NDN-TLV Interest codec (src/src/c/encoding/tlv/tlv-interest.c).     *)
(*                                                                         *)
(* A TLV element is a record [t, v, kids]: its type, the value of a leaf   *)
(* (a number, a name, a digest, the octets of a nonce) and the elements    *)
(* nested in it.  Octet framing is the business of the TLV decoder         *)
(* (module TlvDecoder); this module keeps which elements are written, in   *)
(* which order and with which value, which is what the codec decides.     *)
(*                                                                         *)
(* An ndn_Interest is a record with the struct's fields.  Names, key names *)
(* and digests are opaque strings; the codecs of Name and KeyLocator and   *)
(* the encoder/decoder helpers of tlv-encoder.h and tlv-decoder.h are not  *)
(* in the tree and are modelled from how tlv-interest.c uses them.        *)
(* interestLifetimeMilliseconds is a double, kept in half milliseconds.   *)
(***************************************************************************)
EXTENDS Integers, Sequences, Bitwise

CONSTANTS
  AnswerStale,  \* the ndn_Interest_ANSWER_STALE bit of answerOriginKind
  MaxEntries    \* exclude->maxEntries: the capacity of the caller's array

ASSUME AnswerStale \in Nat \ {0} /\ MaxEntries \in Nat

NoDigest == ""                               \* a blob of length 0
NoKeyLocator == [type |-> "none", data |-> NoDigest]

Leaf(t, x)  == [t |-> t, v |-> x, kids |-> <<>>]
Nest(t, ks) == [t |-> t, v |-> 0, kids |-> ks]

Ok(x)  == [err |-> "success", val |-> x]
Err(e) == [err |-> e, val |-> <<>>]

-----------------------------------------------------------------------------
(* Encoder helpers (tlv-encoder.h). *)

\* writeOptionalNonNegativeIntegerTlv: a negative value is omitted.
WriteOptionalNonNegativeIntegerTlv(t, x) == IF x >= 0 THEN <<Leaf(t, x)>> ELSE <<>>

\* writeOptionalNonNegativeIntegerTlvFromDouble: omitted when negative, else
\* round(value); the value is given in half milliseconds.
WriteOptionalNonNegativeIntegerTlvFromDouble(t, halves) ==
  IF halves >= 0 THEN <<Leaf(t, (halves + 1) \div 2)>> ELSE <<>>

\* writeNestedTlv: with omitZeroLength, an empty value writes nothing.
WriteNestedTlv(t, ks, omitZeroLength) ==
  IF omitZeroLength /\ Len(ks) = 0 THEN <<>> ELSE <<Nest(t, ks)>>

\* ndn_encodeTlvKeyLocatorValue (tlv-key-locator.c): a key name or a digest;
\* nothing when the key locator type is unset.
EncodeTlvKeyLocatorValue(kl) ==
  CASE kl.type = "KEYNAME" -> <<Leaf("Name", kl.data)>>
    [] kl.type = "DIGEST"  -> <<Leaf("KeyLocatorDigest", kl.data)>>
    [] OTHER               -> <<>>

-----------------------------------------------------------------------------
(* Encoder (tlv-interest.c 19-177). *)

\* encodeExcludeValue: each entry in order, a component or an ANY.
EncodeExcludeValue(ex) ==
  [k \in 1..Len(ex) |-> IF ex[k].type = "COMPONENT" THEN Leaf("NameComponent", ex[k].comp)
                        ELSE Leaf("Any", 0)]

EncodeKeyLocatorPublisherPublicKeyDigestValue(i) == <<Leaf("KeyLocatorDigest", i.ppkd)>>

\* answerOriginKind 0 is MustBeFresh; a negative value or one with the
\* ANSWER_STALE bit is the default; any other value cannot be encoded.
SupportedAnswerOriginKind(a) == a = 0 \/ a < 0 \/ (a & AnswerStale) # 0

\* A mutant of EncodeSelectorsValue: the publisherPublicKeyDigest is
\* written whether or not a key locator was.
EncodeSelectorsValueAlwaysDigest(i) ==
  LET keyLocator == WriteNestedTlv("KeyLocator", EncodeTlvKeyLocatorValue(i.keyLocator), TRUE)
      digest == IF i.ppkd # NoDigest
                THEN WriteNestedTlv("KeyLocator", EncodeKeyLocatorPublisherPublicKeyDigestValue(i), FALSE)
                ELSE <<>>
      exclude == IF Len(i.exclude) > 0
                 THEN WriteNestedTlv("Exclude", EncodeExcludeValue(i.exclude), FALSE) ELSE <<>>
      fresh == IF i.answerOriginKind = 0 THEN <<Leaf("MustBeFresh", 0)>> ELSE <<>>
  IN  IF ~SupportedAnswerOriginKind(i.answerOriginKind)
      THEN Err("Unsupported_answerOriginKind_bits_for_encoding_TLV_MustBeFresh")
      ELSE Ok(WriteOptionalNonNegativeIntegerTlv("MinSuffixComponents", i.minSuffixComponents)
              \o WriteOptionalNonNegativeIntegerTlv("MaxSuffixComponents", i.maxSuffixComponents)
              \o keyLocator \o digest \o exclude
              \o WriteOptionalNonNegativeIntegerTlv("ChildSelector", i.childSelector) \o fresh)

\* encodeSelectorsValue: the key locator is written with omitZeroLength, and
\* only when it wrote nothing is the publisherPublicKeyDigest written as a
\* KeyLocatorDigest; the Exclude only when it has entries.
EncodeSelectorsValue(i) ==
  LET keyLocator == WriteNestedTlv("KeyLocator", EncodeTlvKeyLocatorValue(i.keyLocator), TRUE)
      digest == IF Len(keyLocator) = 0 /\ i.ppkd # NoDigest
                THEN WriteNestedTlv("KeyLocator", EncodeKeyLocatorPublisherPublicKeyDigestValue(i), FALSE)
                ELSE keyLocator
      exclude == IF Len(i.exclude) > 0
                 THEN WriteNestedTlv("Exclude", EncodeExcludeValue(i.exclude), FALSE) ELSE <<>>
      fresh == IF i.answerOriginKind = 0 THEN <<Leaf("MustBeFresh", 0)>> ELSE <<>>
  IN  IF ~SupportedAnswerOriginKind(i.answerOriginKind)
      THEN Err("Unsupported_answerOriginKind_bits_for_encoding_TLV_MustBeFresh")
      ELSE Ok(WriteOptionalNonNegativeIntegerTlv("MinSuffixComponents", i.minSuffixComponents)
              \o WriteOptionalNonNegativeIntegerTlv("MaxSuffixComponents", i.maxSuffixComponents)
              \o digest \o exclude
              \o WriteOptionalNonNegativeIntegerTlv("ChildSelector", i.childSelector) \o fresh)

\* The 4 nonce octets: the nonce truncated to 4, or padded with the random
\* octets rnd (all 4 of them when the nonce is empty).
NonceBlob(nonce, rnd) ==
  IF Len(nonce) >= 4 THEN SubSeq(nonce, 1, 4) ELSE nonce \o SubSeq(rnd, 1, 4 - Len(nonce))

\* encodeInterestValue: Name, Selectors (omitted when empty), Nonce, Scope,
\* InterestLifetime; rnd is what ndn_generateRandomBytes returns.
EncodeInterestValue(i, rnd) ==
  LET sel == EncodeSelectorsValue(i)
  IN  IF sel.err # "success" THEN sel
      ELSE Ok(<<Leaf("Name", i.name)>>
              \o WriteNestedTlv("Selectors", sel.val, TRUE)
              \o <<Leaf("Nonce", NonceBlob(i.nonce, rnd))>>
              \o WriteOptionalNonNegativeIntegerTlv("Scope", i.scope)
              \o WriteOptionalNonNegativeIntegerTlvFromDouble("InterestLifetime", i.lifetime))

EncodeTlvInterest(i, rnd) ==
  LET value == EncodeInterestValue(i, rnd)
  IN  IF value.err # "success" THEN value ELSE Ok(Nest("Interest", value.val))

-----------------------------------------------------------------------------
(* Decoder helpers (tlv-decoder.h).  ks is the sequence of elements nested *)
(* in the element being decoded and pos the number of them consumed.      *)

\* peekType: the next element, if any before the end, has type t.
PeekType(ks, pos, t) == pos < Len(ks) /\ ks[pos + 1].t = t

\* readOptionalNonNegativeIntegerTlv: the value, or -1 when absent.
ReadOptionalNonNegativeIntegerTlv(ks, pos, t) ==
  IF PeekType(ks, pos, t) THEN [val |-> ks[pos + 1].v, pos |-> pos + 1]
  ELSE [val |-> -1, pos |-> pos]

\* readOptionalNonNegativeIntegerTlvAsDouble, in half milliseconds (-1.0
\* when absent).
ReadOptionalNonNegativeIntegerTlvAsDouble(ks, pos, t) ==
  IF PeekType(ks, pos, t) THEN [val |-> 2 * ks[pos + 1].v, pos |-> pos + 1]
  ELSE [val |-> -2, pos |-> pos]

\* readBooleanTlv: consume the element when it is there.
ReadBooleanTlv(ks, pos, t) ==
  IF PeekType(ks, pos, t) THEN [val |-> TRUE, pos |-> pos + 1]
  ELSE [val |-> FALSE, pos |-> pos]

\* readBlobTlv, readNestedTlvsStart (and ndn_decodeTlvName): a required
\* element of type t.
ReadRequired(ks, pos, t) ==
  IF pos >= Len(ks) THEN "read_past_the_end_of_the_input"
  ELSE IF ks[pos + 1].t # t THEN "did_not_get_the_expected_TLV_type"
  ELSE "success"

\* finishNestedTlvs: every nested element has been read.
FinishNestedTlvs(ks, pos) ==
  IF pos = Len(ks) THEN "success"
  ELSE "TLV_length_does_not_equal_total_length_of_nested_TLVs"

\* ndn_decodeTlvKeyLocator (tlv-key-locator.c) of the KeyLocator element.
DecodeTlvKeyLocator(el) ==
  IF el.kids[1].t = "Name" THEN [type |-> "KEYNAME", data |-> el.kids[1].v]
  ELSE [type |-> "DIGEST", data |-> el.kids[1].v]

-----------------------------------------------------------------------------
(* Decoder (tlv-interest.c 179-331).  Each decoder writes into the struct  *)
(* i it is given and returns it, or an error.                             *)

\* The loop of decodeExclude: components and ANYs until neither comes
\* next; an entry past exclude->maxEntries is an error.
RECURSIVE DecodeExcludeEntries(_, _, _)
DecodeExcludeEntries(ks, pos, acc) ==
  IF PeekType(ks, pos, "NameComponent") \/ PeekType(ks, pos, "Any")
  THEN IF Len(acc) >= MaxEntries
       THEN [err |-> "read_an_entry_past_the_maximum_number_of_entries_allowed_in_the_exclude",
             pos |-> pos, entries |-> acc]
       ELSE DecodeExcludeEntries(ks, pos + 1,
              Append(acc, IF ks[pos + 1].t = "NameComponent"
                          THEN [type |-> "COMPONENT", comp |-> ks[pos + 1].v]
                          ELSE [type |-> "ANY", comp |-> NoDigest]))
  ELSE [err |-> "success", pos |-> pos, entries |-> acc]

DecodeExclude(el) ==
  LET r == DecodeExcludeEntries(el.kids, 0, <<>>)
  IN  IF r.err # "success" THEN Err(r.err)
      ELSE IF FinishNestedTlvs(el.kids, r.pos) # "success" THEN Err(FinishNestedTlvs(el.kids, r.pos))
      ELSE Ok(r.entries)

\* decodeSelectors: each selector in its order; a KeyLocatorDigest also
\* sets the publisherPublicKeyDigest, and an absent key locator is cleared.
DecodeSelectors(i, el) ==
  LET ks    == el.kids
      min   == ReadOptionalNonNegativeIntegerTlv(ks, 0, "MinSuffixComponents")
      max   == ReadOptionalNonNegativeIntegerTlv(ks, min.pos, "MaxSuffixComponents")
      hasKl == PeekType(ks, max.pos, "KeyLocator")
      kl    == IF hasKl THEN DecodeTlvKeyLocator(ks[max.pos + 1]) ELSE NoKeyLocator
      p1    == IF hasKl THEN max.pos + 1 ELSE max.pos
      hasEx == PeekType(ks, p1, "Exclude")
      ex    == IF hasEx THEN DecodeExclude(ks[p1 + 1]) ELSE Ok(<<>>)
      p2    == IF hasEx THEN p1 + 1 ELSE p1
      child == ReadOptionalNonNegativeIntegerTlv(ks, p2, "ChildSelector")
      fresh == ReadBooleanTlv(ks, child.pos, "MustBeFresh")
  IN  IF ex.err # "success" THEN ex
      ELSE IF FinishNestedTlvs(ks, fresh.pos) # "success" THEN Err(FinishNestedTlvs(ks, fresh.pos))
      ELSE Ok([i EXCEPT !.minSuffixComponents = min.val,
                        !.maxSuffixComponents = max.val,
                        !.keyLocator = kl,
                        !.ppkd = IF kl.type = "DIGEST" THEN kl.data ELSE NoDigest,
                        !.exclude = ex.val,
                        !.childSelector = child.val,
                        !.answerOriginKind = IF fresh.val THEN 0 ELSE -1])

\* The selectors when the Interest has none (tlv-interest.c 307-313).
NoSelectors(i) ==
  [i EXCEPT !.minSuffixComponents = -1, !.maxSuffixComponents = -1,
            !.ppkd = NoDigest, !.exclude = <<>>, !.childSelector = -1,
            !.answerOriginKind = -1]

\* ndn_decodeTlvInterest: Name, optional Selectors, a required Nonce (of any
\* length), optional Scope and InterestLifetime, and nothing after them.
DecodeTlvInterest(i, el) ==
  LET ks     == el.kids
      named  == [i EXCEPT !.name = ks[1].v]
      hasSel == PeekType(ks, 1, "Selectors")
      sel    == IF hasSel THEN DecodeSelectors(named, ks[2]) ELSE Ok(NoSelectors(named))
      p      == IF hasSel THEN 2 ELSE 1
      scope  == ReadOptionalNonNegativeIntegerTlv(ks, p + 1, "Scope")
      life   == ReadOptionalNonNegativeIntegerTlvAsDouble(ks, scope.pos, "InterestLifetime")
  IN  IF el.t # "Interest" THEN Err("did_not_get_the_expected_TLV_type")
      ELSE IF ReadRequired(ks, 0, "Name") # "success" THEN Err(ReadRequired(ks, 0, "Name"))
      ELSE IF sel.err # "success" THEN sel
      ELSE IF ReadRequired(ks, p, "Nonce") # "success" THEN Err(ReadRequired(ks, p, "Nonce"))
      ELSE IF FinishNestedTlvs(ks, life.pos) # "success" THEN Err(FinishNestedTlvs(ks, life.pos))
      ELSE Ok([sel.val EXCEPT !.nonce = ks[p + 1].v, !.scope = scope.val,
                              !.lifetime = life.val])

=============================================================================
