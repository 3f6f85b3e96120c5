---------------------------- MODULE MC_TlvInterest ----------------------------
(***************************************************************************)
(* A caller of the Interest codec: it encodes an Interest it holds, then   *)
(* decodes the encoding into a freshly initialized struct, as the C++      *)
(* wire format does with a new struct for every decode.  The Interests    *)
(* range over every combination of the fields' interesting values.        *)
(***************************************************************************)
EXTENDS TlvInterest

\* ---- the inputs ----

Names       == {"n1"}
SuffixVals  == {-1, 1}                     \* -1: unset
KeyLocators == {NoKeyLocator, [type |-> "KEYNAME", data |-> "k1"],
                [type |-> "DIGEST", data |-> "d1"]}
Digests     == {NoDigest, "d2"}
ExcludeEntries == {[type |-> "ANY", comp |-> NoDigest], [type |-> "COMPONENT", comp |-> "c1"]}
Excludes    == {<<>>} \cup {<<e>> : e \in ExcludeEntries}
                      \cup {<<e, f>> : e, f \in ExcludeEntries}
ChildVals   == {-1, 0}
\* the default, MustBeFresh, the ANSWER_STALE bit, and a bit TLV cannot say
AnswerOriginKinds == {-1, 0, AnswerStale, 1}
Nonces      == {<<>>, <<2, 2>>, <<2, 2, 2, 2, 2>>}
ScopeVals   == {-1, 0}
Lifetimes   == {-2, 0, 3}                  \* half ms: unset, 0 ms, 1.5 ms
RandomOctets == {<<0, 0, 0, 0>>, <<1, 1, 1, 1>>}

Interests ==
  [name : Names, minSuffixComponents : SuffixVals, maxSuffixComponents : SuffixVals,
   keyLocator : KeyLocators, ppkd : Digests, exclude : Excludes,
   childSelector : ChildVals, answerOriginKind : AnswerOriginKinds,
   nonce : Nonces, scope : ScopeVals, lifetime : Lifetimes]

\* ndn_Interest_initialize: every field unset.
Initialized ==
  [name |-> "", minSuffixComponents |-> -1, maxSuffixComponents |-> -1,
   keyLocator |-> NoKeyLocator, ppkd |-> NoDigest, exclude |-> <<>>,
   childSelector |-> -1, answerOriginKind |-> -1, nonce |-> <<>>,
   scope |-> -1, lifetime |-> -2]

None == [err |-> "none", val |-> <<>>]

VARIABLES
  interest,  \* the Interest the caller encodes
  wire,      \* the result of ndn_encodeTlvInterest
  target,    \* the struct the caller decodes into
  decoded    \* the result of ndn_decodeTlvInterest

mvars == <<interest, wire, target, decoded>>

MInit ==
  /\ interest \in Interests
  /\ wire = None
  /\ target = Initialized
  /\ decoded = None

Encode ==
  /\ wire = None
  /\ \E rnd \in RandomOctets : wire' = EncodeTlvInterest(interest, rnd)
  /\ UNCHANGED <<interest, target, decoded>>

Decode ==
  /\ wire.err = "success" /\ decoded = None
  /\ decoded' = DecodeTlvInterest(target, wire.val)
  /\ UNCHANGED <<interest, wire, target>>

MNext == Encode \/ Decode

MSpec == MInit /\ [][MNext]_mvars

-----------------------------------------------------------------------------

\* What the codec's comments promise of a decoded encoding: every field comes
\* back, except that a publisherPublicKeyDigest without a key locator comes
\* back as a KeyLocatorDigest (and a key locator digest also sets it),
\* MustBeFresh is what survives of answerOriginKind, the nonce is 4 octets
\* beginning with the given ones, and the lifetime is rounded to whole ms.
AsEncoded(d, i) ==
  LET kl == IF i.keyLocator.type # "none" THEN i.keyLocator
            ELSE IF i.ppkd # NoDigest THEN [type |-> "DIGEST", data |-> i.ppkd]
            ELSE NoKeyLocator
      m  == IF Len(i.nonce) < 4 THEN Len(i.nonce) ELSE 4
  IN  /\ d.name = i.name
      /\ d.minSuffixComponents = i.minSuffixComponents
      /\ d.maxSuffixComponents = i.maxSuffixComponents
      /\ d.keyLocator = kl
      /\ d.ppkd = IF kl.type = "DIGEST" THEN kl.data ELSE NoDigest
      /\ d.exclude = i.exclude
      /\ d.childSelector = i.childSelector
      /\ d.answerOriginKind \in {0, -1}
      /\ (d.answerOriginKind = 0) = (i.answerOriginKind = 0)
      /\ Len(d.nonce) = 4 /\ SubSeq(d.nonce, 1, m) = SubSeq(i.nonce, 1, m)
      /\ d.scope = i.scope
      /\ (i.lifetime < 0) = (d.lifetime < 0)
      /\ i.lifetime >= 0 => d.lifetime % 2 = 0 /\ d.lifetime - i.lifetime \in {-1, 0, 1}

\* The encoder refuses only answerOriginKind bits TLV cannot carry; the
\* decoder reads back every encoding whose Exclude fits the caller's array,
\* refuses the others, and gives back AsEncoded of the Interest.  This is
\* the contract between encodeSelectorsValue's choice of what to omit and
\* decodeSelectors' reading of optional elements in order.
RoundTrip ==
  /\ wire # None =>
       ((wire.err = "success") <=> SupportedAnswerOriginKind(interest.answerOriginKind))
  /\ decoded # None =>
       /\ (decoded.err = "success") <=> Len(interest.exclude) <= MaxEntries
       /\ decoded.err = "success" => AsEncoded(decoded.val, interest)

=============================================================================
