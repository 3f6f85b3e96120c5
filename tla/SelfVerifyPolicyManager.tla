----------------------- MODULE SelfVerifyPolicyManager -----------------------
(***************************************************************************)
(* SelfVerifyPolicyManager (src/src/security/policy/                       *)
(* self-verify-policy-manager.cpp) verifying the Data packets that the     *)
(* IdentityManager signs, and Data that an attacker, Eve, signs with her   *)
(* own key and names any key locator for.  Eve cannot change what someone  *)
(* else signed without signing it again, since the key locator is in the   *)
(* signed portion.                                                         *)
(*                                                                         *)
(* checkVerificationPolicy reports through the onVerified and              *)
(* onVerifyFailed callbacks, or throws; verdict records the callbacks      *)
(* made, in order, and whether it threw.                                   *)
(***************************************************************************)
EXTENDS IdentityManager

CONSTANTS
  HasIdentityStorage  \* the constructor was given an IdentityStorage

EveKey     == <<Comp("eve"), KeyIdComp(TRUE, 0)>>
\* The key locator name of a certificate of Eve's key.
EveLocator == <<Comp("eve"), KEY, KeyIdComp(TRUE, 0), IDCERT>>

VARIABLES
  verdict   \* the result of checking data, or Unchecked

vars == <<imvars, verdict>>

Unchecked == [checked |-> FALSE, calls |-> <<>>, threw |-> FALSE]
Outcome(calls, threw) == [checked |-> TRUE, calls |-> calls, threw |-> threw]

-----------------------------------------------------------------------------

\* Mutant: RSA_verify's result is not looked at.
VerifySha256WithRsaSignatureNoCheck(d, der, before) ==
  IF der = <<>> THEN Outcome(before, TRUE) ELSE Outcome(Append(before, "verified"), FALSE)

\* verifySha256WithRsaSignature with the public key DER given as the name
\* of the key it encodes, <<>> for a blob d2i_RSA_PUBKEY cannot decode
\* (UnrecognizedKeyFormatException).  RSA_verify succeeds exactly when the
\* key's private half made the signature.  The callbacks made so far are
\* `before`.
VerifySha256WithRsaSignature(d, der, before) ==
  IF der = <<>> THEN Outcome(before, TRUE)
  ELSE Outcome(Append(before, IF d.signedBy = der THEN "verified" ELSE "failed"), FALSE)

\* IdentityStorage::getKey: the key's DER, or a null Blob.
GetKey(k) == IF k \in keys THEN k ELSE <<>>

\* checkVerificationPolicy: a KEY locator is verified with the DER it
\* carries; a KEYNAME locator, given a storage, with the key its
\* certificate name gives (certificateNameToPublicKeyName throws for a name
\* without ID-CERT or KEY); a key that is not found calls onVerifyFailed
\* and still goes on to verify with the null Blob.
CheckVerificationPolicyResult(d) ==
  LET kn == CertificateNameToPublicKeyName(d.klName)
  IN  CASE d.sig # "Sha256WithRsa"                     -> Outcome(<<>>, TRUE)
        [] d.klType = "KEY"                            -> VerifySha256WithRsaSignature(d, d.klKey, <<>>)
        [] d.klType = "KEYNAME" /\ HasIdentityStorage /\ kn = <<>> -> Outcome(<<>>, TRUE)
        [] d.klType = "KEYNAME" /\ HasIdentityStorage  ->
             VerifySha256WithRsaSignature(d, GetKey(kn),
                                          IF GetKey(kn) = <<>> THEN <<"failed">> ELSE <<>>)
        [] OTHER                                       -> Outcome(<<"failed">>, FALSE)

\* A Data packet, signed or forged, is checked once.
CheckVerificationPolicy ==
  /\ data # NoData /\ ~verdict.checked
  /\ verdict' = CheckVerificationPolicyResult(data)
  /\ UNCHANGED imvars

-----------------------------------------------------------------------------
(* Eve *)

\* Key locator names Eve can put in a KEYNAME locator: those of installed
\* certificates, her own, and ones certificateNameToPublicKeyName refuses.
ForgedLocatorNames ==
  {Prefix(c) : c \in DOMAIN certs} \cup {EveLocator}
    \cup {Prefix(Prefix(c)) : c \in DOMAIN certs}

ForgedData ==
  [sig : {"Sha256WithRsa"}, klType : {"KEY"}, klName : {<<>>},
   klKey : keys \cup {EveKey, <<>>}, signedBy : {EveKey}]
  \cup [sig : {"Sha256WithRsa"}, klType : {"KEYNAME"}, klName : ForgedLocatorNames,
        klKey : {<<>>}, signedBy : {EveKey}]
  \cup [sig : {"Sha256WithRsa", "DigestSha256"}, klType : {"none"}, klName : {<<>>},
        klKey : {<<>>}, signedBy : {EveKey}]

Forge ==
  /\ \E d \in ForgedData : data' = d
  /\ verdict' = Unchecked
  /\ UNCHANGED <<identities, keys, privKeys, defaultKey, certs, defaultCert, now, outcome>>

-----------------------------------------------------------------------------

\* A certificate prefix a caller passes: KEY before the key id, or a key
\* name, which has no KEY component.
CertificatePrefixes == {Prefix(k) \o <<KEY, k[Len(k)]>> : k \in keys} \cup keys

\* A certificate a caller holds: an installed one, or one for Eve's key
\* (createIdentityCertificate's second overload makes certificates for
\* keys the storage does not hold).
SigningCertificates == DOMAIN certs \cup {Append(EveLocator, Comp("0"))}

IdentityStep ==
  \/ \E id \in Identities : CreateIdentity(id)
  \/ \E id \in Identities, isKsk \in BOOLEAN :
       GenerateRSAKeyPair(id, isKsk) \/ GenerateRSAKeyPairAsDefault(id, isKsk)
  \/ \E p \in CertificatePrefixes, signer \in DOMAIN certs : CreateIdentityCertificate(p, signer)
  \/ \E c \in SigningCertificates : SetDefaultCertificateForKey(c)
  \/ \E k \in keys : AddCertificateAsDefault(k) \/ AddCertificateAsIdentityDefault(k)
  \/ \E c \in SigningCertificates : SignByCertificate(c)
  \/ Tick

\* A new Data packet has not been checked yet.
Init ==
  /\ IMInit
  /\ verdict = Unchecked

Next ==
  \/ IdentityStep /\ verdict' = IF data' = data THEN verdict ELSE Unchecked
  \/ Forge
  \/ CheckVerificationPolicy

Spec == Init /\ [][Next]_vars

-----------------------------------------------------------------------------
(* Properties *)

\* The key a Data packet's key locator names: the DER of a KEY locator, the
\* stored key of a KEYNAME locator's certificate name.
LocatorKey(d) ==
  IF d.klType = "KEY" THEN d.klKey ELSE GetKey(CertificateNameToPublicKeyName(d.klName))

\* checkVerificationPolicy calls onVerified only for Data signed by the
\* private half of the key its locator names, and for a KEYNAME locator
\* only by a key the identity storage holds: Eve cannot have her Data
\* accepted under a name of a stored key.
VerifiedIsAuthentic ==
  "verified" \in Range(verdict.calls) =>
    /\ data.signedBy = LocatorKey(data)
    /\ data.klType = "KEYNAME" => data.signedBy \in keys

\* Data that signByCertificate signs with any installed certificate
\* verifies: the key locator it writes (the certificate name without its
\* version) leads checkVerificationPolicy back, through
\* certificateNameToPublicKeyName and getKey, to the signing key, so the
\* check calls onVerified once and nothing else.
OwnSignaturesVerify ==
  verdict.checked /\ data.signedBy # EveKey =>
    verdict = Outcome(<<"verified">>, FALSE)

\* The header of checkVerificationPolicy: "If the signature check fails or
\* can't find the public key, this calls onVerifyFailed(data)"; it throws
\* only for a signature that is not a Sha256WithRsaSignature.  So Data with
\* one is reported exactly once, through one of the two callbacks, and the
\* check does not throw, whatever key locator the sender wrote.
ReportedThroughOneCallback ==
  verdict.checked /\ data.sig = "Sha256WithRsa" =>
    Len(verdict.calls) = 1 /\ ~verdict.threw

=============================================================================
