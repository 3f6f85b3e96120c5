--------------------------- MODULE IdentityManager ---------------------------
(***************************************************************************)
(* IdentityManager (src/src/security/identity/identity-manager.cpp) over   *)
(* the identity storage and private key storage it is given.  Neither      *)
(* storage is in the tree; they are modelled by the contract the manager   *)
(* relies on: sets of identities, public keys and certificates with a      *)
(* default key per identity and a default certificate per key, and a       *)
(* private key store that signs with a key it holds and throws otherwise.  *)
(*                                                                         *)
(* A name is a sequence of components; a component is [s, n], its text and *)
(* a number (the time stamp of "ksk-<ms>", the seconds of a certificate    *)
(* version).  A public key is named by its key name.  A Data packet's      *)
(* signature is recorded as the key name whose private key made it.       *)
(***************************************************************************)
EXTENDS Naturals, Sequences, FiniteSets, FiniteSetsExt, Functions, TLC

CONSTANTS
  Identities,   \* identity names the host program uses
  MaxTime,      \* the last millisecond the clock reaches
  MsPerSecond,  \* milliseconds per second (scaled down)
  MaxKeys       \* bound: the number of key pairs the storages hold

ASSUME MaxTime \in Nat /\ MsPerSecond \in Nat \ {0}

Comp(s) == [s |-> s, n |-> 0]
KEY     == Comp("KEY")
IDCERT  == Comp("ID-CERT")

\* The key id component "ksk-<ms>" or "dsk-<ms>".
KeyIdComp(isKsk, t) == [s |-> IF isKsk THEN "ksk" ELSE "dsk", n |-> t]

Prefix(nm) == SubSeq(nm, 1, Len(nm) - 1)     \* Name::getPrefix(-1)

VARIABLES
  identities,   \* identity storage: identities
  keys,         \* identity storage: public key records (by key name)
  privKeys,     \* private key storage: key names it holds a private key of
  defaultKey,   \* identity -> its default key name
  certs,        \* certificate name -> the key name it certifies
  defaultCert,  \* key name -> its default certificate name
  now,          \* ndn_getNowMilliseconds
  data,         \* the last Data packet signed (or forged, see the policy)
  outcome       \* "ok", or "threw" when the last call threw

imvars == <<identities, keys, privKeys, defaultKey, certs, defaultCert, now, data, outcome>>

NoData == [sig |-> "none", klType |-> "none", klName |-> <<>>, klKey |-> <<>>, signedBy |-> <<>>]

\* A call that throws before it changes the storage.
Threw ==
  /\ outcome' = "threw"
  /\ UNCHANGED <<identities, keys, privKeys, defaultKey, certs, defaultCert, now, data>>

IMInit ==
  /\ identities = {} /\ keys = {} /\ privKeys = {}
  /\ defaultKey = <<>> /\ certs = <<>> /\ defaultCert = <<>>
  /\ now = 0 /\ data = NoData /\ outcome = "ok"

-----------------------------------------------------------------------------
(* Name conventions *)

\* The first index of a KEY component, 0 when there is none.
FirstKey(nm) == IF \E i \in 1..Len(nm) : nm[i] = KEY
                THEN Min({i \in 1..Len(nm) : nm[i] = KEY}) ELSE 0

\* getKeyNameFromCertificatePrefix: the prefix without its first KEY
\* component; <<>> stands for the SecurityException when it has none.
GetKeyNameFromCertificatePrefix(p) ==
  IF FirstKey(p) = 0 THEN <<>>
  ELSE SubSeq(p, 1, FirstKey(p) - 1) \o SubSeq(p, FirstKey(p) + 1, Len(p))

\* IdentityCertificate::certificateNameToPublicKeyName (not in the tree):
\* drop the last ID-CERT and what follows, then the first KEY component;
\* <<>> stands for the exception it throws when either is missing.
CertificateNameToPublicKeyName(c) ==
  IF \E i \in 1..Len(c) : c[i] = IDCERT
  THEN GetKeyNameFromCertificatePrefix(
         SubSeq(c, 1, Max({i \in 1..Len(c) : c[i] = IDCERT}) - 1))
  ELSE <<>>

\* IdentityStorage::getNewKeyName (not in the tree): the identity and
\* "ksk-" or "dsk-" with the current millisecond.
GetNewKeyName(id, isKsk) == Append(id, KeyIdComp(isKsk, now))

\* selfSign's certificate name: KEY inserted before the key id, then
\* ID-CERT and version 0.
SelfSignName(k) == Prefix(k) \o <<KEY, k[Len(k)], IDCERT, Comp("0")>>

\* createIdentityCertificate's certificate name: the prefix, ID-CERT and
\* the current time in whole seconds.
IdentityCertificateName(p) == p \o <<IDCERT, [s |-> "sec", n |-> now \div MsPerSecond]>>

\* IdentityStorage::addCertificate (not in the tree): it throws unless the
\* key that the certificate name gives has a record holding the
\* certificate's public key, and for a certificate name already installed.
CanAddCertificate(c, k) ==
  /\ CertificateNameToPublicKeyName(c) = k
  /\ k \in keys
  /\ c \notin DOMAIN certs

-----------------------------------------------------------------------------
(* Operations *)

\* generateKeyPair: a new key name, a key pair in the private key storage
\* and a public key record (addKey also records the identity).  The
\* caller says what else changes.
GenerateKeyPair(id, isKsk) ==
  LET k == GetNewKeyName(id, isKsk)
  IN  /\ k \notin keys /\ Cardinality(keys) < MaxKeys
      /\ identities' = identities \cup {id}
      /\ keys' = keys \cup {k}
      /\ privKeys' = privKeys \cup {k}

\* getNewKeyName throws "Key name already exists" for a second key of the
\* identity in the same millisecond.
KeyNameTaken(id, isKsk) == GetNewKeyName(id, isKsk) \in keys

GenerateRSAKeyPair(id, isKsk) ==
  \/ /\ GenerateKeyPair(id, isKsk)
     /\ outcome' = "ok"
     /\ UNCHANGED <<defaultKey, certs, defaultCert, now, data>>
  \/ KeyNameTaken(id, isKsk) /\ Threw

\* generateRSAKeyPairAsDefault: setDefaultKeyNameForIdentity as well.
GenerateRSAKeyPairAsDefault(id, isKsk) ==
  \/ /\ GenerateKeyPair(id, isKsk)
     /\ defaultKey' = (id :> GetNewKeyName(id, isKsk)) @@ defaultKey
     /\ outcome' = "ok"
     /\ UNCHANGED <<certs, defaultCert, now, data>>
  \/ KeyNameTaken(id, isKsk) /\ Threw

\* createIdentity: addIdentity, a KSK as the default key, selfSign and
\* addCertificateAsDefault.  When the self-signed certificate's name does
\* not give its key back, addCertificate throws after the identity, the
\* key and the default key are stored.
CreateIdentity(id) ==
  LET k == GetNewKeyName(id, TRUE)
      c == SelfSignName(k)
  IN  \/ id \in identities /\ Threw
      \/ /\ id \notin identities
         /\ GenerateKeyPair(id, TRUE)
         /\ defaultKey' = (id :> k) @@ defaultKey
         /\ IF CertificateNameToPublicKeyName(c) = k
            THEN /\ certs' = (c :> k) @@ certs
                 /\ defaultCert' = (k :> c) @@ defaultCert
                 /\ outcome' = "ok"
            ELSE /\ outcome' = "threw"
                 /\ UNCHANGED <<certs, defaultCert>>
         /\ UNCHANGED <<now, data>>

\* createIdentityCertificate(certificatePrefix, signerCertificateName):
\* the key name from the prefix (throws without a KEY component), its
\* public key from storage (an empty blob makes PublicKey::fromDer throw),
\* a certificate named with the current second and signed with the
\* signer certificate's key, then addCertificate.
CreateIdentityCertificate(p, signer) ==
  LET k == GetKeyNameFromCertificatePrefix(p)
      c == IdentityCertificateName(p)
  IN  \/ /\ k \in keys
         /\ CertificateNameToPublicKeyName(signer) \in privKeys
         /\ CanAddCertificate(c, k)
         /\ certs' = (c :> k) @@ certs
         /\ outcome' = "ok"
         /\ UNCHANGED <<identities, keys, privKeys, defaultKey, defaultCert, now, data>>
      \/ /\ \/ k \notin keys
            \/ CertificateNameToPublicKeyName(signer) \notin privKeys
            \/ ~CanAddCertificate(c, k)
         /\ Threw

\* setDefaultCertificateForKey: the certificate's key must have a record.
SetDefaultCertificateForKey(c) ==
  LET k == CertificateNameToPublicKeyName(c)
  IN  \/ /\ k \in keys
         /\ defaultCert' = (k :> c) @@ defaultCert
         /\ outcome' = "ok"
         /\ UNCHANGED <<identities, keys, privKeys, defaultKey, certs, now, data>>
      \/ k \notin keys /\ Threw

\* addCertificateAsDefault(selfSign(k)): addCertificate, then
\* setDefaultCertificateForKey.
AddCertificateAsDefault(k) ==
  LET c == SelfSignName(k)
  IN  \/ /\ CanAddCertificate(c, k)
         /\ certs' = (c :> k) @@ certs
         /\ defaultCert' = (k :> c) @@ defaultCert
         /\ outcome' = "ok"
         /\ UNCHANGED <<identities, keys, privKeys, defaultKey, now, data>>
      \/ ~CanAddCertificate(c, k) /\ Threw

\* addCertificateAsIdentityDefault(selfSign(k)): addCertificate, then
\* setDefaultKeyForIdentity (the identity is the key name's prefix), then
\* setDefaultCertificateForKey.
AddCertificateAsIdentityDefault(k) ==
  LET c == SelfSignName(k)
  IN  \/ /\ CanAddCertificate(c, k)
         /\ certs' = (c :> k) @@ certs
         /\ defaultKey' = (Prefix(k) :> k) @@ defaultKey
         /\ defaultCert' = (k :> c) @@ defaultCert
         /\ outcome' = "ok"
         /\ UNCHANGED <<identities, keys, privKeys, now, data>>
      \/ ~CanAddCertificate(c, k) /\ Threw

\* Mutant: the key locator drops two components, the version and ID-CERT.
SignByCertificateLocatorTwoUp(c) ==
  LET k == CertificateNameToPublicKeyName(c)
  IN  \/ /\ k \in privKeys
         /\ data' = [sig |-> "Sha256WithRsa", klType |-> "KEYNAME", klName |-> Prefix(Prefix(c)),
                     klKey |-> <<>>, signedBy |-> k]
         /\ outcome' = "ok"
         /\ UNCHANGED <<identities, keys, privKeys, defaultKey, certs, defaultCert, now>>
      \/ k \notin privKeys /\ Threw

\* signByCertificate(data, certificateName): the key locator is the
\* certificate name without its last component, and the signature is
\* made with the private key of the key the certificate name gives
\* (getPublicKey throws when the private key storage has none).
SignByCertificate(c) ==
  LET k == CertificateNameToPublicKeyName(c)
  IN  \/ /\ k \in privKeys
         /\ data' = [sig |-> "Sha256WithRsa", klType |-> "KEYNAME", klName |-> Prefix(c),
                     klKey |-> <<>>, signedBy |-> k]
         /\ outcome' = "ok"
         /\ UNCHANGED <<identities, keys, privKeys, defaultKey, certs, defaultCert, now>>
      \/ k \notin privKeys /\ Threw

\* The millisecond clock advances, up to MaxTime.
Tick ==
  /\ now < MaxTime
  /\ now' = now + 1
  /\ UNCHANGED <<identities, keys, privKeys, defaultKey, certs, defaultCert, data, outcome>>

=============================================================================
