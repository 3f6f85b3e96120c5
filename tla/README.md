# TLA+ models of the ndn-ind micro-forwarder

This directory holds TLA+ specifications of the repository's micro-forwarder
(`src/tools/micro-forwarder/micro-forwarder.cpp`). It also holds the TLC
configurations that check them. The forwarder is an in-process NDN packet
forwarder. It has faces, a FIB, a PIT, UDP and TCP listen channels, and a
localhost prefix-registration handler. The TCP/UDP transports the forwarder's
faces are built on and the TLV decoder that reads every packet have their own
modules, and so does the Interest codec. The security classes under src/
(`IdentityManager` and `SelfVerifyPolicyManager`) are modelled together:
the manager signs Data, and the policy manager verifies it. The rest of the
repository (crypto wrappers, declarations, examples) is inventoried below.

## 1. Inventory

### Components, their state and operations

| Component | Source | State | Operations |
|---|---|---|---|
| Faces | micro-forwarder.cpp 294-367, 474-493, 781-804 | `faces_` (id, uri, transport), static `lastFaceId_` | `addFace`, `removeFace`, `findFace`, `findFaceByUri`, `ForwarderFace::send`, `ForwarderFace::onReceivedElement` |
| Listen channels | micro-forwarder.cpp 60-291, 369-389 | `channels_`, a bound UDP socket or a listening TCP socket each | `addChannel`, `UdpChannel::processEvents` (recvfrom, on-demand face, feed datagram), `TcpChannel::processEvents` (accept, on-demand face) |
| FIB | micro-forwarder.cpp 318-346, 391-427, 671-692 | `FIB_`: entries (name, next hops (face, cost)) | `addRoute`, the FIB loop of `removeFace`, the multicast lookup |
| PIT | micro-forwarder.cpp 348-355, 538-553, 591-637, 695-715 | `PIT_`: entries (Interest, inFace, timeoutEndTime, entryEndTime) | sweep, duplicate-nonce check, same-face refresh, insert, Data match plus `clearInFace`, the scrub in `removeFace` |
| Packet classifier | micro-forwarder.cpp 495-570 | none | LpPacket unwrapping, Interest/Data/other dispatch, Nack drop |
| Localhost control plane | micro-forwarder.cpp 718-751 | changes the FIB | `/localhost/nfd/rib/register` decoding, `addRoute`, ControlResponse |
| remoteRegisterPrefix | micro-forwarder.cpp 429-461 | an in-process face with `isLocal_ = false`, `outFaceId_` | sends a `/localhop` registration out of one face only |
| Scheduler | micro-forwarder.cpp 463-472 | none | `processEvents` polls faces, then channels |
| TCP/UDP transports | src/transport/*.cpp | `isConnected_`, `isBound_`, socket descriptor, element buffer | connect (with or without an accepted descriptor), bind, send, processEvents, close |
| TLV decoder | src/c/encoding/tlv/tlv-decoder.c | decoder offset | readExtendedVarNumber, readTypeAndLength, readExtendedNonNegativeInteger |
| TLV Interest codec | src/c/encoding/tlv/tlv-interest.c | none (pure) | encode/decode of Interest, Selectors, Exclude |
| Identity manager | src/security/identity/identity-manager.cpp | identities, keys, certificates and their defaults in an identity storage, key pairs in a private key storage (neither under src/) | createIdentity, generateRSAKeyPair(AsDefault), createIdentityCertificate, addCertificateAsDefault, addCertificateAsIdentityDefault, setDefaultCertificateForKey, signByCertificate |
| Self-verify policy | src/security/policy/self-verify-policy-manager.cpp | the identity storage it reads | skipVerifyAndTrust, requireVerify, checkVerificationPolicy, checkSigningPolicy, inferSigningIdentity |
| Crypto, RSA/EC keys, EncryptedContentLite | src/c/util, src/lite | none | OpenSSL wrappers and struct copies |
| ChronoSync2013 | include/ndn-cpp/sync/chrono-sync2013.hpp | declarations only | none in src/ |
| Example and test programs | src/examples, src/tests | none | print and encode |

### How the parts interact

The host calls `processEvents` from one thread. It polls every face's
transport in registration order, then every channel. A transport's element
reader calls `ForwarderFace::onReceivedElement` with one whole TLV element.
That call runs `MicroForwarder::onReceivedElement` to the end before the next
element. The handler samples the clock and sweeps the PIT. On the Interest path
it reads and changes the PIT and reads the FIB. On the localhost path it
changes the FIB. It calls `ForwarderFace::send` on other faces, which swallows
transport errors. The UDP channel creates a face and feeds it the datagram
inside its own poll. The TCP channel creates a face around the accepted socket.
PIT entries and FIB hops hold raw `ForwarderFace*` pointers, so `removeFace`
must purge them before the face is destroyed.

### What is hard

Nothing runs concurrently; no locks. What is hard is the order of events:

- which faces send which Interests and Data, in which order;
- time passing between them, and the lazy sweep (entries expire only when the
  next element arrives, with two separate end times);
- faces appearing (channels, `remoteRegisterPrefix`) and disappearing
  (`removeFace`) between packets;
- replays and retransmissions (duplicate nonces, same name on the same face or
  another face);
- the error paths (decode errors, Nacks, unknown faces, failed sends,
  duplicate URIs on accept).

PROJECT.json lists the concrete hazards, each at its line.

### Properties that make each part correct

- PIT: every live entry's in-face is a live face. No two entries share a
  nonce. Seen as a table of pending requests, the PIT delivers each Data to
  exactly the faces whose request matches it and has not expired. Same-face
  retransmissions keep the later timeout. An accepted nonce stays refused
  until its entry end time.
- FIB: no empty entry; no hop on a dead face; at most one hop per face per
  entry; unique names.
- Interest path: localhost Interests are never forwarded. Localhop Interests
  leave only through `remoteRegisterPrefix`'s face, towards its target. A
  duplicate Interest from another face is not forwarded again (spec 4.6).
- Channels: an accepted connection is either owned by a face or dropped.
- Security: a Data packet is accepted only if it was signed by the key its
  key locator names, and for a KEYNAME locator by a key the storage holds.
  Data that `signByCertificate` signs with an installed certificate is
  accepted. Each check reports once, through one callback.

## 2. Modules

| Module | Models | Kind |
|---|---|---|
| `NdnName` | `Name::match`, `Interest::matchesData` (not under src/; from spec 3 and 4.4) | helper operators |
| `MicroForwarder` | faces, FIB, PIT, channels, classifier, localhost control plane, remoteRegisterPrefix | detailed specification |
| `PendingInterests` | what the PIT promises downstream faces | abstract specification |
| `MC_MicroForwarder` | instances of `MicroForwarder` for TLC | model |
| `MC_NonceRetention` | `MC_MicroForwarder` plus a history of nonce suppression times | model |
| `MC_SweepLiveness` | `MC_MicroForwarder` plus a history bit that flips on every well-formed arrival, for the liveness run | model |
| `TlvDecoder` | `tlv-decoder.c`: `readExtendedVarNumber`, `readTypeAndLength`, `readExtendedNonNegativeInteger`, and `readVarNumber` (tlv-decoder.h, not in the tree) | pure operators |
| `MC_TlvDecoder` | a reference TLV encoder and a caller that reads until the first error | model |
| `SocketTransports` | `TcpTransport`, `UdpTransport` and the descriptor table; the accept path of the TCP channel | detailed specification |
| `TlvInterest` | `tlv-interest.c`: every encoder and decoder of the Interest, its Selectors and Exclude | pure operators |
| `MC_TlvInterest` | a caller that encodes an Interest and decodes it into a fresh struct | model |
| `IdentityManager` | `identity-manager.cpp` over the contracts of the identity and private key storages (not in the tree) | detailed specification |
| `SelfVerifyPolicyManager` | `self-verify-policy-manager.cpp` composed with `IdentityManager`, plus an attacker who signs Data with her own key | detailed specification |
| `MC_Security` | two identities for `SelfVerifyPolicyManager` | model |

### `TlvInterest`

An element is a record `[t, v, kids]`: its TLV type, the value of a leaf and
the elements nested in it. Octet framing belongs to `TlvDecoder`. This module
keeps what the codec decides: which elements are written, in which order, and
with which value. An `ndn_Interest` is a record with the struct's fields.
`EncodeSelectorsValue` and `DecodeSelectors` follow the code step by step:

- the KeyLocator is written with `omitZeroLength`;
- the `publisherPublicKeyDigest` is written only if the key locator wrote
  nothing;
- the Exclude is written only when it has entries;
- MustBeFresh is written only for `answerOriginKind = 0`, and unsupported bits
  are an error;
- each optional element is read by peeking at the next element's type.

`NonceBlob` pads a short nonce with the random octets `rnd` and truncates a
long one. The caller chooses `rnd` from two values. The lifetime is a double.
It is kept in half milliseconds so that the rounding of
`writeOptionalNonNegativeIntegerTlvFromDouble` shows. The helpers of
`tlv-encoder.h`/`tlv-decoder.h` and the Name and KeyLocator codecs are not in
the tree. They are modelled from their use and marked spec-modelled.

### `TlvDecoder`

Every read returns `[err, val, offset]`, the C function's error code, its
out-parameter and the decoder's offset afterwards. An octet has `Base` values.
The code has 256; the runs use 8, which keeps 8-octet numbers inside TLC's
integers. The layout is kept: the three largest octet values announce 2-, 4-
and 8-octet numbers (`ExtendedWidth`, the branches at lines 15-42), and the
value is read big-endian (`BigEndian`, `be16toh`..`be64toh`). The cast to
`size_t` and the sum at line 64 are computed modulo `Base^SizeOctets`
(`SizeMod`), with `SizeOctets = 8` for a 64-bit build. Only the radix
changes, so each comparison and each wrap of the code has its counterpart.

`MC_TlvDecoder` builds an input from a type, a length and an integer value,
each encoded by a reference encoder at every width the format allows
(non-minimal var-numbers included), and cuts it after any octet. A caller
starts at offset 0 and makes any sequence of reads until one fails. Decoding
then stops, so its runs do not check deadlock.

### `SocketTransports`

A transport object has the fields `isConnected_`, `isBound_`, the socket
descriptor of its C struct, whether that socket is a bound one, and (TCP)
the `isLocal` cache. The `TcpTransport` constructor leaves `isBound_`
uninitialized (`tcp-transport.cpp` 53-59), so `Construct` and the transport
that `Accept` makes choose it nondeterministically; `UdpTransport` starts it
false. `Accept` needs a bound socket, not the flag, and `close` ends it. `fdOwner` is the
process's descriptor table: 0-2 are the standard streams, and a new socket
gets the lowest free descriptor, as POSIX does. The C layer
(`ndn_TcpTransport_connect`, `_bind`, `_close`, ...) is not in the tree and is
modelled by its contract: open a socket or fail (the C++ throws); close the
socket and set the descriptor to -1. `Accept` is the TCP channel's accept
followed by `addFace`'s `connect(ConnectionInfo(fd))`
(`tcp-transport.cpp` 86-115), which adopts the descriptor only when it is
`> 0`. `CloseStdin` is the host program closing its standard input.

### `IdentityManager` and `SelfVerifyPolicyManager`

A name is a sequence of components, and a component is a record `[s, n]`:
its text, and the number in `ksk-<ms>` or in a certificate version.
Variables of `IdentityManager`:

- `identities`, `keys`, `certs` (name to the key it certifies),
  `defaultKey` and `defaultCert` are the identity storage;
- `privKeys` is the private key storage;
- `now` is `ndn_getNowMilliseconds`;
- `data` is the last Data packet signed;
- `outcome` says whether the last call threw.

A key is named by its key name, and so is its public key DER. A signature
is recorded as the key whose private half made it. Each public method is
one action. It is the whole method, including the storage calls it makes,
and its exceptions are disjuncts (`Threw`).

The storages and `IdentityCertificate` are not in the tree. They are
modelled by the contract the manager relies on (spec-modelled in the map):

- `getNewKeyName` is the identity plus `ksk-`/`dsk-` and the millisecond,
  and it throws if that key exists;
- `addKey` also records the identity;
- `addCertificate` throws unless the certificate's key has a record with
  the same public key, and for a name already installed;
- `certificateNameToPublicKeyName` drops the last `ID-CERT` and what
  follows, then the first `KEY`.

`SelfVerifyPolicyManager` adds `verdict`: the callbacks
`checkVerificationPolicy` made, in order, and whether it threw.

- `Forge` is Eve, who signs Data with her own key. She may name any KEY
  locator (her key, a stored key, a DER that does not decode) or any KEYNAME
  locator (installed certificates, her own, ill-formed names). She may also
  use a non-RSA signature.
- She cannot alter Data someone else signed, since the key locator is in
  the signed portion.
- `CheckVerificationPolicy` is the whole of `checkVerificationPolicy`
  (lines 87-121). Verification is `verifySha256WithRsaSignature`
  (lines 43-69): a DER that does not decode throws, and otherwise the check
  succeeds exactly when that key signed.

### How `MicroForwarder` corresponds to the code

Variables: `faces` is `faces_`. Each face is a record of id, uri, `outFace`
(the transport's `outFaceId_`) and `nonLocal` (an in-process transport with
`isLocal_` false). `lastFaceId` is `ForwarderFace::lastFaceId_`. `fib` is
`FIB_`, as a set of entries each holding a sequence of hops. `pit` is `PIT_`,
as a set of entries. The PIT can be a set because the nonces in it are
unique, and the code's ordering of the vector does not change which entries
are matched or removed. `channels` is `channels_`, at most one of each kind.
`leaked` holds the peers whose accepted socket no face owns. `sent` is what
the last step passed to `ForwarderFace::send`.

Time: the code takes `system_clock::now()` once per element. It only compares
it with end times it computed as now plus a duration. The model keeps every
end time as the number of ticks still to go, floored at 0, and `Tick` counts
them down. `now >= end` becomes `end = 0`. This hides nothing the code can
observe, and the clock needs no bound. One tick is one time unit.
`DefaultLifetime` (4 s in the code) and `MinPitEntryLifetime` are constants in
those units.

Actions, one per handler:

- `AddFace`: `addFace(host, port)`. The id is taken even when `connect` throws.
- `RemoveFace`
- `AddRoute`
- `AddChannel`
- `RemoteRegisterPrefix`
- `FaceReceive`: a face's element reader delivering one element.
- `UdpChannelReceive`: the on-demand face plus the datagram's processing, in
  one step, as in the code.
- `TcpChannelAccept`
- `Tick`

`OnReceivedElement` is the whole of `MicroForwarder::onReceivedElement`: the
sweep, the Nack drop, and the Interest path (`OnInterest`, with
`OnReceivedLocalhostInterest`) or the Data path (`OnData`). Its early returns
are disjuncts. The guards they share are named operators, such as
`LocalhopRefused`, `DuplicateNonce`, `ParamsDecoded` and `Sweep`.

Data abstraction:

- A packet is its type, name, nonce, lifetime and whether its LpPacket
  carries a Nack. The forwarder re-sends the received bytes unchanged, so
  bytes are not modelled.
- A ControlParameters component is a string that `ParamsOf` decodes to a
  prefix. A string outside its domain is a decode error.
- URIs are model values, one per remote peer.

### Refinement

`PendingInterests` is a table of pending requests (face, name, expiry) with
four operations: `Request` (keeping the later expiry on a repeat), `Satisfy`
(deliver to every matching request and drop it), `DropFace` and `ATick`. Any
other step is `Idle`. `MicroForwarder` instantiates it with a mapping:

- `pending` is the set of PIT entries that still have an in-face and a
  timeout not yet reached.
- `delivered` is the set of Data sends of the last step.

`PitRefinesPending == Pending!ASpec` is checked as a PROPERTY. It covers the
lazy sweep, the two end times, the refresh and the clearing of the in-face
on Data together. It does not constrain two things. `Request` accepts any
lifetime, so a wrong default lifetime (line 603) would pass. A `removeFace`
that left the face's entries behind would look like `Idle`, so the scrub in
`removeFace` is checked by `PitInFaceLive` instead.

## 3. Runs

| Run | Config | Expect | What it shows |
|---|---|---|---|
| core | `MC_core.cfg` | pass | The PIT and FIB stay consistent and the PIT refines `PendingInterests`, over every interleaving of Interests (FIB-routed and broadcast), Data, Nacks, other and malformed elements, ticks, face creation and removal, routes, channels and remoteRegisterPrefix. |
| control | `MC_control.cfg` | pass | `ScopedPrefixes`: with a default route `/` installed, localhost and localhop Interests never leave the forwarder except through remoteRegisterPrefix's face. `FibConsistent`: registrations, good and malformed, keep the FIB consistent. `RegistrationAnswered`: a "Success" ControlResponse goes only to a command whose ControlParameters decode, and only after that name's route towards the asking face is on the FIB. A decode error that fell through would register "/" and answer it. |
| redundant_forward | `MC_redundant_forward.cfg` | violation | Two faces ask for the same name. The second Interest is forwarded upstream again, against the code comment at lines 616-617 and spec 4.6. |
| nonce_after_remove | `MC_NonceRetention.cfg` | violation | An Interest is accepted from one face. That face is removed. The same nonce then arrives again, in TLC's trace on a second TCP face, and is accepted at once. A UDP retransmission that re-creates the on-demand face takes the same path. Spec 4.4 and 9 say the nonce stays refused until the entry end time. |
| accept_leak | `MC_accept_leak.cfg` | violation | A TCP connection from a URI that already has a face is only logged. The descriptor is never closed (spec 7 says it is dropped). |
| sweep_liveness | `MC_sweep_liveness.cfg` | pass | `ConsumedEntriesSwept`: if well-formed elements keep arriving and time passes, every PIT entry consumed by Data is eventually removed. |
| tlv_decoder | `MC_tlv_decoder.cfg` | pass | `DecodesEncoding`: at every field boundary each read returns what the encoder wrote and stops where it stopped, at every width. It fails with `read_past_the_end` exactly when the input is cut inside the field. `MTypeOK` keeps the offset inside the input. |
| tlv_length_wrap | `MC_tlv_length_wrap.cfg` | violation | `LengthWithinInput`: with a 64-bit `size_t`, a length of 2^64 - 8 after a 10-octet header makes `offset + length` wrap to 2, and `readTypeAndLength` accepts it. |
| transports | `MC_transports.cfg` | pass | `IsLocalAnswersHost`: the `isLocal` cache always answers for the host asked, whichever host it cached last. Descriptor ownership is not a property here: `close` only calls the C layer, whose contract (close and forget the descriptor) the model assumes. |
| tlv_interest | `MC_tlv_interest.cfg` | pass | `RoundTrip`, over 24 192 Interests (every combination of the fields' interesting values): encoding fails only for unsupported `answerOriginKind` bits. Decoding the encoding into a fresh struct fails only when the Exclude exceeds `MaxEntries`, and otherwise gives back what the comments promise. |
| security | `MC_security.cfg` | pass | `VerifiedIsAuthentic`: whatever Eve forges, `onVerified` is called only for Data signed by the key its locator names (a stored key for KEYNAME). `OwnSignaturesVerify`: every Data `signByCertificate` signs with an installed certificate, self-signed or made by `createIdentityCertificate`, is verified, with one callback and no exception. |
| self_verify_report | `MC_self_verify_report.cfg` | violation | `ReportedThroughOneCallback`: the header promises `onVerifyFailed` for a failed check or a missing key, and an exception only for a non-RSA signature. A KEY locator whose DER does not decode makes the check throw at line 59 with no callback. |

Bounds and why they are enough:

- Two nonces: a duplicate and a fresh nonce.
- Two faces (`MaxFaceId = 2`): a downstream and an upstream face, or a regular
  face and the in-process registration face. Ids lost to a failed connect also
  use up this bound.
- Names `/a`, `/a/x` and a broadcast name, with Data `/a/x` and `/a/y`: prefix
  and exact matches, a Data matching one entry but not another, and FIB
  prefix matching.
- Lifetimes: 1 tick and unspecified (default 2), with `MinPitEntryLifetime`
  2. This gives both orders of the two end times: timeout before entry end,
  and equal.
- Costs `{0}` in core, since cost never affects forwarding.

Nonces and TCP peer URIs are only compared for equality, so the runs use
symmetry over them. Every property checked under symmetry is a safety
property.

The core run has about 120 000 distinct states (about 3 minutes). The control
run has about 51 000.

The liveness instance has one UDP peer, two nonces, one name and lifetime 1:
an entry is inserted, consumed by Data, and its entry end time passes. The
TLV instance has `Base = 8`, `SizeOctets = 8`, two type widths, five length
tokens (1, 3, 5 and 9 octets, one near 2^64) and three value widths. The
transport instance has two TCP objects (a listener and one to accept), one UDP
object, two hosts (one local) and descriptors 0-4. That is enough to fill the
table, close and reuse a descriptor, and close stdin.

The security instance has /alice and /KEY/bob, a clock of 2 ms
(`MaxTime = 1`), 2 ms to the second and at most 2 key pairs (`MaxKeys`).
This gives two keys in the same millisecond (a name clash) and in different
milliseconds, and two certificates of one key in the same second. /KEY/bob
has a KEY component before its key id, so `createIdentity` fails half-way
for it, and `createIdentityCertificate` refuses its prefixes. The run has
about 45 000 distinct states (35 s).

Fairness. The safety runs assume none. Every step is a call by the host or a
packet from the network, and the code cannot make either happen. The liveness
run assumes only weak fairness of `Tick`: the clock advances whenever the host
keeps calling `processEvents`. It assumes no fairness on traffic. Arrival of
well-formed elements is an assumption inside the property, because the sweep
runs only when an element arrives (line 541). Malformed elements throw before
the sweep. The history bit `rx` of `MC_SweepLiveness` makes an arrival
visible even when it is a dropped duplicate that changes no other state.

## 4. Findings

1. `isDuplicateInterest` is never read. A second face's Interest for a pending
   name is forwarded again (run `redundant_forward`).
2. `removeFace` deletes the PIT entries of the face, and with them the nonce
   record. A replay of the nonce is then accepted (run `nonce_after_remove`).
3. The TCP channel leaks the accepted descriptor when the URI already has a
   face (run `accept_leak`).
4. Consumed PIT entries are removed only when the next element arrives
   (line 541). A quiet forwarder keeps them forever, while spec 4.9 says they
   are removed at their entry end time. That is why `ConsumedEntriesSwept`
   assumes traffic: without the assumption, a behaviour that removes the faces
   and then only lets time pass violates it.
5. `readTypeAndLength` checks `offset + length` in `size_t`. A length near
   2^64 wraps the sum and is accepted (run `tlv_length_wrap`).
6. `TcpTransport::connect` takes descriptor 0 for "none". After stdin is
   closed, an accepted connection on descriptor 0 is leaked, and the face
   connects elsewhere or throws. A counterexample showed this while
   `SocketTransports` was built. No run checks it now (the run set is kept
   to twelve); the hazard in PROJECT.json records it.
7. `close()` of both transports leaves `isConnected_` true. Nothing under
   src/ calls `getIsConnected`, so no run checks it.
8. `ndn_decodeTlvInterest` resets every selector except `keyLocator` when the
   Interest has no Selectors (lines 307-313). A C caller that reuses its
   struct keeps a stale key locator. The C++ wire format decodes into a fresh
   struct. A counterexample showed this while `TlvInterest` was built; no run
   checks it now.
9. `SelfVerifyPolicyManager::checkVerificationPolicy` throws where its
   header says it calls `onVerifyFailed` (run `self_verify_report`, property
   `ReportedThroughOneCallback`). Any sender can cause each case:
   - a KEY locator whose DER does not decode throws
     `UnrecognizedKeyFormatException` at line 59 (TLC's counterexample);
   - a KEYNAME locator that is not a certificate name throws in
     `certificateNameToPublicKeyName` at line 105;
   - a KEYNAME locator whose key is not stored calls `onVerifyFailed`, has
     no `return` (lines 106-108), verifies with the null Blob and throws. The
     application hears of that packet twice.
10. `createIdentity` adds the identity, its key and the default key before
    `addCertificateAsDefault`. For an identity with a KEY component before
    the key id, the self-signed certificate's name gives another key name,
    and `addCertificate` throws. The identity is left with a default key and
    no certificate, and a second `createIdentity` throws "Identity has
    already been created!". The security run reaches this state for /KEY/bob.
    No property states what the code should do instead.

## 5. Not modelled (yet), and why

- Send failures: `ForwarderFace::send` (lines 475-486) swallows them. The
  forwarder's state is the same whether a send failed or not: on the Data
  path the in-face is cleared either way. A send outcome would change nothing
  a property can relate, so it is not modelled.
- Channel I/O errors that throw to the host: they change no forwarder state.
- Byte framing in the element reader: out of scope (a dependency).
- `UdpTransport::isLocal` returns a constant from the C layer. The pairing of
  bind and connect on the UDP on-demand face transport depends on C code that
  is not in the tree.
- The 32-bit truncation of the length at tlv-decoder.c:63 is documented in the
  code ("silently ignore"). Only the wrap is checked.
- `TcpTransport`'s uninitialized `isBound_` is modelled as either value,
  but nothing under src/ calls `getIsBound`, so no property reads it.
- The identity and private key storages and `IdentityCertificate` are not
  in the tree. Only the contract `IdentityManager` relies on is modelled.
  `createIdentityCertificate` with a signer certificate the storage lacks
  dereferences a null pointer there (`getCertificate`). The model passes only
  installed signer certificates.
- Certificate validity periods, subject descriptions and the DER encoding:
  no decision in src/ depends on them.
- Crypto wrappers, RSA/EC keys and EncryptedContentLite: no state machine, and
  the arithmetic is beyond TLC.
- ChronoSync2013: only its declaration is under src/.
- Example and test programs: sample code. The secured-Interest responder is
  a one-shot chain of callbacks into Face, KeyChain, EncryptorV2 and
  DecryptorV2, none of which is in the tree.

## 6. Plan

Ordered by importance; items 1-4 and 6-10 are done.

1. `MicroForwarder` with PIT, FIB, faces and the Interest/Data paths; type
   invariant, PIT/FIB consistency, nonce uniqueness. *(done)*
2. `PendingInterests` and the refinement `PitRefinesPending`. *(done)*
3. Channels, the localhost control plane, remoteRegisterPrefix,
   `ScopedPrefixes`. *(done)*
4. The three violation runs above. *(done)*
5. Lifetime 0 in the inputs. (Send failures turned out to change no
   forwarder state; see section 5.)
6. A liveness run: with weak fairness on `Tick` and on element arrival,
   every PIT entry is eventually removed. The run says which fairness the
   lazy sweep needs. *(done: weak fairness of Tick plus traffic)*
7. `Transport`: the TcpTransport/UdpTransport state (`isConnected_`,
   `isBound_`, descriptor) and `connect` with an accepted descriptor
   (`> 0`). *(done as `SocketTransports`; the accept path is its `Accept`)*
8. `TlvDecoder`: `readExtendedVarNumber`, `readTypeAndLength` and
   `readExtendedNonNegativeInteger` as operators over byte sequences, with
   64-bit (and 32-bit size_t) arithmetic. They are checked against a
   reference decoder over bounded inputs, which reaches the offset-plus-length
   wrap. *(done)*
9. `TlvInterest`: decode of Interest/Selectors/Exclude as optional-field
   parsing, with an encode/decode round trip over small Interests. *(done)*
10. `IdentityManager` / `SelfVerifyPolicyManager`: default identity, key and
    certificate bookkeeping, and the verification decision, as far as the
    code under src/ determines them. *(done, composed in
    `SelfVerifyPolicyManager`)*
