---------------------------- MODULE MicroForwarder ----------------------------
(***************************************************************************)
(* The micro-forwarder of tools/micro-forwarder/micro-forwarder.cpp: the   *)
(* faces, the FIB, the PIT, the UDP and TCP listen channels and the        *)
(* localhost prefix-registration handler.                                  *)
(*                                                                         *)
(* The forwarder is single-threaded: processEvents polls every face and   *)
(* channel, and each complete element a face delivers is handled to the   *)
(* end by onReceivedElement before the next one.  So every handler is one *)
(* atomic action; which face's element comes next is left to the          *)
(* environment, which covers every polling order.                          *)
(*                                                                         *)
(* Time: the code samples system_clock::now() once per element and only   *)
(* compares it with end times it computed as now + a duration.  So each   *)
(* PIT end time is kept relative to the present, as the number of ticks   *)
(* still to go (0 once now >= the end time), and Tick counts them all     *)
(* down.  This loses nothing the code can observe and needs no clock      *)
(* bound.                                                                  *)
(*                                                                         *)
(* Packets are abstracted to their type, name, nonce, lifetime and        *)
(* whether the LpPacket header carries a Nack; the forwarder re-sends the  *)
(* element it received unchanged, so bytes are not modelled.  `sent` is   *)
(* the set of packets the last step handed to faces (ForwarderFace::send).*)
(***************************************************************************)
EXTENDS Naturals, Sequences, SequencesExt, FiniteSets, NdnName

CONSTANTS
  TcpPeers,            \* URIs "tcp://host:port" of remote TCP endpoints
  UdpPeers,            \* URIs "udp://host:port" of remote UDP endpoints
  InProcUri,           \* URI of the in-process face made by remoteRegisterPrefix
  Nonces,              \* Interest nonces
  InterestNames,       \* names of Interests faces may deliver
  DataNames,           \* names of Data packets faces may deliver
  RouteNames,          \* prefixes the host passes to addRoute
  Costs,               \* route costs the host passes to addRoute
  Lifetimes,           \* Interest lifetimes in ticks; a negative one is "unspecified"
  DefaultLifetime,     \* the 4 s default lifetime, in ticks
  MinPitEntryLifetime, \* minPitEntryLifetime_, in ticks
  ParamsOf,            \* the ControlParameters a name component decodes to
  MaxFaceId,           \* bound on ForwarderFace::lastFaceId_
  NoFace, NoNonce, BadParams

ASSUME MinPitEntryLifetime \in Nat /\ DefaultLifetime \in Nat
ASSUME MaxFaceId \in Nat \ {0}

VARIABLES
  faces,       \* faces_: the live ForwarderFace objects
  lastFaceId,  \* ForwarderFace::lastFaceId_, never reused
  fib,         \* FIB_: set of [name, hops] with hops a sequence of [face, cost]
  pit,         \* PIT_: set of [name, nonce, inFace, timeoutEnd, entryEnd],
               \* end times in ticks from now
  channels,    \* channels_: which listen channels exist
  leaked,      \* peers with an accepted socket that no face owns or closes
  sent         \* packets sent to faces by the last step

vars == <<faces, lastFaceId, fib, pit, channels, leaked, sent>>

-----------------------------------------------------------------------------
(* Fixed prefixes of micro-forwarder.hpp (spec section 6).                 *)
LocalhostPrefix == <<"localhost">>
LocalhopPrefix  == <<"localhop">>
RegisterPrefix  == <<"localhost", "nfd", "rib", "register">>
BroadcastPrefix == <<"ndn", "broadcast">>

FaceIdSet == 1..MaxFaceId
FaceIds   == {f.id : f \in faces}

Interests == [type : {"Interest"}, name : InterestNames, nonce : Nonces,
              lifetime : Lifetimes, nack : BOOLEAN]
Datas     == [type : {"Data"}, name : DataNames, nonce : {NoNonce},
              lifetime : {0}, nack : BOOLEAN]
\* An element whose outer type is neither Interest nor Data, and one whose
\* LpPacket, Interest or Data decoding throws.
Others    == [type : {"Other", "Malformed"}, name : {<<>>}, nonce : {NoNonce},
              lifetime : {0}, nack : {FALSE}]
Packets   == Interests \cup Datas \cup Others
WellFormed == {p \in Packets : p.type # "Malformed"}

Sent == [kind : {"Interest", "Data", "Response"}, to : FaceIdSet,
         name : InterestNames \cup DataNames, nonce : Nonces \cup {NoNonce}]

Face == [id : FaceIdSet, uri : TcpPeers \cup UdpPeers \cup {InProcUri},
         outFace : FaceIdSet \cup {NoFace}, nonLocal : BOOLEAN]

NewFace(uri) == [id |-> lastFaceId + 1, uri |-> uri, outFace |-> NoFace,
                 nonLocal |-> FALSE]

FindFace(id) == CHOOSE f \in faces : f.id = id
FindFaceByUri(uri) == CHOOSE f \in faces : f.uri = uri

-----------------------------------------------------------------------------
(* FIB                                                                      *)

\* FibEntry::nextHopIndexOf: the first index of a hop on the face, or 0.
NextHopIndexOf(hops, id) == SelectInSeq(hops, LAMBDA h : h.face = id)

\* Mutation: addRoute appends a hop without looking for one on the face.
FibAddRouteAppend(name, id, cost) ==
  IF \E e \in fib : e.name = name
  THEN LET e == CHOOSE e \in fib : e.name = name
       IN  (fib \ {e}) \cup {[e EXCEPT !.hops = Append(@, [face |-> id, cost |-> cost])]}
  ELSE fib \cup {[name |-> name, hops |-> <<[face |-> id, cost |-> cost]>>]}

\* The FIB after addRoute(name, id, cost) for a known face.
FibAddRoute(name, id, cost) ==
  IF \E e \in fib : e.name = name
  THEN LET e == CHOOSE e \in fib : e.name = name
           k == NextHopIndexOf(e.hops, id)
       IN  (fib \ {e}) \cup
           {[e EXCEPT !.hops = IF k > 0 THEN [@ EXCEPT ![k].cost = cost]
                               ELSE Append(@, [face |-> id, cost |-> cost])]}
  ELSE fib \cup {[name |-> name, hops |-> <<[face |-> id, cost |-> cost]>>]}

\* The FIB loop of removeFace: drop the first hop on the face from each entry
\* and erase an entry whose last hop that was.
FibRemoveFace(id) ==
  LET Scrub(e) == LET k == NextHopIndexOf(e.hops, id)
                  IN  IF k > 0 THEN [e EXCEPT !.hops = RemoveAt(@, k)] ELSE e
      Emptied(e) == NextHopIndexOf(e.hops, id) > 0 /\ Len(e.hops) = 1
  IN  {Scrub(e) : e \in {x \in fib : ~Emptied(x)}}

\* The faces of the hops of every FIB entry whose name is a prefix of name.
FibFaces(name) ==
  UNION {ToSet([k \in DOMAIN e.hops |-> e.hops[k].face]) :
           e \in {x \in fib : NameMatch(x.name, name)}}

-----------------------------------------------------------------------------
(* PIT                                                                      *)

\* Mutation: the sweep forgets to clear the in-face of a timed-out entry.
SweepNoTimeout(p) ==
  {x \in p : ~(x.entryEnd = 0 /\ x.timeoutEnd = 0)}

\* Mutation: the sweep only ever clears in-faces, never removes an entry.
SweepNeverRemoves(p) ==
  { IF e.timeoutEnd = 0 THEN [e EXCEPT !.inFace = NoFace] ELSE e : e \in p }

\* The loop at the top of onReceivedElement: remove an entry past both of
\* its end times, and clear the in-face of one past its timeout end time.
Sweep(p) ==
  { IF e.timeoutEnd = 0 THEN [e EXCEPT !.inFace = NoFace] ELSE e :
      e \in {x \in p : ~(x.entryEnd = 0 /\ x.timeoutEnd = 0)} }

TimeoutEndTime(i) == IF i.lifetime >= 0 THEN i.lifetime ELSE DefaultLifetime

EntryEndTime == MinPitEntryLifetime

MaxOf(a, b) == IF a >= b THEN a ELSE b

\* The faces an Interest accepted into the PIT is sent to.
OutFaces(fc, i) ==
  IF NameMatch(BroadcastPrefix, i.name)
  THEN {f.id : f \in faces'} \ {fc.id}
  ELSE IF fc.outFace # NoFace
       THEN {fc.outFace} \cap {f.id : f \in faces'}
       ELSE FibFaces(i.name) \ {fc.id}

\* Mutation: the decode error is logged but not returned on, so the code
\* goes on with a default-constructed ControlParameters, whose name is "/".
ControlParamsDefault(name) ==
  IF Len(name) >= 5 /\ name[5] \in DOMAIN ParamsOf THEN ParamsOf[name[5]]
  ELSE <<>>

\* ControlParameters.wireDecode(name.get(4)); a missing component or one
\* that does not decode is BadParams.
ControlParams(name) ==
  IF Len(name) >= 5 /\ name[5] \in DOMAIN ParamsOf THEN ParamsOf[name[5]]
  ELSE BadParams

\* The try/catch around wireDecode: decoding succeeded.
ParamsDecoded(name) == ControlParams(name) # BadParams

\* Mutation: localhop is let through from every face.
LocalhopRefusedNever(fc, i) == FALSE

\* A /localhop Interest is dropped unless its face's MicroForwarderTransport
\* is marked not local.
LocalhopRefused(fc, i) == NameMatch(LocalhopPrefix, i.name) /\ ~fc.nonLocal

\* Mutation: no duplicate-nonce check.
DuplicateNonceNever(i, swept) == FALSE

\* Some PIT entry, live or consumed, carries the Interest's nonce.
DuplicateNonce(i, swept) == \E e \in swept : e.nonce = i.nonce

-----------------------------------------------------------------------------
(* onReceivedLocalhostInterest, with the PIT already swept.                 *)
OnReceivedLocalhostInterest(fc, i, swept) ==
  /\ pit' = swept
  /\ \/ /\ NameMatch(RegisterPrefix, i.name)
        /\ ~ParamsDecoded(i.name)
        /\ UNCHANGED fib
        /\ sent' = {}
     \/ /\ NameMatch(RegisterPrefix, i.name)
        /\ ParamsDecoded(i.name)
        /\ fib' = FibAddRoute(ControlParams(i.name), fc.id, 0)
        /\ sent' = {[kind |-> "Response", to |-> fc.id, name |-> i.name,
                     nonce |-> NoNonce]}
     \/ /\ ~NameMatch(RegisterPrefix, i.name)
        /\ UNCHANGED fib
        /\ sent' = {}

\* The Interest branch of onReceivedElement, with the PIT already swept.
OnInterest(fc, i, swept) ==
  LET admitted == ~NameMatch(LocalhostPrefix, i.name) /\ ~LocalhopRefused(fc, i)
      sameFace == {e \in swept : e.name = i.name /\ e.inFace = fc.id}
  IN
  \/ /\ NameMatch(LocalhostPrefix, i.name)
     /\ OnReceivedLocalhostInterest(fc, i, swept)
  \/ /\ ~NameMatch(LocalhostPrefix, i.name) /\ LocalhopRefused(fc, i)
     /\ pit' = swept /\ sent' = {} /\ UNCHANGED fib
  \/ /\ admitted /\ DuplicateNonce(i, swept)
     /\ pit' = swept /\ sent' = {} /\ UNCHANGED fib
  \/ /\ admitted /\ ~DuplicateNonce(i, swept) /\ sameFace # {}
     /\ \E e \in sameFace :
          pit' = (swept \ {e}) \cup
                 {[e EXCEPT !.timeoutEnd = MaxOf(@, TimeoutEndTime(i)),
                            !.entryEnd = EntryEndTime]}
     /\ sent' = {} /\ UNCHANGED fib
  \/ /\ admitted /\ ~DuplicateNonce(i, swept) /\ sameFace = {}
     /\ pit' = swept \cup {[name |-> i.name, nonce |-> i.nonce, inFace |-> fc.id,
                            timeoutEnd |-> TimeoutEndTime(i),
                            entryEnd |-> EntryEndTime]}
     /\ sent' = {[kind |-> "Interest", to |-> g, name |-> i.name,
                  nonce |-> i.nonce] : g \in OutFaces(fc, i)}
     /\ UNCHANGED fib

\* The Data branch of onReceivedElement: send to the in-face of every
\* matching PIT entry that still has one, and clear it.
OnData(d, swept) ==
  LET matched == {e \in swept : e.inFace # NoFace /\ MatchesData(e.name, d.name)}
  IN  /\ pit' = (swept \ matched) \cup
                {[e EXCEPT !.inFace = NoFace] : e \in matched}
      /\ sent' = {[kind |-> "Data", to |-> e.inFace, name |-> d.name,
                   nonce |-> NoNonce] : e \in matched}
      /\ UNCHANGED fib

\* MicroForwarder::onReceivedElement for an element from face fc; faces' is
\* fixed by the caller.
OnReceivedElement(fc, pkt) ==
  LET swept == Sweep(pit) IN
  \/ /\ pkt.type = "Malformed"
     /\ sent' = {} /\ UNCHANGED <<pit, fib>>
  \/ /\ pkt.type # "Malformed"
     /\ pkt.type = "Other" \/ pkt.nack
     /\ pit' = swept /\ sent' = {} /\ UNCHANGED fib
  \/ /\ pkt.type = "Interest" /\ ~pkt.nack
     /\ OnInterest(fc, pkt, swept)
  \/ /\ pkt.type = "Data" /\ ~pkt.nack
     /\ OnData(pkt, swept)

-----------------------------------------------------------------------------
(* Actions                                                                  *)

Init ==
  /\ faces = {}
  /\ lastFaceId = 0
  /\ fib = {}
  /\ pit = {}
  /\ channels = {}
  /\ leaked = {}
  /\ sent = {}

\* addFace(host, port): the constructor takes the next face id; if connect
\* throws, the face is never pushed and the id is lost.
AddFace(uri) ==
  /\ lastFaceId < MaxFaceId
  /\ lastFaceId' = lastFaceId + 1
  /\ \/ faces' = faces \cup {NewFace(uri)}
     \/ UNCHANGED faces
  /\ sent' = {}
  /\ UNCHANGED <<fib, pit, channels, leaked>>

\* Mutation: removeFace leaves the PIT alone.
PitRemoveFaceNone(id) == pit

\* The PIT loop of removeFace: remove every entry that came in on the face.
PitRemoveFace(id) == {e \in pit : e.inFace # id}

RemoveFace(id) ==
  /\ fib' = FibRemoveFace(id)
  /\ pit' = PitRemoveFace(id)
  /\ faces' = {f \in faces : f.id # id}
  /\ sent' = {}
  /\ UNCHANGED <<lastFaceId, channels, leaked>>

AddRoute(name, id, cost) ==
  /\ id \in FaceIds
  /\ fib' = FibAddRoute(name, id, cost)
  /\ sent' = {}
  /\ UNCHANGED <<faces, lastFaceId, pit, channels, leaked>>

AddChannel(kind) ==
  /\ kind \notin channels
  /\ channels' = channels \cup {kind}
  /\ sent' = {}
  /\ UNCHANGED <<faces, lastFaceId, fib, pit, leaked>>

\* remoteRegisterPrefix: the registration Face connects a
\* MicroForwarderTransport with isLocal_ false and outFaceId_ = id, which
\* adds an in-process face to the forwarder.
RemoteRegisterPrefix(id) ==
  /\ id \in FaceIds
  /\ lastFaceId < MaxFaceId
  /\ faces' = faces \cup {[id |-> lastFaceId + 1, uri |-> InProcUri,
                           outFace |-> id, nonLocal |-> TRUE]}
  /\ lastFaceId' = lastFaceId + 1
  /\ sent' = {}
  /\ UNCHANGED <<fib, pit, channels, leaked>>

\* A live face's element reader delivers one whole element.
FaceReceive(id, pkt) ==
  /\ id \in FaceIds
  /\ UNCHANGED <<faces, lastFaceId, channels, leaked>>
  /\ OnReceivedElement(FindFace(id), pkt)

\* UdpChannel::processEvents for one datagram from peer: make the
\* on-demand face if no face has the peer's URI, then feed it the datagram.
UdpChannelReceive(peer, pkt) ==
  /\ "udp" \in channels
  /\ UNCHANGED <<channels, leaked>>
  /\ \/ /\ \A f \in faces : f.uri # peer
        /\ lastFaceId < MaxFaceId
        /\ faces' = faces \cup {NewFace(peer)}
        /\ lastFaceId' = lastFaceId + 1
        /\ OnReceivedElement(NewFace(peer), pkt)
     \/ /\ \E f \in faces : f.uri = peer
        /\ UNCHANGED <<faces, lastFaceId>>
        /\ OnReceivedElement(FindFaceByUri(peer), pkt)

\* TcpChannel::processEvents for one accepted connection.  When a face
\* already has the peer's URI the accepted descriptor is only logged: no
\* face takes it and nothing closes it.
TcpChannelAccept(peer) ==
  /\ "tcp" \in channels
  /\ \/ /\ \A f \in faces : f.uri # peer
        /\ lastFaceId < MaxFaceId
        /\ faces' = faces \cup {NewFace(peer)}
        /\ lastFaceId' = lastFaceId + 1
        /\ UNCHANGED leaked
     \/ /\ \E f \in faces : f.uri = peer
        /\ leaked' = leaked \cup {peer}
        /\ UNCHANGED <<faces, lastFaceId>>
  /\ sent' = {}
  /\ UNCHANGED <<fib, pit, channels>>

\* Mutation: end times are counted down past the present.
TickNoFloor ==
  /\ pit' = {[e EXCEPT !.timeoutEnd = @ - 1, !.entryEnd = @ - 1] : e \in pit}
  /\ sent' = {}
  /\ UNCHANGED <<faces, lastFaceId, fib, channels, leaked>>

\* The clock advances one tick: every end time comes one tick nearer.
Tick ==
  /\ pit' = {[e EXCEPT !.timeoutEnd = MaxOf(@ - 1, 0),
                       !.entryEnd = MaxOf(@ - 1, 0)] : e \in pit}
  /\ sent' = {}
  /\ UNCHANGED <<faces, lastFaceId, fib, channels, leaked>>

\* Every step but the passing of time.
Step ==
  \/ \E u \in TcpPeers : AddFace(u)
  \/ \E id \in FaceIdSet : RemoveFace(id)
  \/ \E n \in RouteNames, id \in FaceIdSet, c \in Costs : AddRoute(n, id, c)
  \/ \E k \in {"udp", "tcp"} : AddChannel(k)
  \/ \E id \in FaceIdSet : RemoteRegisterPrefix(id)
  \/ \E id \in FaceIdSet, p \in Packets : FaceReceive(id, p)
  \/ \E u \in UdpPeers, p \in Packets : UdpChannelReceive(u, p)
  \/ \E u \in TcpPeers : TcpChannelAccept(u)

Next == Step \/ Tick

Spec == Init /\ [][Next]_vars

\* A well-formed element reaches onReceivedElement, from a face's element
\* reader or the UDP channel.  A malformed one throws before the sweep.
WellFormedArrival ==
  \/ \E id \in FaceIdSet, p \in WellFormed : FaceReceive(id, p)
  \/ \E u \in UdpPeers, p \in WellFormed : UdpChannelReceive(u, p)

-----------------------------------------------------------------------------
(* Properties                                                               *)

TypeOK ==
  /\ faces \subseteq Face
  /\ lastFaceId \in 0..MaxFaceId
  /\ \A e \in fib : /\ e.name \in RouteNames
                    /\ e.hops \in Seq([face : FaceIdSet, cost : Costs \cup {0}])
  /\ \A e \in pit : /\ e.name \in InterestNames /\ e.nonce \in Nonces
                    /\ e.inFace \in FaceIdSet \cup {NoFace}
                    /\ e.timeoutEnd \in Nat /\ e.entryEnd \in Nat
  /\ channels \subseteq {"udp", "tcp"}
  /\ leaked \subseteq TcpPeers
  /\ sent \subseteq Sent

\* Spec 8: a PIT entry's in-face is a live face or cleared.  removeFace must
\* scrub the entries that came in on the face before the face is destroyed,
\* or a later Data is sent through a dangling ForwarderFace pointer.
PitInFaceLive ==
  \A e \in pit : e.inFace = NoFace \/ e.inFace \in FaceIds

\* Spec 3 and 8: every FIB entry has at least one next hop, on a live face,
\* at most one hop per face, and no two entries share a name; addRoute and
\* the FIB loop of removeFace keep this over any sequence of calls.
FibConsistent ==
  /\ \A e \in fib :
       /\ Len(e.hops) >= 1
       /\ \A k \in DOMAIN e.hops : e.hops[k].face \in FaceIds
       /\ \A j, k \in DOMAIN e.hops : e.hops[j].face = e.hops[k].face => j = k
  /\ \A e1, e2 \in fib : e1.name = e2.name => e1 = e2

\* Spec 8: no two PIT entries carry the same nonce, whatever the order in
\* which Interests, Data, timeouts and face removals arrive.
NoncesUnique ==
  \A e1, e2 \in pit : e1.nonce = e2.nonce => e1 = e2

\* Spec 4.6 and 6: an Interest under /localhost is never forwarded, and one
\* under /localhop leaves the forwarder only when it came in on the
\* in-process face of remoteRegisterPrefix, and then only to that face's
\* target.  A default route "/" matches both, so this rests on the order of
\* the checks in onReceivedElement.
ScopedPrefixes ==
  [][\A s \in sent' :
       s.kind = "Interest" =>
         /\ ~NameMatch(LocalhostPrefix, s.name)
         /\ NameMatch(LocalhopPrefix, s.name) =>
              \E f \in faces : f.nonLocal /\ f.outFace = s.to]_vars

\* The code comment in onReceivedElement ("If it's a new face, then we'll
\* create a PIT entry, but won't forward") and spec 4.6 step 6: an Interest
\* for a name that already has a satisfiable PIT entry from another face is
\* added to the PIT but not sent upstream again.
NoRedundantForward ==
  [][\A s \in sent' :
       s.kind = "Interest" =>
         ~\E e \in Sweep(pit) : e.name = s.name /\ e.inFace # NoFace]_vars

\* onReceivedLocalhostInterest sends a "Success" ControlResponse (status
\* 200) only for a registration command whose ControlParameters component
\* decodes, and only once addRoute has put that name's route on the FIB
\* towards the face that asked.  A command that does not decode must get
\* no answer and change no route.
RegistrationAnswered ==
  [][\A r \in sent' :
       r.kind = "Response" =>
         /\ Len(r.name) >= 5 /\ r.name[5] \in DOMAIN ParamsOf
         /\ \E e \in fib' :
              /\ e.name = ParamsOf[r.name[5]]
              /\ \E k \in DOMAIN e.hops : e.hops[k].face = r.to]_vars

\* Spec 7 (error kind 5): a connection accepted from a URI that already has
\* a face is dropped; the forwarder owns every socket it accepted, through a
\* face, or has closed it.
AcceptedSocketsOwned == leaked = {}

\* The entry for nonce n has been satisfied or has timed out: its in-face is
\* cleared, so no refresh can extend it and it only blocks the nonce.  As
\* nonces in the PIT are unique, the entry is gone once no entry with the
\* nonce is consumed (a new one with the same nonce starts with its in-face).
ConsumedEntry(n) == \E e \in pit : e.nonce = n /\ e.inFace = NoFace

-----------------------------------------------------------------------------
(* Refinement: the PIT, seen through its live entries, implements          *)
(* PendingInterests.  A live entry (in-face set, timeout not reached) is a *)
(* pending request; the Data sent by a step are the deliveries.            *)

PendingView ==
  {[face |-> e.inFace, name |-> e.name, expires |-> e.timeoutEnd] :
     e \in {x \in pit : x.inFace # NoFace /\ x.timeoutEnd > 0}}

DeliveredView ==
  {[face |-> s.to, name |-> s.name] : s \in {x \in sent : x.kind = "Data"}}

Pending == INSTANCE PendingInterests
             WITH Faces <- FaceIdSet, Names <- InterestNames,
                  DataNames <- DataNames,
                  MaxLifetime <- MaxOf(DefaultLifetime,
                                   CHOOSE l \in Lifetimes : \A m \in Lifetimes : m <= l),
                  pending <- PendingView, delivered <- DeliveredView

\* Every downstream face gets each Data that matches a request it made and
\* whose lifetime has not run out, exactly then and no other time: the lazy
\* sweep, the same-face refresh (keeping the later timeout), the in-face
\* clearing on Data and the scrub in removeFace together behave like a table
\* of pending requests.
PitRefinesPending == Pending!ASpec

=============================================================================
