--------------------------- MODULE PendingInterests ---------------------------
(***************************************************************************)
(* What the PIT of the micro-forwarder promises its downstream faces,     *)
(* stated without nonces, sweeps or entry lifetimes (spec 4.4, 4.7, 4.9): *)
(*                                                                         *)
(*   - a face that asked for a name has a request pending until its       *)
(*     lifetime runs out; a repeated request from the same face for the   *)
(*     same name keeps the later of the two expiry times;                 *)
(*   - a Data packet is delivered to exactly the faces with a pending     *)
(*     request whose name matches it, and satisfies those requests;       *)
(*   - removing a face drops its requests.                                 *)
(*                                                                         *)
(* The forwarder may also ignore a request (duplicate nonce, localhop,    *)
(* Nack, ...); that is a stuttering step here.  Expiry times count the    *)
(* ticks still to go, as in MicroForwarder.                                *)
(***************************************************************************)
EXTENDS Naturals, NdnName

CONSTANTS
  Faces,       \* face ids
  Names,       \* names that may be requested
  DataNames,   \* names of Data packets
  MaxLifetime  \* the longest lifetime a request can have, in ticks

VARIABLES
  pending,     \* set of [face, name, expires], expires > 0 ticks from now
  delivered    \* set of [face, name]: the Data handed to faces by the last step

avars == <<pending, delivered>>

ATypeOK ==
  /\ pending \subseteq [face : Faces, name : Names, expires : 1..MaxLifetime]
  /\ delivered \subseteq [face : Faces, name : DataNames]

AInit == pending = {} /\ delivered = {}

Later(a, b) == IF a >= b THEN a ELSE b

\* Face f asks for name n for t ticks.
Request(f, n, t) ==
  LET old == {p \in pending : p.face = f /\ p.name = n}
      exp == Later(t, IF old = {} THEN 0
                      ELSE (CHOOSE p \in old : \A q \in old : q.expires <= p.expires).expires)
  IN  /\ pending' = (pending \ old) \cup
                    (IF exp > 0 THEN {[face |-> f, name |-> n, expires |-> exp]} ELSE {})
      /\ delivered' = {}

\* A Data packet named d arrives.
Satisfy(d) ==
  LET matched == {p \in pending : MatchesData(p.name, d)}
  IN  /\ pending' = pending \ matched
      /\ delivered' = {[face |-> p.face, name |-> d] : p \in matched}

DropFace(f) ==
  /\ pending' = {p \in pending : p.face # f}
  /\ delivered' = {}

\* One tick passes; requests whose lifetime ends are gone.
ATick ==
  /\ pending' = {[p EXCEPT !.expires = @ - 1] : p \in {q \in pending : q.expires > 1}}
  /\ delivered' = {}

\* Anything else the forwarder does.
Idle ==
  /\ UNCHANGED pending
  /\ delivered' = {}

ANext ==
  \/ \E f \in Faces, n \in Names, t \in 0..MaxLifetime : Request(f, n, t)
  \/ \E d \in DataNames : Satisfy(d)
  \/ \E f \in Faces : DropFace(f)
  \/ ATick
  \/ Idle

ASpec == AInit /\ [][ANext]_avars

=============================================================================
