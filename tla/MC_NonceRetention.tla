------------------------- MODULE MC_NonceRetention -------------------------
(***************************************************************************)
(* MC_MicroForwarder with a history variable: for every nonce, the ticks  *)
(* for which the forwarder must still refuse it, per spec 4.4 and 9       *)
(* ("the entry must linger to suppress replays of the same nonce" until   *)
(* entry_end_time, now + minPitEntryLifetime at acceptance).              *)
(***************************************************************************)
EXTENDS MC_MicroForwarder

VARIABLE guard   \* nonce -> ticks it must still be suppressed

hvars == <<vars, guard>>

Nonces_(p) == {e.nonce : e \in p}

\* Nonces that get a new PIT entry in this step.  Only onReceivedElement
\* adds entries, after its sweep; every other step shrinks the PIT.
Accepted == IF pit' \subseteq pit THEN {} ELSE Nonces_(pit') \ Nonces_(Sweep(pit))

HInit == Init /\ guard = [n \in Nonces |-> 0]

HNext ==
  \/ /\ Step
     /\ guard' = [n \in Nonces |-> IF n \in Accepted THEN MinPitEntryLifetime
                                   ELSE guard[n]]
  \/ /\ Tick
     /\ guard' = [n \in Nonces |-> MaxOf(guard[n] - 1, 0)]

HSpec == HInit /\ [][HNext]_hvars

\* A nonce the forwarder accepted is not accepted again (that is, not
\* forwarded again) before minPitEntryLifetime has passed, whatever happens
\* to the face it came from.
NonceRetention == [][\A n \in Accepted : guard[n] = 0]_hvars

=============================================================================
