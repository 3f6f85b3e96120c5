------------------------- MODULE MC_SweepLiveness -------------------------
(***************************************************************************)
(* MC_MicroForwarder with a bit that flips at each well-formed element     *)
(* onReceivedElement handles, so that "elements keep arriving" can be      *)
(* stated even when an arrival changes nothing else (a dropped duplicate). *)
(* Time passes fairly (weak fairness of Tick); traffic is not assumed by  *)
(* the specification but by the property.                                 *)
(***************************************************************************)
EXTENDS MC_MicroForwarder

VARIABLE rx   \* flips at every counted well-formed arrival

lvars == <<vars, rx>>

LInit == Init /\ rx = FALSE

LNext ==
  \/ WellFormedArrival /\ rx' = ~rx
  \/ Next /\ UNCHANGED rx

LSpec == LInit /\ [][LNext]_lvars /\ WF_lvars(Tick /\ UNCHANGED rx)

\* As long as well-formed elements keep arriving, every consumed PIT entry
\* is eventually removed: the sweep at the top of onReceivedElement is the
\* only code that removes it, and time passing brings both of its end times
\* to the present.
ConsumedEntriesSwept ==
  ([]<><<WellFormedArrival /\ rx' # rx>>_lvars)
    => \A n \in Nonces : ConsumedEntry(n) ~> ~ConsumedEntry(n)

=============================================================================
