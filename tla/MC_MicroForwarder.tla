-------------------------- MODULE MC_MicroForwarder --------------------------
(***************************************************************************)
(* A small instance of MicroForwarder for TLC.  Two TCP peers and one UDP  *)
(* peer give up to three faces; /a and /a/x let a FIB prefix, a PIT name   *)
(* and a Data name overlap; the broadcast, localhop and localhost names    *)
(* exercise every branch of the Interest path.                            *)
(***************************************************************************)
EXTENDS MicroForwarder, TLC

MC_InterestNames ==
  { <<"a">>, <<"a", "x">>, <<"ndn", "broadcast", "h">>,
    <<"localhop", "nfd", "rib", "register">>,
    <<"localhost", "nfd", "rib", "register", "cp_a">>,
    <<"localhost", "nfd", "rib", "register", "junk">>,
    <<"localhost", "status">> }

MC_DataNames == { <<"a", "x">>, <<"a", "y">> }

MC_CoreNames == { <<"a">>, <<"a", "x">>, <<"ndn", "broadcast", "h">> }

MC_RouteNames == { <<"a">> }

\* One Data name under the one Interest name, for the liveness runs.
MC_LiveDataNames == { <<"a", "x">> }

\* -1 stands for an Interest without a lifetime (the code uses the default).
MC_Lifetimes == {-1, 1}

MC_ParamsOf == [c \in {"cp_a"} |-> <<"a">>]

\* The control-plane instance: a default route "/" that every name matches,
\* registration commands that decode and one that does not, another
\* localhost command, and the localhop command remoteRegisterPrefix sends.
MC_ControlNames ==
  { <<"a">>, <<"localhop", "nfd", "rib", "register">>,
    <<"localhost", "nfd", "rib", "register", "cp_root">>,
    <<"localhost", "nfd", "rib", "register", "junk">>,
    <<"localhost", "status">> }

MC_ControlDataNames == { <<"a", "x">>, <<"localhop", "nfd", "rib", "register", "r">> }

MC_ControlRouteNames == { <<>>, <<"a">> }

MC_ControlParamsOf == [c \in {"cp_root"} |-> <<>>]

MC_ControlLifetimes == {1}

\* Nonces and peer URIs are only compared for equality.
MC_Symmetry == Permutations(Nonces) \cup Permutations(TcpPeers)

=============================================================================
