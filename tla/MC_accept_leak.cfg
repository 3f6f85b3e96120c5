\* Spec 7: a duplicate-URI connection accepted on the TCP channel is dropped.
CONSTANTS
  TcpPeers = {tcpA, tcpB}
  UdpPeers = {}
  InProcUri = inproc
  Nonces = {n1, n2}
  InterestNames <- MC_ControlNames
  DataNames <- MC_ControlDataNames
  RouteNames <- MC_ControlRouteNames
  Costs = {0}
  Lifetimes <- MC_ControlLifetimes
  DefaultLifetime = 2
  MinPitEntryLifetime = 2
  ParamsOf <- MC_ControlParamsOf
  MaxFaceId = 2
  NoFace = NoFace
  NoNonce = NoNonce
  BadParams = BadParams
SPECIFICATION Spec
SYMMETRY MC_Symmetry
INVARIANT AcceptedSocketsOwned

