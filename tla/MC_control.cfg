\* Localhost registration, localhop scoping and remoteRegisterPrefix.
CONSTANTS
  TcpPeers = {tcpA, tcpB}
  UdpPeers = {}
  InProcUri = inproc
  Nonces = {n1, n2}
  InterestNames <- MC_ControlNames
  DataNames <- MC_ControlDataNames
  RouteNames <- MC_ControlRouteNames
  Costs = {0}
  Lifetimes <- MC_ControlLifetimes
  DefaultLifetime = 2
  MinPitEntryLifetime = 2
  ParamsOf <- MC_ControlParamsOf
  MaxFaceId = 2
  NoFace = NoFace
  NoNonce = NoNonce
  BadParams = BadParams
SPECIFICATION Spec
SYMMETRY MC_Symmetry
INVARIANT FibConsistent
PROPERTY ScopedPrefixes RegistrationAnswered
