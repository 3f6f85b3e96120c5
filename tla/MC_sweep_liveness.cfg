\* Liveness of the lazy PIT sweep: time passes (weak fairness on Tick); traffic is assumed in the property, not in the spec.
CONSTANTS
  TcpPeers = {}
  UdpPeers = {udpC}
  InProcUri = inproc
  Nonces = {n1, n2}
  InterestNames <- MC_RouteNames
  DataNames <- MC_LiveDataNames
  RouteNames <- MC_RouteNames
  Costs = {0}
  Lifetimes <- MC_ControlLifetimes
  DefaultLifetime = 2
  MinPitEntryLifetime = 2
  ParamsOf <- MC_ParamsOf
  MaxFaceId = 2
  NoFace = NoFace
  NoNonce = NoNonce
  BadParams = BadParams
SPECIFICATION LSpec
PROPERTY ConsumedEntriesSwept
