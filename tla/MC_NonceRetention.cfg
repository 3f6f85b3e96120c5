\* Spec 4.4 and 9: an accepted nonce is refused until its entry end time.
CONSTANTS
  TcpPeers = {tcpA, tcpB}
  UdpPeers = {udpC}
  InProcUri = inproc
  Nonces = {n1, n2}
  InterestNames <- MC_CoreNames
  DataNames <- MC_DataNames
  RouteNames <- MC_RouteNames
  Costs = {0}
  Lifetimes <- MC_Lifetimes
  DefaultLifetime = 2
  MinPitEntryLifetime = 2
  ParamsOf <- MC_ParamsOf
  MaxFaceId = 2
  NoFace = NoFace
  NoNonce = NoNonce
  BadParams = BadParams
SPECIFICATION HSpec
SYMMETRY MC_Symmetry

PROPERTY NonceRetention
