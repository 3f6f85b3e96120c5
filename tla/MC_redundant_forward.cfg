\* Spec 4.6 step 6 and the code comment: duplicate Interests from a second face are not forwarded.
CONSTANTS
  TcpPeers = {tcpA, tcpB}
  UdpPeers = {udpC}
  InProcUri = inproc
  Nonces = {n1, n2}
  InterestNames <- MC_CoreNames
  DataNames <- MC_DataNames
  RouteNames <- MC_RouteNames
  Costs = {0}
  Lifetimes <- MC_Lifetimes
  DefaultLifetime = 2
  MinPitEntryLifetime = 2
  ParamsOf <- MC_ParamsOf
  MaxFaceId = 2
  NoFace = NoFace
  NoNonce = NoNonce
  BadParams = BadParams
SPECIFICATION Spec
SYMMETRY MC_Symmetry

PROPERTY NoRedundantForward
