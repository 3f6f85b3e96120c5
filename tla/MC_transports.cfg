\* Transport objects and the descriptor table: a listen socket, accepted and outgoing TCP transports, a UDP transport.
CONSTANTS
  TcpObjs = {l, t1}
  UdpObjs = {u1}
  Hosts = {h1, h2}
  LocalHosts = {h1}
  MaxFd = 4
  NoHost = NoHost
SPECIFICATION TSpec
PROPERTY IsLocalAnswersHost
