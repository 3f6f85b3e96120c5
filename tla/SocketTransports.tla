--------------------------- MODULE SocketTransports ---------------------------
(***************************************************************************)
(* The TcpTransport and UdpTransport objects (src/src/transport/) and the  *)
(* process's descriptor table they draw sockets from.  The C layer they    *)
(* call (the ndn_TcpTransport and ndn_UdpTransport functions) is not in the tree; it is *)
(* modelled by its contract: connect and bind open a socket, which POSIX   *)
(* numbers with the lowest free descriptor, or fail; close closes the      *)
(* socket and forgets it (descriptor -1).  Every failure of the C layer    *)
(* becomes a runtime_error thrown to the caller, recorded in `outcome`.   *)
(*                                                                         *)
(* The TCP listen channel of the micro-forwarder accepts a connection and  *)
(* hands the accepted descriptor to a new TcpTransport through             *)
(* ConnectionInfo(fd) (micro-forwarder.cpp 246-249); that path is the      *)
(* action Accept.                                                          *)
(***************************************************************************)
EXTENDS Naturals, FiniteSets, FiniteSetsExt, TLC

CONSTANTS
  TcpObjs,     \* TcpTransport objects
  UdpObjs,     \* UdpTransport objects
  Hosts,       \* hosts a ConnectionInfo may name
  LocalHosts,  \* the hosts ndn_TcpTransport_isLocal reports as local
  MaxFd,       \* the highest descriptor the process may hold
  NoHost       \* connectionInfo_ before any isLocal call (host "")

ASSUME LocalHosts \subseteq Hosts /\ NoHost \notin Hosts /\ MaxFd >= 3

Objs == TcpObjs \cup UdpObjs
Fds  == 0..MaxFd
Owners == Objs \cup {"stdin", "stdout", "stderr", "accepted"}

VARIABLES
  fdOwner,   \* open descriptor -> who holds it
  tr,        \* transport object -> its fields
  outcome    \* "ok", or "error" when the last call threw

tvars == <<fdOwner, tr, outcome>>

\* Fields of a transport object: made (constructed), isConnected_,
\* isBound_, the socket descriptor of the C struct, whether that socket is
\* a bound (listening) one, and the isLocal cache (connectionInfo_'s host
\* and isLocal_).  The UdpTransport constructor: isConnected_ and isBound_
\* false, no socket.
Fresh == [made |-> TRUE, isConnected |-> FALSE, isBound |-> FALSE,
          fd |-> -1, listening |-> FALSE, cachedHost |-> NoHost, isLocal |-> FALSE]
Unmade == [Fresh EXCEPT !.made = FALSE]

FreeFds == Fds \ DOMAIN fdOwner

\* socket() / accept(): the lowest descriptor not in use.
LowestFree == Min(FreeFds)

\* Give descriptor f to owner o.
Own(f, o) == (f :> o) @@ fdOwner

Threw ==
  /\ outcome' = "error"
  /\ UNCHANGED <<fdOwner, tr>>

TInit ==
  /\ fdOwner = (0 :> "stdin") @@ (1 :> "stdout") @@ (2 :> "stderr")
  /\ tr = [t \in Objs |-> Unmade]
  /\ outcome = "ok"

\* The constructors: isConnected_ false, no socket yet.  The TcpTransport
\* constructor does not initialize isBound_, so it holds whatever the
\* object's memory held.
Construct(t) ==
  /\ ~tr[t].made
  /\ \E b \in IF t \in TcpObjs THEN BOOLEAN ELSE {FALSE} :
       tr' = [tr EXCEPT ![t] = [Fresh EXCEPT !.isBound = b]]
  /\ outcome' = "ok"
  /\ UNCHANGED fdOwner

\* A mutant of IsLocal: the cache is filled once and never refreshed.
IsLocalCachedOnce(t, h) ==
  /\ tr[t].made
  /\ IF tr[t].cachedHost = NoHost
     THEN \/ /\ tr' = [tr EXCEPT ![t].cachedHost = h, ![t].isLocal = (h \in LocalHosts)]
             /\ outcome' = "ok"
             /\ UNCHANGED fdOwner
          \/ Threw
     ELSE /\ outcome' = "ok"
          /\ UNCHANGED <<fdOwner, tr>>

\* TcpTransport::isLocal: recompute (and cache) unless the cached host is
\* the one asked about; ndn_TcpTransport_isLocal may fail (resolver error).
IsLocal(t, h) ==
  /\ tr[t].made
  /\ IF tr[t].cachedHost = NoHost \/ tr[t].cachedHost # h
     THEN \/ /\ tr' = [tr EXCEPT ![t].cachedHost = h, ![t].isLocal = (h \in LocalHosts)]
             /\ outcome' = "ok"
             /\ UNCHANGED fdOwner
          \/ Threw
     ELSE /\ outcome' = "ok"
          /\ UNCHANGED <<fdOwner, tr>>

\* connect(ConnectionInfo(host, port)), as addFace(host, port) and the
\* host program call it: the ConnectionInfo carries no descriptor, so the C
\* layer opens a socket and connects it, or fails.
Connect(t) ==
  /\ tr[t].made /\ tr[t].fd = -1
  /\ \/ /\ FreeFds # {}
        /\ fdOwner' = Own(LowestFree, t)
        /\ tr' = [tr EXCEPT ![t].fd = LowestFree, ![t].isConnected = TRUE]
        /\ outcome' = "ok"
     \/ Threw

\* bind(): the C layer opens a socket bound to the port, or fails.
Bind(t) ==
  /\ tr[t].made /\ tr[t].fd = -1
  /\ \/ /\ FreeFds # {}
        /\ fdOwner' = Own(LowestFree, t)
        /\ tr' = [tr EXCEPT ![t].fd = LowestFree, ![t].isBound = TRUE, ![t].listening = TRUE]
        /\ outcome' = "ok"
     \/ Threw

\* TcpChannel::processEvents accepts a connection on the bound socket of l
\* (accept() gives the lowest free descriptor) and addFace constructs a
\* TcpTransport t and calls connect(ConnectionInfo(incomingFd)).  connect
\* adopts the descriptor only when it is > 0; otherwise it asks the C layer
\* to connect to the ConnectionInfo's host and port, which may open another
\* socket or throw.
Accept(l, t) ==
  LET f == LowestFree
      afterAccept == Own(f, "accepted")
      nextFree == Min(Fds \ DOMAIN afterAccept)
  IN  /\ l \in TcpObjs /\ tr[l].listening
      /\ t \in TcpObjs /\ ~tr[t].made
      /\ FreeFds # {}
      /\ \E b \in BOOLEAN :    \* the new TcpTransport's isBound_
         LET new == [Fresh EXCEPT !.isBound = b] IN
         IF f > 0
         THEN /\ fdOwner' = Own(f, t)
              /\ tr' = [tr EXCEPT ![t] = [new EXCEPT !.fd = f, !.isConnected = TRUE]]
              /\ outcome' = "ok"
         ELSE \/ /\ Fds \ DOMAIN afterAccept # {}
                 /\ fdOwner' = (nextFree :> t) @@ afterAccept
                 /\ tr' = [tr EXCEPT ![t] = [new EXCEPT !.fd = nextFree, !.isConnected = TRUE]]
                 /\ outcome' = "ok"
              \/ /\ fdOwner' = afterAccept
                 /\ tr' = [tr EXCEPT ![t] = new]
                 /\ outcome' = "error"

\* send / processEvents / onReceiveData: the C layer fails on a transport
\* without a socket; nothing else changes.
Use(t) ==
  /\ tr[t].made
  /\ outcome' = IF tr[t].fd >= 0 THEN "ok" ELSE "error"
  /\ UNCHANGED <<fdOwner, tr>>

\* close(): the C layer closes the socket and forgets it; isConnected_ and
\* isBound_ are left as they were; the socket no longer listens.
Close(t) ==
  /\ tr[t].made
  /\ fdOwner' = [f \in DOMAIN fdOwner \ {tr[t].fd} |-> fdOwner[f]]
  /\ tr' = [tr EXCEPT ![t].fd = -1, ![t].listening = FALSE]
  /\ outcome' = "ok"

\* The host program closes its standard input (as a daemon does).
CloseStdin ==
  /\ 0 \in DOMAIN fdOwner /\ fdOwner[0] = "stdin"
  /\ fdOwner' = [f \in DOMAIN fdOwner \ {0} |-> fdOwner[f]]
  /\ UNCHANGED <<tr, outcome>>

TNext ==
  \/ \E t \in Objs : Construct(t) \/ Connect(t) \/ Bind(t) \/ Use(t) \/ Close(t)
  \/ \E t \in TcpObjs, h \in Hosts : IsLocal(t, h)
  \/ \E l, t \in TcpObjs : Accept(l, t)
  \/ CloseStdin

TSpec == TInit /\ [][TNext]_tvars

-----------------------------------------------------------------------------

\* isLocal answers for the host it is asked about, whichever host it
\* cached the last answer for.
IsLocalAnswersHost ==
  [][\A t \in TcpObjs, h \in Hosts :
       (IsLocal(t, h) /\ outcome' = "ok") => tr'[t].isLocal = (h \in LocalHosts)]_tvars

=============================================================================
