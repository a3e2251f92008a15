------------------------------ MODULE UDPTunnel ------------------------------
(***************************************************************************)
(* The tunnel over UDP, the default protocol: the two loops of             *)
(* Client::Reconnect and the two of Server::Run with UDPConnection between *)
(* them, over a network that loses, duplicates and reorders.               *)
(*                                                                         *)
(* The server has no notion of a connection.  It answers to last_recv_ep,  *)
(* the source of whatever datagram came last, and a client that reconnects *)
(* sends from a new socket while datagrams of the old one are still on     *)
(* their way.  A loop runs from one wait to the next without interruption, *)
(* so an iteration is one step.                                            *)
(*                                                                         *)
(* A packet is its IP version and whether its source and destination are   *)
(* the address the server has for the client (remote_tun_ip).  Sealing is  *)
(* Framing's subject: here a datagram carries a packet, or NoPacket if it  *)
(* does not open with conn_key.                                            *)
(***************************************************************************)
EXTENDS Naturals, FiniteSets

CONSTANTS
    Packets,    \* packets the tun devices hand out
    IPv6,       \* ipv6 of the client's configuration
    MaxEps,     \* bound: sockets the client opens, one for each Reconnect
    MaxUp,      \* bound: datagrams in flight to the server
    MaxDown     \* bound: datagrams in flight to the client

NoPacket == [ver |-> 0, src |-> "none", dst |-> "none"]

NoEp  == 0              \* last_recv_ep before anything came
Other == MaxEps + 1     \* an endpoint that is not the client's

ClientEps == 1 .. MaxEps

ASSUME UDPTunnelAssumption ==
    /\ Packets \subseteq [ver : {4, 5, 6}, src : {"client", "else"}, dst : {"client", "else"}]
    /\ IPv6 \in BOOLEAN
    /\ MaxEps \in Nat \ {0} /\ MaxUp \in Nat /\ MaxDown \in Nat

VARIABLES
    local_tun_ip,   \* the client's own address, as configured there
    ep,             \* the socket of the client's current connection
    up,             \* in flight to the server: from where, and what
    down,           \* in flight to the client: from whom, to where, and what
    last_recv_ep,   \* the server's UDPConnection::last_recv_ep
    sent,           \* what each side has read from its tun device and sent
    written         \* what each side has written to its tun device last

vars == <<local_tun_ip, ep, up, down, last_recv_ep, sent, written>>

Init ==
    /\ local_tun_ip \in {"client", "else"}
    /\ ep = 1
    /\ up = {}
    /\ down = {}
    /\ last_recv_ep = NoEp
    /\ sent = [client |-> {}, server |-> {}]
    /\ written = [client |-> NoPacket, server |-> NoPacket]

-----------------------------------------------------------------------------
(* What the loops let through.                                             *)

IsIP(p) == p.ver \in {4, 6}

\* Faulty: the source is not looked at.
SendsAnySource(p) == IsIP(p) /\ (p.ver = 6 => IPv6)

ClientSends(p) ==
    /\ IsIP(p)
    /\ p.ver = 4 => p.src = local_tun_ip
    /\ p.ver = 6 => IPv6

\* An IPv6 packet is judged by its destination.
ServerAccepts(p) ==
    /\ IsIP(p)
    /\ p.ver = 4 => p.src = "client"
    /\ p.ver = 6 => p.dst = "client"

ServerSends(p) == IsIP(p) /\ p.dst = "client"

-----------------------------------------------------------------------------
\* The client's send loop: Read, the filter, Send.
ClientTun(p) ==
    /\ ClientSends(p)
    /\ Cardinality(up) < MaxUp
    /\ up' = up \cup {[from |-> ep, pkt |-> p]}
    /\ sent' = [sent EXCEPT !.client = @ \cup {p}]
    /\ UNCHANGED <<local_tun_ip, ep, down, last_recv_ep, written>>

\* A datagram that is none of the tunnel's reaches the port of the server.
Stray ==
    /\ Cardinality(up) < MaxUp
    /\ up' = up \cup {[from |-> Other, pkt |-> NoPacket]}
    /\ UNCHANGED <<local_tun_ip, ep, down, last_recv_ep, sent, written>>

\* One reaches the client: it does not open, whoever it claims to come from, or
\* a third host repeats what the server sent.
StrayDown ==
    /\ Cardinality(down) < MaxDown
    /\ \E host \in {"server", "other"}, p \in sent.server \cup {NoPacket} :
          /\ host = "server" => p = NoPacket
          /\ down' = down \cup {[from |-> host, to |-> ep, pkt |-> p]}
    /\ UNCHANGED <<local_tun_ip, ep, up, last_recv_ep, sent, written>>

\* Faulty: the endpoint is kept once there is one.
ServerReceiveFirstEp(d) ==
    /\ d \in up
    /\ up' \in {up, up \ {d}}
    /\ last_recv_ep' = IF last_recv_ep = NoEp THEN d.from ELSE last_recv_ep
    /\ written' = IF d.pkt # NoPacket /\ ServerAccepts(d.pkt)
                  THEN [written EXCEPT !.server = d.pkt] ELSE written
    /\ UNCHANGED <<local_tun_ip, ep, down, sent>>

\* The server's receive loop: ReceiveFrom, which keeps the source before it
\* looks at the datagram, the filter, Write.  The network may deliver d again.
ServerReceive(d) ==
    /\ d \in up
    /\ up' \in {up, up \ {d}}
    /\ last_recv_ep' = d.from
    /\ written' = IF d.pkt # NoPacket /\ ServerAccepts(d.pkt)
                  THEN [written EXCEPT !.server = d.pkt] ELSE written
    /\ UNCHANGED <<local_tun_ip, ep, down, sent>>

\* Faulty: a send without an endpoint goes out.
ServerTunAnyway(p) ==
    /\ ServerSends(p)
    /\ Cardinality(down) < MaxDown
    /\ down' = down \cup {[from |-> "server", to |-> last_recv_ep, pkt |-> p]}
    /\ sent' = [sent EXCEPT !.server = @ \cup {p}]
    /\ UNCHANGED <<local_tun_ip, ep, up, last_recv_ep, written>>

\* The server's send loop: Read, the filter, SendTo.  Without an endpoint the
\* send fails and the loop goes on: the step is a stutter.
ServerTun(p) ==
    /\ ServerSends(p)
    /\ last_recv_ep # NoEp
    /\ Cardinality(down) < MaxDown
    /\ down' = down \cup {[from |-> "server", to |-> last_recv_ep, pkt |-> p]}
    /\ sent' = [sent EXCEPT !.server = @ \cup {p}]
    /\ UNCHANGED <<local_tun_ip, ep, up, last_recv_ep, written>>

\* The client's receive loop: Receive, Write.  Here last_recv_ep only tells where
\* the datagram at hand came from, and what is not from the server is dropped.
ClientReceive(d) ==
    /\ d \in down /\ d.to = ep
    /\ down' \in {down, down \ {d}}
    /\ written' = IF d.from = "server" /\ d.pkt # NoPacket
                  THEN [written EXCEPT !.client = d.pkt] ELSE written
    /\ UNCHANGED <<local_tun_ip, ep, up, last_recv_ep, sent>>

LoseUp(d) ==
    /\ d \in up
    /\ up' = up \ {d}
    /\ UNCHANGED <<local_tun_ip, ep, down, last_recv_ep, sent, written>>

LoseDown(d) ==
    /\ d \in down
    /\ down' = down \ {d}
    /\ UNCHANGED <<local_tun_ip, ep, up, last_recv_ep, sent, written>>

\* A send failed: Reconnect closes the socket and opens another.
Reconnect ==
    /\ ep < MaxEps
    /\ ep' = ep + 1
    /\ UNCHANGED <<local_tun_ip, up, down, last_recv_ep, sent, written>>

Next ==
    \/ \E p \in Packets : ClientTun(p) \/ ServerTun(p)
    \/ \E d \in up : ServerReceive(d) \/ LoseUp(d)
    \/ \E d \in down : ClientReceive(d) \/ LoseDown(d)
    \/ Stray \/ StrayDown \/ Reconnect

Spec == Init /\ [][Next]_vars

\* The client has packets to send, the network does not lose every datagram of
\* the current socket, and nothing stays in flight for ever.
FairSpec ==
    /\ Spec
    /\ SF_vars(\E p \in Packets : ClientTun(p))
    /\ SF_vars(\E d \in up : d.from = ep /\ ServerReceive(d))
    /\ WF_vars(\E d \in up : d.from # ep /\ LoseUp(d))

-----------------------------------------------------------------------------
TypeOK ==
    /\ local_tun_ip \in {"client", "else"}
    /\ ep \in ClientEps
    /\ up \subseteq [from : 1 .. Other, pkt : Packets \cup {NoPacket}]
    /\ down \subseteq [from : {"server", "other"}, to : 1 .. Other,
                        pkt : Packets \cup {NoPacket}]
    /\ last_recv_ep \in NoEp .. Other
    /\ sent \in [client : SUBSET Packets, server : SUBSET Packets]
    /\ written \in [client : Packets \cup {NoPacket}, server : Packets \cup {NoPacket}]

\* The two hosts implement Tunnel over a network that loses, copies, delays and
\* makes up datagrams, and through the reconnections of the client.  What follows
\* from it:
Abstract == INSTANCE Tunnel

ImplementsTunnel == Abstract!Spec

\* Each tun device is handed only what came out of the other: no loss, copy,
\* delay or stray datagram makes a packet up.
NothingMadeUp ==
    /\ written.server \in sent.client \cup {NoPacket}
    /\ written.client \in sent.server \cup {NoPacket}

\* IConnection.h:29, on Receive: "the IP Dst is guaranteed to be LOCAL_TUN_IP/(6)
\* by the server".
DstIsClient == written.client # NoPacket => written.client.dst = "client"

\* An IPv4 packet the server lets onto its network bears the address it has for
\* the client, whatever address the client is configured with.
SrcIsClient == written.server.ver = 4 => written.server.src = "client"

\* The server finds the client's new socket, although datagrams of the old one
\* keep coming.
ServerFollows ==
    \A e \in ClientEps :
        ep = e ~> last_recv_ep = e \/ ep # e
=============================================================================
