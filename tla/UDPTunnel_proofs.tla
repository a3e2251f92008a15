--------------------------- MODULE UDPTunnel_proofs ---------------------------
(***************************************************************************)
(* UDPTunnel implements Tunnel for any packets, any number of sockets of   *)
(* the client and any number of datagrams in flight; what each side hands  *)
(* to its tun device follows.                                              *)
(*                                                                         *)
(* Carried is what makes it inductive: whatever is in flight and opens was *)
(* sent by the other side, through its filter, however long it has been    *)
(* under way and from whichever socket it came.                            *)
(***************************************************************************)
EXTENDS UDPTunnel, TLAPS

Carried ==
    /\ \A d \in up : d.pkt # NoPacket => d.pkt \in sent.client
    /\ \A d \in down : d.pkt # NoPacket => d.pkt \in sent.server
    /\ \A p \in sent.server : ServerSends(p)

Written ==
    /\ written.client # NoPacket => written.client \in sent.server
    /\ written.server # NoPacket =>
           written.server \in sent.client /\ ServerAccepts(written.server)

IInv == TypeOK /\ Carried /\ Written

Sent == [client : SUBSET Packets, server : SUBSET Packets]

LEMMA NoPacketIsNone == NoPacket \notin Packets
BY UDPTunnelAssumption DEF NoPacket

LEMMA Endpoints == /\ \A e \in ClientEps : e \in 1 .. Other /\ e + 1 \in 1 .. Other
                   /\ Other \in 1 .. Other
                   /\ \A e \in 1 .. Other : e \in NoEp .. Other
BY UDPTunnelAssumption DEF ClientEps, Other, NoEp

LEMMA InitIInv == Init => IInv
<1> SUFFICES ASSUME Init PROVE IInv
  OBVIOUS
<1>1. TypeOK
  BY UDPTunnelAssumption DEF Init, TypeOK, ClientEps, NoEp, Other
<1>2. Carried /\ Written
  BY DEF Init, Carried, Written
<1>q. QED
  BY <1>1, <1>2 DEF IInv

-----------------------------------------------------------------------------
(* One lemma per kind of step.                                             *)

LEMMA ClientTunStep ==
    ASSUME IInv, NEW p \in Packets, ClientTun(p)
    PROVE  IInv' /\ Abstract!Enter("client", p)
<1> USE DEF IInv
<1>1. /\ up' = up \cup {[from |-> ep, pkt |-> p]}
      /\ sent' = [sent EXCEPT !.client = @ \cup {p}]
      /\ UNCHANGED <<local_tun_ip, ep, down, last_recv_ep, written>>
  BY DEF ClientTun
<1>2. sent \in Sent
  BY DEF TypeOK, Sent
<1>3. sent' \in Sent /\ sent'.client = sent.client \cup {p} /\ sent'.server = sent.server
  BY <1>1, <1>2 DEF Sent
<1>4. TypeOK'
  <2>1. [from |-> ep, pkt |-> p] \in [from : 1 .. Other, pkt : Packets \cup {NoPacket}]
    BY Endpoints DEF TypeOK
  <2>q. QED
    BY <1>1, <1>3, <2>1 DEF TypeOK, Sent
<1>5. Carried'
  <2>1. \A d \in up' : d.pkt # NoPacket => d.pkt \in sent'.client
    BY <1>1, <1>3 DEF Carried
  <2>q. QED
    BY <1>1, <1>3, <2>1 DEF Carried
<1>6. Written'
  BY <1>1, <1>3 DEF Written
<1>7. Abstract!Admits("client", p)
  BY DEF ClientTun, ClientSends, IsIP, Abstract!Admits
<1>q. QED
  BY <1>1, <1>4, <1>5, <1>6, <1>7 DEF Abstract!Enter

LEMMA ServerTunStep ==
    ASSUME IInv, NEW p \in Packets, ServerTun(p)
    PROVE  IInv' /\ Abstract!Enter("server", p)
<1> USE DEF IInv
<1>1. /\ down' = down \cup {[from |-> "server", to |-> last_recv_ep, pkt |-> p]}
      /\ sent' = [sent EXCEPT !.server = @ \cup {p}]
      /\ UNCHANGED <<local_tun_ip, ep, up, last_recv_ep, written>>
      /\ ServerSends(p) /\ last_recv_ep # NoEp
  BY DEF ServerTun
<1>2. sent \in Sent
  BY DEF TypeOK, Sent
<1>3. sent' \in Sent /\ sent'.server = sent.server \cup {p} /\ sent'.client = sent.client
  BY <1>1, <1>2 DEF Sent
<1>4. TypeOK'
  <2>1. last_recv_ep \in 1 .. Other
    BY <1>1, UDPTunnelAssumption DEF TypeOK, NoEp, Other
  <2>2. [from |-> "server", to |-> last_recv_ep, pkt |-> p]
            \in [from : {"server", "other"}, to : 1 .. Other, pkt : Packets \cup {NoPacket}]
    BY <2>1
  <2>q. QED
    BY <1>1, <1>3, <2>2 DEF TypeOK, Sent
<1>5. Carried'
  <2>1. \A d \in down' : d.pkt # NoPacket => d.pkt \in sent'.server
    BY <1>1, <1>3 DEF Carried
  <2>2. \A q \in sent'.server : ServerSends(q)
    BY <1>1, <1>3 DEF Carried
  <2>q. QED
    BY <1>1, <1>3, <2>1, <2>2 DEF Carried, ServerSends
<1>6. Written'
  BY <1>1, <1>3 DEF Written, ServerAccepts
<1>7. Abstract!Admits("server", p)
  BY <1>1 DEF ServerSends, IsIP, Abstract!Admits
<1>q. QED
  BY <1>1, <1>4, <1>5, <1>6, <1>7 DEF Abstract!Enter

LEMMA ServerReceiveStep ==
    ASSUME IInv, NEW d \in up, ServerReceive(d)
    PROVE  IInv' /\ (Abstract!Leave("server", d.pkt) \/ UNCHANGED Abstract!vars)
<1> USE DEF IInv
<1>1. /\ up' \in {up, up \ {d}}
      /\ last_recv_ep' = d.from
      /\ UNCHANGED <<local_tun_ip, ep, down, sent>>
  BY DEF ServerReceive
<1>2. d.from \in NoEp .. Other /\ d.pkt \in Packets \cup {NoPacket}
  BY Endpoints DEF TypeOK
<1>3. up' \subseteq up
  BY <1>1
<1>4. Carried'
  BY <1>1, <1>3 DEF Carried, ServerSends
<1>5. CASE d.pkt # NoPacket /\ ServerAccepts(d.pkt)
  <2>1. written' = [written EXCEPT !.server = d.pkt]
    BY <1>5 DEF ServerReceive
  <2>2. written'.server = d.pkt /\ written'.client = written.client
    BY <2>1 DEF TypeOK
  <2>3. TypeOK'
    BY <1>1, <1>2, <1>3, <2>1 DEF TypeOK
  <2>4. d.pkt \in sent.client
    BY <1>5 DEF Carried
  <2>5. Written'
    BY <1>1, <1>5, <2>2, <2>4 DEF Written, ServerAccepts
  <2>6. Abstract!Leave("server", d.pkt)
    BY <1>1, <1>5, <2>1, <2>4
       DEF Abstract!Leave, Abstract!Peer, Abstract!Releases, ServerAccepts, IsIP
  <2>q. QED
    BY <1>4, <2>3, <2>5, <2>6
<1>6. CASE ~(d.pkt # NoPacket /\ ServerAccepts(d.pkt))
  <2>1. written' = written
    BY <1>6 DEF ServerReceive
  <2>2. TypeOK'
    BY <1>1, <1>2, <1>3, <2>1 DEF TypeOK
  <2>3. Written'
    BY <1>1, <2>1 DEF Written, ServerAccepts
  <2>q. QED
    BY <1>1, <1>4, <2>1, <2>2, <2>3 DEF Abstract!vars
<1>q. QED
  BY <1>5, <1>6

LEMMA ClientReceiveStep ==
    ASSUME IInv, NEW d \in down, ClientReceive(d)
    PROVE  IInv' /\ (Abstract!Leave("client", d.pkt) \/ UNCHANGED Abstract!vars)
<1> USE DEF IInv
<1>1. /\ down' \in {down, down \ {d}}
      /\ UNCHANGED <<local_tun_ip, ep, up, last_recv_ep, sent>>
  BY DEF ClientReceive
<1>2. d.pkt \in Packets \cup {NoPacket}
  BY DEF TypeOK
<1>3. down' \subseteq down
  BY <1>1
<1>4. Carried'
  BY <1>1, <1>3 DEF Carried, ServerSends
<1>5. CASE d.from = "server" /\ d.pkt # NoPacket
  <2>1. written' = [written EXCEPT !.client = d.pkt]
    BY <1>5 DEF ClientReceive
  <2>2. written'.client = d.pkt /\ written'.server = written.server
    BY <2>1 DEF TypeOK
  <2>3. d.pkt \in sent.server
    BY <1>5 DEF Carried
  <2>4. TypeOK'
    BY <1>1, <1>2, <1>3, <2>1 DEF TypeOK
  <2>5. Written'
    BY <1>1, <2>2, <2>3 DEF Written, ServerAccepts
  <2>6. Abstract!Leave("client", d.pkt)
    BY <1>1, <2>1, <2>3 DEF Abstract!Leave, Abstract!Peer, Abstract!Releases
  <2>q. QED
    BY <1>4, <2>4, <2>5, <2>6
<1>6. CASE ~(d.from = "server" /\ d.pkt # NoPacket)
  <2>1. written' = written
    BY <1>6 DEF ClientReceive
  <2>2. TypeOK'
    BY <1>1, <1>3, <2>1 DEF TypeOK
  <2>3. Written'
    BY <1>1, <2>1 DEF Written, ServerAccepts
  <2>q. QED
    BY <1>1, <1>4, <2>1, <2>2, <2>3 DEF Abstract!vars
<1>q. QED
  BY <1>5, <1>6

\* The network and Reconnect do nothing that the users of the tun devices see.
LEMMA NetworkStep ==
    ASSUME IInv,
           \/ Stray \/ StrayDown
           \/ Reconnect
           \/ \E d \in up : LoseUp(d)
           \/ \E d \in down : LoseDown(d)
           \/ UNCHANGED vars
    PROVE  IInv' /\ UNCHANGED Abstract!vars
<1> USE DEF IInv
<1>1. CASE Stray
  <2>1. [from |-> Other, pkt |-> NoPacket] \in [from : 1 .. Other, pkt : Packets \cup {NoPacket}]
    BY Endpoints
  <2>2. TypeOK'
    BY <1>1, <2>1 DEF Stray, TypeOK
  <2>3. Carried' /\ Written'
    BY <1>1 DEF Stray, Carried, Written, ServerSends, ServerAccepts
  <2>q. QED
    BY <1>1, <2>2, <2>3 DEF Stray, Abstract!vars
<1>2. CASE Reconnect
  <2>1. ep' \in ClientEps
    BY <1>2, UDPTunnelAssumption DEF Reconnect, TypeOK, ClientEps
  <2>q. QED
    BY <1>2, <2>1 DEF Reconnect, TypeOK, Carried, Written, ServerSends, ServerAccepts,
                      Abstract!vars
<1>3. CASE \E d \in up : LoseUp(d)
  BY <1>3 DEF LoseUp, TypeOK, Carried, Written, ServerSends, ServerAccepts, Abstract!vars
<1>4. CASE \E d \in down : LoseDown(d)
  BY <1>4 DEF LoseDown, TypeOK, Carried, Written, ServerSends, ServerAccepts, Abstract!vars
<1>5. CASE UNCHANGED vars
  BY <1>5 DEF vars, TypeOK, Carried, Written, ServerSends, ServerAccepts, Abstract!vars
<1>6. CASE StrayDown
  <2>1. PICK host \in {"server", "other"}, p \in sent.server \cup {NoPacket} :
            down' = down \cup {[from |-> host, to |-> ep, pkt |-> p]}
    BY <1>6 DEF StrayDown
  <2>2. p \in Packets \cup {NoPacket} /\ ep \in 1 .. Other
    BY Endpoints DEF TypeOK
  <2>3. [from |-> host, to |-> ep, pkt |-> p]
            \in [from : {"server", "other"}, to : 1 .. Other, pkt : Packets \cup {NoPacket}]
    BY <2>2
  <2>4. TypeOK'
    BY <1>6, <2>1, <2>3 DEF StrayDown, TypeOK
  <2>5. \A d \in down' : d.pkt # NoPacket => d.pkt \in sent.server
    BY <2>1 DEF Carried
  <2>6. Carried' /\ Written'
    BY <1>6, <2>5 DEF StrayDown, Carried, Written, ServerSends, ServerAccepts
  <2>q. QED
    BY <1>6, <2>4, <2>6 DEF StrayDown, Abstract!vars
<1>q. QED
  BY <1>1, <1>2, <1>3, <1>4, <1>5, <1>6

LEMMA NextStep == IInv /\ [Next]_vars => IInv' /\ [Abstract!Next]_(Abstract!vars)
<1> SUFFICES ASSUME IInv, [Next]_vars
             PROVE  IInv' /\ [Abstract!Next]_(Abstract!vars)
  OBVIOUS
<1>1. CASE \E p \in Packets : ClientTun(p)
  BY <1>1, ClientTunStep DEF Abstract!Next
<1>2. CASE \E p \in Packets : ServerTun(p)
  BY <1>2, ServerTunStep DEF Abstract!Next
<1>3. CASE \E d \in up : ServerReceive(d)
  <2>1. PICK d \in up : ServerReceive(d)
    BY <1>3
  <2>2. IInv' /\ (Abstract!Leave("server", d.pkt) \/ UNCHANGED Abstract!vars)
    BY <2>1, ServerReceiveStep
  <2>3. Abstract!Leave("server", d.pkt) => d.pkt \in Packets
    BY DEF Abstract!Leave, Abstract!Peer, IInv, TypeOK
  <2>q. QED
    BY <2>2, <2>3 DEF Abstract!Next
<1>4. CASE \E d \in down : ClientReceive(d)
  <2>1. PICK d \in down : ClientReceive(d)
    BY <1>4
  <2>2. IInv' /\ (Abstract!Leave("client", d.pkt) \/ UNCHANGED Abstract!vars)
    BY <2>1, ClientReceiveStep
  <2>3. Abstract!Leave("client", d.pkt) => d.pkt \in Packets
    BY DEF Abstract!Leave, Abstract!Peer, IInv, TypeOK
  <2>q. QED
    BY <2>2, <2>3 DEF Abstract!Next
<1>5. CASE \/ Stray \/ StrayDown
           \/ Reconnect
           \/ \E d \in up : LoseUp(d)
           \/ \E d \in down : LoseDown(d)
           \/ UNCHANGED vars
  BY <1>5, NetworkStep
<1>q. QED
  BY <1>1, <1>2, <1>3, <1>4, <1>5 DEF Next

-----------------------------------------------------------------------------
\* What is in flight, and what was written, was sent; for every bound.
THEOREM Invariance == Spec => []IInv
<1>1. IInv /\ [Next]_vars => IInv'
  BY NextStep
<1>q. QED
  BY InitIInv, <1>1, PTL DEF Spec

\* Endpoints, datagrams and the histories of both tun devices keep their types.
THEOREM TypeCorrect == Spec => []TypeOK
BY Invariance, PTL DEF IInv

\* The two hosts, with the loops of Client::Reconnect and Server::Run, implement
\* Tunnel.
THEOREM HostsImplementTunnel == Spec => ImplementsTunnel
<1>1. Init => Abstract!Init
  BY DEF Init, Abstract!Init
<1>q. QED
  BY <1>1, NextStep, Invariance, PTL DEF Spec, ImplementsTunnel, Abstract!Spec

\* No tun device is handed a packet that the other has not handed out.
THEOREM PacketsAreGenuine == Spec => []NothingMadeUp
<1>1. IInv => NothingMadeUp
  BY DEF IInv, TypeOK, Written, NothingMadeUp
<1>q. QED
  BY <1>1, Invariance, PTL

\* What Receive promises at IConnection.h:29, for any server whose send loop has
\* this filter.
THEOREM ClientIsAddressed == Spec => []DstIsClient
<1>1. IInv => DstIsClient
  BY DEF IInv, Carried, Written, DstIsClient, ServerSends
<1>q. QED
  BY <1>1, Invariance, PTL

\* The server forwards no IPv4 packet under another address than the client's.
THEOREM SourceIsClient == Spec => []SrcIsClient
<1>1. NoPacket.ver # 4
  BY DEF NoPacket
<1>2. IInv => SrcIsClient
  BY <1>1 DEF IInv, Written, SrcIsClient, ServerAccepts
<1>q. QED
  BY <1>2, Invariance, PTL
=============================================================================
