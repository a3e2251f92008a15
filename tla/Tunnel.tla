------------------------------- MODULE Tunnel -------------------------------
(***************************************************************************)
(* What the two hosts promise the users of their tun devices, whatever the *)
(* protocol between them and whatever the network does: a packet that      *)
(* comes out of one tun device has gone into the other and is one that the *)
(* addresses of both sides let through.  It may come late, more than once, *)
(* after a later one, or not at all.                                       *)
(***************************************************************************)
EXTENDS Naturals

CONSTANTS
    Packets,    \* IP version, and whether source and destination are the address
                \* the server has for the client
    NoPacket,   \* nothing has come out yet
    IPv6        \* the client carries IPv6

VARIABLES
    local_tun_ip,   \* is the client's own address the one the server has for it?
    sent,           \* what has gone into each tun device
    written         \* what has come out of each tun device last

vars == <<local_tun_ip, sent, written>>

Peer(side) == IF side = "client" THEN "server" ELSE "client"

\* What a host takes into the tunnel.
Admits(side, p) ==
    /\ p.ver \in {4, 6}
    /\ IF side = "server" THEN p.dst = "client"
       ELSE (p.ver = 4 /\ p.src = local_tun_ip) \/ (p.ver = 6 /\ IPv6)

\* What a host lets out of it: the client trusts the server.
Releases(side, p) ==
    side = "server" => (p.ver = 4 /\ p.src = "client") \/ (p.ver = 6 /\ p.dst = "client")

Init ==
    /\ local_tun_ip \in {"client", "else"}
    /\ sent = [client |-> {}, server |-> {}]
    /\ written = [client |-> NoPacket, server |-> NoPacket]

Enter(side, p) ==
    /\ Admits(side, p)
    /\ sent' = [sent EXCEPT ![side] = @ \cup {p}]
    /\ UNCHANGED <<local_tun_ip, written>>

Leave(side, p) ==
    /\ p \in sent[Peer(side)]
    /\ Releases(side, p)
    /\ written' = [written EXCEPT ![side] = p]
    /\ UNCHANGED <<local_tun_ip, sent>>

Next == \E side \in {"client", "server"}, p \in Packets : Enter(side, p) \/ Leave(side, p)

Spec == Init /\ [][Next]_vars
=============================================================================
