----------------------------- MODULE MCUDPTunnel -----------------------------
(* UDPTunnel with one packet of every kind that the filters tell apart.     *)
EXTENDS UDPTunnel

MCPackets ==
    { [ver |-> 4, src |-> "client", dst |-> "else"],
      [ver |-> 4, src |-> "else", dst |-> "else"],
      [ver |-> 6, src |-> "client", dst |-> "else"],
      [ver |-> 6, src |-> "else", dst |-> "else"],
      [ver |-> 4, src |-> "else", dst |-> "client"],
      [ver |-> 6, src |-> "else", dst |-> "client"],
      [ver |-> 5, src |-> "client", dst |-> "client"] }

\* Server.cpp:119 "Local Tun IPv4 mismatch, config {}, get {}" (the source) and
\* 127 "Local Tun IPv6 mismatch": what the server refuses is a packet that does
\* not come from the client.
ClientIsAccepted ==
    [][\A d \in up :
          ServerReceive(d) /\ d.pkt.src = "client" => written'.server = d.pkt]_vars
=============================================================================
