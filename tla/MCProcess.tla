------------------------------ MODULE MCProcess ------------------------------
(* Process with the files of a server and of a client in which up to two    *)
(* keys lack, or have another value.                                        *)
EXTENDS Process

Values ==
    [ is_server |-> {Missing, "true", "false"}, ipv6 |-> {Missing, "false"},
      mtu |-> {Missing, 0, 1280}, local_tun_ip |-> {Missing, "client", "server", "else"},
      remote_tun_ip |-> {Missing, "client", "server"}, conn_key |-> {Missing, "key"},
      conn_protocol |-> {Missing, "udp", "tcp", "utcp", "ucp"},
      server_ip_or_name |-> {Missing, "name"}, server_port |-> {Missing, 1800} ]

Usual ==
    [ is_server |-> "true", ipv6 |-> "false", mtu |-> 1280, local_tun_ip |-> Missing,
      remote_tun_ip |-> Missing, conn_key |-> "key", conn_protocol |-> "udp",
      server_ip_or_name |-> "name", server_port |-> 1800 ]

Changed(files) ==
    UNION { UNION { {[f EXCEPT ![k] = v] : v \in Values[k]} : k \in DOMAIN Values } :
            f \in files }

MCFiles == Changed(Changed({Usual, [Usual EXCEPT !.is_server = "false"]}))
=============================================================================
