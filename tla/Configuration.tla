--------------------------- MODULE Configuration ---------------------------
(***************************************************************************)
(* What Context::InitByFile makes of config.yaml, before it touches the    *)
(* host: whether it goes on, and the context_detail it goes on with.       *)
(*                                                                         *)
(* A file is a record of the values of its keys, Missing if a key is not   *)
(* there or does not convert.  For the tun keys that counts as "auto".     *)
(* Addresses are known by their role: "server" and "client" are the        *)
(* defaults, "auto" is the string that is no address.                      *)
(***************************************************************************)
EXTENDS Integers

CONSTANTS
    Missing,    \* there is no such key
    Ports       \* ports, any of which an uninitialised uint16_t may hold

DefaultMTU == 1500 - 52

\* YamlHelper::Parse of a key: ReturnValue::error is not set.
Has(file, key) == file[key] # Missing

Flip(role) == IF role = "server" THEN "client" ELSE "server"

\* res.value == "true": whatever else is there means client.
Role(file) == IF file.is_server = "true" THEN "server" ELSE "client"

\* Faulty: what only a later version speaks is let through.
AcceptsUtcp(file, platform) ==
    /\ Has(file, "is_server")
    /\ Role(file) = "server" => platform = "linux"
    /\ Has(file, "conn_key")
    /\ Has(file, "conn_protocol")
    /\ Has(file, "server_ip_or_name")

\* The keys that InitByFile does not go on without.  Whether it has a port is
\* asked of the variable of the key before.
Accepts(file, platform) ==
    /\ Has(file, "is_server")
    /\ Role(file) = "server" => platform = "linux"
    /\ Has(file, "conn_key")
    /\ Has(file, "conn_protocol") /\ file.conn_protocol # "utcp"
    /\ Has(file, "server_ip_or_name")

\* A name that is none of the three leaves the member as it was.
Protocol(file) ==
    IF file.conn_protocol \in {"udp", "tcp", "utcp"} THEN file.conn_protocol ELSE "udp"

LocalTunIP(file) ==
    IF Has(file, "local_tun_ip") THEN file.local_tun_ip ELSE Role(file)

\* Faulty: the branches of one of the two defaults are swapped.
RemoteTunIPSwapped(file) ==
    IF Has(file, "remote_tun_ip") THEN "auto" ELSE Role(file)

\* A value that is configured is not taken over.
RemoteTunIP(file) ==
    IF Has(file, "remote_tun_ip") THEN "auto" ELSE Flip(Role(file))

\* Faulty: the port is taken over as it was parsed.
DetailsRaw(file) ==
    { [ role |-> Role(file), ipv6 |-> file.ipv6 \in {Missing, "true"},
        mtu |-> IF Has(file, "mtu") THEN file.mtu ELSE DefaultMTU,
        local_tun_ip |-> LocalTunIP(file), remote_tun_ip |-> RemoteTunIP(file),
        conn_protocol |-> Protocol(file), server_port |-> file.server_port ] }

\* The contexts that the file may lead to.
Details(file) ==
    { [ role           |-> Role(file),
        ipv6           |-> file.ipv6 \in {Missing, "true"},
        mtu            |-> IF Has(file, "mtu") THEN file.mtu ELSE DefaultMTU,
        local_tun_ip   |-> LocalTunIP(file),
        remote_tun_ip  |-> RemoteTunIP(file),
        conn_protocol  |-> Protocol(file),
        server_port    |-> p ] :
      p \in IF Has(file, "server_port") THEN {file.server_port} ELSE Ports }
=============================================================================
