---------------------------- MODULE ClientRoutes ----------------------------
(***************************************************************************)
(* What the client does to the routing of its host: the commands of        *)
(* src/route/RouteImplLinux.cpp or RouteImplOSX.cpp, one step each, as     *)
(* Reconnect and Stop run them, and what the kernel makes of them.  Nobody *)
(* looks at the exit status of a command, and any command that adds        *)
(* something may fail; one that deletes fails if there is nothing to       *)
(* delete.                                                                 *)
(*                                                                         *)
(* On Linux policy rules lead past the main table, which holds a route to  *)
(* the server; on macOS two routes, each to one half of all addresses, go  *)
(* before the default route in the one table there is.                     *)
(*                                                                         *)
(* The process may be killed between any two commands and started again:   *)
(* the rules and the host route stay, the tun device takes its routes with *)
(* it.  The default gateway of the host changes, and its link goes down    *)
(* and comes back.                                                         *)
(***************************************************************************)
EXTENDS Naturals, Sequences, SequencesExt

CONSTANTS
    Gateways,   \* default gateways the host may have
    NoGateway,  \* there is no default route
    IPv6,       \* Context::IPv6()
    MaxRuns     \* bound: how often Reconnect runs, over all processes

ASSUME ClientRoutesAssumption ==
    /\ NoGateway \notin Gateways
    /\ IPv6 \in BOOLEAN
    /\ MaxRuns \in Nat

Families == IF IPv6 THEN {4, 6} ELSE {4}

Halves == {"low", "high"}

VARIABLES
    platform,   \* "linux" or "osx"
    gw,         \* the default gateway of the main table
    host,       \* the route to $EXT_IP in the main table: its gateway, or none
    tunRoutes,  \* the routes into the tun device, by the commands that add them
    rules,      \* the rules added, the one looked at first in front
    io,         \* the thread of Reconnect: where it is, commands left, gateway read
    lacks,      \* what the last Set was to add and is not there: its command
                \* failed, or the route went with the link
    stop,       \* the thread of Stop: where it is, commands left, and whether
                \* it has met no Reconnect
    runs

kernel == <<platform, gw, host, tunRoutes, rules>>
vars == <<kernel, lacks, io, stop, runs>>

Cmd(what, f) == [what |-> what, fam |-> f]

HalfRoutes(f) == << Cmd("low", f), Cmd("high", f) >>

\* On macOS every route that is added is deleted.
RouteCommands ==
    << Cmd("host", 4) >> \o HalfRoutes(4) \o IF IPv6 THEN HalfRoutes(6) ELSE <<>>

TunnelRules(f) == << Cmd("tunnel", f), Cmd("main", f) >>

\* Faulty: the rule for the local traffic names a table of its own.
SetCommandsLocal ==
    IF platform = "osx" THEN RouteCommands
    ELSE << Cmd("table", 4), Cmd("host", 4), Cmd("tunnel", 4), Cmd("local", 4) >>

\* Faulty: IPv6 gets half of its routes.
SetCommandsHalf ==
    IF platform = "osx"
    THEN << Cmd("host", 4) >> \o HalfRoutes(4) \o IF IPv6 THEN << Cmd("low", 6) >> ELSE <<>>
    ELSE << Cmd("table", 4), Cmd("host", 4) >> \o TunnelRules(4)
         \o IF IPv6 THEN << Cmd("table", 6) >> \o TunnelRules(6) ELSE <<>>

\* "ip route", "ip rule" and "route" commands in the order of the code.
SetCommands ==
    IF platform = "osx" THEN RouteCommands
    ELSE << Cmd("table", 4), Cmd("host", 4) >> \o TunnelRules(4)
         \o IF IPv6 THEN << Cmd("table", 6) >> \o TunnelRules(6) ELSE <<>>

\* Faulty: the rule for the main table, and the route of one half, stay.
UnsetTunnelOnly ==
    IF platform = "osx" THEN << Cmd("host", 4), Cmd("low", 4), Cmd("low", 6) >>
    ELSE << Cmd("tunnel", 4), Cmd("host", 4) >>
         \o IF IPv6 THEN << Cmd("tunnel", 6) >> ELSE <<>>

\* Of the tunnel's routes only those in the main table are deleted.
UnsetCommands ==
    IF platform = "osx" THEN RouteCommands
    ELSE << Cmd("tunnel", 4), Cmd("host", 4), Cmd("main", 4) >>
         \o IF IPv6 THEN TunnelRules(6) ELSE <<>>

Idle == [at |-> "down", cmds |-> <<>>, via |-> NoGateway]

NoStop == [at |-> "none", cmds |-> <<>>, alone |-> TRUE]

Init ==
    /\ platform \in {"linux", "osx"}
    /\ gw \in Gateways
    /\ host = NoGateway
    /\ tunRoutes = {}
    /\ rules = [f \in Families |-> <<>>]
    /\ lacks = {}
    /\ io = Idle
    /\ stop = NoStop
    /\ runs = 0

-----------------------------------------------------------------------------
(* The kernel.                                                             *)

\* Faulty: a rule without a priority of its own is looked at last.
AddedBehind(f, r) == [rules EXCEPT ![f] = IF r \in ToSet(@) THEN @ ELSE Append(@, r)]

\* A rule added without a priority goes before those there are; the same rule is
\* not added twice.
Added(f, r) == [rules EXCEPT ![f] = IF r \in ToSet(@) THEN @ ELSE <<r>> \o @]

\* What a command of Set does when it succeeds, via being the gateway read when Set
\* began: without one the command for the host route is not even well-formed.
Add(c, via) ==
    CASE c.what = "host" -> /\ via # NoGateway
                            /\ host' = IF host = NoGateway THEN via ELSE host
                            /\ UNCHANGED <<tunRoutes, rules>>
      [] c.what \in Halves \cup {"table"} ->
                            tunRoutes' = tunRoutes \cup {c} /\ UNCHANGED <<host, rules>>
      [] OTHER           -> rules' = Added(c.fam, c.what) /\ UNCHANGED <<host, tunRoutes>>

\* Faulty: the host route is deleted by the gateway the host has now.
DeleteVia(c) ==
    CASE c.what = "host"    -> /\ host' = (IF host = gw THEN NoGateway ELSE host)
                               /\ UNCHANGED <<tunRoutes, rules>>
      [] c.what \in Halves -> tunRoutes' = tunRoutes \ {c} /\ UNCHANGED <<host, rules>>
      [] OTHER              -> /\ rules' = [rules EXCEPT ![c.fam] = RemoveFirst(@, c.what)]
                               /\ UNCHANGED <<host, tunRoutes>>

\* What a command of Unset does.
Delete(c) ==
    CASE c.what = "host"    -> host' = NoGateway /\ UNCHANGED <<tunRoutes, rules>>
      [] c.what \in Halves -> tunRoutes' = tunRoutes \ {c} /\ UNCHANGED <<host, rules>>
      [] OTHER              -> /\ rules' = [rules EXCEPT ![c.fam] = RemoveFirst(@, c.what)]
                               /\ UNCHANGED <<host, tunRoutes>>

\* Does rule r let a packet, to the server or elsewhere, out; and where to.
Matches(r, f, toServer) ==
    IF r = "main" THEN toServer /\ host # NoGateway ELSE Cmd("table", f) \in tunRoutes

Out(r) == IF r = "main" THEN host ELSE "tunnel"

\* The main table: the route with the longest prefix.
Main(f, half, toServer) ==
    IF toServer /\ host # NoGateway THEN host
    ELSE IF Cmd(half, f) \in tunRoutes THEN "tunnel" ELSE gw

\* The way of a packet, to an address in one half of all: the rules in turn, then
\* the main table.
Way(f, half, toServer) ==
    LET hits == {i \in DOMAIN rules[f] : Matches(rules[f][i], f, toServer)}
    IN  IF hits # {} THEN Out(rules[f][Min(hits)]) ELSE Main(f, half, toServer)

-----------------------------------------------------------------------------
(* Reconnect, and Stop on the other thread.                                *)

\* Reconnect begins, in a new process or after a send error.
Reconnect ==
    /\ io.at \in {"down", "up"}
    /\ runs < MaxRuns
    /\ runs' = runs + 1
    /\ io' = [at |-> "unset", cmds |-> UnsetCommands, via |-> NoGateway]
    /\ stop' = [stop EXCEPT !.alone = stop.at = "none"]
    /\ UNCHANGED <<kernel, lacks>>

Unset ==
    /\ io.at = "unset"
    /\ IF io.cmds = <<>>
       THEN io' = [io EXCEPT !.at = "connect"] /\ UNCHANGED <<host, tunRoutes, rules>>
       ELSE Delete(Head(io.cmds)) /\ io' = [io EXCEPT !.cmds = Tail(@)]
    /\ UNCHANGED <<platform, gw, lacks, stop, runs>>

\* The connection is up; SetClientDefaultRoute asks for the gateway.
SetBegins ==
    /\ io.at = "connect"
    /\ io' = [at |-> "set", cmds |-> SetCommands, via |-> gw]
    /\ lacks' = {}
    /\ UNCHANGED <<kernel, stop, runs>>

\* A command runs, or fails, and the next one runs whatever came of it: with a
\* gateway that is the host's no more, or a server with an IPv6 address, the
\* command for the host route fails.
Set ==
    /\ io.at = "set"
    /\ \/ /\ io.cmds = <<>>
          /\ io' = [io EXCEPT !.at = "up"]
          /\ UNCHANGED <<host, tunRoutes, rules, lacks>>
       \/ /\ io.cmds # <<>>
          /\ Add(Head(io.cmds), io.via)
          /\ io' = [io EXCEPT !.cmds = Tail(@)]
          /\ UNCHANGED lacks
       \/ /\ io.cmds # <<>>
          /\ io' = [io EXCEPT !.cmds = Tail(@)]
          /\ lacks' = lacks \cup {Head(io.cmds)}
          /\ UNCHANGED <<host, tunRoutes, rules>>
    /\ UNCHANGED <<platform, gw, stop, runs>>

Stop ==
    /\ io.at # "down" /\ stop.at = "none"
    /\ stop' = [at |-> "unset", cmds |-> UnsetCommands, alone |-> io.at = "up"]
    /\ UNCHANGED <<kernel, lacks, io, runs>>

StopUnset ==
    /\ stop.at = "unset"
    /\ IF stop.cmds = <<>>
       THEN stop' = [stop EXCEPT !.at = "done"] /\ UNCHANGED <<host, tunRoutes, rules>>
       ELSE Delete(Head(stop.cmds)) /\ stop' = [stop EXCEPT !.cmds = Tail(@)]
    /\ UNCHANGED <<platform, gw, lacks, io, runs>>

\* The process ends, having stopped or killed, and the tun device with it.
Exit ==
    /\ io.at # "down"
    /\ io' = Idle
    /\ stop' = NoStop
    /\ tunRoutes' = {}
    /\ UNCHANGED <<platform, gw, host, rules, lacks, runs>>

Roam ==
    /\ gw' \in Gateways
    /\ UNCHANGED <<platform, host, tunRoutes, rules, lacks, io, stop, runs>>

\* Routes over the link go with it.
LinkDown ==
    /\ gw' = NoGateway
    /\ host' = NoGateway
    /\ lacks' = IF host # NoGateway THEN lacks \cup {Cmd("host", 4)} ELSE lacks
    /\ UNCHANGED <<platform, tunRoutes, rules, io, stop, runs>>

Next ==
    \/ Reconnect \/ Unset \/ SetBegins \/ Set
    \/ Stop \/ StopUnset \/ Exit \/ Roam \/ LinkDown

Spec == Init /\ [][Next]_vars

-----------------------------------------------------------------------------
TypeOK ==
    /\ platform \in {"linux", "osx"}
    /\ gw \in Gateways \cup {NoGateway}
    /\ host \in Gateways \cup {NoGateway}
    /\ tunRoutes \subseteq [what : Halves \cup {"table"}, fam : Families]
    /\ rules \in [Families -> Seq({"tunnel", "main"})]
    /\ lacks \subseteq [what : {"host", "tunnel", "main", "table"} \cup Halves, fam : Families]
    /\ io.at \in {"down", "unset", "connect", "set", "up"}
    /\ io.via \in Gateways \cup {NoGateway}
    /\ stop.at \in {"none", "unset", "done"}
    /\ runs \in 0 .. MaxRuns

\* Nothing of the client's is left where the host's own packets meet it.
Clean ==
    /\ host = NoGateway
    /\ \A f \in Families : rules[f] = <<>>
    /\ tunRoutes \subseteq [what : {"table"}, fam : Families]

\* The client looks for the server, and reads the default gateway, in a routing
\* that has nothing left of an earlier connection, or of a process that was
\* killed between any two commands.
CleanWhenConnecting == io.at = "connect" => Clean

\* What leads a packet into the tunnel.
Leads(f, half) ==
    IF platform = "osx" THEN {Cmd(half, f)} ELSE {Cmd("table", f), Cmd("tunnel", f)}

\* With the tunnel up the host's packets go into it, of both families and to
\* either half of the addresses, unless one of the two commands that lead them
\* there (on macOS, the one) has failed; no other failure, and nothing an earlier
\* process has left, keeps them out.
TunnelCarries ==
    io.at = "up" /\ stop.at = "none" =>
        \A f \in Families, half \in Halves :
            Leads(f, half) \cap lacks = {} => Way(f, half, FALSE) = "tunnel"

\* And the tunnel's own go past it, by the gateway that Set has read and by no
\* older one, unless the command for the host route or that for the main table
\* has failed, or the link has taken the route with it.  In those cases they go
\* into the tunnel, and the code does nothing about it.
ServerBypasses ==
    io.at = "up" /\ stop.at = "none" /\ {Cmd("host", 4), Cmd("main", 4)} \cap lacks = {} =>
        io.via \in Gateways /\ \A half \in Halves : Way(4, half, TRUE) = io.via

\* A Stop that meets no Reconnect leaves nothing of the client behind.
StopIsClean == stop.at = "done" /\ stop.alone => Clean
=============================================================================
