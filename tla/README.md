# TLA+ models of dsvpn-re

dsvpn-re is a point-to-point VPN in C++ (Boost.Asio coroutines, libsodium): a
client and a server each own a tun device and carry IP packets between them,
sealed with AES-256-GCM under a shared key, over UDP or TCP. The client also
changes its host's routing so that all traffic takes the tunnel, and the server
installs the firewall rules that forward it. The repository has no tests and no
documentation besides its comments and log messages; the models are written
from the code, and the comments and messages are what findings quote.

## The system

| part | state | operations | meets |
|---|---|---|---|
| TCP transport (`connection/TCPConnection.h`) | `tcp_acceptor`, `conn_socket`, `replace_socket`, `selected`, `stopped`, `selected_signal`, two buffers | `Connect`, `Bind`, `Accept`, `tryReceive`, `Send`, `Receive`, `SendTo`, `ReceiveFrom`, `Close` | server and client loops, by calls; its own coroutines, by shared members |
| UDP transport (`connection/UDPConnection.cpp`) | `udp_socket`, `remote_send_ep`, `last_recv_ep` | the same interface | the same loops |
| Protocol (`connection/Protocol.cpp`, `AES-256-GCM.h`) | two scratch buffers | seal and open header and payload in place, add padding | both transports |
| Client (`Client.cpp`) | `connection`, `connect_mutex`, `stopped` | `Run`, `Reconnect`, the two loops, `Stop` | transport, tun device, Router, the signal handler on another thread |
| Server (`Server.cpp`) | `connection`, `context` | `Run`, the two loops with their filters, `Stop`, `CreateServer`, `DestroyServer` | transport, tun device, Router |
| Router (`route/`) | the host's routes, policy rules, iptables | set and unset the client's routes, add and delete the server's rules | the kernel, by shell commands whose status is not looked at |
| Tun device (`tun/`) | descriptor, `async_tasks_running` | `Create`, `Setup`, `Read`, `Write`, `Spawn`, `Close` | loops, Context |
| Context (`state/`) | configuration, captured interface | `InitByFile`, `Stop` | all |
| main, IOWorker (`main.cpp`, `utils/IOWorker.h`) | global `client`, `server`; io_contexts and threads | `main`, `signal_handler`, `Run`, `Stop` | all |

What is hard here:

* Five kinds of coroutine share the members of one TCPConnection; each runs
  alone from one wait to the next, and members it has read before a wait are
  used after it.
* One receive buffer serves the examination of new connections and the
  connection in service.
* SIGINT runs its handler on the main thread, which touches what the io thread
  is using, with no lock in common.
* A connection is replaced from inside one of its own loops.
* UDP datagrams of an earlier socket arrive after those of the current one.
* Routes and firewall rules outlive a process that is killed.

What makes each part correct: a transport hands out only packets its peer sent,
in order and once; members are never used empty; a dead connection is dropped
and a new one is woken up to; a packet comes out whole or not at all; the
client's tun device has one reader, its traffic is in the tunnel only while
somebody serves it, and a stop comes to an end; routes and rules are complete
while in use and gone afterwards, whatever was left by an earlier process.

`PROJECT.json` lists the hazards line by line, each with the properties that
cover it or the reason none does.

## The modules

| module | models | state and actions |
|---|---|---|
| `Configuration` | what `InitByFile` makes of the keys of config.yaml | operators on a file, a record of values; `Details` is the set of contexts it may lead to |
| `Process`, `MCProcess` | `main` in either role, `Server::Run` with the life of its loops, `Server::Stop`, IOWorker, the tun device | `main` and `sig`, the main thread and its handler; the pointers `server`, `connection`, `context` and main's own, `held`; the io thread with `rx`, `tx` and the posted `jobs` |
| `PacketRelay` | what the receiving half of a connection promises | packets arrived and handed out per peer |
| `TCPServer` | server side of `TCPConnection` with the loops of `Server::Run` | the members by name; `try[s]` one `tryReceive` per socket, `rx` and `tx` the loops, each with where it waits and what has come of it; `buf` the shared buffer as two slots |
| `Client` | `main`, the handler, `Client`, IOWorker | `main`, `sig`, `rec`: the two threads and where each is; `conn`, `stopped`, the route, loops `tx[g]`, `rx[g]` per connection |
| `Tunnel` | what the two hosts promise the users of their tun devices | what has gone into and come out of each |
| `UDPTunnel`, `MCUDPTunnel` | both UDP ends and the network between them | endpoints, datagrams in flight, `last_recv_ep`; one iteration of a loop is a step |
| `Framing` | sizes, padding, in-place opening, over UDP and TCP | one frame on its way, the receive buffer with the key behind it, the last result |
| `ClientRoutes` | the client's `ip` commands on Linux and `route` commands on macOS, and what the kernel makes of them | `platform`, `rules`, `tunRoutes`, `host`, the default gateway; commands left on each thread; `lacks`, those whose effect is not there |
| `ServerRules` | the server's `iptables` commands over several processes | each chain as the list of its rules; where `main` and the handler are |
| `TCPServer_proofs`, `Client_proofs`, `Framing_proofs`, `UDPTunnel_proofs`, `Process_proofs`, `ClientRoutes_proofs`, `ServerRules_proofs` | theorems | |
| `ListLemmas` | lemmas on lists without repetition, on appending and on `RemoveFirst`, for the two modules of commands | |

Conventions. An action is named for the function or the branch it models. In
`TCPServer` an asynchronous operation completes in one step (`op` becomes "ok",
"err" or "short") and its coroutine resumes in a later one, since Asio queues the
handler; everything up to the next wait is that one step. A stream is at a header,
a payload, its padding or at no boundary; a read cut short leaves in the buffer
what does not open, or a payload that lacks only padding, which does
(`LandSome`). In `Client` every
access to state the two threads share is a step, and `boost::asio::spawn` runs
the coroutine at once on the io thread and posts it from the main thread. In
`UDPTunnel` a loop iteration is a step, its waits being at its ends. `Process`
has a step for each call of the start whose failure, or a SIGINT after which,
makes a difference; what its loops carry is left to the other modules. In the two
modules of shell commands each command is a step, and the process may be killed
between any two. Definitions under a comment "Faulty" are plausible mistakes,
used only to see that the properties would notice them.

How the parts meet. `Process` follows a client up to `Client`'s first state and
a server through its whole life; `TCPServer` and `UDPTunnel` are the inside of
its `rx` and `tx`, `ServerRules` the commands of its `Setup`, `AddClient`,
`StopConnection` and `CloseTun`; `ClientRoutes` are those of `Client`'s
`Reconnect` and `Stop`; `Framing` is one frame of either transport.

`TCPServer` implements `PacketRelay` through the mapping in `RelaysPackets`
(arrived is the position of the stream, forwarded is `last`). `UDPTunnel`
implements `Tunnel` (`ImplementsTunnel`; the variables have the same names).

## The runs

Runs that pass:

| run | question | bound, and why it is enough |
|---|---|---|
| `tcp_packets` | does the server side relay packets, and only those, in order and once; does it lose nothing of a peer that has the buffer to itself; is a dead connection dropped? | two peers with the key, three frames: one is taken by `tryReceive`, two can mix with the other peer's; a peer is alone while no other has connected, so the same run holds the case of one |
| `tcp_sockets` | do the members stay consistent? | three sockets: one in service, one parked, one that overwrites it; one of them without the key |
| `client_process` | one tun reader, direct route while connecting, tunnel served unless the tun device fails, no empty pointer before SIGINT; does a send error lead back into the tunnel, a stop to the end of the process also without network and server, a replacement to the end of the old loop? | four connections: three replacements, the loops of two generations alive at once; both protocols |
| `process` | does nothing run on a tun device that is not set up; which files give two hosts that accept each other's packets; are the pointers there when they are used, before SIGINT and by `Stop`; does the Context outlive its tun device; does a SIGINT at any step end the process? | 236 files, those of a server and of a client with up to two keys missing or changed, an address also to the one that is the default; both platforms; one SIGINT. Two keys are enough for both addresses of a host to differ, and for a failure to follow a surprising value |
| `framing` | which packets come out, whole and once, over UDP and TCP, and which reach past a buffer? | sizes on both sides of 250, of MTUs, of 1500 (`MAX_BUFFSIZE`), of 1948 (the room behind a header) and of 3000 (both arrays of `Protocol`), MTUs on both sides of 1948 and of what runs through both buffers; shortest and longest padding |
| `udp_network` | do the two hosts implement `Tunnel`, and does the server find a client's new socket again? | two sockets of the client, two datagrams up (enough to reorder), one down; one packet of each kind the filters tell apart; datagrams of another host, and some that do not open, on both ways |
| `routes_kill` | is the client's routing complete while used, up to commands that failed, and clean otherwise? | three runs of `Reconnect`, two gateways, IPv4 and IPv6, Linux and macOS; any command that adds something may fail |
| `rules_restart` | is the firewall complete while serving, and do rules pile up? | three processes, two interfaces |

Every property of these is broken by at least one mistake named in
`PROJECT.json` under "mutants". Deadlock checking is off where the system stops
by itself: a process that ended, a server that was closed, or a bound reached.

Runs that refute a statement of the sources, one each:

| run | statement | what the code does |
|---|---|---|
| `tcp_write_error` | TCPConnection.h:152 "set flag and notify async_read let it closes the socket" | when the read failed first, the error path uses the `conn_socket` it has reset |
| `tcp_shared_buffer` | TCPConnection.h:164 "we don't have decrypt err in tcp" | another connection's bytes land in the buffer |
| `client_route` | Router.cpp:35 "Resetting Route Table", by `Stop` | SIGINT meets main in its first `Reconnect`, which goes on after `Stop` and sets the route; it looks at `stopped` only if the network is away or `Connect` fails |
| `udp_ipv6` | Server.cpp:127 "Local Tun IPv6 mismatch" | the client's IPv6 packets are judged by destination and dropped |

The models follow the code in places where it surprises, and no property above
asks for anything else there: `tryReceive` selects a socket whether or not its
first payload opens (TCPConnection.h:79); `ReceiveFrom` closes the connection of
now after the error of an earlier one (:192); `Close` does nothing while no
connection is selected, and the receive loop sleeps on (:221); a connection that
is parked while the loop has no read outstanding stays parked until the old one
fails by itself (:96); when `SendTo` fails while no header is being read, its
error path deselects the socket, nobody reads it any more, and one parked behind
it is never promoted (:154-157; `ParkedIsPromoted` names the case); a payload
read that ends early may return a packet together with its error, which ends the
loop (:212, Server.cpp:98), so that the `cancel` by which a new connection is to
replace the old one ends the service when only padding is missing; any error of
the tun device ends a loop for good, on the client with the route still in the
tunnel (Server.cpp:143, :156, Client.cpp:75, :137); a client's `Close`
over TCP closes nothing, since a client never sets `selected`; `Stop` may reset
the pointer between two attempts to connect, or let go of the connection in the
middle of one (Client.cpp:60), which is a use of a freed object; a command for
the host route that fails, or a link that takes the route with it, sends the
packets that carry the tunnel into the tunnel (RouteImplLinux.cpp:25), and with a
server that has an IPv6 address the command always fails (Resolver.h:18); a
packet of more than 1500 bytes never comes out (Protocol.cpp:45), and one for
which the buffers have no room is written past them, into the next member and in
the end over the key (Context.cpp:54 takes any tun.mtu); a `remote_tun_ip`
that is configured, were it with the default, is not taken over, and stays "auto"
(Context.cpp:64-67), which no packet bears; a file without a port is not refused, since the error of
the key before is tested (:118), and the port is whatever the member held; a
protocol name other than the three is "udp" (:91-101); `TunDevice::Create`
returns -1, which is true (TunDevice.cpp:28), and it is `SetMTU` of the empty
name that fails; after a failed `Bind` the process stays, without loops, until
SIGINT (Server.cpp:86). `Router::AddClient` and
`DeleteClient` end without the `return` they promise (Router.cpp:40); they are
taken to return all the same, as in the debug build that is the only one the
repository shows (cmake-build-debug).

### Fairness

* `TCPServer`: the io_context runs ready handlers (weak fairness of each
  coroutine's resumption), the kernel reports a dead peer, writes to the tun
  device return, with or without an error. A peer need not send, the tun device need not deliver, nobody
  need call `Close`.
* `Client`: both threads run, and a read that has failed is reported. The check
  of the network (`RecNetworkUp`) and an attempt to connect have no fairness:
  `StopTerminates` holds though both loops go round for ever. `Recovers` has as
  its premises that the network comes up (weak fairness of `RecNetworkUp`) and
  that attempts succeed in the end (strong fairness of `RecConnected`), which no
  code can give; `OldReceiverEnds` has the first of them, since the io thread
  runs no loop while a `Reconnect` on it waits for the network.
* `Process`: main, its handler and the io thread go on, an io_context runs the
  handlers that are ready, and writes return. Nobody need send a packet or
  SIGINT, no link need fail, and the tun device need not deliver.
* `UDPTunnel`: the client has packets to send, the network does not lose all
  datagrams of the current socket, and nothing stays in flight for ever.

## The proofs

`tlapm` checks every proof to the last leaf; constants are constrained only by
the named assumptions of each module.

* `TCPServer_proofs` (assumption `TCPServerAssumption`: sockets with the key are
  sockets, the empty pointer is none of them). The six safety properties of
  `tcp_sockets` are proved from one invariant `IInv`. None of them is inductive:
  that a socket under examination is in use nowhere else needs that a socket
  enters `try` once, fresh from the acceptor; that a parked socket leaves the line
  only by being promoted, or in the three ways `ParkedIsPromoted` names, needs how
  `selected`, `conn_socket` and `stopped` go together in each error path; that
  a sleeping loop is woken needs that it sleeps only while nothing is selected.
  On top of `IInv`, `Spec => RelaysPackets` needs `BufInv`: what a slot holds as
  sealed came from its stream and is newer than what was handed out, and what has
  been opened does not open again. Every step is shown to be an arrival, a
  hand-out, the end, or a stutter of `PacketRelay`; that packets are genuine and
  in order (`PacketsAreGenuine`, `PacketsAreInOrder`) is read off from it.
  `AloneSkipsNone` needs `AloneInv`, which ties what the buffer holds to how far
  the stream was read and to what the one reader waits for: a header that is in
  the buffer is that of the frame which is due, and a read that has failed is the
  last, since the peer is gone or the socket deselected. It also gives
  `AloneDecrypts`: the statement that `tcp_shared_buffer` refutes is right for a
  connection that is alone.
* `Client_proofs` (`ClientAssumption`). The invariant says where each thread is
  with respect to the loops: only the current connection has loops that run,
  except in the part of `Reconnect` that hands over, and the route is in the
  tunnel only outside of it, and stays there when the tun device fails. The
  protocol is a variable that keeps its initial
  value, so the theorems are about both.
* `Framing_proofs` (`FramingAssumption`: MTUs and packets have at least a byte,
  paddings are within the range of the code; nothing bounds the first two). The
  invariant says what the buffer carries over from one frame to the next, over
  UDP and TCP, and what MTU it takes to reach the key behind it; that a packet
  over `MAX_BUFFSIZE` never comes out, and every other one does if it fits, is
  then a matter of the cases of `Received`.
* `UDPTunnel_proofs` (`UDPTunnelAssumption`): `Spec => ImplementsTunnel`, and what
  follows for each host: `NothingMadeUp`, `DstIsClient`, `SrcIsClient`, which no
  run repeats. `Carried` makes it inductive: whatever is in flight and opens has
  gone through the filter of its sender, from whichever socket and however late.
* `Process_proofs` (`ProcessAssumption`: what a file counts as a port is one, and
  "auto" is no address). That the pointers are there is no invariant by itself:
  `Pointers` says from which part of main on they are, and until which part of
  the handler; `Threads` that the io thread and the loops exist only late in
  main; `Ready` what `Setup` has established; `Described` that the context is one
  of those its file leads to. `TunClosedWithContext`, an action property, follows
  from main still holding the Context while the io thread runs.

* `ClientRoutes_proofs` (`ClientRoutesAssumption`: `NoGateway` is no gateway). What
  the client has put in the way of the host's packets is seen as the set of
  commands that would take it away, `Leftovers`. Everything `Set` adds `Unset`
  deletes, so it is among the commands that `Unset` still has to run, from
  whatever point an earlier process was killed at, and empty after the last.
  `Sets` says how far routes and rules are while `Set` runs, up to the commands in
  `lacks`; that the rule of the
  main table ends up in front of the tunnel's needs that it is added second
  (`InOrder`). Both platforms, with or without IPv6.
* `ServerRules_proofs` (`ServerRulesAssumption`). Neither property is inductive:
  `Owes` says of each rule, by where the process and its handler are, whether the
  process has a copy to take away; `Present`, that it finds one under the
  interface it added it with; `Bounded`, that the chain has one rule for each
  process that did not end clean and one that is owed.
* `ListLemmas`: what `Append`, `\o`, `Tail` and `RemoveFirst` keep of a list, its
  length and its members.

The theorems hold for every number of sockets, frames, connections, datagrams,
processes, interfaces and configuration files and for all sizes, where the runs
have the bounds above. Every safety property of a passing run is a theorem.
Model-checked only: liveness (`DeadConnectionDropped`, `Recovers`,
`StopTerminates`, `OldReceiverEnds`, `ServerFollows`), which with ENABLED is
beyond the prover, as are induction over data and RECURSIVE operators, which no
module uses.

## Simplifications that matter

* The cipher is perfect: a sealed text opens once, in full, with its key.
  Nonces do not repeat.
* `TCPServer` gives each peer one connection; frames are numbered, and a length
  that does not belong to the stream ends a read at a frame boundary or not, by
  choice.
* A `shared_ptr` that two threads race for is read and written in one step;
  SIGINT comes once in `Client` and `Process`, any number of times in `ServerRules`, always on
  the main thread.
* `ClientRoutes` takes the kernel's rules as: a rule without a priority goes
  before the others, is not added twice, and `suppress_prefixlength 0` leaves
  out default routes. `iptables` commands are exact: `-A` adds, `-D` removes one.
* What a peer without the key sends in `TCPServer` does not open; that it may
  repeat frames it has recorded is left out.
* The signal handler's steps are those of its code: what it may not do in the
  middle of another call of the same thread (spdlog and `malloc` hold locks) is
  left out.
* In `ClientRoutes` a command that deletes fails only if there is nothing to
  delete; in `Process` a `tun_setup` whose commands fail counts as set up, as it
  does for the code.
* `SafeUntilStopped` is about the time before SIGINT, `StopFindsPointers` about a
  SIGINT after the start, `StopIsClean` about a `Stop` that meets no `Reconnect`.
  Outside of these the code has the races that the hazards name, and the models
  take the step to a crash, or to routes that are left.
* `Framing` follows what is written past an array into the members declared
  next, which is how the build lays them out; past the socket it follows nothing.
* In `Framing` a TCP frame arrives whole, or the connection ends and the loop
  with it; parts of frames and lengths of another stream are in `TCPServer`.
* macOS puts 4 bytes before each packet on the tun device; they are left out.
* In `Process` a TCP server's `Close` finds a selected connection or not, by
  choice; addresses are known by the role whose default they are.
* Logging and the wording of messages are left out, and ports but for one.

## Not modelled, and the plan

Left, in order of importance:

1. An end-to-end tunnel over TCP: the client's `Connect`, `Send` and `Receive` on
   a stream whose other end is `TCPServer`, implementing `PacketRelay` once in
   each direction. Today the client's half is in `Client` (when it connects, what
   a failure leads to) and in `Framing` (what one frame brings out).
2. The range a captured interface name or an external address may go stale over:
   both are read once (Context.cpp:149), and only the rules' names are covered.

Not modelled:

* `Server::CreateServer` and `DestroyServer`: nothing calls them, and the latter
  uses the context that `Stop` has just reset, so that there is no behaviour to
  state a property of.
* What over UDP would notice that a server is gone: no code does (Client.cpp:98).
* macOS's system calls that create a utun device, beyond success or failure.
* YAML, name resolution and the shell, which are libraries or single calls: their
  results are choices in `Process` and in the modules of commands.
* `RandomNumberGenerator`, `Trim`, `Singleton`, the packet headers: stateless.
* libsodium's cipher.
