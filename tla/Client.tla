-------------------------------- MODULE Client --------------------------------
(***************************************************************************)
(* The client process: main() and signal_handler() of src/main.cpp, the    *)
(* connection life cycle of src/Client.cpp, IOWorker, and what closing a   *)
(* connection and the tun device does to the loops that use them.          *)
(*                                                                         *)
(* Two threads touch the members of Client without a common lock: the main *)
(* thread, which runs the first Reconnect and, on SIGINT, the handler on   *)
(* top of whatever it was doing, and the thread of io_context 0, which     *)
(* runs the coroutines and every later Reconnect.  Each line of Reconnect  *)
(* and of Stop that touches shared state is one step.                      *)
(*                                                                         *)
(* Connections are numbered in the order makeConnection makes them; 0 is   *)
(* the empty pointer.  try_lock on connect_mutex always succeeds: threads  *)
(* start after the first Reconnect, and the later ones run on one thread   *)
(* that does nothing else meanwhile.  A shared_ptr is read and written in  *)
(* one step, although two threads race for it.  SIGINT comes once.         *)
(*                                                                         *)
(* boost::asio::spawn dispatches: called on the thread of the io_context   *)
(* it runs the coroutine at once, up to where it waits; called on the main *)
(* thread it leaves it for the io thread.                                  *)
(***************************************************************************)
EXTENDS Naturals, Sequences

CONSTANT
    MaxConns    \* bound: connections the client makes

ASSUME ClientAssumption == MaxConns \in Nat \ {0}

VARIABLES
    main,       \* main(): "init", "made", "reconnect", "worker", "join", "exit"
    sig,        \* signal_handler: "none", then its next step, then "done"
    client,     \* the global pointer: "null", "set", "reset"
    rec,        \* the running Reconnect: by whom, where, on which connection
    conn,       \* Client::connection
    made,       \* how many connections were made
    sock,       \* sock[g]: "new", "open", "broken", "closed"
    tx, rx,     \* the send and the receive loop of connection g
    stopped,    \* Client::stopped
    route,      \* the default route: "main" table or the "tunnel"
    proto,      \* conn_protocol, as configured: "udp" or "tcp"
    tun,        \* the tun device: "open", "closed"
    posted,     \* what waits on io_context 0: Close of connection g, 0: of tun
    iostopped,  \* io_context::stop() was called
    crash       \* "none", or the member called on an empty pointer

mainVars == <<main, client>>
connVars == <<conn, made, sock>>
loopVars == <<tx, rx>>
sysVars  == <<stopped, route, tun, proto>>
ioVars   == <<posted, iostopped>>
vars == <<mainVars, sig, rec, connVars, loopVars, sysVars, ioVars, crash>>

Conns == 1 .. MaxConns

NoReconnect == [by |-> "none", pc |-> "none", on |-> 0]

Init ==
    /\ main = "init"
    /\ sig = "none"
    /\ client = "null"
    /\ rec = NoReconnect
    /\ conn = 0
    /\ made = 0
    /\ sock = [g \in Conns |-> "new"]
    /\ tx = [g \in Conns |-> "none"]
    /\ rx = [g \in Conns |-> "none"]
    /\ stopped = FALSE
    /\ proto \in {"udp", "tcp"}
    /\ route = "main"
    /\ tun = "open"
    /\ posted = <<>>
    /\ iostopped = FALSE
    /\ crash = "none"

-----------------------------------------------------------------------------
(* main().  It does not run while the handler runs on top of it.           *)

MainRuns == crash = "none" /\ sig \in {"none", "done"}

MakeClient ==
    /\ MainRuns /\ main = "init"
    /\ main' = "made"
    /\ client' = "set"
    /\ UNCHANGED <<sig, rec, connVars, loopVars, sysVars, ioVars, crash>>

\* client->Run(), on the pointer the handler may have reset.
RunClient ==
    /\ MainRuns /\ main = "made"
    /\ \/ /\ client = "set"
          /\ main' = "reconnect"
          /\ rec' = [by |-> "main", pc |-> "unset", on |-> 0]
          /\ UNCHANGED crash
       \/ /\ client = "reset"
          /\ crash' = "Run"
          /\ UNCHANGED <<main, rec>>
    /\ UNCHANGED <<client, sig, connVars, loopVars, sysVars, ioVars>>

\* IOWorker::Run: the threads start.
StartWorkers ==
    /\ MainRuns /\ main = "worker"
    /\ main' = "join"
    /\ UNCHANGED <<client, sig, rec, connVars, loopVars, sysVars, ioVars, crash>>

\* join_all returns once the io thread has left its last handler.
Exit ==
    /\ MainRuns /\ main = "join"
    /\ iostopped /\ rec.by = "none"
    /\ main' = "exit"
    /\ UNCHANGED <<client, sig, rec, connVars, loopVars, sysVars, ioVars, crash>>

MainStep == MakeClient \/ RunClient \/ StartWorkers \/ Exit

-----------------------------------------------------------------------------
(* signal_handler(), Client::Stop and IOWorker::Stop.                      *)

SigInt ==
    /\ crash = "none" /\ sig = "none" /\ main # "exit"
    /\ sig' = IF client = "set" THEN "unset" ELSE "workers"
    /\ UNCHANGED <<mainVars, rec, connVars, loopVars, sysVars, ioVars, crash>>

StopUnset ==
    /\ sig = "unset"
    /\ route' = "main"
    /\ sig' = "flag"
    /\ UNCHANGED <<mainVars, rec, connVars, loopVars, stopped, tun, proto, ioVars, crash>>

StopFlag ==
    /\ sig = "flag"
    /\ stopped' = TRUE
    /\ sig' = "test"
    /\ UNCHANGED <<mainVars, rec, connVars, loopVars, route, tun, proto, ioVars, crash>>

StopTest ==
    /\ sig = "test"
    /\ sig' = IF conn # 0 THEN "close" ELSE "reset"
    /\ UNCHANGED <<mainVars, rec, connVars, loopVars, sysVars, ioVars, crash>>

StopClose ==
    /\ sig = "close"
    /\ \/ /\ conn # 0
          /\ posted' = Append(posted, conn)
          /\ sig' = "tun"
          /\ UNCHANGED crash
       \/ /\ conn = 0
          /\ crash' = "Close"
          /\ UNCHANGED <<posted, sig>>
    /\ UNCHANGED <<mainVars, rec, connVars, loopVars, sysVars, iostopped>>

StopTun ==
    /\ sig = "tun"
    /\ posted' = Append(posted, 0)
    /\ sig' = "reset"
    /\ UNCHANGED <<mainVars, rec, connVars, loopVars, sysVars, iostopped, crash>>

\* Connect runs on an object that only Client::connection holds: no Close of
\* it is posted.
ConnectUnheld ==
    /\ rec.pc = "connecting" /\ rec.on = conn
    /\ \A i \in DOMAIN posted : posted[i] # conn

\* Then reset() frees it under the other thread's Connect, which may go on as
\* if nothing had happened, or bring the process down.
StopReset ==
    /\ sig = "reset"
    /\ conn' = 0
    /\ sig' = "drop"
    /\ UNCHANGED crash \/ (ConnectUnheld /\ crash' = "Connect")
    /\ UNCHANGED <<mainVars, rec, made, sock, loopVars, sysVars, ioVars>>

StopDrop ==
    /\ sig = "drop"
    /\ client' = "reset"
    /\ sig' = "workers"
    /\ UNCHANGED <<main, rec, connVars, loopVars, sysVars, ioVars, crash>>

StopWorkers ==
    /\ sig = "workers"
    /\ iostopped' = TRUE
    /\ sig' = "done"
    /\ UNCHANGED <<mainVars, rec, connVars, loopVars, sysVars, posted, crash>>

StopStep ==
    /\ crash = "none"
    /\ \/ StopUnset \/ StopFlag \/ StopTest \/ StopClose \/ StopTun
       \/ StopReset \/ StopDrop \/ StopWorkers

-----------------------------------------------------------------------------
(* What Close of connection g comes to on the io thread.  A UDP socket is  *)
(* closed if the receive loop runs.  Of a TCP connection Close closes what *)
(* selected stands for, and a client never sets selected.                  *)

\* Faulty: the socket is left open.
ClosedNever(g) == sock

Closed(g) ==
    IF proto = "udp" /\ rx[g] = "run" THEN [sock EXCEPT ![g] = "closed"] ELSE sock

(* Client::Reconnect, on the main thread or on the io thread.              *)

At(pc) ==
    /\ crash = "none"
    /\ rec.pc = pc
    /\ rec.by = "main" => sig \in {"none", "done"}

Goto(pc) == rec' = [rec EXCEPT !.pc = pc]

\* Faulty: the send loop goes on after Reconnect.
ReturnIntoLoop ==
    /\ rec' = NoReconnect
    /\ IF rec.by = "main"
       THEN main' = "worker" /\ UNCHANGED tx
       ELSE /\ tx' = [g \in Conns |-> IF tx[g] = "reconnecting" THEN "run" ELSE tx[g]]
            /\ UNCHANGED main

\* Reconnect returns: to main(), or to the send loop that called it and ends.
Return ==
    /\ rec' = NoReconnect
    /\ IF rec.by = "main"
       THEN main' = "worker" /\ UNCHANGED tx
       ELSE /\ tx' = [g \in Conns |-> IF tx[g] = "reconnecting" THEN "ended" ELSE tx[g]]
            /\ UNCHANGED main

\* Faulty: the route stays in the tunnel.
RecUnsetForgotten ==
    /\ At("unset")
    /\ Goto("test")
    /\ UNCHANGED <<mainVars, sig, connVars, loopVars, sysVars, ioVars, crash>>

RecUnset ==
    /\ At("unset")
    /\ route' = "main"
    /\ Goto("test")
    /\ UNCHANGED <<mainVars, sig, connVars, loopVars, stopped, tun, proto, ioVars, crash>>

RecTest ==
    /\ At("test")
    /\ Goto(IF conn # 0 THEN "close" ELSE "network")
    /\ UNCHANGED <<mainVars, sig, connVars, loopVars, sysVars, ioVars, crash>>

\* Only the io thread comes here: main() makes the first connection.
RecClose ==
    /\ At("close")
    /\ \/ /\ conn # 0
          /\ sock' = Closed(conn)
          /\ Goto("drop")
          /\ UNCHANGED crash
       \/ /\ conn = 0
          /\ crash' = "Close"
          /\ UNCHANGED <<sock, rec>>
    /\ UNCHANGED <<mainVars, sig, conn, made, loopVars, sysVars, ioVars>>

RecDrop ==
    /\ At("drop")
    /\ conn' = 0
    /\ Goto("network")
    /\ UNCHANGED <<mainVars, sig, made, sock, loopVars, sysVars, ioVars, crash>>

\* While the network is not available the loop stutters, for ever if it has to.
RecNetworkUp ==
    /\ At("network")
    /\ Goto("make")
    /\ UNCHANGED <<mainVars, sig, connVars, loopVars, sysVars, ioVars, crash>>

\* Faulty: stopped is not looked at, the loop goes on.
RecNetworkWaits == At("network") /\ UNCHANGED vars

RecNetworkStopped ==
    /\ At("network")
    /\ stopped
    /\ Return
    /\ UNCHANGED <<client, sig, connVars, rx, sysVars, ioVars, crash>>

\* Faulty: the protocol has no case of its own in makeConnection.
RecMakeNothing ==
    /\ At("make")
    /\ Goto("connect")
    /\ UNCHANGED <<mainVars, sig, connVars, loopVars, sysVars, ioVars, crash>>

RecMake ==
    /\ At("make")
    /\ made' = made + 1
    /\ conn' = made'
    /\ Goto("connect")
    /\ UNCHANGED <<mainVars, sig, sock, loopVars, sysVars, ioVars, crash>>

\* this->connection->Connect(...) begins, on the object that the pointer holds
\* now.
RecConnect ==
    /\ At("connect")
    /\ \/ /\ conn # 0
          /\ rec' = [rec EXCEPT !.pc = "connecting", !.on = conn]
          /\ UNCHANGED crash
       \/ /\ conn = 0
          /\ crash' = "Connect"
          /\ UNCHANGED rec
    /\ UNCHANGED <<mainVars, sig, connVars, loopVars, sysVars, ioVars>>

RecConnected ==
    /\ At("connecting")
    /\ sock' = [sock EXCEPT ![rec.on] = "open"]
    /\ Goto("tun")
    /\ UNCHANGED <<mainVars, sig, conn, made, loopVars, sysVars, ioVars, crash>>

\* Faulty: stopped is not looked at.
RecConnectRetries ==
    /\ At("connecting") /\ proto = "tcp"
    /\ Goto("connect")
    /\ UNCHANGED <<mainVars, sig, connVars, loopVars, sysVars, ioVars, crash>>

\* A UDP connection always connects.  stopped is looked at before the sleep.
RecConnectFailed ==
    /\ At("connecting") /\ proto = "tcp"
    /\ IF stopped THEN Return ELSE Goto("connect") /\ UNCHANGED <<main, tx>>
    /\ UNCHANGED <<client, sig, connVars, rx, sysVars, ioVars, crash>>

\* The send loop starts on what this->connection is now; if that is an empty
\* pointer the next line brings the process down.
RecSpawnTx ==
    /\ At("tun")
    /\ tx' = [g \in Conns |-> IF g = conn THEN "run" ELSE tx[g]]
    /\ Goto("conn")
    /\ UNCHANGED <<mainVars, sig, connVars, rx, sysVars, ioVars, crash>>

RecSpawnRx ==
    /\ At("conn")
    /\ \/ /\ conn # 0
          /\ rx' = [rx EXCEPT ![conn] = "run"]
          /\ Goto("route")
          /\ UNCHANGED crash
       \/ /\ conn = 0
          /\ crash' = "Spawn"
          /\ UNCHANGED <<rx, rec>>
    /\ UNCHANGED <<mainVars, sig, connVars, tx, sysVars, ioVars>>

\* Faulty: the route is not changed back.
RecSetRouteForgotten ==
    /\ At("route")
    /\ Return
    /\ UNCHANGED <<client, sig, connVars, rx, sysVars, ioVars, crash>>

\* After the sleep that follows "Connection is Ready".
RecSetRoute ==
    /\ At("route")
    /\ route' = "tunnel"
    /\ Return
    /\ UNCHANGED <<client, sig, connVars, rx, stopped, tun, proto, ioVars, crash>>

\* What Reconnect does of itself; the network comes up when it does.
RecStep ==
    \/ RecUnset \/ RecTest \/ RecClose \/ RecDrop \/ RecNetworkStopped
    \/ RecMake \/ RecConnect \/ RecConnected
    \/ RecConnectFailed \/ RecSpawnTx \/ RecSpawnRx \/ RecSetRoute

-----------------------------------------------------------------------------
(* The thread of io_context 0.                                             *)

IoIdle == crash = "none" /\ main = "join" /\ ~iostopped /\ rec.by # "io"

\* The Close that Stop left behind.
RunClose ==
    /\ IoIdle
    /\ posted # <<>> /\ Head(posted) # 0
    /\ posted' = Tail(posted)
    /\ sock' = Closed(Head(posted))
    /\ UNCHANGED <<mainVars, sig, rec, conn, made, loopVars, sysVars, iostopped, crash>>

\* TunDevice::Close: asio_fd is closed and tun_remove called if a loop runs.
RunTunClose ==
    /\ IoIdle
    /\ posted # <<>> /\ Head(posted) = 0
    /\ posted' = Tail(posted)
    /\ tun' = IF \E g \in Conns : tx[g] = "run" THEN "closed" ELSE tun
    /\ UNCHANGED <<mainVars, sig, rec, connVars, loopVars, stopped, route, proto,
                   iostopped, crash>>

\* A TCP connection is lost.
Break(g) ==
    /\ crash = "none" /\ proto = "tcp" /\ sock[g] = "open"
    /\ sock' = [sock EXCEPT ![g] = "broken"]
    /\ UNCHANGED <<mainVars, sig, rec, conn, made, loopVars, sysVars, ioVars, crash>>

\* Faulty: the loop ends and nobody reconnects.
TxSendFailsSilently(g) ==
    /\ IoIdle
    /\ tx[g] = "run"
    /\ proto = "udp" \/ sock[g] \in {"broken", "closed"}
    /\ made < MaxConns
    /\ tx' = [tx EXCEPT ![g] = "ended"]
    /\ UNCHANGED <<mainVars, sig, rec, connVars, rx, sysVars, ioVars, crash>>

\* A send fails, over UDP also on an open socket ("might get err if we recv
\* icmp"), and the loop reconnects.
TxSendFails(g) ==
    /\ IoIdle
    /\ tx[g] = "run"
    /\ proto = "udp" \/ sock[g] \in {"broken", "closed"}
    /\ made < MaxConns
    /\ tx' = [tx EXCEPT ![g] = "reconnecting"]
    /\ rec' = [by |-> "io", pc |-> "unset", on |-> 0]
    /\ UNCHANGED <<mainVars, sig, connVars, rx, sysVars, ioVars, crash>>

\* Any error of a read from the tun device ends the send loop, and nothing
\* starts another.
TxTunFails(g) ==
    /\ IoIdle
    /\ tx[g] = "run"
    /\ tx' = [tx EXCEPT ![g] = "failed"]
    /\ UNCHANGED <<mainVars, sig, rec, connVars, rx, sysVars, ioVars, crash>>

\* Faulty: the receive loop reconnects as well.
RxFailsReconnects(g) ==
    /\ IoIdle
    /\ rx[g] = "run" /\ sock[g] \in {"broken", "closed"}
    /\ made < MaxConns
    /\ rx' = [rx EXCEPT ![g] = "reconnecting"]
    /\ rec' = [by |-> "io", pc |-> "unset", on |-> 0]
    /\ UNCHANGED <<mainVars, sig, connVars, tx, sysVars, ioVars, crash>>

\* The receive loop does not reconnect.
RxFails(g) ==
    /\ IoIdle
    /\ rx[g] = "run" /\ sock[g] \in {"broken", "closed"}
    /\ rx' = [rx EXCEPT ![g] = "ended"]
    /\ UNCHANGED <<mainVars, sig, rec, connVars, tx, sysVars, ioVars, crash>>

\* Any error of a write to the tun device ends the receive loop.
RxTunFails(g) ==
    /\ IoIdle
    /\ rx[g] = "run"
    /\ rx' = [rx EXCEPT ![g] = "ended"]
    /\ UNCHANGED <<mainVars, sig, rec, connVars, tx, sysVars, ioVars, crash>>

-----------------------------------------------------------------------------
Next ==
    \/ MainStep
    \/ SigInt \/ StopStep
    \/ RecStep \/ RecNetworkUp
    \/ RunClose \/ RunTunClose
    \/ \E g \in Conns :
          Break(g) \/ TxSendFails(g) \/ TxTunFails(g) \/ RxFails(g) \/ RxTunFails(g)

Spec == Init /\ [][Next]_vars

\* Both threads run, and a receive on a broken or closed socket fails.  The
\* environment owes nothing: the network may stay away, the server may refuse
\* for ever, and a tun device need not fail.
FairSpec ==
    /\ Spec
    /\ WF_vars(MainStep) /\ WF_vars(StopStep) /\ WF_vars(RecStep)
    /\ WF_vars(RunClose) /\ WF_vars(RunTunClose)
    /\ \A g \in Conns : WF_vars(RxFails(g))

-----------------------------------------------------------------------------
(* Properties.                                                             *)

TypeOK ==
    /\ main \in {"init", "made", "reconnect", "worker", "join", "exit"}
    /\ sig \in {"none", "unset", "flag", "test", "close", "tun", "reset", "drop",
               "workers", "done"}
    /\ client \in {"null", "set", "reset"}
    /\ rec \in [by : {"none", "main", "io"},
                pc : {"none", "unset", "test", "close", "drop", "network", "make",
                      "connect", "connecting", "tun", "conn", "route"},
                on : 0 .. MaxConns]
    /\ conn \in 0 .. made
    /\ made \in 0 .. MaxConns
    /\ sock \in [Conns -> {"new", "open", "broken", "closed"}]
    /\ tx \in [Conns -> {"none", "run", "reconnecting", "failed", "ended"}]
    /\ rx \in [Conns -> {"none", "run", "ended"}]
    /\ stopped \in BOOLEAN
    /\ proto \in {"udp", "tcp"}
    /\ route \in {"main", "tunnel"}
    /\ tun \in {"open", "closed"}
    /\ posted \in Seq(0 .. MaxConns)
    /\ iostopped \in BOOLEAN
    /\ crash \in {"none", "Run", "Close", "Connect", "Spawn"}

\* The tun device never has two send loops reading from it: the one that
\* calls Reconnect ends, and no connection but the new one has a loop.
OneTunReader ==
    \A g, h \in Conns : tx[g] = "run" /\ tx[h] = "run" => g = h

\* The server is never looked for through the tunnel: from the moment a
\* connection is torn down until the next one is up, traffic takes the main
\* table.
DirectWhileConnecting ==
    rec.pc \in {"network", "make", "connect", "connecting", "tun", "conn"}
        => route = "main"

\* While traffic is routed into the tunnel and nobody has asked to stop, the
\* tun device has its reader on the current connection, or a Reconnect is on
\* its way: whatever becomes of connections, and whoever replaces them, the
\* traffic is not left to a loop that has ended.  The exception is a tun device
\* whose read failed (Client.cpp:75-78), after which the code leaves the route
\* where it is and serves nobody (Client.cpp:26 "only reconnect when
\* connection->Send return error").
TunnelIsServed ==
    route = "tunnel" /\ sig = "none" =>
        conn # 0 /\ tx[conn] \in {"run", "reconnecting", "failed"}

\* No empty pointer is used before SIGINT.
SafeUntilStopped == crash # "none" => sig # "none"

\* A send error brings the tunnel back, if the network and the server are
\* there: if the check of the network succeeds in the end, and so does an
\* attempt to connect.
Recovers ==
    WF_vars(RecNetworkUp) /\ SF_vars(RecConnected) =>
        \A g \in Conns : tx[g] = "reconnecting" ~> route = "tunnel" \/ sig # "none"

\* Over UDP the receive loop of a replaced connection does not stay behind: two
\* receive loops do not write to the tun device for good.  The io thread must
\* come to run them: it does not while a Reconnect waits for the network.
OldReceiverEnds ==
    WF_vars(RecNetworkUp) => \A g \in Conns :
        proto = "udp" /\ rx[g] = "run" /\ conn > g
            ~> rx[g] = "ended" \/ sig # "none" \/ crash # "none"

\* Once stopped is set the process ends, however far the server is and though
\* the network stay away: neither retry loop (Client.cpp:49-53 and 59-68) goes
\* on for ever, and neither thread waits for the other.
StopTerminates == stopped ~> main = "exit" \/ crash # "none"

\* Router.cpp:35 "Resetting Route Table", the first thing Stop does: a client
\* that was asked to stop leaves the default route as it found it.
StopRestoresRoute == main = "exit" /\ stopped => route = "main"
=============================================================================
