------------------------------- MODULE Process -------------------------------
(***************************************************************************)
(* One process from main to its end: the start in either role and, on the  *)
(* server, Server::Run with the life of its two loops, and Server::Stop.   *)
(* A client is followed to the point where Client takes over.              *)
(*                                                                         *)
(* There are two threads.  main runs the start, then waits in              *)
(* IOWorker::Run; SIGINT runs its handler on it, in the middle of whatever *)
(* it is doing.  The io thread runs the loops and what is posted to        *)
(* io_context 0.  What the packets are is the subject of TCPServer and     *)
(* UDPTunnel, what the shell commands do that of ServerRules.              *)
(***************************************************************************)
EXTENDS Configuration

CONSTANTS
    Files,      \* configuration files
    Platforms   \* of "linux" and "osx"

\* "auto" counts as Missing, and a port that converts is a port.
ASSUME ProcessAssumption ==
    \A file \in Files :
        /\ file.local_tun_ip # "auto"
        /\ file.server_port \in Ports \cup {Missing}

VARIABLES
    host,       \* the platform and the file of this host
    detail,     \* context->detail, or NoDetail
    tun,        \* the tun device: "none", "created", "set" (up, with its MTU), "closed"
    main, sig,  \* where main is, and its signal handler
    server, connection, context,    \* is the pointer set: the global one, its two members
    held,       \* main's own reference to the Context
    io,         \* the io thread: "none", "running", "ended"
    worker,     \* IOWorker's io_context 0: "guarded", "released", "stopped"
    jobs,       \* what Stop has posted: the closing of "conn" and of "tun"
    socket,     \* the connection's socket: "open" or "closed"
    rx, tx      \* the receive and the send loop of Server::Run

startVars == <<host, detail, tun>>
pointers  == <<server, connection, context, held>>
ioVars    == <<io, jobs, socket, rx, tx>>
vars      == <<startVars, main, sig, pointers, worker, ioVars>>

NoDetail == [role |-> "none"]

Running == {"posted", "next", "wait", "pass"}   \* a loop that has not ended

Init ==
    /\ host \in [platform : Platforms, file : Files]
    /\ detail = NoDetail
    /\ tun = "none"
    /\ main = "start" /\ sig = "none"
    /\ server = FALSE /\ connection = FALSE /\ context = FALSE /\ held = FALSE
    /\ io = "none" /\ worker = "guarded"
    /\ jobs = {} /\ socket = "open"
    /\ rx = "none" /\ tx = "none"

Over == main \in {"exited", "crashed"}

-----------------------------------------------------------------------------
(* main, which stands still while its handler runs.                        *)

At(place) == main = place /\ sig \in {"none", "done"}

\* getuid, SingleApp::Check and sodium_init pass, or end the process.
Check ==
    /\ At("start")
    /\ \/ main' = "checked" /\ held' = TRUE
       \/ main' = "exited" /\ UNCHANGED held
    /\ UNCHANGED <<startVars, sig, server, connection, context, worker, ioVars>>

\* InitByFile up to the tun device.  The name of the server may not resolve.
ReadFile ==
    /\ At("checked")
    /\ \/ /\ Accepts(host.file, host.platform)
          /\ detail' \in Details(host.file)
          /\ main' = "read"
       \/ main' = "exited" /\ UNCHANGED detail
    /\ UNCHANGED <<host, tun, sig, pointers, worker, ioVars>>

\* TunDevice::Create returns -1, which is true, when there is no device: one way
\* or the other InitByFile goes on.
Create ==
    /\ At("read")
    /\ tun' \in {"none", "created"}
    /\ main' = "created"
    /\ UNCHANGED <<host, detail, sig, pointers, worker, ioVars>>

MTUs == 68 .. 65535     \* the sizes Linux's tun driver allows

\* What SIOCSIFMTU takes: never anything for the empty name of a device that was
\* not created.
TakesMTU ==
    /\ tun = "created"
    /\ host.platform = "linux" => detail.mtu \in MTUs

\* Faulty: tun_setup's answer, which is always true, is the one that counts.
SetupAnyway ==
    /\ At("created")
    /\ \/ main' = "init" /\ tun' = (IF tun = "none" THEN "none" ELSE "set")
       \/ main' = "exited" /\ UNCHANGED tun
    /\ UNCHANGED <<host, detail, sig, pointers, worker, ioVars>>

\* TunDevice::Setup: SetMTU, then the commands of tun_setup, whose failure is not
\* seen; then the rest of InitByFile.
Setup ==
    /\ At("created")
    /\ \/ TakesMTU /\ main' = "init" /\ tun' = "set"
       \/ main' = "exited" /\ UNCHANGED tun
    /\ UNCHANGED <<host, detail, sig, pointers, worker, ioVars>>

\* Faulty: the pointer is moved into the Server.
MakeServerMoves ==
    /\ At("init") /\ detail.role = "server"
    /\ server' = TRUE /\ context' = TRUE
    /\ held' = FALSE
    /\ main' = "made"
    /\ UNCHANGED <<startVars, sig, connection, worker, ioVars>>

MakeServer ==
    /\ At("init") /\ detail.role = "server"
    /\ server' = TRUE /\ context' = TRUE
    /\ main' = "made"
    /\ UNCHANGED <<startVars, sig, connection, held, worker, ioVars>>

MakeClient ==
    /\ At("init") /\ detail.role = "client"
    /\ main' = "client"
    /\ UNCHANGED <<startVars, sig, pointers, worker, ioVars>>

\* Faulty: a switch that has forgotten UDP goes on.
ConnectionTCPOnly ==
    /\ At("made")
    /\ main' = "connection"
    /\ connection' = (detail.conn_protocol = "tcp")
    /\ UNCHANGED <<startVars, sig, server, context, held, worker, ioVars>>

\* Server::Run, in steps between which SIGINT makes a difference: the connection,
\* which is only made for a protocol that the switch knows, ...
Connection ==
    /\ At("made")
    /\ IF detail.conn_protocol \in {"udp", "tcp"}
       THEN main' = "connection" /\ connection' = TRUE
       ELSE main' = "unbound" /\ UNCHANGED connection
    /\ UNCHANGED <<startVars, sig, server, context, held, worker, ioVars>>

\* ... Bind, after whose failure the process goes on without a server, ...
Bind ==
    /\ At("connection")
    /\ main' \in IF connection THEN {"bound", "unbound"} ELSE {"crashed"}
    /\ UNCHANGED <<startVars, sig, pointers, worker, ioVars>>

\* ... the two loops, which wait for the io thread, ...
Spawn ==
    /\ At("bound")
    /\ IF connection
       THEN main' = "spawned" /\ rx' = "posted" /\ tx' = "posted"
       ELSE main' = "crashed" /\ UNCHANGED <<rx, tx>>
    /\ UNCHANGED <<startVars, sig, pointers, worker, io, jobs, socket>>

\* ... and AddClient with the message after it, which uses this->context.
AddClient ==
    /\ At("spawned")
    /\ main' = IF context THEN "added" ELSE "crashed"
    /\ UNCHANGED <<startVars, sig, pointers, worker, ioVars>>

\* IOWorker::Run; run() of an io_context that is stopped returns at once.
Run ==
    /\ At("added") \/ At("unbound")
    /\ main' = "join"
    /\ io' = "running"
    /\ UNCHANGED <<startVars, sig, pointers, worker, jobs, socket, rx, tx>>

Return ==
    /\ At("join") /\ io = "ended"
    /\ main' = "exited"
    /\ held' = FALSE
    /\ UNCHANGED <<startVars, sig, server, connection, context, worker, ioVars>>

Main ==
    \/ Check \/ ReadFile \/ Create \/ Setup \/ MakeServer \/ MakeClient
    \/ Connection \/ Bind \/ Spawn \/ AddClient \/ Run \/ Return

-----------------------------------------------------------------------------
(* SIGINT.  Without a server the handler only stops IOWorker; it has no    *)
(* more effect a second time.                                              *)

Handling(step, next) ==
    /\ sig = step /\ ~Over
    /\ sig' = next

Signal ==
    /\ main \notin {"start", "client"}
    /\ Handling("none", IF server THEN "close" ELSE "halt")
    /\ UNCHANGED <<startVars, main, pointers, worker, ioVars>>

\* DeleteClient, then Close of a connection that may not be there yet.
StopConnection ==
    /\ Handling("close", "stop")
    /\ IF connection
       THEN jobs' = jobs \cup {"conn"} /\ UNCHANGED main
       ELSE main' = "crashed" /\ UNCHANGED jobs
    /\ UNCHANGED <<startVars, pointers, worker, io, socket, rx, tx>>

\* Context::Stop
StopContext ==
    /\ Handling("stop", "reset")
    /\ jobs' = jobs \cup {"tun"}
    /\ UNCHANGED <<startVars, main, pointers, worker, io, socket, rx, tx>>

Reset ==
    /\ Handling("reset", "halt")
    /\ server' = FALSE /\ connection' = FALSE /\ context' = FALSE
    /\ UNCHANGED <<startVars, main, held, worker, ioVars>>

\* Faulty: the work guards go, and the io_contexts run on.
HaltNever ==
    /\ Handling("stop io", "done")
    /\ UNCHANGED <<startVars, main, pointers, worker, ioVars>>

\* IOWorker::Stop: the work guard, ...
Release ==
    /\ Handling("halt", "stop io")
    /\ worker' = "released"
    /\ UNCHANGED <<startVars, main, pointers, ioVars>>

\* ... and the io_context.
Halt ==
    /\ Handling("stop io", "done")
    /\ worker' = "stopped"
    /\ UNCHANGED <<startVars, main, pointers, ioVars>>

Handler == StopConnection \/ StopContext \/ Reset \/ Release \/ Halt

-----------------------------------------------------------------------------
(* The io thread.  A loop is at its top ("next"), waits for a packet       *)
(* ("wait") or passes one on ("pass").                                     *)

OnIO == io = "running" /\ worker # "stopped" /\ ~Over

\* The size of the next buffer is read from this->context.
RxNext ==
    /\ OnIO /\ rx \in {"posted", "next"}
    /\ IF context
       THEN rx' = "wait" /\ UNCHANGED main
       ELSE main' = "crashed" /\ UNCHANGED rx
    /\ UNCHANGED <<startVars, sig, pointers, worker, io, jobs, socket, tx>>

\* ReceiveFrom brings a packet, which the filter lets through or not.
RxReceive ==
    /\ OnIO /\ rx = "wait" /\ socket = "open"
    /\ rx' \in {"pass", "next"}
    /\ UNCHANGED <<startVars, main, sig, pointers, worker, io, jobs, socket, tx>>

\* The write to the tun device, which fails when its link is down.
RxWritten ==
    /\ OnIO /\ rx = "pass"
    /\ rx' \in {"ended"} \cup IF tun = "set" THEN {"next"} ELSE {}
    /\ UNCHANGED <<startVars, main, sig, pointers, worker, io, jobs, socket, tx>>

\* Over TCP only the read that Close has met fails; see CloseConnection.
RxAborted ==
    /\ OnIO /\ rx = "wait" /\ socket = "closed" /\ detail.conn_protocol = "udp"
    /\ rx' = "ended"
    /\ UNCHANGED <<startVars, main, sig, pointers, worker, io, jobs, socket, tx>>

TxNext ==
    /\ OnIO /\ tx \in {"posted", "next"}
    /\ IF context
       THEN tx' = "wait" /\ UNCHANGED main
       ELSE main' = "crashed" /\ UNCHANGED tx
    /\ UNCHANGED <<startVars, sig, pointers, worker, io, jobs, socket, rx>>

TxRead ==
    /\ OnIO /\ tx = "wait" /\ tun = "set"
    /\ tx' \in {"pass", "next"}
    /\ UNCHANGED <<startVars, main, sig, pointers, worker, io, jobs, socket, rx>>

\* Only a closed UDP socket is the error that ends the loop: TCPConnection clears
\* its own.
TxSent ==
    /\ OnIO /\ tx = "pass"
    /\ tx' = IF socket = "closed" /\ detail.conn_protocol = "udp" THEN "ended" ELSE "next"
    /\ UNCHANGED <<startVars, main, sig, pointers, worker, io, jobs, socket, rx>>

\* The tun device is closed, or its link is down.
TxAborted ==
    /\ OnIO /\ tx = "wait"
    /\ tx' = "ended"
    /\ UNCHANGED <<startVars, main, sig, pointers, worker, io, jobs, socket, rx>>

\* Close does nothing without a loop, and over TCP without a selected connection.
\* A loop over TCP that it does not find reading will sleep.
CloseConnection ==
    /\ OnIO /\ "conn" \in jobs
    /\ jobs' = jobs \ {"conn"}
    /\ \/ /\ rx \in Running
          /\ socket' = "closed"
          /\ rx' = IF detail.conn_protocol = "tcp" /\ rx = "wait" THEN "ended" ELSE rx
       \/ /\ rx \notin Running \/ detail.conn_protocol = "tcp"
          /\ UNCHANGED <<socket, rx>>
    /\ UNCHANGED <<startVars, main, sig, pointers, worker, io, tx>>

\* TunDevice::Close closes the descriptor and runs tun_remove.
CloseTun ==
    /\ OnIO /\ "tun" \in jobs
    /\ jobs' = jobs \ {"tun"}
    /\ tun' = IF tx \in Running THEN "closed" ELSE tun
    /\ UNCHANGED <<host, detail, main, sig, pointers, worker, io, socket, rx, tx>>

\* run() returns when it is stopped, or when nothing is left to run.
EndIO ==
    /\ io = "running" /\ ~Over
    /\ \/ worker = "stopped"
       \/ worker = "released" /\ {rx, tx} \cap Running = {} /\ jobs = {}
    /\ io' = "ended"
    /\ UNCHANGED <<startVars, main, sig, pointers, worker, jobs, socket, rx, tx>>

IO ==
    \/ RxNext \/ RxReceive \/ RxWritten \/ RxAborted
    \/ TxNext \/ TxRead \/ TxSent \/ TxAborted
    \/ CloseConnection \/ CloseTun \/ EndIO

Next == Main \/ Signal \/ Handler \/ IO

Spec == Init /\ [][Next]_vars

\* Both threads run, an io_context runs what is ready, and writes return.  Nobody
\* need send a packet or SIGINT, and no link need fail.
FairSpec ==
    /\ Spec
    /\ WF_vars(Main) /\ WF_vars(Handler)
    /\ WF_vars(RxNext) /\ WF_vars(RxWritten) /\ WF_vars(RxAborted)
    /\ WF_vars(TxNext) /\ WF_vars(TxSent) /\ WF_vars(tun = "closed" /\ TxAborted)
    /\ WF_vars(CloseConnection) /\ WF_vars(CloseTun) /\ WF_vars(EndIO)

-----------------------------------------------------------------------------
\* One type invariant for the start, the pointers and both threads.
TypeOK ==
    /\ host \in [platform : Platforms, file : Files]
    /\ detail # NoDetail =>
           /\ detail.role \in {"server", "client"}
           /\ detail.conn_protocol \in {"udp", "tcp"}
           /\ detail.server_port \in Ports
    /\ tun \in {"none", "created", "set", "closed"}
    /\ main \in {"start", "checked", "read", "created", "init", "client", "made",
                 "connection", "bound", "unbound", "spawned", "added", "join",
                 "exited", "crashed"}
    /\ sig \in {"none", "close", "stop", "reset", "halt", "stop io", "done"}
    /\ {server, connection, context, held} \subseteq BOOLEAN
    /\ io \in {"none", "running", "ended"} /\ worker \in {"guarded", "released", "stopped"}
    /\ jobs \subseteq {"conn", "tun"} /\ socket \in {"open", "closed"}
    /\ rx \in {"none", "ended"} \cup Running
    /\ tx \in {"none", "ended"} \cup Running

\* TunDevice.h:41, on SetMTU and Setup, "Return false if the operation failed": no
\* loop and no route is built on a tun device that was not created or did not take
\* its MTU, although Create, and tun_setup, never say that they failed.
RunsOnlySetUp ==
    rx \in Running \/ main = "client" =>
        /\ tun # "none"
        /\ host.platform = "linux" => detail.mtu >= 68

\* The server takes IPv4 packets only from its remote_tun_ip, and hands on only
\* those to it; the client's are from its local_tun_ip.  The two are the same
\* address exactly if the server's file has no remote_tun_ip, and the client's
\* local_tun_ip, if there is one, is the default.  In the same way the client's
\* remote_tun_ip is the server's local_tun_ip exactly if the client's file has none
\* and the server's local_tun_ip, if there is one, is the default.  A remote_tun_ip
\* that is configured, the default included, is not taken over.
HostsMeet ==
    main = "read" /\ detail.role = "server" =>
        \A file \in Files : \A peer \in Details(file) :
            peer.role = "client" =>
                /\ peer.local_tun_ip = detail.remote_tun_ip <=>
                       /\ host.file.remote_tun_ip = Missing
                       /\ file.local_tun_ip \in {Missing, "client"}
                /\ peer.remote_tun_ip = detail.local_tun_ip <=>
                       /\ file.remote_tun_ip = Missing
                       /\ host.file.local_tun_ip \in {Missing, "server"}

\* Once the server is up, or has failed to bind, SIGINT finds every pointer that
\* Stop goes through.
StopFindsPointers ==
    main \in {"unbound", "join"} /\ sig \in {"none", "close", "stop"} =>
        server /\ connection /\ context

\* No pointer is used empty before SIGINT, on either thread.
SafeUntilStopped == main = "crashed" => sig # "none"

\* tun_remove runs with a plain pointer to the Context that Stop has dropped by
\* then: somebody must still hold it.
TunClosedWithContext ==
    [][tun # "closed" /\ tun' = "closed" => held \/ context \/ rx \in Running]_vars

\* SIGINT ends the process, wherever it meets main and the loops: also one that
\* Close does not reach, a receive loop over TCP without a connection.
StopTerminates == sig # "none" ~> Over \/ main = "client"
=============================================================================
