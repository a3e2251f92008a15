---------------------------- MODULE Process_proofs ----------------------------
(***************************************************************************)
(* The safety properties of Process, for any set of configuration files    *)
(* and of ports.                                                           *)
(*                                                                         *)
(* That pointers are there is no invariant by itself: it needs which part  *)
(* of main they are set in, that main stands still while its handler runs, *)
(* and that the handler touches them only in Reset.                        *)
(***************************************************************************)
EXTENDS Process, TLAPS

\* Where main is once it has a tun device, a Server, a connection.
Connected == {"connection", "bound", "unbound", "spawned", "added", "join"}
Made      == {"made"} \cup Connected
Started   == {"init", "client"} \cup Made

\* The handler has not dropped anything yet.
Before == sig \in {"none", "close", "stop"}

Described ==
    /\ detail # NoDetail => detail \in Details(host.file) /\ Accepts(host.file, host.platform)
    /\ main \in {"read", "created"} \cup Started => detail # NoDetail

Pointers ==
    /\ Before /\ main \in Made => server /\ context
    /\ Before /\ main \in Connected => connection
    /\ main \in {"checked", "read", "created"} \cup Started => held
    /\ main = "crashed" => sig # "none"

Threads ==
    /\ io # "none" => main \in {"join", "exited", "crashed"}
    /\ rx # "none" => main \in {"spawned", "added", "join", "exited", "crashed"}

\* What Setup leaves for the rest of the run.
Usable ==
    /\ tun \in {"set", "closed"}
    /\ host.platform = "linux" => detail.mtu \in MTUs

Ready == main \in Started \/ rx # "none" => Usable

StartTypes ==
    /\ host \in [platform : Platforms, file : Files]
    /\ detail # NoDetail =>
           /\ detail.role \in {"server", "client"}
           /\ detail.conn_protocol \in {"udp", "tcp"}
           /\ detail.server_port \in Ports
    /\ tun \in {"none", "created", "set", "closed"}

MainTypes ==
    /\ main \in {"start", "exited", "crashed", "checked", "read", "created"} \cup Started
    /\ sig \in {"none", "close", "stop", "reset", "halt", "stop io", "done"}
    /\ worker \in {"guarded", "released", "stopped"}

FlagTypes ==
    /\ server \in BOOLEAN /\ connection \in BOOLEAN /\ context \in BOOLEAN
    /\ held \in BOOLEAN

LoopTypes ==
    /\ io \in {"none", "running", "ended"}
    /\ jobs \subseteq {"conn", "tun"} /\ socket \in {"open", "closed"}
    /\ rx \in {"none", "ended"} \cup Running
    /\ tx \in {"none", "ended"} \cup Running

Types == StartTypes /\ MainTypes /\ FlagTypes /\ LoopTypes

IInv == Types /\ Described /\ Pointers /\ Threads /\ Ready

USE DEF startVars, pointers, ioVars, Connected, Made, Started, Running

LEMMA TypesAreRight == Types <=> TypeOK
BY DEF Types, StartTypes, MainTypes, FlagTypes, LoopTypes, TypeOK

\* Most steps leave the start, or the pointers, alone.
LEMMA Same ==
    /\ UNCHANGED startVars => (StartTypes => StartTypes') /\ (Usable => Usable')
    /\ UNCHANGED pointers => (FlagTypes => FlagTypes')
    /\ UNCHANGED ioVars => (LoopTypes => LoopTypes')
<1>1. UNCHANGED startVars => (StartTypes => StartTypes')
  BY DEF StartTypes
<1>2. UNCHANGED startVars => (Usable => Usable')
  BY DEF Usable
<1>3. UNCHANGED pointers => (FlagTypes => FlagTypes')
  BY DEF FlagTypes
<1>4. UNCHANGED ioVars => (LoopTypes => LoopTypes')
  BY DEF LoopTypes
<1>q. QED
  BY <1>1, <1>2, <1>3, <1>4

-----------------------------------------------------------------------------
(* The configuration.                                                      *)

LEMMA DetailTypes ==
    ASSUME NEW file \in Files, NEW platform, Accepts(file, platform),
           NEW d \in Details(file)
    PROVE  /\ d # NoDetail
           /\ d.role \in {"server", "client"}
           /\ d.conn_protocol \in {"udp", "tcp"}
           /\ d.server_port \in Ports
<1>1. PICK p \in IF Has(file, "server_port") THEN {file.server_port} ELSE Ports :
        /\ d.role = Role(file)
        /\ d.conn_protocol = Protocol(file)
        /\ d.server_port = p
  BY DEF Details
<1>2. d.role \in {"server", "client"}
  BY <1>1 DEF Role
<1>3. d.conn_protocol \in {"udp", "tcp"}
  BY <1>1 DEF Accepts, Protocol
<1>4. d.server_port \in Ports
  BY <1>1, ProcessAssumption DEF Has
<1>5. NoDetail.role = "none"
  BY DEF NoDetail
<1>q. QED
  BY <1>2, <1>3, <1>4, <1>5

\* Two hosts' addresses, for any two files.
LEMMA Addresses ==
    ASSUME NEW f \in Files, NEW d \in Details(f), d.role = "server",
           NEW file \in Files, NEW peer \in Details(file), peer.role = "client"
    PROVE  /\ peer.local_tun_ip = d.remote_tun_ip <=>
                  /\ f.remote_tun_ip = Missing
                  /\ file.local_tun_ip \in {Missing, "client"}
           /\ peer.remote_tun_ip = d.local_tun_ip <=>
                  /\ file.remote_tun_ip = Missing
                  /\ f.local_tun_ip \in {Missing, "server"}
<1>1. /\ d.role = Role(f)
      /\ d.local_tun_ip = LocalTunIP(f) /\ d.remote_tun_ip = RemoteTunIP(f)
  BY DEF Details
<1>2. /\ peer.role = Role(file)
      /\ peer.local_tun_ip = LocalTunIP(file) /\ peer.remote_tun_ip = RemoteTunIP(file)
  BY DEF Details
<1>3. f.local_tun_ip # "auto" /\ file.local_tun_ip # "auto"
  BY ProcessAssumption
<1>q. QED
  BY <1>1, <1>2, <1>3 DEF LocalTunIP, RemoteTunIP, Has, Flip

-----------------------------------------------------------------------------
LEMMA InitIInv == Init => IInv
<1> SUFFICES ASSUME Init PROVE IInv
  OBVIOUS
<1>1. StartTypes /\ MainTypes /\ FlagTypes /\ LoopTypes
  BY DEF Init, StartTypes, MainTypes, FlagTypes, LoopTypes
<1>2. Described /\ Pointers /\ Threads /\ Ready
  BY DEF Init, Described, Pointers, Threads, Ready, Before
<1>q. QED
  BY <1>1, <1>2 DEF IInv, Types

LEMMA MainStep == IInv /\ Main => IInv'
<1> SUFFICES ASSUME IInv, Main PROVE IInv'
  OBVIOUS
<1> USE DEF IInv, Types
<1>1. CASE Check
  <2>1. StartTypes'
    BY <1>1, Same DEF Check
  <2>2. MainTypes' /\ LoopTypes'
    BY <1>1, Same DEF Check, At, MainTypes, LoopTypes
  <2>3. FlagTypes'
    BY <1>1 DEF Check, FlagTypes
  <2>4. Described'
    BY <1>1 DEF Check, At, Described
  <2>5. Pointers'
    BY <1>1 DEF Check, At, Pointers, Before, FlagTypes
  <2>6. Threads'
    BY <1>1 DEF Check, At, Threads
  <2>7. Ready'
    BY <1>1, Same DEF Check, At, Ready, Threads
  <2>q. QED
    BY <2>1, <2>2, <2>3, <2>4, <2>5, <2>6, <2>7
<1>2. CASE ReadFile
  <2>1. StartTypes'
    <3>1. CASE Accepts(host.file, host.platform) /\ detail' \in Details(host.file)
      BY <1>2, <3>1, DetailTypes DEF ReadFile, StartTypes
    <3>2. CASE UNCHANGED detail
      BY <1>2, <3>2 DEF ReadFile, StartTypes
    <3>q. QED
      BY <1>2, <3>1, <3>2 DEF ReadFile
  <2>2. MainTypes' /\ LoopTypes'
    BY <1>2, Same DEF ReadFile, At, MainTypes, LoopTypes
  <2>3. FlagTypes'
    BY <1>2, Same DEF ReadFile
  <2>4. Described'
    <3>1. \A d \in Details(host.file) : Accepts(host.file, host.platform) => d # NoDetail
      BY DetailTypes DEF StartTypes
    <3>q. QED
      BY <1>2, <3>1 DEF ReadFile, At, Described
  <2>5. Pointers'
    BY <1>2 DEF ReadFile, At, Pointers, Before, FlagTypes
  <2>6. Threads'
    BY <1>2 DEF ReadFile, At, Threads
  <2>7. Ready'
    BY <1>2, Same DEF ReadFile, At, Ready, Threads
  <2>q. QED
    BY <2>1, <2>2, <2>3, <2>4, <2>5, <2>6, <2>7
<1>3. CASE Create
  <2>1. StartTypes'
    BY <1>3 DEF Create, StartTypes
  <2>2. MainTypes' /\ LoopTypes'
    BY <1>3, Same DEF Create, At, MainTypes, LoopTypes
  <2>3. FlagTypes'
    BY <1>3, Same DEF Create
  <2>4. Described'
    BY <1>3 DEF Create, At, Described
  <2>5. Pointers'
    BY <1>3 DEF Create, At, Pointers, Before, FlagTypes
  <2>6. Threads'
    BY <1>3 DEF Create, At, Threads
  <2>7. Ready'
    BY <1>3, Same DEF Create, At, Ready, Threads
  <2>q. QED
    BY <2>1, <2>2, <2>3, <2>4, <2>5, <2>6, <2>7
<1>4. CASE Setup
  <2>1. StartTypes'
    BY <1>4 DEF Setup, StartTypes
  <2>2. MainTypes' /\ LoopTypes'
    BY <1>4, Same DEF Setup, At, MainTypes, LoopTypes
  <2>3. FlagTypes'
    BY <1>4, Same DEF Setup
  <2>4. Described'
    BY <1>4 DEF Setup, At, Described
  <2>5. Pointers'
    BY <1>4 DEF Setup, At, Pointers, Before, FlagTypes
  <2>6. Threads'
    BY <1>4 DEF Setup, At, Threads
  <2>7. Ready'
    <3>1. CASE TakesMTU /\ main' = "init" /\ tun' = "set"
      <4>1. host.platform = "linux" => detail.mtu \in MTUs
        BY <3>1 DEF TakesMTU
      <4>2. host' = host /\ detail' = detail
        BY <1>4 DEF Setup
      <4>q. QED
        BY <3>1, <4>1, <4>2 DEF Ready, Usable
    <3>2. CASE main' = "exited" /\ UNCHANGED tun
      BY <1>4, <3>2 DEF Setup, At, Ready, Threads
    <3>q. QED
      BY <1>4, <3>1, <3>2 DEF Setup
  <2>q. QED
    BY <2>1, <2>2, <2>3, <2>4, <2>5, <2>6, <2>7
<1>5. CASE MakeServer
  <2>1. StartTypes'
    BY <1>5, Same DEF MakeServer
  <2>2. MainTypes' /\ LoopTypes'
    BY <1>5, Same DEF MakeServer, At, MainTypes, LoopTypes
  <2>3. FlagTypes'
    BY <1>5 DEF MakeServer, FlagTypes
  <2>4. Described'
    BY <1>5 DEF MakeServer, At, Described
  <2>5. Pointers'
    BY <1>5 DEF MakeServer, At, Pointers, Before, FlagTypes
  <2>6. Threads'
    BY <1>5 DEF MakeServer, At, Threads
  <2>7. Ready'
    BY <1>5, Same DEF MakeServer, At, Ready, Threads
  <2>q. QED
    BY <2>1, <2>2, <2>3, <2>4, <2>5, <2>6, <2>7
<1>6. CASE MakeClient
  <2>1. StartTypes'
    BY <1>6, Same DEF MakeClient
  <2>2. MainTypes' /\ LoopTypes'
    BY <1>6, Same DEF MakeClient, At, MainTypes, LoopTypes
  <2>3. FlagTypes'
    BY <1>6, Same DEF MakeClient
  <2>4. Described'
    BY <1>6 DEF MakeClient, At, Described
  <2>5. Pointers'
    BY <1>6 DEF MakeClient, At, Pointers, Before, FlagTypes
  <2>6. Threads'
    BY <1>6 DEF MakeClient, At, Threads
  <2>7. Ready'
    BY <1>6, Same DEF MakeClient, At, Ready, Threads
  <2>q. QED
    BY <2>1, <2>2, <2>3, <2>4, <2>5, <2>6, <2>7
<1>7. CASE Connection
  <2>1. StartTypes'
    BY <1>7, Same DEF Connection
  <2>2. MainTypes' /\ LoopTypes'
    BY <1>7, Same DEF Connection, At, MainTypes, LoopTypes
  <2>3. FlagTypes'
    BY <1>7 DEF Connection, FlagTypes
  <2>4. Described'
    BY <1>7 DEF Connection, At, Described
  <2>5. Pointers'
    BY <1>7 DEF Connection, At, Pointers, Before, FlagTypes, Described, StartTypes
  <2>6. Threads'
    BY <1>7 DEF Connection, At, Threads
  <2>7. Ready'
    BY <1>7, Same DEF Connection, At, Ready, Threads
  <2>q. QED
    BY <2>1, <2>2, <2>3, <2>4, <2>5, <2>6, <2>7
<1>8. CASE Bind
  <2>1. StartTypes'
    BY <1>8, Same DEF Bind
  <2>2. MainTypes' /\ LoopTypes'
    BY <1>8, Same DEF Bind, At, MainTypes, LoopTypes
  <2>3. FlagTypes'
    BY <1>8, Same DEF Bind
  <2>4. Described'
    BY <1>8 DEF Bind, At, Described
  <2>5. Pointers'
    BY <1>8 DEF Bind, At, Pointers, Before, FlagTypes
  <2>6. Threads'
    BY <1>8 DEF Bind, At, Threads
  <2>7. Ready'
    BY <1>8, Same DEF Bind, At, Ready, Threads
  <2>q. QED
    BY <2>1, <2>2, <2>3, <2>4, <2>5, <2>6, <2>7
<1>9. CASE Spawn
  <2>1. StartTypes'
    BY <1>9, Same DEF Spawn
  <2>2. MainTypes' /\ LoopTypes'
    BY <1>9, Same DEF Spawn, At, MainTypes, LoopTypes
  <2>3. FlagTypes'
    BY <1>9, Same DEF Spawn
  <2>4. Described'
    BY <1>9 DEF Spawn, At, Described
  <2>5. Pointers'
    BY <1>9 DEF Spawn, At, Pointers, Before, FlagTypes
  <2>6. Threads'
    BY <1>9 DEF Spawn, At, Threads
  <2>7. Ready'
    BY <1>9, Same DEF Spawn, At, Ready, Threads
  <2>q. QED
    BY <2>1, <2>2, <2>3, <2>4, <2>5, <2>6, <2>7
<1>10. CASE AddClient
  <2>1. StartTypes'
    BY <1>10, Same DEF AddClient
  <2>2. MainTypes' /\ LoopTypes'
    BY <1>10, Same DEF AddClient, At, MainTypes, LoopTypes
  <2>3. FlagTypes'
    BY <1>10, Same DEF AddClient
  <2>4. Described'
    BY <1>10 DEF AddClient, At, Described
  <2>5. Pointers'
    BY <1>10 DEF AddClient, At, Pointers, Before, FlagTypes
  <2>6. Threads'
    BY <1>10 DEF AddClient, At, Threads
  <2>7. Ready'
    BY <1>10, Same DEF AddClient, At, Ready, Threads
  <2>q. QED
    BY <2>1, <2>2, <2>3, <2>4, <2>5, <2>6, <2>7
<1>11. CASE Run
  <2>1. StartTypes'
    BY <1>11, Same DEF Run
  <2>2. MainTypes' /\ LoopTypes'
    BY <1>11, Same DEF Run, At, MainTypes, LoopTypes
  <2>3. FlagTypes'
    BY <1>11, Same DEF Run
  <2>4. Described'
    BY <1>11 DEF Run, At, Described
  <2>5. Pointers'
    BY <1>11 DEF Run, At, Pointers, Before, FlagTypes
  <2>6. Threads'
    BY <1>11 DEF Run, At, Threads
  <2>7. Ready'
    BY <1>11, Same DEF Run, At, Ready, Threads
  <2>q. QED
    BY <2>1, <2>2, <2>3, <2>4, <2>5, <2>6, <2>7
<1>12. CASE Return
  <2>1. StartTypes'
    BY <1>12, Same DEF Return
  <2>2. MainTypes' /\ LoopTypes'
    BY <1>12, Same DEF Return, At, MainTypes, LoopTypes
  <2>3. FlagTypes'
    BY <1>12 DEF Return, FlagTypes
  <2>4. Described'
    BY <1>12 DEF Return, At, Described
  <2>5. Pointers'
    BY <1>12 DEF Return, At, Pointers, Before, FlagTypes
  <2>6. Threads'
    BY <1>12 DEF Return, At, Threads
  <2>7. Ready'
    BY <1>12, Same DEF Return, At, Ready, Threads
  <2>q. QED
    BY <2>1, <2>2, <2>3, <2>4, <2>5, <2>6, <2>7
<1>q. QED
  BY <1>1, <1>2, <1>3, <1>4, <1>5, <1>6, <1>7, <1>8, <1>9, <1>10, <1>11, <1>12 DEF Main

LEMMA HandlerStep == IInv /\ (Signal \/ Handler) => IInv'
<1> SUFFICES ASSUME IInv, Signal \/ Handler PROVE IInv'
  OBVIOUS
<1> USE DEF IInv, Types
<1>1. CASE Signal
  <2>1. StartTypes'
    BY <1>1, Same DEF Signal, Handling
  <2>2. MainTypes' /\ LoopTypes'
    BY <1>1, Same DEF Signal, Handling, Over, MainTypes, LoopTypes
  <2>3. FlagTypes'
    BY <1>1, Same DEF Signal, Handling
  <2>4. Described'
    BY <1>1 DEF Signal, Handling, Over, Described
  <2>5. Pointers'
    BY <1>1 DEF Signal, Handling, Over, Pointers, Before, FlagTypes
  <2>6. Threads'
    BY <1>1 DEF Signal, Handling, Over, Threads
  <2>7. Ready'
    BY <1>1, Same DEF Signal, Handling, Over, Ready, Threads
  <2>q. QED
    BY <2>1, <2>2, <2>3, <2>4, <2>5, <2>6, <2>7
<1>2. CASE StopConnection
  <2>1. StartTypes'
    BY <1>2, Same DEF StopConnection, Handling
  <2>2. MainTypes' /\ LoopTypes'
    <3>1. MainTypes'
      BY <1>2 DEF StopConnection, Handling, Over, MainTypes
    <3>2. jobs' \subseteq {"conn", "tun"}
      BY <1>2 DEF StopConnection, LoopTypes
    <3>3. LoopTypes'
      BY <1>2, <3>2 DEF StopConnection, LoopTypes
    <3>q. QED
      BY <3>1, <3>3
  <2>3. FlagTypes'
    BY <1>2, Same DEF StopConnection, Handling
  <2>4. Described'
    BY <1>2 DEF StopConnection, Handling, Over, Described
  <2>5. Pointers'
    BY <1>2 DEF StopConnection, Handling, Over, Pointers, Before, FlagTypes
  <2>6. Threads'
    BY <1>2 DEF StopConnection, Handling, Over, Threads
  <2>7. Ready'
    BY <1>2, Same DEF StopConnection, Handling, Over, Ready, Threads
  <2>q. QED
    BY <2>1, <2>2, <2>3, <2>4, <2>5, <2>6, <2>7
<1>3. CASE StopContext
  <2>1. StartTypes'
    BY <1>3, Same DEF StopContext, Handling
  <2>2. MainTypes' /\ LoopTypes'
    BY <1>3, Same DEF StopContext, Handling, Over, MainTypes, LoopTypes
  <2>3. FlagTypes'
    BY <1>3, Same DEF StopContext, Handling
  <2>4. Described'
    BY <1>3 DEF StopContext, Handling, Over, Described
  <2>5. Pointers'
    BY <1>3 DEF StopContext, Handling, Over, Pointers, Before, FlagTypes
  <2>6. Threads'
    BY <1>3 DEF StopContext, Handling, Over, Threads
  <2>7. Ready'
    BY <1>3, Same DEF StopContext, Handling, Over, Ready, Threads
  <2>q. QED
    BY <2>1, <2>2, <2>3, <2>4, <2>5, <2>6, <2>7
<1>4. CASE Reset
  <2>1. StartTypes'
    BY <1>4, Same DEF Reset, Handling
  <2>2. MainTypes' /\ LoopTypes'
    BY <1>4, Same DEF Reset, Handling, Over, MainTypes, LoopTypes
  <2>3. FlagTypes'
    BY <1>4 DEF Reset, FlagTypes
  <2>4. Described'
    BY <1>4 DEF Reset, Handling, Over, Described
  <2>5. Pointers'
    BY <1>4 DEF Reset, Handling, Over, Pointers, Before, FlagTypes
  <2>6. Threads'
    BY <1>4 DEF Reset, Handling, Over, Threads
  <2>7. Ready'
    BY <1>4, Same DEF Reset, Handling, Over, Ready, Threads
  <2>q. QED
    BY <2>1, <2>2, <2>3, <2>4, <2>5, <2>6, <2>7
<1>5. CASE Release
  <2>1. StartTypes'
    BY <1>5, Same DEF Release, Handling
  <2>2. MainTypes' /\ LoopTypes'
    BY <1>5, Same DEF Release, Handling, Over, MainTypes, LoopTypes
  <2>3. FlagTypes'
    BY <1>5, Same DEF Release, Handling
  <2>4. Described'
    BY <1>5 DEF Release, Handling, Over, Described
  <2>5. Pointers'
    BY <1>5 DEF Release, Handling, Over, Pointers, Before, FlagTypes
  <2>6. Threads'
    BY <1>5 DEF Release, Handling, Over, Threads
  <2>7. Ready'
    BY <1>5, Same DEF Release, Handling, Over, Ready, Threads
  <2>q. QED
    BY <2>1, <2>2, <2>3, <2>4, <2>5, <2>6, <2>7
<1>6. CASE Halt
  <2>1. StartTypes'
    BY <1>6, Same DEF Halt, Handling
  <2>2. MainTypes' /\ LoopTypes'
    BY <1>6, Same DEF Halt, Handling, Over, MainTypes, LoopTypes
  <2>3. FlagTypes'
    BY <1>6, Same DEF Halt, Handling
  <2>4. Described'
    BY <1>6 DEF Halt, Handling, Over, Described
  <2>5. Pointers'
    BY <1>6 DEF Halt, Handling, Over, Pointers, Before, FlagTypes
  <2>6. Threads'
    BY <1>6 DEF Halt, Handling, Over, Threads
  <2>7. Ready'
    BY <1>6, Same DEF Halt, Handling, Over, Ready, Threads
  <2>q. QED
    BY <2>1, <2>2, <2>3, <2>4, <2>5, <2>6, <2>7
<1>q. QED
  BY <1>1, <1>2, <1>3, <1>4, <1>5, <1>6 DEF Handler

\* What runs on the io thread finds main in IOWorker::Run.
LEMMA IOStep == IInv /\ IO => IInv'
<1> SUFFICES ASSUME IInv, IO PROVE IInv'
  OBVIOUS
<1> USE DEF IInv, Types
<1>0. OnIO => main = "join"
  BY DEF OnIO, Over, Threads, MainTypes
<1>1. CASE RxNext
  <2>1. StartTypes'
    BY <1>1, <1>0, Same DEF RxNext
  <2>2. MainTypes' /\ LoopTypes'
    BY <1>1, <1>0, Same DEF RxNext, MainTypes, LoopTypes
  <2>3. FlagTypes'
    BY <1>1, <1>0, Same DEF RxNext
  <2>4. Described'
    BY <1>1, <1>0 DEF RxNext, Described
  <2>5. Pointers'
    BY <1>1, <1>0 DEF RxNext, Pointers, Before, FlagTypes
  <2>6. Threads'
    BY <1>1, <1>0 DEF RxNext, Threads
  <2>7. Ready'
    BY <1>1, <1>0, Same DEF RxNext, Ready, Threads
  <2>q. QED
    BY <2>1, <2>2, <2>3, <2>4, <2>5, <2>6, <2>7
<1>2. CASE RxReceive
  <2>1. StartTypes'
    BY <1>2, <1>0, Same DEF RxReceive
  <2>2. MainTypes' /\ LoopTypes'
    BY <1>2, <1>0, Same DEF RxReceive, MainTypes, LoopTypes
  <2>3. FlagTypes'
    BY <1>2, <1>0, Same DEF RxReceive
  <2>4. Described'
    BY <1>2, <1>0 DEF RxReceive, Described
  <2>5. Pointers'
    BY <1>2, <1>0 DEF RxReceive, Pointers, Before, FlagTypes
  <2>6. Threads'
    BY <1>2, <1>0 DEF RxReceive, Threads
  <2>7. Ready'
    BY <1>2, <1>0, Same DEF RxReceive, Ready, Threads
  <2>q. QED
    BY <2>1, <2>2, <2>3, <2>4, <2>5, <2>6, <2>7
<1>3. CASE RxWritten
  <2>1. StartTypes'
    BY <1>3, <1>0, Same DEF RxWritten
  <2>2. MainTypes' /\ LoopTypes'
    BY <1>3, <1>0, Same DEF RxWritten, MainTypes, LoopTypes
  <2>3. FlagTypes'
    BY <1>3, <1>0, Same DEF RxWritten
  <2>4. Described'
    BY <1>3, <1>0 DEF RxWritten, Described
  <2>5. Pointers'
    BY <1>3, <1>0 DEF RxWritten, Pointers, Before, FlagTypes
  <2>6. Threads'
    BY <1>3, <1>0 DEF RxWritten, Threads
  <2>7. Ready'
    BY <1>3, <1>0, Same DEF RxWritten, Ready, Threads
  <2>q. QED
    BY <2>1, <2>2, <2>3, <2>4, <2>5, <2>6, <2>7
<1>4. CASE RxAborted
  <2>1. StartTypes'
    BY <1>4, <1>0, Same DEF RxAborted
  <2>2. MainTypes' /\ LoopTypes'
    BY <1>4, <1>0, Same DEF RxAborted, MainTypes, LoopTypes
  <2>3. FlagTypes'
    BY <1>4, <1>0, Same DEF RxAborted
  <2>4. Described'
    BY <1>4, <1>0 DEF RxAborted, Described
  <2>5. Pointers'
    BY <1>4, <1>0 DEF RxAborted, Pointers, Before, FlagTypes
  <2>6. Threads'
    BY <1>4, <1>0 DEF RxAborted, Threads
  <2>7. Ready'
    BY <1>4, <1>0, Same DEF RxAborted, Ready, Threads
  <2>q. QED
    BY <2>1, <2>2, <2>3, <2>4, <2>5, <2>6, <2>7
<1>5. CASE TxNext
  <2>1. StartTypes'
    BY <1>5, <1>0, Same DEF TxNext
  <2>2. MainTypes' /\ LoopTypes'
    BY <1>5, <1>0, Same DEF TxNext, MainTypes, LoopTypes
  <2>3. FlagTypes'
    BY <1>5, <1>0, Same DEF TxNext
  <2>4. Described'
    BY <1>5, <1>0 DEF TxNext, Described
  <2>5. Pointers'
    BY <1>5, <1>0 DEF TxNext, Pointers, Before, FlagTypes
  <2>6. Threads'
    BY <1>5, <1>0 DEF TxNext, Threads
  <2>7. Ready'
    BY <1>5, <1>0, Same DEF TxNext, Ready, Threads
  <2>q. QED
    BY <2>1, <2>2, <2>3, <2>4, <2>5, <2>6, <2>7
<1>6. CASE TxRead
  <2>1. StartTypes'
    BY <1>6, <1>0, Same DEF TxRead
  <2>2. MainTypes' /\ LoopTypes'
    BY <1>6, <1>0, Same DEF TxRead, MainTypes, LoopTypes
  <2>3. FlagTypes'
    BY <1>6, <1>0, Same DEF TxRead
  <2>4. Described'
    BY <1>6, <1>0 DEF TxRead, Described
  <2>5. Pointers'
    BY <1>6, <1>0 DEF TxRead, Pointers, Before, FlagTypes
  <2>6. Threads'
    BY <1>6, <1>0 DEF TxRead, Threads
  <2>7. Ready'
    BY <1>6, <1>0, Same DEF TxRead, Ready, Threads
  <2>q. QED
    BY <2>1, <2>2, <2>3, <2>4, <2>5, <2>6, <2>7
<1>7. CASE TxSent
  <2>1. StartTypes'
    BY <1>7, <1>0, Same DEF TxSent
  <2>2. MainTypes' /\ LoopTypes'
    BY <1>7, <1>0, Same DEF TxSent, MainTypes, LoopTypes
  <2>3. FlagTypes'
    BY <1>7, <1>0, Same DEF TxSent
  <2>4. Described'
    BY <1>7, <1>0 DEF TxSent, Described
  <2>5. Pointers'
    BY <1>7, <1>0 DEF TxSent, Pointers, Before, FlagTypes
  <2>6. Threads'
    BY <1>7, <1>0 DEF TxSent, Threads
  <2>7. Ready'
    BY <1>7, <1>0, Same DEF TxSent, Ready, Threads
  <2>q. QED
    BY <2>1, <2>2, <2>3, <2>4, <2>5, <2>6, <2>7
<1>8. CASE TxAborted
  <2>1. StartTypes'
    BY <1>8, <1>0, Same DEF TxAborted
  <2>2. MainTypes' /\ LoopTypes'
    BY <1>8, <1>0, Same DEF TxAborted, MainTypes, LoopTypes
  <2>3. FlagTypes'
    BY <1>8, <1>0, Same DEF TxAborted
  <2>4. Described'
    BY <1>8, <1>0 DEF TxAborted, Described
  <2>5. Pointers'
    BY <1>8, <1>0 DEF TxAborted, Pointers, Before, FlagTypes
  <2>6. Threads'
    BY <1>8, <1>0 DEF TxAborted, Threads
  <2>7. Ready'
    BY <1>8, <1>0, Same DEF TxAborted, Ready, Threads
  <2>q. QED
    BY <2>1, <2>2, <2>3, <2>4, <2>5, <2>6, <2>7
<1>9. CASE CloseConnection
  <2>1. StartTypes'
    BY <1>9, <1>0, Same DEF CloseConnection
  <2>2. MainTypes' /\ LoopTypes'
    <3>1. MainTypes'
      BY <1>9 DEF CloseConnection, MainTypes
    <3>2. LoopTypes'
      BY <1>9 DEF CloseConnection, LoopTypes
    <3>q. QED
      BY <3>1, <3>2
  <2>3. FlagTypes'
    BY <1>9, <1>0, Same DEF CloseConnection
  <2>4. Described'
    BY <1>9, <1>0 DEF CloseConnection, Described
  <2>5. Pointers'
    BY <1>9, <1>0 DEF CloseConnection, Pointers, Before, FlagTypes
  <2>6. Threads'
    BY <1>9, <1>0 DEF CloseConnection, Threads
  <2>7. Ready'
    BY <1>9, <1>0, Same DEF CloseConnection, Ready, Threads
  <2>q. QED
    BY <2>1, <2>2, <2>3, <2>4, <2>5, <2>6, <2>7
<1>10. CASE CloseTun
  <2>1. StartTypes'
    BY <1>10 DEF CloseTun, StartTypes
  <2>2. MainTypes' /\ LoopTypes'
    <3>1. MainTypes'
      BY <1>10 DEF CloseTun, MainTypes
    <3>2. LoopTypes'
      BY <1>10 DEF CloseTun, LoopTypes
    <3>q. QED
      BY <3>1, <3>2
  <2>3. FlagTypes'
    BY <1>10, <1>0, Same DEF CloseTun
  <2>4. Described'
    BY <1>10, <1>0 DEF CloseTun, Described
  <2>5. Pointers'
    BY <1>10, <1>0 DEF CloseTun, Pointers, Before, FlagTypes
  <2>6. Threads'
    BY <1>10, <1>0 DEF CloseTun, Threads
  <2>7. Ready'
    <3>1. /\ host' = host /\ detail' = detail
          /\ tun' \in {tun, "closed"}
      BY <1>10 DEF CloseTun
    <3>2. Usable => Usable'
      BY <3>1 DEF Usable
    <3>q. QED
      BY <1>10, <3>2 DEF CloseTun, Ready
  <2>q. QED
    BY <2>1, <2>2, <2>3, <2>4, <2>5, <2>6, <2>7
<1>11. CASE EndIO
  <2>1. StartTypes'
    BY <1>11, Same DEF EndIO
  <2>2. MainTypes' /\ LoopTypes'
    <3>1. MainTypes'
      BY <1>11 DEF EndIO, MainTypes
    <3>2. LoopTypes'
      BY <1>11 DEF EndIO, LoopTypes
    <3>q. QED
      BY <3>1, <3>2
  <2>3. FlagTypes'
    BY <1>11, Same DEF EndIO
  <2>4. Described'
    BY <1>11 DEF EndIO, Described
  <2>5. Pointers'
    BY <1>11 DEF EndIO, Pointers, Before, FlagTypes
  <2>6. Threads'
    BY <1>11 DEF EndIO, Threads
  <2>7. Ready'
    BY <1>11, Same DEF EndIO, Ready, Threads
  <2>q. QED
    BY <2>1, <2>2, <2>3, <2>4, <2>5, <2>6, <2>7
<1>q. QED
  BY <1>1, <1>2, <1>3, <1>4, <1>5, <1>6, <1>7, <1>8, <1>9, <1>10, <1>11 DEF IO

LEMMA NextIInv == IInv /\ [Next]_vars => IInv'
<1> SUFFICES ASSUME IInv, UNCHANGED vars PROVE IInv'
  BY MainStep, HandlerStep, IOStep DEF Next
<1> USE DEF IInv, Types, vars
<1>1. StartTypes' /\ FlagTypes' /\ LoopTypes'
  BY Same
<1>2. MainTypes' /\ Described'
  BY DEF MainTypes, Described
<1>3. Pointers' /\ Threads'
  BY DEF Pointers, Threads, Before
<1>4. Ready'
  BY Same DEF Ready
<1>q. QED
  BY <1>1, <1>2, <1>3, <1>4

-----------------------------------------------------------------------------
\* The inductive invariant, for all files.
THEOREM Invariance == Spec => []IInv
BY InitIInv, NextIInv, PTL DEF Spec

\* main, the handler, the loops and what they share keep their types.
THEOREM TypeCorrect == Spec => []TypeOK
<1>1. IInv => TypeOK
  BY TypesAreRight DEF IInv
<1>q. QED
  BY <1>1, Invariance, PTL

\* No route and no loop on a tun device that InitByFile has not set up, although
\* Create's -1 counts as success.
THEOREM TunIsSetUp == Spec => []RunsOnlySetUp
<1>1. IInv => RunsOnlySetUp
  <2>1. ASSUME NEW mtu \in MTUs PROVE mtu >= 68
    BY DEF MTUs
  <2>2. Usable => tun # "none" /\ (host.platform = "linux" => detail.mtu >= 68)
    BY <2>1 DEF Usable
  <2>q. QED
    BY <2>2 DEF IInv, Ready, Threads, RunsOnlySetUp
<1>q. QED
  BY <1>1, Invariance, PTL

\* Which pairs of files give two hosts the same addresses, in either direction.
THEOREM HostsAgree == Spec => []HostsMeet
<1>1. IInv => HostsMeet
  <2> SUFFICES ASSUME IInv, main = "read", detail.role = "server",
                      NEW file \in Files, NEW peer \in Details(file), peer.role = "client"
               PROVE  /\ peer.local_tun_ip = detail.remote_tun_ip <=>
                             /\ host.file.remote_tun_ip = Missing
                             /\ file.local_tun_ip \in {Missing, "client"}
                      /\ peer.remote_tun_ip = detail.local_tun_ip <=>
                             /\ file.remote_tun_ip = Missing
                             /\ host.file.local_tun_ip \in {Missing, "server"}
    BY DEF HostsMeet
  <2>1. host.file \in Files /\ detail \in Details(host.file)
    BY DEF IInv, Types, StartTypes, Described
  <2>q. QED
    BY <2>1, Addresses
<1>q. QED
  BY <1>1, Invariance, PTL

\* Server::Stop never goes through an empty pointer once the server is up.
THEOREM PointersAreFound == Spec => []StopFindsPointers
<1>1. IInv => StopFindsPointers
  BY DEF IInv, Pointers, Before, StopFindsPointers
<1>q. QED
  BY <1>1, Invariance, PTL

\* Nor does anybody before SIGINT.
THEOREM NoCrashBeforeStop == Spec => []SafeUntilStopped
<1>1. IInv => SafeUntilStopped
  BY DEF IInv, Pointers, SafeUntilStopped
<1>q. QED
  BY <1>1, Invariance, PTL

\* The plain pointer of TunDevice::Close is good when it is used: main holds the
\* Context until the io thread has ended.
THEOREM ContextOutlivesTun == Spec => TunClosedWithContext
<1>1. IInv /\ [Next]_vars =>
        [tun # "closed" /\ tun' = "closed" => held \/ context \/ rx \in Running]_vars
  <2> SUFFICES ASSUME IInv, Next, tun # "closed", tun' = "closed" PROVE held
    BY DEF vars
  <2>1. ~Main /\ ~Signal /\ ~Handler
    BY DEF Main, Check, ReadFile, Create, Setup, MakeServer, MakeClient, Connection, Bind,
           Spawn, AddClient, Run, Return, Signal, Handler, StopConnection, StopContext,
           Reset, Release, Halt
  <2>2. IO
    BY <2>1 DEF Next
  <2>3. CloseTun
    BY <2>2 DEF IO, RxNext, RxReceive, RxWritten, RxAborted, TxNext, TxRead, TxSent,
                TxAborted, CloseConnection, EndIO
  <2>q. QED
    BY <2>3 DEF CloseTun, OnIO, Over, IInv, Threads, Pointers
<1>q. QED
  BY <1>1, Invariance, PTL DEF Spec, TunClosedWithContext
=============================================================================
