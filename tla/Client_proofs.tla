---------------------------- MODULE Client_proofs ----------------------------
(***************************************************************************)
(* Proofs of the safety invariants of Client, for UDP and for TCP and any  *)
(* number of connections.  They are proved together: the inductive         *)
(* invariant IInv adds to them where a Reconnect can be (Place), which     *)
(* loops there are while it runs (Loops), and what holds until SIGINT      *)
(* (Calm).                                                                 *)
(***************************************************************************)
EXTENDS Client, TLAPS

\* Reconnect has one thread at a time, and there is a connection left to make
\* until it has made one.
Place ==
    /\ rec.by = "none" <=> rec.pc = "none"
    /\ main = "reconnect" <=> rec.by = "main"
    /\ rec.by = "io" => main = "join"
    /\ rec.pc \in {"unset", "test", "close", "drop", "network", "make"}
          => made < MaxConns
    /\ main \in {"init", "made"} => made = 0 /\ route = "main"

\* The send loop that called Reconnect no longer reads from the tun device, and
\* the new one has not started.
Loops ==
    /\ OneTunReader
    /\ main \in {"init", "made"} \/ rec.pc \notin {"none", "conn", "route"}
          => \A g \in Conns : tx[g] # "run"

\* The route leaves the tunnel at the start of Reconnect and enters it at the
\* end.
Routed == rec.pc \notin {"none", "unset"} => route = "main"

\* Nothing Stop does has happened.
Calm ==
    sig = "none" =>
        /\ client # "reset" /\ posted = <<>> /\ tun = "open" /\ crash = "none"
        /\ main = "made" => client = "set"
        /\ rec.pc \in {"close", "drop", "connect", "connecting", "tun", "conn", "route"}
              => conn # 0
        /\ rec.pc \in {"conn", "route"} => tx[conn] = "run"
        /\ TunnelIsServed

IInv == TypeOK /\ Place /\ Loops /\ Routed /\ Calm
-----------------------------------------------------------------------------
USE ClientAssumption DEF Conns

LEMMA InitIInv == Init => IInv
<1> SUFFICES ASSUME Init PROVE IInv
  OBVIOUS
<1>1. TypeOK
  <2>1. 0 \in 0 .. made /\ made \in 0 .. MaxConns
    BY DEF Init
  <2>2. rec \in [by : {"none", "main", "io"},
                 pc : {"none", "unset", "test", "close", "drop", "network", "make",
                       "connect", "connecting", "tun", "conn", "route"},
                 on : 0 .. MaxConns]
    BY DEF Init, NoReconnect
  <2>3. posted \in Seq(0 .. MaxConns)
    BY DEF Init
  <2>q. QED
    BY <2>1, <2>2, <2>3 DEF Init, TypeOK
<1>2. Place /\ Loops /\ Routed
  BY DEF Init, Place, Loops, OneTunReader, Routed, NoReconnect
<1>3. Calm
  BY DEF Init, Calm, TunnelIsServed, NoReconnect
<1>q. QED
  BY <1>1, <1>2, <1>3 DEF IInv

RecPcs == {"none", "unset", "test", "close", "drop", "network", "make", "connect",
           "connecting", "tun", "conn", "route"}
RecStates == [by : {"none", "main", "io"}, pc : RecPcs, on : 0 .. MaxConns]

\* rec keeps its type when Reconnect goes on to its next step.
LEMMA GotoType ==
    ASSUME TypeOK
    PROVE  /\ rec \in RecStates
           /\ \A pc \in RecPcs : Goto(pc) => rec' \in RecStates
<1>1. rec \in RecStates
  BY DEF TypeOK, RecStates, RecPcs
<1>q. QED
  BY <1>1 DEF Goto, RecStates

LEMMA NextIInv == IInv /\ [Next]_vars => IInv'
<1> SUFFICES ASSUME IInv, [Next]_vars PROVE IInv'
  OBVIOUS
<1> USE DEF IInv
<1> USE DEF TypeOK, Place, Loops, OneTunReader, Routed, Calm, TunnelIsServed,
            vars, mainVars, connVars, loopVars, sysVars, ioVars
<1>1. ASSUME MakeClient PROVE IInv'
  BY <1>1 DEF MakeClient, MainRuns
<1>2. ASSUME RunClient PROVE IInv'
  BY <1>2 DEF RunClient, MainRuns
<1>3. ASSUME StartWorkers PROVE IInv'
  BY <1>3 DEF StartWorkers, MainRuns
<1>4. ASSUME Exit PROVE IInv'
  BY <1>4 DEF Exit, MainRuns
<1>5. ASSUME SigInt PROVE IInv'
  BY <1>5 DEF SigInt
<1>6. ASSUME crash = "none", StopUnset PROVE IInv'
  BY <1>6 DEF StopUnset
<1>7. ASSUME crash = "none", StopFlag PROVE IInv'
  BY <1>7 DEF StopFlag
<1>8. ASSUME crash = "none", StopTest PROVE IInv'
  BY <1>8 DEF StopTest
<1>9. ASSUME crash = "none", StopClose PROVE IInv'
  <2>1. TypeOK'
    <3>1. conn \in 0 .. MaxConns
      OBVIOUS
    <3>2. Append(posted, conn) \in Seq(0 .. MaxConns)
      BY <3>1
    <3>3. posted' \in Seq(0 .. MaxConns)
      BY <1>9, <3>2 DEF StopClose
    <3>4. /\ UNCHANGED <<mainVars, rec, connVars, loopVars, sysVars, iostopped>>
          /\ sig' \in {"close", "tun"}
          /\ crash' \in {"none", "Close"}
      BY <1>9 DEF StopClose
    <3>q. QED
      BY <3>3, <3>4
  <2>2. Place'
    BY <1>9 DEF StopClose
  <2>3. Loops'
    BY <1>9 DEF StopClose
  <2>4. Routed'
    BY <1>9 DEF StopClose
  <2>5. Calm'
    BY <1>9 DEF StopClose
  <2>q. QED
    BY <2>1, <2>2, <2>3, <2>4, <2>5
<1>10. ASSUME crash = "none", StopTun PROVE IInv'
  BY <1>10 DEF StopTun
<1>11. ASSUME crash = "none", StopReset PROVE IInv'
  BY <1>11 DEF StopReset, ConnectUnheld
<1>12. ASSUME crash = "none", StopDrop PROVE IInv'
  BY <1>12 DEF StopDrop
<1>13. ASSUME crash = "none", StopWorkers PROVE IInv'
  BY <1>13 DEF StopWorkers
<1>14. ASSUME RecUnset PROVE IInv'
  <2>1. TypeOK'
    <3>1. rec' \in RecStates
      BY <1>14, GotoType DEF RecUnset, RecPcs
    <3>q. QED
      BY <1>14, <3>1 DEF RecUnset, RecStates, RecPcs
  <2>2. Place'
    BY <1>14 DEF RecUnset, At, Goto
  <2>3. Loops'
    BY <1>14 DEF RecUnset, At, Goto
  <2>4. Routed'
    BY <1>14 DEF RecUnset, At, Goto
  <2>5. Calm'
    BY <1>14 DEF RecUnset, At, Goto
  <2>q. QED
    BY <2>1, <2>2, <2>3, <2>4, <2>5
<1>15. ASSUME RecTest PROVE IInv'
  BY <1>15 DEF RecTest, At, Goto
<1>16. ASSUME RecClose PROVE IInv'
  <2>1. TypeOK'
    <3>1. rec' \in RecStates
      BY <1>16, GotoType DEF RecClose, RecPcs
    <3>2. sock' \in [Conns -> {"new", "open", "broken", "closed"}]
      BY <1>16 DEF RecClose, Closed
    <3>3. UNCHANGED <<mainVars, sig, conn, made, loopVars, sysVars, ioVars>>
          /\ crash' \in {"none", "Close"}
      BY <1>16 DEF RecClose, At
    <3>q. QED
      BY <3>1, <3>2, <3>3 DEF RecStates, RecPcs
  <2>2. Place'
    BY <1>16 DEF RecClose, At, Goto, Closed
  <2>3. Loops'
    BY <1>16 DEF RecClose, At, Goto, Closed
  <2>4. Routed'
    BY <1>16 DEF RecClose, At, Goto, Closed
  <2>5. Calm'
    BY <1>16 DEF RecClose, At, Goto, Closed
  <2>q. QED
    BY <2>1, <2>2, <2>3, <2>4, <2>5
<1>17. ASSUME RecDrop PROVE IInv'
  <2>1. TypeOK'
    <3>1. rec' \in RecStates
      BY <1>17, GotoType DEF RecDrop, RecPcs
    <3>q. QED
      BY <1>17, <3>1 DEF RecDrop, RecStates, RecPcs
  <2>2. Place'
    BY <1>17 DEF RecDrop, At, Goto
  <2>3. Loops'
    BY <1>17 DEF RecDrop, At, Goto
  <2>4. Routed'
    BY <1>17 DEF RecDrop, At, Goto
  <2>5. Calm'
    BY <1>17 DEF RecDrop, At, Goto
  <2>q. QED
    BY <2>1, <2>2, <2>3, <2>4, <2>5
<1>18. ASSUME RecNetworkUp PROVE IInv'
  <2>1. TypeOK'
    <3>1. rec' \in RecStates
      BY <1>18, GotoType DEF RecNetworkUp, RecPcs
    <3>q. QED
      BY <1>18, <3>1 DEF RecNetworkUp, RecStates, RecPcs
  <2>2. Place' /\ Loops' /\ Routed'
    BY <1>18 DEF RecNetworkUp, At, Goto
  <2>3. Calm'
    BY <1>18 DEF RecNetworkUp, At, Goto
  <2>q. QED
    BY <2>1, <2>2, <2>3
<1>19. ASSUME RecNetworkStopped PROVE IInv'
  BY <1>19 DEF RecNetworkStopped, At, Return, NoReconnect
<1>20. ASSUME RecMake PROVE IInv'
  <2>1. TypeOK'
    <3>1. made + 1 \in 0 .. MaxConns /\ made + 1 \in 0 .. made + 1
      BY <1>20 DEF RecMake, At
    <3>2. rec' \in RecStates
      BY <1>20, GotoType DEF RecMake, RecPcs
    <3>q. QED
      BY <1>20, <3>1, <3>2 DEF RecMake, RecStates, RecPcs
  <2>2. Place'
    BY <1>20 DEF RecMake, At, Goto
  <2>3. Loops'
    BY <1>20 DEF RecMake, At, Goto
  <2>4. Routed'
    BY <1>20 DEF RecMake, At, Goto
  <2>5. Calm'
    BY <1>20 DEF RecMake, At, Goto
  <2>q. QED
    BY <2>1, <2>2, <2>3, <2>4, <2>5
<1>21. ASSUME RecConnect PROVE IInv'
  <2>1. TypeOK'
    <3>1. conn \in 0 .. MaxConns
      OBVIOUS
    <3>2. rec' \in RecStates
      BY <1>21, <3>1, GotoType DEF RecConnect, RecStates, RecPcs
    <3>3. UNCHANGED <<mainVars, sig, connVars, loopVars, sysVars, ioVars>>
          /\ crash' \in {"none", "Connect"}
      BY <1>21 DEF RecConnect, At
    <3>q. QED
      BY <3>2, <3>3 DEF RecStates, RecPcs
  <2>2. Place'
    BY <1>21 DEF RecConnect, At
  <2>3. Loops'
    BY <1>21 DEF RecConnect, At
  <2>4. Routed'
    BY <1>21 DEF RecConnect, At
  <2>5. Calm'
    BY <1>21 DEF RecConnect, At
  <2>q. QED
    BY <2>1, <2>2, <2>3, <2>4, <2>5
<1>22. ASSUME RecConnected PROVE IInv'
  <2>1. TypeOK'
    <3>1. rec' \in RecStates
      BY <1>22, GotoType DEF RecConnected, RecPcs
    <3>2. sock' \in [Conns -> {"new", "open", "broken", "closed"}]
      BY <1>22 DEF RecConnected
    <3>q. QED
      BY <1>22, <3>1, <3>2 DEF RecConnected, RecStates, RecPcs
  <2>2. Place'
    BY <1>22 DEF RecConnected, At, Goto
  <2>3. Loops'
    BY <1>22 DEF RecConnected, At, Goto
  <2>4. Routed'
    BY <1>22 DEF RecConnected, At, Goto
  <2>5. Calm'
    BY <1>22 DEF RecConnected, At, Goto
  <2>q. QED
    BY <2>1, <2>2, <2>3, <2>4, <2>5
<1>23. ASSUME RecConnectFailed PROVE IInv'
  <2>1. TypeOK'
    BY <1>23 DEF RecConnectFailed, At, Goto, Return, NoReconnect
  <2>2. Place'
    BY <1>23 DEF RecConnectFailed, At, Goto, Return, NoReconnect
  <2>3. Loops'
    BY <1>23 DEF RecConnectFailed, At, Goto, Return, NoReconnect
  <2>4. Routed'
    BY <1>23 DEF RecConnectFailed, At, Goto, Return, NoReconnect
  <2>5. Calm'
    BY <1>23 DEF RecConnectFailed, At, Goto, Return, NoReconnect
  <2>q. QED
    BY <2>1, <2>2, <2>3, <2>4, <2>5
<1>24. ASSUME RecSpawnTx PROVE IInv'
  <2>1. TypeOK'
    <3>1. rec' \in RecStates
      BY <1>24, GotoType DEF RecSpawnTx, RecPcs
    <3>q. QED
      BY <1>24, <3>1 DEF RecSpawnTx, RecStates, RecPcs
  <2>2. Place'
    BY <1>24 DEF RecSpawnTx, At, Goto
  <2>3. Loops'
    BY <1>24 DEF RecSpawnTx, At, Goto
  <2>4. Routed'
    BY <1>24 DEF RecSpawnTx, At, Goto
  <2>5. Calm'
    BY <1>24 DEF RecSpawnTx, At, Goto
  <2>q. QED
    BY <2>1, <2>2, <2>3, <2>4, <2>5
<1>25. ASSUME RecSpawnRx PROVE IInv'
  <2>1. TypeOK'
    <3>1. rec' \in RecStates
      BY <1>25, GotoType DEF RecSpawnRx, RecPcs
    <3>2. rx' \in [Conns -> {"none", "run", "ended"}]
      BY <1>25 DEF RecSpawnRx
    <3>3. UNCHANGED <<mainVars, sig, connVars, tx, sysVars, ioVars>>
          /\ crash' \in {"none", "Spawn"}
      BY <1>25 DEF RecSpawnRx, At
    <3>q. QED
      BY <3>1, <3>2, <3>3 DEF RecStates, RecPcs
  <2>2. Place'
    BY <1>25 DEF RecSpawnRx, At, Goto
  <2>3. Loops'
    BY <1>25 DEF RecSpawnRx, At, Goto
  <2>4. Routed'
    BY <1>25 DEF RecSpawnRx, At, Goto
  <2>5. Calm'
    BY <1>25 DEF RecSpawnRx, At, Goto
  <2>q. QED
    BY <2>1, <2>2, <2>3, <2>4, <2>5
<1>26. ASSUME RecSetRoute PROVE IInv'
  <2>1. TypeOK'
    BY <1>26 DEF RecSetRoute, At, Return, NoReconnect
  <2>2. Place'
    BY <1>26 DEF RecSetRoute, At, Return, NoReconnect
  <2>3. Loops'
    <3>1. \A g \in Conns : tx'[g] = "run" => tx[g] = "run"
      BY <1>26 DEF RecSetRoute, Return
    <3>2. main' \notin {"init", "made"} /\ rec'.pc = "none"
      BY <1>26 DEF RecSetRoute, At, Return, NoReconnect
    <3>q. QED
      BY <3>1, <3>2
  <2>4. Routed'
    BY <1>26 DEF RecSetRoute, At, Return, NoReconnect
  <2>5. Calm'
    BY <1>26 DEF RecSetRoute, At, Return, NoReconnect
  <2>q. QED
    BY <2>1, <2>2, <2>3, <2>4, <2>5
<1>27. ASSUME RunClose PROVE IInv'
  BY <1>27 DEF RunClose, IoIdle, Closed
<1>28. ASSUME RunTunClose PROVE IInv'
  BY <1>28 DEF RunTunClose, IoIdle
<1>29. ASSUME NEW g \in Conns, Break(g) PROVE IInv'
  BY <1>29 DEF Break
<1>30. ASSUME NEW g \in Conns, TxSendFails(g) PROVE IInv'
  BY <1>30 DEF TxSendFails, IoIdle
<1>31. ASSUME NEW g \in Conns, TxTunFails(g) PROVE IInv'
  BY <1>31 DEF TxTunFails, IoIdle
<1>32. ASSUME NEW g \in Conns, RxFails(g) PROVE IInv'
  BY <1>32 DEF RxFails, IoIdle
<1>33. ASSUME NEW g \in Conns, RxTunFails(g) PROVE IInv'
  BY <1>33 DEF RxTunFails, IoIdle
<1>34. CASE UNCHANGED vars
  BY <1>34
<1> HIDE DEF IInv, TypeOK, Place, Loops, Routed, Calm
<1>q. QED
  BY <1>1, <1>2, <1>3, <1>4, <1>5, <1>6, <1>7, <1>8, <1>9, <1>10, <1>11, <1>12, <1>13, <1>14, <1>15, <1>16, <1>17, <1>18, <1>19, <1>20, <1>21, <1>22, <1>23, <1>24, <1>25, <1>26, <1>27, <1>28, <1>29, <1>30, <1>31, <1>32, <1>33, <1>34 DEF Next, MainStep, StopStep, RecStep

-----------------------------------------------------------------------------
\* The inductive invariant, for every behaviour of the client.
THEOREM Invariance == Spec => []IInv
BY InitIInv, NextIInv, PTL DEF Spec

\* Every variable has its type: connection numbers stay within the connections
\* made, and only connections (or the tun device) are posted for closing.
THEOREM TypeCorrect == Spec => []TypeOK
BY Invariance, PTL DEF IInv

\* Reconnect hands the tun device over from one send loop to the next and
\* never leaves it with two.
THEOREM TunHasOneReader == Spec => []OneTunReader
<1>1. IInv => OneTunReader
  BY DEF IInv, Loops
<1>q. QED
  BY <1>1, Invariance, PTL

\* While Reconnect looks for the server, traffic does not go into the tunnel.
THEOREM ConnectingIsDirect == Spec => []DirectWhileConnecting
<1>1. IInv => DirectWhileConnecting
  BY DEF IInv, Routed, DirectWhileConnecting
<1>q. QED
  BY <1>1, Invariance, PTL

\* Until SIGINT, a route into the tunnel means a loop that sends what comes
\* out of it or is about to be replaced, unless a read from the tun device has
\* failed: no other error, of the connection or of a write, leaves it unserved.
THEOREM RoutedIsServed == Spec => []TunnelIsServed
<1>1. IInv => TunnelIsServed
  BY DEF IInv, Calm, TunnelIsServed
<1>q. QED
  BY <1>1, Invariance, PTL

\* Until SIGINT, no pointer is used while it is empty.
THEOREM PointersAreSet == Spec => []SafeUntilStopped
<1>1. IInv => SafeUntilStopped
  BY DEF IInv, Calm, SafeUntilStopped
<1>q. QED
  BY <1>1, Invariance, PTL
=============================================================================
