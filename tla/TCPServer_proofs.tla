--------------------------- MODULE TCPServer_proofs ---------------------------
(***************************************************************************)
(* Proofs of the safety invariants of TCPServer, for any sets of sockets   *)
(* and any number of frames.  They are proved together: the inductive      *)
(* invariant IInv is their conjunction with the two facts on which         *)
(* OneReader rests, that a connection is accepted once and that a socket   *)
(* is in use nowhere before its tryReceive is over.  On top of it: the     *)
(* refinement of PacketRelay, and what a connection that is alone may      *)
(* count on.                                                               *)
(***************************************************************************)
EXTENDS TCPServer, TLAPS

\* async_accept hands out a socket that no coroutine knows.
AcceptedOnce ==
    /\ accepting # NoSock => try[accepting].pc = "none"
    /\ \A s \in Socks : peer[s] = "new" => try[s].pc = "none" /\ accepting # s

\* Only the end of its tryReceive puts a socket to use.
UnusedUntilChosen ==
    \A s \in Socks : try[s].pc # "done" =>
        s \notin {conn_socket, replace_socket, rx.sock, tx.sock}

\* What the members say of the connection in service.
ConnInv ==
    /\ ConnValid
    /\ NoLostWakeup
    /\ PendingOnConn
    /\ ReadingHasConn

\* Who uses which socket.
ReaderInv ==
    /\ AcceptedOnce
    /\ UnusedUntilChosen
    /\ OneReader

IInv == TypeOK /\ ConnInv /\ ReaderInv

-----------------------------------------------------------------------------
(* The helpers on coroutines.                                              *)

\* An aborted operation is not outstanding any more.
LEMMA AbortedType ==
    ASSUME NEW op \in OpStates
    PROVE  Aborted(op) \in OpStates \ Unfinished
BY DEF Aborted, OpStates, Unfinished, Failed

\* A cancelled coroutine stays where it is, with nothing outstanding on s.
LEMMA CancelledRx ==
    ASSUME NEW c \in RxStates, NEW s
    PROVE  /\ Cancelled(c, s) \in RxStates
           /\ Cancelled(c, s).pc = c.pc
           /\ Cancelled(c, s).sock = c.sock
           /\ c.op = "ok" => Cancelled(c, s).op = "ok"
           /\ Cancelled(c, s).op \in Unfinished =>
                 c.op \in Unfinished /\ (s = NoSock \/ c.sock # s)
<1>1. c.op \in OpStates
  BY DEF RxStates, Parts
<1>2. Aborted(c.op) \in OpStates \ Unfinished
  BY <1>1, AbortedType
<1>3. c.op = "ok" => Aborted(c.op) = "ok"
  BY DEF Aborted
<1>4. QED
  BY <1>1, <1>2, <1>3 DEF Cancelled, RxStates, Parts

LEMMA CancelledTx ==
    ASSUME NEW c \in TxStates, NEW s
    PROVE  /\ Cancelled(c, s) \in TxStates
           /\ Cancelled(c, s).pc = c.pc
           /\ Cancelled(c, s).sock = c.sock
           /\ Cancelled(c, s).op \in Unfinished =>
                 c.op \in Unfinished /\ (s = NoSock \/ c.sock # s)
<1>1. c.op \in OpStates
  BY DEF TxStates
<1>2. Aborted(c.op) \in OpStates \ Unfinished
  BY <1>1, AbortedType
<1>3. QED
  BY <1>1, <1>2 DEF Cancelled, TxStates

\* selected_signal.cancel() wakes who sleeps and touches nobody else.
LEMMA WokenRx ==
    ASSUME NEW c \in RxStates
    PROVE  /\ Woken(c) \in RxStates
           /\ Woken(c).pc = c.pc
           /\ Woken(c).sock = c.sock
           /\ c.pc = "wait" => Woken(c).op = "ok"
           /\ c.pc # "wait" => Woken(c) = c
BY DEF Woken, RxStates, Parts, OpStates

\* The top of the loop of ReceiveFrom, on a valid connection.
LEMMA ReadNextRx ==
    ASSUME NEW sel \in BOOLEAN, NEW s \in Socks \cup {NoSock},
           sel => s # NoSock
    PROVE  /\ ReadNext(sel, s) \in RxStates
           /\ ReadNext(sel, s).pc = "wait" => ~sel
           /\ ReadNext(sel, s).pc \in {"wait", "hdr"}
           /\ ReadNext(sel, s).pc = "hdr" => sel
           /\ ReadNext(sel, s).sock \in {s, NoSock}
           /\ ReadNext(sel, s).pc = "hdr" => ReadNext(sel, s).sock = s
BY DEF ReadNext, Coroutine, RxStates, Parts, OpStates, Unfinished

-----------------------------------------------------------------------------
(* The initial states.                                                     *)

LEMMA InitIInv == Init => IInv
<1> SUFFICES ASSUME Init PROVE IInv
  OBVIOUS
<1>1. TypeOK
  <2>1. rx \in RxStates
    BY ReadNextRx DEF Init
  <2>2. stream \in [Socks -> StreamStates] /\ buf \in [Parts -> SlotStates]
    BY DEF Init, StreamStates, SlotStates, Junk, Slot, At
  <2>3. tx \in TxStates
    BY DEF Init, TxStates, Coroutine, OpStates
  <2>4. try \in [Socks -> [pc : {"none", "hdr", "pay", "done"}, op : OpStates]]
    BY DEF Init, OpStates
  <2>5. QED
    BY <2>1, <2>2, <2>3, <2>4 DEF Init, TypeOK
<1>2. ConnInv
  BY TCPServerAssumption
     DEF Init, ConnInv, ConnValid, NoLostWakeup, PendingOnConn,
         ReadingHasConn, ReadNext, Coroutine, Parts,
         Unfinished
<1>3. ReaderInv
  BY TCPServerAssumption
     DEF Init, ReaderInv, AcceptedOnce, UnusedUntilChosen, OneReader, ReadNext,
         Coroutine, Parts
<1>4. QED
  BY <1>1, <1>2, <1>3 DEF IInv

-----------------------------------------------------------------------------
(* The type invariant is preserved.  A socket reaches rx and tx from       *)
(* conn_socket while selected is set, hence ConnInv.                       *)

\* Reading a stream keeps it a stream, and the buffer a buffer.
LEMMA LandType ==
    ASSUME TypeOK, NEW s \in Socks, NEW k \in Parts, NEW op,
           Land(s, k, op) \/ LandSome(s, k, op)
    PROVE  stream' \in [Socks -> StreamStates] /\ buf' \in [Parts -> SlotStates]
<1>1. stream[s] \in StreamStates
  BY DEF TypeOK
<1>2. Junk \in SlotStates /\ Half(s) \in SlotStates
      /\ Slot(s, stream[s].n, "enc") \in SlotStates
  BY <1>1 DEF Junk, Half, Slot, SlotStates, StreamStates
<1>3. \A slot \in Filled(s, k, op) : slot \in SlotStates
  BY <1>2 DEF Filled, TypeOK
<1>4. \A part \in {"hdr", "pay", "pad", "off"} :
         /\ At(stream[s].n, part) \in StreamStates
         /\ At(stream[s].n + 1, part) \in StreamStates
         /\ [stream[s] EXCEPT !.at = part] \in StreamStates
  BY <1>1 DEF At, StreamStates
<1>5. CASE LandBody(s, k, op)
  BY <1>3, <1>4, <1>5 DEF TypeOK, LandBody
<1>6. CASE LandSome(s, k, op) /\ ~LandBody(s, k, op)
  BY <1>2, <1>6 DEF TypeOK, LandSome
<1>7. CASE LandWhole(s, k, op)
  BY <1>3, <1>4, <1>7 DEF TypeOK, LandWhole
<1>8. CASE LandPadding(s, k)
  <2>1. stream' = [stream EXCEPT ![s] = [stream[s] EXCEPT !.at = "hdr"]]
    BY <1>8 DEF LandPadding
  <2>2. QED
    BY <1>2, <1>4, <1>8, <2>1 DEF TypeOK, LandPadding
<1>9. CASE LandMisread(s, k)
  <2>1. stream' = [stream EXCEPT ![s] = [stream[s] EXCEPT !.at = "off"]]
    BY <1>9 DEF LandMisread
  <2>2. QED
    BY <1>2, <1>4, <1>9, <2>1 DEF TypeOK, LandMisread
<1>10. CASE LandOff(s, k)
  BY <1>2, <1>4, <1>10 DEF TypeOK, LandOff
<1>11. QED
  BY <1>5, <1>6, <1>7, <1>8, <1>9, <1>10 DEF Land

\* Asking for a payload keeps the stream a stream.
LEMMA RequestType ==
    ASSUME TypeOK, NEW s \in Socks, RequestPayload(s)
    PROVE  stream' \in [Socks -> StreamStates]
<1>1. At(stream[s].n, "off") \in StreamStates
  BY DEF TypeOK, StreamStates, At
<1>2. QED
  BY <1>1 DEF TypeOK, RequestPayload

\* Decrypting a slot in place keeps the buffer a buffer.
LEMMA OpenType ==
    ASSUME TypeOK, NEW k \in Parts
    PROVE  Open(k) \in [Parts -> SlotStates]
BY DEF TypeOK, Open, SlotStates

\* A tryReceive coroutine moves on, or its operation does.
LEMMA TryType ==
    ASSUME TypeOK, NEW s \in Socks, NEW pc \in {"none", "hdr", "pay", "done"},
           NEW op \in OpStates
    PROVE  [try EXCEPT ![s] = [pc |-> pc, op |-> op]]
               \in [Socks -> [pc : {"none", "hdr", "pay", "done"}, op : OpStates]]
BY DEF TypeOK

LEMMA TryOpType ==
    ASSUME TypeOK, NEW s \in Socks, NEW op \in OpStates
    PROVE  [try EXCEPT ![s].op = op]
               \in [Socks -> [pc : {"none", "hdr", "pay", "done"}, op : OpStates]]
BY DEF TypeOK

LEMMA TypeStep == TypeOK /\ ConnInv /\ [Next]_vars => TypeOK'
<1> SUFFICES ASSUME TypeOK, ConnInv, [Next]_vars
             PROVE  TypeOK'
  OBVIOUS
<1> USE TCPServerAssumption DEF outVars
<1>ops. /\ {"idle", "ok", "err", "short", "pending", "partial"} \subseteq OpStates
        /\ "hdr" \in Parts /\ "pay" \in Parts
  BY DEF OpStates, Unfinished, Failed, Parts
<1>next. ReadNext(selected, conn_socket) \in RxStates
  BY ReadNextRx DEF TypeOK, ConnInv, ConnValid
<1>1. ASSUME NEW s \in Socks, AcceptDone(s) PROVE TypeOK'
  BY <1>1 DEF TypeOK, AcceptDone, connVars, endVars
<1>2. ASSUME NEW s \in Socks, PeerGone(s) PROVE TypeOK'
  BY <1>2 DEF TypeOK, PeerGone, connVars, endVars
<1>3. ASSUME NEW s \in Socks, TryArrival(s) PROVE TypeOK'
  <2>1. stream' \in [Socks -> StreamStates] /\ buf' \in [Parts -> SlotStates]
    BY <1>3, LandType DEF TryArrival
  <2>2. PICK op \in {"ok", "partial"} : try' = [try EXCEPT ![s].op = op]
    BY <1>3 DEF TryArrival
  <2>3. try' \in [Socks -> [pc : {"none", "hdr", "pay", "done"}, op : OpStates]]
    BY <2>2, <1>ops, TryOpType
  <2>4. QED
    BY <1>3, <2>1, <2>3 DEF TypeOK, TryArrival, connVars, endVars
<1>4. ASSUME NEW s \in Socks, TryReadFails(s) PROVE TypeOK'
  <2>1. try[s].op \in OpStates
    BY DEF TypeOK
  <2>2. try' \in [Socks -> [pc : {"none", "hdr", "pay", "done"}, op : OpStates]]
    BY <1>4, <2>1, AbortedType, TryOpType DEF TryReadFails
  <2>3. QED
    BY <1>4, <2>2 DEF TypeOK, TryReadFails, netVars, connVars, endVars
<1>5. CASE RxArrival
  <2>1. rx.pc \in Parts /\ rx.sock \in Socks
    BY <1>5 DEF RxArrival, TypeOK, RxStates, Parts
  <2>2. stream' \in [Socks -> StreamStates] /\ buf' \in [Parts -> SlotStates]
    BY <1>5, <2>1, LandType DEF RxArrival
  <2>3. rx' \in RxStates
    BY <1>5, <2>1, <1>ops DEF RxArrival, TypeOK, RxStates
  <2>4. QED
    BY <1>5, <2>2, <2>3 DEF TypeOK, RxArrival, connVars, endVars
<1>6. CASE RxReadFails
  <2>1. rx.op \in OpStates
    BY DEF TypeOK, RxStates
  <2>2. Aborted(rx.op) \in OpStates
    BY <2>1, AbortedType
  <2>3. rx' \in RxStates
    BY <1>6, <2>2 DEF RxReadFails, TypeOK, RxStates
  <2>4. QED
    BY <1>6, <2>3 DEF TypeOK, RxReadFails, netVars, connVars, endVars
<1>7. CASE TxWritten
  <2>1. tx' \in TxStates
    BY <1>7, <1>ops DEF TxWritten, TypeOK, TxStates
  <2>2. QED
    BY <1>7, <2>1 DEF TypeOK, TxWritten, netVars, connVars, endVars
<1>8. CASE AcceptResume
  <2>1. accepting \in Socks
    BY <1>8 DEF TypeOK, AcceptResume
  <2>2. try' \in [Socks -> [pc : {"none", "hdr", "pay", "done"}, op : OpStates]]
    BY <1>8, <1>ops, <2>1, TryType DEF AcceptResume
  <2>3. QED
    BY <1>8, <2>2 DEF TypeOK, AcceptResume, connVars, endVars
<1>9. ASSUME NEW s \in Socks, TryRun(s) PROVE TypeOK'
  <2>1. CASE TryHeaderOpens(s)
    <3>1. buf' \in [Parts -> SlotStates]
      BY <2>1, <1>ops, OpenType DEF TryHeaderOpens
    <3>2. stream' \in [Socks -> StreamStates]
      BY <2>1, RequestType DEF TryHeaderOpens
    <3>3. try' \in [Socks -> [pc : {"none", "hdr", "pay", "done"}, op : OpStates]]
      BY <2>1, <1>ops, TryType DEF TryHeaderOpens
    <3>4. QED
      BY <2>1, <3>1, <3>2, <3>3 DEF TypeOK, TryHeaderOpens, connVars, endVars
  <2>2. CASE TryHeaderRefused(s)
    <3>1. try' \in [Socks -> [pc : {"none", "hdr", "pay", "done"}, op : OpStates]]
      BY <2>2, <1>ops, TryType DEF TryHeaderRefused
    <3>2. QED
      BY <2>2, <3>1 DEF TypeOK, TryHeaderRefused, netVars, connVars, endVars
  <2>3. CASE TryThrows(s)
    BY <2>3 DEF TypeOK, TryThrows, netVars, connVars
  <2>4. ASSUME TryPayload(s)
        PROVE  /\ buf' \in [Parts -> SlotStates]
               /\ try' \in [Socks -> [pc : {"none", "hdr", "pay", "done"},
                                      op : OpStates]]
    <3>1. buf \in [Parts -> SlotStates] /\ Open("pay") \in [Parts -> SlotStates]
      BY <1>ops, OpenType DEF TypeOK
    <3>2. QED
      BY <2>4, <3>1, <1>ops, TryType DEF TryPayload
  <2>5. CASE TrySelect(s)
    <3>1. Cancelled(rx, conn_socket) \in RxStates
      BY CancelledRx DEF TypeOK
    <3>2. rx' \in RxStates /\ tx' \in TxStates
      BY <2>5, <3>1, WokenRx, CancelledTx DEF TrySelect, TypeOK
    <3>3. QED
      BY <2>4, <2>5, <3>2 DEF TypeOK, TrySelect, netVars, endVars
  <2>6. CASE TryReplace(s)
    <3>1. rx' \in RxStates /\ tx' \in TxStates
      BY <2>6, CancelledRx, CancelledTx DEF TryReplace, TypeOK
    <3>2. QED
      BY <2>4, <2>6, <3>1 DEF TypeOK, TryReplace, netVars, endVars
  <2>7. QED
    BY <1>9, <2>1, <2>2, <2>3, <2>5, <2>6 DEF TryRun
<1>10. CASE RxRun
  <2>1. CASE RxWake
    BY <2>1, <1>next DEF TypeOK, RxWake, netVars, connVars, endVars
  <2>2. CASE RxHeaderOpens
    <3>1. conn_socket \in Socks
      BY <2>2 DEF RxHeaderOpens, TypeOK
    <3>2. buf' \in [Parts -> SlotStates]
      BY <2>2, <1>ops, OpenType DEF RxHeaderOpens
    <3>3. stream' \in [Socks -> StreamStates]
      BY <2>2, <3>1, RequestType DEF RxHeaderOpens
    <3>4. rx' \in RxStates
      BY <2>2, <3>1, <1>ops DEF RxHeaderOpens, RxStates, Coroutine
    <3>5. QED
      BY <2>2, <3>2, <3>3, <3>4 DEF TypeOK, RxHeaderOpens, connVars, endVars
  <2>3. CASE RxHeaderRefused
    BY <2>3, <1>next DEF TypeOK, RxHeaderRefused, netVars, connVars, endVars
  <2>4. CASE RxNull
    BY <2>4 DEF TypeOK, RxNull, netVars, connVars
  <2>5. CASE RxLost
    <3>1. /\ conn_socket' \in Socks \cup {NoSock}
          /\ replace_socket' \in Socks \cup {NoSock}
          /\ selected' \in BOOLEAN
          /\ selected' => conn_socket' # NoSock
      BY <2>5 DEF RxLost, TypeOK
    <3>2. ReadNext(selected', conn_socket') \in RxStates
      BY <3>1, ReadNextRx
    <3>3. rx' \in RxStates /\ tx' \in TxStates
      BY <2>5, <3>2, CancelledTx DEF RxLost, TypeOK
    <3>4. QED
      BY <2>5, <3>1, <3>3 DEF TypeOK, RxLost, netVars, endVars
  <2>6. CASE RxStopped
    <3>1. rx' \in RxStates
      BY <2>6, <1>ops DEF RxStopped, RxStates, Coroutine
    <3>2. QED
      BY <2>6, <3>1 DEF TypeOK, RxStopped, netVars, connVars, endVars
  <2>7. CASE RxPayloadRefused
    BY <2>7, <1>next DEF TypeOK, RxPayloadRefused, netVars, connVars, endVars
  <2>8. CASE RxPacket
    <3>1. buf' \in [Parts -> SlotStates]
      BY <2>8, <1>ops, OpenType DEF RxPacket
    <3>2. last' \in [Socks -> Nat]
      BY <2>8, <1>ops DEF RxPacket, TypeOK, SlotStates
    <3>3. rx' \in RxStates
      BY <2>8, <1>next, <1>ops DEF RxPacket, RxStates, Coroutine
    <3>4. QED
      BY <2>8, <3>1, <3>2, <3>3 DEF TypeOK, RxPacket, netVars, connVars, endVars
  <2>9. CASE RxPacketWithError
    <3>1. buf' \in [Parts -> SlotStates]
      BY <2>9, <1>ops, OpenType DEF RxPacketWithError
    <3>2. rx' \in RxStates
      BY <2>9, <1>ops DEF RxPacketWithError, RxStates, Coroutine
    <3>3. QED
      BY <2>9, <3>1, <3>2
         DEF TypeOK, RxPacketWithError, netVars, connVars, endVars
  <2>10. CASE RxTunWritten
    <3>1. rx' \in RxStates
      BY <2>10, <1>next, <1>ops DEF RxTunWritten, RxStates, Coroutine
    <3>2. QED
      BY <2>10, <3>1 DEF TypeOK, RxTunWritten, netVars, connVars, endVars
  <2>11. QED
    BY <1>10, <2>1, <2>2, <2>3, <2>4, <2>5, <2>6, <2>7, <2>8, <2>9, <2>10 DEF RxRun
<1>11. CASE TxSend \/ TxTunFails \/ TxRun
  <2>1. CASE TxSend
    <3>1. tx' \in TxStates
      BY <2>1, <1>ops DEF TxSend, TxStates, Coroutine, TypeOK, ConnInv, ConnValid
    <3>2. QED
      BY <2>1, <3>1 DEF TypeOK, TxSend, netVars, connVars, endVars
  <2>2. ASSUME NEW pc \in {"tun", "ended"}
        PROVE  Coroutine(pc, NoSock, "idle") \in TxStates
    BY <1>ops DEF TxStates, Coroutine
  <2>3. CASE TxReturn
    BY <2>2, <2>3 DEF TypeOK, TxReturn, netVars, connVars, endVars
  <2>4. CASE TxError
    <3>1. rx' \in RxStates
      BY <2>4, CancelledRx DEF TxError, TypeOK
    <3>2. QED
      BY <2>2, <2>4, <3>1 DEF TypeOK, TxError, netVars, endVars
  <2>5. CASE TxNull
    BY <2>5 DEF TypeOK, TxNull, netVars, connVars
  <2>6. CASE TxTunFails
    BY <2>2, <2>6 DEF TypeOK, TxTunFails, netVars, connVars, endVars
  <2>7. QED
    BY <1>11, <2>1, <2>3, <2>4, <2>5, <2>6 DEF TxRun
<1>12. CASE Close
  BY <1>12 DEF TypeOK, Close, netVars, connVars
<1>13. CASE CloseRun
  <2>1. /\ Cancelled(rx, conn_socket) \in RxStates
        /\ Cancelled(tx, conn_socket) \in TxStates
    BY CancelledRx, CancelledTx DEF TypeOK
  <2>2. QED
    BY <1>13, <2>1 DEF TypeOK, CloseRun
<1>14. CASE UNCHANGED vars
  BY <1>14 DEF TypeOK, vars, netVars, connVars, endVars
<1>15. QED
  BY <1>1, <1>2, <1>3, <1>4, <1>5, <1>6, <1>7, <1>8, <1>9, <1>10, <1>11, <1>12,
     <1>13, <1>14 DEF Next, Network

-----------------------------------------------------------------------------
(* What the members say of the connection in service is preserved.  The    *)
(* steps that matter are those that set selected or conn_socket.           *)

LEMMA ConnStep == TypeOK /\ ConnInv /\ [Next]_vars => ConnInv'
<1> SUFFICES ASSUME TypeOK, ConnInv, [Next]_vars
             PROVE  ConnInv'
  OBVIOUS
<1> USE TCPServerAssumption
    DEF ConnInv, ConnValid, NoLostWakeup, PendingOnConn,
        ReadingHasConn, connVars
<1>typ. /\ rx \in RxStates /\ tx \in TxStates
        /\ selected \in BOOLEAN
        /\ conn_socket \in Socks \cup {NoSock}
        /\ replace_socket \in Socks \cup {NoSock}
  BY DEF TypeOK
<1>pc. /\ rx.pc \in Parts => rx.sock # NoSock
       /\ tx.pc = "write" => tx.sock # NoSock
       /\ "wait" \notin Parts /\ "tun" \notin Parts /\ "ended" \notin Parts
  BY <1>typ DEF RxStates, TxStates, Parts
<1>next. /\ ReadNext(selected, conn_socket).pc = "wait" => ~selected
         /\ ReadNext(selected, conn_socket).pc \in Parts => selected
         /\ ReadNext(selected, conn_socket).pc \in Parts =>
               ReadNext(selected, conn_socket).sock = conn_socket
  BY DEF ReadNext, Coroutine, Parts
<1>can. ASSUME conn_socket # NoSock
        PROVE  /\ Cancelled(rx, conn_socket).pc \in Parts =>
                     Cancelled(rx, conn_socket).op \notin Unfinished
               /\ Cancelled(rx, conn_socket).pc = rx.pc
               /\ rx.op = "ok" => Cancelled(rx, conn_socket).op = "ok"
               /\ Cancelled(tx, conn_socket).pc = "write" =>
                     Cancelled(tx, conn_socket).op \notin Unfinished
               /\ Cancelled(tx, conn_socket).pc = tx.pc
  BY <1>typ, <1>can, CancelledRx, CancelledTx
<1>1. CASE UNCHANGED <<connVars, rx, tx>>
  BY <1>1
<1>2. CASE RxArrival
  <2>1. /\ rx' = [rx EXCEPT !.op = "ok"] \/ rx' = [rx EXCEPT !.op = "partial"]
        /\ rx.pc \in Parts /\ rx.op \in Unfinished
    BY <1>2 DEF RxArrival, Land, LandSome, LandBody, Unfinished
  <2>2. rx'.pc = rx.pc /\ rx'.sock = rx.sock
    BY <1>typ, <2>1 DEF RxStates
  <2>3. QED
    BY <1>2, <1>pc, <2>1, <2>2 DEF RxArrival
<1>3. CASE RxReadFails
  <2>1. rx'.pc = rx.pc /\ rx'.sock = rx.sock
    BY <1>3, <1>typ DEF RxReadFails, RxStates
  <2>2. QED
    BY <1>3, <1>pc, <2>1 DEF RxReadFails
<1>4. CASE TxWritten
  <2>1. tx'.pc = tx.pc /\ tx'.op \in {"ok", "err"}
    BY <1>4, <1>typ DEF TxWritten, TxStates
  <2>2. QED
    BY <1>4, <2>1 DEF TxWritten, Unfinished
<1>5. ASSUME NEW s \in Socks, TrySelect(s) PROVE ConnInv'
  <2>1. CASE conn_socket = NoSock
    <3>1. Cancelled(rx, conn_socket) = rx /\ Cancelled(tx, conn_socket) = tx
      BY <2>1 DEF Cancelled
    <3>2. rx.pc \in Parts => rx.op \notin Unfinished
      BY <1>pc, <2>1
    <3>3. tx.pc = "write" => tx.op \notin Unfinished
      BY <1>pc, <2>1
    <3>4. QED
      BY <1>5, <1>typ, <1>pc, <3>1, <3>2, <3>3, WokenRx DEF TrySelect
  <2>2. CASE conn_socket # NoSock
    <3>1. Cancelled(rx, conn_socket) \in RxStates
      BY <1>typ, CancelledRx
    <3>2. QED
      BY <1>5, <1>pc, <1>can, <2>2, <3>1, WokenRx DEF TrySelect
  <2>3. QED
    BY <2>1, <2>2
<1>6. ASSUME NEW s \in Socks, TryReplace(s) PROVE ConnInv'
  BY <1>6, <1>pc, <1>can DEF TryReplace
<1>7. CASE RxWake \/ RxHeaderRefused \/ RxPayloadRefused
  BY <1>7, <1>next DEF RxWake, RxHeaderRefused, RxPayloadRefused
<1>8. CASE RxHeaderOpens
  BY <1>8, <1>pc DEF RxHeaderOpens, Coroutine
<1>9. CASE RxLost
  <2>1. ReadNext(selected', conn_socket').pc = "wait" => ~selected'
    BY DEF ReadNext, Coroutine
  <2>2. ReadNext(selected', conn_socket').pc \in Parts =>
          selected' /\ ReadNext(selected', conn_socket').sock = conn_socket'
    BY <1>pc DEF ReadNext, Coroutine
  <2>3. QED
    BY <1>9, <1>pc, <1>can, <2>1, <2>2 DEF RxLost
<1>10. CASE RxStopped \/ RxPacketWithError
  <2>1. rx'.pc = "ended"
    BY <1>10 DEF RxStopped, RxPacketWithError, Coroutine
  <2>2. QED
    BY <1>10, <1>pc, <2>1 DEF RxStopped, RxPacketWithError
<1>11. CASE RxPacket \/ RxTunWritten
  <2>1. CASE rx' = ReadNext(selected, conn_socket)
    BY <1>11, <1>next, <2>1 DEF RxPacket, RxTunWritten
  <2>2. CASE rx' \in {Coroutine("tun", NoSock, "idle"),
                      Coroutine("ended", NoSock, "idle")}
    BY <1>11, <1>pc, <2>2 DEF RxPacket, RxTunWritten, Coroutine
  <2>3. QED
    BY <1>11, <2>1, <2>2 DEF RxPacket, RxTunWritten
<1>12. CASE TxSend
  BY <1>12 DEF TxSend, Coroutine
<1>13. CASE TxReturn \/ TxTunFails
  BY <1>13 DEF TxReturn, TxTunFails, Coroutine
<1>14. CASE TxError
  BY <1>14, <1>pc, <1>can DEF TxError, Coroutine
<1>15. CASE CloseRun
  BY <1>15, <1>pc, <1>can DEF CloseRun
<1>16. QED
  <2>1. ASSUME NEW s \in Socks,
               AcceptDone(s) \/ PeerGone(s) \/ TryArrival(s) \/ TryReadFails(s)
        PROVE  UNCHANGED <<connVars, rx, tx>>
    BY <2>1 DEF AcceptDone, PeerGone, TryArrival, TryReadFails
  <2>2. AcceptResume \/ Close \/ RxNull \/ TxNull
          => UNCHANGED <<connVars, rx, tx>>
    BY DEF AcceptResume, Close, RxNull, TxNull
  <2>3. ASSUME NEW s \in Socks, TryHeaderOpens(s) \/ TryHeaderRefused(s) \/ TryThrows(s)
        PROVE  UNCHANGED <<connVars, rx, tx>>
    BY <2>3 DEF TryHeaderOpens, TryHeaderRefused, TryThrows
  <2>4. UNCHANGED vars => UNCHANGED <<connVars, rx, tx>>
    BY DEF vars
  <2>5. ASSUME NEW s \in Socks, TryRun(s) PROVE ConnInv'
    BY <1>1, <1>5, <1>6, <2>3, <2>5 DEF TryRun
  <2>6. CASE RxRun
    BY <1>1, <1>7, <1>8, <1>9, <1>10, <1>11, <2>2, <2>6 DEF RxRun
  <2>7. CASE TxRun
    BY <1>1, <1>13, <1>14, <2>2, <2>7 DEF TxRun
  <2>8. CASE Network
    BY <1>1, <1>2, <1>3, <1>4, <2>1, <2>8 DEF Network
  <2>9. QED
    BY <1>1, <1>12, <1>13, <1>15, <2>2, <2>4, <2>5, <2>6, <2>7, <2>8 DEF Next

-----------------------------------------------------------------------------
(* Who uses which socket is preserved.                                     *)

\* The steps that leave every tryReceive where it was and put no other
\* socket to use: what is in use afterwards was in use before.
LEMMA ReaderFrame ==
    ASSUME TypeOK, ReaderInv,
           UNCHANGED <<accepting, conn_socket, replace_socket>>,
           \A s \in Socks : peer'[s] = "new" => peer[s] = "new",
           \A s \in Socks : try'[s].pc = try[s].pc,
           rx'.sock \in {rx.sock, conn_socket, NoSock},
           tx'.sock \in {tx.sock, conn_socket, NoSock}
    PROVE  ReaderInv'
<1>1. AcceptedOnce'
  BY DEF ReaderInv, AcceptedOnce, TypeOK
<1>2. UnusedUntilChosen'
  BY TCPServerAssumption DEF ReaderInv, UnusedUntilChosen
<1>3. OneReader'
  BY TCPServerAssumption DEF ReaderInv, OneReader
<1>4. QED
  BY <1>1, <1>2, <1>3 DEF ReaderInv

LEMMA ReaderStep == TypeOK /\ ReaderInv /\ [Next]_vars => ReaderInv'
<1> SUFFICES ASSUME TypeOK, ReaderInv, [Next]_vars
             PROVE  ReaderInv'
  OBVIOUS
<1> USE TCPServerAssumption DEF netVars, connVars, endVars
<1>typ. /\ rx \in RxStates /\ tx \in TxStates
        /\ accepting \in Socks \cup {NoSock}
        /\ conn_socket \in Socks \cup {NoSock}
        /\ replace_socket \in Socks \cup {NoSock}
        /\ peer \in [Socks -> {"new", "up", "gone"}]
        /\ try \in [Socks -> [pc : {"none", "hdr", "pay", "done"}, op : OpStates]]
  BY DEF TypeOK
<1>can. /\ Cancelled(rx, conn_socket).sock = rx.sock
        /\ Cancelled(tx, conn_socket).sock = tx.sock
        /\ Woken(Cancelled(rx, conn_socket)).sock = rx.sock
  BY <1>typ, CancelledRx, CancelledTx, WokenRx
<1>next. ReadNext(selected, conn_socket).sock \in {conn_socket, NoSock}
  BY DEF ReadNext, Coroutine
<1>1. ASSUME NEW s \in Socks, AcceptDone(s) PROVE ReaderInv'
  <2>1. AcceptedOnce'
    BY <1>1, <1>typ DEF AcceptDone, ReaderInv, AcceptedOnce
  <2>2. UnusedUntilChosen' /\ OneReader'
    BY <1>1 DEF AcceptDone, ReaderInv, UnusedUntilChosen, OneReader
  <2>3. QED
    BY <2>1, <2>2 DEF ReaderInv
<1>2. ASSUME NEW s \in Socks, PeerGone(s) PROVE ReaderInv'
  <2>1. \A t \in Socks : peer'[t] = "new" => peer[t] = "new"
    BY <1>2, <1>typ DEF PeerGone
  <2>2. QED
    BY <1>2, <2>1, ReaderFrame DEF PeerGone
<1>3. ASSUME NEW s \in Socks, TryArrival(s) \/ TryReadFails(s) PROVE ReaderInv'
  <2>1. \A t \in Socks : try'[t].pc = try[t].pc
    BY <1>3, <1>typ DEF TryArrival, TryReadFails
  <2>2. QED
    BY <1>3, <2>1, ReaderFrame DEF TryArrival, TryReadFails
<1>4. CASE RxArrival \/ RxReadFails \/ TxWritten
  <2>1. rx'.sock = rx.sock /\ tx'.sock = tx.sock
    BY <1>4, <1>typ DEF RxArrival, RxReadFails, TxWritten, RxStates, TxStates
  <2>2. QED
    BY <1>4, <2>1, ReaderFrame DEF RxArrival, RxReadFails, TxWritten
<1>5. CASE AcceptResume
  <2>1. /\ accepting \in Socks
        /\ try[accepting].pc = "none"
        /\ \A t \in Socks : peer[t] = "new" => t # accepting
    BY <1>5, <1>typ DEF AcceptResume, ReaderInv, AcceptedOnce
  <2>2. accepting \notin {conn_socket, replace_socket, rx.sock, tx.sock}
    BY <2>1 DEF ReaderInv, UnusedUntilChosen
  <2>3. \A t \in Socks : try'[t] = IF t = accepting THEN [pc |-> "hdr", op |-> "pending"]
                                                   ELSE try[t]
    BY <1>5, <1>typ DEF AcceptResume
  <2>4. AcceptedOnce'
    BY <1>5, <2>1, <2>3 DEF AcceptResume, ReaderInv, AcceptedOnce
  <2>5. UnusedUntilChosen'
    BY <1>5, <2>2, <2>3 DEF AcceptResume, ReaderInv, UnusedUntilChosen
  <2>6. OneReader'
    BY <1>5, <2>2, <2>3 DEF AcceptResume, ReaderInv, OneReader
  <2>7. QED
    BY <2>4, <2>5, <2>6 DEF ReaderInv
<1>6. ASSUME NEW s \in Socks, TryRun(s) PROVE ReaderInv'
  <2>0. /\ s \notin {conn_socket, replace_socket, rx.sock, tx.sock} \/ TryThrows(s)
        /\ try[s].pc \in Parts
    BY <1>6 DEF TryRun, TryHeaderOpens, TryHeaderRefused, TryThrows, TrySelect,
                TryReplace, TryPayload, ReaderInv, OneReader, Parts
  <2>1. accepting # s /\ peer[s] # "new"
    BY <2>0 DEF ReaderInv, AcceptedOnce, Parts
  <2>2. CASE TryThrows(s)
    BY <2>2, ReaderFrame DEF TryThrows
  <2>3. CASE TryHeaderOpens(s)
    <3>1. \A t \in Socks : try'[t].pc = IF t = s THEN "pay" ELSE try[t].pc
      BY <1>typ, <2>3 DEF TryHeaderOpens
    <3>2. AcceptedOnce'
      BY <1>typ, <2>1, <2>3, <3>1 DEF TryHeaderOpens, ReaderInv, AcceptedOnce
    <3>3. UnusedUntilChosen'
      BY <2>0, <2>3, <3>1 DEF TryHeaderOpens, ReaderInv, UnusedUntilChosen, Parts
    <3>4. OneReader'
      BY <2>0, <2>3, <3>1 DEF TryHeaderOpens, ReaderInv, OneReader
    <3>5. QED
      BY <3>2, <3>3, <3>4 DEF ReaderInv
  <2>4. ASSUME TryHeaderRefused(s) \/ TryPayload(s)
        PROVE  /\ \A t \in Socks : try'[t].pc = IF t = s THEN "done" ELSE try[t].pc
               /\ "done" \notin Parts
    BY <1>typ, <2>4 DEF TryHeaderRefused, TryPayload, Parts
  <2>5. CASE TryHeaderRefused(s)
    <3>1. AcceptedOnce'
      BY <1>typ, <2>1, <2>4, <2>5 DEF TryHeaderRefused, ReaderInv, AcceptedOnce
    <3>2. UnusedUntilChosen'
      BY <2>4, <2>5 DEF TryHeaderRefused, ReaderInv, UnusedUntilChosen
    <3>3. OneReader'
      BY <2>4, <2>5 DEF TryHeaderRefused, ReaderInv, OneReader
    <3>4. QED
      BY <3>1, <3>2, <3>3 DEF ReaderInv
  <2>6. CASE TrySelect(s)
    <3>0. TryPayload(s) /\ s \notin {conn_socket, replace_socket, rx.sock, tx.sock}
      BY <2>0, <2>6 DEF TrySelect, TryThrows, TryPayload, Parts, OneReader, ReaderInv
    <3>1. AcceptedOnce'
      BY <1>typ, <2>1, <2>4, <2>6, <3>0 DEF TrySelect, ReaderInv, AcceptedOnce
    <3>2. UnusedUntilChosen'
      BY <1>can, <2>4, <2>6, <3>0 DEF TrySelect, ReaderInv, UnusedUntilChosen
    <3>3. OneReader'
      BY <1>can, <1>typ, <2>4, <2>6, <3>0 DEF TrySelect, ReaderInv, OneReader
    <3>4. QED
      BY <3>1, <3>2, <3>3 DEF ReaderInv
  <2>7. CASE TryReplace(s)
    <3>0. TryPayload(s) /\ s \notin {conn_socket, replace_socket, rx.sock, tx.sock}
      BY <2>0, <2>7 DEF TryReplace, TryThrows, TryPayload, Parts, OneReader, ReaderInv
    <3>1. AcceptedOnce'
      BY <1>typ, <2>1, <2>4, <2>7, <3>0 DEF TryReplace, ReaderInv, AcceptedOnce
    <3>2. UnusedUntilChosen'
      BY <1>can, <2>4, <2>7, <3>0 DEF TryReplace, ReaderInv, UnusedUntilChosen
    <3>3. OneReader'
      BY <1>can, <2>4, <2>7, <3>0 DEF TryReplace, ReaderInv, OneReader
    <3>4. QED
      BY <3>1, <3>2, <3>3 DEF ReaderInv
  <2>8. QED
    BY <1>6, <2>2, <2>3, <2>5, <2>6, <2>7 DEF TryRun
<1>7. CASE RxLost
  <2>1. rx'.sock \in {replace_socket, NoSock} /\ tx'.sock = tx.sock
    BY <1>7, <1>can DEF RxLost, ReadNext, Coroutine
  <2>2. AcceptedOnce'
    BY <1>7 DEF RxLost, ReaderInv, AcceptedOnce
  <2>3. UnusedUntilChosen'
    BY <1>7, <2>1 DEF RxLost, ReaderInv, UnusedUntilChosen
  <2>4. OneReader'
    BY <1>7, <2>1 DEF RxLost, ReaderInv, OneReader
  <2>5. QED
    BY <2>2, <2>3, <2>4 DEF ReaderInv
<1>8. CASE RxRun
  <2>1. CASE RxWake \/ RxHeaderRefused \/ RxPayloadRefused
    BY <1>next, <2>1, ReaderFrame DEF RxWake, RxHeaderRefused, RxPayloadRefused
  <2>2. CASE RxHeaderOpens
    BY <2>2, ReaderFrame DEF RxHeaderOpens, Coroutine
  <2>3. CASE RxNull
    BY <2>3, ReaderFrame DEF RxNull
  <2>4. CASE RxStopped \/ RxPacketWithError
    BY <2>4, ReaderFrame DEF RxStopped, RxPacketWithError, Coroutine
  <2>5. CASE RxPacket \/ RxTunWritten
    <3>1. rx'.sock \in {conn_socket, NoSock}
      BY <1>next, <2>5 DEF RxPacket, RxTunWritten, Coroutine
    <3>2. QED
      BY <2>5, <3>1, ReaderFrame DEF RxPacket, RxTunWritten
  <2>6. QED
    BY <1>7, <1>8, <2>1, <2>2, <2>3, <2>4, <2>5 DEF RxRun
<1>9. CASE TxSend \/ TxReturn \/ TxTunFails
  BY <1>9, ReaderFrame DEF TxSend, TxReturn, TxTunFails, Coroutine
<1>10. CASE TxError \/ TxNull
  <2>1. rx'.sock = rx.sock /\ tx'.sock \in {tx.sock, NoSock}
    BY <1>10, <1>can DEF TxError, TxNull, Coroutine
  <2>2. QED
    BY <1>10, <2>1, ReaderFrame DEF TxError, TxNull
<1>11. CASE Close
  BY <1>11, ReaderFrame DEF Close
<1>12. CASE CloseRun
  <2>1. rx'.sock = rx.sock /\ tx'.sock = tx.sock
        /\ conn_socket' \in {conn_socket, NoSock}
    BY <1>12, <1>can DEF CloseRun
  <2>2. AcceptedOnce'
    BY <1>12 DEF CloseRun, ReaderInv, AcceptedOnce
  <2>3. UnusedUntilChosen' /\ OneReader'
    BY <1>12, <2>1 DEF CloseRun, ReaderInv, UnusedUntilChosen, OneReader
  <2>4. QED
    BY <2>2, <2>3 DEF ReaderInv
<1>13. CASE UNCHANGED vars
  BY <1>13, ReaderFrame DEF vars
<1>14. QED
  BY <1>1, <1>2, <1>3, <1>4, <1>5, <1>6, <1>8, <1>9, <1>10, <1>11, <1>12, <1>13
     DEF Next, Network, TxRun

-----------------------------------------------------------------------------
\* The inductive invariant holds in every reachable state.
THEOREM Invariance == Spec => []IInv
<1>1. IInv /\ [Next]_vars => IInv'
  BY TypeStep, ConnStep, ReaderStep DEF IInv
<1>2. QED
  BY <1>1, InitIInv, PTL DEF Spec

\* Every variable keeps its type; in particular a coroutine that waits for a
\* socket waits for a real one.
THEOREM TypeCorrect == Spec => []TypeOK
<1>1. IInv => TypeOK
  BY DEF IInv
<1>2. QED
  BY <1>1, Invariance, PTL

\* While selected is set, SendTo and Close dereference a socket.
THEOREM ConnIsValid == Spec => []ConnValid
<1>1. IInv => ConnValid
  BY DEF IInv, ConnInv
<1>2. QED
  BY <1>1, Invariance, PTL

\* A sleeping ReceiveFrom is woken by every selection.
THEOREM WakeupIsNotLost == Spec => []NoLostWakeup
<1>1. IInv => NoLostWakeup
  BY DEF IInv, ConnInv
<1>2. QED
  BY <1>1, Invariance, PTL

\* No read or write stays outstanding on a socket that was dropped.
THEOREM PendingIsOnConn == Spec => []PendingOnConn
<1>1. IInv => PendingOnConn
  BY DEF IInv, ConnInv
<1>2. QED
  BY <1>1, Invariance, PTL

\* A parked socket leaves the line only to be the one in service, or stranded
\* by the end of the loop, by Close or by a failed write at the wrong moment.
THEOREM ParkedIsNotForgotten == Spec => ParkedIsPromoted
<1> DEFINE Stays == InLine' /\ (replace_socket' # replace_socket =>
                                   try[replace_socket'].pc = "pay")
           Promoted == selected' /\ conn_socket' = replace_socket
           Over == rx'.pc = "ended" \/ closing' # closing
           Fine == Stays \/ Promoted \/ Over \/ DeselectedUnread
<1>1. IInv /\ [Next]_vars /\ InLine => Fine
  <2> SUFFICES ASSUME IInv, [Next]_vars, InLine PROVE Fine
    OBVIOUS
  <2> USE DEF netVars, connVars, endVars
  <2>typ. /\ rx \in RxStates /\ conn_socket \in Socks \cup {NoSock}
          /\ selected => conn_socket # NoSock
          /\ rx.pc \in Parts /\ rx.op \in Unfinished => rx.sock = conn_socket
          /\ "hdr" \in Parts
    BY DEF IInv, TypeOK, ConnInv, ConnValid, PendingOnConn, Parts
  <2>line. replace_socket # NoSock /\ ~stopped
           /\ (selected \/ (rx.pc = "hdr" /\ rx.op \in Failed))
    BY DEF InLine
  \* A failed read stays failed until RxLost, whatever else happens.
  <2>can. /\ Cancelled(rx, conn_socket).pc = rx.pc
          /\ rx.op \in Failed => Cancelled(rx, conn_socket).op \in Failed
          /\ conn_socket # NoSock /\ rx.pc = "hdr" /\ rx.op \in Unfinished =>
                Cancelled(rx, conn_socket).op \in Failed
    BY <2>typ DEF Cancelled, Aborted, RxStates, Failed, Unfinished
  <2>sel. ASSUME selected, UNCHANGED connVars PROVE Fine
    BY <2>sel, <2>line DEF InLine
  <2>rx. ASSUME UNCHANGED <<connVars, rx>> PROVE Fine
    BY <2>rx, <2>line DEF InLine
  <2>1. ASSUME NEW s \in Socks, AcceptDone(s) \/ PeerGone(s) \/ TryArrival(s)
                                 \/ TryReadFails(s)
        PROVE  Fine
    BY <2>1, <2>rx DEF AcceptDone, PeerGone, TryArrival, TryReadFails
  <2>2. CASE RxArrival \/ RxReadFails
    <3>1. rx.op \in Unfinished
      BY <2>2 DEF RxArrival, Land, LandSome, LandBody, RxReadFails, Unfinished
    <3>2. selected
      BY <2>line, <3>1 DEF Unfinished, Failed
    <3>3. QED
      BY <2>2, <2>sel, <3>2 DEF RxArrival, RxReadFails
  <2>3. CASE TxWritten \/ AcceptResume \/ TxSend \/ TxTunFails \/ TxReturn \/ TxNull
    BY <2>3, <2>rx DEF TxWritten, AcceptResume, TxSend, TxTunFails, TxReturn, TxNull
  <2>4. CASE TxError
    <3>1. CASE rx.pc = "hdr" /\ rx.op \in Unfinished \cup Failed
      <4>1. rx'.pc = "hdr" /\ rx'.op \in Failed
        BY <2>4, <2>can, <3>1 DEF TxError
      <4>2. QED
        BY <2>4, <2>line, <4>1 DEF TxError, InLine
    <3>2. CASE ~(rx.pc = "hdr" /\ rx.op \in Unfinished \cup Failed)
      <4>1. selected
        BY <2>line, <3>2
      <4>2. QED
        BY <2>4, <3>2, <4>1 DEF TxError, DeselectedUnread
    <3>3. QED
      BY <3>1, <3>2
  <2>5. ASSUME NEW s \in Socks, TryRun(s) PROVE Fine
    <3>1. CASE TryHeaderOpens(s) \/ TryHeaderRefused(s) \/ TryThrows(s)
      BY <2>rx, <3>1 DEF TryHeaderOpens, TryHeaderRefused, TryThrows
    <3>2. CASE TrySelect(s)
      BY <2>line, <3>2 DEF TrySelect, InLine
    <3>3. CASE TryReplace(s)
      <4>1. s # NoSock /\ try[s].pc = "pay"
        BY <3>3, TCPServerAssumption DEF TryReplace, TryPayload
      <4>2. QED
        BY <2>line, <3>3, <4>1 DEF TryReplace, InLine
    <3>4. QED
      BY <2>5, <3>1, <3>2, <3>3 DEF TryRun
  <2>6. CASE RxRun
    <3>1. CASE RxLost
      BY <2>line, <3>1 DEF RxLost
    <3>2. CASE RxStopped \/ RxPacketWithError
      BY <3>2 DEF RxStopped, RxPacketWithError, Coroutine
    <3>3. CASE RxNull
      BY <2>rx, <3>3 DEF RxNull
    <3>4. CASE RxWake \/ RxHeaderOpens \/ RxHeaderRefused \/ RxPayloadRefused
                 \/ RxPacket \/ RxTunWritten
      <4>1. UNCHANGED connVars /\ ~(rx.pc = "hdr" /\ rx.op \in Failed)
        BY <3>4 DEF RxWake, RxHeaderOpens, RxHeaderRefused, RxPayloadRefused,
                    RxPacket, RxTunWritten, Failed
      <4>2. QED
        BY <2>line, <2>sel, <4>1
    <3>5. QED
      BY <2>6, <3>1, <3>2, <3>3, <3>4 DEF RxRun
  <2>7. CASE Close \/ CloseRun
    BY <2>7 DEF Close, CloseRun
  <2>8. CASE UNCHANGED vars
    BY <2>8, <2>rx DEF vars
  <2>9. QED
    BY <2>1, <2>2, <2>3, <2>4, <2>5, <2>6, <2>7, <2>8 DEF Next, Network, TxRun
<1>2. IInv /\ [Next]_vars => [InLine => Fine]_vars
  BY <1>1
<1>3. QED
  BY <1>2, Invariance, PTL DEF Spec, ParkedIsPromoted

\* The close() of a lost connection never meets an empty pointer.
THEOREM ReadingIsOnConn == Spec => []ReadingHasConn
<1>1. IInv => ReadingHasConn
  BY DEF IInv, ConnInv
<1>2. QED
  BY <1>1, Invariance, PTL

\* Two coroutines never read one socket.
THEOREM ReadersAreAlone == Spec => []OneReader
<1>1. IInv => OneReader
  BY DEF IInv, ReaderInv
<1>2. QED
  BY <1>1, Invariance, PTL

-----------------------------------------------------------------------------
(* TCPServer implements PacketRelay: however the coroutines scribble over  *)
(* the one receive buffer, ReceiveFrom hands out only packets of peers     *)
(* that hold the key, of one connection in order and at most once.  The    *)
(* argument is about the buffer: a decrypted header comes from a peer with *)
(* the key, and an encrypted payload is newer than everything handed out   *)
(* of that peer, because opening it decrypts it.                           *)

\* What is in the receive buffer, against what came in and what went out.
BufInv ==
    /\ \A s \in Socks : last[s] < stream[s].n
    /\ buf["hdr"].st = "dec" => buf["hdr"].sock \in Vpn
    /\ buf["pay"].st = "enc" =>
          /\ buf["pay"].sock \in Socks
          /\ last[buf["pay"].sock] < buf["pay"].n
          /\ buf["pay"].n < stream[buf["pay"].sock].n

\* What a read puts into the buffer: bytes as they came, and of a payload the
\* newest one.
LEMMA LandBuf ==
    ASSUME TypeOK, BufInv, UNCHANGED last, NEW s \in Socks, NEW k \in Parts, NEW op,
           Land(s, k, op) \/ LandSome(s, k, op)
    PROVE  /\ BufInv'
           /\ \/ \A t \in Socks : stream'[t].n = stream[t].n
              \/ \A t \in Socks : stream'[t].n = stream[t].n + IF t = s THEN 1 ELSE 0
<1> USE TCPServerAssumption
<1>typ. /\ stream \in [Socks -> StreamStates] /\ buf \in [Parts -> SlotStates]
        /\ \A t \in Socks : stream[t].n \in Nat \ {0}
        /\ last \in [Socks -> Nat]
        /\ Parts = {"hdr", "pay"}
  BY DEF TypeOK, StreamStates, Parts
<1>1. \/ \A t \in Socks : stream'[t].n = stream[t].n
      \/ \A t \in Socks : stream'[t].n = stream[t].n + IF t = s THEN 1 ELSE 0
  <2>1. \A part : /\ At(stream[s].n, part).n = stream[s].n
                  /\ At(stream[s].n + 1, part).n = stream[s].n + 1
                  /\ [stream[s] EXCEPT !.at = part].n = stream[s].n
    BY <1>typ DEF At, StreamStates
  <2>2. CASE LandSome(s, k, op)
    BY <1>typ, <2>1, <2>2 DEF LandSome, LandBody
  <2>3. CASE LandWhole(s, k, op) \/ LandOff(s, k)
    BY <1>typ, <2>1, <2>3 DEF LandWhole, LandOff
  <2>4. ASSUME NEW part, stream' = [stream EXCEPT ![s] = [stream[s] EXCEPT !.at = part]]
        PROVE  \A t \in Socks : stream'[t].n = stream[t].n
    BY <1>typ, <2>1, <2>4
  <2>5. CASE LandPadding(s, k)
    <3>1. stream' = [stream EXCEPT ![s] = [stream[s] EXCEPT !.at = "hdr"]]
      BY <2>5 DEF LandPadding
    <3>2. QED
      BY <2>4, <3>1
  <2>6. CASE LandMisread(s, k)
    <3>1. stream' = [stream EXCEPT ![s] = [stream[s] EXCEPT !.at = "off"]]
      BY <2>6 DEF LandMisread
    <3>2. QED
      BY <2>4, <3>1
  <2>7. QED
    BY <2>2, <2>3, <2>5, <2>6 DEF Land
<1>2. \A t \in Socks : stream'[t].n \in Nat /\ stream[t].n <= stream'[t].n
  BY <1>typ, <1>1
<1>3. \A t \in Socks : last'[t] < stream'[t].n
  BY <1>typ, <1>2 DEF BufInv
<1>4. /\ buf' \in [Parts -> SlotStates]
      /\ \A j \in Parts : j # k => buf'[j] = buf[j]
      /\ \/ buf'[k] \in {Junk, Half(s), buf[k]}
         \/ buf'[k] = Slot(s, stream[s].n, "enc")
            /\ (k = "pay" => stream'[s].n = stream[s].n + 1)
  <2>1. buf' \in [Parts -> SlotStates]
    BY LandType
  <2>2. CASE LandSome(s, k, op) /\ ~LandBody(s, k, op)
    BY <1>typ, <2>1, <2>2 DEF LandSome
  <2>3. CASE LandWhole(s, k, op) \/ LandBody(s, k, op)
    <3>1. PICK slot \in Filled(s, k, op) : buf' = [buf EXCEPT ![k] = slot]
      BY <2>3 DEF LandWhole, LandBody
    <3>2. buf'[k] = slot /\ \A j \in Parts : j # k => buf'[j] = buf[j]
      BY <1>typ, <3>1
    <3>3. slot \in {Junk, buf[k], Slot(s, stream[s].n, "enc")}
      BY DEF Filled
    <3>4. k = "pay" => stream'[s].n = stream[s].n + 1
      BY <1>typ, <2>3 DEF LandWhole, LandBody, At
    <3>5. QED
      BY <2>1, <3>2, <3>3, <3>4
  <2>4. CASE LandPadding(s, k) \/ LandMisread(s, k) \/ LandOff(s, k)
    BY <1>typ, <2>1, <2>4 DEF LandPadding, LandMisread, LandOff
  <2>5. QED
    BY <2>2, <2>3, <2>4 DEF Land
<1>5. (buf["hdr"].st = "dec")' => (buf["hdr"].sock \in Vpn)'
  BY <1>typ, <1>4 DEF BufInv, Junk, Half, Slot
<1>6. ASSUME buf'["pay"].st = "enc"
      PROVE  /\ buf'["pay"].sock \in Socks
             /\ last'[buf'["pay"].sock] < buf'["pay"].n
             /\ buf'["pay"].n < stream'[buf'["pay"].sock].n
  <2>1. CASE buf'["pay"] = buf["pay"]
    <3>1. buf["pay"].n \in Nat
      BY <1>typ DEF SlotStates
    <3>2. QED
      BY <1>typ, <1>2, <1>6, <2>1, <3>1 DEF BufInv
  <2>2. CASE buf'["pay"] # buf["pay"]
    <3>1. k = "pay" /\ buf'["pay"] = Slot(s, stream[s].n, "enc")
          /\ stream'[s].n = stream[s].n + 1
      BY <1>typ, <1>4, <1>6, <2>2 DEF Junk, Half, Slot
    <3>2. buf'["pay"].sock = s /\ buf'["pay"].n = stream[s].n
      BY <3>1 DEF Slot
    <3>3. QED
      BY <1>typ, <3>1, <3>2 DEF BufInv
  <2>3. QED
    BY <2>1, <2>2
<1>7. QED
  BY <1>1, <1>3, <1>5, <1>6 DEF BufInv

\* A header that opens is a VPN peer's; opening a payload only spends it.
LEMMA OpenBuf ==
    ASSUME TypeOK, BufInv
    PROVE  /\ HeaderOpens => /\ Open("hdr")["hdr"].sock \in Vpn
                             /\ Open("hdr")["pay"] = buf["pay"]
           /\ Open("pay")["hdr"] = buf["hdr"]
           /\ Open("pay")["pay"].st = "dec"
BY DEF TypeOK, HeaderOpens, Open, Parts, SlotStates

\* Asking for a payload moves no frame number.
LEMMA RequestNumbers ==
    ASSUME TypeOK, NEW s \in Socks, RequestPayload(s)
    PROVE  \A t \in Socks : stream'[t].n = stream[t].n
BY DEF TypeOK, RequestPayload, StreamStates, At

\* BufInv speaks only of frame numbers and the buffer.
LEMMA BufFrame ==
    ASSUME BufInv, UNCHANGED last,
           \A t \in Socks : stream'[t].n = stream[t].n,
           \/ UNCHANGED buf
           \/ /\ buf'["pay"] = buf["pay"]
              /\ buf'["hdr"].sock \in Vpn
           \/ /\ buf'["hdr"] = buf["hdr"]
              /\ buf'["pay"].st = "dec"
    PROVE  BufInv'
<1>1. (\A s \in Socks : last[s] < stream[s].n)'
  BY DEF BufInv
<1>2. (buf["hdr"].st = "dec" => buf["hdr"].sock \in Vpn)'
  BY DEF BufInv
<1>3. (buf["pay"].st = "enc" =>
          /\ buf["pay"].sock \in Socks
          /\ last[buf["pay"].sock] < buf["pay"].n
          /\ buf["pay"].n < stream[buf["pay"].sock].n)'
  BY DEF BufInv
<1>4. QED
  BY <1>1, <1>2, <1>3 DEF BufInv

-----------------------------------------------------------------------------
(* The mapped variables, and what a step may do to them.                   *)

Down == rx.pc = "ended" \/ crash # "none"

\* No frame comes in and none goes out: a stutter, or the end.
LEMMA QuietStep ==
    ASSUME UNCHANGED <<last, returned>>,
           \A t \in Socks : stream'[t].n = stream[t].n,
           Down => Down'
    PROVE  [Relay!Next]_Relay!relayVars
<1>1. [s \in Socks |-> stream'[s].n - 1] = [s \in Socks |-> stream[s].n - 1]
  OBVIOUS
<1>2. CASE Down' = Down
  BY <1>1, <1>2 DEF Relay!relayVars, Down
<1>3. CASE Down' # Down
  <2>1. Down' = TRUE
    BY <1>3 DEF Down
  <2>2. Relay!GoDown
    BY <1>1, <2>1 DEF Relay!GoDown, Down
  <2>3. QED
    BY <2>2 DEF Relay!Next
<1>4. QED
  BY <1>2, <1>3

\* A frame comes in.
LEMMA ArriveStep ==
    ASSUME TypeOK, UNCHANGED <<last, returned>>, Down' = Down, NEW s \in Socks,
           \A t \in Socks : stream'[t].n = stream[t].n + IF t = s THEN 1 ELSE 0
    PROVE  Relay!Arrive(s)
<1>1. \A t \in Socks : stream[t].n \in Nat
  BY DEF TypeOK, StreamStates
<1>2. [t \in Socks |-> stream'[t].n - 1]
        = [[t \in Socks |-> stream[t].n - 1] EXCEPT ![s] = @ + 1]
  <2>1. \A t \in Socks : t # s => stream'[t].n - 1 = stream[t].n - 1
    BY <1>1
  <2>2. stream'[s].n - 1 = (stream[s].n - 1) + 1
    BY <1>1
  <2>3. QED
    BY <2>1, <2>2
<1>3. QED
  BY <1>2 DEF Relay!Arrive, Down

\* ReceiveFrom returns: the frame that goes out is new, of a peer with the
\* key, and has come in.
LEMMA ForwardStep ==
    ASSUME TypeOK, BufInv, RxPacket, crash = "none"
    PROVE  BufInv' /\ Relay!Next
<1> DEFINE s == buf["pay"].sock
           n == buf["pay"].n
<1>typ. /\ stream \in [Socks -> StreamStates] /\ last \in [Socks -> Nat]
        /\ n \in Nat /\ \A t \in Socks : stream[t].n \in Nat /\ last[t] \in Nat
  BY DEF TypeOK, StreamStates, SlotStates, Parts
<1>1. /\ s \in Vpn /\ s \in Socks
      /\ last[s] < n /\ n <= stream[s].n - 1 /\ n \in 1 .. stream[s].n - 1
  BY <1>typ, TCPServerAssumption DEF RxPacket, PayloadOpens, BufInv
<1>2. UNCHANGED stream /\ last' = [last EXCEPT ![s] = n] /\ buf' = Open("pay")
      /\ returned' = returned + 1
      /\ rx.pc = "pay" /\ rx'.pc # "ended" /\ crash' = "none"
  BY DEF RxPacket, netVars, endVars, Coroutine, ReadNext
<1>3. Relay!Forward(s, n)
  <2>1. ~Down /\ ~Down'
    BY <1>2 DEF Down
  <2>2. [t \in Socks |-> stream'[t].n - 1] = [t \in Socks |-> stream[t].n - 1]
    BY <1>2
  <2>3. [t \in Socks |-> stream[t].n - 1][s] = stream[s].n - 1
    BY <1>1
  <2>4. QED
    BY <1>1, <1>2, <2>1, <2>2, <2>3 DEF Relay!Forward, Down
<1>4. Relay!Next
  <2>1. [t \in Socks |-> stream[t].n - 1][s] = stream[s].n - 1
    BY <1>1
  <2>2. QED
    BY <1>1, <1>3, <2>1 DEF Relay!Next
<1>5. BufInv'
  <2>1. buf'["hdr"] = buf["hdr"] /\ buf'["pay"].st = "dec"
    BY <1>2, OpenBuf
  <2>2. \A t \in Socks : last'[t] < stream'[t].n
    BY <1>typ, <1>1, <1>2 DEF BufInv
  <2>3. QED
    BY <2>1, <2>2 DEF BufInv
<1>6. QED
  BY <1>4, <1>5

-----------------------------------------------------------------------------
\* Every step of the connection keeps BufInv and is a step of PacketRelay or
\* none.
LEMMA RelayStep ==
    TypeOK /\ BufInv /\ [Next]_vars => BufInv' /\ [Relay!Next]_Relay!relayVars
<1> SUFFICES ASSUME TypeOK, BufInv, [Next]_vars
             PROVE  BufInv' /\ [Relay!Next]_Relay!relayVars
  OBVIOUS
<1> USE DEF netVars, connVars, endVars, outVars
<1>typ. rx \in RxStates
  BY DEF TypeOK
<1>crash. CASE UNCHANGED vars \/ crash = "none"
  <2>1. CASE UNCHANGED <<stream, buf, last, returned>> /\ (Down => Down')
    BY <2>1, QuietStep, BufFrame
  <2>2. CASE UNCHANGED <<last, returned>> /\ crash' = crash /\ rx'.pc = rx.pc
             /\ \E s \in Socks, k \in Parts : \E op :
                   Land(s, k, op) \/ LandSome(s, k, op)
    <3>1. PICK s \in Socks, k \in Parts : \E op : Land(s, k, op) \/ LandSome(s, k, op)
      BY <2>2
    <3>2. PICK op : Land(s, k, op) \/ LandSome(s, k, op)
      BY <3>1
    <3>3. BufInv'
      BY <2>2, <3>2, LandBuf
    <3>4. \/ \A t \in Socks : stream'[t].n = stream[t].n
          \/ \A t \in Socks : stream'[t].n = stream[t].n + IF t = s THEN 1 ELSE 0
      BY <2>2, <3>2, LandBuf
    <3>5. Down' = Down
      BY <2>2 DEF Down
    <3>6. CASE \A t \in Socks : stream'[t].n = stream[t].n
      BY <2>2, <3>3, <3>5, <3>6, QuietStep
    <3>7. CASE \A t \in Socks : stream'[t].n = stream[t].n + IF t = s THEN 1 ELSE 0
      <4>1. Relay!Arrive(s)
        BY <2>2, <3>5, <3>7, ArriveStep
      <4>2. QED
        BY <3>3, <4>1 DEF Relay!Next
    <3>8. QED
      BY <3>4, <3>6, <3>7
  <2>3. CASE \E s \in Socks : TryArrival(s)
    BY <2>2, <2>3 DEF TryArrival
  <2>4. CASE RxArrival
    <3>1. rx.sock \in Socks /\ rx'.pc = rx.pc /\ rx.pc \in Parts
      BY <1>typ, <2>4 DEF RxArrival, RxStates, Parts
    <3>2. QED
      BY <2>2, <2>4, <3>1 DEF RxArrival
  <2>5. CASE RxPacket /\ crash = "none"
    BY <2>5, ForwardStep
  <2>6. ASSUME NEW s \in Socks, TryHeaderOpens(s)
        PROVE  BufInv' /\ [Relay!Next]_Relay!relayVars
    BY <2>6, OpenBuf, RequestNumbers, BufFrame, QuietStep DEF TryHeaderOpens, Down
  <2>7. CASE RxHeaderOpens
    <3>1. conn_socket \in Socks
      BY <2>7 DEF RxHeaderOpens, TypeOK
    <3>2. Down => Down'
      BY <2>7 DEF RxHeaderOpens, Down
    <3>3. QED
      BY <2>7, <3>1, <3>2, OpenBuf, RequestNumbers, BufFrame, QuietStep
         DEF RxHeaderOpens
  <2>8. CASE RxPacketWithError
    <3>1. Down'
      BY <2>8 DEF RxPacketWithError, Coroutine, Down
    <3>2. QED
      BY <2>8, <3>1, OpenBuf, BufFrame, QuietStep DEF RxPacketWithError
  <2>9. ASSUME NEW s \in Socks, TryPayload(s), UNCHANGED <<stream, crash, last, returned>>,
               rx'.pc = rx.pc
        PROVE  BufInv' /\ [Relay!Next]_Relay!relayVars
    BY <2>9, OpenBuf, BufFrame, QuietStep DEF TryPayload, Down
  <2>10. /\ Cancelled(rx, conn_socket).pc = rx.pc
         /\ Woken(Cancelled(rx, conn_socket)).pc = rx.pc
    BY <1>typ, CancelledRx, WokenRx
  <2>11. ASSUME NEW s \in Socks, TrySelect(s) \/ TryReplace(s)
         PROVE  BufInv' /\ [Relay!Next]_Relay!relayVars
    BY <2>9, <2>10, <2>11 DEF TrySelect, TryReplace
  <2>12. ASSUME NEW s \in Socks,
                \/ AcceptDone(s) \/ PeerGone(s) \/ TryReadFails(s)
                \/ TryHeaderRefused(s) \/ TryThrows(s)
         PROVE  BufInv' /\ [Relay!Next]_Relay!relayVars
    BY <2>1, <2>12 DEF AcceptDone, PeerGone, TryReadFails, TryHeaderRefused,
                       TryThrows, Down
  <2>13. CASE RxReadFails
    <3>1. rx'.pc = rx.pc
      BY <1>typ, <2>13 DEF RxReadFails, RxStates
    <3>2. QED
      BY <2>1, <2>13, <3>1 DEF RxReadFails, Down
  <2>14. CASE TxWritten \/ AcceptResume \/ TxSend \/ TxReturn \/ TxTunFails
               \/ Close \/ RxNull \/ TxNull
    BY <2>1, <2>14 DEF TxWritten, AcceptResume, TxSend, TxReturn, TxTunFails,
                       Close, RxNull, TxNull, Down
  <2>15. CASE TxError \/ CloseRun
    BY <2>1, <2>10, <2>15 DEF TxError, CloseRun, Down
  <2>16. CASE RxWake \/ RxHeaderRefused \/ RxLost \/ RxStopped
               \/ RxPayloadRefused \/ RxTunWritten
    BY <2>1, <2>16 DEF RxWake, RxHeaderRefused, RxLost, RxStopped,
                       RxPayloadRefused, RxTunWritten, Down
  <2>17. CASE UNCHANGED vars
    BY <2>1, <2>17 DEF vars, Down
  <2>18. QED
    BY <1>crash, <2>3, <2>4, <2>5, <2>6, <2>7, <2>8, <2>11, <2>12, <2>13, <2>14,
       <2>15, <2>16, <2>17 DEF Next, Network, TryRun, RxRun, TxRun
<1>1. QED
  BY <1>crash DEF Next

\* Initially nothing came in and nothing went out.
LEMMA RelayInit == Init => BufInv /\ Relay!Init
<1> SUFFICES ASSUME Init PROVE BufInv /\ Relay!Init
  OBVIOUS
<1>1. BufInv
  BY DEF Init, BufInv, Junk, Slot, Parts, At
<1>2. \A s \in Socks : stream[s].n - 1 = 0
  BY DEF Init, At
<1>3. ~Down
  BY DEF Init, Down, ReadNext, Coroutine
<1>4. QED
  BY <1>1, <1>2, <1>3 DEF Init, Relay!Init, Down

\* ReceiveFrom implements PacketRelay: what it returns is authentic, in order
\* and never repeated.
THEOREM ReceiveFromRelays == Spec => RelaysPackets
<1>1. IInv /\ BufInv /\ [Next]_vars => BufInv' /\ [Relay!Next]_Relay!relayVars
  BY RelayStep DEF IInv
<1>2. Spec => []IInv
  BY Invariance
<1>3. QED
  BY <1>1, <1>2, RelayInit, PTL DEF Spec, RelaysPackets, Relay!Spec

\* What a step of PacketRelay does to the numbers handed out.
LEMMA ForwardedStep ==
    ASSUME TypeOK, [Relay!Next]_Relay!relayVars, NEW s \in Socks, last'[s] # last[s]
    PROVE  s \in Vpn /\ last[s] < last'[s]
<1>1. PICK t \in Socks : \E n \in 1 .. [u \in Socks |-> stream[u].n - 1][t] :
         Relay!Forward(t, n)
  BY DEF Relay!Next, Relay!relayVars, Relay!Arrive, Relay!GoDown
<1>2. QED
  BY <1>1 DEF Relay!Forward, TypeOK

\* What comes out of ReceiveFrom was sent by a peer that holds the key: no
\* connection without it reaches the tun device, whatever it writes into the
\* buffer that all share.
THEOREM PacketsAreGenuine ==
    Spec => [](\A s \in Socks : last[s] # 0 => s \in Vpn /\ last[s] < stream[s].n)
<1> DEFINE Genuine == \A s \in Socks : last[s] # 0 => s \in Vpn
<1>1. Init => Genuine
  BY DEF Init
<1>2. IInv /\ BufInv /\ Genuine /\ [Next]_vars => BufInv' /\ Genuine'
  BY RelayStep, ForwardedStep DEF IInv
<1>3. BufInv /\ Genuine =>
         \A s \in Socks : last[s] # 0 => s \in Vpn /\ last[s] < stream[s].n
  BY DEF BufInv
<1> HIDE DEF Genuine
<1>4. QED
  BY <1>1, <1>2, <1>3, Invariance, RelayInit, PTL DEF Spec

\* The packets of one connection come out in order: a later one never before
\* an earlier one, and none twice.
THEOREM PacketsAreInOrder ==
    Spec => [][\A s \in Socks : last'[s] # last[s] => last[s] < last'[s]]_last
<1>1. IInv /\ BufInv /\ [Next]_vars =>
         BufInv' /\ [\A s \in Socks : last'[s] # last[s] => last[s] < last'[s]]_last
  BY RelayStep, ForwardedStep DEF IInv
<1>2. QED
  BY <1>1, Invariance, RelayInit, PTL DEF Spec

-----------------------------------------------------------------------------
(* A connection that is alone loses no frame.  The buffer is then as good  *)
(* as private: what it holds follows from how far the stream was read and  *)
(* from what the one coroutine that reads it waits for.                    *)

\* The frame that ReceiveFrom has to return next.
Due(s) == IF last[s] = 0 THEN 2 ELSE last[s] + 1

Reads(s, n, part) == stream[s] = [n |-> n, at |-> part]

\* tryReceive takes the first frame, ...
TryTakesFirst(s) ==
    /\ try[s].pc # "done" => last[s] = 0
    /\ try[s].pc = "none" => Reads(s, 1, "hdr")
    /\ try[s].pc = "hdr" =>
          /\ try[s].op \in Unfinished => Reads(s, 1, "hdr")
          /\ try[s].op \in {"partial", "short"} => buf["hdr"] = Half(s)
          /\ try[s].op = "ok" => Reads(s, 1, "pay") /\ buf["hdr"] = Slot(s, 1, "enc")
    /\ try[s].pc = "pay" =>
          /\ s \in Vpn
          /\ try[s].op \in Unfinished =>
                /\ Reads(s, 1, "pay") \/ Reads(s, 2, "pad")
                /\ buf["hdr"] = Slot(s, 1, "dec")
          /\ try[s].op = "ok" => Reads(s, 2, "hdr")

\* ... and ReceiveFrom reads the others one by one: a read that fails is the last,
\* for either the peer is gone or the socket is no longer selected.
RxTakesDue(s) ==
    /\ s \in {conn_socket, rx.sock} => s \in Vpn
    /\ replace_socket # s
    /\ selected /\ rx.pc \notin Parts => peer[s] = "gone" \/ Reads(s, Due(s), "hdr")
    /\ rx.pc \in Parts /\ rx.op \in Failed => peer[s] = "gone" \/ ~selected
    /\ rx.pc = "hdr" =>
          /\ rx.op \in Unfinished => peer[s] = "gone" \/ Reads(s, Due(s), "hdr")
          /\ rx.op = "partial" => buf["hdr"] = Half(s)
          /\ rx.op = "ok" => Reads(s, Due(s), "pay") /\ buf["hdr"] = Slot(s, Due(s), "enc")
    /\ rx.pc = "pay" =>
          /\ rx.op \in Unfinished => buf["hdr"] = Slot(s, Due(s), "dec")
          /\ rx.op = "pending" => Reads(s, Due(s), "pay")
          /\ rx.op = "partial" =>
                \/ Reads(s, Due(s), "pay") /\ buf["pay"] = Half(s)
                \/ Reads(s, Due(s) + 1, "pad") /\ buf["pay"] = Slot(s, Due(s), "enc")
          /\ rx.op = "ok" => /\ Reads(s, Due(s) + 1, "hdr")
                             /\ buf["hdr"] = Slot(s, Due(s), "dec")
                             /\ buf["pay"] = Slot(s, Due(s), "enc")

AloneInv == \A s \in Socks : Alone(s) => TryTakesFirst(s) /\ RxTakesDue(s)

\* Who can be doing what when s is alone.
LEMMA AloneUse ==
    ASSUME IInv, NEW s \in Socks, Alone(s)
    PROVE  /\ \A t \in Socks \ {s} : try[t].pc = "none" /\ accepting # t
           /\ {conn_socket, replace_socket, rx.sock} \subseteq {s, NoSock}
           /\ rx.pc \in Parts => rx.sock = s
           /\ selected => conn_socket = s
           /\ try[s].pc # "done" =>
                 /\ {conn_socket, replace_socket, rx.sock} = {NoSock}
                 /\ ~selected
                 /\ rx.pc \notin Parts
<1> USE TCPServerAssumption
<1>typ. /\ {conn_socket, replace_socket, rx.sock} \subseteq Socks \cup {NoSock}
        /\ rx.pc \in Parts => rx.sock \in Socks
  BY DEF IInv, TypeOK, RxStates, Parts
<1>1. \A t \in Socks \ {s} : try[t].pc = "none" /\ accepting # t
  BY DEF IInv, ReaderInv, AcceptedOnce, Alone
<1>2. \A t \in Socks : try[t].pc # "done" =>
         t \notin {conn_socket, replace_socket, rx.sock}
  BY DEF IInv, ReaderInv, UnusedUntilChosen
<1>3. {conn_socket, replace_socket, rx.sock} \subseteq {s, NoSock}
  BY <1>typ, <1>1, <1>2
<1>4. selected => conn_socket # NoSock
  BY DEF IInv, ConnInv, ConnValid
<1>5. QED
  BY <1>typ, <1>1, <1>2, <1>3, <1>4

\* Connections come and go in steps of their own.
LEMMA PeerStep ==
    ASSUME [Next]_vars
    PROVE  UNCHANGED peer \/ \E t \in Socks : AcceptDone(t) \/ PeerGone(t)
BY DEF Next, Network, TryArrival, TryReadFails, RxArrival, RxReadFails, TxWritten,
       AcceptResume, TryRun, TryHeaderOpens, TryHeaderRefused, TryThrows, TrySelect,
       TryReplace, RxRun, RxWake, RxHeaderOpens, RxHeaderRefused, RxNull, RxLost,
       RxStopped, RxPayloadRefused, RxPacket, RxPacketWithError, RxTunWritten,
       TxSend, TxRun, TxReturn, TxError, TxNull, TxTunFails, Close, CloseRun,
       vars, netVars

\* A connection that is alone was so all along.
LEMMA AloneBefore ==
    ASSUME TypeOK, [Next]_vars, NEW s \in Socks, Alone(s)'
    PROVE  Alone(s)
<1>1. ASSUME NEW t \in Socks, AcceptDone(t) \/ PeerGone(t) PROVE Alone(s)
  BY <1>1 DEF AcceptDone, PeerGone, Alone, TypeOK
<1>2. UNCHANGED peer => Alone(s)
  BY DEF Alone
<1>3. QED
  BY <1>1, <1>2, PeerStep

\* A step that ends it hands out nothing.
LEMMA AloneNoMore ==
    ASSUME [Next]_vars, NEW s \in Socks, Alone(s), ~Alone(s)'
    PROVE  UNCHANGED last
<1>1. ~UNCHANGED peer
  BY DEF Alone
<1>2. PICK t \in Socks : AcceptDone(t) \/ PeerGone(t)
  BY <1>1, PeerStep
<1>3. QED
  BY <1>2 DEF AcceptDone, PeerGone, outVars

\* The two halves speak of s, of the members and of the buffer only.
LEMMA TryFrame ==
    ASSUME NEW s, TryTakesFirst(s), try'[s] = try[s], stream'[s] = stream[s],
           last'[s] = last[s], UNCHANGED buf
    PROVE  TryTakesFirst(s)'
BY DEF TryTakesFirst, Reads, Half, Slot

LEMMA RxFrame ==
    ASSUME NEW s, RxTakesDue(s), stream'[s] = stream[s], last'[s] = last[s],
           UNCHANGED <<conn_socket, replace_socket, selected, rx, buf>>,
           peer[s] = "gone" => peer'[s] = "gone"
    PROVE  RxTakesDue(s)'
BY DEF RxTakesDue, Reads, Due, Half, Slot


\* The action of tryReceive on s, while ReceiveFrom has nothing to do with it.
LEMMA AloneTry ==
    ASSUME IInv, [Next]_vars, NEW s \in Socks, Alone(s), Alone(s)',
           TryTakesFirst(s), RxTakesDue(s), try[s].pc # "done"
    PROVE  TryTakesFirst(s)' /\ RxTakesDue(s)' /\ last'[s] = last[s]
<1> USE TCPServerAssumption DEF netVars, connVars, endVars, outVars
<1>use. /\ \A t \in Socks \ {s} : try[t].pc = "none" /\ accepting # t
        /\ {conn_socket, replace_socket, rx.sock} = {NoSock}
        /\ ~selected
        /\ rx.pc \notin Parts
  BY AloneUse
<1>typ. /\ try \in [Socks -> [pc : {"none", "hdr", "pay", "done"}, op : OpStates]]
        /\ stream \in [Socks -> StreamStates]
        /\ buf \in [Parts -> SlotStates]
        /\ accepting \in Socks \cup {NoSock}
        /\ Parts = {"hdr", "pay"}
  BY DEF IInv, TypeOK, Parts
<1>try. /\ try[s].pc \in {"none", "hdr", "pay"}
        /\ try[s] = [pc |-> try[s].pc, op |-> try[s].op]
        /\ try[s].op \in OpStates
  BY <1>typ
\* Most steps leave s, its stream and the buffer alone.
<1>idle. ASSUME UNCHANGED <<conn_socket, replace_socket, selected>>,
                rx' = rx \/ (rx'.pc \notin Parts /\ rx'.sock = NoSock)
         PROVE  RxTakesDue(s)'
  <2>1. /\ {conn_socket', replace_socket', rx'.sock} = {NoSock}
        /\ ~selected'
        /\ rx'.pc \notin Parts
    BY <1>use, <1>idle
  <2>2. QED
    BY <2>1 DEF RxTakesDue, Parts
<1>frame. ASSUME UNCHANGED <<try, stream, last, buf, conn_socket, replace_socket, selected>>,
                 rx' = rx \/ (rx'.pc \notin Parts /\ rx'.sock = NoSock)
          PROVE  TryTakesFirst(s)' /\ RxTakesDue(s)' /\ last'[s] = last[s]
  BY <1>frame, <1>idle, TryFrame
<1>wait. ReadNext(selected, conn_socket) = Coroutine("wait", NoSock, "pending")
  BY <1>use DEF ReadNext
<1>1. ASSUME NEW t \in Socks, AcceptDone(t) \/ PeerGone(t)
      PROVE  TryTakesFirst(s)' /\ RxTakesDue(s)' /\ last'[s] = last[s]
  BY <1>1, <1>frame DEF AcceptDone, PeerGone
<1>2. ASSUME NEW t \in Socks, TryArrival(t) \/ TryReadFails(t) \/ TryRun(t)
      PROVE  t = s
  BY <1>2, <1>use DEF TryArrival, TryReadFails, TryRun, TryHeaderOpens,
        TryHeaderRefused, TryThrows, TrySelect, TryReplace, TryPayload, Parts
<1>3. CASE TryArrival(s)
  <2>1. RxTakesDue(s)' /\ last'[s] = last[s]
    BY <1>3, <1>idle DEF TryArrival
  <2>2. CASE LandSome(s, try[s].pc, try[s].op) /\ try' = [try EXCEPT ![s].op = "partial"]
    <3>1. /\ try'[s] = [pc |-> try[s].pc, op |-> "partial"]
          /\ try[s].op \in Unfinished
          /\ UNCHANGED last
      BY <1>3, <1>typ, <1>try, <2>2 DEF TryArrival, LandSome, LandBody, Unfinished
    <3>2. try[s].pc \in Parts
      BY <1>3 DEF TryArrival
    <3>3. CASE LandBody(s, try[s].pc, try[s].op)
      <4>1. try[s].pc = "pay" /\ stream[s].at = "pay"
        BY <3>3 DEF LandBody
      <4>2. stream[s].n = 1
        BY <3>1, <4>1 DEF TryTakesFirst, Reads
      <4>3. stream'[s] = [n |-> 2, at |-> "pad"] /\ buf'["hdr"] = buf["hdr"]
        BY <1>typ, <3>3, <4>1, <4>2 DEF LandBody, At
      <4>4. QED
        BY <2>1, <3>1, <4>1, <4>3 DEF TryTakesFirst, Reads, Slot, Unfinished
    <3>4. CASE ~LandBody(s, try[s].pc, try[s].op)
      <4>1. /\ buf' = [buf EXCEPT ![try[s].pc] = Half(s)]
            /\ UNCHANGED stream
        BY <2>2, <3>4 DEF LandSome
      <4>2. QED
        BY <1>typ, <2>1, <3>1, <3>2, <4>1
           DEF TryTakesFirst, Reads, Half, Slot, Unfinished
    <3>5. QED
      BY <3>3, <3>4
  <2>3. CASE Land(s, try[s].pc, try[s].op) /\ try' = [try EXCEPT ![s].op = "ok"]
    <3>1. /\ try'[s] = [pc |-> try[s].pc, op |-> "ok"]
          /\ try[s].op \in Unfinished
          /\ try[s].pc \in Parts
          /\ UNCHANGED last
      BY <1>3, <1>typ, <1>try, <2>3 DEF TryArrival, Land
    <3>4. CASE try[s].pc = "hdr"
      <4>1. stream[s] = [n |-> 1, at |-> "hdr"]
        BY <3>1, <3>4 DEF TryTakesFirst, Reads
      <4>2. LandWhole(s, "hdr", try[s].op)
        BY <2>3, <3>4, <4>1 DEF Land, LandPadding, LandMisread, LandOff
      <4>3. stream'[s] = [n |-> 1, at |-> "pay"]
        BY <1>typ, <4>1, <4>2 DEF LandWhole, At
      <4>4. try[s].op = "partial" => buf["hdr"] = Half(s)
        BY <3>4 DEF TryTakesFirst
      <4>5. Filled(s, "hdr", try[s].op) = {Slot(s, 1, "enc")}
        BY <3>1, <4>1, <4>4 DEF Filled, Unfinished
      <4>6. buf'["hdr"] = Slot(s, 1, "enc")
        BY <1>typ, <4>2, <4>5 DEF LandWhole
      <4>7. QED
        BY <2>1, <3>1, <3>4, <4>3, <4>6 DEF TryTakesFirst, Reads, Unfinished, Slot
    <3>5. CASE try[s].pc = "pay"
      <4>0. \/ stream[s] = [n |-> 1, at |-> "pay"]
            \/ stream[s] = [n |-> 2, at |-> "pad"]
        BY <3>1, <3>5 DEF TryTakesFirst, Reads
      <4>1. stream'[s] = [n |-> 2, at |-> "hdr"]
        <5>1. CASE stream[s] = [n |-> 1, at |-> "pay"]
          <6>1. LandWhole(s, "pay", try[s].op)
            BY <2>3, <3>5, <5>1 DEF Land, LandPadding, LandMisread, LandOff
          <6>2. QED
            BY <1>typ, <5>1, <6>1 DEF LandWhole, At
        <5>2. CASE stream[s] = [n |-> 2, at |-> "pad"]
          <6>1. LandPadding(s, "pay")
            BY <2>3, <3>5, <5>2 DEF Land, LandWhole, LandMisread, LandOff
          <6>2. QED
            BY <1>typ, <5>2, <6>1 DEF LandPadding
        <5>3. QED
          BY <4>0, <5>1, <5>2
      <4>2. QED
        BY <2>1, <3>1, <3>5, <4>1 DEF TryTakesFirst, Reads, Unfinished
    <3>6. QED
      BY <1>typ, <3>1, <3>4, <3>5
  <2>4. QED
    BY <1>3, <2>2, <2>3 DEF TryArrival
<1>4. CASE TryReadFails(s)
  <2>1. RxTakesDue(s)' /\ last'[s] = last[s]
    BY <1>4, <1>idle DEF TryReadFails
  <2>2. /\ try'[s] = [pc |-> try[s].pc, op |-> Aborted(try[s].op)]
        /\ UNCHANGED <<stream, buf, last>>
    BY <1>4, <1>typ, <1>try DEF TryReadFails
  <2>3. \/ try[s].op = "pending" /\ Aborted(try[s].op) = "err"
        \/ try[s].op = "partial" /\ Aborted(try[s].op) = "short"
    BY <1>4 DEF TryReadFails, Aborted, Unfinished
  <2>4. QED
    BY <2>1, <2>2, <2>3 DEF TryTakesFirst, Reads, Unfinished, Half, Slot
<1>5. CASE AcceptResume
  <2>1. accepting = s /\ try[s].pc = "none"
    BY <1>5, <1>use, <1>typ DEF AcceptResume, IInv, ReaderInv, AcceptedOnce
  <2>2. try'[s] = [pc |-> "hdr", op |-> "pending"]
    BY <1>5, <1>typ, <2>1 DEF AcceptResume
  <2>3. RxTakesDue(s)' /\ UNCHANGED <<stream, buf, last>>
    BY <1>5, <1>idle DEF AcceptResume
  <2>4. QED
    BY <2>1, <2>2, <2>3 DEF TryTakesFirst, Reads, Unfinished
<1>6. CASE TryHeaderOpens(s)
  <2>1. RxTakesDue(s)' /\ last'[s] = last[s]
    BY <1>6, <1>idle DEF TryHeaderOpens
  <2>2. /\ try'[s] = [pc |-> "pay", op |-> "pending"]
        /\ try[s].pc = "hdr"
        /\ buf' = Open("hdr")
    BY <1>6, <1>typ DEF TryHeaderOpens
  <2>3. try[s].op = "ok"
    BY <1>6 DEF TryHeaderOpens, HeaderOpens, TryTakesFirst, Half, Slot
  <2>4. Reads(s, 1, "pay") /\ buf["hdr"] = Slot(s, 1, "enc")
    BY <2>2, <2>3 DEF TryTakesFirst
  <2>5. s \in Vpn
    BY <1>6, <2>4 DEF TryHeaderOpens, HeaderOpens, Slot
  <2>6. UNCHANGED stream
    BY <1>6, <2>4 DEF TryHeaderOpens, RequestPayload, Reads, Slot
  <2>7. buf'["hdr"] = Slot(s, 1, "dec")
    BY <1>typ, <2>2, <2>4 DEF Open, Slot
  <2>8. QED
    BY <2>1, <2>2, <2>4, <2>5, <2>6, <2>7 DEF TryTakesFirst, Reads, Unfinished, Slot
<1>7. CASE TryHeaderRefused(s)
  <2>1. RxTakesDue(s)' /\ last'[s] = last[s]
    BY <1>7, <1>idle DEF TryHeaderRefused
  <2>2. try'[s].pc = "done"
    BY <1>7, <1>typ DEF TryHeaderRefused
  <2>3. QED
    BY <2>1, <2>2 DEF TryTakesFirst
<1>8. CASE TryThrows(s)
  BY <1>8, <1>frame DEF TryThrows
<1>9. CASE TrySelect(s)
  <2>1. try[s].pc = "pay" /\ try[s].op = "ok"
    BY <1>9 DEF TrySelect, TryPayload
  <2>2. Reads(s, 2, "hdr") /\ s \in Vpn /\ last[s] = 0
    BY <2>1 DEF TryTakesFirst
  <2>3. UNCHANGED <<stream, last, replace_socket>>
    BY <1>9 DEF TrySelect
  <2>4. try'[s].pc = "done"
    BY <1>9, <1>typ DEF TrySelect, TryPayload
  <2>5. rx'.pc \notin Parts
    BY <1>9, <1>use, CancelledRx, WokenRx DEF TrySelect, IInv, TypeOK
  <2>6. replace_socket' # s
    BY <1>use, <2>3
  <2>7. Due(s)' = 2 /\ Reads(s, 2, "hdr")'
    BY <2>2, <2>3 DEF Due, Reads
  <2>8. RxTakesDue(s)'
    BY <1>typ, <2>2, <2>5, <2>6, <2>7 DEF RxTakesDue
  <2>9. QED
    BY <2>3, <2>4, <2>8 DEF TryTakesFirst
<1>10. ~TryReplace(s)
  BY <1>use DEF TryReplace
<1>11. CASE RxRun
  <2>1. RxWake \/ RxTunWritten
    BY <1>11, <1>use DEF RxRun, RxHeaderOpens, RxHeaderRefused, RxNull, RxLost,
          RxStopped, RxPayloadRefused, RxPacket, RxPacketWithError, Parts
  <2>2. rx'.pc \notin Parts /\ rx'.sock = NoSock
    BY <1>use, <1>wait, <2>1 DEF RxWake, RxTunWritten, Coroutine, Parts
  <2>3. QED
    BY <1>frame, <2>1, <2>2 DEF RxWake, RxTunWritten
<1>12. ~RxArrival /\ ~RxReadFails
  BY <1>use DEF RxArrival, RxReadFails
<1>13. CASE TxWritten \/ TxSend \/ TxReturn \/ TxNull \/ TxTunFails \/ Close
  BY <1>13, <1>frame DEF TxWritten, TxSend, TxReturn, TxNull, TxTunFails, Close
<1>14. ~TxError
  BY <1>use DEF TxError
<1>15. CASE CloseRun
  BY <1>15, <1>use, <1>frame DEF CloseRun
<1>16. CASE UNCHANGED vars
  BY <1>16, <1>frame DEF vars
<1>17. QED
  BY <1>1, <1>2, <1>3, <1>4, <1>5, <1>6, <1>7, <1>8, <1>9, <1>10, <1>11, <1>12,
     <1>13, <1>14, <1>15, <1>16 DEF Next, Network, TryRun, TxRun

\* ReceiveFrom goes back to the top of its loop.
LEMMA AloneReadNext ==
    ASSUME TypeOK, NEW s \in Socks, RxTakesDue(s),
           selected => conn_socket = s,
           selected => (peer[s] = "gone" \/ Reads(s, Due(s), "hdr"))',
           rx' = ReadNext(selected, conn_socket),
           UNCHANGED <<conn_socket, replace_socket, selected>>
    PROVE  RxTakesDue(s)'
<1>1. CASE selected
  <2>1. rx' = [pc |-> "hdr", sock |-> s, op |-> "pending"]
    BY <1>1 DEF ReadNext, Coroutine
  <2>2. conn_socket' = s /\ s \in Vpn /\ replace_socket' # s
    BY <1>1 DEF RxTakesDue
  <2>3. /\ rx'.pc = "hdr" /\ rx'.sock = s /\ rx'.op = "pending"
        /\ rx'.op \notin Failed
    BY <2>1 DEF Failed
  <2>4. peer'[s] = "gone" \/ Reads(s, Due(s), "hdr")'
    BY <1>1
  <2>5. QED
    BY <2>2, <2>3, <2>4 DEF RxTakesDue, Parts
<1>2. CASE ~selected
  <2>1. rx' = [pc |-> "wait", sock |-> NoSock, op |-> "pending"]
    BY <1>2 DEF ReadNext, Coroutine
  <2>2. (s \in {conn_socket, rx.sock})' => s \in Vpn
    BY <2>1, TCPServerAssumption DEF RxTakesDue
  <2>3. replace_socket' # s /\ ~selected'
    BY <1>2 DEF RxTakesDue
  <2>4. QED
    BY <2>1, <2>2, <2>3 DEF RxTakesDue, Parts
<1>3. QED
  BY <1>1, <1>2

\* Only what has completed before is complete after a cancel.
LEMMA CancelledOk ==
    ASSUME NEW c \in RxStates, NEW s
    PROVE  Cancelled(c, s).op = "ok" => c.op = "ok"
BY DEF Cancelled, Aborted, RxStates, Parts

\* s is deselected and what is outstanding on it is cancelled.
LEMMA AloneCancelled ==
    ASSUME IInv, NEW s \in Socks, RxTakesDue(s),
           conn_socket = s, conn_socket' \in {s, NoSock},
           rx.pc \in Parts => rx.sock = s,
           rx' = Cancelled(rx, conn_socket), ~selected',
           UNCHANGED <<stream, last, replace_socket, buf>>
    PROVE  RxTakesDue(s)'
<1> USE TCPServerAssumption
<1>1. /\ rx'.pc = rx.pc /\ rx'.sock = rx.sock
      /\ rx.pc \in Parts => rx'.op \notin Unfinished
      /\ rx'.op = "ok" => rx.op = "ok"
  BY CancelledRx, CancelledOk DEF IInv, TypeOK
<1>2. s \in Vpn /\ replace_socket' # s
  BY DEF RxTakesDue
<1>3. UNCHANGED Due(s)
  BY DEF Due
<1>4. ASSUME rx.pc = "hdr"
      PROVE  /\ rx'.op \notin Unfinished
             /\ rx'.op # "partial"
             /\ rx'.op = "ok" => Reads(s, Due(s), "pay")' /\ (buf["hdr"] = Slot(s, Due(s), "enc"))'
  BY <1>1, <1>3, <1>4 DEF RxTakesDue, Reads, Unfinished, Parts, Slot
<1>5. ASSUME rx.pc = "pay"
      PROVE  /\ rx'.op \notin Unfinished
             /\ rx'.op \notin {"pending", "partial"}
             /\ rx'.op = "ok" => /\ Reads(s, Due(s) + 1, "hdr")'
                                 /\ (buf["hdr"] = Slot(s, Due(s), "dec"))'
                                 /\ (buf["pay"] = Slot(s, Due(s), "enc"))'
  BY <1>1, <1>3, <1>5 DEF RxTakesDue, Reads, Unfinished, Parts, Slot
<1>6. QED
  BY <1>1, <1>2, <1>4, <1>5 DEF RxTakesDue

\* The action of ReceiveFrom on s, its tryReceive being over.
LEMMA AloneRx ==
    ASSUME IInv, [Next]_vars, NEW s \in Socks, Alone(s), Alone(s)',
           RxTakesDue(s), try[s].pc = "done"
    PROVE  /\ TryTakesFirst(s)' /\ RxTakesDue(s)'
           /\ last'[s] # last[s] => last'[s] = Due(s)
<1> USE TCPServerAssumption DEF netVars, connVars, endVars, outVars
<1>use. /\ \A t \in Socks \ {s} : try[t].pc = "none" /\ accepting # t
        /\ {conn_socket, replace_socket, rx.sock} \subseteq {s, NoSock}
        /\ rx.pc \in Parts => rx.sock = s
        /\ selected => conn_socket = s
  BY AloneUse
<1>typ. /\ stream \in [Socks -> StreamStates]
        /\ buf \in [Parts -> SlotStates]
        /\ accepting \in Socks \cup {NoSock}
        /\ last \in [Socks -> Nat]
        /\ rx \in RxStates
        /\ Parts = {"hdr", "pay"}
  BY DEF IInv, TypeOK, Parts
<1>due. Due(s) \in Nat \ {0}
  BY <1>typ DEF Due
<1>none. replace_socket = NoSock
  BY <1>use DEF RxTakesDue
<1>1. ASSUME NEW t \in Socks
      PROVE  /\ ~TryArrival(t) /\ ~TryReadFails(t) /\ ~TryRun(t)
             /\ ~AcceptResume
  BY <1>use, <1>typ DEF TryArrival, TryReadFails, TryRun, TryHeaderOpens,
        TryHeaderRefused, TryThrows, TrySelect, TryReplace, TryPayload, Parts,
        AcceptResume, IInv, ReaderInv, AcceptedOnce
<1>try. UNCHANGED try
  BY <1>1 DEF Next, Network, AcceptDone, PeerGone, RxArrival, RxReadFails, TxWritten,
        RxRun, RxWake, RxHeaderOpens, RxHeaderRefused, RxNull, RxLost,
        RxStopped, RxPayloadRefused, RxPacket, RxPacketWithError, RxTunWritten,
        TxSend, TxRun, TxReturn, TxError, TxNull, TxTunFails, Close, CloseRun, vars
<1>done. TryTakesFirst(s)'
  BY <1>try DEF TryTakesFirst
<1>last. last' = last \/ last'[s] = Due(s)
  <2>1. CASE RxPacket
    <3>1. buf["pay"] = Slot(s, Due(s), "enc")
      BY <2>1 DEF RxPacket, RxTakesDue
    <3>2. last' = [last EXCEPT ![s] = Due(s)]
      BY <2>1, <3>1 DEF RxPacket, Slot
    <3>3. QED
      BY <1>typ, <3>2
  <2>2. last' = last \/ RxPacket
    BY <1>1 DEF Next, Network, AcceptDone, PeerGone, RxArrival, RxReadFails, TxWritten,
          RxRun, RxWake, RxHeaderOpens, RxHeaderRefused, RxNull, RxLost,
          RxStopped, RxPayloadRefused, RxPacketWithError, RxTunWritten,
          TxSend, TxRun, TxReturn, TxError, TxNull, TxTunFails, Close, CloseRun, vars
  <2>3. QED
    BY <2>1, <2>2
<1> SUFFICES RxTakesDue(s)'
  BY <1>done, <1>last
<1>frame. ASSUME UNCHANGED <<stream, last, buf, conn_socket, replace_socket, selected, rx>>,
                 peer[s] = "gone" => peer'[s] = "gone"
          PROVE  RxTakesDue(s)'
  BY <1>frame, RxFrame
<1>2. ASSUME NEW t \in Socks, AcceptDone(t) \/ PeerGone(t)
      PROVE  RxTakesDue(s)'
  <2>1. peer[s] = "gone" => peer'[s] = "gone"
    BY <1>2 DEF AcceptDone, PeerGone, IInv, TypeOK
  <2>2. QED
    BY <1>2, <1>frame, <2>1 DEF AcceptDone, PeerGone
<1>3. CASE RxArrival
  <2>1. /\ rx.pc \in Parts /\ rx.sock = s
        /\ UNCHANGED <<peer, last, conn_socket, replace_socket, selected, Due(s)>>
    BY <1>3, <1>use DEF RxArrival, Due
  <2>2. s \in Vpn /\ replace_socket' # s /\ rx'.sock = s
    BY <1>3, <1>typ, <2>1 DEF RxArrival, RxTakesDue, RxStates
  <2>3. CASE LandSome(s, rx.pc, rx.op) /\ rx' = [rx EXCEPT !.op = "partial"]
    <3>1. /\ rx'.pc = rx.pc /\ rx'.op = "partial"
          /\ rx.op \in Unfinished /\ peer[s] = "up"
      BY <1>typ, <2>3 DEF LandSome, LandBody, Sends, RxStates, Unfinished
    <3>some. ASSUME ~LandBody(s, rx.pc, rx.op)
             PROVE  /\ buf' = [buf EXCEPT ![rx.pc] = Half(s)]
                    /\ UNCHANGED stream
                    /\ rx.op = "pending"
      BY <2>3, <3>some DEF LandSome
    <3>2. CASE rx.pc = "hdr"
      <4>0. /\ buf' = [buf EXCEPT ![rx.pc] = Half(s)]
            /\ UNCHANGED stream
        BY <3>2, <3>some DEF LandBody
      <4>1. Reads(s, Due(s), "hdr")' /\ (buf["hdr"] = Half(s))'
        BY <1>typ, <2>1, <3>1, <3>2, <4>0 DEF RxTakesDue, Reads, Unfinished, Half, Slot
      <4>2. QED
        BY <2>2, <3>1, <3>2, <4>1 DEF RxTakesDue, Parts, Failed
    <3>3. CASE rx.pc = "pay" /\ ~LandBody(s, rx.pc, rx.op)
      <4>1. /\ Reads(s, Due(s), "pay")' /\ (buf["pay"] = Half(s))'
            /\ (buf["hdr"] = Slot(s, Due(s), "dec"))'
        BY <1>typ, <2>1, <3>1, <3>3, <3>some
           DEF RxTakesDue, Reads, Unfinished, Half, Slot
      <4>2. QED
        BY <2>2, <3>1, <3>3, <4>1 DEF RxTakesDue, Parts, Failed
    <3>4. CASE rx.pc = "pay" /\ LandBody(s, rx.pc, rx.op)
      <4>1. stream[s].at = "pay"
        BY <3>4 DEF LandBody
      <4>2. /\ Reads(s, Due(s), "pay")
            /\ rx.op = "partial" => buf["pay"] = Half(s)
            /\ buf["hdr"] = Slot(s, Due(s), "dec")
        BY <3>1, <3>4, <4>1 DEF RxTakesDue, Reads, Unfinished
      <4>3. stream'[s] = [n |-> Due(s) + 1, at |-> "pad"]
        BY <1>typ, <3>4, <4>2 DEF LandBody, Reads, At
      <4>4. Filled(s, "pay", rx.op) = {Slot(s, Due(s), "enc")}
        BY <3>1, <4>2 DEF Filled, Reads, Unfinished
      <4>5. buf'["pay"] = Slot(s, Due(s), "enc") /\ buf'["hdr"] = buf["hdr"]
        BY <1>typ, <3>4, <4>4 DEF LandBody
      <4>6. /\ Reads(s, Due(s) + 1, "pad")'
            /\ (buf["pay"] = Slot(s, Due(s), "enc"))'
            /\ (buf["hdr"] = Slot(s, Due(s), "dec"))'
        BY <2>1, <4>2, <4>3, <4>5 DEF Reads, Slot
      <4>7. QED
        BY <2>2, <3>1, <3>4, <4>6 DEF RxTakesDue, Parts, Failed
    <3>5. QED
      BY <1>typ, <2>1, <3>2, <3>3, <3>4
  <2>4. CASE Land(s, rx.pc, rx.op) /\ rx' = [rx EXCEPT !.op = "ok"]
    <3>1. /\ rx'.pc = rx.pc /\ rx'.op = "ok"
          /\ rx.op \in Unfinished /\ peer[s] = "up"
      BY <1>typ, <2>4 DEF Land, Sends, RxStates
    <3>4. CASE rx.pc = "hdr"
      <4>a. /\ stream[s] = [n |-> Due(s), at |-> "hdr"]
            /\ rx.op = "partial" => buf["hdr"] = Half(s)
        BY <3>1, <3>4 DEF RxTakesDue, Reads
      <4>b. LandWhole(s, "hdr", rx.op)
        BY <2>4, <3>4, <4>a DEF Land, LandPadding, LandMisread, LandOff
      <4>1. stream'[s] = [n |-> Due(s), at |-> "pay"]
        BY <1>typ, <4>a, <4>b DEF LandWhole, At
      <4>c. Filled(s, "hdr", rx.op) = {Slot(s, Due(s), "enc")}
        BY <3>1, <4>a DEF Filled, Unfinished
      <4>2. buf'["hdr"] = Slot(s, Due(s), "enc")
        BY <1>typ, <4>b, <4>c DEF LandWhole
      <4>3. Reads(s, Due(s), "pay")' /\ (buf["hdr"] = Slot(s, Due(s), "enc"))'
        BY <2>1, <4>1, <4>2 DEF Reads, Slot
      <4>4. QED
        BY <2>2, <3>1, <3>4, <4>3 DEF RxTakesDue, Parts, Failed, Unfinished
    <3>5. CASE rx.pc = "pay"
      <4>1. stream'[s] = [n |-> Due(s) + 1, at |-> "hdr"]
            /\ buf'["pay"] = Slot(s, Due(s), "enc") /\ buf'["hdr"] = buf["hdr"]
        <5>1. CASE stream[s].at = "pay"
          <6>1. /\ stream[s] = [n |-> Due(s), at |-> "pay"]
                /\ rx.op = "partial" => buf["pay"] = Half(s)
            BY <3>1, <3>5, <5>1 DEF RxTakesDue, Reads, Unfinished
          <6>2. LandWhole(s, "pay", rx.op)
            BY <2>4, <3>5, <6>1 DEF Land, LandPadding, LandMisread, LandOff
          <6>3. Filled(s, "pay", rx.op) = {Slot(s, Due(s), "enc")}
            BY <3>1, <6>1 DEF Filled, Unfinished
          <6>4. QED
            BY <1>typ, <6>1, <6>2, <6>3 DEF LandWhole, At
        <5>2. CASE stream[s].at # "pay"
          <6>1. /\ stream[s] = [n |-> Due(s) + 1, at |-> "pad"]
                /\ buf["pay"] = Slot(s, Due(s), "enc")
            BY <3>1, <3>5, <5>2 DEF RxTakesDue, Reads, Unfinished
          <6>2. LandPadding(s, "pay")
            BY <2>4, <3>5, <6>1 DEF Land, LandWhole, LandMisread, LandOff
          <6>3. stream[s].n - 1 = Due(s)
            BY <1>due, <6>1
          <6>4. QED
            BY <1>typ, <6>1, <6>2, <6>3 DEF LandPadding
        <5>3. QED
          BY <5>1, <5>2
      <4>3. buf["hdr"] = Slot(s, Due(s), "dec")
        BY <3>1, <3>5 DEF RxTakesDue
      <4>4. /\ Reads(s, Due(s) + 1, "hdr")'
            /\ (buf["hdr"] = Slot(s, Due(s), "dec"))'
            /\ (buf["pay"] = Slot(s, Due(s), "enc"))'
        BY <2>1, <4>1, <4>3 DEF Reads, Slot
      <4>5. QED
        BY <2>2, <3>1, <3>5, <4>4 DEF RxTakesDue, Parts, Failed, Unfinished
    <3>6. QED
      BY <1>typ, <2>1, <3>4, <3>5
  <2>5. QED
    BY <1>3, <2>1, <2>3, <2>4 DEF RxArrival
<1>4. CASE RxReadFails
  <2>1. /\ rx.pc \in Parts /\ rx.sock = s /\ peer'[s] = "gone"
        /\ UNCHANGED <<stream, buf, last, conn_socket, replace_socket, selected, Due(s)>>
        /\ rx'.pc = rx.pc /\ rx'.sock = s /\ rx'.op = Aborted(rx.op)
    BY <1>4, <1>use, <1>typ DEF RxReadFails, Due, RxStates
  <2>2. \/ rx.op = "pending" /\ rx'.op = "err"
        \/ rx.op = "partial" /\ rx'.op = "short"
    BY <1>4, <2>1 DEF RxReadFails, Aborted, Unfinished
  <2>3. s \in Vpn /\ replace_socket' # s
    BY <2>1 DEF RxTakesDue
  <2>4. QED
    BY <2>1, <2>2, <2>3 DEF RxTakesDue, Parts, Unfinished
<1>5. CASE RxRun
  <2>next. ASSUME selected => peer[s] = "gone" \/ Reads(s, Due(s), "hdr"),
                  rx' = ReadNext(selected, conn_socket),
                  UNCHANGED <<netVars, connVars, last>>
           PROVE  RxTakesDue(s)'
    <3>1. selected => (peer[s] = "gone" \/ Reads(s, Due(s), "hdr"))'
      BY <2>next DEF Reads, Due
    <3>2. QED
      BY <1>use, <2>next, <3>1, AloneReadNext DEF IInv
  <2>1. CASE RxWake
    <3>1. rx.pc \notin Parts
      BY <2>1 DEF RxWake, Parts
    <3>2. QED
      BY <2>1, <2>next, <3>1 DEF RxWake, RxTakesDue
  <2>2. CASE RxHeaderOpens
    <3>1. conn_socket = s /\ rx.sock = s
      BY <1>use, <1>typ, <2>2 DEF RxHeaderOpens
    <3>2. Reads(s, Due(s), "pay") /\ buf["hdr"] = Slot(s, Due(s), "enc") /\ s \in Vpn
          /\ replace_socket # s
      BY <2>2, <3>1 DEF RxHeaderOpens, RxTakesDue
    <3>3. UNCHANGED <<stream, last, replace_socket, Due(s)>>
      BY <2>2, <3>1, <3>2 DEF RxHeaderOpens, RequestPayload, Reads, Slot, Due
    <3>4. buf'["hdr"] = Slot(s, Due(s), "dec")
      BY <1>typ, <2>2, <3>2 DEF RxHeaderOpens, Open, Slot
    <3>5. Reads(s, Due(s), "pay")' /\ (buf["hdr"] = Slot(s, Due(s), "dec"))'
      BY <3>2, <3>3, <3>4 DEF Reads, Slot
    <3>6. rx' = [pc |-> "pay", sock |-> s, op |-> "pending"]
      BY <2>2, <3>1 DEF RxHeaderOpens, Coroutine
    <3>7. QED
      BY <3>2, <3>3, <3>5, <3>6 DEF RxTakesDue, Parts, Failed
  <2>3. ~RxHeaderRefused
    <3>1. ASSUME RxHeaderRefused PROVE FALSE
      <4>1. rx.sock = s /\ rx.pc = "hdr" /\ rx.op = "ok" /\ ~HeaderOpens
        BY <1>use, <1>typ, <3>1 DEF RxHeaderRefused
      <4>2. s \in Vpn /\ buf["hdr"] = Slot(s, Due(s), "enc")
        BY <4>1 DEF RxTakesDue
      <4>3. QED
        BY <4>1, <4>2 DEF HeaderOpens, Slot
    <3>2. QED
      BY <3>1
  <2>4. CASE RxNull
    BY <1>frame, <2>4 DEF RxNull
  <2>5. CASE RxLost
    <3>1. ~selected' /\ conn_socket' = NoSock /\ replace_socket' = NoSock
      BY <1>none, <2>5 DEF RxLost
    <3>2. rx' = [pc |-> "wait", sock |-> NoSock, op |-> "pending"]
      BY <2>5, <3>1 DEF RxLost, ReadNext, Coroutine
    <3>3. QED
      BY <3>1, <3>2 DEF RxTakesDue, Parts
  <2>6. CASE RxStopped
    <3>1. rx' = [pc |-> "ended", sock |-> NoSock, op |-> "idle"]
      BY <2>6 DEF RxStopped, Coroutine
    <3>2. UNCHANGED <<peer, stream, last, conn_socket, replace_socket, selected, Due(s)>>
      BY <2>6 DEF RxStopped, Due
    <3>3. rx.pc \in Parts /\ rx.op \in Failed
      BY <2>6 DEF RxStopped, Parts
    <3>4. /\ selected' => peer'[s] = "gone"
          /\ conn_socket' = s => s \in Vpn
          /\ replace_socket' # s
      BY <3>2, <3>3 DEF RxTakesDue
    <3>5. QED
      BY <3>1, <3>2, <3>4 DEF RxTakesDue, Parts
  <2>7. CASE RxPayloadRefused
    <3>1. rx.pc = "pay" /\ rx.pc \in Parts
      BY <2>7 DEF RxPayloadRefused, Parts
    <3>2. rx.op # "ok"
      BY <2>7, <3>1 DEF RxPayloadRefused, RxTakesDue, PayloadOpens, Slot
    <3>3. rx.op \in Failed
      BY <2>7, <3>2 DEF RxPayloadRefused, Failed
    <3>4. QED
      BY <2>7, <2>next, <3>1, <3>3 DEF RxPayloadRefused, RxTakesDue
  <2>8. CASE RxPacket
    <3>1. /\ Reads(s, Due(s) + 1, "hdr") /\ buf["pay"] = Slot(s, Due(s), "enc")
          /\ replace_socket # s
          /\ conn_socket = s => s \in Vpn
      BY <2>8 DEF RxPacket, RxTakesDue
    <3>2. last' = [last EXCEPT ![s] = Due(s)]
      BY <2>8, <3>1 DEF RxPacket, Slot
    <3>3. last'[s] = Due(s)
      BY <1>typ, <3>2
    <3>4. Due(s)' = Due(s) + 1
      BY <1>due, <3>3 DEF Due
    <3>5. Reads(s, Due(s), "hdr")'
      BY <2>8, <3>1, <3>4 DEF RxPacket, Reads
    <3>6. CASE rx' = Coroutine("tun", NoSock, "idle")
      <4>1. rx' = [pc |-> "tun", sock |-> NoSock, op |-> "idle"]
            /\ UNCHANGED <<conn_socket, replace_socket>>
        BY <2>8, <3>6 DEF RxPacket, Coroutine
      <4>2. QED
        BY <3>1, <3>5, <4>1 DEF RxTakesDue, Parts
    <3>7. CASE rx' = ReadNext(selected, conn_socket)
      <4>1. UNCHANGED <<conn_socket, replace_socket, selected>>
        BY <2>8 DEF RxPacket
      <4>2. QED
        BY <1>use, <3>5, <3>7, <4>1, AloneReadNext DEF IInv
    <3>8. QED
      BY <2>8, <3>6, <3>7 DEF RxPacket
  <2>9. CASE RxPacketWithError
    <3>1. rx' = [pc |-> "ended", sock |-> NoSock, op |-> "idle"]
      BY <2>9 DEF RxPacketWithError, Coroutine
    <3>2. UNCHANGED <<peer, stream, last, conn_socket, replace_socket, selected>>
      BY <2>9 DEF RxPacketWithError
    <3>3. rx.pc \in Parts /\ rx.op \in Failed
      BY <2>9 DEF RxPacketWithError, Parts, Failed
    <3>4. /\ selected' => peer'[s] = "gone"
          /\ conn_socket' = s => s \in Vpn
          /\ replace_socket' # s
      BY <3>2, <3>3 DEF RxTakesDue
    <3>5. QED
      BY <3>1, <3>2, <3>4 DEF RxTakesDue, Parts
  <2>10. CASE RxTunWritten
    <3>1. rx.pc \notin Parts /\ UNCHANGED <<netVars, connVars, last>>
      BY <2>10 DEF RxTunWritten, Parts
    <3>2. CASE rx' = ReadNext(selected, conn_socket)
      BY <2>next, <3>1, <3>2 DEF RxTakesDue
    <3>3. CASE rx' = Coroutine("ended", NoSock, "idle")
      <4>1. rx' = [pc |-> "ended", sock |-> NoSock, op |-> "idle"]
        BY <3>3 DEF Coroutine
      <4>2. /\ selected' => (peer[s] = "gone" \/ Reads(s, Due(s), "hdr"))'
            /\ conn_socket' = s => s \in Vpn
            /\ replace_socket' # s
        BY <3>1 DEF RxTakesDue, Reads, Due
      <4>3. QED
        BY <3>1, <4>1, <4>2 DEF RxTakesDue, Parts
    <3>4. QED
      BY <2>10, <3>2, <3>3 DEF RxTunWritten
  <2>11. QED
    BY <1>5, <2>1, <2>2, <2>3, <2>4, <2>5, <2>6, <2>7, <2>8, <2>9, <2>10
       DEF RxRun, RxHeaderOpens
<1>6. CASE TxWritten \/ TxSend \/ TxReturn \/ TxNull \/ TxTunFails \/ Close
  BY <1>6, <1>frame DEF TxWritten, TxSend, TxReturn, TxNull, TxTunFails, Close
<1>7. CASE TxError
  <2>1. conn_socket = s
    BY <1>7, <1>use DEF TxError
  <2>2. QED
    BY <1>7, <1>use, <2>1, AloneCancelled DEF TxError
<1>8. CASE CloseRun
  <2>1. CASE rx.pc # "ended" /\ selected
    BY <1>8, <1>use, <2>1, AloneCancelled DEF CloseRun
  <2>2. CASE ~(rx.pc # "ended" /\ selected)
    BY <1>8, <1>frame, <2>2 DEF CloseRun
  <2>3. QED
    BY <2>1, <2>2
<1>9. CASE UNCHANGED vars
  BY <1>9, <1>frame DEF vars
<1>10. QED
  BY <1>1, <1>2, <1>3, <1>4, <1>5, <1>6, <1>7, <1>8, <1>9
     DEF Next, Network, TxRun

LEMMA AloneInit == Init => AloneInv
<1> SUFFICES ASSUME Init, NEW s \in Socks PROVE TryTakesFirst(s) /\ RxTakesDue(s)
  BY DEF AloneInv
<1>1. RxTakesDue(s)
  <2>1. /\ conn_socket = NoSock /\ replace_socket = NoSock /\ ~selected
        /\ rx.sock = NoSock /\ rx.pc = "wait"
    BY DEF Init, ReadNext, Coroutine
  <2>2. QED
    BY <2>1, TCPServerAssumption DEF RxTakesDue, Parts
<1>2. QED
  BY <1>1 DEF Init, TryTakesFirst, Reads, At

LEMMA AloneStep ==
    ASSUME IInv, AloneInv, [Next]_vars
    PROVE  /\ AloneInv'
           /\ \A s \in Socks :
                 Alone(s) /\ last'[s] # last[s] => last'[s] = Due(s)
<1>1. ASSUME NEW s \in Socks, Alone(s), Alone(s)'
      PROVE  /\ TryTakesFirst(s)' /\ RxTakesDue(s)'
             /\ last'[s] # last[s] => last'[s] = Due(s)
  <2>1. TryTakesFirst(s) /\ RxTakesDue(s)
    BY <1>1 DEF AloneInv
  <2>2. QED
    BY <1>1, <2>1, AloneTry, AloneRx
<1>2. AloneInv'
  <2>1. ASSUME NEW s \in Socks, Alone(s)' PROVE TryTakesFirst(s)' /\ RxTakesDue(s)'
    BY <1>1, <2>1, AloneBefore DEF IInv
  <2>2. QED
    BY <2>1 DEF AloneInv
<1>3. ASSUME NEW s \in Socks, Alone(s), last'[s] # last[s] PROVE last'[s] = Due(s)
  BY <1>1, <1>3, AloneNoMore
<1>4. QED
  BY <1>2, <1>3

\* Whatever the timing of reads, writes and Close, a connection that nobody
\* shares the receive buffer with loses no frame between tryReceive and
\* ReceiveFrom, nor between two calls of ReceiveFrom.
THEOREM AloneLosesNothing == Spec => AloneSkipsNone
<1>1. IInv /\ AloneInv /\ [Next]_vars => AloneInv'
  BY AloneStep
<1>2. IInv /\ AloneInv /\ [Next]_vars =>
         [\A s \in Socks :
            Alone(s) /\ last'[s] # last[s] =>
                last'[s] = IF last[s] = 0 THEN 2 ELSE last[s] + 1]_last
  BY AloneStep DEF Due
<1>3. QED
  BY <1>1, <1>2, Invariance, AloneInit, PTL DEF Spec, AloneSkipsNone

\* "we don't have decrypt err in tcp" (TCPConnection.h:164) holds of a
\* connection that is alone.
THEOREM AloneDecrypts == Spec => [](\A s \in Socks : Alone(s) => NoDecryptError)
<1>1. IInv /\ AloneInv => \A s \in Socks : Alone(s) => NoDecryptError
  <2>1. ASSUME IInv, AloneInv, NEW s \in Socks, Alone(s), rx.op = "ok"
        PROVE  /\ rx.pc = "hdr" => HeaderOpens
               /\ rx.pc = "pay" => PayloadOpens
    <3>1. RxTakesDue(s) /\ (rx.pc \in Parts => rx.sock = s)
      BY <2>1, AloneUse DEF AloneInv
    <3>2. QED
      BY <2>1, <3>1 DEF RxTakesDue, HeaderOpens, PayloadOpens, Slot, Parts
  <2>2. QED
    BY <2>1 DEF NoDecryptError
<1>2. IInv /\ AloneInv /\ [Next]_vars => AloneInv'
  BY AloneStep
<1>3. QED
  BY <1>1, <1>2, Invariance, AloneInit, PTL DEF Spec
=============================================================================
