------------------------------ MODULE TCPServer ------------------------------
(***************************************************************************)
(* The server side of src/connection/TCPConnection.h together with the two *)
(* loops of Server::Run (src/Server.cpp) that drive it.                    *)
(*                                                                         *)
(* Five kinds of coroutine share the members of one TCPConnection and one  *)
(* receive buffer, on an io_context run by a single thread:                *)
(*   - the accept loop (Accept),                                           *)
(*   - one tryReceive per accepted socket,                                 *)
(*   - the receive loop, ReceiveFrom then a write to the tun device (rx),  *)
(*   - the send loop, a read from the tun device then SendTo (tx),         *)
(*   - the coroutine that Close posts.                                     *)
(* What runs between two suspension points is one action.  An asynchronous *)
(* operation completes in one step and its coroutine resumes in a later    *)
(* one; handlers that are ready run in any order, as Boost.Asio promises   *)
(* none.                                                                   *)
(*                                                                         *)
(* A frame is a ProtocolHeader and a payload with its padding; frame n of  *)
(* peer s is the pair (s, n).  The receive buffer is two slots, one for    *)
(* the header and one for the payload.                                     *)
(***************************************************************************)
EXTENDS Naturals, FiniteSets

CONSTANTS
    Socks,      \* the sockets the acceptor may hand out
    Vpn,        \* those whose peer holds conn_key
    NoSock,     \* the empty shared_ptr
    MaxFrames   \* bound: frames one peer sends

ASSUME TCPServerAssumption ==
    /\ Vpn \subseteq Socks
    /\ NoSock \notin Socks
    /\ MaxFrames \in Nat

VARIABLES
    acceptor,       \* tcp_acceptor: "open" or "closed"
    accepting,      \* socket of an async_accept that completed, not resumed
    peer,           \* peer[s]: "new", then "up", then "gone"
    stream,         \* stream[s]: where the next unread byte of s is
    try,            \* try[s]: the tryReceive coroutine of s
    conn_socket, replace_socket, selected, stopped,     \* members
    rx,             \* the receive loop
    tx,             \* the send loop
    buf,            \* conn_recv_buffer
    closing,        \* the call of Close: "no", "posted", "done"
    crash,          \* "none", or the function that brought the process down
    last,           \* last[s]: last frame of s that ReceiveFrom returned
                    \* without an error
    returned        \* how many packets ReceiveFrom returned

connVars == <<conn_socket, replace_socket, selected, stopped>>
netVars  == <<acceptor, accepting, peer, stream>>
endVars  == <<closing, crash>>
outVars  == <<last, returned>>
vars     == <<netVars, try, connVars, rx, tx, buf, endVars, outVars>>

-----------------------------------------------------------------------------
(* Coroutines and their outstanding operation.                             *)

Parts == {"hdr", "pay"}                 \* what a coroutine may be reading
Unfinished == {"pending", "partial"}    \* "partial": some bytes are in buf
Failed == {"err", "short"}              \* "short": failed after some bytes
OpStates == {"idle", "ok"} \cup Unfinished \cup Failed

Coroutine(pc, s, op) == [pc |-> pc, sock |-> s, op |-> op]

\* close(), cancel() and the destructor of a socket complete what is
\* outstanding on it with operation_aborted.
Aborted(op) ==
    CASE op = "pending" -> "err"
      [] op = "partial" -> "short"
      [] OTHER -> op

\* Faulty variant: operations outstanding on the socket are left alone.
CancelledNever(c, s) == c

Cancelled(c, s) ==
    IF s # NoSock /\ c.sock = s THEN [c EXCEPT !.op = Aborted(@)] ELSE c

\* Faulty variant: selected_signal is not cancelled.
WokenNever(c) == c

\* selected_signal.cancel()
Woken(c) == IF c.pc = "wait" THEN [c EXCEPT !.op = "ok"] ELSE c

\* The top of the loop in ReceiveFrom: sleep on selected_signal while no
\* socket is selected, else read a header from the selected one.
ReadNext(sel, s) ==
    IF sel THEN Coroutine("hdr", s, "pending")
           ELSE Coroutine("wait", NoSock, "pending")

-----------------------------------------------------------------------------
(* The receive buffer and AES-256-GCM, which works on it in place: a slot  *)
(* is encrypted, then decrypted; a decrypted one never opens again.        *)

Slot(s, n, st) == [sock |-> s, n |-> n, st |-> st]
Junk == Slot(NoSock, 0, "junk")
Half(s) == Slot(s, 0, "half")

\* DecryptHeader succeeds.
HeaderOpens == buf["hdr"].st = "enc" /\ buf["hdr"].sock \in Vpn

\* Faulty variant: the tag of the payload is not verified.
PayloadOpensUnverified == buf["hdr"].st = "dec"

\* DecryptPayload succeeds: the payload in the buffer belongs to the header.
PayloadOpens ==
    /\ buf["hdr"].st = "dec"
    /\ buf["pay"].st = "enc"
    /\ buf["pay"].sock = buf["hdr"].sock
    /\ buf["pay"].n = buf["hdr"].n

Open(k) == [buf EXCEPT ![k].st = "dec"]

-----------------------------------------------------------------------------
(* Byte streams.  stream[s].at says whether the next byte is the first of  *)
(* the header of frame n ("hdr"), of its payload ("pay"), of the padding   *)
(* that ends the frame before ("pad"), or none of these ("off").           *)

\* Bound: nobody sends more than MaxFrames frames.
Sends(s) ==
    peer[s] = "up" /\ (stream[s].n <= MaxFrames \/ stream[s].at = "pad")

At(n, part) == [n |-> n, at |-> part]

\* async_read of payload_len bytes, the length being that of the header in
\* the buffer.  If that header is not the one the stream has just passed,
\* the read ends at a frame boundary only if both lengths are equal.
RequestPayload(s) ==
    LET mine == /\ buf["hdr"].sock = s
                /\ buf["hdr"].n = stream[s].n
                /\ stream[s].at = "pay"
    IN  IF mine THEN UNCHANGED stream
        ELSE \/ stream[s].at = "pay" /\ UNCHANGED stream
             \/ stream' = [stream EXCEPT ![s] = At(stream[s].n, "off")]

\* What the last bytes of part k leave in its slot.  They complete what the
\* first ones began; where another frame has taken the place of those, they
\* spoil it, unless its payload is so short that they end up behind it.
Filled(s, k, op) ==
    IF op = "pending" \/ buf[k] = Half(s) THEN {Slot(s, stream[s].n, "enc")}
    ELSE IF k = "hdr" THEN {Junk} ELSE {Junk, buf[k]}

\* The last bytes of a read of part k from s reach the buffer: of that part,
LandWhole(s, k, op) ==
    LET n == stream[s].n IN
    /\ stream[s].at = k
    /\ stream' = [stream EXCEPT ![s] = IF k = "hdr" THEN At(n, "pay")
                                                    ELSE At(n + 1, "hdr")]
    /\ \E slot \in Filled(s, k, op) : buf' = [buf EXCEPT ![k] = slot]

\* of the padding, behind a payload that is in,
LandPadding(s, k) ==
    /\ stream[s].at = "pad" /\ k = "pay"
    /\ stream' = [stream EXCEPT ![s].at = "hdr"]
    /\ \/ UNCHANGED buf
       \/ /\ buf["pay"] # Slot(s, stream[s].n - 1, "enc")
          /\ buf' = [buf EXCEPT !["pay"] = Junk]

\* or of a payload or its padding taken for a header,
LandMisread(s, k) ==
    /\ stream[s].at \in {"pay", "pad"} /\ k = "hdr"
    /\ stream' = [stream EXCEPT ![s].at = "off"]
    /\ buf' = [buf EXCEPT ![k] = Junk]

\* or of anything, ending anywhere.
LandOff(s, k) ==
    /\ stream[s].at = "off"
    /\ \/ UNCHANGED stream
       \/ stream' = [stream EXCEPT ![s] = At(stream[s].n + 1, "off")]
       \/ stream' = [stream EXCEPT ![s] = At(stream[s].n + 1, "hdr")]
    /\ buf' = [buf EXCEPT ![k] = Junk]

Land(s, k, op) ==
    /\ op \in Unfinished
    /\ Sends(s)
    /\ LandWhole(s, k, op) \/ LandPadding(s, k) \/ LandMisread(s, k) \/ LandOff(s, k)

\* A payload is in and its padding is not: should the read fail now, the
\* payload opens all the same, as the tag covers no padding.
LandBody(s, k, op) ==
    /\ op \in Unfinished
    /\ Sends(s)
    /\ stream[s].at = "pay" /\ k = "pay"
    /\ stream' = [stream EXCEPT ![s] = At(stream[s].n + 1, "pad")]
    /\ \E slot \in Filled(s, k, op) : buf' = [buf EXCEPT ![k] = slot]

\* Some of the bytes a read waits for reach the buffer.
LandSome(s, k, op) ==
    \/ LandBody(s, k, op)
    \/ /\ op = "pending"
       /\ Sends(s)
       /\ buf' = [buf EXCEPT ![k] = Half(s)]
       /\ UNCHANGED stream

-----------------------------------------------------------------------------
Init ==
    /\ acceptor = "open"
    /\ accepting = NoSock
    /\ peer = [s \in Socks |-> "new"]
    /\ stream = [s \in Socks |-> At(1, "hdr")]
    /\ try = [s \in Socks |-> [pc |-> "none", op |-> "idle"]]
    /\ conn_socket = NoSock
    /\ replace_socket = NoSock
    /\ selected = FALSE
    /\ stopped = FALSE
    /\ rx = ReadNext(FALSE, NoSock)
    /\ tx = Coroutine("tun", NoSock, "idle")
    /\ buf = [k \in Parts |-> Junk]
    /\ closing = "no"
    /\ crash = "none"
    /\ last = [s \in Socks |-> 0]
    /\ returned = 0

(* The network and the kernel.                                             *)

\* async_accept completes with a new connection.
AcceptDone(s) ==
    /\ acceptor = "open" /\ accepting = NoSock /\ peer[s] = "new"
    /\ accepting' = s
    /\ peer' = [peer EXCEPT ![s] = "up"]
    /\ UNCHANGED <<acceptor, stream, try, connVars, rx, tx, buf, endVars, outVars>>

PeerGone(s) ==
    /\ peer[s] = "up"
    /\ peer' = [peer EXCEPT ![s] = "gone"]
    /\ UNCHANGED <<acceptor, accepting, stream, try, connVars, rx, tx, buf,
                   endVars, outVars>>

TryArrival(s) ==
    /\ try[s].pc \in Parts
    /\ \/ /\ Land(s, try[s].pc, try[s].op)
          /\ try' = [try EXCEPT ![s].op = "ok"]
       \/ /\ LandSome(s, try[s].pc, try[s].op)
          /\ try' = [try EXCEPT ![s].op = "partial"]
    /\ UNCHANGED <<acceptor, accepting, peer, connVars, rx, tx, endVars, outVars>>

TryReadFails(s) ==
    /\ try[s].pc \in Parts /\ try[s].op \in Unfinished /\ peer[s] = "gone"
    /\ try' = [try EXCEPT ![s].op = Aborted(@)]
    /\ UNCHANGED <<netVars, connVars, rx, tx, buf, endVars, outVars>>

RxArrival ==
    /\ rx.pc \in Parts
    /\ \/ /\ Land(rx.sock, rx.pc, rx.op)
          /\ rx' = [rx EXCEPT !.op = "ok"]
       \/ /\ LandSome(rx.sock, rx.pc, rx.op)
          /\ rx' = [rx EXCEPT !.op = "partial"]
    /\ UNCHANGED <<acceptor, accepting, peer, try, connVars, tx, endVars, outVars>>

RxReadFails ==
    /\ rx.pc \in Parts /\ rx.op \in Unfinished /\ peer[rx.sock] = "gone"
    /\ rx' = [rx EXCEPT !.op = Aborted(@)]
    /\ UNCHANGED <<netVars, try, connVars, tx, buf, endVars, outVars>>

TxWritten ==
    /\ tx.pc = "write" /\ tx.op = "pending"
    /\ \/ tx' = [tx EXCEPT !.op = "ok"]
       \/ peer[tx.sock] = "gone" /\ tx' = [tx EXCEPT !.op = "err"]
    /\ UNCHANGED <<netVars, try, connVars, rx, buf, endVars, outVars>>

Network ==
    \/ \E s \in Socks :
          AcceptDone(s) \/ PeerGone(s) \/ TryArrival(s) \/ TryReadFails(s)
    \/ RxArrival \/ RxReadFails \/ TxWritten

-----------------------------------------------------------------------------
(* Accept and tryReceive.                                                  *)

\* The accept loop resumes and spawns tryReceive, which starts reading.
AcceptResume ==
    /\ accepting # NoSock
    /\ try' = [try EXCEPT ![accepting] = [pc |-> "hdr", op |-> "pending"]]
    /\ accepting' = NoSock
    /\ UNCHANGED <<acceptor, peer, stream, connVars, rx, tx, buf, endVars, outVars>>

\* Only a failed read of no byte at all ends it here: after a short read the
\* header is decrypted all the same.
TryHeaderOpens(s) ==
    /\ try[s].pc = "hdr" /\ try[s].op \in {"ok", "short"}
    /\ HeaderOpens
    /\ buf' = Open("hdr")
    /\ RequestPayload(s)
    /\ try' = [try EXCEPT ![s] = [pc |-> "pay", op |-> "pending"]]
    /\ UNCHANGED <<acceptor, accepting, peer, connVars, rx, tx, endVars, outVars>>

TryHeaderRefused(s) ==
    /\ try[s].pc = "hdr"
    /\ try[s].op = "err" \/ (try[s].op \in {"ok", "short"} /\ ~HeaderOpens)
    /\ try' = [try EXCEPT ![s] = [pc |-> "done", op |-> "idle"]]
    /\ UNCHANGED <<netVars, connVars, rx, tx, buf, endVars, outVars>>

\* The second read is given a yield context without an error_code, and
\* local_endpoint() and remote_endpoint() throw: on a closed acceptor always,
\* on a connection that is gone if the kernel has noticed.
TryThrows(s) ==
    /\ try[s].pc = "pay"
    /\ \/ try[s].op \in Failed
       \/ try[s].op = "ok" /\ (acceptor = "closed" \/ peer[s] = "gone")
    /\ crash' = "tryReceive"
    /\ UNCHANGED <<netVars, try, connVars, rx, tx, buf, closing, outVars>>

\* The result of DecryptPayload is not looked at.
TryPayload(s) ==
    /\ try[s].pc = "pay" /\ try[s].op = "ok" /\ acceptor = "open"
    /\ buf' = IF PayloadOpens THEN Open("pay") ELSE buf
    /\ try' = [try EXCEPT ![s] = [pc |-> "done", op |-> "idle"]]

\* The first connection.  What conn_socket held is destroyed.
TrySelect(s) ==
    /\ TryPayload(s)
    /\ ~selected
    /\ selected' = TRUE
    /\ conn_socket' = s
    /\ rx' = Woken(Cancelled(rx, conn_socket))
    /\ tx' = Cancelled(tx, conn_socket)
    /\ UNCHANGED <<netVars, replace_socket, stopped, endVars, outVars>>

\* A later one is parked, and what is outstanding on the first is cancelled.
TryReplace(s) ==
    /\ TryPayload(s)
    /\ selected
    /\ replace_socket' = s
    /\ rx' = Cancelled(rx, conn_socket)
    /\ tx' = Cancelled(tx, conn_socket)
    /\ UNCHANGED <<netVars, conn_socket, selected, stopped, endVars, outVars>>

TryRun(s) ==
    \/ TryHeaderOpens(s) \/ TryHeaderRefused(s)
    \/ TryThrows(s) \/ TrySelect(s) \/ TryReplace(s)

-----------------------------------------------------------------------------
(* The receive loop: ReceiveFrom and the coroutine of Server::Run.         *)

RxWake ==
    /\ rx.pc = "wait" /\ rx.op = "ok"
    /\ rx' = ReadNext(selected, conn_socket)
    /\ UNCHANGED <<netVars, try, connVars, tx, buf, endVars, outVars>>

\* The payload is read from conn_socket, whatever it has become.
RxHeaderOpens ==
    /\ rx.pc = "hdr" /\ rx.op = "ok"
    /\ HeaderOpens
    /\ conn_socket # NoSock
    /\ buf' = Open("hdr")
    /\ RequestPayload(conn_socket)
    /\ rx' = Coroutine("pay", conn_socket, "pending")
    /\ UNCHANGED <<acceptor, accepting, peer, try, connVars, tx, endVars, outVars>>

RxHeaderRefused ==
    /\ rx.pc = "hdr" /\ rx.op = "ok"
    /\ ~HeaderOpens
    /\ rx' = ReadNext(selected, conn_socket)
    /\ UNCHANGED <<netVars, try, connVars, tx, buf, endVars, outVars>>

\* conn_socket is dereferenced and empty.
RxNull ==
    /\ rx.pc = "hdr" /\ rx.op = "ok"
    /\ HeaderOpens
    /\ conn_socket = NoSock
    /\ crash' = "ReceiveFrom"
    /\ UNCHANGED <<netVars, try, connVars, rx, tx, buf, closing, outVars>>

\* Faulty variant: selected is left set with no socket.
RxLostStaysSelected ==
    /\ rx.pc = "hdr" /\ rx.op \in Failed
    /\ ~stopped
    /\ conn_socket # NoSock
    /\ conn_socket' = replace_socket
    /\ replace_socket' = NoSock
    /\ rx' = ReadNext(selected, conn_socket')
    /\ tx' = Cancelled(tx, conn_socket)
    /\ UNCHANGED <<netVars, try, selected, stopped, buf, endVars, outVars>>

\* Faulty variant: the parked socket is copied and stays parked.
RxLostCopies ==
    /\ rx.pc = "hdr" /\ rx.op \in Failed
    /\ ~stopped
    /\ conn_socket # NoSock
    /\ conn_socket' = replace_socket
    /\ selected' = (replace_socket # NoSock)
    /\ rx' = ReadNext(selected', conn_socket')
    /\ tx' = Cancelled(tx, conn_socket)
    /\ UNCHANGED <<netVars, try, replace_socket, stopped, buf, endVars, outVars>>

\* Faulty variant: a failed read is tried again on the same socket.
RxLostRetries ==
    /\ rx.pc = "hdr" /\ rx.op \in Failed
    /\ ~stopped
    /\ rx' = ReadNext(selected, conn_socket)
    /\ UNCHANGED <<netVars, try, connVars, tx, buf, endVars, outVars>>

\* Faulty variant: the parked socket is forgotten.
RxLostForgetful ==
    /\ rx.pc = "hdr" /\ rx.op \in Failed
    /\ ~stopped
    /\ conn_socket # NoSock
    /\ conn_socket' = NoSock
    /\ selected' = FALSE
    /\ rx' = ReadNext(FALSE, NoSock)
    /\ tx' = Cancelled(tx, conn_socket)
    /\ UNCHANGED <<netVars, try, replace_socket, stopped, buf, endVars, outVars>>

\* The read of a header failed: conn_socket is closed and dropped, and a
\* parked socket takes its place.
RxLost ==
    /\ rx.pc = "hdr" /\ rx.op \in Failed
    /\ ~stopped
    /\ conn_socket # NoSock
    /\ conn_socket' = replace_socket
    /\ replace_socket' = NoSock
    /\ selected' = (replace_socket # NoSock)
    /\ rx' = ReadNext(selected', conn_socket')
    /\ tx' = Cancelled(tx, conn_socket)
    /\ UNCHANGED <<netVars, try, stopped, buf, endVars, outVars>>

RxStopped ==
    /\ rx.pc = "hdr" /\ rx.op \in Failed
    /\ stopped
    /\ rx' = Coroutine("ended", NoSock, "idle")
    /\ UNCHANGED <<netVars, try, connVars, tx, buf, endVars, outVars>>

\* Faulty variant: a payload that opens may be thrown away.
RxPayloadThrownAway ==
    /\ rx.pc = "pay"
    /\ rx.op \in {"ok", "err", "short"}
    /\ rx' = ReadNext(selected, conn_socket)
    /\ UNCHANGED <<netVars, try, connVars, tx, buf, endVars, outVars>>

\* The read of a payload failed with no byte read, or the payload does not
\* open: the error_code is not looked at.
RxPayloadRefused ==
    /\ rx.pc = "pay"
    /\ rx.op = "err" \/ (rx.op \in {"ok", "short"} /\ ~PayloadOpens)
    /\ rx' = ReadNext(selected, conn_socket)
    /\ UNCHANGED <<netVars, try, connVars, tx, buf, endVars, outVars>>

\* ReceiveFrom returns a packet and the loop writes it to the tun device,
\* unless it is not from the client's tunnel address.
RxPacket ==
    /\ rx.pc = "pay" /\ rx.op = "ok"
    /\ PayloadOpens
    /\ buf' = Open("pay")
    /\ last' = [last EXCEPT ![buf["pay"].sock] = buf["pay"].n]
    /\ returned' = returned + 1
    /\ rx' \in {Coroutine("tun", NoSock, "idle"), ReadNext(selected, conn_socket)}
    /\ UNCHANGED <<netVars, try, connVars, tx, endVars>>

\* The read failed and the payload opens: only padding is missing, or another
\* coroutine has put a payload there that the header opens.  ReceiveFrom
\* returns it with the error still in the error_code, which the loop takes
\* for the end.
RxPacketWithError ==
    /\ rx.pc = "pay" /\ rx.op = "short"
    /\ PayloadOpens
    /\ buf' = Open("pay")
    /\ rx' = Coroutine("ended", NoSock, "idle")
    /\ UNCHANGED <<netVars, try, connVars, tx, endVars, outVars>>

\* The write to the tun device returns; any error of it ends the loop.
RxTunWritten ==
    /\ rx.pc = "tun"
    /\ \/ rx' = ReadNext(selected, conn_socket)
       \/ rx' = Coroutine("ended", NoSock, "idle")
    /\ UNCHANGED <<netVars, try, connVars, tx, buf, endVars, outVars>>

RxRun ==
    \/ RxWake \/ RxHeaderOpens \/ RxHeaderRefused \/ RxNull \/ RxLost
    \/ RxStopped \/ RxPayloadRefused \/ RxPacket \/ RxPacketWithError
    \/ RxTunWritten

-----------------------------------------------------------------------------
(* The send loop: a packet for the client from the tun device and SendTo.  *)
(* With no socket selected the packet is dropped and nothing changes.      *)

TxSend ==
    /\ tx.pc = "tun"
    /\ selected
    /\ tx' = Coroutine("write", conn_socket, "pending")
    /\ UNCHANGED <<netVars, try, connVars, rx, buf, endVars, outVars>>

TxReturn ==
    /\ tx.pc = "write"
    /\ tx.op = "ok" \/ (tx.op \in Failed /\ stopped)
    /\ tx' = Coroutine("tun", NoSock, "idle")
    /\ UNCHANGED <<netVars, try, connVars, rx, buf, endVars, outVars>>

\* conn_socket, whatever it has become, is cancelled and deselected.
TxError ==
    /\ tx.pc = "write" /\ tx.op \in Failed
    /\ ~stopped
    /\ conn_socket # NoSock
    /\ rx' = Cancelled(rx, conn_socket)
    /\ selected' = FALSE
    /\ tx' = Coroutine("tun", NoSock, "idle")
    /\ UNCHANGED <<netVars, try, conn_socket, replace_socket, stopped, buf,
                   endVars, outVars>>

\* conn_socket is dereferenced and empty.
TxNull ==
    /\ tx.pc = "write" /\ tx.op \in Failed
    /\ ~stopped
    /\ conn_socket = NoSock
    /\ crash' = "SendTo"
    /\ UNCHANGED <<netVars, try, connVars, rx, tx, buf, closing, outVars>>

\* Any error of the read from the tun device ends the loop.
TxTunFails ==
    /\ tx.pc = "tun"
    /\ tx' = Coroutine("ended", NoSock, "idle")
    /\ UNCHANGED <<netVars, try, connVars, rx, buf, endVars, outVars>>

TxRun == TxReturn \/ TxError \/ TxNull

-----------------------------------------------------------------------------
(* Close, posted to the io_context by Server::Stop on another thread.      *)

Close ==
    /\ closing = "no"
    /\ closing' = "posted"
    /\ UNCHANGED <<netVars, try, connVars, rx, tx, buf, crash, outVars>>

\* Faulty variant: selected is left set.
CloseRunStaysSelected ==
    /\ closing = "posted"
    /\ closing' = "done"
    /\ acceptor' = "closed"
    /\ IF rx.pc # "ended" /\ selected
       THEN /\ rx' = Cancelled(rx, conn_socket)
            /\ tx' = Cancelled(tx, conn_socket)
            /\ conn_socket' = NoSock
            /\ stopped' = TRUE
       ELSE UNCHANGED <<rx, tx, conn_socket, stopped>>
    /\ UNCHANGED <<accepting, peer, stream, try, replace_socket, selected, buf,
                   crash, outVars>>

\* Faulty variant: stopped is not set.
CloseRunNotStopped ==
    /\ closing = "posted"
    /\ closing' = "done"
    /\ acceptor' = "closed"
    /\ IF rx.pc # "ended" /\ selected
       THEN /\ rx' = Cancelled(rx, conn_socket)
            /\ tx' = Cancelled(tx, conn_socket)
            /\ conn_socket' = NoSock
            /\ selected' = FALSE
       ELSE UNCHANGED <<rx, tx, conn_socket, selected>>
    /\ UNCHANGED <<accepting, peer, stream, try, replace_socket, stopped, buf,
                   crash, outVars>>

\* async_tasks_running counts the receive loop.
CloseRun ==
    /\ closing = "posted"
    /\ closing' = "done"
    /\ acceptor' = "closed"
    /\ IF rx.pc # "ended" /\ selected
       THEN /\ rx' = Cancelled(rx, conn_socket)
            /\ tx' = Cancelled(tx, conn_socket)
            /\ conn_socket' = NoSock
            /\ selected' = FALSE
            /\ stopped' = TRUE
       ELSE UNCHANGED <<rx, tx, conn_socket, selected, stopped>>
    /\ UNCHANGED <<accepting, peer, stream, try, replace_socket, buf, crash, outVars>>

-----------------------------------------------------------------------------
Next ==
    /\ crash = "none"
    /\ \/ Network
       \/ AcceptResume
       \/ \E s \in Socks : TryRun(s)
       \/ RxRun
       \/ TxSend \/ TxTunFails \/ TxRun
       \/ Close \/ CloseRun

Spec == Init /\ [][Next]_vars

\* The io_context runs every handler that is ready, the kernel reports a
\* dead peer, and writes to the tun device return.  Peers owe nothing, and
\* neither do the tun device, which may have no packet or an error to report,
\* and the call of Close.
Fairness ==
    /\ WF_vars(crash = "none" /\ AcceptResume)
    /\ \A s \in Socks : WF_vars(crash = "none" /\ TryRun(s))
    /\ WF_vars(crash = "none" /\ RxRun)
    /\ WF_vars(crash = "none" /\ TxRun)
    /\ WF_vars(crash = "none" /\ CloseRun)
    /\ WF_vars(crash = "none" /\ RxReadFails)
    /\ WF_vars(crash = "none" /\ TxWritten)

FairSpec == Spec /\ Fairness

-----------------------------------------------------------------------------
(* Properties.                                                             *)

\* A coroutine holds a socket while an operation on it is outstanding.
RxStates ==
    [pc : {"wait", "tun", "ended"}, sock : {NoSock}, op : OpStates]
        \cup [pc : Parts, sock : Socks, op : OpStates]

TxStates ==
    [pc : {"tun", "ended"}, sock : {NoSock}, op : OpStates]
        \cup [pc : {"write"}, sock : Socks, op : OpStates]

StreamStates == [n : Nat \ {0}, at : {"hdr", "pay", "pad", "off"}]

SlotStates ==
    [sock : Socks \cup {NoSock}, n : Nat, st : {"junk", "half", "enc", "dec"}]

TypeOK ==
    /\ acceptor \in {"open", "closed"}
    /\ accepting \in Socks \cup {NoSock}
    /\ peer \in [Socks -> {"new", "up", "gone"}]
    /\ stream \in [Socks -> StreamStates]
    /\ try \in [Socks -> [pc : {"none", "hdr", "pay", "done"}, op : OpStates]]
    /\ conn_socket \in Socks \cup {NoSock}
    /\ replace_socket \in Socks \cup {NoSock}
    /\ selected \in BOOLEAN
    /\ stopped \in BOOLEAN
    /\ rx \in RxStates
    /\ tx \in TxStates
    /\ buf \in [Parts -> SlotStates]
    /\ closing \in {"no", "posted", "done"}
    /\ crash \in {"none", "tryReceive", "ReceiveFrom", "SendTo"}
    /\ last \in [Socks -> Nat]
    /\ returned \in Nat

\* While selected is set there is a socket to use (TCPConnection.h:176 "as
\* long as selected_signal return , a valid conn is set").
ConnValid == selected => conn_socket # NoSock

\* A receive loop asleep on selected_signal never misses the selection of a
\* socket: whoever sets selected has also cancelled the timer.
NoLostWakeup == selected /\ rx.pc = "wait" => rx.op = "ok"

\* Whatever is outstanding for the receive and the send loop is outstanding on
\* conn_socket: neither is left waiting on a socket that was dropped, closed
\* or overwritten.
PendingOnConn ==
    /\ rx.pc \in Parts /\ rx.op \in Unfinished => rx.sock = conn_socket
    /\ tx.pc = "write" /\ tx.op \in Unfinished => tx.sock = conn_socket

\* A socket is parked behind one that is in service, or whose failure is about
\* to be handled.
InLine ==
    /\ replace_socket # NoSock
    /\ ~stopped
    /\ selected \/ (rx.pc = "hdr" /\ rx.op \in Failed)

\* The error path of SendTo while ReceiveFrom does not wait for a header: what
\* it cancels is no read of a header, so that nothing leads to RxLost.
DeselectedUnread ==
    /\ tx.pc = "write" /\ tx.op \in Failed
    /\ selected /\ ~selected' /\ UNCHANGED conn_socket
    /\ ~(rx.pc = "hdr" /\ rx.op \in Unfinished \cup Failed)

\* A socket in line stays in line until it is the one in service, or a newer
\* one takes its place in the line (TCPConnection.h:94 "if conn already exist,
\* we need to replace it").  Only three things strand it: the end of the
\* receive loop, Close, and the error path of SendTo (lines 154-157) in the
\* case above, after which nobody reads the old socket and no failure of it
\* promotes the new one.
ParkedIsPromoted ==
    [][InLine =>
          \/ InLine' /\ (replace_socket' # replace_socket =>
                            try[replace_socket'].pc = "pay")
          \/ selected' /\ conn_socket' = replace_socket
          \/ rx'.pc = "ended" \/ closing' # closing
          \/ DeselectedUnread]_vars

\* Two coroutines never read from one socket: a socket under examination by
\* tryReceive is in use nowhere else, and the parked socket is not the one in
\* service.
OneReader ==
    /\ \A s \in Socks : try[s].pc \in Parts =>
          s \notin {conn_socket, replace_socket, rx.sock, tx.sock}
    /\ replace_socket # NoSock => replace_socket \notin {conn_socket, rx.sock}

\* ReceiveFrom hands out authentic packets, in order and at most once per
\* connection, although every coroutine decodes in the same buffer.
Relay == INSTANCE PacketRelay WITH
    arrived <- [s \in Socks |-> stream[s].n - 1],
    forwarded <- last,
    handed <- returned,
    down <- (rx.pc = "ended" \/ crash # "none")

RelaysPackets == Relay!Spec

\* ReceiveFrom reads from a socket only while conn_socket is set, or Close has
\* said so in stopped: the close() of a lost connection (line 192) never
\* dereferences an empty pointer.
ReadingHasConn == rx.pc \in Parts => conn_socket # NoSock \/ stopped

Alone(s) == \A t \in Socks \ {s} : peer[t] = "new"

\* What a peer with the key sent decodes (TCPConnection.h:164 "we don't have
\* decrypt err in tcp").
NoDecryptError ==
    rx.op = "ok" /\ rx.sock \in Vpn =>
        CASE rx.pc = "hdr" -> HeaderOpens
          [] rx.pc = "pay" -> PayloadOpens
          [] OTHER -> TRUE

\* It does as long as there is no second connection to share the buffer with,
\* whatever the timing of reads, writes and Close; then no frame is skipped: the
\* first is consumed by tryReceive, every later one comes out of ReceiveFrom.
AloneSkipsNone ==
    [][\A s \in Socks :
          Alone(s) /\ last'[s] # last[s] =>
              last'[s] = IF last[s] = 0 THEN 2 ELSE last[s] + 1]_last

\* A dead connection does not stay selected: its failed read reaches RxLost
\* however the coroutines interleave.
DeadConnectionDropped ==
    \A s \in Socks :
        (selected /\ conn_socket = s /\ peer[s] = "gone")
            ~> (~selected \/ conn_socket # s \/ rx.pc = "ended"
                \/ closing # "no" \/ crash # "none")

\* TCPConnection.h:152 "if something goes wrong with write / set flag and
\* notify async_read let it closes the socket": the error path of SendTo runs.
WriteErrorNotifies == crash # "SendTo"
=============================================================================
