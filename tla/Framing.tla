------------------------------- MODULE Framing -------------------------------
(***************************************************************************)
(* One frame of src/connection/Protocol.cpp through the fixed buffers of   *)
(* IConnection, from the tun device of one host to that of the other: Send *)
(* seals a packet in place in tun_recv_buffer, and Receive opens it in     *)
(* place in conn_recv_buffer, where what the previous frame left stays     *)
(* behind a shorter one.  Over UDP a frame is a datagram, which is cut to  *)
(* the MTU of the receiver; over TCP the header is read from the stream,   *)
(* and then as many bytes as it says.                                      *)
(*                                                                         *)
(* Sizes are bytes.  A sealed length or payload is known by the frame it   *)
(* belongs to; opening replaces it by plaintext, which does not open again *)
(* (AES-GCM checks a tag), and neither does a part of a sealed payload.    *)
(*                                                                         *)
(* Nothing bounds tun.mtu, so a packet may be larger than the arrays it    *)
(* goes through.  What is written past one of them lands in the members    *)
(* declared after it: past encryptedData in decryptedData, which every     *)
(* use fills before it reads it, and past that in the socket; past         *)
(* tun_recv_buffer in conn_recv_buffer, and past that in the key.          *)
(***************************************************************************)
EXTENDS Integers

CONSTANTS
    MTUs,       \* values of tun.mtu that a device takes
    Sizes,      \* sizes of packets the sending host's tun device hands out
    Pads        \* lengths of padding considered, within the range of the code

HeaderSize   == 52
MAX_BUFFSIZE == 1500
BufferSize   == MAX_BUFFSIZE + 500

OBF_THRESHOLD == 250
OBF_MINPADDLE == 250
OBF_MAXPADDLE == 700

\* Room for a payload in tun_recv_buffer and conn_recv_buffer.
Room == BufferSize - HeaderSize

ASSUME FramingAssumption ==
    /\ MTUs \subseteq Nat \ {0}
    /\ Sizes \subseteq Nat \ {0}
    /\ Pads \subseteq OBF_MINPADDLE .. OBF_MAXPADDLE

VARIABLES
    transport,  \* "udp" or "tcp"
    mtu,        \* MTU() of the sending and of the receiving host
    frame,      \* the frame on its way, or NoFrame
    count,      \* frames sent so far, mod 2: tells a frame from its predecessor
    buf,        \* conn_recv_buffer of the receiver, and whether the key behind it is whole
    result      \* what the last Receive returned, and for which frame

vars == <<transport, mtu, frame, count, buf, result>>

NoFrame == [id |-> 2, payload |-> 0, padding |-> 0]

\* Faulty: every payload is padded.
PaddingsAlways(n) == Pads

\* addObfuscation: a payload over the threshold goes without padding.
Paddings(n) == IF n > OBF_THRESHOLD THEN {0} ELSE Pads

\* EncryptHeader returns, and seals, the two lengths.
OriginalLen(f) == f.payload + f.padding

\* What async_send_to, or async_write, is given.
FrameSize(f) == HeaderSize + OriginalLen(f)

\* async_receive_from keeps what fits the buffer it is given.
Cut(d, room) == IF d <= room THEN d ELSE room

\* Over TCP nothing but the lengths of the frame bounds what is read.
Received(f) ==
    IF transport = "tcp" THEN FrameSize(f)
    ELSE Cut(FrameSize(f), mtu.receiver + HeaderSize)

Init ==
    /\ transport \in {"udp", "tcp"}
    /\ mtu \in [sender : MTUs, receiver : MTUs]
    /\ frame = NoFrame
    /\ count = 0
    /\ buf = [lengths |-> "none", frame |-> NoFrame, bytes |-> 0, key |-> "whole"]
    /\ result = [returned |-> 0, from |-> "none", opened |-> NoFrame, key |-> "whole"]

\* encryptedData and decryptedData hold the payload; else the socket is overwritten.
Seals(n) == n <= 2 * MAX_BUFFSIZE

\* tun->Read, EncryptPayload with addObfuscation, EncryptHeader, and the write.
Send ==
    /\ frame = NoFrame
    /\ \E n \in Sizes :
          /\ n <= mtu.sender
          /\ \E p \in Paddings(n) :
                frame' = IF Seals(n) THEN [id |-> count, payload |-> n, padding |-> p]
                         ELSE NoFrame
    /\ count' = 1 - count
    /\ UNCHANGED <<transport, mtu, buf, result>>

\* DecryptHeader opens the lengths of b in place and returns their sum, or 0.
HeaderOpens(b) == b.key = "whole" /\ b.lengths = "sealed" /\ b.bytes >= HeaderSize

\* Faulty: the lengths are opened beside the buffer.
OpenedBeside(b) == b

Opened(b) == IF HeaderOpens(b) THEN [b EXCEPT !.lengths = "plain"] ELSE b

\* Faulty: one byte is taken for missing.
PayloadOpensShort(b) ==
    /\ b.frame.payload <= MAX_BUFFSIZE
    /\ HeaderSize + b.frame.payload < b.bytes

\* DecryptPayload: the payload, as long as the lengths say, is all there.
PayloadOpens(b) ==
    /\ b.frame.payload <= MAX_BUFFSIZE
    /\ HeaderSize + b.frame.payload <= b.bytes

\* Faulty: an error of its own for a header that does not open.
ReturnedMinusOne(b) ==
    IF ~HeaderOpens(b) THEN -1
    ELSE IF PayloadOpens(b) THEN b.frame.payload ELSE 0

Returned(b) ==
    IF HeaderOpens(b) /\ OriginalLen(b.frame) # 0 /\ PayloadOpens(b)
    THEN b.frame.payload ELSE 0

\* Receive, once it has left b in the buffer.
Open(b, from) ==
    /\ buf' = Opened(b)
    /\ result' = [returned |-> Returned(b), from |-> from, opened |-> b.frame,
                   key |-> b.key]

\* A frame in the buffer.  Over TCP the key goes with the payload, after the
\* lengths have been opened; DecryptPayload refuses so long a payload anyhow.
Filled(f) ==
    [lengths |-> "sealed", frame |-> f, bytes |-> Received(f),
     key |-> IF Received(f) <= BufferSize THEN buf.key ELSE "lost"]

Deliver ==
    /\ frame # NoFrame
    /\ Open(Filled(frame), "frame")
    /\ frame' = NoFrame
    /\ UNCHANGED <<transport, mtu, count>>

\* Also with the connection: the loop then ends without a look at what it read.
Lose ==
    /\ frame # NoFrame
    /\ frame' = NoFrame
    /\ UNCHANGED <<transport, mtu, count, buf, result>>

\* A datagram without a payload, or the end of the stream: the buffer is as it was.
DeliverEmpty ==
    /\ Open(buf, "empty")
    /\ UNCHANGED <<transport, mtu, frame, count>>

\* Something is written over the start of the buffer, and up to the key if k is "lost".
Overwritten(k) ==
    [lengths |-> "none", frame |-> buf.frame, bytes |-> buf.bytes, key |-> k]

\* What is no frame, or sealed with another key: NONCE, at least, is overwritten,
\* and by a datagram as much as the MTU lets in.
DeliverOther ==
    /\ \E k \in {buf.key, "lost"} :
          /\ k # buf.key => transport = "udp" /\ mtu.receiver > Room
          /\ Open(Overwritten(k), "other")
    /\ UNCHANGED <<transport, mtu, frame, count>>

\* The receiver's own tun->Read runs on into conn_recv_buffer, or through it; a
\* frame that TCP has brought half of is spoiled.
TunSpills ==
    /\ mtu.receiver > Room
    /\ \E k \in {buf.key, "lost"} :
          /\ k # buf.key => mtu.receiver > Room + BufferSize
          /\ buf' = Overwritten(k)
    /\ frame' \in IF transport = "tcp" THEN {frame, NoFrame} ELSE {frame}
    /\ UNCHANGED <<transport, mtu, count, result>>

Next == Send \/ Deliver \/ Lose \/ DeliverEmpty \/ DeliverOther \/ TunSpills

Spec == Init /\ [][Next]_vars

-----------------------------------------------------------------------------
Frames == [id : 0 .. 2, payload : Nat, padding : 0 .. OBF_MAXPADDLE]

TypeOK ==
    /\ transport \in {"udp", "tcp"}
    /\ mtu \in [sender : MTUs, receiver : MTUs]
    /\ frame \in Frames
    /\ count \in 0 .. 1
    /\ buf \in [lengths : {"none", "sealed", "plain"}, frame : Frames, bytes : Nat,
               key : {"whole", "lost"}]
    /\ result \in [returned : 0 .. MAX_BUFFSIZE, from : {"none", "frame", "empty", "other"},
                   opened : Frames, key : {"whole", "lost"}]

\* No sum of lengths is the 0 by which DecryptHeader says that it failed.  Padding
\* takes no frame past the end of the buffer it is built in (tun_recv_buffer, from
\* its start): only a packet does that for which alone there is no room.  And what
\* is received does not reach the key unless the MTU that bounds it lets in more
\* than that room: over UDP the receiver's own, over TCP, where Receive reads what
\* the lengths say without a look at its buffer, the sender's; nor what the
\* receiver reads from its own tun, unless it runs through both buffers.
FrameFits ==
    /\ frame # NoFrame =>
          /\ OriginalLen(frame) > 0
          /\ FrameSize(frame) > BufferSize => frame.payload > Room
    /\ buf.key = "lost" =>
          \/ Room < IF transport = "udp" THEN mtu.receiver ELSE mtu.sender
          \/ Room + BufferSize < mtu.receiver

\* A packet comes out in full or not at all.  It does exactly if it is no longer
\* than MAX_BUFFSIZE, whatever the two MTUs, and, over UDP, fits the receiver's
\* MTU, even when the datagram was cut short in its padding; and if nothing has
\* overwritten the receiver's key.
WholeOrNothing ==
    result.from = "frame" =>
        result.returned =
            IF /\ result.opened.payload <= MAX_BUFFSIZE
               /\ transport = "udp" => result.opened.payload <= mtu.receiver
               /\ result.key = "whole"
            THEN result.opened.payload ELSE 0

\* What is no frame brings out nothing: not even the packet that the
\* buffer still holds.
StaleNeverOpens == result.from \in {"empty", "other"} => result.returned = 0
=============================================================================
