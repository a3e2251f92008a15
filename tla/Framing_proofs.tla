---------------------------- MODULE Framing_proofs ----------------------------
(***************************************************************************)
(* The properties of Framing for all MTUs, sizes of packets and paddings.  *)
(* Carried adds to them that what is on its way was made by Send, that no  *)
(* sealed lengths stay before a whole key, and what it takes to reach it.  *)
(***************************************************************************)
EXTENDS Framing, TLAPS

\* What it takes to reach the key behind conn_recv_buffer.
Reaches ==
    \/ Room < IF transport = "udp" THEN mtu.receiver ELSE mtu.sender
    \/ Room + BufferSize < mtu.receiver

Carried ==
    /\ frame # NoFrame =>
          /\ frame.payload \in Sizes /\ frame.payload <= mtu.sender
          /\ frame.padding \in Paddings(frame.payload)
    /\ buf.lengths = "sealed" => buf.key = "lost"
    /\ buf.key = "lost" => Reaches

\* What DecryptPayload takes and the receiver's MTU does not cut into.
Fits(f) ==
    /\ f.payload <= MAX_BUFFSIZE
    /\ transport = "udp" => f.payload <= mtu.receiver

IInv == TypeOK /\ Carried /\ WholeOrNothing /\ StaleNeverOpens

USE DEF HeaderSize, MAX_BUFFSIZE, BufferSize, Room, OBF_THRESHOLD,
        OBF_MINPADDLE, OBF_MAXPADDLE

LEMMA Ranges ==
    /\ \A n \in Sizes : n \in Nat /\ n > 0
    /\ \A p \in Pads : p \in OBF_MINPADDLE .. OBF_MAXPADDLE
    /\ \A m \in MTUs : m \in Nat /\ m > 0
BY FramingAssumption

\* Whatever is sent: at least a byte, and with padding it fits the buffer.
LEMMA PaddedSize ==
    ASSUME NEW n \in Sizes, NEW p \in Paddings(n)
    PROVE  /\ n \in Nat /\ p \in 0 .. OBF_MAXPADDLE
           /\ n + p > 0
           /\ p > 0 => HeaderSize + (n + p) <= BufferSize
<1>1. n \in Nat /\ n > 0
  BY Ranges
<1>2. CASE n > OBF_THRESHOLD
  BY <1>1, <1>2 DEF Paddings
<1>3. CASE ~(n > OBF_THRESHOLD)
  <2>1. p \in OBF_MINPADDLE .. OBF_MAXPADDLE
    BY <1>3, Ranges DEF Paddings
  <2>q. QED
    BY <1>1, <1>3, <2>1
<1>q. QED
  BY <1>1, <1>2, <1>3

\* The same of a frame.
LEMMA FrameSizes ==
    ASSUME NEW f \in Frames, f.payload \in Sizes, f.padding \in Paddings(f.payload)
    PROVE  /\ f.payload \in Nat /\ f.payload > 0
           /\ OriginalLen(f) > 0
           /\ FrameSize(f) \in Nat
           /\ HeaderSize + f.payload <= FrameSize(f)
           /\ FrameSize(f) > BufferSize => f.payload > Room
<1>1. PICK n \in Sizes : n = f.payload
  OBVIOUS
<1>2. PICK p \in Paddings(n) : p = f.padding
  BY <1>1
<1>3. /\ n \in Nat /\ n > 0 /\ p \in 0 .. OBF_MAXPADDLE
      /\ n + p > 0
      /\ p > 0 => HeaderSize + (n + p) <= BufferSize
  BY PaddedSize, Ranges
<1>4. OriginalLen(f) = n + p /\ FrameSize(f) = HeaderSize + (n + p)
  BY <1>1, <1>2 DEF OriginalLen, FrameSize
<1>5. HeaderSize + (n + p) > BufferSize => n > Room
  BY <1>3
<1>q. QED
  BY <1>1, <1>3, <1>4, <1>5

\* What is received of it opens if it fits; and only what is over the room
\* reaches the key.
LEMMA OpensIfFits ==
    ASSUME NEW f \in Frames, f.payload \in Sizes, f.payload <= mtu.sender,
           f.padding \in Paddings(f.payload), TypeOK, Carried
    PROVE  /\ Filled(f).bytes \in Nat
           /\ Filled(f).key \in {"whole", "lost"}
           /\ Filled(f).key = "lost" => Reaches
           /\ Opened(Filled(f)).lengths = "sealed" => Filled(f).key = "lost"
           /\ Opened(Filled(f)) \in [lengths : {"sealed", "plain"}, frame : {f},
                                     bytes : Nat, key : {Filled(f).key}]
           /\ Returned(Filled(f)) =
                 IF Fits(f) /\ Filled(f).key = "whole" THEN f.payload ELSE 0
<1> DEFINE b == Filled(f)
<1>1. PICK n \in Nat : n = f.payload /\ n > 0
  BY FrameSizes
<1>2. PICK d \in Nat : /\ d = FrameSize(f) /\ HeaderSize + n <= d
                       /\ d > BufferSize => n > Room
  BY <1>1, FrameSizes
<1>3. PICK m \in Nat : m = mtu.receiver /\ m > 0
  BY Ranges DEF TypeOK
<1>4. PICK s \in Nat : s = mtu.sender /\ s > 0
  BY Ranges DEF TypeOK
<1>5. OriginalLen(f) # 0
  <2>1. \A l : l > 0 => l # 0
    OBVIOUS
  <2>q. QED
    BY <2>1, FrameSizes
<1>6. Received(f) = IF transport = "tcp" THEN d ELSE Cut(d, m + HeaderSize)
  BY <1>2, <1>3 DEF Received
<1>7. /\ Received(f) \in Nat /\ Received(f) >= HeaderSize
      /\ Received(f) > BufferSize => Reaches
      /\ n <= MAX_BUFFSIZE => (HeaderSize + n <= Received(f) <=> Fits(f))
  <2>1. CASE transport = "tcp"
    <3>1. Received(f) = d
      BY <1>6, <2>1
    <3>2. d > BufferSize => Room < s
      BY <1>1, <1>2, <1>4
    <3>3. d >= HeaderSize
      BY <1>2
    <3>q. QED
      BY <1>1, <1>2, <1>4, <2>1, <3>1, <3>2, <3>3 DEF Fits, Reaches
  <2>2. CASE transport = "udp"
    <3>1. Received(f) = Cut(d, m + HeaderSize)
      BY <1>6, <2>2
    <3>2. /\ Cut(d, m + HeaderSize) \in Nat /\ Cut(d, m + HeaderSize) >= HeaderSize
          /\ Cut(d, m + HeaderSize) > BufferSize => Room < m
          /\ HeaderSize + n <= Cut(d, m + HeaderSize) <=> n <= m
      BY <1>2 DEF Cut
    <3>q. QED
      BY <1>1, <1>3, <2>2, <3>1, <3>2 DEF Fits, Reaches
  <2>q. QED
    BY <2>1, <2>2 DEF TypeOK
<1>8. /\ b.lengths = "sealed" /\ b.frame = f /\ b.bytes = Received(f)
      /\ b.key = IF Received(f) <= BufferSize THEN buf.key ELSE "lost"
      /\ b = [lengths |-> "sealed", frame |-> f, bytes |-> b.bytes, key |-> b.key]
  BY DEF Filled
<1>9. b.key \in {"whole", "lost"} /\ (b.key = "lost" => Reaches)
  <2>1. PICK r \in Nat : r = Received(f)
    BY <1>7
  <2>2. ~(r <= BufferSize) => r > BufferSize
    OBVIOUS
  <2>q. QED
    BY <1>7, <1>8, <2>1, <2>2 DEF Carried, TypeOK
<1>10. HeaderOpens(b) <=> b.key = "whole"
  BY <1>7, <1>8 DEF HeaderOpens
<1>11. PayloadOpens(b) <=> Fits(f)
  <2>1. PICK r \in Nat : r = Received(f)
    BY <1>7
  <2>2. b.frame.payload = n /\ b.bytes = r
    BY <1>1, <1>8, <2>1
  <2>3. PayloadOpens(b) <=> n <= MAX_BUFFSIZE /\ HeaderSize + n <= r
    BY <2>2 DEF PayloadOpens
  <2>4. Fits(f) => n <= MAX_BUFFSIZE
    BY <1>1 DEF Fits
  <2>q. QED
    BY <1>7, <2>1, <2>3, <2>4
<1>12. Opened(b) = IF b.key = "whole" THEN [b EXCEPT !.lengths = "plain"] ELSE b
  BY <1>10 DEF Opened
<1>13. /\ Opened(b) = [lengths |-> IF b.key = "whole" THEN "plain" ELSE "sealed", frame |-> f,
                       bytes |-> b.bytes, key |-> b.key]
  <2> HIDE DEF b
  <2>q. QED
    BY <1>8, <1>12
<1>14. b.bytes \in Nat
  BY <1>7, <1>8
<1>15. Returned(b) = IF Fits(f) /\ b.key = "whole" THEN f.payload ELSE 0
  BY <1>5, <1>8, <1>10, <1>11 DEF Returned
<1>q. QED
  <2> HIDE DEF b
  <2>1. Opened(b).lengths = "sealed" => b.key = "lost"
    BY <1>9, <1>13
  <2>2. Opened(b) \in [lengths : {"sealed", "plain"}, frame : {f}, bytes : Nat,
                       key : {b.key}]
    <3>1. PICK l \in {"sealed", "plain"} :
             Opened(b) = [lengths |-> l, frame |-> f, bytes |-> b.bytes, key |-> b.key]
      BY <1>13
    <3>q. QED
      BY <1>14, <3>1
  <2>q. QED
    BY <1>9, <1>14, <1>15, <2>1, <2>2 DEF b

LEMMA InitIInv == Init => IInv
BY DEF Init, IInv, TypeOK, Carried, WholeOrNothing, StaleNeverOpens, NoFrame, Frames

LEMMA NextIInv == IInv /\ [Next]_vars => IInv'
<1> SUFFICES ASSUME IInv, [Next]_vars PROVE IInv'
  OBVIOUS
<1> USE DEF IInv
<1>1. CASE Send
  <2>0. PICK n \in Sizes : /\ n <= mtu.sender
                          /\ \E p \in Paddings(n) :
                                frame' = IF Seals(n)
                                         THEN [id |-> count, payload |-> n, padding |-> p]
                                         ELSE NoFrame
    BY <1>1 DEF Send
  <2>1. PICK p \in Paddings(n) :
                frame' = IF Seals(n) THEN [id |-> count, payload |-> n, padding |-> p]
                         ELSE NoFrame
    BY <2>0
  <2>2. frame' \in Frames
    <3>1. n \in Nat /\ p \in 0 .. OBF_MAXPADDLE
      BY PaddedSize
    <3>2. NoFrame \in Frames
      BY DEF NoFrame, Frames
    <3>q. QED
      BY <2>1, <3>1, <3>2 DEF Frames, TypeOK
  <2>3. TypeOK'
    BY <1>1, <2>2 DEF Send, TypeOK
  <2>4. Carried'
    BY <1>1, <2>0, <2>1 DEF Send, Carried, Reaches
  <2>q. QED
    BY <1>1, <2>3, <2>4 DEF Send, WholeOrNothing, StaleNeverOpens
<1>2. CASE Deliver
  <2> DEFINE b == Filled(frame)
  <2>1. /\ frame \in Frames /\ frame.payload \in Sizes /\ frame.payload <= mtu.sender
        /\ frame.padding \in Paddings(frame.payload)
    BY <1>2 DEF Deliver, Carried, TypeOK
  <2>2. /\ b.bytes \in Nat /\ b.key \in {"whole", "lost"}
        /\ b.key = "lost" => Reaches
        /\ Opened(b).lengths = "sealed" => b.key = "lost"
        /\ Opened(b) \in [lengths : {"sealed", "plain"}, frame : {frame}, bytes : Nat,
                          key : {b.key}]
        /\ Returned(b) = IF Fits(frame) /\ b.key = "whole" THEN frame.payload ELSE 0
    BY <2>1, OpensIfFits
  <2>3. /\ buf' = Opened(b)
        /\ result' = [returned |-> Returned(b), from |-> "frame", opened |-> frame,
                      key |-> b.key]
    BY <1>2 DEF Deliver, Open, Filled
  <2>4. frame' = NoFrame /\ UNCHANGED <<transport, mtu, count>>
    BY <1>2 DEF Deliver
  <2> HIDE DEF b
  <2>5. TypeOK'
    <3>1. Returned(b) \in 0 .. MAX_BUFFSIZE
      <4>1. PICK n \in Nat : n = frame.payload
        BY <2>1 DEF Frames
      <4>2. Fits(frame) => n \in 0 .. MAX_BUFFSIZE
        BY <4>1 DEF Fits
      <4>q. QED
        BY <2>2, <4>1, <4>2
    <3>2. NoFrame \in Frames
      BY DEF NoFrame, Frames
    <3>3. Opened(b) \in [lengths : {"none", "sealed", "plain"}, frame : Frames, bytes : Nat,
                         key : {"whole", "lost"}]
      BY <2>1, <2>2
    <3>q. QED
      BY <2>1, <2>2, <2>3, <2>4, <3>1, <3>2, <3>3 DEF TypeOK
  <2>6. Carried'
    <3>1. Opened(b).key = b.key
      BY <2>2
    <3>2. Reaches' <=> Reaches
      BY <2>4 DEF Reaches
    <3>q. QED
      BY <2>2, <2>3, <2>4, <3>1, <3>2 DEF Carried
  <2>7. WholeOrNothing'
    BY <2>2, <2>3, <2>4 DEF WholeOrNothing, Fits
  <2>8. StaleNeverOpens'
    BY <2>3 DEF StaleNeverOpens
  <2>q. QED
    BY <2>5, <2>6, <2>7, <2>8
<1>3. CASE Lose
  BY <1>3 DEF Lose, TypeOK, Carried, Reaches, WholeOrNothing, StaleNeverOpens, NoFrame,
              Frames
<1>4. CASE DeliverEmpty
  <2>1. ~HeaderOpens(buf)
    BY DEF HeaderOpens, Carried
  <2>q. QED
    BY <1>4, <2>1 DEF DeliverEmpty, Open, Opened, Returned, TypeOK, Carried, Reaches,
                      WholeOrNothing, StaleNeverOpens
<1>5. CASE DeliverOther
  <2>1. PICK k \in {buf.key, "lost"} :
           /\ k # buf.key => transport = "udp" /\ mtu.receiver > Room
           /\ Open(Overwritten(k), "other")
    BY <1>5 DEF DeliverOther
  <2> DEFINE b == Overwritten(k)
  <2>0. k \in {"whole", "lost"}
    BY <2>1 DEF TypeOK
  <2>2. b = [lengths |-> "none", frame |-> buf.frame, bytes |-> buf.bytes, key |-> k]
    BY DEF Overwritten
  <2>3. buf' = b /\ result' = [returned |-> 0, from |-> "other", opened |-> b.frame,
                               key |-> b.key]
    <3>1. Open(b, "other")
      BY <2>1
    <3>2. ~HeaderOpens(b)
      BY <2>2 DEF HeaderOpens
    <3>q. QED
      BY <3>1, <3>2 DEF Open, Opened, Returned
  <2>4. UNCHANGED <<transport, mtu, frame, count>>
    BY <1>5 DEF DeliverOther
  <2>5. k = "lost" => Reaches
    <3>1. PICK m \in Nat : m = mtu.receiver
      BY Ranges DEF TypeOK
    <3>2. m > Room => Room < m
      OBVIOUS
    <3>q. QED
      BY <2>1, <3>1, <3>2 DEF Reaches, Carried
  <2> HIDE DEF b
  <2>6. TypeOK'
    BY <2>0, <2>2, <2>3, <2>4 DEF TypeOK
  <2>7. Carried'
    BY <2>2, <2>3, <2>4, <2>5 DEF Carried, Reaches
  <2>q. QED
    BY <2>3, <2>6, <2>7 DEF WholeOrNothing, StaleNeverOpens
<1>6. CASE TunSpills
  <2>1. PICK k \in {buf.key, "lost"} :
           /\ k # buf.key => mtu.receiver > Room + BufferSize
           /\ buf' = Overwritten(k)
    BY <1>6 DEF TunSpills
  <2>2. frame' \in {frame, NoFrame} /\ UNCHANGED <<transport, mtu, count, result>>
    BY <1>6 DEF TunSpills
  <2>0. k \in {"whole", "lost"}
    BY <2>1 DEF TypeOK
  <2>3. buf' = [lengths |-> "none", frame |-> buf.frame, bytes |-> buf.bytes, key |-> k]
    BY <2>1 DEF Overwritten
  <2>4. k = "lost" => Reaches
    <3>1. PICK m \in Nat : m = mtu.receiver
      BY Ranges DEF TypeOK
    <3>2. m > Room + BufferSize => Room + BufferSize < m
      OBVIOUS
    <3>q. QED
      BY <2>1, <3>1, <3>2 DEF Reaches, Carried
  <2>5. TypeOK'
    <3>1. NoFrame \in Frames
      BY DEF NoFrame, Frames
    <3>q. QED
      BY <2>0, <2>2, <2>3, <3>1 DEF TypeOK
  <2>6. Carried'
    BY <2>2, <2>3, <2>4 DEF Carried, Reaches
  <2>q. QED
    BY <2>2, <2>5, <2>6 DEF WholeOrNothing, StaleNeverOpens
<1>7. CASE UNCHANGED vars
  BY <1>7 DEF vars, TypeOK, Carried, Reaches, WholeOrNothing, StaleNeverOpens
<1>q. QED
  BY <1>1, <1>2, <1>3, <1>4, <1>5, <1>6, <1>7 DEF Next

-----------------------------------------------------------------------------
\* The inductive invariant, for every MTU, size and padding.
THEOREM Invariance == Spec => []IInv
BY InitIInv, NextIInv, PTL DEF Spec

\* What Receive returns is never more than MAX_BUFFSIZE, however long the frames.
THEOREM TypeCorrect == Spec => []TypeOK
BY Invariance, PTL DEF IInv

\* Whatever the MTUs: padding takes no frame past tun_recv_buffer, its length is
\* never the 0 of DecryptHeader, and the key behind conn_recv_buffer is reached
\* only with an MTU that leaves no room for the header.
THEOREM FramesFit == Spec => []FrameFits
<1>1. IInv => FrameFits
  <2> SUFFICES ASSUME IInv PROVE FrameFits
    OBVIOUS
  <2>1. ASSUME frame # NoFrame
        PROVE  OriginalLen(frame) > 0 /\ (FrameSize(frame) > BufferSize => frame.payload > Room)
    <3>1. /\ frame \in Frames /\ frame.payload \in Sizes
          /\ frame.padding \in Paddings(frame.payload)
      BY <2>1 DEF IInv, Carried, TypeOK
    <3>q. QED
      BY <3>1, FrameSizes
  <2>q. QED
    BY <2>1 DEF FrameFits, IInv, Carried, Reaches
<1>q. QED
  BY <1>1, Invariance, PTL

\* Between hosts of any two MTUs a packet arrives whole or not at all, and one
\* longer than MAX_BUFFSIZE never arrives.
THEOREM PacketsAreWhole == Spec => []WholeOrNothing
BY Invariance, PTL DEF IInv

\* A decrypted packet does not come out of the buffer a second time.
THEOREM BufferDoesNotReplay == Spec => []StaleNeverOpens
BY Invariance, PTL DEF IInv
=============================================================================
