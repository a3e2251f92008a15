----------------------------- MODULE PacketRelay -----------------------------
(***************************************************************************)
(* What the receiving half of a server-side connection promises its        *)
(* caller, whatever the transport does: a packet is handed out only if it  *)
(* arrived from a peer that holds the connection key, the packets of one   *)
(* peer connection come out in the order they were sent and at most once,  *)
(* and nothing comes out after the receive loop is over.  Packets may be   *)
(* lost.  src/connection/IConnection.h states the interface                *)
(* (ReceiveFrom: "return 0 if decrypt error, return -1 if conn error").    *)
(***************************************************************************)
EXTENDS Naturals

CONSTANTS
    Socks,      \* peer connections
    Vpn         \* those whose peer holds conn_key

VARIABLES
    arrived,    \* arrived[s]: how many packets of s have reached this host
    forwarded,  \* forwarded[s]: the last packet of s handed to the caller
    handed,     \* how many packets were handed to the caller
    down        \* the receive loop is over

relayVars == <<arrived, forwarded, handed, down>>

Init ==
    /\ arrived = [s \in Socks |-> 0]
    /\ forwarded = [s \in Socks |-> 0]
    /\ handed = 0
    /\ down = FALSE

Arrive(s) ==
    /\ arrived' = [arrived EXCEPT ![s] = @ + 1]
    /\ UNCHANGED <<forwarded, handed, down>>

\* n may skip packets that were lost, and never goes back.
Forward(s, n) ==
    /\ ~down
    /\ s \in Vpn
    /\ forwarded[s] < n
    /\ n <= arrived[s]
    /\ forwarded' = [forwarded EXCEPT ![s] = n]
    /\ handed' = handed + 1
    /\ UNCHANGED <<arrived, down>>

GoDown ==
    /\ down' = TRUE
    /\ UNCHANGED <<arrived, forwarded, handed>>

Next ==
    \/ \E s \in Socks : Arrive(s)
    \/ \E s \in Socks : \E n \in 1 .. arrived[s] : Forward(s, n)
    \/ GoDown

Spec == Init /\ [][Next]_relayVars
=============================================================================
