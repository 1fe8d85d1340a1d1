------------------------------- MODULE E1000 -------------------------------
(***************************************************************************)
(* The e1000 network driver (platform/qemu/x86_64/e1000.c) and, as an      *)
(* external environment, the device that shares its two descriptor rings.  *)
(*                                                                         *)
(* A ring slot is a descriptor with its buffer.  The device works through  *)
(* the transmit ring from TDH up to, and not including, TDT, and fills the *)
(* receive ring from RDH up to, and not including, RDT; equal registers    *)
(* mean an empty ring to it.  Frames are numbered in the order in which    *)
(* send_frame accepts them and in which they arrive.                       *)
(***************************************************************************)
EXTENDS Integers, Sequences, FiniteSets

CONSTANTS
    RingCount,   \* e1000_ring_count
    MaxFrames    \* bound on the frames sent and on the frames that arrive

ASSUME RingAssumption == RingCount \in Nat \ {0, 1} /\ MaxFrames \in Nat

VARIABLES
    tx,         \* transmit slots: [done, frame]
    tx_tail,    \* the next slot send_frame fills
    tdh, tdt,   \* the device's transmit head and tail
    sending,    \* send_frame has queued a frame and polls for completion
    answered,   \* the frames for which send_frame returned 1
    sent,       \* number of frames send_frame has queued
    wire,       \* frames the device put on the wire
    rx,         \* receive slots: [status, frame]
    rx_next,    \* the slot poll_frame looks at
    rdh, rdt,   \* the device's receive head and tail
    arrived,    \* number of frames that arrived
    accepted,   \* the frames the device stored, with their kind
    delivered   \* frames poll_frame returned

txVars == <<tx, tx_tail, tdh, tdt, sending, answered, sent, wire>>
rxVars == <<rx, rx_next, rdh, rdt, arrived, accepted, delivered>>
ringVars == <<txVars, rxVars>>

RingSlots == 0 .. RingCount - 1
After(slot) == (slot + 1) % RingCount

\* A frame fits the caller's buffer, is too long for it, or spans descriptors (its
\* first descriptor has no end-of-packet mark).
FrameKinds == {"whole", "long", "part"}

\* The rings as arwill_qemu_e1000_init leaves them.
RingsInit ==
    /\ tx = [slot \in RingSlots |-> [done |-> TRUE, frame |-> 0]]
    /\ tx_tail = 0 /\ tdh = 0 /\ tdt = 0 /\ sending = FALSE
    /\ answered = {} /\ sent = 0 /\ wire = <<>>
    /\ rx = [slot \in RingSlots |-> [status |-> "empty", frame |-> 0]]
    /\ rx_next = 0 /\ rdh = 0 /\ rdt = RingCount - 1
    /\ arrived = 0 /\ accepted = <<>> /\ delivered = <<>>

-----------------------------------------------------------------------------
(***************************************************************************)
(* Transmission.                                                           *)
(***************************************************************************)
\* Wrong variant, for the mutation runs: a slot is filled whether or not the
\* device is done with it.
send_frame_unchecked(frame) ==
    /\ ~sending
    /\ tx' = [tx EXCEPT ![tx_tail] = [done |-> FALSE, frame |-> frame]]
    /\ tx_tail' = After(tx_tail)
    /\ tdt' = After(tx_tail)
    /\ sending' = TRUE
    /\ sent' = frame
    /\ UNCHANGED <<tdh, answered, wire, rxVars>>

\* send_frame up to the write of TDT; it refuses (and changes nothing) while the
\* slot at its tail is unfinished.
send_frame(frame) ==
    /\ ~sending
    /\ tx[tx_tail].done
    /\ tx' = [tx EXCEPT ![tx_tail] = [done |-> FALSE, frame |-> frame]]
    /\ tx_tail' = After(tx_tail)
    /\ tdt' = After(tx_tail)
    /\ sending' = TRUE
    /\ sent' = frame
    /\ UNCHANGED <<tdh, answered, wire, rxVars>>

\* The poll loop of send_frame sees DD in the first descriptor of the ring
\* (tx_descriptor->status, whichever slot was filled) and returns 1.
poll_transmit ==
    /\ sending
    /\ tx[0].done
    /\ sending' = FALSE
    /\ answered' = answered \cup {sent}
    /\ UNCHANGED <<tx, tx_tail, tdh, tdt, sent, wire, rxVars>>

\* The poll loop runs out: send_frame returns 0, with the frame queued.
poll_transmit_timeout ==
    /\ sending
    /\ sending' = FALSE
    /\ UNCHANGED <<tx, tx_tail, tdh, tdt, answered, sent, wire, rxVars>>

\* The device transmits the frame at its head and marks the descriptor done.
DeviceTransmit ==
    /\ tdh # tdt
    /\ wire' = Append(wire, tx[tdh].frame)
    /\ tx' = [tx EXCEPT ![tdh].done = TRUE]
    /\ tdh' = After(tdh)
    /\ UNCHANGED <<tx_tail, tdt, sending, answered, sent, rxVars>>

-----------------------------------------------------------------------------
(***************************************************************************)
(* Reception.                                                              *)
(***************************************************************************)
\* A frame arrives: the device stores it at its head, or drops it when the ring
\* has no descriptor left.
DeviceReceive(kind) ==
    /\ arrived < MaxFrames
    /\ arrived' = arrived + 1
    /\ IF rdh = rdt
       THEN UNCHANGED <<rx, rdh, accepted>>
       ELSE /\ rx' = [rx EXCEPT ![rdh] = [status |-> kind, frame |-> arrived + 1]]
            /\ rdh' = After(rdh)
            /\ accepted' = Append(accepted, [frame |-> arrived + 1, kind |-> kind])
    /\ UNCHANGED <<rx_next, rdt, delivered, txVars>>

\* Wrong variant, for the mutation runs: a bad frame is left in its slot.
poll_frame_keeps_bad ==
    /\ rx[rx_next].status = "whole"
    /\ delivered' = Append(delivered, rx[rx_next].frame)
    /\ rx' = [rx EXCEPT ![rx_next].status = "empty"]
    /\ rdt' = rx_next
    /\ rx_next' = After(rx_next)
    /\ UNCHANGED <<rdh, arrived, accepted, txVars>>

\* poll_frame: return the frame in the next slot, or discard one that is too long or
\* has no end-of-packet mark; either way the slot goes back to the device.
poll_frame ==
    /\ rx[rx_next].status # "empty"
    /\ delivered' = IF rx[rx_next].status = "whole" THEN Append(delivered, rx[rx_next].frame)
                                                    ELSE delivered
    /\ rx' = [rx EXCEPT ![rx_next].status = "empty"]
    /\ rdt' = rx_next
    /\ rx_next' = After(rx_next)
    /\ UNCHANGED <<rdh, arrived, accepted, txVars>>

RingsNext ==
    \/ sent < MaxFrames /\ send_frame(sent + 1)
    \/ poll_transmit
    \/ poll_transmit_timeout
    \/ DeviceTransmit
    \/ \E kind \in FrameKinds : DeviceReceive(kind)
    \/ poll_frame

RingsSpec == RingsInit /\ [][RingsNext]_ringVars

\* The device goes on working through its ring, and the network loop goes on
\* calling poll_frame (arwill_ipv4_poll runs on every turn of the shell loop).
RingsFairness == WF_ringVars(DeviceTransmit) /\ WF_ringVars(poll_frame)

RingsFairSpec == RingsSpec /\ RingsFairness
-----------------------------------------------------------------------------
Unfinished == {slot \in RingSlots : ~tx[slot].done}

\* The ring registers and slots are of the types the driver declares.
RingsTypeOK ==
    /\ tx \in [RingSlots -> [done : BOOLEAN, frame : 0 .. MaxFrames]]
    /\ rx \in [RingSlots -> [status : FrameKinds \cup {"empty"}, frame : 0 .. MaxFrames]]
    /\ {tx_tail, tdh, tdt, rx_next, rdh, rdt} \subseteq RingSlots
    /\ sending \in BOOLEAN /\ answered \subseteq 1 .. MaxFrames

\* Every frame send_frame queued is transmitted once and in order: what is on the
\* wire, followed by the unfinished slots from the device's head on, is exactly the
\* frames queued so far.  In particular send_frame never overwrites a buffer the
\* device has still to read.
TransmitInOrder ==
    wire \o [i \in 1 .. Cardinality(Unfinished) |-> tx[(tdh + i - 1) % RingCount].frame]
        = [i \in 1 .. sent |-> i]

\* What a return value of 1 from send_frame is worth: the frame of the same lap in
\* the first slot is on the wire, so at most RingCount - 1 frames sent before it, and
\* the frame itself, may still be waiting.
SuccessBoundsLag ==
    \A n \in answered : Len(wire) >= n - ((n - 1) % RingCount)

\* poll_frame returns the frames the device stored, in order and without loss, except
\* those that are too long or have no end-of-packet mark; the device never overwrites
\* a slot that has not been polled.
ReceiveInOrder ==
    LET whole == SelectSeq(accepted, LAMBDA a : a.kind = "whole")
        stored == SelectSeq([i \in 1 .. RingCount |-> rx[(rx_next + i - 1) % RingCount]],
                            LAMBDA s : s.status = "whole")
    IN  delivered \o [i \in DOMAIN stored |-> stored[i].frame]
            = [i \in DOMAIN whole |-> whole[i].frame]

\* Both rings of platform/qemu/x86_64/e1000.c after every step of driver and device.
FramesInOrder == RingsTypeOK /\ TransmitInOrder /\ SuccessBoundsLag /\ ReceiveInOrder

\* Neither ring gets stuck.  Every frame send_frame queued eventually leaves, unless the
\* driver has filled all RingCount slots: then TDT equals TDH, the device takes the ring
\* for empty, and send_frame refuses every later frame.  Every frame the device stored
\* that poll_frame can return is eventually returned: a discarded frame before it does
\* not block the ring.
RingsMakeProgress ==
    \A n \in 1 .. MaxFrames :
        /\ sent >= n ~> (Len(wire) >= n \/ Unfinished = RingSlots)
        /\ ([frame |-> n, kind |-> "whole"] \in {accepted[i] : i \in DOMAIN accepted})
               ~> (n \in {delivered[i] : i \in DOMAIN delivered})
=============================================================================
