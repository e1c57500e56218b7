------------------------------ MODULE W5500Frames ------------------------------
(***************************************************************************)
(* How Wiznet::poll (peripherals/wiznet/wiznet.h) takes Ethernet frames    *)
(* from the W5500.  The chip keeps them one after the other in a memory:   *)
(* two bytes with the length, then the data.  The driver reads at the read *)
(* pointer Sn_RX_RD, moves it, and commits it with the command RECV; the   *)
(* chip reports how much lies behind what was committed.  Every step is a  *)
(* few bus transfers, each of which may fail.                              *)
(***************************************************************************)
EXTENDS Integers, Sequences

CONSTANTS Capacity,   \* of m_rxPacket
          Sizes,      \* of the data of the frames that arrive
          MaxFrames   \* bound: how many arrive
ASSUME FramesAssumption == Capacity \in Nat /\ Sizes \subseteq Nat \ {0} /\ MaxFrames \in Nat

VARIABLES
    frames,     \* the sizes of the frames that came in
    rd,         \* Sn_RX_RD, as a position in all that came in
    committed,  \* what RECV has freed
    pollStep,   \* what poll does next
    len,        \* the static len of poll, and val of getSn_RX_RSR
    dataLen,    \* data_len
    dataAt,     \* where the data in m_rxPacket starts
    handedUp,   \* the data passed to m_upper: [at, len]
    missed,     \* ghost: the frames whose last RECV failed
    outOfStep   \* ghost: a transfer failed with a frame half read or a command
                \* lost, and poll starts over as if it had not begun

frameVars == <<frames, rd, committed, pollStep, len, dataLen, dataAt, handedUp, missed, outOfStep>>

\* How much memory the first frames of f take, each behind its length.
Bytes(f) ==
    LET sum[n \in 0 .. Len(f)] == IF n = 0 THEN 0 ELSE sum[n - 1] + f[n] + 2 IN sum
FrameStart(i) == Bytes(frames)[i - 1]
EndOfData == Bytes(frames)[Len(frames)]
\* The length that stands at a position: of a frame if one starts there.
LengthsAt(pos) ==
    LET here == {i \in DOMAIN frames : FrameStart(i) = pos}
    IN  IF here = {} THEN Sizes ELSE {frames[i] : i \in here}

FrameInit ==
    /\ frames = << >> /\ rd = 0 /\ committed = 0
    /\ pollStep = "size" /\ len = 0 /\ dataLen = 0 /\ dataAt = 0
    /\ handedUp = << >> /\ missed = {} /\ outOfStep = FALSE

Arrive ==
    /\ Len(frames) < MaxFrames
    /\ \E n \in Sizes : frames' = Append(frames, n)
    /\ UNCHANGED <<rd, committed, pollStep, len, dataLen, dataAt, handedUp, missed, outOfStep>>

-----------------------------------------------------------------------------
\* getSn_RX_RSR reads the size until it is twice the same.  While it is 0 the
\* value it is compared with is that of the frame before: after the first
\* frame the loop goes on until the next one comes.
ReadSize ==
    /\ pollStep = "size"
    /\ EndOfData > committed
    /\ len' = EndOfData - committed
    /\ pollStep' = "header"
    /\ UNCHANGED <<frames, rd, committed, dataLen, dataAt, handedUp, missed, outOfStep>>
\* poll does not look at the error, and goes on with the length it had.
ReadSizeFails ==
    /\ pollStep = "size" /\ len > 0
    /\ pollStep' = "header"
    /\ outOfStep' = (outOfStep \/ rd = EndOfData)
    /\ UNCHANGED <<frames, rd, committed, len, dataLen, dataAt, handedUp, missed>>

\* wiz_recv_data of the two bytes, then RECV.
ReadHeader ==
    /\ pollStep = "header"
    /\ dataLen' \in LengthsAt(rd)
    /\ rd' = rd + 2
    /\ pollStep' = "commit header"
    /\ UNCHANGED <<frames, committed, len, dataAt, handedUp, missed, outOfStep>>
\* The pointer was moved, or was not.
ReadHeaderFails ==
    /\ pollStep = "header"
    /\ rd' \in {rd, rd + 2}
    /\ outOfStep' = (outOfStep \/ rd' # rd)
    /\ pollStep' = "size"
    /\ UNCHANGED <<frames, committed, len, dataLen, dataAt, handedUp, missed>>

\* Mutant: a frame that fills the packet is ignored.
TooLongToFill == dataLen >= Capacity
TooLong == dataLen > Capacity
CommitHeader ==
    /\ pollStep = "commit header"
    /\ committed' = rd
    /\ pollStep' = IF TooLong THEN "ignore" ELSE "data"
    /\ UNCHANGED <<frames, rd, len, dataLen, dataAt, handedUp, missed, outOfStep>>

ReadData ==
    /\ pollStep = "data"
    /\ dataAt' = rd
    /\ rd' = rd + dataLen
    /\ pollStep' = "commit data"
    /\ UNCHANGED <<frames, committed, len, dataLen, handedUp, missed, outOfStep>>
CommitData ==
    /\ pollStep = "commit data"
    /\ committed' = rd
    /\ handedUp' = Append(handedUp, [at |-> dataAt, len |-> dataLen])
    /\ pollStep' = "size"
    /\ UNCHANGED <<frames, rd, len, dataLen, dataAt, missed, outOfStep>>

\* wiz_recv_ignore moves the pointer over the data.
Ignore ==
    /\ pollStep = "ignore"
    /\ rd' = rd + dataLen
    /\ pollStep' = "commit ignored"
    /\ UNCHANGED <<frames, committed, len, dataLen, dataAt, handedUp, missed, outOfStep>>
CommitIgnored ==
    /\ pollStep = "commit ignored"
    /\ committed' = rd
    /\ pollStep' = "size"
    /\ UNCHANGED <<frames, rd, len, dataLen, dataAt, handedUp, missed, outOfStep>>

\* The data cannot be read or skipped: the next poll takes it for a header,
\* unless the pointer was moved already.
MoveFails ==
    /\ pollStep \in {"data", "ignore"}
    /\ rd' \in {rd, rd + dataLen}
    /\ outOfStep' = TRUE
    /\ pollStep' = "size"
    /\ UNCHANGED <<frames, committed, len, dataLen, dataAt, handedUp, missed>>

\* RECV fails: the chip has seen it or not.  If it has and the frame was read,
\* the frame is lost and nothing else.
CommitFails ==
    /\ pollStep \in {"commit header", "commit data", "commit ignored"}
    /\ committed' \in {committed, rd}
    /\ outOfStep' = (outOfStep \/ committed' # rd \/ pollStep = "commit header")
    /\ missed' = IF pollStep = "commit data" THEN missed \cup {dataAt} ELSE missed
    /\ pollStep' = "size"
    /\ UNCHANGED <<frames, rd, len, dataLen, dataAt, handedUp>>

FrameNext ==
    /\ outOfStep => pollStep # "size"   \* bound: nothing is claimed of later polls
    /\ \/ Arrive \/ ReadSize \/ ReadSizeFails \/ ReadHeader \/ ReadHeaderFails
       \/ CommitHeader \/ ReadData \/ CommitData \/ Ignore \/ CommitIgnored
       \/ MoveFails \/ CommitFails
FrameSpec == FrameInit /\ [][FrameNext]_frameVars

-----------------------------------------------------------------------------
\* The data of the first frames of f, without those that are too long for the
\* packet and those at `lost'.
Whole(f, lost) ==
    LET up[n \in 0 .. Len(f)] ==
            IF n = 0 THEN << >>
            ELSE LET at == Bytes(f)[n - 1] + 2
                 IN  IF f[n] <= Capacity /\ at \notin lost
                     THEN Append(up[n - 1], [at |-> at, len |-> f[n]]) ELSE up[n - 1]
    IN  up

\* Between two polls the read pointer stands at the start of a frame, it is
\* committed, and what was handed up is the frames before it, whole and in
\* order, without those that are too long for the packet and those whose last
\* RECV failed; whatever else failed, unless a frame was left half read.
FramesInStep ==
    pollStep = "size" /\ ~outOfStep =>
        \E k \in 0 .. Len(frames) :
            /\ rd = Bytes(frames)[k] /\ committed = rd
            /\ handedUp = Whole(frames, missed)[k]
================================================================================
