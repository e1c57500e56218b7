---------------------------- MODULE SerialFrames ----------------------------
(***************************************************************************)
(* Frames on a serial line: the SLIP encoder of the sender, the receive    *)
(* interrupt that pushes each byte into the UART's ring buffer, and the    *)
(* poll that reads one byte at a time into the SLIP decoder.  The          *)
(* interrupt may come between any two steps of the poll's pop.             *)
(*                                                                         *)
(* A frame that the encoder would write past the end of its buffer is not  *)
(* among Payloads (slip.h:74).  After a slip (a byte overwritten before it *)
(* was read, a frame the decoder has no room for) nothing is followed: the *)
(* decoder takes each end of a frame for a start from there on.            *)
(***************************************************************************)
EXTENDS Integers, Sequences, SequencesExt

CONSTANTS Payloads,      \* the sequences of bytes a sender may frame
          MaxSends,      \* bound on the frames sent
          RingSize,      \* capacity of the UART's ring buffer
          EncoderSize, DecoderSize

\* Any byte, "X", and those that mean something on the line.
Octets == {"X", "END", "ESC", "ESC_END", "ESC_ESC"}
ASSUME SerialAssumption ==
    RingSize \in Nat \ {0} /\ \A data \in Payloads : data \in Seq(Octets)

VARIABLES sent,          \* history: the payloads put on the line
          line,          \* the bytes on the line
          ring,          \* the RingBuffer: m_buff, m_head, m_tail, m_len
          unread,        \* history: how many bytes of the ring are unread
          reader,        \* where the poll's read is, and what it holds
          decoder,       \* the SLIP decoder: m_parsing, m_escape, data
          decoded,       \* history: the frames the decoder returned
          slipped
serialVars == <<sent, line, ring, unread, reader, decoder, decoded, slipped>>

\* Mutant: the end byte of a payload goes through as it is.
EscapedEscOnly(b) == IF b = "ESC" THEN <<"ESC", "ESC_ESC">> ELSE <<b>>
Escaped(b) ==
    CASE b = "END" -> <<"ESC", "ESC_END">>
      [] b = "ESC" -> <<"ESC", "ESC_ESC">>
      [] OTHER -> <<b>>
Body(data) == FlattenSeq([k \in DOMAIN data |-> Escaped(data[k])])
Encode(data) == <<"END">> \o Body(data) \o <<"END">>
TooFull(data) == data # <<>> /\ Len(Body(Front(data))) + 1 >= EncoderSize - 1

Idle == [at |-> "idle", byte |-> "X", len |-> 0]

SerialInit ==
    /\ sent = <<>> /\ line = <<>> /\ decoded = <<>> /\ unread = 0 /\ slipped = FALSE
    /\ ring = [buff |-> [k \in 0..RingSize-1 |-> "X"], head |-> 0, tail |-> 0, len |-> 0]
    /\ reader = Idle
    /\ decoder = [parsing |-> FALSE, escape |-> FALSE, data |-> <<>>]

\* The device writes the encoded frame, or returns an error when the
\* encoder has no room for it.
Send ==
    /\ ~slipped /\ Len(sent) < MaxSends
    /\ \E data \in Payloads :
         /\ ~TooFull(data)
         /\ sent' = Append(sent, data)
         /\ line' = line \o Encode(data)
    /\ UNCHANGED <<ring, unread, reader, decoder, decoded, slipped>>

Pushed(r, b) ==
    [buff |-> [r.buff EXCEPT ![r.tail] = b],
     head |-> IF r.len + 1 > RingSize THEN (r.tail + 1) % RingSize ELSE r.head,
     tail |-> (r.tail + 1) % RingSize,
     len |-> IF r.len + 1 > RingSize THEN r.len ELSE r.len + 1]

\* callback(RX_NUM).  It wakes m_blocked only when that is -1: a reader that
\* has blocked sleeps on.
ReceiveByte ==
    /\ ~slipped /\ line # <<>>
    /\ line' = Tail(line)
    /\ ring' = Pushed(ring, Head(line))
    /\ unread' = unread + 1
    /\ slipped' = (unread = RingSize)
    /\ UNCHANGED <<sent, reader, decoder, decoded>>

\* HAL_UARTDevice::read: wait returns at once or blocks.
ReadByte ==
    /\ ~slipped /\ reader.at = "idle" /\ ring.len >= 1
    /\ reader' = [Idle EXCEPT !.at = "popping"]
    /\ UNCHANGED <<sent, line, ring, unread, decoder, decoded, slipped>>
ReadBlocks ==
    /\ ~slipped /\ reader.at = "idle" /\ ring.len = 0
    /\ reader' = [Idle EXCEPT !.at = "blocked"]
    /\ UNCHANGED <<sent, line, ring, unread, decoder, decoded, slipped>>

\* RingBuffer::pop of one byte; m_len -= i is a load and a store.
TakeByte ==
    /\ ~slipped /\ reader.at = "popping"
    /\ reader' = [reader EXCEPT !.at = "taken", !.byte = ring.buff[ring.head]]
    /\ ring' = [ring EXCEPT !.head = (@ + 1) % RingSize]
    /\ unread' = unread - 1
    /\ UNCHANGED <<sent, line, decoder, decoded, slipped>>
LoadLen ==
    /\ ~slipped /\ reader.at = "taken"
    /\ reader' = [reader EXCEPT !.at = "loaded", !.len = ring.len]
    /\ UNCHANGED <<sent, line, ring, unread, decoder, decoded, slipped>>
StoreLen ==
    /\ ~slipped /\ reader.at = "loaded"
    /\ reader' = [reader EXCEPT !.at = "read"]
    /\ ring' = [ring EXCEPT !.len = reader.len - 1]
    /\ UNCHANGED <<sent, line, unread, decoder, decoded, slipped>>

\* UnallocatedSLIPDecoder::push.  An escaped byte is stored as it came: the
\* byte it stands for is computed and not used (slip.h:183).
Unescaped(b) == b
NoRoom(d, b) == b \notin {"END", "ESC"} /\ Len(d.data) = DecoderSize
Decoded(d, b) ==
    CASE ~d.parsing /\ b = "END" -> [parsing |-> TRUE, escape |-> FALSE, data |-> <<>>]
      [] d.parsing /\ b = "END" -> [d EXCEPT !.parsing = FALSE]
      [] b = "ESC" -> [d EXCEPT !.escape = TRUE]
      [] NoRoom(d, b) -> [d EXCEPT !.parsing = FALSE, !.escape = FALSE]
      [] OTHER -> [d EXCEPT !.data = Append(@, Unescaped(b)), !.escape = FALSE]
Complete(d, b) == d.parsing /\ b = "END"

DecodeByte ==
    /\ ~slipped /\ reader.at = "read"
    /\ decoder' = Decoded(decoder, reader.byte)
    /\ decoded' = IF Complete(decoder, reader.byte) THEN Append(decoded, decoder.data) ELSE decoded
    /\ slipped' = NoRoom(decoder, reader.byte)
    /\ reader' = Idle
    /\ UNCHANGED <<sent, line, ring, unread>>

SerialNext == Send \/ ReceiveByte \/ ReadByte \/ ReadBlocks \/ TakeByte \/ LoadLen
              \/ StoreLen \/ DecodeByte
SerialSpec == SerialInit /\ [][SerialNext]_serialVars

-----------------------------------------------------------------------------
\* What the decoder returns for a payload: slip.h:183 stores the byte that
\* stood for an END or an ESC on the line, not the END or the ESC.
Stored(data) ==
    [k \in DOMAIN data |-> CASE data[k] = "END" -> "ESC_END"
                             [] data[k] = "ESC" -> "ESC_ESC"
                             [] OTHER -> data[k]]

\* Framing: while no byte was overwritten and no frame was too large, the
\* decoder returns one frame for each payload sent, in order and of the same
\* length, and all of them once the line and the ring hold no byte; whatever
\* the bytes of a payload, and however interrupts cut into the reader's pop.
\* The frame holds what Stored says; it is the payload only if this has no END
\* and no ESC (PayloadsRestored).
FramesArrive ==
    ~slipped =>
        LET due == [k \in DOMAIN sent |-> Stored(sent[k])] IN
        /\ IsPrefix(decoded, due)
        /\ line = <<>> /\ unread = 0 /\ reader.at \in {"idle", "blocked"} => decoded = due

\* "the SLIP_END byte was escaped and should be included in the data"
\* (slip.h:162, and :167 of SLIP_ESC): the frames the decoder returns are the
\* payloads sent, in order.
PayloadsRestored == ~slipped => IsPrefix(decoded, sent)
=============================================================================
