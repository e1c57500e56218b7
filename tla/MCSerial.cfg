SPECIFICATION SerialSpec
CONSTANTS
    Payloads <- EscapedPayloads
    MaxSends = 2
    RingSize = 3
    EncoderSize = 6
    DecoderSize = 2
INVARIANT PayloadsRestored
CHECK_DEADLOCK FALSE
