------------------------------- MODULE MCSerial -------------------------------
(* SerialFrames with payloads to escape and one that needs no escape. *)
EXTENDS SerialFrames

EscapedPayloads == {<<"X">>, <<"END">>, <<"X", "ESC">>}
===============================================================================
