----------------------------- MODULE MCComponents -----------------------------
(***************************************************************************)
(* The components above the scheduler, checked side by side: the part      *)
(* chosen at the start moves and the others rest, so that the behaviours   *)
(* of each are those of its own specification.                             *)
(***************************************************************************)
EXTENDS Registers, LSM6DSL, L3GD20H, LIS3MDL, BMP3XX, W5500Registers, Bus, ChainFS,
        W5500Frames, SerialFrames, UDPRouter, UDPSocket

AllCalls == LSM6DSL_Calls \cup L3GD20H_Calls \cup LIS3MDL_Calls \cup BMP3_Calls \cup W5500_Calls
\* Bytes to escape at the end and at the start, and payloads that are too
\* large for the decoder and for the encoder.
AllPayloads == {<<"X">>, <<"END">>, <<"X", "ESC">>, <<"X", "X", "X">>, <<"ESC", "END", "X">>}

VARIABLE part
\* The variables of each part; "bus" and "socket" both use the scheduler's.
Bus_ == <<semVars, busVars>>
devVars == <<part, regVars, taskVars, Bus_, fsVars, frameVars, serialVars, portVars, sockVars>>

AtRest == CHOOSE c \in Calls : TRUE
Parts == {"registers", "bus", "chain", "frames", "serial", "ports", "socket"}
DevInit ==
    /\ part \in Parts
    /\ part # "registers" => call = AtRest /\ regs = [r \in call.registers |-> {}]
    /\ part # "bus" => driver = "i2c"
    /\ RegInit /\ BusInit /\ FsInit /\ FrameInit /\ SerialInit /\ PortInit /\ SockInit
DevNext ==
    /\ UNCHANGED part
    /\ \/ /\ part = "registers" /\ RegNext
          /\ UNCHANGED <<taskVars, Bus_, fsVars, frameVars, serialVars, portVars, sockVars>>
       \/ /\ part = "bus" /\ BusNext
          /\ UNCHANGED <<regVars, fsVars, frameVars, serialVars, portVars, sockVars>>
       \/ /\ part = "chain" /\ FsNext
          /\ UNCHANGED <<regVars, taskVars, Bus_, frameVars, serialVars, portVars, sockVars>>
       \/ /\ part = "frames" /\ FrameNext
          /\ UNCHANGED <<regVars, taskVars, Bus_, fsVars, serialVars, portVars, sockVars>>
       \/ /\ part = "serial" /\ SerialNext
          /\ UNCHANGED <<regVars, taskVars, Bus_, fsVars, frameVars, portVars, sockVars>>
       \/ /\ part = "ports" /\ PortNext
          /\ UNCHANGED <<regVars, taskVars, Bus_, fsVars, frameVars, serialVars, sockVars>>
       \/ /\ part = "socket" /\ SockNext
          /\ UNCHANGED <<regVars, Bus_, fsVars, frameVars, serialVars, portVars>>
DevSpec == DevInit /\ [][DevNext]_devVars /\ BusFairness
=============================================================================
