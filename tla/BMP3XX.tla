-------------------------------- MODULE BMP3XX --------------------------------
(***************************************************************************)
(* The BMP3XX barometer, which CALLs the I2C bus.  The driver keeps the    *)
(* settings it wants in a struct; a selection of bits says which of them a *)
(* call writes.  The struct is as initSettings fills it, its only writer   *)
(* besides the parsing of what the chip holds.                             *)
(***************************************************************************)
EXTENDS RegisterScripts

\* The masks of the header that the driver uses.
BMP3_Fields ==
         Entries("PWR_CTRL", {4 .. 5}) \cup Flags("PWR_CTRL", {0, 1})
    \cup Entries("CONFIG", {1 .. 3}) \cup Entries("ODR", {0 .. 4})
    \cup Entries("OSR", {0 .. 2, 3 .. 5}) \cup Flags("INT_CTRL", {0, 1, 2, 6})
    \cup Flags("IF_CONF", {1, 2})

\* The field each selection bit stands for, and what initSettings puts there:
\* 2x oversampling, 100 Hz, no filter, the sensors and data ready enabled.
BMP3_Setting(reg, lo, width, value) ==
    [piece |-> Piece(reg, lo, width, 0), value |-> Code(value)]
BMP3_Selection ==
       (1 :> BMP3_Setting("PWR_CTRL", 0, 1, 1)) @@ (2 :> BMP3_Setting("PWR_CTRL", 1, 1, 1))
    @@ (3 :> BMP3_Setting("INT_CTRL", 6, 1, 1))
    @@ (4 :> BMP3_Setting("OSR", 0, 3, 1)) @@ (5 :> BMP3_Setting("OSR", 3, 3, 1))
    @@ (6 :> BMP3_Setting("CONFIG", 1, 3, 0)) @@ (7 :> BMP3_Setting("ODR", 0, 5, 1))
    @@ (8 :> BMP3_Setting("INT_CTRL", 0, 1, 0)) @@ (9 :> BMP3_Setting("INT_CTRL", 1, 1, 0))
    @@ (10 :> BMP3_Setting("INT_CTRL", 2, 1, 0))
    @@ (11 :> BMP3_Setting("IF_CONF", 1, 1, 0)) @@ (12 :> BMP3_Setting("IF_CONF", 2, 1, 0))
BMP3_Normal == Code(48)

ASSUME BMP3_FieldsApart ==
    /\ \A e, f \in BMP3_Fields : ~Overlap(e, f)
    /\ \A s \in DOMAIN BMP3_Selection :
          \E f \in BMP3_Fields : f.reg = BMP3_Selection[s].piece.reg /\ f.bits = BMP3_Selection[s].piece.bits

-----------------------------------------------------------------------------
Selected(sel, r) == {BMP3_Selection[s] : s \in {s \in sel : BMP3_Selection[s].piece.reg = r}}
\* The selected settings of the registers R, in one write.
BMP3_WriteSettings(sel, R, source) ==
    Transfer("write",
             [r \in R |-> [mask |-> UNION {s.piece.bits : s \in Selected(sel, r)},
                           bits |-> UNION {Held(s.piece, s.value) : s \in Selected(sel, r)}]],
             source)
BMP3_Group(sel, r) ==
    IF Selected(sel, r) = {} THEN << >>
    ELSE <<Read({r}), BMP3_WriteSettings(sel, {r}, "const")>>

\* Does a measurement of both sensors end before the next is due?  In
\* microseconds; odr halves the rate of 200 Hz.
ValidateOsrOdr(press_os, temp_os, odr) ==
    234 + (392 + 2000 * 2^press_os) + (313 + 2000 * 2^temp_os) < 5000 * 2^odr
\* The registers OSR, ODR and CONFIG are read together; those selected are
\* written together, from a buffer on the stack.
BMP3_SetODRFilter(sel) ==
    LET R == {r \in {"OSR", "ODR", "CONFIG"} : Selected(sel, r) # {}}
    IN  IF R = {} THEN << >>
        ELSE <<Read({"OSR", "ODR", "CONFIG"}),
               IF ValidateOsrOdr(1, 1, 1) THEN BMP3_WriteSettings(sel, R, "pointer") ELSE Fail>>
SetSensorSettings(sel) ==
    BMP3_Group(sel, "PWR_CTRL") \o BMP3_SetODRFilter(sel)
    \o BMP3_Group(sel, "INT_CTRL") \o BMP3_Group(sel, "IF_CONF")

BMP3_Mode(mode) == Change("PWR_CTRL", 4 .. 5, mode, "const")
\* Normal mode first reads the settings of the chip, and fails if they are not
\* valid; then it fails if the chip reports a command error.
SetNormalMode(valid) ==
    <<Read({"OSR", "ODR", "CONFIG"})>>
    \o (IF valid THEN BMP3_Mode(BMP3_Normal) \o <<Expect("ERR", {1}, {})>> ELSE <<Fail>>)
\* A chip that is not asleep is put to sleep first.
BMP3_OperatingMode(asleep, valid) ==
    <<Read({"PWR_CTRL"})>> \o (IF asleep THEN << >> ELSE BMP3_Mode({})) \o SetNormalMode(valid)
\* A chip that is not ready is not reset, and that is a success.  Of the error
\* register every bit of 0x7E counts, the address of CMD.
SoftReset(ready) ==
    <<Read({"SENS_STATUS"})>>
    \o (IF ready THEN Put("CMD", Code(182), "const") \o <<Expect("ERR", Code(126), {})>> ELSE << >>)

InitSelection == {1, 2, 3, 4, 5, 7}
BMP3_Init(ready, asleep, valid) ==
    <<Expect("CHIP_ID", Bits, Code(80))>> \o SoftReset(ready) \o <<Read({"CALIB_DATA"})>>
    \o SetSensorSettings(InitSelection) \o BMP3_OperatingMode(asleep, valid)

\* Bit 0, 1 and 2 of an argument here: the chip is ready, asleep, its settings
\* are valid; or, for the data, the uninitialised result is RET_SUCCESS.
BMP3_Methods ==
    [init |-> Method([v \in SUBSET (0 .. 2) |-> BMP3_Init(0 \in v, 1 \in v, 2 \in v)]),
     setSensorSettings |->
        Method([sel \in {InitSelection} \cup {{s} : s \in 1 .. 12} \cup {1 .. 12, {4, 6}, {6, 7}} |->
                SetSensorSettings(sel)]),
     setOperatingMode |-> Method([v \in SUBSET (1 .. 2) |-> BMP3_OperatingMode(1 \in v, 2 \in v)]),
     sleep |-> Once(BMP3_Mode({})),
     setNormalMode |-> Method([v \in SUBSET {2} |-> SetNormalMode(2 \in v)]),
     validateNormalModeSettings |->
        Method([v \in SUBSET {2} |->
                <<Read({"OSR", "ODR", "CONFIG"})>> \o (IF v = {} THEN <<Fail>> ELSE << >>)]),
     writePowerMode |-> Once(BMP3_Mode(BMP3_Normal)),
     getODRFilterSettings |-> Reading({"OSR", "ODR", "CONFIG"}),
     getPressureAndTemp |->
        Method([v \in SUBSET {0} |-> <<Read({"DATA"})>> \o (IF v = {} THEN <<Fail>> ELSE << >>)]),
     getSensorStatus |-> Once(<<Read({"SENS_STATUS"}), Read({"EVENT"})>>),
     getIntStatus |-> Reading({"INT_STATUS"}), getErrStatus |-> Reading({"ERR"}),
     getStatus |-> Once(<<Read({"SENS_STATUS"}), Read({"EVENT"}), Read({"INT_STATUS"}), Read({"ERR"})>>)]
BMP3_Calls ==
    CallsOf("BMP3XX", "call", BMP3_Methods, ("CHIP_ID" :> Code(80)) @@ ("ERR" :> {}), {})
=============================================================================
