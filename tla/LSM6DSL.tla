------------------------------- MODULE LSM6DSL -------------------------------
(***************************************************************************)
(* The LSM6DSL accelerometer and gyroscope: the fields its header defines  *)
(* and the methods of the driver, which CALLs the I2C bus.                 *)
(***************************************************************************)
EXTENDS RegisterScripts

\* Fields that are set, in the order of the header; Rates lists the only codes
\* of an output data rate.  Bit 2 of CTRL7_G (RND_STATUS, ROUNDING_STATUS) and
\* bit 7 of CTRL8_XL (IN_COMP, LPF2_XL) have two names each.
Rates(reg, lo, N) == {[reg |-> reg, bits |-> lo .. lo + 3, codes |-> Codes({n * 2^lo : n \in N})]}
ScaleFields == Flags("CTRL3_C", {1, 6}) \cup Flags("CTRL1_XL", {1}) \cup Flags("CTRL2_G", {1})
    \cup Entries("CTRL1_XL", {2 .. 3}) \cup Entries("CTRL2_G", {2 .. 3})
    \cup Rates("CTRL1_XL", 4, 0 .. 10) \cup Rates("CTRL2_G", 4, 0 .. 10)
FifoFields == Flags("FUNC_CFG_ACCESS", {7}) \cup Entries("SENSOR_SYNC_TIME", {0 .. 7})
    \cup Entries("SENSOR_RES_RATIO", {0 .. 1}) \cup Entries("FIFO_CTRL1", {0 .. 7})
    \cup Entries("FIFO_CTRL2", {0 .. 2}) \cup Flags("FIFO_CTRL2", {3, 6, 7})
    \cup Entries("FIFO_CTRL3", {0 .. 2, 3 .. 5}) \cup Entries("FIFO_CTRL4", {0 .. 2})
FifoModeFields == Entries("FIFO_CTRL4", {3 .. 5}) \cup Flags("FIFO_CTRL4", {6, 7})
    \cup Entries("FIFO_CTRL5", {0 .. 2}) \cup Rates("FIFO_CTRL5", 3, 1 .. 11)
    \cup Flags("DRDY_PULSE_CFG_G", {7})
Int1Fields == Flags("INT1_CTRL", Bits)
Int2Fields == Flags("INT2_CTRL", Bits)
CommonFields == Flags("CTRL3_C", {0, 2, 3, 4, 5, 7}) \cup Flags("CTRL4_C", {1, 2, 3, 5, 6})
SelfTestFields == Entries("CTRL5_C", {0 .. 1, 2 .. 3, 5 .. 7}) \cup Flags("CTRL5_C", {4})
    \cup Entries("CTRL6_G", {0 .. 1}) \cup Flags("CTRL6_G", 3 .. 7)
FilterFields == Flags("CTRL7_G", {2, 3, 6, 7}) \cup Entries("CTRL7_G", {4 .. 5})
    \cup Flags("CTRL8_XL", {0, 2, 4, 7}) \cup Entries("CTRL8_XL", {5 .. 6})
FunctionFields == Flags("CTRL8_XL", {7}) \cup Flags("CTRL9_XL", {2})
    \cup Flags("CTRL10_C", 0 .. 5) \cup Flags("MASTER_CONFIG", {0, 1})
MasterFields == Flags("MASTER_CONFIG", {2, 3, 4, 6, 7})
TapFields == Flags("TAP_CFG1", {0, 1, 2, 3, 4, 7}) \cup Flags("TAP_THS_6D", {7})
    \cup Entries("TAP_THS_6D", {0 .. 4, 5 .. 6}) \cup Entries("INT_DUR2", {0 .. 1, 2 .. 3, 4 .. 7})
WakeFields == Entries("WAKE_UP_THS", {0 .. 5}) \cup Flags("WAKE_UP_THS", {7})
    \cup Entries("WAKE_UP_DUR", {0 .. 3, 5 .. 6}) \cup Flags("WAKE_UP_DUR", {4, 7})
    \cup Entries("FREE_FALL", {0 .. 2, 3 .. 7})
Pin1Fields == Flags("MD1_CFG", Bits)
Pin2Fields == Flags("MD2_CFG", Bits)

\* Fields the chip sets and the driver can only read.
WakeStatus == Flags("WAKE_UP_SRC", 0 .. 5)
TapStatus == Flags("TAP_SRC", 0 .. 6)
SixDStatus == Flags("D6D_SRC", 0 .. 6) \cup Flags("STATUS_REG", 0 .. 2)
FifoStatus == Entries("FIFO_STATUS1", {0 .. 7}) \cup Entries("FIFO_STATUS2", {0 .. 3})
    \cup Flags("FIFO_STATUS2", 4 .. 7) \cup Entries("FIFO_STATUS3", {0 .. 7})
    \cup Entries("FIFO_STATUS4", {0 .. 1})
FunctionStatus == Flags("FUNC_SRC", Bits)

SetFields == ScaleFields \cup FifoFields \cup FifoModeFields \cup Int1Fields
    \cup Int2Fields \cup CommonFields \cup SelfTestFields \cup FilterFields
    \cup FunctionFields \cup MasterFields \cup TapFields \cup WakeFields
    \cup Pin1Fields \cup Pin2Fields
StatusFields == WakeStatus \cup TapStatus \cup SixDStatus \cup FifoStatus \cup FunctionStatus

\* The fields of a register do not overlap, so that one can be set without the
\* others, and no code of a field leaves its mask.
ASSUME FieldsApart ==
    \A e, f \in SetFields \cup StatusFields : ~Overlap(e, f) /\ \A c \in e.codes : c \subseteq e.bits

-----------------------------------------------------------------------------
\* writeReg(reg, val, mask) and readReg with a mask, for every field.
WriteReg(reg, mask, val) == Change(reg, mask, Code(val), "const")
WriteField(f) ==
    [script |-> [v \in f.codes |-> Change(f.reg, f.bits, v, "const")],
     back |-> {[reg |-> f.reg, bits |-> f.bits, shift |-> 0]},
     known |-> f.codes, default |-> {}, wins |-> {}]
ReadField(f) == Method([v \in {{}} |-> <<Read({f.reg})>>])

\* setAccelFullScale, setAccelODR and setGyroODR pass the byte they set in the
\* buffer that writeReg reads into.
AccelScale(v) == Change("CTRL1_XL", 2 .. 3, v, "buffer")
AccelRate(v) == Change("CTRL1_XL", 4 .. 7, v, "buffer")
GyroRate(v) == Change("CTRL2_G", 4 .. 7, v, "buffer")

\* setGyroFullScale(LSM6DSL_ACC_GYRO_FS_G_125dps) sets a bit of its own.
Dps125 == {1}
GyroScale(v) ==
    IF v = Dps125 THEN WriteReg("CTRL2_G", {1}, 2)
    ELSE WriteReg("CTRL2_G", {1}, 0) \o Change("CTRL2_G", 2 .. 3, v, "const")

Init_LSM6DSL ==
    <<Expect("WHO_AM_I", Bits, Code(106))>>
    \o WriteReg("CTRL3_C", {2}, 4) \o WriteReg("CTRL3_C", {6}, 64)
    \o WriteReg("FIFO_CTRL5", 0 .. 2, 0)
    \o WriteReg("CTRL2_G", 4 .. 7, 64) \o WriteReg("CTRL1_XL", 4 .. 7, 64)
    \o AccelScale(Code(4)) \o GyroScale(Code(12))
    \o <<Read({"CTRL1_XL", "CTRL2_G"})>>

\* The interrupt goes to pin 1 or 2.  Free fall falls through the cases of the
\* pins into the error of the default.
Pin1 == {0}
Pin2 == {1}
Pins == {Pin1, Pin2}
PinReg(pin) == IF pin = Pin1 THEN "MD1_CFG" ELSE "MD2_CFG"

EnableFreeFall(pin) ==
    AccelRate(Code(96)) \o WriteReg("CTRL1_XL", 2 .. 3, 0)
    \o Change("FREE_FALL", 3 .. 7, Code(48), "local")
    \o Change("WAKE_UP_DUR", 2 .. 3, {}, "local")
    \o Change("WAKE_UP_DUR", 5 .. 6, {}, "local") \o WriteReg("WAKE_UP_DUR", {4}, 0)
    \o Change("WAKE_UP_DUR", 0 .. 3, {}, "local")
    \o WriteReg("CTRL1_XL", 0 .. 2, 3) \o WriteReg("TAP_CFG1", {7}, 128)
    \o (IF pin = Pin1 THEN WriteReg("MD1_CFG", {4}, 16) ELSE << >>)
    \o WriteReg("MD2_CFG", {4}, 16)
    \o <<Fail>>
DisableFreeFall ==
    WriteReg("MD1_CFG", {4}, 0) \o WriteReg("MD2_CFG", {4}, 0)
    \o WriteReg("TAP_CFG1", {7}, 0)
    \o Change("FREE_FALL", 3 .. 7, {}, "local")
    \o Change("WAKE_UP_DUR", 2 .. 3, {}, "local")
    \o WriteReg("CTRL1_XL", 0 .. 2, 0)
EnableTilt(pin) ==
    GyroRate(Code(32)) \o GyroScale(Dps125)
    \o WriteReg("CTRL10_C", {2}, 4) \o WriteReg("CTRL10_C", {3}, 8)
    \o WriteReg(PinReg(pin), {1}, 2)
DisableTilt ==
    WriteReg("MD1_CFG", {1}, 0) \o WriteReg("MD2_CFG", {1}, 0)
    \o WriteReg("CTRL10_C", {3}, 0) \o WriteReg("CTRL10_C", {2}, 0)
Enable6D(pin) ==
    AccelRate(Code(96)) \o AccelScale({})
    \o WriteReg("TAP_THS_6D", 5 .. 6, 64) \o WriteReg("TAP_CFG1", {7}, 128)
    \o WriteReg(PinReg(pin), {2}, 4)
Disable6D ==
    WriteReg("MD1_CFG", {2}, 0) \o WriteReg("MD2_CFG", {2}, 0)
    \o WriteReg("TAP_CFG1", {7}, 0) \o WriteReg("TAP_THS_6D", 5 .. 6, 0)

PerPin(Script(_)) == Method([v \in Pins |-> Script(v)])
Scales == Codes({0, 4, 8, 12})
LSM6DSL_Methods ==
       (<<"init">> :> Once(Init_LSM6DSL))
    @@ (<<"setAccelFullScale">> :>
            [Method([v \in Scales |-> AccelScale(v)]) EXCEPT
                !.back = {Piece("CTRL1_XL", 0, 8, 0)}, !.known = Scales])
    @@ (<<"setAccelODR">> :> Method([v \in Codes({16 * n : n \in 0 .. 10}) |-> AccelRate(v)]))
    @@ (<<"setGyroFullScale">> :>
            [Method([v \in Scales \cup {Dps125} |-> GyroScale(v)]) EXCEPT
                !.back = {Piece("CTRL2_G", 1, 3, 1)}, !.known = Scales \cup {Dps125}, !.wins = Dps125])
    @@ (<<"setGyroODR">> :> Method([v \in Codes({16 * n : n \in 0 .. 10}) |-> GyroRate(v)]))
    @@ (<<"enableFreeFallDetection">> :> PerPin(EnableFreeFall))
    @@ (<<"disableFreeFallDetection">> :> Once(DisableFreeFall))
    @@ (<<"setFreeFallThreshold">> :>
            Method([v \in Codes(0 .. 7) |-> Change("FREE_FALL", 0 .. 2, v, "const")]))
    @@ (<<"enableTiltDetection">> :> PerPin(EnableTilt))
    @@ (<<"disableTiltDetection">> :> Once(DisableTilt))
    @@ (<<"enable6DOrientation">> :> PerPin(Enable6D))
    @@ (<<"disableSixDoF">> :> Once(Disable6D))
    @@ [m \in {<<"writeReg", f.reg, f.bits>> : f \in SetFields} |->
            WriteField(CHOOSE f \in SetFields : m = <<"writeReg", f.reg, f.bits>>)]
    @@ [m \in {<<"readReg", f.reg, f.bits>> : f \in StatusFields} |->
            ReadField(CHOOSE f \in StatusFields : m = <<"readReg", f.reg, f.bits>>)]

\* getAccelSens compares the whole of CTRL1_XL with the codes of the scale, so
\* a scale is read back only while every other bit of it is 0.
LSM6DSL_Unread == {<<<<"setAccelFullScale">>, v>> : v \in Scales}
LSM6DSL_Calls ==
    CallsOf("LSM6DSL", "call", LSM6DSL_Methods, "WHO_AM_I" :> Code(106), LSM6DSL_Unread)
=============================================================================
