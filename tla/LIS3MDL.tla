------------------------------- MODULE LIS3MDL -------------------------------
(***************************************************************************)
(* The LIS3MDL magnetometer: the fields of its registers, the setters and  *)
(* getters of the C driver, and the class LIS3MDL, which uses the register *)
(* layouts of the C driver but CALLs the I2C bus itself.  The repository   *)
(* gives the C driver no callbacks: its transfers happen or fail.          *)
(***************************************************************************)
EXTENDS RegisterScripts

\* The bit fields of the header; bits it calls not_used are left out.
LIS3MDL_Fields ==
         Flags("CTRL_REG1", {0, 7}) \cup Entries("CTRL_REG1", {1 .. 6})
    \cup Flags("CTRL_REG2", {2, 3}) \cup Entries("CTRL_REG2", {5 .. 6})
    \cup Entries("CTRL_REG3", {0 .. 1}) \cup Flags("CTRL_REG3", {2, 5})
    \cup Flags("CTRL_REG4", {1}) \cup Entries("CTRL_REG4", {2 .. 3})
    \cup Flags("CTRL_REG5", {6, 7}) \cup Flags("STATUS_REG", Bits)
    \cup Flags("INT_CFG", {0, 1, 2, 5, 6, 7}) \cup Flags("INT_SRC", Bits)
    \cup Entries("INT_THS_L", {Bits}) \cup Entries("INT_THS_H", {Bits})

LIS3MDL_RateCodes == {1, 17, 33, 49} \cup {16 * k + 2 * n : k \in 0 .. 3, n \in 1 .. 7} \cup {0}
LIS3MDL_Rates ==
    [data_rate |->
        [Setting(<<{Piece("CTRL_REG1", 1, 6, 0)}, {Piece("CTRL_REG4", 2, 2, 4)}>>,
                 Codes(LIS3MDL_RateCodes), Code(62)) EXCEPT !.back = {Piece("CTRL_REG1", 1, 6, 0)}]]
LIS3MDL_Modes ==
    [temperature_meas |-> Flag("CTRL_REG1", 7), full_scale |-> Field("CTRL_REG2", 5, 2, 0 .. 3),
     operating_mode |-> Field("CTRL_REG3", 0, 2, 0 .. 2)]
LIS3MDL_Updates ==
    [fast_low_power |-> Flag("CTRL_REG3", 5), block_data_update |-> Flag("CTRL_REG5", 6),
     high_part_cycle |-> Flag("CTRL_REG5", 7)]
LIS3MDL_Common ==
    [mag_data_ready |-> Reading({"STATUS_REG"}), mag_data_ovr |-> Reading({"STATUS_REG"}),
     magnetic_raw |-> Reading({"OUT_X_L"}), temperature_raw |-> Reading({"TEMP_OUT_L"}),
     device_id |-> Reading({"WHO_AM_I"}), self_test |-> Flag("CTRL_REG1", 0)]
LIS3MDL_Resets ==
    [reset |-> Flag("CTRL_REG2", 2), boot |-> Flag("CTRL_REG2", 3),
     data_format |-> Flag("CTRL_REG4", 1), status |-> Reading({"STATUS_REG"})]
LIS3MDL_Interrupts ==
    [int_config |-> RawByte("INT_CFG"), int_generation |-> Flag("INT_CFG", 0),
     int_notification_mode |-> Flag("INT_CFG", 1)]
LIS3MDL_Axes ==
    [int_polarity |-> Flag("INT_CFG", 2), int_on_z_ax |-> Flag("INT_CFG", 5),
     int_on_y_ax |-> Flag("INT_CFG", 6)]
LIS3MDL_Events ==
    [int_on_x_ax |-> Flag("INT_CFG", 7)]
    @@ [m \in {"int_source", "interrupt_event_flag", "int_mag_over_range_flag", "int_neg_z_flag",
               "int_neg_y_flag", "int_neg_x_flag"} |-> Reading({"INT_SRC"})]
LIS3MDL_Threshold ==
    [m \in {"int_pos_z_flag", "int_pos_y_flag", "int_pos_x_flag"} |-> Reading({"INT_SRC"})]
    @@ [int_threshold |->
        [Method([v \in Patterns(0 .. 15) |->
                    <<Transfer("write",
                        ("INT_THS_L" :> [mask |-> Bits, bits |-> v \cap Bits])
                        @@ ("INT_THS_H" :> [mask |-> Bits, bits |-> {b - 8 : b \in v \ Bits}]), "pointer")>>])
         EXCEPT !.back = {Piece("INT_THS_L", 0, 8, 0), Piece("INT_THS_H", 0, 8, 8)},
                !.known = Patterns(0 .. 15)]]
LIS3MDL_Serial == [spi_mode |-> Flag("CTRL_REG3", 2)]
LIS3MDL_Functions ==
    LIS3MDL_Rates @@ LIS3MDL_Modes @@ LIS3MDL_Updates @@ LIS3MDL_Common @@ LIS3MDL_Resets
    @@ LIS3MDL_Interrupts @@ LIS3MDL_Axes @@ LIS3MDL_Events @@ LIS3MDL_Threshold @@ LIS3MDL_Serial

\* Fields do not overlap, and no setting takes a part of one.
ASSUME LIS3MDL_FieldsApart ==
    /\ \A e, f \in LIS3MDL_Fields : ~Overlap(e, f)
    /\ MadeOf(LIS3MDL_Fields, [m \in DOMAIN LIS3MDL_Functions \ {"int_config"} |-> LIS3MDL_Functions[m]])

-----------------------------------------------------------------------------
(* The class LIS3MDL.                                                      *)
SetField(reg, lo, width, v) == Change(reg, lo .. lo + width - 1, {b + lo : b \in v \cap 0 .. width - 1}, "const")
\* setDataRate reads both registers before it writes them, and puts the low
\* bits of the code in omz, where the C driver puts its bits 4 and 5.
LIS3MDL_SetDataRate(v) ==
    LET first == SetField("CTRL_REG1", 1, 6, v)
        second == SetField("CTRL_REG4", 2, 2, v)
    IN  <<first[1], second[1], first[2], second[2]>>
\* setBlockDataUpdate changes the bit of CTRL_REG5 in CTRL_REG4.
LIS3MDL_SetBlockDataUpdate(v) == SetField("CTRL_REG4", 6, 1, v)
LIS3MDL_SetFullScale(v) == SetField("CTRL_REG2", 5, 2, v)
LIS3MDL_SetTempMeas(v) == SetField("CTRL_REG1", 7, 1, v)
LIS3MDL_SetOperatingMode(v) == SetField("CTRL_REG3", 0, 2, v)
LIS3MDL_Init ==
    <<Expect("WHO_AM_I", Bits, Code(61)), Read({"CTRL_REG2"})>>
    \o LIS3MDL_SetBlockDataUpdate({0}) \o LIS3MDL_SetDataRate(Code(46))
    \o LIS3MDL_SetFullScale(Code(3)) \o LIS3MDL_SetTempMeas({0}) \o LIS3MDL_SetOperatingMode({})

OneBit == {{}, {0}}
\* The address of a parameter: a resumed call has another.
LIS3MDL_PutByte(reg, codes) == Method([v \in codes |-> Put(reg, v, "pointer")])
LIS3MDL_Settings ==
    [setDataRate |-> Method([v \in Codes(LIS3MDL_RateCodes) |-> LIS3MDL_SetDataRate(v)]),
     setTempMeas |-> Method([v \in OneBit |-> LIS3MDL_SetTempMeas(v)]),
     setFullScale |-> Method([v \in Codes(0 .. 3) |-> LIS3MDL_SetFullScale(v)]),
     setOperatingMode |-> Method([v \in Codes(0 .. 2) |-> LIS3MDL_SetOperatingMode(v)]),
     setPowerMode |-> Method([v \in OneBit |-> SetField("CTRL_REG3", 5, 1, v)]),
     setBlockDataUpdate |-> Method([v \in OneBit |-> LIS3MDL_SetBlockDataUpdate(v)]),
     setHighPartCycle |-> Method([v \in OneBit |->
        Put("CTRL_REG5", v, "pointer") \o (IF v = {} THEN <<Read({"CTRL_REG5"})>> ELSE << >>)])]
LIS3MDL_Data ==
    [getRawData |-> Reading({"OUT_X_L"}), getRawMagnetic |-> Reading({"OUT_X_L"}),
     getRawTemp |-> Reading({"TEMP_OUT_L"})]
\* reset, reboot and setDataEndianness read the register and write nothing.
LIS3MDL_Rest ==
    [reset |-> Reading({"CTRL_REG2"}), reboot |-> Reading({"CTRL_REG2"}),
     setDataEndianness |->
        [Method([v \in OneBit |-> <<Read({"CTRL_REG4"})>>]) EXCEPT
            !.back = {Piece("CTRL_REG4", 1, 1, 0)}, !.known = OneBit],
     setConfig |-> LIS3MDL_PutByte("INT_CFG", Patterns(Bits)),
     enableInterrupt |-> LIS3MDL_PutByte("INT_CFG", OneBit),
     setInterruptNotifications |-> LIS3MDL_PutByte("INT_SRC", OneBit),
     setInterruptPolarity |-> LIS3MDL_PutByte("INT_CFG", OneBit),
     getStatus |-> Reading({"STATUS_REG"})]
LIS3MDL_Calls ==
    CallsOf("LIS3MDL C", "call", LIS3MDL_Functions, << >>, {})
    \cup CallsOf("LIS3MDL", "call",
                 ("init" :> Once(LIS3MDL_Init)) @@ LIS3MDL_Data @@ LIS3MDL_Settings @@ LIS3MDL_Rest,
                 "WHO_AM_I" :> Code(61), {"setDataEndianness"} \X OneBit)
=============================================================================
