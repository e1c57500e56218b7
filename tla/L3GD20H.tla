------------------------------- MODULE L3GD20H -------------------------------
(***************************************************************************)
(* The L3GD20H gyroscope: the fields of its registers, the setters and     *)
(* getters of the C driver, and the class that offers them.  The C driver  *)
(* reaches the bus through the callbacks of the class.                     *)
(***************************************************************************)
EXTENDS RegisterScripts

\* The bit fields of the header, as the little-endian build lays them out.
L3GD20H_ControlFields ==
         Flags("CTRL1", 0 .. 3) \cup Entries("CTRL1", {4 .. 5, 6 .. 7})
    \cup Entries("CTRL2", {0 .. 3, 4 .. 5}) \cup Flags("CTRL2", {6, 7})
    \cup Flags("CTRL3", Bits)
    \cup Flags("CTRL4", {0, 3, 6, 7}) \cup Entries("CTRL4", {1 .. 2, 4 .. 5})
    \cup Entries("CTRL5", {0 .. 1, 2 .. 3}) \cup Flags("CTRL5", 4 .. 7)
    \cup Flags("STATUS", Bits)
L3GD20H_InterruptFields ==
         Entries("FIFO_CTRL", {0 .. 4, 5 .. 7})
    \cup Entries("FIFO_SRC", {0 .. 4}) \cup Flags("FIFO_SRC", 5 .. 7)
    \cup Flags("IG_CFG", Bits) \cup Flags("IG_SRC", Bits)
    \cup Entries("IG_THS_XH", {0 .. 6}) \cup Flags("IG_THS_XH", {7})
    \cup Entries("IG_THS_YH", {0 .. 6}) \cup Flags("IG_THS_YH", {7})
    \cup Entries("IG_THS_ZH", {0 .. 6}) \cup Flags("IG_THS_ZH", {7})
    \cup UNION {Entries(r, {0 .. 7}) : r \in {"IG_THS_XL", "IG_THS_YL", "IG_THS_ZL", "REFERENCE"}}
    \cup Entries("IG_DURATION", {0 .. 6}) \cup Flags("IG_DURATION", {7})
    \cup Flags("LOW_ODR", 0 .. 5) \cup Entries("LOW_ODR", {6 .. 7})
L3GD20H_Fields == L3GD20H_ControlFields \cup L3GD20H_InterruptFields

-----------------------------------------------------------------------------
(* The setters and getters of the C driver.                                *)
L3GD20H_Data ==
    [gy_axis |-> Field("CTRL1", 0, 3, 0 .. 7),
     gy_data_rate |->
        Setting(<<{Piece("CTRL1", 3, 1, 7), Piece("CTRL1", 6, 2, 0)}, {Piece("LOW_ODR", 0, 1, 4)}>>,
                Codes({0, 144, 145, 146} \cup 128 .. 131), {})]
L3GD20H_Scale ==
    [gy_full_scale |-> [Field("CTRL4", 4, 2, 0 .. 2) EXCEPT !.known = Codes({0, 1})],
     block_data_update |-> Flag("CTRL4", 7),
     angular_rate_raw |-> Reading({"OUT_X_L"}), temperature_raw |-> Reading({"OUT_TEMP"})]
L3GD20H_Common ==
    [dev_id |-> Reading({"WHO_AM_I"}), dev_data_format |-> Flag("CTRL4", 6),
     dev_boot |-> Flag("CTRL5", 7), dev_status |-> Reading({"STATUS"}), dev_reset |-> Flag("LOW_ODR", 2)]
\* The getter also reads the data rate, which only gy_data_rate_set writes.
L3GD20H_LowPass ==
    LET codes == Codes({160, 0, 1, 16, 19, 32, 33, 34, 35, 48, 49, 51})
    IN  [gy_filter_lp_bandwidth |->
            [Setting(<<{Piece("CTRL1", 4, 2, 0)}>>, codes, {}) EXCEPT
                !.back = {Piece("CTRL1", 4, 2, 0), Piece("CTRL1", 6, 2, 4), Piece("LOW_ODR", 0, 1, 7)}]]
L3GD20H_HighPass ==
    [gy_filter_hp_bandwidth |->
        Setting(<<{Piece("CTRL2", 0, 4, 0), Piece("CTRL2", 4, 2, 4)}>>,
                Codes(0 .. 3 \cup 16 .. 19 \cup 48 .. 51), {})]
\* Both paths set hpen.
L3GD20H_Paths ==
    LET path(lo) == Setting(<<{Piece("CTRL5", lo, 2, 0), Piece("CTRL5", 4, 1, 4)}>>,
                            Codes({0, 17, 2, 18}), {})
    IN  [gy_filter_out_path |-> path(0), gy_filter_int_path |-> path(2)]
L3GD20H_Serial ==
    [gy_filter_reference |-> RawByte("REFERENCE"),
     spi_mode |-> Flag("CTRL4", 0), i2c_interface |-> Flag("LOW_ODR", 3)]
L3GD20H_Pins ==
    [pin_int2_route |-> Field("CTRL3", 0, 4, {0, 1, 2, 4, 8, 15}), pin_mode |-> Flag("CTRL3", 4)]
L3GD20H_Polarity ==
    [pin_polarity |->
        [Setting(<<{Piece("LOW_ODR", 5, 1, 0)}, {Piece("CTRL3", 5, 1, 0)}>>, {{}, {0}}, {}) EXCEPT
            !.back = {Piece("CTRL3", 5, 1, 0)}],
     pin_int1_route |-> Field("CTRL3", 6, 2, 0 .. 3),
     pin_notification |-> Flag("IG_CFG", 6)]
L3GD20H_Thresholds ==
    [pin_logic |-> Flag("IG_CFG", 7),
     gy_trshld_axis |-> Field("IG_CFG", 0, 6, {0, 1, 2, 4, 8, 16, 32, 63}),
     gy_trshld_src |-> Reading({"IG_SRC"})]
\* A threshold has 15 bits.  The getters do not put the bytes together again:
\* those of x and y divide the high byte by 256, that of z returns it alone.
Threshold(xh, xl, back) ==
    [Setting(<<{Piece(xh, 0, 7, 8)}, {Piece(xl, 0, 8, 0)}>>, Patterns(0 .. 14) \cup Codes({255}), {})
     EXCEPT !.back = {back}, !.known = SUBSET (0 .. 7)]
L3GD20H_ThresholdX ==
    [gy_trshld_x |-> Threshold("IG_THS_XH", "IG_THS_XL", Piece("IG_THS_XL", 0, 8, 0)),
     gy_trshld_mode |-> Flag("IG_THS_XH", 7)]
L3GD20H_ThresholdYZ ==
    [gy_trshld_y |-> Threshold("IG_THS_YH", "IG_THS_YL", Piece("IG_THS_YL", 0, 8, 0)),
     gy_trshld_z |-> Threshold("IG_THS_ZH", "IG_THS_ZL", Piece("IG_THS_ZH", 0, 7, 0))]
L3GD20H_MinSample ==
    [gy_trshld_min_sample |->
        [Number("IG_DURATION", 0, 7) EXCEPT
            !.script = [v \in Patterns(0 .. 6) |->
                           Change("IG_DURATION", Bits, v \cup (IF v = {} THEN {} ELSE {7}), "pointer")]]]
\* The getter does not know L3GD20H_DYNAMIC_STREAM_MODE.
L3GD20H_Fifo ==
    [fifo_stop_on_wtm |-> Flag("CTRL5", 5),
     fifo_mode |->
        [Setting(<<{Piece("FIFO_CTRL", 5, 3, 0)}, {Piece("CTRL5", 6, 1, 4)}>>,
                 Codes({0, 22, 23} \cup 17 .. 20), {}) EXCEPT !.known = @ \ Codes({22})]]
L3GD20H_FifoState ==
    [fifo_watermark |-> Number("FIFO_CTRL", 0, 5), fifo_src |-> Reading({"FIFO_SRC"}),
     fifo_data_level |-> Reading({"FIFO_SRC"}), fifo_full_flag |-> Reading({"FIFO_SRC"}),
     fifo_wtm_flag |-> Reading({"FIFO_SRC"})]
L3GD20H_SelfTest ==
    [den_mode |->
        Setting(<<{Piece("CTRL4", 3, 1, 0)}, {Piece("CTRL2", 6, 1, 2), Piece("CTRL2", 7, 1, 1)}>>,
                Codes({0, 2, 4, 5}), {}),
     gy_self_test |-> Field("CTRL4", 1, 2, {0, 1, 3}),
     gy_flag_data_ready |-> Reading({"STATUS"})]
L3GD20H_Functions ==
    L3GD20H_Data @@ L3GD20H_Scale @@ L3GD20H_Common @@ L3GD20H_LowPass @@ L3GD20H_HighPass
    @@ L3GD20H_Paths @@ L3GD20H_Serial @@ L3GD20H_Pins @@ L3GD20H_Polarity
    @@ L3GD20H_Thresholds @@ L3GD20H_ThresholdX @@ L3GD20H_ThresholdYZ @@ L3GD20H_MinSample
    @@ L3GD20H_Fifo @@ L3GD20H_FifoState @@ L3GD20H_SelfTest

\* Fields do not overlap, and no setting takes a part of one.
ASSUME L3GD20H_FieldsApart ==
    /\ \A e, f \in L3GD20H_Fields : ~Overlap(e, f)
    /\ MadeOf(L3GD20H_Fields, L3GD20H_Functions)

-----------------------------------------------------------------------------
(* The class L3GD20H: set and get of each of these names call the function *)
(* of the C driver, and turn an error of it into RET_ERROR.                *)
L3GD20H_Class1 ==
    [GyroAxis |-> "gy_axis", DataRate |-> "gy_data_rate", FullScale |-> "gy_full_scale",
     BlockDataUpdate |-> "block_data_update", DataFormat |-> "dev_data_format"]
L3GD20H_Class2 ==
    [Boot |-> "dev_boot", Reset |-> "dev_reset", LPFilterBandwith |-> "gy_filter_lp_bandwidth",
     HPFilterBandwith |-> "gy_filter_hp_bandwidth", FilterOutPath |-> "gy_filter_out_path",
     FilterIntPath |-> "gy_filter_int_path"]
L3GD20H_Class3 ==
    [FilterReference |-> "gy_filter_reference", SPIMode |-> "spi_mode", I2CInterface |-> "i2c_interface",
     PinInt1Route |-> "pin_int1_route", PinInt2Route |-> "pin_int2_route", PinMode |-> "pin_mode",
     PinPolarity |-> "pin_polarity"]
L3GD20H_Class4 ==
    [PinNotification |-> "pin_notification", PinLogic |-> "pin_logic",
     GyroXThreshold |-> "gy_trshld_x", GyroYThreshold |-> "gy_trshld_y", GyroZThreshold |-> "gy_trshld_z",
     GyroThresholdAxis |-> "gy_trshld_axis", GyroModeThreshold |-> "gy_trshld_mode"]
L3GD20H_Class5 ==
    [GyroMinSampleThreshold |-> "gy_trshld_min_sample", FifoStopWtm |-> "fifo_stop_on_wtm",
     FifoMode |-> "fifo_mode", FifoWatermark |-> "fifo_watermark", DenMode |-> "den_mode",
     SelfTest |-> "gy_self_test"]
L3GD20H_Class6 ==
    [GyroFlagDataReady |-> "gy_flag_data_ready", RawTemp |-> "temperature_raw",
     RawAngularRate |-> "angular_rate_raw", DeviceID |-> "dev_id", DeviceStatus |-> "dev_status",
     GyroscopeThreshold |-> "gy_trshld_src", FifoSrc |-> "fifo_src", FifoDataLevel |-> "fifo_data_level",
     FifoFullFlag |-> "fifo_full_flag", FifoWtmFlag |-> "fifo_wtm_flag"]
L3GD20H_Class == L3GD20H_Class1 @@ L3GD20H_Class2 @@ L3GD20H_Class3 @@ L3GD20H_Class4
    @@ L3GD20H_Class5 @@ L3GD20H_Class6

\* The arguments that the driver does not read back, as said above.
L3GD20H_Unread ==
    {<<"FullScale", Code(2)>>, <<"FifoMode", Code(22)>>}
    \cup {<<"LPFilterBandwith", v>> : v \in DOMAIN L3GD20H_LowPass.gy_filter_lp_bandwidth.script}
    \cup {<<"GyroZThreshold", v>> : v \in Patterns(0 .. 14) \cup Codes({255})}
    \cup {<<m, v>> : m \in {"GyroXThreshold", "GyroYThreshold"}, v \in Patterns(0 .. 14)}
\* The callbacks: i2cRead and i2cWrite CALL the bus and return what is not
\* RET_SUCCESS as an error.
L3GD20H_Calls ==
    CallsOf("L3GD20H", "callback", [m \in DOMAIN L3GD20H_Class |-> L3GD20H_Functions[L3GD20H_Class[m]]],
            << >>, L3GD20H_Unread)
=============================================================================
