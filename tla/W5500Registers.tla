---------------------------- MODULE W5500Registers ----------------------------
(***************************************************************************)
(* The registers of the W5500 Ethernet chip and the set and get pairs of   *)
(* the class Wiznet.  A register of several bytes lies at consecutive      *)
(* addresses, the high byte first; the common block and the block of a     *)
(* socket are separate address spaces.  A set and a get share an entry.    *)
(***************************************************************************)
EXTENDS RegisterScripts

\* Where the registers start, and how many bytes they have.
W5500_Common1At ==
    [MR |-> <<0, 1>>, GAR |-> <<1, 4>>, SUBR |-> <<5, 4>>, SHAR |-> <<9, 6>>, SIPR |-> <<15, 4>>,
     INTLEVEL |-> <<19, 2>>, IR |-> <<21, 1>>, IMR |-> <<22, 1>>, SIR |-> <<23, 1>>, SIMR |-> <<24, 1>>]
W5500_Common2At ==
    [RTR |-> <<25, 2>>, RCR |-> <<27, 1>>, PTIMER |-> <<28, 1>>, PMAGIC |-> <<29, 1>>,
     PHAR |-> <<30, 6>>, PSID |-> <<36, 2>>, PMRU |-> <<38, 2>>, UIPR |-> <<40, 4>>,
     UPORTR |-> <<44, 2>>, PHYCFGR |-> <<46, 1>>, VERSIONR |-> <<57, 1>>]
W5500_Socket1At ==
    [MR |-> <<0, 1>>, CR |-> <<1, 1>>, IR |-> <<2, 1>>, SR |-> <<3, 1>>, PORT |-> <<4, 2>>,
     DHAR |-> <<6, 6>>, DIPR |-> <<12, 4>>, DPORT |-> <<16, 2>>, MSSR |-> <<18, 2>>,
     TOS |-> <<21, 1>>, TTL |-> <<22, 1>>, RXBUF_SIZE |-> <<30, 1>>]
W5500_Socket2At ==
    [TXBUF_SIZE |-> <<31, 1>>, TX_FSR |-> <<32, 2>>, TX_RD |-> <<34, 2>>, TX_WR |-> <<36, 2>>,
     RX_RSR |-> <<38, 2>>, RX_RD |-> <<40, 2>>, RX_WR |-> <<42, 2>>, IMR |-> <<44, 1>>,
     FRAG |-> <<45, 2>>, KPALVTR |-> <<47, 1>>]
CommonAt == W5500_Common1At @@ W5500_Common2At
SocketAt == W5500_Socket1At @@ W5500_Socket2At

BytesOf(r) == r[1] .. r[1] + r[2] - 1
\* No two registers of a block share a byte.
ASSUME W5500_RegistersApart ==
    \A block \in {CommonAt, SocketAt} : \A r, s \in DOMAIN block :
        r # s => BytesOf(block[r]) \cap BytesOf(block[s]) = {}

-----------------------------------------------------------------------------
\* A byte register is named by its address.
At(a) == ToString(a)
Byte(v, k) == {b - 8 * k : b \in v \cap 8 * k .. 8 * k + 7}

\* What a setter of r is given comes back as it is.
Restored(r, codes, script(_)) ==
    [script |-> [v \in codes |-> script(v)],
     back |-> {Piece(At(r[1] + r[2] - 1 - k), 0, 8, 8 * k) : k \in 0 .. r[2] - 1},
     known |-> codes, default |-> {}, wins |-> {}]
\* A byte, of which only the bits of mask are written and read.
MaskedByte(r, mask) ==
    Restored(r, Patterns(mask), LAMBDA v : Put(At(r[1]), v \cap mask, "const"))
OneByte(r) == MaskedByte(r, Bits)
\* Two bytes in two writes, the high one first.
Word(r) ==
    Restored(r, Patterns(0 .. 15), LAMBDA v : Put(At(r[1]), Byte(v, 1), "const")
                                              \o Put(At(r[1] + 1), Byte(v, 0), "const"))
\* All the bytes in one write, from the memory of the caller.
Buffer(r) ==
    Restored(r, Patterns(0 .. 8 * r[2] - 1),
             LAMBDA v : <<Transfer("write",
                 [a \in {At(b) : b \in BytesOf(r)} |->
                     [mask |-> Bits,
                      bits |-> Byte(v, CHOOSE k \in 0 .. r[2] - 1 : a = At(r[1] + r[2] - 1 - k))]],
                 "const")>>)
\* The bytes in one read; a word in two, between which it may change.
GetBuffer(r) == Reading({At(b) : b \in BytesOf(r)})
GetWord(r) == Once(<<Read({At(r[1])}), Read({At(r[1] + 1)})>>)
\* A register where the chip clears what is written.
Command(r, mask) == [MaskedByte(r, mask) EXCEPT !.back = {}]

W5500_Common1 ==
    [setMR |-> OneByte(CommonAt.MR), getMR |-> GetBuffer(CommonAt.MR), setGAR |-> Buffer(CommonAt.GAR),
     setSUBR |-> Buffer(CommonAt.SUBR), setSHAR |-> Buffer(CommonAt.SHAR), setSIPR |-> Buffer(CommonAt.SIPR)]
W5500_Common2 ==
    [setINTLEVEL |-> Word(CommonAt.INTLEVEL), setIR |-> Command(CommonAt.IR, 4 .. 7), setIMR |-> OneByte(CommonAt.IMR),
     setSIR |-> OneByte(CommonAt.SIR), setSIMR |-> OneByte(CommonAt.SIMR)]
W5500_Common3 ==
    [setRTR |-> Word(CommonAt.RTR), setRCR |-> OneByte(CommonAt.RCR), setPTIMER |-> OneByte(CommonAt.PTIMER),
     setPMAGIC |-> OneByte(CommonAt.PMAGIC)]
W5500_Common4 ==
    [setPHAR |-> Buffer(CommonAt.PHAR), setPSID |-> Word(CommonAt.PSID), setPMRU |-> Word(CommonAt.PMRU),
     getUIPR |-> GetBuffer(CommonAt.UIPR)]
W5500_Common5 ==
    [getUPORTR |-> GetWord(CommonAt.UPORTR), setPHYCFGR |-> OneByte(CommonAt.PHYCFGR),
     getVERSIONR |-> GetBuffer(CommonAt.VERSIONR)]
\* getPSID takes its result by value, so that the caller never sees it.
W5500_CommonUnread == {<<"setPSID", v>> : v \in Patterns(0 .. 15)}

W5500_Socket1 ==
    [setSn_MR |-> OneByte(SocketAt.MR), setSn_CR |-> Command(SocketAt.CR, Bits), setSn_IR |-> Command(SocketAt.IR, 0 .. 4),
     setSn_IMR |-> MaskedByte(SocketAt.IMR, 0 .. 4), getSn_SR |-> GetBuffer(SocketAt.SR)]
\* setSn_PORT takes its argument as one byte.
W5500_Socket2 ==
    [setSn_PORT |-> Restored(SocketAt.PORT, Patterns(0 .. 15),
                             LAMBDA v : Put(At(4), {}, "const") \o Put(At(5), Byte(v, 0), "const")),
     setSn_DHAR |-> Buffer(SocketAt.DHAR), setSn_DIPR |-> Buffer(SocketAt.DIPR)]
W5500_Socket3 ==
    [setSn_DPORT |-> Word(SocketAt.DPORT), setSn_MSSR |-> Word(SocketAt.MSSR), setSn_TOS |-> OneByte(SocketAt.TOS)]
W5500_Socket4 ==
    [setSn_TTL |-> OneByte(SocketAt.TTL), setSn_RXBUF_SIZE |-> OneByte(SocketAt.RXBUF_SIZE),
     setSn_TXBUF_SIZE |-> OneByte(SocketAt.TXBUF_SIZE)]
W5500_Socket5 ==
    [getSn_TX_RD |-> GetWord(SocketAt.TX_RD), setSn_TX_WR |-> Word(SocketAt.TX_WR), setSn_RX_RD |-> Word(SocketAt.RX_RD),
     getSn_RX_WR |-> GetWord(SocketAt.RX_WR)]
W5500_Socket6 ==
    [setSn_FRAG |-> Word(SocketAt.FRAG), setSn_KPALVTR |-> OneByte(SocketAt.KPALVTR),
     getSn_RxMAX |-> GetBuffer(SocketAt.RXBUF_SIZE), getSn_TxMAX |-> GetBuffer(SocketAt.TXBUF_SIZE)]
W5500_SocketUnread == {<<"setSn_PORT", v>> : v \in {v \in Patterns(0 .. 15) : Byte(v, 1) # {}}}

W5500_Calls ==
    CallsOf("W5500", "call",
            W5500_Common1 @@ W5500_Common2 @@ W5500_Common3 @@ W5500_Common4 @@ W5500_Common5,
            << >>, W5500_CommonUnread)
    \cup CallsOf("W5500 socket", "call",
            W5500_Socket1 @@ W5500_Socket2 @@ W5500_Socket3 @@ W5500_Socket4 @@ W5500_Socket5 @@ W5500_Socket6,
            << >>, W5500_SocketUnread)
=============================================================================
