--------------------------- MODULE RegisterScripts ---------------------------
(***************************************************************************)
(* The vocabulary of the register tables.  A register is the set of its    *)
(* one bits, and so are the arguments of the methods.  A piece says which  *)
(* bits of a register hold which bits of an argument.  A method is a       *)
(* script for each argument it takes: a sequence of bus transfers.         *)
(***************************************************************************)
EXTENDS Integers, Sequences, SequencesExt, TLC

Bits == 0 .. 7

\* The bits of the number n, of at most two bytes.
Code(n) == {i \in 0 .. 15 : (n \div 2^i) % 2 = 1}
Codes(N) == {Code(n) : n \in N}
\* Arguments that set each bit to 0 and to 1, where the source names none.
Patterns(bits) == {{}, bits} \cup {{b \in bits : b % 2 = k} : k \in {0, 1}}

\* width bits of reg from bit lo hold the bits of the argument from bit at.
Piece(reg, lo, width, at) ==
    [reg |-> reg, bits |-> lo .. lo + width - 1, shift |-> at - lo]
Held(p, v) == {b \in p.bits : b + p.shift \in v}
Meaning(pieces, content) ==
    UNION {{b + p.shift : b \in content[p.reg] \cap p.bits} : p \in pieces}

-----------------------------------------------------------------------------
(* Transfers: "read" registers into the driver's buffer; "write" them,     *)
(* with the bits of mask replaced and the others from the buffer; "expect" *)
(* and "when" read and compare, and end the method with an error or with   *)
(* success when the register holds something else; "fail" ends it.         *)
(* source is where the bytes of a write live while the driver waits:       *)
(*   "const"    recomputed whenever the call is made again                 *)
(*   "buffer"   in the buffer that the transfer before it reads into       *)
(*   "local"    in a variable that a resumed call does not set again       *)
(*   "pointer"  in memory the bus still reads after the call has returned  *)
Transfer(do, parts, source) == [do |-> do, parts |-> parts, source |-> source]
Compare(do, r, mask, bits) ==
    Transfer(do, r :> [mask |-> mask, bits |-> bits], "const")

Read(R) == Transfer("read", [r \in R |-> [mask |-> {}, bits |-> {}]], "const")
Expect(r, mask, bits) == Compare("expect", r, mask, bits)
When(r, mask, bits) == Compare("when", r, mask, bits)
Fail == Transfer("fail", << >>, "const")

Put(r, bits, source) ==
    <<Transfer("write", r :> [mask |-> Bits, bits |-> bits], source)>>
Change(r, mask, bits, source) ==
    <<Read({r}), Transfer("write", r :> [mask |-> mask, bits |-> bits], source)>>

\* Read a register, replace the bits the pieces name, write it back.
Update(pieces, v, source) ==
    LET r == (CHOOSE p \in pieces : TRUE).reg
    IN  Change(r, UNION {p.bits : p \in pieces},
               UNION {Held(p, v) : p \in pieces}, source)

-----------------------------------------------------------------------------
(* Methods: their scripts, and how the driver reads the setting back: what *)
(* the pieces of back hold if it is in known, and otherwise the default; a *)
(* bit of wins that is set hides the others.                               *)
Unread == [back |-> {}, known |-> {}, default |-> {}, wins |-> {}]
Method(script) == [script |-> script] @@ Unread

\* A setter that updates the registers of steps one after the other, and a
\* getter that reads the same pieces and knows the same codes.
Setting(steps, codes, default) ==
    [script |-> [v \in codes |-> FlattenSeq([i \in DOMAIN steps |-> Update(steps[i], v, "const")])],
     back |-> UNION {steps[i] : i \in DOMAIN steps},
     known |-> codes, default |-> default, wins |-> {}]
Flag(reg, lo) == Setting(<<{Piece(reg, lo, 1, 0)}>>, {{}, {0}}, {})
Field(reg, lo, width, codes) ==
    Setting(<<{Piece(reg, lo, width, 0)}>>, Codes(codes), {})
Number(reg, lo, width) ==
    Setting(<<{Piece(reg, lo, width, 0)}>>, Patterns(0 .. width - 1), {})
\* A byte the caller gives, written or read as it is.
RawByte(reg) ==
    [script |-> [v \in Patterns(Bits) |-> Put(reg, v, "pointer")],
     back |-> {Piece(reg, 0, 8, 0)}, known |-> Patterns(Bits),
     default |-> {}, wins |-> {}]

\* A field in a table of registers, and what may be written there.
Entry(reg, bits) ==
    [reg |-> reg, bits |-> bits,
     codes |-> IF \E b \in bits : b + 2 < Max(bits) THEN Patterns(bits) ELSE SUBSET bits]
Flags(reg, bits) == {Entry(reg, {b}) : b \in bits}
Entries(reg, fields) == {Entry(reg, f) : f \in fields}
Overlap(e, f) == e # f /\ e.reg = f.reg /\ e.bits \cap f.bits # {}

\* Every piece of a method is made of whole fields of the table.
MadeOf(fields, methods) ==
    \A m \in DOMAIN methods : \A p \in methods[m].back :
        p.bits = UNION {f.bits : f \in {e \in fields : e.reg = p.reg /\ e.bits \subseteq p.bits}}

Once(script) == Method([v \in {{}} |-> script])
Reading(R) == Once(<<Read(R)>>)

-----------------------------------------------------------------------------
\* The calls of a driver's methods, each with what it needs of the driver:
\* style, the registers it uses, what the read-only ones hold (ids), and
\* whether the driver fails to read the argument back (unread).
RegistersOf(script, back) ==
    UNION {DOMAIN script[i].parts : i \in DOMAIN script} \cup {p.reg : p \in back}
CallsOf(driver, style, methods, ids, unread) ==
    {LET m == methods[c[1]]
     IN  [method |-> <<driver, c[1]>>, argument |-> c[2], style |-> style,
          script |-> m.script[c[2]], ids |-> ids,
          registers |-> RegistersOf(m.script[c[2]], m.back),
          back |-> m.back, known |-> m.known, default |-> m.default,
          wins |-> m.wins, unread |-> c \in unread]
     : c \in UNION {{<<m, v>> : v \in DOMAIN methods[m].script} : m \in DOMAIN methods}}
=============================================================================
