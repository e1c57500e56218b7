------------------------------ MODULE Registers ------------------------------
(***************************************************************************)
(* How the sensor drivers use the registers of their chips: a method runs  *)
(* its script (RegisterScripts) one bus transfer at a time, and the first  *)
(* transfer that fails ends it with an error.  Every transfer may have to  *)
(* wait.  A driver that CALLs the bus is resumed and makes the same call   *)
(* again; whether that writes the same bytes depends on where they live.   *)
(* The C drivers reach the bus through callbacks: they take the RET_BLOCKED*)
(* of the callback for an error, and the callback keeps its resume label,  *)
(* so that the next transfer of the kind only finishes the one before.     *)
(***************************************************************************)
EXTENDS RegisterScripts

CONSTANTS Calls   \* the calls a task may make, as CallsOf lists them

VARIABLES
    call,     \* the call the task makes
    at,       \* the transfer it is at
    regs,     \* the registers of the chip
    shadow,   \* what the driver last read from each
    was,      \* ghost: the registers when the call started
    result,   \* "idle", "running", "success" or "error"
    stuck,    \* the callbacks whose resume label was left behind
    spoilt    \* ghost: a byte came from memory that was no longer valid

regVars == <<call, at, regs, shadow, was, result, stuck, spoilt>>

Script == call.script
Now == Script[at]

\* A method has transfers, of bytes in the registers it uses.
Part == [mask : SUBSET Bits, bits : SUBSET Bits]
Typed(c) ==
    /\ Len(c.script) \in Nat \ {0} /\ DOMAIN c.script = 1 .. Len(c.script)
    /\ \A i \in DOMAIN c.script :
           /\ DOMAIN c.script[i].parts \subseteq c.registers
           /\ \A r \in DOMAIN c.script[i].parts : c.script[i].parts[r] \in Part
    /\ \A r \in DOMAIN c.ids : c.ids[r] \subseteq Bits
\* No write replaces more of a register than the method means to: the rest is
\* what was read from it before.
Grounded(s) ==
    \A i \in DOMAIN s : s[i].do = "write" =>
        \A r \in DOMAIN s[i].parts :
            \/ s[i].parts[r].mask = Bits
            \/ \E k \in 1 .. i - 1 : s[k].do = "read" /\ r \in DOMAIN s[k].parts
ASSUME CallsGrounded == \A c \in Calls : Typed(c) /\ Grounded(c.script)

\* A write after another of the same register leaves the bits that one set as
\* they are: it sets the same where they overlap, and takes the rest from what
\* was read in between; or a write of the same group has replaced them.
Puts(s, i, r) == s[i].do = "write" /\ r \in DOMAIN s[i].parts
Agreeing(p, q) == p.mask \cap q.bits \subseteq p.bits /\ p.mask \cap p.bits \cap q.mask \subseteq q.bits
Again(s, i, r, last) ==
    \E k \in i + 1 .. last : Puts(s, k, r) /\ s[k].parts[r].mask = s[i].parts[r].mask
Settled(s) ==
    \A k \in DOMAIN s : \A i \in 1 .. k - 1, r \in DOMAIN s[k].parts :
        Puts(s, k, r) /\ Puts(s, i, r) =>
            \/ Again(s, i, r, k)
            \/ /\ Agreeing(s[i].parts[r], s[k].parts[r])
               /\ \/ s[i].parts[r].mask \subseteq s[k].parts[r].mask
                  \/ \E j \in i + 1 .. k - 1 : s[j].do = "read" /\ r \in DOMAIN s[j].parts
ASSUME CallsSettled == \A c \in Calls : Settled(c.script)

\* What the getter of a call returns when the registers hold content.
Answer(c, content) ==
    LET held == Meaning(c.back, content)
        read == IF held \cap c.wins = {} THEN held ELSE held \cap c.wins
    IN  IF read \in c.known THEN read ELSE c.default

\* A setter that its getter understands: nothing ends it early; its writes that
\* no later one of their group replaces set every bit the getter looks at, but
\* for those that a bit they set hides; and what they set says the argument.
Stays(s, i, r) == Puts(s, i, r) /\ ~Again(s, i, r, Len(s))
Replaced(s, r) == UNION {s[i].parts[r].mask : i \in {k \in DOMAIN s : Stays(s, k, r)}}
Left(s, r) ==
    UNION {s[i].parts[r].mask \cap s[i].parts[r].bits : i \in {k \in DOMAIN s : Stays(s, k, r)}}
ReadAgain(c) == c.back # {} /\ ~c.unread
Answered(c) ==
    LET content == [r \in c.registers |-> Left(c.script, r)]
    IN  /\ \A i \in DOMAIN c.script : c.script[i].do # "when"
        /\ \A p \in c.back :
               /\ p.reg \in c.registers
               /\ \A b \in p.bits \ Replaced(c.script, p.reg) :
                      b + p.shift \notin c.wins /\ Meaning(c.back, content) \cap c.wins # {}
        /\ Answer(c, content) = c.argument
ASSUME CallsAnswered == \A c \in Calls : ReadAgain(c) => Answered(c)

-----------------------------------------------------------------------------
Override(f, g) == [r \in DOMAIN f |-> IF r \in DOMAIN g THEN g[r] ELSE f[r]]

\* Mutants: the bits of other settings are not kept; those replaced stay set.
SentAlone == [r \in DOMAIN Now.parts |-> Now.parts[r].bits]
SentOnTop == [r \in DOMAIN Now.parts |-> shadow[r] \cup Now.parts[r].bits]

\* The bytes a write should send, and those it sends when it had to wait and
\* its source did not survive.
Sent == [r \in DOMAIN Now.parts |->
            (shadow[r] \ Now.parts[r].mask) \cup Now.parts[r].bits]
Garbled(g) ==
    [r \in DOMAIN Now.parts |->
        CASE Now.source = "buffer" -> shadow[r]
          [] Now.source = "local" -> (shadow[r] \ Now.parts[r].mask) \cup g
          [] OTHER -> g]
Seen == [r \in DOMAIN Now.parts |-> regs[r]]

Kind == CASE Now.do = "write" -> {"write"}
          [] Now.do = "fail" -> {}
          [] OTHER -> {"read"}
Callback == call.style = "callback"
Takes(do) == result = "running" /\ Now.do \in do
\* The callback still stands at the label of a transfer that had to wait.
Stale == Callback /\ Kind \cap stuck # {}

\* Mutant: one transfer too many.
ContinuePast ==
    /\ at' = at + 1
    /\ result' = IF at > Len(Script) THEN "success" ELSE "running"
    /\ UNCHANGED <<call, was>>
\* Mutant: the last transfer of a method is left out.
ContinueShort ==
    /\ at' = at + 1
    /\ result' = IF at >= Len(Script) - 1 THEN "success" ELSE "running"
    /\ UNCHANGED <<call, was>>
Continue ==
    /\ at' = at + 1
    /\ result' = IF at = Len(Script) THEN "success" ELSE "running"
    /\ UNCHANGED <<call, was>>
End(how) == result' = how /\ UNCHANGED <<call, at, was>>

-----------------------------------------------------------------------------
\* The task makes its call, or makes it again after an error.
MakeCall ==
    /\ result \in {"idle", "error"}
    /\ at' = 1 /\ result' = "running"
    /\ was' = regs
    /\ UNCHANGED <<call, regs, shadow, stuck, spoilt>>

ReadRegisters ==
    /\ Takes({"read"}) /\ ~Stale
    /\ shadow' = Override(shadow, Seen)
    /\ Continue
    /\ UNCHANGED <<regs, stuck, spoilt>>

WriteRegisters ==
    /\ Takes({"write"}) /\ ~Stale
    /\ regs' = Override(regs, Sent)
    /\ Continue
    /\ UNCHANGED <<shadow, stuck, spoilt>>

\* A CALL that had to wait sends what its source holds when it is resumed.
\* Bound: once in a behaviour, since nothing is claimed of what follows.
WriteGarbled ==
    /\ Takes({"write"}) /\ ~Callback /\ ~spoilt
    /\ Now.source # "const"
    /\ \E g \in {{}, Bits} : regs' = Override(regs, Garbled(g))
    /\ spoilt' = TRUE
    /\ Continue
    /\ UNCHANGED <<shadow, stuck>>

CompareRegister ==
    /\ Takes({"expect", "when"})
    /\ IF \A r \in DOMAIN Now.parts :
             regs[r] \cap Now.parts[r].mask = Now.parts[r].bits
       THEN Continue
       ELSE End(IF Now.do = "when" THEN "success" ELSE "error")
    /\ UNCHANGED <<regs, shadow, stuck, spoilt>>

GiveUp ==
    /\ Takes({"fail"})
    /\ End("error")
    /\ UNCHANGED <<regs, shadow, stuck, spoilt>>

\* The bus reports an error; a write may have reached the chip or not.
BusFails ==
    /\ Takes({"read", "write", "expect", "when"}) /\ ~Stale
    /\ End("error")
    /\ \/ regs' = regs
       \/ Now.do = "write" /\ regs' = Override(regs, Sent)
    /\ UNCHANGED <<shadow, stuck, spoilt>>

\* A callback has to wait: the method takes it for an error, and the bytes of
\* a write are gone from the stack before the bus has sent them.
CallbackWaits ==
    /\ Takes({"read", "write"}) /\ Callback /\ ~Stale
    /\ stuck' = stuck \cup Kind
    /\ End("error")
    /\ \/ regs' = regs /\ spoilt' = spoilt
       \/ Now.do = "write" /\ regs' = Override(regs, Sent) /\ spoilt' = spoilt
       \/ /\ Now.do = "write"
          /\ \E g \in {{}, Bits} : regs' = Override(regs, [r \in DOMAIN Now.parts |-> g])
          /\ spoilt' = TRUE
    /\ UNCHANGED shadow

\* The callback finishes the transfer before this one and reports success:
\* nothing is written, and what was read is whatever the stack held.
CallbackFinishesOld ==
    /\ Takes({"read", "write"}) /\ Stale
    /\ stuck' = stuck \ Kind
    /\ spoilt' = TRUE
    /\ \/ Now.do = "write" /\ shadow' = shadow
       \/ /\ Now.do = "read"
          /\ \E g \in {{}, Bits} : shadow' = Override(shadow, [r \in DOMAIN Now.parts |-> g])
    /\ Continue
    /\ UNCHANGED regs

RegInit ==
    /\ call \in Calls
    /\ \E g \in {{}, Bits}, ids \in {<< >>, call.ids} :
          regs = Override([r \in call.registers |-> g], ids)
    /\ shadow = [r \in call.registers |-> {}] /\ was = regs
    /\ at = 0 /\ result = "idle" /\ stuck = {} /\ spoilt = FALSE

RegNext ==
    \/ MakeCall \/ ReadRegisters \/ WriteRegisters \/ WriteGarbled
    \/ CompareRegister \/ GiveUp \/ BusFails \/ CallbackWaits \/ CallbackFinishesOld

RegSpec == RegInit /\ [][RegNext]_regVars

-----------------------------------------------------------------------------
\* Every variable has its type, and a running method is at one of its transfers.
RegTypeOK ==
    /\ result \in {"idle", "running", "success", "error"}
    /\ regs \in [call.registers -> SUBSET Bits]
    /\ shadow \in [call.registers -> SUBSET Bits]
    /\ was \in [call.registers -> SUBSET Bits]
    /\ stuck \subseteq {"read", "write"} /\ spoilt \in BOOLEAN
    /\ result = "running" => at \in DOMAIN Script

Writes(i, r) == Puts(Script, i, r)
\* The bits of a register that the method means to change.
Meant(r) ==
    UNION {Script[i].parts[r].mask \cup Script[i].parts[r].bits :
           i \in {k \in DOMAIN Script : Writes(k, r)}}
\* Settings share registers: a method changes no bit of another setting, no
\* matter which transfer fails or is repeated, unless a byte was spoilt.
OthersKept ==
    result # "idle" /\ ~spoilt =>
        \A r \in DOMAIN regs : regs[r] \ Meant(r) = was[r] \ Meant(r)

\* A method that succeeds has not undone with one write what it set with
\* another: what it set last in each group of bits is in the chip at the end.
NothingUndone ==
    result = "success" /\ ~spoilt =>
        \A i \in 1 .. at - 1, r \in DOMAIN regs : Writes(i, r) =>
            LET p == Script[i].parts[r]
            IN  Again(Script, i, r, at - 1) \/ regs[r] \cap p.mask = p.bits \cap p.mask

\* What the driver's getter returns is what its setter was given, except for
\* the arguments the table of the driver names.
ReadBack ==
    result = "success" /\ ~spoilt /\ ReadAgain(call) => Answer(call, regs) = call.argument
=============================================================================
