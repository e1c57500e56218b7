--------------------------- MODULE RegisterProofs ----------------------------
(***************************************************************************)
(* What holds of every driver whose methods read a register before they    *)
(* replace a part of it (CallsGrounded), whatever its registers and        *)
(* methods are: a setting that shares a register with others leaves them   *)
(* alone, although any transfer may fail or have to wait.  And of those    *)
(* whose writes of one register agree (CallsSettled): a method that        *)
(* succeeds has undone nothing that it set, so that where the getter takes *)
(* the bits as the setter places them (CallsAnswered) it reads them back.  *)
(***************************************************************************)
EXTENDS Registers, TLAPS

\* What was read from a register holds the other settings as they were.
Kept(r, content) == content \ Meant(r) = was[r] \ Meant(r)
Remembered ==
    result = "running" /\ ~spoilt =>
        \A k \in 1 .. at - 1 : Script[k].do = "read" =>
            \A r \in DOMAIN Script[k].parts : Kept(r, shadow[r])
RegInv == call \in Calls /\ RegTypeOK /\ OthersKept /\ Remembered

\* The part of RegInv that concerns no single transfer.
Contents == [call.registers -> SUBSET Bits]

-----------------------------------------------------------------------------
\* The transfer a running method is at, and its registers.
LEMMA NowTyped ==
    ASSUME call \in Calls, RegTypeOK, result = "running"
    PROVE  /\ at \in 1 .. Len(Script) /\ Len(Script) \in Nat
           /\ DOMAIN Now.parts \subseteq call.registers
           /\ \A r \in DOMAIN Now.parts : Now.parts[r] \in Part
<1>1. Typed(call)
    BY CallsGrounded
<1>2. QED
    BY <1>1 DEF Typed, RegTypeOK, Script, Now

\* The bits a write replaces are meant.
LEMMA WrittenIsMeant ==
    ASSUME NEW k \in DOMAIN Script, NEW r, Writes(k, r)
    PROVE  Script[k].parts[r].mask \cup Script[k].parts[r].bits \subseteq Meant(r)
BY DEF Meant

\* Registers that are replaced one by one stay registers.
LEMMA OverrideTyped ==
    ASSUME NEW f \in Contents, NEW g,
           \A r \in DOMAIN g : g[r] \subseteq Bits
    PROVE  Override(f, g) \in Contents
BY DEF Contents, Override

\* The bytes of a write are bytes, and hold the other settings as they were.
LEMMA SentTyped ==
    ASSUME call \in Calls, RegTypeOK, result = "running"
    PROVE  \A r \in DOMAIN Sent : Sent[r] \subseteq Bits
<1> SUFFICES ASSUME NEW r \in DOMAIN Sent PROVE Sent[r] \subseteq Bits
    OBVIOUS
<1>1. r \in DOMAIN Now.parts /\ Sent[r] = (shadow[r] \ Now.parts[r].mask) \cup Now.parts[r].bits
    BY DEF Sent
<1>2. r \in call.registers /\ Now.parts[r] \in Part
    BY <1>1, NowTyped
<1>3. shadow[r] \subseteq Bits /\ Now.parts[r].bits \subseteq Bits
    BY <1>2 DEF RegTypeOK, Part
<1>4. QED
    BY <1>1, <1>3

LEMMA SentKeeps ==
    ASSUME RegInv, result = "running", Now.do = "write", ~spoilt,
           NEW r \in DOMAIN Now.parts
    PROVE  Kept(r, Sent[r])
<1>1. /\ call \in Calls /\ RegTypeOK /\ Remembered
      /\ at \in 1 .. Len(Script) /\ Len(Script) \in Nat
      /\ r \in call.registers
      /\ Now.parts[r] \in Part
    BY NowTyped DEF RegInv
<1>2. Typed(call) /\ Grounded(Script)
    BY <1>1, CallsGrounded DEF Script
<1>3. at \in DOMAIN Script /\ Writes(at, r)
    BY <1>1, <1>2 DEF Typed, Script, Writes, Puts, Now
<1>4. Now.parts[r].mask \cup Now.parts[r].bits \subseteq Meant(r)
    BY <1>3, WrittenIsMeant DEF Now
<1>5. Sent[r] \ Meant(r) = shadow[r] \ Meant(r)
  <2>1. Sent[r] = (shadow[r] \ Now.parts[r].mask) \cup Now.parts[r].bits
      BY DEF Sent
  <2>2. QED
      BY <1>4, <2>1
<1>6. CASE Now.parts[r].mask = Bits
  <2>1. shadow[r] \subseteq Meant(r) /\ was[r] \subseteq Meant(r)
      BY <1>1, <1>4, <1>6 DEF RegTypeOK
  <2>2. QED
      BY <1>5, <2>1 DEF Kept
<1>7. CASE Now.parts[r].mask # Bits
  <2>1. PICK k \in 1 .. at - 1 : Script[k].do = "read" /\ r \in DOMAIN Script[k].parts
      BY <1>2, <1>3, <1>7 DEF Grounded, Now, Writes, Puts
  <2>2. Kept(r, shadow[r])
      BY <1>1, <2>1 DEF Remembered
  <2>3. QED
      BY <1>5, <2>2 DEF Kept
<1>8. QED
    BY <1>6, <1>7

-----------------------------------------------------------------------------
(* The steps. *)

\* A step that leaves the call and the ghost of its start alone, and writes
\* bytes that hold the other settings as they were.
StepKeeps ==
    /\ UNCHANGED <<call, was>>
    /\ regs' \in Contents /\ shadow' \in Contents
    /\ stuck' \subseteq {"read", "write"} /\ spoilt' \in BOOLEAN
    /\ ~spoilt' => ~spoilt /\ \A r \in call.registers : Kept(r, regs'[r])

LEMMA OthersKeptStep ==
    ASSUME RegInv, StepKeeps
    PROVE  OthersKept'
<1>1. /\ call' = call /\ was' = was /\ regs' \in Contents
      /\ ~spoilt' => \A r \in call.registers : Kept(r, regs'[r])
    BY DEF StepKeeps
<1>2. DOMAIN regs' = call.registers
    BY <1>1 DEF Contents
<1>3. \A r : Meant(r)' = Meant(r)
    BY <1>1 DEF Meant, Writes, Script
<1>4. QED
    BY <1>1, <1>2, <1>3 DEF OthersKept, Kept

\* A step that ends the method.
LEMMA EndKeeps ==
    ASSUME RegInv, StepKeeps, NEW how \in {"success", "error"}, result' = how
    PROVE  RegInv'
<1>1. call' \in Calls /\ OthersKept'
    BY OthersKeptStep DEF RegInv, StepKeeps
<1>2. RegTypeOK'
    BY DEF RegInv, StepKeeps, RegTypeOK, Contents
<1>3. QED
    BY <1>1, <1>2 DEF RegInv, Remembered

\* A step that goes on to the next transfer.
LEMMA ContinueKeeps ==
    ASSUME RegInv, StepKeeps, result = "running", Continue,
           ~spoilt' => \A k \in 1 .. at : Script[k].do = "read" =>
                           \A r \in DOMAIN Script[k].parts : Kept(r, shadow'[r])
    PROVE  RegInv'
<1>1. /\ call \in Calls /\ RegTypeOK
      /\ call' = call /\ was' = was
    BY DEF RegInv, StepKeeps
<1>2. at \in 1 .. Len(Script) /\ Len(Script) \in Nat /\ DOMAIN Script = 1 .. Len(Script)
    BY <1>1, NowTyped, CallsGrounded DEF Typed, Script
<1>at. at' = at + 1 /\ at \in Int
  <2>1. at' = at + 1
      BY DEF Continue
  <2>2. at \in Int
      BY <1>2
  <2>3. QED
      BY <2>1, <2>2
<1>3. result' = IF at = Len(Script) THEN "success" ELSE "running"
    BY DEF Continue
<1>4. CASE at = Len(Script)
    BY <1>3, <1>4, EndKeeps
<1>5. CASE at # Len(Script)
  <2>1. result' = "running" /\ at' \in 1 .. Len(Script)
    <3> DEFINE last == Len(Script)
    <3>1. last \in Nat /\ at \in 1 .. last /\ at # last
        BY <1>2, <1>5
    <3> HIDE DEF last
    <3>2. at' \in 1 .. last
        BY <1>at, <3>1
    <3>3. QED
        BY <1>3, <1>5, <3>2 DEF last
  <2>2. Script' = Script
      BY <1>1 DEF Script
  <2>3. RegTypeOK'
      BY <1>1, <1>2, <2>1, <2>2 DEF StepKeeps, RegTypeOK, Contents
  <2>4. \A r : Meant(r)' = Meant(r)
      BY <2>2 DEF Meant, Writes
  <2>5. Remembered'
    <3> SUFFICES ASSUME ~spoilt', NEW k \in 1 .. at' - 1, Script[k].do = "read",
                        NEW r \in DOMAIN Script[k].parts
                 PROVE  Kept(r, shadow[r])'
        BY <2>2 DEF Remembered
    <3>1. k \in 1 .. at
        BY <1>at
    <3>2. Kept(r, shadow'[r])
        BY <3>1
    <3>3. QED
        BY <1>1, <2>4, <3>2 DEF Kept
  <2>6. QED
      BY <1>1, <2>3, <2>5, OthersKeptStep DEF RegInv
<1>6. QED
    BY <1>4, <1>5

\* Before its current transfer a method remembers what it has read.
LEMMA RememberedSoFar ==
    ASSUME RegInv, result = "running", ~spoilt, Now.do # "read"
    PROVE  \A k \in 1 .. at : Script[k].do = "read" =>
               \A r \in DOMAIN Script[k].parts : Kept(r, shadow[r])
<1>1. at \in 1 .. Len(Script) /\ Len(Script) \in Nat
    BY NowTyped DEF RegInv
<1>2. \A k \in 1 .. at : Script[k].do = "read" => k \in 1 .. at - 1
    BY <1>1 DEF Now
<1>3. QED
    BY <1>2 DEF RegInv, Remembered

\* Bytes that do not come from the registers of the chip.
LEMMA FilledTyped ==
    ASSUME call \in Calls, RegTypeOK, result = "running", NEW f \in Contents, NEW g \in {{}, Bits}
    PROVE  Override(f, [r \in DOMAIN Now.parts |-> g]) \in Contents
BY OverrideTyped

LEMMA GarbledTyped ==
    ASSUME call \in Calls, RegTypeOK, result = "running", NEW g \in {{}, Bits}
    PROVE  Override(regs, Garbled(g)) \in Contents
<1>1. ASSUME NEW r \in DOMAIN Garbled(g)
      PROVE  Garbled(g)[r] \subseteq Bits
  <2>1. r \in DOMAIN Now.parts
      BY DEF Garbled
  <2>2. /\ shadow[r] \subseteq Bits /\ g \subseteq Bits
      BY <2>1, NowTyped DEF RegTypeOK
  <2>3. Garbled(g)[r] \in {shadow[r], (shadow[r] \ Now.parts[r].mask) \cup g, g}
      BY <2>1 DEF Garbled
  <2>4. QED
      BY <2>2, <2>3
<1>2. QED
    BY <1>1, OverrideTyped DEF RegTypeOK, Contents

\* A write of the right bytes, and none.
LEMMA SentStep ==
    ASSUME RegInv, result = "running", Now.do = "write", regs' = Override(regs, Sent),
           UNCHANGED <<call, was, shadow, spoilt>>, stuck' \subseteq {"read", "write"}
    PROVE  StepKeeps
<1>1. call \in Calls /\ RegTypeOK /\ OthersKept
    BY DEF RegInv
<1>2. regs' \in Contents
    BY <1>1, SentTyped, OverrideTyped DEF RegTypeOK, Contents
<1>3. ASSUME ~spoilt, NEW r \in call.registers
      PROVE  Kept(r, regs'[r])
  <2>1. r \in DOMAIN regs /\ Kept(r, regs[r])
      BY <1>1, <1>3 DEF OthersKept, RegTypeOK, Kept
  <2>2. CASE r \in DOMAIN Now.parts
    <3>1. regs'[r] = Sent[r]
        BY <2>1, <2>2 DEF Override, Sent
    <3>2. QED
        BY <1>3, <2>2, <3>1, SentKeeps
  <2>3. CASE r \notin DOMAIN Now.parts
    <3>1. regs'[r] = regs[r]
        BY <2>1, <2>3 DEF Override, Sent
    <3>2. QED
        BY <2>1, <3>1
  <2>4. QED
      BY <2>2, <2>3
<1>4. QED
    BY <1>1, <1>2, <1>3 DEF StepKeeps, RegTypeOK, Contents

LEMMA QuietStep ==
    ASSUME RegInv, result # "idle", shadow' \in Contents,
           UNCHANGED <<call, was, regs>>, spoilt' \in BOOLEAN,
           ~spoilt' => ~spoilt, stuck' \subseteq {"read", "write"}
    PROVE  StepKeeps
BY DEF RegInv, RegTypeOK, OthersKept, Contents, StepKeeps, Kept

LEMMA SpoiltStep ==
    ASSUME RegInv, regs' \in Contents, shadow' \in Contents,
           UNCHANGED <<call, was>>, spoilt' = TRUE, stuck' \subseteq {"read", "write"}
    PROVE  StepKeeps
BY DEF StepKeeps

LEMMA InitInv == RegInit => RegInv
<1> SUFFICES ASSUME RegInit PROVE RegInv
    OBVIOUS
<1>1. call \in Calls /\ \A r \in DOMAIN call.ids : call.ids[r] \subseteq Bits
    BY CallsGrounded DEF RegInit, Typed
<1>2. PICK g \in {{}, Bits}, ids \in {<< >>, call.ids} :
          regs = Override([r \in call.registers |-> g], ids)
    BY DEF RegInit
<1>3. \A r \in DOMAIN ids : ids[r] \subseteq Bits
    BY <1>1
<1>4. [r \in call.registers |-> g] \in Contents
    BY DEF Contents
<1>5. regs \in Contents
    BY <1>2, <1>3, <1>4, OverrideTyped
<1>6. RegTypeOK
    BY <1>5 DEF RegInit, RegTypeOK, Contents
<1>7. QED
    BY <1>1, <1>6 DEF RegInit, RegInv, OthersKept, Remembered

LEMMA NextInv ==
    ASSUME RegInv, [RegNext]_regVars
    PROVE  RegInv'
<1>1. /\ call \in Calls /\ RegTypeOK /\ regs \in Contents /\ shadow \in Contents
      /\ stuck \subseteq {"read", "write"} /\ spoilt \in BOOLEAN
    BY DEF RegInv, RegTypeOK, Contents
<1>2. Kind \subseteq {"read", "write"}
    BY DEF Kind
<1>3. CASE MakeCall
  <2>1. Script' = Script /\ Len(Script) \in Nat \ {0} /\ DOMAIN Script = 1 .. Len(Script)
      BY <1>1, <1>3, CallsGrounded DEF MakeCall, Typed, Script
  <2>2. at' = 1 /\ result' = "running" /\ UNCHANGED <<call, regs, shadow, stuck, spoilt>> /\ was' = regs
      BY <1>3 DEF MakeCall
  <2>3. 1 \in DOMAIN Script
      BY <2>1
  <2>4. RegTypeOK'
      BY <1>1, <2>1, <2>2, <2>3 DEF RegTypeOK
  <2>5. OthersKept'
      BY <2>2 DEF OthersKept
  <2>6. Remembered'
      BY <2>2 DEF Remembered
  <2>7. QED
      BY <1>1, <2>2, <2>4, <2>5, <2>6 DEF RegInv
<1>4. CASE ReadRegisters
  <2>1. /\ result = "running" /\ Now.do = "read"
        /\ shadow' = Override(shadow, Seen)
        /\ Continue /\ UNCHANGED <<call, was, regs, stuck, spoilt>>
      BY <1>4 DEF ReadRegisters, Takes, Continue
  <2>2. ASSUME NEW r \in DOMAIN Seen
        PROVE  r \in call.registers /\ Seen[r] = regs[r] /\ Seen[r] \subseteq Bits
    <3>1. r \in DOMAIN Now.parts /\ Seen[r] = regs[r]
        BY DEF Seen
    <3>2. QED
        BY <1>1, <2>1, <3>1, NowTyped DEF RegTypeOK
  <2>3. shadow' \in Contents
      BY <1>1, <2>1, <2>2, OverrideTyped
  <2>4. StepKeeps
      BY <1>1, <2>1, <2>3, QuietStep
  <2>5. ASSUME ~spoilt', NEW k \in 1 .. at, Script[k].do = "read",
               NEW r \in DOMAIN Script[k].parts
        PROVE  Kept(r, shadow'[r])
    <3>1. ~spoilt /\ OthersKept /\ Remembered
        BY <2>1, <2>5 DEF RegInv
    <3>2. at \in 1 .. Len(Script) /\ Len(Script) \in Nat
        BY <1>1, <2>1, NowTyped
    <3>3. Typed(call)
        BY <1>1, CallsGrounded
    <3>4. k \in 1 .. Len(Script)
        BY <3>2
    <3>5. r \in call.registers
        BY <3>3, <3>4 DEF Typed, Script
    <3>6. CASE r \in DOMAIN Now.parts
      <4>1. shadow'[r] = regs[r]
          BY <1>1, <2>1, <3>5, <3>6 DEF Override, Seen, Contents
      <4>2. Kept(r, regs[r])
          BY <1>1, <2>1, <3>1, <3>5 DEF OthersKept, Kept, Contents
      <4>3. QED
          BY <4>1, <4>2
    <3>7. CASE r \notin DOMAIN Now.parts
      <4>1. shadow'[r] = shadow[r]
          BY <1>1, <2>1, <3>5, <3>7 DEF Override, Seen, Contents
      <4>2. k # at
          BY <2>5, <3>7 DEF Now
      <4>3. k \in 1 .. at - 1
          BY <3>2, <4>2
      <4>4. QED
          BY <2>1, <2>5, <3>1, <4>1, <4>3 DEF Remembered
    <3>8. QED
        BY <3>6, <3>7
  <2>6. QED
      BY <2>1, <2>4, <2>5, ContinueKeeps
<1>5. CASE WriteRegisters
  <2>1. /\ result = "running" /\ Now.do = "write"
        /\ regs' = Override(regs, Sent)
        /\ Continue /\ UNCHANGED <<call, was, shadow, stuck, spoilt>>
      BY <1>5 DEF WriteRegisters, Takes, Continue
  <2>2. StepKeeps
      BY <1>1, <2>1, SentStep
  <2>3. ~spoilt' => \A k \in 1 .. at : Script[k].do = "read" =>
                        \A r \in DOMAIN Script[k].parts : Kept(r, shadow'[r])
      BY <2>1, RememberedSoFar
  <2>4. QED
      BY <2>1, <2>2, <2>3, ContinueKeeps
<1>6. CASE WriteGarbled
  <2>1. /\ result = "running" /\ spoilt' = TRUE
        /\ Continue /\ UNCHANGED <<call, was, shadow, stuck>>
        /\ \E g \in {{}, Bits} : regs' = Override(regs, Garbled(g))
      BY <1>6 DEF WriteGarbled, Takes, Continue
  <2>2. regs' \in Contents
      BY <1>1, <2>1, GarbledTyped
  <2>3. StepKeeps
      BY <1>1, <2>1, <2>2, SpoiltStep
  <2>4. QED
      BY <2>1, <2>3, ContinueKeeps
<1>7. CASE CompareRegister
  <2>1. /\ result = "running" /\ Now.do # "read"
        /\ UNCHANGED <<call, was, regs, shadow, stuck, spoilt>>
        /\ \/ Continue
           \/ End("success") \/ End("error")
      BY <1>7 DEF CompareRegister, Takes, Continue, End
  <2>2. StepKeeps
      BY <1>1, <2>1, QuietStep
  <2>3. CASE Continue
    <3>1. ~spoilt' => \A k \in 1 .. at : Script[k].do = "read" =>
                          \A r \in DOMAIN Script[k].parts : Kept(r, shadow'[r])
        BY <2>1, RememberedSoFar
    <3>2. QED
        BY <2>1, <2>2, <2>3, <3>1, ContinueKeeps
  <2>4. CASE End("success") \/ End("error")
      BY <2>2, <2>4, EndKeeps DEF End
  <2>5. QED
      BY <2>1, <2>3, <2>4
<1>8. CASE GiveUp
  <2>1. /\ result = "running" /\ result' = "error"
        /\ UNCHANGED <<call, was, regs, shadow, stuck, spoilt>>
      BY <1>8 DEF GiveUp, Takes, End
  <2>2. StepKeeps
      BY <1>1, <2>1, QuietStep
  <2>3. QED
      BY <2>1, <2>2, EndKeeps
<1>9. CASE BusFails
  <2>1. /\ result = "running" /\ result' = "error"
        /\ UNCHANGED <<call, was, shadow, stuck, spoilt>>
        /\ \/ regs' = regs
           \/ Now.do = "write" /\ regs' = Override(regs, Sent)
      BY <1>9 DEF BusFails, Takes, End
  <2>2. StepKeeps
      BY <1>1, <2>1, QuietStep, SentStep
  <2>3. QED
      BY <2>1, <2>2, EndKeeps
<1>10. CASE CallbackWaits
  <2>1. /\ result = "running" /\ result' = "error"
        /\ stuck' = stuck \cup Kind
        /\ UNCHANGED <<call, was, shadow>>
        /\ \/ regs' = regs /\ spoilt' = spoilt
           \/ Now.do = "write" /\ regs' = Override(regs, Sent) /\ spoilt' = spoilt
           \/ /\ \E g \in {{}, Bits} : regs' = Override(regs, [r \in DOMAIN Now.parts |-> g])
              /\ spoilt' = TRUE
      BY <1>10 DEF CallbackWaits, Takes, End
  <2>2. stuck' \subseteq {"read", "write"}
      BY <1>1, <1>2, <2>1
  <2>3. CASE regs' = regs /\ spoilt' = spoilt
      BY <1>1, <2>1, <2>2, <2>3, QuietStep, EndKeeps
  <2>4. CASE Now.do = "write" /\ regs' = Override(regs, Sent) /\ spoilt' = spoilt
      BY <1>1, <2>1, <2>2, <2>4, SentStep, EndKeeps
  <2>5. ASSUME NEW g \in {{}, Bits}, regs' = Override(regs, [r \in DOMAIN Now.parts |-> g]),
               spoilt' = TRUE
        PROVE  RegInv'
    <3>1. regs' \in Contents
        BY <1>1, <2>1, <2>5, FilledTyped
    <3>2. QED
        BY <1>1, <2>1, <2>2, <2>5, <3>1, SpoiltStep, EndKeeps
  <2>6. QED
      BY <2>1, <2>3, <2>4, <2>5
<1>11. CASE CallbackFinishesOld
  <2>1. /\ result = "running" /\ spoilt' = TRUE
        /\ stuck' \subseteq stuck
        /\ Continue /\ UNCHANGED <<call, was, regs>>
        /\ \/ shadow' = shadow
           \/ \E g \in {{}, Bits} : shadow' = Override(shadow, [r \in DOMAIN Now.parts |-> g])
      BY <1>11 DEF CallbackFinishesOld, Takes, Continue
  <2>2. shadow' \in Contents
      BY <1>1, <2>1, FilledTyped
  <2>3. StepKeeps
      BY <1>1, <2>1, <2>2, SpoiltStep
  <2>4. QED
      BY <2>1, <2>3, ContinueKeeps
<1>12. CASE UNCHANGED regVars
  <2>1. UNCHANGED <<call, at, regs, shadow, was, result, stuck, spoilt>>
      BY <1>12 DEF regVars
  <2>2. RegTypeOK'
      BY <2>1 DEF RegInv, RegTypeOK, Script
  <2>3. OthersKept'
      BY <2>1 DEF RegInv, OthersKept, Meant, Writes, Script
  <2>4. Remembered'
      BY <2>1 DEF RegInv, Remembered, Kept, Meant, Writes, Script
  <2>5. QED
      BY <2>1, <2>2, <2>3, <2>4 DEF RegInv
<1>13. QED
    BY <1>3, <1>4, <1>5, <1>6, <1>7, <1>8, <1>9, <1>10, <1>11, <1>12 DEF RegNext

-----------------------------------------------------------------------------
\* Any driver: every variable has its type, and a running method is at one of
\* its transfers (LSM6DSL.h:62).
THEOREM RegistersTyped == RegSpec => []RegTypeOK
<1>1. RegInv => RegTypeOK
    BY DEF RegInv
<1>2. QED
    BY <1>1, InitInv, NextInv, PTL DEF RegSpec

\* Any driver that reads before it replaces a part of a register (as
\* LSM6DSL.h:825 does): a method changes no bit of another setting, whichever
\* transfer fails, waits or is repeated, unless a byte was spoilt.
THEOREM OthersAlwaysKept == RegSpec => []OthersKept
<1>1. RegInv => OthersKept
    BY DEF RegInv
<1>2. QED
    BY <1>1, InitInv, NextInv, PTL DEF RegSpec

-----------------------------------------------------------------------------
(* A method does not undo what it has set.  What a write put into its group *)
(* of bits is in the chip until another write replaces the group; and what  *)
(* was read since then shows it, so that a write that takes the group from  *)
(* there puts the same bits back.                                           *)

Holds(i, r, content) ==
    content \cap Script[i].parts[r].mask = Script[i].parts[r].bits \cap Script[i].parts[r].mask
ReadSince(i, r, last) ==
    \E j \in i + 1 .. last : Script[j].do = "read" /\ r \in DOMAIN Script[j].parts
Lasts(last, content, known) ==
    \A i \in 1 .. last, r \in call.registers : Writes(i, r) =>
        \/ Again(Script, i, r, last)
        \/ /\ Holds(i, r, content[r])
           /\ ReadSince(i, r, last) => Holds(i, r, known[r])
LastingInv == result = "running" /\ ~spoilt => Lasts(at - 1, regs, shadow)
SetInv == RegInv /\ LastingInv /\ NothingUndone

\* What another write has replaced stays replaced.
LEMMA AgainLater ==
    ASSUME NEW i, NEW r, at \in Nat, i \in Nat, Again(Script, i, r, at - 1)
    PROVE  Again(Script, i, r, at)
<1>1. PICK k \in i + 1 .. at - 1 : Puts(Script, k, r) /\ Script[k].parts[r].mask = Script[i].parts[r].mask
    BY DEF Again
<1>2. k \in i + 1 .. at
    OBVIOUS
<1>3. QED
    BY <1>1, <1>2 DEF Again

\* A write sets the bits it means to set: what it replaces is in its mask.
LEMMA HoldsWritten ==
    ASSUME NEW r \in DOMAIN Now.parts
    PROVE  Holds(at, r, Sent[r])
<1>1. Sent[r] = (shadow[r] \ Now.parts[r].mask) \cup Now.parts[r].bits
    BY DEF Sent
<1>2. QED
    BY <1>1 DEF Holds, Now

\* The next transfer, whichever it is, leaves lasting what lasts.
LEMMA LastsStep ==
    ASSUME RegInv, result = "running", Lasts(at - 1, regs, shadow),
           \/ Now.do = "read" /\ regs' = regs /\ shadow' = Override(shadow, Seen)
           \/ Now.do = "write" /\ regs' = Override(regs, Sent) /\ shadow' = shadow
           \/ Now.do \notin {"read", "write"} /\ regs' = regs /\ shadow' = shadow
    PROVE  Lasts(at, regs', shadow')
<1> SUFFICES ASSUME NEW i \in 1 .. at, NEW r \in call.registers, Writes(i, r),
                    ~Again(Script, i, r, at)
             PROVE  /\ Holds(i, r, regs'[r])
                    /\ ReadSince(i, r, at) => Holds(i, r, shadow'[r])
    BY DEF Lasts
<1>1. /\ call \in Calls /\ DOMAIN regs = call.registers /\ DOMAIN shadow = call.registers
      /\ at \in Nat \ {0} /\ i \in Nat
    BY NowTyped DEF RegInv, RegTypeOK
<1>at. at \in DOMAIN Script
    BY DEF RegInv, RegTypeOK
<1>2. ~Again(Script, i, r, at - 1)
    BY <1>1, AgainLater
<1>3. ASSUME i # at
      PROVE  /\ i \in 1 .. at - 1 /\ Holds(i, r, regs[r])
             /\ ReadSince(i, r, at - 1) => Holds(i, r, shadow[r])
  <2>1. i \in 1 .. at - 1
      BY <1>1, <1>3
  <2>2. QED
      BY <1>2, <2>1 DEF Lasts
<1>4. ReadSince(i, r, at) =>
          i # at /\ (ReadSince(i, r, at - 1) \/ (Now.do = "read" /\ r \in DOMAIN Now.parts))
  <2>1. SUFFICES ASSUME NEW j \in i + 1 .. at, Script[j].do = "read", r \in DOMAIN Script[j].parts
                 PROVE  i # at /\ (ReadSince(i, r, at - 1) \/ (Now.do = "read" /\ r \in DOMAIN Now.parts))
      BY DEF ReadSince
  <2>2. i # at
      BY <1>1
  <2>3. j = at \/ j \in i + 1 .. at - 1
      BY <1>1
  <2>4. QED
      BY <2>1, <2>2, <2>3 DEF ReadSince, Now
<1>5. CASE Now.do = "read" /\ regs' = regs /\ shadow' = Override(shadow, Seen)
  <2>1. i # at
      BY <1>5 DEF Writes, Puts, Now
  <2>2. shadow'[r] = IF r \in DOMAIN Now.parts THEN regs[r] ELSE shadow[r]
      BY <1>1, <1>5 DEF Override, Seen
  <2>3. QED
      BY <1>3, <1>4, <1>5, <2>1, <2>2
<1>6. CASE Now.do = "write" /\ regs' = Override(regs, Sent) /\ shadow' = shadow
  <2>1. regs'[r] = IF r \in DOMAIN Now.parts THEN Sent[r] ELSE regs[r]
      BY <1>1, <1>6 DEF Override, Sent
  <2>2. CASE i = at
    <3>1. r \in DOMAIN Now.parts /\ Now = Script[i]
        BY <2>2 DEF Writes, Puts, Now
    <3>2. Holds(i, r, regs'[r])
        BY <2>1, <2>2, <3>1, HoldsWritten
    <3>3. QED
        BY <1>4, <2>2, <3>2
  <2>3. CASE i # at /\ r \notin DOMAIN Now.parts
      BY <1>3, <1>4, <1>6, <2>1, <2>3
  <2>4. CASE i # at /\ r \in DOMAIN Now.parts
    <3> DEFINE p == Script[i].parts[r]
               q == Now.parts[r]
    <3>1. /\ i \in 1 .. at - 1 /\ Holds(i, r, regs[r])
          /\ ReadSince(i, r, at - 1) => Holds(i, r, shadow[r])
        BY <1>3, <2>4
    <3>2. Settled(Script) /\ Puts(Script, at, r) /\ Puts(Script, i, r)
        BY <1>1, <1>6, <2>4, CallsSettled DEF Script, Puts, Now, Writes
    <3>3. Agreeing(p, q) /\ (p.mask \subseteq q.mask \/ ReadSince(i, r, at - 1))
        BY <1>at, <2>4, <3>1, <3>2 DEF Settled, ReadSince, Now
    <3>4. regs'[r] = (shadow[r] \ q.mask) \cup q.bits
        BY <2>1, <2>4 DEF Sent
    <3>5. p.mask \subseteq q.mask \/ shadow[r] \cap p.mask = p.bits \cap p.mask
        BY <3>1, <3>3 DEF Holds
    <3>6. p.mask \cap q.bits \subseteq p.bits /\ p.mask \cap p.bits \cap q.mask \subseteq q.bits
        BY <3>3 DEF Agreeing
    <3> HIDE DEF p, q
    <3>7. regs'[r] \cap p.mask = p.bits \cap p.mask
        BY <3>4, <3>5, <3>6
    <3>8. Holds(i, r, regs'[r])
        BY <3>7 DEF Holds, p
    <3>9. QED
        BY <1>4, <1>6, <3>1, <3>8
  <2>5. QED
      BY <2>2, <2>3, <2>4
<1>7. CASE Now.do \notin {"read", "write"} /\ regs' = regs /\ shadow' = shadow
  <2>1. i # at
      BY <1>7 DEF Writes, Puts, Now
  <2>2. QED
      BY <1>3, <1>4, <1>7, <2>1
<1>8. QED
    BY <1>5, <1>6, <1>7

\* A method that goes on, having left lasting what lasts.
LEMMA ContinueLasts ==
    ASSUME RegInv, RegInv', result = "running", Continue,
           ~spoilt' => Lasts(at, regs', shadow')
    PROVE  LastingInv' /\ NothingUndone'
<1>1. at \in Nat /\ DOMAIN regs' = call'.registers
    BY NowTyped DEF RegInv, RegTypeOK
<1>2. call' = call /\ at' = at + 1 /\ Script' = Script
    BY DEF Continue, Script
<1>3. at' - 1 = at
    BY <1>1, <1>2
<1>4. ~spoilt' => Lasts(at' - 1, regs', shadow')
    BY <1>3
<1>5. LastingInv'
    BY <1>2, <1>4 DEF LastingInv, Lasts, Holds, ReadSince, Writes
<1>6. NothingUndone'
    BY <1>1, <1>2, <1>4 DEF NothingUndone, Lasts, Holds, Writes
<1>7. QED
    BY <1>5, <1>6

\* A step that ends the method with an error, or follows no bytes any more.
LEMMA NothingClaimed ==
    ASSUME result' = "error" \/ spoilt' = TRUE
    PROVE  LastingInv' /\ NothingUndone'
BY DEF LastingInv, NothingUndone

LEMMA SetInit == RegInit => SetInv
<1>1. RegInit => LastingInv /\ NothingUndone
    BY DEF RegInit, LastingInv, NothingUndone
<1>2. QED
    BY <1>1, InitInv DEF SetInv

LEMMA SetNext ==
    ASSUME SetInv, [RegNext]_regVars
    PROVE  SetInv'
<1>1. RegInv /\ LastingInv /\ NothingUndone
    BY DEF SetInv
<1>2. RegInv'
    BY <1>1, NextInv
<1>3. CASE MakeCall
  <2>1. at' = 1 /\ result' = "running"
      BY <1>3 DEF MakeCall
  <2>2. QED
      BY <1>2, <2>1 DEF SetInv, LastingInv, Lasts, NothingUndone
<1>4. CASE ReadRegisters
  <2>1. /\ result = "running" /\ Now.do = "read" /\ Continue
        /\ shadow' = Override(shadow, Seen) /\ UNCHANGED <<regs, spoilt>>
      BY <1>4 DEF ReadRegisters, Takes
  <2>2. ~spoilt' => Lasts(at, regs', shadow')
      BY <1>1, <2>1, LastsStep DEF LastingInv
  <2>3. QED
      BY <1>1, <1>2, <2>1, <2>2, ContinueLasts DEF SetInv
<1>5. CASE WriteRegisters
  <2>1. /\ result = "running" /\ Now.do = "write" /\ Continue
        /\ regs' = Override(regs, Sent) /\ UNCHANGED <<shadow, spoilt>>
      BY <1>5 DEF WriteRegisters, Takes
  <2>2. ~spoilt' => Lasts(at, regs', shadow')
      BY <1>1, <2>1, LastsStep DEF LastingInv
  <2>3. QED
      BY <1>1, <1>2, <2>1, <2>2, ContinueLasts DEF SetInv
<1>6. CASE WriteGarbled
    BY <1>2, <1>6, NothingClaimed DEF WriteGarbled, SetInv
<1>7. CASE CompareRegister
  <2>1. /\ result = "running" /\ Now.do \notin {"read", "write"}
        /\ UNCHANGED <<regs, shadow, spoilt>>
        /\ Continue \/ (UNCHANGED <<call, at>> /\ (result' = "success" \/ result' = "error"))
      BY <1>7 DEF CompareRegister, Takes, End
  <2>2. ~spoilt' => Lasts(at - 1, regs, shadow) /\ Lasts(at, regs', shadow')
      BY <1>1, <2>1, LastsStep DEF LastingInv
  <2>3. CASE Continue
      BY <1>1, <1>2, <2>1, <2>2, <2>3, ContinueLasts DEF SetInv
  <2>4. CASE UNCHANGED <<call, at>> /\ result' = "success"
    <3>1. DOMAIN regs = call.registers
        BY <1>1 DEF RegInv, RegTypeOK
    <3>2. NothingUndone'
        BY <2>1, <2>2, <2>4, <3>1 DEF NothingUndone, Lasts, Holds, Writes, Script
    <3>3. QED
        BY <1>2, <2>4, <3>2 DEF SetInv, LastingInv
  <2>5. CASE result' = "error"
      BY <1>2, <2>5, NothingClaimed DEF SetInv
  <2>6. QED
      BY <2>1, <2>3, <2>4, <2>5
<1>8. CASE GiveUp \/ BusFails \/ CallbackWaits
    BY <1>2, <1>8, NothingClaimed DEF GiveUp, BusFails, CallbackWaits, End, SetInv
<1>9. CASE CallbackFinishesOld
    BY <1>2, <1>9, NothingClaimed DEF CallbackFinishesOld, SetInv
<1>10. CASE UNCHANGED regVars
  <2>1. UNCHANGED <<call, at, regs, shadow, was, result, stuck, spoilt>>
      BY <1>10 DEF regVars
  <2>2. LastingInv'
      BY <1>1, <2>1 DEF SetInv, LastingInv, Lasts, Holds, ReadSince, Writes, Script
  <2>3. NothingUndone'
      BY <1>1, <2>1 DEF SetInv, NothingUndone, Writes, Script
  <2>4. QED
      BY <1>2, <2>2, <2>3 DEF SetInv
<1>11. QED
    BY <1>3, <1>4, <1>5, <1>6, <1>7, <1>8, <1>9, <1>10 DEF RegNext

\* Any driver whose writes of one register agree (CallsSettled): a method that
\* succeeds has undone with no write what it set with another
\* (as LIS3MDL.h:146, which reads both registers before it writes them).
THEOREM NothingEverUndone == RegSpec => []NothingUndone
<1>1. SetInv => NothingUndone
    BY DEF SetInv
<1>2. QED
    BY <1>1, SetInit, SetNext, PTL DEF RegSpec

-----------------------------------------------------------------------------
(* A setting is read back.  A method that nothing ends early has made all   *)
(* its transfers when it succeeds; what they set is then in the chip, and   *)
(* the rest of what the getter looks at does not count (CallsAnswered).     *)

Finished ==
    result = "success" =>
        \/ at = Len(Script) + 1
        \/ \E i \in DOMAIN Script : Script[i].do = "when"

\* A method succeeds after its last transfer, or where a comparison ends it.
LEMMA FinishedNext ==
    ASSUME RegInv, Finished, [RegNext]_regVars
    PROVE  Finished'
<1>1. CASE result' # "success"
    BY <1>1 DEF Finished
<1>2. CASE Continue /\ result = "running"
  <2>1. Script' = Script /\ at' = at + 1 /\ (result' = "success" => at = Len(Script))
      BY <1>2 DEF Continue, Script
  <2>2. QED
      BY <2>1 DEF Finished
<1>3. CASE CompareRegister /\ ~Continue
  <2>1. /\ result = "running" /\ Script' = Script /\ at \in DOMAIN Script
        /\ result' = IF Now.do = "when" THEN "success" ELSE "error"
      BY <1>3 DEF CompareRegister, Takes, End, Script, RegInv, RegTypeOK
  <2>2. QED
      BY <2>1 DEF Finished, Now
<1>4. CASE UNCHANGED regVars
    BY <1>4 DEF regVars, Finished, Script
<1>5. CASE MakeCall \/ GiveUp \/ BusFails \/ CallbackWaits
    BY <1>1, <1>5 DEF MakeCall, GiveUp, BusFails, CallbackWaits, End
<1>6. QED
    BY <1>2, <1>3, <1>4, <1>5 DEF RegNext, ReadRegisters, WriteRegisters, WriteGarbled,
       CompareRegister, CallbackFinishesOld, Takes

\* After all its transfers the registers hold what the method set, in the bits
\* that it replaced.
LEMMA LeftInPlace ==
    ASSUME RegInv, NothingUndone, result = "success", ~spoilt,
           at = Len(Script) + 1, NEW r \in call.registers
    PROVE  regs[r] \cap Replaced(Script, r) = Left(Script, r)
<1>1. Len(Script) \in Nat /\ DOMAIN Script = 1 .. Len(Script) /\ r \in DOMAIN regs
    BY CallsGrounded DEF RegInv, RegTypeOK, Typed, Script
<1>2. ASSUME NEW i \in DOMAIN Script, Stays(Script, i, r)
      PROVE  regs[r] \cap Script[i].parts[r].mask
                 = Script[i].parts[r].bits \cap Script[i].parts[r].mask
  <2>1. at - 1 = Len(Script)
      BY <1>1
  <2>2. i \in 1 .. at - 1 /\ Writes(i, r) /\ ~Again(Script, i, r, at - 1)
      BY <1>1, <1>2, <2>1 DEF Stays, Writes
  <2>3. QED
      BY <1>1, <2>2 DEF NothingUndone
<1>3. QED
    BY <1>2 DEF Replaced, Left

\* Two contents that agree where the method wrote have the same answer.
LEMMA SameAnswer ==
    ASSUME NEW c, NEW f, NEW g, NEW D,
           \A p \in c.back : g[p.reg] = f[p.reg] \cap D[p.reg],
           \A p \in c.back : \A b \in p.bits \ D[p.reg] :
               b + p.shift \notin c.wins /\ Meaning(c.back, g) \cap c.wins # {}
    PROVE  Answer(c, f) = Answer(c, g)
<1> DEFINE held == Meaning(c.back, f)
           left == Meaning(c.back, g)
<1>1. left \subseteq held
    BY DEF Meaning
<1>2. ASSUME NEW v \in held, v \notin left
      PROVE  v \notin c.wins /\ left \cap c.wins # {}
  <2>p. PICK p \in c.back : \E b \in f[p.reg] \cap p.bits : v = b + p.shift
      BY <1>2 DEF Meaning
  <2>1. PICK b \in f[p.reg] \cap p.bits : v = b + p.shift
      BY <2>p
  <2>2. b \notin D[p.reg]
      BY <1>2, <2>1 DEF Meaning
  <2>3. QED
      BY <2>1, <2>2
<1> HIDE DEF held, left
<1>3. held \cap c.wins = left \cap c.wins
    BY <1>1, <1>2
<1>4. left \cap c.wins = {} => held = left
    BY <1>1, <1>2
<1>5. QED
    BY <1>3, <1>4 DEF Answer, held, left

LEMMA SuccessIsReadBack ==
    ASSUME RegInv, NothingUndone, Finished
    PROVE  ReadBack
<1> SUFFICES ASSUME result = "success", ~spoilt, ReadAgain(call)
             PROVE  Answer(call, regs) = call.argument
    BY DEF ReadBack
<1> DEFINE content == [r \in call.registers |-> Left(Script, r)]
           D == [r \in call.registers |-> Replaced(Script, r)]
<1>1. Answered(call)
    BY CallsAnswered DEF RegInv
<1>2. at = Len(Script) + 1
    BY <1>1 DEF Answered, Finished, Script
<1>3. \A p \in call.back : content[p.reg] = regs[p.reg] \cap D[p.reg]
    BY <1>1, <1>2, LeftInPlace DEF Answered
<1>4. \A p \in call.back : \A b \in p.bits \ D[p.reg] :
          b + p.shift \notin call.wins /\ Meaning(call.back, content) \cap call.wins # {}
    BY <1>1 DEF Answered, Script
<1>5. Answer(call, content) = call.argument
    BY <1>1 DEF Answered, Script
<1> HIDE DEF content, D
<1>6. Answer(call, regs) = Answer(call, content)
    BY <1>3, <1>4, SameAnswer
<1>7. QED
    BY <1>5, <1>6

\* Any driver whose setters and getters agree (CallsAnswered): after a setter
\* has succeeded the getter returns its argument, whichever transfers failed
\* and were repeated before (as LSM6DSL.h:368 and 346).
THEOREM SettingsAlwaysReadBack == RegSpec => []ReadBack
<1>1. RegInit => Finished
    BY DEF RegInit, Finished
<1>2. SetInv /\ Finished /\ [RegNext]_regVars => (SetInv /\ Finished)'
    BY SetNext, FinishedNext DEF SetInv
<1>3. SetInv /\ Finished => ReadBack
    BY SuccessIsReadBack DEF SetInv
<1>4. QED
    BY <1>1, <1>2, <1>3, SetInit, PTL DEF RegSpec
==============================================================================
