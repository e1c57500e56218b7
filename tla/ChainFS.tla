-------------------------------- MODULE ChainFS --------------------------------
(***************************************************************************)
(* The file system ChainFS on a block device: block 0 describes the free   *)
(* blocks, and each file adds descriptors to a chain of blocks that starts *)
(* there.  Modelled are format, init, the helpers get_free_blocks and      *)
(* add_descriptor, and the part of open that makes a new file with them.   *)
(* A write to the device may fail, and the power may go at any time; the   *)
(* blocks keep what they hold, also over a format.                         *)
(***************************************************************************)
EXTENDS Integers, Sequences, SequencesExt

CONSTANT NumBlocks   \* of the device
ASSUME NumBlocksAssumption == NumBlocks \in Nat /\ NumBlocks > 1

None == -1           \* 0xFFFFFFFF, also what an erased block holds
Blocks == 0 .. NumBlocks - 1
Erased == [type |-> "none", next |-> None, start |-> None, len |-> 0]

VARIABLES
    disk,        \* the descriptor in each block
    step,        \* what the file system does
    last_block,  \* the end of the chain, as init found it
    free_block,  \* the last free descriptor of the chain, or None
    made,        \* the block and type of the descriptor being added
    chained,     \* ghost: the blocks added since the last format
    given,       \* ghost: the blocks get_free_blocks gave since then
    torn         \* ghost: "link" when a link was written and not the block it
                 \* leads to, "chain" when that was mounted, else "no"

fsVars == <<disk, step, last_block, free_block, made, chained, given, torn>>

FsInit ==
    /\ disk = [b \in Blocks |-> Erased]
    /\ step = "unformatted"
    /\ last_block = None /\ free_block = None
    /\ made = [block |-> None, type |-> "none"]
    /\ chained = <<0>> /\ given = {} /\ torn = "no"

\* One round of the loop in init: the next block, if there is one.
Longer(d, w) == IF d[Last(w)].next = None THEN w ELSE Append(w, d[Last(w)].next)
\* The blocks of the chain from block 0; it is cut after NumBlocks, so that a
\* chain that leads back into itself is longer than any that does not.
Chain(d) ==
    LET walk[n \in 0 .. NumBlocks] ==
            IF n = 0 THEN <<0>> ELSE Longer(d, walk[n - 1])
    IN  walk[NumBlocks]

\* A write of block b happens, or fails and may have happened.
WriteBlock(b, content) == disk' = [disk EXCEPT ![b] = content]
WriteFails(b, content) == UNCHANGED disk \/ WriteBlock(b, content)

-----------------------------------------------------------------------------
\* format: the whole device but block 0 is free.
FreeDescriptor == [type |-> "free", next |-> None, start |-> 1, len |-> NumBlocks - 1]
Formatted ==
    /\ step' = "unmounted"
    /\ chained' = <<0>> /\ given' = {} /\ torn' = "no"
Format ==
    /\ step \in {"unformatted", "unmounted", "ready"}
    /\ WriteBlock(0, FreeDescriptor)
    /\ Formatted
    /\ UNCHANGED <<last_block, free_block, made>>
\* Its only write fails, or is the last before the power goes; the client then
\* goes on as the disk is, and mounts it again when the write has happened.
FormatFails ==
    /\ step \in {"unformatted", "unmounted", "ready"}
    /\ WriteFails(0, FreeDescriptor)
    /\ IF disk' = disk THEN UNCHANGED <<step, chained, given, torn>> ELSE Formatted
    /\ UNCHANGED <<last_block, free_block, made>>

\* init: the end of the chain, and the last free descriptor in it.  It does not
\* end on a chain that leads back into itself.
Mount ==
    /\ step = "unmounted"
    /\ LET c == Chain(disk)
           free == {i \in DOMAIN c : disk[c[i]].type = "free"}
       IN  /\ Len(c) <= NumBlocks
           /\ last_block' = Last(c)
           /\ free_block' = IF free = {} THEN None ELSE c[Max(free)]
    /\ step' = "ready"
    /\ torn' = IF torn = "no" THEN "no" ELSE "chain"
    /\ UNCHANGED <<disk, made, chained, given>>

\* open of a new file: a name descriptor, then a data descriptor.
Open ==
    /\ step = "ready"
    /\ made' = [block |-> None, type |-> "name"]
    /\ step' = "allocate"
    /\ UNCHANGED <<disk, last_block, free_block, chained, given, torn>>

\* get_free_blocks takes one block from the free descriptor, if there is one.
\* Mutant: the free blocks still start where they did.
ShrunkFromEnd == [disk[free_block] EXCEPT !.len = @ - 1]
Shrunk == [disk[free_block] EXCEPT !.start = @ + 1, !.len = @ - 1]
NoSpace ==
    /\ step = "allocate"
    /\ free_block = None \/ disk[free_block].len < 1
    /\ step' = "ready"
    /\ UNCHANGED <<disk, last_block, free_block, made, chained, given, torn>>
HasSpace == step = "allocate" /\ free_block # None /\ disk[free_block].len >= 1
GetFreeBlock ==
    /\ HasSpace
    /\ WriteBlock(free_block, Shrunk)
    /\ made' = [made EXCEPT !.block = disk[free_block].start]
    /\ given' = given \cup {disk[free_block].start}
    /\ step' = "link"
    /\ UNCHANGED <<last_block, free_block, chained, torn>>
GetFreeBlockFails ==
    /\ HasSpace
    /\ WriteFails(free_block, Shrunk)
    /\ step' = "ready"
    /\ UNCHANGED <<last_block, free_block, made, chained, given, torn>>

\* add_descriptor first links the new block to the end of the chain, then
\* writes it.
Tear == IF torn = "no" THEN "link" ELSE torn
Linked == [disk[last_block] EXCEPT !.next = made.block]
Link ==
    /\ step = "link"
    /\ WriteBlock(last_block, Linked)
    /\ torn' = Tear
    /\ step' = "describe"
    /\ UNCHANGED <<last_block, free_block, made, chained, given>>
LinkFails ==
    /\ step = "link"
    /\ WriteFails(last_block, Linked)
    /\ torn' = IF disk' = disk THEN torn ELSE Tear
    /\ step' = "ready"
    /\ UNCHANGED <<last_block, free_block, made, chained, given>>
Described == [type |-> made.type, next |-> None, start |-> None, len |-> 0]
\* Mutant: the end of the chain stays where it was.
DescribeKeepsEnd ==
    /\ step = "describe"
    /\ WriteBlock(made.block, Described)
    /\ torn' = IF torn = "link" THEN "no" ELSE torn
    /\ chained' = Append(chained, made.block)
    /\ IF made.type = "name"
       THEN made' = [block |-> None, type |-> "data"] /\ step' = "allocate"
       ELSE step' = "ready" /\ UNCHANGED made
    /\ UNCHANGED <<last_block, free_block, given>>
Describe ==
    /\ step = "describe"
    /\ WriteBlock(made.block, Described)
    /\ torn' = IF torn = "link" THEN "no" ELSE torn
    /\ chained' = Append(chained, made.block)
    /\ last_block' = made.block
    /\ IF made.type = "name"
       THEN made' = [block |-> None, type |-> "data"] /\ step' = "allocate"
       ELSE step' = "ready" /\ UNCHANGED made
    /\ UNCHANGED <<free_block, given>>
DescribeFails ==
    /\ step = "describe"
    /\ WriteFails(made.block, Described)
    /\ step' = "ready"
    /\ UNCHANGED <<last_block, free_block, made, chained, given, torn>>

\* The power goes, in the middle of a write or between two; in format it
\* leaves what FormatFails does.
Crash ==
    /\ step \notin {"unformatted", "unmounted"}
    /\ CASE HasSpace -> WriteFails(free_block, Shrunk)
         [] step = "link" -> WriteFails(last_block, Linked)
         [] step = "describe" -> WriteFails(made.block, Described)
         [] OTHER -> UNCHANGED disk
    /\ torn' = IF step # "link" \/ disk' = disk THEN torn ELSE Tear
    /\ step' = "unmounted"
    /\ UNCHANGED <<last_block, free_block, made, chained, given>>

FsNext ==
    \/ Format \/ FormatFails \/ Mount \/ Open \/ NoSpace \/ GetFreeBlock
    \/ GetFreeBlockFails \/ Link \/ LinkFails \/ Describe \/ DescribeFails \/ Crash
FsSpec == FsInit /\ [][FsNext]_fsVars

-----------------------------------------------------------------------------
\* The chain holds the descriptors that were added since the last format, in
\* their order and no others, also after a crash, unless one came between a
\* link and its block ("the last descriptor is still messed up!").
ChainWhole == step \in {"unmounted", "ready"} /\ torn = "no" => Chain(disk) = chained

\* No block is given to two descriptors, and none that was given is still free,
\* whatever failed or crashed in between.
GivenOnce ==
    step # "unformatted" =>
        /\ given \cap disk[0].start .. disk[0].start + disk[0].len - 1 = {}
        /\ \A i, j \in DOMAIN chained : chained[i] = chained[j] => i = j
================================================================================
