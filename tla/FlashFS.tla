-------------------------------- MODULE FlashFS --------------------------------
(***************************************************************************)
(* The flash file system (io/flashfs.c): one file that only grows, written *)
(* through a ring buffer into pages that can be programmed once between    *)
(* two erasures.                                                           *)
(*                                                                         *)
(* The state is one record f, and each function of the C file an operator  *)
(* from the record to what it leaves.  A byte is its number in the order   *)
(* in which the bytes were written, so that a lost, a repeated and a       *)
(* misplaced byte can be told apart.                                       *)
(***************************************************************************)
EXTENDS Integers, Sequences, FiniteSetsExt

CONSTANTS
    BufferSize,     \* FLASHFS_WRITE_BUFFER_SIZE
    AutoFlushLen,   \* FLASHFS_WRITE_BUFFER_AUTO_FLUSH_LEN
    PageSize,       \* geometry->pageSize
    BlockSize,      \* FREE_BLOCK_SIZE
    TestSize,       \* FREE_BLOCK_TEST_SIZE_BYTES
    Size            \* flashfsGetSize()

ASSUME FlashAssumption ==
    /\ {BufferSize, AutoFlushLen, PageSize, BlockSize, TestSize, Size} \subseteq Nat \ {0}
    /\ AutoFlushLen < BufferSize
    /\ BlockSize % PageSize = 0 /\ Size % BlockSize = 0 /\ TestSize <= BlockSize

Usable  == BufferSize - 1
Erased  == 0
Garbled == -1                   \* programmed twice
Cells   == 0 .. Size - 1

(* dirty is what the ring holds, oldest byte first, and address where that
   byte will be stored; busy while the chip executes a command.            *)
FileType == [dirty : Seq(Int), address : Nat, flash : [Cells -> Int], busy : BOOLEAN]

Cleared(f)   == [f EXCEPT !.dirty = <<>>]
FreeSpace(f) == Usable - Len(f.dirty)
IsEmpty(f)   == f.dirty = <<>>
IsEOF(f)     == f.address >= Size

(* flashPageProgram(): bits are only ever cleared.                          *)
Program(f, data) ==
    [f EXCEPT !.flash = [a \in Cells |->
                            IF a \notin f.address .. f.address + Len(data) - 1 THEN @[a]
                            ELSE IF @[a] = Erased THEN data[a - f.address + 1] ELSE Garbled],
              !.address = @ + Len(data),
              !.busy = TRUE]

(* flashfsWriteBuffers(): what it leaves and how much of data it wrote.  An
   asynchronous call writes up to the end of the page, if the chip is
   ready; a synchronous one waits, page by page.  Both throw the buffer
   away at the end of the volume.                                          *)
WriteBuffers(f, data, sync) ==
    LET room    == IF sync THEN Size - f.address ELSE PageSize - (f.address % PageSize)
        written == Min({Len(data), room})
        result  == Program(f, SubSeq(data, 1, written))
    IN IF ~sync /\ f.busy THEN [fs |-> f, written |-> 0]
       ELSE IF IsEOF(f)   THEN [fs |-> Cleared(f), written |-> 0]
       ELSE [fs      |-> IF sync /\ written < Len(data) THEN Cleared(result) ELSE result,
             written |-> written]

AdvanceTail(f, delta) == [f EXCEPT !.dirty = SubSeq(@, delta + 1, Len(@))]

FlushAsync(f) ==
    LET r == WriteBuffers(f, f.dirty, FALSE)
    IN IF IsEmpty(f) THEN f ELSE AdvanceTail(r.fs, r.written)

FlushSync(f) ==
    IF IsEmpty(f) THEN f ELSE Cleared(WriteBuffers(f, f.dirty, TRUE).fs)

(* Nothing asks whether there is room: with one byte too many the head of
   the ring reaches its tail, and the full ring is an empty one.           *)
WriteByte(f, byte) ==
    LET stored == [f EXCEPT !.dirty = IF Len(@) = Usable THEN <<>> ELSE Append(@, byte)]
    IN IF Len(stored.dirty) >= AutoFlushLen THEN FlushAsync(stored) ELSE stored

(* flashfsWrite(data, len, FALSE): ring and data are tried as one; what
   cannot be buffered afterwards is dropped.  Its mutant forgets that part
   of the data has been written.                                           *)
Remainder(f, data, result, kept) ==
    LET left == AdvanceTail(result.fs, result.written)
    IN IF Len(f.dirty \o data) - result.written > Usable THEN left
       ELSE [left EXCEPT !.dirty = @ \o kept]
Through(f, data) == WriteBuffers(f, f.dirty \o data, FALSE)
WriteAll(f, data) ==
    IF Len(f.dirty \o data) < AutoFlushLen THEN [f EXCEPT !.dirty = @ \o data]
    ELSE Remainder(f, data, Through(f, data), data)
Write(f, data) ==
    LET r    == Through(f, data)
        rest == SubSeq(data, Max({r.written - Len(f.dirty), 0}) + 1, Len(data))
    IN IF Len(f.dirty \o data) < AutoFlushLen THEN [f EXCEPT !.dirty = @ \o data]
       ELSE Remainder(f, data, r, rest)

(* flashfsIdentifyStartOfFreeSpace(): a binary search for the first block
   that looks erased.                                                      *)
Blocks == 0 .. Size \div BlockSize
LooksErased(f, block) == \A i \in 0 .. TestSize - 1 : f.flash[block * BlockSize + i] = Erased
StartOfFreeSpace(f) ==
    LET search[range \in Blocks \X Blocks] ==       \* [left, right), right is the best so far
          LET left == range[1]  right == range[2]  mid == (left + right) \div 2
          IN IF left >= right THEN right
             ELSE IF LooksErased(f, mid) THEN search[<<left, mid>>] ELSE search[<<mid + 1, right>>]
    IN search[<<0, Size \div BlockSize>>] * BlockSize

Fresh == [dirty |-> <<>>, address |-> 0, flash |-> [a \in Cells |-> Erased], busy |-> FALSE]

(* flashfsEraseCompletely(), and flashfsInit() after a power cycle.         *)
EraseCompletely(f) == [Cleared(f) EXCEPT !.flash = Fresh.flash, !.address = 0, !.busy = TRUE]
Boot(f)            == [Fresh EXCEPT !.flash = f.flash, !.address = StartOfFreeSpace(f)]
==============================================================================
