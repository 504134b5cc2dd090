-------------------------------- MODULE Arena --------------------------------
(***************************************************************************)
(* The arena that holds the entries of a memtable and the nodes of its     *)
(* skip list (util/arena.cc, util/arena.h): memory is cut from blocks and  *)
(* given back only with the arena.                                         *)
(***************************************************************************)
EXTENDS Integers, Sequences, FiniteSets, FiniteSetsExt

CONSTANTS
  BlockSize,   \* kBlockSize: 4096
  Align,       \* of a pointer: 8; new[] returns memory that is aligned at least like this
  MaxBytes,    \* of one allocation
  MaxBlocks    \* blocks_ of an arena

ArenaAssumption ==
  /\ {BlockSize, Align, MaxBytes, MaxBlocks} \subseteq Nat \ {0} /\ BlockSize % Align = 0

VARIABLES
  blocks,      \* their sizes
  block, ptr,  \* alloc_ptr_: an offset in one of the blocks
  remaining,   \* alloc_bytes_remaining_
  last,        \* the memory that was handed out last
  top          \* history: how far each block has been handed out

vars == <<blocks, block, ptr, remaining, last, top>>

Init ==
  /\ blocks = <<>> /\ block = 0 /\ ptr = 0 /\ remaining = 0
  /\ last = [block |-> 0, from |-> 0, to |-> 0, aligned |-> FALSE] /\ top = <<>>

HandOut(b, from, bytes, aligned) ==
  /\ last' = [block |-> b, from |-> from, to |-> from + bytes, aligned |-> aligned]
  /\ top' = [i \in DOMAIN blocks' |-> IF i = b THEN Max({from + bytes, IF i \in DOMAIN top THEN top[i] ELSE 0})
                                      ELSE top[i]]

\* AllocateNewBlock
NewBlock(bytes) == Len(blocks) < MaxBlocks /\ blocks' = Append(blocks, bytes)

\* From the current block
Cut(slop, bytes, aligned) ==
  /\ UNCHANGED <<blocks, block>> /\ HandOut(block, ptr + slop, bytes, aligned)
  /\ ptr' = ptr + slop + bytes /\ remaining' = remaining - (slop + bytes)

\* AllocateFallback: a large object has a block to itself, and the current block stays.
Fallback(bytes, aligned) ==
  \/ /\ bytes > BlockSize \div 4 /\ NewBlock(bytes)
     /\ HandOut(Len(blocks'), 0, bytes, aligned) /\ UNCHANGED <<block, ptr, remaining>>
  \/ /\ bytes <= BlockSize \div 4 /\ NewBlock(BlockSize)
     /\ HandOut(Len(blocks'), 0, bytes, aligned)
     /\ block' = Len(blocks') /\ ptr' = bytes /\ remaining' = BlockSize - bytes

Allocate(bytes) ==
  IF bytes <= remaining THEN Cut(0, bytes, FALSE) ELSE Fallback(bytes, FALSE)

\* Variant: the room is checked without the slop.
AllocateAlignedTight(bytes) ==
  LET slop == IF ptr % Align = 0 THEN 0 ELSE Align - (ptr % Align) IN
  IF bytes <= remaining THEN Cut(slop, bytes, TRUE) ELSE Fallback(bytes, TRUE)

AllocateAligned(bytes) ==
  LET slop == IF ptr % Align = 0 THEN 0 ELSE Align - (ptr % Align) IN
  IF slop + bytes <= remaining THEN Cut(slop, bytes, TRUE) ELSE Fallback(bytes, TRUE)

Next == \E bytes \in 1..MaxBytes : Allocate(bytes) \/ AllocateAligned(bytes)

Spec == Init /\ [][Next]_vars

-------------------------------------------------------------------------------
(* Properties *)

NewPiece ==
  /\ last'.to <= blocks'[last'.block] /\ (last'.aligned => last'.from % Align = 0)
  /\ last'.block \in DOMAIN top => last'.from >= top[last'.block]

\* What is handed out lies inside its block, is aligned where that was asked for, and overlaps
\* nothing that has been handed out before.
PieceIsNew == [][NewPiece]_vars

===============================================================================
