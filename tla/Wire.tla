-------------------------------- MODULE Wire --------------------------------
(***************************************************************************)
(* From the child to the parent: BackTraces::serializeToBuffer and         *)
(* deserializeFromBuffer of src/dmstack/unwind/backtraces.h, in a shared   *)
(* memory segment of serializedSize() bytes.  A cell is four bytes: an int *)
(* takes one, an address two.  Neither side compares what it reads or      *)
(* writes with the size of the segment.                                    *)
(***************************************************************************)
EXTENDS Stacks, SequencesExt

VARIABLES wpc,        \* "idle", "allocate", "count", "stacks", "read", "restore" or "done"
          mem,        \* the cells of the segment, by their offset
          size,       \* how many ftruncate has given it
          offset,     \* offset, of the side that is at work
          moved,      \* stacks written, or stacks still to be read
          restored    \* bts_ of the parent

wireVars == <<wpc, mem, size, offset, moved, restored>>

\* Fault: the cell of the number of addresses is forgotten.
StackCellsShort(frames) == 1 + 2 * Len(frames)

\* BackTrace::serializedSize.
StackCells(frames) == 2 + 2 * Len(frames)

\* BackTraces::serializedSize: the count, and stack after stack.
AllCells(stacks) ==
  LET sum[n \in 0..Len(stacks)] ==
        IF n = 0 THEN 1 ELSE sum[n - 1] + StackCells(stacks[n].frames)
  IN sum[Len(stacks)]

\* The cells of a stack: its thread, how many addresses, each address in halves.
Cells(s) ==
  <<s.tid, Len(s.frames)>>
    \o [k \in 1..(2 * Len(s.frames)) |-> <<s.frames[(k + 1) \div 2], k % 2>>]

\* The cells are written from the offset on, in the segment or behind it.
Written(cells) ==
  [o \in DOMAIN mem \cup offset..(offset + Len(cells) - 1) |->
     IF o \in offset..(offset + Len(cells) - 1) THEN cells[o - offset + 1] ELSE mem[o]]

WireTypeOK ==
  /\ wpc \in {"idle", "allocate", "count", "stacks", "read", "restore", "done"}
  /\ size \in Nat /\ offset \in Nat /\ moved \in Nat
  /\ restored \in Seq([tid : Nat, frames : Seq(Addr)])

\* Nothing is in the segment, and the reader has an empty BackTraces.
WireStart(start) ==
  /\ wpc = start
  /\ mem = <<>> /\ size = 0 /\ offset = 0 /\ moved = 0
  /\ restored = <<>>

-----------------------------------------------------------------------------
\* The segment has the size of what is to be written, and is all zeros.
Allocate ==
  /\ wpc = "allocate"
  /\ wpc' = "count"
  /\ size' = AllCells(captured)
  /\ mem' = [o \in 0..(AllCells(captured) - 1) |-> 0]
  /\ UNCHANGED <<offset, moved, restored>>

WriteCount ==
  /\ wpc = "count"
  /\ wpc' = "stacks"
  /\ mem' = Written(<<Len(captured)>>)
  /\ offset' = offset + 1
  /\ UNCHANGED <<size, moved, restored>>

\* BackTrace::serializeToBuffer.
WriteStack ==
  /\ wpc = "stacks" /\ moved < Len(captured)
  /\ LET cells == Cells(captured[moved + 1]) IN
       /\ mem' = Written(cells)
       /\ offset' = offset + Len(cells)
  /\ moved' = moved + 1
  /\ UNCHANGED <<wpc, size, restored>>

\* The child exits; the parent has waited for it, and starts at the front.
ChildDone ==
  /\ wpc = "stacks" /\ moved = Len(captured)
  /\ wpc' = "read"
  /\ offset' = 0 /\ moved' = 0
  /\ UNCHANGED <<mem, size, restored>>

ReadCount ==
  /\ wpc = "read"
  /\ wpc' = "restore"
  /\ moved' = mem[0]
  /\ offset' = 1
  /\ UNCHANGED <<mem, size, restored>>

\* BackTrace::deserializeFromBuffer, and the offset moves by what it has now.
ReadStack ==
  /\ wpc = "restore" /\ moved > 0
  /\ LET frames == [k \in 1..mem[offset + 1] |-> mem[offset + 2 * k][1]] IN
       /\ restored' = Append(restored, [tid |-> mem[offset], frames |-> frames])
       /\ offset' = offset + StackCells(frames)
  /\ moved' = moved - 1
  /\ UNCHANGED <<wpc, mem, size>>

ParentDone ==
  /\ wpc = "restore" /\ moved = 0
  /\ wpc' = "done"
  /\ UNCHANGED <<mem, size, offset, moved, restored>>

WireNext == \/ Allocate \/ WriteCount \/ WriteStack \/ ChildDone
            \/ ReadCount \/ ReadStack \/ ParentDone

-----------------------------------------------------------------------------
(* Properties.                                                             *)

\* Although nobody looks at the size of the segment: no cell outside of it is
\* written, reading ends where writing did, at its last cell, and the parent
\* has the stacks of the child in their order.
HandedOver ==
  /\ DOMAIN mem = 0..(size - 1)
  /\ offset <= size
  /\ wpc = "stacks" /\ moved = Len(captured) => offset = size
  /\ wpc = "done" => offset = size /\ restored = Traces(captured)
=============================================================================
