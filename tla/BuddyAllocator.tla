----------------------------- MODULE BuddyAllocator -----------------------------
(***************************************************************************)
(* The buddy allocator of the mailbox (pkg/diskrpc/allocator.go).  Its     *)
(* tree is an array: the children of node i are 2i+1 and 2i+2.  A node     *)
(* holds the size of the largest block that is free below it, negated when *)
(* the node itself has been handed out.                                    *)
(***************************************************************************)
EXTENDS Integers, FiniteSetsExt

CONSTANT Size       \* blocks of the file

(* 1 << n, as far as an int32 goes. *)
Pow2[n \in 0..31] == IF n = 0 THEN 1 ELSE 2 * Pow2[n - 1]

ASSUME SizeAssumption == \E e \in 0..30 : Size = Pow2[e]

VARIABLES
    nodes,          \* the tree
    last            \* the last call, its argument and what it returned

(* Not addresses: the outcome of a Free, and of a call that failed. *)
OK == -2
Error == -1

Pos == 0..(2 * Size - 2)
InTree(pos) == pos \in Pos
Left(pos) == 2 * pos + 1
Right(pos) == 2 * pos + 2

Larger(a, b) == IF a > b THEN a ELSE b

Level == [pos \in Pos |-> CHOOSE l \in 0..30 : Pow2[l] <= pos + 1 /\ pos + 1 < Pow2[l + 1]]
SizeAt == [pos \in Pos |-> Size \div Pow2[Level[pos]]]
Address == [pos \in Pos |-> (pos - (Pow2[Level[pos]] - 1)) * SizeAt[pos]]

(* The nodes of the subtree at pos: their regions are inside that of pos. *)
Under ==
    [pos \in Pos |-> {p \in Pos : /\ Address[pos] <= Address[p]
                                  /\ Address[p] + SizeAt[p] <= Address[pos] + SizeAt[pos]}]

(* initialize: every node is free. *)
Initialized == SizeAt

(* alloc goes down, leftmost first, to the node that it hands out. *)
AllocStops(t, pos, size) ==
    \A child \in {Left(pos), Right(pos)} : ~(InTree(child) /\ t[child] >= size)

AllocChild(t, pos, size) == IF t[Left(pos)] >= size THEN Left(pos) ELSE Right(pos)

AllocNode(t, size) ==
    LET at[pos \in Pos] ==
            IF AllocStops(t, pos, size) THEN pos ELSE at[AllocChild(t, pos, size)]
    IN  at[0]

(* free goes down to the allocated node whose region holds addr, or to a   *)
(* leaf.                                                                   *)
FreeStops(t, pos) == t[pos] < 0 \/ ~InTree(Left(pos))

FreeChild(pos, addr) ==
    IF addr - Address[pos] < SizeAt[pos] \div 2 THEN Left(pos) ELSE Right(pos)

FreeNode(t, addr) ==
    LET at[pos \in Pos] == IF FreeStops(t, pos) THEN pos ELSE at[FreeChild(pos, addr)]
    IN  at[0]

(* Both negate that node.  On the way back up, a node becomes the largest  *)
(* of its children, or whole again when free finds that both are free.     *)
Raise_NoMerge(left, right, pos, merge) == Larger(Larger(left, right), 0)
Raise(left, right, pos, merge) ==
    IF merge /\ left + right = SizeAt[pos] THEN SizeAt[pos]
    ELSE Larger(Larger(left, right), 0)

Negate(t, pos, merge) ==
    LET new[p \in Pos] ==
            IF p = pos THEN -t[p]
            ELSE IF pos \in Under[p] THEN Raise(new[Left(p)], new[Right(p)], p, merge)
            ELSE t[p]
    IN  new

-----------------------------------------------------------------------------
TreeInit == nodes = Initialized /\ last = <<"none", 0, OK>>

CanAlloc(size) == size > 0 /\ nodes[0] >= size

Alloc(size) ==
    IF ~CanAlloc(size)
    THEN last' = <<"Alloc", size, Error>> /\ UNCHANGED nodes
    ELSE LET pos == AllocNode(nodes, size)
         IN  /\ nodes' = Negate(nodes, pos, FALSE)
             /\ last' = <<"Alloc", size, Address[pos]>>

CanFree_Inside(pos, addr) == nodes[pos] < 0
CanFree(pos, addr) == nodes[pos] < 0 /\ Address[pos] = addr

Free(addr) ==
    LET pos == FreeNode(nodes, addr)
    IN  IF CanFree(pos, addr)
        THEN nodes' = Negate(nodes, pos, TRUE) /\ last' = <<"Free", addr, OK>>
        ELSE last' = <<"Free", addr, Error>> /\ UNCHANGED nodes

TreeNext ==
    \/ \E size \in 0..(Size + 1) : Alloc(size)
    \/ \E addr \in 0..Size : Free(addr)

TreeSpec == TreeInit /\ [][TreeNext]_<<nodes, last>>

-----------------------------------------------------------------------------
Live == {[addr |-> Address[pos], size |-> SizeAt[pos]] : pos \in {p \in Pos : nodes[p] < 0}}

Abstract == INSTANCE BlockAllocator WITH live <- Live

(* Refinement: whatever was allocated and freed before, Alloc hands out    *)
(* the lowest free block of the size that fits and fails only when there   *)
(* is none, and Free takes back a block handed out and nothing else        *)
(* (allocator.go:108-165).                                                 *)
ImplementsBlockAllocator == Abstract!Spec

Covered(pos) == \E p \in Pos : p # pos /\ pos \in Under[p] /\ nodes[p] < 0

Vacant(pos) == ~Covered(pos) /\ \A p \in Under[pos] : nodes[p] >= 0

(* The tree stored in the STATE segments is exact: every node that is not  *)
(* inside an allocated one tells the largest block that can be had below   *)
(* it, so no space is lost to fragments that a free should have joined     *)
(* (allocator.go:128, 155-163).                                            *)
TreeIsExact ==
    \A pos \in Pos :
        /\ nodes[pos] < 0 => nodes[pos] = -SizeAt[pos] /\ ~Covered(pos)
        /\ nodes[pos] >= 0 /\ ~Covered(pos) =>
              nodes[pos] = Max({0} \cup {SizeAt[p] : p \in {q \in Under[pos] : Vacant(q)}})
=============================================================================
