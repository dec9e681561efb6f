----------------------------- MODULE BlockAllocator -----------------------------
(***************************************************************************)
(* What the mailbox expects of the allocator of its data blocks: it hands  *)
(* out aligned blocks whose size is a power of two, the lowest that is     *)
(* free, refuses a request only when no such block is free, and takes back *)
(* exactly what it handed out.                                             *)
(***************************************************************************)
EXTENDS Integers, FiniteSetsExt

CONSTANT Size       \* blocks of the file, a power of two

VARIABLES
    live,           \* the blocks handed out, each [addr, size]
    last            \* the last call, its argument and what it returned: an
                    \* address, OK or Error

(* Not addresses: the outcome of a Free, and of a call that failed. *)
OK == -2
Error == -1

Pow2[n \in 0..31] == IF n = 0 THEN 1 ELSE 2 * Pow2[n - 1]

Powers == {Pow2[e] : e \in 0..30} \cap 1..Size

Blocks(k) == {[addr |-> a, size |-> k] : a \in {x \in 0..(Size - k) : x % k = 0}}

Overlap(b, c) == b.addr < c.addr + c.size /\ c.addr < b.addr + b.size

Available(k) == {b \in Blocks(k) : \A c \in live : ~Overlap(b, c)}

Init == live = {} /\ last = <<"none", 0, OK>>

Alloc(size) ==
    LET fits == {k \in Powers : k >= size}
        free == IF size <= 0 \/ fits = {} THEN {} ELSE Available(Min(fits))
    IN  IF free = {}
        THEN last' = <<"Alloc", size, Error>> /\ UNCHANGED live
        ELSE LET b == CHOOSE x \in free : \A y \in free : x.addr <= y.addr
             IN  last' = <<"Alloc", size, b.addr>> /\ live' = live \cup {b}

Free(addr) ==
    IF \E b \in live : b.addr = addr
    THEN last' = <<"Free", addr, OK>> /\ live' = {b \in live : b.addr # addr}
    ELSE last' = <<"Free", addr, Error>> /\ UNCHANGED live

Next ==
    \/ \E size \in 0..(Size + 1) : Alloc(size)
    \/ \E addr \in 0..Size : Free(addr)

Spec == Init /\ [][Next]_<<live, last>>
=============================================================================
