------------------------------ MODULE MCMailBoxFile ------------------------------
(* One instance, for TLC, of what the mailbox file is made of: the STATE   *)
(* segments, the format, and the allocation tree.  A behaviour is about    *)
(* one of the three, its subject; the other two stay as they are.          *)
EXTENDS MailBoxFormat, BuddyAllocator

VARIABLE subject

MCInit ==
    /\ subject \in {"segments", "format", "tree"}
    /\ IF subject = "segments" THEN Init ELSE SegInit([p \in Part |-> 0])
    /\ FormatInit
    /\ TreeInit

MCNext ==
    /\ UNCHANGED subject
    /\ \/ subject = "segments" /\ Next /\ UNCHANGED <<formatVars, nodes, last>>
       \/ subject = "format" /\ FormatNext /\ UNCHANGED <<segVars, nodes, last>>
       \/ subject = "tree" /\ TreeNext /\ UNCHANGED <<segVars, formatVars>>

MCSpec == MCInit /\ [][MCNext]_<<subject, segVars, formatVars, nodes, last>>
=============================================================================
