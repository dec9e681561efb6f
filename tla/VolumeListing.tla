------------------------------ MODULE VolumeListing ------------------------------
(***************************************************************************)
(* ListVolumes and ListSnapshots (pkg/driverd/controllerserver.go): a      *)
(* client asks for one page after the other, with the token of the last    *)
(* answer, while volumes are created and deleted.  The server keeps no     *)
(* state between the pages: it lists what there is, sorted, and looks the  *)
(* token up in it.                                                         *)
(***************************************************************************)
EXTENDS Naturals, FiniteSets, SequencesExt

CONSTANTS
    Id,         \* the ids of volumes, in the order of their groups and names
    Source,     \* source volumes to filter by; NoSource does not filter
    NoSource,
    MaxEntries  \* the largest page; a page of 0 is not limited

ASSUME VolumeListingAssumption ==
    /\ Id \subseteq Nat \ {0}       \* 0 is no id; names are of bounded length
    /\ IsFiniteSet(Id)
    /\ MaxEntries \in Nat

VARIABLES
    exists,     \* the logical volumes
    source,     \* source[x]: the volume that x was made of
    filter,     \* the source volume that the client asks for
    token,      \* the token of the client's next request; 0: none
    seen,       \* the entries that the client got so far
    lasting,    \* history: what matched ever since the listing began
    lost,       \* history: whether anything that matched is gone since
    status      \* "idle", "more", "complete" or "aborted"

vars == <<exists, source, filter, token, seen, lasting, lost, status>>

Matches(x, f) == f = NoSource \/ source[x] = f

Init ==
    /\ exists \in SUBSET Id
    /\ source \in [Id -> Source \cup {NoSource}]
    /\ \A x \in Id : x \in exists <=> source[x] \in Source
    /\ filter = NoSource
    /\ token = 0
    /\ seen = <<>>
    /\ lasting = {}
    /\ lost = FALSE
    /\ status = "idle"

-----------------------------------------------------------------------------
(* Lvs, with a selection, sorted by group and name. *)
Sorted(S) ==
    CHOOSE list \in [1..Cardinality(S) -> S] :
        \A i, j \in 1..Cardinality(S) : i < j => list[i] < list[j]

Lvs(f) == Sorted({x \in exists : Matches(x, f)})

(* The page of at most max entries of lvs from index i on, and the token   *)
(* that follows it: the first entry that it leaves out.                    *)
PageEnd(lvs, i, max) ==
    IF max > 0 /\ i + max - 1 < Len(lvs) THEN i + max - 1 ELSE Len(lvs)

NextToken_Last(lvs, end) == IF end < Len(lvs) THEN lvs[end] ELSE 0
NextToken(lvs, end) == IF end < Len(lvs) THEN lvs[end + 1] ELSE 0

(* One request.  A token that is not in the list is refused. *)
List(f, start, got, max) ==
    LET lvs == Lvs(f)
        i == IF start = 0 THEN 1 ELSE SelectInSeq(lvs, LAMBDA x : x = start)
        end == PageEnd(lvs, i, max)
    IN  IF i = 0
        THEN /\ status' = "aborted"
             /\ UNCHANGED <<token, seen>>
        ELSE /\ seen' = got \o SubSeq(lvs, i, end)
             /\ token' = NextToken(lvs, end)
             /\ status' = IF token' = 0 THEN "complete" ELSE "more"

FirstPage(f, max) ==
    /\ status # "more"
    /\ filter' = f
    /\ lasting' = {x \in exists : Matches(x, f)}
    /\ lost' = FALSE
    /\ List(f, 0, <<>>, max)
    /\ UNCHANGED <<exists, source>>

NextPage(max) ==
    /\ status = "more"
    /\ List(filter, token, seen, max)
    /\ UNCHANGED <<exists, source, filter, lasting, lost>>

(* Volumes come and go, through any node. *)
Create(x, s) ==
    /\ x \notin exists
    /\ exists' = exists \cup {x}
    /\ source' = [source EXCEPT ![x] = s]
    /\ UNCHANGED <<filter, token, seen, lasting, lost, status>>

Delete(x) ==
    /\ x \in exists
    /\ exists' = exists \ {x}
    /\ source' = [source EXCEPT ![x] = NoSource]
    /\ lasting' = lasting \ {x}
    /\ lost' = (lost \/ Matches(x, filter))
    /\ UNCHANGED <<filter, token, seen, status>>

Next ==
    \/ \E max \in 0..MaxEntries :
          \/ \E f \in Source \cup {NoSource} : FirstPage(f, max)
          \/ NextPage(max)
    \/ \E x \in Id : Delete(x) \/ \E s \in Source : Create(x, s)

Spec == Init /\ [][Next]_vars

-----------------------------------------------------------------------------
(* A listing that ends without an error has every volume that matched all  *)
(* along, and no volume twice, though others came and went between its     *)
(* pages.  It is aborted only if a volume that its pages could name was    *)
(* deleted meanwhile, so that a client that starts again gets on           *)
(* (controllerserver.go:603-656, 821-900).                                 *)
ListingIsExact ==
    /\ \A i, j \in DOMAIN seen : i < j => seen[i] < seen[j]
    /\ status = "complete" => lasting \subseteq {seen[i] : i \in DOMAIN seen}
    /\ status = "aborted" => lost
=============================================================================
