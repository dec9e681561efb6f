-------------------------------- MODULE MCRequests --------------------------------
(* One instance, for TLC, of what requests say and are told: listings, and *)
(* the functions of arguments and tags.  What these functions compute does *)
(* not depend on the volumes that exist, so their arguments are enumerated *)
(* in the empty system only.                                               *)
EXTENDS VolumeListing, VolumeRequest, VolumeTags

Prefix == <<112, 47>>                           \* p/
Keys == {<<102>>, <<111, 110>>}                 \* f, on
Bytes == {9, Space, Amp, Comma, Hyphen, Equal, 97}
Ids == 1..4

MCInit == Init /\ request = NoRequest /\ tags = NoTags

Fresh == exists = {} /\ status = "idle" /\ request = NoRequest /\ tags = NoTags

MCNext ==
    \/ Next /\ request = NoRequest /\ tags = NoTags /\ UNCHANGED <<request, tags>>
    \/ Fresh /\ Arrive /\ UNCHANGED <<vars, tags>>
    \/ Fresh /\ SetTags /\ UNCHANGED <<vars, request>>

MCSpec == MCInit /\ [][MCNext]_<<vars, request, tags>>
=============================================================================
