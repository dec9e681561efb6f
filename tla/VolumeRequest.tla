------------------------------ MODULE VolumeRequest ------------------------------
(***************************************************************************)
(* What the controller server makes of the arguments of a request          *)
(* (pkg/driverd/controllerserver.go): the size of a volume or a snapshot,  *)
(* and the capabilities that a list of them comes down to.                 *)
(***************************************************************************)
EXTENDS Integers, SequencesExt

CONSTANTS
    Sector,     \* 512
    Word,       \* 2^64: sizes are unsigned words
    MaxBytes,   \* the size of a volume group
    DefaultSize,\* the size without a capacity range
    Parts,      \* a share is a number of so many parts of one
    NaN,        \* the share "NaN"
    Unset,      \* a parameter that is not given
    FsType,     \* what a mount capability may give as its file system
    DefaultFs,  \* the file system of volumes that are mounted
    MaxCaps     \* the number of capabilities in a request

ASSUME VolumeRequestAssumption ==
    /\ Sector \in Nat \ {0} /\ Parts \in Nat \ {0}
    /\ Word \in Nat /\ MaxBytes \in Nat /\ DefaultSize \in Nat /\ MaxCaps \in Nat
    /\ 2 * MaxBytes < Word /\ 4 * Sector < Word \* a volume group has at most 2^63 bytes
    /\ NaN \notin Int /\ Unset \notin Int /\ NaN # Unset

VARIABLE request            \* the arguments that a handler is given

Refused == Word             \* an error, instead of a size

RoundUp_Down(bytes) == (bytes \div Sector) * Sector
RoundUp(bytes) == (((bytes + Sector - 1) % Word) \div Sector) * Sector

(* The limit alone: one sector less a byte is taken off it first. *)
RoundDown(bytes) == (((bytes + Word - (Sector - 1)) % Word) \div Sector) * Sector

(* A range gives the required bytes, the limit, or both, as signed words. *)
VolumeSize(range, required, limit) ==
    CASE ~range -> DefaultSize
      [] range /\ required > 0 ->
            IF limit > 0 /\ RoundUp(required) > limit THEN Refused ELSE RoundUp(required)
      [] range /\ required <= 0 /\ limit > 0 -> RoundDown(limit)
      [] OTHER -> Refused

(* uint64(float64(origin) * pct): the fraction is dropped, and what is no  *)
(* unsigned word becomes one that depends on the processor.                *)
Truncated(origin, pct) ==
    IF pct = NaN THEN 0..(Word - 1)
    ELSE IF origin * pct <= -Parts THEN 0..(Word - 1)
    ELSE IF pct < 0 THEN {0}
    ELSE {(origin * pct) \div Parts}

Least(a, b) == IF b < a THEN b ELSE a

(* The test of maxSizePct lets a share below 0 and "NaN" pass. *)
PctRefused(pct) == IF pct \in {NaN, Unset} THEN FALSE ELSE pct = 0 \/ pct > Parts

(* The sizes that a snapshot may be given: the size of its origin, at most *)
(* a share of it and at most so many bytes.                                *)
SnapshotSizes(origin, pct, bytes) ==
    LET shares == IF pct = Unset THEN {origin}
                  ELSE {Least(origin, RoundUp(word)) : word \in Truncated(origin, pct)}
    IN  IF PctRefused(pct) \/ bytes = 0 THEN {Refused}
        ELSE IF bytes = Unset THEN shares
        ELSE {Least(share, RoundUp(bytes)) : share \in shares}

-----------------------------------------------------------------------------
Mode == {"reader", "writer", "single", "multi", "shared"}

(* "for each access mode by supported by this driver, all the compatible,  *)
(* narrower access modes"; "shared", for many nodes, is not supported.     *)
VolCapAccessModeCompat ==
    [multi |-> {"multi", "single", "writer"}, reader |-> {"reader"},
     single |-> {"multi", "writer"}, writer |-> {"multi", "single", "writer"}]

Supported == DOMAIN VolCapAccessModeCompat

(* The access type: a mount gives a file system, which may be empty, and   *)
(* flags, which are there or not.                                          *)
Mount(fs, flags) == [type |-> "mount", fs |-> fs, flags |-> flags]
Block == [type |-> "block", fs |-> Unset, flags |-> FALSE]
NoAccess == [type |-> "none", fs |-> Unset, flags |-> FALSE]

AccessType == {Mount(fs, flags) : fs \in FsType, flags \in BOOLEAN} \cup {Block, NoAccess}

Capability == [mode : Mode, access : AccessType]

NoCapability == [mode |-> "none", access |-> NoAccess]

Covers(m, other) == m \in Supported /\ other \in VolCapAccessModeCompat[m]

(* The access modes first, then "reflect.DeepEqual" of the access types. *)
Aggregate_ByType(agg, cur) ==
    IF ~Covers(agg.mode, cur.mode) /\ ~Covers(cur.mode, agg.mode) THEN NoCapability
    ELSE IF agg.access.type # cur.access.type THEN NoCapability
    ELSE IF Covers(agg.mode, cur.mode) THEN agg
    ELSE [agg EXCEPT !.mode = cur.mode]
Aggregate(agg, cur) ==
    IF ~Covers(agg.mode, cur.mode) /\ ~Covers(cur.mode, agg.mode) THEN NoCapability
    ELSE IF agg.access # cur.access THEN NoCapability
    ELSE IF Covers(agg.mode, cur.mode) THEN agg
    ELSE [agg EXCEPT !.mode = cur.mode]

(* What each of the capabilities comes down to with those before it. *)
Aggregated(caps) ==
    LET agg[i \in DOMAIN caps] ==
            IF i = 1 THEN caps[1] ELSE Aggregate(agg[i - 1], caps[i])
    IN  agg

ReduceVolumeCapabilities(caps) ==
    IF caps = <<>> \/ caps[1].mode \notin Supported THEN NoCapability
    ELSE Aggregated(caps)[Len(caps)]

(* The file system that CreateVolume tags the volume with, whatever the    *)
(* capability names.                                                       *)
FsOf(cap) == IF cap.access.type = "block" THEN "$raw" ELSE DefaultFs

(* ValidateVolumeCapabilities, of a volume with the tag fs. *)
Confirmed(caps, fs) ==
    \A i \in DOMAIN caps :
        /\ caps[i].mode \in {"writer", "reader"}
        /\ caps[i].access.type = "mount" => fs = caps[i].access.fs
        /\ caps[i].access.type = "block" => fs = "$raw"

-----------------------------------------------------------------------------
NoRequest == [kind |-> "none"]

Signed == (-(Word \div 2))..((Word \div 2) - 1)

VolumeRange == [kind : {"volume"}, required : Signed, limit : Signed]
Share == ((-Parts)..(Parts + 1)) \cup {NaN, Unset}
SnapshotRange == [kind : {"snapshot"}, sectors : 1..(MaxBytes \div Sector),
                  pct : Share, bytes : (0..(Word - 1)) \cup {Unset}]
Capabilities == [kind : {"capabilities"}, caps : BoundedSeq(Capability, MaxCaps) \ {<<>>}]

Arrive ==
    /\ request = NoRequest
    /\ request' \in VolumeRange \cup SnapshotRange \cup Capabilities

RequestSpec == request = NoRequest /\ [][Arrive]_request

-----------------------------------------------------------------------------
(* A volume that can be created has at least the bytes required and at     *)
(* most the limit: where the unsigned arithmetic wraps around, the size    *)
(* exceeds every volume group.  A snapshot never gets more than its origin *)
(* has, nor a sector more than its parameters allow, also when a sum wraps *)
(* around or a share is no number.  It gets no room at all exactly if its  *)
(* share is less than a byte or its maximum less than a sector short of    *)
(* 2^64; what a share below 0 and "NaN" give depends on the processor.     *)
(* Both are whole sectors (controllerserver.go:168-185, 702-724).          *)
SizeIsInRange ==
    /\ request.kind = "volume" =>
          LET size == VolumeSize(TRUE, request.required, request.limit)
          IN  size <= MaxBytes =>
                 /\ size >= request.required
                 /\ request.limit > 0 => size <= request.limit
                 /\ size % Sector = 0
    /\ request.kind = "snapshot" =>
          LET origin == request.sectors * Sector
              pct == request.pct
              bytes == request.bytes
              regular == IF pct \in {NaN, Unset} THEN pct = Unset ELSE pct > 0
              wraps == IF bytes = Unset THEN FALSE ELSE bytes > Word - Sector
              share == IF pct = Unset THEN origin ELSE (origin * pct) \div Parts
          IN  \A size \in SnapshotSizes(origin, pct, bytes) \ {Refused} :
                 /\ size \in 0..origin
                 /\ size % Sector = 0
                 /\ bytes # Unset => size < bytes + Sector
                 /\ regular => size < share + Sector
                 /\ regular => (size = 0 <=> share = 0 \/ wraps)

(* Capabilities are accepted exactly if one volume can honour all of them: *)
(* supported modes, all reading or all writing, and access types equal in  *)
(* file system and flags, except that "single" after a first "single" is   *)
(* refused: the table lacks it.  The volume created for them is confirmed  *)
(* for them exactly if validation knows their modes, which are fewer, and  *)
(* a mount names the default file system, not another one or none          *)
(* (controllerserver.go:75-97, 149-157, 500-537, 952-985).                 *)
CapabilitiesAreHonoured ==
    request.kind = "capabilities" =>
        LET caps == request.caps
            modes == {caps[i].mode : i \in DOMAIN caps}
            honoured == /\ modes \subseteq Supported
                        /\ "reader" \in modes => modes = {"reader"}
                        /\ \A i \in DOMAIN caps : caps[i].access = caps[1].access
            again == \E i \in DOMAIN caps \ {1} : caps[1].mode = "single" /\ caps[i].mode = "single"
            cap == ReduceVolumeCapabilities(caps)
            accepted == cap # NoCapability
        IN  /\ accepted <=> honoured /\ ~again
            /\ accepted =>
                  (Confirmed(caps, FsOf(cap)) <=>
                      /\ modes \subseteq {"writer", "reader"}
                      /\ caps[1].access.type = "mount" => caps[1].access.fs = DefaultFs)
=============================================================================
