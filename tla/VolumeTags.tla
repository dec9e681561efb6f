------------------------------- MODULE VolumeTags -------------------------------
(***************************************************************************)
(* The tags in which the driver keeps a volume's attributes: the key and   *)
(* the value are escaped into the characters that lvm allows in a tag      *)
(* (pkg/driverd/tags.go and tagencoder.go), lvm reports the tags of a      *)
(* volume as one field, and lvmctrld splits it again.  A string is a       *)
(* sequence of bytes.                                                      *)
(***************************************************************************)
EXTENDS Naturals, SequencesExt

CONSTANTS
    TagPrefix,  \* the bytes that stand for "csi-sanlock-lvm.vleo.net/"
    TagKey,     \* the keys
    Byte,       \* the bytes of the values
    MaxValue    \* the length of the longest value

VARIABLE tags               \* what a volume is tagged with: a value for each key

(* The characters with a meaning of their own. *)
Space == 32
Amp == 38
Comma == 44
Hyphen == 45
Equal == 61

(* As tags.go:27-37 has them: printable, and a key has no "=" and no       *)
(* hyphen to start it.                                                     *)
ASSUME VolumeTagsAssumption ==
    /\ Byte \subseteq 0..255 /\ MaxValue \in Nat
    /\ TagPrefix \in Seq(16..255) /\ Len(TagPrefix) >= 2
    /\ IsFiniteSet(TagKey) /\ TagKey \subseteq Seq(16..255)
    /\ \A k \in TagKey : \A i \in DOMAIN k : k[i] # Equal /\ (i = 1 => k[i] # Hyphen)

Alphanumeric == (48..57) \cup (65..90) \cup (97..122)

(* tagRe: what lvmctrld accepts in a tag. *)
TagChar == Alphanumeric \cup {95, 43, 46, Hyphen, 47, Equal, 33, 58, 35, Amp}

(* A hyphen may not start a tag. *)
IsPlain_Amp(b, pos) == b \in TagChar \ {Hyphen} \/ (b = Hyphen /\ pos > 0)
IsPlain(b, pos) == b \in TagChar \ {Hyphen, Amp} \/ (b = Hyphen /\ pos > 0)

HexDigit(d) == IF d < 10 THEN 48 + d ELSE 87 + d

HexDecode(b) == CASE b \in 48..57 -> b - 48
                  [] b \in 65..70 -> b - 55
                  [] b \in 97..102 -> b - 87
                  [] OTHER -> 16

(* "&%2x" pads with a space, not with a zero. *)
Quoted(b) == <<Amp, IF b < 16 THEN Space ELSE HexDigit(b \div 16), HexDigit(b % 16)>>

Escaped(b, pos) == IF IsPlain(b, pos) THEN <<b>> ELSE Quoted(b)

(* What is written after each byte, and at the end. *)
Encoded(value) ==
    LET enc[n \in 0..Len(value)] ==
            IF n = 0 THEN <<>> ELSE enc[n - 1] \o Escaped(value[n], n - 1)
    IN  enc

EncodeTag(value) == Encoded(value)[Len(value)]

(* The decoder reads byte by byte; high is the first digit of a quote, or  *)
(* 16 while it waits for that digit.                                       *)
Decoder == [ok |-> TRUE, out |-> <<>>, quote |-> FALSE, high |-> 16]

DecodeByte(d, b, pos) ==
    LET h == HexDecode(b)
    IN  IF ~d.ok THEN d
        ELSE IF d.quote
        THEN CASE h = 16 -> [d EXCEPT !.ok = FALSE]
               [] h < 16 /\ d.high = 16 -> [d EXCEPT !.high = h]
               [] OTHER -> [Decoder EXCEPT !.out = Append(d.out, 16 * d.high + h)]
        ELSE IF b = Amp THEN [d EXCEPT !.quote = TRUE]
        ELSE [d EXCEPT !.out = Append(@, b), !.ok = IsPlain(b, pos)]

Decoded(tag) ==
    LET dec[n \in 0..Len(tag)] ==
            IF n = 0 THEN Decoder ELSE DecodeByte(dec[n - 1], tag[n], n - 1)
    IN  dec

DecodeTag(tag) ==
    LET d == Decoded(tag)[Len(tag)]
    IN  [ok |-> d.ok /\ ~d.quote, value |-> d.out]

EncodeTagKV(key, value) == EncodeTag(TagPrefix \o key \o <<Equal>> \o value)

(* The tags of others are skipped; the key ends at the first "=". *)
Ours(tag) == IsPrefix(EncodeTag(TagPrefix), tag)

DecodeTagKV(tag) ==
    LET rest == DecodeTag(SubSeq(tag, Len(EncodeTag(TagPrefix)) + 1, Len(tag)))
        i == SelectInSeq(rest.value, LAMBDA b : b = Equal)
    IN  [ok |-> rest.ok /\ i > 0, key |-> SubSeq(rest.value, 1, i - 1),
         value |-> SubSeq(rest.value, i + 1, Len(rest.value))]

EncodeTags(t) == {EncodeTagKV(k, t[k]) : k \in DOMAIN t}

(* A tag that cannot be decoded, or a second one with a key, is an error. *)
DecodeTags(list) ==
    LET mine == {j \in DOMAIN list : Ours(list[j])}
        kv == {DecodeTagKV(tag) : tag \in {list[i] : i \in mine}}
    IN  IF /\ \A e \in kv : e.ok
           /\ \A i, j \in mine : DecodeTagKV(list[i]).key = DecodeTagKV(list[j]).key => i = j
        THEN [k \in {e.key : e \in kv} |-> (CHOOSE e \in kv : e.key = k).value]
        ELSE <<"error">>

(* lvm reports the tags of a volume joined by commas. *)
Reported(list) ==
    LET rep[n \in 0..Len(list)] ==
            IF n = 0 THEN <<>>
            ELSE IF n = 1 THEN list[1]
            ELSE rep[n - 1] \o <<Comma>> \o list[n]
    IN  rep

Report(list) == Reported(list)[Len(list)]

SplitByte(list, b) ==
    IF b = Comma THEN Append(list, <<>>)
    ELSE [list EXCEPT ![Len(list)] = Append(@, b)]

Splits(field) ==
    LET split[n \in 0..Len(field)] ==
            IF n = 0 THEN << <<>> >> ELSE SplitByte(split[n - 1], field[n])
    IN  split

SplitLvmField(field) == IF field = <<>> THEN <<>> ELSE Splits(field)[Len(field)]

-----------------------------------------------------------------------------
Value == BoundedSeq(Byte, MaxValue)

NoTags == [k \in TagKey |-> <<>>]

SetTags ==
    /\ tags = NoTags
    /\ tags' \in [TagKey -> Value]

TagsSpec == tags = NoTags /\ [][SetTags]_tags

Foreign == <<120>>          \* somebody else's tag

Printable == \A k \in TagKey : \A i \in DOMAIN tags[k] : tags[k][i] >= 16

(* What a volume is tagged with is what is read back from lvm, whatever    *)
(* separators, escapes and other tags there are, and passes the pattern of *)
(* lvmctrld: "LVM doesn't allow hyphen starting tags" (tagencoder.go:80).  *)
(* Bytes below 16, which are escaped with a space, are excepted: a tag     *)
(* with one in it is refused, and never stored to read back as another     *)
(* (tags.go:51-105, tagencoder.go:23-86, lvmctrldserver.go:86, 158, 326).  *)
TagsSurviveLvm ==
    LET valid(tag) == tag[1] # Hyphen /\ \A i \in DOMAIN tag : tag[i] \in TagChar
        stored == SetToSeq(EncodeTags(tags) \cup {Foreign})
    IN  /\ Printable => /\ \A tag \in EncodeTags(tags) : valid(tag)
                        /\ DecodeTags(SplitLvmField(Report(stored))) = tags
        /\ \A k \in TagKey :
              LET tag == EncodeTagKV(k, tags[k])
              IN  valid(tag) => DecodeTagKV(tag) = [ok |-> TRUE, key |-> k, value |-> tags[k]]
=============================================================================
