----------------------------- MODULE BondScript -----------------------------
(***************************************************************************)
(* Bond scripts of the comment board:                                      *)
(* comment-board/src/wallet/kaspa_scripts.rs.                              *)
(*                                                                         *)
(* The descriptor of a bond is what the episode decodes from the output of *)
(* a comment, to compare it with the one in the command.  Bytes are small  *)
(* numbers, and a time or a key has TimeWidth or KeyWidth of them instead  *)
(* of 8 and 33.  The scripts that the wallet locks bonds with have another *)
(* layout, which nothing decodes.                                          *)
(***************************************************************************)
EXTENDS Integers, SequencesExt

CONSTANTS Bytes, TimeWidth, KeyWidth, None

LockTimes == [1..TimeWidth -> Bytes]
Keys == [1..KeyWidth -> Bytes]

(* BondScriptKind *)
Descriptors ==
         [kind : {"P2PK"}]
    \cup [kind : {"TimeLock"}, unlock_time : LockTimes]
    \cup [kind : {"ModeratorMultisig"}, required : Bytes, count : Bytes]
    \cup [kind : {"TimeOrModerator"}, unlock_time : LockTimes, required : Bytes, count : Bytes]

-----------------------------------------------------------------------------
(* Descriptors *)

(* The keys of as many moderators as are counted, or as there are; none at *)
(* all when they are not given.                                            *)
ModeratorKeys(count, moderators) ==
    IF moderators = None THEN <<>>
    ELSE FlattenSeq(SubSeq(moderators, 1, Min({count, Len(moderators)})))

encode_bond_descriptor(d, user, moderators) ==
    CASE d.kind = "P2PK" -> <<1>> \o user
      [] d.kind = "TimeLock" -> <<2>> \o d.unlock_time \o user
      [] d.kind = "ModeratorMultisig" ->
            <<3, d.required, d.count>> \o ModeratorKeys(d.count, moderators) \o user
      [] d.kind = "TimeOrModerator" ->
            <<4>> \o d.unlock_time \o <<d.required, d.count>>
                  \o ModeratorKeys(d.count, moderators) \o user

(* Mutant of Decodes for DescriptorRoundTrip: the user's key is not looked *)
(* for after those of the moderators                                       *)
Decodes_Mutant(bytes, from, width, count) ==
    Len(bytes) >= from + width + count * KeyWidth

(* Whether, after the tag, fixed fields of this width and count keys, the  *)
(* user's key follows; more may follow                                     *)
Decodes(bytes, from, width, count) ==
    Len(bytes) >= from + width + (count + 1) * KeyWidth

decode_bond_descriptor(bytes) ==
    LET time == SubSeq(bytes, 2, 1 + TimeWidth) IN
    CASE Len(bytes) >= 1 /\ bytes[1] = 1 /\ Decodes(bytes, 1, 0, 0) ->
            [kind |-> "P2PK"]
      [] Len(bytes) >= 1 /\ bytes[1] = 2 /\ Decodes(bytes, 1, TimeWidth, 0) ->
            [kind |-> "TimeLock", unlock_time |-> time]
      [] /\ Len(bytes) >= 3 /\ bytes[1] = 3
         /\ Decodes(bytes, 1, 2, bytes[3]) ->
            [kind |-> "ModeratorMultisig", required |-> bytes[2], count |-> bytes[3]]
      [] /\ Len(bytes) >= 3 + TimeWidth /\ bytes[1] = 4
         /\ Decodes(bytes, 1, TimeWidth + 2, bytes[3 + TimeWidth]) ->
            [kind |-> "TimeOrModerator", unlock_time |-> time,
             required |-> bytes[2 + TimeWidth], count |-> bytes[3 + TimeWidth]]
      [] OTHER -> None

-----------------------------------------------------------------------------
(* A descriptor comes back from its bytes as it was if the keys of all its *)
(* moderators were given, and is otherwise not recognised: it is never     *)
(* taken for another one.                                                  *)
RoundTrip(d, user, moderators) ==
    LET count == IF d.kind \in {"ModeratorMultisig", "TimeOrModerator"} THEN d.count ELSE 0
        given == IF moderators = None THEN 0 ELSE Len(moderators) IN
    decode_bond_descriptor(encode_bond_descriptor(d, user, moderators)) =
        IF given >= count THEN d ELSE None
=============================================================================
