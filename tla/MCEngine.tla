------------------------------ MODULE MCEngine ------------------------------
(***************************************************************************)
(* EngineSystem for TLC.  The episode is the free one: its state is the    *)
(* list of the commands executed and who signed them, so two states are    *)
(* equal only if the same commands were executed in the same order, and a  *)
(* command that is undone twice, or not at all, is seen.  It rejects a     *)
(* command when MaxCommands were executed.                                 *)
(***************************************************************************)
EXTENDS EngineSystem

CONSTANTS e1, e2, alice, MaxCommands

MCCommands == {"a", "b"}
MCEntries == MCCommands \X (PubKeys \cup {NoAuth})
MCStates == BoundedSeq(MCEntries, MaxCommands)
MCUndos == {"pop"}
MCInitialize(ps, m) == <<>>
MCExecute(s, c, a, m) ==
    IF Len(s) < MaxCommands
    THEN [ok |-> TRUE, state |-> Append(s, <<c, a>>), undo |-> "pop"]
    ELSE [ok |-> FALSE, state |-> s, undo |-> "pop"]
MCRollback(s, u) ==
    IF s = <<>> THEN [ok |-> FALSE, state |-> s]
    ELSE [ok |-> TRUE, state |-> Front(s)]

new(id) == [kind |-> "NewEpisode", id |-> id, participants |-> "ps"]
signed(id, c, ok) == [kind |-> "SignedCommand", id |-> id, cmd |-> c,
                      pubkey |-> alice, sig |-> ok]
unsigned(id, c) == [kind |-> "UnsignedCommand", id |-> id, cmd |-> c]

(* Creation, commands and both in one block; a creation that may find the  *)
(* episode there, a command that may find it missing or full, a payload    *)
(* that is never handled, and two episodes interleaved in a block.         *)
MCTxLists == {
    <<new(e1), unsigned(e1, "a")>>,
    <<signed(e1, "b", TRUE)>>,
    <<unsigned(e1, "a"), new(e2), signed(e1, "b", TRUE)>>,
    <<[kind |-> "Revert"], signed(e2, "a", FALSE), unsigned(e2, "b")>> }

Symmetric == Permutations(BlockHashes)
=============================================================================
