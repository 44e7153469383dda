-------------------------- MODULE BoardParticipant --------------------------
(***************************************************************************)
(* The participants of a comment board:                                    *)
(* comment-board/src/participant (init, auth, main_loop) and the handler   *)
(* of the engine that each of them runs.                                   *)
(*                                                                         *)
(* A participant goes through registration, challenge, response and room   *)
(* before it may comment, each time submitting a transaction that spends   *)
(* the output of the one before and waiting for a state of the episode     *)
(* that says it went through.  States come over an unbounded channel, one  *)
(* for each command that any participant gets executed, none for a         *)
(* rollback.  All terminals are started before the room is created, as the *)
(* creator is told, so every engine has the same episode.                  *)
(***************************************************************************)
EXTENDS Integers, SequencesExt

CONSTANTS Participants, None, Bonds, min_bond, contract_expires_at,
          MaxComments, MaxFaults, MaxReverts     \* bounds of the model

Board == INSTANCE CommentBoard WITH PubKeys <- Participants

VARIABLES
    episodes,     \* of every engine: the room, once it is created
    accepted,     \* executed or rejected transactions in chain order
    pending,      \* transactions the node has and no block accepted yet
    sent,         \* how many transactions of a participant the node took
    utxo,         \* the one whose output the participant spends next
    pc, channel, challenge_text,
    lines,        \* comments a participant has typed
    recreated,    \* history: the creation of the room was reorganised away
    reverts, faults

chainVars == <<episodes, accepted, recreated, reverts>>
boardVars == <<chainVars, pending, sent, utxo, pc, channel, challenge_text,
               lines, faults>>

(* A transaction spends the participant's chain or the bond wallet's coins *)
Purses == Participants \X {"chain", "wallet"}

-----------------------------------------------------------------------------
(* Blocks and the engines *)

(* poll, as far as a participant looks at it *)
Polled(ep) == [challenge |-> ep.current_challenge,
               users |-> Range(ep.authenticated_users)]

Notified(ep) == channel' = [p \in Participants |-> Append(channel[p], Polled(ep))]

room == episodes[1]

Executes(tx) ==
    IF tx.cmd.type = "NewEpisode"
    THEN [ok |-> episodes = <<>>, state |-> Board!Initialize(<<>>, tx.n), undo |-> None]
    ELSE IF episodes = <<>> THEN [ok |-> FALSE]
    ELSE IF tx.cmd.type = "SubmitResponse"
    THEN Board!Execute(room, [type |-> "SubmitResponse",
                              ok |-> tx.cmd.nonce = room.current_challenge],
                       tx.from, tx.n)
    ELSE Board!Execute(room, tx.cmd, tx.from, tx.n)

AcceptTx ==
    \E k \in Purses :
        LET tx == Head(pending[k])
            r  == Executes(tx) IN
        /\ pending[k] # <<>>
        /\ pending' = [pending EXCEPT ![k] = Tail(@)]
        /\ accepted' = Append(accepted,
              [purse |-> k, tx |-> tx, ok |-> r.ok, undo |-> IF r.ok THEN r.undo ELSE None])
        /\ IF r.ok THEN episodes' = <<r.state>> /\ Notified(r.state)
           ELSE UNCHANGED <<episodes, channel>>
        /\ UNCHANGED <<recreated, reverts, sent, utxo, pc, challenge_text, lines, faults>>

(* The last block is reorganised away and its transaction waits again;     *)
(* nobody is told.                                                         *)
Revert ==
    LET a == Last(accepted) IN
    /\ accepted # <<>>
    /\ reverts < MaxReverts
    /\ reverts' = reverts + 1
    /\ accepted' = Front(accepted)
    /\ pending' = [pending EXCEPT ![a.purse] = <<a.tx>> \o @]
    /\ episodes' = IF ~ a.ok THEN episodes
                   ELSE IF a.tx.cmd.type = "NewEpisode" THEN <<>>
                   ELSE <<Board!Rollback(room, a.undo).state>>
    /\ recreated' = (recreated \/ episodes' = <<>>)
    /\ UNCHANGED <<sent, utxo, pc, channel, challenge_text, lines, faults>>

-----------------------------------------------------------------------------
(* Submitting *)

Take(k, cmd) ==
    /\ sent' = [sent EXCEPT ![k[1]] = @ + 1]
    /\ pending' = [pending EXCEPT ![k] =
          Append(@, [from |-> k[1], cmd |-> cmd, n |-> sent[k[1]] + 1])]

Fault == faults < MaxFaults /\ faults' = faults + 1

(* submit_tx_retry: refused when the output is not there to spend or the   *)
(* connection fails; an answer that is lost is an error, too, although the *)
(* node has the transaction.                                               *)
Submit(p, cmd, Then, Else) ==
    \/ utxo[p] = sent[p] /\ Take(<<p, "chain">>, cmd) /\ Then /\ UNCHANGED faults
    \/ utxo[p] = sent[p] /\ Take(<<p, "chain">>, cmd) /\ Else /\ Fault
    \/ utxo[p] = sent[p] /\ UNCHANGED <<sent, pending>> /\ Else /\ Fault
    \/ utxo[p] # sent[p] /\ UNCHANGED <<sent, pending, faults>> /\ Else

Goto(p, step) == pc' = [pc EXCEPT ![p] = step]
Spent(p) == utxo' = [utxo EXCEPT ![p] = @ + 1]

(* A step of the opening: on an error the participant gives up *)
Step(p, from, cmd, to) ==
    /\ pc[p] = from
    /\ Submit(p, cmd, Spent(p) /\ Goto(p, to), UNCHANGED utxo /\ Goto(p, "out"))
    /\ UNCHANGED <<chainVars, channel, challenge_text, lines>>

-----------------------------------------------------------------------------
(* The participant *)

Register(p) == Step(p, "register", [type |-> "NewEpisode"], "connect")

RequestChallenge(p) == Step(p, "request", [type |-> "RequestChallenge"], "challenge")

Respond(p) ==
    Step(p, "respond",
         [type |-> "SubmitResponse", nonce |-> challenge_text[p]], "confirm")

Receive(p, from) ==
    /\ pc[p] = from
    /\ channel[p] # <<>>
    /\ channel' = [channel EXCEPT ![p] = Tail(@)]
    /\ UNCHANGED <<chainVars, pending, sent, utxo, lines, faults>>

state(p) == Head(channel[p])

(* The first state of the channel *)
Connect(p) ==
    /\ Receive(p, "connect")
    /\ Goto(p, IF p \in state(p).users THEN "join" ELSE "request")
    /\ UNCHANGED challenge_text

(* Mutant of ReadChallenge for StuckExplained: the next state is taken to  *)
(* be the answer to the request                                            *)
ReadChallenge_Mutant(p) ==
    /\ Receive(p, "challenge")
    /\ challenge_text' = [challenge_text EXCEPT ![p] = state(p).challenge]
    /\ Goto(p, "respond")

(* The first state with a challenge, whoever asked for it *)
ReadChallenge(p) ==
    /\ Receive(p, "challenge")
    /\ IF state(p).challenge # None
       THEN /\ challenge_text' = [challenge_text EXCEPT ![p] = state(p).challenge]
            /\ Goto(p, "respond")
       ELSE UNCHANGED <<challenge_text, pc>>

(* Mutant of Confirm for AuthHonest: any answer is taken for a yes *)
Confirm_Mutant(p) ==
    /\ Receive(p, "confirm")
    /\ Goto(p, "join")
    /\ UNCHANGED challenge_text

(* Until a state lists the participant, with no limit *)
Confirm(p) ==
    /\ Receive(p, "confirm")
    /\ IF p \in state(p).users THEN Goto(p, "join") ELSE UNCHANGED pc
    /\ UNCHANGED challenge_text

(* Whatever becomes of the transaction, its output is spent next *)
Join(p) ==
    /\ pc[p] = "join"
    /\ Submit(p, [type |-> "JoinRoom", bond_amount |-> 0], TRUE, TRUE)
    /\ Spent(p)
    /\ Goto(p, "board")
    /\ UNCHANGED <<chainVars, channel, challenge_text, lines>>

Render(p) == Receive(p, "board") /\ UNCHANGED <<pc, challenge_text>>

(* A line that is a comment.  Without a bond it goes along the chain of    *)
(* outputs, with one the wallet finds the coins.                           *)
Comment(p, bond) ==
    LET cmd == [type |-> "SubmitComment", ok |-> TRUE, bond_amount |-> bond] IN
    /\ pc[p] = "board"
    /\ lines[p] < MaxComments
    /\ lines' = [lines EXCEPT ![p] = @ + 1]
    /\ IF bond = 0
       THEN Submit(p, cmd, Spent(p), UNCHANGED utxo)
       ELSE \/ /\ pending' = [pending EXCEPT ![<<p, "wallet">>] =
                     Append(@, [from |-> p, cmd |-> cmd, n |-> 0])]
               /\ UNCHANGED <<sent, utxo, faults>>
            \/ Fault /\ UNCHANGED <<pending, sent, utxo>>
    /\ UNCHANGED <<chainVars, pc, channel, challenge_text>>

(* "quit" raises the exit signal and leaves the loop *)
Quit(p) ==
    /\ pc[p] = "board"
    /\ Goto(p, "out")
    /\ UNCHANGED <<chainVars, pending, sent, utxo, channel, challenge_text,
                   lines, faults>>

-----------------------------------------------------------------------------
Init ==
    /\ episodes = <<>> /\ accepted = <<>> /\ recreated = FALSE /\ reverts = 0
    /\ pending = [k \in Purses |-> <<>>]
    /\ sent = [p \in Participants |-> 0]
    /\ utxo = [p \in Participants |-> 0]
    /\ pc = [p \in Participants |-> "register"]
    /\ channel = [p \in Participants |-> <<>>]
    /\ challenge_text = [p \in Participants |-> None]
    /\ lines = [p \in Participants |-> 0]
    /\ faults = 0

Participate(p) ==
    \/ Register(p) \/ Connect(p) \/ RequestChallenge(p) \/ ReadChallenge(p)
    \/ Respond(p) \/ Confirm(p) \/ Join(p) \/ Render(p) \/ Quit(p)
    \/ \E bond \in Bonds : Comment(p, bond)

Next == AcceptTx \/ Revert \/ \E p \in Participants : Participate(p)

-----------------------------------------------------------------------------
(* A participant that has entered the room is authenticated, also after a  *)
(* reorganisation that nobody is told of, unless it removed the room.      *)
AuthHonest ==
    \A p \in Participants :
        pc[p] \in {"join", "board"} /\ ~ recreated =>
            p \in Range(room.authenticated_users)

(* A participant that waits for its confirmation and will never get it was *)
(* crossed by another one, whose request replaced its challenge or whose   *)
(* response took it: alone, nobody gets stuck.                             *)
StuckExplained ==
    \A p \in Participants :
        (/\ pc[p] = "confirm"
         /\ pending[<<p, "chain">>] = <<>>
         /\ \A i \in DOMAIN channel[p] : p \notin channel[p][i].users)
        => \E q \in Participants \ {p} : sent[q] >= 2
=============================================================================
