----------------------------- MODULE TttPlayers -----------------------------
(***************************************************************************)
(* The program of tictactoe/src/main.rs, once for each of two players.     *)
(* Its engine follows the chain and sends the state of every game in which *)
(* the player takes part down a channel; the player's task reads one state *)
(* after the other, asks for a move when it is the player's turn, submits  *)
(* it and waits until the board shows it.                                  *)
(*                                                                         *)
(* A transaction spends the output of the player's one before, so those of *)
(* a player are mined in their order, and in no particular order with      *)
(* those of the other.  One that a reorganisation drops is mined again.    *)
(***************************************************************************)
EXTENDS Integers, SequencesExt

CONSTANTS
    PubKeys, None,
    seats,                \* the two players, the one who opens the game first
    Tried,                \* what people type for a row and a column
    OpeningMoves,         \* moves that were made so long ago that they stay
    Purse,                \* the amount of a player's first output, in fees
    MaxTroubles

Game == INSTANCE TicTacToe

VARIABLES
    mined,                \* accepted transactions, [by, type, cell]
    engine,               \* of each player: the game, and [tx, undo] of what it has
    responses,            \* states on their way to the player's task
    pc,                   \* "start", "join", "loop", "typing" and "submitted",
                          \* "ended" by the exit signal, "gone" after a panic
    state,                \* that the player looks at while typing
    cmd,                  \* the move that was submitted
    txs,                  \* the transactions of each player
    shared,               \* both players have one address, which has one output
    reorged,              \* history
    misled,               \* history: ended or gone over a game of other players
    troubles

Seats == {seats[1], seats[2]}
Other(p) == CHOOSE q \in Seats : q # p
Trouble == troubles < MaxTroubles /\ troubles' = troubles + 1

-----------------------------------------------------------------------------
(* poll.  A board has six marks at most, so that no game is a draw.        *)

Lines ==
    {{<<i, j>> : j \in 0..2} : i \in 0..2} \cup {{<<i, j>> : i \in 0..2} : j \in 0..2}
        \cup {{<<i, i>> : i \in 0..2}, {<<i, 2 - i>> : i \in 0..2}}

check_winner(g) ==
    \E line \in Lines, p \in Seats : \A c \in line : g.board[c] = p

poll(g) ==
    [own |-> TRUE, board |-> g.board,
     turn |-> IF check_winner(g) THEN None ELSE Game!ToMove(g)]

(* What the task does with a state: it leaves when any game is over, and   *)
(* reads on until it is the player's turn in the one it plays              *)
Turn(p, s) ==
    CASE s.turn = None -> "ended"
      [] s.own /\ s.turn = p -> "typing"
      [] OTHER -> "loop"

GameAfter(moves) ==
    FoldLeft(LAMBDA g, c : Game!Executed(g, c, 0), Game!Initialize(seats, 0), moves)

Init ==
    /\ mined = <<>>
    /\ \E moves \in OpeningMoves :
          LET g == IF moves = <<>> THEN None ELSE GameAfter(moves)
              step(p) == IF g # None THEN Turn(p, poll(g))
                         ELSE IF p = seats[1] THEN "start" ELSE "join" IN
          /\ engine = [p \in Seats |-> [game |-> g, done |-> <<>>]]
          /\ pc = [p \in Seats |-> step(p)]
          /\ state = [p \in Seats |-> IF step(p) = "typing" THEN poll(g) ELSE None]
          /\ shared \in {FALSE, g = None}
    /\ responses = [p \in Seats |-> <<>>]
    /\ cmd = [p \in Seats |-> None]
    /\ txs = [p \in Seats |-> <<>>]
    /\ reorged = FALSE
    /\ misled = [p \in Seats |-> FALSE]
    /\ troubles = 0

-----------------------------------------------------------------------------
(* The chain *)

(* The order of a player's transactions is that of their outputs *)
get_first_output_utxo(p) == Len(SelectSeq(mined, LAMBDA tx : tx.by = p)) + 1

Mine(p) ==
    /\ get_first_output_utxo(p) \in DOMAIN txs[p]
    /\ mined' = Append(mined, txs[p][get_first_output_utxo(p)])
    /\ UNCHANGED <<engine, responses, pc, state, cmd, txs, shared, reorged, misled, troubles>>

Reorg ==
    /\ Trouble
    /\ \E n \in 0..(Len(mined) - 1) : mined' = SubSeq(mined, 1, n)
    /\ reorged' = TRUE
    /\ UNCHANGED <<engine, responses, pc, state, cmd, txs, shared, misled>>

-----------------------------------------------------------------------------
(* The engine and TTTHandler *)

Playing(p) == pc[p] \notin {"ended", "gone"}
History(p) == [i \in DOMAIN engine[p].done |-> engine[p].done[i].tx]

Handled(g, tx) ==
    CASE tx.type = "new" -> [game |-> Game!Initialize(seats, 0), undo |-> [new |-> TRUE]]
      [] tx.type = "move" /\ g # None ->
            LET r == Game!Execute(g, tx.cell, tx.by, 0) IN [game |-> r.state, undo |-> r.undo]
      [] OTHER -> [game |-> g, undo |-> None]

(* Mutant of Told for PlayersExplained: a player is told of its own moves  *)
Told_Mover(p, tx, r) == IF r.undo = None \/ tx.by # p THEN <<>> ELSE <<poll(r.game)>>

(* on_initialize and on_command; on_rollback does nothing *)
Told(p, tx, r) == IF r.undo = None THEN <<>> ELSE <<poll(r.game)>>

BlkAccepted(p) ==
    /\ Playing(p) /\ IsStrictPrefix(History(p), mined)
    /\ LET tx == mined[Len(History(p)) + 1]
           r == Handled(engine[p].game, tx) IN
       /\ engine' = [engine EXCEPT ![p] =
              [game |-> r.game, done |-> Append(@.done, [tx |-> tx, undo |-> r.undo])]]
       /\ responses' = [responses EXCEPT ![p] = @ \o Told(p, tx, r)]
    /\ UNCHANGED <<mined, pc, state, cmd, txs, shared, reorged, misled, troubles>>

BlkReverted(p) ==
    /\ Playing(p) /\ ~ IsPrefix(History(p), mined)
    /\ LET last == Last(engine[p].done) IN
       engine' = [engine EXCEPT ![p] =
           [game |-> IF last.undo = None THEN @.game
                     ELSE IF last.tx.type = "new" THEN None
                     ELSE Game!Rollback(@.game, last.undo).state,
            done |-> Front(@.done)]]
    /\ UNCHANGED <<mined, responses, pc, state, cmd, txs, shared, reorged, misled, troubles>>

(* The handler sends the states of every game that the player is in, if    *)
(* others started one and play it                                          *)
OtherGame(p) ==
    /\ Playing(p) /\ Trouble
    /\ \E turn \in {p, None} :
          responses' = [responses EXCEPT ![p] = Append(@, [own |-> FALSE, turn |-> turn])]
    /\ UNCHANGED <<mined, engine, pc, state, cmd, txs, shared, reorged, misled>>

-----------------------------------------------------------------------------
(* play_ttt *)

(* A command costs a fee, and the node refuses an output of nothing *)
build_command_transaction(p) == Purse - Len(txs[p]) > 1

(* When the node refuses a transaction the task panics, and the program    *)
(* goes on without it.  The players' outputs collide if they share one.    *)
Submit(p, tx, next) ==
    IF build_command_transaction(p) /\ ~ (shared /\ txs[Other(p)] # <<>>)
    THEN /\ txs' = [txs EXCEPT ![p] = Append(@, tx)]
         /\ pc' = [pc EXCEPT ![p] = next]
    ELSE /\ pc' = [pc EXCEPT ![p] = "gone"]
         /\ UNCHANGED txs

NewEpisode(p) ==
    /\ pc[p] = "start"
    /\ Submit(p, [by |-> p, type |-> "new", cell |-> None], "join")
    /\ UNCHANGED <<mined, engine, responses, state, cmd, shared, reorged, misled, troubles>>

Insert(p) ==
    /\ pc[p] = "typing"
    /\ \E c \in Tried :
          /\ IF c \in Game!Cells /\ state[p].board[c] = None
             THEN UNCHANGED troubles ELSE Trouble
          /\ Submit(p, [by |-> p, type |-> "move", cell |-> c], "submitted")
          /\ cmd' = [cmd EXCEPT ![p] = c]
    /\ state' = [state EXCEPT ![p] = None]
    /\ UNCHANGED <<mined, engine, responses, shared, reorged, misled>>

(* What was typed is no pair of numbers, or the node does not take it *)
Panic(p) ==
    /\ pc[p] \in {"start", "typing"} /\ Trouble
    /\ pc' = [pc EXCEPT ![p] = "gone"]
    /\ state' = [state EXCEPT ![p] = None]
    /\ UNCHANGED <<mined, engine, responses, cmd, txs, shared, reorged, misled>>

(* The first state tells which game is played.  A move beyond the board    *)
(* panics when the board is looked at.                                     *)
After(p, s) ==
    CASE pc[p] = "join" /\ ~ s.own -> "gone"
      [] pc[p] = "submitted" /\ s.own /\ cmd[p] \notin Game!Cells -> "gone"
      [] pc[p] = "submitted" /\ (IF s.own THEN s.board[cmd[p]] = None ELSE TRUE) -> "submitted"
      [] OTHER -> Turn(p, s)

Receive(p) ==
    /\ pc[p] \in {"join", "loop", "submitted"} /\ responses[p] # <<>>
    /\ LET s == Head(responses[p]) IN
       /\ pc' = [pc EXCEPT ![p] = After(p, s)]
       /\ state' = [state EXCEPT ![p] = IF After(p, s) = "typing" THEN s ELSE None]
       /\ cmd' = [cmd EXCEPT ![p] = IF After(p, s) = "submitted" THEN @ ELSE None]
       /\ misled' = [misled EXCEPT ![p] = @ \/ (~ s.own /\ After(p, s) \in {"ended", "gone"})]
    /\ responses' = [responses EXCEPT ![p] = Tail(@)]
    /\ UNCHANGED <<mined, engine, txs, shared, reorged, troubles>>

Next ==
    \/ Reorg
    \/ \E p \in Seats :
          \/ Mine(p) \/ BlkAccepted(p) \/ BlkReverted(p) \/ OtherGame(p)
          \/ NewEpisode(p) \/ Insert(p) \/ Panic(p) \/ Receive(p)

-----------------------------------------------------------------------------
(* Everything that is submitted is mined, executed and read, and each      *)
(* player waits for the other.                                             *)
Settled(p) ==
    /\ get_first_output_utxo(p) \notin DOMAIN txs[p]
    /\ History(p) = mined
    /\ responses[p] = <<>>

Deadlocked == \A p \in Seats : Settled(p) /\ pc[p] \in {"join", "loop", "submitted"}

(* The chain has the last transaction of the player without an effect *)
Refused(p) ==
    LET i == SelectLastInSeq(mined, LAMBDA tx : tx.by = p) IN
    i # 0 /\ engine[p].done[i].undo = None

(* The players wait for each other for good only over a move that the game *)
(* refused.  Unless blocks were lost, no one is asked for a move but the   *)
(* one whose turn it is, and no one leaves a game that is not over but for *)
(* the end of another.                                                     *)
PlayersExplained ==
    /\ Deadlocked => \E p \in Seats : Refused(p)
    /\ ~ reorged => \A p \in Seats :
          /\ pc[p] = "typing" => Game!ToMove(engine[p].game) = p
          /\ pc[p] = "ended" /\ ~ misled[p] => check_winner(engine[p].game)
=============================================================================
