------------------------------- MODULE McpGame -------------------------------
(***************************************************************************)
(* The game of kdapp-mcp-server/src/state.rs.  Unlike TicTacToe it says    *)
(* who moves in the command, knows its players by their places, and keeps  *)
(* whose mark a move takes off the board.                                  *)
(***************************************************************************)
EXTENDS Integers, Sequences

CONSTANTS
    PubKeys,
    None             \* no mark, no removed mark, no authorization

Cells == (0..2) \X (0..2)
Players == {"X", "O"}

Opponent(player) == IF player = "X" THEN "O" ELSE "X"

Initialize(participants, time) ==
    [board |-> [c \in Cells |-> None], current |-> "X", participants |-> participants,
     move_history |-> <<>>]

Designated(g, player) ==
    LET i == IF player = "X" THEN 1 ELSE 2 IN
    IF i \in DOMAIN g.participants THEN g.participants[i] ELSE None

(* mv.cell may lie beyond the board *)
Accepts(g, mv, auth) ==
    /\ mv.cell \in Cells /\ g.board[mv.cell] = None
    /\ mv.player = g.current
    /\ auth # None /\ auth = Designated(g, mv.player)

Full(g) == Len(g.move_history) = 6
Oldest(g) == Head(g.move_history)

Executed(g, mv) ==
    [g EXCEPT
        !.board = [c \in Cells |-> IF c = mv.cell THEN mv.player
                                   ELSE IF Full(g) /\ c = Oldest(g) THEN None ELSE g.board[c]],
        !.move_history = Append(IF Full(g) THEN Tail(@) ELSE @, mv.cell),
        !.current = Opponent(mv.player)]

RollbackOf(g, mv) ==
    [cell |-> mv.cell, prev_player |-> g.current,
     removed |-> IF Full(g) THEN [cell |-> Oldest(g), symbol |-> g.board[Oldest(g)]] ELSE None]

RolledBack(g, u) ==
    [g EXCEPT
        !.board = [c \in Cells |-> IF u.removed # None /\ c = u.removed.cell THEN u.removed.symbol
                                   ELSE IF c = u.cell THEN None ELSE g.board[c]],
        !.move_history = (IF u.removed = None THEN <<>> ELSE <<u.removed.cell>>) \o SubSeq(@, 1, Len(@) - 1),
        !.current = u.prev_player]

(* The methods of the trait *)
Execute(g, mv, auth, time) ==
    IF Accepts(g, mv, auth)
    THEN [ok |-> TRUE, state |-> Executed(g, mv), undo |-> RollbackOf(g, mv)]
    ELSE [ok |-> FALSE, state |-> g, undo |-> None]

Rollback(g, u) == [ok |-> TRUE, state |-> RolledBack(g, u)]
=============================================================================
