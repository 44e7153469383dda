------------------------------ MODULE TicTacToe ------------------------------
(***************************************************************************)
(* The episode of tictactoe/src/game.rs.  A board holds at most six marks: *)
(* the seventh move takes the oldest one off, and the rollback of that     *)
(* move has to know whose mark it was without having recorded it.          *)
(***************************************************************************)
EXTENDS Integers, Sequences

CONSTANTS
    PubKeys,
    None             \* no mark, no removed move, no authorization

Cells == (0..2) \X (0..2)

TicTacToeStates ==
    [board : [Cells -> PubKeys \cup {None}], players : Seq(PubKeys),
     current_index : Nat, timestamp : Nat, move_history : Seq(Cells)]

TicTacToeUndos ==
    [mv : Cells, removed_mv : Cells \cup {None}, prev_timestamp : Nat]

Initialize(participants, time) ==
    [board |-> [c \in Cells |-> None], players |-> participants,
     current_index |-> 0, timestamp |-> time, move_history |-> <<>>]

ToMove(g) == g.players[g.current_index + 1]

NextIndex(g) == (g.current_index + 1) % Len(g.players)

(* A row and a column may be any numbers, nobody has to have signed, and   *)
(* that the game is won is no reason to refuse.                            *)
Accepts(g, mv, auth) ==
    /\ auth # None
    /\ auth = ToMove(g)
    /\ mv \in Cells
    /\ g.board[mv] = None

(* Mutant of Removed for MarksAlternate: the oldest mark goes one move late *)
Removed_Late(g) == IF Len(g.move_history) = 7 THEN Head(g.move_history) ELSE None

(* The mark that a move takes off the board *)
Removed(g) == IF Len(g.move_history) = 6 THEN Head(g.move_history) ELSE None

Executed(g, mv, time) ==
    [g EXCEPT
        !.board = [c \in Cells |->
                      IF c = mv THEN ToMove(g)
                      ELSE IF c = Removed(g) THEN None
                      ELSE g.board[c]],
        !.move_history =
            Append(IF Removed(g) = None THEN @ ELSE Tail(@), mv),
        !.timestamp = time,
        !.current_index = NextIndex(g)]

RollbackOf(g, mv) ==
    [mv |-> mv, removed_mv |-> Removed(g), prev_timestamp |-> g.timestamp]

(* Mutant of RolledBack for RollbackRestores: the mark goes to the player  *)
(* whose move it was before                                                *)
RolledBack_Opponent(g, u) ==
    [g EXCEPT
        !.board = [c \in Cells |->
                      IF c = u.removed_mv THEN ToMove(g)
                      ELSE IF c = u.mv THEN None
                      ELSE g.board[c]],
        !.move_history =
            (IF u.removed_mv = None THEN <<>> ELSE <<u.removed_mv>>) \o SubSeq(@, 1, Len(@) - 1),
        !.timestamp = u.prev_timestamp,
        !.current_index = NextIndex(g)]

(* The index goes on by one, which is one back for two players, and the    *)
(* mark returns to the player who then has the move ("6 moves back is      *)
(* always current player").                                                *)
RolledBack(g, u) ==
    [g EXCEPT
        !.board = [c \in Cells |->
                      IF c = u.removed_mv THEN g.players[NextIndex(g) + 1]
                      ELSE IF c = u.mv THEN None
                      ELSE g.board[c]],
        !.move_history =
            (IF u.removed_mv = None THEN <<>> ELSE <<u.removed_mv>>) \o SubSeq(@, 1, Len(@) - 1),
        !.timestamp = u.prev_timestamp,
        !.current_index = NextIndex(g)]

(* The methods of the trait *)
Execute(g, mv, auth, time) ==
    IF Accepts(g, mv, auth)
    THEN [ok |-> TRUE, state |-> Executed(g, mv, time), undo |-> RollbackOf(g, mv)]
    ELSE [ok |-> FALSE, state |-> g, undo |-> None]

Rollback(g, u) ==
    IF g.board[u.mv] = None THEN [ok |-> FALSE, state |-> g]
    ELSE [ok |-> TRUE, state |-> RolledBack(g, u)]

-----------------------------------------------------------------------------
(* A game of two: the marks on the board are the last moves, at most six,  *)
(* of the two players in turn, up to the opponent of the one to move.      *)
Mover(g, i) ==
    g.players[((g.current_index + Len(g.move_history) + 1 - i) % 2) + 1]

Alternating(g) ==
    /\ Len(g.players) = 2
    /\ g.current_index \in {0, 1}
    /\ Len(g.move_history) <= 6
    /\ \A i, j \in 1..Len(g.move_history) :
          g.move_history[i] = g.move_history[j] => i = j
    /\ \A c \in Cells : g.board[c] # None =>
          \E i \in 1..Len(g.move_history) : g.move_history[i] = c
    /\ \A i \in 1..Len(g.move_history) :
          g.board[g.move_history[i]] = Mover(g, i)
=============================================================================
