--------------------------- MODULE MCEpisodeChain ---------------------------
(***************************************************************************)
(* EpisodeChain for TLC.  The seventh move of a game is the first to take  *)
(* a mark off; moves stay on seven cells and one beyond the board.         *)
(***************************************************************************)
EXTENDS EpisodeChain

CONSTANTS alice, bob

MCParticipants == <<alice, bob>>
MCMoves == {<<0, 0>>, <<0, 1>>, <<0, 2>>, <<1, 0>>, <<1, 1>>, <<1, 2>>, <<2, 2>>, <<3, 0>>}
MCMaxLength == [tictactoe |-> 7, lottery |-> 5, comment_it |-> 6, comment_board |-> 4,
                mcp |-> 7, comment |-> 4, comments |-> 4]
MCMaxExecuted == [a \in DOMAIN MCMaxLength |-> MCMaxLength[a] + 1]
=============================================================================
