----------------------------- MODULE MCPrograms -----------------------------
(***************************************************************************)
(* Programs for TLC.  A wallet and a guest, a user with two passwords,     *)
(* two copies of a checkpoint, two rooms, a game of two agents and one     *)
(* that misses a player, and a game of two people from its start and from  *)
(* the sixth move, after which the board loses marks.                      *)
(***************************************************************************)
EXTENDS Programs, TLC

MCBounds ==
    [peer |-> [requests |-> 2, troubles |-> 1],
     daemon |-> [requests |-> 4, troubles |-> 1],
     anchor |-> [troubles |-> 2],
     index |-> [troubles |-> 2],
     server |-> [requests |-> 4, troubles |-> 1],
     table |-> [troubles |-> 1],
     socket |-> [troubles |-> 2]]

(* Nothing yet, and a room in which the wallet is authenticated *)
MCOpenings ==
    {<<>>,
     <<[type |-> "NewEpisode"], [type |-> "RequestChallenge"],
       [type |-> "SubmitResponse", ok |-> TRUE]>>}

MCParticipants == <<wallet>>
MCPlayers == {<<agent1, agent2>>, <<agent2>>}
MCMoves == {[cell |-> <<0, c>>, player |-> p] : c \in {0, 1}, p \in {"X", "O"}}

MCSeats == <<wallet, CHOOSE k \in PubKeys : k # wallet>>
MCTried == {<<0, 0>>, <<0, 2>>, <<2, 0>>, <<3, 3>>}
MCOpened ==
    {<<>>, <<<<0, 0>>, <<2, 1>>, <<0, 1>>, <<2, 2>>, <<1, 2>>>>}

Symmetric ==
    UNION {Permutations(S) : S \in {Requests, Connections, Passwords, Fetches, Episodes}}
=============================================================================
