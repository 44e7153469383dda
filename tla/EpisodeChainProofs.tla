------------------------- MODULE EpisodeChainProofs -------------------------
(***************************************************************************)
(* The seven applications of EpisodeChain, proved for every number of      *)
(* commands and rollbacks: the properties of each, and that a rollback     *)
(* gives back what it restores.                                            *)
(*                                                                         *)
(* What a property says of the episode holds after a rollback because of   *)
(* what the rollback object holds and of the episode before its command.   *)
(* So each application has an invariant that speaks of its whole trail:    *)
(* every rollback object leads from the episode after its command to the   *)
(* one before it (GameTrail, LotteryTrail, McpTrail, BoardTrail, RoomTrail,*)
(* TalkTrail, OpenTrail).  Each part has a lemma for a command, one for a  *)
(* rollback, one for a step; Trails is their conjunction.                  *)
(***************************************************************************)
EXTENDS EpisodeChain, FilterLemmas

(* The game after the i-th move of the trail *)
After(i) == IF i = Len(trail) THEN episode ELSE trail[i + 1].before

GoodGame(g) == g \in Game!TicTacToeStates /\ Game!Alternating(g)

Entries ==
    [cmd : Game!Cells, by : Signers, undo : Game!TicTacToeUndos,
     before : Game!TicTacToeStates]

GameTrail ==
    app = "tictactoe" =>
        /\ trail \in Seq(Entries)
        /\ GoodGame(episode)
        /\ \A i \in 1..Len(trail) :
              /\ GoodGame(trail[i].before)
              /\ Game!Rollback(After(i), trail[i].undo) =
                    [ok |-> TRUE, state |-> trail[i].before]

-----------------------------------------------------------------------------
(* What a good game is made of *)
LEMMA Parts ==
  ASSUME NEW g, GoodGame(g)
  PROVE  /\ g.board \in [Game!Cells -> PubKeys \cup {None}]
         /\ g.players \in Seq(PubKeys) /\ Len(g.players) = 2
         /\ g.current_index \in {0, 1}
         /\ g.timestamp \in Nat
         /\ g.move_history \in Seq(Game!Cells)
         /\ Len(g.move_history) \in Nat /\ Len(g.move_history) <= 6
         /\ g = [board |-> g.board, players |-> g.players,
                 current_index |-> g.current_index, timestamp |-> g.timestamp,
                 move_history |-> g.move_history]
<1>1. g \in Game!TicTacToeStates
  BY DEF GoodGame
<1>2. /\ Len(g.players) = 2
      /\ g.current_index \in {0, 1}
      /\ Len(g.move_history) <= 6
  BY DEF GoodGame, Game!Alternating
<1>3. g.move_history \in Seq(Game!Cells)
  BY <1>1 DEF Game!TicTacToeStates
<1>4. Len(g.move_history) \in Nat
  BY <1>3, LenProperties
<1>5. /\ g.board \in [Game!Cells -> PubKeys \cup {None}]
      /\ g.players \in Seq(PubKeys)
      /\ g.timestamp \in Nat
  BY <1>1 DEF Game!TicTacToeStates
<1>6. g = [board |-> g.board, players |-> g.players,
           current_index |-> g.current_index, timestamp |-> g.timestamp,
           move_history |-> g.move_history]
  BY <1>1 DEF Game!TicTacToeStates
<1> QED  BY <1>2, <1>3, <1>4, <1>5, <1>6

(* Two players take turns by an index of 0 or 1 *)
LEMMA Turns ==
  ASSUME NEW g, GoodGame(g)
  PROVE  /\ Game!NextIndex(g) = 1 - g.current_index
         /\ g.players[1] \in PubKeys /\ g.players[2] \in PubKeys
         /\ Game!ToMove(g) \in PubKeys
<1>1. g.players \in Seq(PubKeys) /\ Len(g.players) = 2 /\ g.current_index \in {0, 1}
  BY Parts
<1>2. g.players[1] \in PubKeys /\ g.players[2] \in PubKeys
  BY <1>1, ElementOfSeq
<1>3. CASE g.current_index = 0
  BY <1>1, <1>2, <1>3 DEF Game!NextIndex, Game!ToMove
<1>4. CASE g.current_index = 1
  BY <1>1, <1>2, <1>4 DEF Game!NextIndex, Game!ToMove
<1> QED  BY <1>1, <1>3, <1>4

(* "6 moves back is always current player" *)
LEMMA SixBack ==
  ASSUME NEW g, GoodGame(g), Len(g.move_history) = 6
  PROVE  Game!Mover(g, 1) = Game!ToMove(g)
<1>1. g.current_index \in {0, 1}
  BY Parts
<1>2. (g.current_index + 6 + 1 - 1) % 2 = g.current_index
  BY <1>1
<1> QED  BY <1>2 DEF Game!Mover, Game!ToMove

(* The marks of a good game, and what it removes at the next move *)
LEMMA Marks ==
  ASSUME NEW g, GoodGame(g)
  PROVE  /\ \A i \in 1..Len(g.move_history) :
               /\ g.move_history[i] \in Game!Cells
               /\ g.board[g.move_history[i]] = Game!Mover(g, i)
               /\ g.board[g.move_history[i]] # None
         /\ \A i, j \in 1..Len(g.move_history) :
               g.move_history[i] = g.move_history[j] => i = j
         /\ \A c \in Game!Cells : g.board[c] # None =>
               \E i \in 1..Len(g.move_history) : g.move_history[i] = c
<1> DEFINE h == g.move_history
           k == g.current_index
<1>1. h \in Seq(Game!Cells) /\ Len(h) \in Nat /\ k \in {0, 1}
  BY Parts
<1>2. \A i \in 1..Len(h) : h[i] \in Game!Cells
  BY <1>1, ElementOfSeq
<1>3. /\ \A i \in 1..Len(h) : g.board[h[i]] = Game!Mover(g, i)
      /\ \A i, j \in 1..Len(h) : h[i] = h[j] => i = j
      /\ \A c \in Game!Cells : g.board[c] # None =>
            \E i \in 1..Len(h) : h[i] = c
  BY DEF GoodGame, Game!Alternating
<1>4. ASSUME NEW i \in 1..Len(h)
      PROVE  Game!Mover(g, i) \in PubKeys
  <2> DEFINE x == (k + Len(h) + 1 - i) % 2
  <2>1. x \in {0, 1}
    <3> HIDE DEF h, k
    <3> QED  BY <1>1
  <2>2. g.players[1] \in PubKeys /\ g.players[2] \in PubKeys
    BY Turns
  <2>3. g.players[x + 1] \in PubKeys
    <3> HIDE DEF x
    <3> QED  BY <2>1, <2>2
  <2> QED  BY <2>3 DEF Game!Mover
<1>5. None \notin PubKeys
  BY EpisodeChainAssumption
<1> QED  BY <1>2, <1>3, <1>4, <1>5

LEMMA RemovedMark ==
  ASSUME NEW g, GoodGame(g)
  PROVE  IF Len(g.move_history) = 6
         THEN /\ Game!Removed(g) = g.move_history[1]
              /\ Game!Removed(g) \in Game!Cells /\ Game!Removed(g) # None
              /\ g.board[Game!Removed(g)] = Game!ToMove(g)
         ELSE Game!Removed(g) = None
<1>1. CASE Len(g.move_history) = 6
  <2>1. 1 \in 1..Len(g.move_history)
    BY <1>1
  <2>2. /\ g.move_history[1] \in Game!Cells
        /\ g.board[g.move_history[1]] = Game!Mover(g, 1)
    BY <2>1, Marks
  <2>3. Game!Removed(g) = g.move_history[1]
    BY <1>1 DEF Game!Removed
  <2>4. None \notin Game!Cells
    BY EpisodeChainAssumption
  <2> QED  BY <1>1, <2>2, <2>3, <2>4, SixBack
<1>2. CASE Len(g.move_history) # 6
  BY <1>2 DEF Game!Removed
<1> QED  BY <1>1, <1>2

(* The move, part by part.  kept is what it leaves of the history. *)
Staying(g) == IF Len(g.move_history) = 6 THEN Tail(g.move_history) ELSE g.move_history

LEMMA MoveParts ==
  ASSUME NEW g, GoodGame(g), NEW mv \in Game!Cells, NEW time \in Nat
  PROVE  LET e == Game!Executed(g, mv, time) IN
         /\ e.board = [c \in Game!Cells |->
                          IF c = mv THEN Game!ToMove(g)
                          ELSE IF c = Game!Removed(g) THEN None ELSE g.board[c]]
         /\ e.players = g.players
         /\ e.current_index = 1 - g.current_index
         /\ e.timestamp = time
         /\ e.move_history = Append(Staying(g), mv)
         /\ e = [board |-> e.board, players |-> e.players,
                 current_index |-> e.current_index, timestamp |-> e.timestamp,
                 move_history |-> e.move_history]
<1> DEFINE B == [c \in Game!Cells |->
                    IF c = mv THEN Game!ToMove(g)
                    ELSE IF c = Game!Removed(g) THEN None ELSE g.board[c]]
           N == Game!NextIndex(g)
           H == Append(IF Game!Removed(g) = None THEN g.move_history
                       ELSE Tail(g.move_history), mv)
           e == Game!Executed(g, mv, time)
<1>1. g = [board |-> g.board, players |-> g.players,
           current_index |-> g.current_index, timestamp |-> g.timestamp,
           move_history |-> g.move_history]
  BY Parts
<1>2. e = [g EXCEPT !.board = B, !.move_history = H,
                    !.timestamp = time, !.current_index = N]
  BY DEF Game!Executed
<1>3. e = [board |-> B, players |-> g.players, current_index |-> N,
           timestamp |-> time, move_history |-> H]
  <2> HIDE DEF B, N, H, e
  <2> QED  BY <1>1, <1>2
<1>4. H = Append(Staying(g), mv)
  BY RemovedMark DEF Staying
<1>5. N = 1 - g.current_index
  BY Turns
<1>6. /\ e.board = B /\ e.players = g.players /\ e.current_index = N
      /\ e.timestamp = time /\ e.move_history = H
  <2> HIDE DEF B, N, H, e
  <2> QED  BY <1>3
<1>7. e = [board |-> e.board, players |-> e.players,
           current_index |-> e.current_index, timestamp |-> e.timestamp,
           move_history |-> e.move_history]
  <2> HIDE DEF B, N, H, e
  <2> QED  BY <1>3, <1>6
<1> QED  BY <1>4, <1>5, <1>6, <1>7

LEMMA KeptParts ==
  ASSUME NEW g, GoodGame(g)
  PROVE  /\ Staying(g) \in Seq(Game!Cells)
         /\ Len(Staying(g)) \in Nat /\ Len(Staying(g)) <= 5
         /\ Len(g.move_history) = 6 =>
               /\ Len(Staying(g)) = 5
               /\ \A i \in 1..5 : Staying(g)[i] = g.move_history[i + 1]
         /\ Len(g.move_history) # 6 => Staying(g) = g.move_history
<1> DEFINE h == g.move_history
<1>1. h \in Seq(Game!Cells) /\ Len(h) \in Nat /\ Len(h) <= 6
  BY Parts
<1>2. CASE Len(h) = 6
  <2>1. h # <<>>
    BY <1>2, EmptySeq
  <2>2. /\ Tail(h) \in Seq(Game!Cells)
        /\ Len(Tail(h)) = 5
        /\ \A i \in 1..5 : Tail(h)[i] = h[i + 1]
    <3> HIDE DEF h
    <3> QED  BY <1>1, <1>2, <2>1, HeadTailProperties
  <2>3. Staying(g) = Tail(h)
    BY <1>2 DEF Staying
  <2>4. 5 \in Nat /\ 5 <= 5
    OBVIOUS
  <2> QED  BY <1>2, <2>2, <2>3, <2>4
<1>3. CASE Len(h) # 6
  <2>1. Staying(g) = h
    BY <1>3 DEF Staying
  <2> DEFINE n == Len(h)
  <2>2. n \in Nat /\ n <= 6 /\ n # 6
    BY <1>1, <1>3
  <2>3. n <= 5
    <3> HIDE DEF n
    <3> QED  BY <2>2
  <2> QED  BY <1>1, <1>3, <2>1, <2>3
<1> QED  BY <1>2, <1>3

(* The movers of the marks that stay, as seen before and after a move *)
LEMMA MoversStay ==
  ASSUME NEW k \in {0, 1}, NEW n \in Nat, NEW i \in Nat
  PROVE  /\ ((1 - k) + (n + 1) + 1 - i) % 2 = (k + n + 1 - i) % 2
         /\ ((1 - k) + 6 + 1 - i) % 2 = (k + 6 + 1 - (i + 1)) % 2
         /\ ((1 - k) + n + 1 - n) % 2 = k
OBVIOUS

(* A legal move leads from a good game to a good game *)
LEMMA MoveGood ==
  ASSUME NEW g, GoodGame(g), NEW mv \in Game!Cells, NEW time \in Nat,
         g.board[mv] = None
  PROVE  GoodGame(Game!Executed(g, mv, time))
<1> DEFINE e == Game!Executed(g, mv, time)
           h == g.move_history
           n == Len(h)
           kept == Staying(g)
           m == Len(kept)
           k == g.current_index
<1>1. /\ k \in {0, 1} /\ n \in Nat /\ n <= 6
      /\ h \in Seq(Game!Cells)
      /\ g.players \in Seq(PubKeys) /\ Len(g.players) = 2
      /\ g.board \in [Game!Cells -> PubKeys \cup {None}]
  BY Parts
<1>2. /\ kept \in Seq(Game!Cells) /\ m \in Nat /\ m <= 5
      /\ n = 6 => m = 5 /\ \A i \in 1..5 : kept[i] = h[i + 1]
      /\ n # 6 => kept = h /\ m = n
  BY KeptParts
<1>3. /\ e.board = [c \in Game!Cells |->
                      IF c = mv THEN Game!ToMove(g)
                      ELSE IF c = Game!Removed(g) THEN None ELSE g.board[c]]
      /\ e.players = g.players
      /\ e.current_index = 1 - k
      /\ e.timestamp = time
      /\ e.move_history = Append(kept, mv)
      /\ e = [board |-> e.board, players |-> e.players,
              current_index |-> e.current_index, timestamp |-> e.timestamp,
              move_history |-> e.move_history]
  BY MoveParts
<1>4. /\ Append(kept, mv) \in Seq(Game!Cells)
      /\ Len(Append(kept, mv)) = m + 1
      /\ \A i \in 1..m : Append(kept, mv)[i] = kept[i]
      /\ Append(kept, mv)[m + 1] = mv
  <2> HIDE DEF kept
  <2> QED  BY <1>2, AppendProperties
<1>5. Game!ToMove(g) \in PubKeys
  BY Turns
<1>6. e \in Game!TicTacToeStates
  <2>1. e.board \in [Game!Cells -> PubKeys \cup {None}]
    <3> HIDE DEF e
    <3> QED  BY <1>1, <1>3, <1>5
  <2>2. 1 - k \in Nat
    <3> HIDE DEF k
    <3> QED  BY <1>1
  <2> HIDE DEF e, kept, k
  <2> QED  BY <1>1, <1>3, <1>4, <2>1, <2>2 DEF Game!TicTacToeStates
<1>7. ASSUME NEW i \in 1..m
      PROVE  \E j \in 1..n : /\ kept[i] = h[j]
                             /\ j = IF n = 6 THEN i + 1 ELSE i
  <2> HIDE DEF h, n, kept, m
  <2>1. CASE n = 6
    <3>1. m = 5 /\ \A x \in 1..5 : kept[x] = h[x + 1]
      BY <1>2, <2>1
    <3>2. i \in 1..5 /\ i + 1 \in 1..n
      BY <2>1, <3>1
    <3>3. kept[i] = h[i + 1]
      BY <3>1, <3>2
    <3> QED  BY <2>1, <3>2, <3>3
  <2>2. CASE n # 6
    <3>1. kept = h /\ m = n
      BY <1>2, <2>2
    <3> QED  BY <2>2, <3>1
  <2> QED  BY <2>1, <2>2
<1>8. ASSUME NEW i \in 1..m
      PROVE  /\ kept[i] \in Game!Cells
             /\ kept[i] # mv
             /\ kept[i] # Game!Removed(g)
             /\ g.board[kept[i]] # None
  <2>1. PICK j \in 1..n : kept[i] = h[j] /\ j = IF n = 6 THEN i + 1 ELSE i
    BY <1>7
  <2>2. h[j] \in Game!Cells /\ g.board[h[j]] # None
    BY Marks
  <2>3. CASE n = 6
    <3>1. Game!Removed(g) = h[1]
      BY <2>3, RemovedMark
    <3>2. 1 \in 1..n /\ j # 1
      <4> HIDE DEF n, m
      <4> QED  BY <1>2, <2>1, <2>3
    <3>3. h[j] # h[1]
      BY <3>2, Marks
    <3> QED  BY <2>1, <2>2, <3>1, <3>3
  <2>4. CASE n # 6
    <3>1. Game!Removed(g) = None /\ None \notin Game!Cells
      BY <2>4, RemovedMark, EpisodeChainAssumption
    <3> QED  BY <2>1, <2>2, <3>1
  <2> QED  BY <2>3, <2>4
<1>9. ASSUME NEW i \in 1..m
      PROVE  e.board[kept[i]] = Game!Mover(e, i)
  <2>1. PICK j \in 1..n : kept[i] = h[j] /\ j = IF n = 6 THEN i + 1 ELSE i
    BY <1>7
  <2>2. e.board[kept[i]] = g.board[kept[i]]
    <3> HIDE DEF e, kept, m
    <3> QED  BY <1>3, <1>8
  <2>3. g.board[h[j]] = Game!Mover(g, j)
    BY Marks
  <2>4. Game!Mover(g, j) = g.players[((k + n + 1 - j) % 2) + 1]
    BY DEF Game!Mover
  <2>5. Game!Mover(e, i) = g.players[(((1 - k) + (m + 1) + 1 - i) % 2) + 1]
    <3> HIDE DEF e, kept, m, k
    <3> QED  BY <1>3, <1>4 DEF Game!Mover
  <2>6. ((1 - k) + (m + 1) + 1 - i) % 2 = (k + n + 1 - j) % 2
    <3>1. i \in Nat
      OBVIOUS
    <3> HIDE DEF k, n, m
    <3>2. CASE n = 6
      <4>1. m + 1 = 6 /\ j = i + 1
        BY <1>2, <2>1, <3>2
      <4> QED  BY <1>1, <3>1, <3>2, <4>1, MoversStay
    <3>3. CASE n # 6
      <4>1. m = n /\ j = i
        BY <1>2, <2>1, <3>3
      <4> QED  BY <1>1, <3>1, <4>1, MoversStay
    <3> QED  BY <3>2, <3>3
  <2> HIDE DEF e, kept, h, k, n, m
  <2> QED  BY <2>1, <2>2, <2>3, <2>4, <2>5, <2>6
<1>10. e.board[mv] = Game!Mover(e, m + 1)
  <2>1. Game!Mover(e, m + 1) = g.players[(((1 - k) + (m + 1) + 1 - (m + 1)) % 2) + 1]
    <3> HIDE DEF e, kept, m, k
    <3> QED  BY <1>3, <1>4 DEF Game!Mover
  <2>2. ((1 - k) + (m + 1) + 1 - (m + 1)) % 2 = k
    <3> HIDE DEF m, k
    <3> QED  BY <1>1, <1>2
  <2>3. e.board[mv] = Game!ToMove(g)
    <3> HIDE DEF e
    <3> QED  BY <1>3
  <2>4. Game!ToMove(g) = g.players[k + 1]
    BY DEF Game!ToMove
  <2> HIDE DEF e, m, k
  <2> QED  BY <2>1, <2>2, <2>3, <2>4
<1>11. \A i \in 1..(m + 1) :
          e.board[e.move_history[i]] = Game!Mover(e, i)
  <2>1. \A i \in 1..(m + 1) : i \in 1..m \/ i = m + 1
    <3> HIDE DEF m
    <3> QED  BY <1>2
  <2> HIDE DEF e, m, kept
  <2> QED  BY <1>3, <1>4, <1>9, <1>10, <2>1
<1>12. \A i, j \in 1..m : kept[i] = kept[j] => i = j
  <2>1. \A i, j \in 1..n : h[i] = h[j] => i = j
    BY Marks
  <2> HIDE DEF h, n, m, kept
  <2> QED  BY <1>7, <2>1
<1>13. \A i, j \in 1..(m + 1) :
          e.move_history[i] = e.move_history[j] => i = j
  <2>1. \A i \in 1..(m + 1) : i \in 1..m \/ i = m + 1
    <3> HIDE DEF m
    <3> QED  BY <1>2
  <2> HIDE DEF e, m, kept
  <2> QED  BY <1>3, <1>4, <1>8, <1>12, <2>1
<1>14. ASSUME NEW c \in Game!Cells, e.board[c] # None
       PROVE  \E i \in 1..(m + 1) : e.move_history[i] = c
  <2>1. CASE c = mv
    <3>1. m + 1 \in 1..(m + 1)
      <4> HIDE DEF m
      <4> QED  BY <1>2
    <3> HIDE DEF e, m, kept
    <3> QED  BY <1>3, <1>4, <2>1, <3>1
  <2>2. CASE c # mv
    <3>1. c # Game!Removed(g) /\ g.board[c] # None
      <4> HIDE DEF e
      <4> QED  BY <1>3, <1>14, <2>2
    <3>2. PICK j \in 1..n : h[j] = c
      BY <3>1, Marks
    <3>3. n = 6 => j # 1
      BY <3>1, <3>2, RemovedMark
    <3>4. \E i \in 1..m : kept[i] = c
      <4> HIDE DEF h, n, m, kept
      <4>1. CASE n = 6
        <5>1. j - 1 \in 1..m /\ j - 1 \in 1..5 /\ (j - 1) + 1 = j
          BY <1>2, <3>3, <4>1
        <5> QED  BY <1>2, <3>2, <4>1, <5>1
      <4>2. CASE n # 6
        BY <1>2, <3>2, <4>2
      <4> QED  BY <4>1, <4>2
    <3>5. \A i \in 1..m : i \in 1..(m + 1)
      <4> HIDE DEF m
      <4> QED  BY <1>2
    <3> HIDE DEF e, m, kept
    <3> QED  BY <1>3, <1>4, <3>4, <3>5
  <2> QED  BY <2>1, <2>2
<1>15. /\ Len(e.players) = 2
       /\ e.current_index \in {0, 1}
       /\ Len(e.move_history) = m + 1
       /\ m + 1 <= 6
  <2> HIDE DEF e, m, kept, k
  <2> QED  BY <1>1, <1>2, <1>3, <1>4
<1>16. Game!Alternating(e)
  <2> HIDE DEF e, m
  <2> QED  BY <1>11, <1>13, <1>14, <1>15 DEF Game!Alternating
<1> QED  BY <1>6, <1>16 DEF GoodGame

(* The history without its last move, and with the removed one in front *)
LEMMA HistoryBack ==
  ASSUME NEW g, GoodGame(g), NEW mv \in Game!Cells
  PROVE  (IF Game!Removed(g) = None THEN <<>> ELSE <<Game!Removed(g)>>)
            \o Front(Append(Staying(g), mv)) = g.move_history
<1> DEFINE h == g.move_history
           R == Game!Removed(g)
<1>1. h \in Seq(Game!Cells) /\ Staying(g) \in Seq(Game!Cells)
  BY Parts, KeptParts
<1>2. Front(Append(Staying(g), mv)) = Staying(g)
  <2> DEFINE s == Staying(g)
  <2> HIDE DEF s
  <2>1. s \in Seq(Game!Cells)
    BY <1>1 DEF s
  <2>2. Front(Append(s, mv)) = s
    BY <2>1 DEF Front
  <2> QED  BY <2>2 DEF s
<1>3. CASE Len(h) = 6
  <2>1. R = h[1] /\ R # None
    BY <1>3, RemovedMark
  <2>2. Staying(g) = Tail(h)
    BY <1>3 DEF Staying
  <2>3. <<h[1]>> \o Tail(h) = h
    <3>1. h # <<>> /\ 1 \in 1..Len(h) /\ Len(h) \in 1..Len(h)
      BY <1>3, EmptySeq
    <3>2. SubSeq(h, 1, Len(h)) = <<h[1]>> \o SubSeq(h, 1 + 1, Len(h))
      BY <1>1, <3>1, SubSeqRecursiveFirst
    <3>3. SubSeq(h, 1, Len(h)) = h /\ SubSeq(h, 2, Len(h)) = Tail(h)
      BY <1>1, <3>1, SubSeqFull, TailIsSubSeq
    <3>4. 1 + 1 = 2
      OBVIOUS
    <3> QED  BY <3>2, <3>3, <3>4
  <2> HIDE DEF h, R
  <2> QED  BY <1>2, <2>1, <2>2, <2>3 DEF h, R
<1>4. CASE Len(h) # 6
  <2>1. R = None
    BY <1>4, RemovedMark
  <2>2. Staying(g) = h
    BY <1>4 DEF Staying
  <2>3. <<>> \o h = h
    BY <1>1, ConcatEmptySeq
  <2> QED  BY <1>2, <2>1, <2>2, <2>3
<1> QED  BY <1>3, <1>4

(* ... and its rollback leads back *)
LEMMA MoveUndone ==
  ASSUME NEW g, GoodGame(g), NEW mv \in Game!Cells, NEW time \in Nat,
         g.board[mv] = None
  PROVE  Game!Rollback(Game!Executed(g, mv, time), Game!RollbackOf(g, mv))
            = [ok |-> TRUE, state |-> g]
<1> DEFINE e == Game!Executed(g, mv, time)
           u == Game!RollbackOf(g, mv)
           R == Game!Removed(g)
           k == g.current_index
           p == IF R = None THEN <<>> ELSE <<R>>
           B == [c \in Game!Cells |->
                    IF c = u.removed_mv THEN e.players[Game!NextIndex(e) + 1]
                    ELSE IF c = u.mv THEN None ELSE e.board[c]]
           b == Game!RolledBack(e, u)
<1>1. /\ u.mv = mv /\ u.removed_mv = R /\ u.prev_timestamp = g.timestamp
  BY DEF Game!RollbackOf
<1>2. /\ k \in {0, 1}
      /\ g.board \in [Game!Cells -> PubKeys \cup {None}]
      /\ g = [board |-> g.board, players |-> g.players, current_index |-> k,
              timestamp |-> g.timestamp, move_history |-> g.move_history]
  BY Parts
<1>3. /\ e.board = [c \in Game!Cells |->
                      IF c = mv THEN Game!ToMove(g)
                      ELSE IF c = R THEN None ELSE g.board[c]]
      /\ e.players = g.players
      /\ e.current_index = 1 - k
      /\ e.timestamp = time
      /\ e.move_history = Append(Staying(g), mv)
      /\ e = [board |-> e.board, players |-> e.players,
              current_index |-> e.current_index, timestamp |-> e.timestamp,
              move_history |-> e.move_history]
  BY MoveParts
<1>4. Game!NextIndex(e) = k
  <2>1. Game!NextIndex(e) = 1 - e.current_index
    BY MoveGood, Turns
  <2> HIDE DEF e, k
  <2> QED  BY <1>2, <1>3, <2>1
<1>5. e.players[Game!NextIndex(e) + 1] = Game!ToMove(g)
  BY <1>3, <1>4 DEF Game!ToMove
<1>6. B = g.board
  <2>1. R # None => g.board[R] = Game!ToMove(g) /\ R # mv
    <3>1. R # None => g.board[R] = Game!ToMove(g)
      BY RemovedMark
    <3>2. Game!ToMove(g) # None
      BY Turns, EpisodeChainAssumption
    <3> QED  BY <3>1, <3>2
  <2>2. None \notin Game!Cells
    BY EpisodeChainAssumption
  <2>3. \A c \in Game!Cells :
           (IF c = u.removed_mv THEN e.players[Game!NextIndex(e) + 1]
            ELSE IF c = u.mv THEN None ELSE e.board[c]) = g.board[c]
    <3> HIDE DEF e, u, R
    <3> QED  BY <1>1, <1>3, <1>5, <2>1, <2>2
  <2> HIDE DEF e, u, R
  <2> QED  BY <1>2, <2>3
<1>7. p \o Front(e.move_history) = g.move_history
  BY <1>3, HistoryBack
<1>8. b = [e EXCEPT !.board = B, !.move_history = p \o Front(e.move_history),
                    !.timestamp = g.timestamp, !.current_index = k]
  BY <1>1, <1>4 DEF Game!RolledBack, Front
<1>9. b = g
  <2> DEFINE H == p \o Front(e.move_history)
  <2>1. b = [e EXCEPT !.board = B, !.move_history = H,
                      !.timestamp = g.timestamp, !.current_index = k]
    BY <1>8
  <2>2. b = [board |-> B, players |-> e.players, current_index |-> k,
             timestamp |-> g.timestamp, move_history |-> H]
    <3> HIDE DEF b, B, H, e, k
    <3> QED  BY <1>3, <2>1
  <2>3. H = g.move_history
    BY <1>7
  <2> HIDE DEF b, B, H, e, k
  <2> QED  BY <1>2, <1>3, <1>6, <2>2, <2>3
<1>10. e.board[u.mv] # None
  <2>1. Game!ToMove(g) # None
    BY Turns, EpisodeChainAssumption
  <2> HIDE DEF e, u
  <2> QED  BY <1>1, <1>3, <2>1
<1>11. Game!Rollback(e, u) = [ok |-> TRUE, state |-> b]
  <2> HIDE DEF e, u
  <2> QED  BY <1>10 DEF Game!Rollback
<1> QED  BY <1>9, <1>11

-----------------------------------------------------------------------------
LEMMA TrailInit == Init => GameTrail /\ executed \in Nat /\ app \in Apps
<1> SUFFICES ASSUME Init PROVE GameTrail /\ executed \in Nat /\ app \in Apps
  OBVIOUS
<1>1. trail = <<>> /\ executed = 0 /\ app \in Apps
  BY DEF Init
<1>2. Len(trail) = 0 /\ trail \in Seq(Entries)
  BY <1>1
<1>3. ASSUME app = "tictactoe"
      PROVE  GoodGame(episode)
  <2>1. episode = [board |-> [c \in Game!Cells |-> None], players |-> participants,
                   current_index |-> 0, timestamp |-> 0, move_history |-> <<>>]
    BY <1>3 DEF Init, Game!Initialize
  <2>2. participants \in Seq(PubKeys) /\ Len(participants) = 2
    BY <1>1, <1>3, EpisodeChainAssumption
  <2>3. episode \in Game!TicTacToeStates
    BY <2>1, <2>2 DEF Game!TicTacToeStates
  <2>4. Len(episode.move_history) = 0
    BY <2>1
  <2>5. Game!Alternating(episode)
    BY <2>1, <2>2, <2>4 DEF Game!Alternating
  <2> QED  BY <2>3, <2>5 DEF GoodGame
<1> QED  BY <1>1, <1>2, <1>3 DEF GameTrail

(* The game and what every application needs *)
IInv == GameTrail /\ executed \in Nat /\ app \in Apps

LEMMA PlayStep ==
  ASSUME IInv, Play
  PROVE  GameTrail'
<1>1. app = "tictactoe" /\ app' = app
  BY DEF Play, Applied
<1>2. PICK mv \in Moves, by \in Signers :
         Applied(mv, by, Game!Execute(episode, mv, by, Time))
  BY DEF Play
<1> DEFINE e == Game!Executed(episode, mv, Time)
           u == Game!RollbackOf(episode, mv)
           new == [cmd |-> mv, by |-> by, undo |-> u, before |-> episode]
<1>0. PICK n : n = Len(trail)
  OBVIOUS
<1>3. Game!Accepts(episode, mv, by)
  BY <1>2 DEF Applied, Game!Execute
<1>4. episode' = e /\ trail' = Append(trail, new)
  BY <1>2, <1>3 DEF Applied, Game!Execute
<1>5. mv \in Game!Cells /\ episode.board[mv] = None
  BY <1>3 DEF Game!Accepts
<1>6. Time \in Nat
  BY DEF IInv, Time
<1>7. /\ trail \in Seq(Entries) /\ n \in Nat
      /\ GoodGame(episode)
      /\ \A i \in 1..n :
            /\ GoodGame(trail[i].before)
            /\ Game!Rollback(After(i), trail[i].undo) =
                  [ok |-> TRUE, state |-> trail[i].before]
  BY <1>0, <1>1, LenProperties DEF IInv, GameTrail
<1>8. GoodGame(e)
  BY <1>5, <1>6, <1>7, MoveGood
<1>9. Game!Rollback(e, u) = [ok |-> TRUE, state |-> episode]
  BY <1>5, <1>6, <1>7, MoveUndone
<1>10. new \in Entries /\ new.undo = u /\ new.before = episode
  <2>1. Game!Removed(episode) \in Game!Cells \cup {None}
    BY <1>7, RemovedMark
  <2>2. episode.timestamp \in Nat
    BY <1>7, Parts
  <2>3. u \in Game!TicTacToeUndos
    BY <1>5, <2>1, <2>2 DEF Game!RollbackOf, Game!TicTacToeUndos
  <2>4. episode \in Game!TicTacToeStates
    BY <1>7 DEF GoodGame
  <2> HIDE DEF u
  <2> QED  BY <1>5, <2>3, <2>4 DEF Entries
<1>11. /\ trail' \in Seq(Entries) /\ Len(trail') = n + 1
       /\ \A i \in 1..n : trail'[i] = trail[i]
       /\ trail'[n + 1] = new
  <2> HIDE DEF new
  <2> QED  BY <1>0, <1>4, <1>7, <1>10, AppendProperties
<1>12. \A i \in 1..n : After(i)' = After(i)
  <2> SUFFICES ASSUME NEW i \in 1..n PROVE After(i)' = After(i)
    OBVIOUS
  <2> HIDE DEF new, e
  <2>1. After(i)' = IF i = n + 1 THEN episode' ELSE trail'[i + 1].before
    BY <1>11 DEF After
  <2>2. i # n + 1
    BY <1>7
  <2>3. CASE i = n
    BY <1>0, <1>10, <1>11, <2>1, <2>2, <2>3 DEF After
  <2>4. CASE i # n
    <3>1. i + 1 \in 1..n
      BY <1>7, <2>4
    <3> QED  BY <1>0, <1>11, <2>1, <2>2, <2>4, <3>1 DEF After
  <2> QED  BY <2>3, <2>4
<1>13. After(n + 1)' = e
  BY <1>4, <1>11 DEF After
<1>14. \A i \in 1..(n + 1) : i \in 1..n \/ i = n + 1
  BY <1>7
<1>15. \A i \in 1..(n + 1) :
          /\ GoodGame(trail'[i].before)
          /\ Game!Rollback(After(i)', trail'[i].undo) =
                [ok |-> TRUE, state |-> trail'[i].before]
  <2> HIDE DEF new, e, u
  <2> QED  BY <1>7, <1>9, <1>10, <1>11, <1>12, <1>13, <1>14
<1> HIDE DEF new, e, u
<1> QED  BY <1>4, <1>8, <1>11, <1>15 DEF GameTrail, GoodGame

(* A rollback takes the trail one move back *)
LEMMA UndoStep ==
  ASSUME IInv, Undo, app = "tictactoe"
  PROVE  /\ GameTrail'
         /\ RolledBack(Last(trail).undo).ok
         /\ episode' = Last(trail).before
<1> DEFINE n == Len(trail)
<1>1. /\ trail \in Seq(Entries) /\ n \in Nat
      /\ \A i \in 1..n :
            /\ GoodGame(trail[i].before)
            /\ Game!Rollback(After(i), trail[i].undo) =
                  [ok |-> TRUE, state |-> trail[i].before]
  BY LenProperties DEF IInv, GameTrail
<1>2. n >= 1 /\ trail # <<>>
  <2>1. trail # <<>>
    BY DEF Undo
  <2>2. n \in Nat \ {0}
    BY <1>1, <2>1, EmptySeq
  <2> HIDE DEF n
  <2> QED  BY <2>1, <2>2
<1>3. Last(trail) = trail[n] /\ After(n) = episode /\ n \in 1..n
  BY <1>1, <1>2 DEF Last, After
<1>4. RolledBack(Last(trail).undo) = [ok |-> TRUE, state |-> trail[n].before]
  <2>1. RolledBack(trail[n].undo) = Game!Rollback(episode, trail[n].undo)
    BY DEF RolledBack
  <2> HIDE DEF n
  <2> QED  BY <1>1, <1>3, <2>1
<1>5. episode' = trail[n].before
  BY <1>4 DEF Undo
<1>6. trail' = Front(trail) /\ app' = app
  BY DEF Undo
<1>7. /\ trail' \in Seq(Entries) /\ Len(trail') = n - 1
      /\ \A i \in 1..(n - 1) : trail'[i] = trail[i]
  <2>1. trail' = SubSeq(trail, 1, n - 1)
    BY <1>6 DEF Front
  <2>2. \A i \in 1..(n - 1) : trail[i] \in Entries
    BY <1>1, ElementOfSeq
  <2>3. n - 1 \in Int /\ 1 \in Int /\ (n - 1) - 1 + 1 = n - 1
    BY <1>1
  <2> QED  BY <1>1, <1>2, <2>1, <2>2, <2>3, SubSeqProperties
<1>8. \A i \in 1..(n - 1) : After(i)' = After(i)
  <2> SUFFICES ASSUME NEW i \in 1..(n - 1) PROVE After(i)' = After(i)
    OBVIOUS
  <2>1. After(i)' = IF i = n - 1 THEN episode' ELSE trail'[i + 1].before
    BY <1>7 DEF After
  <2>2. After(i) = trail[i + 1].before
    BY <1>1 DEF After
  <2>3. i # n - 1 => i + 1 \in 1..(n - 1)
    BY <1>1
  <2>4. i = n - 1 => i + 1 = n
    BY <1>1
  <2> HIDE DEF n
  <2> QED  BY <1>5, <1>7, <2>1, <2>2, <2>3, <2>4
<1>9. \A i \in 1..(n - 1) : i \in 1..n
  BY <1>1
<1>10. \A i \in 1..(n - 1) :
          /\ GoodGame(trail'[i].before)
          /\ Game!Rollback(After(i)', trail'[i].undo) =
                [ok |-> TRUE, state |-> trail'[i].before]
  <2> HIDE DEF n
  <2> QED  BY <1>1, <1>7, <1>8, <1>9
<1>11. GoodGame(episode')
  <2> HIDE DEF n
  <2> QED  BY <1>1, <1>3, <1>5
<1>12. GameTrail'
  <2> HIDE DEF n
  <2> QED  BY <1>7, <1>10, <1>11 DEF GameTrail, GoodGame
<1> QED  BY <1>3, <1>4, <1>5, <1>12

LEMMA Step == IInv /\ [Next]_vars => IInv'
<1> SUFFICES ASSUME IInv, [Next]_vars PROVE IInv'
  OBVIOUS
<1>1. app' = app
  BY DEF Next, Play, Gamble, Comment, Bond, PlayMcp, Speak, Gather, Undo, Applied, vars
<1>2. executed' \in Nat
  <2>1. executed' = executed + 1 \/ executed' = executed
    BY DEF Next, Play, Gamble, Comment, Bond, PlayMcp, Speak, Gather, Undo, Applied, vars
  <2> QED  BY <2>1 DEF IInv
<1>3. CASE app # "tictactoe"
  BY <1>1, <1>2, <1>3 DEF IInv, GameTrail
<1>4. CASE app = "tictactoe"
  <2>1. CASE Play
    BY <1>1, <1>2, <2>1, PlayStep DEF IInv
  <2>2. CASE Undo
    BY <1>1, <1>2, <1>4, <2>2, UndoStep DEF IInv
  <2>3. CASE Gamble \/ Comment \/ Bond \/ PlayMcp \/ Speak \/ Gather
    BY <1>4, <2>3 DEF Gamble, Comment, Bond, PlayMcp, Speak, Gather
  <2>4. CASE UNCHANGED vars
    <3>1. GameTrail' <=> GameTrail
      BY <2>4 DEF vars, GameTrail, GoodGame, After
    <3> QED  BY <1>1, <1>2, <3>1 DEF IInv
  <2> QED  BY <2>1, <2>2, <2>3, <2>4 DEF Next
<1> QED  BY <1>3, <1>4

-----------------------------------------------------------------------------
(* The trail of any application *)
Trailed == \E S : trail \in Seq(S)

OfType(s, type) == Keep(s, {e \in ToSet(s) : e.cmd.type = type})

LEMMA OfTypeAppend ==
  ASSUME NEW S, NEW s \in Seq(S), NEW x \in S, NEW type
  PROVE  OfType(Append(s, x), type) =
            IF x.cmd.type = type THEN Append(OfType(s, type), x) ELSE OfType(s, type)
<1> DEFINE t == Append(s, x)
           T == {e \in ToSet(t) : e.cmd.type = type}
           U == {e \in ToSet(s) : e.cmd.type = type}
<1>1. /\ t \in Seq(S) /\ Len(t) = Len(s) + 1 /\ Len(s) \in Nat
      /\ \A i \in 1..Len(s) : t[i] = s[i]
      /\ t[Len(s) + 1] = x
  BY AppendProperties, LenProperties
<1>2. /\ \A i \in 1..Len(s) : s[i] \in ToSet(s)
      /\ \A i \in 1..Len(t) : t[i] \in ToSet(t)
  <2> HIDE DEF t
  <2> QED  BY <1>1, Ranged
<1>3. \A i \in 1..Len(s) : s[i] \in T <=> s[i] \in U
  <2> SUFFICES ASSUME NEW i \in 1..Len(s) PROVE s[i] \in T <=> s[i] \in U
    OBVIOUS
  <2>1. s[i] \in ToSet(s) /\ s[i] \in ToSet(t)
    <3>1. i \in 1..Len(t)
      BY <1>1
    <3> HIDE DEF t
    <3> QED  BY <1>1, <1>2, <3>1
  <2> QED  BY <2>1
<1>4. x \in T <=> x.cmd.type = type
  <2>1. x \in ToSet(t)
    <3>1. Len(s) + 1 \in 1..Len(t)
      BY <1>1
    <3> HIDE DEF t
    <3> QED  BY <1>1, <1>2, <3>1
  <2> QED  BY <2>1
<1> HIDE DEF T, U
<1>5. Keep(s, T) = Keep(s, U)
  BY <1>3, KeepAgree
<1>6. Keep(t, T) = IF x \in T THEN Append(Keep(s, T), x) ELSE Keep(s, T)
  BY KeepAppend DEF t
<1> QED  BY <1>4, <1>5, <1>6 DEF OfType, T, U, t

LEMMA OnTrailSeq ==
  ASSUME Trailed, NEW type
  PROVE  /\ OnTrail(type) = OfType(trail, type)
         /\ \E S : OnTrail(type) \in Seq(S)
         /\ Len(OnTrail(type)) \in Nat
<1>1. PICK S : trail \in Seq(S)
  BY DEF Trailed
<1>2. OnTrail(type) = OfType(trail, type)
  BY DEF OnTrail, OfType
<1>3. \A T : Keep(trail, T) \in Seq(S) /\ Len(Keep(trail, T)) \in Nat
  BY <1>1, KeepSeq
<1> QED  BY <1>2, <1>3 DEF OfType

(* What is on the trail of one type after a step is a sequence *)
LEMMA LaterSeq ==
  ASSUME Trailed', NEW type
  PROVE  \E S : OnTrail(type)' \in Seq(S)
<1>1. PICK S : trail' \in Seq(S)
  BY DEF Trailed
<1>2. PICK T : OnTrail(type)' = Keep(trail', T)
  BY DEF OnTrail
<1>3. Keep(trail', T) \in Seq(S)
  BY <1>1, KeepSeq
<1> QED  BY <1>2, <1>3

(* What a command adds *)
LEMMA AppliedGrows ==
  ASSUME Trailed, NEW cmd, NEW by, NEW r, Applied(cmd, by, r),
         NEW new, new = [cmd |-> cmd, by |-> by, undo |-> r.undo, before |-> episode]
  PROVE  \E n \in Nat :
         /\ Trailed' /\ n = Len(trail) /\ Len(trail') = n + 1
         /\ \A i \in 1..n : trail'[i] = trail[i]
         /\ trail'[n + 1] = new
         /\ \A i \in 0..n : After(i)' = After(i)
         /\ After(n) = episode /\ After(n + 1)' = episode'
         /\ \A type : OnTrail(type)' =
               IF cmd.type = type THEN Append(OnTrail(type), new) ELSE OnTrail(type)
<1>0. PICK n : n = Len(trail)
  OBVIOUS
<1>1. PICK S : trail \in Seq(S)
  BY DEF Trailed
<1> DEFINE R == S \cup {new}
<1>2. trail \in Seq(R) /\ new \in R
  BY <1>1, SeqMonotonic
<1>3. trail' = Append(trail, new) /\ new.cmd = cmd /\ new.before = episode
  BY DEF Applied
<1> HIDE DEF R
<1>4. /\ trail' \in Seq(R) /\ n \in Nat /\ Len(trail') = n + 1
      /\ \A i \in 1..n : trail'[i] = trail[i]
      /\ trail'[n + 1] = new
  BY <1>0, <1>2, <1>3, AppendProperties, LenProperties
<1>5. Trailed'
  BY <1>4 DEF Trailed
<1>6. ASSUME NEW i \in 0..n PROVE After(i)' = After(i)
  <2>1. After(i)' = IF i = n + 1 THEN episode' ELSE trail'[i + 1].before
    BY <1>4 DEF After
  <2>2. i # n + 1
    BY <1>4
  <2>3. CASE i = n
    BY <1>0, <1>3, <1>4, <2>1, <2>2, <2>3 DEF After
  <2>4. CASE i # n
    <3>1. i + 1 \in 1..n
      BY <1>4, <2>4
    <3> QED  BY <1>0, <1>4, <2>1, <2>2, <2>4, <3>1 DEF After
  <2> QED  BY <2>3, <2>4
<1>7. After(n) = episode /\ After(n + 1)' = episode'
  BY <1>0, <1>4 DEF After
<1>8. ASSUME NEW type
      PROVE  OnTrail(type)' =
                IF cmd.type = type THEN Append(OnTrail(type), new) ELSE OnTrail(type)
  <2>1. OnTrail(type)' = OfType(trail', type) /\ OnTrail(type) = OfType(trail, type)
    BY DEF OnTrail, OfType
  <2> QED  BY <1>2, <1>3, <2>1, OfTypeAppend
<1> QED  BY <1>0, <1>4, <1>5, <1>6, <1>7, <1>8

(* What a rollback takes away *)
LEMMA UndoShrinks ==
  ASSUME Trailed, Undo
  PROVE  \E n \in Nat \ {0} :
         /\ Trailed' /\ n = Len(trail) /\ Len(trail') = n - 1
         /\ \A i \in 1..(n - 1) : trail'[i] = trail[i]
         /\ Last(trail) = trail[n]
         /\ episode' = RolledBack(trail[n].undo).state
         /\ \A i \in 0..(n - 2) : After(i)' = After(i)
         /\ After(n) = episode
         /\ After(n - 1) = trail[n].before /\ After(n - 1)' = episode'
         /\ \A type : OnTrail(type) =
               IF trail[n].cmd.type = type THEN Append(OnTrail(type)', trail[n])
               ELSE OnTrail(type)'
<1>0. PICK n : n = Len(trail)
  OBVIOUS
<1>1. PICK S : trail \in Seq(S)
  BY DEF Trailed
<1>2. trail # <<>> /\ trail' = Front(trail) /\ episode' = RolledBack(Last(trail).undo).state
  BY DEF Undo
<1>3. /\ trail' \in Seq(S) /\ Last(trail) \in S
      /\ trail = Append(trail', Last(trail))
      /\ n \in Nat \ {0} /\ Len(trail') = n - 1
      /\ Last(trail) = trail[n]
      /\ \A i \in 1..(n - 1) : trail'[i] = trail[i]
  BY <1>0, <1>1, <1>2, FrontLast
<1>4. Trailed'
  BY <1>3 DEF Trailed
<1>5. ASSUME NEW i \in 0..(n - 2) PROVE After(i)' = After(i)
  <2>1. After(i)' = IF i = n - 1 THEN episode' ELSE trail'[i + 1].before
    BY <1>3 DEF After
  <2>2. After(i) = IF i = n THEN episode ELSE trail[i + 1].before
    BY <1>0 DEF After
  <2>3. i # n - 1 /\ i # n /\ i + 1 \in 1..(n - 1)
    BY <1>3
  <2> QED  BY <1>3, <2>1, <2>2, <2>3
<1>6. After(n) = episode /\ After(n - 1) = trail[n].before /\ After(n - 1)' = episode'
  <2>1. n - 1 # n /\ (n - 1) + 1 = n
    BY <1>3
  <2>2. After(n - 1) = trail[n].before
    BY <1>0, <2>1 DEF After
  <2>3. After(n - 1)' = episode'
    BY <1>3, <2>1 DEF After
  <2> QED  BY <2>2, <2>3, <1>0 DEF After
<1>7. ASSUME NEW type
      PROVE  OnTrail(type) =
                IF trail[n].cmd.type = type THEN Append(OnTrail(type)', trail[n])
                ELSE OnTrail(type)'
  <2>1. OnTrail(type)' = OfType(trail', type) /\ OnTrail(type) = OfType(trail, type)
    BY DEF OnTrail, OfType
  <2>2. PICK f, x : f = trail' /\ x = Last(trail)
    OBVIOUS
  <2>3. f \in Seq(S) /\ x \in S /\ trail = Append(f, x) /\ x = trail[n]
    BY <1>0, <1>3, <2>2
  <2>4. OfType(trail, type) =
           IF x.cmd.type = type THEN Append(OfType(f, type), x) ELSE OfType(f, type)
    BY <2>3, OfTypeAppend
  <2> QED  BY <2>1, <2>2, <2>3, <2>4
<1> QED  BY <1>0, <1>2, <1>3, <1>4, <1>5, <1>6, <1>7
-----------------------------------------------------------------------------
(* The lottery.  A draw that is taken back forgets the winner, so the      *)
(* winner there is came from a draw of the chain; and what a rollback      *)
(* guesses of the pool is backed by the tickets that were there.           *)
GoodLottery(ep) ==
    /\ ep = [authorized |-> ep.authorized, next_draw_time |-> ep.next_draw_time,
             prize_pool |-> ep.prize_pool, tickets |-> ep.tickets,
             next_ticket_id |-> ep.next_ticket_id, last_winner |-> ep.last_winner,
             winner_paid |-> ep.winner_paid, paused |-> ep.paused]
    /\ ep.tickets = [id \in DOMAIN ep.tickets |-> ep.tickets[id]]
    /\ DOMAIN ep.tickets \in SUBSET Nat /\ IsFiniteSet(DOMAIN ep.tickets)
    /\ ep.prize_pool \in Nat /\ ep.next_ticket_id \in Nat
    /\ \A id \in DOMAIN ep.tickets : id < ep.next_ticket_id

(* The rollback object of e leads back from these tickets to those before *)
Reverses(e, tickets, paused) ==
    /\ GoodLottery(e.before)
    /\ IF e.cmd.type = "BuyTicket"
       THEN /\ e.undo.type = "UndoBuyTicket"
            /\ e.undo.ticket_id \in DOMAIN tickets
            /\ Draws!Without(tickets, e.undo.ticket_id) = e.before.tickets
            /\ paused = e.before.paused
       ELSE /\ tickets = e.before.tickets
            /\ \/ e.undo.type = "UndoExecuteDraw" /\ paused = e.before.paused
               \/ e.undo.type = "UndoClaimPrize" /\ paused = e.before.paused
               \/ e.undo.type = "UndoClose" /\ e.before.paused = FALSE
    /\ e.undo.type = "UndoClaimPrize" => DOMAIN e.before.tickets # {}
    /\ e.undo.type = "UndoExecuteDraw" =>
          /\ e.undo.prize_pool_before \in Nat
          /\ e.undo.prize_pool_before <= ticket_price * Cardinality(DOMAIN e.before.tickets)

DrewFrom(i, id) ==
    trail[i].undo.type = "UndoExecuteDraw" /\ id \in DOMAIN trail[i].before.tickets

LotteryTrail ==
    app = "lottery" =>
        /\ GoodLottery(episode)
        /\ \A i \in 1..Len(trail) : Reverses(trail[i], After(i).tickets, After(i).paused)
        /\ \A i, j \in 1..Len(trail) : i <= j =>
              DOMAIN trail[i].before.tickets \subseteq DOMAIN trail[j].before.tickets
        /\ \A i \in 1..Len(trail) : DOMAIN trail[i].before.tickets \subseteq DOMAIN episode.tickets
        /\ Cardinality(DOMAIN episode.tickets) = Len(OnTrail("BuyTicket"))
        /\ episode.prize_pool <= ticket_price * Cardinality(DOMAIN episode.tickets)
        /\ episode.last_winner # None => \E i \in 1..Len(trail) : DrewFrom(i, episode.last_winner)
        /\ episode.winner_paid => episode.last_winner # None
LEMMA DrawsCardinality == \A S : Draws!Cardinality(S) = Cardinality(S)
BY DEF Draws!Cardinality, Cardinality

LEMMA DrawnIsTicket ==
  ASSUME NEW ep, GoodLottery(ep), DOMAIN ep.tickets # {}, NEW hash, hash \in Nat
  PROVE  Draws!Drawn(ep, hash) \in DOMAIN ep.tickets
<1> DEFINE ids == DOMAIN ep.tickets
           c == Cardinality(ids)
<1>1. ids \in SUBSET Nat /\ IsFiniteSet(ids) /\ ids # {}
  BY DEF GoodLottery
<1>2. c \in Nat \ {0}
  <2> HIDE DEF ids
  <2> QED  BY <1>1, FS_CardinalityType, FS_EmptySet
<1>3. hash % c \in Nat /\ hash % c < c
  <2> HIDE DEF c
  <2> QED  BY <1>2
<1>4. \E id \in ids : Cardinality({i \in ids : i < id}) = hash % c
  <2> HIDE DEF ids
  <2> QED  BY <1>1, <1>3, Ranked
<1> QED  BY <1>4, DrawsCardinality DEF Draws!Drawn

(* What a command makes of the lottery, and how it is taken back *)
LEMMA BuyTicket ==
  ASSUME NEW ep, GoodLottery(ep), NEW by,
         NEW new, new = Draws!Bought(ep, by), NEW id, id = ep.next_ticket_id
  PROVE  /\ GoodLottery(new)
         /\ DOMAIN new.tickets = DOMAIN ep.tickets \cup {id} /\ id \notin DOMAIN ep.tickets
         /\ Draws!Without(new.tickets, id) = ep.tickets
         /\ new.paused = ep.paused
         /\ new.last_winner = ep.last_winner /\ new.winner_paid = ep.winner_paid
         /\ new.prize_pool = ep.prize_pool + ticket_price
<1> DEFINE ids == DOMAIN ep.tickets
           t == [i \in ids \cup {id} |-> IF i = id THEN by ELSE ep.tickets[i]]
           pool == ep.prize_pool + ticket_price
<1>1. /\ ids \in SUBSET Nat /\ IsFiniteSet(ids) /\ id \in Nat
      /\ \A i \in ids : i < id
      /\ ep.tickets = [i \in ids |-> ep.tickets[i]]
      /\ ep.prize_pool \in Nat
  BY DEF GoodLottery
<1>2. id \notin ids
  BY <1>1
<1>3. new = [ep EXCEPT !.tickets = t, !.next_ticket_id = id + 1, !.prize_pool = pool]
  BY DEF Draws!Bought
<1>4. /\ new = [authorized |-> ep.authorized, next_draw_time |-> ep.next_draw_time,
                prize_pool |-> pool, tickets |-> t, next_ticket_id |-> id + 1,
                last_winner |-> ep.last_winner, winner_paid |-> ep.winner_paid,
                paused |-> ep.paused]
  <2> HIDE DEF t, pool
  <2> QED  BY <1>3 DEF GoodLottery
<1>5. DOMAIN t = ids \cup {id} /\ Draws!Without(t, id) = ep.tickets
  <2>1. DOMAIN t \ {id} = ids
    BY <1>2
  <2>2. \A i \in ids : t[i] = ep.tickets[i]
    BY <1>2
  <2> QED  BY <1>1, <2>1, <2>2 DEF Draws!Without
<1>6. IsFiniteSet(ids \cup {id})
  BY <1>1, FS_AddElement
<1>7. pool \in Nat
  BY <1>1, EpisodeChainAssumption
<1>8. t = [i \in DOMAIN t |-> t[i]]
  OBVIOUS
<1>9. \A i \in ids \cup {id} : i \in Nat /\ i < id + 1
  BY <1>1
<1> HIDE DEF t, pool
<1>10. GoodLottery(new)
  BY <1>1, <1>4, <1>5, <1>6, <1>7, <1>8, <1>9 DEF GoodLottery
<1> QED  BY <1>2, <1>4, <1>5, <1>10 DEF pool

LEMMA SameTickets ==
  ASSUME NEW ep, GoodLottery(ep), NEW pool, pool \in Nat, NEW winner, NEW paid, NEW time, NEW paused,
         NEW new, new = [authorized |-> ep.authorized, next_draw_time |-> time,
                         prize_pool |-> pool, tickets |-> ep.tickets,
                         next_ticket_id |-> ep.next_ticket_id, last_winner |-> winner,
                         winner_paid |-> paid, paused |-> paused]
  PROVE  GoodLottery(new)
<1>1. /\ new.authorized = ep.authorized /\ new.next_draw_time = time /\ new.prize_pool = pool
      /\ new.tickets = ep.tickets /\ new.next_ticket_id = ep.next_ticket_id
      /\ new.last_winner = winner /\ new.winner_paid = paid /\ new.paused = paused
  OBVIOUS
<1> QED  BY <1>1 DEF GoodLottery

DrawMade(ep, new) ==
    /\ new.tickets = ep.tickets /\ new.paused = ep.paused
    /\ new.prize_pool = ep.prize_pool
    /\ \/ new.last_winner = ep.last_winner /\ new.winner_paid = ep.winner_paid
       \/ new.last_winner \in DOMAIN ep.tickets /\ new.winner_paid = FALSE

LEMMA DrawWinner ==
  ASSUME NEW ep, GoodLottery(ep), NEW hash, hash \in Nat, NEW time,
         NEW new, new = Draws!DrawExecuted(ep, time, hash)
  PROVE  GoodLottery(new) /\ DrawMade(ep, new)
<1> DEFINE none == DOMAIN ep.tickets = {}
           winner == IF none THEN ep.last_winner ELSE Draws!Drawn(ep, hash)
           paid == IF none THEN ep.winner_paid ELSE FALSE
           next == time + draw_interval_secs
<1>1. new = [ep EXCEPT !.last_winner = winner, !.winner_paid = paid, !.next_draw_time = next]
  BY DEF Draws!DrawExecuted
<1>2. ep.prize_pool \in Nat
  BY DEF GoodLottery
<1>3. \/ winner = ep.last_winner /\ paid = ep.winner_paid
      \/ winner \in DOMAIN ep.tickets /\ paid = FALSE
  BY DrawnIsTicket
<1> HIDE DEF winner, paid, next
<1>4. new = [authorized |-> ep.authorized, next_draw_time |-> next,
             prize_pool |-> ep.prize_pool, tickets |-> ep.tickets,
             next_ticket_id |-> ep.next_ticket_id, last_winner |-> winner,
             winner_paid |-> paid, paused |-> ep.paused]
  BY <1>1 DEF GoodLottery
<1>5. GoodLottery(new)
  BY <1>2, <1>4, SameTickets
<1> QED  BY <1>3, <1>4, <1>5 DEF DrawMade

Paid(ep, pool, paid) == [ep EXCEPT !.prize_pool = pool, !.winner_paid = paid]

LEMMA ClaimPrize ==
  ASSUME NEW ep, GoodLottery(ep), NEW pool, pool \in Nat, NEW paid,
         NEW new, new = Paid(ep, pool, paid)
  PROVE  /\ GoodLottery(new)
         /\ new.tickets = ep.tickets /\ new.paused = ep.paused
         /\ new.prize_pool = pool /\ new.winner_paid = paid
         /\ new.last_winner = ep.last_winner
<1>1. new = [authorized |-> ep.authorized, next_draw_time |-> ep.next_draw_time,
             prize_pool |-> pool, tickets |-> ep.tickets,
             next_ticket_id |-> ep.next_ticket_id, last_winner |-> ep.last_winner,
             winner_paid |-> paid, paused |-> ep.paused]
  BY DEF GoodLottery, Paid
<1>2. GoodLottery(new)
  BY <1>1, SameTickets
<1> QED  BY <1>1, <1>2

LEMMA SetPaused ==
  ASSUME NEW ep, GoodLottery(ep), NEW paused,
         NEW new, new = [ep EXCEPT !.paused = paused]
  PROVE  /\ GoodLottery(new)
         /\ new.tickets = ep.tickets /\ new.paused = paused
         /\ new.prize_pool = ep.prize_pool /\ new.winner_paid = ep.winner_paid
         /\ new.last_winner = ep.last_winner
<1>1. new = [authorized |-> ep.authorized, next_draw_time |-> ep.next_draw_time,
             prize_pool |-> ep.prize_pool, tickets |-> ep.tickets,
             next_ticket_id |-> ep.next_ticket_id, last_winner |-> ep.last_winner,
             winner_paid |-> ep.winner_paid, paused |-> paused]
  BY DEF GoodLottery
<1>2. ep.prize_pool \in Nat
  BY DEF GoodLottery
<1>3. GoodLottery(new)
  BY <1>1, <1>2, SameTickets
<1> QED  BY <1>1, <1>3

Undrawn(ep, pool) ==
    [ep EXCEPT !.prize_pool = pool, !.last_winner = None, !.winner_paid = FALSE]

LEMMA UndrawWinner ==
  ASSUME NEW ep, GoodLottery(ep), NEW pool, pool \in Nat,
         NEW new, new = Undrawn(ep, pool)
  PROVE  /\ GoodLottery(new)
         /\ new.tickets = ep.tickets /\ new.paused = ep.paused
         /\ new.prize_pool = pool /\ ~ new.winner_paid
         /\ new.last_winner = None
<1>1. new = [authorized |-> ep.authorized, next_draw_time |-> ep.next_draw_time,
             prize_pool |-> pool, tickets |-> ep.tickets,
             next_ticket_id |-> ep.next_ticket_id, last_winner |-> None,
             winner_paid |-> FALSE, paused |-> ep.paused]
  BY DEF GoodLottery, Undrawn
<1>2. GoodLottery(new)
  BY <1>1, SameTickets
<1> QED  BY <1>1, <1>2

LEMMA UnbuyTicket ==
  ASSUME NEW ep, GoodLottery(ep), NEW id,
         NEW new, new = Draws!Unbought(ep, id)
  PROVE  /\ GoodLottery(new)
         /\ new.tickets = Draws!Without(ep.tickets, id)
         /\ DOMAIN new.tickets = DOMAIN ep.tickets \ {id}
         /\ new.paused = ep.paused
         /\ new.last_winner = ep.last_winner /\ new.winner_paid = ep.winner_paid
         /\ new.prize_pool = IF ep.prize_pool > ticket_price
                             THEN ep.prize_pool - ticket_price ELSE 0
<1> DEFINE ids == DOMAIN ep.tickets
           t == Draws!Without(ep.tickets, id)
           pool == IF ep.prize_pool > ticket_price THEN ep.prize_pool - ticket_price ELSE 0
<1>1. /\ ids \in SUBSET Nat /\ IsFiniteSet(ids)
      /\ \A i \in ids : i < ep.next_ticket_id
      /\ ep.prize_pool \in Nat /\ ep.next_ticket_id \in Nat
  BY DEF GoodLottery
<1>2. DOMAIN t = ids \ {id} /\ t = [i \in DOMAIN t |-> t[i]]
  BY DEF Draws!Without
<1>3. new = [ep EXCEPT !.tickets = t, !.prize_pool = pool]
  BY DEF Draws!Unbought
<1>4. pool \in Nat
  BY <1>1, EpisodeChainAssumption
<1>5. IsFiniteSet(ids \ {id})
  BY <1>1, FS_RemoveElement
<1> HIDE DEF t, pool
<1>6. new = [authorized |-> ep.authorized, next_draw_time |-> ep.next_draw_time,
             prize_pool |-> pool, tickets |-> t, next_ticket_id |-> ep.next_ticket_id,
             last_winner |-> ep.last_winner, winner_paid |-> ep.winner_paid,
             paused |-> ep.paused]
  BY <1>3 DEF GoodLottery
<1>7. GoodLottery(new)
  BY <1>1, <1>2, <1>4, <1>5, <1>6 DEF GoodLottery
<1> QED  BY <1>2, <1>6, <1>7 DEF t, pool
(* A command that is accepted goes on the trail *)
LEMMA LotteryGrows ==
  ASSUME Trailed, LotteryTrail, app = "lottery",
         NEW cmd, NEW by, NEW r, Applied(cmd, by, r),
         GoodLottery(r.state),
         Reverses([cmd |-> cmd, by |-> by, undo |-> r.undo, before |-> episode],
                  r.state.tickets, r.state.paused),
         DOMAIN episode.tickets \subseteq DOMAIN r.state.tickets,
         Cardinality(DOMAIN r.state.tickets) =
            Cardinality(DOMAIN episode.tickets) + (IF cmd.type = "BuyTicket" THEN 1 ELSE 0),
         r.state.prize_pool <= ticket_price * Cardinality(DOMAIN r.state.tickets),
         \/ r.state.last_winner = episode.last_winner
         \/ r.undo.type = "UndoExecuteDraw" /\ r.state.last_winner \in DOMAIN episode.tickets,
         r.state.winner_paid => r.state.last_winner # None
  PROVE  LotteryTrail'
<1>0. PICK new : new = [cmd |-> cmd, by |-> by, undo |-> r.undo, before |-> episode]
  OBVIOUS
<1>1. PICK n \in Nat :
         /\ n = Len(trail) /\ Len(trail') = n + 1
         /\ \A i \in 1..n : trail'[i] = trail[i]
         /\ trail'[n + 1] = new
         /\ \A i \in 0..n : After(i)' = After(i)
         /\ After(n) = episode /\ After(n + 1)' = episode'
         /\ OnTrail("BuyTicket")' =
               IF cmd.type = "BuyTicket" THEN Append(OnTrail("BuyTicket"), new) ELSE OnTrail("BuyTicket")
  BY <1>0, AppliedGrows
<1>2. episode' = r.state /\ app' = app
  BY DEF Applied
<1>3. new.before = episode /\ new.undo = r.undo
  BY <1>0
<1>4. \A i \in 1..(n + 1) : i \in 1..n \/ i = n + 1
  OBVIOUS
<1>5. \A i \in 1..n : i \in 0..n /\ i \in 1..(n + 1)
  OBVIOUS
<1>6. \A i \in 1..(n + 1) : Reverses(trail'[i], After(i)'.tickets, After(i)'.paused)
  <2>1. \A i \in 1..n : Reverses(trail[i], After(i).tickets, After(i).paused)
    BY <1>1 DEF LotteryTrail
  <2>2. Reverses(new, r.state.tickets, r.state.paused)
    BY <1>0
  <2> QED  BY <1>1, <1>2, <1>4, <1>5, <2>1, <2>2
<1>7. \A i \in 1..(n + 1) : DOMAIN trail'[i].before.tickets \subseteq DOMAIN episode.tickets
  BY <1>1, <1>3, <1>4 DEF LotteryTrail
<1>8. \A i, j \in 1..(n + 1) : i <= j =>
         DOMAIN trail'[i].before.tickets \subseteq DOMAIN trail'[j].before.tickets
  <2> SUFFICES ASSUME NEW i \in 1..(n + 1), NEW j \in 1..(n + 1), i <= j
               PROVE  DOMAIN trail'[i].before.tickets \subseteq DOMAIN trail'[j].before.tickets
    OBVIOUS
  <2>1. CASE j = n + 1
    BY <1>1, <1>3, <1>7, <2>1
  <2>2. CASE j # n + 1
    <3>1. i \in 1..n /\ j \in 1..n
      BY <2>2
    <3> QED  BY <1>1, <3>1 DEF LotteryTrail
  <2> QED  BY <2>1, <2>2
<1>9. Cardinality(DOMAIN r.state.tickets) = Len(OnTrail("BuyTicket")')
  <2>1. PICK s : s = OnTrail("BuyTicket")
    OBVIOUS
  <2>2. PICK S : s \in Seq(S)
    BY <2>1, OnTrailSeq
  <2>3. Len(Append(s, new)) = Len(s) + 1
    <3>1. s \in Seq(S \cup {new}) /\ new \in S \cup {new}
      BY <2>2, SeqMonotonic
    <3> QED  BY <3>1, AppendProperties
  <2>4. Len(s) \in Nat /\ Len(s) + 0 = Len(s)
    BY <2>2, LenProperties
  <2>5. Cardinality(DOMAIN episode.tickets) = Len(s)
    BY <2>1 DEF LotteryTrail
  <2> QED  BY <1>1, <2>1, <2>3, <2>4, <2>5
<1>10. r.state.last_winner # None =>
          \E i \in 1..(n + 1) : /\ trail'[i].undo.type = "UndoExecuteDraw"
                                /\ r.state.last_winner \in DOMAIN trail'[i].before.tickets
  <2>1. CASE r.state.last_winner = episode.last_winner
    BY <1>1, <1>5, <2>1 DEF LotteryTrail, DrewFrom
  <2>2. CASE r.undo.type = "UndoExecuteDraw" /\ r.state.last_winner \in DOMAIN episode.tickets
    BY <1>1, <1>3, <2>2
  <2> QED  BY <2>1, <2>2
<1>11. \A i \in 1..(n + 1) : DOMAIN trail'[i].before.tickets \subseteq DOMAIN r.state.tickets
  BY <1>7
<1> QED  BY <1>1, <1>2, <1>6, <1>8, <1>9, <1>10, <1>11 DEF LotteryTrail, GoodLottery, DrewFrom

LEMMA GambleStep ==
  ASSUME Trailed, LotteryTrail, executed \in Nat, Gamble
  PROVE  LotteryTrail'
<1>1. PICK cmd \in Draws!Commands, by \in Signers, hash \in Hashes :
         Applied(cmd, by, Draws!Execute(episode, cmd, by, Time, hash))
  BY DEF Gamble
<1>2. app = "lottery" /\ hash \in Nat /\ Time \in Nat
  BY EpisodeChainAssumption DEF Gamble, Time
<1> DEFINE r == Draws!Execute(episode, cmd, by, Time, hash)
           new == [cmd |-> cmd, by |-> by, undo |-> r.undo, before |-> episode]
           c == Cardinality(DOMAIN episode.tickets)
<1>3. /\ Draws!Accepts(episode, cmd, by, Time)
      /\ r.state = Draws!Executed(episode, cmd, by, Time, hash)
      /\ r.undo = Draws!RollbackOf(episode, cmd)
  BY <1>1 DEF Draws!Execute, Applied
<1>4. new.cmd = cmd /\ new.before = episode /\ new.undo = r.undo
  OBVIOUS
<1>5. /\ GoodLottery(episode)
      /\ episode.prize_pool <= ticket_price * c
      /\ episode.winner_paid => episode.last_winner # None
  BY <1>2 DEF LotteryTrail
<1>6. /\ c \in Nat /\ ticket_price \in Nat /\ episode.prize_pool \in Nat
      /\ IsFiniteSet(DOMAIN episode.tickets) /\ ~ episode.paused
  BY <1>3, <1>5, EpisodeChainAssumption, FS_CardinalityType DEF GoodLottery, Draws!Accepts
<1> HIDE DEF r, new
<1>7. Applied(cmd, by, r)
  BY <1>1 DEF r
<1>8. CASE cmd.type = "BuyTicket"
  <2>1. r.state = Draws!Bought(episode, by)
        /\ r.undo = [type |-> "UndoBuyTicket", ticket_id |-> episode.next_ticket_id]
    BY <1>3, <1>8 DEF Draws!Executed, Draws!RollbackOf
  <2>2. /\ GoodLottery(r.state)
        /\ DOMAIN r.state.tickets = DOMAIN episode.tickets \cup {episode.next_ticket_id}
        /\ episode.next_ticket_id \notin DOMAIN episode.tickets
        /\ Draws!Without(r.state.tickets, episode.next_ticket_id) = episode.tickets
        /\ r.state.paused = episode.paused
        /\ r.state.last_winner = episode.last_winner
        /\ r.state.winner_paid = episode.winner_paid
        /\ r.state.prize_pool = episode.prize_pool + ticket_price
    BY <1>5, <2>1, BuyTicket
  <2>3. Reverses(new, r.state.tickets, r.state.paused)
    BY <1>4, <1>5, <1>8, <2>1, <2>2 DEF Reverses
  <2>4. Cardinality(DOMAIN r.state.tickets) = c + 1
    BY <1>6, <2>2, FS_AddElement
  <2>5. episode.prize_pool + ticket_price <= ticket_price * (c + 1)
    <3> DEFINE d == ticket_price * c
    <3>1. ticket_price * (c + 1) = d + ticket_price /\ d \in Nat
      <4> HIDE DEF c
      <4> QED  BY <1>6
    <3> HIDE DEF d, c
    <3> QED  BY <1>5, <1>6, <3>1 DEF d
  <2>6. Cardinality(DOMAIN r.state.tickets) =
           Cardinality(DOMAIN episode.tickets) + (IF cmd.type = "BuyTicket" THEN 1 ELSE 0)
    BY <1>8, <2>4
  <2> HIDE DEF c
  <2> QED  BY <1>2, <1>5, <1>7, <2>2, <2>3, <2>4, <2>5, <2>6, LotteryGrows DEF new
<1>9. ASSUME cmd.type # "BuyTicket", r.state.tickets = episode.tickets,
             GoodLottery(r.state), Reverses(new, r.state.tickets, r.state.paused),
             r.state.prize_pool = episode.prize_pool \/ r.state.prize_pool = 0,
             \/ r.state.last_winner = episode.last_winner
             \/ r.undo.type = "UndoExecuteDraw" /\ r.state.last_winner \in DOMAIN episode.tickets,
             r.state.winner_paid => r.state.last_winner # None
      PROVE  LotteryTrail'
  <2>1. Cardinality(DOMAIN r.state.tickets) =
           Cardinality(DOMAIN episode.tickets) + (IF cmd.type = "BuyTicket" THEN 1 ELSE 0)
    BY <1>6, <1>9
  <2>2. r.state.prize_pool <= ticket_price * Cardinality(DOMAIN r.state.tickets)
    <3> DEFINE d == ticket_price * c
    <3>1. d \in Nat
      <4> HIDE DEF c
      <4> QED  BY <1>6
    <3>2. episode.prize_pool <= d /\ 0 <= d
      BY <1>5, <3>1
    <3> QED  BY <1>9, <3>2
  <2> HIDE DEF c
  <2> QED  BY <1>2, <1>7, <1>9, <2>1, <2>2, LotteryGrows DEF new
<1>10. CASE cmd.type = "ExecuteDraw"
  <2>1. r.state = Draws!DrawExecuted(episode, Time, hash)
        /\ r.undo = [type |-> "UndoExecuteDraw", prize_pool_before |-> episode.prize_pool]
    BY <1>3, <1>10 DEF Draws!Executed, Draws!RollbackOf
  <2>0. PICK ep, st, time, h : ep = episode /\ st = r.state /\ time = Time /\ h = hash
    OBVIOUS
  <2>a. GoodLottery(ep) /\ st = Draws!DrawExecuted(ep, time, h) /\ h \in Nat
    BY <1>2, <1>5, <2>0, <2>1
  <2>b. GoodLottery(st) /\ DrawMade(ep, st)
    BY <2>a, DrawWinner
  <2>2. /\ GoodLottery(r.state)
        /\ r.state.tickets = episode.tickets /\ r.state.paused = episode.paused
        /\ r.state.prize_pool = episode.prize_pool
        /\ \/ r.state.last_winner = episode.last_winner /\ r.state.winner_paid = episode.winner_paid
           \/ r.state.last_winner \in DOMAIN episode.tickets /\ r.state.winner_paid = FALSE
    BY <2>0, <2>b DEF DrawMade
  <2>3. Reverses(new, r.state.tickets, r.state.paused)
    BY <1>4, <1>5, <1>6, <1>10, <2>1, <2>2 DEF Reverses
  <2> QED  BY <1>5, <1>9, <1>10, <2>1, <2>2, <2>3
<1>11. CASE cmd.type = "ClaimPrize"
  <2>1. r.state = [episode EXCEPT !.prize_pool = 0, !.winner_paid = TRUE]
        /\ r.undo = [type |-> "UndoClaimPrize"]
    BY <1>3, <1>11 DEF Draws!Executed, Draws!RollbackOf
  <2>0. PICK ep, st, pool, paid : ep = episode /\ st = r.state /\ pool = 0 /\ paid = TRUE
    OBVIOUS
  <2>a. GoodLottery(ep) /\ pool \in Nat /\ st = Paid(ep, pool, paid)
    BY <1>5, <2>0, <2>1 DEF Paid
  <2>b. /\ GoodLottery(st)
        /\ st.tickets = ep.tickets /\ st.paused = ep.paused
        /\ st.prize_pool = pool /\ st.last_winner = ep.last_winner
    BY <2>a, ClaimPrize
  <2>2. /\ GoodLottery(r.state)
        /\ r.state.tickets = episode.tickets /\ r.state.paused = episode.paused
        /\ r.state.prize_pool = 0 /\ r.state.last_winner = episode.last_winner
    BY <2>0, <2>b
  <2>3. episode.last_winner \in DOMAIN episode.tickets
    BY <1>3, <1>11 DEF Draws!Accepts
  <2>4. Reverses(new, r.state.tickets, r.state.paused)
    BY <1>4, <1>5, <1>11, <2>1, <2>2, <2>3 DEF Reverses
  <2>5. episode.last_winner # None
    BY <1>5, <2>3, EpisodeChainAssumption DEF GoodLottery
  <2> QED  BY <1>9, <1>11, <2>2, <2>4, <2>5
<1>12. CASE cmd.type = "CloseEpisode"
  <2>1. r.state = [episode EXCEPT !.paused = TRUE] /\ r.undo = [type |-> "UndoClose"]
    BY <1>3, <1>12 DEF Draws!Executed, Draws!RollbackOf
  <2>2. /\ GoodLottery(r.state)
        /\ r.state.tickets = episode.tickets
        /\ r.state.prize_pool = episode.prize_pool
        /\ r.state.last_winner = episode.last_winner
        /\ r.state.winner_paid = episode.winner_paid
    BY <1>5, <2>1, SetPaused
  <2>3. Reverses(new, r.state.tickets, r.state.paused)
    BY <1>4, <1>5, <1>6, <1>12, <2>1, <2>2 DEF Reverses
  <2> QED  BY <1>5, <1>9, <1>12, <2>2, <2>3
<1>13. cmd.type \in {"BuyTicket", "ExecuteDraw", "ClaimPrize", "CloseEpisode"}
  BY DEF Draws!Commands
<1> QED  BY <1>8, <1>10, <1>11, <1>12, <1>13
(* What a rollback makes of the lottery *)
Backed(ep) ==
    /\ ep.prize_pool <= ticket_price * Cardinality(DOMAIN ep.tickets)
    /\ ep.winner_paid => ep.last_winner # None

BackFrom(e, ep, new) ==
    /\ new.tickets = e.before.tickets /\ new.paused = e.before.paused
    /\ Cardinality(DOMAIN e.before.tickets) =
          Cardinality(DOMAIN ep.tickets) - (IF e.cmd.type = "BuyTicket" THEN 1 ELSE 0)
    /\ \/ new.last_winner = None
       \/ e.undo.type # "UndoExecuteDraw" /\ new.last_winner = ep.last_winner

LEMMA LotteryBack ==
  ASSUME NEW e, NEW ep, GoodLottery(ep), Reverses(e, ep.tickets, ep.paused), Backed(ep),
         NEW r, r = Draws!Rollback(ep, e.undo)
  PROVE  r.ok /\ GoodLottery(r.state) /\ Backed(r.state) /\ BackFrom(e, ep, r.state)
<1> DEFINE ids == DOMAIN e.before.tickets
           c == Cardinality(ids)
<1>1. /\ GoodLottery(e.before) /\ IsFiniteSet(ids) /\ IsFiniteSet(DOMAIN ep.tickets)
      /\ ticket_price \in Nat \ {0} /\ ep.prize_pool \in Nat
  BY EpisodeChainAssumption DEF Reverses, GoodLottery
<1>0. /\ ep.prize_pool <= ticket_price * Cardinality(DOMAIN ep.tickets)
      /\ ep.winner_paid => ep.last_winner # None
  BY DEF Backed
<1>2. c \in Nat /\ Cardinality(DOMAIN ep.tickets) \in Nat
  <2> HIDE DEF ids
  <2> QED  BY <1>1, FS_CardinalityType
<1>3. ticket_price * c \in Nat
  <2> HIDE DEF c
  <2> QED  BY <1>1, <1>2
<1>4. CASE e.cmd.type = "BuyTicket"
  <2>1. PICK id : id = e.undo.ticket_id
    OBVIOUS
  <2>2. /\ e.undo.type = "UndoBuyTicket" /\ id \in DOMAIN ep.tickets
        /\ Draws!Without(ep.tickets, id) = e.before.tickets /\ ep.paused = e.before.paused
    BY <1>4, <2>1 DEF Reverses
  <2>3. r.ok /\ r.state = Draws!Unbought(ep, id)
    BY <2>1, <2>2 DEF Draws!Rollback, Draws!RolledBack
  <2>4. /\ GoodLottery(r.state)
        /\ r.state.tickets = Draws!Without(ep.tickets, id)
        /\ DOMAIN r.state.tickets = DOMAIN ep.tickets \ {id}
        /\ r.state.paused = ep.paused
        /\ r.state.last_winner = ep.last_winner /\ r.state.winner_paid = ep.winner_paid
        /\ r.state.prize_pool = IF ep.prize_pool > ticket_price
                                THEN ep.prize_pool - ticket_price ELSE 0
    BY <2>3, UnbuyTicket
  <2>5. r.state.tickets = e.before.tickets /\ ids = DOMAIN ep.tickets \ {id}
    BY <2>2, <2>4
  <2>6. c = Cardinality(DOMAIN ep.tickets) - 1
    BY <1>1, <2>2, <2>5, FS_RemoveElement
  <2>7. r.state.prize_pool <= ticket_price * c
    <3> DEFINE d == ticket_price * c
    <3>1. Cardinality(DOMAIN ep.tickets) = c + 1
      BY <1>2, <2>6
    <3>2. ticket_price * (c + 1) = d + ticket_price
      <4> HIDE DEF c
      <4> QED  BY <1>1, <1>2
    <3>3. ep.prize_pool <= d + ticket_price
      <4> HIDE DEF d, c
      <4> QED  BY <1>0, <3>1, <3>2
    <3>4. d \in Nat
      BY <1>3
    <3>5. r.state.prize_pool <= d
      <4> HIDE DEF d, c
      <4> QED  BY <1>1, <2>4, <3>3, <3>4
    <3> QED  BY <3>5
  <2> QED  BY <1>0, <1>4, <2>2, <2>3, <2>4, <2>5, <2>6, <2>7 DEF Backed, BackFrom
<1>5. CASE e.cmd.type # "BuyTicket"
  <2>1. /\ ep.tickets = e.before.tickets
        /\ \/ e.undo.type = "UndoExecuteDraw" /\ ep.paused = e.before.paused
           \/ e.undo.type = "UndoClaimPrize" /\ ep.paused = e.before.paused
           \/ e.undo.type = "UndoClose" /\ e.before.paused = FALSE
    BY <1>5 DEF Reverses
  <2>2. c = Cardinality(DOMAIN ep.tickets)
    BY <2>1
  <2>3. c = Cardinality(DOMAIN ep.tickets) - (IF e.cmd.type = "BuyTicket" THEN 1 ELSE 0)
    BY <1>2, <1>5, <2>2
  <2>4. CASE e.undo.type = "UndoExecuteDraw"
    <3>1. PICK pool : pool = e.undo.prize_pool_before
      OBVIOUS
    <3>2. pool \in Nat /\ pool <= ticket_price * c
      BY <2>4, <3>1 DEF Reverses
    <3>3. r.ok /\ r.state = Undrawn(ep, pool)
      BY <2>4, <3>1 DEF Draws!Rollback, Draws!RolledBack, Undrawn
    <3>4. /\ GoodLottery(r.state)
          /\ r.state.tickets = ep.tickets /\ r.state.paused = ep.paused
          /\ r.state.prize_pool = pool /\ ~ r.state.winner_paid
          /\ r.state.last_winner = None
      <4>1. pool \in Nat
        BY <3>2
      <4> QED  BY <3>3, <4>1, UndrawWinner
    <3> QED  BY <2>1, <2>3, <2>4, <3>2, <3>3, <3>4 DEF Backed, BackFrom
  <2>5. CASE e.undo.type = "UndoClaimPrize"
    <3>1. PICK pool, paid : pool = ticket_price /\ paid = FALSE
      OBVIOUS
    <3>2. pool \in Nat /\ pool <= ticket_price * c
      <4>1. c # 0
        <5>1. ids # {}
          BY <2>5 DEF Reverses
        <5> HIDE DEF ids
        <5> QED  BY <1>1, <5>1, FS_EmptySet
      <4> HIDE DEF c
      <4> QED  BY <1>1, <1>2, <3>1, <4>1
    <3>3. r.ok /\ r.state = Paid(ep, pool, paid)
      BY <2>5, <3>1 DEF Draws!Rollback, Draws!RolledBack, Paid
    <3>4. /\ GoodLottery(r.state)
          /\ r.state.tickets = ep.tickets /\ r.state.paused = ep.paused
          /\ r.state.prize_pool = pool /\ r.state.winner_paid = paid
          /\ r.state.last_winner = ep.last_winner
      <4>1. pool \in Nat
        BY <3>2
      <4> QED  BY <3>3, <4>1, ClaimPrize
    <3> QED  BY <2>1, <2>3, <2>5, <3>1, <3>2, <3>3, <3>4, <1>0 DEF Backed, BackFrom
  <2>6. CASE e.undo.type = "UndoClose"
    <3>1. PICK paused : paused = FALSE
      OBVIOUS
    <3>2. r.ok /\ r.state = [ep EXCEPT !.paused = paused]
      BY <2>6, <3>1 DEF Draws!Rollback, Draws!RolledBack
    <3>3. /\ GoodLottery(r.state)
          /\ r.state.tickets = ep.tickets /\ r.state.paused = paused
          /\ r.state.prize_pool = ep.prize_pool /\ r.state.winner_paid = ep.winner_paid
          /\ r.state.last_winner = ep.last_winner
      BY <3>2, SetPaused
    <3> QED  BY <2>1, <2>2, <2>3, <2>6, <3>1, <3>2, <3>3, <1>0 DEF Backed, BackFrom
  <2> QED  BY <2>1, <2>4, <2>5, <2>6
<1> QED  BY <1>4, <1>5

(* A rollback gives the lottery back its tickets, and what it promises is  *)
(* backed by them                                                          *)
LEMMA UndoLottery ==
  ASSUME Trailed, LotteryTrail, Undo, app = "lottery"
  PROVE  /\ LotteryTrail'
         /\ RolledBack(Last(trail).undo).ok
         /\ episode'.tickets = Last(trail).before.tickets
         /\ episode'.paused = Last(trail).before.paused
<1>1. PICK n \in Nat \ {0} :
         /\ Trailed' /\ n = Len(trail) /\ Len(trail') = n - 1
         /\ \A i \in 1..(n - 1) : trail'[i] = trail[i]
         /\ Last(trail) = trail[n]
         /\ episode' = RolledBack(trail[n].undo).state
         /\ \A i \in 0..(n - 2) : After(i)' = After(i)
         /\ After(n) = episode
         /\ After(n - 1) = trail[n].before /\ After(n - 1)' = episode'
         /\ \A type : OnTrail(type) =
               IF trail[n].cmd.type = type THEN Append(OnTrail(type)', trail[n])
               ELSE OnTrail(type)'
  BY UndoShrinks
<1>2. PICK e, r : e = trail[n] /\ r = Draws!Rollback(episode, e.undo)
  OBVIOUS
<1>3. app' = "lottery" /\ RolledBack(e.undo) = r /\ n \in 1..n
  BY <1>2 DEF Undo, RolledBack
<1>4. /\ GoodLottery(episode)
      /\ \A i \in 1..n : Reverses(trail[i], After(i).tickets, After(i).paused)
      /\ \A i, j \in 1..n : i <= j =>
            DOMAIN trail[i].before.tickets \subseteq DOMAIN trail[j].before.tickets
      /\ Cardinality(DOMAIN episode.tickets) = Len(OnTrail("BuyTicket"))
      /\ episode.prize_pool <= ticket_price * Cardinality(DOMAIN episode.tickets)
      /\ episode.last_winner # None => \E i \in 1..n : DrewFrom(i, episode.last_winner)
      /\ episode.winner_paid => episode.last_winner # None
  BY <1>1 DEF LotteryTrail
<1>5. Reverses(e, episode.tickets, episode.paused)
  BY <1>1, <1>2, <1>3, <1>4
<1>6. /\ r.ok /\ GoodLottery(r.state)
      /\ r.state.tickets = e.before.tickets /\ r.state.paused = e.before.paused
      /\ Cardinality(DOMAIN e.before.tickets) =
            Cardinality(DOMAIN episode.tickets) - (IF e.cmd.type = "BuyTicket" THEN 1 ELSE 0)
      /\ r.state.prize_pool <= ticket_price * Cardinality(DOMAIN e.before.tickets)
      /\ \/ r.state.last_winner = None
         \/ e.undo.type # "UndoExecuteDraw" /\ r.state.last_winner = episode.last_winner
      /\ r.state.winner_paid => r.state.last_winner # None
  <2>1. PICK ep : ep = episode
    OBVIOUS
  <2>2. /\ GoodLottery(ep) /\ Reverses(e, ep.tickets, ep.paused) /\ Backed(ep)
        /\ r = Draws!Rollback(ep, e.undo)
    BY <1>2, <1>4, <1>5, <2>1 DEF Backed
  <2>3. r.ok /\ GoodLottery(r.state) /\ Backed(r.state) /\ BackFrom(e, ep, r.state)
    BY <2>2, LotteryBack
  <2> QED  BY <2>1, <2>3 DEF Backed, BackFrom
<1>7. episode' = r.state
  BY <1>1, <1>2, <1>3
<1>8. \A i \in 1..(n - 1) : i \in 1..n /\ i <= n /\ (i \in 0..(n - 2) \/ i = n - 1)
  OBVIOUS
<1>9. \A i \in 1..(n - 1) : Reverses(trail'[i], After(i)'.tickets, After(i)'.paused)
  <2> SUFFICES ASSUME NEW i \in 1..(n - 1)
               PROVE  Reverses(trail'[i], After(i)'.tickets, After(i)'.paused)
    OBVIOUS
  <2>1. Reverses(trail'[i], After(i).tickets, After(i).paused)
    BY <1>1, <1>4, <1>8
  <2>2. After(i)'.tickets = After(i).tickets /\ After(i)'.paused = After(i).paused
    BY <1>1, <1>2, <1>6, <1>7, <1>8
  <2> QED  BY <2>1, <2>2
<1>10. /\ \A i, j \in 1..(n - 1) : i <= j =>
            DOMAIN trail'[i].before.tickets \subseteq DOMAIN trail'[j].before.tickets
       /\ \A i \in 1..(n - 1) : DOMAIN trail'[i].before.tickets \subseteq DOMAIN r.state.tickets
  <2>1. ASSUME NEW i \in 1..(n - 1), NEW j \in 1..(n - 1), i <= j
        PROVE  DOMAIN trail'[i].before.tickets \subseteq DOMAIN trail'[j].before.tickets
    BY <2>1, <1>1, <1>4, <1>8
  <2>2. ASSUME NEW i \in 1..(n - 1)
        PROVE  DOMAIN trail'[i].before.tickets \subseteq DOMAIN r.state.tickets
    <3>1. i \in 1..n /\ i <= n /\ n \in 1..n
      BY <1>8, <1>3
    <3>2. DOMAIN trail[i].before.tickets \subseteq DOMAIN trail[n].before.tickets
      BY <3>1, <1>4
    <3>3. trail'[i] = trail[i] /\ r.state.tickets = trail[n].before.tickets
      BY <1>1, <1>2, <1>6
    <3> QED  BY <3>2, <3>3
  <2> QED  BY <2>1, <2>2
<1>11. Cardinality(DOMAIN r.state.tickets) = Len(OnTrail("BuyTicket")')
  <2>1. PICK s : s = OnTrail("BuyTicket")'
    OBVIOUS
  <2>2. PICK S : s \in Seq(S)
    <3>1. PICK S : trail' \in Seq(S)
      BY <1>1 DEF Trailed
    <3>2. \E T : s = Keep(trail', T)
      BY <2>1 DEF OnTrail
    <3> QED  BY <3>1, <3>2, KeepSeq
  <2>3. Len(Append(s, e)) = Len(s) + 1
    <3>1. s \in Seq(S \cup {e}) /\ e \in S \cup {e}
      BY <2>2, SeqMonotonic
    <3> QED  BY <3>1, AppendProperties
  <2>4. Len(s) \in Nat /\ Len(s) - 0 = Len(s)
    BY <2>2, LenProperties
  <2>5. OnTrail("BuyTicket") = IF e.cmd.type = "BuyTicket" THEN Append(s, e) ELSE s
    BY <1>1, <1>2, <2>1
  <2> QED  BY <1>4, <1>6, <2>1, <2>3, <2>4, <2>5
<1>12. r.state.last_winner # None =>
          \E i \in 1..(n - 1) : /\ trail'[i].undo.type = "UndoExecuteDraw"
                                /\ r.state.last_winner \in DOMAIN trail'[i].before.tickets
  <2> SUFFICES ASSUME r.state.last_winner # None
               PROVE  \E i \in 1..(n - 1) :
                         /\ trail'[i].undo.type = "UndoExecuteDraw"
                         /\ r.state.last_winner \in DOMAIN trail'[i].before.tickets
    OBVIOUS
  <2>1. e.undo.type # "UndoExecuteDraw" /\ r.state.last_winner = episode.last_winner
    BY <1>6
  <2>2. PICK i \in 1..n : DrewFrom(i, episode.last_winner)
    BY <1>4, <2>1
  <2>3. i # n
    BY <1>2, <2>1, <2>2 DEF DrewFrom
  <2>4. i \in 1..(n - 1)
    BY <2>3
  <2> QED  BY <1>1, <2>1, <2>2, <2>4 DEF DrewFrom
<1>13. LotteryTrail'
  BY <1>1, <1>3, <1>6, <1>7, <1>9, <1>10, <1>11, <1>12 DEF LotteryTrail, GoodLottery, DrewFrom
<1> QED  BY <1>1, <1>2, <1>3, <1>6, <1>7, <1>13
LEMMA LotteryInit == Init => LotteryTrail
<1> SUFFICES ASSUME Init, app = "lottery" PROVE LotteryTrail
  BY DEF LotteryTrail
<1>1. trail = <<>> /\ episode = Draws!Initialize(participants, 0)
  BY DEF Init
<1>2. PICK t, none : t = <<>> /\ none = None
  OBVIOUS
<1>3. /\ t = [id \in DOMAIN t |-> t[id]] /\ DOMAIN t = {}
      /\ Len(trail) = 0 /\ Len(OnTrail("BuyTicket")) = 0
  <2>1. t \in Seq({}) /\ Len(t) = 0 /\ trail = t
    BY <1>1, <1>2
  <2>2. t \in [1..0 -> {}] /\ DOMAIN t = 1..0
    BY <2>1, LenProperties
  <2>3. OnTrail("BuyTicket") = <<>>
    BY <1>1, KeepEmpty DEF OnTrail
  <2> QED  BY <1>2, <2>1, <2>2, <2>3
<1>4. episode = [authorized |-> participants, next_draw_time |-> 0 + draw_interval_secs,
                 prize_pool |-> 0, tickets |-> t, next_ticket_id |-> 1,
                 last_winner |-> none, winner_paid |-> FALSE, paused |-> FALSE]
  BY <1>1, <1>2 DEF Draws!Initialize
<1>5. /\ episode.prize_pool = 0 /\ episode.tickets = t /\ episode.next_ticket_id = 1
      /\ episode.last_winner = None /\ episode.winner_paid = FALSE
  BY <1>2, <1>4
<1>6. Cardinality({}) = 0 /\ IsFiniteSet({})
  BY FS_EmptySet
<1>7. GoodLottery(episode)
  BY <1>3, <1>4, <1>5, <1>6 DEF GoodLottery
<1>8. 0 <= ticket_price * 0
  BY EpisodeChainAssumption
<1> QED  BY <1>3, <1>5, <1>6, <1>7, <1>8 DEF LotteryTrail

LEMMA TrailedStep ==
  ASSUME Trailed, [Next]_vars
  PROVE  Trailed' /\ app' = app /\ (executed \in Nat => executed' \in Nat)
<1>1. ASSUME NEW cmd, NEW by, NEW r, Applied(cmd, by, r)
      PROVE  Trailed' /\ app' = app /\ executed' = executed + 1
  <2>1. PICK new : new = [cmd |-> cmd, by |-> by, undo |-> r.undo, before |-> episode]
    OBVIOUS
  <2>2. Trailed'
    BY <1>1, <2>1, AppliedGrows
  <2> QED  BY <1>1, <2>2 DEF Applied
<1>2. CASE Undo
  BY <1>2, UndoShrinks DEF Undo
<1>3. CASE UNCHANGED vars
  BY <1>3 DEF vars, Trailed
<1>4. Play \/ Gamble \/ Comment \/ Bond \/ PlayMcp \/ Speak \/ Gather =>
         \E cmd, by, r : Applied(cmd, by, r)
  <2>1. Play => \E cmd, by, r : Applied(cmd, by, r)
    BY DEF Play
  <2>2. Gamble => \E cmd, by, r : Applied(cmd, by, r)
    BY DEF Gamble
  <2>3. Comment => \E cmd, by, r : Applied(cmd, by, r)
    BY DEF Comment
  <2>4. Bond => \E cmd, by, r : Applied(cmd, by, r)
    BY DEF Bond
  <2>5. PlayMcp => \E cmd, by, r : Applied(cmd, by, r)
    BY DEF PlayMcp
  <2>6. Speak => \E cmd, by, r : Applied(cmd, by, r)
    BY DEF Speak
  <2>7. Gather => \E cmd, by, r : Applied(cmd, by, r)
    BY DEF Gather
  <2> QED  BY <2>1, <2>2, <2>3, <2>4, <2>5, <2>6, <2>7
<1> QED  BY <1>1, <1>2, <1>3, <1>4 DEF Next

LEMMA LotteryStep ==
  ASSUME Trailed, LotteryTrail, executed \in Nat, [Next]_vars
  PROVE  LotteryTrail'
<1>1. CASE app # "lottery"
  BY <1>1, TrailedStep DEF LotteryTrail
<1>2. CASE app = "lottery"
  <2>1. CASE Gamble
    BY <2>1, GambleStep
  <2>2. CASE Undo
    BY <1>2, <2>2, UndoLottery
  <2>3. CASE Play \/ Comment \/ Bond \/ PlayMcp \/ Speak \/ Gather
    BY <1>2, <2>3 DEF Play, Comment, Bond, PlayMcp, Speak, Gather
  <2>4. CASE UNCHANGED vars
    BY <2>4 DEF vars, LotteryTrail, After, OnTrail, DrewFrom
  <2> QED  BY <2>1, <2>2, <2>3, <2>4 DEF Next
<1> QED  BY <1>1, <1>2
-----------------------------------------------------------------------------
(* The game of the MCP server.  A rollback is exact, whatever the board:   *)
(* the mark that the move took off is in the rollback object.              *)
GoodMcp(g) ==
    /\ g = [board |-> g.board, current |-> g.current, participants |-> g.participants,
            move_history |-> g.move_history]
    /\ g.board \in [Mcp!Cells -> Mcp!Players \cup {None}]
    /\ g.move_history \in Seq(Mcp!Cells)
    /\ g.current \in Mcp!Players

BackToMcp(e, after) ==
    GoodMcp(e.before) /\ Mcp!Rollback(after, e.undo) = [ok |-> TRUE, state |-> e.before]

McpTrail ==
    app = "mcp" =>
        GoodMcp(episode) /\ \A i \in 1..Len(trail) : BackToMcp(trail[i], After(i))

LEMMA McpMove ==
  ASSUME NEW g, GoodMcp(g), NEW mv, mv.player \in Mcp!Players, NEW auth, Mcp!Accepts(g, mv, auth),
         NEW new, new = Mcp!Executed(g, mv), NEW u, u = Mcp!RollbackOf(g, mv)
  PROVE  GoodMcp(new) /\ Mcp!Rollback(new, u) = [ok |-> TRUE, state |-> g]
<1> DEFINE h == g.move_history
           full == Mcp!Full(g)
           old == Mcp!Oldest(g)
           cell == mv.cell
           rest == IF full THEN Tail(h) ELSE h
           moves == Append(rest, cell)
           first == IF full THEN <<old>> ELSE <<>>
           marks == [c \in Mcp!Cells |-> IF c = cell THEN mv.player
                                         ELSE IF full /\ c = old THEN None ELSE g.board[c]]
           next == Mcp!Opponent(mv.player)
<1>1. /\ h \in Seq(Mcp!Cells) /\ cell \in Mcp!Cells /\ g.board[cell] = None
      /\ mv.player \in Mcp!Players /\ next \in Mcp!Players
      /\ g.board \in [Mcp!Cells -> Mcp!Players \cup {None}]
      /\ g.current \in Mcp!Players
  BY DEF GoodMcp, Mcp!Accepts, Mcp!Opponent, Mcp!Players
<1>2. /\ full => old \in Mcp!Cells
      /\ rest \in Seq(Mcp!Cells) /\ first \o rest = h
  <2>1. CASE full
    <3>1. h # <<>>
      BY <2>1 DEF Mcp!Full
    <3>2. /\ h = <<h[1]>> \o Tail(h) /\ h[1] \in Mcp!Cells /\ Head(h) = h[1]
          /\ Tail(h) \in Seq(Mcp!Cells)
      <4> HIDE DEF h
      <4> QED  BY <1>1, <3>1, HeadAndTail
    <3>3. old = Head(h)
      BY DEF Mcp!Oldest
    <3> HIDE DEF h, full, old
    <3> QED  BY <2>1, <3>2, <3>3
  <2>2. CASE ~ full
    <3>1. <<>> \o h = h
      <4> HIDE DEF h
      <4> QED  BY <1>1, ConcatEmptySeq
    <3> HIDE DEF h, full, old
    <3> QED  BY <1>1, <2>2, <3>1
  <2> QED  BY <2>1, <2>2
<1>3. moves \in Seq(Mcp!Cells) /\ Front(moves) = rest
  <2> HIDE DEF rest, cell
  <2>1. moves \in Seq(Mcp!Cells) /\ moves # <<>> /\ Last(moves) = cell
    BY <1>1, <1>2, AppendProperties DEF Last
  <2>2. moves = Append(Front(moves), Last(moves)) /\ Front(moves) \in Seq(Mcp!Cells)
    <3> HIDE DEF moves
    <3> QED  BY <2>1, FrontLast
  <2>3. Append(rest, cell) = Append(Front(moves), cell)
    BY <2>1, <2>2
  <2> HIDE DEF moves
  <2> QED  BY <1>1, <1>2, <2>1, <2>2, <2>3, AppendInjective
<1>4. marks \in [Mcp!Cells -> Mcp!Players \cup {None}]
  <2> HIDE DEF full, old, cell
  <2> QED  BY <1>1
<1>5. new = [board |-> marks, current |-> next, participants |-> g.participants,
             move_history |-> moves]
  <2>1. new = [g EXCEPT !.board = marks, !.move_history = moves, !.current = next]
    BY DEF Mcp!Executed
  <2> HIDE DEF marks, moves, next
  <2> QED  BY <2>1 DEF GoodMcp
<1>6. GoodMcp(new)
  <2> HIDE DEF marks, moves, next
  <2> QED  BY <1>1, <1>3, <1>4, <1>5 DEF GoodMcp
<1> DEFINE removed == IF full THEN [cell |-> old, symbol |-> g.board[old]] ELSE None
<1>7. u.cell = cell /\ u.prev_player = g.current /\ u.removed = removed
  BY DEF Mcp!RollbackOf
<1>8. full => removed # None /\ removed.cell = old /\ removed.symbol = g.board[old]
  <2> HIDE DEF full, old
  <2>1. full => removed \in [cell : Mcp!Cells, symbol : Mcp!Players \cup {None}]
    BY <1>1, <1>2
  <2> QED  BY <2>1, EpisodeChainAssumption
<1> DEFINE back == [c \in Mcp!Cells |-> IF u.removed # None /\ c = u.removed.cell
                                        THEN u.removed.symbol
                                        ELSE IF c = u.cell THEN None ELSE new.board[c]]
           past == (IF u.removed = None THEN <<>> ELSE <<u.removed.cell>>) \o Front(new.move_history)
<1>9. back = g.board
  <2>1. \A c \in Mcp!Cells : back[c] = g.board[c]
    <3> SUFFICES ASSUME NEW c \in Mcp!Cells PROVE back[c] = g.board[c]
      OBVIOUS
    <3>1. new.board[c] = IF c = cell THEN mv.player
                         ELSE IF full /\ c = old THEN None ELSE g.board[c]
      BY <1>5
    <3> HIDE DEF full, old, cell
    <3> QED  BY <1>1, <1>7, <1>8, <3>1
  <2>2. back = [c \in Mcp!Cells |-> back[c]] /\ g.board = [c \in Mcp!Cells |-> g.board[c]]
    BY <1>1
  <2> HIDE DEF back
  <2> QED  BY <2>1, <2>2
<1>10. past = h
  <2>1. new.move_history = moves
    BY <1>5
  <2>2. first = IF u.removed = None THEN <<>> ELSE <<u.removed.cell>>
    BY <1>7, <1>8
  <2> HIDE DEF moves, first, rest, h
  <2> QED  BY <1>2, <1>3, <2>1, <2>2
<1>11. Mcp!RolledBack(new, u) =
          [new EXCEPT !.board = back, !.move_history = past, !.current = u.prev_player]
  BY DEF Mcp!RolledBack, Front
<1>12. Mcp!RolledBack(new, u) = g
  <2> HIDE DEF back, past, marks, moves, next
  <2>1. Mcp!RolledBack(new, u) =
           [new EXCEPT !.board = g.board, !.move_history = h, !.current = g.current]
    BY <1>7, <1>9, <1>10, <1>11
  <2>2. Mcp!RolledBack(new, u) =
           [board |-> g.board, current |-> g.current, participants |-> g.participants,
            move_history |-> h]
    <3>1. PICK b, m, c : b = g.board /\ m = h /\ c = g.current
      OBVIOUS
    <3>2. PICK marked, turn, moved, players :
             new = [board |-> marked, current |-> turn, participants |-> players,
                    move_history |-> moved] /\ players = g.participants
      BY <1>5
    <3>3. [new EXCEPT !.board = b, !.move_history = m, !.current = c] =
             [board |-> b, current |-> c, participants |-> players, move_history |-> m]
    <4>1. PICK x : x = [new EXCEPT !.board = b]
      OBVIOUS
    <4>2. x = [board |-> b, current |-> turn, participants |-> players, move_history |-> moved]
      BY <3>2, <4>1
    <4>3. PICK y : y = [x EXCEPT !.move_history = m]
      OBVIOUS
    <4>4. y = [board |-> b, current |-> turn, participants |-> players, move_history |-> m]
      BY <4>2, <4>3
    <4>5. [y EXCEPT !.current = c] =
             [board |-> b, current |-> c, participants |-> players, move_history |-> m]
      BY <4>4
    <4> QED  BY <4>1, <4>3, <4>5
    <3> QED  BY <2>1, <3>1, <3>2, <3>3
  <2> QED  BY <2>2 DEF GoodMcp
<1> QED  BY <1>6, <1>12 DEF Mcp!Rollback

LEMMA McpStep ==
  ASSUME Trailed, McpTrail, [Next]_vars
  PROVE  /\ McpTrail'
         /\ app = "mcp" /\ Undo => /\ RolledBack(Last(trail).undo).ok
                                   /\ episode' = Last(trail).before
<1>1. CASE app # "mcp"
  BY <1>1, TrailedStep DEF McpTrail
<1>2. ASSUME app = "mcp", PlayMcp
      PROVE  McpTrail'
  <2>1. PICK mv, by : /\ mv.player \in Mcp!Players
                     /\ Applied(mv, by, Mcp!Execute(episode, mv, by, Time))
    <3>1. PICK cell \in Moves, player \in Mcp!Players, by \in Signers :
             LET mv == [cell |-> cell, player |-> player] IN
             Applied(mv, by, Mcp!Execute(episode, mv, by, Time))
      BY <1>2 DEF PlayMcp
    <3>2. PICK mv : mv = [cell |-> cell, player |-> player]
      OBVIOUS
    <3>3. mv.player \in Mcp!Players
      BY <3>2
    <3>4. Applied(mv, by, Mcp!Execute(episode, mv, by, Time))
      BY <3>1, <3>2
    <3> QED  BY <3>3, <3>4
  <2>2. PICK ep, r, new : /\ ep = episode /\ r = Mcp!Execute(ep, mv, by, Time)
                          /\ new = [cmd |-> mv, by |-> by, undo |-> r.undo, before |-> episode]
    OBVIOUS
  <2>3. /\ Applied(mv, by, r) /\ Mcp!Accepts(ep, mv, by)
        /\ r.state = Mcp!Executed(ep, mv) /\ r.undo = Mcp!RollbackOf(ep, mv)
    BY <2>1, <2>2 DEF Mcp!Execute, Applied
  <2>4. PICK n \in Nat :
           /\ n = Len(trail) /\ Len(trail') = n + 1
           /\ \A i \in 1..n : trail'[i] = trail[i]
           /\ trail'[n + 1] = new
           /\ \A i \in 0..n : After(i)' = After(i)
           /\ After(n + 1)' = episode'
    BY <2>2, <2>3, AppliedGrows
  <2>5. episode' = r.state /\ app' = app
    BY <2>3 DEF Applied
  <2>6. GoodMcp(ep) /\ \A i \in 1..n : BackToMcp(trail[i], After(i))
    BY <1>2, <2>2, <2>4 DEF McpTrail
  <2>7. GoodMcp(r.state) /\ Mcp!Rollback(r.state, r.undo) = [ok |-> TRUE, state |-> ep]
    BY <2>1, <2>3, <2>6, McpMove
  <2>8. BackToMcp(new, r.state)
    BY <2>2, <2>6, <2>7 DEF BackToMcp
  <2>9. \A i \in 1..(n + 1) : (i \in 1..n /\ i \in 0..n) \/ i = n + 1
    OBVIOUS
  <2>10. \A i \in 1..(n + 1) : BackToMcp(trail'[i], After(i)')
    BY <2>4, <2>5, <2>6, <2>8, <2>9
  <2> QED  BY <2>4, <2>5, <2>7, <2>10 DEF McpTrail
<1>3. ASSUME app = "mcp", Undo
      PROVE  /\ McpTrail' /\ RolledBack(Last(trail).undo).ok
             /\ episode' = Last(trail).before
  <2>1. PICK n \in Nat \ {0} :
           /\ n = Len(trail) /\ Len(trail') = n - 1
           /\ \A i \in 1..(n - 1) : trail'[i] = trail[i]
           /\ Last(trail) = trail[n]
           /\ episode' = RolledBack(trail[n].undo).state
           /\ \A i \in 0..(n - 2) : After(i)' = After(i)
           /\ After(n) = episode
           /\ After(n - 1) = trail[n].before /\ After(n - 1)' = episode'
    BY <1>3, UndoShrinks
  <2>2. \A i \in 1..n : BackToMcp(trail[i], After(i))
    BY <1>3, <2>1 DEF McpTrail
  <2>3. GoodMcp(trail[n].before) /\
        Mcp!Rollback(episode, trail[n].undo) = [ok |-> TRUE, state |-> trail[n].before]
    <3>1. n \in 1..n
      OBVIOUS
    <3> QED  BY <2>1, <2>2, <3>1 DEF BackToMcp
  <2>4. RolledBack(trail[n].undo) = [ok |-> TRUE, state |-> trail[n].before]
    BY <1>3, <2>3 DEF RolledBack
  <2>5. episode' = trail[n].before /\ app' = app
    BY <1>3, <2>1, <2>4 DEF Undo
  <2>6. \A i \in 1..(n - 1) : i \in 1..n /\ (i \in 0..(n - 2) \/ i = n - 1)
    OBVIOUS
  <2>7. \A i \in 1..(n - 1) : BackToMcp(trail'[i], After(i)')
    BY <2>1, <2>2, <2>5, <2>6
  <2> QED  BY <2>1, <2>3, <2>4, <2>5, <2>7 DEF McpTrail
<1>4. ASSUME app = "mcp", Play \/ Gamble \/ Comment \/ Bond \/ Speak \/ Gather
      PROVE  FALSE
  BY <1>4 DEF Play, Gamble, Comment, Bond, Speak, Gather
<1>5. ASSUME UNCHANGED vars PROVE McpTrail'
  BY <1>5 DEF vars, McpTrail, After
<1> QED  BY <1>1, <1>2, <1>3, <1>4, <1>5 DEF Next

LEMMA McpInit == Init => McpTrail
<1> SUFFICES ASSUME Init, app = "mcp" PROVE McpTrail
  BY DEF McpTrail
<1>1. trail = <<>> /\ episode = Mcp!Initialize(participants, 0)
  BY DEF Init
<1>2. GoodMcp(episode)
  BY <1>1 DEF GoodMcp, Mcp!Initialize, Mcp!Players
<1> QED  BY <1>1, <1>2 DEF McpTrail
-----------------------------------------------------------------------------
(* The board with a contract.  Its rollback objects carry the bond and the *)
(* identifier, so they take exactly the comment, its bond and its lock;    *)
(* members, challenges and the next identifier stay as they are.           *)
BoardComments == [id : Nat, author : Signers, bond_amount : Nat]

Numbered(s, next) ==
    /\ s \in Seq(BoardComments) /\ next \in Nat
    /\ \A i \in 1..Len(s) : s[i].id < next /\ \A j \in 1..(i - 1) : s[j].id < s[i].id

GoodBoard(ep) ==
    /\ ep = [room_members |-> ep.room_members, authenticated_users |-> ep.authenticated_users,
             current_challenge |-> ep.current_challenge, comments |-> ep.comments,
             total_comments |-> ep.total_comments, total_locked_value |-> ep.total_locked_value,
             locked_utxos |-> ep.locked_utxos, next_comment_id |-> ep.next_comment_id]
    /\ Numbered(ep.comments, ep.next_comment_id)
    /\ ep.total_comments = Len(ep.comments) /\ ep.total_locked_value \in Nat

Declared(e) == [id |-> e.undo.comment_id, author |-> e.by, bond_amount |-> e.cmd.bond_amount]

(* The rollback object of e leads from these comments and this total back  *)
(* to those before e                                                       *)
BackToBoard(e, comments, total) ==
    /\ GoodBoard(e.before)
    /\ \/ /\ e.cmd.type = "SubmitComment" /\ e.undo.type = "submit_comment"
          /\ e.undo.comment_id = e.before.next_comment_id
          /\ e.undo.utxo = Board!CommentBond(e.undo.comment_id)
          /\ Declared(e) \in BoardComments
          /\ comments = Append(e.before.comments, Declared(e))
       \/ /\ e.cmd.type = "JoinRoom" /\ e.undo.type = "join_room"
          /\ \A id : e.undo.utxo # Board!CommentBond(id)
          /\ comments = e.before.comments
       \/ /\ e.cmd.type \notin {"SubmitComment", "JoinRoom"}
          /\ e.undo.type \notin {"submit_comment", "join_room"}
          /\ comments = e.before.comments /\ total = e.before.total_locked_value
    /\ e.cmd.type \in {"SubmitComment", "JoinRoom"} =>
          /\ e.cmd.bond_amount \in Nat /\ e.undo.bond_amount = e.cmd.bond_amount
          /\ total = e.before.total_locked_value + e.cmd.bond_amount

(* The comments are those that were declared on the chain *)
Shown(comments, es) ==
    Len(comments) = Len(es) /\ \A i \in 1..Len(es) : comments[i] = Declared(es[i])

(* The locks are the bonds of the comments *)
Locks(comments, locked) ==
    /\ \A i \in 1..Len(comments) :
          /\ Board!CommentBond(comments[i].id) \in DOMAIN locked
          /\ locked[Board!CommentBond(comments[i].id)] = comments[i].bond_amount
    /\ \A v \in DOMAIN locked : locked[v] # 0 =>
          \E i \in 1..Len(comments) : v = Board!CommentBond(comments[i].id)

BoardTrail ==
    app = "comment_board" =>
        /\ GoodBoard(episode)
        /\ \A i \in 1..Len(trail) :
              BackToBoard(trail[i], After(i).comments, After(i).total_locked_value)
        /\ Shown(episode.comments, OnTrail("SubmitComment"))
        /\ episode.total_locked_value =
              BondsOf(OnTrail("SubmitComment")) + BondsOf(OnTrail("JoinRoom"))
        /\ Locks(episode.comments, episode.locked_utxos)

LEMMA BondsAdd ==
  ASSUME NEW S, \A x \in S : x.cmd.bond_amount \in Nat, NEW es \in Seq(S)
  PROVE  /\ BondsOf(es) \in Nat
         /\ \A e \in S : BondsOf(Append(es, e)) = BondsOf(es) + e.cmd.bond_amount
<1> DEFINE amounts(s) == [i \in DOMAIN s |-> s[i].cmd.bond_amount]
<1>1. \A s \in Seq(S) : amounts(s) \in Seq(Nat) /\ Len(amounts(s)) = Len(s)
  <2> SUFFICES ASSUME NEW s \in Seq(S) PROVE amounts(s) \in Seq(Nat) /\ Len(amounts(s)) = Len(s)
    OBVIOUS
  <2>1. Len(s) \in Nat /\ DOMAIN s = 1..Len(s) /\ \A i \in 1..Len(s) : s[i] \in S
    BY LenProperties, ElementOfSeq
  <2>2. amounts(s) \in [1..Len(s) -> Nat]
    BY <2>1
  <2> HIDE DEF amounts
  <2> QED  BY <2>1, <2>2, LenProperties
<1>2. BondsOf(es) = Total(amounts(es)) /\ BondsOf(es) \in Nat
  <2>1. BondsOf(es) = Total(amounts(es))
    BY DEF BondsOf
  <2> HIDE DEF amounts
  <2> QED  BY <1>1, <2>1, TotalAppend
<1>3. ASSUME NEW e \in S PROVE BondsOf(Append(es, e)) = BondsOf(es) + e.cmd.bond_amount
  <2>1. PICK a, t, b : a = amounts(es) /\ t = Append(es, e) /\ b = e.cmd.bond_amount
    OBVIOUS
  <2>2. /\ t \in Seq(S) /\ Len(t) = Len(es) + 1 /\ Len(es) \in Nat
        /\ \A i \in 1..Len(es) : t[i] = es[i]
        /\ t[Len(es) + 1] = e
    BY <2>1, AppendProperties, LenProperties
  <2>3. a \in Seq(Nat) /\ Len(a) = Len(es) /\ b \in Nat
    BY <1>1, <2>1
  <2>4. /\ Append(a, b) \in Seq(Nat) /\ Len(Append(a, b)) = Len(es) + 1
        /\ \A i \in 1..Len(es) : Append(a, b)[i] = a[i]
        /\ Append(a, b)[Len(es) + 1] = b
    BY <2>3, AppendProperties
  <2>5. amounts(t) \in Seq(Nat) /\ Len(amounts(t)) = Len(es) + 1
    BY <1>1, <2>2
  <2>6. \A i \in 1..(Len(es) + 1) : amounts(t)[i] = Append(a, b)[i]
    <3> SUFFICES ASSUME NEW i \in 1..(Len(es) + 1) PROVE amounts(t)[i] = Append(a, b)[i]
      OBVIOUS
    <3>1. DOMAIN t = 1..(Len(es) + 1) /\ DOMAIN es = 1..Len(es)
      BY <2>2, LenProperties
    <3>2. amounts(t)[i] = t[i].cmd.bond_amount
      BY <3>1
    <3>3. CASE i \in 1..Len(es)
      <4>1. a[i] = es[i].cmd.bond_amount
        BY <2>1, <3>1, <3>3
      <4> HIDE DEF amounts
      <4> QED  BY <2>2, <2>4, <3>2, <3>3, <4>1
    <3>4. CASE i \notin 1..Len(es)
      <4>1. i = Len(es) + 1
        BY <2>2, <3>4
      <4> HIDE DEF amounts
      <4> QED  BY <2>1, <2>2, <2>4, <3>2, <4>1
    <3> QED  BY <3>3, <3>4
  <2> HIDE DEF amounts
  <2>7. amounts(t) = Append(a, b)
    BY <2>4, <2>5, <2>6, SeqEqual
  <2>8. Total(Append(a, b)) = Total(a) + b
    BY <2>3, TotalAppend
  <2>9. BondsOf(t) = Total(amounts(t))
    BY DEF BondsOf, amounts
  <2> QED  BY <1>2, <2>1, <2>7, <2>8, <2>9
<1> QED  BY <1>2, <1>3

LEMMA NumberedParts ==
  ASSUME NEW s, NEW next, Numbered(s, next)
  PROVE  /\ \A more \in Nat : next <= more => Numbered(s, more)
         /\ \A c \in BoardComments : c.id = next =>
               /\ Numbered(Append(s, c), next + 1)
               /\ WithoutId(Append(s, c), next) = s
               /\ Len(Append(s, c)) = Len(s) + 1 /\ Len(s) \in Nat
               /\ \A i \in 1..Len(s) : Append(s, c)[i] = s[i] /\ s[i].id # next
               /\ Append(s, c)[Len(s) + 1] = c
<1>1. /\ s \in Seq(BoardComments) /\ next \in Nat /\ Len(s) \in Nat
      /\ \A i \in 1..Len(s) : s[i] \in BoardComments /\ s[i].id \in Nat
      /\ \A i \in 1..Len(s) : s[i].id < next /\ \A j \in 1..(i - 1) : s[j].id < s[i].id
  <2>1. s \in Seq(BoardComments) /\ next \in Nat
        /\ \A i \in 1..Len(s) : s[i].id < next /\ \A j \in 1..(i - 1) : s[j].id < s[i].id
    BY DEF Numbered
  <2>2. Len(s) \in Nat /\ \A i \in 1..Len(s) : s[i] \in BoardComments
    BY <2>1, LenProperties, ElementOfSeq
  <2>3. \A c \in BoardComments : c.id \in Nat
    BY DEF BoardComments
  <2> QED  BY <2>1, <2>2, <2>3
<1>2. \A more \in Nat : next <= more => Numbered(s, more)
  BY <1>1 DEF Numbered
<1>3. ASSUME NEW c \in BoardComments, c.id = next
      PROVE  /\ Numbered(Append(s, c), next + 1)
             /\ WithoutId(Append(s, c), next) = s
             /\ Len(Append(s, c)) = Len(s) + 1 /\ Len(s) \in Nat
             /\ \A i \in 1..Len(s) : Append(s, c)[i] = s[i] /\ s[i].id # next
             /\ Append(s, c)[Len(s) + 1] = c
  <2>1. PICK t : t = Append(s, c)
    OBVIOUS
  <2>2. /\ t \in Seq(BoardComments) /\ t # <<>> /\ Len(t) = Len(s) + 1
        /\ \A i \in 1..Len(s) : t[i] = s[i]
        /\ t[Len(s) + 1] = c
    BY <1>1, <2>1, AppendProperties
  <2>3. \A i \in 1..Len(s) : s[i].id # next
    BY <1>1
  <2>4. Numbered(t, next + 1)
    <3> SUFFICES ASSUME NEW i \in 1..(Len(s) + 1)
                 PROVE  t[i].id < next + 1 /\ \A j \in 1..(i - 1) : t[j].id < t[i].id
      BY <1>1, <2>2 DEF Numbered
    <3>1. \A j \in 1..(i - 1) : j \in 1..Len(s)
      BY <1>1
    <3>2. CASE i \in 1..Len(s)
      BY <1>1, <2>2, <3>1, <3>2
    <3>3. CASE i = Len(s) + 1
      BY <1>1, <1>3, <2>2, <3>1, <3>3
    <3> QED  BY <1>1, <3>2, <3>3
  <2>5. WithoutId(t, next) = s
    <3>1. Last(t) = c /\ Front(t) \in Seq(BoardComments) /\ t = Append(Front(t), Last(t))
      BY <2>2, FrontLast
    <3>2. Front(t) = s
      BY <1>1, <2>1, <3>1, AppendInjective
    <3>3. \A i \in 1..(Len(t) - 1) : t[i].id # next
      BY <1>1, <2>2, <2>3
    <3> QED  BY <1>3, <2>2, <3>1, <3>2, <3>3, WithoutIdParts
  <2> QED  BY <1>1, <2>1, <2>2, <2>3, <2>4, <2>5
<1> QED  BY <1>2, <1>3
LEMMA BoardMove ==
  ASSUME NEW ep, GoodBoard(ep), NEW cmd \in Board!Commands, NEW by \in Signers, NEW time,
         Board!Accepts(ep, cmd, by, time),
         NEW new, new = Board!Executed(ep, cmd, by, time),
         NEW e, e = [cmd |-> cmd, by |-> by, undo |-> Board!RollbackOf(ep, cmd, by), before |-> ep]
  PROVE  /\ GoodBoard(new) /\ BackToBoard(e, new.comments, new.total_locked_value)
         /\ new.locked_utxos =
               IF cmd.type = "SubmitComment"
               THEN Board!Lock(ep.locked_utxos, Board!CommentBond(e.undo.comment_id), cmd.bond_amount)
               ELSE ep.locked_utxos
<1>1. e.cmd = cmd /\ e.by = by /\ e.before = ep /\ e.undo = Board!RollbackOf(ep, cmd, by)
  OBVIOUS
<1>2. /\ Numbered(ep.comments, ep.next_comment_id) /\ ep.next_comment_id \in Nat
      /\ ep.total_comments = Len(ep.comments) /\ ep.total_locked_value \in Nat
  BY DEF GoodBoard, Numbered
<1>3. Bonds \subseteq Nat
  BY EpisodeChainAssumption
<1>4. CASE cmd.type = "JoinRoom"
  <2>1. cmd.bond_amount \in Nat
    BY <1>3, <1>4 DEF Board!Commands
  <2>2. PICK members, total : /\ members = Append(ep.room_members, by)
                              /\ total = ep.total_locked_value + cmd.bond_amount
    OBVIOUS
  <2>3. new = [ep EXCEPT !.room_members = members, !.total_locked_value = total]
    BY <1>4, <2>2 DEF Board!Executed
  <2>4. new = [room_members |-> members, authenticated_users |-> ep.authenticated_users,
               current_challenge |-> ep.current_challenge, comments |-> ep.comments,
               total_comments |-> ep.total_comments, total_locked_value |-> total,
               locked_utxos |-> ep.locked_utxos, next_comment_id |-> ep.next_comment_id]
    BY <2>3 DEF GoodBoard
  <2>5. GoodBoard(new) /\ new.comments = ep.comments /\ new.total_locked_value = total
        /\ new.locked_utxos = ep.locked_utxos
    BY <1>2, <2>1, <2>2, <2>4 DEF GoodBoard
  <2>6. /\ e.undo.type = "join_room" /\ e.undo.bond_amount = cmd.bond_amount
        /\ e.undo.utxo = <<"join_bond", by>>
    BY <1>1, <1>4 DEF Board!RollbackOf
  <2>7. \A id : e.undo.utxo # Board!CommentBond(id)
    BY <2>6 DEF Board!CommentBond
  <2>8. BackToBoard(e, new.comments, new.total_locked_value)
    BY <1>1, <1>4, <2>1, <2>2, <2>5, <2>6, <2>7 DEF BackToBoard
  <2> QED  BY <1>4, <2>5, <2>8
<1>5. CASE cmd.type = "SubmitComment"
  <2>1. cmd.bond_amount \in Nat
    BY <1>3, <1>5 DEF Board!Commands
  <2>2. PICK c, comments, locked, total, next, count :
           /\ c = [id |-> ep.next_comment_id, author |-> by, bond_amount |-> cmd.bond_amount]
           /\ comments = Append(ep.comments, c)
           /\ locked = Board!Lock(ep.locked_utxos, Board!CommentBond(ep.next_comment_id),
                                  cmd.bond_amount)
           /\ total = ep.total_locked_value + cmd.bond_amount
           /\ next = ep.next_comment_id + 1 /\ count = ep.total_comments + 1
    OBVIOUS
  <2>3. new = [ep EXCEPT !.comments = comments, !.locked_utxos = locked,
                         !.total_comments = count, !.total_locked_value = total,
                         !.next_comment_id = next]
    BY <1>5, <2>2 DEF Board!Executed, Board!Commented
  <2>4. new = [room_members |-> ep.room_members, authenticated_users |-> ep.authenticated_users,
               current_challenge |-> ep.current_challenge, comments |-> comments,
               total_comments |-> count, total_locked_value |-> total,
               locked_utxos |-> locked, next_comment_id |-> next]
    BY <2>3 DEF GoodBoard
  <2>5. /\ e.undo.type = "submit_comment" /\ e.undo.bond_amount = cmd.bond_amount
        /\ e.undo.comment_id = ep.next_comment_id
        /\ e.undo.utxo = Board!CommentBond(ep.next_comment_id)
    BY <1>1, <1>5 DEF Board!RollbackOf
  <2>6. c = Declared(e) /\ c \in BoardComments /\ c.id = ep.next_comment_id
    BY <1>1, <1>2, <2>1, <2>2, <2>5 DEF Declared, BoardComments
  <2>7. Numbered(comments, next) /\ Len(comments) = Len(ep.comments) + 1
    BY <1>2, <2>2, <2>6, NumberedParts
  <2>8. GoodBoard(new) /\ new.comments = comments /\ new.total_locked_value = total
        /\ new.locked_utxos = locked
    <3>1. count = Len(comments) /\ total \in Nat
      BY <1>2, <2>1, <2>2, <2>7
    <3> QED  BY <2>4, <2>7, <3>1 DEF GoodBoard
  <2>9. BackToBoard(e, new.comments, new.total_locked_value)
    BY <1>1, <1>5, <2>1, <2>2, <2>5, <2>6, <2>8 DEF BackToBoard
  <2> QED  BY <1>5, <2>2, <2>5, <2>8, <2>9
<1>6. CASE cmd.type \in {"RequestChallenge", "SubmitResponse"}
  <2>1. PICK challenge, users :
           new = [ep EXCEPT !.authenticated_users = users, !.current_challenge = challenge]
    <3>1. CASE cmd.type = "RequestChallenge"
      <4>1. new = [ep EXCEPT !.current_challenge = <<by, time>>]
        BY <3>1 DEF Board!Executed
      <4>2. PICK challenge, users : challenge = <<by, time>> /\ users = ep.authenticated_users
        OBVIOUS
      <4>3. new = [ep EXCEPT !.current_challenge = challenge]
        BY <4>1, <4>2
      <4>4. [ep EXCEPT !.current_challenge = challenge] =
            [ep EXCEPT !.authenticated_users = users, !.current_challenge = challenge]
        BY <4>2 DEF GoodBoard
      <4> QED  BY <4>3, <4>4
    <3>2. CASE cmd.type = "SubmitResponse"
      <4>1. new = [ep EXCEPT !.authenticated_users = Append(@, by), !.current_challenge = None]
        BY <3>2 DEF Board!Executed
      <4> QED  BY <4>1
    <3> QED  BY <1>6, <3>1, <3>2
  <2>2. new = [room_members |-> ep.room_members, authenticated_users |-> users,
               current_challenge |-> challenge, comments |-> ep.comments,
               total_comments |-> ep.total_comments, total_locked_value |-> ep.total_locked_value,
               locked_utxos |-> ep.locked_utxos, next_comment_id |-> ep.next_comment_id]
    BY <2>1 DEF GoodBoard
  <2>3. GoodBoard(new) /\ new.comments = ep.comments
        /\ new.total_locked_value = ep.total_locked_value
        /\ new.locked_utxos = ep.locked_utxos
    BY <1>2, <2>2 DEF GoodBoard
  <2>4. e.undo.type \in {"request_challenge", "authenticate"}
    BY <1>1, <1>6 DEF Board!RollbackOf
  <2>5. BackToBoard(e, new.comments, new.total_locked_value)
    BY <1>1, <1>6, <2>3, <2>4 DEF BackToBoard
  <2> QED  BY <1>6, <2>3, <2>5
<1>7. cmd.type \in {"JoinRoom", "SubmitComment", "RequestChallenge", "SubmitResponse"}
  BY DEF Board!Commands
<1> QED  BY <1>4, <1>5, <1>6, <1>7

LEMMA BoardBack ==
  ASSUME NEW ep, GoodBoard(ep), NEW e, BackToBoard(e, ep.comments, ep.total_locked_value),
         NEW r, r = Board!Rollback(ep, e.undo)
  PROVE  /\ r.ok /\ GoodBoard(r.state)
         /\ r.state.comments = e.before.comments
         /\ r.state.total_comments = e.before.total_comments
         /\ r.state.total_locked_value = e.before.total_locked_value
         /\ r.state.locked_utxos =
               IF e.cmd.type \in {"SubmitComment", "JoinRoom"}
               THEN Board!Unlocked(ep.locked_utxos, e.undo.utxo, e.cmd.bond_amount)
               ELSE ep.locked_utxos
<1>1. /\ GoodBoard(e.before)
      /\ Numbered(ep.comments, ep.next_comment_id)
      /\ Numbered(e.before.comments, e.before.next_comment_id)
      /\ ep.total_comments = Len(ep.comments) /\ ep.total_locked_value \in Nat
      /\ e.before.total_comments = Len(e.before.comments) /\ e.before.total_locked_value \in Nat
      /\ ep.next_comment_id \in Nat
  BY DEF GoodBoard, BackToBoard, Numbered
<1>2. r.ok
  BY DEF Board!Rollback
<1>3. ASSUME e.cmd.type \in {"SubmitComment", "JoinRoom"}
      PROVE  Board!Less(ep.total_locked_value, e.undo.bond_amount) = e.before.total_locked_value
  <2>1. /\ e.cmd.bond_amount \in Nat /\ e.undo.bond_amount = e.cmd.bond_amount
        /\ ep.total_locked_value = e.before.total_locked_value + e.cmd.bond_amount
    BY <1>3 DEF BackToBoard
  <2> QED  BY <1>1, <2>1 DEF Board!Less
<1>4. CASE e.cmd.type = "SubmitComment"
  <2>1. /\ e.undo.type = "submit_comment" /\ e.undo.comment_id = e.before.next_comment_id
        /\ Declared(e) \in BoardComments /\ e.undo.bond_amount = e.cmd.bond_amount
        /\ ep.comments = Append(e.before.comments, Declared(e))
    BY <1>4 DEF BackToBoard
  <2>2. PICK kept, count, total, locked :
           /\ kept = WithoutId(ep.comments, e.undo.comment_id)
           /\ count = IF Len(kept) < Len(ep.comments) THEN Board!Less(ep.total_comments, 1)
                      ELSE ep.total_comments
           /\ total = Board!Less(ep.total_locked_value, e.undo.bond_amount)
           /\ locked = Board!Unlocked(ep.locked_utxos, e.undo.utxo, e.undo.bond_amount)
    OBVIOUS
  <2>3. r.state = [ep EXCEPT !.comments = kept, !.total_comments = count,
                             !.total_locked_value = total, !.locked_utxos = locked]
    <3>1. r.state = Board!Uncommented(ep, e.undo)
      BY <2>1 DEF Board!Rollback
    <3>2. Board!WithoutId(ep.comments, e.undo.comment_id) = kept
      BY <2>2 DEF Board!WithoutId, WithoutId, Board!Keep, Keep, Board!Sifted, Sifted, ToSet
    <3> QED  BY <2>2, <3>1, <3>2 DEF Board!Uncommented
  <2>4. Declared(e).id = e.before.next_comment_id
    BY <2>1 DEF Declared
  <2>5. kept = e.before.comments /\ Len(ep.comments) = Len(e.before.comments) + 1
        /\ Len(e.before.comments) \in Nat
        /\ \A i \in 1..Len(e.before.comments) : ep.comments[i] = e.before.comments[i]
    BY <1>1, <2>1, <2>2, <2>4, NumberedParts
  <2>6. count = e.before.total_comments
    BY <1>1, <2>2, <2>5 DEF Board!Less
  <2>7. total = e.before.total_locked_value
    BY <1>3, <1>4, <2>2
  <2>8. r.state = [room_members |-> ep.room_members, authenticated_users |-> ep.authenticated_users,
                   current_challenge |-> ep.current_challenge, comments |-> kept,
                   total_comments |-> count, total_locked_value |-> total,
                   locked_utxos |-> locked, next_comment_id |-> ep.next_comment_id]
    BY <2>3 DEF GoodBoard
  <2>9. Numbered(kept, ep.next_comment_id)
    <3>1. \A i \in 1..Len(kept) : i \in 1..Len(ep.comments)
      BY <2>5
    <3> QED  BY <1>1, <2>5, <3>1 DEF Numbered
  <2>10. GoodBoard(r.state)
    BY <1>1, <2>5, <2>6, <2>7, <2>8, <2>9 DEF GoodBoard
  <2>11. locked = Board!Unlocked(ep.locked_utxos, e.undo.utxo, e.cmd.bond_amount)
    BY <2>1, <2>2
  <2> QED  BY <1>2, <1>4, <2>5, <2>6, <2>7, <2>8, <2>10, <2>11
<1>5. CASE e.cmd.type = "JoinRoom"
  <2>1. /\ e.undo.type = "join_room" /\ e.undo.bond_amount = e.cmd.bond_amount
        /\ ep.comments = e.before.comments
    BY <1>5 DEF BackToBoard
  <2>2. PICK total, locked :
           /\ total = Board!Less(ep.total_locked_value, e.undo.bond_amount)
           /\ locked = Board!Unlocked(ep.locked_utxos, e.undo.utxo, e.undo.bond_amount)
    OBVIOUS
  <2>3. r.state = [ep EXCEPT !.total_locked_value = total, !.locked_utxos = locked]
    BY <2>1, <2>2 DEF Board!Rollback
  <2>4. r.state = [room_members |-> ep.room_members, authenticated_users |-> ep.authenticated_users,
                   current_challenge |-> ep.current_challenge, comments |-> ep.comments,
                   total_comments |-> ep.total_comments, total_locked_value |-> total,
                   locked_utxos |-> locked, next_comment_id |-> ep.next_comment_id]
    BY <2>3 DEF GoodBoard
  <2>5. total = e.before.total_locked_value
    BY <1>3, <1>5, <2>2
  <2>6. GoodBoard(r.state)
    BY <1>1, <2>4, <2>5 DEF GoodBoard
  <2>7. locked = Board!Unlocked(ep.locked_utxos, e.undo.utxo, e.cmd.bond_amount)
    BY <2>1, <2>2
  <2> QED  BY <1>1, <1>2, <1>5, <2>1, <2>4, <2>5, <2>6, <2>7
<1>6. CASE e.cmd.type \notin {"SubmitComment", "JoinRoom"}
  <2>1. /\ e.undo.type \notin {"submit_comment", "join_room"}
        /\ ep.comments = e.before.comments /\ ep.total_locked_value = e.before.total_locked_value
    BY <1>6 DEF BackToBoard
  <2>2. r.state = ep
    BY <2>1 DEF Board!Rollback
  <2> QED  BY <1>1, <1>2, <1>6, <2>1, <2>2
<1> QED  BY <1>4, <1>5, <1>6
LEMMA BondsDiffer == \A i, j : Board!CommentBond(i) = Board!CommentBond(j) => i = j
BY DEF Board!CommentBond

LEMMA LocksChange ==
  ASSUME NEW s, NEW next, Numbered(s, next), NEW c \in BoardComments, c.id = next,
         NEW u, NEW amount \in Nat, NEW locked
  PROVE  /\ u = Board!CommentBond(next) /\ amount = c.bond_amount /\ Locks(s, locked) =>
               Locks(Append(s, c), Board!Lock(locked, u, amount))
         /\ u = Board!CommentBond(next) /\ Locks(Append(s, c), locked) =>
               Locks(s, Board!Unlocked(locked, u, amount))
         /\ (\A id : u # Board!CommentBond(id)) /\ Locks(s, locked) =>
               Locks(s, Board!Unlocked(locked, u, amount))
<1>1. PICK t : t = Append(s, c)
  OBVIOUS
<1>2. /\ Len(t) = Len(s) + 1 /\ Len(s) \in Nat /\ t[Len(s) + 1] = c
      /\ \A i \in 1..Len(s) : t[i] = s[i] /\ s[i].id # next /\ i \in 1..Len(t)
      /\ \A i \in 1..Len(t) : i \in 1..Len(s) \/ i = Len(s) + 1
  <2>1. /\ Len(t) = Len(s) + 1 /\ Len(s) \in Nat /\ t[Len(s) + 1] = c
        /\ \A i \in 1..Len(s) : t[i] = s[i] /\ s[i].id # next
    BY <1>1, NumberedParts
  <2> QED  BY <2>1
<1>3. ASSUME u = Board!CommentBond(next), amount = c.bond_amount, Locks(s, locked)
      PROVE  Locks(t, Board!Lock(locked, u, amount))
  <2>1. PICK new : new = Board!Lock(locked, u, amount)
    OBVIOUS
  <2>2. /\ DOMAIN new = DOMAIN locked \cup {u} /\ new[u] = amount
        /\ \A v \in DOMAIN locked : v # u => new[v] = locked[v]
    BY <2>1 DEF Board!Lock
  <2>3. \A i \in 1..Len(s) : Board!CommentBond(s[i].id) # u
    BY <1>2, <1>3, BondsDiffer
  <2>4. ASSUME NEW i \in 1..Len(t)
        PROVE  /\ Board!CommentBond(t[i].id) \in DOMAIN new
               /\ new[Board!CommentBond(t[i].id)] = t[i].bond_amount
    <3>1. CASE i \in 1..Len(s)
      BY <1>2, <1>3, <2>2, <2>3, <3>1 DEF Locks
    <3>2. CASE i = Len(s) + 1
      BY <1>2, <1>3, <2>2, <3>2
    <3> QED  BY <1>2, <3>1, <3>2
  <2>5. ASSUME NEW v \in DOMAIN new, new[v] # 0
        PROVE  \E i \in 1..Len(t) : v = Board!CommentBond(t[i].id)
    <3>1. CASE v = u
      <4>1. Len(s) + 1 \in 1..Len(t)
        BY <1>2
      <4> QED  BY <1>2, <1>3, <3>1, <4>1
    <3>2. CASE v # u
      <4>1. PICK i \in 1..Len(s) : v = Board!CommentBond(s[i].id)
        BY <1>3, <2>2, <2>5, <3>2 DEF Locks
      <4> QED  BY <1>2, <4>1
    <3> QED  BY <3>1, <3>2
  <2> QED  BY <2>1, <2>4, <2>5 DEF Locks
<1>4. ASSUME (\A i \in 1..Len(s) : Board!CommentBond(s[i].id) # u),
             Locks(s, locked) \/ (u = Board!CommentBond(next) /\ Locks(t, locked))
      PROVE  Locks(s, Board!Unlocked(locked, u, amount))
  <2>1. PICK new : new = Board!Unlocked(locked, u, amount)
    OBVIOUS
  <2>2. /\ \A v \in DOMAIN locked : v # u => v \in DOMAIN new /\ new[v] = locked[v]
        /\ \A v \in DOMAIN new : (v = u /\ new[v] = 0) \/ (v # u /\ v \in DOMAIN locked)
    BY <2>1 DEF Board!Unlocked, Board!Lock
  <2>3. ASSUME NEW i \in 1..Len(s)
        PROVE  /\ Board!CommentBond(s[i].id) \in DOMAIN new
               /\ new[Board!CommentBond(s[i].id)] = s[i].bond_amount
    <3>1. /\ Board!CommentBond(s[i].id) \in DOMAIN locked
          /\ locked[Board!CommentBond(s[i].id)] = s[i].bond_amount
      BY <1>2, <1>4 DEF Locks
    <3> QED  BY <1>4, <2>2, <3>1
  <2>4. ASSUME NEW v \in DOMAIN new, new[v] # 0
        PROVE  \E i \in 1..Len(s) : v = Board!CommentBond(s[i].id)
    <3>1. v # u /\ v \in DOMAIN locked /\ locked[v] # 0
      BY <2>2, <2>4
    <3>2. CASE Locks(s, locked)
      BY <3>1, <3>2 DEF Locks
    <3>3. CASE u = Board!CommentBond(next) /\ Locks(t, locked)
      <4>1. PICK i \in 1..Len(t) : v = Board!CommentBond(t[i].id)
        BY <3>1, <3>3 DEF Locks
      <4>2. i \in 1..Len(s)
        BY <1>2, <3>1, <3>3, <4>1
      <4> QED  BY <1>2, <4>1, <4>2
    <3> QED  BY <1>4, <3>2, <3>3
  <2> QED  BY <2>1, <2>3, <2>4 DEF Locks
<1>5. u = Board!CommentBond(next) => \A i \in 1..Len(s) : Board!CommentBond(s[i].id) # u
  BY <1>2, BondsDiffer
<1> QED  BY <1>1, <1>3, <1>4, <1>5

Priced(S) == \A x \in S : x.cmd.bond_amount \in Nat

OneMore(es, e, more) ==
    \E S : Priced(S) /\ es \in Seq(S) /\ e \in S /\ more = Append(es, e)

LEMMA TakeOff ==
  ASSUME NEW total, total \in Nat, NEW one, one \in Nat, NEW two, two \in Nat,
         NEW b, b \in Nat
  PROVE  /\ total + b = (one + b) + two => total = one + two
         /\ total + b = one + (two + b) => total = one + two
         /\ total = one + two => total + b = (one + b) + two /\ total + b = one + (two + b)
OBVIOUS

(* What a command of one type adds to the bonds declared on the chain *)
LEMMA BondsGrow ==
  ASSUME NEW es, NEW e, NEW more, OneMore(es, e, more)
  PROVE  /\ BondsOf(more) = BondsOf(es) + e.cmd.bond_amount
         /\ BondsOf(es) \in Nat /\ BondsOf(more) \in Nat
         /\ Len(es) \in Nat /\ Len(more) = Len(es) + 1
         /\ \A i \in 1..Len(es) : more[i] = es[i]
         /\ more[Len(es) + 1] = e
<1>0. PICK S : /\ \A x \in S : x.cmd.bond_amount \in Nat
               /\ es \in Seq(S) /\ e \in S /\ more = Append(es, e)
  BY DEF OneMore, Priced
<1>1. more \in Seq(S)
  BY <1>0, AppendProperties
<1> QED  BY <1>0, <1>1, BondsAdd, AppendProperties, LenProperties
LEMMA OnTrailOf ==
  ASSUME Trailed, NEW type
  PROVE  \E S : /\ OnTrail(type) \in Seq(S)
                /\ \A x \in S : x.cmd.type = type /\ \E i \in 1..Len(trail) : x = trail[i]
<1>1. PICK S0 : trail \in Seq(S0)
  BY DEF Trailed
<1>2. /\ trail \in Seq(ToSet(trail)) /\ DOMAIN trail = 1..Len(trail)
  BY <1>1, Ranged
<1> DEFINE T == {e \in ToSet(trail) : e.cmd.type = type}
<1>3. OnTrail(type) \in Seq(ToSet(trail) \cap T)
  <2>1. Keep(trail, T) \in Seq(ToSet(trail) \cap T)
    <3> HIDE DEF T
    <3> QED  BY <1>2, KeepSeq
  <2> QED  BY <2>1 DEF OnTrail
<1>4. \A x \in ToSet(trail) \cap T : x.cmd.type = type /\ \E i \in 1..Len(trail) : x = trail[i]
  BY <1>2 DEF ToSet
<1> QED  BY <1>3, <1>4

LEMMA BondStep ==
  ASSUME Trailed, BoardTrail, app = "comment_board", Bond
  PROVE  BoardTrail'
<1>1. PICK cmd \in Board!Commands, by \in Signers :
         Applied(cmd, by, Board!Execute(episode, cmd, by, Time))
  BY DEF Bond
<1>2. PICK ep, time, r, new :
         /\ ep = episode /\ time = Time /\ r = Board!Execute(ep, cmd, by, time)
         /\ new = [cmd |-> cmd, by |-> by, undo |-> r.undo, before |-> episode]
  OBVIOUS
<1>3. /\ Applied(cmd, by, r) /\ Board!Accepts(ep, cmd, by, time)
      /\ r.state = Board!Executed(ep, cmd, by, time)
      /\ r.undo = Board!RollbackOf(ep, cmd, by)
  BY <1>1, <1>2 DEF Board!Execute, Applied
<1>4. PICK n \in Nat :
         /\ Trailed' /\ n = Len(trail) /\ Len(trail') = n + 1
         /\ \A i \in 1..n : trail'[i] = trail[i]
         /\ trail'[n + 1] = new
         /\ \A i \in 0..n : After(i)' = After(i)
         /\ After(n + 1)' = episode'
         /\ \A type : OnTrail(type)' =
               IF cmd.type = type THEN Append(OnTrail(type), new) ELSE OnTrail(type)
  BY <1>2, <1>3, AppliedGrows
<1>5. episode' = r.state /\ app' = app
  BY <1>3 DEF Applied
<1>6. PICK cs, js : cs = OnTrail("SubmitComment") /\ js = OnTrail("JoinRoom")
  OBVIOUS
<1>7. /\ GoodBoard(ep)
      /\ \A i \in 1..n : BackToBoard(trail[i], After(i).comments, After(i).total_locked_value)
      /\ Shown(ep.comments, cs)
      /\ ep.total_locked_value = BondsOf(cs) + BondsOf(js)
      /\ Locks(ep.comments, ep.locked_utxos)
  BY <1>2, <1>4, <1>6 DEF BoardTrail
<1>8. new.cmd = cmd /\ new.by = by /\ new.before = ep /\ new.undo = r.undo
  BY <1>2
<1>9. /\ GoodBoard(r.state) /\ BackToBoard(new, r.state.comments, r.state.total_locked_value)
      /\ r.state.locked_utxos =
            IF cmd.type = "SubmitComment"
            THEN Board!Lock(ep.locked_utxos, Board!CommentBond(new.undo.comment_id),
                            cmd.bond_amount)
            ELSE ep.locked_utxos
  <2>1. new = [cmd |-> cmd, by |-> by, undo |-> Board!RollbackOf(ep, cmd, by), before |-> ep]
    BY <1>2, <1>3
  <2> QED  BY <1>3, <1>7, <2>1, BoardMove
<1>10. \A i \in 1..(n + 1) : (i \in 1..n /\ i \in 0..n) \/ i = n + 1
  OBVIOUS
<1>11. \A i \in 1..(n + 1) :
          BackToBoard(trail'[i], After(i)'.comments, After(i)'.total_locked_value)
  BY <1>4, <1>5, <1>7, <1>9, <1>10
<1>12. /\ \E S : cs \in Seq(S) /\ \A x \in S : x.cmd.bond_amount \in Nat
       /\ \E S : js \in Seq(S) /\ \A x \in S : x.cmd.bond_amount \in Nat
  <2>1. ASSUME NEW type \in {"SubmitComment", "JoinRoom"}
        PROVE  \E S : OnTrail(type) \in Seq(S) /\ \A x \in S : x.cmd.bond_amount \in Nat
    <3>1. PICK S : /\ OnTrail(type) \in Seq(S)
                   /\ \A x \in S : x.cmd.type = type /\ \E i \in 1..Len(trail) : x = trail[i]
      BY OnTrailOf
    <3>2. \A x \in S : x.cmd.bond_amount \in Nat
      BY <1>4, <1>7, <2>1, <3>1 DEF BackToBoard
    <3> QED  BY <3>1, <3>2
  <2> QED  BY <1>6, <2>1
<1>13. cmd.type \in {"SubmitComment", "JoinRoom"} =>
          new.cmd.bond_amount \in Nat /\ new.cmd.bond_amount = cmd.bond_amount
  BY <1>8, <1>9 DEF BackToBoard
<1>14. PICK cs1, js1 : cs1 = OnTrail("SubmitComment")' /\ js1 = OnTrail("JoinRoom")'
  OBVIOUS
<1>15. /\ cs1 = IF cmd.type = "SubmitComment" THEN Append(cs, new) ELSE cs
       /\ js1 = IF cmd.type = "JoinRoom" THEN Append(js, new) ELSE js
  BY <1>4, <1>6, <1>14
<1>16. /\ Shown(r.state.comments, cs1)
       /\ r.state.total_locked_value = BondsOf(cs1) + BondsOf(js1)
       /\ Locks(r.state.comments, r.state.locked_utxos)
  <2>0. BondsOf(cs) \in Nat /\ BondsOf(js) \in Nat
    BY <1>12, BondsAdd
  <2>1. CASE cmd.type = "SubmitComment"
    <3>1. /\ cs1 = Append(cs, new) /\ js1 = js
          /\ r.state.comments = Append(ep.comments, Declared(new))
          /\ Declared(new) \in BoardComments
          /\ new.undo.comment_id = ep.next_comment_id
          /\ r.state.total_locked_value = ep.total_locked_value + cmd.bond_amount
      BY <1>8, <1>9, <1>15, <2>1 DEF BackToBoard
    <3>2. PICK S : cs \in Seq(S) /\ \A x \in S : x.cmd.bond_amount \in Nat
      BY <1>12
    <3>3. PICK R : cs \in Seq(R) /\ new \in R /\ Priced(R)
      <4>1. /\ cs \in Seq(S \cup {new}) /\ new \in S \cup {new}
            /\ \A x \in S \cup {new} : x.cmd.bond_amount \in Nat
        BY <1>13, <2>1, <3>2, SeqMonotonic
      <4> QED  BY <4>1 DEF Priced
    <3>4. /\ BondsOf(cs1) = BondsOf(cs) + cmd.bond_amount
          /\ Len(cs) \in Nat /\ Len(cs1) = Len(cs) + 1
          /\ \A i \in 1..Len(cs) : cs1[i] = cs[i]
          /\ cs1[Len(cs) + 1] = new
      <4>1. OneMore(cs, new, cs1)
        BY <3>1, <3>3 DEF OneMore
      <4> QED  BY <1>13, <2>1, <4>1, BondsGrow
    <3>5. PICK c : c = Declared(new)
      OBVIOUS
    <3>6. /\ Numbered(ep.comments, ep.next_comment_id)
          /\ c \in BoardComments /\ c.id = ep.next_comment_id /\ c.bond_amount = cmd.bond_amount
      BY <1>7, <1>8, <3>1, <3>5 DEF GoodBoard, Declared
    <3>7. /\ Len(r.state.comments) = Len(ep.comments) + 1
          /\ \A i \in 1..Len(ep.comments) : r.state.comments[i] = ep.comments[i]
          /\ r.state.comments[Len(ep.comments) + 1] = c
      BY <3>1, <3>5, <3>6, NumberedParts
    <3>8. Shown(r.state.comments, cs1)
      <4>1. \A i \in 1..Len(cs1) : i \in 1..Len(cs) \/ i = Len(cs) + 1
        BY <3>4
      <4> QED  BY <1>7, <3>4, <3>5, <3>7, <4>1 DEF Shown
    <3>9. Locks(r.state.comments, r.state.locked_utxos)
      <4>1. r.state.locked_utxos = Board!Lock(ep.locked_utxos, Board!CommentBond(ep.next_comment_id),
                                              cmd.bond_amount)
        BY <1>9, <2>1, <3>1
      <4>2. PICK u : u = Board!CommentBond(ep.next_comment_id)
        OBVIOUS
      <4>3. cmd.bond_amount \in Nat
        BY <1>13, <2>1
      <4> QED  BY <1>7, <3>1, <3>5, <3>6, <4>1, <4>2, <4>3, LocksChange
    <3>10. r.state.total_locked_value = BondsOf(cs1) + BondsOf(js1)
      BY <1>7, <1>13, <2>0, <2>1, <3>1, <3>4
    <3> QED  BY <3>8, <3>9, <3>10
  <2>2. CASE cmd.type = "JoinRoom"
    <3>1. /\ cs1 = cs /\ js1 = Append(js, new)
          /\ r.state.comments = ep.comments /\ r.state.locked_utxos = ep.locked_utxos
          /\ r.state.total_locked_value = ep.total_locked_value + cmd.bond_amount
      BY <1>8, <1>9, <1>15, <2>2 DEF BackToBoard
    <3>2. PICK S : js \in Seq(S) /\ \A x \in S : x.cmd.bond_amount \in Nat
      BY <1>12
    <3>3. PICK R : js \in Seq(R) /\ new \in R /\ Priced(R)
      <4>1. /\ js \in Seq(S \cup {new}) /\ new \in S \cup {new}
            /\ \A x \in S \cup {new} : x.cmd.bond_amount \in Nat
        BY <1>13, <2>2, <3>2, SeqMonotonic
      <4> QED  BY <4>1 DEF Priced
    <3>4. BondsOf(js1) = BondsOf(js) + cmd.bond_amount
      <4>1. OneMore(js, new, js1)
        BY <3>1, <3>3 DEF OneMore
      <4> QED  BY <1>13, <2>2, <4>1, BondsGrow
    <3>5. r.state.total_locked_value = BondsOf(cs1) + BondsOf(js1)
      BY <1>7, <1>13, <2>0, <2>2, <3>1, <3>4
    <3> QED  BY <1>7, <3>1, <3>5
  <2>3. CASE cmd.type \notin {"SubmitComment", "JoinRoom"}
    BY <1>7, <1>8, <1>9, <1>15, <2>3 DEF BackToBoard
  <2> QED  BY <2>1, <2>2, <2>3
<1> QED  BY <1>4, <1>5, <1>9, <1>11, <1>14, <1>16 DEF BoardTrail
LEMMA UndoBond ==
  ASSUME Trailed, BoardTrail, app = "comment_board", Undo
  PROVE  /\ BoardTrail'
         /\ RolledBack(Last(trail).undo).ok
         /\ episode'.comments = Last(trail).before.comments
         /\ episode'.total_comments = Last(trail).before.total_comments
         /\ episode'.total_locked_value = Last(trail).before.total_locked_value
<1>1. PICK n \in Nat \ {0} :
         /\ Trailed' /\ n = Len(trail) /\ Len(trail') = n - 1
         /\ \A i \in 1..(n - 1) : trail'[i] = trail[i]
         /\ Last(trail) = trail[n]
         /\ episode' = RolledBack(trail[n].undo).state
         /\ \A i \in 0..(n - 2) : After(i)' = After(i)
         /\ After(n) = episode
         /\ After(n - 1) = trail[n].before /\ After(n - 1)' = episode'
         /\ \A type : OnTrail(type) =
               IF trail[n].cmd.type = type THEN Append(OnTrail(type)', trail[n])
               ELSE OnTrail(type)'
  BY UndoShrinks
<1>2. PICK ep, e, r, cs, js, cs1, js1 :
         /\ ep = episode /\ e = trail[n] /\ r = Board!Rollback(ep, e.undo)
         /\ cs = OnTrail("SubmitComment") /\ js = OnTrail("JoinRoom")
         /\ cs1 = OnTrail("SubmitComment")' /\ js1 = OnTrail("JoinRoom")'
  OBVIOUS
<1>3. app' = "comment_board" /\ RolledBack(e.undo) = r /\ n \in 1..n /\ episode' = r.state
  BY <1>1, <1>2 DEF Undo, RolledBack
<1>4. /\ GoodBoard(ep)
      /\ \A i \in 1..n : BackToBoard(trail[i], After(i).comments, After(i).total_locked_value)
      /\ Shown(ep.comments, cs)
      /\ ep.total_locked_value = BondsOf(cs) + BondsOf(js)
      /\ Locks(ep.comments, ep.locked_utxos)
  BY <1>1, <1>2 DEF BoardTrail
<1>5. BackToBoard(e, ep.comments, ep.total_locked_value)
  BY <1>1, <1>2, <1>3, <1>4
<1>6. /\ r.ok /\ GoodBoard(r.state)
      /\ r.state.comments = e.before.comments
      /\ r.state.total_comments = e.before.total_comments
      /\ r.state.total_locked_value = e.before.total_locked_value
      /\ r.state.locked_utxos =
            IF e.cmd.type \in {"SubmitComment", "JoinRoom"}
            THEN Board!Unlocked(ep.locked_utxos, e.undo.utxo, e.cmd.bond_amount)
            ELSE ep.locked_utxos
  BY <1>2, <1>4, <1>5, BoardBack
<1>7. \A i \in 1..(n - 1) : i \in 1..n /\ (i \in 0..(n - 2) \/ i = n - 1)
  OBVIOUS
<1>8. \A i \in 1..(n - 1) :
         BackToBoard(trail'[i], After(i)'.comments, After(i)'.total_locked_value)
  BY <1>1, <1>2, <1>3, <1>4, <1>6, <1>7
<1>9. /\ cs = IF e.cmd.type = "SubmitComment" THEN Append(cs1, e) ELSE cs1
      /\ js = IF e.cmd.type = "JoinRoom" THEN Append(js1, e) ELSE js1
  BY <1>1, <1>2
<1>10. /\ e.cmd.type = "SubmitComment" => \E R : cs1 \in Seq(R) /\ e \in R /\ Priced(R)
       /\ e.cmd.type = "JoinRoom" => \E R : js1 \in Seq(R) /\ e \in R /\ Priced(R)
       /\ BondsOf(cs1) \in Nat /\ BondsOf(js1) \in Nat
  <2>1. PICK S0 : trail' \in Seq(S0)
    BY <1>1 DEF Trailed
  <2>2. trail' \in Seq(ToSet(trail')) /\ DOMAIN trail' = 1..(n - 1)
    BY <1>1, <2>1, Ranged
  <2>3. ASSUME NEW type \in {"SubmitComment", "JoinRoom"}, NEW es, es = OnTrail(type)'
        PROVE  \E S : es \in Seq(S) /\ \A x \in S : x.cmd.bond_amount \in Nat
    <3> DEFINE T == {x \in ToSet(trail') : x.cmd.type = type}
    <3>1. es = Keep(trail', T)
      BY <2>3 DEF OnTrail
    <3>2. es \in Seq(ToSet(trail') \cap T)
      <4> HIDE DEF T
      <4> QED  BY <2>2, <3>1, KeepSeq
    <3>3. \A x \in ToSet(trail') \cap T : x.cmd.bond_amount \in Nat
      <4> SUFFICES ASSUME NEW x \in ToSet(trail'), x.cmd.type = type
                   PROVE  x.cmd.bond_amount \in Nat
        OBVIOUS
      <4>1. PICK i \in 1..(n - 1) : x = trail'[i]
        BY <2>2 DEF ToSet
      <4>2. x = trail[i] /\ i \in 1..n
        BY <1>1, <1>7, <4>1
      <4>3. BackToBoard(x, After(i).comments, After(i).total_locked_value)
        BY <1>4, <4>2
      <4> QED  BY <2>3, <4>3 DEF BackToBoard
    <3> QED  BY <3>2, <3>3
  <2>4. ASSUME NEW es, NEW S, es \in Seq(S), \A x \in S : x.cmd.bond_amount \in Nat,
               e.cmd.type \in {"SubmitComment", "JoinRoom"}
        PROVE  \E R : es \in Seq(R) /\ e \in R /\ Priced(R)
    <3>1. /\ es \in Seq(S \cup {e}) /\ e \in S \cup {e}
          /\ \A x \in S \cup {e} : x.cmd.bond_amount \in Nat
      BY <1>5, <2>4, SeqMonotonic DEF BackToBoard
    <3> QED  BY <3>1 DEF Priced
  <2>5. PICK S : cs1 \in Seq(S) /\ \A x \in S : x.cmd.bond_amount \in Nat
    BY <1>2, <2>3
  <2>6. PICK S2 : js1 \in Seq(S2) /\ \A x \in S2 : x.cmd.bond_amount \in Nat
    BY <1>2, <2>3
  <2> QED  BY <2>4, <2>5, <2>6, BondsAdd
<1>11. BondsOf(cs1) \in Nat /\ BondsOf(js1) \in Nat
  BY <1>10
<1>12. /\ Shown(r.state.comments, cs1)
       /\ r.state.total_locked_value = BondsOf(cs1) + BondsOf(js1)
       /\ Locks(r.state.comments, r.state.locked_utxos)
  <2>1. CASE e.cmd.type = "SubmitComment"
    <3>1. PICK c : c = Declared(e)
      OBVIOUS
    <3>2. /\ cs = Append(cs1, e) /\ js = js1
          /\ ep.comments = Append(e.before.comments, c) /\ c \in BoardComments
          /\ e.undo.comment_id = e.before.next_comment_id
          /\ e.undo.utxo = Board!CommentBond(e.before.next_comment_id)
          /\ e.cmd.bond_amount \in Nat
          /\ ep.total_locked_value = e.before.total_locked_value + e.cmd.bond_amount
          /\ GoodBoard(e.before)
      BY <1>5, <1>9, <2>1, <3>1 DEF BackToBoard
    <3>3. PICK R : cs1 \in Seq(R) /\ e \in R /\ Priced(R)
      BY <1>10, <2>1
    <3>4. /\ BondsOf(cs) = BondsOf(cs1) + e.cmd.bond_amount
          /\ Len(cs1) \in Nat /\ Len(cs) = Len(cs1) + 1
          /\ \A i \in 1..Len(cs1) : cs[i] = cs1[i]
      <4>1. OneMore(cs1, e, cs)
        BY <3>2, <3>3 DEF OneMore
      <4> QED  BY <4>1, BondsGrow
    <3>5. /\ Numbered(e.before.comments, e.before.next_comment_id)
          /\ c.id = e.before.next_comment_id
          /\ e.before.total_locked_value \in Nat
      BY <3>1, <3>2 DEF GoodBoard, Declared
    <3>6. /\ Len(ep.comments) = Len(e.before.comments) + 1
          /\ Len(e.before.comments) \in Nat
          /\ \A i \in 1..Len(e.before.comments) : ep.comments[i] = e.before.comments[i]
      BY <3>2, <3>5, NumberedParts
    <3>7. Shown(r.state.comments, cs1)
      <4>1. Len(e.before.comments) = Len(cs1) /\ \A i \in 1..Len(cs1) : i \in 1..Len(cs)
        BY <1>4, <3>4, <3>6 DEF Shown
      <4> QED  BY <1>4, <1>6, <3>4, <3>6, <4>1 DEF Shown
    <3>8. r.state.total_locked_value = BondsOf(cs1) + BondsOf(js1)
      <4>1. PICK total, one, two, b :
               /\ total = e.before.total_locked_value /\ b = e.cmd.bond_amount
               /\ one = BondsOf(cs1) /\ two = BondsOf(js1)
        OBVIOUS
      <4>2. total \in Nat /\ one \in Nat /\ two \in Nat /\ b \in Nat
        BY <1>11, <3>2, <3>5, <4>1
      <4>3. total + b = (one + b) + two
        BY <1>4, <3>2, <3>4, <4>1
      <4>4. total = one + two
        BY <4>2, <4>3, TakeOff
      <4> QED  BY <1>6, <4>1, <4>4
    <3>9. Locks(r.state.comments, r.state.locked_utxos)
      <4>1. Locks(Append(e.before.comments, c), ep.locked_utxos)
        BY <1>4, <3>2
      <4>2. PICK u, amount : u = e.undo.utxo /\ amount = e.cmd.bond_amount
        OBVIOUS
      <4>3. Locks(e.before.comments, Board!Unlocked(ep.locked_utxos, u, amount))
        BY <3>2, <3>5, <4>1, <4>2, LocksChange
      <4> QED  BY <1>6, <2>1, <4>2, <4>3
    <3> QED  BY <3>7, <3>8, <3>9
  <2>2. CASE e.cmd.type = "JoinRoom"
    <3>1. /\ cs = cs1 /\ js = Append(js1, e)
          /\ ep.comments = e.before.comments
          /\ \A id : e.undo.utxo # Board!CommentBond(id)
          /\ e.cmd.bond_amount \in Nat
          /\ ep.total_locked_value = e.before.total_locked_value + e.cmd.bond_amount
          /\ GoodBoard(e.before)
      BY <1>5, <1>9, <2>2 DEF BackToBoard
    <3>2. PICK R : js1 \in Seq(R) /\ e \in R /\ Priced(R)
      BY <1>10, <2>2
    <3>3. BondsOf(js) = BondsOf(js1) + e.cmd.bond_amount
      <4>1. OneMore(js1, e, js)
        BY <3>1, <3>2 DEF OneMore
      <4> QED  BY <4>1, BondsGrow
    <3>4. r.state.total_locked_value = BondsOf(cs1) + BondsOf(js1)
      <4>1. e.before.total_locked_value \in Nat
        BY <3>1 DEF GoodBoard
      <4>2. PICK total, one, two, b :
               /\ total = e.before.total_locked_value /\ b = e.cmd.bond_amount
               /\ one = BondsOf(cs1) /\ two = BondsOf(js1)
        OBVIOUS
      <4>3. total \in Nat /\ one \in Nat /\ two \in Nat /\ b \in Nat
        BY <1>11, <3>1, <4>1, <4>2
      <4>4. total + b = one + (two + b)
        BY <1>4, <3>1, <3>3, <4>2
      <4>5. total = one + two
        BY <4>3, <4>4, TakeOff
      <4> QED  BY <1>6, <4>2, <4>5
    <3>5. Locks(r.state.comments, r.state.locked_utxos)
      <4>1. PICK u, amount, next : /\ u = e.undo.utxo /\ amount = e.cmd.bond_amount
                                   /\ next = ep.next_comment_id
        OBVIOUS
      <4>2. Numbered(ep.comments, next) /\ next \in Nat
        BY <1>4, <4>1 DEF GoodBoard, Numbered
      <4>3. PICK c \in BoardComments : c.id = next
        <5>1. [id |-> next, author |-> None, bond_amount |-> 0] \in BoardComments
          BY <4>2 DEF BoardComments, Signers
        <5> QED  BY <5>1
      <4>4. Locks(ep.comments, Board!Unlocked(ep.locked_utxos, u, amount))
        BY <1>4, <3>1, <4>1, <4>2, <4>3, LocksChange
      <4> QED  BY <1>6, <2>2, <3>1, <4>1, <4>4
    <3> QED  BY <1>4, <1>6, <3>1, <3>4, <3>5
  <2>3. CASE e.cmd.type \notin {"SubmitComment", "JoinRoom"}
    BY <1>4, <1>5, <1>6, <1>9, <2>3 DEF BackToBoard
  <2> QED  BY <2>1, <2>2, <2>3
<1>13. BoardTrail'
  BY <1>1, <1>2, <1>3, <1>6, <1>8, <1>12 DEF BoardTrail
<1> QED  BY <1>1, <1>2, <1>3, <1>6, <1>13

LEMMA BoardStep ==
  ASSUME Trailed, BoardTrail, [Next]_vars
  PROVE  BoardTrail'
<1>1. CASE app # "comment_board"
  BY <1>1, TrailedStep DEF BoardTrail
<1>2. CASE app = "comment_board"
  <2>1. CASE Bond
    BY <1>2, <2>1, BondStep
  <2>2. CASE Undo
    BY <1>2, <2>2, UndoBond
  <2>3. CASE Play \/ Gamble \/ Comment \/ PlayMcp \/ Speak \/ Gather
    BY <1>2, <2>3 DEF Play, Gamble, Comment, PlayMcp, Speak, Gather
  <2>4. CASE UNCHANGED vars
    BY <2>4 DEF vars, BoardTrail, After, OnTrail
  <2> QED  BY <2>1, <2>2, <2>3, <2>4 DEF Next
<1> QED  BY <1>1, <1>2

LEMMA BoardInit == Init => BoardTrail
<1> SUFFICES ASSUME Init, app = "comment_board" PROVE BoardTrail
  BY DEF BoardTrail
<1>1. trail = <<>> /\ episode = Board!Initialize(participants, 0)
  BY DEF Init
<1>2. PICK s, locked : s = <<>> /\ locked = [u \in {} |-> 0]
  OBVIOUS
<1>3. s \in Seq(BoardComments) /\ Len(s) = 0 /\ DOMAIN locked = {}
  BY <1>2
<1>4. episode = [room_members |-> s, authenticated_users |-> s,
                 current_challenge |-> None, comments |-> s, total_comments |-> 0,
                 total_locked_value |-> 0, locked_utxos |-> locked, next_comment_id |-> 1]
  BY <1>1, <1>2 DEF Board!Initialize
<1>5. GoodBoard(episode)
  BY <1>3, <1>4 DEF GoodBoard, Numbered
<1>6. OnTrail("SubmitComment") = s /\ OnTrail("JoinRoom") = s
  BY <1>1, <1>2, KeepEmpty DEF OnTrail
<1>7. BondsOf(s) = 0
  <2>1. [i \in DOMAIN s |-> s[i].cmd.bond_amount] = <<>>
    BY <1>2
  <2> QED  BY <2>1, TotalAppend DEF BondsOf
<1>8. Locks(s, locked) /\ Shown(s, s)
  BY <1>3 DEF Locks, Shown
<1>9. Len(trail) = 0
  BY <1>1
<1> QED  BY <1>4, <1>5, <1>6, <1>7, <1>8, <1>9 DEF BoardTrail
-----------------------------------------------------------------------------
(* The room of comment-it.  A command changes whether its signer is        *)
(* authenticated only if it was the other way before, so the rollback      *)
(* object always tells what to go back to.                                 *)
LEMMA WithoutNewest ==
  ASSUME NEW S, NEW s, s \in Seq(S), NEW c, NEW id, c.id = id,
         \A i \in 1..Len(s) : s[i].id # id
  PROVE  /\ WithoutId(Append(s, c), id) = s
         /\ Len(Append(s, c)) = Len(s) + 1 /\ Len(s) \in Nat
         /\ \A i \in 1..Len(s) : Append(s, c)[i] = s[i]
         /\ Append(s, c)[Len(s) + 1] = c
<1>1. PICK R, t : R = S \cup {c} /\ t = Append(s, c)
  OBVIOUS
<1>2. s \in Seq(R) /\ c \in R
  BY <1>1, SeqMonotonic
<1>3. /\ t \in Seq(R) /\ t # <<>> /\ Len(t) = Len(s) + 1 /\ Len(s) \in Nat
      /\ \A i \in 1..Len(s) : t[i] = s[i]
      /\ t[Len(s) + 1] = c
  BY <1>1, <1>2, AppendProperties, LenProperties
<1>4. Last(t) = c /\ Front(t) \in Seq(R) /\ t = Append(Front(t), Last(t))
  BY <1>3, FrontLast
<1>5. Front(t) = s
  BY <1>1, <1>2, <1>4, AppendInjective
<1>6. \A i \in 1..(Len(t) - 1) : t[i].id # id
  BY <1>3
<1>7. WithoutId(t, id) = s
  BY <1>3, <1>4, <1>5, <1>6, WithoutIdParts
<1> QED  BY <1>1, <1>3, <1>7

ByKey(s, k) == Keep(s, {e \in ToSet(s) : e.by = k})

LEMMA ByKeyAppend ==
  ASSUME NEW S, NEW s \in Seq(S), NEW x \in S, NEW k
  PROVE  /\ ByKey(Append(s, x), k) = IF x.by = k THEN Append(ByKey(s, k), x) ELSE ByKey(s, k)
         /\ Len(ByKey(s, k)) \in Nat
         /\ Len(ByKey(Append(s, x), k)) = Len(ByKey(s, k)) + (IF x.by = k THEN 1 ELSE 0)
<1> DEFINE t == Append(s, x)
           T == {e \in ToSet(t) : e.by = k}
           U == {e \in ToSet(s) : e.by = k}
<1>1. /\ t \in Seq(S) /\ Len(t) = Len(s) + 1 /\ Len(s) \in Nat
      /\ \A i \in 1..Len(s) : t[i] = s[i]
      /\ t[Len(s) + 1] = x
  BY AppendProperties, LenProperties
<1>2. /\ \A i \in 1..Len(s) : s[i] \in ToSet(s)
      /\ \A i \in 1..Len(t) : t[i] \in ToSet(t)
  <2> HIDE DEF t
  <2> QED  BY <1>1, Ranged
<1>3. \A i \in 1..Len(s) : s[i] \in T <=> s[i] \in U
  <2> SUFFICES ASSUME NEW i \in 1..Len(s) PROVE s[i] \in T <=> s[i] \in U
    OBVIOUS
  <2>1. s[i] \in ToSet(s) /\ s[i] \in ToSet(t)
    <3>1. i \in 1..Len(t)
      BY <1>1
    <3> HIDE DEF t
    <3> QED  BY <1>1, <1>2, <3>1
  <2> QED  BY <2>1
<1>4. x \in T <=> x.by = k
  <2>1. x \in ToSet(t)
    <3>1. Len(s) + 1 \in 1..Len(t)
      BY <1>1
    <3> HIDE DEF t
    <3> QED  BY <1>1, <1>2, <3>1
  <2> QED  BY <2>1
<1> HIDE DEF T, U
<1>5. Keep(s, T) = Keep(s, U) /\ Keep(s, U) \in Seq(S) /\ Len(Keep(s, U)) \in Nat
  BY <1>3, KeepAgree, KeepSeq
<1>6. Keep(t, T) = IF x \in T THEN Append(Keep(s, T), x) ELSE Keep(s, T)
  BY KeepAppend DEF t
<1>7. Len(Append(Keep(s, U), x)) = Len(Keep(s, U)) + 1
  BY <1>5, AppendProperties
<1>8. Len(Keep(s, U)) + 0 = Len(Keep(s, U))
  BY <1>5
<1> QED  BY <1>4, <1>5, <1>6, <1>7, <1>8 DEF ByKey, T, U, t

Counts(ids) == \A i \in 1..Len(ids) : ids[i].id = i

GoodRoom(ep) ==
    /\ ep = [authenticated |-> ep.authenticated, rate_limits |-> ep.rate_limits,
             authorized |-> ep.authorized, active_challenges |-> ep.active_challenges,
             comments |-> ep.comments, next_comment_id |-> ep.next_comment_id]
    /\ \E S : ep.comments \in Seq(S)
    /\ ep.next_comment_id = Len(ep.comments) + 1 /\ Counts(ep.comments)
    /\ ep.rate_limits \in [PubKeys -> Nat]
    /\ ToSet(ep.authorized) \subseteq PubKeys

(* The rollback object of e leads from these back to those before e *)
BackToRoom(e, authenticated, comments) ==
    /\ GoodRoom(e.before) /\ e.by \in PubKeys
    /\ \/ /\ e.cmd.type = "RequestChallenge" /\ e.undo.type = "Challenge"
          /\ authenticated = e.before.authenticated /\ comments = e.before.comments
       \/ /\ e.cmd.type = "SubmitResponse" /\ e.undo.type = "Authentication"
          /\ e.undo.key = e.by /\ ~ e.undo.was /\ e.by \notin e.before.authenticated
          /\ authenticated = e.before.authenticated \cup {e.by} /\ comments = e.before.comments
       \/ /\ e.cmd.type = "RevokeSession" /\ e.undo.type = "SessionRevoked"
          /\ e.undo.key = e.by /\ e.undo.was /\ e.by \in e.before.authenticated
          /\ authenticated = e.before.authenticated \ {e.by} /\ comments = e.before.comments
       \/ /\ e.cmd.type = "SubmitComment" /\ e.undo.type = "CommentAdded"
          /\ e.undo.comment_id = e.before.next_comment_id
          /\ authenticated = e.before.authenticated
          /\ \E c : /\ c.id = e.before.next_comment_id /\ c.author = e.by
                    /\ comments = Append(e.before.comments, c)

Changes(e, k) == e.by = k /\ e.cmd.type \in {"SubmitResponse", "RevokeSession"}

(* Those authenticated follow from the first m commands *)
Follow(s, m, authenticated) ==
    \A k \in PubKeys :
        k \in authenticated <=>
            \E i \in 1..m : /\ Changes(s[i], k) /\ s[i].cmd.type = "SubmitResponse"
                            /\ \A j \in 1..m : Changes(s[j], k) => j <= i

Written(comments, es) ==
    Len(comments) = Len(es) /\ \A i \in 1..Len(es) : comments[i].author = es[i].by

RoomTrail ==
    app = "comment_it" =>
        /\ GoodRoom(episode)
        /\ \A i \in 1..Len(trail) : BackToRoom(trail[i], After(i).authenticated, After(i).comments)
        /\ \A m \in 0..Len(trail) : Follow(trail, m, After(m).authenticated)
        /\ Written(episode.comments, OnTrail("SubmitComment"))
        /\ \A k \in PubKeys :
              Len(ByKey(OnTrail("RequestChallenge"), k)) <= episode.rate_limits[k]

LEMMA RoomMove ==
  ASSUME NEW ep, GoodRoom(ep), NEW cmd \in Room!Commands, NEW by, NEW time,
         Room!Accepts(ep, cmd, by),
         NEW new, new = Room!Executed(ep, cmd, by, time),
         NEW e, e = [cmd |-> cmd, by |-> by, undo |-> Room!RollbackOf(ep, cmd, by), before |-> ep]
  PROVE  /\ GoodRoom(new) /\ BackToRoom(e, new.authenticated, new.comments)
         /\ \A k \in PubKeys :
               new.rate_limits[k] = ep.rate_limits[k] +
                  (IF cmd.type = "RequestChallenge" /\ by = k THEN 1 ELSE 0)
<1>1. e.cmd = cmd /\ e.by = by /\ e.before = ep /\ e.undo = Room!RollbackOf(ep, cmd, by)
  OBVIOUS
<1>2. /\ by \in PubKeys
      /\ (by \in ep.authenticated) = (cmd.type \in {"RevokeSession", "SubmitComment"})
  <2>1. by \in ToSet(ep.authorized)
    BY DEF Room!Accepts, ToSet
  <2> QED  BY <2>1 DEF Room!Accepts, GoodRoom
<1>3. /\ ep.next_comment_id = Len(ep.comments) + 1 /\ Counts(ep.comments)
      /\ ep.rate_limits \in [PubKeys -> Nat] /\ ToSet(ep.authorized) \subseteq PubKeys
      /\ \E S : ep.comments \in Seq(S)
  BY DEF GoodRoom
<1>4. \A k \in PubKeys : ep.rate_limits[k] + 0 = ep.rate_limits[k]
  BY <1>3
<1>5. CASE cmd.type = "RequestChallenge"
  <2>1. PICK limits, challenges :
           /\ limits = [ep.rate_limits EXCEPT ![by] = @ + 1]
           /\ challenges = [ep.active_challenges EXCEPT ![by] = time]
    OBVIOUS
  <2>2. new = [ep EXCEPT !.active_challenges = challenges, !.rate_limits = limits]
    BY <1>5, <2>1 DEF Room!Executed, Room!Challenged
  <2>3. new = [authenticated |-> ep.authenticated, rate_limits |-> limits,
               authorized |-> ep.authorized, active_challenges |-> challenges,
               comments |-> ep.comments, next_comment_id |-> ep.next_comment_id]
    BY <2>2 DEF GoodRoom
  <2>4. /\ limits \in [PubKeys -> Nat]
        /\ \A k \in PubKeys : limits[k] = ep.rate_limits[k] + (IF by = k THEN 1 ELSE 0)
    BY <1>2, <1>3, <2>1
  <2>5. GoodRoom(new)
    BY <1>3, <2>3, <2>4 DEF GoodRoom
  <2>6. e.undo.type = "Challenge"
    BY <1>1, <1>5 DEF Room!RollbackOf
  <2>7. BackToRoom(e, new.authenticated, new.comments)
    BY <1>1, <1>2, <1>5, <2>3, <2>6 DEF BackToRoom
  <2> QED  BY <1>5, <2>3, <2>4, <2>5, <2>7
<1>6. CASE cmd.type = "SubmitResponse"
  <2>1. PICK users, challenges :
           /\ users = ep.authenticated \cup {by}
           /\ challenges = [ep.active_challenges EXCEPT ![by] = None]
    OBVIOUS
  <2>2. new = [ep EXCEPT !.authenticated = users, !.active_challenges = challenges]
    BY <1>6, <2>1 DEF Room!Executed
  <2>3. new = [authenticated |-> users, rate_limits |-> ep.rate_limits,
               authorized |-> ep.authorized, active_challenges |-> challenges,
               comments |-> ep.comments, next_comment_id |-> ep.next_comment_id]
    BY <2>2 DEF GoodRoom
  <2>4. GoodRoom(new)
    BY <1>3, <2>3 DEF GoodRoom
  <2>5. by \notin ep.authenticated
    BY <1>2, <1>6
  <2>6. e.undo.type = "Authentication" /\ e.undo.key = by /\ ~ e.undo.was
    BY <1>1, <1>6, <2>5 DEF Room!RollbackOf
  <2>7. BackToRoom(e, new.authenticated, new.comments)
    BY <1>1, <1>2, <1>6, <2>1, <2>3, <2>5, <2>6 DEF BackToRoom
  <2> QED  BY <1>4, <1>6, <2>3, <2>4, <2>7
<1>7. CASE cmd.type = "RevokeSession"
  <2>1. PICK users : users = ep.authenticated \ {by}
    OBVIOUS
  <2>2. new = [ep EXCEPT !.authenticated = users]
    BY <1>7, <2>1 DEF Room!Executed
  <2>3. new = [authenticated |-> users, rate_limits |-> ep.rate_limits,
               authorized |-> ep.authorized, active_challenges |-> ep.active_challenges,
               comments |-> ep.comments, next_comment_id |-> ep.next_comment_id]
    BY <2>2 DEF GoodRoom
  <2>4. GoodRoom(new)
    BY <1>3, <2>3 DEF GoodRoom
  <2>5. by \in ep.authenticated
    BY <1>2, <1>7
  <2>6. e.undo.type = "SessionRevoked" /\ e.undo.key = by /\ e.undo.was
    BY <1>1, <1>7, <2>5 DEF Room!RollbackOf
  <2>7. BackToRoom(e, new.authenticated, new.comments)
    BY <1>1, <1>2, <1>7, <2>1, <2>3, <2>5, <2>6 DEF BackToRoom
  <2> QED  BY <1>4, <1>7, <2>3, <2>4, <2>7
<1>8. CASE cmd.type = "SubmitComment"
  <2>1. PICK c, comments, next :
           /\ c = [id |-> ep.next_comment_id, author |-> by, timestamp |-> time]
           /\ comments = Append(ep.comments, c) /\ next = ep.next_comment_id + 1
    OBVIOUS
  <2>2. new = [ep EXCEPT !.comments = comments, !.next_comment_id = next]
    BY <1>8, <2>1 DEF Room!Executed
  <2>3. new = [authenticated |-> ep.authenticated, rate_limits |-> ep.rate_limits,
               authorized |-> ep.authorized, active_challenges |-> ep.active_challenges,
               comments |-> comments, next_comment_id |-> next]
    BY <2>2 DEF GoodRoom
  <2>4. PICK S : ep.comments \in Seq(S)
    BY <1>3
  <2>5. /\ Len(comments) = Len(ep.comments) + 1 /\ Len(ep.comments) \in Nat
        /\ \A i \in 1..Len(ep.comments) : comments[i] = ep.comments[i]
        /\ comments[Len(ep.comments) + 1] = c
        /\ comments \in Seq(S \cup {c})
    <3>1. ep.comments \in Seq(S \cup {c}) /\ c \in S \cup {c}
      BY <2>4, SeqMonotonic
    <3> QED  BY <2>1, <3>1, AppendProperties, LenProperties
  <2>6. next = Len(comments) + 1 /\ Counts(comments)
    <3>1. \A i \in 1..Len(comments) : i \in 1..Len(ep.comments) \/ i = Len(ep.comments) + 1
      BY <2>5
    <3> QED  BY <1>3, <2>1, <2>5, <3>1 DEF Counts
  <2>7. GoodRoom(new)
    BY <1>3, <2>3, <2>5, <2>6 DEF GoodRoom
  <2>8. e.undo.type = "CommentAdded" /\ e.undo.comment_id = ep.next_comment_id
    BY <1>1, <1>8 DEF Room!RollbackOf
  <2>9. c.id = ep.next_comment_id /\ c.author = by
    BY <2>1
  <2>10. BackToRoom(e, new.authenticated, new.comments)
    BY <1>1, <1>2, <1>8, <2>1, <2>3, <2>8, <2>9 DEF BackToRoom
  <2> QED  BY <1>4, <1>8, <2>3, <2>7, <2>10
<1>9. cmd.type \in {"RequestChallenge", "SubmitResponse", "RevokeSession", "SubmitComment"}
  BY DEF Room!Commands
<1> QED  BY <1>5, <1>6, <1>7, <1>8, <1>9
LEMMA RoomBack ==
  ASSUME NEW ep, GoodRoom(ep), NEW e, BackToRoom(e, ep.authenticated, ep.comments),
         NEW r, r = Room!Rollback(ep, e.undo)
  PROVE  /\ r.ok /\ GoodRoom(r.state)
         /\ r.state.authenticated = e.before.authenticated
         /\ r.state.comments = e.before.comments
         /\ r.state.next_comment_id = e.before.next_comment_id
         /\ r.state.rate_limits = ep.rate_limits
<1>1. /\ GoodRoom(e.before) /\ e.by \in PubKeys
      /\ ep.next_comment_id = Len(ep.comments) + 1 /\ Counts(ep.comments)
      /\ ep.rate_limits \in [PubKeys -> Nat] /\ ToSet(ep.authorized) \subseteq PubKeys
      /\ \E S : ep.comments \in Seq(S)
      /\ \E S : e.before.comments \in Seq(S)
      /\ e.before.next_comment_id = Len(e.before.comments) + 1 /\ Counts(e.before.comments)
  BY DEF BackToRoom, GoodRoom
<1>2. CASE e.cmd.type = "RequestChallenge"
  <2>1. /\ e.undo.type = "Challenge" /\ ep.authenticated = e.before.authenticated
        /\ ep.comments = e.before.comments
    BY <1>2 DEF BackToRoom
  <2>2. PICK challenges : challenges = [ep.active_challenges EXCEPT ![e.undo.key] = None]
    OBVIOUS
  <2>3. r.ok /\ r.state = [ep EXCEPT !.active_challenges = challenges]
    BY <2>1, <2>2 DEF Room!Rollback, Room!RolledBack
  <2>4. r.state = [authenticated |-> ep.authenticated, rate_limits |-> ep.rate_limits,
                   authorized |-> ep.authorized, active_challenges |-> challenges,
                   comments |-> ep.comments, next_comment_id |-> ep.next_comment_id]
    BY <2>3 DEF GoodRoom
  <2>5. GoodRoom(r.state)
    BY <1>1, <2>4 DEF GoodRoom
  <2> QED  BY <1>1, <2>1, <2>3, <2>4, <2>5
<1>3. CASE e.cmd.type \in {"SubmitResponse", "RevokeSession"}
  <2>1. PICK users : users = e.before.authenticated
    OBVIOUS
  <2>2. r.ok /\ r.state = [ep EXCEPT !.authenticated = users] /\ ep.comments = e.before.comments
    <3>1. CASE e.cmd.type = "SubmitResponse"
      <4>1. /\ e.undo.type = "Authentication" /\ e.undo.key = e.by /\ ~ e.undo.was
            /\ ep.authenticated \ {e.by} = users /\ ep.comments = e.before.comments
        BY <2>1, <3>1 DEF BackToRoom
      <4>2. r.ok /\ r.state = Room!RolledBack(ep, e.undo)
        BY <4>1 DEF Room!Rollback
      <4>3. Room!RolledBack(ep, e.undo) = [ep EXCEPT !.authenticated = ep.authenticated \ {e.by}]
        BY <4>1 DEF Room!RolledBack
      <4> QED  BY <4>1, <4>2, <4>3
    <3>2. CASE e.cmd.type = "RevokeSession"
      <4>1. /\ e.undo.type = "SessionRevoked" /\ e.undo.key = e.by /\ e.undo.was
            /\ ep.authenticated \cup {e.by} = users /\ ep.comments = e.before.comments
        BY <2>1, <3>2 DEF BackToRoom
      <4>2. r.ok /\ r.state = Room!RolledBack(ep, e.undo)
        BY <4>1 DEF Room!Rollback
      <4>3. Room!RolledBack(ep, e.undo) = [ep EXCEPT !.authenticated = ep.authenticated \cup {e.by}]
        BY <4>1 DEF Room!RolledBack
      <4> QED  BY <4>1, <4>2, <4>3
    <3> QED  BY <1>3, <3>1, <3>2
  <2>3. r.state = [authenticated |-> users, rate_limits |-> ep.rate_limits,
                   authorized |-> ep.authorized, active_challenges |-> ep.active_challenges,
                   comments |-> ep.comments, next_comment_id |-> ep.next_comment_id]
    BY <2>2 DEF GoodRoom
  <2>4. GoodRoom(r.state)
    BY <1>1, <2>3 DEF GoodRoom
  <2> QED  BY <1>1, <2>1, <2>2, <2>3, <2>4
<1>4. CASE e.cmd.type = "SubmitComment"
  <2>1. PICK c, id, s :
           /\ e.undo.type = "CommentAdded" /\ e.undo.comment_id = id
           /\ id = e.before.next_comment_id /\ s = e.before.comments
           /\ ep.authenticated = e.before.authenticated
           /\ c.id = id /\ ep.comments = Append(s, c)
    BY <1>4 DEF BackToRoom
  <2>2. PICK S : s \in Seq(S)
    BY <1>1, <2>1
  <2>3. \A i \in 1..Len(s) : s[i].id # id
    <3>1. Len(s) \in Nat /\ id = Len(s) + 1
      BY <1>1, <2>1, <2>2, LenProperties
    <3> QED  BY <1>1, <2>1, <3>1 DEF Counts
  <2>4. /\ WithoutId(ep.comments, id) = s
        /\ Len(ep.comments) = Len(s) + 1 /\ Len(s) \in Nat
        /\ ep.comments[Len(s) + 1] = c
    BY <2>1, <2>2, <2>3, WithoutNewest
  <2>5. Len(s) + 1 \in DOMAIN ep.comments /\ ep.comments[Len(s) + 1].id = id
    <3>1. PICK R : ep.comments \in Seq(R)
      BY <1>1
    <3>2. DOMAIN ep.comments = 1..Len(ep.comments)
      BY <3>1, LenProperties
    <3> QED  BY <2>1, <2>4, <3>2
  <2>6. r.ok /\ r.state = Room!RolledBack(ep, e.undo)
    BY <2>1, <2>5 DEF Room!Rollback
  <2>7. Room!WithoutId(ep.comments, id) = s
    BY <2>4 DEF Room!WithoutId, WithoutId, Room!Keep, Keep, Room!Sifted, Sifted, ToSet
  <2>8. r.state = [ep EXCEPT !.comments = s, !.next_comment_id = id]
    BY <2>1, <2>6, <2>7 DEF Room!RolledBack
  <2>9. r.state = [authenticated |-> ep.authenticated, rate_limits |-> ep.rate_limits,
                   authorized |-> ep.authorized, active_challenges |-> ep.active_challenges,
                   comments |-> s, next_comment_id |-> id]
    BY <2>8 DEF GoodRoom
  <2>10. GoodRoom(r.state)
    <3>1. id = Len(s) + 1 /\ Counts(s)
      BY <1>1, <2>1
    <3> QED  BY <1>1, <2>2, <2>9, <3>1 DEF GoodRoom
  <2> QED  BY <2>1, <2>6, <2>9, <2>10
<1>5. e.cmd.type \in {"RequestChallenge", "SubmitResponse", "RevokeSession", "SubmitComment"}
  BY DEF BackToRoom
<1> QED  BY <1>2, <1>3, <1>4, <1>5

LEMMA FollowSame ==
  ASSUME NEW s, NEW t, NEW m \in Nat, \A i \in 1..m : t[i] = s[i],
         NEW users, Follow(s, m, users)
  PROVE  Follow(t, m, users)
BY DEF Follow

LEMMA FollowNext ==
  ASSUME NEW s, NEW m \in Nat, NEW users, NEW comments, NEW e, e = s[m + 1],
         BackToRoom(e, users, comments), Follow(s, m, e.before.authenticated)
  PROVE  Follow(s, m + 1, users)
<1>1. /\ \A i \in 1..m : i \in 1..(m + 1) /\ i # m + 1 /\ i < m + 1
      /\ \A i \in 1..(m + 1) : (i \in 1..m \/ i = m + 1) /\ i <= m + 1
      /\ m + 1 \in 1..(m + 1)
  OBVIOUS
<1> SUFFICES ASSUME NEW k \in PubKeys
             PROVE  k \in users <=>
                       \E i \in 1..(m + 1) :
                          /\ Changes(s[i], k) /\ s[i].cmd.type = "SubmitResponse"
                          /\ \A j \in 1..(m + 1) : Changes(s[j], k) => j <= i
  BY DEF Follow
<1>2. CASE Changes(e, k)
  <2>1. k \in users <=> e.cmd.type = "SubmitResponse"
    BY <1>2 DEF Changes, BackToRoom
  <2>2. ASSUME NEW i \in 1..(m + 1), \A j \in 1..(m + 1) : Changes(s[j], k) => j <= i
        PROVE  i = m + 1
    <3>1. m + 1 <= i
      BY <1>1, <1>2, <2>2
    <3> QED  BY <3>1
  <2> QED  BY <1>1, <1>2, <2>1, <2>2
<1>3. CASE ~ Changes(e, k)
  <2>1. k \in users <=> k \in e.before.authenticated
    BY <1>3 DEF Changes, BackToRoom
  <2>2. k \in e.before.authenticated <=>
           \E i \in 1..m : /\ Changes(s[i], k) /\ s[i].cmd.type = "SubmitResponse"
                           /\ \A j \in 1..m : Changes(s[j], k) => j <= i
    BY DEF Follow
  <2>3. ~ Changes(s[m + 1], k)
    BY <1>3
  <2>4. (\E i \in 1..m : /\ Changes(s[i], k) /\ s[i].cmd.type = "SubmitResponse"
                         /\ \A j \in 1..m : Changes(s[j], k) => j <= i)
        <=> (\E i \in 1..(m + 1) : /\ Changes(s[i], k) /\ s[i].cmd.type = "SubmitResponse"
                                   /\ \A j \in 1..(m + 1) : Changes(s[j], k) => j <= i)
    BY <1>1, <2>3
  <2> QED  BY <2>1, <2>2, <2>4
<1> QED  BY <1>2, <1>3

LEMMA WrittenChange ==
  ASSUME NEW S, NEW s, s \in Seq(S), NEW R, NEW es, es \in Seq(R), NEW c, NEW e
  PROVE  /\ Written(s, es) /\ c.author = e.by => Written(Append(s, c), Append(es, e))
         /\ Written(Append(s, c), Append(es, e)) => Written(s, es)
<1>1. PICK t, fs : t = Append(s, c) /\ fs = Append(es, e)
  OBVIOUS
<1>2. /\ Len(t) = Len(s) + 1 /\ Len(s) \in Nat
      /\ \A i \in 1..Len(s) : t[i] = s[i]
      /\ t[Len(s) + 1] = c
  <2>1. s \in Seq(S \cup {c}) /\ c \in S \cup {c}
    BY SeqMonotonic
  <2> QED  BY <1>1, <2>1, AppendProperties, LenProperties
<1>3. /\ Len(fs) = Len(es) + 1 /\ Len(es) \in Nat
      /\ \A i \in 1..Len(es) : fs[i] = es[i]
      /\ fs[Len(es) + 1] = e
  <2>1. es \in Seq(R \cup {e}) /\ e \in R \cup {e}
    BY SeqMonotonic
  <2> QED  BY <1>1, <2>1, AppendProperties, LenProperties
<1>4. /\ \A i \in 1..Len(fs) : i \in 1..Len(es) \/ i = Len(es) + 1
      /\ \A i \in 1..Len(es) : i \in 1..Len(fs)
  BY <1>3
<1> QED  BY <1>1, <1>2, <1>3, <1>4 DEF Written
LEMMA CommentStep ==
  ASSUME Trailed, RoomTrail, app = "comment_it", Comment
  PROVE  RoomTrail'
<1>1. PICK cmd \in Room!Commands, by \in Signers :
         Applied(cmd, by, Room!Execute(episode, cmd, by, Time))
  BY DEF Comment
<1>2. PICK ep, time, r, new, cs, qs, cs1, qs1 :
         /\ ep = episode /\ time = Time /\ r = Room!Execute(ep, cmd, by, time)
         /\ new = [cmd |-> cmd, by |-> by, undo |-> r.undo, before |-> episode]
         /\ cs = OnTrail("SubmitComment") /\ qs = OnTrail("RequestChallenge")
         /\ cs1 = OnTrail("SubmitComment")' /\ qs1 = OnTrail("RequestChallenge")'
  OBVIOUS
<1>3. /\ Applied(cmd, by, r) /\ Room!Accepts(ep, cmd, by)
      /\ r.state = Room!Executed(ep, cmd, by, time)
      /\ r.undo = Room!RollbackOf(ep, cmd, by)
  BY <1>1, <1>2 DEF Room!Execute, Applied
<1>4. PICK n \in Nat :
         /\ Trailed' /\ n = Len(trail) /\ Len(trail') = n + 1
         /\ \A i \in 1..n : trail'[i] = trail[i]
         /\ trail'[n + 1] = new
         /\ \A i \in 0..n : After(i)' = After(i)
         /\ After(n) = episode /\ After(n + 1)' = episode'
         /\ \A type : OnTrail(type)' =
               IF cmd.type = type THEN Append(OnTrail(type), new) ELSE OnTrail(type)
  BY <1>2, <1>3, AppliedGrows
<1>5. episode' = r.state /\ app' = app
  BY <1>3 DEF Applied
<1>6. /\ GoodRoom(ep)
      /\ \A i \in 1..n : BackToRoom(trail[i], After(i).authenticated, After(i).comments)
      /\ \A m \in 0..n : Follow(trail, m, After(m).authenticated)
      /\ Written(ep.comments, cs)
      /\ \A k \in PubKeys : Len(ByKey(qs, k)) <= ep.rate_limits[k]
  BY <1>2, <1>4 DEF RoomTrail
<1>7. new.cmd = cmd /\ new.by = by /\ new.before = ep
  BY <1>2
<1>8. /\ GoodRoom(r.state) /\ BackToRoom(new, r.state.authenticated, r.state.comments)
      /\ \A k \in PubKeys :
            r.state.rate_limits[k] = ep.rate_limits[k] +
               (IF cmd.type = "RequestChallenge" /\ by = k THEN 1 ELSE 0)
  <2>1. new = [cmd |-> cmd, by |-> by, undo |-> Room!RollbackOf(ep, cmd, by), before |-> ep]
    BY <1>2, <1>3
  <2> QED  BY <1>3, <1>6, <2>1, RoomMove
<1>9. /\ \A i \in 1..(n + 1) : (i \in 1..n /\ i \in 0..n) \/ i = n + 1
      /\ \A m \in 0..(n + 1) : m \in 0..n \/ m = n + 1
  OBVIOUS
<1>10. \A i \in 1..(n + 1) : BackToRoom(trail'[i], After(i)'.authenticated, After(i)'.comments)
  BY <1>4, <1>5, <1>6, <1>8, <1>9
<1>11. \A m \in 0..(n + 1) : Follow(trail', m, After(m)'.authenticated)
  <2>1. PICK t, s : t = trail' /\ s = trail
    OBVIOUS
  <2>2. ASSUME NEW m \in 0..n PROVE Follow(t, m, After(m).authenticated)
    <3>1. m \in Nat /\ \A i \in 1..m : t[i] = s[i]
      BY <1>4, <2>1
    <3>2. Follow(s, m, After(m).authenticated)
      BY <1>6, <2>1
    <3> QED  BY <3>1, <3>2, FollowSame
  <2>3. Follow(t, n + 1, r.state.authenticated)
    <3>1. Follow(t, n, ep.authenticated)
      <4>1. n \in 0..n
        OBVIOUS
      <4> QED  BY <1>2, <1>4, <2>2, <4>1
    <3>2. new = t[n + 1]
      BY <1>4, <2>1
    <3> QED  BY <1>7, <1>8, <3>1, <3>2, FollowNext
  <2> QED  BY <1>4, <1>5, <1>9, <2>1, <2>2, <2>3
<1>12. /\ cs1 = IF cmd.type = "SubmitComment" THEN Append(cs, new) ELSE cs
       /\ qs1 = IF cmd.type = "RequestChallenge" THEN Append(qs, new) ELSE qs
  BY <1>2, <1>4
<1>13. PICK Q, R : cs \in Seq(Q) /\ qs \in Seq(R)
  BY <1>2, OnTrailSeq
<1>14. Written(r.state.comments, cs1)
  <2>1. CASE cmd.type = "SubmitComment"
    <3>1. PICK c : c.author = by /\ r.state.comments = Append(ep.comments, c)
      BY <1>7, <1>8, <2>1 DEF BackToRoom
    <3>2. PICK S : ep.comments \in Seq(S)
      BY <1>6 DEF GoodRoom
    <3>3. PICK s : s = ep.comments
      OBVIOUS
    <3>4. Written(Append(s, c), Append(cs, new))
      BY <1>6, <1>7, <1>13, <3>1, <3>2, <3>3, WrittenChange
    <3> QED  BY <1>12, <2>1, <3>1, <3>3, <3>4
  <2>2. CASE cmd.type # "SubmitComment"
    BY <1>6, <1>7, <1>8, <1>12, <2>2 DEF BackToRoom
  <2> QED  BY <2>1, <2>2
<1>15. \A k \in PubKeys : Len(ByKey(qs1, k)) <= r.state.rate_limits[k]
  <2> SUFFICES ASSUME NEW k \in PubKeys PROVE Len(ByKey(qs1, k)) <= r.state.rate_limits[k]
    OBVIOUS
  <2>1. PICK P : qs \in Seq(P) /\ new \in P
    <3>1. qs \in Seq(R \cup {new}) /\ new \in R \cup {new}
      BY <1>13, SeqMonotonic
    <3> QED  BY <3>1
  <2>2. /\ Len(ByKey(qs, k)) \in Nat
        /\ Len(ByKey(Append(qs, new), k)) = Len(ByKey(qs, k)) + (IF by = k THEN 1 ELSE 0)
    BY <1>7, <2>1, ByKeyAppend
  <2>3. ep.rate_limits[k] \in Nat /\ Len(ByKey(qs, k)) <= ep.rate_limits[k]
    BY <1>6 DEF GoodRoom
  <2>4. PICK a, b, limit : /\ a = Len(ByKey(qs, k)) /\ b = Len(ByKey(qs1, k))
                           /\ limit = ep.rate_limits[k]
    OBVIOUS
  <2>5. a \in Nat /\ limit \in Nat /\ a <= limit
    BY <2>2, <2>3, <2>4
  <2>6. \/ b = a + 1 /\ r.state.rate_limits[k] = limit + 1
        \/ b = a + 0 /\ r.state.rate_limits[k] = limit + 0
    <3>1. CASE cmd.type = "RequestChallenge" /\ by = k
      BY <1>8, <1>12, <2>2, <2>4, <3>1
    <3>2. CASE ~ (cmd.type = "RequestChallenge" /\ by = k)
      <4>1. r.state.rate_limits[k] = limit + 0
        BY <1>8, <2>4, <3>2
      <4>2. b = a + 0
        BY <1>12, <2>2, <2>4, <3>2
      <4> QED  BY <4>1, <4>2
    <3> QED  BY <3>1, <3>2
  <2>7. b <= r.state.rate_limits[k]
    BY <2>5, <2>6
  <2> QED  BY <2>4, <2>7
<1> QED  BY <1>2, <1>4, <1>5, <1>8, <1>10, <1>11, <1>14, <1>15 DEF RoomTrail

LEMMA UndoComment ==
  ASSUME Trailed, RoomTrail, app = "comment_it", Undo
  PROVE  /\ RoomTrail'
         /\ RolledBack(Last(trail).undo).ok
         /\ episode'.authenticated = Last(trail).before.authenticated
         /\ episode'.comments = Last(trail).before.comments
         /\ episode'.next_comment_id = Last(trail).before.next_comment_id
<1>1. PICK n \in Nat \ {0} :
         /\ Trailed' /\ n = Len(trail) /\ Len(trail') = n - 1
         /\ \A i \in 1..(n - 1) : trail'[i] = trail[i]
         /\ Last(trail) = trail[n]
         /\ episode' = RolledBack(trail[n].undo).state
         /\ \A i \in 0..(n - 2) : After(i)' = After(i)
         /\ After(n) = episode
         /\ After(n - 1) = trail[n].before /\ After(n - 1)' = episode'
         /\ \A type : OnTrail(type) =
               IF trail[n].cmd.type = type THEN Append(OnTrail(type)', trail[n])
               ELSE OnTrail(type)'
  BY UndoShrinks
<1>2. PICK ep, e, r, cs, qs, cs1, qs1 :
         /\ ep = episode /\ e = trail[n] /\ r = Room!Rollback(ep, e.undo)
         /\ cs = OnTrail("SubmitComment") /\ qs = OnTrail("RequestChallenge")
         /\ cs1 = OnTrail("SubmitComment")' /\ qs1 = OnTrail("RequestChallenge")'
  OBVIOUS
<1>3. app' = "comment_it" /\ RolledBack(e.undo) = r /\ n \in 1..n /\ episode' = r.state
  BY <1>1, <1>2 DEF Undo, RolledBack
<1>4. /\ GoodRoom(ep)
      /\ \A i \in 1..n : BackToRoom(trail[i], After(i).authenticated, After(i).comments)
      /\ \A m \in 0..n : Follow(trail, m, After(m).authenticated)
      /\ Written(ep.comments, cs)
      /\ \A k \in PubKeys : Len(ByKey(qs, k)) <= ep.rate_limits[k]
  BY <1>1, <1>2 DEF RoomTrail
<1>5. BackToRoom(e, ep.authenticated, ep.comments)
  BY <1>1, <1>2, <1>3, <1>4
<1>6. /\ r.ok /\ GoodRoom(r.state)
      /\ r.state.authenticated = e.before.authenticated
      /\ r.state.comments = e.before.comments
      /\ r.state.next_comment_id = e.before.next_comment_id
      /\ r.state.rate_limits = ep.rate_limits
  BY <1>2, <1>4, <1>5, RoomBack
<1>7. /\ \A i \in 1..(n - 1) : i \in 1..n /\ (i \in 0..(n - 2) \/ i = n - 1)
      /\ \A m \in 0..(n - 1) : m \in 0..n /\ (m \in 0..(n - 2) \/ m = n - 1)
  OBVIOUS
<1>8. \A i \in 1..(n - 1) : BackToRoom(trail'[i], After(i)'.authenticated, After(i)'.comments)
  <2> SUFFICES ASSUME NEW i \in 1..(n - 1)
               PROVE  BackToRoom(trail'[i], After(i)'.authenticated, After(i)'.comments)
    OBVIOUS
  <2>1. BackToRoom(trail'[i], After(i).authenticated, After(i).comments)
    BY <1>1, <1>4, <1>7
  <2>2. /\ After(i)'.authenticated = After(i).authenticated
        /\ After(i)'.comments = After(i).comments
    BY <1>1, <1>2, <1>3, <1>6, <1>7
  <2> QED  BY <2>1, <2>2
<1>9. \A m \in 0..(n - 1) : Follow(trail', m, After(m)'.authenticated)
  <2> SUFFICES ASSUME NEW m \in 0..(n - 1) PROVE Follow(trail', m, After(m)'.authenticated)
    OBVIOUS
  <2>1. PICK t, s : t = trail' /\ s = trail
    OBVIOUS
  <2>2. m \in Nat /\ \A i \in 1..m : t[i] = s[i]
    BY <1>1, <2>1
  <2>3. Follow(s, m, After(m).authenticated)
    BY <1>4, <1>7, <2>1
  <2>4. Follow(t, m, After(m).authenticated)
    BY <2>2, <2>3, FollowSame
  <2>5. After(m)'.authenticated = After(m).authenticated
    BY <1>1, <1>2, <1>3, <1>6, <1>7
  <2> QED  BY <2>1, <2>4, <2>5
<1>10. /\ cs = IF e.cmd.type = "SubmitComment" THEN Append(cs1, e) ELSE cs1
       /\ qs = IF e.cmd.type = "RequestChallenge" THEN Append(qs1, e) ELSE qs1
  BY <1>1, <1>2
<1>11. PICK Q, R : cs1 \in Seq(Q) /\ qs1 \in Seq(R)
  BY <1>1, <1>2, LaterSeq
<1>12. Written(r.state.comments, cs1)
  <2>1. CASE e.cmd.type = "SubmitComment"
    <3>1. PICK c, s : s = e.before.comments /\ ep.comments = Append(s, c)
      BY <1>5, <2>1 DEF BackToRoom
    <3>2. PICK S : s \in Seq(S)
      BY <1>5, <3>1 DEF GoodRoom, BackToRoom
    <3>3. Written(s, cs1)
      BY <1>4, <1>10, <1>11, <2>1, <3>1, <3>2, WrittenChange
    <3> QED  BY <1>6, <3>1, <3>3
  <2>2. CASE e.cmd.type # "SubmitComment"
    BY <1>4, <1>5, <1>6, <1>10, <2>2 DEF BackToRoom
  <2> QED  BY <2>1, <2>2
<1>13. \A k \in PubKeys : Len(ByKey(qs1, k)) <= r.state.rate_limits[k]
  <2> SUFFICES ASSUME NEW k \in PubKeys PROVE Len(ByKey(qs1, k)) <= r.state.rate_limits[k]
    OBVIOUS
  <2>1. PICK P : qs1 \in Seq(P) /\ e \in P
    <3>1. qs1 \in Seq(R \cup {e}) /\ e \in R \cup {e}
      BY <1>11, SeqMonotonic
    <3> QED  BY <3>1
  <2>2. /\ Len(ByKey(qs1, k)) \in Nat
        /\ Len(ByKey(Append(qs1, e), k)) = Len(ByKey(qs1, k)) + (IF e.by = k THEN 1 ELSE 0)
    BY <2>1, ByKeyAppend
  <2>3. PICK a, b, limit : /\ a = Len(ByKey(qs, k)) /\ b = Len(ByKey(qs1, k))
                           /\ limit = ep.rate_limits[k]
    OBVIOUS
  <2>4. limit \in Nat /\ a <= limit
    BY <1>4, <2>3 DEF GoodRoom
  <2>5. b \in Nat /\ (a = b \/ a = b + 1 \/ a = b + 0)
    BY <1>10, <2>2, <2>3
  <2>6. b <= limit
    BY <2>4, <2>5
  <2> QED  BY <1>6, <2>3, <2>6
<1>14. RoomTrail'
  BY <1>1, <1>2, <1>3, <1>6, <1>8, <1>9, <1>12, <1>13 DEF RoomTrail
<1> QED  BY <1>1, <1>2, <1>3, <1>6, <1>14

LEMMA RoomStep ==
  ASSUME Trailed, RoomTrail, [Next]_vars
  PROVE  RoomTrail'
<1>1. CASE app # "comment_it"
  BY <1>1, TrailedStep DEF RoomTrail
<1>2. CASE app = "comment_it"
  <2>1. CASE Comment
    BY <1>2, <2>1, CommentStep
  <2>2. CASE Undo
    BY <1>2, <2>2, UndoComment
  <2>3. CASE Play \/ Gamble \/ Bond \/ PlayMcp \/ Speak \/ Gather
    BY <1>2, <2>3 DEF Play, Gamble, Bond, PlayMcp, Speak, Gather
  <2>4. CASE UNCHANGED vars
    BY <2>4 DEF vars, RoomTrail, After, OnTrail
  <2> QED  BY <2>1, <2>2, <2>3, <2>4 DEF Next
<1> QED  BY <1>1, <1>2

LEMMA RoomInit == Init => RoomTrail
<1> SUFFICES ASSUME Init, app = "comment_it" PROVE RoomTrail
  BY DEF RoomTrail
<1>1. trail = <<>> /\ episode = Room!Initialize(participants, 0)
  BY DEF Init
<1>2. PICK s, users, limits, challenges :
         /\ s = <<>> /\ users = {} /\ limits = [k \in PubKeys |-> 0]
         /\ challenges = [k \in PubKeys |-> None]
  OBVIOUS
<1>3. s \in Seq({}) /\ Len(s) = 0 /\ limits \in [PubKeys -> Nat]
  BY <1>2
<1>4. episode = [authenticated |-> users, rate_limits |-> limits, authorized |-> participants,
                 active_challenges |-> challenges, comments |-> s, next_comment_id |-> 1]
  BY <1>1, <1>2 DEF Room!Initialize
<1>5. GoodRoom(episode)
  <2>1. ToSet(participants) \subseteq PubKeys
    BY EpisodeChainAssumption, Ranged
  <2> QED  BY <1>3, <1>4, <2>1 DEF GoodRoom, Counts
<1>6. OnTrail("SubmitComment") = s /\ OnTrail("RequestChallenge") = s
  BY <1>1, <1>2, KeepEmpty DEF OnTrail
<1>7. \A k : ByKey(s, k) = s
  BY <1>2, KeepEmpty DEF ByKey
<1>8. Written(s, s)
  BY <1>3 DEF Written
<1>9. Len(trail) = 0 /\ After(0) = episode
  BY <1>1 DEF After
<1>10. Follow(trail, 0, users)
  BY <1>2 DEF Follow
<1>11. \A k \in PubKeys : Len(ByKey(s, k)) <= limits[k]
  BY <1>2, <1>3, <1>7
<1>12. /\ \A i \in 1..Len(trail) : FALSE
       /\ \A m \in 0..Len(trail) : m = 0
  BY <1>9
<1> QED  BY <1>4, <1>5, <1>6, <1>8, <1>9, <1>10, <1>11, <1>12 DEF RoomTrail
-----------------------------------------------------------------------------
(* The older episode of comment-it.  A session that is taken back is       *)
(* forgotten, even if it had taken the place of another; so the session    *)
(* that a key has is that of its last command on the chain, and a rollback *)
(* object that gives one back holds the session there was.                 *)
GoodTalk(ep) ==
    /\ ep = [comments |-> ep.comments, next_id |-> ep.next_id,
             authorized_participants |-> ep.authorized_participants,
             valid_sessions |-> ep.valid_sessions]
    /\ \E S : ep.comments \in Seq(S)
    /\ ep.next_id = Len(ep.comments) + 1 /\ Counts(ep.comments)
    /\ ep.valid_sessions = [k \in PubKeys |-> ep.valid_sessions[k]]

(* The rollback object of e leads from these comments to those before e *)
BackToTalk(e, comments) ==
    /\ GoodTalk(e.before)
    /\ \/ /\ e.cmd.type = "SubmitComment" /\ e.undo.type = "CommentSubmitted"
          /\ e.undo.comment_id = e.before.next_id
          /\ \E c : /\ c.id = e.before.next_id /\ c.author = e.cmd.author
                    /\ comments = Append(e.before.comments, c)
       \/ /\ e.cmd.type = "RegisterSession" /\ e.undo.type = "SessionRegistered"
          /\ e.cmd.public_key \in PubKeys /\ e.undo.public_key = e.cmd.public_key
          /\ comments = e.before.comments
       \/ /\ e.cmd.type = "RevokeSession" /\ e.undo.type = "SessionRevoked"
          /\ e.cmd.public_key \in PubKeys /\ e.undo.public_key = e.cmd.public_key
          /\ e.undo.token = e.before.valid_sessions[e.cmd.public_key]
          /\ comments = e.before.comments
       \/ /\ e.cmd.type = "GetComments" /\ e.undo.type = "CommentsQueried"
          /\ comments = e.before.comments

Registers(e, k) == e.cmd.type \in {"RegisterSession", "RevokeSession"} /\ e.cmd.public_key = k

(* The first m commands give the key this session *)
Gives(s, m, k, token) ==
    \E i \in 1..m : /\ Registers(s[i], k) /\ s[i].cmd.type = "RegisterSession"
                    /\ s[i].cmd.token = token
                    /\ \A j \in 1..m : Registers(s[j], k) => j <= i

Given(s, m, sessions) ==
    \A k \in PubKeys : sessions[k] # None => Gives(s, m, k, sessions[k])

Spoken(comments, es) ==
    Len(comments) = Len(es) /\ \A i \in 1..Len(es) : comments[i].author = es[i].cmd.author

TalkTrail ==
    app = "comment" =>
        /\ GoodTalk(episode)
        /\ \A i \in 1..Len(trail) : BackToTalk(trail[i], After(i).comments)
        /\ \A m \in 0..Len(trail) : Given(trail, m, After(m).valid_sessions)
        /\ Spoken(episode.comments, OnTrail("SubmitComment"))

LEMMA TalkMove ==
  ASSUME NEW ep, GoodTalk(ep), NEW cmd \in Talk!Commands, NEW by, NEW time,
         Talk!Accepts(ep, cmd, by),
         NEW new, new = Talk!Executed(ep, cmd, time),
         NEW e, e = [cmd |-> cmd, by |-> by, undo |-> Talk!RollbackOf(ep, cmd), before |-> ep]
  PROVE  /\ GoodTalk(new) /\ BackToTalk(e, new.comments)
         /\ \A k \in PubKeys :
               \/ ~ Registers(e, k) /\ new.valid_sessions[k] = ep.valid_sessions[k]
               \/ Registers(e, k) /\ cmd.type = "RegisterSession" /\ new.valid_sessions[k] = cmd.token
               \/ new.valid_sessions[k] = None
<1>1. e.cmd = cmd /\ e.by = by /\ e.before = ep /\ e.undo = Talk!RollbackOf(ep, cmd)
  OBVIOUS
<1>2. /\ ep.next_id = Len(ep.comments) + 1 /\ Counts(ep.comments)
      /\ ep.valid_sessions = [k \in PubKeys |-> ep.valid_sessions[k]]
      /\ \E S : ep.comments \in Seq(S)
  BY DEF GoodTalk
<1>3. CASE cmd.type \in {"RegisterSession", "RevokeSession"}
  <2>1. PICK k0, token, sessions :
           /\ k0 = cmd.public_key
           /\ token = IF cmd.type = "RegisterSession" THEN cmd.token ELSE None
           /\ sessions = [ep.valid_sessions EXCEPT ![k0] = token]
    OBVIOUS
  <2>2. k0 \in PubKeys
    BY <1>3, <2>1 DEF Talk!Commands
  <2>3. new = [ep EXCEPT !.valid_sessions = sessions]
    BY <1>3, <2>1 DEF Talk!Executed
  <2>4. new = [comments |-> ep.comments, next_id |-> ep.next_id,
               authorized_participants |-> ep.authorized_participants,
               valid_sessions |-> sessions]
    BY <2>3 DEF GoodTalk
  <2>5. /\ sessions = [k \in PubKeys |-> sessions[k]] /\ sessions[k0] = token
        /\ \A k \in PubKeys : k # k0 => sessions[k] = ep.valid_sessions[k]
    BY <1>2, <2>1, <2>2
  <2>6. GoodTalk(new)
    BY <1>2, <2>4, <2>5 DEF GoodTalk
  <2>7. BackToTalk(e, new.comments)
    <3>1. CASE cmd.type = "RegisterSession"
      <4>1. e.undo.type = "SessionRegistered" /\ e.undo.public_key = k0
        BY <1>1, <2>1, <3>1 DEF Talk!RollbackOf
      <4> QED  BY <1>1, <2>1, <2>2, <2>4, <3>1, <4>1 DEF BackToTalk
    <3>2. CASE cmd.type = "RevokeSession"
      <4>1. /\ e.undo.type = "SessionRevoked" /\ e.undo.public_key = k0
            /\ e.undo.token = cmd.token
        BY <1>1, <2>1, <3>2 DEF Talk!RollbackOf
      <4>2. cmd.token = ep.valid_sessions[k0]
        BY <2>1, <3>2 DEF Talk!Accepts
      <4> QED  BY <1>1, <2>1, <2>2, <2>4, <3>2, <4>1, <4>2 DEF BackToTalk
    <3> QED  BY <1>3, <3>1, <3>2
  <2>8. \A k \in PubKeys :
               \/ ~ Registers(e, k) /\ new.valid_sessions[k] = ep.valid_sessions[k]
               \/ Registers(e, k) /\ cmd.type = "RegisterSession" /\ new.valid_sessions[k] = cmd.token
               \/ new.valid_sessions[k] = None
    BY <1>1, <1>3, <2>1, <2>4, <2>5 DEF Registers
  <2> QED  BY <2>6, <2>7, <2>8
<1>4. CASE cmd.type = "SubmitComment"
  <2>1. PICK c, comments, next :
           /\ c = [id |-> ep.next_id, author |-> cmd.author, timestamp |-> time,
                   token |-> cmd.token]
           /\ comments = Append(ep.comments, c) /\ next = ep.next_id + 1
    OBVIOUS
  <2>2. new = [ep EXCEPT !.comments = comments, !.next_id = next]
    BY <1>4, <2>1 DEF Talk!Executed
  <2>3. new = [comments |-> comments, next_id |-> next,
               authorized_participants |-> ep.authorized_participants,
               valid_sessions |-> ep.valid_sessions]
    BY <2>2 DEF GoodTalk
  <2>4. PICK S : ep.comments \in Seq(S)
    BY <1>2
  <2>5. /\ Len(comments) = Len(ep.comments) + 1 /\ Len(ep.comments) \in Nat
        /\ \A i \in 1..Len(ep.comments) : comments[i] = ep.comments[i]
        /\ comments[Len(ep.comments) + 1] = c
        /\ comments \in Seq(S \cup {c})
    <3>1. ep.comments \in Seq(S \cup {c}) /\ c \in S \cup {c}
      BY <2>4, SeqMonotonic
    <3> QED  BY <2>1, <3>1, AppendProperties, LenProperties
  <2>6. next = Len(comments) + 1 /\ Counts(comments)
    <3>1. \A i \in 1..Len(comments) : i \in 1..Len(ep.comments) \/ i = Len(ep.comments) + 1
      BY <2>5
    <3> QED  BY <1>2, <2>1, <2>5, <3>1 DEF Counts
  <2>7. GoodTalk(new)
    BY <1>2, <2>3, <2>5, <2>6 DEF GoodTalk
  <2>8. e.undo.type = "CommentSubmitted" /\ e.undo.comment_id = ep.next_id
    BY <1>1, <1>4 DEF Talk!RollbackOf
  <2>9. c.id = ep.next_id /\ c.author = cmd.author
    BY <2>1
  <2>10. BackToTalk(e, new.comments)
    BY <1>1, <1>4, <2>1, <2>3, <2>8, <2>9 DEF BackToTalk
  <2>11. \A k \in PubKeys : ~ Registers(e, k) /\ new.valid_sessions[k] = ep.valid_sessions[k]
    BY <1>1, <1>4, <2>3 DEF Registers
  <2> QED  BY <2>7, <2>10, <2>11
<1>5. CASE cmd.type = "GetComments"
  <2>1. new = ep
    BY <1>5 DEF Talk!Executed
  <2>2. e.undo.type = "CommentsQueried"
    BY <1>1, <1>5 DEF Talk!RollbackOf
  <2>3. BackToTalk(e, new.comments)
    BY <1>1, <1>5, <2>1, <2>2 DEF BackToTalk
  <2>4. \A k \in PubKeys : ~ Registers(e, k) /\ new.valid_sessions[k] = ep.valid_sessions[k]
    BY <1>1, <1>5, <2>1 DEF Registers
  <2> QED  BY <2>1, <2>3, <2>4
<1>6. cmd.type \in {"RegisterSession", "RevokeSession", "SubmitComment", "GetComments"}
  BY DEF Talk!Commands
<1> QED  BY <1>3, <1>4, <1>5, <1>6

LEMMA TalkBack ==
  ASSUME NEW ep, GoodTalk(ep), NEW e, BackToTalk(e, ep.comments),
         NEW r, r = Talk!Rollback(ep, e.undo)
  PROVE  /\ r.ok /\ GoodTalk(r.state)
         /\ r.state.comments = e.before.comments
         /\ r.state.next_id = e.before.next_id
         /\ \A k \in PubKeys :
               \/ ~ Registers(e, k) /\ r.state.valid_sessions[k] = ep.valid_sessions[k]
               \/ r.state.valid_sessions[k] = e.before.valid_sessions[k]
               \/ r.state.valid_sessions[k] = None
<1>1. /\ GoodTalk(e.before)
      /\ ep.next_id = Len(ep.comments) + 1 /\ Counts(ep.comments)
      /\ ep.valid_sessions = [k \in PubKeys |-> ep.valid_sessions[k]]
      /\ \E S : ep.comments \in Seq(S)
      /\ \E S : e.before.comments \in Seq(S)
      /\ e.before.next_id = Len(e.before.comments) + 1 /\ Counts(e.before.comments)
  BY DEF BackToTalk, GoodTalk
<1>2. CASE e.cmd.type \in {"RegisterSession", "RevokeSession"}
  <2>1. PICK k0, token, sessions :
           /\ k0 = e.cmd.public_key
           /\ token = IF e.cmd.type = "RegisterSession" THEN None ELSE e.undo.token
           /\ sessions = [ep.valid_sessions EXCEPT ![k0] = token]
    OBVIOUS
  <2>2. /\ k0 \in PubKeys /\ e.undo.public_key = k0 /\ ep.comments = e.before.comments
        /\ e.cmd.type = "RegisterSession" => e.undo.type = "SessionRegistered"
        /\ e.cmd.type = "RevokeSession" =>
              e.undo.type = "SessionRevoked" /\ e.undo.token = e.before.valid_sessions[k0]
    BY <1>2, <2>1 DEF BackToTalk
  <2>3. r.ok /\ r.state = Talk!RolledBack(ep, e.undo)
    BY <1>2, <2>2 DEF Talk!Rollback
  <2>4. r.state = [ep EXCEPT !.valid_sessions = sessions]
    BY <1>2, <2>1, <2>2, <2>3 DEF Talk!RolledBack
  <2>5. r.state = [comments |-> ep.comments, next_id |-> ep.next_id,
                   authorized_participants |-> ep.authorized_participants,
                   valid_sessions |-> sessions]
    BY <2>4 DEF GoodTalk
  <2>6. /\ sessions = [k \in PubKeys |-> sessions[k]] /\ sessions[k0] = token
        /\ \A k \in PubKeys : k # k0 => sessions[k] = ep.valid_sessions[k]
    BY <1>1, <2>1, <2>2
  <2>7. GoodTalk(r.state)
    BY <1>1, <2>5, <2>6 DEF GoodTalk
  <2>8. \A k \in PubKeys :
               \/ ~ Registers(e, k) /\ r.state.valid_sessions[k] = ep.valid_sessions[k]
               \/ r.state.valid_sessions[k] = e.before.valid_sessions[k]
               \/ r.state.valid_sessions[k] = None
    BY <1>2, <2>1, <2>2, <2>5, <2>6 DEF Registers
  <2> QED  BY <1>1, <2>2, <2>3, <2>5, <2>7, <2>8
<1>3. CASE e.cmd.type = "GetComments"
  <2>1. e.undo.type = "CommentsQueried" /\ ep.comments = e.before.comments
    BY <1>3 DEF BackToTalk
  <2>2. r.ok /\ r.state = ep
    BY <2>1 DEF Talk!Rollback, Talk!RolledBack
  <2>3. \A k \in PubKeys : ~ Registers(e, k)
    BY <1>3 DEF Registers
  <2> QED  BY <1>1, <2>1, <2>2, <2>3
<1>4. CASE e.cmd.type = "SubmitComment"
  <2>1. PICK c, id, s :
           /\ e.undo.type = "CommentSubmitted" /\ e.undo.comment_id = id
           /\ id = e.before.next_id /\ s = e.before.comments
           /\ c.id = id /\ ep.comments = Append(s, c)
    BY <1>4 DEF BackToTalk
  <2>2. PICK S : s \in Seq(S)
    BY <1>1, <2>1
  <2>3. \A i \in 1..Len(s) : s[i].id # id
    <3>1. Len(s) \in Nat /\ id = Len(s) + 1
      BY <1>1, <2>1, <2>2, LenProperties
    <3> QED  BY <1>1, <2>1, <3>1 DEF Counts
  <2>4. /\ WithoutId(ep.comments, id) = s
        /\ Len(ep.comments) = Len(s) + 1 /\ Len(s) \in Nat
        /\ ep.comments[Len(s) + 1] = c
    BY <2>1, <2>2, <2>3, WithoutNewest
  <2>5. Len(s) + 1 \in DOMAIN ep.comments /\ ep.comments[Len(s) + 1].id = id
    <3>1. PICK R : ep.comments \in Seq(R)
      BY <1>1
    <3>2. DOMAIN ep.comments = 1..Len(ep.comments)
      BY <3>1, LenProperties
    <3> QED  BY <2>1, <2>4, <3>2
  <2>6. r.ok /\ r.state = Talk!RolledBack(ep, e.undo)
    BY <2>1, <2>5 DEF Talk!Rollback
  <2>7. Talk!WithoutId(ep.comments, id) = s
    BY <2>4 DEF Talk!WithoutId, WithoutId, Talk!Keep, Keep, Talk!Sifted, Sifted, ToSet
  <2>8. r.state = [ep EXCEPT !.comments = s, !.next_id = id]
    BY <2>1, <2>6, <2>7 DEF Talk!RolledBack
  <2>9. r.state = [comments |-> s, next_id |-> id,
                   authorized_participants |-> ep.authorized_participants,
                   valid_sessions |-> ep.valid_sessions]
    BY <2>8 DEF GoodTalk
  <2>10. GoodTalk(r.state)
    <3>1. id = Len(s) + 1 /\ Counts(s)
      BY <1>1, <2>1
    <3> QED  BY <1>1, <2>2, <2>9, <3>1 DEF GoodTalk
  <2>11. \A k \in PubKeys : ~ Registers(e, k)
    BY <1>4 DEF Registers
  <2> QED  BY <2>1, <2>6, <2>9, <2>10, <2>11
<1>5. e.cmd.type \in {"RegisterSession", "RevokeSession", "GetComments", "SubmitComment"}
  BY DEF BackToTalk
<1> QED  BY <1>2, <1>3, <1>4, <1>5
LEMMA GivenSame ==
  ASSUME NEW s, NEW t, NEW m \in Nat, \A i \in 1..m : t[i] = s[i],
         NEW sessions, Given(s, m, sessions)
  PROVE  Given(t, m, sessions)
BY DEF Given, Gives

(* A command that says nothing of a key leaves what the chain gives it. *)
LEMMA GivesOn ==
  ASSUME NEW s, NEW m \in Nat, NEW k, ~ Registers(s[m + 1], k), NEW token
  PROVE  Gives(s, m + 1, k, token) <=> Gives(s, m, k, token)
<1>1. /\ \A i \in 1..m : i \in 1..(m + 1)
      /\ \A i \in 1..(m + 1) : i \in 1..m \/ i = m + 1
  OBVIOUS
<1> QED  BY <1>1 DEF Gives

LEMMA GivenNext ==
  ASSUME NEW s, NEW m \in Nat, NEW e, e = s[m + 1],
         NEW sessions, Given(s, m, sessions), NEW new,
         \A k \in PubKeys :
               \/ ~ Registers(e, k) /\ new[k] = sessions[k]
               \/ Registers(e, k) /\ e.cmd.type = "RegisterSession" /\ new[k] = e.cmd.token
               \/ new[k] = None
  PROVE  Given(s, m + 1, new)
<1> SUFFICES ASSUME NEW k \in PubKeys, new[k] # None PROVE Gives(s, m + 1, k, new[k])
  BY DEF Given
<1>1. CASE ~ Registers(e, k) /\ new[k] = sessions[k]
  BY <1>1, GivesOn DEF Given
<1>2. CASE Registers(e, k) /\ e.cmd.type = "RegisterSession" /\ new[k] = e.cmd.token
  <2>1. m + 1 \in 1..(m + 1) /\ \A j \in 1..(m + 1) : j <= m + 1
    OBVIOUS
  <2> QED  BY <1>2, <2>1 DEF Gives
<1> QED  BY <1>1, <1>2

LEMMA GivenBack ==
  ASSUME NEW s, NEW m \in Nat, NEW e, e = s[m + 1],
         NEW before, Given(s, m, before), NEW sessions, Given(s, m + 1, sessions), NEW new,
         \A k \in PubKeys : \/ ~ Registers(e, k) /\ new[k] = sessions[k]
                            \/ new[k] = before[k]
                            \/ new[k] = None
  PROVE  Given(s, m, new)
<1> SUFFICES ASSUME NEW k \in PubKeys, new[k] # None PROVE Gives(s, m, k, new[k])
  BY DEF Given
<1>1. CASE ~ Registers(e, k) /\ new[k] = sessions[k]
  BY <1>1, GivesOn DEF Given
<1>2. CASE new[k] = before[k]
  BY <1>2 DEF Given
<1> QED  BY <1>1, <1>2

LEMMA SpokenChange ==
  ASSUME NEW S, NEW s, s \in Seq(S), NEW R, NEW es, es \in Seq(R), NEW c, NEW e
  PROVE  /\ Spoken(s, es) /\ c.author = e.cmd.author => Spoken(Append(s, c), Append(es, e))
         /\ Spoken(Append(s, c), Append(es, e)) => Spoken(s, es)
<1>1. PICK t, fs : t = Append(s, c) /\ fs = Append(es, e)
  OBVIOUS
<1>2. /\ Len(t) = Len(s) + 1 /\ Len(s) \in Nat
      /\ \A i \in 1..Len(s) : t[i] = s[i]
      /\ t[Len(s) + 1] = c
  <2>1. s \in Seq(S \cup {c}) /\ c \in S \cup {c}
    BY SeqMonotonic
  <2> QED  BY <1>1, <2>1, AppendProperties, LenProperties
<1>3. /\ Len(fs) = Len(es) + 1 /\ Len(es) \in Nat
      /\ \A i \in 1..Len(es) : fs[i] = es[i]
      /\ fs[Len(es) + 1] = e
  <2>1. es \in Seq(R \cup {e}) /\ e \in R \cup {e}
    BY SeqMonotonic
  <2> QED  BY <1>1, <2>1, AppendProperties, LenProperties
<1>4. /\ \A i \in 1..Len(fs) : i \in 1..Len(es) \/ i = Len(es) + 1
      /\ \A i \in 1..Len(es) : i \in 1..Len(fs)
  BY <1>3
<1> QED  BY <1>1, <1>2, <1>3, <1>4 DEF Spoken

LEMMA SpeakStep ==
  ASSUME Trailed, TalkTrail, app = "comment", Speak
  PROVE  TalkTrail'
<1>1. PICK cmd \in Talk!Commands, by \in Signers :
         Applied(cmd, by, Talk!Execute(episode, cmd, by, Time))
  BY DEF Speak
<1>2. PICK ep, time, r, new, cs, cs1 :
         /\ ep = episode /\ time = Time /\ r = Talk!Execute(ep, cmd, by, time)
         /\ new = [cmd |-> cmd, by |-> by, undo |-> r.undo, before |-> episode]
         /\ cs = OnTrail("SubmitComment") /\ cs1 = OnTrail("SubmitComment")'
  OBVIOUS
<1>3. /\ Applied(cmd, by, r) /\ Talk!Accepts(ep, cmd, by)
      /\ r.state = Talk!Executed(ep, cmd, time)
      /\ r.undo = Talk!RollbackOf(ep, cmd)
  BY <1>1, <1>2 DEF Talk!Execute, Applied
<1>4. PICK n \in Nat :
         /\ Trailed' /\ n = Len(trail) /\ Len(trail') = n + 1
         /\ \A i \in 1..n : trail'[i] = trail[i]
         /\ trail'[n + 1] = new
         /\ \A i \in 0..n : After(i)' = After(i)
         /\ After(n) = episode /\ After(n + 1)' = episode'
         /\ \A type : OnTrail(type)' =
               IF cmd.type = type THEN Append(OnTrail(type), new) ELSE OnTrail(type)
  BY <1>2, <1>3, AppliedGrows
<1>5. episode' = r.state /\ app' = app
  BY <1>3 DEF Applied
<1>6. /\ GoodTalk(ep)
      /\ \A i \in 1..n : BackToTalk(trail[i], After(i).comments)
      /\ \A m \in 0..n : Given(trail, m, After(m).valid_sessions)
      /\ Spoken(ep.comments, cs)
  BY <1>2, <1>4 DEF TalkTrail
<1>7. new.cmd = cmd /\ new.by = by /\ new.before = ep
  BY <1>2
<1>8. /\ GoodTalk(r.state) /\ BackToTalk(new, r.state.comments)
      /\ \A k \in PubKeys :
            \/ ~ Registers(new, k) /\ r.state.valid_sessions[k] = ep.valid_sessions[k]
            \/ /\ Registers(new, k) /\ cmd.type = "RegisterSession"
               /\ r.state.valid_sessions[k] = cmd.token
            \/ r.state.valid_sessions[k] = None
  <2>1. new = [cmd |-> cmd, by |-> by, undo |-> Talk!RollbackOf(ep, cmd), before |-> ep]
    BY <1>2, <1>3
  <2> QED  BY <1>3, <1>6, <2>1, TalkMove
<1>9. /\ \A i \in 1..(n + 1) : (i \in 1..n /\ i \in 0..n) \/ i = n + 1
      /\ \A m \in 0..(n + 1) : m \in 0..n \/ m = n + 1
  OBVIOUS
<1>10. \A i \in 1..(n + 1) : BackToTalk(trail'[i], After(i)'.comments)
  BY <1>4, <1>5, <1>6, <1>8, <1>9
<1>11. \A m \in 0..(n + 1) : Given(trail', m, After(m)'.valid_sessions)
  <2>1. PICK t, s : t = trail' /\ s = trail
    OBVIOUS
  <2>2. ASSUME NEW m \in 0..n PROVE Given(t, m, After(m).valid_sessions)
    <3>1. m \in Nat /\ \A i \in 1..m : t[i] = s[i]
      BY <1>4, <2>1
    <3>2. Given(s, m, After(m).valid_sessions)
      BY <1>6, <2>1
    <3> QED  BY <3>1, <3>2, GivenSame
  <2>3. Given(t, n + 1, r.state.valid_sessions)
    <3>1. Given(t, n, ep.valid_sessions)
      <4>1. n \in 0..n
        OBVIOUS
      <4> QED  BY <1>2, <1>4, <2>2, <4>1
    <3>2. new = t[n + 1]
      BY <1>4, <2>1
    <3> QED  BY <1>7, <1>8, <3>1, <3>2, GivenNext
  <2> QED  BY <1>4, <1>5, <1>9, <2>1, <2>2, <2>3
<1>12. cs1 = IF cmd.type = "SubmitComment" THEN Append(cs, new) ELSE cs
  BY <1>2, <1>4
<1>13. PICK Q : cs \in Seq(Q)
  BY <1>2, OnTrailSeq
<1>14. Spoken(r.state.comments, cs1)
  <2>1. CASE cmd.type = "SubmitComment"
    <3>1. PICK c : c.author = cmd.author /\ r.state.comments = Append(ep.comments, c)
      BY <1>7, <1>8, <2>1 DEF BackToTalk
    <3>2. PICK S : ep.comments \in Seq(S)
      BY <1>6 DEF GoodTalk
    <3>3. PICK s : s = ep.comments
      OBVIOUS
    <3>4. Spoken(Append(s, c), Append(cs, new))
      BY <1>6, <1>7, <1>13, <3>1, <3>2, <3>3, SpokenChange
    <3> QED  BY <1>12, <2>1, <3>1, <3>3, <3>4
  <2>2. CASE cmd.type # "SubmitComment"
    BY <1>6, <1>7, <1>8, <1>12, <2>2 DEF BackToTalk
  <2> QED  BY <2>1, <2>2
<1> QED  BY <1>2, <1>4, <1>5, <1>8, <1>10, <1>11, <1>14 DEF TalkTrail

LEMMA UndoSpeak ==
  ASSUME Trailed, TalkTrail, app = "comment", Undo
  PROVE  /\ TalkTrail'
         /\ RolledBack(Last(trail).undo).ok
         /\ episode'.comments = Last(trail).before.comments
         /\ episode'.next_id = Last(trail).before.next_id
<1>1. PICK n \in Nat \ {0} :
         /\ Trailed' /\ n = Len(trail) /\ Len(trail') = n - 1
         /\ \A i \in 1..(n - 1) : trail'[i] = trail[i]
         /\ Last(trail) = trail[n]
         /\ episode' = RolledBack(trail[n].undo).state
         /\ \A i \in 0..(n - 2) : After(i)' = After(i)
         /\ After(n) = episode
         /\ After(n - 1) = trail[n].before /\ After(n - 1)' = episode'
         /\ \A type : OnTrail(type) =
               IF trail[n].cmd.type = type THEN Append(OnTrail(type)', trail[n])
               ELSE OnTrail(type)'
  BY UndoShrinks
<1>2. PICK ep, e, r, cs, cs1 :
         /\ ep = episode /\ e = trail[n] /\ r = Talk!Rollback(ep, e.undo)
         /\ cs = OnTrail("SubmitComment") /\ cs1 = OnTrail("SubmitComment")'
  OBVIOUS
<1>3. app' = "comment" /\ RolledBack(e.undo) = r /\ n \in 1..n /\ episode' = r.state
  BY <1>1, <1>2 DEF Undo, RolledBack
<1>4. /\ GoodTalk(ep)
      /\ \A i \in 1..n : BackToTalk(trail[i], After(i).comments)
      /\ \A m \in 0..n : Given(trail, m, After(m).valid_sessions)
      /\ Spoken(ep.comments, cs)
  BY <1>1, <1>2 DEF TalkTrail
<1>5. BackToTalk(e, ep.comments)
  BY <1>1, <1>2, <1>3, <1>4
<1>6. /\ r.ok /\ GoodTalk(r.state)
      /\ r.state.comments = e.before.comments
      /\ r.state.next_id = e.before.next_id
      /\ \A k \in PubKeys :
            \/ ~ Registers(e, k) /\ r.state.valid_sessions[k] = ep.valid_sessions[k]
            \/ r.state.valid_sessions[k] = e.before.valid_sessions[k]
            \/ r.state.valid_sessions[k] = None
  BY <1>2, <1>4, <1>5, TalkBack
<1>7. /\ \A i \in 1..(n - 1) : i \in 1..n /\ (i \in 0..(n - 2) \/ i = n - 1)
      /\ \A m \in 0..(n - 1) : m \in 0..n /\ (m \in 0..(n - 2) \/ m = n - 1)
  OBVIOUS
<1>8. \A i \in 1..(n - 1) : BackToTalk(trail'[i], After(i)'.comments)
  <2> SUFFICES ASSUME NEW i \in 1..(n - 1) PROVE BackToTalk(trail'[i], After(i)'.comments)
    OBVIOUS
  <2>1. BackToTalk(trail'[i], After(i).comments)
    BY <1>1, <1>4, <1>7
  <2>2. After(i)'.comments = After(i).comments
    BY <1>1, <1>2, <1>3, <1>6, <1>7
  <2> QED  BY <2>1, <2>2
<1>9. \A m \in 0..(n - 1) : Given(trail', m, After(m)'.valid_sessions)
  <2> SUFFICES ASSUME NEW m \in 0..(n - 1) PROVE Given(trail', m, After(m)'.valid_sessions)
    OBVIOUS
  <2>1. PICK t, s : t = trail' /\ s = trail
    OBVIOUS
  <2>2. m \in Nat /\ \A i \in 1..m : t[i] = s[i]
    BY <1>1, <2>1
  <2>3. Given(s, m, After(m)'.valid_sessions)
    <3>1. CASE m \in 0..(n - 2)
      BY <1>1, <1>4, <1>7, <2>1, <3>1
    <3>2. CASE m = n - 1
      <4>1. m \in Nat /\ m + 1 = n /\ e = s[m + 1] /\ n \in 0..n
        BY <1>2, <2>1, <3>2
      <4>2. Given(s, m, e.before.valid_sessions)
        BY <1>1, <1>2, <1>4, <1>7, <2>1, <3>2
      <4>3. Given(s, m + 1, ep.valid_sessions)
        BY <1>1, <1>2, <1>4, <2>1, <4>1
      <4>4. Given(s, m, r.state.valid_sessions)
        BY <1>6, <4>1, <4>2, <4>3, GivenBack
      <4> QED  BY <1>1, <1>3, <3>2, <4>4
    <3> QED  BY <1>7, <3>1, <3>2
  <2> QED  BY <2>1, <2>2, <2>3, GivenSame
<1>10. cs = IF e.cmd.type = "SubmitComment" THEN Append(cs1, e) ELSE cs1
  BY <1>1, <1>2
<1>11. PICK Q : cs1 \in Seq(Q)
  BY <1>1, <1>2, LaterSeq
<1>12. Spoken(r.state.comments, cs1)
  <2>1. CASE e.cmd.type = "SubmitComment"
    <3>1. PICK c, s : s = e.before.comments /\ ep.comments = Append(s, c)
      BY <1>5, <2>1 DEF BackToTalk
    <3>2. PICK S : s \in Seq(S)
      BY <1>5, <3>1 DEF GoodTalk, BackToTalk
    <3>3. Spoken(s, cs1)
      BY <1>4, <1>10, <1>11, <2>1, <3>1, <3>2, SpokenChange
    <3> QED  BY <1>6, <3>1, <3>3
  <2>2. CASE e.cmd.type # "SubmitComment"
    BY <1>4, <1>5, <1>6, <1>10, <2>2 DEF BackToTalk
  <2> QED  BY <2>1, <2>2
<1>13. TalkTrail'
  BY <1>1, <1>2, <1>3, <1>6, <1>8, <1>9, <1>12 DEF TalkTrail
<1> QED  BY <1>1, <1>2, <1>3, <1>6, <1>13

LEMMA TalkStep ==
  ASSUME Trailed, TalkTrail, [Next]_vars
  PROVE  TalkTrail'
<1>1. CASE app # "comment"
  BY <1>1, TrailedStep DEF TalkTrail
<1>2. CASE app = "comment"
  <2>1. CASE Speak
    BY <1>2, <2>1, SpeakStep
  <2>2. CASE Undo
    BY <1>2, <2>2, UndoSpeak
  <2>3. CASE Play \/ Gamble \/ Bond \/ PlayMcp \/ Comment \/ Gather
    BY <1>2, <2>3 DEF Play, Gamble, Bond, PlayMcp, Comment, Gather
  <2>4. CASE UNCHANGED vars
    BY <2>4 DEF vars, TalkTrail, After, OnTrail
  <2> QED  BY <2>1, <2>2, <2>3, <2>4 DEF Next
<1> QED  BY <1>1, <1>2

LEMMA TalkInit == Init => TalkTrail
<1> SUFFICES ASSUME Init, app = "comment" PROVE TalkTrail
  BY DEF TalkTrail
<1>1. trail = <<>> /\ episode = Talk!Initialize(participants, 0)
  BY DEF Init
<1>2. PICK s, sessions : s = <<>> /\ sessions = [k \in PubKeys |-> None]
  OBVIOUS
<1>3. s \in Seq({}) /\ Len(s) = 0
  BY <1>2
<1>4. episode = [comments |-> s, next_id |-> 1, authorized_participants |-> participants,
                 valid_sessions |-> sessions]
  BY <1>1, <1>2 DEF Talk!Initialize
<1>5. GoodTalk(episode)
  <2>1. sessions = [k \in PubKeys |-> sessions[k]]
    BY <1>2
  <2> QED  BY <1>3, <1>4, <2>1 DEF GoodTalk, Counts
<1>6. OnTrail("SubmitComment") = s
  BY <1>1, <1>2, KeepEmpty DEF OnTrail
<1>7. Spoken(s, s)
  BY <1>3 DEF Spoken
<1>8. Len(trail) = 0 /\ After(0) = episode
  BY <1>1 DEF After
<1>9. Given(trail, 0, sessions)
  BY <1>2 DEF Given
<1>10. /\ \A i \in 1..Len(trail) : FALSE
       /\ \A m \in 0..Len(trail) : m = 0
  BY <1>8
<1> QED  BY <1>4, <1>5, <1>6, <1>7, <1>8, <1>9, <1>10 DEF TalkTrail
-----------------------------------------------------------------------------
(* The open room.  Its comments are the latest of the chain, up to a gap   *)
(* at the front that a rollback leaves where a comment had pushed out      *)
(* another; so the newest one, if there is any, is the one to take back.   *)
Listed(comments, history, next) ==
    /\ \E S : comments \in Seq(S)
    /\ next \in Nat \ {0} /\ Len(comments) <= Window /\ Len(comments) < next
    /\ \A i \in 1..Len(comments) : comments[i].id = (next - 1 - Len(comments)) + i
    /\ history \in Seq(Nat) /\ Len(history) = Len(comments)
    /\ \A i \in 1..Len(comments) : history[i] = comments[i].id

GoodOpen(ep) ==
    /\ ep = [comments |-> ep.comments, creator |-> ep.creator,
             room_members |-> ep.room_members, next_comment_id |-> ep.next_comment_id,
             timestamp |-> ep.timestamp, comment_history |-> ep.comment_history,
             challenge |-> ep.challenge, authenticated_users |-> ep.authenticated_users,
             forbidden_words |-> ep.forbidden_words]
    /\ Listed(ep.comments, ep.comment_history, ep.next_comment_id)

(* The rollback object of e leads from this next identifier to that before *)
BackToOpen(e, next) ==
    /\ e.before.next_comment_id \in Nat \ {0}
    /\ e.undo.prev_timestamp = e.before.timestamp
    /\ \/ /\ e.cmd.type = "SubmitComment" /\ e.undo.type = "comment"
          /\ e.undo.comment_id = e.before.next_comment_id
          /\ next = e.before.next_comment_id + 1
       \/ /\ e.cmd.type # "SubmitComment" /\ e.undo.type = "join"
          /\ next = e.before.next_comment_id

Attributed(comments, es) ==
    \A i \in 1..Len(comments) : comments[i].author = es[comments[i].id].by

OpenTrail ==
    app = "comments" =>
        /\ GoodOpen(episode)
        /\ \A i \in 1..Len(trail) : BackToOpen(trail[i], After(i).next_comment_id)
        /\ episode.next_comment_id = Len(OnTrail("SubmitComment")) + 1
        /\ Attributed(episode.comments, OnTrail("SubmitComment"))

LEMMA ListedParts ==
  ASSUME NEW comments, NEW history, NEW next, Listed(comments, history, next)
  PROVE  /\ Len(comments) \in Nat /\ DOMAIN comments = 1..Len(comments)
         /\ \A i \in 1..Len(comments) :
               /\ comments[i].id \in Nat /\ comments[i].id > 0 /\ comments[i].id < next
               /\ comments[i].id > next - 1 - Window
               /\ i > 1 => comments[i].id = comments[i - 1].id + 1
         /\ comments # <<>> => Len(comments) \in Nat \ {0} /\ comments[Len(comments)].id = next - 1
         /\ history = [i \in 1..Len(comments) |-> comments[i].id]
<1>1. PICK S, n : comments \in Seq(S) /\ n = Len(comments)
  BY DEF Listed
<1>2. n \in Nat /\ DOMAIN comments = 1..n /\ (comments # <<>> => n \in Nat \ {0})
  BY <1>1, LenProperties, EmptySeq
<1>3. /\ next \in Nat \ {0} /\ n <= Window /\ n < next /\ Window \in Nat
      /\ \A i \in 1..n : comments[i].id = (next - 1 - n) + i
      /\ history \in Seq(Nat) /\ Len(history) = n
      /\ \A i \in 1..n : history[i] = comments[i].id
  BY <1>1, EpisodeChainAssumption DEF Listed
<1>4. ASSUME NEW i \in 1..n
      PROVE  /\ comments[i].id \in Nat /\ comments[i].id > 0 /\ comments[i].id < next
             /\ comments[i].id > next - 1 - Window
             /\ i > 1 => comments[i].id = comments[i - 1].id + 1
  <2>1. comments[i].id = (next - 1 - n) + i
    BY <1>3
  <2>2. i > 1 => comments[i - 1].id = (next - 1 - n) + (i - 1)
    <3>1. i > 1 => i - 1 \in 1..n
      BY <1>2
    <3> QED  BY <1>3, <3>1
  <2> QED  BY <1>2, <1>3, <2>1, <2>2
<1>5. comments # <<>> => comments[n].id = next - 1
  BY <1>2, <1>3
<1>6. history = [i \in 1..n |-> comments[i].id]
  <2>1. history = [i \in 1..n |-> history[i]]
    BY <1>3, LenProperties
  <2> QED  BY <1>3, <2>1
<1> QED  BY <1>1, <1>2, <1>4, <1>5, <1>6

(* A comment more, which may push out the first one *)
Longer(comments, c, c1, h1, next) ==
    /\ Len(h1) <= Window => Listed(c1, h1, next + 1)
    /\ ~ (Len(h1) <= Window) =>
          /\ WithoutId(c1, Head(h1)) = Tail(c1)
          /\ Listed(Tail(c1), Tail(h1), next + 1)
    /\ Len(h1) \in Nat
    /\ \A i \in 1..Len(c1) : c1[i] = c \/ \E j \in 1..Len(comments) : c1[i] = comments[j]
    /\ c1 # <<>> /\ Len(c1) \in Nat \ {0} /\ Len(Tail(c1)) = Len(c1) - 1
    /\ \A i \in 1..(Len(c1) - 1) : Tail(c1)[i] = c1[i + 1]

LEMMA ListedMore ==
  ASSUME NEW comments, NEW history, NEW next, Listed(comments, history, next),
         NEW c, c.id = next,
         NEW c1, c1 = Append(comments, c), NEW h1, h1 = Append(history, next)
  PROVE  Longer(comments, c, c1, h1, next)
<1>1. PICK S, n : comments \in Seq(S) /\ n = Len(comments)
  BY DEF Listed
<1>2. PICK R : R = S \cup {c}
  OBVIOUS
<1>3. comments \in Seq(R) /\ c \in R
  BY <1>1, <1>2, SeqMonotonic
<1>4. /\ next \in Nat \ {0} /\ n <= Window /\ n < next /\ Window \in Nat \ {0} /\ n \in Nat
      /\ \A i \in 1..n : comments[i].id = (next - 1 - n) + i
      /\ history \in Seq(Nat) /\ Len(history) = n
      /\ \A i \in 1..n : history[i] = comments[i].id
  BY <1>1, EpisodeChainAssumption, LenProperties DEF Listed
<1>5. /\ c1 \in Seq(R) /\ Len(c1) = n + 1
      /\ \A i \in 1..n : c1[i] = comments[i]
      /\ c1[n + 1] = c
  BY <1>1, <1>3, AppendProperties
<1>6. /\ h1 \in Seq(Nat) /\ Len(h1) = n + 1
      /\ \A i \in 1..n : h1[i] = history[i]
      /\ h1[n + 1] = next
  BY <1>4, AppendProperties
<1>7. \A i \in 1..(n + 1) : i \in 1..n \/ i = n + 1
  BY <1>4
<1>8. \A i \in 1..(n + 1) : c1[i].id = (next - 1 - n) + i /\ h1[i] = c1[i].id
  <2> SUFFICES ASSUME NEW i \in 1..(n + 1)
               PROVE  c1[i].id = (next - 1 - n) + i /\ h1[i] = c1[i].id
    OBVIOUS
  <2>1. CASE i \in 1..n
    BY <1>4, <1>5, <1>6, <2>1
  <2>2. CASE i = n + 1
    <3>1. (next - 1 - n) + (n + 1) = next
      BY <1>4
    <3> QED  BY <1>5, <1>6, <2>2, <3>1
  <2> QED  BY <1>7, <2>1, <2>2
<1>9. ASSUME Len(h1) <= Window PROVE Listed(c1, h1, next + 1)
  <2>1. (next + 1) - 1 - (n + 1) = next - 1 - n
    BY <1>4
  <2>2. next + 1 \in Nat \ {0} /\ n + 1 <= Window /\ n + 1 < next + 1
    BY <1>4, <1>6, <1>9
  <2> QED  BY <1>5, <1>6, <1>8, <2>1, <2>2 DEF Listed
<1>10. /\ c1 # <<>> /\ Head(h1) = h1[1]
       /\ Tail(c1) \in Seq(R) /\ Len(Tail(c1)) = n
       /\ \A i \in 1..n : Tail(c1)[i] = c1[i + 1]
       /\ Tail(h1) \in Seq(Nat) /\ Len(Tail(h1)) = n
       /\ \A i \in 1..n : Tail(h1)[i] = h1[i + 1]
  <2>1. c1 # <<>> /\ h1 # <<>>
    <3>1. n + 1 # 0 /\ Len(<<>>) = 0
      BY <1>4
    <3>2. \A z : z = <<>> => Len(z) = 0
      BY <3>1
    <3> QED  BY <1>5, <1>6, <3>1, <3>2
  <2>2. (n + 1) - 1 = n
    BY <1>4
  <2>3. /\ Tail(c1) \in Seq(R) /\ Len(Tail(c1)) = n
        /\ \A i \in 1..n : Tail(c1)[i] = c1[i + 1]
    BY <1>5, <2>1, <2>2, HeadAndTail
  <2>4. /\ Tail(h1) \in Seq(Nat) /\ Len(Tail(h1)) = n /\ Head(h1) = h1[1]
        /\ \A i \in 1..n : Tail(h1)[i] = h1[i + 1]
    BY <1>6, <2>1, <2>2, HeadAndTail
  <2> QED  BY <2>1, <2>3, <2>4
<1>11. Listed(Tail(c1), Tail(h1), next + 1)
  <2>1. next + 1 \in Nat \ {0} /\ n < next + 1
    BY <1>4
  <2>2. \A i \in 1..n : i + 1 \in 1..(n + 1)
    BY <1>4
  <2>3. \A i \in 1..n : (next - 1 - n) + (i + 1) = ((next + 1) - 1 - n) + i
    BY <1>4
  <2>4. \A i \in 1..n : /\ Tail(c1)[i].id = ((next + 1) - 1 - n) + i
                        /\ Tail(h1)[i] = Tail(c1)[i].id
    BY <1>8, <1>10, <2>2, <2>3
  <2> QED  BY <1>4, <1>10, <2>1, <2>4 DEF Listed
<1>12. WithoutId(c1, Head(h1)) = Tail(c1)
  <2>1. 1 \in 1..(n + 1) /\ \A i \in 2..(n + 1) : i \in 1..(n + 1) /\ i # 1
    BY <1>4
  <2>2. c1[1].id = Head(h1)
    BY <1>8, <1>10, <2>1
  <2>3. \A i \in 2..Len(c1) : c1[i].id # Head(h1)
    <3> SUFFICES ASSUME NEW i \in 2..(n + 1) PROVE c1[i].id # Head(h1)
      BY <1>5
    <3>1. c1[i].id = (next - 1 - n) + i /\ c1[1].id = (next - 1 - n) + 1
      BY <1>8, <2>1
    <3> QED  BY <1>4, <2>2, <3>1
  <2> QED  BY <1>5, <1>10, <2>2, <2>3, WithoutIdParts
<1>13. \A i \in 1..Len(c1) : c1[i] = c \/ \E j \in 1..n : c1[i] = comments[j]
  BY <1>5, <1>7
<1>14. /\ Len(h1) \in Nat /\ Len(c1) \in Nat \ {0} /\ Len(c1) - 1 = n
  BY <1>4, <1>5, <1>6
<1> QED  BY <1>1, <1>9, <1>10, <1>11, <1>12, <1>13, <1>14 DEF Longer

(* The newest comment less, if it is still there *)
LEMMA ListedLess ==
  ASSUME NEW comments, NEW history, NEW next, Listed(comments, history, next),
         NEW id \in Nat \ {0}, next = id + 1,
         NEW c1, c1 = WithoutId(comments, id), NEW h1, h1 = Keep(history, Nat \ {id})
  PROVE  /\ Listed(c1, h1, id)
         /\ comments # <<>> => Len(c1) < Len(comments)
         /\ \A i \in 1..Len(c1) : i \in 1..Len(comments) /\ c1[i] = comments[i]
<1>1. PICK S, n : comments \in Seq(S) /\ n = Len(comments)
  BY DEF Listed
<1>2. /\ n <= Window /\ n < next /\ Window \in Nat \ {0} /\ n \in Nat
      /\ \A i \in 1..n : comments[i].id = (next - 1 - n) + i
      /\ history \in Seq(Nat) /\ Len(history) = n
      /\ \A i \in 1..n : history[i] = comments[i].id
  BY <1>1, EpisodeChainAssumption, LenProperties DEF Listed
<1>3. CASE comments = <<>>
  <2>1. n = 0 /\ history = <<>>
    BY <1>1, <1>2, <1>3, EmptySeq
  <2>2. c1 = <<>>
    BY <1>3, KeepEmpty DEF WithoutId
  <2>3. h1 = <<>>
    BY <2>1, KeepEmpty
  <2>4. Listed(c1, h1, id)
    <3>1. PICK s : s = <<>>
      OBVIOUS
    <3>2. s \in Seq(S) /\ s \in Seq(Nat) /\ Len(s) = 0 /\ \A i \in 1..Len(s) : FALSE
      BY <3>1
    <3>3. 0 <= Window /\ 0 < id
      BY <1>2
    <3> QED  BY <2>2, <2>3, <3>1, <3>2, <3>3 DEF Listed
  <2>5. \A i \in 1..Len(c1) : FALSE
    BY <2>2
  <2> QED  BY <1>3, <2>4, <2>5
<1>4. CASE comments # <<>>
  <2>1. n \in Nat \ {0} /\ history # <<>>
    BY <1>1, <1>2, <1>4, EmptySeq
  <2>2. /\ Front(comments) \in Seq(S) /\ Len(Front(comments)) = n - 1
        /\ Last(comments) = comments[n]
        /\ \A i \in 1..(n - 1) : Front(comments)[i] = comments[i]
    BY <1>1, <1>4, FrontLast
  <2>3. PICK f, x : f = Front(history) /\ x = Last(history)
    OBVIOUS
  <2>4. /\ f \in Seq(Nat) /\ x \in Nat /\ history = Append(f, x)
        /\ Len(f) = n - 1 /\ x = history[n]
        /\ \A i \in 1..(n - 1) : f[i] = history[i]
    BY <1>2, <2>1, <2>3, FrontLast
  <2>5. n \in 1..n /\ \A i \in 1..(n - 1) : i \in 1..n
    BY <2>1
  <2>6. comments[n].id = id /\ x = id
    <3>1. (next - 1 - n) + n = id
      BY <1>2
    <3> QED  BY <1>2, <2>4, <2>5, <3>1
  <2>7. ASSUME NEW i \in 1..(n - 1)
        PROVE  comments[i].id # id /\ comments[i].id = (id - 1 - (n - 1)) + i
    <3>1. comments[i].id = (next - 1 - n) + i
      BY <1>2, <2>5
    <3> QED  BY <1>2, <2>1, <3>1
  <2>8. c1 = Front(comments)
    <3>1. \A i \in 1..(Len(comments) - 1) : comments[i].id # id
      BY <1>1, <2>7
    <3> QED  BY <1>1, <1>4, <2>2, <2>6, <3>1, WithoutIdParts
  <2>9. h1 = f
    <3>1. \A i \in 1..Len(f) : f[i] # id
      BY <1>2, <2>4, <2>5, <2>7
    <3> QED  BY <2>4, <2>6, <3>1, AppendNew
  <2>10. Listed(c1, h1, id)
    <3>1. n - 1 <= Window /\ n - 1 < id
      BY <1>2, <2>1
    <3>2. \A i \in 1..(n - 1) : c1[i].id = (id - 1 - (n - 1)) + i /\ h1[i] = c1[i].id
      <4> SUFFICES ASSUME NEW i \in 1..(n - 1)
                   PROVE  c1[i].id = (id - 1 - (n - 1)) + i /\ h1[i] = c1[i].id
        OBVIOUS
      <4>1. c1[i] = comments[i] /\ h1[i] = history[i]
        BY <2>2, <2>4, <2>8, <2>9
      <4>2. history[i] = comments[i].id
        BY <1>2, <2>5
      <4> QED  BY <2>7, <4>1, <4>2
    <3>3. /\ c1 \in Seq(S) /\ h1 \in Seq(Nat) /\ Len(c1) = n - 1 /\ Len(h1) = n - 1
      BY <2>2, <2>4, <2>8, <2>9
    <3> QED  BY <3>1, <3>2, <3>3 DEF Listed
  <2>11. n - 1 < n
    BY <2>1
  <2> QED  BY <1>1, <2>2, <2>5, <2>8, <2>10, <2>11
<1> QED  BY <1>3, <1>4
LEMMA OpenMove ==
  ASSUME NEW ep, GoodOpen(ep), NEW cmd \in Open!Commands, NEW by, NEW time,
         NEW new, new = Open!Executed(ep, cmd, by, time),
         NEW e, e = [cmd |-> cmd, by |-> by, undo |-> Open!RollbackOf(ep, cmd), before |-> ep]
  PROVE  /\ GoodOpen(new) /\ BackToOpen(e, new.next_comment_id)
         /\ cmd.type # "SubmitComment" => new.comments = ep.comments
         /\ cmd.type = "SubmitComment" =>
               \A i \in 1..Len(new.comments) :
                  \/ /\ new.comments[i].id = ep.next_comment_id
                     /\ new.comments[i].author = by
                  \/ \E j \in 1..Len(ep.comments) : new.comments[i] = ep.comments[j]
<1>1. e.cmd = cmd /\ e.by = by /\ e.before = ep /\ e.undo = Open!RollbackOf(ep, cmd)
  OBVIOUS
<1>2. /\ Listed(ep.comments, ep.comment_history, ep.next_comment_id)
      /\ ep.next_comment_id \in Nat \ {0}
  BY DEF GoodOpen, Listed
<1>3. CASE cmd.type # "SubmitComment"
  <2>1. PICK members, challenge, users, words :
           /\ members = IF cmd.type = "JoinRoom" THEN ep.room_members \cup {by}
                        ELSE ep.room_members
           /\ challenge = IF cmd.type = "RequestChallenge"
                          THEN IF ep.challenge = None THEN <<by, time>> ELSE ep.challenge
                          ELSE IF cmd.type = "SubmitResponse" THEN None ELSE ep.challenge
           /\ users = IF cmd.type = "SubmitResponse" THEN ep.authenticated_users \cup {by}
                      ELSE ep.authenticated_users
           /\ words = IF cmd.type = "SetForbiddenWords" THEN cmd.any ELSE ep.forbidden_words
    OBVIOUS
  <2>2. PICK room : room = [comments |-> ep.comments, creator |-> ep.creator,
             room_members |-> members, next_comment_id |-> ep.next_comment_id,
             timestamp |-> ep.timestamp, comment_history |-> ep.comment_history,
             challenge |-> challenge, authenticated_users |-> users,
             forbidden_words |-> words]
    OBVIOUS
  <2>3. new = [room EXCEPT !.timestamp = time]
    <3>1. CASE cmd.type = "RequestChallenge"
      <4>1. room = [ep EXCEPT !.challenge = IF @ = None THEN <<by, time>> ELSE @]
        BY <2>1, <2>2, <3>1 DEF GoodOpen
      <4> QED  BY <3>1, <4>1 DEF Open!Executed
    <3>2. CASE cmd.type = "SubmitResponse"
      <4>1. /\ members = ep.room_members /\ challenge = None /\ words = ep.forbidden_words
            /\ users = ep.authenticated_users \cup {by}
        BY <2>1, <3>2
      <4>2. PICK half : half = [ep EXCEPT !.authenticated_users = users]
        OBVIOUS
      <4>3. half = [comments |-> ep.comments, creator |-> ep.creator,
             room_members |-> ep.room_members, next_comment_id |-> ep.next_comment_id,
             timestamp |-> ep.timestamp, comment_history |-> ep.comment_history,
             challenge |-> ep.challenge, authenticated_users |-> users,
             forbidden_words |-> ep.forbidden_words]
        BY <4>2 DEF GoodOpen
      <4>4. room = [half EXCEPT !.challenge = None]
        BY <2>2, <4>1, <4>3
      <4>5. room = [ep EXCEPT !.authenticated_users = @ \cup {by}, !.challenge = None]
        BY <4>1, <4>2, <4>4
      <4> QED  BY <3>2, <4>5 DEF Open!Executed
    <3>3. CASE cmd.type = "JoinRoom"
      <4>1. room = [ep EXCEPT !.room_members = @ \cup {by}]
        BY <2>1, <2>2, <3>3 DEF GoodOpen
      <4> QED  BY <3>3, <4>1 DEF Open!Executed
    <3>4. CASE cmd.type = "SetForbiddenWords"
      <4>1. room = [ep EXCEPT !.forbidden_words = cmd.any]
        BY <2>1, <2>2, <3>4 DEF GoodOpen
      <4> QED  BY <3>4, <4>1 DEF Open!Executed
    <3>5. cmd.type \in {"RequestChallenge", "SubmitResponse", "JoinRoom", "SetForbiddenWords",
                        "SubmitComment"}
      BY DEF Open!Commands
    <3> QED  BY <1>3, <3>1, <3>2, <3>3, <3>4, <3>5
  <2>4. new = [comments |-> ep.comments, creator |-> ep.creator,
               room_members |-> members, next_comment_id |-> ep.next_comment_id,
               timestamp |-> time, comment_history |-> ep.comment_history,
               challenge |-> challenge, authenticated_users |-> users,
               forbidden_words |-> words]
    BY <2>2, <2>3
  <2>5. GoodOpen(new)
    BY <1>2, <2>4 DEF GoodOpen
  <2>6. e.undo.type = "join" /\ e.undo.prev_timestamp = ep.timestamp
    BY <1>1, <1>3 DEF Open!RollbackOf
  <2>7. BackToOpen(e, new.next_comment_id)
    BY <1>1, <1>2, <1>3, <2>4, <2>6 DEF BackToOpen
  <2> QED  BY <1>3, <2>4, <2>5, <2>7
<1>4. CASE cmd.type = "SubmitComment"
  <2>1. PICK id, c, c1, h1, next :
           /\ id = ep.next_comment_id /\ c = [id |-> id, author |-> by]
           /\ c1 = Append(ep.comments, c) /\ h1 = Append(ep.comment_history, id)
           /\ next = id + 1
    OBVIOUS
  <2>2. c.id = id /\ c.author = by
    BY <2>1
  <2>3. /\ Len(h1) <= Window => Listed(c1, h1, next)
        /\ ~ (Len(h1) <= Window) =>
              /\ WithoutId(c1, Head(h1)) = Tail(c1)
              /\ Listed(Tail(c1), Tail(h1), next)
        /\ Len(h1) \in Nat
        /\ \A i \in 1..Len(c1) : c1[i] = c \/ \E j \in 1..Len(ep.comments) : c1[i] = ep.comments[j]
        /\ c1 # <<>> /\ Len(c1) \in Nat \ {0} /\ Len(Tail(c1)) = Len(c1) - 1
        /\ \A i \in 1..(Len(c1) - 1) : Tail(c1)[i] = c1[i + 1]
    <3>1. PICK s, h : s = ep.comments /\ h = ep.comment_history
      OBVIOUS
    <3>2. Listed(s, h, id) /\ c1 = Append(s, c) /\ h1 = Append(h, id) /\ next = id + 1
      BY <1>2, <2>1, <3>1
    <3>3. Longer(s, c, c1, h1, id)
      BY <2>2, <3>2, ListedMore
    <3> QED  BY <3>1, <3>2, <3>3 DEF Longer
  <2>4. PICK grown : grown = [ep EXCEPT !.comments = Append(@, c),
                                        !.comment_history = Append(@, id),
                                        !.next_comment_id = @ + 1]
    OBVIOUS
  <2>5. grown = [comments |-> c1, creator |-> ep.creator,
                 room_members |-> ep.room_members, next_comment_id |-> next,
                 timestamp |-> ep.timestamp, comment_history |-> h1,
                 challenge |-> ep.challenge, authenticated_users |-> ep.authenticated_users,
                 forbidden_words |-> ep.forbidden_words]
    BY <2>1, <2>4 DEF GoodOpen
  <2>6. PICK comments, history :
           /\ comments = IF Len(h1) > Window THEN Tail(c1) ELSE c1
           /\ history = IF Len(h1) > Window THEN Tail(h1) ELSE h1
    OBVIOUS
  <2>7. PICK room : room = [comments |-> comments, creator |-> ep.creator,
                 room_members |-> ep.room_members, next_comment_id |-> next,
                 timestamp |-> ep.timestamp, comment_history |-> history,
                 challenge |-> ep.challenge, authenticated_users |-> ep.authenticated_users,
                 forbidden_words |-> ep.forbidden_words]
    OBVIOUS
  <2>8. Window \in Nat
    BY EpisodeChainAssumption
  <2>9. Len(h1) > Window <=> ~ (Len(h1) <= Window)
    BY <2>3, <2>8
  <2>10. Open!Commented(ep, by) = room
    <3>1. Open!Commented(ep, by) =
             IF Len(grown.comment_history) > Window
             THEN [grown EXCEPT !.comment_history = Tail(@),
                                !.comments = Open!WithoutId(@, Head(grown.comment_history))]
             ELSE grown
      BY <2>1, <2>4 DEF Open!Commented
    <3>2. grown.comment_history = h1 /\ grown.comments = c1
      BY <2>5
    <3>3. CASE Len(h1) > Window
      <4>1. Open!WithoutId(c1, Head(h1)) = Tail(c1)
        BY <2>3, <2>9, <3>3
           DEF Open!WithoutId, WithoutId, Open!Keep, Keep, Open!Sifted, Sifted, ToSet
      <4>2. Open!Commented(ep, by) = [grown EXCEPT !.comment_history = Tail(h1),
                                                   !.comments = Tail(c1)]
        BY <3>1, <3>2, <3>3, <4>1
      <4> QED  BY <2>5, <2>6, <2>7, <3>3, <4>2
    <3>4. CASE ~ (Len(h1) > Window)
      BY <2>5, <2>6, <2>7, <3>1, <3>2, <3>4
    <3> QED  BY <3>3, <3>4
  <2>11. new = [comments |-> comments, creator |-> ep.creator,
                room_members |-> ep.room_members, next_comment_id |-> next,
                timestamp |-> time, comment_history |-> history,
                challenge |-> ep.challenge, authenticated_users |-> ep.authenticated_users,
                forbidden_words |-> ep.forbidden_words]
    <3>1. new = [room EXCEPT !.timestamp = time]
      BY <1>4, <2>10 DEF Open!Executed
    <3> QED  BY <2>7, <3>1
  <2>12. Listed(comments, history, next)
    BY <2>3, <2>6, <2>9
  <2>13. GoodOpen(new)
    BY <2>11, <2>12 DEF GoodOpen
  <2>14. /\ e.undo.type = "comment" /\ e.undo.prev_timestamp = ep.timestamp
         /\ e.undo.comment_id = id
    BY <1>1, <1>4, <2>1 DEF Open!RollbackOf
  <2>15. BackToOpen(e, new.next_comment_id)
    BY <1>1, <1>2, <1>4, <2>1, <2>11, <2>14 DEF BackToOpen
  <2>16. \A i \in 1..Len(comments) : \E k \in 1..Len(c1) : comments[i] = c1[k]
    <3>1. CASE Len(h1) > Window
      <4> SUFFICES ASSUME NEW i \in 1..(Len(c1) - 1) PROVE \E k \in 1..Len(c1) : comments[i] = c1[k]
        BY <2>3, <2>6, <3>1
      <4>1. i + 1 \in 1..Len(c1)
        BY <2>3
      <4> QED  BY <2>3, <2>6, <3>1, <4>1
    <3>2. CASE ~ (Len(h1) > Window)
      BY <2>6, <3>2
    <3> QED  BY <3>1, <3>2
  <2>17. \A i \in 1..Len(comments) :
            \/ comments[i].id = id /\ comments[i].author = by
            \/ \E j \in 1..Len(ep.comments) : comments[i] = ep.comments[j]
    BY <2>2, <2>3, <2>16
  <2> QED  BY <1>4, <2>1, <2>11, <2>13, <2>15, <2>17
<1> QED  BY <1>3, <1>4

LEMMA OpenBack ==
  ASSUME NEW ep, GoodOpen(ep), NEW e, BackToOpen(e, ep.next_comment_id),
         NEW r, r = Open!Rollback(ep, e.undo)
  PROVE  /\ GoodOpen(r.state)
         /\ r.ok \/ (e.undo.type = "comment" /\ ep.comments = <<>>
                       /\ ep.next_comment_id = e.undo.comment_id + 1)
         /\ r.state.next_comment_id = e.before.next_comment_id
         /\ r.state.timestamp = e.before.timestamp
         /\ \A i \in 1..Len(r.state.comments) :
               i \in 1..Len(ep.comments) /\ r.state.comments[i] = ep.comments[i]
<1>1. /\ Listed(ep.comments, ep.comment_history, ep.next_comment_id)
      /\ e.before.next_comment_id \in Nat \ {0}
      /\ e.undo.prev_timestamp = e.before.timestamp
  BY DEF GoodOpen, BackToOpen
<1>2. r.state = Open!RolledBack(ep, e.undo)
      /\ r.ok = (e.undo.type = "comment" =>
                    Len(Open!WithoutId(ep.comments, e.undo.comment_id)) < Len(ep.comments))
  BY DEF Open!Rollback
<1>3. CASE e.cmd.type # "SubmitComment"
  <2>1. e.undo.type = "join" /\ ep.next_comment_id = e.before.next_comment_id
    BY <1>3 DEF BackToOpen
  <2>2. r.ok /\ r.state = [ep EXCEPT !.timestamp = e.undo.prev_timestamp]
    BY <1>2, <2>1 DEF Open!RolledBack
  <2>3. PICK time : time = e.undo.prev_timestamp
    OBVIOUS
  <2>4. r.state = [comments |-> ep.comments, creator |-> ep.creator,
               room_members |-> ep.room_members, next_comment_id |-> ep.next_comment_id,
               timestamp |-> time, comment_history |-> ep.comment_history,
               challenge |-> ep.challenge, authenticated_users |-> ep.authenticated_users,
               forbidden_words |-> ep.forbidden_words]
    BY <2>2, <2>3 DEF GoodOpen
  <2>5. GoodOpen(r.state)
    BY <1>1, <2>4 DEF GoodOpen
  <2> QED  BY <1>1, <2>1, <2>2, <2>3, <2>4, <2>5
<1>4. CASE e.cmd.type = "SubmitComment"
  <2>1. PICK id, c1, h1, time :
           /\ id = e.before.next_comment_id /\ c1 = WithoutId(ep.comments, id)
           /\ h1 = Keep(ep.comment_history, Nat \ {id}) /\ time = e.undo.prev_timestamp
    OBVIOUS
  <2>2. /\ e.undo.type = "comment" /\ e.undo.comment_id = id
        /\ ep.next_comment_id = id + 1 /\ id \in Nat \ {0}
    BY <1>1, <1>4, <2>1 DEF BackToOpen
  <2>3. /\ Listed(c1, h1, id)
        /\ ep.comments # <<>> => Len(c1) < Len(ep.comments)
        /\ \A i \in 1..Len(c1) : i \in 1..Len(ep.comments) /\ c1[i] = ep.comments[i]
    BY <1>1, <2>1, <2>2, ListedLess
  <2>4. /\ Open!WithoutId(ep.comments, id) = c1
        /\ Open!Keep(ep.comment_history, Nat \ {id}) = h1
    BY <2>1 DEF Open!WithoutId, WithoutId, Open!Keep, Keep, Open!Sifted, Sifted, ToSet
  <2>5. ep.next_comment_id > 1
    BY <2>2
  <2>6. r.state = [ep EXCEPT !.timestamp = time, !.comments = c1,
                             !.comment_history = h1, !.next_comment_id = id]
    <3>1. r.state = [ep EXCEPT !.timestamp = e.undo.prev_timestamp,
                    !.comments = Open!WithoutId(@, e.undo.comment_id),
                    !.comment_history = Open!Keep(@, Nat \ {e.undo.comment_id}),
                    !.next_comment_id = IF @ > 1 THEN e.undo.comment_id ELSE @]
      BY <1>2, <2>2 DEF Open!RolledBack
    <3> QED  BY <2>1, <2>2, <2>4, <2>5, <3>1
  <2>7. r.state = [comments |-> c1, creator |-> ep.creator,
               room_members |-> ep.room_members, next_comment_id |-> id,
               timestamp |-> time, comment_history |-> h1,
               challenge |-> ep.challenge, authenticated_users |-> ep.authenticated_users,
               forbidden_words |-> ep.forbidden_words]
    BY <2>6 DEF GoodOpen
  <2>8. GoodOpen(r.state)
    BY <2>3, <2>7 DEF GoodOpen
  <2>9. r.ok \/ ep.comments = <<>>
    BY <1>2, <2>2, <2>3, <2>4
  <2> QED  BY <1>1, <2>1, <2>2, <2>3, <2>7, <2>8, <2>9
<1> QED  BY <1>3, <1>4
LEMMA GatherStep ==
  ASSUME Trailed, OpenTrail, app = "comments", Gather
  PROVE  OpenTrail'
<1>1. PICK cmd \in Open!Commands, by \in Signers :
         Applied(cmd, by, Open!Execute(episode, cmd, by, Time))
  BY DEF Gather
<1>2. PICK ep, time, r, new, cs, cs1 :
         /\ ep = episode /\ time = Time /\ r = Open!Execute(ep, cmd, by, time)
         /\ new = [cmd |-> cmd, by |-> by, undo |-> r.undo, before |-> episode]
         /\ cs = OnTrail("SubmitComment") /\ cs1 = OnTrail("SubmitComment")'
  OBVIOUS
<1>3. /\ Applied(cmd, by, r)
      /\ r.state = Open!Executed(ep, cmd, by, time)
      /\ r.undo = Open!RollbackOf(ep, cmd)
  BY <1>1, <1>2 DEF Open!Execute, Applied
<1>4. PICK n \in Nat :
         /\ Trailed' /\ n = Len(trail) /\ Len(trail') = n + 1
         /\ \A i \in 1..n : trail'[i] = trail[i]
         /\ trail'[n + 1] = new
         /\ \A i \in 0..n : After(i)' = After(i)
         /\ After(n) = episode /\ After(n + 1)' = episode'
         /\ \A type : OnTrail(type)' =
               IF cmd.type = type THEN Append(OnTrail(type), new) ELSE OnTrail(type)
  BY <1>2, <1>3, AppliedGrows
<1>5. episode' = r.state /\ app' = app
  BY <1>3 DEF Applied
<1>6. /\ GoodOpen(ep)
      /\ \A i \in 1..n : BackToOpen(trail[i], After(i).next_comment_id)
      /\ ep.next_comment_id = Len(cs) + 1 /\ Attributed(ep.comments, cs)
  BY <1>2, <1>4 DEF OpenTrail
<1>7. new.cmd = cmd /\ new.by = by /\ new.before = ep
  BY <1>2
<1>8. /\ GoodOpen(r.state) /\ BackToOpen(new, r.state.next_comment_id)
      /\ cmd.type # "SubmitComment" => r.state.comments = ep.comments
      /\ cmd.type = "SubmitComment" =>
            \A i \in 1..Len(r.state.comments) :
               \/ /\ r.state.comments[i].id = ep.next_comment_id
                  /\ r.state.comments[i].author = by
               \/ \E j \in 1..Len(ep.comments) : r.state.comments[i] = ep.comments[j]
  <2>1. new = [cmd |-> cmd, by |-> by, undo |-> Open!RollbackOf(ep, cmd), before |-> ep]
    BY <1>2, <1>3
  <2> QED  BY <1>3, <1>6, <2>1, OpenMove
<1>9. \A i \in 1..(n + 1) : (i \in 1..n /\ i \in 0..n) \/ i = n + 1
  OBVIOUS
<1>10. \A i \in 1..(n + 1) : BackToOpen(trail'[i], After(i)'.next_comment_id)
  BY <1>4, <1>5, <1>6, <1>8, <1>9
<1>11. cs1 = IF cmd.type = "SubmitComment" THEN Append(cs, new) ELSE cs
  BY <1>2, <1>4
<1>12. r.state.next_comment_id = Len(cs1) + 1 /\ Attributed(r.state.comments, cs1)
  <2>1. CASE cmd.type = "SubmitComment"
    <3>1. PICK Q : cs \in Seq(Q)
      BY <1>2, OnTrailSeq
    <3>2. /\ Len(cs1) = Len(cs) + 1 /\ Len(cs) \in Nat
          /\ \A i \in 1..Len(cs) : cs1[i] = cs[i]
          /\ cs1[Len(cs) + 1] = new
      <4>1. cs \in Seq(Q \cup {new}) /\ new \in Q \cup {new}
        BY <3>1, SeqMonotonic
      <4> QED  BY <1>11, <2>1, <4>1, AppendProperties, LenProperties
    <3>3. r.state.next_comment_id = Len(cs1) + 1
      BY <1>6, <1>7, <1>8, <2>1, <3>2 DEF BackToOpen
    <3>4. \A j \in 1..Len(ep.comments) : ep.comments[j].id \in 1..Len(cs)
      <4>1. Listed(ep.comments, ep.comment_history, ep.next_comment_id)
        BY <1>6 DEF GoodOpen
      <4>2. \A j \in 1..Len(ep.comments) :
               /\ ep.comments[j].id \in Nat /\ ep.comments[j].id > 0
               /\ ep.comments[j].id < ep.next_comment_id
        BY <4>1, ListedParts
      <4> QED  BY <1>6, <3>2, <4>2
    <3>5. ASSUME NEW i \in 1..Len(r.state.comments)
          PROVE  r.state.comments[i].author = cs1[r.state.comments[i].id].by
      <4>1. CASE /\ r.state.comments[i].id = ep.next_comment_id
                 /\ r.state.comments[i].author = by
        BY <1>6, <1>7, <3>2, <4>1
      <4>2. CASE \E j \in 1..Len(ep.comments) : r.state.comments[i] = ep.comments[j]
        <5>1. PICK j \in 1..Len(ep.comments) : r.state.comments[i] = ep.comments[j]
          BY <4>2
        <5>2. ep.comments[j].author = cs[ep.comments[j].id].by
          BY <1>6 DEF Attributed
        <5>3. cs1[ep.comments[j].id] = cs[ep.comments[j].id]
          BY <3>2, <3>4
        <5> QED  BY <5>1, <5>2, <5>3
      <4> QED  BY <1>8, <2>1, <4>1, <4>2
    <3> QED  BY <3>3, <3>5 DEF Attributed
  <2>2. CASE cmd.type # "SubmitComment"
    BY <1>6, <1>7, <1>8, <1>11, <2>2 DEF BackToOpen
  <2> QED  BY <2>1, <2>2
<1> QED  BY <1>2, <1>4, <1>5, <1>8, <1>10, <1>12 DEF OpenTrail

LEMMA UndoGather ==
  ASSUME Trailed, OpenTrail, app = "comments", Undo
  PROVE  /\ OpenTrail'
         /\ RolledBack(Last(trail).undo).ok \/ PushedOut(Last(trail).undo)
         /\ episode'.next_comment_id = Last(trail).before.next_comment_id
         /\ episode'.timestamp = Last(trail).before.timestamp
<1>1. PICK n \in Nat \ {0} :
         /\ Trailed' /\ n = Len(trail) /\ Len(trail') = n - 1
         /\ \A i \in 1..(n - 1) : trail'[i] = trail[i]
         /\ Last(trail) = trail[n]
         /\ episode' = RolledBack(trail[n].undo).state
         /\ \A i \in 0..(n - 2) : After(i)' = After(i)
         /\ After(n) = episode
         /\ After(n - 1) = trail[n].before /\ After(n - 1)' = episode'
         /\ \A type : OnTrail(type) =
               IF trail[n].cmd.type = type THEN Append(OnTrail(type)', trail[n])
               ELSE OnTrail(type)'
  BY UndoShrinks
<1>2. PICK ep, e, r, cs, cs1 :
         /\ ep = episode /\ e = trail[n] /\ r = Open!Rollback(ep, e.undo)
         /\ cs = OnTrail("SubmitComment") /\ cs1 = OnTrail("SubmitComment")'
  OBVIOUS
<1>3. app' = "comments" /\ RolledBack(e.undo) = r /\ n \in 1..n /\ episode' = r.state
  BY <1>1, <1>2 DEF Undo, RolledBack
<1>4. /\ GoodOpen(ep)
      /\ \A i \in 1..n : BackToOpen(trail[i], After(i).next_comment_id)
      /\ ep.next_comment_id = Len(cs) + 1 /\ Attributed(ep.comments, cs)
  BY <1>1, <1>2 DEF OpenTrail
<1>5. BackToOpen(e, ep.next_comment_id)
  BY <1>1, <1>2, <1>3, <1>4
<1>6. /\ GoodOpen(r.state)
      /\ r.ok \/ (e.undo.type = "comment" /\ ep.comments = <<>>
                    /\ ep.next_comment_id = e.undo.comment_id + 1)
      /\ r.state.next_comment_id = e.before.next_comment_id
      /\ r.state.timestamp = e.before.timestamp
      /\ \A i \in 1..Len(r.state.comments) :
            i \in 1..Len(ep.comments) /\ r.state.comments[i] = ep.comments[i]
  BY <1>2, <1>4, <1>5, OpenBack
<1>7. \A i \in 1..(n - 1) : i \in 1..n /\ (i \in 0..(n - 2) \/ i = n - 1)
  OBVIOUS
<1>8. \A i \in 1..(n - 1) : BackToOpen(trail'[i], After(i)'.next_comment_id)
  <2> SUFFICES ASSUME NEW i \in 1..(n - 1) PROVE BackToOpen(trail'[i], After(i)'.next_comment_id)
    OBVIOUS
  <2>1. BackToOpen(trail'[i], After(i).next_comment_id)
    BY <1>1, <1>4, <1>7
  <2>2. After(i)'.next_comment_id = After(i).next_comment_id
    BY <1>1, <1>2, <1>3, <1>6, <1>7
  <2> QED  BY <2>1, <2>2
<1>9. cs = IF e.cmd.type = "SubmitComment" THEN Append(cs1, e) ELSE cs1
  BY <1>1, <1>2
<1>10. r.state.next_comment_id = Len(cs1) + 1 /\ Attributed(r.state.comments, cs1)
  <2>1. CASE e.cmd.type = "SubmitComment"
    <3>1. PICK Q : cs1 \in Seq(Q)
      BY <1>1, <1>2, LaterSeq
    <3>2. /\ Len(cs) = Len(cs1) + 1 /\ Len(cs1) \in Nat
          /\ \A i \in 1..Len(cs1) : cs[i] = cs1[i]
      <4>1. cs1 \in Seq(Q \cup {e}) /\ e \in Q \cup {e}
        BY <3>1, SeqMonotonic
      <4> QED  BY <1>9, <2>1, <4>1, AppendProperties, LenProperties
    <3>3. r.state.next_comment_id = Len(cs1) + 1
      <4>1. /\ ep.next_comment_id = e.before.next_comment_id + 1
            /\ e.before.next_comment_id \in Nat
        BY <1>5, <2>1 DEF BackToOpen
      <4> QED  BY <1>4, <1>6, <3>2, <4>1
    <3>4. \A i \in 1..Len(r.state.comments) : r.state.comments[i].id \in 1..Len(cs1)
      <4>1. Listed(r.state.comments, r.state.comment_history, r.state.next_comment_id)
        BY <1>6 DEF GoodOpen
      <4>2. \A j \in 1..Len(r.state.comments) :
               /\ r.state.comments[j].id \in Nat /\ r.state.comments[j].id > 0
               /\ r.state.comments[j].id < r.state.next_comment_id
        BY <4>1, ListedParts
      <4> QED  BY <3>2, <3>3, <4>2
    <3>5. ASSUME NEW i \in 1..Len(r.state.comments)
          PROVE  r.state.comments[i].author = cs1[r.state.comments[i].id].by
      <4>1. i \in 1..Len(ep.comments) /\ r.state.comments[i] = ep.comments[i]
        BY <1>6
      <4>2. ep.comments[i].author = cs[ep.comments[i].id].by
        BY <1>4, <4>1 DEF Attributed
      <4>3. cs[ep.comments[i].id] = cs1[ep.comments[i].id]
        BY <3>2, <3>4, <4>1
      <4> QED  BY <4>1, <4>2, <4>3
    <3> QED  BY <3>3, <3>5 DEF Attributed
  <2>2. CASE e.cmd.type # "SubmitComment"
    <3>1. r.state.next_comment_id = ep.next_comment_id /\ cs1 = cs
      BY <1>5, <1>6, <1>9, <2>2 DEF BackToOpen
    <3>2. Attributed(r.state.comments, cs)
      BY <1>4, <1>6 DEF Attributed
    <3> QED  BY <1>4, <3>1, <3>2
  <2> QED  BY <2>1, <2>2
<1>11. OpenTrail'
  BY <1>1, <1>2, <1>3, <1>6, <1>8, <1>10 DEF OpenTrail
<1>12. RolledBack(Last(trail).undo).ok \/ PushedOut(Last(trail).undo)
  BY <1>1, <1>2, <1>3, <1>6 DEF PushedOut
<1> QED  BY <1>1, <1>2, <1>3, <1>6, <1>11, <1>12

LEMMA OpenStep ==
  ASSUME Trailed, OpenTrail, [Next]_vars
  PROVE  OpenTrail'
<1>1. CASE app # "comments"
  BY <1>1, TrailedStep DEF OpenTrail
<1>2. CASE app = "comments"
  <2>1. CASE Gather
    BY <1>2, <2>1, GatherStep
  <2>2. CASE Undo
    BY <1>2, <2>2, UndoGather
  <2>3. CASE Play \/ Gamble \/ Bond \/ PlayMcp \/ Comment \/ Speak
    BY <1>2, <2>3 DEF Play, Gamble, Bond, PlayMcp, Comment, Speak
  <2>4. CASE UNCHANGED vars
    BY <2>4 DEF vars, OpenTrail, After, OnTrail
  <2> QED  BY <2>1, <2>2, <2>3, <2>4 DEF Next
<1> QED  BY <1>1, <1>2

LEMMA OpenInit == Init => OpenTrail
<1> SUFFICES ASSUME Init, app = "comments" PROVE OpenTrail
  BY DEF OpenTrail
<1>1. trail = <<>> /\ episode = Settled(Open!Initialize(participants, 0))
  BY DEF Init
<1>2. PICK s, none, creator, members :
         /\ s = <<>> /\ none = {} /\ members = {creator}
         /\ creator = IF participants = <<>> THEN None ELSE Head(participants)
  OBVIOUS
<1>3. s \in Seq({}) /\ s \in Seq(Nat) /\ Len(s) = 0
  BY <1>2
<1>4. PICK room :
         room = [comments |-> s, creator |-> creator, room_members |-> none,
                 next_comment_id |-> 1, timestamp |-> 0, comment_history |-> s,
                 challenge |-> None, authenticated_users |-> none, forbidden_words |-> FALSE]
  OBVIOUS
<1>5. Open!Initialize(participants, 0) = room
  BY <1>2, <1>4 DEF Open!Initialize
<1>6. episode = [comments |-> s, creator |-> creator, room_members |-> members,
                 next_comment_id |-> 1, timestamp |-> 0, comment_history |-> s,
                 challenge |-> None, authenticated_users |-> members, forbidden_words |-> FALSE]
  <2>1. episode = [room EXCEPT !.room_members = members, !.authenticated_users = members]
    <3>1. room.creator = creator /\ {creator} = members
      BY <1>2, <1>4
    <3>2. episode = Settled(room)
      BY <1>1, <1>5
    <3>3. episode = [room EXCEPT !.room_members = {room.creator},
                                 !.authenticated_users = {room.creator}]
      BY <3>2 DEF Settled
    <3> QED  BY <3>1, <3>3
  <2> QED  BY <1>4, <2>1
<1>7. GoodOpen(episode)
  <2>1. Listed(s, s, 1)
    <3>1. 0 <= Window /\ 0 < 1
      BY EpisodeChainAssumption
    <3>2. \A i \in 1..Len(s) : FALSE
      BY <1>3
    <3> QED  BY <1>3, <3>1, <3>2 DEF Listed
  <2> QED  BY <1>6, <2>1 DEF GoodOpen
<1>8. OnTrail("SubmitComment") = s
  BY <1>1, <1>2, KeepEmpty DEF OnTrail
<1>9. \A i \in 1..Len(s) : FALSE
  BY <1>3
<1>10. Attributed(s, s)
  BY <1>9 DEF Attributed
<1>11. Len(trail) = 0
  BY <1>1
<1>12. \A i \in 1..Len(trail) : FALSE
  BY <1>11
<1>13. 1 = Len(s) + 1
  BY <1>3
<1> QED  BY <1>6, <1>7, <1>8, <1>10, <1>12, <1>13 DEF OpenTrail
-----------------------------------------------------------------------------
(* All of them together, for the one application that there is *)
Trails ==
    /\ IInv /\ Trailed
    /\ LotteryTrail /\ McpTrail /\ BoardTrail /\ RoomTrail /\ TalkTrail /\ OpenTrail

LEMMA TrailsInit == Init => Trails
<1> SUFFICES ASSUME Init PROVE Trails
  OBVIOUS
<1>1. Trailed
  <2>1. trail = <<>>
    BY DEF Init
  <2>2. trail \in Seq({})
    BY <2>1
  <2> QED  BY <2>2 DEF Trailed
<1> QED  BY <1>1, TrailInit, LotteryInit, McpInit, BoardInit, RoomInit, TalkInit, OpenInit
            DEF Trails, IInv

LEMMA TrailsStep == Trails /\ [Next]_vars => Trails'
<1> SUFFICES ASSUME Trails, [Next]_vars PROVE Trails'
  OBVIOUS
<1>1. /\ IInv /\ Trailed /\ executed \in Nat
      /\ LotteryTrail /\ McpTrail /\ BoardTrail /\ RoomTrail /\ TalkTrail /\ OpenTrail
  BY DEF Trails, IInv
<1>2. IInv'
  BY <1>1, Step
<1>3. Trailed'
  BY <1>1, TrailedStep
<1>4. LotteryTrail'
  BY <1>1, LotteryStep
<1>5. McpTrail'
  BY <1>1, McpStep
<1>6. BoardTrail'
  BY <1>1, BoardStep
<1>7. RoomTrail'
  BY <1>1, RoomStep
<1>8. TalkTrail'
  BY <1>1, TalkStep
<1>9. OpenTrail'
  BY <1>1, OpenStep
<1> QED  BY <1>2, <1>3, <1>4, <1>5, <1>6, <1>7, <1>8, <1>9 DEF Trails

(* In every reachable state each rollback object of the trail takes the    *)
(* episode after its command back to the one before it, but for what the   *)
(* rollbacks of the applications do not restore (Episode::rollback,        *)
(* episode.rs:64, as the seven implement it).                              *)
THEOREM Invariance == Spec => []Trails
BY TrailsInit, TrailsStep, PTL DEF Spec

(* However a game of two is played and taken back, its board holds the     *)
(* last six moves of the two in turn (game.rs:158-164 and 183-190).        *)
THEOREM MarksAlwaysAlternate == Spec => []MarksAlternate
<1>1. Trails => MarksAlternate
  BY DEF Trails, IInv, GameTrail, GoodGame, MarksAlternate
<1> QED  BY <1>1, Invariance, PTL

(* The lottery never promises more than the tickets of the chain paid in,  *)
(* whatever a rollback guesses of the pool, and its winner holds a ticket  *)
(* of the chain (kas-draw, episode.rs:191-219).                            *)
THEOREM PoolAlwaysBacked == Spec => []PoolBacked
<1>1. Trails => PoolBacked
  <2> SUFFICES ASSUME LotteryTrail, app = "lottery"
               PROVE  /\ Cardinality(DOMAIN episode.tickets) = Len(OnTrail("BuyTicket"))
                      /\ episode.prize_pool <= ticket_price * Cardinality(DOMAIN episode.tickets)
                      /\ episode.last_winner \in DOMAIN episode.tickets \cup {None}
                      /\ episode.winner_paid => episode.last_winner # None
                      /\ \A id \in DOMAIN episode.tickets : id < episode.next_ticket_id
    BY DEF Trails, PoolBacked
  <2>1. episode.last_winner # None => episode.last_winner \in DOMAIN episode.tickets
    BY DEF LotteryTrail, DrewFrom
  <2> QED  BY <2>1 DEF LotteryTrail, GoodLottery
<1> QED  BY <1>1, Invariance, PTL

(* The value that the board counts as locked is the sum of the bonds on    *)
(* the chain, and its locked outputs are those of the comments it shows    *)
(* (board_with_contract.rs:183-220 and 307-364).                                       *)
THEOREM BondsAlwaysExact == Spec => []BondsExact
<1>1. Trails => BondsExact
  <2> SUFFICES ASSUME Trailed, BoardTrail, app = "comment_board" PROVE BondsExact
    BY DEF Trails, BondsExact
  <2>1. PICK cs, joins, comments, locked :
           /\ cs = OnTrail("SubmitComment") /\ joins = OnTrail("JoinRoom")
           /\ comments = episode.comments /\ locked = episode.locked_utxos
    OBVIOUS
  <2>2. /\ Numbered(comments, episode.next_comment_id)
        /\ episode.total_comments = Len(comments)
        /\ Shown(comments, cs) /\ Locks(comments, locked)
        /\ episode.total_locked_value = BondsOf(cs) + BondsOf(joins)
    BY <2>1 DEF BoardTrail, GoodBoard
  <2>3. Len(comments) = Len(cs) /\ \A i \in 1..Len(cs) : comments[i] = Declared(cs[i])
    BY <2>2 DEF Shown
  <2>4. \A i \in 1..Len(cs) :
           comments[i].author = cs[i].by /\ comments[i].bond_amount = cs[i].cmd.bond_amount
    <3>1. \A e : Declared(e).author = e.by /\ Declared(e).bond_amount = e.cmd.bond_amount
      BY DEF Declared
    <3> QED  BY <2>3, <3>1
  <2>5. /\ \A i \in 1..Len(cs) :
              locked[Board!CommentBond(comments[i].id)] = comments[i].bond_amount
        /\ \A v \in DOMAIN locked : locked[v] # 0 =>
              \E i \in 1..Len(cs) : v = Board!CommentBond(comments[i].id)
    BY <2>2, <2>3 DEF Locks
  <2>6. \A i \in 1..Len(cs) : \A j \in 1..(i - 1) : comments[j].id < comments[i].id
    BY <2>2, <2>3 DEF Numbered
  <2> QED  BY <2>1, <2>2, <2>3, <2>4, <2>5, <2>6 DEF BondsExact
<1> QED  BY <1>1, Invariance, PTL

(* In a room, the comments are those of the chain, in its order; and who   *)
(* is authenticated, or which session a key has, follows from the chain,   *)
(* however it was reorganised (core/episode.rs:218-250, comment.rs:230-257,*)
(* comments.rs:311-342).                                                   *)
THEOREM RoomAlwaysSound == Spec => []RoomSound
<1>1. Trails => RoomSound
  <2> SUFFICES ASSUME Trails PROVE RoomSound
    OBVIOUS
  <2>0. PICK cs, comments, n :
           cs = OnTrail("SubmitComment") /\ comments = episode.comments /\ n = Len(trail)
    OBVIOUS
  <2>1. n \in Nat /\ n \in 0..n /\ After(n) = episode
    <3>1. PICK S : trail \in Seq(S)
      BY DEF Trails, Trailed
    <3>2. n \in Nat
      BY <2>0, <3>1, LenProperties
    <3> QED  BY <2>0, <3>2 DEF After
  <2>2. CASE app = "comment_it"
    <3>1. /\ GoodRoom(episode) /\ Written(comments, cs)
          /\ Follow(trail, n, episode.authenticated)
          /\ \A k \in PubKeys :
                Len(ByKey(OnTrail("RequestChallenge"), k)) <= episode.rate_limits[k]
      BY <2>0, <2>1, <2>2 DEF Trails, RoomTrail
    <3>2. /\ Len(comments) = Len(cs) /\ \A i \in 1..Len(cs) : comments[i].author = cs[i].by
          /\ episode.next_comment_id = Len(cs) + 1
          /\ \A i \in 1..Len(cs) : comments[i].id = i
      BY <2>0, <3>1 DEF Written, GoodRoom, Counts
    <3>3. SessionsFollow
      BY <2>0, <3>1 DEF SessionsFollow, Follow, Changes, Latest, ByKey
    <3> QED  BY <2>0, <2>2, <3>2, <3>3 DEF RoomSound
  <2>3. CASE app = "comment"
    <3>1. /\ GoodTalk(episode) /\ Spoken(comments, cs)
          /\ Given(trail, n, episode.valid_sessions)
      BY <2>0, <2>1, <2>3 DEF Trails, TalkTrail
    <3>2. /\ Len(comments) = Len(cs)
          /\ \A i \in 1..Len(cs) : comments[i].author = cs[i].cmd.author
          /\ episode.next_id = Len(cs) + 1
          /\ \A i \in 1..Len(cs) : comments[i].id = i
      BY <2>0, <3>1 DEF Spoken, GoodTalk, Counts
    <3>3. TokensFollow
      BY <2>0, <3>1 DEF TokensFollow, Given, Gives, Registers, Latest
    <3> QED  BY <2>0, <2>3, <3>2, <3>3 DEF RoomSound
  <2>4. CASE app = "comments"
    <3>1. /\ Listed(comments, episode.comment_history, episode.next_comment_id)
          /\ episode.next_comment_id = Len(cs) + 1 /\ Attributed(comments, cs)
      BY <2>0, <2>4 DEF Trails, OpenTrail, GoodOpen
    <3>2. PICK m, next, history : /\ m = Len(cs) /\ next = episode.next_comment_id
                                  /\ history = episode.comment_history
      OBVIOUS
    <3>3. m \in Nat /\ next = m + 1
      BY <2>0, <3>1, <3>2, OnTrailSeq DEF Trails
    <3>4. /\ Len(comments) \in Nat /\ DOMAIN comments = 1..Len(comments)
          /\ \A i \in 1..Len(comments) :
               /\ comments[i].id \in Nat /\ comments[i].id > 0 /\ comments[i].id < next
               /\ comments[i].id > next - 1 - Window
               /\ i > 1 => comments[i].id = comments[i - 1].id + 1
          /\ comments # <<>> => Len(comments) \in Nat \ {0} /\ comments[Len(comments)].id = next - 1
          /\ history = [i \in 1..Len(comments) |-> comments[i].id]
      <4>1. Listed(comments, history, next)
        BY <3>1, <3>2
      <4> QED  BY <4>1, ListedParts
    <3>5. \A i \in DOMAIN comments :
             /\ comments[i].id \in (m - Window + 1)..m /\ comments[i].id > 0
             /\ comments[i].author = cs[comments[i].id].by
             /\ i > 1 => comments[i].id = comments[i - 1].id + 1
      <4> SUFFICES ASSUME NEW i \in 1..Len(comments)
                   PROVE  /\ comments[i].id \in (m - Window + 1)..m /\ comments[i].id > 0
                          /\ comments[i].author = cs[comments[i].id].by
                          /\ i > 1 => comments[i].id = comments[i - 1].id + 1
        BY <3>4
      <4>1. comments[i].id \in (m - Window + 1)..m
        BY <3>3, <3>4, EpisodeChainAssumption
      <4> QED  BY <3>1, <3>4, <4>1 DEF Attributed
    <3>6. comments # <<>> => Last(comments).id = m
      <4>1. next - 1 = m
        BY <3>3
      <4> QED  BY <3>4, <4>1 DEF Last
    <3> QED  BY <2>0, <2>4, <3>1, <3>2, <3>3, <3>4, <3>5, <3>6 DEF RoomSound
  <2>5. CASE app \notin {"comment_it", "comment", "comments"}
    BY <2>5 DEF RoomSound
  <2> QED  BY <2>2, <2>3, <2>4, <2>5
<1> QED  BY <1>1, Invariance, PTL

(* No rollback fails, but that of a comment which a later one pushed out   *)
(* of an open room; and each gives its episode back what Restored says:    *)
(* the whole of a game, the tickets of a lottery, the comments of a room.  *)
(* This is what the trait Episode asks of them (episode.rs:54).            *)
THEOREM RollbacksRestore == Spec => RollbackRestores
<1>1. ASSUME Trails, Undo
      PROVE  /\ RolledBack(Last(trail).undo).ok \/ PushedOut(Last(trail).undo)
             /\ Restored(episode') = Restored(Last(trail).before)
  <2>0. /\ IInv /\ Trailed /\ app \in Apps /\ [Next]_vars
        /\ LotteryTrail /\ McpTrail /\ BoardTrail /\ RoomTrail /\ TalkTrail /\ OpenTrail
    BY <1>1 DEF Trails, IInv, Next
  <2>1. CASE app = "tictactoe"
    BY <1>1, <2>0, <2>1, UndoStep
  <2>2. CASE app = "lottery"
    BY <1>1, <2>0, <2>2, UndoLottery DEF Restored
  <2>3. CASE app = "comment_it"
    BY <1>1, <2>0, <2>3, UndoComment DEF Restored
  <2>4. CASE app = "comment_board"
    BY <1>1, <2>0, <2>4, UndoBond DEF Restored
  <2>5. CASE app = "mcp"
    BY <1>1, <2>0, <2>5, McpStep
  <2>6. CASE app = "comment"
    BY <1>1, <2>0, <2>6, UndoSpeak DEF Restored
  <2>7. CASE app = "comments"
    BY <1>1, <2>0, <2>7, UndoGather DEF Restored
  <2>8. app \in {"tictactoe", "lottery", "comment_it", "comment_board",
                 "mcp", "comment", "comments"}
    BY <2>0, EpisodeChainAssumption
  <2> QED  BY <2>1, <2>2, <2>3, <2>4, <2>5, <2>6, <2>7, <2>8
<1>2. Trails /\ [Next]_vars =>
         [Undo => /\ RolledBack(Last(trail).undo).ok \/ PushedOut(Last(trail).undo)
                  /\ Restored(episode') = Restored(Last(trail).before)]_vars
  BY <1>1
<1> QED  BY <1>2, Invariance, PTL DEF Spec, RollbackRestores
=============================================================================
