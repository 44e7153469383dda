---------------------------- MODULE EpisodeChain ----------------------------
(***************************************************************************)
(* One episode of one of the applications, on a chain that reorganises.    *)
(* Blocks carry one command each; the engine executes it, keeps the        *)
(* rollback object, and pops it when the block is removed (Engine says in  *)
(* which order that happens, with any number of episodes and commands).    *)
(* A command that the episode refuses changes nothing and is left out.     *)
(***************************************************************************)
EXTENDS Integers, SequencesExt, Filters

CONSTANTS
    Apps,                  \* the applications to look at
    PubKeys, None,
    participants,          \* of the NewEpisode
    Moves,                 \* of the game, beyond the board too
    TicketIds, ticket_price, draw_interval_secs,
    Hashes,                \* leading bytes of block hashes
    MAX_ATTEMPTS,
    Bonds, min_bond, contract_expires_at,
    Tokens,                \* of sessions
    Window,                \* comments that an open room keeps
    MaxLength,             \* per application, bound on the commands of the chain
    MaxExecuted            \* and on those that are ever executed

Game  == INSTANCE TicTacToe
Draws == INSTANCE Lottery
Room  == INSTANCE CommentRoom
Board == INSTANCE CommentBoard
Mcp   == INSTANCE McpGame
Talk  == INSTANCE CommentEpisode
Open  == INSTANCE OpenRoom

ASSUME EpisodeChainAssumption ==
    /\ Apps \subseteq {"tictactoe", "lottery", "comment_it", "comment_board",
                     "mcp", "comment", "comments"}
    /\ None \notin PubKeys /\ None \notin Game!Cells /\ None \notin Nat
    /\ None \notin [cell : Mcp!Cells, symbol : Mcp!Players \cup {None}]
    /\ participants \in Seq(PubKeys)
    /\ "tictactoe" \in Apps => Len(participants) = 2
    /\ Hashes \subseteq Nat
    /\ TicketIds \subseteq Nat
    /\ ticket_price \in Nat \ {0} /\ draw_interval_secs \in Nat
    /\ MAX_ATTEMPTS \in Nat
    /\ Bonds \subseteq Nat /\ min_bond \in Nat /\ contract_expires_at \in Nat
    /\ Window \in Nat \ {0}

VARIABLES
    app,                   \* which application, for good
    episode,
    trail,                 \* the commands of the chain, each with its rollback
                           \* object and (auxiliary) the episode before it
    executed               \* how many were ever executed; gives blocks their times

vars == <<app, episode, trail, executed>>

(* An open room whose creator joined and authenticated so long ago that    *)
(* those blocks cannot leave the chain                                     *)
Settled(ep) == [ep EXCEPT !.room_members = {ep.creator}, !.authenticated_users = {ep.creator}]

Init ==
    /\ app \in Apps
    /\ episode = CASE app = "tictactoe" -> Game!Initialize(participants, 0)
                   [] app = "lottery" -> Draws!Initialize(participants, 0)
                   [] app = "comment_it" -> Room!Initialize(participants, 0)
                   [] app = "comment_board" -> Board!Initialize(participants, 0)
                   [] app = "mcp" -> Mcp!Initialize(participants, 0)
                   [] app = "comment" -> Talk!Initialize(participants, 0)
                   [] app = "comments" -> Settled(Open!Initialize(participants, 0))
    /\ trail = <<>>
    /\ executed = 0

(* A block that is mined later has a later time *)
Time == executed + 1

Signers == PubKeys \cup {None}

Applied(cmd, by, r) ==
    /\ Len(trail) < MaxLength[app]
    /\ executed < MaxExecuted[app]
    /\ r.ok
    /\ episode' = r.state
    /\ trail' = Append(trail, [cmd |-> cmd, by |-> by, undo |-> r.undo,
                               before |-> episode])
    /\ executed' = executed + 1
    /\ UNCHANGED app

Play ==
    /\ app = "tictactoe"
    /\ \E mv \in Moves, by \in Signers :
          Applied(mv, by, Game!Execute(episode, mv, by, Time))

Gamble ==
    /\ app = "lottery"
    /\ \E cmd \in Draws!Commands, by \in Signers, hash \in Hashes :
          Applied(cmd, by, Draws!Execute(episode, cmd, by, Time, hash))

Comment ==
    /\ app = "comment_it"
    /\ \E cmd \in Room!Commands, by \in Signers :
          Applied(cmd, by, Room!Execute(episode, cmd, by, Time))

Bond ==
    /\ app = "comment_board"
    /\ \E cmd \in Board!Commands, by \in Signers :
          Applied(cmd, by, Board!Execute(episode, cmd, by, Time))

PlayMcp ==
    /\ app = "mcp"
    /\ \E cell \in Moves, player \in Mcp!Players, by \in Signers :
          LET mv == [cell |-> cell, player |-> player] IN
          Applied(mv, by, Mcp!Execute(episode, mv, by, Time))

Speak ==
    /\ app = "comment"
    /\ \E cmd \in Talk!Commands, by \in Signers :
          Applied(cmd, by, Talk!Execute(episode, cmd, by, Time))

Gather ==
    /\ app = "comments"
    /\ \E cmd \in Open!Commands, by \in Signers :
          Applied(cmd, by, Open!Execute(episode, cmd, by, Time))

RolledBack(u) ==
    CASE app = "tictactoe" -> Game!Rollback(episode, u)
      [] app = "lottery" -> Draws!Rollback(episode, u)
      [] app = "comment_it" -> Room!Rollback(episode, u)
      [] app = "comment_board" -> Board!Rollback(episode, u)
      [] app = "mcp" -> Mcp!Rollback(episode, u)
      [] app = "comment" -> Talk!Rollback(episode, u)
      [] app = "comments" -> Open!Rollback(episode, u)

Undo ==
    /\ trail # <<>>
    /\ episode' = RolledBack(Last(trail).undo).state
    /\ trail' = Front(trail)
    /\ UNCHANGED <<app, executed>>

Next == Play \/ Gamble \/ Comment \/ Bond \/ PlayMcp \/ Speak \/ Gather \/ Undo

Spec == Init /\ [][Next]_vars

-----------------------------------------------------------------------------
(* No rollback fails ("indicates a severe bug"), but that of a comment     *)
(* which a later one, reverted too, pushed out of an open room.  One gives *)
(* either game back as it was.  The other episodes get back what is listed *)
(* here, and not: the next ticket, the time of the next draw, an earlier   *)
(* winner and the pool; the limits and the challenge that was replaced or  *)
(* used up; the members, the authenticated users, the challenge and the    *)
(* next identifier of a comment; a session that another took the place of; *)
(* the comment that was pushed out of an open room and all that is not     *)
(* one.                                                                    *)
Restored(ep) ==
    CASE app = "tictactoe" -> ep
      [] app = "lottery" -> <<ep.tickets, ep.paused>>
      [] app = "comment_it" -> <<ep.authenticated, ep.comments, ep.next_comment_id>>
      [] app = "comment_board" ->
            <<ep.comments, ep.total_comments, ep.total_locked_value>>
      [] app = "mcp" -> ep
      [] app = "comment" -> <<ep.comments, ep.next_id>>
      [] app = "comments" -> <<ep.next_comment_id, ep.timestamp>>

PushedOut(u) ==
    /\ app = "comments" /\ u.type = "comment"
    /\ episode.next_comment_id = u.comment_id + 1 /\ episode.comments = <<>>

RollbackRestores ==
    [][Undo => /\ RolledBack(Last(trail).undo).ok \/ PushedOut(Last(trail).undo)
               /\ Restored(episode') = Restored(Last(trail).before)]_vars

(* However moves are made and taken back, the board holds the last six     *)
(* moves of the two players in turn: what game.rs relies on when it        *)
(* returns the seventh-last mark to "always current player".               *)
MarksAlternate == app = "tictactoe" => Game!Alternating(episode)

(* The commands of one type on the chain, in order *)
OnTrail(type) == Keep(trail, {e \in ToSet(trail) : e.cmd.type = type})

(* The lottery never promises more than was paid in for the tickets of the *)
(* chain, its winner holds one of them, and no two have an identifier in   *)
(* common, in spite of rollbacks that guess the pool and forget a winner.  *)
PoolBacked ==
    app = "lottery" =>
        /\ Cardinality(DOMAIN episode.tickets) = Len(OnTrail("BuyTicket"))
        /\ episode.prize_pool <= ticket_price * Cardinality(DOMAIN episode.tickets)
        /\ episode.last_winner \in DOMAIN episode.tickets \cup {None}
        /\ episode.winner_paid => episode.last_winner # None
        /\ \A id \in DOMAIN episode.tickets : id < episode.next_ticket_id

(* In comment-it's room, who is authenticated follows from the chain, and  *)
(* no one gets past the limit of challenges, which a reorganisation counts *)
(* again.                                                                  *)
Latest(i, T) == i \in T /\ \A j \in T : j <= i

SessionsFollow ==
    LET changes(k) == {i \in 1..Len(trail) :
            trail[i].by = k /\ trail[i].cmd.type \in {"SubmitResponse", "RevokeSession"}}
        challenges == OnTrail("RequestChallenge") IN
    \A k \in PubKeys :
        /\ k \in episode.authenticated <=>
              \E i \in 1..Len(trail) :
                  Latest(i, changes(k)) /\ trail[i].cmd.type = "SubmitResponse"
        /\ Len(Keep(challenges, {e \in ToSet(challenges) : e.by = k})) <= episode.rate_limits[k]

(* In its older episode, a key has the session that the chain gives it, or *)
(* none if a rollback forgot it.                                           *)
TokensFollow ==
    LET changes(k) == {i \in 1..Len(trail) :
            /\ trail[i].cmd.type \in {"RegisterSession", "RevokeSession"}
            /\ trail[i].cmd.public_key = k} IN
    \A k \in PubKeys :
        episode.valid_sessions[k] # None =>
            \E i \in 1..Len(trail) :
                /\ Latest(i, changes(k))
                /\ trail[i].cmd.type = "RegisterSession"
                /\ trail[i].cmd.token = episode.valid_sessions[k]

(* The comments of a room are those of the chain, numbered from 1 without  *)
(* a gap; an open room shows some of the last ones, all but those that a   *)
(* comment pushed out which was reverted, and the last one always.         *)
RoomSound ==
    LET comments == OnTrail("SubmitComment")
        n == Len(comments)
        Shows(i, author) == episode.comments[i].id = i /\ episode.comments[i].author = author IN
    CASE app = "comment_it" ->
            /\ Len(episode.comments) = n /\ episode.next_comment_id = n + 1
            /\ \A i \in 1..n : Shows(i, comments[i].by)
            /\ SessionsFollow
      [] app = "comment" ->
            /\ Len(episode.comments) = n /\ episode.next_id = n + 1
            /\ \A i \in 1..n : Shows(i, comments[i].cmd.author)
            /\ TokensFollow
      [] app = "comments" ->
            /\ episode.next_comment_id = n + 1
            /\ \A i \in DOMAIN episode.comments :
                  LET c == episode.comments[i] IN
                  /\ c.id \in (n - Window + 1)..n /\ c.id > 0
                  /\ c.author = comments[c.id].by
                  /\ i > 1 => c.id = episode.comments[i - 1].id + 1
            /\ episode.comments # <<>> => Last(episode.comments).id = n
            /\ episode.comment_history = [i \in DOMAIN episode.comments |-> episode.comments[i].id]
      [] OTHER -> TRUE

(* What the board counts as locked is what members and comments of the     *)
(* chain declared, and its locked outputs are the bonds of the comments it *)
(* shows, each under an identifier of its own; others are empty.           *)
BondsOf(es) == Total([i \in DOMAIN es |-> es[i].cmd.bond_amount])

BondsExact ==
    app = "comment_board" =>
        LET comments == OnTrail("SubmitComment")
            locked == episode.locked_utxos IN
        /\ episode.total_locked_value = BondsOf(comments) + BondsOf(OnTrail("JoinRoom"))
        /\ \A v \in DOMAIN locked : locked[v] # 0 =>
              \E i \in 1..Len(comments) : v = Board!CommentBond(episode.comments[i].id)
        /\ episode.total_comments = Len(comments)
        /\ Len(episode.comments) = Len(comments)
        /\ \A i \in 1..Len(comments) :
              LET c == episode.comments[i] IN
              /\ c.author = comments[i].by
              /\ c.bond_amount = comments[i].cmd.bond_amount
              /\ locked[Board!CommentBond(c.id)] = c.bond_amount
              /\ \A j \in 1..(i - 1) : episode.comments[j].id < c.id

=============================================================================
