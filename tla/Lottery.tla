------------------------------- MODULE Lottery -------------------------------
(***************************************************************************)
(* The episode of kas-draw/src/episode.rs: tickets of one price fill a     *)
(* pool, a draw picks a ticket by the hash of the block, and the claim of  *)
(* that ticket empties the pool.  Rollbacks are approximations.            *)
(*                                                                         *)
(* Left out are the numbers of a ticket, which decide nothing once they    *)
(* are valid, and the round, which stays 0.                                *)
(***************************************************************************)
EXTENDS Integers, Sequences, FiniteSets

CONSTANTS
    PubKeys,
    None,                 \* no authorization, no winner
    TicketIds,            \* tickets that a claim may name
    ticket_price,
    draw_interval_secs

(* ok says that the numbers are valid, the amount is the price, and an     *)
(* output, if outputs are known, has that much.                            *)
Commands ==
         [type : {"BuyTicket"}, ok : BOOLEAN]
    \cup [type : {"ClaimPrize"}, ticket_id : TicketIds]
    \cup [type : {"ExecuteDraw", "CloseEpisode"}]

Initialize(participants, time) ==
    [authorized |-> participants, next_draw_time |-> time + draw_interval_secs,
     prize_pool |-> 0, tickets |-> <<>>, next_ticket_id |-> 1,
     last_winner |-> None, winner_paid |-> FALSE, paused |-> FALSE]

Accepts(ep, cmd, auth, time) ==
    /\ ~ ep.paused
    /\ cmd.type = "BuyTicket" => cmd.ok /\ \E i \in DOMAIN ep.authorized : ep.authorized[i] = auth
    /\ cmd.type = "ExecuteDraw" => time >= ep.next_draw_time
    /\ cmd.type = "ClaimPrize" =>
          /\ cmd.ticket_id \in DOMAIN ep.tickets
          /\ cmd.ticket_id = ep.last_winner
          /\ ~ ep.winner_paid

(* hash: the leading bytes of the accepting block's.  The tickets are      *)
(* sorted, so the winner has as many before it as the remainder says.      *)
Drawn(ep, hash) ==
    LET ids == DOMAIN ep.tickets IN
    CHOOSE id \in ids : Cardinality({i \in ids : i < id}) = hash % Cardinality(ids)

Bought(ep, auth) ==
    [ep EXCEPT
        !.tickets = [id \in DOMAIN @ \cup {ep.next_ticket_id} |->
                        IF id = ep.next_ticket_id THEN auth ELSE ep.tickets[id]],
        !.next_ticket_id = @ + 1,
        !.prize_pool = @ + ticket_price]

(* Every ticket ever bought takes part, and without tickets the winner of  *)
(* the last draw stays.                                                    *)
DrawExecuted(ep, time, hash) ==
    [ep EXCEPT
        !.last_winner = IF DOMAIN ep.tickets = {} THEN @ ELSE Drawn(ep, hash),
        !.winner_paid = IF DOMAIN ep.tickets = {} THEN @ ELSE FALSE,
        !.next_draw_time = time + draw_interval_secs]

Executed(ep, cmd, auth, time, hash) ==
    CASE cmd.type = "BuyTicket" -> Bought(ep, auth)
      [] cmd.type = "ExecuteDraw" -> DrawExecuted(ep, time, hash)
      [] cmd.type = "ClaimPrize" ->
            [ep EXCEPT !.prize_pool = 0, !.winner_paid = TRUE]
      [] cmd.type = "CloseEpisode" -> [ep EXCEPT !.paused = TRUE]

RollbackOf(ep, cmd) ==
    CASE cmd.type = "BuyTicket" ->
            [type |-> "UndoBuyTicket", ticket_id |-> ep.next_ticket_id]
      [] cmd.type = "ExecuteDraw" ->
            [type |-> "UndoExecuteDraw", prize_pool_before |-> ep.prize_pool]
      [] cmd.type = "ClaimPrize" -> [type |-> "UndoClaimPrize"]
      [] cmd.type = "CloseEpisode" -> [type |-> "UndoClose"]

Execute(ep, cmd, auth, time, hash) ==
    IF Accepts(ep, cmd, auth, time)
    THEN [ok |-> TRUE, state |-> Executed(ep, cmd, auth, time, hash),
          undo |-> RollbackOf(ep, cmd)]
    ELSE [ok |-> FALSE, state |-> ep, undo |-> None]

Without(tickets, id) == [i \in DOMAIN tickets \ {id} |-> tickets[i]]

(* Mutant of Unbought for PoolBacked: the ticket's price stays in the pool *)
Unbought_Kept(ep, id) == [ep EXCEPT !.tickets = Without(@, id)]

(* The identifier of the ticket is not given out again *)
Unbought(ep, id) ==
    [ep EXCEPT !.tickets = Without(@, id),
               !.prize_pool = IF @ > ticket_price THEN @ - ticket_price ELSE 0]

(* A draw is taken back to no winner, whoever had won the draw before, and *)
(* a claim to a pool of one ticket, whatever was in it.                    *)
RolledBack(ep, u) ==
    CASE u.type = "UndoBuyTicket" -> Unbought(ep, u.ticket_id)
      [] u.type = "UndoExecuteDraw" ->
            [ep EXCEPT !.prize_pool = u.prize_pool_before,
                       !.last_winner = None, !.winner_paid = FALSE]
      [] u.type = "UndoClaimPrize" ->
            [ep EXCEPT !.prize_pool = ticket_price, !.winner_paid = FALSE]
      [] u.type = "UndoClose" -> [ep EXCEPT !.paused = FALSE]

Rollback(ep, u) ==
    IF u.type = "UndoBuyTicket" /\ u.ticket_id \notin DOMAIN ep.tickets
    THEN [ok |-> FALSE, state |-> ep]
    ELSE [ok |-> TRUE, state |-> RolledBack(ep, u)]
=============================================================================
