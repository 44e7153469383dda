-------------------------------- MODULE Index --------------------------------
(***************************************************************************)
(* The indexer of comment rooms (kdapp-indexer, with the store in memory), *)
(* which writes down what its engine tells it and ignores rollbacks, and   *)
(* the web page of comment-it that shows a room from it, and what its      *)
(* WebSocket brings.  The page's functions are async: a load asks for a    *)
(* snapshot, then for later comments, and then starts a timer; others may  *)
(* be under way, and each is a request that the indexer answers at one     *)
(* moment and the page renders at another.                                 *)
(*                                                                         *)
(* The time of a block need not be later than that of the block before it. *)
(***************************************************************************)
EXTENDS Integers, FiniteSets, Filters

CONSTANTS
    Episodes, PubKeys, None, MAX_ATTEMPTS, Times,
    participants,              \* of every room
    RecentRows, Page,          \* rows that the page asks for, 50 and 200
    Fetches,                   \* requests that the page may have under way
    MaxExecuted, MaxTroubles, MaxLoads, MaxNews,   \* bounds of the model,
    MaxEvents                  \* and of all of them together

Room == INSTANCE CommentRoom

VARIABLES
    rooms,                     \* of the engine, [created_at, state] or None
    chain, executed,           \* its commands, each with its rollback object
    episodes, comments, memberships, recent_order,      \* the store
    cards, news,               \* the page's, of the index and the WebSocket
    fetch, timer,              \* its requests, and the room it polls, or None
    last_seen,                 \* what the browser keeps
    loads, feed,               \* history: loads of the page, and the last one
    undone, stale,             \* history: identifiers of comments, and rooms
                               \* that lost a block since they were written
    gone, again,               \* history: <<key, room>> that lost a session,
                               \* and rooms that lost their first block
    disorder,                  \* history: rooms whose comments are not in the
                               \* order of their times
    troubles

storeVars == <<episodes, comments, memberships, recent_order>>
pageVars == <<cards, news, fetch, timer, last_seen, loads, feed>>
engineVars == <<rooms, chain, executed>>
historyVars == <<undone, stale, gone, again, disorder>>

Bounded == executed + troubles + loads + Cardinality(news) < MaxEvents

Trouble == Bounded /\ troubles < MaxTroubles /\ troubles' = troubles + 1

-----------------------------------------------------------------------------
(* The store *)

Put(f, x, y) == [z \in DOMAIN f \cup {x} |-> IF z = x THEN y ELSE f[z]]

(* A room takes the place of another that was created at the same time *)
upsert_episode(e, room) ==
    /\ episodes' = [episodes EXCEPT ![e] =
           [created_at |-> room.created_at,
            authenticated_count |-> Cardinality(room.state.authenticated)]]
    /\ recent_order' = Put(recent_order, room.created_at, e)
    /\ stale' = stale \ {e}

(* Mutant of add_comment for IndexExplained: a row is written once *)
add_comment_Mutant(e, row) ==
    comments' = [comments EXCEPT ![e] = IF row.id \in DOMAIN @ THEN @ ELSE Put(@, row.id, row)]

add_comment(e, row) == comments' = [comments EXCEPT ![e] = Put(@, row.id, row)]

Rows(e) == {comments[e][i] : i \in DOMAIN comments[e]}

Ids(rows) == {c.id : c \in rows}
Newest(rows, n) == {c \in rows : Cardinality({d \in rows : d.id > c.id}) < n}
Oldest(rows, n) == {c \in rows : Cardinality({d \in rows : d.id < c.id}) < n}

get_comments_after(e, after, limit) ==
    Oldest({c \in Rows(e) : c.timestamp > after}, limit)

(* What the routes answer *)
episode_snapshot(e) == IF episodes[e] = None THEN {} ELSE Newest(Rows(e), RecentRows)
episode_comments(e, after) == get_comments_after(e, after, Page)
me(k, e) == <<k, e>> \in memberships

get_recent == {e \in Episodes : \E t \in DOMAIN recent_order : recent_order[t] = e}

-----------------------------------------------------------------------------
(* The engine and IndexerHandler.  Commands that the room refuses change   *)
(* nothing and are left out.                                               *)

Chained(e, cmd, by, undo) ==
    /\ Bounded /\ executed < MaxExecuted
    /\ executed' = executed + 1
    /\ chain' = Append(chain, [episode |-> e, cmd |-> cmd, by |-> by, undo |-> undo])
    /\ UNCHANGED <<pageVars, undone, again, troubles>>

on_initialize ==
    \E e \in Episodes, time \in Times :
        LET room == [created_at |-> time, state |-> Room!Initialize(participants, time)] IN
        /\ rooms[e] = None
        /\ rooms' = [rooms EXCEPT ![e] = room]
        /\ Chained(e, [type |-> "NewEpisode"], None, None)
        /\ upsert_episode(e, room)
        /\ UNCHANGED <<comments, memberships, gone, disorder>>

on_command ==
    \E e \in Episodes, cmd \in Room!Commands, k \in PubKeys, time \in Times :
        LET r == Room!Execute(rooms[e].state, cmd, k, time)
            room == [rooms[e] EXCEPT !.state = r.state] IN
        /\ rooms[e] # None
        /\ r.ok
        /\ rooms' = [rooms EXCEPT ![e] = room]
        /\ Chained(e, cmd, k, r.undo)
        /\ IF cmd.type = "SubmitComment"
           THEN LET row == r.state.comments[Len(r.state.comments)] IN
                /\ add_comment(e, row)
                /\ disorder' = IF \E i \in DOMAIN rooms[e].state.comments :
                                      rooms[e].state.comments[i].timestamp >= time
                               THEN disorder \cup {e} ELSE disorder
                /\ UNCHANGED <<episodes, memberships, recent_order, gone, stale>>
           ELSE /\ upsert_episode(e, room)
                /\ memberships' = IF cmd.type = "SubmitResponse"
                                  THEN memberships \cup {<<k, e>>} ELSE memberships
                /\ gone' = IF cmd.type = "RevokeSession" THEN gone \cup {<<k, e>>} ELSE gone
                /\ UNCHANGED <<comments, disorder>>

(* on_rollback leaves the store as it is *)
Revert ==
    LET b == chain[Len(chain)]
        e == b.episode IN
    /\ chain # <<>> /\ Trouble
    /\ chain' = SubSeq(chain, 1, Len(chain) - 1)
    /\ rooms' = [rooms EXCEPT ![e] =
           IF b.cmd.type = "NewEpisode" THEN None
           ELSE [rooms[e] EXCEPT !.state = Room!Rollback(rooms[e].state, b.undo).state]]
    /\ undone' = IF b.cmd.type = "SubmitComment"
                 THEN [undone EXCEPT ![e] = @ \cup {b.undo.comment_id}] ELSE undone
    /\ stale' = stale \cup {e}
    /\ gone' = IF b.cmd.type = "SubmitResponse" THEN gone \cup {<<b.by, e>>} ELSE gone
    /\ again' = IF b.cmd.type = "NewEpisode" THEN again \cup {e} ELSE again
    /\ UNCHANGED <<executed, storeVars, pageVars, disorder>>

(* A store in memory is empty when the process starts again, and blocks    *)
(* from before it are not reverted.                                        *)
Restart ==
    /\ Trouble
    /\ rooms' = [e \in Episodes |-> None] /\ chain' = <<>>
    /\ episodes' = [e \in Episodes |-> None] /\ comments' = [e \in Episodes |-> <<>>]
    /\ memberships' = {} /\ recent_order' = <<>>
    /\ undone' = [e \in Episodes |-> undone[e] \cup DOMAIN comments[e]]
    /\ UNCHANGED <<executed, pageVars, stale, gone, again, disorder>>

-----------------------------------------------------------------------------
(* The page.  displayedComments has the cards' keys, of a room and a number *)

displayedComments == news \cup {<<d.episode, d.comment.id>> : d \in cards}

renderIndexerComment(e, rows) ==
    cards' = cards \cup {[episode |-> e, comment |-> c] :
                             c \in {c \in rows : <<e, c.id>> \notin displayedComments}}

Latest(rows) == CHOOSE t \in {c.timestamp : c \in rows} : \A c \in rows : c.timestamp <= t

(* A snapshot may take it back *)
setLastSeenTs(e, rows) ==
    last_seen' = IF rows = {} THEN last_seen ELSE [last_seen EXCEPT ![e] = Latest(rows)]

Asked(load, path, e, after) ==
    [load |-> load, path |-> path, episode |-> e, after |-> after, answer |-> None]

(* What was displayed goes, and what is under way stays *)
loadFeedForEpisode ==
    \E f \in Fetches, e \in Episodes :
        /\ fetch[f] = None
        /\ Bounded /\ loads < MaxLoads
        /\ loads' = loads + 1
        /\ cards' = {} /\ news' = {}
        /\ fetch' = [fetch EXCEPT ![f] = Asked(loads + 1, "episode", e, 0)]
        /\ feed' = [episode |-> e, done |-> feed.done, oldest |-> {}]
        /\ UNCHANGED <<engineVars, storeVars, timer, last_seen, historyVars, troubles>>

(* Every six seconds, whether or not the last answer came *)
Tick ==
    \E f \in Fetches :
        /\ timer # None
        /\ fetch[f] = None
        /\ fetch' = [fetch EXCEPT ![f] = Asked(0, "comments", timer, last_seen[timer])]
        /\ UNCHANGED <<engineVars, storeVars, cards, news, timer, last_seen, loads, feed,
                       historyVars, troubles>>

(* The indexer *)
Answer ==
    \E f \in Fetches :
        LET q == fetch[f]
            rows == IF q.path = "episode" THEN episode_snapshot(q.episode)
                    ELSE episode_comments(q.episode, q.after) IN
        /\ q # None /\ q.answer = None
        /\ fetch' = [fetch EXCEPT ![f] = [q EXCEPT !.answer =
               [rows |-> rows,
                \* history: older ones were not loaded
                oldest |-> IF q.path = "episode" THEN Ids(Rows(q.episode) \ rows) ELSE {}]]]
        /\ UNCHANGED <<engineVars, storeVars, cards, news, timer, last_seen, loads, feed,
                       historyVars, troubles>>

(* The snapshot is rendered, of the room that is shown or another, and the *)
(* load goes on to pollNewComments.                                        *)
renderSnapshot ==
    \E f \in Fetches :
        LET q == fetch[f]
            e == q.episode IN
        /\ q # None /\ q.answer # None /\ q.path = "episode"
        /\ renderIndexerComment(e, q.answer.rows)
        /\ setLastSeenTs(e, q.answer.rows)
        /\ fetch' = [fetch EXCEPT ![f] = Asked(q.load, "comments", e, last_seen'[e])]
        /\ feed' = IF e = feed.episode
                   THEN [feed EXCEPT !.oldest = @ \cup q.answer.oldest] ELSE feed
        /\ UNCHANGED <<engineVars, storeVars, news, timer, loads, historyVars, troubles>>

(* A load ends with startPolling, which stops the timer of another *)
pollNewComments ==
    \E f \in Fetches :
        LET q == fetch[f] IN
        /\ q # None /\ q.answer # None /\ q.path = "comments"
        /\ renderIndexerComment(q.episode, q.answer.rows)
        /\ setLastSeenTs(q.episode, q.answer.rows)
        /\ fetch' = [fetch EXCEPT ![f] = None]
        /\ timer' = IF q.load # 0 THEN q.episode ELSE timer
        /\ feed' = IF q.load = loads THEN [feed EXCEPT !.done = loads] ELSE feed
        /\ UNCHANGED <<engineVars, storeVars, news, loads, historyVars, troubles>>

(* A request that fails ends its load or poll *)
Fail ==
    \E f \in Fetches :
        /\ fetch[f] # None /\ Trouble
        /\ fetch' = [fetch EXCEPT ![f] = None]
        /\ UNCHANGED <<engineVars, storeVars, cards, news, timer, last_seen, loads, feed,
                       historyVars>>

(* The peer's WebSocket brings a comment of any room.  The peer's engine   *)
(* may be ahead of the indexer's, or behind.                               *)
handleNewComment ==
    \E e \in Episodes, id \in 1 .. MaxNews :
        /\ Bounded /\ Cardinality(news) < MaxNews
        /\ <<e, id>> \notin displayedComments
        /\ news' = news \cup {<<e, id>>}
        /\ UNCHANGED <<engineVars, storeVars, cards, fetch, timer, last_seen, loads, feed,
                       historyVars, troubles>>

-----------------------------------------------------------------------------
Init ==
    /\ rooms = [e \in Episodes |-> None] /\ chain = <<>> /\ executed = 0
    /\ episodes = [e \in Episodes |-> None] /\ comments = [e \in Episodes |-> <<>>]
    /\ memberships = {} /\ recent_order = <<>>
    /\ cards = {} /\ news = {} /\ fetch = [f \in Fetches |-> None] /\ timer = None
    /\ last_seen = [e \in Episodes |-> 0]
    /\ loads = 0 /\ feed = [episode |-> None, done |-> 0, oldest |-> {}]
    /\ undone = [e \in Episodes |-> {}]
    /\ stale = {} /\ gone = {} /\ again = {} /\ disorder = {} /\ troubles = 0

Next ==
    \/ on_initialize \/ on_command \/ Revert \/ Restart
    \/ loadFeedForEpisode \/ Tick \/ Answer \/ renderSnapshot \/ pollNewComments
    \/ Fail \/ handleNewComment

-----------------------------------------------------------------------------
(* The index of a room is what the engine has, but for what a block that   *)
(* left the chain had written: a count of sessions that is too high or too *)
(* low until the next command but a comment, comments after the last one   *)
(* of the room, and members whose session was reverted or revoked.  It     *)
(* lists each room as recent, once, unless another was created at the same *)
(* time or its first block was reverted.                                   *)
StoreExplained(e) ==
    LET room == rooms[e]
        session(k) == room # None /\ k \in room.state.authenticated
        kept == IF room = None THEN {} ELSE Contents(room.state.comments) IN
    /\ room # None /\ e \notin stale =>
          episodes[e] = [created_at |-> room.created_at,
                         authenticated_count |-> Cardinality(room.state.authenticated)]
    /\ kept \subseteq Rows(e)
    /\ \A c \in Rows(e) \ kept :
          c.id \in undone[e] /\ (room # None => c.id >= room.state.next_comment_id)
    /\ \A k \in PubKeys :
          /\ session(k) => me(k, e)
          /\ me(k, e) /\ ~ session(k) => <<k, e>> \in gone
    /\ episodes[e] # None /\ e \notin get_recent =>
          LET other == recent_order[episodes[e].created_at] IN
          other \in again \/ episodes[other].created_at = episodes[e].created_at
    /\ \A t \in DOMAIN recent_order :
          recent_order[t] = e => t = episodes[e].created_at \/ e \in again

(* A card of the index is a comment of its room, unless that was reverted. *)
(* Once the last load came to its end, what the page does not display of   *)
(* the room that was loaded is later than all that it has seen, so that    *)
(* the next poll asks for it, or older than what a load of it brought,     *)
(* whatever else was under way: if no comment of the room was reverted and *)
(* their times increase, since the page asks for later times than it has   *)
(* seen and takes a number for a comment.                                  *)
Missed(e) ==
    {c \in Contents(rooms[e].state.comments) :
        <<e, c.id>> \notin displayedComments /\ c.id \notin feed.oldest}

FeedExplained ==
    /\ \A d \in cards :
          \/ rooms[d.episode] # None /\ d.comment \in Contents(rooms[d.episode].state.comments)
          \/ d.comment.id \in undone[d.episode]
    /\ LET e == feed.episode IN
       /\ e # None /\ rooms[e] # None
       /\ feed.done = loads /\ undone[e] = {} /\ e \notin disorder
       => \A c \in Missed(e) : c.timestamp > last_seen[e]

IndexExplained == (\A e \in Episodes : StoreExplained(e)) /\ FeedExplained
=============================================================================
