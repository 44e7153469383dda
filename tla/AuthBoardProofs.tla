--------------------------- MODULE AuthBoardProofs ---------------------------
(***************************************************************************)
(* Authentication in kaspa-auth and in comment-board, and the wallet and   *)
(* the bond scripts of the latter, proved for any numbers of participants, *)
(* blocks, outputs, bonds and bytes.                                       *)
(*                                                                         *)
(* AuthPeer: attempts keep the limit of challenges.  They are dropped when *)
(* they are old and are not taken back by a rollback, while RateBound      *)
(* speaks of the challenges on the chain.  Counted relates the two; it     *)
(* holds from the time of the last command on, so that a block that comes  *)
(* to the peer later must not have an earlier time, also after a           *)
(* reorganisation: Follows says so of all blocks that the peer has not     *)
(* executed.                                                               *)
(*                                                                         *)
(* BoardSystem: PeopleInv says of every participant what it has sent, what *)
(* of it is in blocks and what it heard back.  WalletInv has the node's    *)
(* side of the wallet as well: an output that can still be spent was not   *)
(* spent by anybody, which is what a bond in the books rests on.           *)
(***************************************************************************)
EXTENDS AuthPeer, BoardSystem, FilterLemmas

Episodes ==
    [owner : Participants, challenge : Challenges \cup {None},
     is_authenticated : BOOLEAN, session_token : SessionTokens \cup {None},
     challenge_timestamp : Times, rate_limits : [Participants -> Seq(Times)]]

Commands ==
         [name : {"RequestChallenge"}]
    \cup [name : {"SubmitResponse"}, nonce : Challenges]
    \cup [name : {"RevokeSession"}, token : SessionTokens]

Blocks == [cmd : Commands, by : Participants, time : Times]
Entries == [block : Blocks, rollback : Rollbacks \cup {None}, before : Episodes]
Engines == [episode : Episodes, done : Seq(Entries)]

TypeOK ==
    /\ clock \in Times
    /\ chain \in Seq(Blocks)
    /\ engine \in [Peers -> Engines]
    /\ mirror \in [Peers -> Episodes]
    /\ verifying \in [Peers -> [nonce : Challenges, owner : Participants] \cup {None}]
    /\ revoking \in [Peers -> [token : SessionTokens, owner : Participants] \cup {None}]
    /\ touched \in [Peers -> BOOLEAN]
    /\ told = [p \in Peers |-> told[p]]

-----------------------------------------------------------------------------
(* An episode with a sound session, whose challenge has its time *)
Good(ep) ==
    /\ Session(ep)
    /\ ep.challenge # None => ep.challenge.time = ep.challenge_timestamp

(* The episode of an engine after the i-th of its blocks *)
After(en, i) == IF i = Len(en.done) THEN en.episode ELSE en.done[i + 1].before

Reverted(ep, u) == IF u = None THEN ep ELSE RolledBack(ep, u)

(* Each rollback object leads back to what the episode showed before. *)
Trailed(en) ==
    /\ Good(en.episode)
    /\ \A i \in 1..Len(en.done) :
          /\ Good(en.done[i].before)
          /\ View(Reverted(After(en, i), en.done[i].rollback)) = View(en.done[i].before)

(* Block i of the chain and all before it are the engine's. *)
Agrees(en, c, i) == i <= Len(en.done) /\ \A j \in 1..i : c[j] = en.done[j].block

(* w is no earlier than any executed block, no later than any other. *)
Follows(en, c, w) ==
    /\ \A i \in 1..Len(en.done) : en.done[i].block.time <= w
    /\ \A i \in 1..Len(c) : Agrees(en, c, i) \/ w <= c[i].time

IsIssue(d, by) == d.rollback # None /\ d.rollback.name = "Challenge" /\ d.block.by = by

IssuedSince(en, by, t) ==
    {i \in 1..Len(en.done) : IsIssue(en.done[i], by) /\ t <= en.done[i].block.time}

IssuedWithin(en, by, t) ==
    {i \in IssuedSince(en, by, t) : en.done[i].block.time <= t + WINDOW_SECS}

Since(t) == {u \in Times : t <= u}
Held(ep, by, t) == Len(Keep(ep.rate_limits[by], Since(t)))

(* In a window that reaches w, every challenge is held against its key. *)
Counted(en, w) ==
    \A by \in Participants, t \in Times :
        w <= t + WINDOW_SECS => Cardinality(IssuedSince(en, by, t)) <= Held(en.episode, by, t)

Limited(en) ==
    \A by \in Participants, t \in Times :
        Cardinality(IssuedWithin(en, by, t)) <= MAX_ATTEMPTS

InTime ==
    /\ \A i \in 1..Len(chain) : chain[i].time <= clock
    /\ \A j \in 1..Len(chain), i \in 1..Len(chain) : i < j => chain[i].time <= chain[j].time

Rated(en) == Limited(en) /\ \E w \in Times : w <= clock /\ Follows(en, chain, w) /\ Counted(en, w)

IInv ==
    /\ TypeOK
    /\ InTime
    /\ \A p \in Peers : Trailed(engine[p]) /\ Good(mirror[p]) /\ Rated(engine[p])
    /\ MirrorExplained
-----------------------------------------------------------------------------
(* The smallest time after 0 *)
LEMMA StartTime == Start \in Times
<1> DEFINE T == Times \ {0}
<1>1. T \in SUBSET Nat /\ T # {}
  BY SimpleAuthAssumption, AuthPeerAssumption
<1>2. \E t \in T : \A u \in T : t <= u
  <2> HIDE DEF T
  <2> QED  BY <1>1, LeastNatural
<1> QED  BY <1>2 DEF Start

(* Attempts stay a list of times. *)
LEMMA RecentType ==
  ASSUME NEW s \in Seq(Times), NEW t
  PROVE  Recent(s, t) \in Seq(Times)
BY KeepSeq DEF Recent

LEMMA LimitsType ==
  ASSUME NEW ep \in Episodes, NEW by \in Participants, NEW t \in Times
  PROVE  /\ IncrementRateLimit(ep, by, t) \in [Participants -> Seq(Times)]
         /\ IncrementRateLimit(ep, by, t)[by] = Recent(Append(ep.rate_limits[by], t), t)
         /\ \A a \in Participants \ {by} :
               IncrementRateLimit(ep, by, t)[a] = ep.rate_limits[a]
<1>1. ep.rate_limits \in [Participants -> Seq(Times)]
  BY DEF Episodes
<1>2. ep.rate_limits[by] \in Seq(Times)
  BY <1>1
<1>3. Append(ep.rate_limits[by], t) \in Seq(Times)
  BY <1>2, AppendProperties
<1>4. Recent(Append(ep.rate_limits[by], t), t) \in Seq(Times)
  BY <1>3, RecentType
<1> QED  BY <1>1, <1>4 DEF IncrementRateLimit

(* What a command does to each field of an episode *)
LEMMA RequestFields ==
  ASSUME NEW ep \in Episodes, NEW cmd \in Commands, NEW by \in Participants, NEW t \in Times,
         cmd.name = "RequestChallenge"
  PROVE  LET new == Executed(ep, cmd, by, t) IN
         /\ new \in Episodes
         /\ new.challenge = [time |-> t, by |-> by] /\ new.challenge \in Challenges
         /\ new.challenge_timestamp = t
         /\ new.is_authenticated = ep.is_authenticated
         /\ new.session_token = ep.session_token
         /\ new.rate_limits = IncrementRateLimit(ep, by, t)
         /\ Rollback(ep, cmd) = [name |-> "Challenge", challenge |-> ep.challenge,
                                 timestamp |-> ep.challenge_timestamp]
         /\ Rollback(ep, cmd) \in Rollbacks
<1> DEFINE new == Executed(ep, cmd, by, t)
           limits == IncrementRateLimit(ep, by, t)
<1>1. limits \in [Participants -> Seq(Times)]
  BY LimitsType
<1>2. new = [ep EXCEPT !.challenge = [time |-> t, by |-> by], !.challenge_timestamp = t,
                       !.owner = by, !.rate_limits = limits]
  BY DEF Executed
<1> HIDE DEF limits
<1>3. [time |-> t, by |-> by] \in Challenges
  BY DEF Challenges
<1>4. /\ new \in Episodes
      /\ new.challenge = [time |-> t, by |-> by]
      /\ new.challenge_timestamp = t
      /\ new.is_authenticated = ep.is_authenticated
      /\ new.session_token = ep.session_token
      /\ new.rate_limits = limits
  BY <1>1, <1>2, <1>3 DEF Episodes
<1>5. Rollback(ep, cmd) = [name |-> "Challenge", challenge |-> ep.challenge,
                           timestamp |-> ep.challenge_timestamp]
  BY DEF Rollback
<1>6. Rollback(ep, cmd) \in Rollbacks
  BY <1>5 DEF Rollbacks, Episodes
<1> QED  BY <1>3, <1>4, <1>5, <1>6 DEF limits

LEMMA ResponseFields ==
  ASSUME NEW ep \in Episodes, NEW cmd \in Commands, NEW by, NEW t, NEW moment,
         cmd.name = "SubmitResponse", Accepts(ep, cmd, by, t, moment)
  PROVE  LET new == Executed(ep, cmd, by, t) IN
         /\ new \in Episodes
         /\ ep.challenge \in Challenges /\ ~ ep.is_authenticated
         /\ new.challenge = ep.challenge
         /\ new.challenge_timestamp = ep.challenge_timestamp
         /\ new.is_authenticated = TRUE
         /\ new.session_token = SessionToken(ep) /\ new.session_token \in SessionTokens
         /\ new.rate_limits = ep.rate_limits
         /\ Rollback(ep, cmd) = [name |-> "Authentication", status |-> ep.is_authenticated,
                                 token |-> ep.session_token]
         /\ Rollback(ep, cmd) \in Rollbacks
<1> DEFINE new == Executed(ep, cmd, by, t)
           token == SessionToken(ep)
<1>1. ep.challenge = cmd.nonce /\ ~ ep.is_authenticated
  BY DEF Accepts
<1>2. cmd.nonce \in Challenges
  BY DEF Commands
<1>3. token \in SessionTokens
  BY <1>1, <1>2 DEF SessionToken, SessionTokens, Episodes
<1>4. new = [ep EXCEPT !.is_authenticated = TRUE, !.session_token = token]
  BY DEF Executed
<1> HIDE DEF token
<1>5. /\ new \in Episodes
      /\ new.challenge = ep.challenge
      /\ new.challenge_timestamp = ep.challenge_timestamp
      /\ new.is_authenticated = TRUE
      /\ new.session_token = token
      /\ new.rate_limits = ep.rate_limits
  BY <1>3, <1>4 DEF Episodes
<1>6. Rollback(ep, cmd) = [name |-> "Authentication", status |-> ep.is_authenticated,
                           token |-> ep.session_token]
  BY DEF Rollback
<1>7. Rollback(ep, cmd) \in Rollbacks
  BY <1>6 DEF Rollbacks, Episodes
<1> QED  BY <1>1, <1>2, <1>3, <1>5, <1>6, <1>7 DEF token

LEMMA RevocationFields ==
  ASSUME NEW ep \in Episodes, NEW cmd \in Commands, NEW by, NEW t, NEW moment,
         cmd.name = "RevokeSession", Accepts(ep, cmd, by, t, moment)
  PROVE  LET new == Executed(ep, cmd, by, t) IN
         /\ new \in Episodes
         /\ ep.is_authenticated
         /\ new.challenge = ep.challenge
         /\ new.challenge_timestamp = ep.challenge_timestamp
         /\ new.is_authenticated = FALSE
         /\ new.session_token = None
         /\ new.rate_limits = ep.rate_limits
         /\ Rollback(ep, cmd) = [name |-> "SessionRevoked", status |-> ep.is_authenticated,
                                 token |-> ep.session_token]
         /\ Rollback(ep, cmd) \in Rollbacks
<1> DEFINE new == Executed(ep, cmd, by, t)
<1>1. ep.is_authenticated
  BY DEF Accepts
<1>2. new = [ep EXCEPT !.is_authenticated = FALSE, !.session_token = None]
  BY DEF Executed
<1>3. /\ new \in Episodes
      /\ new.challenge = ep.challenge
      /\ new.challenge_timestamp = ep.challenge_timestamp
      /\ new.is_authenticated = FALSE
      /\ new.session_token = None
      /\ new.rate_limits = ep.rate_limits
  BY <1>2 DEF Episodes
<1>4. Rollback(ep, cmd) = [name |-> "SessionRevoked", status |-> ep.is_authenticated,
                           token |-> ep.session_token]
  BY DEF Rollback
<1>5. Rollback(ep, cmd) \in Rollbacks
  BY <1>4 DEF Rollbacks, Episodes
<1> QED  BY <1>1, <1>3, <1>4, <1>5

(* No record of a challenge, a token or a rollback is None. *)
LEMMA NotNone ==
  /\ \A c \in Challenges : c # None
  /\ \A c \in SessionTokens : c # None
  /\ \A u \in Rollbacks : u # None
BY SimpleAuthAssumption

LEMMA CommandNames ==
  ASSUME NEW cmd \in Commands
  PROVE  cmd.name \in {"RequestChallenge", "SubmitResponse", "RevokeSession"}
BY DEF Commands
(* What is shown of an episode decides whether it is good, and what a      *)
(* rollback object leaves to be shown.                                     *)
LEMMA ViewGood ==
  ASSUME NEW a \in Episodes, NEW b \in Episodes, View(a) = View(b), Good(a)
  PROVE  Good(b)
<1>1. /\ a.challenge = b.challenge /\ a.challenge_timestamp = b.challenge_timestamp
      /\ a.is_authenticated = b.is_authenticated /\ a.session_token = b.session_token
  BY DEF View
<1> QED  BY <1>1 DEF Good, Session

LEMMA RevertedFields ==
  ASSUME NEW ep \in Episodes, NEW u \in Rollbacks
  PROVE  /\ RolledBack(ep, u) \in Episodes
         /\ RolledBack(ep, u).rate_limits = ep.rate_limits
         /\ View(RolledBack(ep, u)) =
               IF u.name = "Challenge"
               THEN <<u.challenge, u.timestamp, ep.is_authenticated, ep.session_token>>
               ELSE <<ep.challenge, ep.challenge_timestamp, u.status, u.token>>
<1>1. CASE u.name = "Challenge"
  <2>1. u.challenge \in Challenges \cup {None} /\ u.timestamp \in Times
    BY <1>1 DEF Rollbacks
  <2>2. RolledBack(ep, u) =
           [ep EXCEPT !.challenge = u.challenge, !.challenge_timestamp = u.timestamp]
    BY <1>1 DEF RolledBack
  <2> QED  BY <1>1, <2>1, <2>2 DEF Episodes, View
<1>2. CASE u.name # "Challenge"
  <2>1. u.status \in BOOLEAN /\ u.token \in SessionTokens \cup {None}
    BY <1>2 DEF Rollbacks
  <2>2. RolledBack(ep, u) =
           [ep EXCEPT !.is_authenticated = u.status, !.session_token = u.token]
    BY <1>2 DEF RolledBack
  <2> QED  BY <1>2, <2>1, <2>2 DEF Episodes, View
<1> QED  BY <1>1, <1>2

LEMMA RevertedType ==
  ASSUME NEW ep \in Episodes, NEW u \in Rollbacks \cup {None}
  PROVE  Reverted(ep, u) \in Episodes /\ Reverted(ep, u).rate_limits = ep.rate_limits
BY RevertedFields DEF Reverted

LEMMA ViewReverted ==
  ASSUME NEW a \in Episodes, NEW b \in Episodes, View(a) = View(b), NEW u \in Rollbacks \cup {None}
  PROVE  View(Reverted(a, u)) = View(Reverted(b, u))
<1>1. CASE u = None
  BY <1>1 DEF Reverted
<1>2. CASE u # None
  <2>1. u \in Rollbacks /\ Reverted(a, u) = RolledBack(a, u) /\ Reverted(b, u) = RolledBack(b, u)
    BY <1>2 DEF Reverted
  <2>2. /\ a.challenge = b.challenge /\ a.challenge_timestamp = b.challenge_timestamp
        /\ a.is_authenticated = b.is_authenticated /\ a.session_token = b.session_token
    BY DEF View
  <2> QED  BY <2>1, <2>2, RevertedFields
<1> QED  BY <1>1, <1>2

(* A command that is accepted keeps an episode good, and its rollback      *)
(* object brings back what was shown.                                      *)
LEMMA ExecutedGood ==
  ASSUME NEW ep \in Episodes, NEW cmd \in Commands, NEW by \in Participants,
         NEW t \in Times, NEW moment, Accepts(ep, cmd, by, t, moment), Good(ep)
  PROVE  /\ Executed(ep, cmd, by, t) \in Episodes
         /\ Good(Executed(ep, cmd, by, t))
         /\ Rollback(ep, cmd) \in Rollbacks
         /\ View(RolledBack(Executed(ep, cmd, by, t), Rollback(ep, cmd))) = View(ep)
<1> DEFINE new == Executed(ep, cmd, by, t)
           u == Rollback(ep, cmd)
<1>0. Session(ep) /\ (ep.challenge # None => ep.challenge.time = ep.challenge_timestamp)
  BY DEF Good
<1>1. CASE cmd.name = "RequestChallenge"
  <2>1. /\ new \in Episodes
        /\ new.challenge = [time |-> t, by |-> by] /\ new.challenge \in Challenges
        /\ new.challenge_timestamp = t
        /\ new.is_authenticated = ep.is_authenticated
        /\ new.session_token = ep.session_token
        /\ u = [name |-> "Challenge", challenge |-> ep.challenge,
                timestamp |-> ep.challenge_timestamp]
        /\ u \in Rollbacks
    BY <1>1, RequestFields
  <2> HIDE DEF new, u
  <2>2. Good(new)
    BY <1>0, <2>1, NotNone DEF Good, Session
  <2>3. View(RolledBack(new, u)) =
           <<ep.challenge, ep.challenge_timestamp, ep.is_authenticated, ep.session_token>>
    BY <2>1, RevertedFields
  <2>4. View(RolledBack(new, u)) = View(ep)
    BY <2>3 DEF View
  <2> QED  BY <2>1, <2>2, <2>4 DEF new, u
<1>2. CASE cmd.name = "SubmitResponse"
  <2>1. /\ new \in Episodes
        /\ ep.challenge \in Challenges /\ ~ ep.is_authenticated
        /\ new.challenge = ep.challenge
        /\ new.challenge_timestamp = ep.challenge_timestamp
        /\ new.is_authenticated = TRUE
        /\ new.session_token = SessionToken(ep) /\ new.session_token \in SessionTokens
        /\ u = [name |-> "Authentication", status |-> ep.is_authenticated,
                token |-> ep.session_token]
        /\ u \in Rollbacks
    BY <1>2, ResponseFields
  <2> HIDE DEF new, u
  <2>2. new.session_token.time = ep.challenge_timestamp
        /\ new.session_token.challenge = ep.challenge
    BY <2>1 DEF SessionToken
  <2>3. Good(new)
    BY <1>0, <2>1, <2>2, NotNone DEF Good, Session
  <2>4. View(RolledBack(new, u)) =
           <<ep.challenge, ep.challenge_timestamp, ep.is_authenticated, ep.session_token>>
    BY <2>1, RevertedFields
  <2>5. View(RolledBack(new, u)) = View(ep)
    BY <2>4 DEF View
  <2> QED  BY <2>1, <2>3, <2>5 DEF new, u
<1>3. CASE cmd.name = "RevokeSession"
  <2>1. /\ new \in Episodes
        /\ ep.is_authenticated
        /\ new.challenge = ep.challenge
        /\ new.challenge_timestamp = ep.challenge_timestamp
        /\ new.is_authenticated = FALSE
        /\ new.session_token = None
        /\ u = [name |-> "SessionRevoked", status |-> ep.is_authenticated,
                token |-> ep.session_token]
        /\ u \in Rollbacks
    BY <1>3, RevocationFields
  <2> HIDE DEF new, u
  <2>2. Good(new)
    BY <1>0, <2>1 DEF Good, Session
  <2>3. View(RolledBack(new, u)) =
           <<ep.challenge, ep.challenge_timestamp, ep.is_authenticated, ep.session_token>>
    <3>1. u.name # "Challenge" /\ u.status = ep.is_authenticated /\ u.token = ep.session_token
      BY <2>1
    <3>2. View(RolledBack(new, u)) = <<new.challenge, new.challenge_timestamp, u.status, u.token>>
      <4>1. new \in Episodes /\ u \in Rollbacks
        BY <2>1
      <4>2. View(RolledBack(new, u)) =
               IF u.name = "Challenge"
               THEN <<u.challenge, u.timestamp, new.is_authenticated, new.session_token>>
               ELSE <<new.challenge, new.challenge_timestamp, u.status, u.token>>
        BY <4>1, RevertedFields
      <4> QED  BY <3>1, <4>2
    <3> QED  BY <2>1, <3>1, <3>2
  <2>4. View(RolledBack(new, u)) = View(ep)
    BY <2>3 DEF View
  <2> QED  BY <2>1, <2>2, <2>4 DEF new, u
<1> QED  BY <1>1, <1>2, <1>3, CommandNames
-----------------------------------------------------------------------------
(* Attempts since a time that is not older than the window are all recent: *)
(* none is dropped, and the new one is added.                              *)
LEMMA SinceRecent ==
  ASSUME NEW t \in Times, NEW moment \in Times, moment <= t + WINDOW_SECS
  PROVE  Since(t) \subseteq {u \in Times : Age(moment, u) <= WINDOW_SECS}
<1>1. Times \subseteq Nat /\ WINDOW_SECS \in Nat
  BY SimpleAuthAssumption
<1>2. ASSUME NEW u \in Times, t <= u PROVE Age(moment, u) <= WINDOW_SECS
  <2>1. u \in Nat /\ t \in Nat /\ moment \in Nat
    BY <1>1
  <2> QED  BY <1>1, <1>2, <2>1 DEF Age
<1> QED  BY <1>2 DEF Since

LEMMA HeldGrows ==
  ASSUME NEW s \in Seq(Times), NEW t \in Times, NEW moment \in Times, moment <= t + WINDOW_SECS
  PROVE  Len(Keep(Recent(Append(s, moment), moment), Since(t))) =
            Len(Keep(s, Since(t))) + IF t <= moment THEN 1 ELSE 0
<1> DEFINE young == {u \in Times : Age(moment, u) <= WINDOW_SECS}
           r == Append(s, moment)
<1>1. r \in Seq(Times)
  BY AppendProperties
<1>2. young \cap Since(t) = Since(t)
  BY SinceRecent
<1>3. Recent(r, moment) = Keep(r, young)
  BY DEF Recent
<1> HIDE DEF young
<1>4. Keep(Keep(r, young), Since(t)) = Keep(r, young \cap Since(t))
  <2> HIDE DEF r
  <2> QED  BY <1>1, KeepKeep
<1>5. Keep(Recent(r, moment), Since(t)) = Keep(r, Since(t))
  BY <1>2, <1>3, <1>4
<1>6. moment \in Since(t) <=> t <= moment
  BY DEF Since
<1>7. Keep(r, Since(t)) = IF t <= moment THEN Append(Keep(s, Since(t)), moment) ELSE Keep(s, Since(t))
  BY <1>6, KeepAppend
<1>8. Keep(s, Since(t)) \in Seq(Times) /\ Len(Keep(s, Since(t))) \in Nat
  BY KeepSeq
<1>9. Len(Append(Keep(s, Since(t)), moment)) = Len(Keep(s, Since(t))) + 1
  BY <1>8, AppendProperties
<1> QED  BY <1>5, <1>7, <1>8, <1>9

(* Who is not limited holds fewer than MAX_ATTEMPTS in such a window. *)
LEMMA RoomLeft ==
  ASSUME NEW s \in Seq(Times), NEW t \in Times, NEW moment \in Times, moment <= t + WINDOW_SECS,
         ~ (Len(Recent(s, moment)) >= MAX_ATTEMPTS)
  PROVE  Len(Keep(s, Since(t))) < MAX_ATTEMPTS
<1> DEFINE young == {u \in Times : Age(moment, u) <= WINDOW_SECS}
<1>1. young \cap Since(t) = Since(t)
  BY SinceRecent
<1>2. Recent(s, moment) = Keep(s, young)
  BY DEF Recent
<1> HIDE DEF young
<1>3. Keep(Keep(s, young), Since(t)) = Keep(s, Since(t))
  BY <1>1, KeepKeep
<1>4. Keep(s, young) \in Seq(Times) /\ Len(Keep(s, young)) \in Nat
  BY KeepSeq
<1>5. Len(Keep(Keep(s, young), Since(t))) <= Len(Keep(s, young))
      /\ Len(Keep(Keep(s, young), Since(t))) \in Nat
  BY <1>4, KeepSeq
<1>6. MAX_ATTEMPTS \in Nat
  BY SimpleAuthAssumption
<1> QED  BY <1>2, <1>3, <1>4, <1>5, <1>6

-----------------------------------------------------------------------------
(* An engine that executes a block, and one that takes its last one back *)
Grown(en, block, moment) ==
    LET ep == en.episode
        ok == Accepts(ep, block.cmd, block.by, block.time, moment) IN
    [episode |-> IF ok THEN Executed(ep, block.cmd, block.by, block.time) ELSE ep,
     done |-> Append(en.done, [block |-> block,
                               rollback |-> IF ok THEN Rollback(ep, block.cmd) ELSE None,
                               before |-> ep])]

Shrunk(en) ==
    [episode |-> Reverted(en.episode, Last(en.done).rollback), done |-> Front(en.done)]

(* What an engine is made of *)
LEMMA EngineParts ==
  ASSUME NEW en \in Engines
  PROVE  /\ en.episode \in Episodes
         /\ en.done \in Seq(Entries)
         /\ Len(en.done) \in Nat
         /\ DOMAIN en.done = 1..Len(en.done)
         /\ \A i \in 1..Len(en.done) :
               /\ en.done[i] \in Entries
               /\ en.done[i].block \in Blocks /\ en.done[i].block.time \in Times
               /\ en.done[i].rollback \in Rollbacks \cup {None}
               /\ en.done[i].before \in Episodes
<1>1. en.episode \in Episodes /\ en.done \in Seq(Entries)
  BY DEF Engines
<1>2. Len(en.done) \in Nat /\ DOMAIN en.done = 1..Len(en.done)
  BY <1>1, LenProperties
<1>3. \A i \in 1..Len(en.done) : en.done[i] \in Entries
  BY <1>1, ElementOfSeq
<1>4. \A d \in Entries : d.block \in Blocks /\ d.block.time \in Times
                         /\ d.rollback \in Rollbacks \cup {None} /\ d.before \in Episodes
  BY DEF Entries, Blocks
<1> QED  BY <1>1, <1>2, <1>3, <1>4

LEMMA GrownShape ==
  ASSUME NEW en \in Engines, NEW block \in Blocks, NEW moment, Good(en.episode)
  PROVE  LET g == Grown(en, block, moment)
             n == Len(en.done)
             d == g.done[n + 1] IN
         /\ g \in Engines
         /\ Len(g.done) = n + 1
         /\ \A i \in 1..n : g.done[i] = en.done[i]
         /\ d.block = block /\ d.before = en.episode
         /\ Good(g.episode)
         /\ View(Reverted(g.episode, d.rollback)) = View(en.episode)
         /\ \A by \in Participants :
               IF IsIssue(d, by)
               THEN /\ by = block.by
                    /\ ~ IsRateLimited(en.episode, by, block.time)
                    /\ g.episode.rate_limits[by] =
                          Recent(Append(en.episode.rate_limits[by], block.time), block.time)
               ELSE g.episode.rate_limits[by] = en.episode.rate_limits[by]
<1> DEFINE ep == en.episode
           ok == Accepts(ep, block.cmd, block.by, block.time, moment)
           new == IF ok THEN Executed(ep, block.cmd, block.by, block.time) ELSE ep
           u == IF ok THEN Rollback(ep, block.cmd) ELSE None
           e == [block |-> block, rollback |-> u, before |-> ep]
           g == Grown(en, block, moment)
<1>1. block.cmd \in Commands /\ block.time \in Times
  BY DEF Blocks
<1>2. ep \in Episodes /\ en.done \in Seq(Entries) /\ Len(en.done) \in Nat
  BY EngineParts
<1>3. ok => block.by \in Participants
  BY DEF Accepts
<1>4. /\ new \in Episodes /\ Good(new) /\ u \in Rollbacks \cup {None}
      /\ View(Reverted(new, u)) = View(ep)
  <2>1. CASE ok
    <3>1. /\ Executed(ep, block.cmd, block.by, block.time) \in Episodes
          /\ Good(Executed(ep, block.cmd, block.by, block.time))
          /\ Rollback(ep, block.cmd) \in Rollbacks
          /\ View(RolledBack(Executed(ep, block.cmd, block.by, block.time),
                             Rollback(ep, block.cmd))) = View(ep)
      BY <1>1, <1>2, <1>3, <2>1, ExecutedGood
    <3>2. new = Executed(ep, block.cmd, block.by, block.time) /\ u = Rollback(ep, block.cmd)
      BY <2>1
    <3>3. Reverted(new, u) = RolledBack(new, u)
      BY <3>1, <3>2, NotNone DEF Reverted
    <3> HIDE DEF new, u
    <3> QED  BY <3>1, <3>2, <3>3
  <2>2. CASE ~ ok
    BY <1>2, <2>2 DEF Reverted
  <2> QED  BY <2>1, <2>2
<1>5. \A by \in Participants :
         IF IsIssue(e, by)
         THEN /\ by = block.by
              /\ ~ IsRateLimited(ep, by, block.time)
              /\ new.rate_limits[by] = Recent(Append(ep.rate_limits[by], block.time), block.time)
         ELSE new.rate_limits[by] = ep.rate_limits[by]
  <2>0. e.rollback = u /\ e.block = block
    OBVIOUS
  <2>1. CASE ~ ok
    BY <2>0, <2>1 DEF IsIssue
  <2>2. CASE ok /\ block.cmd.name = "RequestChallenge"
    <3>1. /\ new.rate_limits = IncrementRateLimit(ep, block.by, block.time)
          /\ u.name = "Challenge" /\ u \in Rollbacks
      <4>1. /\ Executed(ep, block.cmd, block.by, block.time).rate_limits
                   = IncrementRateLimit(ep, block.by, block.time)
            /\ Rollback(ep, block.cmd) = [name |-> "Challenge", challenge |-> ep.challenge,
                                          timestamp |-> ep.challenge_timestamp]
            /\ Rollback(ep, block.cmd) \in Rollbacks
        BY <1>1, <1>2, <1>3, <2>2, RequestFields
      <4>2. new = Executed(ep, block.cmd, block.by, block.time) /\ u = Rollback(ep, block.cmd)
        BY <2>2
      <4> HIDE DEF new, u
      <4> QED  BY <4>1, <4>2
    <3>2. ~ IsRateLimited(ep, block.by, block.time)
      BY <2>2 DEF Accepts
    <3>3. \A by \in Participants : IsIssue(e, by) <=> by = block.by
      BY <2>0, <3>1, NotNone DEF IsIssue
    <3> HIDE DEF new, e
    <3> QED  BY <1>1, <1>2, <1>3, <2>2, <3>1, <3>2, <3>3, LimitsType
  <2>3. CASE ok /\ block.cmd.name = "SubmitResponse"
    <3>1. new.rate_limits = ep.rate_limits /\ u.name = "Authentication"
      <4>1. /\ Executed(ep, block.cmd, block.by, block.time).rate_limits = ep.rate_limits
            /\ Rollback(ep, block.cmd) = [name |-> "Authentication", status |-> ep.is_authenticated,
                                          token |-> ep.session_token]
        <5>1. Executed(ep, block.cmd, block.by, block.time).rate_limits = ep.rate_limits
          BY <1>1, <1>2, <2>3 DEF Executed, Episodes
        <5>2. Rollback(ep, block.cmd) = [name |-> "Authentication", status |-> ep.is_authenticated,
                                          token |-> ep.session_token]
          BY <2>3 DEF Rollback
        <5> QED  BY <5>1, <5>2
      <4>2. new = Executed(ep, block.cmd, block.by, block.time) /\ u = Rollback(ep, block.cmd)
        BY <2>3
      <4> HIDE DEF new, u
      <4> QED  BY <4>1, <4>2
    <3>2. \A by \in Participants : ~ IsIssue(e, by)
      BY <2>0, <3>1 DEF IsIssue
    <3> HIDE DEF new, e
    <3> QED  BY <3>1, <3>2
  <2>4. CASE ok /\ block.cmd.name = "RevokeSession"
    <3>1. new.rate_limits = ep.rate_limits /\ u.name = "SessionRevoked"
      <4>1. /\ Executed(ep, block.cmd, block.by, block.time).rate_limits = ep.rate_limits
            /\ Rollback(ep, block.cmd) = [name |-> "SessionRevoked", status |-> ep.is_authenticated,
                                          token |-> ep.session_token]
        <5>1. Executed(ep, block.cmd, block.by, block.time).rate_limits = ep.rate_limits
          BY <1>1, <1>2, <2>4 DEF Executed, Episodes
        <5>2. Rollback(ep, block.cmd) = [name |-> "SessionRevoked", status |-> ep.is_authenticated,
                                          token |-> ep.session_token]
          BY <2>4 DEF Rollback
        <5> QED  BY <5>1, <5>2
      <4>2. new = Executed(ep, block.cmd, block.by, block.time) /\ u = Rollback(ep, block.cmd)
        BY <2>4
      <4> HIDE DEF new, u
      <4> QED  BY <4>1, <4>2
    <3>2. \A by \in Participants : ~ IsIssue(e, by)
      BY <2>0, <3>1 DEF IsIssue
    <3> HIDE DEF new, e
    <3> QED  BY <3>1, <3>2
  <2> QED  BY <1>1, <2>1, <2>2, <2>3, <2>4, CommandNames
<1>6. g = [episode |-> new, done |-> Append(en.done, e)]
  BY DEF Grown
<1>7. e \in Entries
  BY <1>2, <1>4 DEF Entries
<1>8. e.block = block /\ e.before = ep /\ e.rollback = u
  OBVIOUS
<1> HIDE DEF new, u, e, ok
<1>9. /\ Append(en.done, e) \in Seq(Entries)
      /\ Len(Append(en.done, e)) = Len(en.done) + 1
      /\ \A i \in 1..Len(en.done) : Append(en.done, e)[i] = en.done[i]
      /\ Append(en.done, e)[Len(en.done) + 1] = e
  BY <1>2, <1>7, AppendProperties
<1>10. g \in Engines
  BY <1>4, <1>6, <1>9 DEF Engines
<1>11. g.episode = new /\ g.done = Append(en.done, e)
  BY <1>6
<1> HIDE DEF g
<1> QED  BY <1>4, <1>5, <1>8, <1>9, <1>10, <1>11 DEF g
LEMMA GrownTrail ==
  ASSUME NEW en \in Engines, NEW block \in Blocks, NEW moment, Trailed(en)
  PROVE  Trailed(Grown(en, block, moment))
<1> DEFINE g == Grown(en, block, moment)
           n == Len(en.done)
<1>1. /\ Good(en.episode)
      /\ \A i \in 1..n :
            /\ Good(en.done[i].before)
            /\ View(Reverted(After(en, i), en.done[i].rollback)) = View(en.done[i].before)
  BY DEF Trailed
<1>2. n \in Nat
  BY EngineParts
<1>3. /\ Len(g.done) = n + 1
      /\ \A i \in 1..n : g.done[i] = en.done[i]
      /\ g.done[n + 1].before = en.episode
      /\ Good(g.episode)
      /\ View(Reverted(g.episode, g.done[n + 1].rollback)) = View(en.episode)
  BY <1>1, GrownShape
<1> HIDE DEF g
<1>4. After(g, n + 1) = g.episode
  BY <1>3 DEF After
<1>5. ASSUME NEW i \in 1..n PROVE After(g, i) = After(en, i)
  <2>1. i # n + 1 /\ (i # n => i + 1 \in 1..n)
    BY <1>2
  <2>2. After(g, i) = g.done[i + 1].before
    BY <1>3, <2>1 DEF After
  <2> QED  BY <1>3, <2>1, <2>2 DEF After
<1>6. ASSUME NEW i \in 1..(n + 1)
      PROVE  /\ Good(g.done[i].before)
             /\ View(Reverted(After(g, i), g.done[i].rollback)) = View(g.done[i].before)
  <2>1. i \in 1..n \/ i = n + 1
    BY <1>2
  <2> HIDE DEF n
  <2> QED  BY <1>1, <1>3, <1>4, <1>5, <2>1
<1> QED  BY <1>3, <1>6 DEF Trailed, g

LEMMA ShrunkShape ==
  ASSUME NEW en \in Engines, en.done # <<>>
  PROVE  LET s == Shrunk(en)
             n == Len(en.done) IN
         /\ s \in Engines
         /\ n \in Nat \ {0} /\ Len(s.done) = n - 1
         /\ \A i \in 1..(n - 1) : s.done[i] = en.done[i]
         /\ Last(en.done) = en.done[n]
         /\ s.episode = Reverted(en.episode, en.done[n].rollback)
         /\ s.episode.rate_limits = en.episode.rate_limits
<1> DEFINE s == Shrunk(en)
           n == Len(en.done)
           u == en.done[n].rollback
<1>1. /\ Front(en.done) \in Seq(Entries)
      /\ n \in Nat \ {0} /\ Len(Front(en.done)) = n - 1
      /\ Last(en.done) = en.done[n]
      /\ \A i \in 1..(n - 1) : Front(en.done)[i] = en.done[i]
  BY EngineParts, FrontLast
<1>2. u \in Rollbacks \cup {None} /\ en.episode \in Episodes
  BY <1>1, EngineParts
<1>3. s = [episode |-> Reverted(en.episode, u), done |-> Front(en.done)]
  BY <1>1 DEF Shrunk
<1> HIDE DEF s, u
<1>4. Reverted(en.episode, u) \in Episodes
      /\ Reverted(en.episode, u).rate_limits = en.episode.rate_limits
  BY <1>2, RevertedType
<1> QED  BY <1>1, <1>3, <1>4 DEF Engines, s, u

(* Taking the last block back restores what was shown before it. *)
LEMMA ShrunkTrail ==
  ASSUME NEW en \in Engines, en.done # <<>>, Trailed(en)
  PROVE  /\ Trailed(Shrunk(en))
         /\ View(Shrunk(en).episode) = View(Last(en.done).before)
<1> DEFINE s == Shrunk(en)
           n == Len(en.done)
<1>1. /\ s \in Engines
      /\ n \in Nat \ {0} /\ Len(s.done) = n - 1
      /\ \A i \in 1..(n - 1) : s.done[i] = en.done[i]
      /\ Last(en.done) = en.done[n]
      /\ s.episode = Reverted(en.episode, en.done[n].rollback)
  BY ShrunkShape
<1>2. \A i \in 1..n :
         /\ Good(en.done[i].before)
         /\ View(Reverted(After(en, i), en.done[i].rollback)) = View(en.done[i].before)
  BY DEF Trailed
<1>3. s.episode \in Episodes
      /\ \A i \in 1..n : en.done[i].before \in Episodes
                         /\ en.done[i].rollback \in Rollbacks \cup {None}
  BY <1>1, EngineParts
<1>4. n \in 1..n /\ After(en, n) = en.episode
  BY <1>1 DEF After
<1> HIDE DEF s
<1>5. View(s.episode) = View(en.done[n].before)
  BY <1>1, <1>2, <1>4
<1>6. Good(s.episode)
  BY <1>2, <1>3, <1>4, <1>5, ViewGood
<1>7. ASSUME NEW i \in 1..(n - 1)
      PROVE  /\ Good(s.done[i].before)
             /\ View(Reverted(After(s, i), s.done[i].rollback)) = View(s.done[i].before)
  <2>1. i \in 1..n /\ i # n /\ i + 1 \in 1..n /\ (i # n - 1 => i + 1 \in 1..(n - 1))
        /\ (i = n - 1 => i + 1 = n)
    BY <1>1
  <2>2. After(en, i) = en.done[i + 1].before
    BY <2>1 DEF After
  <2>3. After(s, i) = IF i = n - 1 THEN s.episode ELSE s.done[i + 1].before
    BY <1>1 DEF After
  <2> HIDE DEF n
  <2>4. View(After(s, i)) = View(After(en, i))
    BY <1>1, <1>5, <2>1, <2>2, <2>3
  <2>5. After(s, i) \in Episodes /\ After(en, i) \in Episodes
    BY <1>1, <1>3, <2>1, <2>2, <2>3
  <2>6. View(Reverted(After(s, i), en.done[i].rollback)) =
           View(Reverted(After(en, i), en.done[i].rollback))
    BY <1>3, <2>1, <2>4, <2>5, ViewReverted
  <2> QED  BY <1>1, <1>2, <2>1, <2>6
<1> QED  BY <1>1, <1>5, <1>6, <1>7 DEF Trailed, s
-----------------------------------------------------------------------------
(* The challenges of an engine that executes one more block *)
LEMMA IssuedFinite ==
  ASSUME NEW en \in Engines, NEW by, NEW t
  PROVE  /\ IsFiniteSet(IssuedSince(en, by, t))
         /\ Cardinality(IssuedSince(en, by, t)) \in Nat
         /\ \A T \in SUBSET IssuedSince(en, by, t) :
               /\ IsFiniteSet(T) /\ Cardinality(T) \in Nat
               /\ Cardinality(T) <= Cardinality(IssuedSince(en, by, t))
<1> DEFINE S == IssuedSince(en, by, t)
<1>1. IsFiniteSet(1..Len(en.done))
  <2>1. Len(en.done) \in Int /\ 1 \in Int
    BY EngineParts
  <2> QED  BY <2>1, FS_Interval
<1>2. S \in SUBSET (1..Len(en.done))
  BY DEF IssuedSince
<1> HIDE DEF S
<1>3. IsFiniteSet(S)
  BY <1>1, <1>2, FS_Subset
<1>4. Cardinality(S) \in Nat
  BY <1>3, FS_CardinalityType
<1>5. \A T \in SUBSET S : IsFiniteSet(T) /\ Cardinality(T) <= Cardinality(S)
  BY <1>3, FS_Subset
<1>6. \A T \in SUBSET S : Cardinality(T) \in Nat
  BY <1>5, FS_CardinalityType
<1> QED  BY <1>3, <1>4, <1>5, <1>6 DEF S

LEMMA GrownIssued ==
  ASSUME NEW en \in Engines, NEW block \in Blocks, NEW moment, Good(en.episode),
         NEW by \in Participants, NEW t
  PROVE  LET g == Grown(en, block, moment)
             n == Len(en.done) IN
         IssuedSince(g, by, t) =
            IF IsIssue(g.done[n + 1], by) /\ t <= block.time
            THEN IssuedSince(en, by, t) \cup {n + 1} ELSE IssuedSince(en, by, t)
<1> DEFINE g == Grown(en, block, moment)
           n == Len(en.done)
<1>1. n \in Nat
  BY EngineParts
<1>2. /\ Len(g.done) = n + 1
      /\ \A i \in 1..n : g.done[i] = en.done[i]
      /\ g.done[n + 1].block = block
  BY GrownShape
<1> HIDE DEF g
<1>3. 1..(n + 1) = 1..n \cup {n + 1} /\ n + 1 \notin 1..n
  BY <1>1
<1> HIDE DEF n
<1>4. IssuedSince(g, by, t) =
         {i \in 1..(n + 1) : IsIssue(g.done[i], by) /\ t <= g.done[i].block.time}
  BY <1>2 DEF IssuedSince
<1>5. IssuedSince(en, by, t) =
         {i \in 1..n : IsIssue(g.done[i], by) /\ t <= g.done[i].block.time}
  BY <1>2 DEF IssuedSince, n
<1> QED  BY <1>2, <1>3, <1>4, <1>5 DEF g, n

(* Every challenge of the new block is held against its key as well. *)
LEMMA GrownCounted ==
  ASSUME NEW en \in Engines, NEW block \in Blocks, NEW moment, Good(en.episode),
         NEW w \in Times, w <= block.time, Counted(en, w)
  PROVE  Counted(Grown(en, block, moment), block.time)
<1> DEFINE g == Grown(en, block, moment)
           n == Len(en.done)
           v == block.time
<1> SUFFICES ASSUME NEW by \in Participants, NEW t \in Times, v <= t + WINDOW_SECS
             PROVE  Cardinality(IssuedSince(g, by, t)) <= Held(g.episode, by, t)
  BY DEF Counted
<1>1. v \in Times /\ v \in Nat /\ w \in Nat /\ t \in Nat /\ WINDOW_SECS \in Nat
  BY SimpleAuthAssumption DEF Blocks
<1>2. w <= t + WINDOW_SECS
  BY <1>1
<1>3. Cardinality(IssuedSince(en, by, t)) <= Held(en.episode, by, t)
  BY <1>2 DEF Counted
<1>4. en.episode.rate_limits[by] \in Seq(Times)
  BY EngineParts DEF Episodes
<1>5. Held(en.episode, by, t) \in Nat
  BY <1>4, KeepSeq DEF Held
<1>6. IsFiniteSet(IssuedSince(en, by, t)) /\ Cardinality(IssuedSince(en, by, t)) \in Nat
  BY IssuedFinite
<1>7. IssuedSince(g, by, t) =
         IF IsIssue(g.done[n + 1], by) /\ t <= v
         THEN IssuedSince(en, by, t) \cup {n + 1} ELSE IssuedSince(en, by, t)
  BY GrownIssued
<1>8. n + 1 \notin IssuedSince(en, by, t)
  <2>1. n \in Nat
    BY EngineParts
  <2>2. n + 1 \notin 1..n
    BY <2>1
  <2> QED  BY <2>2 DEF IssuedSince
<1>9. IF IsIssue(g.done[n + 1], by)
      THEN g.episode.rate_limits[by] = Recent(Append(en.episode.rate_limits[by], v), v)
      ELSE g.episode.rate_limits[by] = en.episode.rate_limits[by]
  BY GrownShape
<1> HIDE DEF g, v, n
<1>10. CASE IsIssue(g.done[n + 1], by)
  <2>1. Held(g.episode, by, t) = Held(en.episode, by, t) + IF t <= v THEN 1 ELSE 0
    BY <1>1, <1>4, <1>9, <1>10, HeldGrows DEF Held
  <2>2. CASE t <= v
    <3>1. IssuedSince(g, by, t) = IssuedSince(en, by, t) \cup {n + 1}
      BY <1>7, <1>10, <2>2
    <3>2. Cardinality(IssuedSince(g, by, t)) = Cardinality(IssuedSince(en, by, t)) + 1
      BY <1>6, <1>8, <3>1, FS_AddElement
    <3> QED  BY <1>3, <1>5, <1>6, <2>1, <2>2, <3>2
  <2>3. CASE ~ (t <= v)
    BY <1>3, <1>5, <1>7, <2>1, <2>3
  <2> QED  BY <2>2, <2>3
<1>11. CASE ~ IsIssue(g.done[n + 1], by)
  BY <1>3, <1>7, <1>9, <1>11 DEF Held
<1> QED  BY <1>10, <1>11 DEF g

(* A challenge is issued only where it leaves every window in its limit. *)
LEMMA GrownLimited ==
  ASSUME NEW en \in Engines, NEW block \in Blocks, NEW moment, Good(en.episode),
         NEW w \in Times, w <= block.time, Counted(en, w), Limited(en)
  PROVE  Limited(Grown(en, block, moment))
<1> DEFINE g == Grown(en, block, moment)
           n == Len(en.done)
           v == block.time
<1> SUFFICES ASSUME NEW by \in Participants, NEW t \in Times
             PROVE  Cardinality(IssuedWithin(g, by, t)) <= MAX_ATTEMPTS
  BY DEF Limited
<1>1. /\ v \in Times /\ v \in Nat /\ w \in Nat /\ t \in Nat /\ WINDOW_SECS \in Nat
      /\ MAX_ATTEMPTS \in Nat
  BY SimpleAuthAssumption DEF Blocks
<1>2. n \in Nat /\ n + 1 \notin 1..n
  BY EngineParts
<1>3. IssuedSince(g, by, t) =
         IF IsIssue(g.done[n + 1], by) /\ t <= v
         THEN IssuedSince(en, by, t) \cup {n + 1} ELSE IssuedSince(en, by, t)
  BY GrownIssued
<1>4. /\ \A i \in 1..n : g.done[i] = en.done[i]
      /\ g.done[n + 1].block.time = v
      /\ g \in Engines
  BY GrownShape
<1>5. IsIssue(g.done[n + 1], by) => by = block.by /\ ~ IsRateLimited(en.episode, by, v)
  BY GrownShape
<1>6. en.episode.rate_limits[by] \in Seq(Times)
  BY EngineParts DEF Episodes
<1>7. IsFiniteSet(IssuedSince(en, by, t)) /\ Cardinality(IssuedSince(en, by, t)) \in Nat
  BY IssuedFinite
<1>8. /\ Cardinality(IssuedSince(g, by, t)) \in Nat
      /\ Cardinality(IssuedWithin(g, by, t)) \in Nat
      /\ Cardinality(IssuedWithin(g, by, t)) <= Cardinality(IssuedSince(g, by, t))
  <2>1. IssuedWithin(g, by, t) \in SUBSET IssuedSince(g, by, t)
    BY DEF IssuedWithin
  <2> HIDE DEF g
  <2> QED  BY <1>4, <2>1, IssuedFinite
<1> HIDE DEF g, v, n
<1>9. CASE IsIssue(g.done[n + 1], by) /\ t <= v /\ v <= t + WINDOW_SECS
  <2>1. w <= t + WINDOW_SECS
    BY <1>1, <1>9 DEF v
  <2>2. Cardinality(IssuedSince(en, by, t)) <= Held(en.episode, by, t)
    BY <2>1 DEF Counted
  <2>3. Held(en.episode, by, t) < MAX_ATTEMPTS /\ Held(en.episode, by, t) \in Nat
    BY <1>1, <1>5, <1>6, <1>9, RoomLeft, KeepSeq DEF Held, IsRateLimited
  <2>4. Cardinality(IssuedSince(g, by, t)) <= Cardinality(IssuedSince(en, by, t)) + 1
    <3>1. IssuedSince(g, by, t) = IssuedSince(en, by, t) \cup {n + 1}
      BY <1>3, <1>9
    <3>2. Cardinality(IssuedSince(en, by, t) \cup {n + 1}) =
             IF n + 1 \in IssuedSince(en, by, t) THEN Cardinality(IssuedSince(en, by, t))
             ELSE Cardinality(IssuedSince(en, by, t)) + 1
      BY <1>7, FS_AddElement
    <3> QED  BY <1>7, <3>1, <3>2
  <2> QED  BY <1>1, <1>7, <1>8, <2>2, <2>3, <2>4 DEF g
<1>10. CASE ~ (IsIssue(g.done[n + 1], by) /\ t <= v /\ v <= t + WINDOW_SECS)
  <2>1. IssuedWithin(g, by, t) = IssuedWithin(en, by, t)
    <3>1. IssuedSince(en, by, t) \subseteq 1..n
      BY DEF IssuedSince, n
    <3>2. n + 1 \notin IssuedWithin(g, by, t)
      BY <1>2, <1>3, <1>4, <1>10, <3>1 DEF IssuedWithin
    <3> QED  BY <1>3, <1>4, <3>1, <3>2 DEF IssuedWithin
  <2> QED  BY <2>1 DEF Limited, g
<1> QED  BY <1>9, <1>10 DEF g
-----------------------------------------------------------------------------
(* The next block of the chain is later than w, and every other one that   *)
(* the engine has not executed is later still.                             *)
LEMMA GrownRated ==
  ASSUME NEW en \in Engines, NEW c \in Seq(Blocks), NEW w \in Times, NEW moment,
         Len(en.done) < Len(c), Agrees(en, c, Len(en.done)),
         \A j \in 1..Len(c), i \in 1..Len(c) : i < j => c[i].time <= c[j].time,
         Good(en.episode), Follows(en, c, w), Counted(en, w), Limited(en)
  PROVE  LET block == c[Len(en.done) + 1]
             g == Grown(en, block, moment) IN
         /\ block \in Blocks /\ block.time \in Times
         /\ Limited(g) /\ Follows(g, c, block.time) /\ Counted(g, block.time)
<1> DEFINE n == Len(en.done)
           block == c[n + 1]
           v == block.time
           g == Grown(en, block, moment)
<1>1. n \in Nat /\ Len(c) \in Nat
  BY EngineParts, LenProperties
<1>2. n + 1 \in 1..Len(c)
  BY <1>1
<1>3. block \in Blocks /\ v \in Times
  <2>1. block \in Blocks
    BY <1>2, ElementOfSeq
  <2> HIDE DEF block
  <2> QED  BY <2>1 DEF Blocks
<1>4. w <= v
  <2>1. ~ Agrees(en, c, n + 1)
    BY <1>1 DEF Agrees
  <2> QED  BY <1>2, <2>1 DEF Follows
<1>5. Limited(g) /\ Counted(g, v)
  <2> HIDE DEF block
  <2> QED  BY <1>3, <1>4, GrownLimited, GrownCounted
<1>6. /\ Len(g.done) = n + 1
      /\ \A i \in 1..n : g.done[i] = en.done[i]
      /\ g.done[n + 1].block = block
  <2> HIDE DEF block
  <2> QED  BY <1>3, GrownShape
<1> HIDE DEF g
<1>7. v \in Nat /\ w \in Nat /\ \A i \in 1..n : en.done[i].block.time \in Nat
  BY <1>3, EngineParts, SimpleAuthAssumption
<1>8. \A i \in 1..n : c[i] = en.done[i].block
  BY DEF Agrees
<1>9. \A i \in 1..(n + 1) : i \in 1..n \/ i = n + 1
  BY <1>1
<1>10. ASSUME NEW i \in 1..(n + 1) PROVE g.done[i].block.time <= v
  <2>1. CASE i \in 1..n
    <3>1. g.done[i].block.time = en.done[i].block.time
      BY <1>6, <2>1
    <3>2. en.done[i].block.time <= w
      BY <2>1 DEF Follows
    <3> QED  BY <1>4, <1>7, <2>1, <3>1, <3>2
  <2>2. CASE i = n + 1
    BY <1>6, <1>7, <2>2
  <2> QED  BY <1>9, <2>1, <2>2
<1>11. ASSUME NEW i \in 1..Len(c) PROVE Agrees(g, c, i) \/ v <= c[i].time
  <2>1. CASE i <= n + 1
    <3>1. ASSUME NEW j \in 1..i PROVE c[j] = g.done[j].block
      <4>1. j \in 1..(n + 1)
        BY <1>1, <2>1
      <4> HIDE DEF n
      <4> QED  BY <1>6, <1>8, <1>9, <4>1
    <3> QED  BY <1>6, <2>1, <3>1 DEF Agrees
  <2>2. CASE ~ (i <= n + 1)
    <3>1. n + 1 < i
      BY <1>1, <2>2
    <3> QED  BY <1>2, <3>1
  <2> QED  BY <2>1, <2>2
<1>12. Follows(g, c, v)
  BY <1>6, <1>10, <1>11 DEF Follows
<1> QED  BY <1>3, <1>5, <1>12 DEF g

(* The block that is taken back is not on the chain any more; what is held *)
(* for it stays.                                                           *)
LEMMA ShrunkRated ==
  ASSUME NEW en \in Engines, NEW c \in Seq(Blocks), NEW w \in Times,
         en.done # <<>>, Len(en.done) <= Len(c) => ~ Agrees(en, c, Len(en.done)),
         Follows(en, c, w), Counted(en, w), Limited(en)
  PROVE  Limited(Shrunk(en)) /\ Follows(Shrunk(en), c, w) /\ Counted(Shrunk(en), w)
<1> DEFINE s == Shrunk(en)
           n == Len(en.done)
<1>1. /\ s \in Engines
      /\ n \in Nat \ {0} /\ Len(s.done) = n - 1
      /\ \A i \in 1..(n - 1) : s.done[i] = en.done[i]
      /\ s.episode.rate_limits = en.episode.rate_limits
  BY ShrunkShape
<1> HIDE DEF s
<1>2. \A i \in 1..(n - 1) : i \in 1..n
  BY <1>1
<1>3. ASSUME NEW by \in Participants, NEW t \in Times
      PROVE  /\ IssuedSince(s, by, t) \in SUBSET IssuedSince(en, by, t)
             /\ IssuedWithin(s, by, t) \in SUBSET IssuedWithin(en, by, t)
             /\ Cardinality(IssuedSince(s, by, t)) <= Cardinality(IssuedSince(en, by, t))
             /\ Cardinality(IssuedWithin(s, by, t)) <= Cardinality(IssuedWithin(en, by, t))
  <2>1. IssuedSince(s, by, t) \in SUBSET IssuedSince(en, by, t)
    BY <1>1, <1>2 DEF IssuedSince
  <2>2. IssuedWithin(s, by, t) \in SUBSET IssuedWithin(en, by, t)
    <3>1. \A i \in IssuedSince(s, by, t) : s.done[i] = en.done[i]
      BY <1>1 DEF IssuedSince
    <3> QED  BY <2>1, <3>1 DEF IssuedWithin
  <2>3. IssuedWithin(en, by, t) \in SUBSET IssuedSince(en, by, t)
    BY DEF IssuedWithin
  <2>4. IsFiniteSet(IssuedWithin(en, by, t))
    BY <2>3, IssuedFinite
  <2>5. Cardinality(IssuedWithin(s, by, t)) <= Cardinality(IssuedWithin(en, by, t))
    BY <2>2, <2>4, FS_Subset
  <2>6. Cardinality(IssuedSince(s, by, t)) <= Cardinality(IssuedSince(en, by, t))
    BY <2>1, IssuedFinite
  <2> QED  BY <2>1, <2>2, <2>5, <2>6
<1>4. ASSUME NEW by \in Participants, NEW t \in Times
      PROVE  /\ Cardinality(IssuedSince(s, by, t)) \in Nat
             /\ Cardinality(IssuedSince(en, by, t)) \in Nat
             /\ Cardinality(IssuedWithin(s, by, t)) \in Nat
             /\ Cardinality(IssuedWithin(en, by, t)) \in Nat
             /\ Held(s.episode, by, t) = Held(en.episode, by, t)
             /\ Held(en.episode, by, t) \in Nat
  <2>1. en.episode.rate_limits[by] \in Seq(Times)
    BY EngineParts DEF Episodes
  <2>2. Held(s.episode, by, t) = Held(en.episode, by, t) /\ Held(en.episode, by, t) \in Nat
    BY <1>1, <2>1, KeepSeq DEF Held
  <2>3. IssuedWithin(en, by, t) \in SUBSET IssuedSince(en, by, t)
        /\ IssuedWithin(s, by, t) \in SUBSET IssuedSince(s, by, t)
    BY DEF IssuedWithin
  <2> QED  BY <1>1, <2>2, <2>3, IssuedFinite
<1>5. Counted(s, w)
  <2> SUFFICES ASSUME NEW by \in Participants, NEW t \in Times, w <= t + WINDOW_SECS
               PROVE  Cardinality(IssuedSince(s, by, t)) <= Held(s.episode, by, t)
    BY DEF Counted
  <2>1. Cardinality(IssuedSince(en, by, t)) <= Held(en.episode, by, t)
    BY DEF Counted
  <2> QED  BY <1>3, <1>4, <2>1
<1>6. Limited(s)
  <2> SUFFICES ASSUME NEW by \in Participants, NEW t \in Times
               PROVE  Cardinality(IssuedWithin(s, by, t)) <= MAX_ATTEMPTS
    BY DEF Limited
  <2>1. Cardinality(IssuedWithin(en, by, t)) <= MAX_ATTEMPTS
    BY DEF Limited
  <2>2. MAX_ATTEMPTS \in Nat
    BY SimpleAuthAssumption
  <2> QED  BY <1>3, <1>4, <2>1, <2>2
<1>7. ASSUME NEW i \in 1..Len(c) PROVE Agrees(s, c, i) \/ w <= c[i].time
  <2>1. SUFFICES ASSUME Agrees(en, c, i) PROVE Agrees(s, c, i)
    BY DEF Follows
  <2>2. i <= n /\ \A j \in 1..i : c[j] = en.done[j].block
    BY <2>1 DEF Agrees
  <2>3. i # n
    <3>1. i <= Len(c)
      BY LenProperties
    <3> QED  BY <2>1, <3>1
  <2>4. i <= n - 1 /\ \A j \in 1..i : j \in 1..(n - 1)
    BY <1>1, <2>2, <2>3
  <2> QED  BY <1>1, <2>2, <2>4 DEF Agrees
<1>8. Follows(s, c, w)
  BY <1>1, <1>2, <1>7 DEF Follows
<1> QED  BY <1>5, <1>6, <1>8 DEF s

(* A block that is added is later than w; without the last one, the others *)
(* are as they were.                                                       *)
LEMMA FollowsAppend ==
  ASSUME NEW en \in Engines, NEW c \in Seq(Blocks), NEW block \in Blocks, NEW w \in Times,
         Follows(en, c, w), w <= block.time
  PROVE  Follows(en, Append(c, block), w)
<1> DEFINE d == Append(c, block)
<1>1. /\ Len(c) \in Nat /\ Len(d) = Len(c) + 1
      /\ \A i \in 1..Len(c) : d[i] = c[i]
      /\ d[Len(c) + 1] = block
  BY AppendProperties, LenProperties
<1> HIDE DEF d
<1>2. ASSUME NEW i \in 1..Len(d) PROVE Agrees(en, d, i) \/ w <= d[i].time
  <2>1. i \in 1..Len(c) \/ i = Len(c) + 1
    BY <1>1
  <2>2. CASE i \in 1..Len(c)
    <3>1. Agrees(en, c, i) \/ w <= c[i].time
      BY <2>2 DEF Follows
    <3>2. \A j \in 1..i : j \in 1..Len(c)
      BY <1>1, <2>2
    <3> QED  BY <1>1, <2>2, <3>1, <3>2 DEF Agrees
  <2> QED  BY <1>1, <2>1, <2>2
<1> QED  BY <1>2 DEF Follows, d

LEMMA FollowsFront ==
  ASSUME NEW en \in Engines, NEW c \in Seq(Blocks), c # <<>>, NEW w \in Times, Follows(en, c, w)
  PROVE  Follows(en, Front(c), w)
<1> DEFINE d == Front(c)
<1>1. /\ Len(c) \in Nat \ {0} /\ Len(d) = Len(c) - 1
      /\ \A i \in 1..(Len(c) - 1) : d[i] = c[i]
  BY FrontLast
<1> HIDE DEF d
<1>2. ASSUME NEW i \in 1..Len(d) PROVE Agrees(en, d, i) \/ w <= d[i].time
  <2>1. i \in 1..Len(c) /\ i \in 1..(Len(c) - 1) /\ \A j \in 1..i : j \in 1..(Len(c) - 1)
    BY <1>1
  <2>2. Agrees(en, c, i) \/ w <= c[i].time
    BY <2>1 DEF Follows
  <2> QED  BY <1>1, <2>1, <2>2 DEF Agrees
<1> QED  BY <1>2 DEF Follows, d
-----------------------------------------------------------------------------
(* A sequence is a prefix of another when it agrees with it everywhere. *)
LEMMA PrefixAgrees ==
  ASSUME NEW S, NEW s \in Seq(S), NEW t \in Seq(S)
  PROVE  /\ IsPrefix(s, t) <=> Len(s) <= Len(t) /\ \A i \in 1..Len(s) : t[i] = s[i]
         /\ IsStrictPrefix(s, t) => Len(s) < Len(t)
<1> DEFINE n == Len(s)
           a == SubSeq(s, 1, n)
           b == SubSeq(t, 1, n)
<1>1. n \in Nat /\ Len(t) \in Nat
  BY LenProperties
<1>2. (\A i \in 1..n : s[i] \in S) /\ \A i \in 1..Len(t) : t[i] \in S
  BY ElementOfSeq
<1>3. 1 \in Int /\ n \in Int /\ n - 1 + 1 = n /\ (1 <= n \/ n = 0)
      /\ \A i \in 1..n : 1 + i - 1 = i
  <2>1. \A m \in Nat : 1 <= m \/ m = 0
    OBVIOUS
  <2> QED  BY <1>1, <2>1
<1> HIDE DEF n
<1>4. a \in Seq(S) /\ Len(a) = n /\ \A i \in 1..n : a[i] = s[i]
  <2>1. /\ a \in Seq(S) /\ Len(a) = IF 1 <= n THEN n - 1 + 1 ELSE 0
        /\ \A i \in 1..(n - 1 + 1) : a[i] = s[1 + i - 1]
    BY <1>2, <1>3, SubSeqProperties
  <2> HIDE DEF a
  <2> QED  BY <1>3, <2>1
<1>5. ASSUME n <= Len(t) PROVE b \in Seq(S) /\ Len(b) = n /\ \A i \in 1..n : b[i] = t[i]
  <2>0. \A i \in 1..n : t[i] \in S
    BY <1>1, <1>2, <1>5
  <2>1. /\ b \in Seq(S) /\ Len(b) = IF 1 <= n THEN n - 1 + 1 ELSE 0
        /\ \A i \in 1..(n - 1 + 1) : b[i] = t[1 + i - 1]
    BY <1>3, <2>0, SubSeqProperties
  <2> HIDE DEF b
  <2> QED  BY <1>3, <2>1
<1>6. IsPrefix(s, t) <=> n <= Len(t) /\ a = b
  BY DEF IsPrefix, n
<1> HIDE DEF a, b
<1>7. IsPrefix(s, t) <=> n <= Len(t) /\ \A i \in 1..n : t[i] = s[i]
  <2>1. ASSUME n <= Len(t), \A i \in 1..n : t[i] = s[i] PROVE a = b
    <3>1. \A i \in 1..n : a[i] = b[i]
      BY <1>4, <1>5, <2>1
    <3> QED  BY <1>4, <1>5, <2>1, <3>1, SeqEqual
  <2> QED  BY <1>4, <1>5, <1>6, <2>1
<1>8. ASSUME IsStrictPrefix(s, t) PROVE n < Len(t)
  <2>1. n <= Len(t) /\ (\A i \in 1..n : t[i] = s[i]) /\ s # t
    BY <1>7, <1>8 DEF IsStrictPrefix
  <2>2. n = Len(t) => s = t
    BY <2>1, SeqEqual DEF n
  <2> QED  BY <1>1, <2>1, <2>2
<1> QED  BY <1>7, <1>8 DEF n

(* What the blocks of a peer are to the chain *)
LEMMA HistoryAgrees ==
  ASSUME NEW p \in Peers, engine[p] \in Engines, chain \in Seq(Blocks)
  PROVE  LET n == Len(engine[p].done) IN
         /\ Len(History(p)) = n
         /\ IsStrictPrefix(History(p), chain) =>
               n < Len(chain) /\ Agrees(engine[p], chain, n)
         /\ ~ IsPrefix(History(p), chain) =>
               engine[p].done # <<>> /\ (n <= Len(chain) => ~ Agrees(engine[p], chain, n))
<1> DEFINE en == engine[p]
           n == Len(en.done)
           h == History(p)
<1>1. n \in Nat /\ DOMAIN en.done = 1..n /\ \A i \in 1..n : en.done[i].block \in Blocks
  BY EngineParts
<1>2. h = [i \in 1..n |-> en.done[i].block]
  BY <1>1 DEF History
<1>3. h \in Seq(Blocks) /\ Len(h) = n /\ \A i \in 1..n : h[i] = en.done[i].block
  <2> HIDE DEF n, h
  <2> QED  BY <1>1, <1>2
<1> HIDE DEF h
<1>4. /\ IsPrefix(h, chain) <=> n <= Len(chain) /\ \A i \in 1..n : chain[i] = h[i]
      /\ IsStrictPrefix(h, chain) => n < Len(chain)
  BY <1>3, PrefixAgrees
<1>5. IsStrictPrefix(h, chain) => IsPrefix(h, chain)
  BY DEF IsStrictPrefix
<1>6. Agrees(en, chain, n) <=> \A i \in 1..n : chain[i] = h[i]
  BY <1>1, <1>3 DEF Agrees
<1>7. en.done = <<>> => IsPrefix(h, chain)
  <2>1. Len(chain) \in Nat
    BY LenProperties
  <2>2. en.done = <<>> => n = 0
    BY EmptySeq, EngineParts
  <2> QED  BY <1>4, <2>1, <2>2
<1> QED  BY <1>3, <1>4, <1>5, <1>6, <1>7 DEF h
-----------------------------------------------------------------------------
(* The initial state *)
LEMMA InitInv == Init => IInv
<1> SUFFICES ASSUME Init PROVE IInv
  OBVIOUS
<1> DEFINE ep == initialize(Start)
           en == [episode |-> ep, done |-> <<>>]
<1>1. Start \in Times
  BY StartTime
<1>2. /\ ep \in Episodes
      /\ ep.challenge = None /\ ep.is_authenticated = FALSE /\ ep.session_token = None
      /\ \A by \in Participants : ep.rate_limits[by] = <<>>
  <2>1. [a \in Participants |-> <<>>] \in [Participants -> Seq(Times)]
    OBVIOUS
  <2> QED  BY <1>1, <2>1, SimpleAuthAssumption DEF initialize, Episodes
<1> HIDE DEF ep
<1>3. Good(ep)
  BY <1>2 DEF Good, Session
<1>4. en \in Engines /\ en.episode = ep /\ en.done = <<>> /\ Len(en.done) = 0
  BY <1>2 DEF Engines
<1> HIDE DEF en
<1>5. /\ clock = Start /\ chain = <<>> /\ Len(chain) = 0
      /\ engine = [p \in Peers |-> en] /\ mirror = [p \in Peers |-> ep]
      /\ verifying = [p \in Peers |-> None] /\ revoking = [p \in Peers |-> None]
      /\ told = [p \in Peers |-> None] /\ touched = [p \in Peers |-> FALSE]
  BY DEF Init, ep, en
<1>6. TypeOK
  BY <1>1, <1>2, <1>4, <1>5 DEF TypeOK
<1>7. InTime
  BY <1>5 DEF InTime
<1>8. Trailed(en)
  BY <1>3, <1>4 DEF Trailed
<1>9. ASSUME NEW by \in Participants, NEW t \in Times
      PROVE  /\ Cardinality(IssuedSince(en, by, t)) = 0
             /\ Cardinality(IssuedWithin(en, by, t)) = 0
             /\ Held(en.episode, by, t) = 0
  <2>1. IssuedSince(en, by, t) = {}
    BY <1>4 DEF IssuedSince
  <2>2. IssuedWithin(en, by, t) = {}
    BY <2>1 DEF IssuedWithin
  <2>3. Keep(en.episode.rate_limits[by], Since(t)) = <<>>
    BY <1>2, <1>4, KeepEmpty
  <2>4. Held(en.episode, by, t) = 0
    BY <2>3 DEF Held
  <2> QED  BY <2>1, <2>2, <2>4, FS_EmptySet
<1>10. Rated(en)
  <2>1. Limited(en)
    BY <1>9, SimpleAuthAssumption DEF Limited
  <2>2. Counted(en, Start)
    BY <1>9 DEF Counted
  <2>3. Follows(en, chain, Start)
    BY <1>4, <1>5 DEF Follows
  <2>4. Start <= clock
    BY <1>1, <1>5, SimpleAuthAssumption
  <2> QED  BY <1>1, <2>1, <2>2, <2>3, <2>4 DEF Rated
<1>11. MirrorExplained
  BY <1>4, <1>5 DEF MirrorExplained
<1> QED  BY <1>3, <1>5, <1>6, <1>7, <1>8, <1>10, <1>11 DEF IInv

-----------------------------------------------------------------------------
(* What a handler leaves of the invariant that changes neither the chain   *)
(* nor an engine, and one that changes neither mirror nor words            *)
LEMMA ChainSame ==
  ASSUME IInv, UNCHANGED <<clock, chain, engine>>
  PROVE  /\ InTime'
         /\ \A p \in Peers : Trailed(engine[p])' /\ Rated(engine[p])'
<1>1. InTime'
  BY DEF IInv, InTime
<1>2. ASSUME NEW p \in Peers PROVE Trailed(engine[p])' /\ Rated(engine[p])'
  <2>1. Trailed(engine[p]) /\ Rated(engine[p])
    BY DEF IInv
  <2>2. Trailed(engine[p])'
    BY <2>1
  <2>3. Rated(engine[p])'
    BY <2>1 DEF Rated
  <2> QED  BY <2>2, <2>3
<1> QED  BY <1>1, <1>2

LEMMA WordsSame ==
  ASSUME IInv, UNCHANGED <<mirror, told, touched>>,
         \A p \in Peers : engine'[p].episode = engine[p].episode
  PROVE  MirrorExplained' /\ \A p \in Peers : Good(mirror[p])'
BY DEF IInv, MirrorExplained

LEMMA ChainTimes ==
  ASSUME IInv
  PROVE  /\ Len(chain) \in Nat
         /\ \A i \in 1..Len(chain) :
               chain[i] \in Blocks /\ chain[i].time \in Times /\ chain[i].time \in Nat
<1>1. chain \in Seq(Blocks)
  BY DEF IInv, TypeOK
<1>2. \A b \in Blocks : b.time \in Times /\ b.time \in Nat
  BY SimpleAuthAssumption DEF Blocks
<1>3. \A i \in 1..Len(chain) : chain[i] \in Blocks
  BY <1>1, ElementOfSeq
<1> QED  BY <1>1, <1>2, <1>3, LenProperties

LEMMA TickInv == IInv /\ Tick => IInv'
<1> SUFFICES ASSUME IInv, Tick PROVE IInv'
  OBVIOUS
<1>1. clock' \in Times /\ clock' = clock + 1 /\ UNCHANGED <<chain, peerVars>>
  BY DEF Tick
<1>2. TypeOK'
  BY <1>1 DEF IInv, TypeOK, peerVars
<1>3. clock \in Nat /\ clock <= clock' /\ \A t \in Times : t \in Nat
  BY <1>1, SimpleAuthAssumption DEF IInv, TypeOK
<1>4. \A i \in 1..Len(chain) : chain[i].time \in Nat
  BY ChainTimes
<1>5. InTime'
  <2>1. /\ \A i \in 1..Len(chain) : chain[i].time <= clock
        /\ \A j \in 1..Len(chain), i \in 1..Len(chain) : i < j => chain[i].time <= chain[j].time
    BY DEF IInv, InTime
  <2>2. clock \in Nat /\ clock' = clock + 1 /\ chain' = chain
    BY <1>1, <1>3
  <2>3. \A i \in 1..Len(chain) : chain[i].time <= clock'
    BY ONLY <1>4, <2>1, <2>2
  <2> QED  BY ONLY <2>1, <2>2, <2>3 DEF InTime
<1>6. ASSUME NEW p \in Peers PROVE Trailed(engine[p])' /\ Rated(engine[p])'
  <2>1. engine'[p] = engine[p] /\ chain' = chain
    BY <1>1 DEF peerVars
  <2>2. PICK w \in Times : w <= clock /\ Follows(engine[p], chain, w) /\ Counted(engine[p], w)
    BY DEF IInv, Rated
  <2>3. w <= clock'
    BY <1>1, <1>3, <2>2
  <2>4. Trailed(engine[p]) /\ Limited(engine[p])
    BY DEF IInv, Rated
  <2> QED  BY <2>1, <2>2, <2>3, <2>4 DEF Rated
<1>7. MirrorExplained' /\ \A p \in Peers : Good(mirror[p])'
  BY <1>1, WordsSame DEF peerVars
<1> QED  BY <1>2, <1>5, <1>6, <1>7 DEF IInv
(* A block that is added has the time of the clock. *)
LEMMA ChainGrows ==
  ASSUME IInv, NEW block \in Blocks, block.time = clock, chain' = Append(chain, block),
         UNCHANGED <<clock, engine>>
  PROVE  /\ chain' \in Seq(Blocks)
         /\ InTime'
         /\ \A p \in Peers : Trailed(engine[p])' /\ Rated(engine[p])'
<1>1. chain \in Seq(Blocks) /\ engine \in [Peers -> Engines] /\ clock \in Times
  BY DEF IInv, TypeOK
<1>2. /\ chain' \in Seq(Blocks) /\ Len(chain) \in Nat /\ Len(chain') = Len(chain) + 1
      /\ \A i \in 1..Len(chain) : chain'[i] = chain[i]
      /\ chain'[Len(chain) + 1] = block
  BY <1>1, AppendProperties, LenProperties
<1>3. clock \in Nat
  BY <1>1, SimpleAuthAssumption
<1>4. \A i \in 1..Len(chain') : i \in 1..Len(chain) \/ i = Len(chain) + 1
  BY <1>2
<1>5. \A i \in 1..Len(chain') : chain'[i].time <= clock
  BY <1>2, <1>3, <1>4 DEF IInv, InTime
<1>6. ASSUME NEW j \in 1..Len(chain'), NEW i \in 1..Len(chain'), i < j
      PROVE  chain'[i].time <= chain'[j].time
  <2>1. i \in 1..Len(chain)
    BY <1>2, <1>6
  <2>2. CASE j \in 1..Len(chain)
    BY <1>2, <1>6, <2>1, <2>2 DEF IInv, InTime
  <2>3. CASE j = Len(chain) + 1
    BY <1>2, <2>1, <2>3 DEF IInv, InTime
  <2> QED  BY <1>4, <2>2, <2>3
<1>7. InTime'
  BY <1>5, <1>6 DEF InTime
<1>8. ASSUME NEW p \in Peers PROVE Trailed(engine[p])' /\ Rated(engine[p])'
  <2>1. PICK w \in Times : w <= clock /\ Follows(engine[p], chain, w) /\ Counted(engine[p], w)
    BY DEF IInv, Rated
  <2>2. Follows(engine[p], Append(chain, block), w)
    BY <1>1, <2>1, FollowsAppend
  <2>3. Trailed(engine[p]) /\ Limited(engine[p])
    BY DEF IInv, Rated
  <2> QED  BY <2>1, <2>2, <2>3 DEF Rated
<1> QED  BY <1>2, <1>7, <1>8

LEMMA SendableType ==
  ASSUME TypeOK, NEW cmd \in Sendable
  PROVE  cmd \in Commands
<1>1. Shown \subseteq Episodes
  BY DEF Shown, TypeOK, Engines
<1>2. \A ep \in Episodes : /\ ep.challenge # None => ep.challenge \in Challenges
                           /\ ep.session_token # None => ep.session_token \in SessionTokens
  BY DEF Episodes
<1> HIDE DEF Shown
<1> QED  BY <1>1, <1>2 DEF Sendable, Commands

LEMMA MineInv == IInv /\ Mine => IInv'
<1> SUFFICES ASSUME IInv, Mine PROVE IInv'
  OBVIOUS
<1>1. PICK cmd \in Sendable, by \in Participants :
         chain' = Append(chain, [cmd |-> cmd, by |-> by, time |-> clock])
  BY DEF Mine
<1> DEFINE block == [cmd |-> cmd, by |-> by, time |-> clock]
<1>2. UNCHANGED <<clock, engine, mirror, verifying, revoking, told, touched>>
  BY DEF Mine, peerVars
<1>3. block \in Blocks /\ block.time = clock
  <2>1. cmd \in Commands /\ clock \in Times
    BY SendableType DEF IInv, TypeOK
  <2> QED  BY <2>1 DEF Blocks
<1>4. chain' = Append(chain, block)
  BY <1>1
<1> HIDE DEF block
<1>5. /\ chain' \in Seq(Blocks) /\ InTime'
      /\ \A p \in Peers : Trailed(engine[p])' /\ Rated(engine[p])'
  BY <1>2, <1>3, <1>4, ChainGrows
<1>6. TypeOK'
  BY <1>2, <1>5 DEF IInv, TypeOK
<1>7. MirrorExplained' /\ \A p \in Peers : Good(mirror[p])'
  BY <1>2, WordsSame
<1> QED  BY <1>5, <1>6, <1>7 DEF IInv

LEMMA ReorgInv == IInv /\ Reorg => IInv'
<1> SUFFICES ASSUME IInv, Reorg PROVE IInv'
  OBVIOUS
<1>1. /\ chain # <<>> /\ chain' = Front(chain)
      /\ UNCHANGED <<clock, engine, mirror, verifying, revoking, told, touched>>
  BY DEF Reorg, peerVars
<1>2. chain \in Seq(Blocks) /\ engine \in [Peers -> Engines]
  BY DEF IInv, TypeOK
<1>3. /\ chain' \in Seq(Blocks) /\ Len(chain) \in Nat \ {0} /\ Len(chain') = Len(chain) - 1
      /\ \A i \in 1..(Len(chain) - 1) : chain'[i] = chain[i]
  BY <1>1, <1>2, FrontLast
<1>4. TypeOK'
  BY <1>1, <1>3 DEF IInv, TypeOK
<1>5. \A i \in 1..Len(chain') : i \in 1..Len(chain) /\ chain'[i] = chain[i]
  BY <1>3
<1>6. InTime'
  BY <1>1, <1>5 DEF IInv, InTime
<1>7. ASSUME NEW p \in Peers PROVE Trailed(engine[p])' /\ Rated(engine[p])'
  <2>1. PICK w \in Times : w <= clock /\ Follows(engine[p], chain, w) /\ Counted(engine[p], w)
    BY DEF IInv, Rated
  <2>2. Follows(engine[p], Front(chain), w)
    BY <1>1, <1>2, <2>1, FollowsFront
  <2>3. Trailed(engine[p]) /\ Limited(engine[p])
    BY DEF IInv, Rated
  <2> QED  BY <1>1, <2>1, <2>2, <2>3 DEF Rated
<1>8. MirrorExplained' /\ \A p \in Peers : Good(mirror[p])'
  BY <1>1, WordsSame
<1> QED  BY <1>4, <1>6, <1>7, <1>8 DEF IInv
-----------------------------------------------------------------------------
(* The pages are told of a revocation when the command is one. *)
LEMMA WordTrue ==
  ASSUME NEW ep \in Episodes, NEW cmd \in Commands, NEW by \in Participants, NEW t \in Times,
         NEW moment, Accepts(ep, cmd, by, t, moment)
  PROVE  Word(ep, Executed(ep, cmd, by, t)) = "session_revoked" <=> cmd.name = "RevokeSession"
<1> DEFINE new == Executed(ep, cmd, by, t)
<1>1. ep.is_authenticated \in BOOLEAN
  BY DEF Episodes
<1>2. CASE cmd.name = "RequestChallenge"
  <2>1. new.is_authenticated = ep.is_authenticated
    BY <1>2 DEF Executed, Episodes
  <2> HIDE DEF new
  <2> QED  BY <1>1, <1>2, <2>1 DEF Word, new
<1>3. CASE cmd.name = "SubmitResponse"
  <2>1. new.is_authenticated = TRUE
    BY <1>3, ResponseFields
  <2> HIDE DEF new
  <2> QED  BY <1>3, <2>1 DEF Word, new
<1>4. CASE cmd.name = "RevokeSession"
  <2>1. new.is_authenticated = FALSE /\ ep.is_authenticated
    BY <1>4, RevocationFields
  <2> HIDE DEF new
  <2> QED  BY <1>4, <2>1 DEF Word, new
<1> QED  BY <1>2, <1>3, <1>4, CommandNames

LEMMA AcceptedInv ==
  ASSUME IInv, NEW p \in Peers, BlkAccepted(p)
  PROVE  IInv'
<1> DEFINE en == engine[p]
           ep == en.episode
           n == Len(en.done)
           block == chain[n + 1]
           g == Grown(en, block, clock)
           ok == Accepts(ep, block.cmd, block.by, block.time, clock)
           new == Executed(ep, block.cmd, block.by, block.time)
<1>1. /\ en \in Engines /\ ep \in Episodes /\ chain \in Seq(Blocks)
      /\ engine \in [Peers -> Engines] /\ mirror \in [Peers -> Episodes]
      /\ touched \in [Peers -> BOOLEAN] /\ told = [q \in Peers |-> told[q]]
  BY DEF IInv, TypeOK, Engines
<1>2. Len(History(p)) = n /\ n < Len(chain) /\ Agrees(en, chain, n)
  BY <1>1, HistoryAgrees DEF BlkAccepted
<1>3. /\ UNCHANGED <<clock, chain, reorgs, verifying, revoking>>
      /\ engine' = [engine EXCEPT ![p] = g]
      /\ mirror' = [mirror EXCEPT ![p] = IF ok THEN new ELSE @]
      /\ told' = [told EXCEPT ![p] = IF ok THEN Said(p, block.cmd, new) ELSE @]
      /\ touched' = [touched EXCEPT ![p] = IF ok THEN FALSE ELSE @]
  BY <1>1, <1>2 DEF BlkAccepted, Grown
<1>4. Trailed(en) /\ Good(ep) /\ Good(mirror[p]) /\ Rated(en)
  BY DEF IInv, Trailed
<1>5. PICK w \in Times : w <= clock /\ Follows(en, chain, w) /\ Counted(en, w)
  BY <1>4 DEF Rated
<1>6. /\ block \in Blocks /\ block.time \in Times
      /\ Limited(g) /\ Follows(g, chain, block.time) /\ Counted(g, block.time)
  <2>1. \A j \in 1..Len(chain), i \in 1..Len(chain) : i < j => chain[i].time <= chain[j].time
    BY DEF IInv, InTime
  <2>2. Limited(en)
    BY <1>4 DEF Rated
  <2> HIDE DEF en
  <2> QED  BY <1>1, <1>2, <1>4, <1>5, <2>1, <2>2, GrownRated
<1>7. block.time <= clock
  <2>1. n + 1 \in 1..Len(chain)
    BY <1>1, <1>2, EngineParts, LenProperties
  <2> QED  BY <2>1 DEF IInv, InTime
<1>8. block.cmd \in Commands /\ block.by \in Participants
  <2> HIDE DEF block
  <2> QED  BY <1>6 DEF Blocks
<1>9. g.episode = IF ok THEN new ELSE ep
  BY DEF Grown
<1>10. g \in Engines /\ Trailed(g)
  <2> HIDE DEF en, block
  <2> QED  BY <1>1, <1>4, <1>6, GrownShape, GrownTrail
<1>11. ok => new \in Episodes /\ Good(new)
  <2> HIDE DEF block, ep
  <2> QED  BY <1>1, <1>4, <1>6, <1>8, ExecutedGood
<1>12. ok => (Word(ep, new) = "session_revoked" <=> block.cmd.name = "RevokeSession")
  <2> HIDE DEF block, ep
  <2> QED  BY <1>1, <1>6, <1>8, WordTrue
<1> HIDE DEF g, ok, new, block
<1>13. TypeOK'
  <2>1. engine' \in [Peers -> Engines]
    BY <1>1, <1>3, <1>10
  <2>2. mirror' \in [Peers -> Episodes]
    BY <1>1, <1>3, <1>11
  <2>3. touched' \in [Peers -> BOOLEAN] /\ told' = [q \in Peers |-> told'[q]]
    BY <1>1, <1>3
  <2> QED  BY <1>3, <2>1, <2>2, <2>3 DEF IInv, TypeOK
<1>14. InTime'
  BY <1>3 DEF IInv, InTime
<1>15. ASSUME NEW q \in Peers PROVE Trailed(engine[q])' /\ Rated(engine[q])'
  <2>1. CASE q = p
    <3>1. engine'[q] = g
      BY <1>1, <1>3, <2>1
    <3> QED  BY <1>3, <1>6, <1>7, <1>10, <3>1 DEF Rated
  <2>2. CASE q # p
    <3>1. engine'[q] = engine[q]
      BY <1>1, <1>3, <2>2
    <3>2. Trailed(engine[q]) /\ Rated(engine[q])
      BY DEF IInv
    <3> QED  BY <1>3, <3>1, <3>2 DEF Rated
  <2> QED  BY <2>1, <2>2
<1>16. \A q \in Peers : Good(mirror'[q])
  <2>1. \A q \in Peers : Good(mirror[q])
    BY DEF IInv
  <2> QED  BY <1>1, <1>3, <1>11, <2>1
<1>17. MirrorExplained'
  <2> SUFFICES ASSUME NEW q \in Peers
               PROVE  /\ ~ touched'[q] => mirror'[q] = engine'[q].episode
                      /\ told'[q] # None /\ told'[q].sure =>
                            (told'[q].word = "session_revoked" <=> told'[q].cmd = "RevokeSession")
    BY DEF MirrorExplained
  <2>1. /\ ~ touched[q] => mirror[q] = engine[q].episode
        /\ told[q] # None /\ told[q].sure =>
              (told[q].word = "session_revoked" <=> told[q].cmd = "RevokeSession")
    BY DEF IInv, MirrorExplained
  <2>2. CASE q # p
    <3>1. touched'[q] = touched[q] /\ mirror'[q] = mirror[q] /\ engine'[q] = engine[q]
          /\ told'[q] = told[q]
      BY <1>1, <1>3, <2>2
    <3> QED  BY <2>1, <3>1
  <2>3. CASE q = p /\ ~ ok
    <3>1. touched'[q] = touched[q] /\ mirror'[q] = mirror[q] /\ engine'[q] = g
          /\ told'[q] = told[q]
      BY <1>1, <1>3, <2>3
    <3> QED  BY <1>9, <2>1, <2>3, <3>1
  <2>4. CASE q = p /\ ok
    <3>1. mirror'[q] = new /\ engine'[q] = g /\ told'[q] = Said(p, block.cmd, new)
      BY <1>1, <1>3, <2>4
    <3>2. mirror'[q] = engine'[q].episode
      BY <1>9, <2>4, <3>1
    <3>3. CASE new.challenge = None
      <4>1. told'[q] = told[q]
        BY <2>4, <3>1, <3>3 DEF Said
      <4> QED  BY <2>1, <3>2, <4>1
    <3>4. CASE new.challenge # None
      <4>1. told'[q] = [word |-> Word(mirror[p], new), cmd |-> block.cmd.name,
                        sure |-> ~ touched[p]]
        BY <3>1, <3>4 DEF Said
      <4>2. ~ touched[p] => mirror[p] = ep
        BY <2>1, <2>4
      <4>3. told'[q].sure => told'[q].word = Word(ep, new)
        <5>1. touched[p] \in BOOLEAN
          BY <1>1
        <5>2. told'[q].sure = ~ touched[p]
          BY <4>1, <5>1
        <5>3. told'[q].word = Word(mirror[p], new)
          BY <4>1
        <5> QED  BY <4>2, <5>1, <5>2, <5>3
      <4>4. told'[q].cmd = block.cmd.name
        BY <4>1
      <4> QED  BY <1>12, <2>4, <3>2, <4>3, <4>4
    <3> QED  BY <3>3, <3>4
  <2> QED  BY <2>2, <2>3, <2>4
<1> QED  BY <1>13, <1>14, <1>15, <1>16, <1>17 DEF IInv

(* What a reversion does to the engine *)
LEMMA RevertedEngine ==
  ASSUME IInv, NEW p \in Peers, BlkReverted(p)
  PROVE  /\ engine' = [engine EXCEPT ![p] = Shrunk(engine[p])]
         /\ Shrunk(engine[p]) \in Engines /\ Trailed(Shrunk(engine[p]))
         /\ View(Shrunk(engine[p]).episode) = View(Last(engine[p].done).before)
         /\ Rated(Shrunk(engine[p]))
         /\ Last(engine[p].done).rollback = None => Shrunk(engine[p]).episode = engine[p].episode
<1> DEFINE en == engine[p]
           n == Len(en.done)
<1>1. en \in Engines /\ chain \in Seq(Blocks) /\ engine \in [Peers -> Engines]
  BY DEF IInv, TypeOK
<1>2. en.done # <<>> /\ (n <= Len(chain) => ~ Agrees(en, chain, n))
  BY <1>1, HistoryAgrees DEF BlkReverted
<1>3. engine' = [engine EXCEPT ![p] = Shrunk(en)]
  BY <1>1 DEF BlkReverted, Shrunk, Reverted
<1>4. Trailed(en) /\ Rated(en)
  BY DEF IInv
<1>5. PICK w \in Times : w <= clock /\ Follows(en, chain, w) /\ Counted(en, w)
  BY <1>4 DEF Rated
<1>6. Limited(en)
  BY <1>4 DEF Rated
<1>7. Last(en.done).rollback = None => Shrunk(en).episode = en.episode
  BY DEF Shrunk, Reverted
<1> HIDE DEF en
<1>8. Limited(Shrunk(en)) /\ Follows(Shrunk(en), chain, w) /\ Counted(Shrunk(en), w)
  BY <1>1, <1>2, <1>5, <1>6, ShrunkRated
<1>9. Rated(Shrunk(en))
  BY <1>5, <1>8 DEF Rated
<1>10. /\ Shrunk(en) \in Engines /\ Trailed(Shrunk(en))
       /\ View(Shrunk(en).episode) = View(Last(en.done).before)
  BY <1>1, <1>2, <1>4, ShrunkShape, ShrunkTrail
<1> QED  BY <1>3, <1>7, <1>9, <1>10 DEF en

LEMMA RevertedInv ==
  ASSUME IInv, NEW p \in Peers, BlkReverted(p)
  PROVE  IInv'
<1> DEFINE s == Shrunk(engine[p])
           last == Last(engine[p].done)
<1>1. /\ engine' = [engine EXCEPT ![p] = s] /\ s \in Engines /\ Trailed(s) /\ Rated(s)
      /\ last.rollback = None => s.episode = engine[p].episode
  BY RevertedEngine
<1>2. /\ UNCHANGED <<clock, chain, reorgs, mirror, verifying, revoking, told>>
      /\ touched' = [touched EXCEPT ![p] = @ \/ last.rollback # None]
  BY DEF BlkReverted
<1>3. engine \in [Peers -> Engines] /\ touched \in [Peers -> BOOLEAN]
  BY DEF IInv, TypeOK
<1> HIDE DEF s, last
<1>4. TypeOK'
  <2>1. engine' \in [Peers -> Engines] /\ touched' \in [Peers -> BOOLEAN]
    BY <1>1, <1>2, <1>3
  <2> QED  BY <1>2, <2>1 DEF IInv, TypeOK
<1>5. InTime' /\ \A q \in Peers : Good(mirror'[q])
  BY <1>2 DEF IInv, InTime
<1>6. ASSUME NEW q \in Peers PROVE Trailed(engine[q])' /\ Rated(engine[q])'
  <2>1. engine'[q] = IF q = p THEN s ELSE engine[q]
    BY <1>1, <1>3
  <2>2. Trailed(engine[q]) /\ Rated(engine[q])
    BY DEF IInv
  <2>3. Trailed(engine'[q]) /\ Rated(engine'[q])
    BY <1>1, <2>1, <2>2
  <2> QED  BY <1>2, <2>3 DEF Rated
<1>7. MirrorExplained'
  <2> SUFFICES ASSUME NEW q \in Peers
               PROVE  ~ touched'[q] => mirror'[q] = engine'[q].episode
    BY <1>2 DEF IInv, MirrorExplained
  <2>1. ~ touched[q] => mirror[q] = engine[q].episode
    BY DEF IInv, MirrorExplained
  <2>2. CASE q = p
    BY <1>1, <1>2, <1>3, <2>1, <2>2
  <2>3. CASE q # p
    BY <1>1, <1>2, <1>3, <2>1, <2>3
  <2> QED  BY <2>2, <2>3
<1> QED  BY <1>4, <1>5, <1>6, <1>7 DEF IInv
-----------------------------------------------------------------------------
(* The HTTP handlers *)
LEMMA MirrorParts ==
  ASSUME IInv, NEW p \in Peers
  PROVE  /\ mirror[p] \in Episodes /\ mirror[p].owner \in Participants
         /\ mirror[p].challenge # None => mirror[p].challenge \in Challenges
         /\ mirror[p].session_token # None => mirror[p].session_token \in SessionTokens
<1>1. mirror[p] \in Episodes
  BY DEF IInv, TypeOK
<1>2. \A ep \in Episodes : /\ ep.owner \in Participants
                           /\ ep.challenge # None => ep.challenge \in Challenges
                           /\ ep.session_token # None => ep.session_token \in SessionTokens
  BY DEF Episodes
<1> QED  BY <1>1, <1>2

LEMMA OnMirrorInv ==
  ASSUME IInv, NEW p \in Peers, NEW cmd \in Commands, NEW by \in Participants,
         OnMirror(p, cmd, by)
  PROVE  /\ UNCHANGED <<clock, chain, reorgs, engine, told>>
         /\ mirror' \in [Peers -> Episodes] /\ touched' \in [Peers -> BOOLEAN]
         /\ \A q \in Peers : Good(mirror'[q])
         /\ MirrorExplained'
<1> DEFINE ep == mirror[p]
           ok == Accepts(ep, cmd, by, 0, clock)
           new == Executed(ep, cmd, by, 0)
<1>1. /\ UNCHANGED <<clock, chain, reorgs, engine, told>>
      /\ mirror' = [mirror EXCEPT ![p] = IF ok THEN new ELSE @]
      /\ touched' = [touched EXCEPT ![p] = @ \/ ok]
  BY DEF OnMirror
<1>2. /\ mirror \in [Peers -> Episodes] /\ touched \in [Peers -> BOOLEAN]
      /\ \A q \in Peers : Good(mirror[q])
  BY DEF IInv, TypeOK
<1>3. ok => new \in Episodes /\ Good(new)
  <2>1. ep \in Episodes /\ Good(ep) /\ 0 \in Times
    BY <1>2, SimpleAuthAssumption
  <2> HIDE DEF ep
  <2> QED  BY <2>1, ExecutedGood
<1> HIDE DEF ok, new
<1>4. mirror' \in [Peers -> Episodes] /\ touched' \in [Peers -> BOOLEAN]
      /\ \A q \in Peers : Good(mirror'[q])
  BY <1>1, <1>2, <1>3
<1>5. \A q \in Peers : ~ touched'[q] => ~ touched[q] /\ mirror'[q] = mirror[q]
  <2> SUFFICES ASSUME NEW q \in Peers, ~ touched'[q]
               PROVE  ~ touched[q] /\ mirror'[q] = mirror[q]
    OBVIOUS
  <2>1. CASE q = p
    BY <1>1, <1>2, <2>1
  <2>2. CASE q # p
    BY <1>1, <1>2, <2>2
  <2> QED  BY <2>1, <2>2
<1>6. MirrorExplained'
  BY <1>1, <1>5 DEF IInv, MirrorExplained
<1> QED  BY <1>1, <1>4, <1>6

LEMMA HandlerInv ==
  ASSUME IInv, NEW p \in Peers
  PROVE  /\ RequestChallenge(p) => IInv'
         /\ VerifyAuth(p) => IInv'
         /\ VerifyAuthUpdate(p) => IInv'
         /\ RevokeSession(p) => IInv'
         /\ RevokeFails(p) => IInv'
<1>1. ASSUME RequestChallenge(p) PROVE IInv'
  <2>1. [name |-> "RequestChallenge"] \in Commands
    BY DEF Commands
  <2>2. /\ UNCHANGED <<clock, chain, reorgs, engine, told, verifying, revoking>>
        /\ mirror' \in [Peers -> Episodes] /\ touched' \in [Peers -> BOOLEAN]
        /\ (\A q \in Peers : Good(mirror'[q])) /\ MirrorExplained'
    BY <1>1, <2>1, MirrorParts, OnMirrorInv DEF RequestChallenge
  <2>3. TypeOK'
    BY <2>2 DEF IInv, TypeOK
  <2> QED  BY <2>2, <2>3, ChainSame DEF IInv
<1>2. ASSUME VerifyAuth(p) PROVE IInv'
  <2>1. /\ UNCHANGED <<clock, chain, reorgs, engine, mirror, revoking, told, touched>>
        /\ mirror[p].challenge # None
        /\ verifying' = [verifying EXCEPT ![p] =
               [nonce |-> mirror[p].challenge, owner |-> mirror[p].owner]]
    BY <1>2 DEF VerifyAuth
  <2>2. mirror[p].challenge \in Challenges /\ mirror[p].owner \in Participants
    BY <2>1, MirrorParts
  <2>3. TypeOK'
    BY <2>1, <2>2 DEF IInv, TypeOK
  <2> QED  BY <2>1, <2>3, ChainSame, WordsSame DEF IInv
<1>3. ASSUME VerifyAuthUpdate(p) PROVE IInv'
  <2>1. verifying[p] \in [nonce : Challenges, owner : Participants]
    BY <1>3 DEF VerifyAuthUpdate, IInv, TypeOK
  <2>2. /\ [name |-> "SubmitResponse", nonce |-> verifying[p].nonce] \in Commands
        /\ verifying[p].owner \in Participants
    BY <2>1 DEF Commands
  <2>3. /\ UNCHANGED <<clock, chain, reorgs, engine, told, revoking>>
        /\ verifying' = [verifying EXCEPT ![p] = None]
        /\ mirror' \in [Peers -> Episodes] /\ touched' \in [Peers -> BOOLEAN]
        /\ (\A q \in Peers : Good(mirror'[q])) /\ MirrorExplained'
    BY <1>3, <2>2, OnMirrorInv DEF VerifyAuthUpdate
  <2>4. TypeOK'
    BY <2>3 DEF IInv, TypeOK
  <2> QED  BY <2>3, <2>4, ChainSame DEF IInv
<1>4. ASSUME RevokeSession(p) PROVE IInv'
  <2>1. /\ UNCHANGED <<clock, chain, reorgs, engine, mirror, verifying, told, touched>>
        /\ mirror[p].session_token # None
        /\ revoking' = [revoking EXCEPT ![p] =
               [token |-> mirror[p].session_token, owner |-> mirror[p].owner]]
    BY <1>4 DEF RevokeSession
  <2>2. mirror[p].session_token \in SessionTokens /\ mirror[p].owner \in Participants
    BY <2>1, MirrorParts
  <2>3. TypeOK'
    BY <2>1, <2>2 DEF IInv, TypeOK
  <2> QED  BY <2>1, <2>3, ChainSame, WordsSame DEF IInv
<1>5. ASSUME RevokeFails(p) PROVE IInv'
  <2>1. /\ UNCHANGED <<clock, chain, reorgs, engine, mirror, verifying, told, touched>>
        /\ revoking' = [revoking EXCEPT ![p] = None]
    BY <1>5 DEF RevokeFails
  <2>2. TypeOK'
    BY <2>1 DEF IInv, TypeOK
  <2> QED  BY <2>1, <2>2, ChainSame, WordsSame DEF IInv
<1> QED  BY <1>1, <1>2, <1>3, <1>4, <1>5

LEMMA SubmitInv ==
  ASSUME IInv, NEW p \in Peers, RevokeSubmit(p)
  PROVE  IInv'
<1> DEFINE block == [cmd |-> [name |-> "RevokeSession", token |-> revoking[p].token],
                     by |-> revoking[p].owner, time |-> clock]
<1>1. /\ revoking[p] # None /\ revoking' = [revoking EXCEPT ![p] = None]
      /\ UNCHANGED <<clock, reorgs, engine, mirror, verifying, told, touched>>
      /\ chain' = IF revoking[p].owner # web_participant THEN chain ELSE Append(chain, block)
  BY DEF RevokeSubmit
<1>2. revoking[p] \in [token : SessionTokens, owner : Participants] /\ clock \in Times
      /\ chain \in Seq(Blocks)
  BY <1>1 DEF IInv, TypeOK
<1>3. block \in Blocks /\ block.time = clock
  <2>1. [name |-> "RevokeSession", token |-> revoking[p].token] \in Commands
    BY <1>2 DEF Commands
  <2> QED  BY <1>2, <2>1 DEF Blocks
<1> HIDE DEF block
<1>4. chain' \in Seq(Blocks) /\ InTime' /\ \A q \in Peers : Trailed(engine[q])' /\ Rated(engine[q])'
  <2>1. CASE revoking[p].owner # web_participant
    BY <1>1, <1>2, <2>1, ChainSame
  <2>2. CASE revoking[p].owner = web_participant
    BY <1>1, <1>3, <2>2, ChainGrows
  <2> QED  BY <2>1, <2>2
<1>5. TypeOK'
  BY <1>1, <1>4 DEF IInv, TypeOK
<1>6. MirrorExplained' /\ \A q \in Peers : Good(mirror[q])'
  BY <1>1, WordsSame
<1> QED  BY <1>4, <1>5, <1>6 DEF IInv

-----------------------------------------------------------------------------
(* Sessions are sound, the rates are kept by what is held, and the mirror  *)
(* is explained, after every step of a peer, of its handlers and of the    *)
(* chain.                                                                  *)
THEOREM Inductive == Spec => []IInv
<1>1. IInv /\ [Next]_vars => IInv'
  <2> SUFFICES ASSUME IInv, [Next]_vars PROVE IInv'
    OBVIOUS
  <2>1. CASE Tick
    BY <2>1, TickInv
  <2>2. CASE Mine
    BY <2>2, MineInv
  <2>3. CASE Reorg
    BY <2>3, ReorgInv
  <2>4. ASSUME NEW p \in Peers,
               \/ BlkAccepted(p) \/ BlkReverted(p)
               \/ RequestChallenge(p) \/ VerifyAuth(p) \/ VerifyAuthUpdate(p)
               \/ RevokeSession(p) \/ RevokeSubmit(p) \/ RevokeFails(p)
        PROVE  IInv'
    <3>1. CASE BlkAccepted(p)
      BY <3>1, AcceptedInv
    <3>2. CASE BlkReverted(p)
      BY <3>2, RevertedInv
    <3>3. CASE RevokeSubmit(p)
      BY <3>3, SubmitInv
    <3> QED  BY <2>4, <3>1, <3>2, <3>3, HandlerInv
  <2>5. CASE UNCHANGED vars
    <3>1. TypeOK'
      BY <2>5 DEF IInv, TypeOK, vars, peerVars
    <3> QED  BY <2>5, <3>1, ChainSame, WordsSame DEF IInv, vars, peerVars
  <2> QED  BY <2>1, <2>2, <2>3, <2>4, <2>5 DEF Next
<1> QED  BY <1>1, InitInv, PTL DEF Spec

(* There is a session token exactly while the owner is authenticated, in   *)
(* the engine's episode and in the mirror, whatever was executed by the    *)
(* chain or over HTTP and whatever was taken back.                         *)
THEOREM Sessions == Spec => []SessionSound
<1>1. IInv => SessionSound
  BY DEF IInv, Trailed, Good, SessionSound
<1> QED  BY <1>1, Inductive, PTL

(* On the chain that a peer has executed, no participant got more than     *)
(* MAX_ATTEMPTS challenges in any window, across reorganisations.          *)
THEOREM Rates == Spec => []RateBound
<1>1. IInv => RateBound
  <2> SUFFICES ASSUME IInv, NEW p \in Peers, NEW by \in Participants, NEW from \in Times
               PROVE  Cardinality(Issued(p, by, from)) <= MAX_ATTEMPTS
    BY DEF RateBound
  <2>1. engine[p] \in Engines /\ Limited(engine[p])
    BY DEF IInv, TypeOK, Rated
  <2>2. /\ DOMAIN engine[p].done = 1..Len(engine[p].done)
        /\ \A i \in 1..Len(engine[p].done) : engine[p].done[i].block.time \in Nat
    BY <2>1, EngineParts, SimpleAuthAssumption
  <2>3. from \in Nat /\ WINDOW_SECS \in Nat
    BY SimpleAuthAssumption
  <2>4. \A t \in Nat : t \in from .. from + WINDOW_SECS
                          <=> from <= t /\ t <= from + WINDOW_SECS
    BY <2>3
  <2>5. Issued(p, by, from) = IssuedWithin(engine[p], by, from)
    BY <2>2, <2>4 DEF Issued, IssuedWithin, IssuedSince, IsIssue
  <2> QED  BY <2>1, <2>5 DEF Limited
<1> QED  BY <1>1, Inductive, PTL

(* The mirror is the engine's episode unless a handler executed on it or a *)
(* command was taken back, and unless one of these happened the pages hear *)
(* of a revocation exactly when the chain has one.                         *)
THEOREM Mirrors == Spec => []MirrorExplained
<1>1. IInv => MirrorExplained
  BY DEF IInv
<1> QED  BY <1>1, Inductive, PTL

(* A reversion gives the episode back the challenge and the session that   *)
(* it had before the command, however many were reverted before.           *)
THEOREM Restores == Spec => RollbackRestores
<1> DEFINE A == \A p \in Peers :
                   BlkReverted(p) => View(engine'[p].episode) = View(Last(engine[p].done).before)
<1>1. IInv => A
  <2> SUFFICES ASSUME IInv, NEW p \in Peers, BlkReverted(p)
               PROVE  View(engine'[p].episode) = View(Last(engine[p].done).before)
    OBVIOUS
  <2>1. engine'[p] = Shrunk(engine[p])
    BY RevertedEngine DEF IInv, TypeOK
  <2> QED  BY <2>1, RevertedEngine
<1>2. IInv /\ [Next]_vars => [A]_vars
  BY <1>1
<1> QED  BY <1>2, Inductive, PTL DEF Spec, RollbackRestores

-----------------------------------------------------------------------------
(* The participants *)

Chain(p) == <<p, "chain">>
MemberChallenges == Members \X {2}
States == [challenge : MemberChallenges \cup {Nothing}, users : SUBSET Members]

(* What a member sends, by the number of the transaction *)
CmdOk(p, cmd, n) ==
    /\ n = 1 <=> cmd.type = "NewEpisode"
    /\ n = 2 <=> cmd.type = "RequestChallenge"
    /\ n = 3 <=> cmd.type = "SubmitResponse"
    /\ n = 3 => cmd.nonce = challenge_text[p]
    /\ n > 3 => cmd.type \in {"JoinRoom", "SubmitComment"}

TxOk(k, tx) ==
    /\ tx = [from |-> k[1], cmd |-> tx.cmd, n |-> tx.n]
    /\ IF k[2] = "chain" THEN tx.n \in 1 .. sent[k[1]] /\ CmdOk(k[1], tx.cmd, tx.n)
       ELSE tx.cmd.type = "SubmitComment" /\ sent[k[1]] >= 3

Block(b) ==
    /\ b = [purse |-> b.purse, tx |-> b.tx, ok |-> b.ok, undo |-> b.undo]
    /\ b.purse \in People!Purses /\ b.ok \in BOOLEAN /\ TxOk(b.purse, b.tx)

RoomOk(ep) ==
    /\ ep = [room_members |-> ep.room_members, authenticated_users |-> ep.authenticated_users,
             current_challenge |-> ep.current_challenge, comments |-> ep.comments,
             total_comments |-> ep.total_comments, total_locked_value |-> ep.total_locked_value,
             locked_utxos |-> ep.locked_utxos, next_comment_id |-> ep.next_comment_id]
    /\ ep.authenticated_users \in Seq(Members)
    /\ ep.current_challenge \in MemberChallenges \cup {Nothing}

PeopleType ==
    /\ episodes = <<>> \/ (episodes = <<People!room>> /\ RoomOk(People!room))
    /\ IsSeq(accepted) /\ \A i \in 1 .. Len(accepted) : Block(accepted[i])
    /\ pending = [k \in People!Purses |-> pending[k]]
    /\ \A k \in People!Purses :
          IsSeq(pending[k]) /\ \A i \in 1 .. Len(pending[k]) : TxOk(k, pending[k][i])
    /\ sent \in [Members -> Nat]
    /\ pc = [p \in Members |-> pc[p]]
    /\ channel \in [Members -> Seq(States)]
    /\ challenge_text \in [Members -> MemberChallenges \cup {Nothing}]

(* How many transactions a member has sent where it is *)
Stage(p) ==
    /\ pc[p] \in {"register", "connect", "request", "challenge", "respond", "confirm", "join",
                  "board", "out"}
    /\ pc[p] = "register" => sent[p] = 0
    /\ pc[p] \in {"connect", "request"} => sent[p] = 1
    /\ pc[p] \in {"challenge", "respond"} => sent[p] = 2
    /\ pc[p] = "confirm" => sent[p] = 3
    /\ pc[p] \in {"join", "board"} => sent[p] >= 3
    /\ pc[p] \in {"respond", "confirm"} => challenge_text[p] # Nothing

(* A member's transactions are mined in order, also again *)
Mined(p) == sent[p] - Len(pending[Chain(p)])

Of(i, p) == accepted[i].purse = Chain(p)

InTurn(p) ==
    /\ Len(pending[Chain(p)]) <= sent[p]
    /\ \A i \in 1 .. Len(pending[Chain(p)]) : pending[Chain(p)][i].n = Mined(p) + i
    /\ \A i \in 1 .. Len(accepted) : Of(i, p) => accepted[i].tx.n <= Mined(p)
    /\ \A i, j \in 1 .. Len(accepted) :
          i < j /\ Of(i, p) /\ Of(j, p) => accepted[i].tx.n < accepted[j].tx.n
    /\ \A n \in 1 .. Mined(p) : \E i \in 1 .. Len(accepted) : Of(i, p) /\ accepted[i].tx.n = n

(* There is a room from its first creation on *)
Creation(i) == accepted[i].tx.cmd.type = "NewEpisode"
Created(n) == \E i \in 1 .. n : Creation(i)

Undos == {"join_room", "submit_comment", "request_challenge", "authenticate"}

RoomFollows ==
    /\ episodes # <<>> <=> Created(Len(accepted))
    /\ \A i \in 1 .. Len(accepted) : Creation(i) => (accepted[i].ok <=> ~ Created(i - 1))
    /\ \A i \in 1 .. Len(accepted) : accepted[i].ok /\ ~ Creation(i) =>
          Created(i - 1) /\ accepted[i].undo.type \in Undos

(* Whoever is said to be in the room, or to be challenged, has asked *)
Users == IF episodes = <<>> THEN {} ELSE Contents(People!room.authenticated_users)
Heard(p) == \E i \in 1 .. Len(channel[p]) : p \in channel[p][i].users
Asked(c) == c = Nothing \/ sent[c[1]] >= 2

StateOk(s) ==
    /\ Asked(s.challenge)
    /\ \A q \in s.users : sent[q] >= 3
    /\ ~ recreated => episodes # <<>> /\ s.users \subseteq Users

Honest(p) ==
    /\ Asked(challenge_text[p])
    /\ \A i \in 1 .. Len(channel[p]) : StateOk(channel[p][i])
    /\ p \in Users => sent[p] >= 3
    /\ pc[p] \in {"join", "board"} /\ ~ recreated => episodes # <<>> /\ p \in Users
    /\ pc[p] = "confirm" /\ p \in Users => Heard(p)

(* A member whose challenge nobody can have replaced *)
Alone(p) == \A q \in Members \ {p} : sent[q] < 2

Unstuck(p) ==
    Alone(p) =>
        /\ Mined(p) >= 2 =>
              episodes # <<>> /\ (People!room.current_challenge = <<p, 2>> \/ p \in Users)
        /\ Mined(p) >= 3 /\ pc[p] = "confirm" => Heard(p)

RoomAsked == episodes # <<>> => Asked(People!room.current_challenge)

PeopleInv ==
    /\ PeopleType /\ RoomFollows /\ RoomAsked
    /\ \A p \in Members : Stage(p) /\ InTurn(p) /\ Honest(p) /\ Unstuck(p)

LEMMA PurseParts ==
  ASSUME NEW k \in People!Purses
  PROVE  k[1] \in Members /\ k[2] \in {"chain", "wallet"} /\ k = <<k[1], k[2]>>
BY DEF People!Purses

LEMMA ChainParts ==
  ASSUME NEW p \in Members
  PROVE  /\ Chain(p) \in People!Purses /\ Chain(p)[1] = p /\ Chain(p)[2] = "chain"
         /\ \A q : Chain(q) = Chain(p) => q = p
         /\ \A k \in People!Purses : k[2] = "chain" => k = Chain(k[1])
BY PurseParts DEF People!Purses, Chain

LEMMA PeopleParts ==
  ASSUME PeopleInv
  PROVE  /\ Len(accepted) \in Nat
         /\ \A p \in Members : /\ sent[p] \in Nat /\ channel[p] \in Seq(States)
                               /\ Len(channel[p]) \in Nat
                               /\ IsSeq(pending[Chain(p)]) /\ Len(pending[Chain(p)]) \in Nat
                               /\ Mined(p) \in Nat /\ Mined(p) <= sent[p]
         /\ \A k \in People!Purses : IsSeq(pending[k]) /\ Len(pending[k]) \in Nat
<1>1. Len(accepted) \in Nat
  BY DEF PeopleInv, PeopleType, IsSeq
<1>2. \A k \in People!Purses : IsSeq(pending[k]) /\ Len(pending[k]) \in Nat
  BY DEF PeopleInv, PeopleType, IsSeq
<1>3. ASSUME NEW p \in Members
      PROVE  /\ sent[p] \in Nat /\ channel[p] \in Seq(States) /\ Len(channel[p]) \in Nat
             /\ IsSeq(pending[Chain(p)]) /\ Len(pending[Chain(p)]) \in Nat
             /\ Mined(p) \in Nat /\ Mined(p) <= sent[p]
  <2>1. sent[p] \in Nat /\ channel[p] \in Seq(States) /\ Len(channel[p]) \in Nat
    BY DEF PeopleInv, PeopleType
  <2>2. IsSeq(pending[Chain(p)]) /\ Len(pending[Chain(p)]) \in Nat
    BY <1>2, ChainParts
  <2>3. Len(pending[Chain(p)]) <= sent[p]
    BY DEF PeopleInv, InTurn
  <2> QED  BY <2>1, <2>2, <2>3 DEF Mined
<1> QED  BY <1>1, <1>2, <1>3

(* Transactions stay what they are while more are sent, since the third    *)
(* is not sent before the challenge is known.                              *)
More ==
    \A q \in Members :
        /\ sent[q] \in Nat /\ sent'[q] \in Nat /\ sent[q] <= sent'[q]
        /\ sent[q] >= 3 => challenge_text'[q] = challenge_text[q]

LEMMA TxStays ==
  ASSUME More, NEW k \in People!Purses, NEW tx, TxOk(k, tx)
  PROVE  TxOk(k, tx)'
<1> PICK q : q = k[1]
  OBVIOUS
<1>1. /\ q \in Members /\ sent[q] \in Nat /\ sent'[q] \in Nat /\ sent[q] <= sent'[q]
      /\ sent[q] >= 3 => challenge_text'[q] = challenge_text[q]
  BY PurseParts DEF More
<1>2. CASE k[2] = "chain"
  <2>1. tx.n \in 1 .. sent[q] /\ CmdOk(q, tx.cmd, tx.n)
    BY <1>2 DEF TxOk
  <2>2. tx.n \in 1 .. sent'[q] /\ CmdOk(q, tx.cmd, tx.n)'
    BY <1>1, <2>1 DEF CmdOk
  <2> QED  BY <1>2, <2>2 DEF TxOk
<1>3. CASE k[2] # "chain"
  BY <1>1, <1>3 DEF TxOk
<1> QED  BY <1>2, <1>3

LEMMA BlockStays ==
  ASSUME More, NEW b, Block(b)
  PROVE  Block(b)'
BY TxStays DEF Block, People!Purses

LEMMA AskedStays ==
  ASSUME More, NEW c \in MemberChallenges \cup {Nothing}, Asked(c)
  PROVE  Asked(c)'
<1>1. CASE c = Nothing
  BY <1>1 DEF Asked
<1>2. CASE c # Nothing
  <2>1. c[1] \in Members /\ sent[c[1]] >= 2
    BY <1>2 DEF Asked, MemberChallenges
  <2>2. sent'[c[1]] >= 2
    BY <2>1 DEF More
  <2> QED  BY <2>2 DEF Asked
<1> QED  BY <1>1, <1>2

LEMMA StateStays ==
  ASSUME More, NEW s \in States, StateOk(s),
         UNCHANGED <<episodes, recreated>>
  PROVE  StateOk(s)'
<1>1. s.challenge \in MemberChallenges \cup {Nothing} /\ s.users \subseteq Members
  BY DEF States
<1>2. Asked(s.challenge)'
  BY <1>1, AskedStays DEF StateOk
<1>3. \A q \in s.users : sent'[q] >= 3
  BY <1>1 DEF StateOk, More
<1>4. Users' = Users
  BY DEF Users, People!room
<1> QED  BY <1>2, <1>3, <1>4 DEF StateOk

LEMMA AloneBefore == ASSUME More, NEW p, Alone(p)' PROVE Alone(p)
BY DEF More, Alone

(* A step in which a member only sends: what the others see of it *)
LEMMA OthersStay ==
  ASSUME PeopleInv, More, NEW q \in Members,
         UNCHANGED <<episodes, accepted, recreated, channel>>,
         sent'[q] = sent[q], pending'[Chain(q)] = pending[Chain(q)], pc'[q] = pc[q],
         challenge_text'[q] = challenge_text[q]
  PROVE  (Stage(q) /\ InTurn(q) /\ Honest(q) /\ Unstuck(q))'
<1>1. Stage(q) /\ InTurn(q) /\ Honest(q) /\ Unstuck(q)
  BY DEF PeopleInv
<1>2. Stage(q)'
  BY <1>1 DEF Stage
<1>3. Mined(q)' = Mined(q) /\ Users' = Users /\ (\A i : Of(i, q)' <=> Of(i, q)) /\ Heard(q)' = Heard(q)
  BY DEF Mined, Users, Of, Heard, People!room, Chain
<1>4. InTurn(q)'
  BY <1>1, <1>3 DEF InTurn, Chain
<1>5. Honest(q)'
  <2>1. \A i \in 1 .. Len(channel[q]) : StateOk(channel[q][i])'
    <3>1. \A i \in 1 .. Len(channel[q]) : channel[q][i] \in States /\ StateOk(channel[q][i])
      BY <1>1, PeopleParts DEF Honest
    <3> QED  BY <3>1, StateStays
  <2>2. Asked(challenge_text[q])'
    BY <1>1, AskedStays DEF Honest, PeopleInv, PeopleType
  <2> QED  BY <1>1, <1>3, <2>1, <2>2 DEF Honest
<1>6. Unstuck(q)'
  <2>1. (Alone(q))' => Alone(q)
    BY AloneBefore
  <2> QED  BY <1>1, <1>3, <2>1 DEF Unstuck, People!room
<1> QED  BY <1>2, <1>4, <1>5, <1>6

LEMMA SendType ==
  ASSUME PeopleInv, More, UNCHANGED <<episodes, accepted, recreated, channel, challenge_text>>,
         sent' \in [Members -> Nat], pc' = [q \in Members |-> pc'[q]],
         \/ pending' = pending
         \/ \E k \in People!Purses : \E tx :
               TxOk(k, tx)' /\ pending' = [pending EXCEPT ![k] = Append(@, tx)]
  PROVE  PeopleType' /\ RoomFollows' /\ RoomAsked'
<1>1. PeopleType /\ RoomFollows /\ RoomAsked
  BY DEF PeopleInv
<1>2. \A i \in 1 .. Len(accepted) : Block(accepted[i])'
  BY <1>1, BlockStays DEF PeopleType
<1>3. ASSUME NEW l \in People!Purses
      PROVE  (IsSeq(pending[l]) /\ \A i \in 1 .. Len(pending[l]) : TxOk(l, pending[l][i]))'
  <2> PICK s : s = pending[l]
    OBVIOUS
  <2> PICK t : t = pending'[l]
    OBVIOUS
  <2>1. IsSeq(s) /\ \A i \in 1 .. Len(s) : TxOk(l, s[i])'
    <3>1. IsSeq(s) /\ \A i \in 1 .. Len(s) : TxOk(l, s[i])
      BY <1>1 DEF PeopleType
    <3> QED  BY <3>1, TxStays
  <2>2. CASE t = s
    BY <2>1, <2>2
  <2>3. CASE \E tx : TxOk(l, tx)' /\ t = Append(s, tx)
    <3>1. PICK tx : TxOk(l, tx)' /\ t = Append(s, tx)
      BY <2>3
    <3>2. /\ IsSeq(t) /\ Len(s) \in Nat /\ Len(t) = Len(s) + 1 /\ t[Len(s) + 1] = tx
          /\ \A i \in 1 .. Len(s) : t[i] = s[i]
      BY <2>1, <3>1, Prolonged
    <3>3. \A i \in 1 .. Len(t) : i \in 1 .. Len(s) \/ i = Len(s) + 1
      BY <3>2
    <3>4. \A i \in 1 .. Len(t) : TxOk(l, t[i])'
      BY <2>1, <3>1, <3>2, <3>3
    <3> QED  BY <3>2, <3>4
  <2>4. t = s \/ \E tx : TxOk(l, tx)' /\ t = Append(s, tx)
    <3>1. DOMAIN pending = People!Purses
      BY <1>1 DEF PeopleType
    <3>2. ASSUME NEW k \in People!Purses, NEW tx, TxOk(k, tx)',
                 pending' = [pending EXCEPT ![k] = Append(@, tx)]
          PROVE  t = s \/ \E y : TxOk(l, y)' /\ t = Append(s, y)
      BY <3>1, <3>2
    <3> QED  BY <3>2
  <2> QED  BY <2>2, <2>3, <2>4
<1>4. pending' = [l \in People!Purses |-> pending'[l]]
  BY <1>1 DEF PeopleType
<1>6. PeopleType'
  <2>1. (episodes = <<>> \/ (episodes = <<People!room>> /\ RoomOk(People!room)))'
    BY <1>1 DEF PeopleType, People!room, RoomOk
  <2>2. channel' \in [Members -> Seq(States)] /\ challenge_text' \in [Members -> MemberChallenges \cup {Nothing}]
    BY <1>1 DEF PeopleType
  <2>3. IsSeq(accepted)'
    BY <1>1 DEF PeopleType
  <2> QED  BY <1>2, <1>3, <1>4, <2>1, <2>2, <2>3 DEF PeopleType
<1>7. RoomFollows'
  BY <1>1 DEF RoomFollows, Created, Creation
<1>8. RoomAsked'
  <2>1. People!room' = People!room
    BY DEF People!room
  <2>2. episodes # <<>> => People!room.current_challenge \in MemberChallenges \cup {Nothing}
    BY <1>1 DEF PeopleType, RoomOk
  <2> QED  BY <1>1, <2>1, <2>2, AskedStays DEF RoomAsked
<1> QED  BY <1>6, <1>7, <1>8

(* A member sends the next transaction of its chain, or fails to, and goes *)
(* on.                                                                     *)
LEMMA SendGood ==
  ASSUME PeopleInv, UNCHANGED <<episodes, accepted, recreated, channel, challenge_text>>,
         NEW p \in Members, NEW to, pc' = [pc EXCEPT ![p] = to], Stage(p)',
         to \in {"join", "board"} => pc[p] \in {"join", "board"},
         to = "confirm" => pc[p] = "respond",
         \/ UNCHANGED <<sent, pending>>
         \/ \E cmd :
               /\ sent' = [sent EXCEPT ![p] = @ + 1]
               /\ pending' = [pending EXCEPT ![Chain(p)] =
                     Append(@, [from |-> p, cmd |-> cmd, n |-> sent[p] + 1])]
               /\ CmdOk(p, cmd, sent[p] + 1)
  PROVE  PeopleInv'
<1>1. PeopleType /\ Stage(p) /\ InTurn(p) /\ Honest(p) /\ Unstuck(p)
  BY DEF PeopleInv
<1>2. sent \in [Members -> Nat] /\ DOMAIN pc = Members /\ DOMAIN pending = People!Purses
  BY <1>1 DEF PeopleType
<1>3. Chain(p) \in People!Purses /\ Chain(p)[1] = p /\ Chain(p)[2] = "chain"
      /\ \A q : Chain(q) = Chain(p) => q = p
  BY ChainParts
<1>4. sent' \in [Members -> Nat] /\ pc'[p] = to /\ \A q \in Members \ {p} : pc'[q] = pc[q]
  <2>1. sent' = sent \/ sent' = [sent EXCEPT ![p] = @ + 1]
    OBVIOUS
  <2>2. sent' \in [Members -> Nat]
    BY <1>2, <2>1
  <2>3. pc'[p] = to /\ \A q \in Members \ {p} : pc'[q] = pc[q]
    BY <1>2
  <2> QED  BY <2>2, <2>3
<1>5. More
  <2>1. sent' = sent \/ sent' = [sent EXCEPT ![p] = @ + 1]
    OBVIOUS
  <2>2. \A q \in Members : sent[q] \in Nat /\ sent'[q] \in Nat /\ sent[q] <= sent'[q]
    BY <1>2, <2>1
  <2> QED  BY <2>2 DEF More
<1>6. \/ pending' = pending
      \/ \E tx : TxOk(Chain(p), tx)' /\ pending' = [pending EXCEPT ![Chain(p)] = Append(@, tx)]
  <2>1. CASE UNCHANGED <<sent, pending>>
    BY <2>1
  <2>2. ASSUME NEW cmd, sent' = [sent EXCEPT ![p] = @ + 1],
               pending' = [pending EXCEPT ![Chain(p)] =
                     Append(@, [from |-> p, cmd |-> cmd, n |-> sent[p] + 1])],
               CmdOk(p, cmd, sent[p] + 1)
        PROVE  \E tx : TxOk(Chain(p), tx)'
                       /\ pending' = [pending EXCEPT ![Chain(p)] = Append(@, tx)]
    <3> PICK tx : tx = [from |-> p, cmd |-> cmd, n |-> sent[p] + 1]
      OBVIOUS
    <3>1. tx = [from |-> p, cmd |-> tx.cmd, n |-> tx.n] /\ tx.cmd = cmd /\ tx.n = sent[p] + 1
      OBVIOUS
    <3>2. tx.n \in 1 .. sent'[p]
      BY <1>2, <2>2, <3>1
    <3>3. CmdOk(p, tx.cmd, tx.n)'
      BY <2>2, <3>1 DEF CmdOk
    <3>4. TxOk(Chain(p), tx)'
      BY <1>3, <3>1, <3>2, <3>3 DEF TxOk
    <3> QED  BY <2>2, <3>4
  <2> QED  BY <2>1, <2>2
<1>7. PeopleType' /\ RoomFollows' /\ RoomAsked'
  <2>1. pc' = [q \in Members |-> pc'[q]]
    BY <1>1 DEF PeopleType
  <2> QED  BY <1>3, <1>4, <1>5, <1>6, <2>1, SendType
<1>8. ASSUME NEW q \in Members, q # p
      PROVE  (Stage(q) /\ InTurn(q) /\ Honest(q) /\ Unstuck(q))'
  <2>1. sent'[q] = sent[q] /\ pending'[Chain(q)] = pending[Chain(q)] /\ pc'[q] = pc[q]
    <3>1. Chain(q) # Chain(p) /\ Chain(q) \in People!Purses
      BY <1>3, <1>8, ChainParts
    <3>2. (\E x : sent' = [sent EXCEPT ![p] = x]) \/ sent' = sent
      OBVIOUS
    <3>3. (\E x : pending' = [pending EXCEPT ![Chain(p)] = x]) \/ pending' = pending
      OBVIOUS
    <3>4. sent'[q] = sent[q]
      BY <1>2, <1>8, <3>2
    <3>5. pending'[Chain(q)] = pending[Chain(q)]
      BY <1>2, <3>1, <3>3
    <3> QED  BY <1>4, <1>8, <3>4, <3>5
  <2> QED  BY <1>5, <2>1, OthersStay
<1>9. /\ Mined(p)' = Mined(p) /\ Mined(p) \in Nat /\ Mined(p) <= sent[p] /\ sent[p] \in Nat
      /\ Len(pending'[Chain(p)]) <= sent'[p]
      /\ \A i \in 1 .. Len(pending'[Chain(p)]) : pending'[Chain(p)][i].n = Mined(p) + i
  <2>1. /\ Mined(p) \in Nat /\ Mined(p) <= sent[p] /\ sent[p] \in Nat
        /\ IsSeq(pending[Chain(p)]) /\ Len(pending[Chain(p)]) \in Nat
    BY PeopleParts
  <2>2. CASE UNCHANGED <<sent, pending>>
    BY <1>1, <2>1, <2>2 DEF Mined, InTurn, Chain
  <2>3. CASE \E tx : /\ sent'[p] = sent[p] + 1 /\ tx.n = sent[p] + 1
                     /\ pending'[Chain(p)] = Append(pending[Chain(p)], tx)
    <3>1. PICK tx : /\ sent'[p] = sent[p] + 1 /\ tx.n = sent[p] + 1
                    /\ pending'[Chain(p)] = Append(pending[Chain(p)], tx)
      BY <2>3
    <3> DEFINE s == pending[Chain(p)]  t == Append(s, tx)
    <3>2. /\ Len(t) = Len(s) + 1 /\ t[Len(s) + 1] = tx /\ \A i \in 1 .. Len(s) : t[i] = s[i]
      BY <2>1, Prolonged
    <3>3. pending'[Chain(p)] = t
      BY <3>1
    <3> HIDE DEF t
    <3>4. Mined(p) = sent[p] - Len(s) /\ Mined(p)' = sent'[p] - Len(t)
      BY <3>3 DEF Mined, Chain
    <3>5. /\ Len(s) <= sent[p] /\ \A i \in 1 .. Len(s) : s[i].n = Mined(p) + i
      BY <1>1 DEF InTurn
    <3>6. \A i \in 1 .. Len(t) : i \in 1 .. Len(s) \/ i = Len(s) + 1
      BY <2>1, <3>2
    <3>7. t[Len(s) + 1].n = Mined(p) + (Len(s) + 1)
      BY <2>1, <3>1, <3>2, <3>4
    <3>8. \A i \in 1 .. Len(t) : t[i].n = Mined(p) + i
      BY <3>2, <3>5, <3>6, <3>7
    <3>9. Mined(p)' = Mined(p) /\ Len(t) <= sent'[p]
      BY <2>1, <3>1, <3>2, <3>4, <3>5
    <3> QED  BY <2>1, <3>3, <3>8, <3>9
  <2>4. UNCHANGED <<sent, pending>> \/ \E tx : /\ sent'[p] = sent[p] + 1 /\ tx.n = sent[p] + 1
                     /\ pending'[Chain(p)] = Append(pending[Chain(p)], tx)
    <3>1. ASSUME NEW cmd, sent' = [sent EXCEPT ![p] = @ + 1],
                 pending' = [pending EXCEPT ![Chain(p)] =
                     Append(@, [from |-> p, cmd |-> cmd, n |-> sent[p] + 1])]
          PROVE  \E tx : /\ sent'[p] = sent[p] + 1 /\ tx.n = sent[p] + 1
                         /\ pending'[Chain(p)] = Append(pending[Chain(p)], tx)
      BY <1>2, <1>3, <3>1
    <3> QED  BY <3>1
  <2> QED  BY <2>2, <2>3, <2>4
<1>10. Users' = Users /\ (\A i : Of(i, p)' <=> Of(i, p)) /\ Heard(p)' = Heard(p)
  BY DEF Users, Of, Heard, People!room, Chain
<1>11. InTurn(p)'
  BY <1>1, <1>9, <1>10 DEF InTurn, Chain
<1>12. to = "confirm" => p \notin Users /\ Mined(p) < 3
  BY <1>1, <1>9 DEF Stage, Honest
<1>13. Honest(p)'
  <2>1. \A i \in 1 .. Len(channel[p]) : StateOk(channel[p][i])'
    <3>1. \A i \in 1 .. Len(channel[p]) : channel[p][i] \in States /\ StateOk(channel[p][i])
      BY <1>1, PeopleParts DEF Honest
    <3> QED  BY <1>5, <3>1, StateStays
  <2>2. Asked(challenge_text[p])'
    BY <1>1, <1>5, AskedStays DEF Honest, PeopleType
  <2>3. p \in Users => sent'[p] >= 3
    BY <1>1, <1>5 DEF Honest, More
  <2> QED  BY <1>1, <1>4, <1>10, <1>12, <2>1, <2>2, <2>3 DEF Honest
<1>14. Unstuck(p)'
  <2>1. (Alone(p))' => Alone(p)
    BY <1>5, AloneBefore
  <2> QED  BY <1>1, <1>4, <1>9, <1>10, <1>12, <2>1 DEF Unstuck, People!room
<1> QED  BY <1>7, <1>8, <1>11, <1>13, <1>14 DEF PeopleInv

(* submit_tx_retry takes the next transaction of the chain, or none *)
LEMMA SubmitParts ==
  ASSUME NEW p, NEW cmd, NEW Then, NEW Else, People!Submit(p, cmd, Then, Else)
  PROVE  \/ /\ sent' = [sent EXCEPT ![p] = @ + 1]
            /\ pending' = [pending EXCEPT ![Chain(p)] =
                  Append(@, [from |-> p, cmd |-> cmd, n |-> sent[p] + 1])]
            /\ Then \/ Else
         \/ UNCHANGED <<sent, pending>> /\ Else
BY DEF People!Submit, People!Take, Chain

LEMMA StepGood ==
  ASSUME PeopleInv, NEW p \in Members, NEW from, NEW cmd, NEW to, People!Step(p, from, cmd, to),
         <<from, to>> \in {<<"register", "connect">>, <<"request", "challenge">>,
                           <<"respond", "confirm">>},
         CmdOk(p, cmd, sent[p] + 1)
  PROVE  PeopleInv'
<1>1. /\ Stage(p) /\ sent[p] \in Nat /\ pc[p] = from
      /\ UNCHANGED <<episodes, accepted, recreated, channel, challenge_text>>
      /\ People!Submit(p, cmd, People!Spent(p) /\ People!Goto(p, to),
                       UNCHANGED utxo /\ People!Goto(p, "out"))
  BY PeopleParts DEF PeopleInv, People!Step, People!chainVars
<1>2. /\ sent \in [Members -> Nat] /\ p \in DOMAIN pc
  BY DEF PeopleInv, PeopleType
<1>3. CASE pc' = [pc EXCEPT ![p] = "out"]
  <2>1. Stage(p)'
    BY <1>2, <1>3 DEF Stage
  <2> QED  BY <1>1, <1>3, <2>1, SubmitParts, SendGood
<1>4. CASE pc' = [pc EXCEPT ![p] = to]
           /\ sent' = [sent EXCEPT ![p] = @ + 1]
           /\ pending' = [pending EXCEPT ![Chain(p)] =
                  Append(@, [from |-> p, cmd |-> cmd, n |-> sent[p] + 1])]
  <2>1. pc'[p] = to /\ sent'[p] = sent[p] + 1
    BY <1>2, <1>4
  <2>2. Stage(p)'
    BY <1>1, <2>1 DEF Stage
  <2>3. (to \in {"join", "board"} => pc[p] \in {"join", "board"})
        /\ (to = "confirm" => pc[p] = "respond")
    BY <1>1
  <2> QED  BY <1>1, <1>4, <2>2, <2>3, SendGood
<1>5. \/ pc' = [pc EXCEPT ![p] = "out"]
      \/ pc' = [pc EXCEPT ![p] = to]
           /\ sent' = [sent EXCEPT ![p] = @ + 1]
           /\ pending' = [pending EXCEPT ![Chain(p)] =
                  Append(@, [from |-> p, cmd |-> cmd, n |-> sent[p] + 1])]
  BY <1>1, SubmitParts DEF People!Goto
<1> QED  BY <1>3, <1>4, <1>5

LEMMA RegisterGood ==
  ASSUME PeopleInv, NEW p \in Members, People!Register(p) PROVE PeopleInv'
<1> PICK cmd : cmd = [type |-> "NewEpisode"]
  OBVIOUS
<1>1. People!Step(p, "register", cmd, "connect")
  BY DEF People!Register
<1>2. Stage(p) /\ pc[p] = "register"
  BY <1>1 DEF PeopleInv, People!Step
<1>3. CmdOk(p, cmd, sent[p] + 1)
  BY <1>2 DEF Stage, CmdOk
<1> QED  BY <1>1, <1>3, StepGood

LEMMA RequestGood ==
  ASSUME PeopleInv, NEW p \in Members, People!RequestChallenge(p) PROVE PeopleInv'
<1> PICK cmd : cmd = [type |-> "RequestChallenge"]
  OBVIOUS
<1>1. People!Step(p, "request", cmd, "challenge")
  BY DEF People!RequestChallenge
<1>2. Stage(p) /\ pc[p] = "request"
  BY <1>1 DEF PeopleInv, People!Step
<1>3. CmdOk(p, cmd, sent[p] + 1)
  BY <1>2 DEF Stage, CmdOk
<1> QED  BY <1>1, <1>3, StepGood

LEMMA RespondGood ==
  ASSUME PeopleInv, NEW p \in Members, People!Respond(p) PROVE PeopleInv'
<1> PICK cmd : cmd = [type |-> "SubmitResponse", nonce |-> challenge_text[p]]
  OBVIOUS
<1>1. People!Step(p, "respond", cmd, "confirm")
  BY DEF People!Respond
<1>2. Stage(p) /\ pc[p] = "respond"
  BY <1>1 DEF PeopleInv, People!Step
<1>3. CmdOk(p, cmd, sent[p] + 1)
  BY <1>2 DEF Stage, CmdOk
<1> QED  BY <1>1, <1>3, StepGood

LEMMA JoinGood ==
  ASSUME PeopleInv, NEW p \in Members, People!Join(p) PROVE PeopleInv'
<1> PICK cmd : cmd = [type |-> "JoinRoom", bond_amount |-> 0]
  OBVIOUS
<1>1. /\ People!Submit(p, cmd, TRUE, TRUE) /\ pc[p] = "join"
      /\ pc' = [pc EXCEPT ![p] = "board"]
      /\ UNCHANGED <<episodes, accepted, recreated, channel, challenge_text>>
  BY DEF People!Join, People!Goto, People!chainVars
<1>2. Stage(p) /\ sent[p] \in Nat /\ sent[p] >= 3
  BY <1>1, PeopleParts DEF PeopleInv, Stage
<1>3. CmdOk(p, cmd, sent[p] + 1)
  BY <1>2 DEF CmdOk
<1>4. Stage(p)'
  <2>1. sent \in [Members -> Nat] /\ p \in DOMAIN pc
    BY DEF PeopleInv, PeopleType
  <2>2. sent' = sent \/ sent' = [sent EXCEPT ![p] = @ + 1]
    BY <1>1, SubmitParts
  <2>3. sent'[p] >= 3 /\ pc'[p] = "board"
    BY <1>1, <1>2, <2>1, <2>2
  <2> QED  BY <2>3 DEF Stage
<1> QED  BY <1>1, <1>3, <1>4, SubmitParts, SendGood

LEMMA QuitGood ==
  ASSUME PeopleInv, NEW p \in Members, People!Quit(p) PROVE PeopleInv'
<1>1. /\ pc' = [pc EXCEPT ![p] = "out"]
      /\ UNCHANGED <<episodes, accepted, recreated, channel, challenge_text, sent, pending>>
  BY DEF People!Quit, People!Goto, People!chainVars
<1>2. Stage(p)'
  BY <1>1 DEF Stage, PeopleInv, PeopleType
<1> QED  BY <1>1, <1>2, SendGood

(* A comment with a bond is no transaction of the chain *)
LEMMA BondedGood ==
  ASSUME PeopleInv, NEW p \in Members, pc[p] = "board",
         UNCHANGED <<episodes, accepted, recreated, channel, challenge_text, sent, pc>>,
         NEW cmd, cmd.type = "SubmitComment",
         pending' = [pending EXCEPT ![<<p, "wallet">>] =
             Append(@, [from |-> p, cmd |-> cmd, n |-> 0])]
  PROVE  PeopleInv'
<1>1. PeopleType /\ Stage(p)
  BY DEF PeopleInv
<1>2. sent \in [Members -> Nat] /\ DOMAIN pc = Members /\ DOMAIN pending = People!Purses
  BY <1>1 DEF PeopleType
<1>3. More
  BY <1>2 DEF More
<1> PICK k : k = <<p, "wallet">>
  OBVIOUS
<1>4. k \in People!Purses /\ k[1] = p /\ k[2] = "wallet"
  BY DEF People!Purses
<1>5. \E tx : TxOk(k, tx)' /\ pending' = [pending EXCEPT ![k] = Append(@, tx)]
  <2> PICK tx : tx = [from |-> p, cmd |-> cmd, n |-> 0]
    OBVIOUS
  <2>1. sent[p] >= 3
    BY <1>1 DEF Stage
  <2>2. tx = [from |-> p, cmd |-> tx.cmd, n |-> tx.n] /\ tx.cmd = cmd
    OBVIOUS
  <2>3. TxOk(k, tx)'
    BY <1>4, <2>1, <2>2 DEF TxOk
  <2> QED  BY <2>3
<1>6. pc' = [q \in Members |-> pc'[q]]
  BY <1>1 DEF PeopleType
<1>7. PeopleType' /\ RoomFollows' /\ RoomAsked'
  <2>1. sent' \in [Members -> Nat]
    BY <1>2
  <2> QED  BY <1>3, <1>4, <1>5, <1>6, <2>1, SendType
<1>8. ASSUME NEW q \in Members PROVE (Stage(q) /\ InTurn(q) /\ Honest(q) /\ Unstuck(q))'
  <2>1. Chain(q) # k /\ Chain(q) \in People!Purses
    BY <1>4, ChainParts
  <2>2. pending'[Chain(q)] = pending[Chain(q)]
    BY <1>2, <1>5, <2>1
  <2> QED  BY <1>3, <2>2, OthersStay
<1> QED  BY <1>7, <1>8 DEF PeopleInv

LEMMA SameGood ==
  ASSUME PeopleInv,
         UNCHANGED <<episodes, accepted, recreated, channel, challenge_text, sent, pc, pending>>
  PROVE  PeopleInv'
<1>1. sent' \in [Members -> Nat] /\ pc' = [q \in Members |-> pc'[q]]
  BY DEF PeopleInv, PeopleType
<1>2. More
  BY <1>1 DEF More
<1>4. PeopleType' /\ RoomFollows' /\ RoomAsked'
  BY <1>1, <1>2, SendType
<1>3. ASSUME NEW q \in Members PROVE (Stage(q) /\ InTurn(q) /\ Honest(q) /\ Unstuck(q))'
  BY <1>2, OthersStay
<1> QED  BY <1>3, <1>4 DEF PeopleInv

LEMMA CommentGood ==
  ASSUME PeopleInv, NEW p \in Members, NEW bond, People!Comment(p, bond) PROVE PeopleInv'
<1> PICK cmd : cmd = [type |-> "SubmitComment", ok |-> TRUE, bond_amount |-> bond]
  OBVIOUS
<1>1. /\ pc[p] = "board" /\ cmd.type = "SubmitComment"
      /\ UNCHANGED <<episodes, accepted, recreated, channel, challenge_text, pc>>
      /\ \/ People!Submit(p, cmd, People!Spent(p), UNCHANGED utxo)
         \/ /\ pending' = [pending EXCEPT ![<<p, "wallet">>] =
                     Append(@, [from |-> p, cmd |-> cmd, n |-> 0])]
            /\ UNCHANGED sent
         \/ UNCHANGED <<sent, pending>>
  BY DEF People!Comment, People!chainVars
<1>2. CASE People!Submit(p, cmd, People!Spent(p), UNCHANGED utxo)
  <2>1. Stage(p) /\ sent[p] \in Nat /\ sent[p] >= 3
    BY <1>1, PeopleParts DEF PeopleInv, Stage
  <2>2. CmdOk(p, cmd, sent[p] + 1)
    BY <1>1, <2>1 DEF CmdOk
  <2>3. Stage(p)'
    <3>1. sent \in [Members -> Nat] /\ p \in DOMAIN pc
      BY DEF PeopleInv, PeopleType
    <3>2. sent' = sent \/ sent' = [sent EXCEPT ![p] = @ + 1]
      BY <1>2, SubmitParts
    <3>3. sent'[p] >= 3 /\ pc'[p] = "board"
      BY <1>1, <2>1, <3>1, <3>2
    <3> QED  BY <3>3 DEF Stage
  <2>4. pc' = [pc EXCEPT ![p] = "board"]
    BY <1>1 DEF PeopleInv, PeopleType
  <2>5. \/ UNCHANGED <<sent, pending>>
        \/ /\ sent' = [sent EXCEPT ![p] = @ + 1]
           /\ pending' = [pending EXCEPT ![Chain(p)] =
                  Append(@, [from |-> p, cmd |-> cmd, n |-> sent[p] + 1])]
    BY <1>2, SubmitParts
  <2> QED  BY <1>1, <2>2, <2>3, <2>4, <2>5, SendGood
<1>3. CASE UNCHANGED <<sent, pending>>
  BY <1>1, <1>3, SameGood
<1>4. CASE /\ pending' = [pending EXCEPT ![<<p, "wallet">>] =
                     Append(@, [from |-> p, cmd |-> cmd, n |-> 0])]
           /\ UNCHANGED sent
  BY <1>1, <1>4, BondedGood
<1> QED  BY <1>1, <1>2, <1>3, <1>4

(* A member takes the next state from its channel and goes on *)
LEMMA ReceiveGood ==
  ASSUME PeopleInv, UNCHANGED <<episodes, accepted, recreated, sent, pending>>,
         NEW p \in Members, channel[p] # <<>>,
         channel' = [channel EXCEPT ![p] = Tail(@)],
         NEW to, pc' = [pc EXCEPT ![p] = to],
         NEW c \in MemberChallenges \cup {Nothing},
         challenge_text' = [challenge_text EXCEPT ![p] = c],
         Asked(c), sent[p] >= 3 => c = challenge_text[p], Stage(p)',
         to \in {"join", "board"} /\ ~ recreated => episodes # <<>> /\ p \in Users,
         to = "confirm" => pc[p] = "confirm" /\ p \notin Head(channel[p]).users
  PROVE  PeopleInv'
<1>1. PeopleType /\ Stage(p) /\ InTurn(p) /\ Honest(p) /\ Unstuck(p) /\ RoomFollows /\ RoomAsked
  BY DEF PeopleInv
<1>2. /\ sent \in [Members -> Nat] /\ DOMAIN pc = Members
      /\ channel \in [Members -> Seq(States)]
      /\ challenge_text \in [Members -> MemberChallenges \cup {Nothing}]
  BY <1>1 DEF PeopleType
<1>3. More
  BY <1>2 DEF More
<1> PICK s : s = channel[p]
  OBVIOUS
<1>4. /\ s \in Seq(States) /\ s # <<>> /\ Head(s) = s[1]
      /\ Tail(s) \in Seq(States) /\ Len(s) \in Nat \ {0} /\ Len(Tail(s)) = Len(s) - 1
      /\ \A i \in 1 .. Len(s) - 1 : Tail(s)[i] = s[i + 1]
  BY <1>2, HeadAndTail
<1>5. /\ channel' \in [Members -> Seq(States)] /\ channel'[p] = Tail(s)
      /\ challenge_text' \in [Members -> MemberChallenges \cup {Nothing}] /\ challenge_text'[p] = c
      /\ pc'[p] = to
  BY <1>2, <1>4
<1>6. PeopleType'
  <2>1. (episodes = <<>> \/ (episodes = <<People!room>> /\ RoomOk(People!room)))'
    BY <1>1 DEF PeopleType, People!room, RoomOk
  <2>2. \A i \in 1 .. Len(accepted) : Block(accepted[i])'
    BY <1>1, <1>3, BlockStays DEF PeopleType
  <2>3. \A k \in People!Purses : \A i \in 1 .. Len(pending[k]) : TxOk(k, pending[k][i])'
    BY <1>1, <1>3, TxStays DEF PeopleType
  <2>4. pending' = [k \in People!Purses |-> pending'[k]] /\ IsSeq(accepted)'
        /\ \A k \in People!Purses : IsSeq(pending[k])'
    BY <1>1 DEF PeopleType
  <2>5. pc' = [q \in Members |-> pc'[q]]
    BY <1>2
  <2> QED  BY <1>2, <1>5, <2>1, <2>2, <2>3, <2>4, <2>5 DEF PeopleType
<1>7. RoomFollows' /\ RoomAsked'
  <2>1. RoomFollows'
    BY <1>1 DEF RoomFollows, Created, Creation
  <2> QED  BY <1>1, <2>1 DEF RoomAsked, Asked, People!room
<1>8. ASSUME NEW q \in Members, NEW t, channel'[q] = t, channel[q] = t, q # p
      PROVE  (Stage(q) /\ InTurn(q) /\ Honest(q) /\ Unstuck(q))'
  <2>1. Stage(q) /\ InTurn(q) /\ Honest(q) /\ Unstuck(q)
    BY DEF PeopleInv
  <2>2. pc'[q] = pc[q] /\ challenge_text'[q] = challenge_text[q]
    BY <1>2, <1>8
  <2>3. Stage(q)'
    BY <2>1, <2>2 DEF Stage
  <2>4. Mined(q)' = Mined(q) /\ Users' = Users /\ (\A i : Of(i, q)' <=> Of(i, q)) /\ Heard(q)' = Heard(q)
    BY <1>8 DEF Mined, Users, Of, Heard, People!room, Chain
  <2>5. InTurn(q)'
    BY <2>1, <2>4 DEF InTurn, Chain
  <2>6. (Asked(challenge_text[q]) /\ \A i \in 1 .. Len(channel[q]) : StateOk(channel[q][i]))'
    BY <1>8, <2>1, <2>2 DEF Honest, StateOk, Asked, Users, People!room
  <2>7. Honest(q)'
    BY <2>1, <2>2, <2>4, <2>6 DEF Honest
  <2>8. Unstuck(q)'
    BY <2>1, <2>2, <2>4 DEF Unstuck, Alone, People!room
  <2> QED  BY <2>3, <2>5, <2>7, <2>8
<1>9. Mined(p)' = Mined(p) /\ Users' = Users /\ (\A i : Of(i, p)' <=> Of(i, p))
  BY DEF Mined, Users, Of, People!room, Chain
<1>10. InTurn(p)'
  BY <1>1, <1>9 DEF InTurn, Chain
<1>11. to = "confirm" => (Heard(p) <=> Heard(p)')
  <2>1. Heard(p) <=> \E i \in 1 .. Len(s) : p \in s[i].users
    BY DEF Heard
  <2>2. Heard(p)' <=> \E i \in 1 .. Len(Tail(s)) : p \in Tail(s)[i].users
    BY <1>5 DEF Heard
  <2>3. SUFFICES ASSUME p \notin s[1].users PROVE Heard(p) <=> Heard(p)'
    BY <1>4
  <2>4. ASSUME NEW i \in 1 .. Len(s), p \in s[i].users
        PROVE  i - 1 \in 1 .. Len(Tail(s)) /\ p \in Tail(s)[i - 1].users
    BY <1>4, <2>3, <2>4
  <2>5. ASSUME NEW i \in 1 .. Len(Tail(s)), p \in Tail(s)[i].users
        PROVE  i + 1 \in 1 .. Len(s) /\ p \in s[i + 1].users
    BY <1>4, <2>5
  <2> QED  BY <2>1, <2>2, <2>4, <2>5
<1>12. Honest(p)'
  <2>1. \A i \in 1 .. Len(Tail(s)) : StateOk(Tail(s)[i])
    <3>1. \A i \in 1 .. Len(s) : StateOk(s[i])
      BY <1>1 DEF Honest
    <3>2. \A i \in 1 .. Len(Tail(s)) : i + 1 \in 1 .. Len(s) /\ Tail(s)[i] = s[i + 1]
      BY <1>4
    <3> QED  BY <3>1, <3>2
  <2>2. (\A i \in 1 .. Len(channel[p]) : StateOk(channel[p][i]))'
    BY <1>5, <2>1 DEF StateOk, Asked, Users, People!room
  <2>3. Asked(challenge_text[p])'
    BY <1>5 DEF Asked
  <2> QED  BY <1>1, <1>5, <1>9, <1>11, <2>2, <2>3 DEF Honest
<1>13. Unstuck(p)'
  BY <1>1, <1>5, <1>9, <1>11 DEF Unstuck, Alone, People!room
<1>14. \A q \in Members : q = p \/ (channel'[q] = channel[q])
  BY <1>2
<1> QED  BY <1>6, <1>7, <1>8, <1>10, <1>12, <1>13, <1>14 DEF PeopleInv

(* What the first state of a channel may say *)
LEMMA ReceiveParts ==
  ASSUME PeopleInv, NEW p \in Members, NEW from, People!Receive(p, from)
  PROVE  /\ UNCHANGED <<episodes, accepted, recreated, sent, pending>>
         /\ channel[p] # <<>> /\ channel' = [channel EXCEPT ![p] = Tail(@)] /\ pc[p] = from
         /\ Head(channel[p]) \in States /\ StateOk(Head(channel[p]))
         /\ Stage(p) /\ sent \in [Members -> Nat] /\ p \in DOMAIN pc
         /\ pc = [pc EXCEPT ![p] = from]
         /\ challenge_text[p] \in MemberChallenges \cup {Nothing} /\ Asked(challenge_text[p])
         /\ challenge_text = [challenge_text EXCEPT ![p] = challenge_text[p]]
<1>1. /\ UNCHANGED <<episodes, accepted, recreated, sent, pending>>
      /\ channel[p] # <<>> /\ channel' = [channel EXCEPT ![p] = Tail(@)] /\ pc[p] = from
  BY DEF People!Receive, People!chainVars
<1>2. PeopleType /\ Stage(p) /\ Honest(p)
  BY DEF PeopleInv
<1>3. channel[p] \in Seq(States)
  BY <1>2 DEF PeopleType
<1>4. Head(channel[p]) = channel[p][1] /\ 1 \in 1 .. Len(channel[p]) /\ channel[p][1] \in States
  BY <1>1, <1>3, HeadAndTail
<1>5. StateOk(Head(channel[p])) /\ Asked(challenge_text[p])
  BY <1>2, <1>4 DEF Honest
<1>6. /\ sent \in [Members -> Nat] /\ p \in DOMAIN pc /\ pc = [pc EXCEPT ![p] = from]
  BY <1>1, <1>2 DEF PeopleType
<1>7. /\ challenge_text[p] \in MemberChallenges \cup {Nothing}
      /\ challenge_text = [challenge_text EXCEPT ![p] = challenge_text[p]]
  BY <1>2 DEF PeopleType
<1> QED  BY <1>1, <1>2, <1>4, <1>5, <1>6, <1>7

LEMMA ConnectGood ==
  ASSUME PeopleInv, NEW p \in Members, People!Connect(p) PROVE PeopleInv'
<1>1. /\ People!Receive(p, "connect") /\ UNCHANGED challenge_text
      /\ pc' = [pc EXCEPT ![p] = IF p \in Head(channel[p]).users THEN "join" ELSE "request"]
  BY DEF People!Connect, People!Goto, People!state
<1>2. sent[p] = 1 /\ p \notin Head(channel[p]).users
  BY <1>1, ReceiveParts DEF StateOk, Stage
<1>3. pc' = [pc EXCEPT ![p] = "request"]
  BY <1>1, <1>2
<1>4. Stage(p)'
  BY <1>1, <1>2, <1>3, ReceiveParts DEF Stage
<1>5. challenge_text' = [challenge_text EXCEPT ![p] = challenge_text[p]]
  BY <1>1, ReceiveParts
<1> QED  BY <1>1, <1>3, <1>4, <1>5, ReceiveParts, ReceiveGood

LEMMA ReadGood ==
  ASSUME PeopleInv, NEW p \in Members, People!ReadChallenge(p) PROVE PeopleInv'
<1> PICK c : c = Head(channel[p]).challenge
  OBVIOUS
<1>1. /\ People!Receive(p, "challenge")
      /\ IF c # Nothing
         THEN /\ challenge_text' = [challenge_text EXCEPT ![p] = c]
              /\ pc' = [pc EXCEPT ![p] = "respond"]
         ELSE UNCHANGED <<challenge_text, pc>>
  BY DEF People!ReadChallenge, People!Goto, People!state
<1>2. sent[p] = 2 /\ c \in MemberChallenges \cup {Nothing} /\ Asked(c)
  BY <1>1, ReceiveParts DEF StateOk, Stage, States
<1>3. CASE c = Nothing
  <2>1. pc' = [pc EXCEPT ![p] = "challenge"]
        /\ challenge_text' = [challenge_text EXCEPT ![p] = challenge_text[p]]
    BY <1>1, <1>3, ReceiveParts
  <2>2. Stage(p)'
    BY <1>1, <1>2, <1>3, ReceiveParts DEF Stage
  <2> QED  BY <1>1, <1>2, <2>1, <2>2, ReceiveParts, ReceiveGood
<1>4. CASE c # Nothing
  <2>1. Stage(p)'
    <3>1. p \in DOMAIN challenge_text
      BY DEF PeopleInv, PeopleType
    <3>2. pc'[p] = "respond" /\ challenge_text'[p] = c /\ sent'[p] = 2
      BY <1>1, <1>2, <1>4, <3>1, ReceiveParts
    <3> QED  BY <1>4, <3>2 DEF Stage
  <2> QED  BY <1>1, <1>2, <1>4, <2>1, ReceiveParts, ReceiveGood
<1> QED  BY <1>3, <1>4

LEMMA ConfirmGood ==
  ASSUME PeopleInv, NEW p \in Members, People!Confirm(p) PROVE PeopleInv'
<1>1. /\ People!Receive(p, "confirm") /\ UNCHANGED challenge_text
      /\ IF p \in Head(channel[p]).users THEN pc' = [pc EXCEPT ![p] = "join"] ELSE UNCHANGED pc
  BY DEF People!Confirm, People!Goto, People!state
<1>2. challenge_text' = [challenge_text EXCEPT ![p] = challenge_text[p]]
  BY <1>1, ReceiveParts
<1>3. sent[p] = 3 /\ challenge_text[p] # Nothing
  BY <1>1, ReceiveParts DEF Stage
<1>4. CASE p \in Head(channel[p]).users
  <2>1. Stage(p)'
    BY <1>1, <1>3, <1>4, ReceiveParts DEF Stage
  <2>2. ~ recreated => episodes # <<>> /\ p \in Users
    BY <1>1, <1>4, ReceiveParts DEF StateOk
  <2> QED  BY <1>1, <1>2, <1>4, <2>1, <2>2, ReceiveParts, ReceiveGood
<1>5. CASE p \notin Head(channel[p]).users
  <2>1. Stage(p)' /\ pc' = [pc EXCEPT ![p] = "confirm"]
    BY <1>1, <1>3, <1>5, ReceiveParts DEF Stage
  <2> QED  BY <1>1, <1>2, <1>5, <2>1, ReceiveParts, ReceiveGood
<1> QED  BY <1>4, <1>5

LEMMA RenderGood ==
  ASSUME PeopleInv, NEW p \in Members, People!Render(p) PROVE PeopleInv'
<1>1. People!Receive(p, "board") /\ UNCHANGED <<pc, challenge_text>>
  BY DEF People!Render
<1>2. /\ challenge_text' = [challenge_text EXCEPT ![p] = challenge_text[p]]
      /\ pc' = [pc EXCEPT ![p] = "board"] /\ Stage(p)'
  BY <1>1, ReceiveParts DEF Stage
<1>3. ~ recreated => episodes # <<>> /\ p \in Users
  BY <1>1, ReceiveParts DEF PeopleInv, Honest
<1> QED  BY <1>1, <1>2, <1>3, ReceiveParts, ReceiveGood

(* What the engine makes of a transaction *)
CmdTypes == {"NewEpisode", "RequestChallenge", "SubmitResponse", "JoinRoom", "SubmitComment"}

LEMMA TxParts ==
  ASSUME PeopleInv, NEW k \in People!Purses, NEW tx, TxOk(k, tx)
  PROVE  /\ tx.from = k[1] /\ k[1] \in Members /\ tx.cmd.type \in CmdTypes
         /\ tx.cmd.type \in {"NewEpisode", "RequestChallenge", "SubmitResponse"} => k[2] = "chain"
         /\ k[2] = "chain" => tx.n \in 1 .. sent[k[1]]
         /\ k[2] = "chain" => (tx.n = 1 <=> tx.cmd.type = "NewEpisode")
         /\ k[2] = "chain" => (tx.n = 2 <=> tx.cmd.type = "RequestChallenge")
         /\ k[2] = "chain" => (tx.n = 3 <=> tx.cmd.type = "SubmitResponse")
         /\ tx.cmd.type = "SubmitResponse" => tx.cmd.nonce = challenge_text[k[1]]
         /\ k[2] # "chain" => sent[k[1]] >= 3
<1>1. k[1] \in Members /\ k[2] \in {"chain", "wallet"} /\ sent[k[1]] \in Nat
  BY PurseParts, PeopleParts
<1>2. tx = [from |-> k[1], cmd |-> tx.cmd, n |-> tx.n]
  BY DEF TxOk
<1>3. tx.from = k[1]
  BY <1>2
<1>4. CASE k[2] = "chain"
  <2>1. tx.n \in 1 .. sent[k[1]] /\ CmdOk(k[1], tx.cmd, tx.n)
    BY <1>4 DEF TxOk
  <2>2. tx.n = 1 \/ tx.n = 2 \/ tx.n = 3 \/ tx.n > 3
    BY <1>1, <2>1
  <2> QED  BY <1>1, <1>3, <1>4, <2>1, <2>2 DEF CmdOk, CmdTypes
<1>5. CASE k[2] # "chain"
  BY <1>1, <1>3, <1>5 DEF TxOk, CmdTypes
<1> QED  BY <1>4, <1>5

LEMMA ExecuteGood ==
  ASSUME PeopleInv, NEW k \in People!Purses, NEW tx, TxOk(k, tx), NEW r, r = People!Executes(tx)
  PROVE  /\ r.ok \in BOOLEAN
         /\ tx.cmd.type = "NewEpisode" => (r.ok <=> episodes = <<>>)
         /\ r.ok => RoomOk(r.state)
         /\ r.ok /\ tx.cmd.type = "NewEpisode" =>
               /\ r.state.authenticated_users = <<>> /\ r.state.current_challenge = Nothing
         /\ r.ok /\ tx.cmd.type # "NewEpisode" => episodes # <<>> /\ r.undo.type \in Undos
         /\ r.ok /\ tx.cmd.type = "SubmitResponse" =>
               /\ r.state.authenticated_users = Append(People!room.authenticated_users, k[1])
               /\ r.state.current_challenge = Nothing
         /\ r.ok /\ tx.cmd.type \in CmdTypes \ {"NewEpisode", "SubmitResponse"} =>
               r.state.authenticated_users = People!room.authenticated_users
         /\ r.ok /\ tx.cmd.type = "RequestChallenge" => r.state.current_challenge = <<k[1], 2>>
         /\ r.ok /\ tx.cmd.type \in {"JoinRoom", "SubmitComment"} =>
               r.state.current_challenge = People!room.current_challenge
         /\ episodes # <<>> /\ tx.cmd.type = "RequestChallenge" => r.ok
         /\ (/\ episodes # <<>> /\ tx.cmd.type = "SubmitResponse"
             /\ challenge_text[k[1]] = People!room.current_challenge
             /\ People!room.current_challenge # Nothing) => r.ok
<1>1. /\ tx.from = k[1] /\ k[1] \in Members /\ tx.cmd.type \in CmdTypes /\ k[1] # Nothing
      /\ tx.cmd.type = "RequestChallenge" => tx.n = 2
      /\ tx.cmd.type = "SubmitResponse" => tx.n = 3 /\ tx.cmd.nonce = challenge_text[k[1]]
  BY TxParts, BoardAssumption
<1>2. CASE tx.cmd.type = "NewEpisode"
  <2>1. r = [ok |-> episodes = <<>>, state |-> People!Board!Initialize(<<>>, tx.n), undo |-> Nothing]
    BY <1>2 DEF People!Executes
  <2> PICK ep : ep = People!Board!Initialize(<<>>, tx.n)
    OBVIOUS
  <2>2. RoomOk(ep) /\ ep.authenticated_users = <<>> /\ ep.current_challenge = Nothing
    <3>1. <<>> \in Seq(Members)
      OBVIOUS
    <3> QED  BY <3>1 DEF People!Board!Initialize, RoomOk
  <2> PICK new : new = (episodes = <<>>)
    OBVIOUS
  <2>3. r.ok = (episodes = <<>>) /\ r.state = ep
    <3>1. r = [ok |-> new, state |-> ep, undo |-> Nothing]
      BY <2>1
    <3>2. r.ok = new /\ r.state = ep
      BY ONLY <3>1
    <3> QED  BY <3>2
  <2>4. r.ok \in BOOLEAN /\ (r.ok <=> episodes = <<>>)
    BY <2>3
  <2> QED  BY <1>2, <2>2, <2>3, <2>4
<1>3. CASE tx.cmd.type # "NewEpisode" /\ episodes = <<>>
  <2>1. r = [ok |-> FALSE]
    BY <1>3 DEF People!Executes
  <2> QED  BY <1>3, <2>1
<1>4. CASE tx.cmd.type # "NewEpisode" /\ episodes # <<>>
  <2> PICK ep : ep = People!room
    OBVIOUS
  <2>1. RoomOk(ep)
    BY <1>4 DEF PeopleInv, PeopleType
  <2> PICK auth : auth = k[1]
    OBVIOUS
  <2> PICK cmd : cmd = IF tx.cmd.type = "SubmitResponse"
                       THEN [type |-> "SubmitResponse", ok |-> tx.cmd.nonce = ep.current_challenge]
                       ELSE tx.cmd
    OBVIOUS
  <2>2. /\ cmd.type = tx.cmd.type
        /\ cmd.type = "SubmitResponse" => (cmd.ok <=> challenge_text[auth] = ep.current_challenge)
    BY <1>1
  <2>3. r = People!Board!Execute(ep, cmd, auth, tx.n)
    BY <1>1, <1>4 DEF People!Executes
  <2>4. CASE People!Board!Accepts(ep, cmd, auth, tx.n)
    <3>1. r.ok /\ r.state = People!Board!Executed(ep, cmd, auth, tx.n)
          /\ r.undo = People!Board!RollbackOf(ep, cmd, auth)
      BY <2>3, <2>4 DEF People!Board!Execute
    <3>2. CASE cmd.type = "JoinRoom"
      <4>1. r.undo.type = "join_room"
        BY <3>1, <3>2 DEF People!Board!RollbackOf
      <4>2. r.state = [ep EXCEPT !.room_members = Append(@, auth),
                       !.total_locked_value = @ + cmd.bond_amount]
        BY <3>1, <3>2 DEF People!Board!Executed
      <4>3. RoomOk(r.state) /\ r.state.authenticated_users = ep.authenticated_users
            /\ r.state.current_challenge = ep.current_challenge
        BY <2>1, <4>2 DEF RoomOk
      <4> QED  BY <1>4, <2>2, <3>1, <3>2, <4>1, <4>3 DEF Undos
    <3>3. CASE cmd.type = "RequestChallenge"
      <4>1. r.undo.type = "request_challenge"
        BY <3>1, <3>3 DEF People!Board!RollbackOf
      <4>2. r.state = [ep EXCEPT !.current_challenge = <<auth, 2>>]
        BY <1>1, <2>2, <3>1, <3>3 DEF People!Board!Executed
      <4>3. <<auth, 2>> \in MemberChallenges
        BY <1>1 DEF MemberChallenges
      <4>4. RoomOk(r.state) /\ r.state.authenticated_users = ep.authenticated_users
            /\ r.state.current_challenge = <<auth, 2>>
        BY <2>1, <4>2, <4>3 DEF RoomOk
      <4> QED  BY <1>4, <2>2, <3>1, <3>3, <4>1, <4>4 DEF Undos
    <3>4. CASE cmd.type = "SubmitResponse"
      <4>1. r.undo.type = "authenticate"
        BY <3>1, <3>4 DEF People!Board!RollbackOf
      <4>2. r.state = [ep EXCEPT !.authenticated_users = Append(@, auth),
                       !.current_challenge = Nothing]
        BY <3>1, <3>4 DEF People!Board!Executed
      <4>3. Append(ep.authenticated_users, auth) \in Seq(Members)
        BY <1>1, <2>1 DEF RoomOk
      <4>4. RoomOk(r.state) /\ r.state.authenticated_users = Append(ep.authenticated_users, auth)
            /\ r.state.current_challenge = Nothing
        BY <2>1, <4>2, <4>3 DEF RoomOk
      <4> QED  BY <1>4, <2>2, <3>1, <3>4, <4>1, <4>4 DEF Undos
    <3>5. CASE cmd.type = "SubmitComment"
      <4>1. r.undo.type = "submit_comment"
        BY <3>1, <3>5 DEF People!Board!RollbackOf
      <4>2. r.state = People!Board!Commented(ep, auth, cmd.bond_amount)
        BY <3>1, <3>5 DEF People!Board!Executed
      <4> PICK a : a = Append(ep.comments, [id |-> ep.next_comment_id, author |-> auth,
                                            bond_amount |-> cmd.bond_amount])
        OBVIOUS
      <4> PICK b : b = People!Board!Lock(ep.locked_utxos,
                             People!Board!CommentBond(ep.next_comment_id), cmd.bond_amount)
        OBVIOUS
      <4>3. r.state =
               [ep EXCEPT !.comments = a, !.locked_utxos = b, !.total_comments = @ + 1,
                          !.total_locked_value = @ + cmd.bond_amount, !.next_comment_id = @ + 1]
        BY <4>2 DEF People!Board!Commented
      <4>4. RoomOk(r.state) /\ r.state.authenticated_users = ep.authenticated_users
            /\ r.state.current_challenge = ep.current_challenge
        BY <2>1, <4>3 DEF RoomOk
      <4> QED  BY <1>4, <2>2, <3>1, <3>5, <4>1, <4>4 DEF Undos
    <3> QED  BY <1>1, <1>4, <2>2, <3>2, <3>3, <3>4, <3>5 DEF CmdTypes
  <2>5. CASE ~ People!Board!Accepts(ep, cmd, auth, tx.n)
    <3>1. ~ r.ok /\ r.ok \in BOOLEAN
      BY <2>3, <2>5 DEF People!Board!Execute
    <3>2. ~ (tx.cmd.type = "RequestChallenge")
      BY <1>1, <2>2, <2>5, BoardAssumption DEF People!Board!Accepts
    <3>3. ~ (tx.cmd.type = "SubmitResponse" /\ challenge_text[auth] = ep.current_challenge
             /\ ep.current_challenge # Nothing)
      BY <1>1, <2>2, <2>5, BoardAssumption DEF People!Board!Accepts
    <3> QED  BY <1>4, <3>1, <3>2, <3>3
  <2> QED  BY <2>4, <2>5
<1> QED  BY <1>2, <1>3, <1>4

(* A block takes the first transaction of a purse *)
Took(k, tx, r) ==
    /\ pending[k] # <<>> /\ tx = Head(pending[k]) /\ r = People!Executes(tx)
    /\ pending' = [pending EXCEPT ![k] = Tail(@)]
    /\ accepted' = Append(accepted,
          [purse |-> k, tx |-> tx, ok |-> r.ok, undo |-> IF r.ok THEN r.undo ELSE Nothing])
    /\ IF r.ok THEN episodes' = <<r.state>> /\ People!Notified(r.state)
       ELSE UNCHANGED <<episodes, channel>>
    /\ UNCHANGED <<recreated, sent, pc, challenge_text>>

(* The state that everyone is told of *)
Told(r) == People!Polled(r.state)

LEMMA TookParts ==
  ASSUME PeopleInv, NEW k \in People!Purses, NEW tx, NEW r, Took(k, tx, r)
  PROVE  /\ TxOk(k, tx) /\ r = People!Executes(tx) /\ r.ok \in BOOLEAN
         /\ sent' = sent /\ pc' = pc /\ challenge_text' = challenge_text /\ recreated' = recreated
         /\ Len(accepted) \in Nat /\ IsSeq(accepted') /\ Len(accepted') = Len(accepted) + 1
         /\ \A i \in 1 .. Len(accepted) : accepted'[i] = accepted[i]
         /\ accepted'[Len(accepted) + 1].purse = k /\ accepted'[Len(accepted) + 1].tx = tx
         /\ accepted'[Len(accepted) + 1].ok = r.ok
         /\ accepted'[Len(accepted) + 1].ok => accepted'[Len(accepted) + 1].undo = r.undo
         /\ Block(accepted'[Len(accepted) + 1])
         /\ IsSeq(pending[k]) /\ pending[k][1] = tx /\ pending'[k] = Tail(pending[k])
         /\ Len(pending[k]) \in Nat \ {0} /\ Len(pending'[k]) = Len(pending[k]) - 1
         /\ IsSeq(pending'[k])
         /\ \A i \in 1 .. Len(pending'[k]) : pending'[k][i] = pending[k][i + 1]
         /\ \A l \in People!Purses \ {k} : pending'[l] = pending[l]
         /\ pending' = [l \in People!Purses |-> pending'[l]]
<1>1. PeopleType
  BY DEF PeopleInv
<1> PICK s : s = pending[k]
  OBVIOUS
<1>2. IsSeq(s) /\ s # <<>> /\ tx = Head(s) /\ \A i \in 1 .. Len(s) : TxOk(k, s[i])
  BY <1>1 DEF PeopleType, Took
<1>3. /\ Head(s) = s[1] /\ Tail(s) \in Seq(Contents(s)) /\ Len(s) \in Nat \ {0}
      /\ Len(Tail(s)) = Len(s) - 1 /\ \A i \in 1 .. Len(s) - 1 : Tail(s)[i] = s[i + 1]
  BY <1>2, HeadAndTail DEF IsSeq
<1>4. IsSeq(Tail(s)) /\ TxOk(k, tx)
  <2>1. 1 \in 1 .. Len(s)
    BY <1>3
  <2> QED  BY <1>2, <1>3, <2>1, IsSeqOf
<1>5. /\ pending'[k] = Tail(s) /\ \A l \in People!Purses \ {k} : pending'[l] = pending[l]
      /\ pending' = [l \in People!Purses |-> pending'[l]]
  <2>1. DOMAIN pending = People!Purses
    BY <1>1 DEF PeopleType
  <2>2. pending' = [pending EXCEPT ![k] = Tail(s)]
    BY DEF Took
  <2> QED  BY <2>1, <2>2
<1> PICK b : b = [purse |-> k, tx |-> tx, ok |-> r.ok, undo |-> IF r.ok THEN r.undo ELSE Nothing]
  OBVIOUS
<1>6. /\ IsSeq(accepted) /\ accepted' = Append(accepted, b) /\ r = People!Executes(tx)
      /\ UNCHANGED <<recreated, sent, pc, challenge_text>>
  BY <1>1 DEF PeopleType, Took
<1>7. /\ IsSeq(accepted') /\ Len(accepted) \in Nat /\ Len(accepted') = Len(accepted) + 1
      /\ accepted'[Len(accepted) + 1] = b
      /\ \A i \in 1 .. Len(accepted) : accepted'[i] = accepted[i]
  BY <1>6, Prolonged
<1>8. r.ok \in BOOLEAN
  BY <1>4, <1>6, ExecuteGood
<1>9. b.purse = k /\ b.tx = tx /\ b.ok = r.ok /\ (b.ok => b.undo = r.undo)
      /\ b = [purse |-> b.purse, tx |-> b.tx, ok |-> b.ok, undo |-> b.undo]
  OBVIOUS
<1>10. Block(b)
  BY <1>4, <1>8, <1>9 DEF Block
<1> QED  BY <1>2, <1>3, <1>4, <1>5, <1>6, <1>7, <1>8, <1>9, <1>10

LEMMA TookOrder ==
  ASSUME PeopleInv, NEW k \in People!Purses, NEW tx, NEW r, Took(k, tx, r), NEW p \in Members
  PROVE  /\ InTurn(p)'
         /\ k = Chain(p) => Mined(p)' = Mined(p) + 1 /\ tx.n = Mined(p) + 1
         /\ k # Chain(p) => Mined(p)' = Mined(p)
<1>1. InTurn(p) /\ Mined(p) \in Nat /\ sent[p] \in Nat /\ Len(pending[Chain(p)]) \in Nat
  BY PeopleParts DEF PeopleInv
<1> PICK M : M = Mined(p)
  OBVIOUS
<1> PICK N : N = Len(accepted)
  OBVIOUS
<1>2. /\ N \in Nat /\ Len(accepted') = N + 1 /\ sent' = sent
      /\ \A i \in 1 .. N : accepted'[i] = accepted[i]
      /\ accepted'[N + 1].purse = k /\ accepted'[N + 1].tx = tx
      /\ \A l \in People!Purses \ {k} : pending'[l] = pending[l]
  BY TookParts
<1>3. \A i \in 1 .. N + 1 : i \in 1 .. N \/ i = N + 1
  BY <1>2
<1>4. /\ \A i \in 1 .. N : Of(i, p)' <=> Of(i, p)
      /\ Of(N + 1, p)' <=> k = Chain(p)
      /\ \A i \in 1 .. N : i \in 1 .. N + 1
  BY <1>2 DEF Of, Chain
<1>5. CASE k = Chain(p)
  <2> PICK s : s = pending[Chain(p)]
    OBVIOUS
  <2> PICK t : t = pending'[Chain(p)]
    OBVIOUS
  <2>1. /\ Len(s) \in Nat \ {0} /\ Len(t) = Len(s) - 1 /\ s[1] = tx
        /\ \A i \in 1 .. Len(t) : t[i] = s[i + 1]
    BY <1>5, TookParts
  <2>2. Mined(p)' = M + 1
    BY <1>1, <1>2, <2>1 DEF Mined, Chain
  <2>3. Len(s) <= sent[p] /\ \A i \in 1 .. Len(s) : s[i].n = M + i
    BY <1>1 DEF InTurn
  <2>4. tx.n = M + 1 /\ Len(t) <= sent'[p] /\ \A i \in 1 .. Len(t) : t[i].n = (M + 1) + i
    <3>1. 1 \in 1 .. Len(s) /\ \A i \in 1 .. Len(t) : i + 1 \in 1 .. Len(s)
      BY <2>1
    <3>2. tx.n = M + 1
      BY <2>1, <2>3, <3>1
    <3>3. ASSUME NEW i \in 1 .. Len(t) PROVE t[i].n = (M + 1) + i
      <4>1. t[i] = s[i + 1] /\ s[i + 1].n = M + (i + 1) /\ i \in Nat
        BY <2>1, <2>3, <3>1
      <4> QED  BY <1>1, <4>1
    <3>4. Len(t) <= sent'[p]
      BY <1>1, <1>2, <2>1, <2>3
    <3> QED  BY <3>2, <3>3, <3>4
  <2>5. \A i \in 1 .. N : Of(i, p) => accepted[i].tx.n <= M
    BY <1>1 DEF InTurn
  <2>6. \A i \in 1 .. N + 1 : Of(i, p)' => accepted'[i].tx.n <= M + 1
    <3>1. ASSUME NEW i \in 1 .. N, Of(i, p)' PROVE accepted'[i].tx.n <= M + 1
      <4>1. accepted[i].tx.n \in Nat
        <5>1. Block(accepted[i]) /\ accepted[i].purse = Chain(p)
          BY <1>2, <1>4, <3>1 DEF PeopleInv, PeopleType, Of
        <5> QED  BY <5>1, TxParts, ChainParts DEF Block
      <4> QED  BY <1>1, <1>2, <1>4, <2>5, <3>1, <4>1
    <3> QED  BY <1>1, <1>2, <1>3, <2>4, <3>1
  <2>7. \A i \in 1 .. N : Of(i, p) => accepted[i].tx.n < M + 1 /\ accepted[i].tx.n \in Nat
    <3>1. ASSUME NEW i \in 1 .. N, Of(i, p) PROVE accepted[i].tx.n \in Nat
      <4>1. Block(accepted[i]) /\ accepted[i].purse = Chain(p)
        BY <1>2, <3>1 DEF PeopleInv, PeopleType, Of
      <4> QED  BY <4>1, TxParts, ChainParts DEF Block
    <3> QED  BY <1>1, <2>5, <3>1
  <2>8. \A i, j \in 1 .. N + 1 :
            i < j /\ Of(i, p)' /\ Of(j, p)' => accepted'[i].tx.n < accepted'[j].tx.n
    <3>1. ASSUME NEW i \in 1 .. N + 1, NEW j \in 1 .. N + 1, i < j, Of(i, p)', Of(j, p)'
          PROVE  accepted'[i].tx.n < accepted'[j].tx.n
      <4>1. i \in 1 .. N /\ accepted'[i] = accepted[i] /\ Of(i, p)
        BY <1>2, <1>3, <1>4, <3>1
      <4>2. CASE j \in 1 .. N
        BY <1>1, <1>2, <1>4, <3>1, <4>1, <4>2 DEF InTurn
      <4>3. CASE j = N + 1
        BY <1>2, <2>4, <2>7, <4>1, <4>3
      <4> QED  BY <1>3, <4>2, <4>3
    <3> QED  BY <3>1
  <2>9. \A n \in 1 .. M + 1 : \E i \in 1 .. N + 1 : Of(i, p)' /\ accepted'[i].tx.n = n
    <3>1. ASSUME NEW n \in 1 .. M PROVE \E i \in 1 .. N + 1 : Of(i, p)' /\ accepted'[i].tx.n = n
      <4>1. PICK i \in 1 .. N : Of(i, p) /\ accepted[i].tx.n = n
        BY <1>1 DEF InTurn
      <4> QED  BY <1>2, <1>4, <4>1
    <3>2. N + 1 \in 1 .. N + 1 /\ Of(N + 1, p)' /\ accepted'[N + 1].tx.n = M + 1
      BY <1>2, <1>4, <1>5, <2>4
    <3>3. \A n \in 1 .. M + 1 : n \in 1 .. M \/ n = M + 1
      BY <1>1
    <3> QED  BY <3>1, <3>2, <3>3
  <2>10. InTurn(p)'
    BY <1>2, <2>2, <2>4, <2>6, <2>8, <2>9 DEF InTurn, Chain
  <2> QED  BY <1>5, <2>2, <2>4, <2>10
<1>6. CASE k # Chain(p)
  <2>1. pending'[Chain(p)] = pending[Chain(p)]
    BY <1>2, <1>6, ChainParts
  <2>2. Mined(p)' = M
    BY <1>2, <2>1 DEF Mined, Chain
  <2>3. InTurn(p)'
    <3>1. \A i \in 1 .. N + 1 : Of(i, p)' => i \in 1 .. N /\ Of(i, p) /\ accepted'[i] = accepted[i]
      BY <1>2, <1>3, <1>4, <1>6
    <3>2. \A i \in 1 .. N : Of(i, p) => i \in 1 .. N + 1 /\ Of(i, p)' /\ accepted'[i] = accepted[i]
      BY <1>2, <1>4
    <3>3. \A i \in 1 .. N + 1 : Of(i, p)' => accepted'[i].tx.n <= M
      BY <1>1, <3>1 DEF InTurn
    <3>4. \A i, j \in 1 .. N + 1 :
              i < j /\ Of(i, p)' /\ Of(j, p)' => accepted'[i].tx.n < accepted'[j].tx.n
      BY <1>1, <3>1 DEF InTurn
    <3>5. \A n \in 1 .. M : \E i \in 1 .. N + 1 : Of(i, p)' /\ accepted'[i].tx.n = n
      BY <1>1, <3>2 DEF InTurn
    <3> QED  BY <1>1, <1>2, <2>1, <2>2, <3>3, <3>4, <3>5 DEF InTurn, Chain
  <2> QED  BY <1>6, <2>2, <2>3
<1> QED  BY <1>5, <1>6

LEMMA TookRoom ==
  ASSUME PeopleInv, NEW k \in People!Purses, NEW tx, NEW r, Took(k, tx, r)
  PROVE  RoomFollows'
<1> PICK N : N = Len(accepted)
  OBVIOUS
<1>1. /\ N \in Nat /\ Len(accepted') = N + 1 /\ r.ok \in BOOLEAN /\ TxOk(k, tx)
      /\ \A i \in 1 .. N : accepted'[i] = accepted[i]
      /\ accepted'[N + 1].tx = tx /\ accepted'[N + 1].ok = r.ok
      /\ accepted'[N + 1].ok => accepted'[N + 1].undo = r.undo
      /\ r = People!Executes(tx)
  BY TookParts
<1>2. /\ episodes # <<>> <=> Created(N)
      /\ \A i \in 1 .. N : Creation(i) => (accepted[i].ok <=> ~ Created(i - 1))
      /\ \A i \in 1 .. N : accepted[i].ok /\ ~ Creation(i) =>
             Created(i - 1) /\ accepted[i].undo.type \in Undos
  BY DEF PeopleInv, RoomFollows
<1>3. \A i \in 1 .. N + 1 : i \in 1 .. N \/ i = N + 1
  BY <1>1
<1>4. /\ \A i \in 1 .. N : Creation(i)' <=> Creation(i)
      /\ Creation(N + 1)' <=> tx.cmd.type = "NewEpisode"
  BY <1>1 DEF Creation
<1>5. \A n \in 0 .. N : Created(n)' <=> Created(n)
  <2>1. ASSUME NEW n \in 0 .. N PROVE Created(n)' <=> Created(n)
    <3>1. \A i \in 1 .. n : i \in 1 .. N
      BY <1>1
    <3> QED  BY <1>4, <3>1 DEF Created
  <2> QED  BY <2>1
<1>6. Created(N + 1)' <=> Created(N) \/ tx.cmd.type = "NewEpisode"
  <2>1. \A i \in 1 .. N + 1 : Creation(i)' <=> IF i = N + 1 THEN tx.cmd.type = "NewEpisode"
                                               ELSE Creation(i)
    BY <1>3, <1>4
  <2>2. N + 1 \in 1 .. N + 1 /\ \A i \in 1 .. N : i \in 1 .. N + 1 /\ i # N + 1
    BY <1>1
  <2> QED  BY <1>3, <2>1, <2>2 DEF Created
<1>7. /\ tx.cmd.type = "NewEpisode" => (r.ok <=> episodes = <<>>)
      /\ r.ok /\ tx.cmd.type # "NewEpisode" => episodes # <<>> /\ r.undo.type \in Undos
  BY <1>1, ExecuteGood
<1>8. episodes' # <<>> <=> episodes # <<>> \/ r.ok
  <2>1. IF r.ok THEN episodes' = <<r.state>> ELSE episodes' = episodes
    BY DEF Took
  <2>2. <<r.state>> # <<>>
    OBVIOUS
  <2>3. CASE r.ok
    BY <2>1, <2>2, <2>3
  <2>4. CASE ~ r.ok
    BY <2>1, <2>4
  <2> QED  BY <1>1, <2>3, <2>4
<1>9. episodes' # <<>> <=> Created(N + 1)'
  BY <1>2, <1>6, <1>7, <1>8
<1>10. N + 1 - 1 = N /\ N \in 0 .. N
  BY <1>1
<1>11. ASSUME NEW i \in 1 .. N + 1, Creation(i)'
       PROVE  accepted'[i].ok <=> ~ Created(i - 1)'
  <2>1. CASE i \in 1 .. N
    <3>1. i - 1 \in 0 .. N
      BY <1>1, <2>1
    <3> QED  BY <1>1, <1>2, <1>4, <1>5, <1>11, <2>1, <3>1
  <2>2. CASE i = N + 1
    BY <1>1, <1>2, <1>4, <1>5, <1>7, <1>10, <1>11, <2>2
  <2> QED  BY <1>3, <2>1, <2>2
<1>12. ASSUME NEW i \in 1 .. N + 1, accepted'[i].ok, ~ Creation(i)'
       PROVE  Created(i - 1)' /\ accepted'[i].undo.type \in Undos
  <2>1. CASE i \in 1 .. N
    <3>1. i - 1 \in 0 .. N
      BY <1>1, <2>1
    <3> QED  BY <1>1, <1>2, <1>4, <1>5, <1>12, <2>1, <3>1
  <2>2. CASE i = N + 1
    BY <1>1, <1>2, <1>4, <1>5, <1>7, <1>10, <1>12, <2>2
  <2> QED  BY <1>3, <2>1, <2>2
<1> QED  BY <1>1, <1>9, <1>11, <1>12 DEF RoomFollows

(* The users and the challenge afterwards, and what everyone is told *)
LEMMA TookState ==
  ASSUME PeopleInv, NEW k \in People!Purses, NEW tx, NEW r, Took(k, tx, r)
  PROVE  /\ episodes' = <<>> \/ (episodes' = <<People!room'>> /\ RoomOk(People!room'))
         /\ ~ r.ok => Users' = Users /\ episodes' = episodes /\ channel' = channel
         /\ r.ok => /\ People!room' = r.state /\ episodes' # <<>>
                    /\ Told(r) = [challenge |-> r.state.current_challenge, users |-> Users']
                    /\ channel' = [q \in Members |-> Append(channel[q], Told(r))]
         /\ r.ok /\ tx.cmd.type = "NewEpisode" => Users' = {} /\ episodes = <<>>
         /\ r.ok /\ tx.cmd.type # "NewEpisode" => episodes # <<>>
         /\ r.ok /\ tx.cmd.type = "SubmitResponse" => Users' = Users \cup {k[1]}
         /\ r.ok /\ tx.cmd.type \notin {"NewEpisode", "SubmitResponse"} => Users' = Users
<1>1. TxOk(k, tx) /\ r = People!Executes(tx) /\ r.ok \in BOOLEAN
  BY TookParts
<1>2. CASE ~ r.ok
  BY <1>2 DEF Took, Users, People!room, PeopleInv, PeopleType, RoomOk
<1>3. CASE r.ok
  <2>1. episodes' = <<r.state>> /\ channel' = [q \in Members |-> Append(channel[q], Told(r))]
    BY <1>3 DEF Took, People!Notified, Told
  <2>2. People!room' = r.state /\ episodes' # <<>> /\ RoomOk(r.state)
    BY <1>1, <1>3, <2>1, ExecuteGood DEF People!room
  <2>3. RoomOk(People!room')
    BY <2>2
  <2>4. Users' = Contents(r.state.authenticated_users)
    BY <2>1, <2>2 DEF Users
  <2>5. Told(r) = [challenge |-> r.state.current_challenge, users |-> Users']
    BY <2>4 DEF Told, People!Polled, Contents, People!Range
  <2>6. CASE tx.cmd.type = "NewEpisode"
    <3>1. Contents(<<>>) = {}
      BY DEF Contents
    <3> QED  BY <1>1, <1>3, <2>1, <2>2, <2>3, <2>4, <2>5, <2>6, <3>1, ExecuteGood
  <2>7. CASE tx.cmd.type = "SubmitResponse"
    <3> PICK s : s = People!room.authenticated_users
      OBVIOUS
    <3> PICK t : t = r.state.authenticated_users
      OBVIOUS
    <3>1. episodes # <<>> /\ t = Append(s, k[1]) /\ k[1] \in Members
      BY <1>1, <1>3, <2>7, ExecuteGood, PurseParts
    <3>2. s \in Seq(Members)
      BY <3>1 DEF PeopleInv, PeopleType, RoomOk
    <3>3. Contents(t) = Contents(s) \cup {k[1]}
      <4>1. /\ Len(s) \in Nat /\ Len(t) = Len(s) + 1 /\ t[Len(s) + 1] = k[1]
            /\ \A i \in 1 .. Len(s) : t[i] = s[i]
            /\ DOMAIN s = 1 .. Len(s) /\ DOMAIN t = 1 .. Len(t)
        BY <3>1, <3>2, AppendProperties
      <4> QED  BY <4>1 DEF Contents
    <3>4. Users' = Users \cup {k[1]}
      BY <2>4, <3>1, <3>3 DEF Users
    <3> QED  BY <1>3, <2>1, <2>2, <2>3, <2>5, <2>7, <3>1, <3>4
  <2>8. CASE tx.cmd.type \notin {"NewEpisode", "SubmitResponse"}
    <3>1. tx.cmd.type \in CmdTypes
      BY <1>1, TxParts
    <3>2. episodes # <<>> /\ r.state.authenticated_users = People!room.authenticated_users
      BY <1>1, <1>3, <2>8, <3>1, ExecuteGood
    <3>3. Users' = Users
      BY <2>4, <3>2 DEF Users
    <3> QED  BY <1>3, <2>1, <2>2, <2>3, <2>5, <2>8, <3>2, <3>3
  <2> QED  BY <2>6, <2>7, <2>8
<1> QED  BY <1>1, <1>2, <1>3

LEMMA TookTold ==
  ASSUME PeopleInv, NEW k \in People!Purses, NEW tx, NEW r, Took(k, tx, r), r.ok
  PROVE  /\ Told(r) \in States /\ Asked(r.state.current_challenge)
         /\ \A q \in Users' : q \in Members /\ sent[q] >= 3
         /\ Told(r).challenge = r.state.current_challenge /\ Told(r).users = Users'
<1>1. TxOk(k, tx) /\ r = People!Executes(tx) /\ k[1] \in Members
  BY TookParts, PurseParts
<1>2. Told(r) = [challenge |-> r.state.current_challenge, users |-> Users']
  BY TookState
<1>3. r.state.current_challenge \in MemberChallenges \cup {Nothing}
  BY <1>1, ExecuteGood DEF RoomOk
<1>4. \A q \in Users : q \in Members /\ sent[q] >= 3
  <2>1. ASSUME NEW q \in Users PROVE q \in Members
    <3>1. episodes # <<>> /\ q \in Contents(People!room.authenticated_users)
      BY DEF Users
    <3>2. People!room.authenticated_users \in Seq(Members)
      BY <3>1 DEF PeopleInv, PeopleType, RoomOk
    <3> QED  BY <3>1, <3>2 DEF Contents
  <2> QED  BY <2>1 DEF PeopleInv, Honest
<1>5. tx.cmd.type = "SubmitResponse" => sent[k[1]] >= 3
  <2>1. tx.cmd.type = "SubmitResponse" => tx.n = 3 /\ tx.n \in 1 .. sent[k[1]]
    BY <1>1, TxParts
  <2> QED  BY <1>1, <2>1, PeopleParts
<1>6. \A q \in Users' : q \in Members /\ sent[q] >= 3
  BY <1>1, <1>4, <1>5, TookState
<1>7. Asked(r.state.current_challenge)
  <2>1. tx.cmd.type \in CmdTypes
    BY <1>1, TxParts
  <2>2. CASE tx.cmd.type \in {"NewEpisode", "SubmitResponse"}
    BY <1>1, <2>2, ExecuteGood DEF Asked
  <2>3. CASE tx.cmd.type = "RequestChallenge"
    <3>1. r.state.current_challenge = <<k[1], 2>> /\ tx.n = 2 /\ tx.n \in 1 .. sent[k[1]]
      BY <1>1, <2>3, ExecuteGood, TxParts
    <3> QED  BY <1>1, <3>1, PeopleParts DEF Asked
  <2>4. CASE tx.cmd.type \in {"JoinRoom", "SubmitComment"}
    <3>1. r.state.current_challenge = People!room.current_challenge /\ episodes # <<>>
      BY <1>1, <2>4, ExecuteGood
    <3> QED  BY <3>1 DEF PeopleInv, RoomAsked, Asked
  <2> QED  BY <2>1, <2>2, <2>3, <2>4 DEF CmdTypes
<1>8. Told(r) \in States
  BY <1>2, <1>3, <1>6 DEF States
<1> QED  BY <1>2, <1>6, <1>7, <1>8

LEMMA TookType ==
  ASSUME PeopleInv, NEW k \in People!Purses, NEW tx, NEW r, Took(k, tx, r)
  PROVE  PeopleType' /\ RoomAsked'
<1>1. PeopleType /\ RoomAsked
  BY DEF PeopleInv
<1>2. /\ sent' = sent /\ pc' = pc /\ challenge_text' = challenge_text
      /\ Len(accepted) \in Nat /\ IsSeq(accepted') /\ Len(accepted') = Len(accepted) + 1
      /\ \A i \in 1 .. Len(accepted) : accepted'[i] = accepted[i]
      /\ Block(accepted'[Len(accepted) + 1])
      /\ pending' = [l \in People!Purses |-> pending'[l]] /\ r.ok \in BOOLEAN
  BY TookParts
<1>3. ASSUME NEW b, Block(b) PROVE Block(b)'
  BY <1>2, <1>3 DEF Block, TxOk, CmdOk
<1>4. (\A i \in 1 .. Len(accepted) : Block(accepted[i]))'
  <2> PICK s : s = accepted'
    OBVIOUS
  <2>1. \A i \in 1 .. Len(accepted) : Block(s[i])
    BY <1>1, <1>2 DEF PeopleType
  <2>2. \A i \in 1 .. Len(s) : i \in 1 .. Len(accepted) \/ i = Len(accepted) + 1
    BY <1>2
  <2>3. \A i \in 1 .. Len(s) : Block(s[i])
    BY <1>2, <2>1, <2>2
  <2>4. \A i \in 1 .. Len(s) : Block(s[i])'
    BY <1>3, <2>3
  <2> QED  BY <2>4
<1>5. ASSUME NEW l \in People!Purses
      PROVE  (IsSeq(pending[l]) /\ \A i \in 1 .. Len(pending[l]) : TxOk(l, pending[l][i]))'
  <2>1. IsSeq(pending[l]) /\ \A i \in 1 .. Len(pending[l]) : TxOk(l, pending[l][i])
    BY <1>1 DEF PeopleType
  <2> PICK t : t = pending'[l]
    OBVIOUS
  <2>2. IsSeq(t) /\ \A i \in 1 .. Len(t) : TxOk(l, t[i])
    <3>1. CASE l # k
      BY <2>1, <3>1, TookParts
    <3>2. CASE l = k
      <4>1. /\ IsSeq(t) /\ Len(pending[k]) \in Nat \ {0} /\ Len(t) = Len(pending[k]) - 1
            /\ \A i \in 1 .. Len(t) : t[i] = pending[k][i + 1]
        BY <3>2, TookParts
      <4>2. \A i \in 1 .. Len(t) : i + 1 \in 1 .. Len(pending[k])
        BY <4>1
      <4> QED  BY <2>1, <3>2, <4>1, <4>2
    <3> QED  BY <3>1, <3>2
  <2>3. \A i \in 1 .. Len(t) : TxOk(l, t[i])'
    BY <1>2, <2>2 DEF TxOk, CmdOk
  <2> QED  BY <2>2, <2>3
<1>6. channel' \in [Members -> Seq(States)]
  <2>1. CASE ~ r.ok
    BY <1>1, <2>1, TookState DEF PeopleType
  <2>2. CASE r.ok
    <3>1. Told(r) \in States /\ channel' = [q \in Members |-> Append(channel[q], Told(r))]
      BY <2>2, TookTold, TookState
    <3>2. \A q \in Members : Append(channel[q], Told(r)) \in Seq(States)
      BY <1>1, <3>1, AppendProperties DEF PeopleType
    <3> QED  BY <3>1, <3>2
  <2> QED  BY <1>2, <2>1, <2>2
<1>7. (episodes = <<>> \/ (episodes = <<People!room>> /\ RoomOk(People!room)))'
  <2>1. (RoomOk(People!room))' <=> RoomOk(People!room')
    BY DEF RoomOk
  <2> QED  BY <2>1, TookState
<1>8. PeopleType'
  <2>1. /\ sent' \in [Members -> Nat] /\ pc' = [p \in Members |-> pc'[p]]
        /\ challenge_text' \in [Members -> MemberChallenges \cup {Nothing}]
    BY <1>1, <1>2 DEF PeopleType
  <2> QED  BY <1>2, <1>4, <1>5, <1>6, <1>7, <2>1 DEF PeopleType
<1>9. RoomAsked'
  <2>1. CASE ~ r.ok
    BY <1>1, <1>2, <2>1, TookState DEF RoomAsked, Asked, People!room
  <2>2. CASE r.ok
    BY <1>2, <2>2, TookState, TookTold DEF RoomAsked, Asked
  <2> QED  BY <1>2, <2>1, <2>2
<1> QED  BY <1>8, <1>9

LEMMA TookHonest ==
  ASSUME PeopleInv, NEW k \in People!Purses, NEW tx, NEW r, Took(k, tx, r), NEW p \in Members
  PROVE  /\ Stage(p)' /\ Honest(p)' /\ (Heard(p) => Heard(p)')
         /\ r.ok /\ p \in Users' => Heard(p)'
<1>1. Stage(p) /\ Honest(p)
  BY DEF PeopleInv
<1>2. /\ sent' = sent /\ pc' = pc /\ challenge_text' = challenge_text /\ recreated' = recreated
      /\ r.ok \in BOOLEAN
  BY TookParts
<1>3. Stage(p)' /\ Asked(challenge_text[p])'
  BY <1>1, <1>2 DEF Stage, Honest, Asked
<1>4. CASE ~ r.ok
  <2>1. Users' = Users /\ episodes' = episodes /\ channel' = channel
    BY <1>4, TookState
  <2>2. Heard(p) <=> Heard(p)'
    BY <2>1 DEF Heard
  <2>3. (\A i \in 1 .. Len(channel[p]) : StateOk(channel[p][i]))'
    BY <1>1, <1>2, <2>1 DEF Honest, StateOk, Asked
  <2>4. Honest(p)'
    BY <1>1, <1>2, <1>3, <2>1, <2>2, <2>3 DEF Honest
  <2> QED  BY <1>3, <1>4, <2>2, <2>4
<1>5. CASE r.ok
  <2> PICK s : s = channel[p]
    OBVIOUS
  <2> PICK t : t = channel'[p]
    OBVIOUS
  <2> PICK new : new = Told(r)
    OBVIOUS
  <2>1. /\ new \in States /\ Asked(new.challenge)
        /\ \A q \in Users' : q \in Members /\ sent[q] >= 3
        /\ new.users = Users'
    BY <1>5, TookTold
  <2>2. s \in Seq(States) /\ t = Append(s, new)
    BY <1>5, TookState DEF PeopleInv, PeopleType
  <2>3. /\ Len(s) \in Nat /\ Len(t) = Len(s) + 1 /\ t[Len(s) + 1] = new
        /\ \A i \in 1 .. Len(s) : t[i] = s[i]
    BY <2>1, <2>2, AppendProperties
  <2>4. /\ \A i \in 1 .. Len(t) : i \in 1 .. Len(s) \/ i = Len(s) + 1
        /\ \A i \in 1 .. Len(s) : i \in 1 .. Len(t)
        /\ Len(s) + 1 \in 1 .. Len(t)
    BY <2>3
  <2>5. Heard(p)' <=> Heard(p) \/ p \in Users'
    <3>1. Heard(p)' <=> \E i \in 1 .. Len(t) : p \in t[i].users
      BY DEF Heard
    <3>2. Heard(p) <=> \E i \in 1 .. Len(s) : p \in s[i].users
      BY DEF Heard
    <3> QED  BY <2>1, <2>3, <2>4, <3>1, <3>2
  <2>6. ~ recreated /\ episodes # <<>> => Users \subseteq Users'
    BY <1>2, <1>5, TookState
  <2>7. episodes' # <<>>
    BY <1>5, TookState
  <2>8. StateOk(new)'
    <3>1. Asked(new.challenge)'
      BY <1>2, <2>1 DEF Asked
    <3> QED  BY <1>2, <2>1, <2>7, <3>1 DEF StateOk
  <2>9. ASSUME NEW x, StateOk(x) PROVE StateOk(x)'
    <3>1. Asked(x.challenge)'
      BY <1>2, <2>9 DEF StateOk, Asked
    <3> QED  BY <1>2, <2>6, <2>7, <2>9, <3>1 DEF StateOk
  <2>10. (\A i \in 1 .. Len(channel[p]) : StateOk(channel[p][i]))'
    <3>1. \A i \in 1 .. Len(s) : StateOk(s[i])
      BY <1>1 DEF Honest
    <3>2. \A i \in 1 .. Len(t) : StateOk(t[i])'
      BY <2>3, <2>4, <2>8, <2>9, <3>1
    <3> QED  BY <3>2
  <2>11. p \in Users' => sent'[p] >= 3
    BY <1>2, <2>1
  <2>12. Honest(p)'
    BY <1>1, <1>2, <1>3, <2>5, <2>6, <2>7, <2>10, <2>11 DEF Honest
  <2> QED  BY <1>3, <2>5, <2>12
<1> QED  BY <1>2, <1>4, <1>5

LEMMA TookUnstuck ==
  ASSUME PeopleInv, NEW k \in People!Purses, NEW tx, NEW r, Took(k, tx, r), NEW p \in Members
  PROVE  Unstuck(p)'
<1> PICK M : M = Mined(p)
  OBVIOUS
<1>1. /\ sent' = sent /\ pc' = pc /\ challenge_text' = challenge_text /\ r.ok \in BOOLEAN
      /\ TxOk(k, tx) /\ r = People!Executes(tx) /\ k[1] \in Members
      /\ sent \in [Members -> Nat]
  BY TookParts, PurseParts DEF PeopleInv, PeopleType
<1>2. (Alone(p))' <=> Alone(p)
  BY <1>1 DEF Alone
<1>3. SUFFICES ASSUME Alone(p)
      PROVE  /\ Mined(p)' >= 2 =>
                  episodes' # <<>> /\ (People!room'.current_challenge = <<p, 2>> \/ p \in Users')
             /\ Mined(p)' >= 3 /\ pc[p] = "confirm" => Heard(p)'
  BY <1>1, <1>2 DEF Unstuck
<1>4. /\ M >= 2 => episodes # <<>> /\ (People!room.current_challenge = <<p, 2>> \/ p \in Users)
      /\ M >= 3 /\ pc[p] = "confirm" => Heard(p)
      /\ pc[p] = "confirm" /\ p \in Users => Heard(p)
      /\ Heard(p) => Heard(p)'
      /\ r.ok /\ p \in Users' => Heard(p)'
      /\ M \in Nat
  BY <1>3, TookHonest, PeopleParts DEF PeopleInv, Unstuck, Honest
<1>5. ASSUME ~ r.ok, Mined(p)' = M \/ (M >= 2 /\ p \in Users)
      PROVE  /\ Mined(p)' >= 2 =>
                  episodes' # <<>> /\ (People!room'.current_challenge = <<p, 2>> \/ p \in Users')
             /\ Mined(p)' >= 3 /\ pc[p] = "confirm" => Heard(p)'
  BY <1>4, <1>5, TookState DEF People!room
<1>6. CASE k[1] # p
  <2>1. sent[k[1]] < 2 /\ sent[k[1]] \in Nat
    BY <1>1, <1>3, <1>6 DEF Alone
  <2>2. tx.n = 1 /\ tx.cmd.type = "NewEpisode" /\ k # Chain(p)
    BY <1>1, <1>6, <2>1, TxParts, PurseParts, ChainParts
  <2>3. Mined(p)' = M
    BY <2>2, TookOrder
  <2>4. CASE ~ r.ok
    BY <1>5, <2>3, <2>4
  <2>5. CASE r.ok
    <3>1. episodes = <<>>
      BY <2>2, <2>5, TookState
    <3>2. ~ (M >= 2)
      BY <1>4, <3>1
    <3> QED  BY <1>4, <2>3, <3>2
  <2> QED  BY <1>1, <2>4, <2>5
<1>7. CASE k[1] = p /\ tx.cmd.type = "NewEpisode"
  <2>1. Mined(p)' = 1
    <3>1. k = Chain(p) /\ tx.n = 1
      BY <1>1, <1>7, TxParts, ChainParts
    <3> QED  BY <1>4, <3>1, TookOrder
  <2> QED  BY <2>1
<1>8. CASE k[1] = p /\ tx.cmd.type = "RequestChallenge"
  <2>1. k = Chain(p) /\ tx.n = 2
    BY <1>1, <1>8, TxParts, ChainParts
  <2>2. Mined(p)' = 2 /\ M = 1
    BY <1>4, <2>1, TookOrder
  <2>3. episodes # <<>>
    <3>1. PICK i \in 1 .. Len(accepted) : Of(i, p) /\ accepted[i].tx.n = 1
      <4>1. 1 \in 1 .. Mined(p)
        BY <2>2
      <4> QED  BY <4>1 DEF PeopleInv, InTurn
    <3>2. Block(accepted[i]) /\ accepted[i].purse = Chain(p)
      BY <3>1 DEF PeopleInv, PeopleType, Of
    <3>3. accepted[i].tx.cmd.type = "NewEpisode"
      BY <3>1, <3>2, TxParts, ChainParts DEF Block
    <3> QED  BY <3>3 DEF PeopleInv, RoomFollows, Created, Creation
  <2>4. r.ok /\ r.state.current_challenge = <<p, 2>>
    BY <1>1, <1>8, <2>3, ExecuteGood
  <2> QED  BY <2>2, <2>4, TookState
<1>9. CASE k[1] = p /\ tx.cmd.type = "SubmitResponse"
  <2>1. k = Chain(p) /\ tx.n = 3 /\ tx.n \in 1 .. sent[p]
    BY <1>1, <1>9, TxParts, ChainParts
  <2>2. Mined(p)' = 3 /\ M = 2
    BY <1>4, <2>1, TookOrder
  <2>3. CASE r.ok
    <3>1. p \in Users' /\ episodes' # <<>>
      BY <1>9, <2>3, TookState
    <3> QED  BY <1>4, <2>3, <3>1
  <2>4. CASE ~ r.ok /\ pc[p] # "confirm"
    BY <1>4, <2>2, <2>4, TookState DEF People!room
  <2>5. CASE ~ r.ok /\ pc[p] = "confirm"
    <3>1. challenge_text[p] = <<p, 2>>
      <4>1. challenge_text[p] # Nothing /\ Asked(challenge_text[p])
            /\ challenge_text[p] \in MemberChallenges \cup {Nothing}
        BY <2>5 DEF PeopleInv, PeopleType, Honest, Stage
      <4>2. PICK q \in Members : challenge_text[p] = <<q, 2>>
        BY <4>1 DEF MemberChallenges
      <4>3. sent[q] >= 2
        BY <4>1, <4>2 DEF Asked
      <4>4. q = p
        BY <1>1, <1>3, <4>3 DEF Alone
      <4> QED  BY <4>2, <4>4
    <3>2. <<p, 2>> # Nothing
      BY BoardAssumption
    <3>3. People!room.current_challenge # <<p, 2>>
      <4>1. episodes # <<>> /\ challenge_text[k[1]] = <<p, 2>>
        BY <1>4, <1>9, <2>2, <3>1
      <4>2. SUFFICES ASSUME People!room.current_challenge = <<p, 2>> PROVE FALSE
        OBVIOUS
      <4>3. r.ok
        BY <1>1, <1>9, <3>2, <4>1, <4>2, ExecuteGood
      <4> QED  BY <2>5, <4>3
    <3>4. p \in Users /\ M >= 2
      BY <1>4, <2>2, <3>3
    <3> QED  BY <1>4, <1>5, <2>5, <3>4
  <2> QED  BY <1>1, <2>3, <2>4, <2>5
<1>10. CASE k[1] = p /\ tx.cmd.type \in {"JoinRoom", "SubmitComment"}
  <2>1. Mined(p)' = M \/ (M >= 3 /\ Mined(p)' = M + 1)
    <3>1. CASE k = Chain(p)
      <4>1. tx.n \in 1 .. sent[p] /\ tx.n # 1 /\ tx.n # 2 /\ tx.n # 3
        BY <1>1, <1>10, <3>1, TxParts, ChainParts
      <4> QED  BY <1>1, <1>4, <3>1, <4>1, TookOrder
    <3>2. CASE k # Chain(p)
      BY <3>2, TookOrder
    <3> QED  BY <3>1, <3>2
  <2>2. /\ (episodes # <<>> => episodes' # <<>>) /\ Users' = Users
        /\ People!room'.current_challenge = People!room.current_challenge
    <3>1. CASE r.ok
      BY <1>1, <1>10, <3>1, TookState, ExecuteGood
    <3>2. CASE ~ r.ok
      BY <3>2, TookState DEF People!room
    <3> QED  BY <1>1, <3>1, <3>2
  <2> QED  BY <1>4, <2>1, <2>2
<1>11. tx.cmd.type \in CmdTypes
  BY <1>1, TxParts
<1> QED  BY <1>6, <1>7, <1>8, <1>9, <1>10, <1>11 DEF CmdTypes

LEMMA AcceptGood == ASSUME PeopleInv, People!AcceptTx PROVE PeopleInv'
<1>1. PICK k \in People!Purses : \E tx, r : Took(k, tx, r)
  BY DEF People!AcceptTx, Took
<1>2. PICK tx, r : Took(k, tx, r)
  BY <1>1
<1> QED  BY <1>2, TookOrder, TookRoom, TookType, TookHonest, TookUnstuck DEF PeopleInv

(* The last block goes back to its purse *)
Back(k, b) ==
    /\ accepted # <<>> /\ b = Last(accepted) /\ k = b.purse
    /\ accepted' = Front(accepted)
    /\ pending' = [pending EXCEPT ![k] = <<b.tx>> \o @]
    /\ episodes' = IF ~ b.ok THEN episodes
                   ELSE IF b.tx.cmd.type = "NewEpisode" THEN <<>>
                   ELSE <<People!Board!Rollback(People!room, b.undo).state>>
    /\ recreated' = (recreated \/ episodes' = <<>>)
    /\ UNCHANGED <<sent, pc, channel, challenge_text>>

LEMMA BackParts ==
  ASSUME PeopleInv, NEW k, NEW b, Back(k, b)
  PROVE  /\ k \in People!Purses /\ Block(b) /\ k = b.purse
         /\ sent' = sent /\ pc' = pc /\ challenge_text' = challenge_text /\ channel' = channel
         /\ Len(accepted') \in Nat /\ Len(accepted) = Len(accepted') + 1 /\ IsSeq(accepted')
         /\ b = accepted[Len(accepted') + 1]
         /\ \A i \in 1 .. Len(accepted') : accepted'[i] = accepted[i]
         /\ IsSeq(pending'[k]) /\ Len(pending'[k]) = Len(pending[k]) + 1 /\ pending'[k][1] = b.tx
         /\ IsSeq(pending[k]) /\ Len(pending[k]) \in Nat
         /\ \A i \in 1 .. Len(pending[k]) : pending'[k][i + 1] = pending[k][i]
         /\ \A l \in People!Purses \ {k} : pending'[l] = pending[l]
         /\ pending' = [l \in People!Purses |-> pending'[l]]
<1>1. PeopleType
  BY DEF PeopleInv
<1> PICK N : N = Len(accepted) - 1
  OBVIOUS
<1>2. IsSeq(accepted) /\ accepted # <<>> /\ \A i \in 1 .. Len(accepted) : Block(accepted[i])
  BY <1>1 DEF PeopleType, Back
<1>3. /\ N \in Nat /\ Len(accepted) = N + 1 /\ accepted' \in Seq(Contents(accepted))
      /\ Len(accepted') = N /\ b = accepted[N + 1]
      /\ \A i \in 1 .. N : accepted'[i] = accepted[i]
  BY <1>2, FrontLast DEF IsSeq, Back
<1>4. Block(b) /\ k = b.purse /\ k \in People!Purses
  <2>1. N + 1 \in 1 .. Len(accepted)
    BY <1>3
  <2> QED  BY <1>2, <1>3, <2>1 DEF Block, Back
<1> PICK s : s = pending[k]
  OBVIOUS
<1>5. IsSeq(s) /\ Len(s) \in Nat
  BY <1>1, <1>4, PeopleParts
<1>6. /\ pending'[k] = <<b.tx>> \o s /\ \A l \in People!Purses \ {k} : pending'[l] = pending[l]
      /\ pending' = [l \in People!Purses |-> pending'[l]]
  <2>1. DOMAIN pending = People!Purses
    BY <1>1 DEF PeopleType
  <2>2. pending' = [pending EXCEPT ![k] = <<b.tx>> \o s]
    BY DEF Back
  <2> QED  BY <1>4, <2>1, <2>2
<1> PICK t : t = <<b.tx>> \o s
  OBVIOUS
<1>7. /\ IsSeq(t) /\ Len(t) = Len(s) + 1 /\ t[1] = b.tx
      /\ \A i \in 1 .. Len(s) : t[i + 1] = s[i]
  <2> PICK S : S = Contents(s) \cup {b.tx}
    OBVIOUS
  <2> PICK x : x = b.tx
    OBVIOUS
  <2>1. s \in Seq(S) /\ x \in S
    <3>1. Contents(s) \subseteq S
      OBVIOUS
    <3> QED  BY <1>5, <3>1, SeqGrows DEF IsSeq
  <2>2. <<x>> \in Seq(S) /\ Len(<<x>>) = 1 /\ <<x>>[1] = x
    BY <2>1
  <2>3. t \in Seq(S) /\ Len(t) = 1 + Len(s)
        /\ \A i \in 1 .. 1 + Len(s) : t[i] = IF i <= 1 THEN <<x>>[i] ELSE s[i - 1]
    BY <2>1, <2>2, ConcatProperties
  <2>4. t[1] = x
    BY <1>5, <2>2, <2>3
  <2>5. ASSUME NEW i \in 1 .. Len(s) PROVE t[i + 1] = s[i]
    <3>1. i + 1 \in 1 .. 1 + Len(s) /\ ~ (i + 1 <= 1) /\ (i + 1) - 1 = i
      BY <1>5
    <3> QED  BY <2>3, <3>1
  <2>6. IsSeq(t)
    BY <2>3, IsSeqOf
  <2> QED  BY <1>5, <2>3, <2>4, <2>5, <2>6
<1> QED  BY <1>3, <1>4, <1>5, <1>6, <1>7, IsSeqOf DEF Back

LEMMA BackOrder ==
  ASSUME PeopleInv, NEW k, NEW b, Back(k, b), NEW p \in Members
  PROVE  /\ InTurn(p)'
         /\ k = Chain(p) => b.tx.n = Mined(p) /\ Mined(p)' = Mined(p) - 1
         /\ k # Chain(p) => Mined(p)' = Mined(p)
<1>1. InTurn(p) /\ Mined(p) \in Nat /\ sent[p] \in Nat
  BY PeopleParts DEF PeopleInv
<1> PICK M : M = Mined(p)
  OBVIOUS
<1> PICK N : N = Len(accepted')
  OBVIOUS
<1>2. /\ N \in Nat /\ Len(accepted) = N + 1 /\ sent' = sent /\ b = accepted[N + 1]
      /\ \A i \in 1 .. N : accepted'[i] = accepted[i]
      /\ k \in People!Purses /\ k = b.purse /\ Block(b)
      /\ \A l \in People!Purses \ {k} : pending'[l] = pending[l]
  BY BackParts
<1>3. /\ \A i \in 1 .. N : i \in 1 .. N + 1 /\ i # N + 1 /\ i < N + 1
      /\ \A i \in 1 .. N + 1 : i \in 1 .. N \/ i = N + 1
      /\ N + 1 \in 1 .. N + 1
  BY <1>2
<1>4. /\ \A i \in 1 .. N : Of(i, p)' <=> Of(i, p)
      /\ Of(N + 1, p) <=> k = Chain(p)
  BY <1>2 DEF Of, Chain
<1>5. /\ \A i \in 1 .. N + 1 : Of(i, p) => accepted[i].tx.n <= M
      /\ \A i, j \in 1 .. N + 1 :
            i < j /\ Of(i, p) /\ Of(j, p) => accepted[i].tx.n < accepted[j].tx.n
      /\ \A n \in 1 .. M : \E i \in 1 .. N + 1 : Of(i, p) /\ accepted[i].tx.n = n
  BY <1>1, <1>2 DEF InTurn
<1>6. \A i \in 1 .. N + 1 : Of(i, p) => accepted[i].tx.n \in Nat \ {0}
  <2>1. ASSUME NEW i \in 1 .. N + 1, Of(i, p) PROVE accepted[i].tx.n \in Nat \ {0}
    <3>1. Block(accepted[i]) /\ accepted[i].purse = Chain(p)
      BY <1>2, <2>1 DEF PeopleInv, PeopleType, Of
    <3>2. accepted[i].tx.n \in 1 .. sent[p]
      BY <3>1, TxParts, ChainParts DEF Block
    <3> QED  BY <1>1, <3>2
  <2> QED  BY <2>1
<1>7. CASE k = Chain(p)
  <2>1. Of(N + 1, p) /\ accepted[N + 1].tx.n = b.tx.n /\ b.tx.n \in Nat \ {0} /\ b.tx.n <= M
    BY <1>2, <1>3, <1>4, <1>5, <1>6, <1>7
  <2>2. b.tx.n = M
    <3>1. M \in 1 .. M
      BY <1>1, <2>1
    <3>2. PICK i \in 1 .. N + 1 : Of(i, p) /\ accepted[i].tx.n = M
      BY <1>5, <3>1
    <3>3. CASE i \in 1 .. N
      <4>1. i < N + 1 /\ N + 1 \in 1 .. N + 1
        BY <1>3, <3>3
      <4>2. accepted[i].tx.n < accepted[N + 1].tx.n
        BY <1>5, <2>1, <3>2, <4>1
      <4>3. M < b.tx.n
        BY <2>1, <3>2, <4>2
      <4> QED  BY <1>1, <2>1, <4>3
    <3>4. CASE i = N + 1
      BY <2>1, <3>2, <3>4
    <3> QED  BY <1>3, <3>3, <3>4
  <2> PICK s : s = pending[Chain(p)]
    OBVIOUS
  <2> PICK t : t = pending'[Chain(p)]
    OBVIOUS
  <2>3. /\ Len(s) \in Nat /\ Len(t) = Len(s) + 1 /\ t[1] = b.tx
        /\ \A i \in 1 .. Len(s) : t[i + 1] = s[i]
    BY <1>7, BackParts
  <2>4. Len(s) <= sent[p] /\ M = sent[p] - Len(s) /\ \A i \in 1 .. Len(s) : s[i].n = M + i
    BY <1>1 DEF InTurn, Mined
  <2>5. Mined(p)' = M - 1
    <3>1. Mined(p)' = sent'[p] - Len(t)
      BY DEF Mined, Chain
    <3> QED  BY <1>1, <1>2, <2>3, <2>4, <3>1
  <2>6. Len(t) <= sent'[p]
    BY <1>1, <1>2, <2>1, <2>3, <2>4
  <2>7. ASSUME NEW i \in 1 .. Len(t) PROVE t[i].n = (M - 1) + i
    <3>1. CASE i = 1
      BY <1>1, <2>2, <2>3, <3>1
    <3>2. CASE i # 1
      <4>1. i - 1 \in 1 .. Len(s) /\ (i - 1) + 1 = i /\ i \in Nat
        BY <2>3, <3>2
      <4>2. t[i] = s[i - 1] /\ s[i - 1].n = M + (i - 1)
        BY <2>3, <2>4, <4>1
      <4> QED  BY <1>1, <4>1, <4>2
    <3> QED  BY <3>1, <3>2
  <2>8. \A i \in 1 .. N : Of(i, p)' => accepted'[i].tx.n <= M - 1
    <3>1. ASSUME NEW i \in 1 .. N, Of(i, p)' PROVE accepted'[i].tx.n <= M - 1
      <4>1. accepted'[i] = accepted[i] /\ Of(i, p) /\ i \in 1 .. N + 1 /\ i < N + 1
        BY <1>2, <1>3, <1>4, <3>1
      <4>2. accepted[i].tx.n < accepted[N + 1].tx.n /\ accepted[i].tx.n \in Nat
        BY <1>3, <1>5, <1>6, <2>1, <4>1
      <4> QED  BY <1>1, <2>1, <2>2, <4>1, <4>2
    <3> QED  BY <3>1
  <2>9. \A i, j \in 1 .. N :
            i < j /\ Of(i, p)' /\ Of(j, p)' => accepted'[i].tx.n < accepted'[j].tx.n
    BY <1>2, <1>3, <1>4, <1>5
  <2>10. ASSUME NEW n \in 1 .. M - 1
         PROVE  \E i \in 1 .. N : Of(i, p)' /\ accepted'[i].tx.n = n
    <3>1. n \in 1 .. M /\ n # M
      BY <1>1
    <3>2. PICK i \in 1 .. N + 1 : Of(i, p) /\ accepted[i].tx.n = n
      BY <1>5, <3>1
    <3>3. i # N + 1
      BY <2>1, <2>2, <3>1, <3>2
    <3> QED  BY <1>2, <1>3, <1>4, <3>2, <3>3
  <2>11. InTurn(p)'
    BY <2>5, <2>6, <2>7, <2>8, <2>9, <2>10 DEF InTurn, Chain
  <2> QED  BY <1>7, <2>2, <2>5, <2>11
<1>8. CASE k # Chain(p)
  <2>1. pending'[Chain(p)] = pending[Chain(p)]
    BY <1>2, <1>8, ChainParts
  <2>2. Mined(p)' = M
    BY <1>2, <2>1 DEF Mined, Chain
  <2>3. \A i \in 1 .. N : Of(i, p)' => accepted'[i].tx.n <= M
    BY <1>2, <1>3, <1>4, <1>5
  <2>4. \A i, j \in 1 .. N :
            i < j /\ Of(i, p)' /\ Of(j, p)' => accepted'[i].tx.n < accepted'[j].tx.n
    BY <1>2, <1>3, <1>4, <1>5
  <2>5. ASSUME NEW n \in 1 .. M PROVE \E i \in 1 .. N : Of(i, p)' /\ accepted'[i].tx.n = n
    <3>1. PICK i \in 1 .. N + 1 : Of(i, p) /\ accepted[i].tx.n = n
      BY <1>5
    <3>2. i # N + 1
      BY <1>4, <1>8, <3>1
    <3> QED  BY <1>2, <1>3, <1>4, <3>1, <3>2
  <2>6. InTurn(p)'
    BY <1>1, <1>2, <2>1, <2>2, <2>3, <2>4, <2>5 DEF InTurn, Chain
  <2> QED  BY <1>8, <2>2, <2>6
<1> QED  BY <1>7, <1>8

(* The room afterwards *)
LEMMA BackState ==
  ASSUME PeopleInv, NEW k, NEW b, Back(k, b)
  PROVE  /\ RoomFollows'
         /\ episodes' = <<>> \/ (episodes' = <<People!room'>> /\ RoomOk(People!room'))
         /\ episodes' # <<>> => /\ episodes # <<>> /\ Users' = Users
                                /\ People!room'.current_challenge = People!room.current_challenge
         /\ episodes' = <<>> /\ episodes # <<>> =>
               /\ b.tx.cmd.type = "NewEpisode"
               /\ \A i \in 1 .. Len(accepted') : accepted[i].tx.cmd.type # "NewEpisode"
<1> PICK N : N = Len(accepted')
  OBVIOUS
<1>1. /\ N \in Nat /\ Len(accepted) = N + 1 /\ b = accepted[N + 1]
      /\ \A i \in 1 .. N : accepted'[i] = accepted[i]
      /\ Block(b)
  BY BackParts
<1>2. /\ episodes # <<>> <=> Created(N + 1)
      /\ \A i \in 1 .. N + 1 : Creation(i) => (accepted[i].ok <=> ~ Created(i - 1))
      /\ \A i \in 1 .. N + 1 : accepted[i].ok /\ ~ Creation(i) =>
             Created(i - 1) /\ accepted[i].undo.type \in Undos
  BY <1>1 DEF PeopleInv, RoomFollows
<1>3. /\ N + 1 \in 1 .. N + 1 /\ (N + 1) - 1 = N
      /\ \A i \in 1 .. N + 1 : i \in 1 .. N \/ i = N + 1
      /\ \A i \in 1 .. N : i \in 1 .. N + 1
  BY <1>1
<1>4. Created(N + 1) <=> Created(N) \/ Creation(N + 1)
  BY <1>3 DEF Created
<1>5. Creation(N + 1) <=> b.tx.cmd.type = "NewEpisode"
  BY <1>1 DEF Creation
<1>6. \A n \in 0 .. N : Created(n)' <=> Created(n)
  <2>1. ASSUME NEW n \in 0 .. N PROVE Created(n)' <=> Created(n)
    <3>1. \A i \in 1 .. n : i \in 1 .. N /\ (Creation(i)' <=> Creation(i))
      BY <1>1 DEF Creation
    <3> QED  BY <3>1 DEF Created
  <2> QED  BY <2>1
<1>7. /\ ~ b.ok => episodes' = episodes
      /\ b.ok /\ Creation(N + 1) => episodes' = <<>>
      /\ b.ok /\ ~ Creation(N + 1) =>
            episodes' = <<People!Board!Rollback(People!room, b.undo).state>>
      /\ b.ok \in BOOLEAN
  BY <1>1, <1>5 DEF Back, Block
<1>8. CASE ~ b.ok
  <2>1. Created(N) <=> episodes # <<>>
    BY <1>1, <1>2, <1>3, <1>4, <1>8
  <2>2. /\ episodes' = <<>> \/ (episodes' = <<People!room'>> /\ RoomOk(People!room'))
        /\ Users' = Users /\ People!room' = People!room
    BY <1>7, <1>8 DEF PeopleInv, PeopleType, Users, People!room
  <2>3. RoomFollows'
    <3>1. \A i \in 1 .. N : /\ Creation(i)' => (accepted'[i].ok <=> ~ Created(i - 1)')
                            /\ accepted'[i].ok /\ ~ Creation(i)' =>
                                  Created(i - 1)' /\ accepted'[i].undo.type \in Undos
      <4>1. ASSUME NEW i \in 1 .. N PROVE i - 1 \in 0 .. N /\ (Creation(i)' <=> Creation(i))
        BY <1>1 DEF Creation
      <4> QED  BY <1>1, <1>2, <1>3, <1>6, <4>1
    <3>2. episodes' # <<>> <=> Created(N)'
      <4>1. N \in 0 .. N
        BY <1>1
      <4> QED  BY <1>6, <1>7, <1>8, <2>1, <4>1
    <3> QED  BY <3>1, <3>2 DEF RoomFollows
  <2> QED  BY <1>7, <1>8, <2>2, <2>3
<1>9. ASSUME b.ok, episodes' # <<>> <=> Created(N) PROVE RoomFollows'
  <2>1. \A i \in 1 .. N : /\ Creation(i)' => (accepted'[i].ok <=> ~ Created(i - 1)')
                          /\ accepted'[i].ok /\ ~ Creation(i)' =>
                                Created(i - 1)' /\ accepted'[i].undo.type \in Undos
    <3>1. ASSUME NEW i \in 1 .. N PROVE i - 1 \in 0 .. N /\ (Creation(i)' <=> Creation(i))
      BY <1>1 DEF Creation
    <3> QED  BY <1>1, <1>2, <1>3, <1>6, <3>1
  <2>2. N \in 0 .. N
    BY <1>1
  <2> QED  BY <1>6, <1>9, <2>1, <2>2 DEF RoomFollows
<1>10. CASE b.ok /\ Creation(N + 1)
  <2>1. ~ Created(N) /\ episodes' = <<>>
    BY <1>1, <1>2, <1>3, <1>7, <1>10
  <2>2. \A i \in 1 .. N : accepted[i].tx.cmd.type # "NewEpisode"
    BY <2>1 DEF Created, Creation
  <2> QED  BY <1>5, <1>9, <1>10, <2>1, <2>2
<1>11. CASE b.ok /\ ~ Creation(N + 1)
  <2>1. Created(N) /\ b.undo.type \in Undos /\ episodes # <<>>
    BY <1>1, <1>2, <1>3, <1>4, <1>11
  <2> PICK ep : ep = People!room
    OBVIOUS
  <2> PICK back : back = People!Board!Rollback(ep, b.undo).state
    OBVIOUS
  <2>2. RoomOk(ep)
    BY <2>1 DEF PeopleInv, PeopleType
  <2>3. /\ RoomOk(back) /\ back.authenticated_users = ep.authenticated_users
        /\ back.current_challenge = ep.current_challenge
    <3>1. CASE b.undo.type = "join_room"
      <4> PICK x : x = People!Board!Unlocked(ep.locked_utxos, b.undo.utxo, b.undo.bond_amount)
        OBVIOUS
      <4> PICK y : y = People!Board!Less(ep.total_locked_value, b.undo.bond_amount)
        OBVIOUS
      <4>1. back = [ep EXCEPT !.total_locked_value = y, !.locked_utxos = x]
        BY <3>1 DEF People!Board!Rollback
      <4> QED  BY <2>2, <4>1 DEF RoomOk
    <3>2. CASE b.undo.type = "submit_comment"
      <4>1. back = People!Board!Uncommented(ep, b.undo)
        BY <3>2 DEF People!Board!Rollback
      <4> PICK kept : kept = People!Board!WithoutId(ep.comments, b.undo.comment_id)
        OBVIOUS
      <4> PICK x : x = People!Board!Unlocked(ep.locked_utxos, b.undo.utxo, b.undo.bond_amount)
        OBVIOUS
      <4> PICK y : y = People!Board!Less(ep.total_locked_value, b.undo.bond_amount)
        OBVIOUS
      <4> PICK z : z = IF Len(kept) < Len(ep.comments)
                       THEN People!Board!Less(ep.total_comments, 1) ELSE ep.total_comments
        OBVIOUS
      <4>2. back = [ep EXCEPT !.comments = kept, !.total_comments = z,
                              !.total_locked_value = y, !.locked_utxos = x]
        BY <4>1 DEF People!Board!Uncommented
      <4> QED  BY <2>2, <4>2 DEF RoomOk
    <3>3. CASE b.undo.type \in {"request_challenge", "authenticate"}
      <4>1. back = ep
        BY <3>3 DEF People!Board!Rollback
      <4> QED  BY <2>2, <4>1
    <3> QED  BY <2>1, <3>1, <3>2, <3>3 DEF Undos
  <2>4. episodes' = <<back>> /\ People!room' = back /\ episodes' # <<>>
    <3>1. episodes' = <<back>>
      BY <1>7, <1>11
    <3> QED  BY <3>1 DEF People!room
  <2>5. Users' = Users
    BY <2>1, <2>3, <2>4 DEF Users
  <2> QED  BY <1>9, <1>11, <2>1, <2>3, <2>4, <2>5
<1> QED  BY <1>7, <1>8, <1>10, <1>11

LEMMA BackType ==
  ASSUME PeopleInv, NEW k, NEW b, Back(k, b)
  PROVE  PeopleType' /\ RoomAsked'
<1>1. PeopleType /\ RoomAsked
  BY DEF PeopleInv
<1>2. /\ sent' = sent /\ pc' = pc /\ challenge_text' = challenge_text /\ channel' = channel
      /\ k \in People!Purses /\ Block(b) /\ k = b.purse
      /\ Len(accepted') \in Nat /\ Len(accepted) = Len(accepted') + 1 /\ IsSeq(accepted')
      /\ \A i \in 1 .. Len(accepted') : accepted'[i] = accepted[i]
      /\ pending' = [l \in People!Purses |-> pending'[l]]
  BY BackParts
<1>3. (\A i \in 1 .. Len(accepted) : Block(accepted[i]))'
  <2> PICK s : s = accepted'
    OBVIOUS
  <2>1. \A i \in 1 .. Len(s) : Block(s[i])
    BY <1>1, <1>2 DEF PeopleType
  <2>2. \A i \in 1 .. Len(s) : Block(s[i])'
    BY <1>2, <2>1 DEF Block, TxOk, CmdOk
  <2> QED  BY <2>2
<1>4. ASSUME NEW l \in People!Purses
      PROVE  (IsSeq(pending[l]) /\ \A i \in 1 .. Len(pending[l]) : TxOk(l, pending[l][i]))'
  <2> PICK s : s = pending[l]
    OBVIOUS
  <2> PICK t : t = pending'[l]
    OBVIOUS
  <2>1. IsSeq(s) /\ \A i \in 1 .. Len(s) : TxOk(l, s[i])
    BY <1>1 DEF PeopleType
  <2>2. IsSeq(t) /\ \A i \in 1 .. Len(t) : TxOk(l, t[i])
    <3>1. CASE l # k
      BY <2>1, <3>1, BackParts
    <3>2. CASE l = k
      <4>1. /\ IsSeq(t) /\ Len(s) \in Nat /\ Len(t) = Len(s) + 1 /\ t[1] = b.tx
            /\ \A i \in 1 .. Len(s) : t[i + 1] = s[i]
        BY <3>2, BackParts
      <4>2. TxOk(l, b.tx)
        BY <1>2, <3>2 DEF Block
      <4>3. ASSUME NEW i \in 1 .. Len(t), i # 1 PROVE TxOk(l, t[i])
        <5>1. i - 1 \in 1 .. Len(s) /\ (i - 1) + 1 = i
          BY <4>1, <4>3
        <5>2. t[i] = s[i - 1]
          BY <4>1, <5>1
        <5> QED  BY <2>1, <5>1, <5>2
      <4> QED  BY <4>1, <4>2, <4>3
    <3> QED  BY <3>1, <3>2
  <2>3. \A i \in 1 .. Len(t) : TxOk(l, t[i])'
    BY <1>2, <2>2 DEF TxOk, CmdOk
  <2> QED  BY <2>2, <2>3
<1>5. (episodes = <<>> \/ (episodes = <<People!room>> /\ RoomOk(People!room)))'
  <2>1. (RoomOk(People!room))' <=> RoomOk(People!room')
    BY DEF RoomOk
  <2> QED  BY <2>1, BackState
<1>6. PeopleType'
  <2>1. /\ sent' \in [Members -> Nat] /\ pc' = [p \in Members |-> pc'[p]]
        /\ challenge_text' \in [Members -> MemberChallenges \cup {Nothing}]
        /\ channel' \in [Members -> Seq(States)]
    BY <1>1, <1>2 DEF PeopleType
  <2> QED  BY <1>2, <1>3, <1>4, <1>5, <2>1 DEF PeopleType
<1>7. RoomAsked'
  BY <1>1, <1>2, BackState DEF RoomAsked, Asked
<1> QED  BY <1>6, <1>7

LEMMA BackMember ==
  ASSUME PeopleInv, NEW k, NEW b, Back(k, b), NEW p \in Members
  PROVE  (Stage(p) /\ Honest(p) /\ Unstuck(p))'
<1>1. Stage(p) /\ Honest(p) /\ Unstuck(p)
  BY DEF PeopleInv
<1>2. /\ sent' = sent /\ pc' = pc /\ challenge_text' = challenge_text /\ channel' = channel
  BY BackParts
<1>3. ~ recreated' => ~ recreated /\ episodes' # <<>>
  BY DEF Back
<1>4. Stage(p)' /\ (Heard(p)' <=> Heard(p)) /\ (Alone(p)' <=> Alone(p))
  BY <1>1, <1>2 DEF Stage, Heard, Alone
<1>5. episodes' # <<>> => episodes # <<>> /\ Users' = Users
                          /\ People!room'.current_challenge = People!room.current_challenge
  BY BackState
<1>6. \A q : q \in Users' => q \in Users
  <2>1. CASE episodes' = <<>>
    BY <2>1 DEF Users
  <2>2. CASE episodes' # <<>>
    BY <1>5, <2>2
  <2> QED  BY <2>1, <2>2
<1>7. Honest(p)'
  <2>1. \A x : StateOk(x) => StateOk(x)'
    <3>1. ASSUME NEW x, StateOk(x) PROVE StateOk(x)'
      <4>1. Asked(x.challenge)' /\ \A q \in x.users : sent'[q] >= 3
        BY <1>2, <3>1 DEF StateOk, Asked
      <4> QED  BY <1>3, <1>5, <3>1, <4>1 DEF StateOk
    <3> QED  BY <3>1
  <2>2. (\A i \in 1 .. Len(channel[p]) : StateOk(channel[p][i]))'
    <3> PICK s : s = channel[p]
      OBVIOUS
    <3>1. \A i \in 1 .. Len(s) : StateOk(s[i])
      BY <1>1 DEF Honest
    <3>2. \A i \in 1 .. Len(s) : StateOk(s[i])'
      BY <2>1, <3>1
    <3>3. channel'[p] = s
      BY <1>2
    <3> QED  BY <3>2, <3>3
  <2>3. Asked(challenge_text[p])'
    BY <1>1, <1>2 DEF Honest, Asked
  <2> QED  BY <1>1, <1>2, <1>3, <1>4, <1>5, <1>6, <2>2, <2>3 DEF Honest
<1>8. Unstuck(p)'
  <2>1. SUFFICES ASSUME Alone(p)
        PROVE  /\ Mined(p)' >= 2 => episodes' # <<>>
                       /\ (People!room'.current_challenge = <<p, 2>> \/ p \in Users')
               /\ Mined(p)' >= 3 /\ pc[p] = "confirm" => Heard(p)
    BY <1>2, <1>4 DEF Unstuck
  <2>2. Mined(p) \in Nat /\ Mined(p)' \in Int /\ Mined(p)' <= Mined(p)
    BY BackOrder, PeopleParts
  <2>3. Mined(p)' >= 3 /\ pc[p] = "confirm" => Heard(p)
    BY <1>1, <2>1, <2>2 DEF Unstuck
  <2>4. ASSUME Mined(p)' >= 2
        PROVE  episodes # <<>> /\ (People!room.current_challenge = <<p, 2>> \/ p \in Users)
    BY <1>1, <2>1, <2>2, <2>4 DEF Unstuck
  <2>5. ASSUME Mined(p)' >= 2, episodes' = <<>> PROVE FALSE
    <3> PICK N : N = Len(accepted')
      OBVIOUS
    <3>1. /\ b.tx.cmd.type = "NewEpisode"
          /\ \A i \in 1 .. N : accepted[i].tx.cmd.type # "NewEpisode"
          /\ N \in Nat /\ Len(accepted) = N + 1 /\ b = accepted[N + 1] /\ k = b.purse
      BY <2>4, <2>5, BackState, BackParts
    <3>2. PICK i \in 1 .. N + 1 : Of(i, p) /\ accepted[i].tx.n = 1
      <4>1. 1 \in 1 .. Mined(p)
        BY <2>2, <2>5
      <4> QED  BY <3>1, <4>1 DEF PeopleInv, InTurn
    <3>3. accepted[i].tx.cmd.type = "NewEpisode"
      <4>1. Block(accepted[i]) /\ accepted[i].purse = Chain(p)
        BY <3>1, <3>2 DEF PeopleInv, PeopleType, Of
      <4> QED  BY <3>2, <4>1, TxParts, ChainParts DEF Block
    <3>4. i = N + 1
      BY <3>1, <3>3
    <3>5. k = Chain(p) /\ b.tx.n = 1
      BY <3>1, <3>2, <3>4 DEF Of
    <3>6. Mined(p) = 1
      BY <3>5, BackOrder
    <3> QED  BY <2>2, <2>5, <3>6
  <2> QED  BY <1>5, <2>3, <2>4, <2>5
<1> QED  BY <1>4, <1>7, <1>8

LEMMA RevertGood == ASSUME PeopleInv, People!Revert PROVE PeopleInv'
<1> PICK b : b = Last(accepted)
  OBVIOUS
<1>0. People!Last(accepted) = b /\ People!Front(accepted) = Front(accepted)
  BY DEF People!Last, People!Front, Last, Front
<1>1. \E k : Back(k, b)
  BY <1>0 DEF People!Revert, Back
<1>2. PICK k : Back(k, b)
  BY <1>1
<1> QED  BY <1>2, BackOrder, BackState, BackType, BackMember DEF PeopleInv

LEMMA PeopleInit == BoardInit => PeopleInv
<1> SUFFICES ASSUME BoardInit PROVE PeopleInv
  OBVIOUS
<1>1. /\ episodes = <<>> /\ accepted = <<>> /\ recreated = FALSE
      /\ pending = [k \in People!Purses |-> <<>>]
      /\ sent = [p \in Members |-> 0] /\ pc = [p \in Members |-> "register"]
      /\ channel = [p \in Members |-> <<>>] /\ challenge_text = [p \in Members |-> Nothing]
  BY DEF BoardInit, People!Init
<1>2. IsSeq(<<>>) /\ Len(<<>>) = 0 /\ 1 .. 0 = {}
  <2>1. <<>> \in Seq({}) /\ Len(<<>>) = 0
    OBVIOUS
  <2>2. IsSeq(<<>>)
    BY <2>1, IsSeqOf
  <2> QED  BY <2>1, <2>2
<1>3. PeopleType
  BY <1>1, <1>2 DEF PeopleType
<1>4. RoomFollows /\ RoomAsked
  BY <1>1, <1>2 DEF RoomFollows, RoomAsked, Created
<1>5. ASSUME NEW p \in Members PROVE Stage(p) /\ InTurn(p) /\ Honest(p) /\ Unstuck(p)
  <2>1. /\ sent[p] = 0 /\ pc[p] = "register" /\ channel[p] = <<>> /\ challenge_text[p] = Nothing
        /\ pending[Chain(p)] = <<>>
    BY <1>1, ChainParts
  <2>2. Mined(p) = 0 /\ Users = {}
    BY <1>1, <1>2, <2>1 DEF Mined, Users
  <2>3. Stage(p)
    BY <2>1 DEF Stage
  <2>4. InTurn(p)
    BY <1>1, <1>2, <2>1, <2>2 DEF InTurn
  <2>5. Honest(p)
    BY <1>1, <1>2, <2>1, <2>2 DEF Honest, Asked
  <2>6. Unstuck(p)
    BY <2>2 DEF Unstuck
  <2> QED  BY <2>3, <2>4, <2>5, <2>6
<1> QED  BY <1>3, <1>4, <1>5 DEF PeopleInv

LEMMA PeopleStep == PeopleInv /\ [BoardNext]_boardVars => PeopleInv'
<1> SUFFICES ASSUME PeopleInv, [BoardNext]_boardVars PROVE PeopleInv'
  OBVIOUS
<1>1. CASE UNCHANGED peopleVars
  BY <1>1, SameGood DEF peopleVars
<1>2. CASE People!Next
  <2>1. CASE People!AcceptTx
    BY <2>1, AcceptGood
  <2>2. CASE People!Revert
    BY <2>2, RevertGood
  <2>3. ASSUME NEW p \in Members, People!Participate(p) PROVE PeopleInv'
    BY <2>3, RegisterGood, ConnectGood, RequestGood, ReadGood, RespondGood, ConfirmGood, JoinGood,
       RenderGood, QuitGood, CommentGood DEF People!Participate
  <2> QED  BY <1>2, <2>1, <2>2, <2>3 DEF People!Next
<1> QED  BY <1>1, <1>2 DEF BoardNext, boardVars

(* Of every participant: what it has sent, in which order it is mined and  *)
(* mined again, and what it heard back (participant/, handler.rs)          *)
THEOREM PeopleInvariant == BoardSpec => []PeopleInv
<1> QED  BY PeopleInit, PeopleStep, PTL DEF BoardSpec

(* A participant that has entered the room is authenticated, also after a  *)
(* reorganisation that nobody is told of, unless it removed the room.      *)
THEOREM AuthIsHonest == BoardSpec => []AuthHonest
<1>1. PeopleInv => AuthHonest
  <2> SUFFICES ASSUME PeopleInv, NEW p \in Members, pc[p] \in {"join", "board"}, ~ recreated
        PROVE  p \in People!Range(People!room.authenticated_users)
    BY DEF AuthHonest, People!AuthHonest
  <2>1. episodes # <<>> /\ p \in Users
    BY DEF PeopleInv, Honest
  <2> QED  BY <2>1 DEF Users, Contents, People!Range
<1> QED  BY <1>1, PeopleInvariant, PTL

(* Alone, a participant that waits for its confirmation has had it sent to *)
(* it: the one that waits in vain was crossed by another.                  *)
THEOREM StuckIsExplained == BoardSpec => []StuckExplained
<1>1. PeopleInv => StuckExplained
  <2> SUFFICES ASSUME PeopleInv, NEW p \in Members, pc[p] = "confirm",
                      pending[<<p, "chain">>] = <<>>,
                      \A i \in DOMAIN channel[p] : p \notin channel[p][i].users
               PROVE  \E q \in Members \ {p} : sent[q] >= 2
    BY DEF StuckExplained, People!StuckExplained
  <2>1. sent[p] = 3 /\ Unstuck(p)
    BY DEF PeopleInv, Stage
  <2>2. Mined(p) = 3
    BY <2>1 DEF Mined, Chain
  <2>3. ~ Heard(p)
    <3>1. channel[p] \in Seq(States)
      BY PeopleParts
    <3>2. DOMAIN channel[p] = 1 .. Len(channel[p])
      BY <3>1
    <3> QED  BY <3>2 DEF Heard
  <2>4. ~ Alone(p)
    BY <2>1, <2>2, <2>3 DEF Unstuck
  <2>5. PICK q \in Members \ {p} : ~ (sent[q] < 2)
    BY <2>4 DEF Alone
  <2>6. sent[q] \in Nat
    BY PeopleParts
  <2> QED  BY <2>5, <2>6
<1> QED  BY <1>1, PeopleInvariant, PTL

-----------------------------------------------------------------------------
(* Sums over a finite set S of weights w *)
Pick(s) == CHOOSE x \in s : TRUE

Adding(w, S) ==
  CHOOSE f : f = [s \in SUBSET S |->
      IF s = {} THEN 0
      ELSE w[CHOOSE x \in s : TRUE] + f[s \ {CHOOSE x \in s : TRUE}]]

LEMMA Picked == ASSUME NEW s, s # {} PROVE Pick(s) \in s
BY DEF Pick

(* Induction over the subsets of a finite set, by their size *)
LEMMA SubsetInduction ==
  ASSUME NEW S, IsFiniteSet(S), NEW A,
         \A s \in SUBSET S : (\A x \in s : s \ {x} \in A) => s \in A
  PROVE  \A s \in SUBSET S : s \in A
<1> DEFINE B == {n \in Nat : \A s \in SUBSET S : Cardinality(s) = n => s \in A}
<1>1. \A s \in SUBSET S : IsFiniteSet(s) /\ Cardinality(s) \in Nat
  BY FS_Subset, FS_CardinalityType
<1>2. 0 \in B
  <2>1. ASSUME NEW s \in SUBSET S, Cardinality(s) = 0 PROVE s \in A
    <3>1. s = {}
      BY <1>1, <2>1, FS_EmptySet
    <3> QED  BY <3>1
  <2> QED  BY <2>1
<1>3. ASSUME NEW n \in Nat, n \in B PROVE n + 1 \in B
  <2>1. ASSUME NEW s \in SUBSET S, Cardinality(s) = n + 1 PROVE s \in A
    <3>1. ASSUME NEW x \in s PROVE s \ {x} \in A
      <4>1. s \ {x} \in SUBSET S /\ Cardinality(s \ {x}) = n
        BY <1>1, <1>3, <2>1, FS_RemoveElement
      <4> QED  BY <1>3, <4>1
    <3> QED  BY <3>1
  <2> QED  BY <1>3, <2>1
<1> HIDE DEF B
<1>4. \A n \in Nat : n \in B
  BY <1>2, <1>3, SetInduction
<1>5. ASSUME NEW s \in SUBSET S PROVE s \in A
  BY <1>1, <1>4, <1>5 DEF B
<1> QED  BY <1>5

LEMMA AddingSteps ==
  ASSUME NEW S, IsFiniteSet(S), NEW w
  PROVE  /\ Adding(w, S)[{}] = 0
         /\ \A s \in SUBSET S : s # {} =>
               Adding(w, S)[s] = w[Pick(s)] + Adding(w, S)[s \ {Pick(s)}]
<1> DEFINE NextSum(f, s) == IF s = {} THEN 0 ELSE w[Pick(s)] + f[s \ {Pick(s)}]
           SumsTo(f, n) == \A s \in SUBSET S : Cardinality(s) <= n => f[s] = NextSum(f, s)
           A == {n \in Nat : \E f : f = [s \in SUBSET S |-> f[s]] /\ SumsTo(f, n)}
<1>1. \A s \in SUBSET S : IsFiniteSet(s) /\ Cardinality(s) \in Nat
  BY FS_Subset, FS_CardinalityType
<1>2. \A s \in SUBSET S : s # {} =>
         s \ {Pick(s)} \in SUBSET S /\ Cardinality(s \ {Pick(s)}) = Cardinality(s) - 1
  BY <1>1, Picked, FS_RemoveElement
<1>3. 0 \in A
  <2> PICK f : f = [s \in SUBSET S |-> 0]
    OBVIOUS
  <2>1. ASSUME NEW s \in SUBSET S, Cardinality(s) <= 0 PROVE f[s] = NextSum(f, s)
    <3>1. s = {}
      BY <1>1, <2>1, FS_EmptySet
    <3> QED  BY <3>1
  <2>2. f = [s \in SUBSET S |-> f[s]] /\ SumsTo(f, 0)
    BY <2>1
  <2> HIDE DEF SumsTo
  <2> QED  BY <2>2
<1>4. ASSUME NEW n \in Nat, n \in A PROVE n + 1 \in A
  <2>1. PICK f : f = [s \in SUBSET S |-> f[s]] /\ SumsTo(f, n)
    BY <1>4
  <2> PICK g : g = [s \in SUBSET S |-> NextSum(f, s)]
    OBVIOUS
  <2>2. \A s \in SUBSET S : g[s] = NextSum(f, s)
    OBVIOUS
  <2>3. \A s \in SUBSET S : Cardinality(s) <= n => f[s] = g[s]
    <3> HIDE DEF NextSum
    <3> QED  BY <2>1, <2>2
  <2>4. ASSUME NEW s \in SUBSET S, Cardinality(s) <= n + 1 PROVE g[s] = NextSum(g, s)
    <3>1. CASE s = {}
      BY <2>2, <3>1
    <3>2. CASE s # {}
      <4>1. s \ {Pick(s)} \in SUBSET S /\ Cardinality(s \ {Pick(s)}) <= n
        BY <1>1, <1>2, <2>4, <3>2
      <4>2. f[s \ {Pick(s)}] = g[s \ {Pick(s)}]
        BY <2>3, <4>1
      <4> QED  BY <2>2, <3>2, <4>2
    <3> QED  BY <3>1, <3>2
  <2>5. g = [s \in SUBSET S |-> g[s]] /\ SumsTo(g, n + 1)
    BY <2>4
  <2> HIDE DEF SumsTo
  <2> QED  BY <2>5
<1> HIDE DEF A
<1>5. \A n \in Nat : n \in A
  BY <1>3, <1>4, SetInduction
<1>6. PICK f : f = [s \in SUBSET S |-> f[s]] /\ SumsTo(f, Cardinality(S))
  <2>1. Cardinality(S) \in A
    BY <1>1, <1>5
  <2> QED  BY <2>1 DEF A
<1>7. \A s \in SUBSET S : f[s] = NextSum(f, s)
  <2>1. \A s \in SUBSET S : Cardinality(s) <= Cardinality(S)
    BY FS_Subset
  <2> HIDE DEF NextSum
  <2> QED  BY <1>6, <2>1
<1>8. f = [s \in SUBSET S |-> IF s = {} THEN 0
              ELSE w[CHOOSE x \in s : TRUE] + f[s \ {CHOOSE x \in s : TRUE}]]
  <2>1. [s \in SUBSET S |-> f[s]] = [s \in SUBSET S |-> NextSum(f, s)]
    <3> HIDE DEF NextSum
    <3> QED  BY <1>7
  <2> QED  BY <1>6, <2>1 DEF Pick
<1>9. LET F == Adding(w, S) IN
      F = [s \in SUBSET S |-> IF s = {} THEN 0
              ELSE w[CHOOSE x \in s : TRUE] + F[s \ {CHOOSE x \in s : TRUE}]]
  BY <1>8, Zenon DEF Adding
<1>10. \A s \in SUBSET S : Adding(w, S)[s] = IF s = {} THEN 0
              ELSE w[Pick(s)] + Adding(w, S)[s \ {Pick(s)}]
  <2> PICK F : F = Adding(w, S)
    OBVIOUS
  <2>1. F = [s \in SUBSET S |-> IF s = {} THEN 0
              ELSE w[CHOOSE x \in s : TRUE] + F[s \ {CHOOSE x \in s : TRUE}]]
    BY <1>9
  <2>2. F = [s \in SUBSET S |-> IF s = {} THEN 0 ELSE w[Pick(s)] + F[s \ {Pick(s)}]]
    BY <2>1 DEF Pick
  <2>3. \A s \in SUBSET S : F[s] = IF s = {} THEN 0 ELSE w[Pick(s)] + F[s \ {Pick(s)}]
    BY ONLY <2>2
  <2> QED  BY <2>3
<1>11. {} \in SUBSET S
  OBVIOUS
<1> QED  BY <1>10, <1>11

(* The order in which they are added does not matter, nor do the weights   *)
(* of others.                                                              *)
Adds(F, w, S) ==
    /\ F[{}] = 0
    /\ \A s \in SUBSET S : F[s] \in Int
    /\ \A s \in SUBSET S : \A x \in s : F[s] = w[x] + F[s \ {x}]

LEMMA AddingParts ==
  ASSUME NEW S, IsFiniteSet(S), NEW w, \A x \in S : w[x] \in Int
  PROVE  Adds(Adding(w, S), w, S)
<1> PICK F : F = Adding(w, S)
  OBVIOUS
<1>1. /\ F[{}] = 0
      /\ \A s \in SUBSET S : s # {} => F[s] = w[Pick(s)] + F[s \ {Pick(s)}]
  BY AddingSteps
<1>2. \A s \in SUBSET S : F[s] \in Int
  <2> DEFINE A == {s \in SUBSET S : F[s] \in Int}
  <2>1. ASSUME NEW s \in SUBSET S, \A x \in s : s \ {x} \in A PROVE s \in A
    <3>1. CASE s = {}
      BY <1>1, <3>1
    <3>2. CASE s # {}
      <4>1. Pick(s) \in s
        BY <3>2, Picked
      <4>2. F[s \ {Pick(s)}] \in Int /\ w[Pick(s)] \in Int
        BY <2>1, <4>1
      <4>3. F[s] = w[Pick(s)] + F[s \ {Pick(s)}]
        BY <1>1, <3>2
      <4> QED  BY <4>2, <4>3
    <3> QED  BY <3>1, <3>2
  <2> HIDE DEF A
  <2>2. \A s \in SUBSET S : s \in A
    BY <2>1, SubsetInduction
  <2> QED  BY <2>2 DEF A
<1>3. \A s \in SUBSET S : \A x \in s : F[s] = w[x] + F[s \ {x}]
  <2> DEFINE A == {s \in SUBSET S : \A x \in s : F[s] = w[x] + F[s \ {x}]}
  <2>1. ASSUME NEW s \in SUBSET S, \A x \in s : s \ {x} \in A PROVE s \in A
    <3>1. SUFFICES ASSUME NEW x \in s PROVE F[s] = w[x] + F[s \ {x}]
      OBVIOUS
    <3> PICK y : y = Pick(s)
      OBVIOUS
    <3>2. y \in s /\ F[s] = w[y] + F[s \ {y}]
      BY <1>1, Picked
    <3>3. CASE x = y
      BY <3>2, <3>3
    <3>4. CASE x # y
      <4>1. s \ {y} \in A /\ x \in s \ {y} /\ s \ {x} \in A /\ y \in s \ {x}
        BY <2>1, <3>2, <3>4
      <4>2. F[s \ {y}] = w[x] + F[(s \ {y}) \ {x}] /\ F[s \ {x}] = w[y] + F[(s \ {x}) \ {y}]
        BY <4>1
      <4>3. (s \ {y}) \ {x} = (s \ {x}) \ {y} /\ (s \ {y}) \ {x} \in SUBSET S
        OBVIOUS
      <4> PICK a : a = F[(s \ {y}) \ {x}]
        OBVIOUS
      <4>4. a \in Int /\ w[x] \in Int /\ w[y] \in Int
        BY <1>2, <3>2, <4>3
      <4>5. F[s] = w[y] + (w[x] + a) /\ F[s \ {x}] = w[y] + a
        BY <3>2, <4>2, <4>3
      <4> QED  BY <4>4, <4>5
    <3> QED  BY <3>3, <3>4
  <2> HIDE DEF A
  <2>2. \A s \in SUBSET S : s \in A
    BY <2>1, SubsetInduction
  <2> QED  BY <2>2 DEF A
<1> QED  BY <1>1, <1>2, <1>3 DEF Adds

LEMMA AddingAgrees ==
  ASSUME NEW S, IsFiniteSet(S), NEW w, NEW T \in SUBSET S, NEW v,
         \A x \in S : w[x] \in Int, \A x \in T : v[x] = w[x]
  PROVE  Adding(v, T)[T] = Adding(w, S)[T]
<1> PICK F : F = Adding(w, S)
  OBVIOUS
<1> PICK G : G = Adding(v, T)
  OBVIOUS
<1>1. IsFiniteSet(T) /\ \A x \in T : v[x] \in Int
  BY FS_Subset
<1>2. Adds(F, w, S) /\ Adds(G, v, T)
  BY <1>1, AddingParts
<1>3. /\ F[{}] = 0 /\ G[{}] = 0
      /\ \A s \in SUBSET T : \A x \in s : F[s] = w[x] + F[s \ {x}] /\ G[s] = v[x] + G[s \ {x}]
  <2>1. \A s \in SUBSET T : s \in SUBSET S
    OBVIOUS
  <2> QED  BY <1>2, <2>1 DEF Adds
<1> DEFINE A == {s \in SUBSET T : G[s] = F[s]}
<1>4. ASSUME NEW s \in SUBSET T, \A x \in s : s \ {x} \in A PROVE s \in A
  <2>1. CASE s = {}
    BY <1>3, <2>1
  <2>2. CASE s # {}
    <3>1. PICK x \in s : TRUE
      BY <2>2
    <3>2. G[s \ {x}] = F[s \ {x}] /\ v[x] = w[x]
      BY <1>4, <3>1
    <3>3. F[s] = w[x] + F[s \ {x}] /\ G[s] = v[x] + G[s \ {x}]
      BY <1>3, <3>1
    <3> QED  BY <3>2, <3>3
  <2> QED  BY <2>1, <2>2
<1> HIDE DEF A
<1>5. T \in A
  <2>1. \A s \in SUBSET T : s \in A
    BY <1>1, <1>4, SubsetInduction
  <2> QED  BY <2>1
<1> QED  BY <1>5 DEF A

(* The sum of the parts *)
Added(w, S) == Adding(w, S)[S]

LEMMA AddedParts ==
  ASSUME NEW S, IsFiniteSet(S), NEW w, \A x \in S : w[x] \in Int
  PROVE  /\ Added(w, S) \in Int
         /\ \A x \in S : Added(w, S) = w[x] + Added(w, S \ {x})
         /\ \A T \in SUBSET S : Added(w, S) = Added(w, T) + Added(w, S \ T)
         /\ \A x \in S : Added(w, {x}) = w[x]
<1> PICK F : F = Adding(w, S)
  OBVIOUS
<1>1. /\ \A s \in SUBSET S : F[s] \in Int
      /\ \A s \in SUBSET S : \A x \in s : F[s] = w[x] + F[s \ {x}]
      /\ F[{}] = 0
  <2>1. Adds(F, w, S)
    BY AddingParts
  <2> QED  BY <2>1 DEF Adds
<1>2. \A s \in SUBSET S : Added(w, s) = F[s]
  BY AddingAgrees DEF Added
<1>3. ASSUME NEW u \in SUBSET S
      PROVE  \A t \in SUBSET u : F[u] = F[t] + F[u \ t]
  <2> DEFINE A == {t \in SUBSET u : F[u] = F[t] + F[u \ t]}
  <2>1. ASSUME NEW t \in SUBSET u, \A x \in t : t \ {x} \in A PROVE t \in A
    <3>1. CASE t = {}
      <4>1. u \ t = u /\ F[u] \in Int
        BY <1>1, <3>1
      <4> QED  BY <1>1, <3>1, <4>1
    <3>2. CASE t # {}
      <4>1. PICK x \in t : TRUE
        BY <3>2
      <4>2. F[u] = F[t \ {x}] + F[u \ (t \ {x})]
        BY <2>1
      <4>3. F[t] = w[x] + F[t \ {x}] /\ t \in SUBSET S
        BY <1>1
      <4>4. F[u \ (t \ {x})] = w[x] + F[u \ t]
        <5>1. u \ (t \ {x}) \in SUBSET S /\ x \in u \ (t \ {x}) /\ (u \ (t \ {x})) \ {x} = u \ t
          OBVIOUS
        <5> QED  BY <1>1, <5>1
      <4> PICK a : a = F[t \ {x}]
        OBVIOUS
      <4> PICK b : b = F[u \ t]
        OBVIOUS
      <4>5. a \in Int /\ b \in Int /\ w[x] \in Int
        <5>1. t \ {x} \in SUBSET S /\ u \ t \in SUBSET S /\ x \in S
          OBVIOUS
        <5> QED  BY <1>1, <5>1
      <4>6. F[u] = a + (w[x] + b) /\ F[t] = w[x] + a
        BY <4>2, <4>3, <4>4
      <4>7. F[u] = F[t] + b
        BY <4>5, <4>6
      <4> QED  BY <4>7
    <3> QED  BY <3>1, <3>2
  <2> HIDE DEF A
  <2>2. IsFiniteSet(u)
    BY FS_Subset
  <2>3. \A t \in SUBSET u : t \in A
    BY <2>1, <2>2, SubsetInduction
  <2> QED  BY <2>3 DEF A
<1>4. S \in SUBSET S /\ \A T \in SUBSET S : S \ T \in SUBSET S
  OBVIOUS
<1>5. \A x \in S : {x} \in SUBSET S /\ S \ {x} \in SUBSET S /\ {x} \ {x} = {}
  OBVIOUS
<1>6. \A T \in SUBSET S : Added(w, S) = Added(w, T) + Added(w, S \ T)
  BY <1>2, <1>3, <1>4
<1>7. \A x \in S : Added(w, S) = w[x] + Added(w, S \ {x})
  <2>1. ASSUME NEW x \in S PROVE Added(w, S) = w[x] + Added(w, S \ {x})
    <3>1. F[S] = w[x] + F[S \ {x}]
      BY <1>1, <1>4
    <3>2. Added(w, S) = F[S] /\ Added(w, S \ {x}) = F[S \ {x}]
      BY <1>2, <1>4, <1>5
    <3> QED  BY <3>1, <3>2
  <2> QED  BY <2>1
<1>8. ASSUME NEW x \in S PROVE Added(w, {x}) = w[x]
  <2>1. Added(w, {x}) = F[{x}] /\ {x} \in SUBSET S /\ {x} \ {x} = {} /\ x \in {x}
    BY <1>2, <1>5
  <2>2. F[{x}] = w[x] + F[{x} \ {x}]
    BY <1>1, <2>1
  <2>3. F[{x}] = w[x] + 0
    BY <1>1, <2>1, <2>2
  <2> QED  BY <2>1, <2>3
<1> QED  BY <1>1, <1>2, <1>4, <1>6, <1>7, <1>8

LEMMA AddedNat ==
  ASSUME NEW S, IsFiniteSet(S), NEW w, \A x \in S : w[x] \in Nat
  PROVE  Added(w, S) \in Nat
<1> DEFINE A == {s \in SUBSET S : Added(w, s) \in Nat}
<1>1. ASSUME NEW s \in SUBSET S, \A x \in s : s \ {x} \in A PROVE s \in A
  <2>1. IsFiniteSet(s) /\ \A x \in s : w[x] \in Int /\ w[x] \in Nat
    BY FS_Subset
  <2>2. CASE s = {}
    <3>1. Adding(w, {})[{}] = 0
      BY FS_EmptySet, AddingSteps
    <3> QED  BY <2>2, <3>1 DEF Added
  <2>3. CASE s # {}
    <3>1. PICK x \in s : TRUE
      BY <2>3
    <3>2. Added(w, s) = w[x] + Added(w, s \ {x})
      BY <2>1, AddedParts
    <3>3. Added(w, s \ {x}) \in Nat
      BY <1>1
    <3> QED  BY <2>1, <3>2, <3>3
  <2> QED  BY <2>2, <2>3
<1> HIDE DEF A
<1>2. \A s \in SUBSET S : s \in A
  BY <1>1, SubsetInduction
<1> QED  BY <1>2 DEF A

LEMMA AddedAgrees ==
  ASSUME NEW S, IsFiniteSet(S), NEW w, NEW v, \A x \in S : w[x] \in Int /\ v[x] = w[x]
  PROVE  Added(v, S) = Added(w, S)
BY AddingAgrees DEF Added

(* The amounts of outputs and of bonds *)
LEMMA SumIsInt ==
  ASSUME NEW S, IsFiniteSet(S), \A u \in S : u.amount \in Nat
  PROVE  Wallet!Sum(S) \in Int
<1> PICK w : w = [u \in S |-> u.amount]
  OBVIOUS
<1>1. \A u \in S : w[u] \in Int
  OBVIOUS
<1>2. Added(w, S) \in Int
  BY <1>1, AddedParts
<1>3. Wallet!Sum(S) = Adding([u \in S |-> u.amount], S)[S]
  BY ZenonT(40) DEF Wallet!Sum, Wallet!FoldSet, Wallet!MapThenFoldSet, Adding
<1> QED  BY <1>2, <1>3 DEF Added

Amounts(locks) == [c \in DOMAIN locks |-> locks[c].bond_amount]

LEMMA SumBondsIs ==
  ASSUME NEW locks
  PROVE  Wallet!SumBonds(locks) = Added(Amounts(locks), DOMAIN locks)
<1>1. Wallet!SumBonds(locks) =
        Adding([c \in DOMAIN locks |-> locks[c].bond_amount], DOMAIN locks)[DOMAIN locks]
  BY ZenonT(40) DEF Wallet!SumBonds, Wallet!FoldSet, Wallet!MapThenFoldSet, Adding
<1> QED  BY <1>1 DEF Added, Amounts

Lockable(locks) ==
    IsFiniteSet(DOMAIN locks) /\ \A c \in DOMAIN locks : locks[c].bond_amount \in Nat

LEMMA SumBondsNat ==
  ASSUME NEW locks, Lockable(locks) PROVE Wallet!SumBonds(locks) \in Nat
<1>1. \A c \in DOMAIN locks : Amounts(locks)[c] \in Nat
  BY DEF Lockable, Amounts
<1> QED  BY <1>1, AddedNat, SumBondsIs DEF Lockable

(* The same amounts by other bonds *)
LEMMA SumBondsSame ==
  ASSUME NEW locks, Lockable(locks), NEW others, DOMAIN others = DOMAIN locks,
         \A c \in DOMAIN locks : others[c].bond_amount = locks[c].bond_amount
  PROVE  Wallet!SumBonds(others) = Wallet!SumBonds(locks)
<1>1. Amounts(others) = Amounts(locks)
  BY DEF Amounts
<1> QED  BY <1>1, SumBondsIs

LEMMA SumBondsPart ==
  ASSUME NEW locks, Lockable(locks), NEW cs \in SUBSET DOMAIN locks, NEW some, 
         DOMAIN some = cs, \A c \in cs : some[c] = locks[c]
  PROVE  Wallet!SumBonds(some) = Added(Amounts(locks), cs) /\ Lockable(some)
<1>1. IsFiniteSet(cs)
  BY FS_Subset DEF Lockable
<1>2. \A c \in cs : Amounts(locks)[c] \in Int /\ Amounts(some)[c] = Amounts(locks)[c]
  BY DEF Amounts, Lockable
<1>3. Added(Amounts(some), cs) = Added(Amounts(locks), cs)
  BY <1>1, <1>2, AddedAgrees
<1>4. Lockable(some)
  BY <1>1 DEF Lockable
<1> QED  BY <1>3, <1>4, SumBondsIs

(* Bonds that are released and the ones that stay *)
LEMMA SumBondsSplit ==
  ASSUME NEW locks, Lockable(locks), NEW cs \in SUBSET DOMAIN locks,
         NEW a, DOMAIN a = cs, \A c \in cs : a[c] = locks[c], NEW b, b = Wallet!Without(locks, cs)
  PROVE  /\ Wallet!SumBonds(locks) = Wallet!SumBonds(a) + Wallet!SumBonds(b)
         /\ Lockable(a) /\ Lockable(b)
<1>1. Wallet!SumBonds(a) = Added(Amounts(locks), cs) /\ Lockable(a)
  BY SumBondsPart
<1>2. DOMAIN b = DOMAIN locks \ cs /\ \A c \in DOMAIN locks \ cs : b[c] = locks[c]
  BY DEF Wallet!Without
<1>3. Wallet!SumBonds(b) = Added(Amounts(locks), DOMAIN locks \ cs) /\ Lockable(b)
  <2>1. DOMAIN locks \ cs \in SUBSET DOMAIN locks
    OBVIOUS
  <2> QED  BY <1>2, <2>1, SumBondsPart
<1>4. \A c \in DOMAIN locks : Amounts(locks)[c] \in Int
  BY DEF Amounts, Lockable
<1>5. Added(Amounts(locks), DOMAIN locks) =
        Added(Amounts(locks), cs) + Added(Amounts(locks), DOMAIN locks \ cs)
  BY <1>4, AddedParts DEF Lockable
<1> QED  BY <1>1, <1>3, <1>5, SumBondsIs

(* A bond that is put in the table, perhaps in the place of another *)
IsPut(put, locks, k, bond) ==
    /\ DOMAIN put = DOMAIN locks \cup {k} /\ put[k] = bond
    /\ \A d \in DOMAIN locks \ {k} : put[d] = locks[d]

LEMMA SumBondsPut ==
  ASSUME NEW locks, Lockable(locks), NEW k, NEW bond, bond.bond_amount \in Nat, NEW put,
         IsPut(put, locks, k, bond)
  PROVE  Lockable(put) /\ Wallet!SumBonds(put) <= Wallet!SumBonds(locks) + bond.bond_amount
<1>1. /\ DOMAIN put = DOMAIN locks \cup {k} /\ put[k] = bond
      /\ \A d \in DOMAIN locks \ {k} : put[d] = locks[d]
  BY DEF IsPut
<1>2. Lockable(put)
  BY <1>1, FS_AddElement DEF Lockable
<1>3. Added(Amounts(put), DOMAIN put) =
        Amounts(put)[k] + Added(Amounts(put), DOMAIN put \ {k})
  <2>1. \A d \in DOMAIN put : Amounts(put)[d] \in Int
    BY <1>2 DEF Amounts, Lockable
  <2> PICK S : S = DOMAIN put
    OBVIOUS
  <2> PICK w : w = Amounts(put)
    OBVIOUS
  <2>2. IsFiniteSet(S) /\ k \in S /\ \A d \in S : w[d] \in Int
    BY <1>1, <1>2, <2>1 DEF Lockable
  <2>3. \A x \in S : Added(w, S) = w[x] + Added(w, S \ {x})
    BY ONLY <2>2, AddedParts, Zenon
  <2> QED  BY <2>2, <2>3
<1>4. Amounts(put)[k] = bond.bond_amount
  BY <1>1 DEF Amounts
<1> PICK rest : rest = Wallet!Without(locks, {k})
  OBVIOUS
<1>5. DOMAIN rest = DOMAIN locks \ {k} /\ \A d \in DOMAIN locks \ {k} : rest[d] = locks[d]
  BY DEF Wallet!Without
<1>6. Wallet!SumBonds(rest) = Added(Amounts(put), DOMAIN put \ {k})
  <2>1. DOMAIN rest = DOMAIN put \ {k} /\ DOMAIN put \ {k} \in SUBSET DOMAIN put
        /\ \A d \in DOMAIN put \ {k} : rest[d] = put[d]
    BY <1>1, <1>5
  <2> QED  BY <1>2, <2>1, SumBondsPart
<1>7. Wallet!SumBonds(rest) <= Wallet!SumBonds(locks) /\ Wallet!SumBonds(rest) \in Nat
      /\ Wallet!SumBonds(locks) \in Nat
  <2> PICK cs : cs = DOMAIN locks \cap {k}
    OBVIOUS
  <2>1. Wallet!Without(locks, cs) = rest
    BY DEF Wallet!Without
  <2>2. cs \in SUBSET DOMAIN locks
    OBVIOUS
  <2> PICK a : a = [c \in cs |-> locks[c]]
    OBVIOUS
  <2>3. /\ Wallet!SumBonds(locks) = Wallet!SumBonds(a) + Wallet!SumBonds(rest)
        /\ Lockable(a) /\ Lockable(rest)
    BY <2>1, <2>2, SumBondsSplit
  <2> PICK x : x = Wallet!SumBonds(a)
    OBVIOUS
  <2> PICK y : y = Wallet!SumBonds(rest)
    OBVIOUS
  <2>4. x \in Nat /\ y \in Nat /\ Wallet!SumBonds(locks) = x + y
    BY <2>3, SumBondsNat
  <2> QED  BY <2>4
<1>8. Wallet!SumBonds(put) = bond.bond_amount + Wallet!SumBonds(rest)
  BY <1>3, <1>4, <1>6, SumBondsIs
<1>9. Wallet!SumBonds(put) <= Wallet!SumBonds(locks) + bond.bond_amount
  BY <1>7, <1>8
<1> QED  BY <1>2, <1>9

-----------------------------------------------------------------------------
(* The node of the wallet *)

Coin(u) ==
    /\ u = [id |-> <<u.id[1], u.id[2]>>, amount |-> u.amount]
    /\ u.amount \in Nat /\ u.id[1] \in Nat

Coined(S) == IsFiniteSet(S) /\ \A u \in S : Coin(u)

Outs == UNION {t.outputs : t \in mempool}

(* Every output has an identifier of its own, and whatever can be spent    *)
(* has not been spent.                                                     *)
NodeInv ==
    /\ made \in Nat
    /\ Coined(funds) /\ \A t \in mempool : Coined(t.outputs)
    /\ \A u \in funds \cup Outs : u.id[1] <= made
    /\ \A u, v \in funds \cup Outs : u.id = v.id => u = v
    /\ funds \cap Outs = {}
    /\ \A t, v \in mempool : t # v => t.outputs \cap v.outputs = {}
    /\ \A id \in DOMAIN spentBy : id[1] \in Nat /\ id[1] <= made
    /\ \A u \in (funds \ Wallet!SpentInMempool) \cup Outs : u.id \notin DOMAIN spentBy

(* What a bond rests on stays spent by it *)
SpentStays == \A id \in DOMAIN spentBy : id \in DOMAIN spentBy' /\ spentBy'[id] = spentBy[id]

LEMMA OutputsOk ==
  ASSUME made \in Nat, NEW a \in Int, NEW b \in Int
  PROVE  /\ Coined(Wallet!Outputs(<<a, b>>))
         /\ \A u \in Wallet!Outputs(<<a, b>>) : u.id[1] = made + 1
         /\ \A u, v \in Wallet!Outputs(<<a, b>>) : u.id = v.id => u = v
<1> PICK amounts : amounts = <<a, b>>
  OBVIOUS
<1> PICK S : S = Wallet!Outputs(amounts)
  OBVIOUS
<1>1. DOMAIN amounts = {1, 2} /\ amounts[1] = a /\ amounts[2] = b
  OBVIOUS
<1>2. S = {[id |-> <<made + 1, i>>, amount |-> amounts[i]] : i \in {j \in {1, 2} : amounts[j] > 0}}
  BY <1>1 DEF Wallet!Outputs
<1>3. \A u \in S : \E i \in {1, 2} :
         amounts[i] > 0 /\ u = [id |-> <<made + 1, i>>, amount |-> amounts[i]]
  BY <1>2
<1> PICK x : x = [id |-> <<made + 1, 1>>, amount |-> a]
  OBVIOUS
<1> PICK y : y = [id |-> <<made + 1, 2>>, amount |-> b]
  OBVIOUS
<1>4. S \in SUBSET {x, y}
  BY <1>1, <1>3
<1>5. IsFiniteSet(S)
  <2>0. IsFiniteSet({x})
    BY FS_Singleton
  <2>1. IsFiniteSet({x} \cup {y})
    BY <2>0, FS_AddElement
  <2>2. {x} \cup {y} = {x, y}
    OBVIOUS
  <2> QED  BY <1>4, <2>1, <2>2, FS_Subset
<1>6. ASSUME NEW u \in S PROVE Coin(u) /\ u.id[1] = made + 1
  <2>1. PICK i \in {1, 2} : amounts[i] > 0 /\ u = [id |-> <<made + 1, i>>, amount |-> amounts[i]]
    BY <1>3
  <2>2. u.id = <<made + 1, i>> /\ u.amount = amounts[i] /\ u.id[1] = made + 1 /\ u.id[2] = i
    BY <2>1
  <2>3. amounts[i] \in Nat
    BY <1>1, <2>1
  <2> QED  BY <2>1, <2>2, <2>3 DEF Coin
<1>7. ASSUME NEW u \in S, NEW v \in S, u.id = v.id PROVE u = v
  <2>1. PICK i \in {1, 2} : u = [id |-> <<made + 1, i>>, amount |-> amounts[i]]
    BY <1>3
  <2>2. PICK j \in {1, 2} : v = [id |-> <<made + 1, j>>, amount |-> amounts[j]]
    BY <1>3
  <2>3. u.id[2] = i /\ v.id[2] = j
    BY <2>1, <2>2
  <2>4. i = j
    BY <1>7, <2>3
  <2> QED  BY <2>1, <2>2, <2>4
<1> QED  BY <1>5, <1>6, <1>7 DEF Coined

(* The node takes a transaction, which spends what nobody else does *)
LEMMA AcceptNode ==
  ASSUME NodeInv, NEW inputs, inputs \subseteq funds \ Wallet!SpentInMempool,
         NEW a \in Int, NEW b \in Int, NEW label, Wallet!Accept(inputs, <<a, b>>, label)
  PROVE  /\ NodeInv' /\ SpentStays
         /\ \A u \in inputs : u.id \in DOMAIN spentBy' /\ spentBy'[u.id] = label
<1> PICK new : new = Wallet!Outputs(<<a, b>>)
  OBVIOUS
<1> PICK t : t = [inputs |-> inputs, outputs |-> new]
  OBVIOUS
<1>1. /\ made' = made + 1 /\ mempool' = mempool \cup {t} /\ funds' = funds
      /\ spentBy' = [id \in DOMAIN spentBy \cup {u.id : u \in inputs} |->
                        IF id \in DOMAIN spentBy THEN spentBy[id] ELSE label]
      /\ t.inputs = inputs /\ t.outputs = new
  BY DEF Wallet!Accept
<1>2. /\ Coined(new) /\ \A u \in new : u.id[1] = made + 1
      /\ \A u, v \in new : u.id = v.id => u = v
  BY OutputsOk DEF NodeInv
<1>3. /\ made \in Nat
      /\ Coined(funds) /\ \A x \in mempool : Coined(x.outputs)
      /\ \A u \in funds \cup Outs : u.id[1] <= made
      /\ \A u, v \in funds \cup Outs : u.id = v.id => u = v
      /\ funds \cap Outs = {}
      /\ \A x, y \in mempool : x # y => x.outputs \cap y.outputs = {}
      /\ \A id \in DOMAIN spentBy : id[1] \in Nat /\ id[1] <= made
      /\ \A u \in (funds \ Wallet!SpentInMempool) \cup Outs : u.id \notin DOMAIN spentBy
  BY DEF NodeInv
<1>4. \A u \in funds \cup Outs : Coin(u) /\ u.id[1] \in Nat
  BY <1>3 DEF Coined, Outs, Coin
<1>5. \A u \in new : u \notin funds \cup Outs
  BY <1>2, <1>3, <1>4
<1>6. Outs' = Outs \cup new
  BY <1>1 DEF Outs
<1>7. Wallet!SpentInMempool' = Wallet!SpentInMempool \cup inputs
  BY <1>1 DEF Wallet!SpentInMempool
<1>8. DOMAIN spentBy' = DOMAIN spentBy \cup {u.id : u \in inputs}
  BY <1>1
<1>9. \A u \in inputs : u \in funds /\ u.id \notin DOMAIN spentBy
  BY <1>3
<1>10. SpentStays
  BY <1>1, <1>8 DEF SpentStays
<1>11. \A u \in inputs : u.id \in DOMAIN spentBy' /\ spentBy'[u.id] = label
  BY <1>1, <1>9
<1>12. made' \in Nat /\ Coined(funds') /\ \A x \in mempool' : Coined(x.outputs)
  BY <1>1, <1>2, <1>3
<1>13. \A u \in funds' \cup Outs' : u.id[1] <= made'
  <2>1. ASSUME NEW u \in funds \cup Outs PROVE u.id[1] <= made + 1
    BY <1>3, <1>4
  <2> QED  BY <1>1, <1>2, <1>3, <1>6, <2>1
<1>14. \A u, v \in funds' \cup Outs' : u.id = v.id => u = v
  <2>1. ASSUME NEW u \in funds \cup Outs, NEW v \in new PROVE u.id # v.id
    BY <1>2, <1>3, <1>4
  <2> QED  BY <1>1, <1>2, <1>3, <1>6, <2>1
<1>15. funds' \cap Outs' = {}
  BY <1>1, <1>3, <1>5, <1>6
<1>16. \A x, y \in mempool' : x # y => x.outputs \cap y.outputs = {}
  <2>1. ASSUME NEW x \in mempool PROVE x.outputs \cap new = {}
    BY <1>5 DEF Outs
  <2> QED  BY <1>1, <1>3, <2>1
<1>17. \A id \in DOMAIN spentBy' : id[1] \in Nat /\ id[1] <= made'
  <2>1. ASSUME NEW id \in DOMAIN spentBy PROVE id[1] \in Nat /\ id[1] <= made + 1
    BY <1>3
  <2>2. ASSUME NEW u \in inputs PROVE u.id[1] \in Nat /\ u.id[1] <= made + 1
    BY <1>3, <1>4, <1>9
  <2> QED  BY <1>1, <1>8, <2>1, <2>2
<1>18. \A u \in (funds' \ Wallet!SpentInMempool') \cup Outs' : u.id \notin DOMAIN spentBy'
  <2>1. ASSUME NEW u \in funds, u \notin Wallet!SpentInMempool, u \notin inputs
        PROVE  u.id \notin DOMAIN spentBy'
    <3>1. u.id \notin DOMAIN spentBy
      BY <1>3, <2>1
    <3>2. ASSUME NEW v \in inputs PROVE u.id # v.id
      BY <1>3, <1>9, <2>1
    <3> QED  BY <1>8, <3>1, <3>2
  <2>2. ASSUME NEW u \in Outs PROVE u.id \notin DOMAIN spentBy'
    <3>1. u.id \notin DOMAIN spentBy
      BY <1>3
    <3>2. ASSUME NEW v \in inputs PROVE u.id # v.id
      BY <1>3, <1>9
    <3> QED  BY <1>8, <3>1, <3>2
  <2>3. ASSUME NEW u \in new PROVE u.id \notin DOMAIN spentBy'
    <3>1. ~ (u.id[1] <= made)
      BY <1>2, <1>3
    <3>2. u.id \notin DOMAIN spentBy
      BY <1>3, <3>1
    <3>3. ASSUME NEW v \in inputs PROVE u.id # v.id
      BY <1>3, <1>9, <3>1
    <3> QED  BY <1>8, <3>2, <3>3
  <2> QED  BY <1>1, <1>6, <1>7, <2>1, <2>2, <2>3
<1>19. NodeInv'
  BY <1>12, <1>13, <1>14, <1>15, <1>16, <1>17, <1>18 DEF NodeInv
<1> QED  BY <1>10, <1>11, <1>19

LEMMA SubmitNode ==
  ASSUME NodeInv, NEW inputs, NEW a \in Int, NEW b \in Int, NEW label, NEW r,
         Wallet!Submit(inputs, <<a, b>>, label, r)
  PROVE  /\ NodeInv' /\ SpentStays
         /\ r = "ok" =>
               \A u \in inputs : u.id \in DOMAIN spentBy' /\ spentBy'[u.id] = label
<1>1. CASE inputs \subseteq funds \ Wallet!SpentInMempool /\ Wallet!Accept(inputs, <<a, b>>, label)
  BY <1>1, AcceptNode
<1>2. CASE UNCHANGED Wallet!nodeVars /\ r # "ok"
  BY <1>2 DEF NodeInv, Coined, Coin, Outs, Wallet!SpentInMempool, SpentStays, Wallet!nodeVars
<1>3. \/ inputs \subseteq funds \ Wallet!SpentInMempool /\ Wallet!Accept(inputs, <<a, b>>, label)
      \/ UNCHANGED Wallet!nodeVars /\ r # "ok"
  BY DEF Wallet!Submit
<1> QED  BY <1>1, <1>2, <1>3

LEMMA MineNode == ASSUME NodeInv, Wallet!Mine PROVE NodeInv' /\ SpentStays
<1>1. PICK t \in mempool :
        /\ mempool' = mempool \ {t} /\ funds' = (funds \ t.inputs) \cup t.outputs
        /\ UNCHANGED <<spentBy, made>>
  BY DEF Wallet!Mine
<1>2. /\ made \in Nat
      /\ Coined(funds) /\ \A x \in mempool : Coined(x.outputs)
      /\ \A u \in funds \cup Outs : u.id[1] <= made
      /\ \A u, v \in funds \cup Outs : u.id = v.id => u = v
      /\ funds \cap Outs = {}
      /\ \A x, y \in mempool : x # y => x.outputs \cap y.outputs = {}
      /\ \A id \in DOMAIN spentBy : id[1] \in Nat /\ id[1] <= made
      /\ \A u \in (funds \ Wallet!SpentInMempool) \cup Outs : u.id \notin DOMAIN spentBy
  BY DEF NodeInv
<1>3. Outs' \subseteq Outs /\ t.outputs \subseteq Outs /\ Outs' \cap t.outputs = {}
  <2>1. \A u : u \in Outs <=> \E x \in mempool : u \in x.outputs
    BY DEF Outs
  <2>2. \A u : u \in Outs' <=> \E x \in mempool \ {t} : u \in x.outputs
    BY <1>1 DEF Outs
  <2>3. \A x \in mempool \ {t} : x.outputs \cap t.outputs = {}
    BY <1>2
  <2> QED  BY <2>1, <2>2, <2>3
<1>4. \A u \in funds : u \notin t.inputs /\ u \notin Wallet!SpentInMempool' =>
                           u \notin Wallet!SpentInMempool
  BY <1>1 DEF Wallet!SpentInMempool
<1>5. Coined(funds')
  <2>1. IsFiniteSet(funds \ t.inputs)
    BY <1>2, FS_Subset DEF Coined
  <2>2. IsFiniteSet((funds \ t.inputs) \cup t.outputs)
    BY <1>1, <1>2, <2>1, FS_Union DEF Coined
  <2> QED  BY <1>1, <1>2, <2>2 DEF Coined
<1>6. funds' \cup Outs' \subseteq funds \cup Outs /\ funds' \cap Outs' = {}
  BY <1>1, <1>2, <1>3
<1>7. \A u \in (funds' \ Wallet!SpentInMempool') \cup Outs' : u.id \notin DOMAIN spentBy'
  <2>1. ASSUME NEW u \in funds', u \notin Wallet!SpentInMempool' PROVE u.id \notin DOMAIN spentBy
    BY <1>1, <1>2, <1>3, <1>4, <2>1
  <2> QED  BY <1>1, <1>2, <1>3, <2>1
<1>8. NodeInv'
  <2>1. made' \in Nat /\ \A x \in mempool' : Coined(x.outputs)
    BY <1>1, <1>2
  <2>2. /\ \A u \in funds' \cup Outs' : u.id[1] <= made'
        /\ \A u, v \in funds' \cup Outs' : u.id = v.id => u = v
    BY <1>1, <1>2, <1>6
  <2>3. /\ \A x, y \in mempool' : x # y => x.outputs \cap y.outputs = {}
        /\ \A id \in DOMAIN spentBy' : id[1] \in Nat /\ id[1] <= made'
    BY <1>1, <1>2
  <2> QED  BY <1>5, <1>6, <1>7, <2>1, <2>2, <2>3 DEF NodeInv
<1> QED  BY <1>1, <1>8 DEF SpentStays

-----------------------------------------------------------------------------
(* The manager of the wallet *)

Backed(locks, by) ==
    \A c \in DOMAIN locks :
        /\ locks[c] = [outpoint |-> locks[c].outpoint, bond_amount |-> locks[c].bond_amount,
                       unlock_time |-> locks[c].unlock_time, level |-> locks[c].level,
                       confirmed |-> locks[c].confirmed]
        /\ locks[c].outpoint \in DOMAIN by
        /\ by[locks[c].outpoint] = Wallet!Bond(locks[c].level, c, locks[c].bond_amount)

BooksInv ==
    /\ Lockable(locked_utxos) /\ Backed(locked_utxos, spentBy)
    /\ total_locked_balance \in Int
    /\ total_locked_balance >= Wallet!SumBonds(locked_utxos)

LEMMA BackedStays ==
  ASSUME NEW locks, Backed(locks, spentBy), SpentStays PROVE Backed(locks, spentBy')
BY DEF Backed, SpentStays

LEMMA BackedPut ==
  ASSUME NEW locks, NEW by, Backed(locks, by), NEW k, NEW bond,
         bond = [outpoint |-> bond.outpoint, bond_amount |-> bond.bond_amount,
                 unlock_time |-> bond.unlock_time, level |-> bond.level,
                 confirmed |-> bond.confirmed],
         bond.outpoint \in DOMAIN by,
         by[bond.outpoint] = Wallet!Bond(bond.level, k, bond.bond_amount),
         NEW put, IsPut(put, locks, k, bond)
  PROVE  Backed(put, by)
BY DEF Backed, IsPut

LEMMA BackedPart ==
  ASSUME NEW locks, NEW by, Backed(locks, by), NEW cs
  PROVE  Backed(Wallet!Without(locks, cs), by)
<1> PICK b : b = Wallet!Without(locks, cs)
  OBVIOUS
<1>1. DOMAIN b = DOMAIN locks \ cs /\ \A c \in DOMAIN locks \ cs : b[c] = locks[c]
  BY DEF Wallet!Without
<1>2. Backed(b, by)
  BY <1>1 DEF Backed
<1> QED  BY <1>2

LEMMA BooksStay ==
  ASSUME BooksInv, SpentStays, UNCHANGED <<locked_utxos, total_locked_balance>>
  PROVE  BooksInv'
<1>1. Backed(locked_utxos, spentBy')
  BY BackedStays DEF BooksInv
<1> QED  BY <1>1 DEF BooksInv, Lockable

(* A bond whose transaction the node took *)
IsBond(bond, id, amount, level) ==
    /\ bond = [outpoint |-> bond.outpoint, bond_amount |-> bond.bond_amount,
               unlock_time |-> bond.unlock_time, level |-> bond.level,
               confirmed |-> bond.confirmed]
    /\ bond.outpoint = id /\ bond.bond_amount = amount /\ bond.level = level

LEMMA BooksPut ==
  ASSUME BooksInv, SpentStays, NEW k, NEW id, NEW amount \in Nat, NEW level,
         id \in DOMAIN spentBy', spentBy'[id] = Wallet!Bond(level, k, amount),
         NEW bond, IsBond(bond, id, amount, level),
         NEW put, IsPut(put, locked_utxos, k, bond)
  PROVE  /\ Lockable(put) /\ Backed(put, spentBy') /\ total_locked_balance + amount \in Int
         /\ Wallet!SumBonds(put) \in Nat /\ total_locked_balance + amount >= Wallet!SumBonds(put)
<1>1. /\ bond.outpoint = id /\ bond.bond_amount = amount /\ bond.level = level
      /\ bond = [outpoint |-> bond.outpoint, bond_amount |-> bond.bond_amount,
                 unlock_time |-> bond.unlock_time, level |-> bond.level,
                 confirmed |-> bond.confirmed]
  BY DEF IsBond
<1>3. Backed(put, spentBy')
  <2>1. Backed(locked_utxos, spentBy')
    BY BackedStays DEF BooksInv
  <2> QED  BY <1>1, <2>1, BackedPut
<1>4. Lockable(put) /\ Wallet!SumBonds(put) <= Wallet!SumBonds(locked_utxos) + amount
  BY <1>1, SumBondsPut DEF BooksInv
<1>5. Wallet!SumBonds(put) \in Nat /\ Wallet!SumBonds(locked_utxos) \in Nat
  BY <1>4, SumBondsNat DEF BooksInv
<1>6. total_locked_balance \in Int /\ total_locked_balance >= Wallet!SumBonds(locked_utxos)
  BY DEF BooksInv
<1> QED  BY <1>3, <1>4, <1>5, <1>6

LEMMA BooksLock ==
  ASSUME BooksInv, SpentStays, NEW c, NEW u, NEW amount \in Nat, NEW until, NEW level,
         u.id \in DOMAIN spentBy', spentBy'[u.id] = Wallet!Bond(level, c, amount),
         Wallet!Lock(c, u, amount, until, level)
  PROVE  BooksInv'
<1> PICK put : put = locked_utxos'
  OBVIOUS
<1> PICK id : id = u.id
  OBVIOUS
<1> PICK locks : locks = locked_utxos
  OBVIOUS
<1>1. /\ put = [d \in DOMAIN locks \cup {c} |->
                  IF d = c THEN [outpoint |-> id, bond_amount |-> amount, unlock_time |-> until,
                                 level |-> level, confirmed |-> FALSE]
                  ELSE locks[d]]
      /\ total_locked_balance' = total_locked_balance + amount
  BY DEF Wallet!Lock
<1> PICK bond : bond = [outpoint |-> id, bond_amount |-> amount, unlock_time |-> until,
                        level |-> level, confirmed |-> FALSE]
  OBVIOUS
<1>2. IsBond(bond, id, amount, level) /\ IsPut(put, locks, c, bond)
  BY <1>1 DEF IsBond, IsPut
<1>3. /\ Lockable(put) /\ Backed(put, spentBy') /\ total_locked_balance + amount \in Int
      /\ total_locked_balance + amount >= Wallet!SumBonds(put)
  BY <1>2, BooksPut
<1>4. /\ Lockable(locked_utxos') /\ Backed(locked_utxos', spentBy')
      /\ total_locked_balance' \in Int
      /\ total_locked_balance' >= Wallet!SumBonds(locked_utxos')
  BY <1>1, <1>3
<1> QED  BY <1>4 DEF BooksInv

(* Bonds that are let go take no more from the total than they put there *)
LEMMA BooksRelease ==
  ASSUME BooksInv, UNCHANGED spentBy, NEW cs \in SUBSET DOMAIN locked_utxos, Wallet!Release(cs)
  PROVE  BooksInv'
<1> PICK gone : gone = [c \in cs |-> locked_utxos[c]]
  OBVIOUS
<1> PICK rest : rest = Wallet!Without(locked_utxos, cs)
  OBVIOUS
<1>1. /\ locked_utxos' = rest
      /\ total_locked_balance' = total_locked_balance - Wallet!SumBonds(gone)
  BY DEF Wallet!Release
<1>2. /\ Wallet!SumBonds(locked_utxos) = Wallet!SumBonds(gone) + Wallet!SumBonds(rest)
      /\ Lockable(gone) /\ Lockable(rest)
  BY SumBondsSplit DEF BooksInv
<1>3. Wallet!SumBonds(gone) \in Nat /\ Wallet!SumBonds(rest) \in Nat
  BY <1>2, SumBondsNat
<1>4. total_locked_balance \in Int /\ total_locked_balance >= Wallet!SumBonds(locked_utxos)
  BY DEF BooksInv
<1>5. total_locked_balance' \in Int /\ total_locked_balance' >= Wallet!SumBonds(rest)
  BY <1>1, <1>2, <1>3, <1>4
<1>6. Backed(rest, spentBy')
  BY BackedPart DEF BooksInv
<1>7. /\ Lockable(locked_utxos') /\ Backed(locked_utxos', spentBy')
      /\ total_locked_balance' >= Wallet!SumBonds(locked_utxos')
  BY <1>1, <1>2, <1>5, <1>6
<1> QED  BY <1>5, <1>7 DEF BooksInv

(* There is a smallest output *)
LEMMA SmallestIn ==
  ASSUME NEW s, s # {}, \A u \in s : u.amount \in Nat
  PROVE  Wallet!Smallest(s) \in s
<1> DEFINE T == {u.amount : u \in s}
<1>1. T \in SUBSET Nat /\ T # {}
  OBVIOUS
<1>2. PICK k \in T : \A j \in T : k <= j
  BY <1>1, LeastNatural
<1>3. PICK u \in s : u.amount = k
  BY <1>2
<1>4. \A v \in s : u.amount <= v.amount
  BY <1>2, <1>3
<1>5. \E x \in s : \A v \in s : x.amount <= v.amount
  BY <1>4
<1> HIDE DEF T
<1> QED  BY <1>5 DEF Wallet!Smallest

Steps ==
         [at : {"idle"}]
    \cup [at : {"retry", "again"}, amount : Nat, script : BOOLEAN]
    \cup [at : {"ensure", "settle"}, attempts : Nat]

WalletInv ==
    /\ NodeInv /\ BooksInv /\ Coined(available_utxos)
    /\ walletPc \in Steps
    /\ carried \in 0 .. 1
    /\ walletPc.at \in {"retry", "again"} => carried = 0

LEMMA SelectionParts ==
  ASSUME WalletInv, NEW total, NEW s \in Wallet!Selections(total)
  PROVE  s \subseteq available_utxos /\ s # {} /\ Wallet!Sum(s) \in Int /\ Wallet!Smallest(s) \in s
<1>1. s \in SUBSET available_utxos /\ s # {}
  BY DEF Wallet!Selections
<1>2. IsFiniteSet(s) /\ \A u \in s : u.amount \in Nat
  BY <1>1, FS_Subset DEF WalletInv, Coined, Coin
<1> QED  BY <1>1, <1>2, SumIsInt, SmallestIn

(* Steps that leave the node alone *)
LEMMA NodeStays ==
  ASSUME NodeInv, UNCHANGED <<funds, mempool, spentBy, made>> PROVE NodeInv' /\ SpentStays
BY DEF NodeInv, Coined, Coin, Outs, Wallet!SpentInMempool, SpentStays

LEMMA RefreshedCoins ==
  ASSUME WalletInv, Wallet!Refreshed PROVE Coined(available_utxos')
BY DEF WalletInv, NodeInv, Wallet!Refreshed, Wallet!coinVars

LEMMA LockUtxoGood ==
  ASSUME WalletInv, NEW c, NEW amount \in Nat, NEW duration, Wallet!LockUtxo(c, amount, duration)
  PROVE  WalletInv'
<1>1. PICK u \in Wallet!ProofInputs, r \in Wallet!Results :
        /\ Wallet!Submit({u}, Wallet!ProofAmounts(u), Wallet!Bond("application", c, amount), r)
        /\ IF r = "ok" THEN Wallet!Lock(c, u, amount, now + duration, "application")
           ELSE UNCHANGED Wallet!bookVars
  BY DEF Wallet!LockUtxo
<1>2. UNCHANGED <<available_utxos, total_available_balance, walletPc, carried>>
  BY DEF Wallet!LockUtxo, Wallet!coinVars
<1>3. FEE \in Nat
  BY BoardAssumption
<1>4. u.amount \in Nat
  BY DEF WalletInv, Coined, Coin, Wallet!ProofInputs
<1> PICK a : a = FEE * 2
  OBVIOUS
<1> PICK b : b = u.amount - FEE * 2
  OBVIOUS
<1>5. a \in Int /\ b \in Int
  BY <1>3, <1>4
<1> PICK label : label = Wallet!Bond("application", c, amount)
  OBVIOUS
<1> PICK S : S = {u}
  OBVIOUS
<1>6. Wallet!Submit(S, <<a, b>>, label, r)
  BY <1>1 DEF Wallet!ProofAmounts
<1>7. /\ NodeInv' /\ SpentStays
      /\ r = "ok" => u.id \in DOMAIN spentBy' /\ spentBy'[u.id] = label
  <2>1. NodeInv
    BY DEF WalletInv
  <2>2. /\ NodeInv' /\ SpentStays
        /\ r = "ok" => \A v \in S : v.id \in DOMAIN spentBy' /\ spentBy'[v.id] = label
    BY <1>5, <1>6, <2>1, SubmitNode
  <2> QED  BY <2>2
<1>8. BooksInv'
  <2>1. CASE r = "ok"
    BY <1>1, <1>7, <2>1, BooksLock DEF WalletInv
  <2>2. CASE r # "ok"
    BY <1>1, <1>7, <2>2, BooksStay DEF WalletInv, Wallet!bookVars
  <2> QED  BY <2>1, <2>2
<1> QED  BY <1>2, <1>7, <1>8 DEF WalletInv, Coined

LEMMA ScriptBondNode ==
  ASSUME WalletInv, NEW c, NEW amount \in Nat, NEW duration, NEW policy, NEW s, NEW r,
         Wallet!ScriptBond(c, amount, duration, policy, s, r)
  PROVE  /\ NodeInv' /\ SpentStays /\ Wallet!Smallest(s) \in s
         /\ r = "ok" => /\ Wallet!Smallest(s).id \in DOMAIN spentBy'
                        /\ spentBy'[Wallet!Smallest(s).id] = Wallet!Bond("script", c, amount)
<1> PICK label : label = Wallet!Bond("script", c, amount)
  OBVIOUS
<1>1. /\ s \in Wallet!Selections(amount + FEE)
      /\ Wallet!Submit(s, <<0, Wallet!Sum(s) - amount - FEE>>, label, r)
  BY DEF Wallet!ScriptBond
<1>2. Wallet!Sum(s) \in Int /\ Wallet!Smallest(s) \in s
  BY <1>1, SelectionParts
<1>3. 0 \in Int /\ Wallet!Sum(s) - amount - FEE \in Int
  BY <1>2, BoardAssumption
<1>4. NodeInv
  BY DEF WalletInv
<1>5. /\ NodeInv' /\ SpentStays
      /\ r = "ok" => \A v \in s : v.id \in DOMAIN spentBy' /\ spentBy'[v.id] = label
  BY <1>1, <1>3, <1>4, SubmitNode
<1> QED  BY <1>2, <1>5

LEMMA CreateGood ==
  ASSUME WalletInv, NEW c, NEW amount \in Nat, NEW duration, NEW policy,
         Wallet!CreateScriptBond(c, amount, duration, policy)
  PROVE  WalletInv'
<1>1. PICK s \in Wallet!Selections(amount + FEE), r \in Wallet!Results :
        /\ Wallet!ScriptBond(c, amount, duration, policy, s, r)
        /\ IF r = "ok" THEN Wallet!Lock(c, Wallet!Smallest(s), amount, now + duration, "script")
           ELSE UNCHANGED Wallet!bookVars
  BY DEF Wallet!CreateScriptBond
<1>2. UNCHANGED <<available_utxos, total_available_balance, walletPc, carried>>
  BY DEF Wallet!CreateScriptBond, Wallet!coinVars
<1> PICK u : u = Wallet!Smallest(s)
  OBVIOUS
<1>3. /\ NodeInv' /\ SpentStays
      /\ r = "ok" => /\ u.id \in DOMAIN spentBy'
                     /\ spentBy'[u.id] = Wallet!Bond("script", c, amount)
  <2>1. Wallet!ScriptBond(c, amount, duration, policy, s, r)
    BY <1>1
  <2>2. /\ NodeInv' /\ SpentStays
        /\ r = "ok" => /\ Wallet!Smallest(s).id \in DOMAIN spentBy'
                       /\ spentBy'[Wallet!Smallest(s).id] = Wallet!Bond("script", c, amount)
    BY <2>1, ScriptBondNode
  <2> QED  BY <2>2
<1>4. BooksInv'
  <2>1. CASE r = "ok"
    BY <1>1, <1>3, <2>1, BooksLock DEF WalletInv
  <2>2. CASE r # "ok"
    BY <1>1, <1>3, <2>2, BooksStay DEF WalletInv, Wallet!bookVars
  <2> QED  BY <2>1, <2>2
<1> QED  BY <1>2, <1>3, <1>4 DEF WalletInv, Coined

LEMMA UpgradeGood ==
  ASSUME WalletInv, NEW c, NEW policy, Wallet!Upgrade(c, policy) PROVE WalletInv'
<1> PICK amount : amount = locked_utxos[c].bond_amount
  OBVIOUS
<1> PICK left : left = IF locked_utxos[c].unlock_time > now
                       THEN locked_utxos[c].unlock_time - now ELSE DefaultLock
  OBVIOUS
<1> PICK k : k = c + Offset
  OBVIOUS
<1>1. /\ c \in DOMAIN locked_utxos
      /\ \E s \in Wallet!Selections(amount + FEE), r \in Wallet!Results :
          /\ Wallet!ScriptBond(k, amount, left, policy, s, r)
          /\ IF r = "ok"
             THEN /\ locked_utxos' = Wallet!Without(
                        [d \in DOMAIN locked_utxos \cup {k} |->
                            IF d = k
                            THEN [outpoint |-> Wallet!Smallest(s).id, bond_amount |-> amount,
                                  unlock_time |-> now + left, level |-> "script",
                                  confirmed |-> FALSE]
                            ELSE locked_utxos[d]], {c})
                  /\ total_locked_balance' = total_locked_balance + amount
             ELSE UNCHANGED Wallet!bookVars
      /\ UNCHANGED <<available_utxos, total_available_balance, walletPc, carried>>
  BY DEF Wallet!Upgrade, Wallet!coinVars
<1>2. amount \in Nat /\ BooksInv
  BY <1>1 DEF WalletInv, BooksInv, Lockable
<1>3. PICK s, r :
          /\ Wallet!ScriptBond(k, amount, left, policy, s, r)
          /\ IF r = "ok"
             THEN /\ locked_utxos' = Wallet!Without(
                        [d \in DOMAIN locked_utxos \cup {k} |->
                            IF d = k
                            THEN [outpoint |-> Wallet!Smallest(s).id, bond_amount |-> amount,
                                  unlock_time |-> now + left, level |-> "script",
                                  confirmed |-> FALSE]
                            ELSE locked_utxos[d]], {c})
                  /\ total_locked_balance' = total_locked_balance + amount
             ELSE UNCHANGED Wallet!bookVars
  BY <1>1
<1> PICK u : u = Wallet!Smallest(s)
  OBVIOUS
<1>4. /\ NodeInv' /\ SpentStays
      /\ r = "ok" => u.id \in DOMAIN spentBy' /\ spentBy'[u.id] = Wallet!Bond("script", k, amount)
  <2>1. Wallet!ScriptBond(k, amount, left, policy, s, r)
    BY <1>3
  <2>2. amount \in Nat
    BY <1>2
  <2>3. ASSUME NEW a \in Nat, a = amount
        PROVE  /\ NodeInv' /\ SpentStays
               /\ r = "ok" => /\ Wallet!Smallest(s).id \in DOMAIN spentBy'
                              /\ spentBy'[Wallet!Smallest(s).id] = Wallet!Bond("script", k, a)
    <3>1. Wallet!ScriptBond(k, a, left, policy, s, r)
      BY <2>1, <2>3
    <3> QED  BY ONLY WalletInv, <3>1, ScriptBondNode
  <2> QED  BY <2>2, <2>3
<1>5. BooksInv'
  <2>1. CASE r = "ok"
    <3> PICK id : id = u.id
      OBVIOUS
    <3> PICK put : put = [d \in DOMAIN locked_utxos \cup {k} |->
                            IF d = k
                            THEN [outpoint |-> id, bond_amount |-> amount,
                                  unlock_time |-> now + left, level |-> "script",
                                  confirmed |-> FALSE]
                            ELSE locked_utxos[d]]
      OBVIOUS
    <3> PICK until : until = now + left
      OBVIOUS
    <3> PICK level : level = "script"
      OBVIOUS
    <3> PICK bond : bond = [outpoint |-> id, bond_amount |-> amount, unlock_time |-> until,
                            level |-> level, confirmed |-> FALSE]
      OBVIOUS
    <3>7. IsBond(bond, id, amount, level) /\ IsPut(put, locked_utxos, k, bond)
      BY DEF IsBond, IsPut
    <3>1. /\ Lockable(put) /\ Backed(put, spentBy') /\ total_locked_balance + amount \in Int
          /\ Wallet!SumBonds(put) \in Nat
          /\ total_locked_balance + amount >= Wallet!SumBonds(put)
      <4>1. id \in DOMAIN spentBy' /\ spentBy'[id] = Wallet!Bond(level, k, amount)
        BY <1>4, <2>1
      <4> QED  BY <1>2, <1>4, <4>1, <3>7, BooksPut
    <3> PICK rest : rest = Wallet!Without(put, {c})
      OBVIOUS
    <3>2. locked_utxos' = rest /\ total_locked_balance' = total_locked_balance + amount
      BY <1>3, <2>1
    <3>3. c \in DOMAIN put
      BY <1>1
    <3> PICK gone : gone = [d \in {c} |-> put[d]]
      OBVIOUS
    <3>4. /\ Wallet!SumBonds(put) = Wallet!SumBonds(gone) + Wallet!SumBonds(rest)
          /\ Lockable(gone) /\ Lockable(rest)
      <4> PICK cs : cs = {c}
        OBVIOUS
      <4>1. cs \in SUBSET DOMAIN put /\ DOMAIN gone = cs /\ (\A d \in cs : gone[d] = put[d])
            /\ rest = Wallet!Without(put, cs)
        BY <3>3
      <4> QED  BY ONLY <3>1, <4>1, SumBondsSplit
    <3>5. Wallet!SumBonds(gone) \in Nat /\ Wallet!SumBonds(rest) \in Nat
      BY <3>4, SumBondsNat
    <3>6. Backed(rest, spentBy')
      BY <3>1, BackedPart
    <3>8. /\ Lockable(locked_utxos') /\ Backed(locked_utxos', spentBy')
          /\ total_locked_balance' \in Int
          /\ total_locked_balance' >= Wallet!SumBonds(locked_utxos')
      BY <3>1, <3>2, <3>4, <3>5, <3>6
    <3> QED  BY <3>8 DEF BooksInv
  <2>2. CASE r # "ok"
    BY <1>2, <1>3, <1>4, <2>2, BooksStay DEF Wallet!bookVars
  <2> QED  BY <2>1, <2>2
<1> QED  BY <1>1, <1>4, <1>5 DEF WalletInv, Coined

LEMMA ReleaseGood ==
  ASSUME WalletInv, NEW cs \in SUBSET DOMAIN locked_utxos, Wallet!Release(cs),
         UNCHANGED <<funds, mempool, spentBy, made, available_utxos, walletPc, carried>>
  PROVE  WalletInv'
<1>1. NodeInv' /\ BooksInv'
  BY NodeStays, BooksRelease DEF WalletInv
<1> QED  BY <1>1 DEF WalletInv, Coined

LEMMA ScanGood == ASSUME WalletInv, Wallet!ScanPending PROVE WalletInv'
<1>1. PICK bonds :
        /\ locked_utxos' = [c \in DOMAIN locked_utxos |->
              [locked_utxos[c] EXCEPT !.confirmed = @ \/ c \in bonds]]
        /\ UNCHANGED <<funds, mempool, spentBy, made, available_utxos, total_locked_balance,
                       walletPc, carried>>
  BY DEF Wallet!ScanPending, Wallet!nodeVars, Wallet!coinVars
<1> PICK l : l = locked_utxos'
  OBVIOUS
<1>2. BooksInv /\ NodeInv
  BY DEF WalletInv
<1>3. /\ DOMAIN l = DOMAIN locked_utxos
      /\ \A c \in DOMAIN locked_utxos :
            l[c] = [locked_utxos[c] EXCEPT !.confirmed = @ \/ c \in bonds]
  BY <1>1
<1>4. ASSUME NEW c \in DOMAIN locked_utxos
      PROVE  /\ l[c] = [outpoint |-> locked_utxos[c].outpoint,
                        bond_amount |-> locked_utxos[c].bond_amount,
                        unlock_time |-> locked_utxos[c].unlock_time,
                        level |-> locked_utxos[c].level, confirmed |-> l[c].confirmed]
             /\ l[c].outpoint = locked_utxos[c].outpoint
             /\ l[c].bond_amount = locked_utxos[c].bond_amount
             /\ l[c].unlock_time = locked_utxos[c].unlock_time
             /\ l[c].level = locked_utxos[c].level
  <2> PICK b : b = locked_utxos[c]
    OBVIOUS
  <2> PICK x : x = (b.confirmed \/ c \in bonds)
    OBVIOUS
  <2>1. b = [outpoint |-> b.outpoint, bond_amount |-> b.bond_amount,
             unlock_time |-> b.unlock_time, level |-> b.level, confirmed |-> b.confirmed]
    BY <1>2 DEF BooksInv, Backed
  <2>2. l[c] = [b EXCEPT !.confirmed = x]
    BY <1>3
  <2>3. l[c] = [outpoint |-> b.outpoint, bond_amount |-> b.bond_amount,
                unlock_time |-> b.unlock_time, level |-> b.level, confirmed |-> x]
    BY ONLY <2>1, <2>2
  <2> QED  BY <2>3
<1>5. Lockable(l) /\ Backed(l, spentBy)
  <2>1. Lockable(l)
    BY <1>2, <1>3, <1>4 DEF BooksInv, Lockable
  <2>2. Backed(l, spentBy)
    BY <1>2, <1>3, <1>4 DEF BooksInv, Backed
  <2> QED  BY <2>1, <2>2
<1>6. Wallet!SumBonds(l) = Wallet!SumBonds(locked_utxos)
  BY <1>2, <1>3, <1>4, SumBondsSame DEF BooksInv
<1>7. BooksInv'
  <2>1. /\ Lockable(locked_utxos') /\ Backed(locked_utxos', spentBy')
        /\ total_locked_balance' \in Int
        /\ total_locked_balance' >= Wallet!SumBonds(locked_utxos')
    BY <1>1, <1>2, <1>5, <1>6 DEF BooksInv
  <2> QED  BY <2>1 DEF BooksInv
<1>8. NodeInv'
  BY <1>1, <1>2, NodeStays
<1> QED  BY <1>1, <1>7, <1>8 DEF WalletInv, Coined


-----------------------------------------------------------------------------
(* A comment, the split of outputs and the rest *)

(* No output is left out but by a refresh, so that a comment that is tried *)
(* a second time was not accepted the first time.                          *)
LEMMA AttemptGood ==
  ASSUME WalletInv, NEW amount \in Nat, NEW script \in BOOLEAN, NEW attempt \in 0 .. 1,
         attempt = 1 => carried = 0,
         Wallet!Attempt(amount, script, attempt),
         UNCHANGED <<locked_utxos, pending_bonds, total_locked_balance, available_utxos,
                     total_available_balance, now>>
  PROVE  WalletInv'
<1>1. PICK s \in Wallet!Selections(amount + FEE), r \in Wallet!Results :
        /\ Wallet!Submit(s, <<IF script THEN 0 ELSE amount, Wallet!Sum(s) - amount - FEE>>,
                         "comment", r)
        /\ carried' = (IF attempt = 0 THEN 0 ELSE carried)
                       + (IF r \in {"ok", "duplicate"} THEN 1 ELSE 0)
        /\ walletPc' = IF Wallet!Retries(r, attempt)
                       THEN [at |-> "retry", amount |-> amount, script |-> script]
                       ELSE [at |-> "idle"]
  BY DEF Wallet!Attempt
<1> PICK a : a = IF script THEN 0 ELSE amount
  OBVIOUS
<1> PICK b : b = Wallet!Sum(s) - amount - FEE
  OBVIOUS
<1> PICK label : label = "comment"
  OBVIOUS
<1>2. a \in Int /\ b \in Int
  <2>1. Wallet!Sum(s) \in Int
    BY SelectionParts
  <2>2. FEE \in Nat
    BY BoardAssumption
  <2>3. a \in Nat
    OBVIOUS
  <2> QED  BY <2>1, <2>2, <2>3
<1>3. NodeInv' /\ SpentStays
  <2>1. NodeInv
    BY DEF WalletInv
  <2>2. Wallet!Submit(s, <<a, b>>, label, r)
    BY <1>1
  <2> QED  BY <1>2, <2>1, <2>2, SubmitNode
<1>4. BooksInv'
  BY <1>3, BooksStay DEF WalletInv
<1>5. carried' \in 0 .. 1 /\ (Wallet!Retries(r, attempt) => carried' = 0)
  <2>1. Wallet!Retries(r, attempt) <=> r = "orphan" /\ attempt = 0
    BY DEF Wallet!Retries
  <2>2. (IF attempt = 0 THEN 0 ELSE carried) = 0
    OBVIOUS
  <2> PICK n : n = IF r \in {"ok", "duplicate"} THEN 1 ELSE 0
    OBVIOUS
  <2> PICK z : z = IF attempt = 0 THEN 0 ELSE carried
    OBVIOUS
  <2>3. carried' = z + n
    BY ONLY <1>1, n = IF r \in {"ok", "duplicate"} THEN 1 ELSE 0,
            z = IF attempt = 0 THEN 0 ELSE carried, Zenon
  <2>4. n \in 0 .. 1 /\ (r = "orphan" => n = 0)
    OBVIOUS
  <2> QED  BY ONLY <2>1, <2>2, <2>3, <2>4, z = IF attempt = 0 THEN 0 ELSE carried
<1>6. walletPc' \in Steps /\ (walletPc'.at \in {"retry", "again"} => carried' = 0)
  <2>1. CASE Wallet!Retries(r, attempt)
    <3>1. walletPc' = [at |-> "retry", amount |-> amount, script |-> script]
      BY <1>1, <2>1
    <3>2. walletPc' \in [at : {"retry", "again"}, amount : Nat, script : BOOLEAN]
      BY <3>1
    <3> QED  BY <1>5, <2>1, <3>2 DEF Steps
  <2>2. CASE ~ Wallet!Retries(r, attempt)
    <3>1. walletPc' = [at |-> "idle"]
      BY ONLY <1>1, <2>2
    <3> QED  BY <3>1 DEF Steps
  <2> QED  BY <2>1, <2>2
<1>7. Coined(available_utxos')
  BY DEF WalletInv, Coined
<1> QED  BY <1>3, <1>4, <1>5, <1>6, <1>7 DEF WalletInv

LEMMA BondedCommentGood ==
  ASSUME WalletInv, NEW amount \in Nat, NEW script \in BOOLEAN, Wallet!Comment(amount, script)
  PROVE  WalletInv'
<1> PICK attempt \in 0 .. 1 : attempt = 0
  OBVIOUS
<1>1. Wallet!Attempt(amount, script, attempt)
  BY DEF Wallet!Comment
<1>2. UNCHANGED <<locked_utxos, pending_bonds, total_locked_balance, available_utxos,
                  total_available_balance, now>>
  BY DEF Wallet!Comment, Wallet!bookVars, Wallet!coinVars
<1> QED  BY <1>1, <1>2, AttemptGood

LEMMA CommentAgainGood == ASSUME WalletInv, Wallet!CommentAgain PROVE WalletInv'
<1>1. /\ walletPc.at = "again"
      /\ UNCHANGED <<locked_utxos, pending_bonds, total_locked_balance, available_utxos,
                     total_available_balance, now>>
  BY DEF Wallet!CommentAgain, Wallet!bookVars, Wallet!coinVars
<1>2. walletPc \in Steps /\ carried = 0
  BY <1>1 DEF WalletInv
<1>3. walletPc \in [at : {"retry", "again"}, amount : Nat, script : BOOLEAN]
  BY <1>1, <1>2 DEF Steps
<1> PICK amount : amount = walletPc.amount
  OBVIOUS
<1> PICK script : script = walletPc.script
  OBVIOUS
<1>4. amount \in Nat /\ script \in BOOLEAN
  BY <1>3, ZenonT(20)
<1>5. CASE walletPc' = [at |-> "idle"] /\ UNCHANGED Wallet!nodeVars /\ UNCHANGED carried
  <2>1. UNCHANGED <<funds, mempool, spentBy, made>>
    BY <1>5 DEF Wallet!nodeVars
  <2>2. NodeInv' /\ BooksInv'
    BY <1>1, <2>1, NodeStays, BooksStay DEF WalletInv
  <2>3. Coined(available_utxos')
    BY <1>1 DEF WalletInv, Coined
  <2>4. walletPc' \in Steps /\ walletPc'.at = "idle"
    BY <1>5 DEF Steps
  <2> QED  BY <1>2, <1>5, <2>2, <2>3, <2>4 DEF WalletInv
<1>6. CASE Wallet!Attempt(walletPc.amount, walletPc.script, 1)
  <2> PICK attempt \in 0 .. 1 : attempt = 1
    OBVIOUS
  <2>1. Wallet!Attempt(amount, script, attempt)
    BY <1>6
  <2> QED  BY <1>1, <1>2, <1>4, <2>1, AttemptGood
<1>7. \/ walletPc' = [at |-> "idle"] /\ UNCHANGED Wallet!nodeVars /\ UNCHANGED carried
      \/ Wallet!Attempt(walletPc.amount, walletPc.script, 1)
  BY DEF Wallet!CommentAgain
<1> QED  BY <1>5, <1>6, <1>7

(* Steps that change neither the node nor the books, and of the rest the   *)
(* list of outputs to what the node has                                    *)
LEMMA QuietGood ==
  ASSUME WalletInv, UNCHANGED <<funds, mempool, spentBy, made, locked_utxos,
                                total_locked_balance, carried>>,
         Coined(available_utxos'), walletPc' \in Steps,
         walletPc'.at \in {"retry", "again"} => carried = 0
  PROVE  WalletInv'
<1>1. NodeInv' /\ BooksInv'
  BY NodeStays, BooksStay DEF WalletInv
<1> QED  BY <1>1 DEF WalletInv

LEMMA RefreshGood == ASSUME WalletInv, Wallet!Refresh PROVE WalletInv'
<1>1. Wallet!Refreshed /\ UNCHANGED <<funds, mempool, spentBy, made, locked_utxos,
                                      total_locked_balance, carried, walletPc>>
  BY DEF Wallet!Refresh, Wallet!nodeVars, Wallet!bookVars
<1>2. Coined(available_utxos')
  BY <1>1, RefreshedCoins
<1>3. walletPc' \in Steps /\ (walletPc'.at \in {"retry", "again"} => carried = 0)
  BY <1>1 DEF WalletInv
<1> QED  BY <1>1, <1>2, <1>3, QuietGood

LEMMA RetryRefreshGood == ASSUME WalletInv, Wallet!RetryRefresh PROVE WalletInv'
<1>1. /\ Wallet!Refreshed /\ walletPc.at = "retry" /\ walletPc' = [walletPc EXCEPT !.at = "again"]
      /\ UNCHANGED <<funds, mempool, spentBy, made, locked_utxos, total_locked_balance, carried>>
  BY DEF Wallet!RetryRefresh, Wallet!nodeVars, Wallet!bookVars
<1>2. Coined(available_utxos')
  BY <1>1, RefreshedCoins
<1>3. walletPc \in Steps /\ carried = 0
  BY <1>1 DEF WalletInv
<1>4. walletPc \in [at : {"retry", "again"}, amount : Nat, script : BOOLEAN]
  BY <1>1, <1>3 DEF Steps
<1>5. walletPc' \in [at : {"retry", "again"}, amount : Nat, script : BOOLEAN]
  BY <1>1, <1>4
<1>6. walletPc' \in Steps
  BY <1>5 DEF Steps
<1> QED  BY <1>1, <1>2, <1>3, <1>6, QuietGood

LEMMA EnsureEndsGood == ASSUME WalletInv, Wallet!EnsureEnds PROVE WalletInv'
<1>1. /\ walletPc' = [at |-> "idle"]
      /\ UNCHANGED <<funds, mempool, spentBy, made, locked_utxos, total_locked_balance, carried,
                     available_utxos>>
  BY DEF Wallet!EnsureEnds, Wallet!nodeVars, Wallet!bookVars, Wallet!coinVars
<1>2. Coined(available_utxos')
  BY <1>1 DEF WalletInv, Coined
<1>3. walletPc' \in Steps /\ walletPc'.at = "idle"
  BY <1>1 DEF Steps
<1> QED  BY <1>1, <1>2, <1>3, QuietGood

LEMMA AttemptsParts ==
  ASSUME WalletInv, walletPc.at \in {"ensure", "settle"}
  PROVE  walletPc \in [at : {"ensure", "settle"}, attempts : Nat]
BY DEF WalletInv, Steps

LEMMA SettleGood == ASSUME WalletInv, Wallet!Settle PROVE WalletInv'
<1>1. /\ Wallet!Refreshed /\ walletPc.at = "settle"
      /\ walletPc' = [at |-> "ensure", attempts |-> walletPc.attempts + 1]
      /\ UNCHANGED <<funds, mempool, spentBy, made, locked_utxos, total_locked_balance, carried>>
  BY DEF Wallet!Settle, Wallet!nodeVars, Wallet!bookVars
<1>2. Coined(available_utxos')
  BY <1>1, RefreshedCoins
<1>3. walletPc.attempts \in Nat
  BY <1>1, AttemptsParts
<1>4. walletPc' \in Steps /\ walletPc'.at = "ensure"
  BY <1>1, <1>3 DEF Steps
<1> QED  BY <1>1, <1>2, <1>4, QuietGood

LEMMA SplitGood == ASSUME WalletInv, Wallet!Split PROVE WalletInv'
<1>1. /\ walletPc.at = "ensure"
      /\ UNCHANGED <<locked_utxos, total_locked_balance, carried>>
  BY DEF Wallet!Split, Wallet!bookVars
<1>2. walletPc \in [at : {"ensure", "settle"}, attempts : Nat]
  BY <1>1, AttemptsParts
<1>3. ASSUME walletPc' = [walletPc EXCEPT !.at = "settle"] \/ walletPc' = [at |-> "idle"]
      PROVE  walletPc' \in Steps /\ walletPc'.at \notin {"retry", "again"}
  <2>1. CASE walletPc' = [at |-> "idle"]
    BY <2>1 DEF Steps
  <2>2. CASE walletPc' = [walletPc EXCEPT !.at = "settle"]
    <3>1. walletPc' \in [at : {"ensure", "settle"}, attempts : Nat] /\ walletPc'.at = "settle"
      BY <1>2, <2>2
    <3> QED  BY <3>1 DEF Steps
  <2> QED  BY <1>3, <2>1, <2>2
<1>4. CASE /\ UNCHANGED <<funds, mempool, spentBy, made, available_utxos>>
           /\ walletPc' = [walletPc EXCEPT !.at = "settle"] \/ walletPc' = [at |-> "idle"]
  <2>1. Coined(available_utxos')
    BY <1>4 DEF WalletInv, Coined
  <2>2. walletPc' \in Steps /\ walletPc'.at \notin {"retry", "again"}
    BY <1>3, <1>4
  <2> QED  BY <1>1, <1>4, <2>1, <2>2, QuietGood
<1>5. ASSUME NEW u \in available_utxos, NEW r,
             Wallet!Submit({u}, <<Chunk, u.amount - FEE - Chunk>>, "split", r),
             \/ /\ available_utxos' = available_utxos \ {u}
                /\ walletPc' = [walletPc EXCEPT !.at = "settle"]
             \/ walletPc' = [at |-> "idle"] /\ UNCHANGED available_utxos
      PROVE  WalletInv'
  <2> PICK S : S = {u}
    OBVIOUS
  <2> PICK a : a = Chunk
    OBVIOUS
  <2> PICK b : b = u.amount - FEE - Chunk
    OBVIOUS
  <2> PICK label : label = "split"
    OBVIOUS
  <2>1. a \in Int /\ b \in Int
    <3>1. u.amount \in Nat /\ FEE \in Nat /\ Chunk \in Nat
      BY BoardAssumption DEF WalletInv, Coined, Coin
    <3> QED  BY <3>1
  <2>2. NodeInv' /\ SpentStays
    <3>1. NodeInv
      BY DEF WalletInv
    <3>2. Wallet!Submit(S, <<a, b>>, label, r)
      BY <1>5
    <3> QED  BY <2>1, <3>1, <3>2, SubmitNode
  <2>3. BooksInv'
    BY <1>1, <2>2, BooksStay DEF WalletInv
  <2>4. Coined(available_utxos')
    <3>1. Coined(available_utxos) /\ available_utxos' \subseteq available_utxos
      BY <1>5 DEF WalletInv
    <3> QED  BY <3>1, FS_Subset DEF Coined
  <2>5. walletPc' \in Steps /\ walletPc'.at \notin {"retry", "again"}
    BY <1>3, <1>5
  <2> QED  BY <1>1, <2>2, <2>3, <2>4, <2>5 DEF WalletInv
<1>6. \/ /\ UNCHANGED <<funds, mempool, spentBy, made, available_utxos>>
         /\ walletPc' = [walletPc EXCEPT !.at = "settle"] \/ walletPc' = [at |-> "idle"]
      \/ \E u \in available_utxos, r \in Wallet!Results :
            /\ Wallet!Submit({u}, <<Chunk, u.amount - FEE - Chunk>>, "split", r)
            /\ \/ /\ available_utxos' = available_utxos \ {u}
                  /\ walletPc' = [walletPc EXCEPT !.at = "settle"]
               \/ walletPc' = [at |-> "idle"] /\ UNCHANGED available_utxos
  <2>1. CASE Wallet!Large = {}
    BY <2>1 DEF Wallet!Split, Wallet!nodeVars
  <2>2. CASE Wallet!Large # {}
    <3>1. PICK u \in Wallet!Large :
            IF u.amount - FEE <= Chunk + Slack
            THEN /\ walletPc' = [at |-> "idle"]
                 /\ UNCHANGED <<Wallet!nodeVars, available_utxos, walletFaults>>
            ELSE \E r \in Wallet!Results :
                 /\ Wallet!Submit({u}, <<Chunk, u.amount - FEE - Chunk>>, "split", r)
                 /\ IF r = "ok"
                    THEN /\ available_utxos' = available_utxos \ {u}
                         /\ walletPc' = [walletPc EXCEPT !.at = "settle"]
                    ELSE walletPc' = [at |-> "idle"] /\ UNCHANGED available_utxos
      BY <2>2 DEF Wallet!Split
    <3>2. u \in available_utxos
      BY DEF Wallet!Large
    <3>3. CASE u.amount - FEE <= Chunk + Slack
      BY <3>1, <3>3 DEF Wallet!nodeVars
    <3>4. CASE ~ (u.amount - FEE <= Chunk + Slack)
      <4>1. PICK r \in Wallet!Results :
                 /\ Wallet!Submit({u}, <<Chunk, u.amount - FEE - Chunk>>, "split", r)
                 /\ IF r = "ok"
                    THEN /\ available_utxos' = available_utxos \ {u}
                         /\ walletPc' = [walletPc EXCEPT !.at = "settle"]
                    ELSE walletPc' = [at |-> "idle"] /\ UNCHANGED available_utxos
        BY <3>1, <3>4
      <4>2. \/ /\ available_utxos' = available_utxos \ {u}
               /\ walletPc' = [walletPc EXCEPT !.at = "settle"]
            \/ walletPc' = [at |-> "idle"] /\ UNCHANGED available_utxos
        BY <4>1
      <4> QED  BY <3>2, <4>1, <4>2
    <3> QED  BY <3>3, <3>4
  <2> QED  BY <2>1, <2>2
<1> QED  BY <1>4, <1>5, <1>6

-----------------------------------------------------------------------------
(* The wallet at first, and its steps *)

LEMMA FirstFunds ==
  ASSUME Wallet!Init
  PROVE  /\ Coined(funds)
         /\ \A u \in funds : u.id[1] = 0
         /\ \A u, v \in funds : u.id = v.id => u = v
<1>1. funds = {[id |-> <<0, i>>, amount |-> Coins[i]] : i \in DOMAIN Coins}
  BY DEF Wallet!Init
<1>2. Coins \in Seq(Nat) /\ DOMAIN Coins = 1 .. Len(Coins) /\ Len(Coins) \in Nat
  BY BoardAssumption
<1> PICK f : f = [i \in 1 .. Len(Coins) |-> [id |-> <<0, i>>, amount |-> Coins[i]]]
  OBVIOUS
<1>3. IsFiniteSet(funds)
  <2>1. IsFiniteSet(1 .. Len(Coins))
    BY <1>2, FS_Interval
  <2>2. funds = {f[i] : i \in 1 .. Len(Coins)}
    BY <1>1, <1>2
  <2>3. f \in Surjection(1 .. Len(Coins), funds)
    BY <2>2 DEF Surjection
  <2> QED  BY <2>1, <2>3, FS_Surjection
<1>4. \A u \in funds : \E i \in DOMAIN Coins : u = [id |-> <<0, i>>, amount |-> Coins[i]]
  BY <1>1
<1>5. ASSUME NEW u \in funds PROVE Coin(u) /\ u.id[1] = 0
  <2>1. PICK i \in DOMAIN Coins : u = [id |-> <<0, i>>, amount |-> Coins[i]]
    BY <1>4
  <2>2. Coins[i] \in Nat
    BY <1>2
  <2>3. u.id = <<0, i>> /\ u.amount = Coins[i] /\ u.id[1] = 0 /\ u.id[2] = i
    BY <2>1
  <2> QED  BY <2>1, <2>2, <2>3 DEF Coin
<1>6. ASSUME NEW u \in funds, NEW v \in funds, u.id = v.id PROVE u = v
  <2>1. PICK i \in DOMAIN Coins : u = [id |-> <<0, i>>, amount |-> Coins[i]]
    BY <1>4
  <2>2. PICK j \in DOMAIN Coins : v = [id |-> <<0, j>>, amount |-> Coins[j]]
    BY <1>4
  <2>3. u.id[2] = i /\ v.id[2] = j
    BY <2>1, <2>2
  <2> QED  BY <1>6, <2>1, <2>2, <2>3
<1> QED  BY <1>3, <1>5, <1>6 DEF Coined

LEMMA WalletInit == ASSUME Wallet!Init PROVE WalletInv
<1>1. /\ mempool = {} /\ DOMAIN spentBy = {} /\ made = 0 /\ available_utxos = funds
      /\ DOMAIN locked_utxos = {} /\ total_locked_balance = 0
      /\ walletPc = [at |-> "ensure", attempts |-> 0] /\ carried = 0
  BY DEF Wallet!Init
<1>2. /\ Coined(funds)
      /\ \A u \in funds : u.id[1] = 0
      /\ \A u, v \in funds : u.id = v.id => u = v
  BY FirstFunds
<1>3. NodeInv
  <2>1. Outs = {}
    BY <1>1 DEF Outs
  <2>2. \A u \in funds \cup Outs : u.id[1] <= made
    BY <1>1, <1>2, <2>1
  <2> QED  BY <1>1, <1>2, <2>1, <2>2 DEF NodeInv
<1>4. BooksInv
  <2>1. Lockable(locked_utxos) /\ Backed(locked_utxos, spentBy)
    BY <1>1, FS_EmptySet DEF Lockable, Backed
  <2>2. Wallet!SumBonds(locked_utxos) = 0
    <3>1. IsFiniteSet({})
      BY FS_EmptySet
    <3> PICK w : w = Amounts(locked_utxos)
      OBVIOUS
    <3>2. Added(w, {}) = 0
      BY <3>1, AddedParts
    <3> QED  BY <1>1, <3>2, SumBondsIs
  <2> QED  BY <1>1, <2>1, <2>2 DEF BooksInv
<1>5. walletPc \in Steps /\ walletPc.at = "ensure"
  BY <1>1 DEF Steps
<1> QED  BY <1>1, <1>2, <1>3, <1>4, <1>5 DEF WalletInv

LEMMA MineGood == ASSUME WalletInv, Wallet!Mine PROVE WalletInv'
<1>1. NodeInv' /\ SpentStays
  BY MineNode DEF WalletInv
<1>2. UNCHANGED <<locked_utxos, total_locked_balance, available_utxos, walletPc, carried>>
  BY DEF Wallet!Mine, Wallet!bookVars, Wallet!coinVars
<1>3. BooksInv'
  BY <1>1, <1>2, BooksStay DEF WalletInv
<1> QED  BY <1>1, <1>2, <1>3 DEF WalletInv, Coined

LEMMA TickGood == ASSUME WalletInv, Wallet!Tick PROVE WalletInv'
<1>1. UNCHANGED <<funds, mempool, spentBy, made, locked_utxos, total_locked_balance,
                  available_utxos, walletPc, carried>>
  BY DEF Wallet!Tick, Wallet!nodeVars, Wallet!bookVars, Wallet!coinVars
<1>2. Coined(available_utxos') /\ walletPc' \in Steps
      /\ (walletPc'.at \in {"retry", "again"} => carried = 0)
  BY <1>1 DEF WalletInv, Coined
<1> QED  BY <1>1, <1>2, QuietGood

LEMMA UnlockGood == ASSUME WalletInv, Wallet!Unlock PROVE WalletInv'
<1> PICK ready : ready = {c \in DOMAIN locked_utxos : Wallet!can_unlock_bond(c)}
  OBVIOUS
<1>1. ready \in SUBSET DOMAIN locked_utxos
  OBVIOUS
<1>2. Wallet!Release(ready)
      /\ UNCHANGED <<funds, mempool, spentBy, made, available_utxos, walletPc, carried>>
  BY DEF Wallet!Unlock, Wallet!nodeVars, Wallet!coinVars
<1> QED  BY <1>1, <1>2, ReleaseGood

LEMMA ForfeitGood == ASSUME WalletInv, NEW c, Wallet!Forfeit(c) PROVE WalletInv'
<1> PICK cs : cs = {c}
  OBVIOUS
<1>1. cs \in SUBSET DOMAIN locked_utxos /\ Wallet!Release(cs)
      /\ UNCHANGED <<funds, mempool, spentBy, made, available_utxos, walletPc, carried>>
  BY DEF Wallet!Forfeit, Wallet!nodeVars, Wallet!coinVars
<1> QED  BY <1>1, ReleaseGood

LEMMA WalletStep == ASSUME WalletInv, Wallet!Next PROVE WalletInv'
<1>1. Bonds \ {0} \subseteq Nat
  BY BoardAssumption
<1>2. CASE Wallet!Mine \/ Wallet!Tick \/ Wallet!Refresh
  BY <1>2, MineGood, TickGood, RefreshGood
<1>3. CASE \E c \in Comments, b \in Bonds \ {0}, d \in Durations :
              Wallet!LockUtxo(c, b, d) \/ \E p \in Policies : Wallet!CreateScriptBond(c, b, d, p)
  BY <1>1, <1>3, LockUtxoGood, CreateGood
<1>4. CASE \E c \in DOMAIN locked_utxos :
              Wallet!Forfeit(c) \/ \E p \in Policies : Wallet!Upgrade(c, p)
  BY <1>4, ForfeitGood, UpgradeGood
<1>5. CASE Wallet!Unlock \/ Wallet!ScanPending
  BY <1>5, UnlockGood, ScanGood
<1>6. CASE \E b \in Bonds \ {0}, script \in BOOLEAN : Wallet!Comment(b, script)
  BY <1>1, <1>6, BondedCommentGood
<1>7. CASE Wallet!RetryRefresh \/ Wallet!CommentAgain
  BY <1>7, RetryRefreshGood, CommentAgainGood
<1>8. CASE Wallet!EnsureEnds \/ Wallet!Split \/ Wallet!Settle
  BY <1>8, EnsureEndsGood, SplitGood, SettleGood
<1> QED
  BY <1>2, <1>3, <1>4, <1>5, <1>6, <1>7, <1>8 DEF Wallet!Next

(* The node and the wallet agree on what spent what, the books hold only   *)
(* bonds the node took, and a comment that waits for its second attempt    *)
(* was not taken at the first (utxo_manager.rs).                           *)
THEOREM WalletInvariant == BoardSpec => []WalletInv
<1>1. BoardInit => WalletInv
  BY WalletInit DEF BoardInit
<1>2. WalletInv /\ [BoardNext]_boardVars => WalletInv'
  <2> SUFFICES ASSUME WalletInv, [BoardNext]_boardVars PROVE WalletInv'
    OBVIOUS
  <2>1. CASE Wallet!Next
    BY <2>1, WalletStep
  <2>2. CASE UNCHANGED walletVars
    <3>1. UNCHANGED <<funds, mempool, spentBy, made, locked_utxos, total_locked_balance,
                      available_utxos, walletPc, carried>>
      BY <2>2 DEF walletVars
    <3>2. Coined(available_utxos') /\ walletPc' \in Steps
          /\ (walletPc'.at \in {"retry", "again"} => carried = 0)
      BY <3>1 DEF WalletInv, Coined
    <3> QED  BY <3>1, <3>2, QuietGood
  <2> QED  BY <2>1, <2>2 DEF BoardNext, boardVars
<1> QED  BY <1>1, <1>2, PTL DEF BoardSpec

(* Every bond in the table rests on an output that its own transaction     *)
(* spent, and the locked total covers them all: lock_utxo_for_comment,     *)
(* create_script_based_bond, upgrade_bond_to_script_based and the release. *)
THEOREM BondsAreBacked == BoardSpec => []BondsBacked
<1>1. WalletInv => BondsBacked
  BY DEF WalletInv, BooksInv, Backed, BondsBacked, Wallet!BondsBacked
<1> QED  BY <1>1, WalletInvariant, PTL

(* A call of submit_comment_with_bond_payload, which may be tried twice,   *)
(* brings its comment to the chain at most once.                           *)
THEOREM CommentIsOnce == BoardSpec => []CommentOnce
<1>1. WalletInv => CommentOnce
  BY DEF WalletInv, CommentOnce, Wallet!CommentOnce
<1> QED  BY <1>1, WalletInvariant, PTL

-----------------------------------------------------------------------------
(* Sequences of keys in one *)

Flattening(s) ==
  CHOOSE f : f = [i \in 1 .. Len(s) |-> IF i = 1 THEN s[i] ELSE f[i - 1] \o s[i]]

LEMMA FlatteningSteps ==
  ASSUME NEW T, NEW s \in Seq(T)
  PROVE  \A i \in 1 .. Len(s) :
            Flattening(s)[i] = IF i = 1 THEN s[i] ELSE Flattening(s)[i - 1] \o s[i]
<1> PICK L : L = Len(s)
  OBVIOUS
<1> DEFINE NextFlat(f, i) == IF i = 1 THEN s[i] ELSE f[i - 1] \o s[i]
           UpTo(f, n) == \A i \in 1 .. L : i <= n => f[i] = NextFlat(f, i)
           A == {n \in Nat : \E f : f = [i \in 1 .. L |-> f[i]] /\ UpTo(f, n)}
<1>1. L \in Nat
  OBVIOUS
<1>2. 0 \in A
  <2> PICK f : f = [i \in 1 .. L |-> 0]
    OBVIOUS
  <2>1. f = [i \in 1 .. L |-> f[i]]
    OBVIOUS
  <2>2. UpTo(f, 0)
    <3>1. \A i \in 1 .. L : ~ (i <= 0)
      BY <1>1
    <3> HIDE DEF NextFlat
    <3> QED  BY <3>1
  <2> HIDE DEF UpTo
  <2> QED  BY <2>1, <2>2
<1>3. ASSUME NEW n \in Nat, n \in A PROVE n + 1 \in A
  <2>1. PICK f : f = [i \in 1 .. L |-> f[i]] /\ UpTo(f, n)
    BY <1>3
  <2> PICK x : x = NextFlat(f, n + 1)
    OBVIOUS
  <2> PICK g : g = [i \in 1 .. L |-> IF i = n + 1 THEN x ELSE f[i]]
    OBVIOUS
  <2>2. \A i \in 1 .. L : i # n + 1 => g[i] = f[i]
    OBVIOUS
  <2>3. ASSUME NEW i \in 1 .. L, i <= n + 1 PROVE g[i] = NextFlat(g, i)
    <3>1. i # 1 => i - 1 \in 1 .. L /\ i - 1 # n + 1 /\ g[i - 1] = f[i - 1]
      BY <1>1, <2>2, <2>3
    <3>2. NextFlat(g, i) = NextFlat(f, i)
      BY <3>1
    <3>3. CASE i = n + 1
      BY <3>2, <3>3
    <3>4. CASE i # n + 1
      <4>1. i <= n /\ g[i] = f[i]
        BY <1>1, <2>2, <2>3, <3>4
      <4>2. f[i] = NextFlat(f, i)
        BY <2>1, <4>1
      <4> QED  BY <3>2, <4>1, <4>2
    <3> QED  BY <3>3, <3>4
  <2>4. g = [i \in 1 .. L |-> g[i]]
    OBVIOUS
  <2>5. UpTo(g, n + 1)
    BY <2>3
  <2> HIDE DEF NextFlat, UpTo
  <2> QED  BY <2>4, <2>5
<1>4. L \in A
  <2> HIDE DEF A
  <2> QED  BY <1>1, <1>2, <1>3, SetInduction
<1>5. PICK f : f = [i \in 1 .. L |-> f[i]] /\ UpTo(f, L)
  BY <1>4
<1>6. \A i \in 1 .. L : f[i] = NextFlat(f, i)
  <2>1. \A i \in 1 .. L : i <= L
    BY <1>1
  <2> HIDE DEF NextFlat
  <2> QED  BY <1>5, <2>1
<1>7. f = [i \in 1 .. L |-> NextFlat(f, i)]
  <2> HIDE DEF NextFlat
  <2> QED  BY <1>5, <1>6
<1> PICK F : F = Flattening(s)
  OBVIOUS
<1>8. F = [i \in 1 .. Len(s) |-> IF i = 1 THEN s[i] ELSE F[i - 1] \o s[i]]
  <2>1. f = [i \in 1 .. Len(s) |-> IF i = 1 THEN s[i] ELSE f[i - 1] \o s[i]]
    BY <1>7
  <2> QED  BY ONLY <2>1, F = Flattening(s), Zenon DEF Flattening
<1>9. \A i \in 1 .. Len(s) : F[i] = IF i = 1 THEN s[i] ELSE F[i - 1] \o s[i]
  BY ONLY <1>8, Zenon
<1> QED  BY <1>9

LEMMA FlattenedWidth ==
  ASSUME NEW s \in Seq([1 .. KeyWidth -> Bytes])
  PROVE  Script!FlattenSeq(s) \in Seq(Nat) /\ Len(Script!FlattenSeq(s)) = Len(s) * KeyWidth
<1>1. Bytes \subseteq Nat /\ KeyWidth \in Nat
  BY BoardAssumption
<1> PICK L : L = Len(s)
  OBVIOUS
<1>2. L \in Nat /\ \A i \in 1 .. L : s[i] \in [1 .. KeyWidth -> Bytes]
  OBVIOUS
<1>3. \A i \in 1 .. L : s[i] \in Seq(Nat) /\ Len(s[i]) = KeyWidth
  <2>1. ASSUME NEW k \in [1 .. KeyWidth -> Bytes] PROVE k \in Seq(Nat) /\ Len(k) = KeyWidth
    <3>1. k \in [1 .. KeyWidth -> Nat]
      BY <1>1
    <3> QED  BY <1>1, <3>1
  <2> QED  BY <1>2, <2>1
<1>4. CASE L = 0
  <2>1. s = <<>>
    BY <1>4, EmptySeq
  <2>2. Script!FlattenSeq(s) = s
    BY <1>4 DEF Script!FlattenSeq
  <2>3. <<>> \in Seq(Nat) /\ Len(s) * KeyWidth = 0 /\ Len(s) = 0
    BY <1>1, <1>4
  <2> QED  BY <2>1, <2>2, <2>3
<1>5. CASE L # 0
  <2> PICK F : F = Flattening(s)
    OBVIOUS
  <2>1. \A i \in 1 .. L : F[i] = IF i = 1 THEN s[i] ELSE F[i - 1] \o s[i]
    BY FlatteningSteps
  <2> DEFINE B == {n \in Nat : 1 <= n /\ n <= L => F[n] \in Seq(Nat) /\ Len(F[n]) = n * KeyWidth}
  <2>2. 0 \in B
    OBVIOUS
  <2>3. ASSUME NEW n \in Nat, n \in B PROVE n + 1 \in B
    <3>1. CASE n + 1 > L
      BY <1>2, <3>1
    <3>2. CASE n = 0
      BY <1>1, <1>2, <1>3, <2>1, <3>2
    <3>3. CASE n >= 1 /\ n + 1 <= L
      <4>1. F[n] \in Seq(Nat) /\ Len(F[n]) = n * KeyWidth
        BY <1>2, <2>3, <3>3
      <4>2. n + 1 \in 1 .. L /\ F[n + 1] = F[n] \o s[n + 1]
        <5> PICK i : i = n + 1
          OBVIOUS
        <5>1. i \in 1 .. L /\ i # 1 /\ i - 1 = n
          BY <1>2, <3>3
        <5>2. F[i] = F[i - 1] \o s[i]
          BY <2>1, <5>1
        <5> QED  BY <5>1, <5>2
      <4> PICK a : a = F[n]
        OBVIOUS
      <4> PICK b : b = s[n + 1]
        OBVIOUS
      <4>3. a \in Seq(Nat) /\ b \in Seq(Nat) /\ Len(b) = KeyWidth
        BY <1>3, <4>1, <4>2
      <4>4. a \o b \in Seq(Nat) /\ Len(a \o b) = Len(a) + Len(b)
        BY <4>3, ConcatProperties
      <4>5. (n + 1) * KeyWidth = n * KeyWidth + KeyWidth
        BY <1>1
      <4>6. F[n + 1] \in Seq(Nat) /\ Len(F[n + 1]) = n * KeyWidth + KeyWidth
        BY <4>1, <4>2, <4>3, <4>4
      <4> QED  BY <4>5, <4>6
    <3> QED  BY <1>2, <3>1, <3>2, <3>3
  <2>4. L \in B
    <3> HIDE DEF B
    <3> QED  BY <1>2, <2>2, <2>3, SetInduction
  <2>5. F[L] \in Seq(Nat) /\ Len(F[L]) = L * KeyWidth
    BY <1>2, <1>5, <2>4
  <2>6. Script!FlattenSeq(s) = F[L]
    BY <1>5, ZenonT(40) DEF Script!FlattenSeq, Flattening
  <2> QED  BY <2>5, <2>6
<1> QED  BY <1>4, <1>5

-----------------------------------------------------------------------------
(* Descriptors of bonds *)

ScriptInv ==
    part = "script" => descriptor \in Script!Descriptors /\ moderators \in Moderators

Given(ms) == IF ms = Nothing THEN 0 ELSE Len(ms)

Fitting(count, ms) == IF count <= Given(ms) THEN count ELSE Given(ms)

LEMMA MinOfTwo ==
  ASSUME NEW a \in Nat, NEW b \in Nat
  PROVE  Script!Min({a, b}) = IF a <= b THEN a ELSE b
<1> PICK m : m = IF a <= b THEN a ELSE b
  OBVIOUS
<1>1. m \in {a, b} /\ \A y \in {a, b} : m <= y
  OBVIOUS
<1>2. \A x \in {a, b} : (\A y \in {a, b} : x <= y) => x = m
  OBVIOUS
<1> QED  BY <1>1, <1>2 DEF Script!Min

(* As many keys as fit *)
LEMMA KeysWidth ==
  ASSUME NEW count \in Nat, NEW ms \in Moderators
  PROVE  /\ Given(ms) \in Nat
         /\ Script!ModeratorKeys(count, ms) \in Seq(Nat)
         /\ Len(Script!ModeratorKeys(count, ms)) = Fitting(count, ms) * KeyWidth
<1>1. KeyWidth \in Nat
  BY BoardAssumption
<1>2. CASE ms = Nothing
  <2>1. Given(ms) = 0 /\ Fitting(count, ms) = 0
    BY <1>2 DEF Given, Fitting
  <2>2. Script!ModeratorKeys(count, ms) = <<>>
    BY <1>2 DEF Script!ModeratorKeys
  <2> PICK n : n = Fitting(count, ms)
    OBVIOUS
  <2>3. n * KeyWidth = 0
    BY <1>1, <2>1
  <2> QED  BY <2>1, <2>2, <2>3
<1>3. CASE ms # Nothing
  <2>1. ms \in Seq([1 .. KeyWidth -> Bytes])
    BY <1>3, BoardAssumption
  <2>2. Given(ms) = Len(ms) /\ Len(ms) \in Nat
    BY <1>3, <2>1 DEF Given
  <2> PICK n : n = Fitting(count, ms)
    OBVIOUS
  <2>3. n \in Nat /\ n <= Len(ms) /\ Script!Min({count, Len(ms)}) = n
    BY <2>2, MinOfTwo DEF Fitting
  <2> PICK s : s = SubSeq(ms, 1, n)
    OBVIOUS
  <2>4. s \in Seq([1 .. KeyWidth -> Bytes]) /\ Len(s) = n
    BY <2>1, <2>2, <2>3, SubSeqProperties
  <2>5. Script!ModeratorKeys(count, ms) = Script!FlattenSeq(s)
    BY <1>3, <2>3 DEF Script!ModeratorKeys
  <2> QED  BY <2>2, <2>4, <2>5, FlattenedWidth
<1> QED  BY <1>2, <1>3

(* The user's key follows exactly if as many keys were given as counted *)
LEMMA UserFollows ==
  ASSUME NEW count \in Nat, NEW given \in Nat, NEW m, m = IF count <= given THEN count ELSE given
  PROVE  m * KeyWidth + KeyWidth >= (count + 1) * KeyWidth <=> given >= count
<1> PICK K : K = KeyWidth
  OBVIOUS
<1>1. K \in Nat /\ K >= 1
  BY BoardAssumption
<1>2. m \in Nat
  OBVIOUS
<1>3. m * K + K = (m + 1) * K
  BY <1>1, <1>2
<1>4. CASE given >= count
  <2>1. m = count
    BY <1>4
  <2> QED  BY <1>1, <1>3, <1>4, <2>1
<1>5. CASE given < count
  <2>1. PICK x \in Nat : count = m + 1 + x
    <3>1. count - m - 1 \in Nat /\ count = m + 1 + (count - m - 1)
      BY <1>5
    <3> QED  BY <3>1
  <2>2. (count + 1) * K = (m + 1) * K + (x + 1) * K
    BY <1>1, <1>2, <2>1
  <2>3. (x + 1) * K = x * K + K /\ x * K >= 0
    BY <1>1
  <2>4. (m + 1) * K \in Int /\ x * K \in Int
    BY <1>1, <1>2
  <2>5. ~ (m * K + K >= (count + 1) * K)
    BY <1>1, <1>3, <2>2, <2>3, <2>4
  <2> QED  BY <1>5, <2>5
<1> QED  BY <1>4, <1>5

LEMMA UserKey == User \in Seq(Nat) /\ Len(User) = KeyWidth
<1>1. User \in [1 .. KeyWidth -> Nat] /\ KeyWidth \in Nat
  BY BoardAssumption
<1> QED  BY <1>1

LEMMA TimeBytes ==
  ASSUME NEW t \in Script!LockTimes PROVE t \in Seq(Nat) /\ Len(t) = TimeWidth
<1>1. t \in [1 .. TimeWidth -> Nat] /\ TimeWidth \in Nat
  BY BoardAssumption DEF Script!LockTimes
<1> QED  BY <1>1

(* What a tag, a time, the fields and the keys are in the bytes *)
Laid(z, a, b, c, d) ==
    /\ z \in Seq(Nat) /\ Len(z) = Len(a) + Len(b) + Len(c) + Len(d)
    /\ \A i \in 1 .. Len(a) : z[i] = a[i]
    /\ \A i \in 1 .. Len(b) : z[Len(a) + i] = b[i]
    /\ \A i \in 1 .. Len(c) : z[Len(a) + Len(b) + i] = c[i]

LEMMA Layout ==
  ASSUME NEW a \in Seq(Nat), NEW b \in Seq(Nat), NEW c \in Seq(Nat), NEW d \in Seq(Nat),
         NEW z, z = a \o b \o c \o d
  PROVE  Laid(z, a, b, c, d)
<1> PICK x : x = a \o b
  OBVIOUS
<1> PICK y : y = x \o c
  OBVIOUS
<1>0. z = y \o d
  OBVIOUS
<1>1. /\ x \in Seq(Nat) /\ Len(x) = Len(a) + Len(b)
      /\ \A i \in 1 .. Len(a) : x[i] = a[i]
      /\ \A i \in 1 .. Len(b) : x[Len(a) + i] = b[i]
  OBVIOUS
<1>2. /\ y \in Seq(Nat) /\ Len(y) = Len(x) + Len(c)
      /\ \A i \in 1 .. Len(x) : y[i] = x[i]
      /\ \A i \in 1 .. Len(c) : y[Len(x) + i] = c[i]
  BY <1>1
<1>3. /\ z \in Seq(Nat) /\ Len(z) = Len(y) + Len(d)
      /\ \A i \in 1 .. Len(y) : z[i] = y[i]
  BY <1>0, <1>2
<1>4. Len(a) \in Nat /\ Len(b) \in Nat /\ Len(c) \in Nat /\ Len(d) \in Nat
  OBVIOUS
<1>5. Len(z) = Len(a) + Len(b) + Len(c) + Len(d)
  BY <1>1, <1>2, <1>3, <1>4
<1>6. \A i \in 1 .. Len(a) : z[i] = a[i]
  BY <1>1, <1>2, <1>3, <1>4
<1>7. \A i \in 1 .. Len(b) : z[Len(a) + i] = b[i]
  <2>1. ASSUME NEW i \in 1 .. Len(b) PROVE z[Len(a) + i] = b[i]
    <3>1. Len(a) + i \in 1 .. Len(x) /\ Len(a) + i \in 1 .. Len(y)
      BY <1>1, <1>2, <1>4
    <3> QED  BY <1>1, <1>2, <1>3, <3>1
  <2> QED  BY <2>1
<1>8. \A i \in 1 .. Len(c) : z[Len(a) + Len(b) + i] = c[i]
  <2>1. ASSUME NEW i \in 1 .. Len(c) PROVE z[Len(a) + Len(b) + i] = c[i]
    <3> PICK j : j = Len(a) + Len(b) + i
      OBVIOUS
    <3>1. j = Len(x) + i /\ j \in 1 .. Len(y)
      BY <1>1, <1>2, <1>4
    <3> QED  BY <1>2, <1>3, <3>1
  <2> QED  BY <2>1
<1> QED  BY <1>3, <1>5, <1>6, <1>7, <1>8 DEF Laid

(* The time is found where it was put *)
LEMMA TimeBack ==
  ASSUME NEW t \in Script!LockTimes, NEW bytes \in Seq(Nat), Len(bytes) >= 1 + TimeWidth,
         \A i \in 1 .. TimeWidth : bytes[1 + i] = t[i]
  PROVE  SubSeq(bytes, 2, 1 + TimeWidth) = t
<1>1. t \in [1 .. TimeWidth -> Bytes] /\ TimeWidth \in Nat
  BY BoardAssumption DEF Script!LockTimes
<1> PICK n : n = 1 + TimeWidth
  OBVIOUS
<1> PICK s : s = SubSeq(bytes, 2, n)
  OBVIOUS
<1>2. s = [i \in 1 .. (n - 2 + 1) |-> bytes[i + 2 - 1]]
  BY <1>1
<1>3. n - 2 + 1 = TimeWidth
  BY <1>1
<1>4. s = [i \in 1 .. TimeWidth |-> bytes[i + 2 - 1]]
  BY <1>2, <1>3
<1>5. ASSUME NEW i \in 1 .. TimeWidth PROVE s[i] = t[i]
  <2>1. i + 2 - 1 = 1 + i
    BY <1>1
  <2> QED  BY <1>4, <2>1
<1> QED  BY <1>1, <1>4, <1>5

LEMMA RoundTripP2PK ==
  ASSUME NEW ms \in Moderators, NEW d, d = [kind |-> "P2PK"]
  PROVE  Script!RoundTrip(d, User, ms)
<1> PICK bytes : bytes = Script!encode_bond_descriptor(d, User, ms)
  OBVIOUS
<1>1. bytes = <<1>> \o User
  BY DEF Script!encode_bond_descriptor
<1>2. KeyWidth \in Nat /\ User \in Seq(Nat) /\ Len(User) = KeyWidth
  BY UserKey, BoardAssumption
<1>3. bytes \in Seq(Nat) /\ Len(bytes) = 1 + KeyWidth /\ bytes[1] = 1
  BY <1>1, <1>2
<1>4. Script!Decodes(bytes, 1, 0, 0)
  <2>1. (0 + 1) * KeyWidth = KeyWidth
    BY <1>2
  <2> QED  BY <1>2, <1>3, <2>1 DEF Script!Decodes
<1>5. Len(bytes) >= 1
  BY <1>2, <1>3
<1>6. Script!decode_bond_descriptor(bytes) = d
  BY <1>3, <1>4, <1>5 DEF Script!decode_bond_descriptor
<1>7. Given(ms) >= 0
  BY KeysWidth
<1> QED  BY <1>6, <1>7 DEF Script!RoundTrip, Given

LEMMA RoundTripTimeLock ==
  ASSUME NEW ms \in Moderators, NEW t \in Script!LockTimes,
         NEW d, d = [kind |-> "TimeLock", unlock_time |-> t]
  PROVE  Script!RoundTrip(d, User, ms)
<1> PICK bytes : bytes = Script!encode_bond_descriptor(d, User, ms)
  OBVIOUS
<1>1. bytes = <<2>> \o t \o User
  BY DEF Script!encode_bond_descriptor
<1>2. /\ KeyWidth \in Nat /\ User \in Seq(Nat) /\ Len(User) = KeyWidth
      /\ TimeWidth \in Nat /\ t \in Seq(Nat) /\ Len(t) = TimeWidth
  BY UserKey, TimeBytes, BoardAssumption
<1> PICK e : e = <<>>
  OBVIOUS
<1> PICK a : a = <<2>>
  OBVIOUS
<1>3. a \in Seq(Nat) /\ e \in Seq(Nat) /\ Len(a) = 1 /\ Len(e) = 0 /\ a[1] = 2
  OBVIOUS
<1>4. bytes = a \o t \o User \o e
  BY <1>1, <1>2, <1>3, ConcatEmptySeq, ConcatProperties
<1>5. /\ bytes \in Seq(Nat) /\ Len(bytes) = 1 + TimeWidth + KeyWidth + 0 /\ bytes[1] = 2
      /\ \A i \in 1 .. TimeWidth : bytes[1 + i] = t[i]
  <2>1. /\ bytes \in Seq(Nat) /\ Len(bytes) = Len(a) + Len(t) + Len(User) + Len(e)
        /\ \A i \in 1 .. Len(a) : bytes[i] = a[i]
        /\ \A i \in 1 .. Len(t) : bytes[Len(a) + i] = t[i]
    <3>1. Laid(bytes, a, t, User, e)
      BY ONLY <1>2, <1>3, <1>4, Layout
    <3> QED  BY <3>1 DEF Laid
  <2> QED  BY <1>2, <1>3, <2>1
<1>6. Len(bytes) >= 1 /\ Len(bytes) >= 1 + TimeWidth /\ Len(bytes) = 1 + TimeWidth + KeyWidth
  BY <1>2, <1>5
<1>7. Script!Decodes(bytes, 1, TimeWidth, 0)
  <2>1. (0 + 1) * KeyWidth = KeyWidth
    BY <1>2
  <2> QED  BY <1>2, <1>6, <2>1 DEF Script!Decodes
<1>8. SubSeq(bytes, 2, 1 + TimeWidth) = t
  BY <1>5, <1>6, TimeBack
<1>9. Script!decode_bond_descriptor(bytes) = d
  <2>1. bytes[1] = 2 /\ Len(bytes) >= 1
    BY <1>5, <1>6
  <2>2. Script!decode_bond_descriptor(bytes) =
          [kind |-> "TimeLock", unlock_time |-> SubSeq(bytes, 2, 1 + TimeWidth)]
    BY ONLY <1>7, <2>1, SMTT(30) DEF Script!decode_bond_descriptor
  <2> QED  BY ONLY <1>8, <2>2, d = [kind |-> "TimeLock", unlock_time |-> t]
<1>10. Given(ms) >= 0
  BY KeysWidth
<1> QED  BY <1>9, <1>10 DEF Script!RoundTrip, Given

LEMMA RoundTripMultisig ==
  ASSUME NEW ms \in Moderators, NEW required \in Bytes, NEW count \in Bytes,
         NEW d, d = [kind |-> "ModeratorMultisig", required |-> required, count |-> count]
  PROVE  Script!RoundTrip(d, User, ms)
<1> PICK bytes : bytes = Script!encode_bond_descriptor(d, User, ms)
  OBVIOUS
<1> PICK keys : keys = Script!ModeratorKeys(count, ms)
  OBVIOUS
<1> PICK a : a = <<3, required, count>>
  OBVIOUS
<1> PICK m : m = Fitting(count, ms)
  OBVIOUS
<1>1. bytes = a \o keys \o User
  BY DEF Script!encode_bond_descriptor
<1>2. /\ KeyWidth \in Nat /\ User \in Seq(Nat) /\ Len(User) = KeyWidth
      /\ required \in Nat /\ count \in Nat
  BY UserKey, BoardAssumption
<1>3. /\ keys \in Seq(Nat) /\ Len(keys) = m * KeyWidth /\ Given(ms) \in Nat
      /\ m = IF count <= Given(ms) THEN count ELSE Given(ms)
  BY <1>2, KeysWidth DEF Fitting
<1> PICK e : e = <<>>
  OBVIOUS
<1>4. /\ a \in Seq(Nat) /\ e \in Seq(Nat) /\ Len(a) = 3 /\ Len(e) = 0
      /\ a[1] = 3 /\ a[2] = required /\ a[3] = count
  BY <1>2
<1>5. bytes = a \o keys \o User \o e
  <2> PICK z : z = a \o keys \o User
    OBVIOUS
  <2>1. a \o keys \in Seq(Nat)
    BY <1>3, <1>4, ConcatProperties
  <2>2. z \in Seq(Nat)
    BY <1>2, <2>1, ConcatProperties
  <2>3. z \o e = z
    BY <2>2, ConcatEmptySeq
  <2> QED  BY <1>1, <2>3
<1> PICK w : w = m * KeyWidth
  OBVIOUS
<1>6. /\ Len(bytes) = 3 + w + KeyWidth /\ w \in Nat
      /\ bytes[1] = 3 /\ bytes[2] = required /\ bytes[3] = count
  <2>1. /\ Len(bytes) = Len(a) + Len(keys) + Len(User) + Len(e)
        /\ \A i \in 1 .. Len(a) : bytes[i] = a[i]
    <3>1. Laid(bytes, a, keys, User, e)
      BY ONLY <1>2, <1>3, <1>4, <1>5, Layout
    <3> QED  BY <3>1 DEF Laid
  <2>2. w \in Nat
    BY <1>3
  <2>3. Len(bytes) = 3 + w + KeyWidth
    BY <1>2, <1>3, <1>4, <2>1, <2>2
  <2> QED  BY <1>4, <2>1, <2>2, <2>3
<1>7. Len(bytes) >= 3 /\ Len(bytes) >= 1
  BY <1>2, <1>6
<1>8. Script!Decodes(bytes, 1, 2, count) <=> Given(ms) >= count
  <2> PICK n : n = (count + 1) * KeyWidth
    OBVIOUS
  <2>1. w + KeyWidth >= n <=> Given(ms) >= count
    BY <1>2, <1>3, UserFollows
  <2>2. n \in Int
    BY <1>2
  <2>3. Len(bytes) >= 1 + 2 + n <=> w + KeyWidth >= n
    BY <1>2, <1>6, <2>2
  <2> QED  BY <2>1, <2>3 DEF Script!Decodes
<1>9. Script!decode_bond_descriptor(bytes) = IF Given(ms) >= count THEN d ELSE Nothing
  BY <1>6, <1>7, <1>8 DEF Script!decode_bond_descriptor
<1> QED  BY <1>9 DEF Script!RoundTrip, Given

LEMMA RoundTripEither ==
  ASSUME NEW ms \in Moderators, NEW t \in Script!LockTimes, NEW required \in Bytes,
         NEW count \in Bytes,
         NEW d, d = [kind |-> "TimeOrModerator", unlock_time |-> t, required |-> required,
                     count |-> count]
  PROVE  Script!RoundTrip(d, User, ms)
<1> PICK bytes : bytes = Script!encode_bond_descriptor(d, User, ms)
  OBVIOUS
<1> PICK keys : keys = Script!ModeratorKeys(count, ms)
  OBVIOUS
<1> PICK a : a = <<4>>
  OBVIOUS
<1> PICK c : c = <<required, count>>
  OBVIOUS
<1> PICK m : m = Fitting(count, ms)
  OBVIOUS
<1> PICK head : head = a \o t \o c \o keys
  OBVIOUS
<1>1. bytes = head \o User
  BY DEF Script!encode_bond_descriptor
<1>2. /\ KeyWidth \in Nat /\ User \in Seq(Nat) /\ Len(User) = KeyWidth
      /\ TimeWidth \in Nat /\ t \in Seq(Nat) /\ Len(t) = TimeWidth
      /\ required \in Nat /\ count \in Nat
  BY UserKey, TimeBytes, BoardAssumption
<1>3. /\ keys \in Seq(Nat) /\ Len(keys) = m * KeyWidth /\ Given(ms) \in Nat
      /\ m = IF count <= Given(ms) THEN count ELSE Given(ms)
  BY <1>2, KeysWidth DEF Fitting
<1>4. /\ a \in Seq(Nat) /\ c \in Seq(Nat) /\ Len(a) = 1 /\ Len(c) = 2
      /\ a[1] = 4 /\ c[1] = required /\ c[2] = count
  BY <1>2
<1> PICK w : w = m * KeyWidth
  OBVIOUS
<1>5. w \in Nat
  BY <1>3
<1>6. /\ head \in Seq(Nat) /\ Len(head) = 3 + TimeWidth + w
      /\ head[1] = 4 /\ head[2 + TimeWidth] = required /\ head[3 + TimeWidth] = count
      /\ \A i \in 1 .. TimeWidth : head[1 + i] = t[i]
  <2>1. /\ head \in Seq(Nat) /\ Len(head) = Len(a) + Len(t) + Len(c) + Len(keys)
        /\ \A i \in 1 .. Len(a) : head[i] = a[i]
        /\ \A i \in 1 .. Len(t) : head[Len(a) + i] = t[i]
        /\ \A i \in 1 .. Len(c) : head[Len(a) + Len(t) + i] = c[i]
    <3>1. Laid(head, a, t, c, keys)
      BY ONLY <1>2, <1>3, <1>4, head = a \o t \o c \o keys, Layout
    <3> QED  BY <3>1 DEF Laid
  <2>2. Len(head) = 3 + TimeWidth + w
    BY <1>2, <1>3, <1>4, <1>5, <2>1
  <2>3. head[1] = 4 /\ head[1 + TimeWidth + 1] = required /\ head[1 + TimeWidth + 2] = count
    <3>1. 1 \in 1 .. Len(a) /\ 1 \in 1 .. Len(c) /\ 2 \in 1 .. Len(c)
      BY <1>4
    <3>2. head[1] = a[1] /\ head[Len(a) + Len(t) + 1] = c[1] /\ head[Len(a) + Len(t) + 2] = c[2]
      BY ONLY <2>1, <3>1
    <3> QED  BY ONLY <1>2, <1>4, <3>2
  <2>4. 1 + TimeWidth + 1 = 2 + TimeWidth /\ 1 + TimeWidth + 2 = 3 + TimeWidth
    BY <1>2
  <2> QED  BY <1>2, <1>4, <2>1, <2>2, <2>3, <2>4
<1> PICK n : n = 3 + TimeWidth + w
  OBVIOUS
<1>13. n \in Nat /\ Len(head) = n
  BY <1>2, <1>5, <1>6
<1>7. /\ bytes \in Seq(Nat) /\ Len(bytes) = n + KeyWidth
      /\ \A i \in 1 .. n : bytes[i] = head[i]
  <2>1. /\ bytes \in Seq(Nat) /\ Len(bytes) = Len(head) + Len(User)
        /\ \A i \in 1 .. Len(head) : bytes[i] = head[i]
    <3>1. head \in Seq(Nat) /\ User \in Seq(Nat)
      BY <1>2, <1>6
    <3>2. /\ head \o User \in Seq(Nat) /\ Len(head \o User) = Len(head) + Len(User)
          /\ \A i \in 1 .. Len(head) : (head \o User)[i] = head[i]
      BY ONLY <3>1
    <3> QED  BY ONLY <1>1, <3>2
  <2> QED  BY ONLY <1>2, <1>13, <2>1
<1> PICK l : l = Len(bytes)
  OBVIOUS
<1>14. l = 3 + TimeWidth + w + KeyWidth /\ l \in Nat
  BY ONLY <1>2, <1>5, <1>7, <1>13, n = 3 + TimeWidth + w, l = Len(bytes)
<1>8. /\ bytes[1] = 4 /\ bytes[2 + TimeWidth] = required /\ bytes[3 + TimeWidth] = count
      /\ \A i \in 1 .. TimeWidth : bytes[1 + i] = t[i]
  <2>1. 1 \in 1 .. n /\ 2 + TimeWidth \in 1 .. n /\ 3 + TimeWidth \in 1 .. n
    BY <1>2, <1>5
  <2>2. \A i \in 1 .. TimeWidth : 1 + i \in 1 .. n
    BY <1>2, <1>5
  <2> QED  BY ONLY <1>6, <1>7, <2>1, <2>2
<1>9. Len(bytes) >= 3 + TimeWidth /\ Len(bytes) >= 3 /\ Len(bytes) >= 1 /\ Len(bytes) >= 1 + TimeWidth
  BY ONLY <1>2, <1>5, <1>14, l = Len(bytes)
<1>10. Script!Decodes(bytes, 1, TimeWidth + 2, count) <=> Given(ms) >= count
  <2> PICK k : k = (count + 1) * KeyWidth
    OBVIOUS
  <2>1. w + KeyWidth >= k <=> Given(ms) >= count
    BY <1>2, <1>3, UserFollows
  <2>2. k \in Int
    BY <1>2
  <2>3. l >= 1 + (TimeWidth + 2) + k <=> w + KeyWidth >= k
    BY ONLY <1>2, <1>5, <1>14, <2>2
  <2> QED  BY <2>1, <2>3 DEF Script!Decodes
<1>11. SubSeq(bytes, 2, 1 + TimeWidth) = t
  BY <1>7, <1>8, <1>9, TimeBack
<1>12. Script!decode_bond_descriptor(bytes) = IF Given(ms) >= count THEN d ELSE Nothing
  <2>1. /\ bytes[1] = 4 /\ bytes[2 + TimeWidth] = required /\ bytes[3 + TimeWidth] = count
        /\ Len(bytes) >= 3 + TimeWidth
    BY <1>8, <1>9
  <2>2. Script!decode_bond_descriptor(bytes) =
          IF Given(ms) >= count
          THEN [kind |-> "TimeOrModerator", unlock_time |-> SubSeq(bytes, 2, 1 + TimeWidth),
                required |-> required, count |-> count]
          ELSE Nothing
    BY ONLY <1>10, <2>1, SMTT(30) DEF Script!decode_bond_descriptor
  <2> QED
    BY ONLY <1>11, <2>2, d = [kind |-> "TimeOrModerator", unlock_time |-> t,
                              required |-> required, count |-> count]
<1> QED  BY <1>12 DEF Script!RoundTrip, Given

(* A descriptor comes back from the bytes that encode_bond_descriptor      *)
(* writes if the keys of all its moderators were given, and                *)
(* decode_bond_descriptor takes it for no other if they were not.          *)
THEOREM DescriptorsRoundTrip == BoardSpec => []DescriptorRoundTrip
<1>1. BoardInit => ScriptInv
  BY DEF BoardInit, ScriptInv
<1>2. ScriptInv /\ [BoardNext]_boardVars => ScriptInv'
  BY DEF BoardNext, boardVars, scriptVars, ScriptInv
<1>3. ScriptInv => DescriptorRoundTrip
  <2> SUFFICES ASSUME ScriptInv, part = "script"
               PROVE  Script!RoundTrip(descriptor, User, moderators)
    BY DEF DescriptorRoundTrip
  <2>1. descriptor \in Script!Descriptors /\ moderators \in Moderators
    BY DEF ScriptInv
  <2>2. CASE descriptor \in [kind : {"P2PK"}]
    <3>1. descriptor = [kind |-> "P2PK"]
      BY <2>2
    <3> QED  BY <2>1, <3>1, RoundTripP2PK
  <2>3. CASE descriptor \in [kind : {"TimeLock"}, unlock_time : Script!LockTimes]
    <3>1. PICK t \in Script!LockTimes : descriptor = [kind |-> "TimeLock", unlock_time |-> t]
      BY <2>3
    <3> QED  BY <2>1, <3>1, RoundTripTimeLock
  <2>4. CASE descriptor \in [kind : {"ModeratorMultisig"}, required : Bytes, count : Bytes]
    <3>1. PICK r \in Bytes, c \in Bytes :
             descriptor = [kind |-> "ModeratorMultisig", required |-> r, count |-> c]
      BY <2>4
    <3> QED  BY <2>1, <3>1, RoundTripMultisig
  <2>5. CASE descriptor \in [kind : {"TimeOrModerator"}, unlock_time : Script!LockTimes,
                             required : Bytes, count : Bytes]
    <3>1. PICK t \in Script!LockTimes, r \in Bytes, c \in Bytes :
             descriptor = [kind |-> "TimeOrModerator", unlock_time |-> t, required |-> r,
                           count |-> c]
      BY <2>5
    <3> QED  BY <2>1, <3>1, RoundTripEither
  <2> QED  BY <2>1, <2>2, <2>3, <2>4, <2>5 DEF Script!Descriptors
<1> QED  BY <1>1, <1>2, <1>3, PTL DEF BoardSpec
=============================================================================
