----------------------------- MODULE SimpleAuth -----------------------------
(***************************************************************************)
(* kaspa-auth's episode: a participant asks for a challenge, returns it    *)
(* signed, and holds a session until it is revoked.                        *)
(*                                                                         *)
(* Challenges and session tokens are hashes of what they are made of; here *)
(* they are what they are made of.  The identifier of the transaction is   *)
(* left out of a challenge, so two that one participant gets in the same   *)
(* second are the same.  Every signature of a command is valid: a command  *)
(* whose signature is not changes nothing.                                 *)
(***************************************************************************)
EXTENDS Integers, Filters

CONSTANTS
    Participants,         \* the keys an episode is created with
    first,                \* the first of them
    Times,                \* seconds since 1970, of blocks and of clocks
    WINDOW_SECS,          \* 300 in the code
    MAX_ATTEMPTS,         \* 5 in the code
    MAX_AGE,              \* of a challenge, 3600 seconds in the code
    None

(* A challenge, a session token, and what a command leaves for its rollback *)
Challenges == [time : Times, by : Participants]
SessionTokens == [time : Times, owner : Participants, challenge : Challenges]
Rollbacks ==
         [name : {"Challenge"}, challenge : Challenges \cup {None}, timestamp : Times]
    \cup [name : {"Authentication", "SessionRevoked"}, status : BOOLEAN,
          token : SessionTokens \cup {None}]

(* Commands that are sent over HTTP are executed at time 0 *)
ASSUME SimpleAuthAssumption ==
    /\ first \in Participants
    /\ Times \subseteq Nat /\ 0 \in Times
    /\ WINDOW_SECS \in Nat /\ MAX_AGE \in Nat
    /\ MAX_ATTEMPTS \in Nat \ {0}
    /\ None \notin Challenges \cup SessionTokens \cup Rollbacks

initialize(time) ==
    [owner |-> first, challenge |-> None, is_authenticated |-> FALSE,
     session_token |-> None, challenge_timestamp |-> time,
     rate_limits |-> [a \in Participants |-> <<>>]]

-----------------------------------------------------------------------------
(* Differences of times stop at 0 *)
Age(now, time) == IF now > time THEN now - time ELSE 0

Recent(attempts, now) == Keep(attempts, {t \in Times : Age(now, t) <= WINDOW_SECS})

IsRateLimited(ep, by, now) == Len(Recent(ep.rate_limits[by], now)) >= MAX_ATTEMPTS

(* Mutant of IncrementRateLimit for RateBound: only the last one is kept *)
IncrementRateLimit_Mutant(ep, by, now) == [ep.rate_limits EXCEPT ![by] = <<now>>]

IncrementRateLimit(ep, by, now) ==
    [ep.rate_limits EXCEPT ![by] = Recent(Append(@, now), now)]

(* The age of a challenge is taken from the clock of the machine, not from *)
(* the block                                                               *)
IsValid(challenge, clock) == Age(clock, challenge.time) <= MAX_AGE

SessionToken(ep) ==
    [time |-> ep.challenge_timestamp, owner |-> ep.owner, challenge |-> ep.challenge]

(* What execute returns an error for; time is the block's *)
Accepts(ep, cmd, by, time, clock) ==
    /\ by \in Participants
    /\ ~ IsRateLimited(ep, by, time)
    /\ cmd.name = "SubmitResponse" =>
          /\ ~ ep.is_authenticated
          /\ ep.challenge = cmd.nonce
          /\ IsValid(cmd.nonce, clock)
    /\ cmd.name = "RevokeSession" =>
          /\ ep.session_token = cmd.token
          /\ ep.is_authenticated

(* Mutant of Executed for SessionSound: the token outlives the session *)
Executed_Mutant(ep, cmd, by, time) ==
    CASE cmd.name = "RequestChallenge" ->
            [ep EXCEPT !.challenge = [time |-> time, by |-> by],
                       !.challenge_timestamp = time,
                       !.owner = by,
                       !.rate_limits = IncrementRateLimit(ep, by, time)]
      [] cmd.name = "SubmitResponse" ->
            [ep EXCEPT !.is_authenticated = TRUE, !.session_token = SessionToken(ep)]
      [] cmd.name = "RevokeSession" ->
            [ep EXCEPT !.is_authenticated = FALSE]

Executed(ep, cmd, by, time) ==
    CASE cmd.name = "RequestChallenge" ->
            [ep EXCEPT !.challenge = [time |-> time, by |-> by],
                       !.challenge_timestamp = time,
                       !.owner = by,
                       !.rate_limits = IncrementRateLimit(ep, by, time)]
      [] cmd.name = "SubmitResponse" ->
            [ep EXCEPT !.is_authenticated = TRUE, !.session_token = SessionToken(ep)]
      [] cmd.name = "RevokeSession" ->
            [ep EXCEPT !.is_authenticated = FALSE, !.session_token = None]

(* The rollback object that execute returns *)
Rollback(ep, cmd) ==
    CASE cmd.name = "RequestChallenge" ->
            [name |-> "Challenge", challenge |-> ep.challenge, timestamp |-> ep.challenge_timestamp]
      [] cmd.name = "SubmitResponse" ->
            [name |-> "Authentication", status |-> ep.is_authenticated, token |-> ep.session_token]
      [] cmd.name = "RevokeSession" ->
            [name |-> "SessionRevoked", status |-> ep.is_authenticated, token |-> ep.session_token]

(* Mutant of RolledBack for RollbackRestores: the time is forgotten *)
RolledBack_Mutant(ep, rollback) ==
    IF rollback.name = "Challenge"
    THEN [ep EXCEPT !.challenge = rollback.challenge]
    ELSE [ep EXCEPT !.is_authenticated = rollback.status, !.session_token = rollback.token]

(* The owner and the rate limits stay as they are *)
RolledBack(ep, rollback) ==
    IF rollback.name = "Challenge"
    THEN [ep EXCEPT !.challenge = rollback.challenge, !.challenge_timestamp = rollback.timestamp]
    ELSE [ep EXCEPT !.is_authenticated = rollback.status, !.session_token = rollback.token]
=============================================================================
