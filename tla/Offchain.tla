------------------------------- MODULE Offchain -------------------------------
(***************************************************************************)
(* The off-chain path into an engine: clients that send TLV messages over  *)
(* UDP and wait for an acknowledgement, the router that puts them in order *)
(* and forwards them to the engine of its process, and that engine.        *)
(*                                                                         *)
(* There are two routers, kas-draw's OffchainRouter, run without --no-ack  *)
(* and --no-close, and kdapp-merchant's UdpRouter and TcpRouter; which one *)
(* runs is chosen once.  A client is one run of a command, so it sends one *)
(* message.  kas-draw's takes its sequence number from a file that all     *)
(* runs share, or is given it.                                             *)
(*                                                                         *)
(* A datagram that was sent once may arrive at any later time, any number  *)
(* of times, or never.                                                     *)
(***************************************************************************)
EXTENDS Integers, SequencesExt

CONSTANTS
    Clients,
    EpisodeIds,
    Seqs,                 \* sequence numbers a caller may give
    Attempts,             \* of one client, 3 in the code
    None,
    MaxCrashes,           \* bound on crashes of the router's process
    MaxChannel            \* bound on messages the engine has yet to take

ASSUME OffchainAssumption ==
    /\ Seqs \subseteq Nat
    /\ Attempts \in Nat \ {0}
    /\ MaxCrashes \in Nat /\ MaxChannel \in Nat \ {0}

VARIABLES
    router,               \* "kas_draw" or "merchant", for good
    client,               \* what each client does and sends
    seq_store,            \* the file: the last number taken for each episode
    net, acks,            \* datagrams to the router and to the clients
    last_seq,             \* the router's map, [seq, ack] or None for an episode
    channel,              \* messages forwarded to the engine
    episodes,             \* None, or what the episode was given, and if closed
    handed,               \* auxiliary: clients whose message was accepted
    raced,                \* auxiliary: two clients have had the file open
    crashes

clientVars == <<client, seq_store, raced>>
routerVars == <<last_seq, handed>>
vars == <<router, clientVars, net, acks, routerVars, channel, episodes, crashes>>

Types == {"New", "Cmd", "Close", "Checkpoint"}

Messages == [from : Clients, type : Types, ep : EpisodeIds, seq : Nat]
SeqStates == [seq : Nat, ack : {"Ack", "AckClose"}]
Episodes == [log : Seq(Messages), closed : BOOLEAN]

ASSUME NoneAssumption ==
    /\ None \notin Nat
    /\ None \notin SeqStates
    /\ None \notin Episodes

Idle == [pc |-> "idle", type |-> None, ep |-> None, seq |-> None,
         auto |-> FALSE, file |-> None, tries |-> 0]

Nothing == [e \in EpisodeIds |-> None]

Init ==
    /\ router \in {"kas_draw", "merchant"}
    /\ client = [c \in Clients |-> Idle]
    /\ seq_store = Nothing
    /\ net = {} /\ acks = {}
    /\ last_seq = Nothing
    /\ channel = <<>>
    /\ episodes = Nothing
    /\ handed = {} /\ raced = FALSE
    /\ crashes = 0

-----------------------------------------------------------------------------
(* A client *)

Goes(c, pc) == client[c].pc = pc /\ UNCHANGED <<router, last_seq, channel, episodes, handed, crashes>>

(* The caller gives the number *)
StartForced(c, type, ep, seq) ==
    /\ Goes(c, "idle")
    /\ client' = [client EXCEPT ![c] =
           [Idle EXCEPT !.pc = "send", !.type = type, !.ep = ep, !.seq = seq]]
    /\ UNCHANGED <<seq_store, raced, net, acks>>

(* auto_seq reads the whole file, and writes it as a whole later *)
StartAuto(c, type, ep) ==
    /\ Goes(c, "idle")
    /\ router = "kas_draw"
    /\ client' = [client EXCEPT ![c] =
           [Idle EXCEPT !.pc = "read", !.type = type, !.ep = ep,
                 !.auto = TRUE, !.file = seq_store]]
    /\ raced' = (raced \/ \E d \in Clients : client[d].pc = "read")
    /\ UNCHANGED <<seq_store, net, acks>>

NextSeq(last, type) ==
    IF last # None THEN last + 1 ELSE IF type = "New" THEN 0 ELSE 1

(* Mutant of WriteSeq for InStep: the file is not written *)
WriteSeq_Forgotten(c) ==
    LET s == client[c] IN
    /\ Goes(c, "read")
    /\ client' = [client EXCEPT ![c] =
           [s EXCEPT !.pc = "send", !.seq = NextSeq(s.file[s.ep], s.type), !.file = None]]
    /\ UNCHANGED <<seq_store, raced, net, acks>>

(* The file is written before the message is sent *)
WriteSeq(c) ==
    LET s == client[c]
        seq == NextSeq(s.file[s.ep], s.type) IN
    /\ Goes(c, "read")
    /\ seq_store' = [s.file EXCEPT ![s.ep] = seq]
    /\ client' = [client EXCEPT ![c] = [s EXCEPT !.pc = "send", !.seq = seq, !.file = None]]
    /\ UNCHANGED <<raced, net, acks>>

Send(c) ==
    LET s == client[c] IN
    /\ Goes(c, "send")
    /\ net' = net \cup {[from |-> c, type |-> s.type, ep |-> s.ep, seq |-> s.seq]}
    /\ client' = [client EXCEPT ![c] = [s EXCEPT !.pc = "wait", !.tries = @ + 1]]
    /\ UNCHANGED <<seq_store, raced, acks>>

AckType(type) == IF type = "Close" THEN "AckClose" ELSE "Ack"

ReceiveAck(c, ack) ==
    LET s == client[c] IN
    /\ Goes(c, "wait")
    /\ ack.to = c
    /\ ack.type = AckType(s.type) /\ ack.ep = s.ep /\ ack.seq = s.seq
    /\ client' = [client EXCEPT ![c].pc = "acked"]
    /\ acks' = {a \in acks : a.to # c}
    /\ UNCHANGED <<seq_store, raced, net>>

Timeout(c) ==
    /\ Goes(c, "wait")
    /\ IF client[c].tries < Attempts
       THEN client' = [client EXCEPT ![c].pc = "send"] /\ UNCHANGED acks
       ELSE /\ client' = [client EXCEPT ![c].pc = "failed"]
            /\ acks' = {a \in acks : a.to # c}
    /\ UNCHANGED <<seq_store, raced, net>>

-----------------------------------------------------------------------------
(* The router: it handles one datagram at a time *)

(* Mutants of InOrder: a gap, a command before New *)

InOrder_Gap(m) ==
    LET last == last_seq[m.ep] IN
    IF m.type = "New" THEN last = None /\ m.seq = 0
    ELSE last # None /\ m.seq > last.seq

InOrder_NoNew(m) ==
    LET last == last_seq[m.ep] IN
    IF m.type = "New" THEN last = None /\ m.seq = 0
    ELSE IF last = None THEN TRUE ELSE m.seq = last.seq + 1

InOrder(m) ==
    LET last == last_seq[m.ep] IN
    IF m.type = "New" THEN last = None /\ m.seq = 0
    ELSE last # None /\ m.seq = last.seq + 1

(* What reaches the client that sent m; one that has ended hears nothing *)
Answer(m, type) ==
    IF client[m.from].pc \in {"acked", "failed"} THEN {}
    ELSE {[to |-> m.from, type |-> type, ep |-> m.ep, seq |-> m.seq]}

(* Checkpoints take a number and are for watchers only *)
Forwarded(m) == IF m.type = "Checkpoint" THEN <<>> ELSE <<m>>

(* kas-draw forgets an episode that is closed *)
Remembered(m) ==
    IF router = "kas_draw" /\ m.type = "Close" THEN None
    ELSE [seq |-> m.seq, ack |-> AckType(m.type)]

AcceptMessage(m) ==
    /\ InOrder(m)
    /\ Len(channel) < MaxChannel
    /\ last_seq' = [last_seq EXCEPT ![m.ep] = Remembered(m)]
    /\ channel' = channel \o Forwarded(m)
    /\ acks' = acks \cup Answer(m, AckType(m.type))
    /\ handed' = handed \cup {m.from}
    /\ UNCHANGED <<router, clientVars, net, episodes, crashes>>

(* Mutant of RepeatAck for AckHonest: kas-draw's answers as well *)
RepeatAck_Any(m) ==
    LET last == last_seq[m.ep] IN
    /\ ~ InOrder(m)
    /\ last # None /\ m.seq = last.seq
    /\ acks' = acks \cup Answer(m, last.ack)
    /\ UNCHANGED <<router, clientVars, net, routerVars, channel, episodes, crashes>>

(* The merchant's router answers a message that has the last number with   *)
(* the acknowledgement it keeps, whoever sent it.  Every other message is  *)
(* dropped, which changes nothing.                                         *)
RepeatAck(m) ==
    LET last == last_seq[m.ep] IN
    /\ router = "merchant"
    /\ ~ InOrder(m)
    /\ last # None /\ m.seq = last.seq
    /\ acks' = acks \cup Answer(m, last.ack)
    /\ UNCHANGED <<router, clientVars, net, routerVars, channel, episodes, crashes>>

Route == \E m \in net : AcceptMessage(m) \/ RepeatAck(m)

Crash ==
    /\ crashes < MaxCrashes
    /\ crashes' = crashes + 1
    /\ last_seq' = Nothing
    /\ channel' = <<>>
    /\ episodes' = Nothing
    /\ UNCHANGED <<router, clientVars, net, acks, handed>>

-----------------------------------------------------------------------------
(* The engine.  The log of an episode holds what it was given while it was *)
(* open; which of the commands it accepts is its own affair.               *)

Open(e) == episodes[e] # None /\ ~ episodes[e].closed

(* The router of kas-draw makes a CloseEpisode of a Close.  The merchant's *)
(* forwards its payload, which is empty, and the engine cannot parse it.   *)
Executes(m) ==
    CASE m.type = "New"   -> episodes[m.ep] = None
      [] m.type = "Cmd"   -> Open(m.ep)
      [] m.type = "Close" -> router = "kas_draw" /\ Open(m.ep)

Result(m) ==
    CASE m.type = "New"   -> [log |-> <<m>>, closed |-> FALSE]
      [] m.type = "Cmd"   -> [episodes[m.ep] EXCEPT !.log = Append(@, m)]
      [] m.type = "Close" -> [log |-> Append(episodes[m.ep].log, m), closed |-> TRUE]

ExecuteMessage ==
    LET m == Head(channel) IN
    /\ channel # <<>>
    /\ episodes' = IF Executes(m) THEN [episodes EXCEPT ![m.ep] = Result(m)] ELSE episodes
    /\ channel' = Tail(channel)
    /\ UNCHANGED <<router, clientVars, net, acks, routerVars, crashes>>

-----------------------------------------------------------------------------
ClientStep(c) ==
    \/ WriteSeq(c) \/ Send(c) \/ Timeout(c)
    \/ \E ack \in acks : ReceiveAck(c, ack)

Next ==
    \/ \E c \in Clients, type \in Types, ep \in EpisodeIds :
          StartAuto(c, type, ep) \/ \E seq \in Seqs : StartForced(c, type, ep, seq)
    \/ \E c \in Clients : ClientStep(c)
    \/ Route \/ Crash \/ ExecuteMessage

(* Nothing is promised that needs fairness: the network may lose all *)
Spec == Init /\ [][Next]_vars

-----------------------------------------------------------------------------

(* In one life of the router's process an episode is given its messages in *)
(* the order of their numbers, each once, and from the New on, in spite of *)
(* retries and of datagrams that arrive again, also after a Close has made *)
(* kas-draw's router forget the episode.  A number it did not get was one  *)
(* of a checkpoint, or of a Close that the merchant's engine cannot parse. *)
TakesNumber(c, e, n) ==
    /\ client[c].ep = e /\ client[c].seq = n
    /\ client[c].type \in {"Checkpoint", "Close"}

StrictOrder ==
    \A e \in EpisodeIds : episodes[e] # None =>
        LET log == episodes[e].log IN
        /\ log[1].type = "New" /\ log[1].seq = 0
        /\ \A i \in 1..Len(log) - 1 :
              /\ log[i].seq < log[i + 1].seq
              /\ \A n \in log[i].seq + 1 .. log[i + 1].seq - 1 :
                    \E c \in handed : TakesNumber(c, e, n)

(* A client of kas-draw that has its acknowledgement was heard; one of the *)
(* merchant knows that a message with its number was.                      *)
AckHonest ==
    \A c \in Clients : client[c].pc = "acked" =>
        \E d \in handed :
            /\ router = "kas_draw" => d = c
            /\ client[d].ep = client[c].ep /\ client[d].seq = client[c].seq

(* The file and the router agree on the next number of every episode, as   *)
(* long as every client took its number from the file and has its          *)
(* acknowledgement, and no two had the file open at once.  A client that   *)
(* gives up, a number that is given, a crash, and a datagram of a closed   *)
(* episode that arrives again may each part them for good.                 *)
Regular(c) ==
    \/ client[c].pc = "idle"
    \/ client[c].pc = "acked" /\ client[c].auto /\ client[c].type # "Close"

InStep ==
    crashes = 0 /\ ~ raced /\ (\A c \in Clients : Regular(c)) =>
        \A e \in EpisodeIds :
            seq_store[e] = IF last_seq[e] = None THEN None ELSE last_seq[e].seq

(* A command that was accepted is not lost between the router and the      *)
(* engine: it waits, or has reached its episode, unless a Close got there  *)
(* first or the process crashed.                                           *)
NothingLost ==
    \A c \in handed : client[c].type = "Cmd" /\ crashes = 0 =>
        \/ \E m \in ToSet(channel) : m.from = c
        \/ \E e \in EpisodeIds :
              /\ client[c].ep = e /\ episodes[e] # None
              /\ episodes[e].closed \/ \E m \in ToSet(episodes[e].log) : m.from = c
=============================================================================
