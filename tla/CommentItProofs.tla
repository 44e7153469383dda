-------------------------- MODULE CommentItProofs ---------------------------
(***************************************************************************)
(* The peers of comment-it and the indexer with its page, proved for any   *)
(* requests, connections, rooms, blocks and troubles, and any number of    *)
(* them.                                                                   *)
(***************************************************************************)
EXTENDS Programs, FilterLemmas

-----------------------------------------------------------------------------
(* The WebSocket peer *)

Orders == 1 .. Len(served)
InHand == [of : Nat, tries : Nat]
Answers == [coin : Nat \cup {None}, answer : {None, "submitted", "error"}, broken : BOOLEAN]

SocketType ==
    /\ handling \in [Connections -> InHand \cup {None}]
    /\ \A c \in Connections : handling[c] # None => handling[c].of \in Orders
    /\ served \in Seq(Answers)
    /\ output \in Nat
    /\ mempool \in Orders \cup {None}
    /\ accepted \in Seq(Orders)

(* A command is in one task's hands while it has no answer *)
OneTask ==
    \A c \in Connections : handling[c] # None =>
        /\ served[handling[c].of].answer = None
        /\ \A d \in Connections :
              handling[d] # None /\ handling[d].of = handling[c].of => d = c

(* The blocks spend the outputs in turn, each by the command that chose it *)
OutputsInTurn ==
    /\ output = Len(accepted) + 1
    /\ \A i \in 1 .. Len(accepted) : served[accepted[i]].coin = i
    /\ mempool # None => served[mempool].coin = output
    /\ \A n \in Orders : served[n].coin # None => served[n].coin \in 1 .. output

(* A command that the node has, without its page being told, lost the      *)
(* node's answer.                                                          *)
Got(n) == mempool = n \/ \E i \in 1 .. Len(accepted) : accepted[i] = n

Rival(n) == \E m \in Orders : m # n /\ Got(m) /\ served[m].coin = served[n].coin

AnsweredFor(n) ==
    /\ served[n].answer = "submitted" => Got(n)
    /\ served[n].answer = "error" /\ ~ served[n].broken => ~ Got(n) /\ Rival(n)
    /\ Got(n) => served[n].answer = "submitted" \/ served[n].broken

SocketInv ==
    SocketType /\ OneTask /\ OutputsInTurn /\ \A n \in Orders : AnsweredFor(n)

LEMMA SocketParts ==
  ASSUME SocketInv
  PROVE  /\ Len(served) \in Nat /\ DOMAIN served = Orders /\ served \in Seq(Answers)
         /\ \A n \in Orders : served[n] \in Answers /\ n \in Nat
         /\ \A i \in 1 .. Len(accepted) : accepted[i] \in Orders
         /\ Len(accepted) \in Nat /\ DOMAIN accepted = 1 .. Len(accepted)
         /\ None \notin Nat /\ None \notin Orders /\ None \notin InHand
         /\ None # "submitted" /\ None # "error"
         /\ output \in Nat /\ output = Len(accepted) + 1
         /\ mempool \in Orders \cup {None}
         /\ \A c \in Connections : handling[c] # None =>
               /\ handling[c] \in InHand /\ handling[c].of \in Orders
               /\ served[handling[c].of].answer = None
         /\ \A n \in Orders : /\ Got(n) => served[n].coin # None
                              /\ served[n].coin \in Nat \cup {None}
<1>1. SocketType
  BY DEF SocketInv
<1>2. Len(served) \in Nat /\ DOMAIN served = Orders /\ served \in Seq(Answers)
      /\ Len(accepted) \in Nat /\ DOMAIN accepted = 1 .. Len(accepted) /\ accepted \in Seq(Orders)
  BY <1>1 DEF SocketType, Orders
<1>3. /\ \A n \in Orders : served[n] \in Answers /\ n \in Nat
      /\ \A i \in 1 .. Len(accepted) : accepted[i] \in Orders
  BY <1>2, ElementOfSeq DEF Orders
<1>4. None \notin Nat /\ None \notin Orders /\ None \notin InHand
      /\ None # "submitted" /\ None # "error"
  BY <1>2, SocketAssumption DEF Orders, InHand
<1>5. output \in Nat /\ output = Len(accepted) + 1 /\ mempool \in Orders \cup {None}
  BY <1>1 DEF SocketInv, SocketType, OutputsInTurn
<1>6. \A c \in Connections : handling[c] # None =>
         /\ handling[c] \in InHand /\ handling[c].of \in Orders
         /\ served[handling[c].of].answer = None
  BY <1>1 DEF SocketInv, SocketType, OneTask
<1>7. ASSUME NEW n \in Orders
      PROVE  (Got(n) => served[n].coin # None) /\ served[n].coin \in Nat \cup {None}
  <2>1. served[n].coin \in Nat \cup {None}
    BY <1>3 DEF Answers
  <2>2. Got(n) => served[n].coin \in Nat
    BY <1>4, <1>5 DEF Got, SocketInv, OutputsInTurn
  <2> QED  BY <1>4, <2>1, <2>2
<1> QED  BY <1>2, <1>3, <1>4, <1>5, <1>6, <1>7

(* A task does something about its command *)
LEMMA TaskInv ==
  ASSUME SocketInv, NEW c \in Connections, handling[c] # None,
         NEW n, n = handling[c].of, NEW r \in Answers, NEW x \in InHand \cup {None},
         x # None => x.of = n /\ r.answer = None,
         served' = [served EXCEPT ![n] = r], handling' = [handling EXCEPT ![c] = x],
         UNCHANGED <<output, accepted>>,
         \/ r.coin = served[n].coin
         \/ served[n].coin = None /\ r.coin = output /\ mempool' = mempool,
         \/ mempool' = mempool
         \/ mempool = None /\ mempool' = n /\ r.coin = output,
         AnsweredFor(n)'
  PROVE  SocketInv'
<1>1. /\ Len(served) \in Nat /\ DOMAIN served = Orders /\ served \in Seq(Answers)
      /\ \A m \in Orders : served[m] \in Answers /\ m \in Nat
      /\ n \in Orders /\ served[n].answer = None /\ None \notin Orders
      /\ \A i \in 1 .. Len(accepted) : accepted[i] \in Orders
      /\ mempool \in Orders \cup {None} /\ output \in Nat
      /\ Got(n) => served[n].coin # None
      /\ Len(accepted) \in Nat /\ output = Len(accepted) + 1
  BY SocketParts
<1>2. /\ served' \in Seq(Answers) /\ Len(served') = Len(served) /\ served'[n] = r
      /\ \A m \in Orders : m # n => served'[m] = served[m]
  BY <1>1 DEF Orders
<1>3. Orders' = Orders
  BY <1>2 DEF Orders
<1>4. /\ handling' \in [Connections -> InHand \cup {None}]
      /\ handling'[c] = x /\ \A d \in Connections : d # c => handling'[d] = handling[d]
  BY DEF SocketInv, SocketType
<1>5. \A d \in Connections : d # c /\ handling[d] # None => handling[d].of # n
  BY DEF SocketInv, OneTask
<1>6. SocketType'
  <2>1. \A d \in Connections : handling'[d] # None => handling'[d].of \in Orders
    BY <1>1, <1>4 DEF SocketInv, SocketType
  <2> QED  BY <1>1, <1>2, <1>3, <1>4, <2>1 DEF SocketInv, SocketType
<1>7. OneTask'
  <2> SUFFICES ASSUME NEW d \in Connections, handling'[d] # None
               PROVE  /\ served'[handling'[d].of].answer = None
                      /\ \A e \in Connections :
                            handling'[e] # None /\ handling'[e].of = handling'[d].of => e = d
    BY DEF OneTask
  <2>1. CASE d = c
    BY <1>2, <1>4, <1>5, <2>1
  <2>2. CASE d # c
    <3>1. /\ handling'[d] = handling[d] /\ handling[d].of # n /\ handling[d].of \in Orders
          /\ served[handling[d].of].answer = None
          /\ \A e \in Connections : handling[e] # None /\ handling[e].of = handling[d].of => e = d
      BY <1>4, <1>5, <2>2 DEF SocketInv, OneTask, SocketType
    <3> QED  BY <1>2, <1>4, <1>5, <2>2, <3>1
  <2> QED  BY <2>1, <2>2
<1>8. ASSUME NEW m \in Orders
      PROVE  /\ m # n => (Got(m)' <=> Got(m))
             /\ Got(m) => Got(m)' /\ served'[m].coin = served[m].coin
  <2>1. m # n => (Got(m)' <=> Got(m))
    BY <1>1 DEF Got
  <2>2. Got(m) => Got(m)'
    BY <1>1 DEF Got
  <2>3. Got(m) => served'[m].coin = served[m].coin
    BY <1>1, <1>2
  <2> QED  BY <2>1, <2>2, <2>3
<1>9. OutputsInTurn'
  <2>1. \A i \in 1 .. Len(accepted) : served'[accepted[i]].coin = i
    <3> SUFFICES ASSUME NEW i \in 1 .. Len(accepted) PROVE served'[accepted[i]].coin = i
      OBVIOUS
    <3>1. Got(accepted[i]) /\ accepted[i] \in Orders /\ served[accepted[i]].coin = i
      BY <1>1 DEF Got, SocketInv, OutputsInTurn
    <3> QED  BY <1>8, <3>1
  <2>2. mempool' # None => served'[mempool'].coin = output
    <3>1. CASE mempool' = mempool /\ mempool # None
      <4>1. Got(mempool) /\ mempool \in Orders /\ served[mempool].coin = output
        BY <1>1, <3>1 DEF Got, SocketInv, OutputsInTurn
      <4> QED  BY <1>8, <3>1, <4>1
    <3>2. CASE mempool' = n /\ r.coin = output
      BY <1>2, <3>2
    <3> QED  BY <3>1, <3>2
  <2>3. \A m \in Orders : served'[m].coin # None => served'[m].coin \in 1 .. output
    <3>1. \A m \in Orders : served[m].coin # None => served[m].coin \in 1 .. output
      BY DEF SocketInv, OutputsInTurn
    <3>2. output \in 1 .. output
      BY <1>1
    <3> QED  BY <1>1, <1>2, <3>1, <3>2
  <2> QED  BY <1>1, <1>3, <2>1, <2>2, <2>3 DEF OutputsInTurn
<1>10. ASSUME NEW m \in Orders PROVE AnsweredFor(m)'
  <2>1. CASE m = n
    BY <2>1
  <2>2. CASE m # n
    <3>1. served'[m] = served[m] /\ (Got(m)' <=> Got(m))
      BY <1>2, <1>8, <2>2
    <3>2. Rival(m) => Rival(m)'
      <4> SUFFICES ASSUME NEW k \in Orders, k # m, Got(k), served[k].coin = served[m].coin
                   PROVE  Rival(m)'
        BY DEF Rival
      <4>1. Got(k)' /\ served'[k].coin = served[k].coin
        BY <1>8
      <4>2. k \in Orders' /\ (served[k].coin)' = (served[m].coin)'
        BY <1>3, <3>1, <4>1
      <4> QED  BY <4>1, <4>2 DEF Rival
    <3>3. AnsweredFor(m)
      BY DEF SocketInv
    <3> QED  BY <3>1, <3>2, <3>3 DEF AnsweredFor
  <2> QED  BY <2>1, <2>2
<1> QED  BY <1>3, <1>6, <1>7, <1>9, <1>10 DEF SocketInv

(* A command without an answer that is on its way was broken off *)
LEMMA Unanswered ==
  ASSUME SocketInv, NEW n \in Orders, served[n].answer = None
  PROVE  /\ Got(n) => served[n].broken
         /\ served[n].coin # None => served[n].coin \in 1 .. output
         /\ \A i \in 1 .. Len(accepted) : accepted[i] \in Orders /\ served[accepted[i]].coin = i
         /\ mempool # None => mempool \in Orders /\ served[mempool].coin = output
         /\ served[n].broken \in BOOLEAN
<1>1. None # "submitted" /\ mempool \in Orders \cup {None} /\ served[n] \in Answers
      /\ \A i \in 1 .. Len(accepted) : accepted[i] \in Orders
  BY SocketParts
<1>2. AnsweredFor(n) /\ OutputsInTurn
  BY DEF SocketInv
<1> QED  BY <1>1, <1>2 DEF AnsweredFor, OutputsInTurn, Answers

LEMMA CommandInv ==
  ASSUME SocketInv, NEW c \in Connections, Socket!FrontendCommand(c)
  PROVE  SocketInv'
<1> DEFINE r == [coin |-> None, answer |-> None, broken |-> FALSE]
<1> PICK k : k = Len(served) + 1
  OBVIOUS
<1>1. /\ Len(served) \in Nat /\ DOMAIN served = Orders /\ served \in Seq(Answers)
      /\ \A m \in Orders : served[m] \in Answers /\ m \in Nat
      /\ None \notin Orders /\ None \notin InHand /\ None # "submitted" /\ None # "error"
      /\ \A i \in 1 .. Len(accepted) : accepted[i] \in Orders
      /\ mempool \in Orders \cup {None} /\ output \in Nat /\ None \notin Nat
      /\ Len(accepted) \in Nat /\ output = Len(accepted) + 1
  BY SocketParts
<1>2. r \in Answers
  BY DEF Answers
<1>3. served' = Append(served, r) /\ Len(served') = k /\ handling[c] = None
      /\ handling' = [handling EXCEPT ![c] = [of |-> k, tries |-> 0]]
      /\ UNCHANGED <<output, mempool, accepted>>
  BY <1>1 DEF Socket!FrontendCommand
<1>4. /\ served' \in Seq(Answers) /\ served'[k] = r
      /\ \A m \in Orders : served'[m] = served[m]
  BY <1>1, <1>2, <1>3 DEF Orders
<1>5. Orders' = Orders \cup {k} /\ k \notin Orders /\ k \in Nat
  BY <1>1, <1>3 DEF Orders
<1>6. [of |-> k, tries |-> 0] \in InHand /\ [of |-> k, tries |-> 0] # None
  BY <1>1, <1>5 DEF InHand
<1> HIDE DEF r
<1>7. /\ handling' \in [Connections -> InHand \cup {None}]
      /\ handling'[c] = [of |-> k, tries |-> 0]
      /\ \A d \in Connections : d # c => handling'[d] = handling[d]
  BY <1>3, <1>6 DEF SocketInv, SocketType
<1>8. SocketType'
  <2>1. \A d \in Connections : handling'[d] # None => handling'[d].of \in Orders'
    BY <1>5, <1>7 DEF SocketInv, SocketType
  <2>2. accepted' \in Seq(Orders')
    <3>1. accepted \in Seq(Orders)
      BY DEF SocketInv, SocketType
    <3> QED  BY <1>3, <1>5, <3>1, SeqGrows
  <2> QED  BY <1>1, <1>3, <1>4, <1>5, <1>7, <2>1, <2>2 DEF SocketType
<1>9. OneTask'
  <2>1. r.answer = None
    BY DEF r
  <2>2. \A d \in Connections : handling[d] # None =>
           /\ handling[d].of \in Orders /\ served[handling[d].of].answer = None
           /\ \A e \in Connections : handling[e] # None /\ handling[e].of = handling[d].of => e = d
    BY DEF SocketInv, OneTask, SocketType
  <2> QED  BY <1>3, <1>4, <1>5, <1>6, <1>7, <2>1, <2>2, ZenonT(40) DEF OneTask
<1>10. OutputsInTurn'
  <2>1. r.coin = None
    BY DEF r
  <2>2. OutputsInTurn
    BY DEF SocketInv
  <2> QED  BY <1>1, <1>3, <1>4, <1>5, <2>1, <2>2 DEF OutputsInTurn
<1>11. \A m \in Orders : Got(m)' <=> Got(m)
  BY <1>3 DEF Got
<1>12. ASSUME NEW m \in Orders PROVE AnsweredFor(m)'
  <2>1. Rival(m) => Rival(m)'
    <3> SUFFICES ASSUME NEW j \in Orders, j # m, Got(j), served[j].coin = served[m].coin
                 PROVE  Rival(m)'
      BY DEF Rival
    <3>1. j \in Orders' /\ Got(j)' /\ (served[j].coin)' = (served[m].coin)'
      BY <1>4, <1>5, <1>11
    <3> QED  BY <3>1 DEF Rival
  <2>2. AnsweredFor(m) /\ served'[m] = served[m]
    BY <1>4 DEF SocketInv
  <2> QED  BY <1>11, <2>1, <2>2 DEF AnsweredFor
<1>13. AnsweredFor(k)'
  <2>1. ~ Got(k)'
    BY <1>1, <1>3, <1>5 DEF Got
  <2>2. served'[k].answer = None
    BY <1>4 DEF r
  <2> QED  BY <1>1, <2>1, <2>2 DEF AnsweredFor
<1> QED  BY <1>5, <1>8, <1>9, <1>10, <1>12, <1>13 DEF SocketInv

LEMMA UtxosInv ==
  ASSUME SocketInv, NEW c \in Connections, Socket!GetUtxos(c)
  PROVE  SocketInv'
<1> PICK n : n = handling[c].of
  OBVIOUS
<1> PICK r : r = [served[n] EXCEPT !.coin = output]
  OBVIOUS
<1> PICK x : x = handling[c]
  OBVIOUS
<1>1. /\ handling[c] # None /\ served[n].coin = None /\ served' = [served EXCEPT ![n].coin = output]
      /\ UNCHANGED <<handling, output, mempool, accepted>>
  BY DEF Socket!GetUtxos
<1>2. /\ n \in Orders /\ served[n].answer = None /\ served[n] \in Answers /\ x \in InHand
      /\ DOMAIN served = Orders /\ output \in Nat /\ None # "submitted" /\ None # "error"
      /\ ~ Got(n)
  BY <1>1, SocketParts
<1>3. r \in Answers /\ r.answer = None /\ r.coin = output
  BY <1>2 DEF Answers
<1>4. served' = [served EXCEPT ![n] = r]
  BY <1>1, <1>2
<1>5. handling' = [handling EXCEPT ![c] = x]
  BY <1>1 DEF SocketInv, SocketType
<1>6. served'[n] = r /\ ~ Got(n)'
  BY <1>1, <1>2, <1>4 DEF Got
<1>7. AnsweredFor(n)'
  BY <1>2, <1>3, <1>6 DEF AnsweredFor
<1>8. (x # None => x.of = n /\ r.answer = None) /\ x \in InHand \cup {None}
  BY <1>2, <1>3
<1>9. served[n].coin = None /\ r.coin = output /\ mempool' = mempool
      /\ UNCHANGED <<output, accepted>> /\ handling[c] # None
  BY <1>1, <1>3
<1> QED  BY <1>3, <1>4, <1>5, <1>7, <1>8, <1>9, TaskInv

LEMMA CloseInv ==
  ASSUME SocketInv, NEW c \in Connections, Socket!Close(c)
  PROVE  SocketInv'
<1>1. /\ handling' = [handling EXCEPT ![c] = None]
      /\ UNCHANGED <<served, output, mempool, accepted>>
  BY DEF Socket!Close
<1>2. /\ handling' \in [Connections -> InHand \cup {None}]
      /\ \A d \in Connections : handling'[d] # None => handling'[d] = handling[d]
  BY <1>1 DEF SocketInv, SocketType
<1>3. SocketType'
  BY <1>1, <1>2 DEF SocketInv, SocketType, Orders
<1>4. OneTask'
  BY <1>1, <1>2 DEF SocketInv, OneTask
<1>5. OutputsInTurn' /\ \A n \in Orders' : AnsweredFor(n)'
  BY <1>1 DEF SocketInv, OutputsInTurn, AnsweredFor, Got, Rival, Orders
<1> QED  BY <1>3, <1>4, <1>5 DEF SocketInv

(* What Again makes of a command and of its task *)
TriedAgain(c, n, broken) ==
    \E r \in Answers, x \in InHand \cup {None} :
       /\ served' = [served EXCEPT ![n] = r] /\ handling' = [handling EXCEPT ![c] = x]
       /\ r.coin = served[n].coin /\ r.broken = (served[n].broken \/ broken)
       /\ r.answer \in {None, "error"}
       /\ x # None => x.of = n /\ r.answer = None

LEMMA AgainMakes ==
  ASSUME SocketInv, NEW c \in Connections, handling[c] # None,
         NEW n, n = handling[c].of, NEW broken \in BOOLEAN,
         broken = TRUE => Socket!Again(c, TRUE), broken = FALSE => Socket!Again(c, FALSE)
  PROVE  TriedAgain(c, n, broken)
<1>1. /\ n \in Orders /\ served[n].answer = None /\ served[n] \in Answers /\ handling[c] \in InHand
      /\ DOMAIN served = Orders
  BY SocketParts
<1>2. handling \in [Connections -> InHand \cup {None}]
  BY DEF SocketInv, SocketType
<1>3. CASE handling[c].tries + 1 >= Attempts
  <2>1. PICK r : r = [served[n] EXCEPT !.broken = @ \/ broken, !.answer = "error"]
    OBVIOUS
  <2>2. /\ r \in Answers /\ r.coin = served[n].coin /\ r.answer = "error"
        /\ r.broken = (served[n].broken \/ broken)
    BY <1>1, <2>1 DEF Answers
  <2>3. served' = [served EXCEPT ![n] = r] /\ handling' = [handling EXCEPT ![c] = None]
    BY <1>1, <1>2, <1>3, <2>1 DEF Socket!Again
  <2> QED  BY <2>2, <2>3 DEF TriedAgain
<1>4. CASE ~ (handling[c].tries + 1 >= Attempts)
  <2>1. PICK r : r = [served[n] EXCEPT !.broken = @ \/ broken, !.answer = @]
    OBVIOUS
  <2>2. /\ r \in Answers /\ r.coin = served[n].coin /\ r.answer = None
        /\ r.broken = (served[n].broken \/ broken)
    BY <1>1, <2>1 DEF Answers
  <2>3. PICK x : x = [of |-> n, tries |-> handling[c].tries + 1]
    OBVIOUS
  <2>4. x \in InHand /\ x.of = n
    BY <1>1, <2>3 DEF InHand
  <2>5. handling' = [handling EXCEPT ![c] = x]
    BY <1>4, <2>3 DEF Socket!Again
  <2>6. served' = [served EXCEPT ![n].broken = @ \/ broken, ![n].answer = @]
    BY <1>4 DEF Socket!Again
  <2>7. served' = [served EXCEPT ![n] = r]
    BY <1>1, <2>1, <2>6
  <2> QED  BY <2>2, <2>4, <2>5, <2>7 DEF TriedAgain
<1> QED  BY <1>3, <1>4

LEMMA DisconnectedInv ==
  ASSUME SocketInv, NEW c \in Connections, Socket!Disconnected(c)
  PROVE  SocketInv'
<1> PICK n : n = handling[c].of
  OBVIOUS
<1>1. /\ handling[c] # None /\ Socket!Again(c, TRUE) /\ UNCHANGED <<output, accepted>>
      /\ \/ mempool' = mempool
         \/ mempool = None /\ output = served[n].coin /\ mempool' = n
  BY DEF Socket!Disconnected
<1>2. PICK r \in Answers, x \in InHand \cup {None} :
         /\ served' = [served EXCEPT ![n] = r] /\ handling' = [handling EXCEPT ![c] = x]
         /\ r.coin = served[n].coin /\ r.broken = TRUE
         /\ r.answer \in {None, "error"}
         /\ x # None => x.of = n /\ r.answer = None
  <2>1. PICK b \in BOOLEAN : b = TRUE
    OBVIOUS
  <2>2. (b = TRUE => Socket!Again(c, TRUE)) /\ (b = FALSE => Socket!Again(c, FALSE))
    BY <1>1, <2>1
  <2>3. PICK r \in Answers, x \in InHand \cup {None} :
         /\ served' = [served EXCEPT ![n] = r] /\ handling' = [handling EXCEPT ![c] = x]
         /\ r.coin = served[n].coin /\ r.broken = (served[n].broken \/ b)
         /\ r.answer \in {None, "error"}
         /\ x # None => x.of = n /\ r.answer = None
    <3>1. TriedAgain(c, n, b)
      BY <1>1, <2>2, AgainMakes
    <3> QED  BY <3>1 DEF TriedAgain
  <2> QED  BY <2>1, <2>3
<1>3. n \in Orders /\ DOMAIN served = Orders /\ None # "submitted"
  BY <1>1, SocketParts
<1>4. AnsweredFor(n)'
  <2>1. served'[n] = r
    BY <1>2, <1>3
  <2> QED  BY <1>2, <1>3, <2>1 DEF AnsweredFor
<1>5. \/ mempool' = mempool
      \/ mempool = None /\ mempool' = n /\ r.coin = output
  BY <1>1, <1>2
<1> QED  BY <1>1, <1>2, <1>4, <1>5, TaskInv

LEMMA RetryInv ==
  ASSUME SocketInv, NEW c \in Connections, Socket!submit_tx_retry(c)
  PROVE  SocketInv'
<1> PICK n : n = handling[c].of
  OBVIOUS
<1> PICK spent : spent = served[n].coin
  OBVIOUS
<1>1. handling[c] # None /\ spent # None /\ UNCHANGED <<output, accepted>>
  BY DEF Socket!submit_tx_retry
<1>2. /\ n \in Orders /\ DOMAIN served = Orders /\ served[n].answer = None /\ served[n] \in Answers
      /\ None # "submitted" /\ None # "error" /\ None \notin Orders
      /\ output \in Nat /\ output = Len(accepted) + 1 /\ Len(accepted) \in Nat
  BY <1>1, SocketParts
<1>3. /\ Got(n) => served[n].broken
      /\ spent \in 1 .. output
      /\ \A i \in 1 .. Len(accepted) : accepted[i] \in Orders /\ served[accepted[i]].coin = i
      /\ mempool # None => mempool \in Orders /\ served[mempool].coin = output
  BY <1>1, <1>2, Unanswered
<1>4. n \in Socket!Contents(accepted) <=> \E i \in 1 .. Len(accepted) : accepted[i] = n
  <2>1. DOMAIN accepted = 1 .. Len(accepted)
    BY SocketParts
  <2> QED  BY <2>1 DEF Socket!Contents
<1>5. \A word \in {"submitted", "error"} : Socket!Answer(c, word) =>
         \E r \in Answers : /\ served' = [served EXCEPT ![n] = r]
                            /\ handling' = [handling EXCEPT ![c] = None]
                            /\ r.coin = spent /\ r.broken = served[n].broken /\ r.answer = word
  <2> SUFFICES ASSUME NEW word \in {"submitted", "error"}, Socket!Answer(c, word)
               PROVE  \E r \in Answers : /\ served' = [served EXCEPT ![n] = r]
                            /\ handling' = [handling EXCEPT ![c] = None]
                            /\ r.coin = spent /\ r.broken = served[n].broken /\ r.answer = word
    OBVIOUS
  <2> PICK r : r = [served[n] EXCEPT !.answer = word]
    OBVIOUS
  <2>1. r \in Answers /\ r.coin = spent /\ r.broken = served[n].broken /\ r.answer = word
    BY <1>2 DEF Answers
  <2>2. served' = [served EXCEPT ![n] = r] /\ handling' = [handling EXCEPT ![c] = None]
    BY <1>2 DEF Socket!Answer
  <2> QED  BY <2>1, <2>2
<1>6. CASE spent = output /\ mempool = None /\ mempool' = n /\ Socket!Answer(c, "submitted")
  <2>1. PICK r \in Answers : /\ served' = [served EXCEPT ![n] = r]
                            /\ handling' = [handling EXCEPT ![c] = None]
                            /\ r.coin = spent /\ r.answer = "submitted"
    BY <1>5, <1>6
  <2>2. served'[n] = r /\ Got(n)'
    BY <1>2, <1>6, <2>1 DEF Got
  <2>3. AnsweredFor(n)'
    BY <2>1, <2>2 DEF AnsweredFor
  <2> QED  BY <1>1, <1>6, <2>1, <2>3, TaskInv
<1>7. CASE spent = output /\ mempool # None /\ UNCHANGED mempool /\ Socket!Answer(c, "error")
  <2>1. PICK r \in Answers : /\ served' = [served EXCEPT ![n] = r]
                            /\ handling' = [handling EXCEPT ![c] = None]
                            /\ r.coin = spent /\ r.broken = served[n].broken /\ r.answer = "error"
    BY <1>5, <1>7
  <2>2. served'[n] = r /\ Got(n)' = Got(n) /\ Len(served') = Len(served)
    BY <1>1, <1>2, <1>7, <2>1 DEF Got, SocketInv, SocketType
  <2>3. ~ served[n].broken => Rival(n)'
    <3> SUFFICES ASSUME ~ served[n].broken PROVE Rival(n)'
      OBVIOUS
    <3>1. mempool # n /\ mempool \in Orders /\ served[mempool].coin = output
      BY <1>3, <1>7 DEF Got
    <3>2. PICK m \in Orders : m = mempool
      BY <3>1
    <3>3. m \in Orders' /\ m # n /\ Got(m)' /\ served'[m] = served[m]
      BY <1>2, <1>7, <2>1, <2>2, <3>1, <3>2 DEF Orders, Got
    <3>4. (served[m].coin)' = (served[n].coin)'
      BY <1>7, <2>1, <2>2, <3>1, <3>2, <3>3
    <3> QED  BY <3>3, <3>4 DEF Rival
  <2>4. AnsweredFor(n)'
    BY <1>2, <1>3, <2>1, <2>2, <2>3 DEF AnsweredFor
  <2> QED  BY <1>1, <1>7, <2>1, <2>4, TaskInv
<1>8. CASE spent # output /\ n \in Socket!Contents(accepted) /\ UNCHANGED mempool
           /\ Socket!Answer(c, "submitted")
  <2>1. PICK r \in Answers : /\ served' = [served EXCEPT ![n] = r]
                            /\ handling' = [handling EXCEPT ![c] = None]
                            /\ r.coin = spent /\ r.answer = "submitted"
    BY <1>5, <1>8
  <2>2. served'[n] = r /\ Got(n)'
    BY <1>1, <1>2, <1>4, <1>8, <2>1 DEF Got
  <2>3. AnsweredFor(n)'
    BY <2>1, <2>2 DEF AnsweredFor
  <2> QED  BY <1>1, <1>8, <2>1, <2>3, TaskInv
<1>9. CASE spent # output /\ n \notin Socket!Contents(accepted) /\ UNCHANGED mempool
           /\ Socket!Again(c, FALSE)
  <2>1. PICK r \in Answers, x \in InHand \cup {None} :
           /\ served' = [served EXCEPT ![n] = r] /\ handling' = [handling EXCEPT ![c] = x]
           /\ r.coin = spent /\ r.broken = served[n].broken
           /\ r.answer \in {None, "error"}
           /\ x # None => x.of = n /\ r.answer = None
    <3>1. PICK b \in BOOLEAN : b = FALSE
      OBVIOUS
    <3>2. (b = TRUE => Socket!Again(c, TRUE)) /\ (b = FALSE => Socket!Again(c, FALSE))
      BY <1>9, <3>1
    <3>3. PICK r \in Answers, x \in InHand \cup {None} :
           /\ served' = [served EXCEPT ![n] = r] /\ handling' = [handling EXCEPT ![c] = x]
           /\ r.coin = served[n].coin /\ r.broken = (served[n].broken \/ b)
           /\ r.answer \in {None, "error"}
           /\ x # None => x.of = n /\ r.answer = None
      <4>1. TriedAgain(c, n, b)
        BY <1>1, <3>2, AgainMakes
      <4> QED  BY <1>1, <4>1 DEF TriedAgain
    <3>4. served[n].broken \in BOOLEAN
      BY <1>2, Unanswered
    <3> QED  BY <3>1, <3>3, <3>4
  <2>2. served'[n] = r /\ Got(n)' = Got(n) /\ Len(served') = Len(served)
    BY <1>1, <1>2, <1>9, <2>1 DEF Got, SocketInv, SocketType
  <2>3. ~ Got(n)
    BY <1>2, <1>3, <1>4, <1>9 DEF Got
  <2>4. Rival(n)'
    <3>1. spent \in 1 .. Len(accepted)
      BY <1>2, <1>3, <1>9
    <3>2. PICK m \in Orders : m = accepted[spent]
      BY <1>3, <3>1
    <3>3. m # n /\ served[m].coin = spent /\ Got(m)
      BY <1>3, <1>4, <1>9, <3>1, <3>2 DEF Got
    <3>4. m \in Orders' /\ Got(m)' /\ served'[m] = served[m]
      BY <1>1, <1>2, <1>9, <2>1, <2>2, <3>3 DEF Orders, Got
    <3>5. (served[m].coin)' = (served[n].coin)'
      BY <2>1, <2>2, <3>3, <3>4
    <3> QED  BY <3>3, <3>4, <3>5 DEF Rival
  <2>5. AnsweredFor(n)'
    BY <1>2, <2>1, <2>2, <2>3, <2>4 DEF AnsweredFor
  <2> QED  BY <1>1, <1>9, <2>1, <2>5, TaskInv
<1> QED
  BY <1>6, <1>7, <1>8, <1>9 DEF Socket!submit_tx_retry

LEMMA SocketAcceptInv == ASSUME SocketInv, Socket!Accept PROVE SocketInv'
<1>1. /\ Len(accepted) \in Nat /\ output = Len(accepted) + 1 /\ None \notin Orders /\ output \in Nat
      /\ \A i \in 1 .. Len(accepted) : accepted[i] \in Orders
  BY SocketParts
<1>2. /\ mempool \in Orders /\ accepted' = Append(accepted, mempool) /\ output' = output + 1
      /\ mempool' = None /\ UNCHANGED <<handling, served>>
  BY DEF Socket!Accept, SocketInv, SocketType
<1>3. /\ accepted' \in Seq(Orders) /\ Len(accepted') = output /\ accepted'[output] = mempool
      /\ \A i \in 1 .. Len(accepted) : accepted'[i] = accepted[i]
  <2>1. accepted \in Seq(Orders)
    BY DEF SocketInv, SocketType
  <2> QED  BY <1>1, <1>2, <2>1
<1>4. SocketType'
  BY <1>1, <1>2, <1>3 DEF SocketInv, SocketType, Orders
<1>5. OneTask'
  BY <1>2 DEF SocketInv, OneTask
<1>6. OutputsInTurn'
  <2>1. OutputsInTurn
    BY DEF SocketInv
  <2>2. served[mempool].coin = output
    BY <1>1, <1>2, <2>1 DEF OutputsInTurn
  <2>3. \A i \in 1 .. Len(accepted') : served'[accepted'[i]].coin = i
    BY <1>1, <1>2, <1>3, <2>1, <2>2 DEF OutputsInTurn
  <2>4. \A n \in Orders : served[n].coin # None => served[n].coin \in 1 .. output'
    <3>1. 1 .. output \subseteq 1 .. output'
      BY <1>1, <1>2
    <3> QED  BY <2>1, <3>1 DEF OutputsInTurn
  <2> QED  BY <1>1, <1>2, <1>3, <2>3, <2>4 DEF OutputsInTurn, Orders
<1>7. \A n \in Orders : Got(n)' <=> Got(n)
  BY <1>1, <1>2, <1>3 DEF Got
<1>8. ASSUME NEW n \in Orders PROVE AnsweredFor(n)'
  <2>1. Rival(n) => Rival(n)'
    BY <1>2, <1>7 DEF Rival, Orders
  <2>2. Rival(n)' => Rival(n)
    BY <1>2, <1>7 DEF Rival, Orders
  <2>3. AnsweredFor(n)
    BY DEF SocketInv
  <2> QED  BY <1>2, <1>7, <2>1, <2>3 DEF AnsweredFor
<1> QED  BY <1>2, <1>4, <1>5, <1>6, <1>8 DEF SocketInv, Orders

LEMMA SocketNext == SocketInv /\ Socket!Next => SocketInv'
<1> SUFFICES ASSUME SocketInv, Socket!Next PROVE SocketInv'
  OBVIOUS
<1>1. CASE Socket!Accept
  BY <1>1, SocketAcceptInv
<1>2. ASSUME NEW c \in Connections,
             \/ Socket!FrontendCommand(c) \/ Socket!GetUtxos(c) \/ Socket!Close(c)
             \/ Socket!submit_tx_retry(c) \/ Socket!Disconnected(c)
      PROVE  SocketInv'
  BY <1>2, CommandInv, UtxosInv, CloseInv, RetryInv, DisconnectedInv
<1> QED  BY <1>1, <1>2 DEF Socket!Next

LEMMA SocketStays == SocketInv /\ UNCHANGED socketVars => SocketInv'
<1> SUFFICES ASSUME SocketInv, UNCHANGED socketVars PROVE SocketInv'
  OBVIOUS
<1>1. UNCHANGED <<handling, served, output, mempool, accepted>>
  BY DEF socketVars
<1>2. SocketType' /\ OneTask'
  BY <1>1 DEF SocketInv, SocketType, OneTask, Orders
<1>3. OutputsInTurn' /\ \A n \in Orders' : AnsweredFor(n)'
  BY <1>1 DEF SocketInv, OutputsInTurn, AnsweredFor, Got, Rival, Orders
<1> QED  BY <1>2, <1>3 DEF SocketInv

LEMMA SocketInit == Socket!Init => SocketInv
<1> SUFFICES ASSUME Socket!Init PROVE SocketInv
  OBVIOUS
<1> USE DEF Socket!Init
<1>1. Orders = {} /\ None \notin InHand /\ 1 .. Len(accepted) = {} /\ \A S : <<>> \in Seq(S)
  BY SocketAssumption DEF Orders, InHand
<1>2. SocketType /\ OneTask
  BY <1>1 DEF SocketType, OneTask
<1>3. OutputsInTurn /\ \A n \in Orders : AnsweredFor(n)
  BY <1>1 DEF OutputsInTurn
<1> QED  BY <1>2, <1>3 DEF SocketInv

LEMMA SocketInvExplains == SocketInv => Socket!AnswersExplained
<1> SUFFICES ASSUME SocketInv PROVE Socket!AnswersExplained
  OBVIOUS
<1>1. DOMAIN served = Orders /\ DOMAIN accepted = 1 .. Len(accepted)
  BY SocketParts
<1>2. \A n : Got(n) <=> Socket!Taken(n)
  BY <1>1 DEF Got, Socket!Taken, Socket!Contents
<1>3. \A i, j \in DOMAIN accepted : accepted[i] = accepted[j] => i = j
  BY <1>1 DEF SocketInv, OutputsInTurn
<1>4. ASSUME NEW n \in Orders
      PROVE  /\ served[n].answer = "submitted" => Socket!Taken(n)
             /\ served[n].answer = "error" =>
                   \/ served[n].broken
                   \/ /\ ~ Socket!Taken(n)
                      /\ \E m \in Orders :
                            m # n /\ Socket!Taken(m) /\ served[m].coin = served[n].coin
  BY <1>2 DEF SocketInv, AnsweredFor, Rival
<1> QED  BY <1>1, <1>3, <1>4 DEF Socket!AnswersExplained

-----------------------------------------------------------------------------
(* The HTTP peer *)

Txs == [cmd : Peer!Commands, by : PubKeys, coin : Nat \cup {None}]
Undos ==
         [type : {"Challenge"}, key : PubKeys]
    \cup [type : {"Authentication", "SessionRevoked"}, key : PubKeys, was : BOOLEAN]
    \cup [type : {"CommentAdded"}, comment_id : Nat]
Blocks == [tx : Txs, ok : BOOLEAN, undo : Undos \cup {None}]
Steps == {"idle", "member", "choose", "reserve", "send", "poll", "cleanup", "cleaned", "drop"}
Kinds == {"start", "challenge", "verify", "comment", "revoke"}
Handlers == [pc : Steps, kind : Kinds \cup {None}, cmd : Peer!Commands \cup {None},
             by : PubKeys \cup {None}, coin : Nat \cup {None}, polls : Nat]

StoreType ==
    /\ room \in Rooms \cup {None} /\ blockchain_episodes \in Rooms \cup {None}
    /\ room # None => room.authorized # <<>>
    /\ blockchain_episodes # None => blockchain_episodes.authorized # <<>>
    /\ chain \in Seq(Blocks) /\ waiting \in SUBSET Txs
    /\ coins \in SUBSET Nat /\ used_utxos \in SUBSET Nat /\ timers \in SUBSET Nat
    /\ utxo_cache # None => utxo_cache \in SUBSET Nat

Sound(h) ==
    /\ h \in Handlers
    /\ h.pc # "idle" => h.kind \in Kinds /\ h.cmd \in Peer!Commands /\ h.by \in PubKeys
    /\ h.pc \in {"reserve", "send"} => h.coin \in Nat
    /\ h.pc \in {"poll", "cleanup", "cleaned"} => h.kind = "challenge"
    /\ h.pc = "drop" => h.kind \in {"challenge", "verify"}

HandlersType == req \in [Requests -> Handlers] /\ \A r \in Requests : Sound(req[r])

(* What the chain spends, it spends once; a change appears when its output *)
(* is spent; and the outputs are what is not spent.                        *)
SpentBefore(c, n) == \E i \in 1 .. n : chain[i].tx.coin = c
Born(c, n) == c \in 1 .. NumCoins \/ (c - NumCoins \in Nat /\ SpentBefore(c - NumCoins, n))

Ledger ==
    /\ \A i \in 1 .. Len(chain) : LET c == chain[i].tx.coin IN
          c # None => ~ SpentBefore(c, i - 1) /\ Born(c, i - 1)
    /\ \A c \in Nat : c \in coins <=> Born(c, Len(chain)) /\ ~ SpentBefore(c, Len(chain))

(* Whatever a transaction spends is taken or in doubt; and what a handler  *)
(* knows of it is free, or taken, or in doubt.                             *)
Known(c) == c \in used_utxos \cup doubtful

CoinHeld(r) ==
    LET c == req[r].coin IN
    /\ req[r].pc = "reserve" => Known(c) \/ c \in coins
    /\ req[r].pc = "send" /\ c \notin doubtful =>
          /\ c \in used_utxos /\ c \in coins /\ ~ Peer!Spent(c)
          /\ \A s \in Requests : req[s].pc = "send" /\ req[s].coin = c => s = r

Reserved ==
    /\ \A c \in Nat : Peer!Spent(c) \/ SpentBefore(c, Len(chain)) => Known(c)
    /\ utxo_cache # None => \A c \in utxo_cache : Known(c) \/ c \in coins
    /\ \A r \in Requests : CoinHeld(r)

(* The keys, as they are promised *)
KeysHeld ==
    \A k \in {"challenge", "verify"} :
       /\ k \in pending_requests => k \in leaked \/ \E r \in Requests : Peer!Holding(r, k)
       /\ k \notin stolen =>
             \A r, s \in Requests : Peer!Holding(r, k) =>
                 k \in pending_requests /\ (Peer!Holding(s, k) => s = r)

(* What can be rolled back was executed in the room that there is *)
Undoable ==
    /\ \A i \in 1 .. Len(chain) : chain[i].ok =>
          /\ room # None
          /\ IF chain[i].tx.cmd.type = "NewEpisode" THEN \A j \in 1 .. i - 1 : ~ chain[j].ok
             ELSE chain[i].undo \in Undos
    /\ ~ drift => blockchain_episodes = room
    /\ told # None /\ told.type = "session_revoked" =>
          told.cmd \in {"RevokeSession", "posted"} \/ told.drift

PeerInv == StoreType /\ HandlersType /\ Ledger /\ Reserved /\ KeysHeld /\ Undoable

LEMMA CommandTypes ==
  \A c \in Peer!Commands :
     \/ c.type \in {"NewEpisode", "RequestChallenge"}
     \/ c.type \in {"SubmitResponse", "RevokeSession", "SubmitComment"}
BY DEF Peer!Commands, Peer!Room!Commands

(* A room is made of its fields *)
LEMMA RoomParts ==
  ASSUME NEW ep \in Rooms
  PROVE  /\ ep = [authenticated |-> ep.authenticated, rate_limits |-> ep.rate_limits,
                  authorized |-> ep.authorized, active_challenges |-> ep.active_challenges,
                  comments |-> ep.comments, next_comment_id |-> ep.next_comment_id]
         /\ ep.authenticated \in SUBSET PubKeys /\ ep.rate_limits \in [PubKeys -> Nat]
         /\ ep.authorized \in Seq(PubKeys)
         /\ ep.active_challenges \in [PubKeys -> Nat \cup {None}]
         /\ ep.comments \in Seq(Notes) /\ ep.next_comment_id \in Nat
BY DEF Rooms

LEMMA RoomExecuted ==
  ASSUME NEW ep \in Rooms, ep.authorized # <<>>, NEW c \in Peer!Commands, c.type # "NewEpisode",
         NEW by \in PubKeys, NEW time \in Nat, NEW new, new = Peer!Room!Executed(ep, c, by, time)
  PROVE  /\ new \in Rooms /\ new.authorized # <<>>
         /\ c.type # "RevokeSession" => ep.authenticated \subseteq new.authenticated
<1>1. /\ ep.authenticated \in SUBSET PubKeys /\ ep.rate_limits \in [PubKeys -> Nat]
      /\ ep.authorized \in Seq(PubKeys)
      /\ ep.active_challenges \in [PubKeys -> Nat \cup {None}]
      /\ ep.comments \in Seq(Notes) /\ ep.next_comment_id \in Nat
  BY RoomParts
<1>2. CASE c.type = "RequestChallenge"
  <2>1. PICK limits, challenges :
           /\ limits = [ep.rate_limits EXCEPT ![by] = @ + 1]
           /\ challenges = [ep.active_challenges EXCEPT ![by] = time]
    OBVIOUS
  <2>2. new = [ep EXCEPT !.active_challenges = challenges, !.rate_limits = limits]
    BY <1>2, <2>1 DEF Peer!Room!Executed, Peer!Room!Challenged
  <2>3. new = [authenticated |-> ep.authenticated, rate_limits |-> limits,
               authorized |-> ep.authorized, active_challenges |-> challenges,
               comments |-> ep.comments, next_comment_id |-> ep.next_comment_id]
    BY <2>2, RoomParts
  <2>4. limits \in [PubKeys -> Nat] /\ challenges \in [PubKeys -> Nat \cup {None}]
    BY <1>1, <2>1
  <2> QED  BY <1>1, <2>3, <2>4 DEF Rooms
<1>3. CASE c.type = "SubmitResponse"
  <2>1. PICK users, challenges :
           /\ users = ep.authenticated \cup {by}
           /\ challenges = [ep.active_challenges EXCEPT ![by] = None]
    OBVIOUS
  <2>2. new = [ep EXCEPT !.authenticated = users, !.active_challenges = challenges]
    BY <1>3, <2>1 DEF Peer!Room!Executed
  <2>3. new = [authenticated |-> users, rate_limits |-> ep.rate_limits,
               authorized |-> ep.authorized, active_challenges |-> challenges,
               comments |-> ep.comments, next_comment_id |-> ep.next_comment_id]
    BY <2>2, RoomParts
  <2>4. users \in SUBSET PubKeys /\ challenges \in [PubKeys -> Nat \cup {None}]
        /\ ep.authenticated \subseteq users
    BY <1>1, <2>1
  <2>5. new \in Rooms /\ new.authorized # <<>> /\ new.authenticated = users
    BY <1>1, <2>3, <2>4 DEF Rooms
  <2> QED  BY <2>4, <2>5
<1>4. CASE c.type = "RevokeSession"
  <2>1. PICK users : users = ep.authenticated \ {by}
    OBVIOUS
  <2>2. new = [ep EXCEPT !.authenticated = users]
    BY <1>4, <2>1 DEF Peer!Room!Executed
  <2>3. new = [authenticated |-> users, rate_limits |-> ep.rate_limits,
               authorized |-> ep.authorized, active_challenges |-> ep.active_challenges,
               comments |-> ep.comments, next_comment_id |-> ep.next_comment_id]
    BY <2>2, RoomParts
  <2>4. users \in SUBSET PubKeys
    BY <1>1, <2>1
  <2> QED  BY <1>1, <1>4, <2>3, <2>4 DEF Rooms
<1>5. CASE c.type = "SubmitComment"
  <2>1. PICK note, notes, next :
           /\ note = [id |-> ep.next_comment_id, author |-> by, timestamp |-> time]
           /\ notes = Append(ep.comments, note) /\ next = ep.next_comment_id + 1
    OBVIOUS
  <2>2. new = [ep EXCEPT !.comments = notes, !.next_comment_id = next]
    BY <1>5, <2>1 DEF Peer!Room!Executed
  <2>3. new = [authenticated |-> ep.authenticated, rate_limits |-> ep.rate_limits,
               authorized |-> ep.authorized, active_challenges |-> ep.active_challenges,
               comments |-> notes, next_comment_id |-> next]
    BY <2>2, RoomParts
  <2>4. notes \in Seq(Notes) /\ next \in Nat
    BY <1>1, <2>1 DEF Notes
  <2> QED  BY <1>1, <2>3, <2>4 DEF Rooms
<1> QED  BY <1>2, <1>3, <1>4, <1>5, CommandTypes

LEMMA RoomUndo ==
  ASSUME NEW ep \in Rooms, NEW c \in Peer!Commands, c.type # "NewEpisode", NEW by \in PubKeys
  PROVE  Peer!Room!RollbackOf(ep, c, by) \in Undos
<1>1. ep.next_comment_id \in Nat
  BY RoomParts
<1> QED  BY <1>1, CommandTypes DEF Peer!Room!RollbackOf, Undos

LEMMA RoomCreated ==
  ASSUME NEW by \in PubKeys, NEW new, new = Peer!Room!Initialize(<<by>>, 0)
  PROVE  new \in Rooms /\ new.authorized # <<>>
<1>1. PICK limits, challenges, p, notes :
         /\ limits = [k \in PubKeys |-> 0] /\ challenges = [k \in PubKeys |-> None] /\ p = <<by>>
         /\ notes = <<>>
  OBVIOUS
<1>2. limits \in [PubKeys -> Nat] /\ challenges \in [PubKeys -> Nat \cup {None}]
      /\ p \in Seq(PubKeys) /\ p # <<>> /\ notes \in Seq(Notes)
  BY <1>1
<1>3. new = [authenticated |-> {}, rate_limits |-> limits, authorized |-> p,
             active_challenges |-> challenges, comments |-> notes, next_comment_id |-> 1]
  BY <1>1 DEF Peer!Room!Initialize
<1>4. PICK nobody \in SUBSET PubKeys, next \in Nat : nobody = {} /\ next = 1
  OBVIOUS
<1>5. new = [authenticated |-> nobody, rate_limits |-> limits, authorized |-> p,
             active_challenges |-> challenges, comments |-> notes, next_comment_id |-> next]
  BY <1>3, <1>4
<1> QED  BY <1>2, <1>5 DEF Rooms

LEMMA WithoutNotes ==
  ASSUME NEW s \in Seq(Notes), NEW id PROVE Peer!Room!WithoutId(s, id) \in Seq(Notes)
<1> DEFINE T == {x \in {s[i] : i \in DOMAIN s} : x.id # id}
<1>1. Peer!Room!WithoutId(s, id) = Keep(s, T)
  BY DEF Peer!Room!WithoutId, Peer!Room!Keep, Peer!Room!Sifted, Keep, Sifted
<1> HIDE DEF T
<1>2. Keep(s, T) \in Seq(Notes \cap T)
  BY KeepSeq
<1> QED  BY <1>1, <1>2, SeqGrows

LEMMA RoomRolledBack ==
  ASSUME NEW ep \in Rooms, ep.authorized # <<>>, NEW u \in Undos,
         NEW new, new = Peer!Room!Rollback(ep, u).state
  PROVE  new \in Rooms /\ new.authorized # <<>>
<1>1. /\ ep.authenticated \in SUBSET PubKeys /\ ep.rate_limits \in [PubKeys -> Nat]
      /\ ep.authorized \in Seq(PubKeys)
      /\ ep.active_challenges \in [PubKeys -> Nat \cup {None}]
      /\ ep.comments \in Seq(Notes) /\ ep.next_comment_id \in Nat
  BY RoomParts
<1>2. new = ep \/ new = Peer!Room!RolledBack(ep, u)
  BY DEF Peer!Room!Rollback
<1>3. CASE new = ep
  BY <1>3
<1>4. CASE u.type = "Challenge" /\ new = Peer!Room!RolledBack(ep, u)
  <2>1. PICK challenges : challenges = [ep.active_challenges EXCEPT ![u.key] = None]
    OBVIOUS
  <2>2. new = [ep EXCEPT !.active_challenges = challenges]
    BY <1>4, <2>1 DEF Peer!Room!RolledBack
  <2>3. new = [authenticated |-> ep.authenticated, rate_limits |-> ep.rate_limits,
               authorized |-> ep.authorized, active_challenges |-> challenges,
               comments |-> ep.comments, next_comment_id |-> ep.next_comment_id]
    BY <2>2, RoomParts
  <2>4. challenges \in [PubKeys -> Nat \cup {None}]
    BY <1>1, <2>1
  <2> QED  BY <1>1, <2>3, <2>4 DEF Rooms
<1>5. CASE u.type \in {"Authentication", "SessionRevoked"} /\ new = Peer!Room!RolledBack(ep, u)
  <2>1. u.key \in PubKeys
    BY <1>5 DEF Undos
  <2>2. \E users \in SUBSET PubKeys : new = [ep EXCEPT !.authenticated = users]
    <3>1. /\ ep.authenticated \cup {u.key} \in SUBSET PubKeys
          /\ ep.authenticated \ {u.key} \in SUBSET PubKeys
      BY <1>1, <2>1
    <3>2. CASE u.type = "Authentication"
      <4>1. CASE u.was
        <5>1. new = [ep EXCEPT !.authenticated = ep.authenticated \cup {u.key}]
          BY <1>5, <3>2, <4>1 DEF Peer!Room!RolledBack
        <5> QED  BY <3>1, <5>1
      <4>2. CASE ~ u.was
        <5>1. new = [ep EXCEPT !.authenticated = ep.authenticated \ {u.key}]
          BY <1>5, <3>2, <4>2 DEF Peer!Room!RolledBack
        <5> QED  BY <3>1, <5>1
      <4> QED  BY <4>1, <4>2
    <3>3. CASE u.type = "SessionRevoked"
      <4>1. CASE u.was
        <5>1. new = [ep EXCEPT !.authenticated = ep.authenticated \cup {u.key}]
          BY <1>5, <3>3, <4>1 DEF Peer!Room!RolledBack
        <5> QED  BY <3>1, <5>1
      <4>2. CASE ~ u.was
        <5>1. new = [ep EXCEPT !.authenticated = ep.authenticated]
          BY <1>5, <3>3, <4>2 DEF Peer!Room!RolledBack
        <5> QED  BY <1>1, <5>1
      <4> QED  BY <4>1, <4>2
    <3> QED  BY <1>5, <3>2, <3>3
  <2>3. PICK users \in SUBSET PubKeys : new = [ep EXCEPT !.authenticated = users]
    BY <2>2
  <2>4. new = [authenticated |-> users, rate_limits |-> ep.rate_limits,
               authorized |-> ep.authorized, active_challenges |-> ep.active_challenges,
               comments |-> ep.comments, next_comment_id |-> ep.next_comment_id]
    BY <2>3, RoomParts
  <2> QED  BY <1>1, <2>4 DEF Rooms
<1>6. CASE u.type = "CommentAdded" /\ new = Peer!Room!RolledBack(ep, u)
  <2>1. PICK notes, next :
           notes = Peer!Room!WithoutId(ep.comments, u.comment_id) /\ next = u.comment_id
    OBVIOUS
  <2>2. new = [ep EXCEPT !.comments = notes, !.next_comment_id = next]
    BY <1>6, <2>1 DEF Peer!Room!RolledBack
  <2>3. new = [authenticated |-> ep.authenticated, rate_limits |-> ep.rate_limits,
               authorized |-> ep.authorized, active_challenges |-> ep.active_challenges,
               comments |-> notes, next_comment_id |-> next]
    BY <2>2, RoomParts
  <2>4. notes \in Seq(Notes) /\ next \in Nat
    BY <1>1, <1>6, <2>1, WithoutNotes DEF Undos
  <2> QED  BY <1>1, <2>3, <2>4 DEF Rooms
<1> QED  BY <1>2, <1>3, <1>4, <1>5, <1>6 DEF Undos

LEMMA RoomExecutes ==
  ASSUME NEW ep, ep # None => ep \in Rooms /\ ep.authorized # <<>>, NEW tx \in Txs, NEW time \in Nat,
         NEW x, x = Peer!Executes(ep, tx, time), x.ok
  PROVE  /\ x.ok = TRUE /\ x.state \in Rooms /\ x.state.authorized # <<>>
         /\ IF tx.cmd.type = "NewEpisode" THEN ep = None /\ x.undo = None
            ELSE ep # None /\ x.undo \in Undos
         /\ tx.cmd.type \notin {"NewEpisode", "RevokeSession"} =>
               ep # None /\ ep.authenticated \subseteq x.state.authenticated
<1>1. tx.cmd \in Peer!Commands /\ tx.by \in PubKeys
  BY DEF Txs
<1>2. CASE tx.cmd.type = "NewEpisode"
  <2>1. x = [ok |-> ep = None, state |-> Peer!Room!Initialize(<<tx.by>>, 0), undo |-> None]
    BY <1>2 DEF Peer!Executes
  <2>2. x.ok = (ep = None)
    <3>1. PICK b : b = (ep = None)
      OBVIOUS
    <3>2. x = [ok |-> b, state |-> Peer!Room!Initialize(<<tx.by>>, 0), undo |-> None]
      BY <2>1, <3>1
    <3>3. x.ok = b
      BY <3>2
    <3> QED  BY <3>1, <3>3
  <2>3. x.state \in Rooms /\ x.state.authorized # <<>> /\ x.undo = None
    BY <1>1, <2>1, RoomCreated
  <2>4. ep = None /\ x.ok = TRUE
    BY <2>2
  <2> QED  BY <1>2, <2>3, <2>4
<1>3. CASE tx.cmd.type # "NewEpisode"
  <2>1. ep # None /\ x = Peer!Room!Execute(ep, tx.cmd, tx.by, time)
    BY <1>3 DEF Peer!Executes
  <2>2. x = [ok |-> TRUE, state |-> Peer!Room!Executed(ep, tx.cmd, tx.by, time),
             undo |-> Peer!Room!RollbackOf(ep, tx.cmd, tx.by)]
    BY <2>1 DEF Peer!Room!Execute
  <2>3. x.ok = TRUE /\ x.state = Peer!Room!Executed(ep, tx.cmd, tx.by, time)
        /\ x.undo = Peer!Room!RollbackOf(ep, tx.cmd, tx.by)
    BY <2>2
  <2>4. /\ x.state \in Rooms /\ x.state.authorized # <<>>
        /\ tx.cmd.type # "RevokeSession" => ep.authenticated \subseteq x.state.authenticated
    BY <1>1, <1>3, <2>1, <2>3, RoomExecuted
  <2>5. x.undo \in Undos
    BY <1>1, <1>3, <2>1, <2>3, RoomUndo
  <2> QED  BY <1>3, <2>1, <2>3, <2>4, <2>5
<1> QED  BY <1>2, <1>3

-----------------------------------------------------------------------------
(* The invariant, action by action *)

LEMMA PeerParts ==
  ASSUME PeerInv
  PROVE  /\ room # None => room \in Rooms /\ room.authorized # <<>>
         /\ blockchain_episodes # None =>
               blockchain_episodes \in Rooms /\ blockchain_episodes.authorized # <<>>
         /\ chain \in Seq(Blocks) /\ Len(chain) \in Nat /\ DOMAIN chain = 1 .. Len(chain)
         /\ \A i \in 1 .. Len(chain) : chain[i] \in Blocks /\ chain[i].tx \in Txs
                                        /\ chain[i].ok \in BOOLEAN
         /\ waiting \in SUBSET Txs /\ coins \in SUBSET Nat
         /\ None \notin Nat /\ None \notin Rooms /\ wallet \in PubKeys /\ NumCoins \in Nat
         /\ req \in [Requests -> Handlers]
<1>1. chain \in Seq(Blocks)
  BY DEF PeerInv, StoreType
<1>2. Len(chain) \in Nat /\ DOMAIN chain = 1 .. Len(chain)
  BY <1>1
<1>3. \A i \in 1 .. Len(chain) : chain[i] \in Blocks
  BY <1>1, <1>2, ElementOfSeq
<1>4. \A i \in 1 .. Len(chain) : chain[i].tx \in Txs /\ chain[i].ok \in BOOLEAN
  BY <1>3 DEF Blocks
<1>5. None \notin Nat /\ None \notin Rooms /\ wallet \in PubKeys /\ NumCoins \in Nat
  BY PeerAssumption
<1> QED  BY <1>1, <1>2, <1>3, <1>4, <1>5 DEF PeerInv, StoreType, HandlersType

(* An action of one handler: what becomes of it *)
Became(r, h) == Sound(h) /\ req' = [req EXCEPT ![r] = h]

(* Whether a handler that is at h has the key k *)
HasKey(h, k) == h.kind = k /\ h.pc \notin {"idle", "cleaned"}

LEMMA HandlerType ==
  ASSUME PeerInv, NEW r \in Requests
  PROVE  Sound(req[r]) /\ req[r] \in Handlers /\ \A k : Peer!Holding(r, k) <=> HasKey(req[r], k)
BY DEF PeerInv, HandlersType, Sound, Peer!Holding, HasKey

LEMMA BecameType ==
  ASSUME PeerInv, NEW r \in Requests, NEW h, Became(r, h)
  PROVE  /\ HandlersType' /\ req'[r] = h /\ \A s \in Requests : s # r => req'[s] = req[s]
<1>1. /\ req' \in [Requests -> Handlers] /\ req'[r] = h
      /\ \A s \in Requests : s # r => req'[s] = req[s]
  BY DEF PeerInv, HandlersType, Became, Sound
<1>2. ASSUME NEW s \in Requests PROVE Sound(req'[s])
  BY <1>1, HandlerType DEF Became
<1>3. \A s \in Requests : Sound(req[s])'
  BY <1>2 DEF Sound
<1> QED  BY <1>1, <1>3 DEF HandlersType

LEMMA StoreStays ==
  ASSUME PeerInv, UNCHANGED <<room, blockchain_episodes, chain, waiting, coins, used_utxos, timers, utxo_cache>>
  PROVE  StoreType'
BY DEF PeerInv, StoreType

LEMMA LedgerStays ==
  ASSUME PeerInv, UNCHANGED <<chain, coins>> PROVE Ledger'
BY DEF PeerInv, Ledger, SpentBefore, Born

LEMMA UndoableStays ==
  ASSUME PeerInv, UNCHANGED <<chain, room, drift, blockchain_episodes, told>> PROVE Undoable'
BY DEF PeerInv, Undoable

(* The outputs do not change and nobody comes to one *)
LEMMA ReservedStays ==
  ASSUME PeerInv, UNCHANGED <<chain, waiting, coins, used_utxos, doubtful>>,
         utxo_cache' # None => \A c \in utxo_cache' : Known(c) \/ c \in coins,
         \A r \in Requests :
            req'[r].pc \in {"reserve", "send"} => req'[r].pc = req[r].pc /\ req'[r].coin = req[r].coin
  PROVE  Reserved'
<1>1. \A c : (Known(c)' <=> Known(c)) /\ (Peer!Spent(c)' <=> Peer!Spent(c))
      /\ (SpentBefore(c, Len(chain))' <=> SpentBefore(c, Len(chain)))
  BY DEF Known, Peer!Spent, SpentBefore
<1>2. /\ \A c \in Nat : Peer!Spent(c)' \/ SpentBefore(c, Len(chain))' => Known(c)'
      /\ utxo_cache' # None => \A c \in utxo_cache' : Known(c)' \/ c \in coins'
  BY <1>1 DEF PeerInv, Reserved
<1>3. ASSUME NEW r \in Requests, NEW c, c = req'[r].coin
      PROVE  /\ req'[r].pc = "reserve" => Known(c)' \/ c \in coins'
             /\ req'[r].pc = "send" /\ c \notin doubtful' =>
                   /\ c \in used_utxos' /\ c \in coins' /\ ~ Peer!Spent(c)'
                   /\ \A s \in Requests : req'[s].pc = "send" /\ req'[s].coin = c => s = r
  BY <1>1, <1>3 DEF PeerInv, Reserved, CoinHeld
<1> QED  BY <1>2, <1>3 DEF Reserved, CoinHeld

(* A handler keeps its key, or has none before and after *)
LEMMA KeysStay ==
  ASSUME PeerInv, UNCHANGED <<pending_requests, leaked, stolen>>, NEW r \in Requests, NEW h, Became(r, h),
         \A k \in {"challenge", "verify"} : HasKey(h, k) <=> HasKey(req[r], k)
  PROVE  KeysHeld'
<1>1. \A s \in Requests : \A k \in {"challenge", "verify"} : Peer!Holding(s, k)' <=> Peer!Holding(s, k)
  <2>1. ASSUME NEW s \in Requests, NEW k \in {"challenge", "verify"}
        PROVE  (Peer!Holding(s, k)' <=> HasKey(req'[s], k)) /\ (Peer!Holding(s, k) <=> HasKey(req[s], k))
    BY DEF Peer!Holding, HasKey
  <2>2. req'[r] = h /\ \A s \in Requests : s # r => req'[s] = req[s]
    BY BecameType
  <2> QED  BY <2>1, <2>2
<1> QED  BY <1>1 DEF PeerInv, KeysHeld

LEMMA IdleHandler == Peer!Idle \in Handlers /\ Peer!Idle.pc = "idle"
BY DEF Peer!Idle, Handlers, Steps

(* A step that leaves the kind of a handler *)
(* A step that leaves what the handler is about *)
LEMMA Stepping ==
  ASSUME PeerInv, NEW r \in Requests, req[r].pc # "idle", NEW p \in Steps \ {"idle", "reserve"},
         p \in {"poll", "cleanup", "cleaned"} => req[r].kind = "challenge",
         p = "drop" => req[r].kind \in {"challenge", "verify"},
         p = "send" => req[r].pc = "reserve",
         Peer!Goto(r, p)
  PROVE  \E h : Became(r, h) /\ h.pc = p /\ h.kind = req[r].kind /\ h.coin = req[r].coin
<1> PICK h : h = [req[r] EXCEPT !.pc = p]
  OBVIOUS
<1>1. req[r] \in Handlers /\ req \in [Requests -> Handlers] /\ Sound(req[r])
  BY HandlerType, PeerParts
<1>2. h = [pc |-> p, kind |-> req[r].kind, cmd |-> req[r].cmd, by |-> req[r].by,
           coin |-> req[r].coin, polls |-> req[r].polls]
  BY <1>1 DEF Handlers
<1>3. h \in Handlers /\ h.pc = p /\ h.kind = req[r].kind /\ h.coin = req[r].coin
      /\ h.cmd = req[r].cmd /\ h.by = req[r].by
  BY <1>1, <1>2 DEF Handlers
<1>4. req' = [req EXCEPT ![r] = h]
  BY <1>1 DEF Peer!Goto
<1>5. Sound(h)
  BY <1>1, <1>3 DEF Sound
<1> QED  BY <1>3, <1>4, <1>5 DEF Became

(* Where a handler goes after a submission, it holds what it held *)
LEMMA AfterSubmission ==
  ASSUME PeerInv, NEW r \in Requests, req[r].pc \in {"choose", "send"}, Peer!Submitted(r)
  PROVE  \E h : /\ Became(r, h) /\ h.pc \notin {"reserve", "send"}
                /\ \A k \in {"challenge", "verify"} : HasKey(h, k) <=> HasKey(req[r], k)
<1>1. CASE req[r].kind = "challenge"
  <2>1. Peer!Goto(r, "poll")
    BY <1>1 DEF Peer!Submitted
  <2>2. PICK h : Became(r, h) /\ h.pc = "poll" /\ h.kind = req[r].kind
    BY <1>1, <2>1, Stepping DEF Steps
  <2> QED  BY <2>2 DEF HasKey
<1>2. CASE req[r].kind = "verify"
  <2>1. Peer!Goto(r, "drop")
    BY <1>2 DEF Peer!Submitted
  <2>2. PICK h : Became(r, h) /\ h.pc = "drop" /\ h.kind = req[r].kind
    BY <1>2, <2>1, Stepping DEF Steps
  <2> QED  BY <2>2 DEF HasKey
<1>3. CASE req[r].kind \notin {"challenge", "verify"}
  <2>1. req' = [req EXCEPT ![r] = Peer!Idle]
    BY <1>3 DEF Peer!Submitted
  <2>2. Became(r, Peer!Idle)
    BY <2>1, IdleHandler DEF Became, Sound
  <2> QED  BY <1>3, <2>2, IdleHandler DEF HasKey
<1> QED  BY <1>1, <1>2, <1>3

(* A handler goes on and leaves the outputs and the engine alone *)
LEMMA QuietStep ==
  ASSUME PeerInv, NEW r \in Requests, NEW h, Became(r, h), h.pc \notin {"reserve", "send"},
         UNCHANGED <<room, chain, coins, blockchain_episodes, told, drift, waiting,
                     used_utxos, timers, utxo_cache, doubtful>>,
         KeysHeld'
  PROVE  PeerInv'
<1>1. HandlersType' /\ req'[r] = h /\ \A s \in Requests : s # r => req'[s] = req[s]
  BY BecameType
<1>2. \A s \in Requests :
         req'[s].pc \in {"reserve", "send"} => req'[s].pc = req[s].pc /\ req'[s].coin = req[s].coin
  BY <1>1
<1>3. utxo_cache' # None => \A c \in utxo_cache' : Known(c) \/ c \in coins
  BY DEF PeerInv, Reserved
<1>4. Reserved'
  BY <1>2, <1>3, ReservedStays
<1> QED  BY <1>1, <1>4, StoreStays, LedgerStays, UndoableStays DEF PeerInv

LEMMA Beginning ==
  ASSUME PeerInv, NEW r \in Requests, NEW p \in {"member", "choose"}, NEW k \in Kinds,
         NEW c \in Peer!Commands, NEW by \in PubKeys, Peer!Begin(r, p, k, c, by)
  PROVE  \E h : Became(r, h) /\ h.pc = p /\ h.kind = k
<1> PICK h : h = [Peer!Idle EXCEPT !.pc = p, !.kind = k, !.cmd = c, !.by = by]
  OBVIOUS
<1>1. h = [pc |-> p, kind |-> k, cmd |-> c, by |-> by, coin |-> None, polls |-> 0]
  BY DEF Peer!Idle
<1>2. h \in Handlers /\ h.pc = p /\ h.kind = k /\ h.cmd = c /\ h.by = by
  BY <1>1 DEF Handlers, Steps
<1>3. Sound(h)
  BY <1>2 DEF Sound
<1>4. req' = [req EXCEPT ![r] = h]
  BY DEF Peer!Begin
<1> QED  BY <1>2, <1>3, <1>4 DEF Became

LEMMA Arriving ==
  ASSUME NEW r \in Requests, Peer!Arrives(r)
  PROVE  /\ req[r].pc = "idle"
         /\ UNCHANGED <<room, chain, coins, blockchain_episodes, told, drift, waiting,
                        used_utxos, timers, utxo_cache, doubtful>>
BY DEF Peer!Arrives, Peer!utxoVars, Peer!chainVars

(* A request that needs no key *)
LEMMA KeylessInv ==
  ASSUME PeerInv, NEW r \in Requests, Peer!Arrives(r), NEW p \in {"member", "choose"},
         NEW k \in Kinds \ {"challenge", "verify"},
         NEW c \in Peer!Commands, NEW by \in PubKeys, Peer!Begin(r, p, k, c, by),
         UNCHANGED Peer!keyVars
  PROVE  PeerInv'
<1>1. /\ req[r].pc = "idle"
      /\ UNCHANGED <<room, chain, coins, blockchain_episodes, told, drift, waiting,
                     used_utxos, timers, utxo_cache, doubtful>>
  BY Arriving
<1>2. PICK h : Became(r, h) /\ h.pc = p /\ h.kind = k
  BY Beginning
<1>3. KeysHeld'
  BY <1>1, <1>2, KeysStay DEF HasKey, Peer!keyVars
<1> QED  BY <1>1, <1>2, <1>3, QuietStep

(* A request that takes a key *)
LEMMA KeyedInv ==
  ASSUME PeerInv, NEW r \in Requests, Peer!Arrives(r),
         NEW k \in {"challenge", "verify"}, k \notin pending_requests,
         NEW c \in Peer!Commands, NEW by \in PubKeys, Peer!Begin(r, "choose", k, c, by),
         pending_requests' = pending_requests \cup {k},
         UNCHANGED <<leaked, stolen>>
  PROVE  PeerInv'
<1>1. /\ req[r].pc = "idle"
      /\ UNCHANGED <<room, chain, coins, blockchain_episodes, told, drift, waiting,
                     used_utxos, timers, utxo_cache, doubtful>>
  BY Arriving
<1>2. PICK h : Became(r, h) /\ h.pc = "choose" /\ h.kind = k
  BY Beginning DEF Kinds
<1>3. KeysHeld'
  <2>1. /\ req'[r] = h /\ \A s \in Requests : s # r => req'[s] = req[s]
    BY <1>2, BecameType
  <2>2. \A s, j : (Peer!Holding(s, j)' <=> HasKey(req'[s], j))
                               /\ (Peer!Holding(s, j) <=> HasKey(req[s], j))
    BY DEF Peer!Holding, HasKey
  <2>3. ASSUME NEW j \in {"challenge", "verify"}
        PROVE  /\ j \in pending_requests' =>
                     j \in leaked' \/ \E s \in Requests : Peer!Holding(s, j)'
               /\ j \notin stolen' =>
                     \A s, t \in Requests : Peer!Holding(s, j)' =>
                         j \in pending_requests' /\ (Peer!Holding(t, j)' => t = s)
    <3>1. CASE j = k
      <4>1. HasKey(h, j)
        BY <1>2, <3>1 DEF HasKey
      <4>2. j \notin stolen => \A s \in Requests : ~ HasKey(req[s], j)
        BY <2>2, <3>1 DEF PeerInv, KeysHeld
      <4> QED  BY <2>1, <2>2, <3>1, <4>1, <4>2
    <3>2. CASE j # k
      <4>1. \A s \in Requests : Peer!Holding(s, j)' <=> Peer!Holding(s, j)
        BY <1>1, <1>2, <2>1, <2>2, <3>2 DEF HasKey
      <4> QED  BY <3>2, <4>1 DEF PeerInv, KeysHeld
    <3> QED  BY <3>1, <3>2
  <2> QED  BY <2>3 DEF KeysHeld
<1> QED  BY <1>1, <1>2, <1>3, QuietStep

(* A malformed request leaves a key behind *)
LEMMA LeakInv ==
  ASSUME PeerInv, "challenge" \notin pending_requests,
         pending_requests' = pending_requests \cup {"challenge"},
         leaked' = leaked \cup {"challenge"},
         UNCHANGED <<room, chain, coins, blockchain_episodes, told, drift, stolen, req, waiting,
                     used_utxos, timers, utxo_cache, doubtful>>
  PROVE  PeerInv'
<1>1. HandlersType'
  BY DEF PeerInv, HandlersType, Sound
<1>2. Reserved'
  BY ReservedStays DEF PeerInv, Reserved
<1>3. KeysHeld'
  BY DEF PeerInv, KeysHeld, Peer!Holding
<1> QED  BY <1>1, <1>2, <1>3, StoreStays, LedgerStays, UndoableStays DEF PeerInv

LEMMA ArrivalInv ==
  ASSUME PeerInv, NEW r \in Requests,
         \/ Peer!start_auth(r) \/ Peer!request_challenge(r) \/ Peer!verify_auth(r)
         \/ Peer!submit_comment(r) \/ Peer!submit_comment_simple(r) \/ Peer!revoke_session(r)
  PROVE  PeerInv'
<1>1. wallet \in PubKeys /\ (blockchain_episodes # None => Peer!owner \in PubKeys)
  <2>1. blockchain_episodes # None =>
           blockchain_episodes.authorized \in Seq(PubKeys) /\ blockchain_episodes.authorized # <<>>
    BY PeerParts DEF Rooms
  <2>2. \A s \in Seq(PubKeys) : s # <<>> => Head(s) \in PubKeys
    OBVIOUS
  <2> QED  BY <2>1, <2>2, PeerParts DEF Peer!owner
<1>2. \A k \in {"start", "comment", "revoke"} : k \in Kinds \ {"challenge", "verify"}
  BY DEF Kinds
<1>4. /\ [type |-> "NewEpisode"] \in Peer!Commands /\ [type |-> "RequestChallenge"] \in Peer!Commands
      /\ \A ok \in BOOLEAN : \A t \in {"SubmitResponse", "RevokeSession", "SubmitComment"} :
            [type |-> t, ok |-> ok] \in Peer!Commands
  BY DEF Peer!Commands, Peer!Room!Commands
<1>5. CASE Peer!start_auth(r)
  <2>1. PICK k \in PubKeys : /\ Peer!Arrives(r) /\ UNCHANGED Peer!keyVars
                             /\ Peer!Begin(r, "choose", "start", [type |-> "NewEpisode"], k)
    BY <1>5 DEF Peer!start_auth
  <2> QED  BY <1>2, <1>4, <2>1, KeylessInv
<1>6. CASE Peer!submit_comment(r)
  <2>1. PICK k \in PubKeys :
           /\ Peer!Arrives(r) /\ UNCHANGED Peer!keyVars
           /\ Peer!Begin(r, "choose", "comment", [type |-> "SubmitComment", ok |-> TRUE], k)
    BY <1>6 DEF Peer!submit_comment
  <2> QED  BY <1>2, <1>4, <2>1, KeylessInv
<1>7. CASE Peer!submit_comment_simple(r)
  <2>1. PICK p \in {"member", "choose"} :
           /\ Peer!Arrives(r) /\ UNCHANGED Peer!keyVars
           /\ Peer!Begin(r, p, "comment", [type |-> "SubmitComment", ok |-> TRUE], wallet)
    BY <1>7 DEF Peer!submit_comment_simple
  <2> QED  BY <1>1, <1>2, <1>4, <2>1, KeylessInv
<1>8. CASE Peer!revoke_session(r)
  <2>1. PICK ok \in BOOLEAN :
           /\ Peer!Arrives(r) /\ UNCHANGED Peer!keyVars /\ blockchain_episodes # None
           /\ Peer!Begin(r, "choose", "revoke", [type |-> "RevokeSession", ok |-> ok], Peer!owner)
    BY <1>8 DEF Peer!revoke_session
  <2> QED  BY <1>1, <1>2, <1>4, <2>1, KeylessInv
<1>9. CASE Peer!verify_auth(r)
  <2>1. PICK ok \in BOOLEAN :
           /\ Peer!Arrives(r) /\ UNCHANGED <<leaked, stolen>> /\ "verify" \notin pending_requests
           /\ pending_requests' = pending_requests \cup {"verify"}
           /\ Peer!Begin(r, "choose", "verify", [type |-> "SubmitResponse", ok |-> ok], wallet)
    BY <1>9 DEF Peer!verify_auth
  <2> QED  BY <1>1, <1>2, <1>4, <2>1, KeyedInv
<1>10. CASE Peer!request_challenge(r)
  <2>1. PICK k \in PubKeys \cup {"malformed", "missing"} :
           LET known == k \in PubKeys \/ (k = "missing" /\ blockchain_episodes # None) IN
           /\ Peer!Arrives(r) /\ "challenge" \notin pending_requests /\ stolen' = stolen
           /\ pending_requests' = pending_requests \cup {"challenge"}
           /\ leaked' = IF known THEN leaked ELSE leaked \cup {"challenge"}
           /\ IF known
              THEN Peer!Begin(r, "choose", "challenge", [type |-> "RequestChallenge"],
                              IF k = "missing" THEN Peer!owner ELSE k)
              ELSE UNCHANGED req
    BY <1>10 DEF Peer!request_challenge
  <2>2. CASE k \in PubKeys \/ (k = "missing" /\ blockchain_episodes # None)
    <3>1. PICK by : by = IF k = "missing" THEN Peer!owner ELSE k
      OBVIOUS
    <3>2. by \in PubKeys
      BY <1>1, <2>2, <3>1, PeerAssumption
    <3> QED  BY <1>4, <2>1, <2>2, <3>1, <3>2, KeyedInv
  <2>3. CASE ~ (k \in PubKeys \/ (k = "missing" /\ blockchain_episodes # None))
    <3>1. UNCHANGED <<room, chain, coins, blockchain_episodes, told, drift, waiting,
                      used_utxos, timers, utxo_cache, doubtful>>
      BY <2>1, Arriving
    <3> QED  BY <2>1, <2>3, <3>1, LeakInv
  <2> QED  BY <2>2, <2>3
<1> QED  BY <1>5, <1>6, <1>7, <1>8, <1>9, <1>10

LEMMA HoldingEach ==
  /\ \A s, k : Peer!Holding(s, k) <=> HasKey(req[s], k)
  /\ \A s, k : Peer!Holding(s, k)' <=> HasKey(req'[s], k)
BY DEF Peer!Holding, HasKey

LEMMA PollInv == ASSUME PeerInv, NEW r \in Requests, Peer!Poll(r) PROVE PeerInv'
<1>1. /\ req[r].pc = "poll" /\ UNCHANGED <<pending_requests, leaked, stolen>>
      /\ UNCHANGED <<room, chain, coins, blockchain_episodes, told, drift, waiting,
                     used_utxos, timers, utxo_cache, doubtful>>
  BY DEF Peer!Poll, Peer!chainVars, Peer!utxoVars, Peer!keyVars
<1>2. Sound(req[r]) /\ req[r].kind = "challenge" /\ req[r] \in Handlers
  BY <1>1, HandlerType DEF Sound
<1>3. \E h : /\ Became(r, h) /\ h.pc \notin {"reserve", "send"}
             /\ \A k \in {"challenge", "verify"} : HasKey(h, k) <=> HasKey(req[r], k)
  <2>1. ASSUME NEW p \in {"cleanup", "drop"}, Peer!Goto(r, p)
        PROVE  \E h : Became(r, h) /\ h.pc = p /\ h.kind = "challenge"
    BY <1>1, <1>2, <2>1, Stepping DEF Steps
  <2>2. CASE Peer!Goto(r, "cleanup") \/ Peer!Goto(r, "drop")
    BY <1>1, <1>2, <2>1, <2>2 DEF HasKey
  <2>3. CASE req' = [req EXCEPT ![r].polls = @ + 1]
    <3> PICK h : h = [req[r] EXCEPT !.polls = req[r].polls + 1]
      OBVIOUS
    <3>1. req[r].polls \in Nat /\ req \in [Requests -> Handlers]
      BY <1>2, PeerParts DEF Handlers
    <3>2. h = [pc |-> req[r].pc, kind |-> req[r].kind, cmd |-> req[r].cmd, by |-> req[r].by,
               coin |-> req[r].coin, polls |-> req[r].polls + 1]
      BY <1>2 DEF Handlers
    <3>3. h \in Handlers /\ h.pc = req[r].pc /\ h.kind = req[r].kind /\ h.cmd = req[r].cmd
          /\ h.by = req[r].by
      BY <1>2, <3>1, <3>2 DEF Handlers
    <3>4. req' = [req EXCEPT ![r] = h]
      BY <2>3, <3>1
    <3>5. Became(r, h)
      BY <1>1, <1>2, <3>3, <3>4 DEF Became, Sound
    <3> QED  BY <1>1, <3>3, <3>5 DEF HasKey
  <2> QED  BY <2>2, <2>3 DEF Peer!Poll
<1>4. PICK h : /\ Became(r, h) /\ h.pc \notin {"reserve", "send"}
               /\ \A k \in {"challenge", "verify"} : HasKey(h, k) <=> HasKey(req[r], k)
  BY <1>3
<1>5. KeysHeld'
  BY <1>1, <1>4, KeysStay
<1> QED  BY <1>1, <1>4, <1>5, QuietStep

(* A handler gives its key away, or one that is another's by now *)
LEMMA GivingUp ==
  ASSUME PeerInv, NEW r \in Requests, NEW h, Became(r, h), NEW k, k = req[r].kind,
         h.pc \in {"idle", "cleaned"}, k \in {"challenge", "verify"}, req[r].pc # "idle",
         pending_requests' = pending_requests \ {k},
         leaked' = leaked \ {k} \/ leaked' = leaked,
         stolen \subseteq stolen', k \in pending_requests /\ ~ HasKey(req[r], k) => k \in stolen',
         stolen' \subseteq stolen \cup {k}
  PROVE  KeysHeld'
<1>1. /\ req'[r] = h /\ \A s \in Requests : s # r => req'[s] = req[s]
  BY BecameType
<1>2. /\ \A j : ~ HasKey(h, j)
      /\ \A j : j # k => ~ HasKey(req[r], j)
  BY DEF HasKey
<1>3. ASSUME NEW j \in {"challenge", "verify"}
      PROVE  /\ j \in pending_requests' =>
                   j \in leaked' \/ \E s \in Requests : HasKey(req'[s], j)
             /\ j \notin stolen' =>
                   \A s, t \in Requests : HasKey(req'[s], j) =>
                       j \in pending_requests' /\ (HasKey(req'[t], j) => t = s)
  <2>1. /\ j \in pending_requests => j \in leaked \/ \E s \in Requests : HasKey(req[s], j)
        /\ j \notin stolen =>
              \A s, t \in Requests : HasKey(req[s], j) =>
                  j \in pending_requests /\ (HasKey(req[t], j) => t = s)
    BY HoldingEach DEF PeerInv, KeysHeld
  <2>2. CASE j = k
    <3>1. j \notin pending_requests'
      BY <2>2
    <3>2. j \notin stolen' => \A s \in Requests : ~ HasKey(req'[s], j)
      BY <1>1, <1>2, <2>1, <2>2
    <3> QED  BY <3>1, <3>2
  <2>3. CASE j # k
    <3>1. \A s \in Requests : HasKey(req'[s], j) <=> HasKey(req[s], j)
      BY <1>1, <1>2, <2>3
    <3>2. (j \in pending_requests' <=> j \in pending_requests) /\ (j \in leaked' <=> j \in leaked)
          /\ (j \in stolen' <=> j \in stolen)
      BY <2>3
    <3> QED  BY <2>1, <3>1, <3>2
  <2> QED  BY <2>2, <2>3
<1> QED  BY <1>3, HoldingEach DEF KeysHeld

LEMMA CleanupInv == ASSUME PeerInv, NEW r \in Requests, Peer!Cleanup(r) PROVE PeerInv'
<1>1. /\ req[r].pc = "cleanup" /\ UNCHANGED <<leaked, stolen>> /\ Peer!Goto(r, "cleaned")
      /\ pending_requests' = pending_requests \ {"challenge"}
      /\ UNCHANGED <<room, chain, coins, blockchain_episodes, told, drift, waiting,
                     used_utxos, timers, utxo_cache, doubtful>>
  BY DEF Peer!Cleanup, Peer!chainVars, Peer!utxoVars
<1>2. req[r].kind = "challenge"
  BY <1>1, HandlerType DEF Sound
<1>3. PICK h : Became(r, h) /\ h.pc = "cleaned"
  BY <1>1, <1>2, Stepping DEF Steps
<1>4. HasKey(req[r], "challenge")
  BY <1>1, <1>2 DEF HasKey
<1>5. KeysHeld'
  BY <1>1, <1>2, <1>3, <1>4, GivingUp
<1> QED  BY <1>1, <1>3, <1>5, QuietStep

LEMMA DropInv == ASSUME PeerInv, NEW r \in Requests, Peer!Drop(r) PROVE PeerInv'
<1> PICK k : k = req[r].kind
  OBVIOUS
<1>1. /\ req[r].pc \in {"drop", "cleaned"} /\ pending_requests' = pending_requests \ {k}
      /\ leaked' = leaked \ {k} /\ req' = [req EXCEPT ![r] = Peer!Idle]
      /\ stolen' = IF req[r].pc = "cleaned" /\ k \in pending_requests
                   THEN stolen \cup {k} ELSE stolen
      /\ UNCHANGED <<room, chain, coins, blockchain_episodes, told, drift, waiting,
                     used_utxos, timers, utxo_cache, doubtful>>
  BY DEF Peer!Drop, Peer!chainVars, Peer!utxoVars
<1>2. k \in {"challenge", "verify"}
  BY <1>1, HandlerType DEF Sound
<1>3. Became(r, Peer!Idle)
  BY <1>1, IdleHandler DEF Became, Sound
<1>4. req[r].pc # "cleaned" => HasKey(req[r], k)
  BY <1>1 DEF HasKey
<1>5. /\ stolen \subseteq stolen' /\ stolen' \subseteq stolen \cup {k}
      /\ k \in pending_requests /\ ~ HasKey(req[r], k) => k \in stolen'
  BY <1>1, <1>4
<1>6. KeysHeld'
  BY <1>1, <1>2, <1>3, <1>5, IdleHandler, GivingUp
<1> QED  BY <1>1, <1>3, <1>6, IdleHandler, QuietStep

LEMMA PopulateInv == ASSUME PeerInv, NEW r \in Requests, Peer!Populate(r) PROVE PeerInv'
<1>1. /\ req[r].pc = "member" /\ Peer!Goto(r, "choose")
      /\ UNCHANGED <<room, chain, coins, told, waiting, pending_requests, leaked, stolen,
                     used_utxos, timers, utxo_cache, doubtful>>
      /\ \/ UNCHANGED <<blockchain_episodes, drift>>
         \/ /\ blockchain_episodes # None /\ drift' = TRUE
            /\ blockchain_episodes' =
                  [blockchain_episodes EXCEPT !.authenticated = @ \cup {wallet}]
  BY DEF Peer!Populate, Peer!utxoVars, Peer!keyVars
<1>2. PICK h : Became(r, h) /\ h.pc = "choose" /\ h.kind = req[r].kind
  BY <1>1, Stepping DEF Steps
<1>3. KeysHeld'
  BY <1>1, <1>2, KeysStay DEF HasKey
<1>4. HandlersType' /\ req'[r] = h /\ \A s \in Requests : s # r => req'[s] = req[s]
  BY <1>2, BecameType
<1>5. Reserved'
  BY <1>1, <1>2, <1>4, ReservedStays DEF PeerInv, Reserved
<1>6. StoreType' /\ Undoable'
  <2>1. CASE UNCHANGED <<blockchain_episodes, drift>>
    BY <1>1, <2>1, StoreStays, UndoableStays
  <2>2. CASE /\ blockchain_episodes # None /\ drift' = TRUE
             /\ blockchain_episodes' =
                   [blockchain_episodes EXCEPT !.authenticated = @ \cup {wallet}]
    <3>1. PICK users : users = blockchain_episodes.authenticated \cup {wallet}
      OBVIOUS
    <3>2. blockchain_episodes \in Rooms /\ blockchain_episodes.authorized # <<>>
          /\ wallet \in PubKeys
      BY <2>2, PeerParts
    <3>3. blockchain_episodes' = [blockchain_episodes EXCEPT !.authenticated = users]
      BY <2>2, <3>1
    <3>4. users \in SUBSET PubKeys
      BY <3>1, <3>2 DEF Rooms
    <3>5. blockchain_episodes' \in Rooms /\ blockchain_episodes'.authorized # <<>>
      BY <3>2, <3>3, <3>4 DEF Rooms
    <3>6. StoreType'
      BY <1>1, <3>5 DEF PeerInv, StoreType
    <3>7. Undoable'
      BY <1>1, <2>2 DEF PeerInv, Undoable
    <3> QED  BY <3>6, <3>7
  <2> QED  BY <1>1, <2>1, <2>2
<1> QED  BY <1>1, <1>3, <1>4, <1>5, <1>6, LedgerStays DEF PeerInv

LEMMA LowestIn == ASSUME NEW S \in SUBSET Nat, S # {} PROVE Peer!Lowest(S) \in S
<1>1. \E c \in S : \A d \in S : c <= d
  BY LeastNatural
<1> QED  BY <1>1 DEF Peer!Lowest

LEMMA ChooseInv == ASSUME PeerInv, NEW r \in Requests, Peer!Choose(r) PROVE PeerInv'
<1> PICK entries, unused : /\ entries = IF utxo_cache # None THEN utxo_cache ELSE coins
                           /\ unused = entries \ used_utxos
  OBVIOUS
<1>1. /\ req[r].pc = "choose"
      /\ UNCHANGED <<room, chain, coins, blockchain_episodes, told, drift, waiting,
                     pending_requests, leaked, stolen, used_utxos, timers, doubtful>>
      /\ utxo_cache' = utxo_cache \/ utxo_cache' = entries
      /\ \/ Peer!Submitted(r)
         \/ /\ unused # {}
            /\ req' = [req EXCEPT ![r].pc = "reserve", ![r].coin = Peer!Lowest(unused)]
  BY DEF Peer!Choose, Peer!chainVars, Peer!keyVars
<1>2. entries \in SUBSET Nat /\ \A c \in entries : Known(c) \/ c \in coins
  BY DEF PeerInv, StoreType, Reserved
<1>3. StoreType'
  BY <1>1, <1>2 DEF PeerInv, StoreType
<1>4. utxo_cache' # None => \A c \in utxo_cache' : Known(c) \/ c \in coins
  BY <1>1, <1>2 DEF PeerInv, Reserved
<1>5. CASE Peer!Submitted(r)
  <2>1. PICK h : /\ Became(r, h) /\ h.pc \notin {"reserve", "send"}
                 /\ \A k \in {"challenge", "verify"} : HasKey(h, k) <=> HasKey(req[r], k)
    BY <1>1, <1>5, AfterSubmission
  <2>2. HandlersType' /\ req'[r] = h /\ \A s \in Requests : s # r => req'[s] = req[s]
    BY <2>1, BecameType
  <2>3. Reserved'
    BY <1>1, <1>4, <2>1, <2>2, ReservedStays
  <2>4. KeysHeld'
    BY <1>1, <2>1, KeysStay
  <2> QED  BY <1>1, <1>3, <2>2, <2>3, <2>4, LedgerStays, UndoableStays DEF PeerInv
<1>6. CASE /\ unused # {}
           /\ req' = [req EXCEPT ![r].pc = "reserve", ![r].coin = Peer!Lowest(unused)]
  <2>1. PICK c : c = Peer!Lowest(unused)
    OBVIOUS
  <2>2. c \in entries /\ c \in Nat
    BY <1>2, <1>6, <2>1, LowestIn
  <2>3. PICK h : h = [req[r] EXCEPT !.pc = "reserve", !.coin = c]
    OBVIOUS
  <2>4. req[r] \in Handlers /\ Sound(req[r]) /\ req \in [Requests -> Handlers]
    BY HandlerType, PeerParts
  <2>5. h = [pc |-> "reserve", kind |-> req[r].kind, cmd |-> req[r].cmd, by |-> req[r].by,
             coin |-> c, polls |-> req[r].polls]
    BY <2>3, <2>4 DEF Handlers
  <2>6. h \in Handlers /\ h.pc = "reserve" /\ h.kind = req[r].kind /\ h.coin = c
        /\ h.cmd = req[r].cmd /\ h.by = req[r].by
    BY <2>2, <2>4, <2>5 DEF Handlers, Steps
  <2>7. req' = [req EXCEPT ![r] = h]
    BY <1>6, <2>1, <2>3, <2>4
  <2>8. Became(r, h)
    BY <1>1, <2>2, <2>4, <2>6, <2>7 DEF Became, Sound
  <2>9. HandlersType' /\ req'[r] = h /\ \A s \in Requests : s # r => req'[s] = req[s]
    BY <2>8, BecameType
  <2>10. KeysHeld'
    BY <1>1, <2>6, <2>8, KeysStay DEF HasKey
  <2>11. Reserved'
    <3>1. \A d : (Known(d)' <=> Known(d)) /\ (Peer!Spent(d)' <=> Peer!Spent(d))
          /\ (SpentBefore(d, Len(chain))' <=> SpentBefore(d, Len(chain)))
      BY <1>1 DEF Known, Peer!Spent, SpentBefore
    <3>2. /\ \A d \in Nat : Peer!Spent(d)' \/ SpentBefore(d, Len(chain))' => Known(d)'
          /\ utxo_cache' # None => \A d \in utxo_cache' : Known(d)' \/ d \in coins'
      BY <1>1, <1>4, <3>1 DEF PeerInv, Reserved
    <3>3. ASSUME NEW s \in Requests, NEW d, d = req'[s].coin
          PROVE  /\ req'[s].pc = "reserve" => Known(d)' \/ d \in coins'
                 /\ req'[s].pc = "send" /\ d \notin doubtful' =>
                       /\ d \in used_utxos' /\ d \in coins' /\ ~ Peer!Spent(d)'
                       /\ \A t \in Requests : req'[t].pc = "send" /\ req'[t].coin = d => t = s
      <4>1. CASE s = r
        BY <1>1, <1>2, <2>2, <2>6, <2>9, <3>1, <3>3, <4>1
      <4>2. CASE s # r
        BY <1>1, <2>6, <2>9, <3>1, <3>3, <4>2 DEF PeerInv, Reserved, CoinHeld
      <4> QED  BY <4>1, <4>2
    <3> QED  BY <3>2, <3>3 DEF Reserved, CoinHeld
  <2> QED  BY <1>1, <1>3, <2>9, <2>10, <2>11, LedgerStays, UndoableStays DEF PeerInv
<1> QED  BY <1>1, <1>5, <1>6

(* An output that a handler is about to spend *)
LEMMA SenderCoin ==
  ASSUME PeerInv, NEW r \in Requests, NEW c, c = req[r].coin
  PROVE  /\ req[r].pc \in {"reserve", "send"} => c \in Nat /\ c # None
         /\ req[r].pc = "reserve" => Known(c) \/ c \in coins
         /\ req[r].pc = "send" /\ c \notin doubtful =>
               /\ c \in used_utxos /\ c \in coins /\ ~ Peer!Spent(c)
               /\ ~ SpentBefore(c, Len(chain))
               /\ \A s \in Requests : req[s].pc = "send" /\ req[s].coin = c => s = r
<1>1. req[r].pc \in {"reserve", "send"} => c \in Nat /\ c # None
  BY HandlerType, PeerParts DEF Sound
<1>2. CoinHeld(r) /\ Ledger
  BY DEF PeerInv, Reserved
<1> QED  BY <1>1, <1>2 DEF CoinHeld, Ledger

LEMMA ReserveInv == ASSUME PeerInv, NEW r \in Requests, Peer!Reserve(r) PROVE PeerInv'
<1> PICK c : c = req[r].coin
  OBVIOUS
<1>1. /\ req[r].pc = "reserve" /\ used_utxos' = used_utxos \cup {c}
      /\ doubtful' = IF c \in used_utxos THEN doubtful \cup {c} ELSE doubtful
      /\ Peer!Goto(r, "send")
      /\ UNCHANGED <<room, chain, coins, blockchain_episodes, told, drift, waiting,
                     pending_requests, leaked, stolen, utxo_cache, timers>>
  BY DEF Peer!Reserve, Peer!chainVars, Peer!keyVars
<1>2. PICK h : Became(r, h) /\ h.pc = "send" /\ h.kind = req[r].kind /\ h.coin = c
  BY <1>1, Stepping DEF Steps
<1>3. HandlersType' /\ req'[r] = h /\ \A s \in Requests : s # r => req'[s] = req[s]
  BY <1>2, BecameType
<1>4. c \in Nat /\ (Known(c) \/ c \in coins)
  BY <1>1, SenderCoin
<1>5. StoreType'
  BY <1>1, <1>4 DEF PeerInv, StoreType
<1>6. KeysHeld'
  BY <1>1, <1>2, KeysStay DEF HasKey
<1>7. Reserved'
  <2>1. \A d : (Known(d) => Known(d)') /\ (Peer!Spent(d)' <=> Peer!Spent(d))
               /\ (SpentBefore(d, Len(chain))' <=> SpentBefore(d, Len(chain)))
    BY <1>1 DEF Known, Peer!Spent, SpentBefore
  <2>2. /\ \A d \in Nat : Peer!Spent(d)' \/ SpentBefore(d, Len(chain))' => Known(d)'
        /\ utxo_cache' # None => \A d \in utxo_cache' : Known(d)' \/ d \in coins'
    BY <1>1, <2>1 DEF PeerInv, Reserved
  <2>3. ASSUME NEW s \in Requests PROVE CoinHeld(s)'
    <3> PICK d : d = req'[s].coin
      OBVIOUS
    <3>1. CASE s = r
      <4>1. d = c /\ req'[s].pc = "send"
        BY <1>2, <1>3, <3>1
      <4>2. ASSUME c \notin doubtful'
            PROVE  /\ c \in used_utxos' /\ c \in coins' /\ ~ Peer!Spent(c)'
                   /\ \A t \in Requests : req'[t].pc = "send" /\ req'[t].coin = c => t = r
        <5>1. c \notin used_utxos /\ c \notin doubtful
          BY <1>1, <4>2
        <5>2. c \in coins /\ ~ Peer!Spent(c)
          BY <1>4, <5>1 DEF Known, PeerInv, Reserved
        <5>3. \A t \in Requests : req[t].pc = "send" => req[t].coin # c
          BY <5>1, SenderCoin
        <5> QED  BY <1>1, <1>3, <2>1, <5>2, <5>3
      <4> QED  BY <3>1, <4>1, <4>2 DEF CoinHeld
    <3>2. CASE s # r
      <4>1. req'[s] = req[s] /\ d = req[s].coin
        BY <1>3, <3>2
      <4>2. /\ req[s].pc = "reserve" => Known(d) \/ d \in coins
            /\ req[s].pc = "send" /\ d \notin doubtful =>
                  /\ d \in used_utxos /\ d \in coins /\ ~ Peer!Spent(d)
                  /\ \A t \in Requests : req[t].pc = "send" /\ req[t].coin = d => t = s
        BY <4>1, SenderCoin
      <4>3. ASSUME req[s].pc = "send", d \notin doubtful'
            PROVE  /\ d \in used_utxos' /\ d \in coins' /\ ~ Peer!Spent(d)'
                   /\ \A t \in Requests : req'[t].pc = "send" /\ req'[t].coin = d => t = s
        <5>1. d \notin doubtful
          BY <1>1, <4>3
        <5>2. d \in used_utxos
          BY <4>2, <4>3, <5>1
        <5>3. d # c
          BY <1>1, <4>3, <5>2
        <5> QED  BY <1>1, <1>2, <1>3, <2>1, <4>2, <4>3, <5>1, <5>3
      <4> QED  BY <1>1, <2>1, <4>1, <4>2, <4>3 DEF CoinHeld
    <3> QED  BY <3>1, <3>2
  <2> QED  BY <2>2, <2>3 DEF Reserved
<1> QED  BY <1>1, <1>3, <1>5, <1>6, <1>7, LedgerStays, UndoableStays DEF PeerInv

LEMMA SendInvPeer == ASSUME PeerInv, NEW r \in Requests, Peer!Send(r) PROVE PeerInv'
<1> PICK c, tx : c = req[r].coin /\ tx = [cmd |-> req[r].cmd, by |-> wallet, coin |-> c]
  OBVIOUS
<1>1. /\ req[r].pc = "send" /\ Peer!Submitted(r)
      /\ UNCHANGED <<room, chain, coins, blockchain_episodes, told, drift,
                     pending_requests, leaked, stolen, utxo_cache>>
      /\ \/ /\ Peer!Possible(r) /\ waiting' = waiting \cup {tx} /\ timers' = timers \cup {c}
            /\ used_utxos' = used_utxos /\ doubtful' = doubtful
         \/ /\ used_utxos' = used_utxos \ {c} /\ UNCHANGED <<waiting, timers, doubtful>>
         \/ /\ Peer!Possible(r) /\ waiting' = waiting \cup {tx} /\ timers' = timers
            /\ used_utxos' = used_utxos \ {c} /\ doubtful' = doubtful \cup {c}
  BY DEF Peer!Send, Peer!Taken, Peer!chainVars, Peer!keyVars
<1>2. PICK h : /\ Became(r, h) /\ h.pc \notin {"reserve", "send"}
               /\ \A k \in {"challenge", "verify"} : HasKey(h, k) <=> HasKey(req[r], k)
  BY <1>1, AfterSubmission
<1>3. HandlersType' /\ req'[r] = h /\ \A s \in Requests : s # r => req'[s] = req[s]
  BY <1>2, BecameType
<1>4. /\ c \in Nat
      /\ c \notin doubtful =>
            /\ c \in used_utxos /\ c \in coins /\ ~ Peer!Spent(c) /\ ~ SpentBefore(c, Len(chain))
            /\ \A s \in Requests : req[s].pc = "send" /\ req[s].coin = c => s = r
  BY <1>1, SenderCoin
<1>5. tx \in Txs /\ tx.coin = c
  BY <1>1, <1>4, HandlerType, PeerParts DEF Txs, Sound
<1>6. StoreType'
  BY <1>1, <1>4, <1>5 DEF PeerInv, StoreType
<1>7. KeysHeld'
  BY <1>1, <1>2, KeysStay
<1>8. Reserved'
  <2>1. \A d : /\ SpentBefore(d, Len(chain))' <=> SpentBefore(d, Len(chain))
               /\ Peer!Spent(d)' => Peer!Spent(d) \/ d = c
    BY <1>1, <1>5 DEF Peer!Spent, SpentBefore
  <2>2. \A d : d # c => (Known(d)' <=> Known(d)) /\ (d \in doubtful' <=> d \in doubtful)
                        /\ (d \in used_utxos' <=> d \in used_utxos)
    BY <1>1 DEF Known
  <2>3. \/ Known(c)'
        \/ c \in coins /\ c \notin doubtful /\ ~ Peer!Spent(c)' /\ ~ SpentBefore(c, Len(chain))
    <3>1. CASE c \in doubtful
      BY <1>1, <3>1 DEF Known
    <3>2. CASE c \notin doubtful
      BY <1>1, <1>4, <3>2 DEF Known, Peer!Spent
    <3> QED  BY <3>1, <3>2
  <2>4. ASSUME NEW d \in Nat, Peer!Spent(d)' \/ SpentBefore(d, Len(chain))' PROVE Known(d)'
    <3>1. CASE d = c
      BY <2>1, <2>3, <2>4, <3>1
    <3>2. CASE d # c
      BY <2>1, <2>2, <2>4, <3>2 DEF PeerInv, Reserved
    <3> QED  BY <3>1, <3>2
  <2>5. utxo_cache' # None => \A d \in utxo_cache' : Known(d)' \/ d \in coins'
    BY <1>1, <2>2, <2>3 DEF PeerInv, Reserved
  <2>6. ASSUME NEW s \in Requests PROVE CoinHeld(s)'
    <3> PICK d : d = req'[s].coin
      OBVIOUS
    <3>1. CASE s = r
      BY <1>2, <1>3, <3>1 DEF CoinHeld
    <3>2. CASE s # r
      <4>1. req'[s] = req[s] /\ d = req[s].coin
        BY <1>3, <3>2
      <4>2. /\ req[s].pc = "reserve" => Known(d) \/ d \in coins
            /\ req[s].pc = "send" /\ d \notin doubtful =>
                  /\ d \in used_utxos /\ d \in coins /\ ~ Peer!Spent(d)
                  /\ \A t \in Requests : req[t].pc = "send" /\ req[t].coin = d => t = s
        BY <4>1, SenderCoin
      <4>3. req[s].pc = "reserve" => Known(d)' \/ d \in coins'
        BY <1>1, <2>2, <2>3, <4>2
      <4>4. ASSUME req[s].pc = "send", d \notin doubtful'
            PROVE  /\ d \in used_utxos' /\ d \in coins' /\ ~ Peer!Spent(d)'
                   /\ \A t \in Requests : req'[t].pc = "send" /\ req'[t].coin = d => t = s
        <5>1. d \notin doubtful
          BY <1>1, <4>4
        <5>2. d # c
          BY <1>1, <3>2, <4>2, <4>4, <5>1
        <5> QED  BY <1>1, <1>2, <1>3, <2>1, <2>2, <4>2, <4>4, <5>1, <5>2
      <4> QED  BY <4>1, <4>3, <4>4 DEF CoinHeld
    <3> QED  BY <3>1, <3>2
  <2> QED  BY <2>4, <2>5, <2>6 DEF Reserved
<1> QED  BY <1>1, <1>3, <1>6, <1>7, <1>8, LedgerStays, UndoableStays DEF PeerInv

(* The handlers stand still *)
LEMMA HandlersStay ==
  ASSUME PeerInv, UNCHANGED <<req, pending_requests, leaked, stolen>>
  PROVE  HandlersType' /\ KeysHeld'
BY DEF PeerInv, HandlersType, Sound, KeysHeld, Peer!Holding

(* The outputs change under handlers that stand still *)
LEMMA ReservedMoves ==
  ASSUME PeerInv, UNCHANGED req,
         \A d \in Nat : Peer!Spent(d)' \/ SpentBefore(d, Len(chain))' => Known(d)',
         \A d : Known(d) \/ d \in coins => Known(d)' \/ d \in coins',
         utxo_cache' # None => utxo_cache' = utxo_cache,
         \A d \in Nat : d \notin doubtful' =>
            /\ d \notin doubtful
            /\ d \in used_utxos => d \in used_utxos'
            /\ d \in coins /\ d \in used_utxos /\ ~ Peer!Spent(d) => d \in coins' /\ ~ Peer!Spent(d)'
  PROVE  Reserved'
<1>1. utxo_cache' # None => \A d \in utxo_cache' : Known(d)' \/ d \in coins'
  BY DEF PeerInv, Reserved
<1>2. ASSUME NEW s \in Requests PROVE CoinHeld(s)'
  <2> PICK d : d = req[s].coin
    OBVIOUS
  <2>1. /\ req[s].pc \in {"reserve", "send"} => d \in Nat
        /\ req[s].pc = "reserve" => Known(d) \/ d \in coins
        /\ req[s].pc = "send" /\ d \notin doubtful =>
              /\ d \in used_utxos /\ d \in coins /\ ~ Peer!Spent(d)
              /\ \A t \in Requests : req[t].pc = "send" /\ req[t].coin = d => t = s
    BY SenderCoin
  <2>2. req[s].pc = "reserve" => Known(d)' \/ d \in coins'
    BY <2>1
  <2>3. req[s].pc = "send" /\ d \notin doubtful' =>
           /\ d \in used_utxos' /\ d \in coins' /\ ~ Peer!Spent(d)'
           /\ \A t \in Requests : req[t].pc = "send" /\ req[t].coin = d => t = s
    BY <2>1
  <2> QED  BY <2>2, <2>3 DEF CoinHeld
<1> QED  BY <1>1, <1>2 DEF Reserved

LEMMA ReleaseInv == ASSUME PeerInv, Peer!Release PROVE PeerInv'
<1>1. PICK c \in timers :
         /\ timers' = timers \ {c} /\ used_utxos' = used_utxos \ {c} /\ doubtful' = doubtful \cup {c}
         /\ UNCHANGED <<room, chain, coins, blockchain_episodes, told, drift, waiting, req,
                        pending_requests, leaked, stolen, utxo_cache>>
  BY DEF Peer!Release, Peer!chainVars, Peer!keyVars
<1>2. StoreType'
  BY <1>1 DEF PeerInv, StoreType
<1>3. \A d : /\ SpentBefore(d, Len(chain))' <=> SpentBefore(d, Len(chain))
             /\ Peer!Spent(d)' <=> Peer!Spent(d)
             /\ Known(d) => Known(d)'
  BY <1>1 DEF Peer!Spent, SpentBefore, Known
<1>4. \A d \in Nat : Peer!Spent(d)' \/ SpentBefore(d, Len(chain))' => Known(d)'
  BY <1>3 DEF PeerInv, Reserved
<1>5. Reserved'
  BY <1>1, <1>3, <1>4, ReservedMoves
<1> QED  BY <1>1, <1>2, <1>5, HandlersStay, LedgerStays, UndoableStays DEF PeerInv

LEMMA ExpireInv == ASSUME PeerInv, Peer!Expire PROVE PeerInv'
<1>1. /\ utxo_cache' = None
      /\ UNCHANGED <<room, chain, coins, blockchain_episodes, told, drift, waiting, req,
                     pending_requests, leaked, stolen, used_utxos, timers, doubtful>>
  BY DEF Peer!Expire, Peer!chainVars, Peer!keyVars
<1>2. StoreType'
  BY <1>1 DEF PeerInv, StoreType
<1>3. Reserved'
  BY <1>1, ReservedStays
<1> QED  BY <1>1, <1>2, <1>3, HandlersStay, LedgerStays, UndoableStays DEF PeerInv

LEMMA GuestInv == ASSUME PeerInv, Peer!Guest PROVE PeerInv'
<1>1. PICK k \in PubKeys, type \in {"NewEpisode", "RequestChallenge"} :
         /\ waiting' = waiting \cup {[cmd |-> [type |-> type], by |-> k, coin |-> None]}
         /\ UNCHANGED <<room, chain, coins, blockchain_episodes, told, drift, req,
                        pending_requests, leaked, stolen, used_utxos, utxo_cache, timers, doubtful>>
  BY DEF Peer!Guest, Peer!chainVars, Peer!keyVars, Peer!utxoVars
<1>2. [type |-> type] \in Peer!Commands
  BY DEF Peer!Commands, Peer!Room!Commands
<1>3. PICK tx \in Txs : tx.coin = None /\ waiting' = waiting \cup {tx}
  BY <1>1, <1>2 DEF Txs
<1>4. StoreType'
  BY <1>1, <1>3 DEF PeerInv, StoreType
<1>5. \A d \in Nat : Peer!Spent(d)' <=> Peer!Spent(d)
  BY <1>3, PeerParts DEF Peer!Spent
<1>6. \A d : /\ SpentBefore(d, Len(chain))' <=> SpentBefore(d, Len(chain))
             /\ Known(d)' <=> Known(d)
  BY <1>1 DEF SpentBefore, Known
<1>7. \A d \in Nat : Peer!Spent(d)' \/ SpentBefore(d, Len(chain))' => Known(d)'
  BY <1>5, <1>6 DEF PeerInv, Reserved
<1>8. Reserved'
  BY <1>1, <1>5, <1>6, <1>7, ReservedMoves
<1> QED  BY <1>1, <1>4, <1>8, HandlersStay, LedgerStays, UndoableStays DEF PeerInv

-----------------------------------------------------------------------------
(* The chain *)

(* The outputs before and after one is spent: Q is P and c *)
In(d, S) == d \in 1 .. NumCoins \/ d - NumCoins \in S

LEMMA OneSpent ==
  ASSUME NEW P \in SUBSET Nat, \A d \in P : In(d, P), NEW c \in Nat, c \notin P, In(c, P),
         NEW Q, Q = P \cup {c}, NEW d \in Nat
  PROVE  /\ c \in 1 .. NumCoins \/ c > NumCoins
         /\ NumCoins # 0
         /\ In(d, Q) /\ d \notin Q <=> (In(d, P) /\ d \notin P /\ d # c) \/ d = c + NumCoins
         /\ In(d, P) /\ d \notin P <=> (In(d, Q) /\ d \notin Q /\ d # c + NumCoins) \/ d = c
<1>1. NumCoins \in Nat
  BY PeerAssumption
<1>2. NumCoins # 0 /\ c # 0
  BY <1>1 DEF In
<1>3. c + NumCoins \notin P /\ ~ In(c + NumCoins, P) /\ c + NumCoins # c
  <2>1. ~ In(c + NumCoins, P)
    BY <1>1, <1>2 DEF In
  <2> QED  BY <1>1, <1>2, <2>1
<1>4. In(d, Q) <=> In(d, P) \/ d = c + NumCoins
  BY <1>1 DEF In
<1>5. c \in 1 .. NumCoins \/ c > NumCoins
  BY <1>1, <1>2
<1> QED  BY <1>2, <1>3, <1>4, <1>5

LEMMA CoinsOf ==
  ASSUME PeerInv, NEW n \in 0 .. Len(chain), NEW P, P = {d \in Nat : SpentBefore(d, n)}
  PROVE  /\ \A d \in Nat : (Born(d, n) <=> In(d, P)) /\ (SpentBefore(d, n) <=> d \in P)
         /\ \A d \in P : In(d, P)
<1>1. Len(chain) \in Nat /\ NumCoins \in Nat /\ None \notin Nat
  BY PeerParts
<1>2. \A d \in Nat : (Born(d, n) <=> In(d, P)) /\ (SpentBefore(d, n) <=> d \in P)
  BY <1>1 DEF Born, In
<1>3. ASSUME NEW d \in P PROVE In(d, P)
  <2>1. PICK i \in 1 .. n : chain[i].tx.coin = d
    BY DEF SpentBefore
  <2>2. d # None /\ d \in Nat /\ i \in 1 .. Len(chain)
    BY <1>1
  <2>3. Born(d, i - 1)
    BY <2>1, <2>2 DEF PeerInv, Ledger
  <2>4. \A e : SpentBefore(e, i - 1) => SpentBefore(e, n)
    BY <1>1 DEF SpentBefore
  <2>5. Born(d, n)
    BY <2>3, <2>4 DEF Born
  <2> QED  BY <1>2, <2>2, <2>5
<1> QED  BY <1>2, <1>3

LEMMA ChainGrows ==
  ASSUME PeerInv, NEW b \in Blocks, chain' = Append(chain, b), NEW n, n = Len(chain)
  PROVE  /\ n \in Nat /\ chain' \in Seq(Blocks) /\ Len(chain') = n + 1 /\ chain'[n + 1] = b
         /\ \A i \in 1 .. n : chain'[i] = chain[i]
         /\ \A d, m : m \in 0 .. n => (SpentBefore(d, m)' <=> SpentBefore(d, m))
         /\ \A d, m : m \in 0 .. n => (Born(d, m)' <=> Born(d, m))
         /\ \A d : SpentBefore(d, n + 1)' <=> SpentBefore(d, n) \/ b.tx.coin = d
<1>1. chain \in Seq(Blocks) /\ n \in Nat
  BY PeerParts
<1>2. /\ chain' \in Seq(Blocks) /\ Len(chain') = n + 1 /\ chain'[n + 1] = b
      /\ \A i \in 1 .. n : chain'[i] = chain[i]
  BY <1>1
<1>3. \A d, m : m \in 0 .. n => (SpentBefore(d, m)' <=> SpentBefore(d, m))
  BY <1>1, <1>2 DEF SpentBefore
<1>4. \A d, m : m \in 0 .. n => (Born(d, m)' <=> Born(d, m))
  BY <1>3 DEF Born
<1>5. \A d : SpentBefore(d, n + 1)' <=> SpentBefore(d, n) \/ b.tx.coin = d
  <2>1. \A i : i \in 1 .. n + 1 <=> i \in 1 .. n \/ i = n + 1
    BY <1>1
  <2> QED  BY <1>2, <2>1 DEF SpentBefore
<1> QED  BY <1>1, <1>2, <1>3, <1>4, <1>5

LEMMA LedgerGrows ==
  ASSUME PeerInv, NEW b \in Blocks, chain' = Append(chain, b),
         b.tx.coin # None => b.tx.coin \in coins,
         coins' = IF b.tx.coin = None THEN coins
                  ELSE (coins \ {b.tx.coin}) \cup {b.tx.coin + NumCoins}
  PROVE  Ledger' /\ coins' \in SUBSET Nat
<1> PICK n, c, P : n = Len(chain) /\ c = b.tx.coin /\ P = {d \in Nat : SpentBefore(d, n)}
  OBVIOUS
<1>1. /\ n \in Nat /\ Len(chain') = n + 1 /\ chain'[n + 1] = b
      /\ \A i \in 1 .. n : chain'[i] = chain[i]
      /\ \A d, m : m \in 0 .. n => (SpentBefore(d, m)' <=> SpentBefore(d, m))
      /\ \A d, m : m \in 0 .. n => (Born(d, m)' <=> Born(d, m))
      /\ \A d : SpentBefore(d, n + 1)' <=> SpentBefore(d, n) \/ c = d
  BY ChainGrows
<1>2. coins \in SUBSET Nat /\ None \notin Nat /\ NumCoins \in Nat
  BY PeerParts
<1>3. \A d \in Nat : d \in coins <=> Born(d, n) /\ ~ SpentBefore(d, n)
  BY DEF PeerInv, Ledger
<1>4. /\ \A d \in Nat : (Born(d, n) <=> In(d, P)) /\ (SpentBefore(d, n) <=> d \in P)
      /\ \A d \in P : In(d, P)
  BY <1>1, CoinsOf
<1>5. ASSUME NEW i \in 1 .. n + 1, NEW d, d = chain'[i].tx.coin, d # None
      PROVE  ~ SpentBefore(d, i - 1)' /\ Born(d, i - 1)'
  <2>1. CASE i \in 1 .. n
    <3>1. d = chain[i].tx.coin /\ i - 1 \in 0 .. n
      BY <1>1, <1>5, <2>1
    <3>2. ~ SpentBefore(d, i - 1) /\ Born(d, i - 1)
      BY <1>5, <2>1, <3>1 DEF PeerInv, Ledger
    <3> QED  BY <1>1, <3>1, <3>2
  <2>2. CASE i = n + 1
    <3>1. d = c /\ i - 1 = n /\ n \in 0 .. n
      BY <1>1, <1>5, <2>2
    <3>2. d \in coins /\ d \in Nat
      BY <1>2, <1>5, <3>1
    <3>3. ~ SpentBefore(d, n) /\ Born(d, n)
      BY <1>3, <3>2
    <3> QED  BY <1>1, <3>1, <3>3
  <2> QED  BY <1>1, <2>1, <2>2
<1>6. /\ \A d \in Nat : d \in coins' <=> Born(d, n + 1)' /\ ~ SpentBefore(d, n + 1)'
      /\ coins' \in SUBSET Nat
  <2>1. CASE c = None
    <3>1. \A d \in Nat : SpentBefore(d, n + 1)' <=> SpentBefore(d, n)
      BY <1>1, <1>2, <2>1
    <3>2. \A d \in Nat : Born(d, n + 1)' <=> Born(d, n)
      BY <3>1 DEF Born
    <3> QED  BY <1>2, <1>3, <2>1, <3>1, <3>2
  <2>2. CASE c # None
    <3>1. c \in Nat /\ c \in coins /\ c \notin P /\ In(c, P)
      BY <1>2, <1>3, <1>4, <2>2
    <3>2. PICK Q : Q = P \cup {c}
      OBVIOUS
    <3>3. \A d \in Nat : SpentBefore(d, n + 1)' <=> d \in Q
      BY <1>1, <1>4, <3>2
    <3>4. \A d \in Nat : Born(d, n + 1)' <=> In(d, Q)
      <4>1. \A d : d \in Q => d \in Nat
        BY <3>1, <3>2
      <4> QED  BY <3>3, <4>1 DEF Born, In
    <3>5. \A d \in Nat : In(d, Q) /\ d \notin Q <=>
                            (In(d, P) /\ d \notin P /\ d # c) \/ d = c + NumCoins
      <4> SUFFICES ASSUME NEW d \in Nat
                   PROVE  In(d, Q) /\ d \notin Q <=>
                             (In(d, P) /\ d \notin P /\ d # c) \/ d = c + NumCoins
        OBVIOUS
      <4>1. P \in SUBSET Nat /\ \A e \in P : In(e, P)
        BY <1>4
      <4> QED  BY <3>1, <3>2, <4>1, OneSpent, SMTT(20)
    <3>6. coins' = (coins \ {c}) \cup {c + NumCoins} /\ c + NumCoins \in Nat
      BY <1>2, <2>2, <3>1
    <3> QED  BY <1>2, <1>3, <1>4, <3>3, <3>4, <3>5, <3>6
  <2> QED  BY <2>1, <2>2
<1> QED  BY <1>1, <1>5, <1>6 DEF Ledger

LEMMA ChainShrinks ==
  ASSUME PeerInv, chain # <<>>, chain' = SubSeq(chain, 1, Len(chain) - 1), NEW n, n = Len(chain)
  PROVE  /\ n \in Nat /\ n >= 1 /\ chain' \in Seq(Blocks) /\ Len(chain') = n - 1
         /\ \A i \in 1 .. n - 1 : chain'[i] = chain[i]
         /\ \A d, m : m \in 0 .. n - 1 => (SpentBefore(d, m)' <=> SpentBefore(d, m))
         /\ \A d, m : m \in 0 .. n - 1 => (Born(d, m)' <=> Born(d, m))
         /\ \A d : SpentBefore(d, n) <=> SpentBefore(d, n - 1) \/ chain[n].tx.coin = d
<1>1. chain \in Seq(Blocks) /\ n \in Nat /\ n >= 1
  BY PeerParts
<1>2. /\ chain' \in Seq(Blocks) /\ Len(chain') = n - 1
      /\ \A i \in 1 .. n - 1 : chain'[i] = chain[i]
  BY <1>1
<1>3. \A d, m : m \in 0 .. n - 1 => (SpentBefore(d, m)' <=> SpentBefore(d, m))
  BY <1>1, <1>2 DEF SpentBefore
<1>4. \A d, m : m \in 0 .. n - 1 => (Born(d, m)' <=> Born(d, m))
  BY <1>3 DEF Born
<1>5. \A d : SpentBefore(d, n) <=> SpentBefore(d, n - 1) \/ chain[n].tx.coin = d
  <2>1. \A i : i \in 1 .. n <=> i \in 1 .. n - 1 \/ i = n
    BY <1>1
  <2> QED  BY <2>1 DEF SpentBefore
<1> QED  BY <1>1, <1>2, <1>3, <1>4, <1>5

LEMMA LedgerShrinks ==
  ASSUME PeerInv, chain # <<>>, chain' = SubSeq(chain, 1, Len(chain) - 1),
         NEW c, c = chain[Len(chain)].tx.coin,
         coins' = IF c = None THEN coins ELSE (coins \ {c + NumCoins}) \cup {c}
  PROVE  Ledger' /\ coins' \in SUBSET Nat /\ (c # None => c \in Nat /\ c \notin coins)
<1> PICK n, P : n = Len(chain) /\ P = {d \in Nat : SpentBefore(d, n - 1)}
  OBVIOUS
<1>1. /\ n \in Nat /\ n >= 1 /\ Len(chain') = n - 1
      /\ \A i \in 1 .. n - 1 : chain'[i] = chain[i]
      /\ \A d, m : m \in 0 .. n - 1 => (SpentBefore(d, m)' <=> SpentBefore(d, m))
      /\ \A d, m : m \in 0 .. n - 1 => (Born(d, m)' <=> Born(d, m))
      /\ \A d : SpentBefore(d, n) <=> SpentBefore(d, n - 1) \/ c = d
  BY ChainShrinks
<1>2. coins \in SUBSET Nat /\ None \notin Nat /\ NumCoins \in Nat
  BY PeerParts
<1>3. \A d \in Nat : d \in coins <=> Born(d, n) /\ ~ SpentBefore(d, n)
  BY DEF PeerInv, Ledger
<1>4. /\ \A d \in Nat : (Born(d, n - 1) <=> In(d, P)) /\ (SpentBefore(d, n - 1) <=> d \in P)
      /\ \A d \in P : In(d, P)
  <2>1. n - 1 \in 0 .. Len(chain)
    BY <1>1
  <2> QED  BY <2>1, CoinsOf
<1>5. ASSUME NEW i \in 1 .. n - 1, NEW d, d = chain'[i].tx.coin, d # None
      PROVE  ~ SpentBefore(d, i - 1)' /\ Born(d, i - 1)'
  <2>1. d = chain[i].tx.coin /\ i - 1 \in 0 .. n - 1 /\ i \in 1 .. n
    BY <1>1, <1>5
  <2>2. ~ SpentBefore(d, i - 1) /\ Born(d, i - 1)
    BY <1>5, <2>1 DEF PeerInv, Ledger
  <2> QED  BY <1>1, <2>1, <2>2
<1>6. c # None => c \in Nat /\ ~ SpentBefore(c, n - 1) /\ Born(c, n - 1)
  <2>1. n \in 1 .. Len(chain)
    BY <1>1
  <2>2. c \in Nat \cup {None}
    BY <2>1, PeerParts DEF Txs
  <2> QED  BY <2>1, <2>2 DEF PeerInv, Ledger
<1>7. /\ \A d \in Nat : d \in coins' <=> Born(d, n - 1)' /\ ~ SpentBefore(d, n - 1)'
      /\ coins' \in SUBSET Nat /\ (c # None => c \notin coins)
  <2>0. /\ \A d : SpentBefore(d, n - 1)' <=> SpentBefore(d, n - 1)
        /\ \A d : Born(d, n - 1)' <=> Born(d, n - 1)
    BY <1>1
  <2>1. CASE c = None
    <3>1. \A d \in Nat : SpentBefore(d, n) <=> SpentBefore(d, n - 1)
      BY <1>1, <1>2, <2>1
    <3>2. \A d \in Nat : Born(d, n) <=> Born(d, n - 1)
      BY <3>1 DEF Born
    <3> QED  BY <1>2, <1>3, <2>0, <2>1, <3>1, <3>2
  <2>2. CASE c # None
    <3>1. c \in Nat /\ c \notin P /\ In(c, P)
      BY <1>4, <1>6, <2>2
    <3>2. PICK Q : Q = P \cup {c}
      OBVIOUS
    <3>3. \A d \in Nat : SpentBefore(d, n) <=> d \in Q
      BY <1>1, <1>4, <3>2
    <3>4. \A d \in Nat : Born(d, n) <=> In(d, Q)
      <4>1. \A d : d \in Q => d \in Nat
        BY <3>1, <3>2
      <4> QED  BY <3>3, <4>1 DEF Born, In
    <3>5. \A d \in Nat : In(d, P) /\ d \notin P <=>
                            (In(d, Q) /\ d \notin Q /\ d # c + NumCoins) \/ d = c
      <4>1. P \in SUBSET Nat
        OBVIOUS
      <4> QED  BY <1>4, <3>1, <3>2, <4>1, OneSpent
    <3>6. coins' = (coins \ {c + NumCoins}) \cup {c}
      BY <2>2
    <3>7. c \notin coins
      BY <1>3, <3>1, <3>2, <3>3
    <3> QED  BY <1>2, <1>3, <1>4, <2>0, <3>1, <3>3, <3>4, <3>5, <3>6, <3>7
  <2> QED  BY <2>1, <2>2
<1> QED  BY <1>1, <1>5, <1>6, <1>7 DEF Ledger

(* Whether a command is executed is yes or no *)
LEMMA ExecutesOk ==
  ASSUME NEW ep, NEW tx, NEW time, NEW x, x = Peer!Executes(ep, tx, time)
  PROVE  x.ok \in BOOLEAN
<1>1. CASE tx.cmd.type = "NewEpisode"
  <2>1. PICK b : b = (ep = None)
    OBVIOUS
  <2>2. x = [ok |-> b, state |-> Peer!Room!Initialize(<<tx.by>>, 0), undo |-> None]
    BY <1>1, <2>1 DEF Peer!Executes
  <2>3. x.ok = b
    BY <2>2
  <2> QED  BY <2>1, <2>3
<1>2. CASE tx.cmd.type # "NewEpisode" /\ ep = None
  BY <1>2 DEF Peer!Executes
<1>3. CASE tx.cmd.type # "NewEpisode" /\ ep # None
  <2>1. x = Peer!Room!Execute(ep, tx.cmd, tx.by, time)
    BY <1>3 DEF Peer!Executes
  <2>2. \/ x = [ok |-> TRUE, state |-> Peer!Room!Executed(ep, tx.cmd, tx.by, time),
                undo |-> Peer!Room!RollbackOf(ep, tx.cmd, tx.by)]
        \/ x = [ok |-> FALSE, state |-> ep, undo |-> None]
    BY <2>1 DEF Peer!Room!Execute
  <2>3. x.ok = TRUE \/ x.ok = FALSE
    BY <2>2
  <2> QED  BY <2>3
<1> QED  BY <1>1, <1>2, <1>3

(* A session that is announced as revoked was in the map and is not now *)
LEMMA RevokedWhen ==
  ASSUME NEW order, NEW ep, Peer!Broadcast(order, ep) = "session_revoked"
  PROVE  /\ order.type \notin {"NewEpisode", "SubmitComment"}
         /\ Peer!Authenticated(blockchain_episodes) /\ ~ Peer!Authenticated(ep)
<1>1. order.type \notin {"NewEpisode", "SubmitComment"}
  BY DEF Peer!Broadcast
<1>2. "session_revoked" =
         IF Peer!Authenticated(blockchain_episodes) /\ ~ Peer!Authenticated(ep) THEN "session_revoked"
         ELSE IF Peer!Authenticated(ep) THEN "authentication_successful"
         ELSE IF \E k \in PubKeys : ep.active_challenges[k] # None THEN "challenge_issued"
         ELSE "nothing"
  BY <1>1 DEF Peer!Broadcast
<1> QED  BY <1>1, <1>2

LEMMA AcceptTxInv == ASSUME PeerInv, Peer!AcceptTx PROVE PeerInv'
<1>1. PICK tx \in waiting :
         LET x == Peer!Executes(room, tx, Len(chain) + 1) IN
         /\ tx.coin # None => tx.coin \in coins
         /\ coins' = IF tx.coin = None THEN coins ELSE (coins \ {tx.coin}) \cup {tx.coin + NumCoins}
         /\ waiting' = waiting \ {tx}
         /\ chain' = Append(chain, [tx |-> tx, ok |-> x.ok, undo |-> IF x.ok THEN x.undo ELSE None])
         /\ IF x.ok THEN room' = x.state /\ Peer!Notified(tx.cmd, x.state)
            ELSE UNCHANGED <<room, blockchain_episodes, told, drift>>
         /\ UNCHANGED <<req, pending_requests, leaked, stolen, used_utxos, utxo_cache, timers, doubtful>>
  BY DEF Peer!AcceptTx, Peer!Change, Peer!keyVars, Peer!utxoVars
<1> PICK n, x : n = Len(chain) /\ x = Peer!Executes(room, tx, Len(chain) + 1)
  OBVIOUS
<1> PICK b : b = [tx |-> tx, ok |-> x.ok, undo |-> IF x.ok THEN x.undo ELSE None]
  OBVIOUS
<1> DEFINE c == tx.coin
<1>2. /\ tx \in Txs /\ n \in Nat /\ n + 1 \in Nat /\ waiting \in SUBSET Txs /\ coins \in SUBSET Nat
      /\ room # None => room \in Rooms /\ room.authorized # <<>>
      /\ None \notin Rooms /\ None \notin Nat
  BY PeerParts
<1>3. /\ c # None => c \in coins
      /\ coins' = IF c = None THEN coins ELSE (coins \ {c}) \cup {c + NumCoins}
      /\ waiting' = waiting \ {tx} /\ chain' = Append(chain, b)
      /\ x.ok => room' = x.state /\ Peer!Notified(tx.cmd, x.state)
      /\ ~ x.ok => UNCHANGED <<room, blockchain_episodes, told, drift>>
      /\ UNCHANGED <<req, pending_requests, leaked, stolen, used_utxos, utxo_cache, timers, doubtful>>
  BY <1>1
<1>4. x.ok \in BOOLEAN
  BY ExecutesOk
<1>5. ASSUME x.ok
      PROVE  /\ x.ok = TRUE /\ x.state \in Rooms /\ x.state.authorized # <<>>
             /\ IF tx.cmd.type = "NewEpisode" THEN room = None /\ x.undo = None
                ELSE room # None /\ x.undo \in Undos
             /\ tx.cmd.type \notin {"NewEpisode", "RevokeSession"} =>
                   room # None /\ room.authenticated \subseteq x.state.authenticated
  <2>1. x = Peer!Executes(room, tx, n + 1)
    OBVIOUS
  <2> QED  BY <1>2, <1>5, <2>1, RoomExecutes
<1>6. /\ b.tx = tx /\ b.ok = x.ok /\ b.undo = IF x.ok THEN x.undo ELSE None
      /\ b \in Blocks
  <2>1. PICK u : u = IF x.ok THEN x.undo ELSE None
    OBVIOUS
  <2>2. u \in Undos \cup {None}
    BY <1>5, <2>1
  <2>3. b = [tx |-> tx, ok |-> x.ok, undo |-> u]
    BY <2>1
  <2>4. PICK o \in BOOLEAN : o = x.ok
    BY <1>4
  <2>5. b = [tx |-> tx, ok |-> o, undo |-> u]
    BY <2>3, <2>4
  <2> QED  BY <1>2, <2>1, <2>2, <2>4, <2>5 DEF Blocks
<1> HIDE <1>1 DEF c
<1>7. /\ chain' \in Seq(Blocks) /\ Len(chain') = n + 1 /\ chain'[n + 1] = b
      /\ \A i \in 1 .. n : chain'[i] = chain[i]
      /\ \A d : SpentBefore(d, n + 1)' <=> SpentBefore(d, n) \/ b.tx.coin = d
  BY <1>3, <1>6, ChainGrows
<1>8. Ledger' /\ coins' \in SUBSET Nat
  <2>1. c = b.tx.coin
    BY <1>6 DEF c
  <2> QED  BY <1>3, <1>6, <2>1, LedgerGrows
<1>9. StoreType'
  <2>1. /\ room' # None => room' \in Rooms /\ room'.authorized # <<>>
        /\ blockchain_episodes' # None =>
              blockchain_episodes' \in Rooms /\ blockchain_episodes'.authorized # <<>>
    <3>1. CASE x.ok
      BY <1>3, <1>5, <3>1 DEF Peer!Notified
    <3>2. CASE ~ x.ok
      BY <1>2, <1>3, <3>2, PeerParts
    <3> QED  BY <3>1, <3>2
  <2>2. waiting' \in SUBSET Txs
    BY <1>2, <1>3
  <2> QED  BY <1>3, <1>7, <1>8, <2>1, <2>2 DEF PeerInv, StoreType
<1>10. Reserved'
  <2>1. \A d : /\ Peer!Spent(d)' => Peer!Spent(d)
               /\ Known(d)' <=> Known(d)
    BY <1>3 DEF Peer!Spent, Known
  <2>2. Peer!Spent(c) /\ (c # None => c \in Nat)
    BY <1>2, <1>3 DEF Peer!Spent, c
  <2>3. c # None => Known(c)
    BY <2>2 DEF PeerInv, Reserved
  <2>4. \A d \in Nat : SpentBefore(d, Len(chain))' => SpentBefore(d, n) \/ d = c
    <3>2. \A d : SpentBefore(d, Len(chain))' <=> \E i \in 1 .. Len(chain') : chain'[i].tx.coin = d
      BY DEF SpentBefore
    <3>3. \A d : SpentBefore(d, n + 1)' <=> \E i \in 1 .. n + 1 : chain'[i].tx.coin = d
      BY DEF SpentBefore
    <3> QED  BY <1>6, <1>7, <3>2, <3>3 DEF c
  <2>5. \A d \in Nat : Peer!Spent(d)' \/ SpentBefore(d, Len(chain))' => Known(d)'
    BY <1>2, <2>1, <2>3, <2>4 DEF PeerInv, Reserved
  <2>6. \A d : Known(d) \/ d \in coins => Known(d)' \/ d \in coins'
    BY <1>3, <2>1, <2>3
  <2>7. \A d \in Nat : d \notin doubtful' =>
           /\ d \notin doubtful
           /\ d \in used_utxos => d \in used_utxos'
           /\ d \in coins /\ d \in used_utxos /\ ~ Peer!Spent(d) => d \in coins' /\ ~ Peer!Spent(d)'
    BY <1>3, <2>1, <2>2
  <2> QED  BY <1>3, <2>5, <2>6, <2>7, ReservedMoves
<1>11. Undoable'
  <2>1. ASSUME NEW i \in 1 .. n + 1, chain'[i].ok
        PROVE  /\ room' # None
               /\ IF chain'[i].tx.cmd.type = "NewEpisode" THEN \A j \in 1 .. i - 1 : ~ chain'[j].ok
                  ELSE chain'[i].undo \in Undos
    <3>1. CASE i \in 1 .. n
      <4>1. chain'[i] = chain[i] /\ \A j \in 1 .. i - 1 : chain'[j] = chain[j]
        BY <1>2, <1>7, <3>1
      <4>2. /\ room # None
            /\ IF chain[i].tx.cmd.type = "NewEpisode" THEN \A j \in 1 .. i - 1 : ~ chain[j].ok
               ELSE chain[i].undo \in Undos
        BY <2>1, <3>1, <4>1 DEF PeerInv, Undoable
      <4>3. room' # None
        BY <1>2, <1>3, <1>5, <4>2
      <4> QED  BY <4>1, <4>2, <4>3
    <3>2. CASE i = n + 1
      <4>1. x.ok /\ chain'[i] = b
        BY <1>6, <1>7, <2>1, <3>2
      <4>2. room' # None
        BY <1>2, <1>3, <1>5, <4>1
      <4>3. CASE tx.cmd.type = "NewEpisode"
        <5>1. \A j \in 1 .. n : ~ chain[j].ok
          BY <1>5, <4>1, <4>3 DEF PeerInv, Undoable
        <5> QED  BY <1>2, <1>6, <1>7, <3>2, <4>1, <4>2, <4>3, <5>1
      <4>4. CASE tx.cmd.type # "NewEpisode"
        BY <1>5, <1>6, <4>1, <4>2, <4>4
      <4> QED  BY <4>3, <4>4
    <3> QED  BY <1>2, <3>1, <3>2
  <2>2. CASE ~ x.ok
    BY <1>3, <1>7, <2>1, <2>2 DEF PeerInv, Undoable
  <2>3. CASE x.ok
    <3>1. /\ blockchain_episodes' = x.state /\ room' = x.state /\ drift' = FALSE
          /\ told' = [type |-> Peer!Broadcast(tx.cmd, x.state), cmd |-> tx.cmd.type, drift |-> drift]
      BY <1>3, <2>3 DEF Peer!Notified
    <3>2. PICK d, t : d = drift /\ t = Peer!Broadcast(tx.cmd, x.state)
      OBVIOUS
    <3>3. told' = [type |-> t, cmd |-> tx.cmd.type, drift |-> d]
      BY <3>1, <3>2
    <3>4. told'.type = t /\ told'.cmd = tx.cmd.type /\ told'.drift = d
      BY <3>3
    <3>5. ASSUME t = "session_revoked", ~ d PROVE tx.cmd.type = "RevokeSession"
      <4>1. blockchain_episodes = room
        BY <3>2, <3>5 DEF PeerInv, Undoable
      <4>2. /\ tx.cmd.type # "NewEpisode"
            /\ Peer!Authenticated(room) /\ ~ Peer!Authenticated(x.state)
        BY <3>2, <3>5, <4>1, RevokedWhen
      <4>3. room.authenticated # {} /\ x.state.authenticated = {}
        BY <1>2, <1>5, <2>3, <4>2 DEF Peer!Authenticated
      <4> QED  BY <1>5, <2>3, <4>2, <4>3
    <3>6. told'.type = "session_revoked" => told'.cmd \in {"RevokeSession", "posted"} \/ told'.drift
      BY <3>4, <3>5
    <3> QED  BY <1>7, <2>1, <3>1, <3>6 DEF Undoable
  <2> QED  BY <2>2, <2>3
<1>12. HandlersType' /\ KeysHeld'
  BY <1>3, HandlersStay
<1> QED  BY <1>8, <1>9, <1>10, <1>11, <1>12 DEF PeerInv

LEMMA RevertInv == ASSUME PeerInv, Peer!Revert PROVE PeerInv'
<1> PICK n, b, c : n = Len(chain) /\ b = chain[n] /\ c = b.tx.coin
  OBVIOUS
<1>1. /\ chain # <<>> /\ chain' = SubSeq(chain, 1, n - 1)
      /\ waiting' = waiting \cup {b.tx}
      /\ coins' = IF c = None THEN coins ELSE (coins \ {c + NumCoins}) \cup {c}
      /\ doubtful' = IF c = None THEN doubtful ELSE doubtful \cup {c + NumCoins}
      /\ room' = IF ~ b.ok THEN room
                 ELSE IF b.tx.cmd.type = "NewEpisode" THEN None
                 ELSE Peer!Room!Rollback(room, b.undo).state
      /\ drift' = (drift \/ b.ok)
      /\ UNCHANGED <<blockchain_episodes, told, req, pending_requests, leaked, stolen,
                     used_utxos, utxo_cache, timers>>
  BY DEF Peer!Revert, Peer!Change, Peer!keyVars
<1>2. /\ n \in Nat /\ n >= 1 /\ chain' \in Seq(Blocks) /\ Len(chain') = n - 1
      /\ \A i \in 1 .. n - 1 : chain'[i] = chain[i]
      /\ \A d, m : m \in 0 .. n - 1 => (SpentBefore(d, m)' <=> SpentBefore(d, m))
      /\ \A d : SpentBefore(d, n) <=> SpentBefore(d, n - 1) \/ c = d
  BY <1>1, ChainShrinks
<1>3. Ledger' /\ coins' \in SUBSET Nat /\ (c # None => c \in Nat /\ c \notin coins)
  BY <1>1, LedgerShrinks
<1>4. b.tx \in Txs /\ n \in 1 .. n /\ waiting \in SUBSET Txs
  BY <1>2, PeerParts
<1>5. b.ok => /\ room # None
              /\ IF b.tx.cmd.type = "NewEpisode" THEN \A j \in 1 .. n - 1 : ~ chain[j].ok
                 ELSE b.undo \in Undos
  BY <1>4 DEF PeerInv, Undoable
<1>6. /\ room' # None => room' \in Rooms /\ room'.authorized # <<>>
      /\ room # None /\ ~ (b.ok /\ b.tx.cmd.type = "NewEpisode") => room' # None
  <2>1. None \notin Rooms /\ (room # None => room \in Rooms /\ room.authorized # <<>>)
    BY PeerParts
  <2>2. CASE ~ b.ok
    BY <1>1, <2>1, <2>2
  <2>3. CASE b.ok /\ b.tx.cmd.type = "NewEpisode"
    BY <1>1, <2>3
  <2>4. CASE b.ok /\ b.tx.cmd.type # "NewEpisode"
    <3>1. room' = Peer!Room!Rollback(room, b.undo).state
      BY <1>1, <2>4
    <3>2. room' \in Rooms /\ room'.authorized # <<>>
      BY <1>5, <2>1, <2>4, <3>1, RoomRolledBack
    <3> QED  BY <2>1, <3>2
  <2> QED  BY <2>2, <2>3, <2>4
<1>7. StoreType'
  BY <1>1, <1>2, <1>3, <1>4, <1>6 DEF PeerInv, StoreType
<1>8. Reserved'
  <2>1. \A d : /\ Peer!Spent(d)' => Peer!Spent(d) \/ d = c
               /\ Known(d) => Known(d)'
    BY <1>1 DEF Peer!Spent, Known
  <2>2. \A d : SpentBefore(d, Len(chain))' => SpentBefore(d, n)
    <3>1. n - 1 \in 0 .. n - 1
      BY <1>2
    <3>2. \A d : SpentBefore(d, Len(chain))' <=> \E i \in 1 .. Len(chain') : chain'[i].tx.coin = d
      BY DEF SpentBefore
    <3>3. \A d : SpentBefore(d, n - 1)' <=> \E i \in 1 .. n - 1 : chain'[i].tx.coin = d
      BY DEF SpentBefore
    <3> QED  BY <1>2, <3>1, <3>2, <3>3
  <2>3. \A d \in Nat : Peer!Spent(d)' \/ SpentBefore(d, Len(chain))' => Known(d)'
    <3>1. \A d \in Nat : Peer!Spent(d) \/ SpentBefore(d, n) => Known(d)
      BY DEF PeerInv, Reserved
    <3>2. SpentBefore(c, n)
      BY <1>2
    <3> QED  BY <2>1, <2>2, <3>1, <3>2
  <2>4. \A d : Known(d) \/ d \in coins => Known(d)' \/ d \in coins'
    BY <1>1, <2>1 DEF Known
  <2>5. \A d \in Nat : d \notin doubtful' =>
           /\ d \notin doubtful
           /\ d \in used_utxos => d \in used_utxos'
           /\ d \in coins /\ d \in used_utxos /\ ~ Peer!Spent(d) => d \in coins' /\ ~ Peer!Spent(d)'
    <3>1. CASE c = None
      <4>1. \A d \in Nat : d # c
        BY <3>1, PeerParts
      <4> QED  BY <1>1, <2>1, <3>1, <4>1
    <3>2. CASE c # None
      BY <1>1, <1>3, <2>1, <3>2
    <3> QED  BY <3>1, <3>2
  <2> QED  BY <1>1, <2>3, <2>4, <2>5, ReservedMoves
<1>9. Undoable'
  <2>1. ASSUME NEW i \in 1 .. n - 1, chain'[i].ok
        PROVE  /\ room' # None
               /\ IF chain'[i].tx.cmd.type = "NewEpisode" THEN \A j \in 1 .. i - 1 : ~ chain'[j].ok
                  ELSE chain'[i].undo \in Undos
    <3>1. chain'[i] = chain[i] /\ i \in 1 .. n /\ \A j \in 1 .. i - 1 : chain'[j] = chain[j]
      BY <1>2
    <3>2. /\ room # None
          /\ IF chain[i].tx.cmd.type = "NewEpisode" THEN \A j \in 1 .. i - 1 : ~ chain[j].ok
             ELSE chain[i].undo \in Undos
      BY <2>1, <3>1 DEF PeerInv, Undoable
    <3>3. ~ (b.ok /\ b.tx.cmd.type = "NewEpisode")
      BY <1>5, <2>1, <3>1
    <3> QED  BY <1>6, <3>1, <3>2, <3>3
  <2>2. ~ drift' => blockchain_episodes' = room'
    BY <1>1 DEF PeerInv, Undoable
  <2>3. told' # None /\ told'.type = "session_revoked" =>
           told'.cmd \in {"RevokeSession", "posted"} \/ told'.drift
    BY <1>1 DEF PeerInv, Undoable
  <2> QED  BY <1>2, <2>1, <2>2, <2>3 DEF Undoable
<1> QED  BY <1>1, <1>3, <1>7, <1>8, <1>9, HandlersStay DEF PeerInv

LEMMA RehydrateInv == ASSUME PeerInv, Peer!Rehydrate PROVE PeerInv'
<1>1. PICK i \in DOMAIN chain :
         /\ chain[i].tx.cmd.type = "NewEpisode" /\ blockchain_episodes = None /\ room = None
         /\ room' = Peer!Room!Initialize(<<chain[i].tx.by>>, 0)
         /\ Peer!Notified(chain[i].tx.cmd, room')
         /\ UNCHANGED <<chain, coins, waiting, req, pending_requests, leaked, stolen,
                        used_utxos, utxo_cache, timers, doubtful>>
  BY DEF Peer!Rehydrate, Peer!keyVars, Peer!utxoVars
<1>2. chain[i].tx.by \in PubKeys
  BY PeerParts DEF Txs
<1>3. room' \in Rooms /\ room'.authorized # <<>>
  BY <1>1, <1>2, RoomCreated
<1>4. /\ blockchain_episodes' = room' /\ drift' = FALSE
      /\ told' = [type |-> Peer!Broadcast(chain[i].tx.cmd, room'), cmd |-> "NewEpisode",
                  drift |-> drift]
  BY <1>1 DEF Peer!Notified
<1>5. told'.type = "episode_created"
  <2>1. Peer!Broadcast(chain[i].tx.cmd, room') = "episode_created"
    BY <1>1 DEF Peer!Broadcast
  <2> QED  BY <1>4, <2>1
<1>6. StoreType'
  BY <1>1, <1>3, <1>4 DEF PeerInv, StoreType
<1>7. Reserved'
  <2>1. \A r \in Requests : req'[r] = req[r]
    BY <1>1
  <2> QED  BY <1>1, <2>1, ReservedStays DEF PeerInv, Reserved
<1>8. Undoable'
  BY <1>1, <1>4, <1>5 DEF PeerInv, Undoable
<1> QED  BY <1>1, <1>6, <1>7, <1>8, HandlersStay, LedgerStays DEF PeerInv

LEMMA RestartInvPeer == ASSUME PeerInv, Peer!Restart PROVE PeerInv'
<1>1. /\ room' = None /\ blockchain_episodes' = None /\ told' = None /\ drift' = FALSE
      /\ chain' = [i \in DOMAIN chain |-> [chain[i] EXCEPT !.ok = FALSE]]
      /\ pending_requests' = {} /\ leaked' = {} /\ stolen' = {}
      /\ used_utxos' = {} /\ timers' = {} /\ utxo_cache' = None
      /\ doubtful' = {tx.coin : tx \in waiting \cup {chain[i].tx : i \in DOMAIN chain}}
      /\ req' = [r \in Requests |-> Peer!Idle]
      /\ UNCHANGED <<waiting, coins>>
  BY DEF Peer!Restart
<1> PICK n : n = Len(chain)
  OBVIOUS
<1>2. n \in Nat /\ DOMAIN chain = 1 .. n /\ \A i \in 1 .. n : chain[i] \in Blocks
  BY PeerParts
<1>3. \A i \in 1 .. n : chain'[i] \in Blocks /\ chain'[i].tx = chain[i].tx /\ ~ chain'[i].ok
  <2> SUFFICES ASSUME NEW i \in 1 .. n
               PROVE  chain'[i] \in Blocks /\ chain'[i].tx = chain[i].tx /\ ~ chain'[i].ok
    OBVIOUS
  <2>1. chain'[i] = [tx |-> chain[i].tx, ok |-> FALSE, undo |-> chain[i].undo]
    BY <1>1, <1>2 DEF Blocks
  <2> QED  BY <1>2, <2>1 DEF Blocks
<1>4. chain' \in Seq(Blocks) /\ Len(chain') = n
  <2>1. chain' \in [1 .. n -> Blocks]
    BY <1>1, <1>2, <1>3
  <2> QED  BY <1>2, <2>1, SeqDef
<1>5. \A d, m : m \in 0 .. n => /\ SpentBefore(d, m)' <=> SpentBefore(d, m)
                                /\ Born(d, m)' <=> Born(d, m)
  <2>1. \A d, m : m \in 0 .. n => (SpentBefore(d, m)' <=> SpentBefore(d, m))
    BY <1>2, <1>3 DEF SpentBefore
  <2> QED  BY <2>1 DEF Born
<1>6. Ledger'
  <2>1. ASSUME NEW i \in 1 .. n, NEW c, c = chain'[i].tx.coin, c # None
        PROVE  ~ SpentBefore(c, i - 1)' /\ Born(c, i - 1)'
    <3>1. c = chain[i].tx.coin /\ i - 1 \in 0 .. n
      BY <1>2, <1>3, <2>1
    <3>2. ~ SpentBefore(c, i - 1) /\ Born(c, i - 1)
      BY <2>1, <3>1 DEF PeerInv, Ledger
    <3> QED  BY <1>5, <3>1, <3>2
  <2>2. \A c \in Nat : c \in coins' <=> Born(c, n)' /\ ~ SpentBefore(c, n)'
    <3>1. n \in 0 .. n
      BY <1>2
    <3> QED  BY <1>1, <1>5, <3>1 DEF PeerInv, Ledger
  <2> QED  BY <1>4, <2>1, <2>2 DEF Ledger
<1>7. StoreType'
  BY <1>1, <1>4 DEF PeerInv, StoreType
<1>8. HandlersType' /\ KeysHeld'
  <2>1. Sound(Peer!Idle) /\ ~ HasKey(Peer!Idle, "challenge") /\ ~ HasKey(Peer!Idle, "verify")
    BY IdleHandler DEF Sound, HasKey
  <2>2. \A r \in Requests : req'[r] = Peer!Idle
    BY <1>1
  <2>3. HandlersType'
    <3>1. \A r \in Requests : Sound(req'[r])
      BY <2>1, <2>2
    <3>2. \A r \in Requests : Sound(req[r])'
      BY <3>1 DEF Sound
    <3>3. req' \in [Requests -> Handlers]
      BY <1>1, IdleHandler
    <3> QED  BY <3>2, <3>3 DEF HandlersType
  <2>4. \A r \in Requests : ~ Peer!Holding(r, "challenge")' /\ ~ Peer!Holding(r, "verify")'
    BY <2>2, IdleHandler DEF Peer!Holding
  <2>5. KeysHeld'
    BY <1>1, <2>4 DEF KeysHeld
  <2> QED  BY <2>3, <2>5
<1>9. Reserved'
  <2>1. \A d \in Nat : Peer!Spent(d)' \/ SpentBefore(d, Len(chain))' => Known(d)'
    <3>1. \A d : SpentBefore(d, Len(chain))' => d \in doubtful'
      BY <1>1, <1>2, <1>3, <1>4 DEF SpentBefore
    <3>2. \A d : Peer!Spent(d)' => d \in doubtful'
      BY <1>1 DEF Peer!Spent
    <3> QED  BY <3>1, <3>2 DEF Known
  <2>2. \A r \in Requests : CoinHeld(r)'
    BY <1>1, IdleHandler DEF CoinHeld
  <2> QED  BY <1>1, <2>1, <2>2 DEF Reserved
<1>10. Undoable'
  BY <1>1, <1>3, <1>4 DEF Undoable
<1> QED  BY <1>6, <1>7, <1>8, <1>9, <1>10 DEF PeerInv

LEMMA PostedInv == ASSUME PeerInv, Peer!episode_authenticated \/ Peer!session_revoked
                  PROVE PeerInv'
<1>1. UNCHANGED <<room, chain, coins, blockchain_episodes, drift, waiting, req,
                  pending_requests, leaked, stolen, used_utxos, utxo_cache, timers, doubtful>>
  BY DEF Peer!episode_authenticated, Peer!session_revoked, Peer!Posted, Peer!keyVars,
         Peer!utxoVars
<1>2. told'.cmd = "posted"
  BY DEF Peer!episode_authenticated, Peer!session_revoked, Peer!Posted
<1>3. StoreType'
  BY <1>1 DEF PeerInv, StoreType
<1>4. Reserved'
  <2>1. \A r \in Requests : req'[r] = req[r]
    BY <1>1
  <2> QED  BY <1>1, <2>1, ReservedStays DEF PeerInv, Reserved
<1>5. Undoable'
  BY <1>1, <1>2 DEF PeerInv, Undoable
<1> QED  BY <1>1, <1>3, <1>4, <1>5, HandlersStay, LedgerStays DEF PeerInv

LEMMA PeerNext == PeerInv /\ Peer!Next => PeerInv'
<1> SUFFICES ASSUME PeerInv, Peer!Next PROVE PeerInv'
  OBVIOUS
<1>1. CASE \/ Peer!AcceptTx \/ Peer!Revert \/ Peer!Guest \/ Peer!Release \/ Peer!Expire
           \/ Peer!Restart \/ Peer!Rehydrate
           \/ Peer!episode_authenticated \/ Peer!session_revoked
  BY <1>1, AcceptTxInv, RevertInv, GuestInv, ReleaseInv, ExpireInv, RestartInvPeer,
     RehydrateInv, PostedInv
<1>2. ASSUME NEW r \in Requests, Peer!Handle(r) PROVE PeerInv'
  <2>1. \/ \/ Peer!start_auth(r) \/ Peer!request_challenge(r) \/ Peer!verify_auth(r)
           \/ Peer!submit_comment(r) \/ Peer!submit_comment_simple(r) \/ Peer!revoke_session(r)
        \/ Peer!Populate(r) \/ Peer!Choose(r) \/ Peer!Reserve(r) \/ Peer!Send(r)
        \/ Peer!Poll(r) \/ Peer!Cleanup(r) \/ Peer!Drop(r)
    BY <1>2 DEF Peer!Handle
  <2> QED
    BY <2>1, ArrivalInv, PopulateInv, ChooseInv, ReserveInv, SendInvPeer, PollInv, CleanupInv, DropInv
<1> QED  BY <1>1, <1>2 DEF Peer!Next

LEMMA PeerStays == PeerInv /\ UNCHANGED peerVars => PeerInv'
<1> SUFFICES ASSUME PeerInv, UNCHANGED peerVars PROVE PeerInv'
  OBVIOUS
<1>1. UNCHANGED <<room, chain, waiting, coins, blockchain_episodes, pending_requests, used_utxos,
                  utxo_cache, timers, req, told, drift, leaked, stolen, doubtful>>
  BY DEF peerVars
<1>2. Reserved'
  <2>1. \A r \in Requests : req'[r] = req[r]
    BY <1>1
  <2> QED  BY <1>1, <2>1, ReservedStays DEF PeerInv, Reserved
<1> QED  BY <1>1, <1>2, StoreStays, LedgerStays, UndoableStays, HandlersStay DEF PeerInv

(* The history that a process starts with is what its definition says *)
LEMMA OpeningSteps ==
  ASSUME NEW orders, Len(orders) \in Nat
  PROVE  /\ Peer!Opening(orders)[0] = [room |-> None, members |-> {}, chain |-> <<>>]
         /\ \A i \in 1 .. Len(orders) :
               Peer!Opening(orders)[i] = Peer!Happens(Peer!Opening(orders)[i - 1], orders[i], i)
<1> DEFINE N == Len(orders)
           Start == [room |-> None, members |-> {}, chain |-> <<>>]
           Good(f, k) ==
              f = [i \in 0 .. k |-> IF i = 0 THEN Start ELSE Peer!Happens(f[i - 1], orders[i], i)]
           A == {k \in Nat : \E f : Good(f, k)}
<1>1. Good([i \in 0 .. 0 |-> Start], 0)
  OBVIOUS
<1>2. ASSUME NEW k \in Nat, NEW f, Good(f, k)
      PROVE  \E g : Good(g, k + 1)
  <2> DEFINE last == Peer!Happens(f[k], orders[k + 1], k + 1)
             g == [i \in 0 .. k + 1 |-> IF i = k + 1 THEN last ELSE f[i]]
  <2>1. k + 1 \in Nat /\ k + 1 # 0 /\ k \in 0 .. k + 1 /\ k # k + 1 /\ (k + 1) - 1 = k
    OBVIOUS
  <2>2. g[0] = f[0] /\ f[0] = Start
    BY <1>2, <2>1
  <2>3. ASSUME NEW i \in 0 .. k + 1, i # 0, i # k + 1
        PROVE  g[i] = Peer!Happens(g[i - 1], orders[i], i)
    <3>1. i \in 0 .. k /\ i - 1 \in 0 .. k + 1 /\ i - 1 # k + 1
      BY <2>3
    <3>2. g[i] = f[i] /\ g[i - 1] = f[i - 1]
      BY <2>3, <3>1
    <3>3. f[i] = Peer!Happens(f[i - 1], orders[i], i)
      BY <1>2, <2>3, <3>1
    <3> QED  BY <3>2, <3>3
  <2>4. g[k + 1] = Peer!Happens(g[(k + 1) - 1], orders[k + 1], k + 1)
    BY <2>1
  <2>5. g = [i \in 0 .. k + 1 |->
               IF i = 0 THEN Start ELSE Peer!Happens(g[i - 1], orders[i], i)]
    <3>1. ASSUME NEW i \in 0 .. k + 1
          PROVE  g[i] = IF i = 0 THEN Start ELSE Peer!Happens(g[i - 1], orders[i], i)
      BY <2>1, <2>2, <2>3, <2>4
    <3> QED  BY <3>1
  <2> QED  BY <2>5
<1>3. 0 \in A
  BY <1>1
<1>4. ASSUME NEW k \in Nat, k \in A PROVE k + 1 \in A
  <2>1. PICK f : Good(f, k)
    BY <1>4
  <2>2. \E g : Good(g, k + 1)
    BY <1>2, <2>1
  <2> QED  BY <2>2
<1>5. N \in A
  <2> HIDE DEF A
  <2> QED  BY <1>3, <1>4, SetInduction
<1>6. \E f : Good(f, N)
  BY <1>5
<1>7. Good(Peer!Opening(orders), N)
  BY <1>6 DEF Peer!Opening
<1>8. \A i \in 0 .. N :
         Peer!Opening(orders)[i] =
            IF i = 0 THEN Start ELSE Peer!Happens(Peer!Opening(orders)[i - 1], orders[i], i)
  BY <1>7
<1> QED  BY <1>8

(* After i commands: i blocks that spend nothing, the first of which       *)
(* created the room.                                                       *)
History(ep, s, i) ==
    /\ s \in Seq(Blocks) /\ Len(s) = i
    /\ IF i = 0 THEN ep = None ELSE ep \in Rooms /\ ep.authorized # <<>>
    /\ \A j \in 1 .. i : /\ s[j].tx.coin = None
                         /\ IF s[j].tx.cmd.type = "NewEpisode" THEN j = 1 ELSE s[j].undo \in Undos

LEMMA HistoryGrows ==
  ASSUME NEW i \in Nat, NEW ep, NEW s, History(ep, s, i), NEW b \in Blocks, b.tx.coin = None,
         IF b.tx.cmd.type = "NewEpisode" THEN i = 0 ELSE b.undo \in Undos,
         NEW new \in Rooms, new.authorized # <<>>
  PROVE  History(new, Append(s, b), i + 1)
<1>1. PICK t : t = Append(s, b)
  OBVIOUS
<1>2. t \in Seq(Blocks) /\ Len(t) = i + 1 /\ t[i + 1] = b /\ \A j \in 1 .. i : t[j] = s[j]
  BY <1>1 DEF History
<1>3. ASSUME NEW j \in 1 .. i + 1
      PROVE  /\ t[j].tx.coin = None
             /\ IF t[j].tx.cmd.type = "NewEpisode" THEN j = 1 ELSE t[j].undo \in Undos
  <2>1. CASE j \in 1 .. i
    BY <1>2, <2>1 DEF History
  <2>2. CASE j = i + 1
    BY <1>2, <2>2
  <2> QED  BY <2>1, <2>2
<1>4. History(new, t, i + 1)
  BY <1>2, <1>3 DEF History
<1> QED  BY <1>1, <1>4

LEMMA HappensNext ==
  ASSUME NEW i \in Nat, NEW ep, NEW s, History(ep, s, i), NEW tx \in Txs, tx.coin = None,
         NEW time, time = i + 1, NEW x, x = Peer!Executes(ep, tx, time), x.ok
  PROVE  History(x.state, Append(s, [tx |-> tx, ok |-> TRUE, undo |-> x.undo]), i + 1)
<1>1. None \notin Rooms /\ (ep # None => ep \in Rooms /\ ep.authorized # <<>>)
      /\ (ep = None => i = 0)
  BY PeerAssumption DEF History
<1>2. /\ x.state \in Rooms /\ x.state.authorized # <<>>
      /\ IF tx.cmd.type = "NewEpisode" THEN ep = None /\ x.undo = None
         ELSE ep # None /\ x.undo \in Undos
  <2>1. time \in Nat
    OBVIOUS
  <2> QED  BY <1>1, <2>1, RoomExecutes
<1> PICK b : b = [tx |-> tx, ok |-> TRUE, undo |-> x.undo]
  OBVIOUS
<1>3. b \in Blocks /\ b.tx = tx /\ b.undo = x.undo
  BY <1>2 DEF Blocks
<1>4. b.tx.coin = None /\ IF b.tx.cmd.type = "NewEpisode" THEN i = 0 ELSE b.undo \in Undos
  BY <1>1, <1>2, <1>3
<1> QED  BY <1>2, <1>3, <1>4, HistoryGrows

LEMMA OpenedHistory ==
  ASSUME NEW orders \in Openings
  PROVE  Len(orders) \in Nat /\ History(Peer!Opened(orders).room, Peer!Opened(orders).chain, Len(orders))
<1> PICK n, f : n = Len(orders) /\ f = Peer!Opening(orders)
  OBVIOUS
<1>1. /\ orders \in Seq(Peer!Commands)
      /\ \A i \in 1 .. n : Peer!Executes(f[i - 1].room,
                             [cmd |-> orders[i], by |-> wallet, coin |-> None], i).ok
  <2>1. Peer!Executable(orders)
    BY PeerAssumption
  <2> QED  BY <2>1 DEF Peer!Executable
<1>2. n \in Nat /\ \A i \in 1 .. n : orders[i] \in Peer!Commands
  BY <1>1, ElementOfSeq
<1>3. /\ f[0] = [room |-> None, members |-> {}, chain |-> <<>>]
      /\ \A i \in 1 .. n : f[i] = Peer!Happens(f[i - 1], orders[i], i)
  BY <1>2, OpeningSteps
<1> DEFINE A == {i \in Nat : i <= n => History(f[i].room, f[i].chain, i)}
<1>4. 0 \in A
  <2>1. \A S : <<>> \in Seq(S) /\ Len(<<>>) = 0
    OBVIOUS
  <2>2. f[0].room = None /\ f[0].chain = <<>>
    BY <1>3
  <2>3. History(f[0].room, f[0].chain, 0)
    BY <2>1, <2>2 DEF History
  <2> QED  BY <2>3
<1>5. ASSUME NEW i \in Nat, i \in A PROVE i + 1 \in A
  <2> SUFFICES ASSUME i + 1 <= n PROVE History(f[i + 1].room, f[i + 1].chain, i + 1)
    OBVIOUS
  <2>1. i + 1 \in 1 .. n /\ (i + 1) - 1 = i /\ History(f[i].room, f[i].chain, i)
    BY <1>2, <1>5
  <2>2. orders[i + 1] \in Peer!Commands /\ f[i + 1] = Peer!Happens(f[i], orders[i + 1], i + 1)
    BY <1>2, <1>3, <2>1
  <2>3. Peer!Executes(f[i].room, [cmd |-> orders[i + 1], by |-> wallet, coin |-> None], i + 1).ok
    BY <1>1, <2>1
  <2> PICK tx, x : /\ tx = [cmd |-> orders[i + 1], by |-> wallet, coin |-> None]
                   /\ x = Peer!Executes(f[i].room, tx, i + 1)
    OBVIOUS
  <2>4. tx \in Txs /\ tx.coin = None /\ x.ok
    BY <2>2, <2>3, PeerAssumption DEF Txs
  <2>5. /\ f[i + 1].room = x.state
        /\ f[i + 1].chain = Append(f[i].chain, [tx |-> tx, ok |-> TRUE, undo |-> x.undo])
    BY <2>2 DEF Peer!Happens
  <2>6. History(x.state, Append(f[i].chain, [tx |-> tx, ok |-> TRUE, undo |-> x.undo]), i + 1)
    BY <2>1, <2>4, HappensNext
  <2> QED  BY <2>5, <2>6
<1>6. n \in A
  <2> HIDE DEF A
  <2> QED  BY <1>2, <1>4, <1>5, SetInduction
<1>7. Peer!Opened(orders) = f[n]
  BY DEF Peer!Opened
<1> QED  BY <1>2, <1>6, <1>7

LEMMA PeerInit == Peer!Init => PeerInv
<1> SUFFICES ASSUME Peer!Init PROVE PeerInv
  OBVIOUS
<1>1. PICK orders \in Openings : room = Peer!Opened(orders).room /\ chain = Peer!Opened(orders).chain
  BY DEF Peer!Init
<1> PICK n : n = Len(orders)
  OBVIOUS
<1>2. /\ waiting = {} /\ coins = 1 .. NumCoins /\ blockchain_episodes = room
      /\ pending_requests = {} /\ used_utxos = {} /\ utxo_cache = None /\ timers = {}
      /\ req = [r \in Requests |-> Peer!Idle]
      /\ told = None /\ leaked = {} /\ stolen = {} /\ doubtful = {}
  BY DEF Peer!Init
<1>3. /\ n \in Nat /\ chain \in Seq(Blocks) /\ Len(chain) = n
      /\ IF n = 0 THEN room = None ELSE room \in Rooms /\ room.authorized # <<>>
      /\ \A j \in 1 .. n : /\ chain[j].tx.coin = None
                           /\ IF chain[j].tx.cmd.type = "NewEpisode" THEN j = 1
                              ELSE chain[j].undo \in Undos
  BY <1>1, OpenedHistory DEF History
<1>4. None \notin Nat /\ None \notin Rooms /\ NumCoins \in Nat
  BY PeerAssumption
<1>5. StoreType
  BY <1>2, <1>3, <1>4 DEF StoreType
<1>6. \A r \in Requests : req[r] = Peer!Idle
  BY <1>2
<1>7. HandlersType
  BY <1>2, <1>6, IdleHandler DEF HandlersType, Sound
<1>8. \A c \in Nat : ~ SpentBefore(c, n) /\ ~ Peer!Spent(c)
  BY <1>2, <1>3, <1>4 DEF SpentBefore, Peer!Spent
<1>9. Ledger
  <2>1. \A c \in Nat : c \in coins <=> Born(c, n) /\ ~ SpentBefore(c, n)
    BY <1>2, <1>4, <1>8 DEF Born
  <2> QED  BY <1>3, <2>1 DEF Ledger
<1>10. Reserved
  BY <1>2, <1>3, <1>6, <1>8, IdleHandler DEF Reserved, CoinHeld
<1>11. KeysHeld
  BY <1>2, <1>6, IdleHandler DEF KeysHeld, Peer!Holding
<1>12. Undoable
  <2>1. ASSUME NEW i \in 1 .. n
        PROVE  /\ room # None
               /\ IF chain[i].tx.cmd.type = "NewEpisode" THEN \A j \in 1 .. i - 1 : ~ chain[j].ok
                  ELSE chain[i].undo \in Undos
    BY <1>3, <1>4
  <2> QED  BY <1>2, <1>3, <2>1 DEF Undoable
<1> QED  BY <1>5, <1>7, <1>9, <1>10, <1>11, <1>12 DEF PeerInv

-----------------------------------------------------------------------------
(* What the invariant says of the reservations and of the map *)

LEMMA PeerInvReserves == PeerInv => Peer!ReservationsExplained
<1> SUFFICES ASSUME PeerInv PROVE Peer!ReservationsExplained
  OBVIOUS
<1>1. ASSUME NEW r \in Requests, Peer!Sends(r),
             ~ Peer!Possible(r) \/ \E s \in Requests \ {r} :
                                      Peer!Sends(s) /\ req[s].coin = req[r].coin
      PROVE  req[r].coin \in doubtful
  BY <1>1 DEF PeerInv, Reserved, CoinHeld, Peer!Sends, Peer!Possible
<1> QED  BY <1>1 DEF PeerInv, KeysHeld, Peer!ReservationsExplained

(* A room whose entry in the map says so is authenticated *)
LEMMA StatusConfirmed ==
  ASSUME NEW k, Peer!get_status(k).status = "authenticated",
         Peer!get_status(k).blockchain_confirmed
  PROVE  Peer!Authenticated(blockchain_episodes)
<1> SUFFICES ASSUME ~ Peer!Authenticated(blockchain_episodes) PROVE FALSE
  OBVIOUS
<1> PICK b : b = (blockchain_episodes # None)
  OBVIOUS
<1>1. CASE k \in members
  <2>1. Peer!get_status(k) = [status |-> "authenticated_via_indexer", blockchain_confirmed |-> FALSE]
    BY <1>1 DEF Peer!get_status
  <2> QED  BY <2>1
<1>2. CASE k \notin members
  <2>1. PICK t : t = IF blockchain_episodes = None THEN "episode_not_found" ELSE "pending"
    OBVIOUS
  <2>2. Peer!get_status(k) = [status |-> t, blockchain_confirmed |-> b]
    BY <1>2, <2>1 DEF Peer!get_status
  <2> QED  BY <2>1, <2>2
<1> QED  BY <1>1, <1>2

LEMMA PeerInvMap == PeerInv => Peer!MapExplained
<1> SUFFICES ASSUME PeerInv PROVE Peer!MapExplained
  OBVIOUS
<1>1. /\ ~ drift => blockchain_episodes = room
      /\ told # None /\ told.type = "session_revoked" =>
            told.cmd \in {"RevokeSession", "posted"} \/ told.drift
  BY DEF PeerInv, Undoable
<1>2. ASSUME NEW k, Peer!get_status(k).status = "authenticated",
             Peer!get_status(k).blockchain_confirmed
      PROVE  Peer!Authenticated(blockchain_episodes)
  BY <1>2, StatusConfirmed
<1> QED  BY <1>1, <1>2 DEF Peer!MapExplained

(* In comment-it, a request that sends an output which is spent, or which  *)
(* another sends too, chose it between the locks or after a timer, a lost  *)
(* answer, a reorganisation or a restart; a key of pending_requests is a   *)
(* request's or leaked; and a page of the WebSocket peer is told rightly   *)
(* what became of its command, but for broken connections.                 *)
THEOREM Reservations == Spec => []ReservationsExplained
<1>1. Init => PeerInv /\ SocketInv
  BY PeerInit, SocketInit DEF Init
<1>2. PeerInv /\ [Next]_vars => PeerInv'
  <2>1. [Next]_vars => Peer!Next \/ UNCHANGED peerVars
    BY DEF Next, vars
  <2> QED  BY <2>1, PeerNext, PeerStays
<1>3. SocketInv /\ [Next]_vars => SocketInv'
  <2>1. [Next]_vars => Socket!Next \/ UNCHANGED socketVars
    BY DEF Next, vars
  <2> QED  BY <2>1, SocketNext, SocketStays
<1>4. PeerInv /\ SocketInv => ReservationsExplained
  BY PeerInvReserves, SocketInvExplains DEF ReservationsExplained
<1> QED  BY <1>1, <1>2, <1>3, <1>4, PTL DEF Spec

(* comment-it's map of episodes is the engine's, and a session that        *)
(* get_status confirms or on_command announces as revoked is so on the     *)
(* chain, unless on_rollback or the indexer's word came between.  What the *)
(* internal routes announce, on anyone's word, is exempt.                  *)
THEOREM Map == Spec => []MapExplained
<1>1. Init => PeerInv
  BY PeerInit DEF Init
<1>2. PeerInv /\ [Next]_vars => PeerInv'
  <2>1. [Next]_vars => Peer!Next \/ UNCHANGED peerVars
    BY DEF Next, vars
  <2> QED  BY <2>1, PeerNext, PeerStays
<1>3. PeerInv => MapExplained
  BY PeerInvMap DEF MapExplained
<1> QED  BY <1>1, <1>2, <1>3, PTL DEF Spec

-----------------------------------------------------------------------------
(* The indexer and its page *)

Entries == [created_at : Nat, state : Rooms]

IndexType ==
    /\ rooms \in [Episodes -> Entries \cup {None}]
    /\ \A e \in Episodes : rooms[e] # None =>
          rooms[e].state.authorized # <<>> /\ 1 <= rooms[e].state.next_comment_id
    /\ IsSeq(blocks)
    /\ episodes = [e \in Episodes |-> episodes[e]]
    /\ comments = [e \in Episodes |-> comments[e]]
    /\ \A e \in Episodes : /\ IsFiniteSet(DOMAIN comments[e]) /\ DOMAIN comments[e] \subseteq Nat
                           /\ \A i \in DOMAIN comments[e] : /\ comments[e][i] \in Notes
                                                            /\ comments[e][i].id = i
    /\ last_seen \in [Episodes -> Nat]
    /\ undone \in [Episodes -> SUBSET Nat]

Present(e) == IF rooms[e] = None THEN {} ELSE Contents(rooms[e].state.comments)
Sessions(e) == IF rooms[e] = None THEN {} ELSE rooms[e].state.authenticated

(* The comments of a room are numbered, and increase with their times *)
InNumber(e) ==
    /\ \A c \in Present(e) : 1 <= c.id /\ c.id < rooms[e].state.next_comment_id
    /\ \A c, d \in Present(e) :
          /\ c.id = d.id => c = d
          /\ e \notin disorder /\ c.id < d.id => c.timestamp < d.timestamp

(* A command that the engine may have to roll back *)
About(i, e, type) == blocks[i].episode = e /\ blocks[i].cmd.type = type

Undone(i) ==
    LET b == blocks[i]
        e == b.episode IN
    /\ e \in Episodes /\ rooms[e] # None
    /\ b.cmd.type \in {"NewEpisode", "RequestChallenge", "SubmitResponse", "RevokeSession",
                       "SubmitComment"}
    /\ b.cmd.type = "NewEpisode" => \A j \in 1 .. i - 1 : blocks[j].episode # e
    /\ b.cmd.type # "NewEpisode" => b.undo \in Undos
    /\ b.cmd.type = "RequestChallenge" => b.undo.type = "Challenge"
    /\ b.cmd.type = "SubmitResponse" =>
          b.undo.type = "Authentication" /\ b.undo.key = b.by /\ b.undo.was = FALSE
    /\ b.cmd.type = "RevokeSession" =>
          /\ b.undo.type = "SessionRevoked" /\ b.undo.key = b.by /\ <<b.by, e>> \in memberships
          /\ \E j \in 1 .. i - 1 : About(j, e, "SubmitResponse") /\ blocks[j].by = b.by
    /\ b.cmd.type = "SubmitComment" =>
          /\ b.undo.type = "CommentAdded"
          /\ 1 <= b.undo.comment_id /\ b.undo.comment_id < rooms[e].state.next_comment_id
          /\ \A j \in 1 .. i - 1 : About(j, e, "SubmitComment") =>
                blocks[j].undo.comment_id < b.undo.comment_id

(* What the room has, a command brought *)
Brought(e) ==
    /\ \A c \in Present(e) : \E i \in 1 .. Len(blocks) :
          About(i, e, "SubmitComment") /\ blocks[i].undo.comment_id = c.id
    /\ \A k \in Sessions(e) : \E i \in 1 .. Len(blocks) :
          About(i, e, "SubmitResponse") /\ blocks[i].by = k

Rowed(e) ==
    /\ \A c \in Present(e) : c.id \in DOMAIN comments[e] /\ comments[e][c.id] = c
    /\ \A i \in DOMAIN comments[e] :
          /\ 1 <= i
          /\ \/ comments[e][i] \in Present(e)
             \/ i \in undone[e] /\ (rooms[e] # None => rooms[e].state.next_comment_id <= i)
    /\ \A k \in Sessions(e) : <<k, e>> \in memberships
    /\ \A k \in PubKeys : <<k, e>> \in memberships => k \in Sessions(e) \/ <<k, e>> \in gone

Listed(e) ==
    /\ rooms[e] # None =>
          /\ episodes[e].created_at = rooms[e].created_at
          /\ e \notin stale => episodes[e] =
                [created_at |-> rooms[e].created_at,
                 authenticated_count |-> Cardinality(rooms[e].state.authenticated)]
    /\ episodes[e] # None => episodes[e].created_at \in DOMAIN recent_order

Recent(t) ==
    LET e == recent_order[t] IN
    e \in Episodes /\ (e \in again \/ (rooms[e] # None /\ rooms[e].created_at = t))

There(c, e) == c \in Present(e) \/ c.id \in undone[e]

(* The time of a comment that the page has seen *)
Past(t, e) == undone[e] = {} => t = 0 \/ \E c \in Present(e) : c.timestamp = t
Seen(e) == Past(last_seen[e], e)

(* The page *)

PageType ==
    /\ cards \subseteq [episode : Episodes, comment : Notes]
    /\ fetch \in [Fetches -> Asks \cup {None}]
    /\ timer \in Episodes \cup {None}
    /\ loads \in Nat
    /\ feed \in [episode : Episodes \cup {None}, done : Nat, oldest : SUBSET Nat]
    /\ feed.done <= loads

(* What a request brings, now or later *)
Brings(q, c) == c \in q.answer.rows \/ c.id \in q.answer.oldest
Awaits(q, c) == q.path = "episode" /\ (q.answer # None => Brings(q, c))

(* A comment that it does not bring is later than what it brings *)
Leaves(q, c) ==
    /\ q.path = "comments" => q.after < c.timestamp
    /\ q.answer # None => Brings(q, c) \/ \A d \in q.answer.rows : d.timestamp < c.timestamp

Warranted(q) ==
    /\ Past(q.after, q.episode)
    /\ 1 <= loads /\ q.load <= loads
    /\ q.load = loads => q.episode = feed.episode /\ feed.done # loads
    /\ q.answer # None =>
          /\ IsFiniteSet(q.answer.rows)
          /\ \A c \in q.answer.rows : There(c, q.episode)
          /\ q.path = "comments" => q.answer.oldest = {}

Current(f) == fetch[f] # None /\ fetch[f].load = loads
Loaded == feed.done = loads \/ \E f \in Fetches : Current(f)

(* A comment of a room is shown, or older than what was loaded, or the     *)
(* load will bring it, or later than all that the page has seen            *)
Shown(c, e) == <<e, c.id>> \in Indexer!displayedComments \/ c.id \in feed.oldest
Coming(c) == \E f \in Fetches : Current(f) /\ Awaits(fetch[f], c)
Later(c, e) ==
    /\ last_seen[e] < c.timestamp
    /\ \A f \in Fetches : fetch[f] # None /\ fetch[f].episode = e => Leaves(fetch[f], c)

Fed(e) ==
    undone[e] = {} /\ e \notin disorder /\ Loaded =>
       \A c \in Present(e) : Shown(c, e) \/ Coming(c) \/ Later(c, e)

PageInv ==
    /\ PageType
    /\ timer # None => 1 <= loads
    /\ \A d \in cards : There(d.comment, d.episode)
    /\ \A f \in Fetches, q \in Asks : q # None /\ fetch[f] = q => Warranted(q)
    /\ \A f, g \in Fetches : Current(f) /\ Current(g) => f = g
    /\ \A e \in Episodes : feed.episode = e => Fed(e)

shownVars == <<cards, news, fetch, timer, last_seen, loads, feed>>

IndexInv ==
    /\ IndexType
    /\ \A e \in Episodes : InNumber(e) /\ Brought(e) /\ Rowed(e) /\ Listed(e) /\ Seen(e)
    /\ \A i \in 1 .. Len(blocks) : Undone(i)
    /\ \A t \in DOMAIN recent_order : Recent(t)
    /\ PageInv

-----------------------------------------------------------------------------
(* What a command does to a room, and what its rollback does *)

LEMMA ContentsOf ==
  ASSUME NEW S, NEW s \in Seq(S)
  PROVE  /\ Contents(<<>>) = {}
         /\ \A x \in S : Contents(Append(s, x)) = Contents(s) \cup {x}
         /\ \A id : Contents(WithoutId(s, id)) = {x \in Contents(s) : x.id # id}
         /\ Contents(s) \subseteq S
<1>1. Len(s) \in Nat /\ DOMAIN s = 1 .. Len(s) /\ Contents(s) \subseteq S
  BY DEF Contents
<1>2. ASSUME NEW x \in S PROVE Contents(Append(s, x)) = Contents(s) \cup {x}
  <2> PICK t, n : t = Append(s, x) /\ n = Len(s)
    OBVIOUS
  <2>1. /\ DOMAIN t = 1 .. n + 1 /\ n \in Nat /\ t[n + 1] = x /\ \A i \in 1 .. n : t[i] = s[i]
    <3>1. t \in Seq(S) /\ Len(t) = n + 1 /\ t[n + 1] = x /\ \A i \in 1 .. n : t[i] = s[i]
      BY Appended
    <3> QED  BY <1>1, <3>1
  <2>2. \A i \in 1 .. n + 1 : i \in 1 .. n \/ i = n + 1
    BY <2>1
  <2>3. \A i \in 1 .. n : i \in 1 .. n + 1
    BY <2>1
  <2>4. n + 1 \in 1 .. n + 1
    BY <2>1
  <2> QED  BY <1>1, <2>1, <2>2, <2>3, <2>4 DEF Contents
<1>3. ASSUME NEW id PROVE Contents(WithoutId(s, id)) = {x \in Contents(s) : x.id # id}
  <2> PICK T, t : T = {x \in Contents(s) : x.id # id} /\ t = Keep(s, T)
    OBVIOUS
  <2>1. t = WithoutId(s, id)
    BY DEF WithoutId, Contents
  <2>2. t \in Seq(S) /\ Len(t) \in Nat /\ DOMAIN t = 1 .. Len(t)
    <3>1. Keep(s, T) \in Seq(S)
      BY KeepSeq
    <3>2. t \in Seq(S)
      BY <3>1
    <3> QED  BY <3>2
  <2>3. \A y : Contains(t, y) <=> y \in T /\ Contains(s, y)
    BY KeepMembers
  <2>4. \A y : /\ Contains(t, y) <=> y \in Contents(t)
               /\ Contains(s, y) <=> y \in Contents(s)
    BY <1>1, <2>2 DEF Contains, Contents
  <2> QED  BY <2>1, <2>3, <2>4
<1>4. Contents(<<>>) = {}
  BY DEF Contents
<1> QED  BY <1>1, <1>2, <1>3, <1>4

LEMMA SameRooms ==
  /\ \A ep, c, by, time : /\ Indexer!Room!Executed(ep, c, by, time) = Peer!Room!Executed(ep, c, by, time)
                          /\ Indexer!Room!Accepts(ep, c, by) = Peer!Room!Accepts(ep, c, by)
  /\ \A ep, c, by : Indexer!Room!RollbackOf(ep, c, by) = Peer!Room!RollbackOf(ep, c, by)
  /\ \A ep, u : Indexer!Room!RolledBack(ep, u) = Peer!Room!RolledBack(ep, u)
  /\ \A ep, u : Indexer!Room!Rollback(ep, u) = Peer!Room!Rollback(ep, u)
  /\ \A p, time : Indexer!Room!Initialize(p, time) = Peer!Room!Initialize(p, time)
  /\ Indexer!Room!Commands = Peer!Room!Commands
  /\ \A s, id : Indexer!Room!WithoutId(s, id) = WithoutId(s, id)
BY DEF Indexer!Room!Executed, Peer!Room!Executed, Indexer!Room!Accepts, Peer!Room!Accepts,
       Indexer!Room!RollbackOf, Peer!Room!RollbackOf, Indexer!Room!RolledBack,
       Peer!Room!RolledBack, Indexer!Room!Rollback, Peer!Room!Rollback,
       Indexer!Room!Initialize, Peer!Room!Initialize, Indexer!Room!Commands, Peer!Room!Commands,
       Indexer!Room!WithoutId, WithoutId, Indexer!Room!Keep, Keep, Indexer!Room!Sifted, Sifted,
       Indexer!Room!Challenged, Peer!Room!Challenged, Peer!Room!WithoutId, Peer!Room!Keep,
       Peer!Room!Sifted

Changed(ep, type, by, time, new) ==
    /\ type # "SubmitComment" =>
          new.comments = ep.comments /\ new.next_comment_id = ep.next_comment_id
    /\ type = "SubmitComment" =>
          /\ new.comments = Append(ep.comments, [id |-> ep.next_comment_id, author |-> by,
                                                 timestamp |-> time])
          /\ new.next_comment_id = ep.next_comment_id + 1
    /\ new.authenticated = IF type = "SubmitResponse" THEN ep.authenticated \cup {by}
                           ELSE IF type = "RevokeSession" THEN ep.authenticated \ {by}
                           ELSE ep.authenticated

LEMMA RoomChanged ==
  ASSUME NEW ep \in Rooms, NEW c \in Peer!Commands, c.type # "NewEpisode", NEW by \in PubKeys,
         NEW time \in Nat, NEW new, new = Peer!Room!Executed(ep, c, by, time)
  PROVE  Changed(ep, c.type, by, time, new)
<1> USE DEF Changed
<1>1. CASE c.type = "RequestChallenge"
  <2> PICK limits, challenges :
         /\ limits = [ep.rate_limits EXCEPT ![by] = @ + 1]
         /\ challenges = [ep.active_challenges EXCEPT ![by] = time]
    OBVIOUS
  <2>1. new = [ep EXCEPT !.active_challenges = challenges, !.rate_limits = limits]
    BY <1>1 DEF Peer!Room!Executed, Peer!Room!Challenged
  <2>2. new = [authenticated |-> ep.authenticated, rate_limits |-> limits,
               authorized |-> ep.authorized, active_challenges |-> challenges,
               comments |-> ep.comments, next_comment_id |-> ep.next_comment_id]
    BY <2>1, RoomParts
  <2> QED  BY <1>1, <2>2
<1>2. CASE c.type = "SubmitResponse"
  <2> PICK users, challenges :
         /\ users = ep.authenticated \cup {by}
         /\ challenges = [ep.active_challenges EXCEPT ![by] = None]
    OBVIOUS
  <2>1. new = [ep EXCEPT !.authenticated = users, !.active_challenges = challenges]
    BY <1>2 DEF Peer!Room!Executed
  <2>2. new = [authenticated |-> users, rate_limits |-> ep.rate_limits,
               authorized |-> ep.authorized, active_challenges |-> challenges,
               comments |-> ep.comments, next_comment_id |-> ep.next_comment_id]
    BY <2>1, RoomParts
  <2> QED  BY <1>2, <2>2
<1>3. CASE c.type = "RevokeSession"
  <2> PICK users : users = ep.authenticated \ {by}
    OBVIOUS
  <2>1. new = [ep EXCEPT !.authenticated = users]
    BY <1>3 DEF Peer!Room!Executed
  <2>2. new = [authenticated |-> users, rate_limits |-> ep.rate_limits,
               authorized |-> ep.authorized, active_challenges |-> ep.active_challenges,
               comments |-> ep.comments, next_comment_id |-> ep.next_comment_id]
    BY <2>1, RoomParts
  <2> QED  BY <1>3, <2>2
<1>4. CASE c.type = "SubmitComment"
  <2> PICK note, notes, next :
         /\ note = [id |-> ep.next_comment_id, author |-> by, timestamp |-> time]
         /\ notes = Append(ep.comments, note) /\ next = ep.next_comment_id + 1
    OBVIOUS
  <2>1. new = [ep EXCEPT !.comments = notes, !.next_comment_id = next]
    BY <1>4 DEF Peer!Room!Executed
  <2>2. new = [authenticated |-> ep.authenticated, rate_limits |-> ep.rate_limits,
               authorized |-> ep.authorized, active_challenges |-> ep.active_challenges,
               comments |-> notes, next_comment_id |-> next]
    BY <2>1, RoomParts
  <2> QED  BY <1>4, <2>2
<1> QED  BY <1>1, <1>2, <1>3, <1>4, CommandTypes

Restored(ep, u, new) ==
    /\ u.type # "CommentAdded" =>
          new.comments = ep.comments /\ new.next_comment_id = ep.next_comment_id
    /\ u.type = "CommentAdded" =>
          /\ \/ new.comments = ep.comments /\ new.next_comment_id = ep.next_comment_id
                /\ \A i \in DOMAIN ep.comments : ep.comments[i].id # u.comment_id
             \/ new.comments = WithoutId(ep.comments, u.comment_id)
                /\ new.next_comment_id = u.comment_id
          /\ new.authenticated = ep.authenticated
    /\ u.type = "Challenge" => new.authenticated = ep.authenticated
    /\ u.type = "Authentication" /\ u.was = FALSE =>
          new.authenticated = ep.authenticated \ {u.key}
    /\ u.type = "SessionRevoked" =>
          new.authenticated \in {ep.authenticated, ep.authenticated \cup {u.key}}

LEMMA RoomRestored ==
  ASSUME NEW ep \in Rooms, NEW u \in Undos, NEW new, new = Peer!Room!Rollback(ep, u).state
  PROVE  Restored(ep, u, new)
<1> USE DEF Restored
<1>1. new = ep \/ new = Peer!Room!RolledBack(ep, u)
  BY DEF Peer!Room!Rollback
<1>2. CASE u.type = "Challenge"
  <2> PICK challenges : challenges = [ep.active_challenges EXCEPT ![u.key] = None]
    OBVIOUS
  <2>1. new = [ep EXCEPT !.active_challenges = challenges]
    BY <1>2 DEF Peer!Room!Rollback, Peer!Room!RolledBack
  <2>2. new = [authenticated |-> ep.authenticated, rate_limits |-> ep.rate_limits,
               authorized |-> ep.authorized, active_challenges |-> challenges,
               comments |-> ep.comments, next_comment_id |-> ep.next_comment_id]
    BY <2>1, RoomParts
  <2> QED  BY <1>2, <2>2
<1>3. CASE u.type \in {"Authentication", "SessionRevoked"}
  <2> PICK users :
         users = IF u.was THEN ep.authenticated \cup {u.key}
                 ELSE IF u.type = "Authentication" THEN ep.authenticated \ {u.key}
                 ELSE ep.authenticated
    OBVIOUS
  <2>1. new = [ep EXCEPT !.authenticated = users]
    <3>1. new = Peer!Room!RolledBack(ep, u)
      BY <1>3 DEF Peer!Room!Rollback
    <3>2. CASE u.type = "Authentication"
      BY <3>1, <3>2 DEF Peer!Room!RolledBack
    <3>3. CASE u.type = "SessionRevoked"
      BY <3>1, <3>3 DEF Peer!Room!RolledBack
    <3> QED  BY <1>3, <3>2, <3>3
  <2>2. new = [authenticated |-> users, rate_limits |-> ep.rate_limits,
               authorized |-> ep.authorized, active_challenges |-> ep.active_challenges,
               comments |-> ep.comments, next_comment_id |-> ep.next_comment_id]
    BY <2>1, RoomParts
  <2> QED  BY <1>3, <2>2
<1>4. CASE u.type = "CommentAdded"
  <2> PICK notes, next :
         notes = Peer!Room!WithoutId(ep.comments, u.comment_id) /\ next = u.comment_id
    OBVIOUS
  <2>1. \/ new = ep /\ \A i \in DOMAIN ep.comments : ep.comments[i].id # u.comment_id
        \/ new = [ep EXCEPT !.comments = notes, !.next_comment_id = next]
    BY <1>4 DEF Peer!Room!Rollback, Peer!Room!RolledBack
  <2>2. CASE new = [ep EXCEPT !.comments = notes, !.next_comment_id = next]
    <3>1. new = [authenticated |-> ep.authenticated, rate_limits |-> ep.rate_limits,
                 authorized |-> ep.authorized, active_challenges |-> ep.active_challenges,
                 comments |-> notes, next_comment_id |-> next]
      BY <2>2, RoomParts
    <3>2. notes = WithoutId(ep.comments, u.comment_id)
      BY DEF Peer!Room!WithoutId, WithoutId, Peer!Room!Keep, Keep, Peer!Room!Sifted, Sifted
    <3> QED  BY <1>4, <3>1, <3>2
  <2> QED  BY <1>4, <2>1, <2>2
<1> QED  BY <1>2, <1>3, <1>4 DEF Undos

-----------------------------------------------------------------------------
(* What stays *)

LEMMA IndexParts ==
  ASSUME IndexInv, NEW e \in Episodes
  PROVE  /\ rooms[e] # None =>
               /\ rooms[e].state \in Rooms /\ rooms[e].state.authorized # <<>>
               /\ rooms[e].created_at \in Nat
               /\ rooms[e] = [created_at |-> rooms[e].created_at, state |-> rooms[e].state]
               /\ rooms[e].state.next_comment_id \in Nat /\ 1 <= rooms[e].state.next_comment_id
         /\ Present(e) \subseteq Notes /\ Sessions(e) \subseteq PubKeys
         /\ InNumber(e) /\ Brought(e) /\ Rowed(e) /\ Listed(e) /\ Seen(e)
         /\ undone[e] \subseteq Nat /\ last_seen[e] \in Nat
         /\ Len(blocks) \in Nat /\ DOMAIN blocks = 1 .. Len(blocks)
<1>1. rooms[e] \in Entries \cup {None}
  BY DEF IndexInv, IndexType
<1>2. rooms[e] # None =>
         /\ rooms[e].state \in Rooms /\ rooms[e].created_at \in Nat
         /\ rooms[e] = [created_at |-> rooms[e].created_at, state |-> rooms[e].state]
  BY <1>1 DEF Entries
<1>3. rooms[e] # None => /\ rooms[e].state.comments \in Seq(Notes)
                         /\ rooms[e].state.authenticated \subseteq PubKeys
                         /\ rooms[e].state.next_comment_id \in Nat
  BY <1>2, RoomParts
<1>4. Present(e) \subseteq Notes
  BY <1>3, ContentsOf DEF Present
<1>5. Sessions(e) \subseteq PubKeys
  BY <1>3 DEF Sessions
<1>6. /\ InNumber(e) /\ Brought(e) /\ Rowed(e) /\ Listed(e) /\ Seen(e)
      /\ rooms[e] # None =>
            rooms[e].state.authorized # <<>> /\ 1 <= rooms[e].state.next_comment_id
      /\ undone[e] \subseteq Nat /\ last_seen[e] \in Nat
  BY DEF IndexInv, IndexType
<1>7. Len(blocks) \in Nat /\ DOMAIN blocks = 1 .. Len(blocks)
  BY DEF IndexInv, IndexType, IsSeq
<1> QED  BY <1>2, <1>3, <1>4, <1>5, <1>6, <1>7

(* Of a room that is as it was *)
LEMMA RoomStays ==
  ASSUME NEW e, rooms'[e] = rooms[e]
  PROVE  Present(e)' = Present(e) /\ Sessions(e)' = Sessions(e)
BY DEF Present, Sessions

LEMMA InNumberStays ==
  ASSUME NEW e, InNumber(e), Present(e)' \subseteq Present(e),
         Present(e)' # {} => rooms'[e].state.next_comment_id = rooms[e].state.next_comment_id,
         e \in disorder => e \in disorder'
  PROVE  InNumber(e)'
BY DEF InNumber

LEMMA BroughtGrows ==
  ASSUME NEW e, Brought(e), Len(blocks) \in Nat, Len(blocks') \in Nat, Len(blocks) <= Len(blocks'),
         \A i \in 1 .. Len(blocks) : blocks'[i] = blocks[i],
         Present(e)' \subseteq Present(e), Sessions(e)' \subseteq Sessions(e)
  PROVE  Brought(e)'
<1>1. \A i \in 1 .. Len(blocks) : i \in 1 .. Len(blocks')
  OBVIOUS
<1>2. \A c \in Present(e)' : \E i \in 1 .. Len(blocks') :
         About(i, e, "SubmitComment")' /\ blocks'[i].undo.comment_id = c.id
  BY <1>1 DEF Brought, About
<1>3. \A k \in Sessions(e)' : \E i \in 1 .. Len(blocks') :
         About(i, e, "SubmitResponse")' /\ blocks'[i].by = k
  BY <1>1 DEF Brought, About
<1> QED  BY <1>2, <1>3 DEF Brought

LEMMA RowedStays ==
  ASSUME NEW e, Rowed(e), Present(e)' = Present(e), Sessions(e)' = Sessions(e),
         rooms'[e] # None => rooms[e] # None /\
            rooms'[e].state.next_comment_id = rooms[e].state.next_comment_id,
         comments'[e] = comments[e], undone[e] \subseteq undone'[e],
         \A k : <<k, e>> \in memberships' <=> <<k, e>> \in memberships,
         gone \subseteq gone'
  PROVE  Rowed(e)'
BY DEF Rowed

LEMMA ListedStays ==
  ASSUME NEW e, Listed(e), rooms'[e] = rooms[e], episodes'[e] = episodes[e],
         e \in stale => e \in stale', DOMAIN recent_order \subseteq DOMAIN recent_order'
  PROVE  Listed(e)'
BY DEF Listed

LEMMA SeenStays ==
  ASSUME NEW e, Seen(e), Present(e) \subseteq Present(e)', undone[e] \subseteq undone'[e],
         last_seen'[e] = last_seen[e]
  PROVE  Seen(e)'
BY DEF Seen, Past

LEMMA UndoneStays ==
  ASSUME NEW i \in Nat \ {0}, Undone(i), \A j \in 1 .. i : blocks'[j] = blocks[j],
         memberships \subseteq memberships', rooms'[blocks[i].episode] # None,
         blocks[i].cmd.type = "SubmitComment" => blocks[i].undo.comment_id <
            rooms'[blocks[i].episode].state.next_comment_id
  PROVE  Undone(i)'
<1>1. i \in 1 .. i /\ \A j \in 1 .. i - 1 : j \in 1 .. i
  OBVIOUS
<1>2. blocks'[i] = blocks[i] /\ \A j \in 1 .. i - 1 : blocks'[j] = blocks[j]
  BY <1>1
<1> QED  BY <1>2 DEF Undone, About

LEMMA RecentStays ==
  ASSUME NEW t, Recent(t), recent_order'[t] = recent_order[t], again \subseteq again',
         rooms[recent_order[t]] # None => rooms'[recent_order[t]] # None
            /\ rooms'[recent_order[t]].created_at = rooms[recent_order[t]].created_at
  PROVE  Recent(t)'
BY DEF Recent

LEMMA ThereStays ==
  ASSUME NEW e, Present(e) \subseteq Present(e)', undone[e] \subseteq undone'[e], NEW c, There(c, e)
  PROVE  There(c, e)'
BY DEF There

(* The page and the news alone *)
writtenVars == <<rooms, blocks, episodes, comments, memberships, recent_order,
                  undone, stale, gone, again, disorder>>

LEMMA StoreKeeps ==
  ASSUME IndexInv, UNCHANGED writtenVars
  PROVE  /\ \A e \in Episodes : /\ Present(e)' = Present(e) /\ Sessions(e)' = Sessions(e)
                                /\ InNumber(e)' /\ Brought(e)' /\ Rowed(e)' /\ Listed(e)'
         /\ \A i \in 1 .. Len(blocks) : Undone(i)'
         /\ \A t \in DOMAIN recent_order : Recent(t)'
         /\ \A c, e : There(c, e)' <=> There(c, e)
<1> USE DEF writtenVars
<1>1. \A e : Present(e)' = Present(e) /\ Sessions(e)' = Sessions(e)
  BY DEF Present, Sessions
<1>2. ASSUME NEW e \in Episodes PROVE InNumber(e)' /\ Brought(e)' /\ Rowed(e)' /\ Listed(e)'
  <2>1. InNumber(e)'
    BY IndexParts, <1>1, InNumberStays
  <2>2. Rowed(e)' /\ Listed(e)'
    BY IndexParts, <1>1, RowedStays, ListedStays
  <2>3. Brought(e)'
    <3>1. Brought(e) /\ Len(blocks) \in Nat /\ blocks' = blocks
      BY IndexParts
    <3> QED  BY <1>1, <3>1, BroughtGrows
  <2> QED  BY <2>1, <2>2, <2>3
<1>3. ASSUME NEW i \in 1 .. Len(blocks) PROVE Undone(i)'
  BY DEF IndexInv, Undone, About
<1>4. \A t \in DOMAIN recent_order : Recent(t)'
  BY DEF IndexInv, Recent
<1>5. \A c, e : There(c, e)' <=> There(c, e)
  BY <1>1 DEF There
<1> QED  BY <1>1, <1>2, <1>3, <1>4, <1>5

-----------------------------------------------------------------------------
(* The page *)

LEMMA GreatestOf ==
  ASSUME NEW T \in SUBSET Nat, IsFiniteSet(T), T # {} PROVE \E m \in T : \A x \in T : x <= m
<1> PICK n : n = Cardinality(T)
  OBVIOUS
<1>1. n \in Nat /\ n # 0 /\ n - 1 \in Nat /\ n - 1 < n
  BY FS_EmptySet, FS_CardinalityType
<1>2. PICK m \in T : Cardinality({i \in T : i < m}) = n - 1
  BY <1>1, Ranked
<1> PICK B, R : B = {i \in T : i < m} /\ R = T \ {m}
  OBVIOUS
<1>3. IsFiniteSet(R) /\ Cardinality(R) = n - 1
  BY FS_RemoveElement
<1>4. B \in SUBSET R /\ Cardinality(B) = n - 1
  BY <1>2
<1>5. B = R
  BY <1>3, <1>4, FS_Subset
<1>6. \A x \in T : x = m \/ x < m
  BY <1>5
<1> QED  BY <1>6

LEMMA ImageFinite ==
  ASSUME NEW S, IsFiniteSet(S), NEW f PROVE IsFiniteSet({f[x] : x \in S})
<1> PICK T, g : T = {f[x] : x \in S} /\ g = [x \in S |-> f[x]]
  OBVIOUS
<1>1. g \in Surjection(S, T)
  BY DEF Surjection
<1>2. IsFiniteSet(T)
  BY <1>1, FS_Surjection
<1> QED  BY <1>2

LEMMA LatestIs ==
  ASSUME NEW R \in SUBSET Notes, IsFiniteSet(R), R # {}
  PROVE  \E c \in R : c.timestamp = Indexer!Latest(R)
<1> PICK T : T = {c.timestamp : c \in R}
  OBVIOUS
<1>1. T \in SUBSET Nat /\ T # {}
  BY DEF Notes
<1>2. IsFiniteSet(T)
  <2> PICK f : f = [c \in R |-> c.timestamp]
    OBVIOUS
  <2>1. IsFiniteSet({f[c] : c \in R})
    BY ImageFinite
  <2>2. T = {f[c] : c \in R}
    OBVIOUS
  <2> QED  BY <2>1, <2>2
<1>3. PICK m \in T : \A x \in T : x <= m
  BY <1>1, <1>2, GreatestOf
<1>4. \A c \in R : c.timestamp <= m
  BY <1>3
<1>5. Indexer!Latest(R) \in T
  BY <1>4 DEF Indexer!Latest
<1> QED  BY <1>5

(* What the routes answer *)
LEMMA RowsOf ==
  ASSUME IndexInv, NEW e \in Episodes
  PROVE  /\ Indexer!Rows(e) \in SUBSET Notes /\ IsFiniteSet(Indexer!Rows(e))
         /\ Present(e) \subseteq Indexer!Rows(e) /\ \A c \in Indexer!Rows(e) : There(c, e)
         /\ undone[e] = {} => Indexer!Rows(e) = Present(e)
<1> PICK f : f = comments[e]
  OBVIOUS
<1>1. /\ IsFiniteSet(DOMAIN f) /\ DOMAIN f \subseteq Nat
      /\ \A i \in DOMAIN f : f[i] \in Notes /\ f[i].id = i
      /\ Rowed(e) /\ Indexer!Rows(e) = {f[i] : i \in DOMAIN f}
  BY DEF IndexInv, IndexType, Indexer!Rows
<1>2. IsFiniteSet(Indexer!Rows(e))
  BY <1>1, ImageFinite
<1>3. Indexer!Rows(e) \in SUBSET Notes
  BY <1>1
<1>4. Present(e) \subseteq Indexer!Rows(e)
  BY <1>1 DEF Rowed
<1>5. \A c \in Indexer!Rows(e) : There(c, e)
  BY <1>1 DEF Rowed, There
<1>6. undone[e] = {} => Indexer!Rows(e) = Present(e)
  BY <1>4, <1>5 DEF There
<1> QED  BY <1>2, <1>3, <1>4, <1>5, <1>6

LEMMA SameCount == \A S : Indexer!Cardinality(S) = Cardinality(S)
BY DEF Indexer!Cardinality, Cardinality

LEMMA OldestFirst ==
  ASSUME NEW R \in SUBSET Notes, IsFiniteSet(R), NEW n \in Nat,
         NEW c \in R, c \notin Indexer!Oldest(R, n), NEW d \in Indexer!Oldest(R, n)
  PROVE  d.id < c.id
<1> PICK C, D : C = {x \in R : x.id < c.id} /\ D = {x \in R : x.id < d.id}
  OBVIOUS
<1>1. d \in R /\ Cardinality(D) < n /\ ~ (Cardinality(C) < n)
  <2>1. \A x : x \in Indexer!Oldest(R, n) <=>
                 x \in R /\ Cardinality({y \in R : y.id < x.id}) < n
    BY SameCount DEF Indexer!Oldest
  <2>2. d \in R /\ Cardinality(D) < n
    BY <2>1
  <2>3. ~ (Cardinality(C) < n)
    BY <2>1
  <2> QED  BY <2>2, <2>3
<1>2. SUFFICES ASSUME c.id <= d.id PROVE FALSE
  <2>1. c.id \in Nat /\ d.id \in Nat
    BY <1>1 DEF Notes
  <2> QED  BY <2>1
<1>3. C \in SUBSET D
  <2>1. \A x \in R : x.id \in Nat
    BY DEF Notes
  <2>2. \A x \in R : x.id < c.id => x.id < d.id
    BY <1>1, <1>2, <2>1
  <2> QED  BY <2>2
<1>4. IsFiniteSet(D)
  BY FS_Subset
<1>5. Cardinality(C) <= Cardinality(D) /\ Cardinality(D) \in Nat /\ Cardinality(C) \in Nat
  BY <1>3, <1>4, FS_Subset, FS_CardinalityType
<1> QED  BY <1>1, <1>5

(* What an answer has, of the comments that are there *)
Answered(e, path, after, R, old) ==
    /\ R \in SUBSET Notes /\ IsFiniteSet(R) /\ old \in SUBSET Nat
    /\ \A c \in R : There(c, e)
    /\ path = "comments" => old = {}
    /\ path = "episode" => \A c \in Present(e) : c \in R \/ c.id \in old
    /\ path = "comments" /\ undone[e] = {} /\ e \notin disorder =>
          \A c \in Present(e) : after < c.timestamp =>
             c \in R \/ \A d \in R : d.timestamp < c.timestamp

LEMMA AnswerIs ==
  ASSUME IndexInv, NEW e \in Episodes, NEW after \in Nat, NEW path \in {"episode", "comments"},
         NEW R, R = IF path = "episode" THEN Indexer!episode_snapshot(e)
                    ELSE Indexer!episode_comments(e, after),
         NEW old, old = IF path = "episode" THEN Indexer!Ids(Indexer!Rows(e) \ R) ELSE {}
  PROVE  Answered(e, path, after, R, old)
<1> PICK A : A = {c \in Indexer!Rows(e) : c.timestamp > after}
  OBVIOUS
<1>1. /\ Indexer!Rows(e) \in SUBSET Notes /\ IsFiniteSet(Indexer!Rows(e))
      /\ Present(e) \subseteq Indexer!Rows(e) /\ \A c \in Indexer!Rows(e) : There(c, e)
      /\ undone[e] = {} => Indexer!Rows(e) = Present(e)
  BY RowsOf
<1>2. path = "comments" => R = Indexer!Oldest(A, Page)
  BY DEF Indexer!episode_comments, Indexer!get_comments_after
<1>3. R \in SUBSET Indexer!Rows(e)
  BY <1>2 DEF Indexer!episode_snapshot, Indexer!Newest, Indexer!Oldest
<1>4. R \in SUBSET Notes /\ IsFiniteSet(R) /\ \A c \in R : There(c, e)
  BY <1>1, <1>3, FS_Subset
<1>5. old \in SUBSET Nat /\ (path = "comments" => old = {})
  <2>1. \A c \in Indexer!Rows(e) : c.id \in Nat
    BY <1>1 DEF Notes
  <2> QED  BY <2>1 DEF Indexer!Ids
<1>6. path = "episode" => \A c \in Present(e) : c \in R \/ c.id \in old
  BY <1>1 DEF Indexer!Ids
<1>7. ASSUME path = "comments", undone[e] = {}, e \notin disorder,
             NEW c \in Present(e), after < c.timestamp, c \notin R, NEW d \in R
      PROVE  d.timestamp < c.timestamp
  <2>1. A \in SUBSET Notes /\ IsFiniteSet(A)
    <3>1. A \in SUBSET Indexer!Rows(e)
      OBVIOUS
    <3> QED  BY <1>1, <3>1, FS_Subset
  <2>2. c \in Notes /\ c \in A
    <3>1. c \in Indexer!Rows(e) /\ c.timestamp \in Nat
      BY <1>1, <1>7 DEF Notes
    <3> QED  BY <1>1, <1>7, <3>1
  <2>3. d.id < c.id
    BY <1>2, <1>7, <2>1, <2>2, IndexAssumption, OldestFirst
  <2>4. d \in Present(e)
    BY <1>1, <1>3, <1>7
  <2> QED  BY <1>7, <2>3, <2>4, IndexParts DEF InNumber
<1> QED  BY <1>4, <1>5, <1>6, <1>7 DEF Answered

(* The rows that are rendered *)
LEMMA Rendered ==
  ASSUME NEW e, NEW R, Indexer!renderIndexerComment(e, R), UNCHANGED news
  PROVE  /\ Indexer!displayedComments \subseteq Indexer!displayedComments'
         /\ \A c \in R : <<e, c.id>> \in Indexer!displayedComments'
         /\ cards \subseteq cards'
         /\ \A d \in cards' : d \in cards \/ \E c \in R : d = [episode |-> e, comment |-> c]
<1>1. cards' = cards \cup {[episode |-> e, comment |-> c] :
                               c \in {c \in R : <<e, c.id>> \notin Indexer!displayedComments}}
  BY DEF Indexer!renderIndexerComment
<1>2. Indexer!displayedComments \subseteq Indexer!displayedComments'
  BY <1>1 DEF Indexer!displayedComments
<1>3. ASSUME NEW c \in R PROVE <<e, c.id>> \in Indexer!displayedComments'
  <2>1. CASE <<e, c.id>> \in Indexer!displayedComments
    BY <1>2, <2>1
  <2>2. CASE <<e, c.id>> \notin Indexer!displayedComments
    <3> PICK d : d = [episode |-> e, comment |-> c]
      OBVIOUS
    <3>1. d \in cards' /\ d.episode = e /\ d.comment.id = c.id
      BY <1>1, <2>2
    <3> QED  BY <3>1 DEF Indexer!displayedComments
  <2> QED  BY <2>1, <2>2
<1> QED  BY <1>1, <1>2, <1>3

-----------------------------------------------------------------------------
(* What a step of the page leaves alone *)

LEMMA PageParts ==
  ASSUME IndexInv
  PROVE  /\ cards \subseteq [episode : Episodes, comment : Notes]
         /\ fetch \in [Fetches -> Asks \cup {None}] /\ timer \in Episodes \cup {None}
         /\ loads \in Nat /\ last_seen \in [Episodes -> Nat]
         /\ feed = [episode |-> feed.episode, done |-> feed.done, oldest |-> feed.oldest]
         /\ feed.episode \in Episodes \cup {None} /\ feed.done \in Nat
         /\ feed.oldest \in SUBSET Nat /\ feed.done <= loads
         /\ timer # None => 1 <= loads
         /\ \A d \in cards : There(d.comment, d.episode)
         /\ \A f \in Fetches : fetch[f] # None => fetch[f] \in Asks /\ Warranted(fetch[f])
         /\ \A f, g \in Fetches : Current(f) /\ Current(g) => f = g
         /\ \A e \in Episodes : Seen(e) /\ (feed.episode = e => Fed(e))
BY DEF IndexInv, IndexType, PageInv, PageType

LEMMA PageStep ==
  ASSUME IndexInv, UNCHANGED writtenVars, last_seen' \in [Episodes -> Nat],
         \A e \in Episodes : Seen(e)', PageInv'
  PROVE  IndexInv'
<1>1. /\ \A i \in Episodes : InNumber(i)' /\ Brought(i)' /\ Rowed(i)' /\ Listed(i)'
      /\ \A i \in 1 .. Len(blocks) : Undone(i)'
      /\ \A i \in DOMAIN recent_order : Recent(i)'
  BY StoreKeeps
<1>2. IndexType'
  BY DEF IndexInv, IndexType, writtenVars
<1>3. Len(blocks') = Len(blocks) /\ DOMAIN recent_order' = DOMAIN recent_order
  BY DEF writtenVars
<1> QED  BY <1>1, <1>2, <1>3 DEF IndexInv

LEMMA StoreSame ==
  ASSUME IndexInv, UNCHANGED writtenVars
  PROVE  /\ undone' = undone /\ disorder' = disorder
         /\ \A c, e : There(c, e)' <=> There(c, e)
         /\ \A e \in Episodes : Present(e)' = Present(e)
         /\ \A t : \A e \in Episodes : Past(t, e)' <=> Past(t, e)
<1>1. /\ \A c, e : There(c, e)' <=> There(c, e)
      /\ \A e \in Episodes : Present(e)' = Present(e)
  BY StoreKeeps
<1>2. undone' = undone /\ disorder' = disorder
  BY DEF writtenVars
<1>3. \A t : \A e \in Episodes : Past(t, e)' <=> Past(t, e)
  BY <1>1, <1>2 DEF Past
<1> QED  BY <1>1, <1>2, <1>3

(* A request that stays is as sound as it was *)
LEMMA SoundStays ==
  ASSUME IndexInv, UNCHANGED writtenVars, NEW q \in Asks, Warranted(q),
         loads' \in Nat, loads <= loads',
         q.load = loads' =>
            q.load = loads /\ feed'.episode = feed.episode /\ feed'.done = feed.done
  PROVE  Warranted(q)'
<1>1. /\ loads \in Nat /\ q.load \in Nat /\ q.episode \in Episodes
  BY PageParts DEF Asks
<1>2. Past(q.after, q.episode)' /\ \A c : There(c, q.episode)' <=> There(c, q.episode)
  BY <1>1, StoreSame DEF Warranted
<1>3. 1 <= loads' /\ q.load <= loads'
  BY <1>1 DEF Warranted
<1>4. q.load = loads' => q.episode = feed'.episode /\ feed'.done # loads'
  BY DEF Warranted
<1> QED  BY <1>2, <1>3, <1>4 DEF Warranted

(* A step that changes one request *)
LEMMA OthersSound ==
  ASSUME IndexInv, UNCHANGED writtenVars, loads' \in Nat, loads <= loads',
         NEW f \in Fetches, \A g \in Fetches : g # f => fetch'[g] = fetch[g],
         NEW new, fetch'[f] = new, new # None => Warranted(new)',
         \A g \in Fetches : g # f /\ fetch[g] # None /\ fetch[g].load = loads' =>
            fetch[g].load = loads /\ feed'.episode = feed.episode /\ feed'.done = feed.done
  PROVE  \A g \in Fetches, q \in Asks : q # None /\ fetch'[g] = q => Warranted(q)'
<1> SUFFICES ASSUME NEW g \in Fetches, NEW q \in Asks, q # None, fetch'[g] = q PROVE Warranted(q)'
  OBVIOUS
<1>1. CASE g = f
  <2>1. q = new
    BY <1>1
  <2> QED  BY <2>1
<1>2. CASE g # f
  <2>1. fetch[g] = q
    BY <1>2
  <2>2. Warranted(q)
    BY <2>1, PageParts
  <2> QED  BY <1>2, <2>1, <2>2, SoundStays
<1> QED  BY <1>1, <1>2

LEMMA SeenSame ==
  ASSUME IndexInv, UNCHANGED writtenVars, last_seen' = last_seen
  PROVE  \A e \in Episodes : Seen(e)'
<1> SUFFICES ASSUME NEW e \in Episodes PROVE Seen(e)'
  OBVIOUS
<1> PICK t : t = last_seen[e]
  OBVIOUS
<1>1. Past(t, e)
  BY PageParts DEF Seen
<1>2. Past(t, e)' /\ last_seen'[e] = t
  BY <1>1, StoreSame
<1> QED  BY <1>2 DEF Seen, Past

(* What the feed needs, of a step that leaves the store alone *)
LEMMA FedKeeps ==
  ASSUME IndexInv, UNCHANGED writtenVars, NEW e \in Episodes,
         \A c \in Present(e) : undone[e] = {} /\ e \notin disorder /\ Loaded' =>
            Shown(c, e)' \/ Coming(c)' \/ Later(c, e)'
  PROVE  Fed(e)'
BY StoreSame DEF Fed

-----------------------------------------------------------------------------
(* The steps of the page *)

LEMMA LoadFeedInv == ASSUME IndexInv, Indexer!loadFeedForEpisode PROVE IndexInv'
<1> PICK f \in Fetches, e \in Episodes :
       /\ fetch[f] = None
       /\ loads' = loads + 1
       /\ cards' = {} /\ news' = {}
       /\ fetch' = [fetch EXCEPT ![f] = Indexer!Asked(loads + 1, "episode", e, 0)]
       /\ feed' = [episode |-> e, done |-> feed.done, oldest |-> {}]
       /\ UNCHANGED <<timer, last_seen>> /\ UNCHANGED writtenVars
  BY DEF Indexer!loadFeedForEpisode, Indexer!engineVars, Indexer!storeVars, Indexer!historyVars,
         writtenVars
<1> PICK q : q = Indexer!Asked(loads + 1, "episode", e, 0)
  OBVIOUS
<1>1. /\ fetch \in [Fetches -> Asks \cup {None}] /\ timer \in Episodes \cup {None}
      /\ loads \in Nat /\ last_seen \in [Episodes -> Nat]
      /\ feed.done \in Nat /\ feed.done <= loads
      /\ timer # None => 1 <= loads
      /\ \A g \in Fetches : fetch[g] # None => fetch[g] \in Asks /\ Warranted(fetch[g])
  BY PageParts
<1>2. q = [load |-> loads + 1, path |-> "episode", episode |-> e, after |-> 0, answer |-> None]
  BY DEF Indexer!Asked
<1>3. /\ q \in Asks /\ q.load = loads + 1 /\ q.path = "episode" /\ q.episode = e
      /\ q.after = 0 /\ q.answer = None
  BY <1>1, <1>2 DEF Asks
<1>4. /\ fetch'[f] = q /\ fetch' \in [Fetches -> Asks \cup {None}]
      /\ \A g \in Fetches : g # f => fetch'[g] = fetch[g]
  BY <1>1, <1>3
<1>5. /\ loads' = loads + 1 /\ loads' \in Nat /\ loads <= loads' /\ 1 <= loads'
      /\ loads' # feed.done
      /\ feed'.episode = e /\ feed'.done = feed.done /\ feed'.oldest = {}
      /\ feed' \in [episode : Episodes \cup {None}, done : Nat, oldest : SUBSET Nat]
      /\ feed'.done <= loads'
  BY <1>1
<1>6. PageType'
  BY <1>1, <1>4, <1>5 DEF PageType
<1>7. ASSUME NEW g \in Fetches, fetch[g] # None PROVE fetch[g].load # loads'
  <2>1. fetch[g].load \in Nat /\ fetch[g].load <= loads
    BY <1>1, <1>7 DEF Asks, Warranted
  <2> QED  BY <1>1, <1>5, <2>1
<1>8. Warranted(q)'
  <2>1. Past(0, e)'
    BY DEF Past
  <2> QED  BY <1>3, <1>5, <2>1 DEF Warranted
<1>9. \A g \in Fetches, r \in Asks : r # None /\ fetch'[g] = r => Warranted(r)'
  BY <1>4, <1>5, <1>7, <1>8, OthersSound
<1>10. \A g \in Fetches : Current(g)' => g = f
  BY <1>4, <1>7 DEF Current
<1>11. Fed(e)'
  <2>1. ASSUME Loaded', NEW c PROVE Coming(c)'
    <3>1. Current(f)'
      BY <1>5, <1>10, <2>1 DEF Loaded
    <3>2. Awaits(fetch'[f], c)
      BY <1>3, <1>4 DEF Awaits
    <3> QED  BY <3>1, <3>2 DEF Coming, Awaits, Brings
  <2> QED  BY <2>1, FedKeeps
<1>12. PageInv'
  BY <1>5, <1>6, <1>9, <1>10, <1>11 DEF PageInv
<1> QED  BY <1>1, <1>12, SeenSame, PageStep

(* A step after which the page has seen what it had *)
LEMMA FedStays ==
  ASSUME IndexInv, UNCHANGED writtenVars, last_seen' = last_seen, loads' = loads,
         NEW f, \A g \in Fetches : g # f => fetch'[g] = fetch[g],
         NEW r \in Episodes, feed.episode = r,
         \A c : Shown(c, r) => Shown(c, r)',
         Loaded' => Loaded,
         \A c \in Present(r) : undone[r] = {} /\ r \notin disorder /\ Loaded' =>
            /\ Current(f) /\ Awaits(fetch[f], c) => Shown(c, r)' \/ Coming(c)'
            /\ Later(c, r) /\ fetch'[f] # None /\ fetch'[f].episode = r => Leaves(fetch'[f], c)
  PROVE  Fed(r)'
<1>1. SUFFICES ASSUME NEW c \in Present(r), undone[r] = {}, r \notin disorder, Loaded'
               PROVE  Shown(c, r)' \/ Coming(c)' \/ Later(c, r)'
  BY FedKeeps
<1>2. Shown(c, r) \/ Coming(c) \/ Later(c, r)
  BY <1>1, PageParts DEF Fed
<1>3. Coming(c) => Shown(c, r)' \/ Coming(c)'
  <2>1. SUFFICES ASSUME NEW g \in Fetches, Current(g), Awaits(fetch[g], c), g # f
                 PROVE  Coming(c)'
    BY <1>1 DEF Coming
  <2>2. fetch'[g] = fetch[g] /\ Current(g)'
    BY <2>1 DEF Current
  <2> QED  BY <2>1, <2>2 DEF Coming, Awaits, Brings
<1>4. Later(c, r) => Later(c, r)'
  <2>1. SUFFICES ASSUME Later(c, r) PROVE Later(c, r)'
    OBVIOUS
  <2>2. last_seen'[r] < c.timestamp
    BY <2>1 DEF Later
  <2>3. ASSUME NEW g \in Fetches, fetch'[g] # None, fetch'[g].episode = r
        PROVE  Leaves(fetch'[g], c)
    BY <1>1, <2>1, <2>3 DEF Later
  <2> QED  BY <2>2, <2>3 DEF Later, Leaves, Brings
<1> QED  BY <1>1, <1>2, <1>3, <1>4

LEMMA TickInv == ASSUME IndexInv, Indexer!Tick PROVE IndexInv'
<1> PICK f \in Fetches :
       /\ timer # None /\ fetch[f] = None
       /\ fetch' = [fetch EXCEPT ![f] = Indexer!Asked(0, "comments", timer, last_seen[timer])]
       /\ UNCHANGED <<cards, news, timer, last_seen, loads, feed>> /\ UNCHANGED writtenVars
  BY DEF Indexer!Tick, Indexer!engineVars, Indexer!storeVars, Indexer!historyVars, writtenVars
<1> PICK e, t, q : e = timer /\ t = last_seen[e] /\ q = Indexer!Asked(0, "comments", e, t)
  OBVIOUS
<1>1. /\ fetch \in [Fetches -> Asks \cup {None}] /\ timer \in Episodes \cup {None}
      /\ loads \in Nat /\ last_seen \in [Episodes -> Nat]
      /\ timer # None => 1 <= loads
      /\ \A g, h \in Fetches : Current(g) /\ Current(h) => g = h
      /\ \A i \in Episodes : Seen(i)
  BY PageParts
<1>2. e \in Episodes /\ t \in Nat /\ 1 <= loads
  BY <1>1
<1>3. q = [load |-> 0, path |-> "comments", episode |-> e, after |-> t, answer |-> None]
  BY DEF Indexer!Asked
<1>4. /\ q \in Asks /\ q.load = 0 /\ q.path = "comments" /\ q.episode = e
      /\ q.after = t /\ q.answer = None
  BY <1>2, <1>3 DEF Asks
<1>5. /\ fetch'[f] = q /\ fetch' \in [Fetches -> Asks \cup {None}]
      /\ \A g \in Fetches : g # f => fetch'[g] = fetch[g]
  BY <1>1, <1>4
<1>6. PageType'
  BY <1>5 DEF PageType, PageInv, IndexInv
<1>7. Warranted(q)'
  <2>1. Past(t, e)'
    BY <1>1, <1>2, StoreSame DEF Seen
  <2> QED  BY <1>1, <1>2, <1>4, <2>1 DEF Warranted
<1>8. \A g \in Fetches, r \in Asks : r # None /\ fetch'[g] = r => Warranted(r)'
  BY <1>1, <1>5, <1>7, OthersSound
<1>9. \A g \in Fetches : Current(g)' <=> Current(g)
  BY <1>1, <1>2, <1>4, <1>5 DEF Current
<1>10. ASSUME NEW r \in Episodes, feed.episode = r PROVE Fed(r)'
  <2>1. \A c : Shown(c, r) => Shown(c, r)'
    BY DEF Shown, Indexer!displayedComments
  <2>2. Loaded' => Loaded
    BY <1>9 DEF Loaded
  <2>3. ~ Current(f)
    BY DEF Current
  <2>4. \A c : Later(c, r) /\ e = r => Leaves(q, c)
    BY <1>4 DEF Later, Leaves
  <2> QED  BY <1>4, <1>5, <1>10, <2>1, <2>2, <2>3, <2>4, FedStays
<1>11. \A d \in cards' : There(d.comment, d.episode)'
  BY StoreSame, PageParts
<1>12. PageInv'
  BY <1>1, <1>6, <1>8, <1>9, <1>10, <1>11 DEF PageInv
<1> QED  BY <1>1, <1>12, SeenSame, PageStep

LEMMA AnswerInv == ASSUME IndexInv, Indexer!Answer PROVE IndexInv'
<1> PICK f \in Fetches :
       LET q == fetch[f]
           rows == IF q.path = "episode" THEN Indexer!episode_snapshot(q.episode)
                   ELSE Indexer!episode_comments(q.episode, q.after) IN
       /\ q # None /\ q.answer = None
       /\ fetch' = [fetch EXCEPT ![f] = [q EXCEPT !.answer =
              [rows |-> rows,
               oldest |-> IF q.path = "episode"
                          THEN Indexer!Ids(Indexer!Rows(q.episode) \ rows) ELSE {}]]]
       /\ UNCHANGED <<cards, news, timer, last_seen, loads, feed>> /\ UNCHANGED writtenVars
  BY DEF Indexer!Answer, Indexer!engineVars, Indexer!storeVars, Indexer!historyVars, writtenVars
<1> PICK q, e, R, old, a, new :
       /\ q = fetch[f] /\ e = q.episode
       /\ R = IF q.path = "episode" THEN Indexer!episode_snapshot(e)
              ELSE Indexer!episode_comments(e, q.after)
       /\ old = IF q.path = "episode" THEN Indexer!Ids(Indexer!Rows(e) \ R) ELSE {}
       /\ a = [rows |-> R, oldest |-> old] /\ new = [q EXCEPT !.answer = a]
  OBVIOUS
<1>1. /\ fetch \in [Fetches -> Asks \cup {None}]
      /\ loads \in Nat /\ last_seen \in [Episodes -> Nat]
      /\ timer # None => 1 <= loads
      /\ q \in Asks /\ Warranted(q)
      /\ \A g, h \in Fetches : Current(g) /\ Current(h) => g = h
  BY PageParts
<1>2. /\ e \in Episodes /\ q.after \in Nat /\ q.path \in {"episode", "comments"} /\ q.load \in Nat
      /\ q.answer = None
  BY <1>1 DEF Asks
<1>3. /\ R \in SUBSET Notes /\ IsFiniteSet(R) /\ old \in SUBSET Nat
      /\ \A c \in R : There(c, e)
      /\ q.path = "comments" => old = {}
      /\ q.path = "episode" => \A c \in Present(e) : c \in R \/ c.id \in old
      /\ q.path = "comments" /\ undone[e] = {} /\ e \notin disorder =>
            \A c \in Present(e) : q.after < c.timestamp =>
               c \in R \/ \A d \in R : d.timestamp < c.timestamp
  <2> PICK path, after : path = q.path /\ after = q.after
    OBVIOUS
  <2>1. /\ path \in {"episode", "comments"} /\ after \in Nat
        /\ R = IF path = "episode" THEN Indexer!episode_snapshot(e)
               ELSE Indexer!episode_comments(e, after)
        /\ old = IF path = "episode" THEN Indexer!Ids(Indexer!Rows(e) \ R) ELSE {}
    BY <1>2
  <2>2. Answered(e, path, after, R, old)
    BY <1>2, <2>1, AnswerIs
  <2> QED  BY ONLY <2>2, path = q.path /\ after = q.after DEF Answered
<1>4. a \in Bodies /\ a.rows = R /\ a.oldest = old
  BY <1>3 DEF Bodies
<1>5. /\ new \in Asks /\ new.load = q.load /\ new.path = q.path /\ new.episode = e
      /\ new.after = q.after /\ new.answer = a
  BY <1>1, <1>4 DEF Asks
<1>6. fetch' = [fetch EXCEPT ![f] = new]
  OBVIOUS
<1>7. /\ fetch'[f] = new /\ fetch' \in [Fetches -> Asks \cup {None}]
      /\ \A g \in Fetches : g # f => fetch'[g] = fetch[g]
  BY <1>1, <1>5, <1>6
<1>8. PageType'
  BY <1>7 DEF PageType, PageInv, IndexInv
<1>9. Warranted(new)'
  <2>1. Past(q.after, e)'
    BY <1>1, <1>2, StoreSame DEF Warranted
  <2>2. \A c \in R : There(c, e)'
    BY <1>3, StoreSame
  <2> QED  BY <1>1, <1>2, <1>3, <1>4, <1>5, <2>1, <2>2 DEF Warranted
<1>10. \A g \in Fetches, r \in Asks : r # None /\ fetch'[g] = r => Warranted(r)'
  BY <1>1, <1>7, <1>9, OthersSound
<1>11. \A g \in Fetches : Current(g)' => Current(g)
  BY <1>5, <1>7 DEF Current
<1>12. new # None
  BY <1>5, IndexAssumption DEF Asks, Bodies
<1>13. ASSUME NEW r \in Episodes, feed.episode = r PROVE Fed(r)'
  <2>1. \A c : Shown(c, r) => Shown(c, r)'
    BY DEF Shown, Indexer!displayedComments
  <2>2. Loaded' => Loaded
    BY <1>11 DEF Loaded
  <2>3. ASSUME NEW c \in Present(r), undone[r] = {}, r \notin disorder, Current(f),
               Awaits(fetch[f], c)
        PROVE  Coming(c)'
    <3>1. r = e /\ q.path = "episode" /\ q.load = loads
      BY <1>1, <1>13, <2>3 DEF Current, Awaits, Warranted
    <3>2. Awaits(new, c)
      BY <1>3, <1>4, <1>5, <2>3, <3>1 DEF Awaits, Brings
    <3>3. Current(f)'
      BY <1>5, <1>7, <1>12, <3>1 DEF Current
    <3> QED  BY <1>7, <3>2, <3>3 DEF Coming, Awaits, Brings
  <2>4. ASSUME NEW c \in Present(r), undone[r] = {}, r \notin disorder, Later(c, r), e = r
        PROVE  Leaves(new, c)
    <3>1. q.path = "comments" => q.after < c.timestamp
      BY <2>4 DEF Later, Leaves
    <3>2. Brings(new, c) \/ \A d \in R : d.timestamp < c.timestamp
      BY <1>2, <1>3, <1>4, <1>5, <2>4, <3>1 DEF Brings
    <3> QED  BY <1>4, <1>5, <3>1, <3>2 DEF Leaves
  <2> QED  BY <1>5, <1>7, <1>13, <2>1, <2>2, <2>3, <2>4, FedStays
<1>14. \A d \in cards' : There(d.comment, d.episode)'
  BY StoreSame, PageParts
<1>15. PageInv'
  BY <1>1, <1>8, <1>10, <1>11, <1>13, <1>14 DEF PageInv
<1> QED  BY <1>1, <1>15, SeenSame, PageStep

LEMMA FailInv == ASSUME IndexInv, Indexer!Fail PROVE IndexInv'
<1> PICK f \in Fetches :
       /\ fetch[f] # None
       /\ fetch' = [fetch EXCEPT ![f] = None]
       /\ UNCHANGED <<cards, news, timer, last_seen, loads, feed>> /\ UNCHANGED writtenVars
  BY DEF Indexer!Fail, Indexer!engineVars, Indexer!storeVars, Indexer!historyVars, writtenVars
<1>1. /\ fetch \in [Fetches -> Asks \cup {None}]
      /\ loads \in Nat /\ last_seen \in [Episodes -> Nat]
      /\ timer # None => 1 <= loads
      /\ Warranted(fetch[f])
      /\ \A g, h \in Fetches : Current(g) /\ Current(h) => g = h
  BY PageParts
<1>2. /\ fetch'[f] = None /\ fetch' \in [Fetches -> Asks \cup {None}]
      /\ \A g \in Fetches : g # f => fetch'[g] = fetch[g]
  BY <1>1
<1>3. PageType'
  BY <1>2 DEF PageType, PageInv, IndexInv
<1>4. \A g \in Fetches, r \in Asks : r # None /\ fetch'[g] = r => Warranted(r)'
  BY <1>1, <1>2, OthersSound
<1>5. \A g \in Fetches : Current(g)' => g # f /\ Current(g)
  BY <1>2 DEF Current
<1>6. ASSUME NEW r \in Episodes, feed.episode = r PROVE Fed(r)'
  <2>1. \A c : Shown(c, r) => Shown(c, r)'
    BY DEF Shown, Indexer!displayedComments
  <2>2. Loaded' => Loaded
    BY <1>5 DEF Loaded
  <2>3. Current(f) => ~ Loaded'
    <3>1. Current(f) => feed'.done # loads'
      BY <1>1 DEF Current, Warranted
    <3> QED  BY <1>1, <1>5, <3>1 DEF Loaded
  <2> QED  BY <1>2, <1>6, <2>1, <2>2, <2>3, FedStays
<1>7. \A d \in cards' : There(d.comment, d.episode)'
  BY StoreSame, PageParts
<1>8. PageInv'
  BY <1>1, <1>3, <1>4, <1>5, <1>6, <1>7 DEF PageInv
<1> QED  BY <1>1, <1>8, SeenSame, PageStep

LEMMA NewCommentInv == ASSUME IndexInv, Indexer!handleNewComment PROVE IndexInv'
<1> USE DEF writtenVars
<1>1. /\ news \subseteq news'
      /\ UNCHANGED <<cards, fetch, timer, last_seen, loads, feed>> /\ UNCHANGED writtenVars
  BY DEF Indexer!handleNewComment, Indexer!engineVars, Indexer!storeVars, Indexer!historyVars
<1>2. PageType' /\ last_seen' \in [Episodes -> Nat]
  BY <1>1 DEF PageType, PageInv, IndexInv, IndexType
<1>3. ASSUME NEW f \in Fetches, NEW q \in Asks, q # None, fetch[f] = q PROVE Warranted(q)'
  BY <1>1, <1>3, PageParts, SoundStays
<1>4. \A f \in Fetches : Current(f)' <=> Current(f)
  BY <1>1 DEF Current
<1>5. ASSUME NEW r \in Episodes, feed.episode = r PROVE Fed(r)'
  <2>1. \A c : Shown(c, r) => Shown(c, r)'
    BY <1>1 DEF Shown, Indexer!displayedComments
  <2>2. \A c : Coming(c) => Coming(c)'
    BY <1>1, <1>4 DEF Coming, Awaits, Brings
  <2>3. \A c : Later(c, r) => Later(c, r)'
    BY <1>1 DEF Later, Leaves, Brings
  <2>4. Fed(r) /\ (Loaded' => Loaded)
    BY <1>1, <1>4, <1>5, PageParts DEF Loaded
  <2> QED  BY <1>1, <2>1, <2>2, <2>3, <2>4, FedKeeps DEF Fed
<1>6. PageInv'
  <2>1. \A d \in cards' : There(d.comment, d.episode)'
    BY <1>1, StoreSame, PageParts
  <2>2. /\ timer' # None => 1 <= loads'
        /\ \A f, g \in Fetches : Current(f)' /\ Current(g)' => f = g
    BY <1>1, <1>4, PageParts
  <2> QED  BY <1>1, <1>2, <1>3, <1>5, <2>1, <2>2 DEF PageInv
<1> QED  BY <1>1, <1>2, <1>6, SeenSame, PageStep

(* What the page has seen after it has rendered an answer *)
LEMMA LastSeen ==
  ASSUME IndexInv, UNCHANGED writtenVars, NEW e \in Episodes,
         NEW R \in SUBSET Notes, IsFiniteSet(R), \A c \in R : There(c, e),
         Indexer!setLastSeenTs(e, R)
  PROVE  /\ last_seen' \in [Episodes -> Nat]
         /\ \A i \in Episodes : Seen(i)' /\ (i # e => last_seen'[i] = last_seen[i])
         /\ last_seen'[e] = last_seen[e] \/ \E d \in R : d.timestamp = last_seen'[e]
<1> PICK t : t = Indexer!Latest(R)
  OBVIOUS
<1>1. /\ last_seen \in [Episodes -> Nat] /\ \A i \in Episodes : Seen(i)
  BY PageParts
<1>2. R # {} => t \in Nat /\ \E d \in R : d.timestamp = t
  <2>1. R # {} => \E d \in R : d.timestamp = t
    BY LatestIs
  <2> QED  BY <2>1 DEF Notes
<1>3. last_seen' = IF R = {} THEN last_seen ELSE [last_seen EXCEPT ![e] = t]
  BY DEF Indexer!setLastSeenTs
<1>4. /\ last_seen' \in [Episodes -> Nat]
      /\ \A i \in Episodes : i # e => last_seen'[i] = last_seen[i]
      /\ last_seen'[e] = last_seen[e] \/ \E d \in R : d.timestamp = last_seen'[e]
  BY <1>1, <1>2, <1>3
<1>5. ASSUME NEW i \in Episodes PROVE Seen(i)'
  <2> PICK s, old : s = last_seen'[i] /\ old = last_seen[i]
    OBVIOUS
  <2>1. Past(old, i)
    BY <1>1 DEF Seen
  <2>2. Past(s, i)
    <3>1. s = old \/ (i = e /\ \E d \in R : d.timestamp = s)
      BY <1>4
    <3>2. CASE i = e /\ \E d \in R : d.timestamp = s
      BY <3>2 DEF Past, There
    <3> QED  BY <2>1, <3>1, <3>2
  <2>3. Past(s, i)'
    BY <2>2, StoreSame
  <2> QED  BY <2>3 DEF Seen, Past
<1> QED  BY <1>4, <1>5

(* A step that renders an answer *)
LEMMA FedRenders ==
  ASSUME IndexInv, UNCHANGED writtenVars, loads' = loads,
         NEW f \in Fetches, \A g \in Fetches : g # f => fetch'[g] = fetch[g],
         NEW q \in Asks, fetch[f] = q, q # None, q.answer # None,
         NEW e, e = q.episode, NEW R, R = q.answer.rows,
         NEW r \in Episodes, feed.episode = r,
         Indexer!displayedComments \subseteq Indexer!displayedComments',
         \A c \in R : <<e, c.id>> \in Indexer!displayedComments',
         feed.oldest \subseteq feed'.oldest,
         q.path = "episode" /\ r = e => q.answer.oldest \subseteq feed'.oldest,
         \A i \in Episodes : i # e => last_seen'[i] = last_seen[i],
         last_seen'[e] = last_seen[e] \/ \E d \in R : d.timestamp = last_seen'[e],
         Loaded' => Loaded,
         fetch'[f] # None =>
            /\ fetch'[f].episode = e /\ fetch'[f].path = "comments"
            /\ fetch'[f].after = last_seen'[e] /\ fetch'[f].answer = None
  PROVE  Fed(r)'
<1>1. SUFFICES ASSUME NEW c \in Present(r), undone[r] = {}, r \notin disorder, Loaded'
               PROVE  Shown(c, r)' \/ Coming(c)' \/ Later(c, r)'
  BY FedKeeps
<1>2. Shown(c, r) \/ Coming(c) \/ Later(c, r)
  BY <1>1, PageParts DEF Fed
<1>3. Shown(c, r) => Shown(c, r)'
  BY DEF Shown
<1>4. Warranted(q)
  BY PageParts
<1>5. e = r /\ Brings(q, c) => Shown(c, r)'
  <2>1. q.path = "comments" => q.answer.oldest = {}
    BY <1>4 DEF Warranted
  <2>2. q.path \in {"episode", "comments"}
    BY DEF Asks
  <2> QED  BY <2>1, <2>2 DEF Brings, Shown
<1>6. Coming(c) => Shown(c, r)' \/ Coming(c)'
  <2>1. SUFFICES ASSUME NEW g \in Fetches, Current(g), Awaits(fetch[g], c)
                 PROVE  Shown(c, r)' \/ Coming(c)'
    BY DEF Coming
  <2>2. CASE g # f
    <3>1. fetch'[g] = fetch[g] /\ Current(g)'
      BY <2>1, <2>2 DEF Current
    <3> QED  BY <2>1, <3>1 DEF Coming, Awaits, Brings
  <2>3. CASE g = f
    <3>1. e = r /\ Brings(q, c)
      BY <1>4, <2>1, <2>3 DEF Current, Awaits, Warranted
    <3> QED  BY <1>5, <3>1
  <2> QED  BY <2>2, <2>3
<1>7. Later(c, r) => Shown(c, r)' \/ Later(c, r)'
  <2>1. SUFFICES ASSUME Later(c, r), ~ (e = r /\ Brings(q, c)) PROVE Later(c, r)'
    BY <1>5
  <2>2. last_seen'[r] < c.timestamp
    <3>1. last_seen[r] < c.timestamp
      BY <2>1 DEF Later
    <3>2. CASE e = r
      <4>1. Leaves(q, c)
        BY <2>1, <3>2 DEF Later
      <4>2. \A d \in R : d.timestamp < c.timestamp
        BY <2>1, <3>2, <4>1 DEF Leaves
      <4> QED  BY <3>1, <3>2, <4>2
    <3> QED  BY <3>1, <3>2
  <2>3. ASSUME NEW g \in Fetches, fetch'[g] # None, fetch'[g].episode = r
        PROVE  Leaves(fetch'[g], c)
    <3>1. CASE g = f
      BY <2>2, <2>3, <3>1 DEF Leaves
    <3>2. CASE g # f
      BY <2>1, <2>3, <3>2 DEF Later
    <3> QED  BY <3>1, <3>2
  <2> QED  BY <2>2, <2>3 DEF Later, Leaves, Brings
<1> QED  BY <1>2, <1>3, <1>6, <1>7

LEMMA RenderInv == ASSUME IndexInv, Indexer!renderSnapshot PROVE IndexInv'
<1> PICK f \in Fetches :
       LET q == fetch[f]
           e == q.episode IN
       /\ q # None /\ q.answer # None /\ q.path = "episode"
       /\ Indexer!renderIndexerComment(e, q.answer.rows)
       /\ Indexer!setLastSeenTs(e, q.answer.rows)
       /\ fetch' = [fetch EXCEPT ![f] = Indexer!Asked(q.load, "comments", e, last_seen'[e])]
       /\ feed' = IF e = feed.episode
                  THEN [feed EXCEPT !.oldest = @ \cup q.answer.oldest] ELSE feed
       /\ UNCHANGED <<news, timer, loads>> /\ UNCHANGED writtenVars
  BY DEF Indexer!renderSnapshot, Indexer!engineVars, Indexer!storeVars, Indexer!historyVars,
         writtenVars
<1> PICK q, e, R, t, new :
       /\ q = fetch[f] /\ e = q.episode /\ R = q.answer.rows /\ t = last_seen'[e]
       /\ new = Indexer!Asked(q.load, "comments", e, t)
  OBVIOUS
<1>1. /\ cards \subseteq [episode : Episodes, comment : Notes]
      /\ fetch \in [Fetches -> Asks \cup {None}]
      /\ loads \in Nat /\ timer \in Episodes \cup {None}
      /\ timer # None => 1 <= loads
      /\ feed = [episode |-> feed.episode, done |-> feed.done, oldest |-> feed.oldest]
      /\ feed.episode \in Episodes \cup {None} /\ feed.done \in Nat
      /\ feed.oldest \in SUBSET Nat /\ feed.done <= loads
      /\ \A d \in cards : There(d.comment, d.episode)
      /\ q # None /\ q.answer # None /\ q \in Asks /\ Warranted(q)
      /\ \A g, h \in Fetches : Current(g) /\ Current(h) => g = h
  BY PageParts
<1>2. /\ e \in Episodes /\ q.load \in Nat /\ R \in SUBSET Notes /\ q.answer.oldest \in SUBSET Nat
      /\ IsFiniteSet(R) /\ \A c \in R : There(c, e)
  <2>1. q.answer \in Bodies /\ e \in Episodes /\ q.load \in Nat
    BY <1>1 DEF Asks
  <2> QED  BY <1>1, <2>1 DEF Bodies, Warranted
<1>3. /\ last_seen' \in [Episodes -> Nat]
      /\ \A i \in Episodes : Seen(i)' /\ (i # e => last_seen'[i] = last_seen[i])
      /\ t = last_seen[e] \/ \E d \in R : d.timestamp = t
  BY <1>2, LastSeen
<1>4. new = [load |-> q.load, path |-> "comments", episode |-> e, after |-> t, answer |-> None]
  BY DEF Indexer!Asked
<1>5. /\ new \in Asks /\ new.load = q.load /\ new.path = "comments" /\ new.episode = e
      /\ new.after = t /\ new.answer = None
  BY <1>2, <1>3, <1>4 DEF Asks
<1>6. /\ fetch'[f] = new /\ fetch' \in [Fetches -> Asks \cup {None}]
      /\ \A g \in Fetches : g # f => fetch'[g] = fetch[g]
  BY <1>1, <1>5
<1>7. /\ feed'.episode = feed.episode /\ feed'.done = feed.done /\ feed.oldest \subseteq feed'.oldest
      /\ e = feed.episode => q.answer.oldest \subseteq feed'.oldest
      /\ feed' \in [episode : Episodes \cup {None}, done : Nat, oldest : SUBSET Nat]
  <2> PICK old : old = feed.oldest \cup q.answer.oldest
    OBVIOUS
  <2>1. old \in SUBSET Nat
    BY <1>1, <1>2
  <2>2. e = feed.episode => feed' = [episode |-> feed.episode, done |-> feed.done, oldest |-> old]
    BY <1>1
  <2>3. e # feed.episode => feed' = feed
    OBVIOUS
  <2> QED  BY <1>1, <2>1, <2>2, <2>3
<1>8. /\ Indexer!displayedComments \subseteq Indexer!displayedComments'
      /\ \A c \in R : <<e, c.id>> \in Indexer!displayedComments'
      /\ \A d \in cards' : d \in cards \/ \E c \in R : d = [episode |-> e, comment |-> c]
  BY Rendered
<1>9. PageType'
  <2>1. cards' \subseteq [episode : Episodes, comment : Notes]
    BY <1>1, <1>2, <1>8
  <2> QED  BY <1>1, <1>6, <1>7, <2>1 DEF PageType
<1>10. Warranted(new)'
  <2>1. Past(t, e)'
    BY <1>2, <1>3 DEF Seen, Past
  <2> QED  BY <1>1, <1>5, <1>7, <2>1 DEF Warranted
<1>11. \A g \in Fetches, r \in Asks : r # None /\ fetch'[g] = r => Warranted(r)'
  BY <1>1, <1>6, <1>7, <1>10, OthersSound
<1>12. \A g \in Fetches : Current(g)' => Current(g)
  BY <1>1, <1>5, <1>6 DEF Current
<1>13. ASSUME NEW r \in Episodes, feed.episode = r PROVE Fed(r)'
  <2>1. Loaded' => Loaded
    BY <1>7, <1>12 DEF Loaded
  <2> QED  BY <1>1, <1>3, <1>5, <1>6, <1>7, <1>8, <1>13, <2>1, FedRenders
<1>14. \A d \in cards' : There(d.comment, d.episode)'
  BY <1>1, <1>2, <1>8, StoreSame
<1>15. PageInv'
  BY <1>1, <1>7, <1>9, <1>11, <1>12, <1>13, <1>14 DEF PageInv
<1> QED  BY <1>3, <1>15, PageStep

LEMMA PollFeedInv == ASSUME IndexInv, Indexer!pollNewComments PROVE IndexInv'
<1> PICK f \in Fetches :
       LET q == fetch[f] IN
       /\ q # None /\ q.answer # None /\ q.path = "comments"
       /\ Indexer!renderIndexerComment(q.episode, q.answer.rows)
       /\ Indexer!setLastSeenTs(q.episode, q.answer.rows)
       /\ fetch' = [fetch EXCEPT ![f] = None]
       /\ timer' = IF q.load # 0 THEN q.episode ELSE timer
       /\ feed' = IF q.load = loads THEN [feed EXCEPT !.done = loads] ELSE feed
       /\ UNCHANGED <<news, loads>> /\ UNCHANGED writtenVars
  BY DEF Indexer!pollNewComments, Indexer!engineVars, Indexer!storeVars, Indexer!historyVars,
         writtenVars
<1> PICK q, e, R : q = fetch[f] /\ e = q.episode /\ R = q.answer.rows
  OBVIOUS
<1>1. /\ cards \subseteq [episode : Episodes, comment : Notes]
      /\ fetch \in [Fetches -> Asks \cup {None}]
      /\ loads \in Nat /\ timer \in Episodes \cup {None}
      /\ feed = [episode |-> feed.episode, done |-> feed.done, oldest |-> feed.oldest]
      /\ feed.episode \in Episodes \cup {None} /\ feed.done \in Nat
      /\ feed.oldest \in SUBSET Nat /\ feed.done <= loads
      /\ \A d \in cards : There(d.comment, d.episode)
      /\ q # None /\ q.answer # None /\ q \in Asks /\ Warranted(q)
      /\ \A g, h \in Fetches : Current(g) /\ Current(h) => g = h
  BY PageParts
<1>2. /\ e \in Episodes /\ q.load \in Nat /\ R \in SUBSET Notes
      /\ IsFiniteSet(R) /\ \A c \in R : There(c, e)
  <2>1. q.answer \in Bodies /\ e \in Episodes /\ q.load \in Nat
    BY <1>1 DEF Asks
  <2> QED  BY <1>1, <2>1 DEF Bodies, Warranted
<1>3. /\ last_seen' \in [Episodes -> Nat]
      /\ \A i \in Episodes : Seen(i)' /\ (i # e => last_seen'[i] = last_seen[i])
      /\ last_seen'[e] = last_seen[e] \/ \E d \in R : d.timestamp = last_seen'[e]
  BY <1>2, LastSeen
<1>4. /\ fetch'[f] = None /\ fetch' \in [Fetches -> Asks \cup {None}]
      /\ \A g \in Fetches : g # f => fetch'[g] = fetch[g]
  BY <1>1
<1>5. /\ feed'.episode = feed.episode /\ feed'.oldest = feed.oldest
      /\ feed'.done = IF q.load = loads THEN loads ELSE feed.done
      /\ feed' \in [episode : Episodes \cup {None}, done : Nat, oldest : SUBSET Nat]
      /\ feed'.done <= loads'
  <2>1. q.load = loads => feed' = [episode |-> feed.episode, done |-> loads, oldest |-> feed.oldest]
    BY <1>1
  <2> QED  BY <1>1, <2>1
<1>6. timer' \in Episodes \cup {None} /\ 1 <= loads'
  BY <1>1, <1>2 DEF Warranted
<1>7. /\ Indexer!displayedComments \subseteq Indexer!displayedComments'
      /\ \A c \in R : <<e, c.id>> \in Indexer!displayedComments'
      /\ \A d \in cards' : d \in cards \/ \E c \in R : d = [episode |-> e, comment |-> c]
  BY Rendered
<1>8. PageType'
  <2>1. cards' \subseteq [episode : Episodes, comment : Notes]
    BY <1>1, <1>2, <1>7
  <2> QED  BY <1>1, <1>4, <1>5, <1>6, <2>1 DEF PageType
<1>9. \A g \in Fetches : g # f /\ fetch[g] # None /\ fetch[g].load = loads => q.load # loads
  BY <1>1 DEF Current
<1>10. \A g \in Fetches, r \in Asks : r # None /\ fetch'[g] = r => Warranted(r)'
  <2>1. \A g \in Fetches : g # f /\ fetch[g] # None /\ fetch[g].load = loads' =>
           fetch[g].load = loads /\ feed'.episode = feed.episode /\ feed'.done = feed.done
    BY <1>5, <1>9
  <2> QED  BY <1>1, <1>4, <2>1, OthersSound
<1>11. \A g \in Fetches : Current(g)' => Current(g)
  BY <1>4 DEF Current
<1>12. ASSUME NEW r \in Episodes, feed.episode = r PROVE Fed(r)'
  <2>1. Loaded' => Loaded
    <3>1. q.load = loads => Current(f)
      BY <1>1 DEF Current
    <3> QED  BY <1>5, <1>11, <3>1 DEF Loaded
  <2> QED  BY <1>1, <1>3, <1>4, <1>5, <1>7, <1>12, <2>1, FedRenders
<1>13. \A d \in cards' : There(d.comment, d.episode)'
  BY <1>1, <1>2, <1>7, StoreSame
<1>14. PageInv'
  BY <1>1, <1>5, <1>6, <1>8, <1>10, <1>11, <1>12, <1>13 DEF PageInv
<1> QED  BY <1>3, <1>14, PageStep

-----------------------------------------------------------------------------
(* A step of the engine, which leaves the page alone: a comment is there,  *)
(* or undone, as long as there was one; and a new one is the latest.       *)
Grows(e) ==
    /\ undone[e] \subseteq undone'[e] /\ (e \in disorder => e \in disorder')
    /\ \A c \in Present(e) : There(c, e)'
    /\ undone'[e] = {} /\ e \notin disorder' =>
          \A c \in Present(e)' : \/ c \in Present(e)
                                 \/ 0 < c.timestamp /\ \A d \in Present(e) : d.timestamp < c.timestamp

LEMMA ThereGrows ==
  ASSUME NEW e, Grows(e), NEW c, There(c, e) PROVE There(c, e)'
BY DEF Grows, There

LEMMA PastGrows ==
  ASSUME NEW e, Grows(e), NEW t, Past(t, e) PROVE Past(t, e)'
<1>1. undone'[e] = {} => undone[e] = {} /\ Present(e) \subseteq Present(e)'
  BY DEF Grows, There
<1> QED  BY <1>1 DEF Past

LEMMA PageMoves ==
  ASSUME IndexInv, UNCHANGED shownVars, \A e \in Episodes : Grows(e)
  PROVE  PageInv'
<1> USE DEF shownVars
<1>1. PageType'
  BY DEF PageType, PageInv, IndexInv
<1>2. ASSUME NEW f \in Fetches, NEW q \in Asks, q # None, fetch[f] = q PROVE Warranted(q)'
  <2>1. Warranted(q) /\ q.episode \in Episodes /\ Grows(q.episode)
    BY <1>2, PageParts DEF Asks
  <2> PICK e : e = q.episode
    OBVIOUS
  <2>2. Past(q.after, e)'
    BY <2>1, PastGrows DEF Warranted
  <2>3. q.answer # None => \A c \in q.answer.rows : There(c, e)'
    BY <2>1, ThereGrows DEF Warranted
  <2> QED  BY <2>1, <2>2, <2>3 DEF Warranted
<1>3. \A f \in Fetches : Current(f)' <=> Current(f)
  BY DEF Current
<1>4. \A d \in cards : There(d.comment, d.episode)'
  <2>1. SUFFICES ASSUME NEW d \in cards PROVE There(d.comment, d.episode)'
    OBVIOUS
  <2> PICK c, e : c = d.comment /\ e = d.episode
    OBVIOUS
  <2>2. There(c, e) /\ e \in Episodes
    BY PageParts
  <2>3. There(c, e)'
    BY <2>2, ThereGrows
  <2> QED  BY <2>3
<1>5. ASSUME NEW r \in Episodes, feed.episode = r PROVE Fed(r)'
  <2>1. Grows(r) /\ Fed(r)
    BY <1>5, PageParts
  <2>2. Loaded' <=> Loaded
    BY <1>3 DEF Loaded
  <2>3. SUFFICES ASSUME undone'[r] = {}, r \notin disorder', Loaded, NEW c \in Present(r)'
                 PROVE  Shown(c, r)' \/ Coming(c)' \/ Later(c, r)'
    BY <2>2 DEF Fed
  <2>4. undone[r] = {} /\ r \notin disorder
    BY <2>1, <2>3 DEF Grows
  <2>5. Shown(c, r) \/ Coming(c) \/ Later(c, r)
    <3>1. CASE c \in Present(r)
      BY <2>1, <2>3, <2>4, <3>1 DEF Fed
    <3>2. CASE 0 < c.timestamp /\ \A d \in Present(r) : d.timestamp < c.timestamp
      <4>1. \A t : Past(t, r) => t < c.timestamp
        BY <2>4, <3>2 DEF Past
      <4>2. last_seen[r] < c.timestamp
        BY <4>1, PageParts DEF Seen
      <4>3. ASSUME NEW f \in Fetches, fetch[f] # None, fetch[f].episode = r
            PROVE  Leaves(fetch[f], c)
        <5> PICK q : q = fetch[f]
          OBVIOUS
        <5>1. Warranted(q) /\ q.episode = r
          BY <4>3, PageParts
        <5>2. q.after < c.timestamp
          BY <4>1, <5>1 DEF Warranted
        <5>3. q.answer # None => \A d \in q.answer.rows : d.timestamp < c.timestamp
          BY <2>4, <3>2, <5>1 DEF Warranted, There
        <5> QED  BY <5>2, <5>3 DEF Leaves
      <4> QED  BY <4>2, <4>3 DEF Later
    <3> QED  BY <2>1, <2>3, <3>1, <3>2 DEF Grows
  <2>6. Shown(c, r) => Shown(c, r)'
    BY DEF Shown, Indexer!displayedComments
  <2>7. Coming(c) => Coming(c)'
    BY <1>3 DEF Coming, Awaits, Brings
  <2>8. Later(c, r) => Later(c, r)'
    BY DEF Later, Leaves, Brings
  <2> QED  BY <2>5, <2>6, <2>7, <2>8
<1>6. /\ timer' # None => 1 <= loads'
      /\ \A f, g \in Fetches : Current(f)' /\ Current(g)' => f = g
  BY <1>3, PageParts
<1> QED  BY <1>1, <1>2, <1>4, <1>5, <1>6 DEF PageInv

-----------------------------------------------------------------------------
(* The engine: what a block about one room leaves alone *)

LEMMA OthersStay ==
  ASSUME IndexInv, NEW e \in Episodes, NEW i \in Episodes, i # e,
         rooms'[i] = rooms[i], comments'[i] = comments[i], episodes'[i] = episodes[i],
         undone'[i] = undone[i], last_seen' = last_seen,
         \A k : <<k, i>> \in memberships' <=> <<k, i>> \in memberships, gone \subseteq gone',
         i \in stale => i \in stale', i \in disorder => i \in disorder',
         DOMAIN recent_order \subseteq DOMAIN recent_order'
  PROVE  /\ Present(i)' = Present(i) /\ Sessions(i)' = Sessions(i)
         /\ InNumber(i)' /\ Rowed(i)' /\ Listed(i)' /\ Seen(i)'
<1>1. /\ InNumber(i) /\ Rowed(i) /\ Listed(i) /\ Seen(i)
  BY IndexParts
<1>2. Present(i)' = Present(i) /\ Sessions(i)' = Sessions(i)
  BY RoomStays
<1>3. InNumber(i)'
  BY <1>1, <1>2, InNumberStays
<1>4. Rowed(i)'
  BY <1>1, <1>2, RowedStays
<1>5. Listed(i)'
  BY <1>1, ListedStays
<1>6. Seen(i)'
  BY <1>1, <1>2, SeenStays
<1> QED  BY <1>2, <1>3, <1>4, <1>5, <1>6

(* The engine knows the room that a command was about *)
LEMMA BlockParts ==
  ASSUME IndexInv, NEW i \in 1 .. Len(blocks)
  PROVE  i \in Nat \ {0} /\ Undone(i) /\ blocks[i].episode \in Episodes
         /\ rooms[blocks[i].episode] # None
<1>1. Undone(i) /\ Len(blocks) \in Nat
  BY DEF IndexInv, IndexType, IsSeq
<1> QED  BY <1>1 DEF Undone

LEMMA RoomInitialized ==
  ASSUME NEW time \in Nat, NEW new, new = Peer!Room!Initialize(participants, time)
  PROVE  /\ new \in Rooms /\ new.authorized # <<>> /\ new.comments = <<>>
         /\ new.authenticated = {} /\ new.next_comment_id = 1
<1> PICK limits, challenges :
       limits = [k \in PubKeys |-> 0] /\ challenges = [k \in PubKeys |-> None]
  OBVIOUS
<1>1. new = [authenticated |-> {}, rate_limits |-> limits, authorized |-> participants,
             active_challenges |-> challenges, comments |-> <<>>, next_comment_id |-> 1]
  BY DEF Peer!Room!Initialize
<1>2. /\ limits \in [PubKeys -> Nat] /\ challenges \in [PubKeys -> Nat \cup {None}]
      /\ participants \in Seq(PubKeys) /\ participants # <<>> /\ <<>> \in Seq(Notes)
      /\ 1 \in Nat /\ {} \in SUBSET PubKeys
  BY IndexAssumption
<1>3. new \in Rooms
  BY <1>1, <1>2 DEF Rooms
<1> QED  BY <1>1, <1>2, <1>3

LEMMA RoomOpensInv == ASSUME IndexInv, Indexer!on_initialize PROVE IndexInv'
<1> PICK e \in Episodes, time \in Times :
       LET s == Indexer!Room!Initialize(participants, time)
           r == [created_at |-> time, state |-> s] IN
       /\ rooms[e] = None /\ rooms' = [rooms EXCEPT ![e] = r]
       /\ blocks' = Append(blocks, [episode |-> e, cmd |-> [type |-> "NewEpisode"],
                                    by |-> None, undo |-> None])
       /\ episodes' = [episodes EXCEPT ![e] =
              [created_at |-> r.created_at,
               authenticated_count |-> Indexer!Cardinality(r.state.authenticated)]]
       /\ recent_order' = Indexer!Put(recent_order, r.created_at, e)
       /\ stale' = stale \ {e}
       /\ UNCHANGED <<comments, memberships, last_seen, undone, gone, again, disorder>>
       /\ UNCHANGED shownVars
  BY DEF Indexer!on_initialize, Indexer!Chained, Indexer!upsert_episode, Indexer!pageVars,
         shownVars
<1> PICK s, r, n, b, entry :
       /\ s = Indexer!Room!Initialize(participants, time)
       /\ r = [created_at |-> time, state |-> s] /\ n = Len(blocks)
       /\ b = [episode |-> e, cmd |-> [type |-> "NewEpisode"], by |-> None, undo |-> None]
       /\ entry = [created_at |-> time, authenticated_count |-> Cardinality(s.authenticated)]
  OBVIOUS
<1>1. /\ rooms[e] = None /\ rooms' = [rooms EXCEPT ![e] = r] /\ blocks' = Append(blocks, b)
      /\ episodes' = [episodes EXCEPT ![e] = entry]
      /\ recent_order' = Indexer!Put(recent_order, time, e) /\ stale' = stale \ {e}
  BY SameCount
<1>2. /\ time \in Nat /\ s \in Rooms /\ s.authorized # <<>> /\ s.comments = <<>>
      /\ s.authenticated = {} /\ s.next_comment_id = 1
  BY IndexAssumption, SameRooms, RoomInitialized
<1>3. /\ rooms \in [Episodes -> Entries \cup {None}]
      /\ IsSeq(blocks) /\ episodes = [i \in Episodes |-> episodes[i]]
  BY DEF IndexInv, IndexType
<1>4. /\ r \in Entries /\ r # None /\ r.created_at = time /\ r.state = s
  BY <1>2, IndexAssumption DEF Entries
<1>5. /\ rooms'[e] = r /\ \A i \in Episodes : i # e => rooms'[i] = rooms[i]
      /\ episodes'[e] = entry /\ \A i \in Episodes : i # e => episodes'[i] = episodes[i]
      /\ rooms' \in [Episodes -> Entries \cup {None}]
  BY <1>1, <1>3, <1>4
<1>6. /\ DOMAIN recent_order' = DOMAIN recent_order \cup {time} /\ recent_order'[time] = e
      /\ \A t \in DOMAIN recent_order : t # time => recent_order'[t] = recent_order[t]
  <2>1. recent_order' = Indexer!Put(recent_order, time, e)
    BY <1>1
  <2>2. recent_order' = [t \in DOMAIN recent_order \cup {time} |->
                             IF t = time THEN e ELSE recent_order[t]]
    BY <2>1 DEF Indexer!Put
  <2> QED  BY ONLY <2>2
<1>7. /\ IsSeq(blocks') /\ n \in Nat /\ Len(blocks') = n + 1 /\ blocks'[n + 1] = b
      /\ \A i \in 1 .. n : blocks'[i] = blocks[i]
  BY <1>1, <1>3, Prolonged
<1>8. \A i \in 1 .. n : blocks[i].episode \in Episodes \ {e}
  BY <1>1, BlockParts
<1>9. ASSUME NEW i \in Episodes, i # e
      PROVE  /\ Present(i)' = Present(i) /\ InNumber(i)' /\ Brought(i)' /\ Rowed(i)' /\ Listed(i)'
             /\ Seen(i)'
  <2>1. /\ Present(i)' = Present(i) /\ Sessions(i)' = Sessions(i)
        /\ InNumber(i)' /\ Rowed(i)' /\ Listed(i)' /\ Seen(i)'
    BY <1>1, <1>5, <1>6, <1>9, OthersStay
  <2>2. Brought(i)'
    <3>1. Brought(i)
      BY IndexParts
    <3>2. Len(blocks) \in Nat /\ Len(blocks') \in Nat /\ Len(blocks) <= Len(blocks')
      BY <1>7
    <3> QED  BY ONLY <1>7, <2>1, <3>1, <3>2, n = Len(blocks), BroughtGrows
  <2> QED  BY <2>1, <2>2
<1>10. Present(e) = {} /\ Present(e)' = {} /\ Sessions(e) = {} /\ Sessions(e)' = {}
  BY <1>1, <1>2, <1>4, <1>5 DEF Present, Sessions, Contents
<1>11. rooms'[e] # None /\ rooms'[e].state = s /\ rooms'[e].created_at = time
  BY <1>4, <1>5
<1>12. InNumber(e)' /\ Brought(e)'
  BY <1>10 DEF InNumber, Brought
<1>13. Rowed(e)'
  <2>1. Rowed(e) /\ \A i \in DOMAIN comments[e] : i \in Nat
    BY DEF IndexInv, IndexType
  <2> QED  BY <1>1, <1>2, <1>10, <1>11, <2>1 DEF Rowed
<1>14. Listed(e)'
  <2>1. /\ entry = [created_at |-> time, authenticated_count |-> Cardinality(s.authenticated)]
        /\ entry.created_at = time
    OBVIOUS
  <2>2. rooms'[e].created_at = time /\ rooms'[e].state.authenticated = s.authenticated
    BY <1>11
  <2> QED  BY ONLY <1>5, <1>6, <2>1, <2>2 DEF Listed
<1>15. Seen(e)'
  BY <1>10, IndexParts DEF Seen, Past
<1>16. ASSUME NEW i \in 1 .. n + 1 PROVE Undone(i)'
  <2>1. CASE i \in 1 .. n
    <3>1. i \in Nat \ {0} /\ Undone(i) /\ \A j \in 1 .. i : j \in 1 .. n
      BY <1>7, <2>1, BlockParts
    <3>2. rooms'[blocks[i].episode] = rooms[blocks[i].episode] /\ rooms[blocks[i].episode] # None
      BY <1>5, <1>8, <2>1, BlockParts
    <3> QED  BY <1>7, <3>1, <3>2, UndoneStays DEF Undone
  <2>2. CASE i = n + 1
    <3>1. /\ blocks'[i] = b /\ b.episode = e /\ b.cmd.type = "NewEpisode"
      BY <1>7, <2>2
    <3>2. \A j \in 1 .. i - 1 : blocks'[j].episode # e
      BY <1>7, <1>8, <2>2
    <3> QED  BY <1>11, <3>1, <3>2 DEF Undone
  <2> QED  BY <1>7, <2>1, <2>2
<1>17. ASSUME NEW t \in DOMAIN recent_order' PROVE Recent(t)'
  <2>1. CASE t = time
    BY <1>6, <1>11, <2>1 DEF Recent
  <2>2. CASE t # time
    <3>1. t \in DOMAIN recent_order /\ recent_order'[t] = recent_order[t] /\ Recent(t)
      BY <1>6, <2>2 DEF IndexInv
    <3>2. CASE recent_order[t] = e
      BY <1>1, <3>1, <3>2 DEF Recent
    <3>3. CASE recent_order[t] # e
      BY <1>5, <3>1, <3>3 DEF Recent
    <3> QED  BY <3>2, <3>3
  <2> QED  BY <2>1, <2>2
<1>18. \A i \in Episodes : Present(i)' = Present(i)
  BY <1>9, <1>10
<1>19. IndexType'
  <2>1. \A i \in Episodes : rooms'[i] # None =>
           rooms'[i].state.authorized # <<>> /\ 1 <= rooms'[i].state.next_comment_id
    BY <1>2, <1>5, <1>11 DEF IndexInv, IndexType
  <2>2. episodes' = [i \in Episodes |-> episodes'[i]]
    BY <1>1, <1>3
  <2> QED  BY <1>5, <1>7, <2>1, <2>2 DEF IndexInv, IndexType
<1>20. PageInv'
  <2>1. \A i \in Episodes : Grows(i)
    BY <1>18 DEF Grows, There
  <2> QED  BY <2>1, PageMoves
<1> QED  BY <1>7, <1>9, <1>12, <1>13, <1>14, <1>15, <1>16, <1>17, <1>19, <1>20
         DEF IndexInv

(* A command that the room accepts *)
Accepted(ep, c, k, time, r) ==
    /\ c.type \in {"RequestChallenge", "SubmitResponse", "RevokeSession", "SubmitComment"}
    /\ k \in ep.authenticated <=> c.type \in {"RevokeSession", "SubmitComment"}
    /\ r.state \in Rooms /\ r.state.authorized # <<>>
    /\ Changed(ep, c.type, k, time, r.state)
    /\ r.undo \in Undos
    /\ c.type = "RequestChallenge" => r.undo.type = "Challenge"
    /\ c.type = "SubmitResponse" =>
          r.undo.type = "Authentication" /\ r.undo.key = k /\ r.undo.was = FALSE
    /\ c.type = "RevokeSession" => r.undo.type = "SessionRevoked" /\ r.undo.key = k
    /\ c.type = "SubmitComment" =>
          r.undo.type = "CommentAdded" /\ r.undo.comment_id = ep.next_comment_id

LEMMA CommandFacts ==
  ASSUME NEW ep \in Rooms, ep.authorized # <<>>, 1 <= ep.next_comment_id,
         NEW c \in Indexer!Room!Commands, NEW k \in PubKeys, NEW time \in Nat,
         NEW r, r = Indexer!Room!Execute(ep, c, k, time), r.ok
  PROVE  Accepted(ep, c, k, time, r)
<1> USE DEF Accepted
<1> PICK new, u, was : /\ new = Peer!Room!Executed(ep, c, k, time)
                       /\ u = Peer!Room!RollbackOf(ep, c, k) /\ was = (k \in ep.authenticated)
  OBVIOUS
<1>1. c \in Peer!Room!Commands
  BY SameRooms
<1>2. /\ c \in Peer!Commands
      /\ c.type \in {"RequestChallenge", "SubmitResponse", "RevokeSession", "SubmitComment"}
  BY <1>1 DEF Peer!Commands, Peer!Room!Commands
<1>3. Indexer!Room!Accepts(ep, c, k) /\ r = [ok |-> TRUE, state |-> new, undo |-> u]
  BY SameRooms DEF Indexer!Room!Execute
<1>4. (k \in ep.authenticated) = (c.type \in {"RevokeSession", "SubmitComment"})
  BY <1>3 DEF Indexer!Room!Accepts
<1>5. /\ new \in Rooms /\ new.authorized # <<>>
      /\ u \in Undos
  BY <1>2, RoomExecuted, RoomUndo
<1>6. Changed(ep, c.type, k, time, new)
  BY <1>2, RoomChanged
<1>7. CASE c.type = "RequestChallenge"
  <2>1. u = [type |-> "Challenge", key |-> k]
    BY <1>7 DEF Peer!Room!RollbackOf
  <2> QED  BY <1>2, <1>3, <1>4, <1>5, <1>6, <1>7, <2>1
<1>8. CASE c.type = "SubmitResponse"
  <2>1. u = [type |-> "Authentication", key |-> k, was |-> k \in ep.authenticated]
    BY <1>8 DEF Peer!Room!RollbackOf
  <2>2. (k \in ep.authenticated) = FALSE
    BY <1>4, <1>8
  <2>3. u = [type |-> "Authentication", key |-> k, was |-> FALSE]
    BY <2>1, <2>2
  <2>4. u.type = "Authentication" /\ u.key = k /\ u.was = FALSE
    BY <2>3
  <2> QED  BY <1>2, <1>3, <1>4, <1>5, <1>6, <1>8, <2>4
<1>9. CASE c.type = "RevokeSession"
  <2>1. u = [type |-> "SessionRevoked", key |-> k, was |-> was]
    BY <1>9 DEF Peer!Room!RollbackOf
  <2>2. u.type = "SessionRevoked" /\ u.key = k
    BY <2>1
  <2> QED  BY <1>2, <1>3, <1>4, <1>5, <1>6, <1>9, <2>2
<1>10. CASE c.type = "SubmitComment"
  <2>1. u = [type |-> "CommentAdded", comment_id |-> ep.next_comment_id]
    BY <1>10 DEF Peer!Room!RollbackOf
  <2> QED  BY <1>2, <1>3, <1>4, <1>5, <1>6, <1>10, <2>1
<1> QED  BY <1>2, <1>7, <1>8, <1>9, <1>10

(* What the engine told its handler *)
Told(e, c, k, time, r) ==
    /\ rooms[e] # None /\ r = Indexer!Room!Execute(rooms[e].state, c, k, time) /\ r.ok
    /\ rooms' = [rooms EXCEPT ![e] = [created_at |-> rooms[e].created_at, state |-> r.state]]
    /\ blocks' = Append(blocks, [episode |-> e, cmd |-> c, by |-> k, undo |-> r.undo])
    /\ UNCHANGED <<shownVars, last_seen, undone, again>>

ToldComment(e, time, r) ==
    LET row == r.state.comments[Len(r.state.comments)] IN
    /\ comments' = [comments EXCEPT ![e] = Indexer!Put(comments[e], row.id, row)]
    /\ disorder' = IF \E i \in DOMAIN rooms[e].state.comments :
                          rooms[e].state.comments[i].timestamp >= time
                   THEN disorder \cup {e} ELSE disorder
    /\ UNCHANGED <<episodes, memberships, recent_order, gone, stale>>

ToldOther(e, c, k, r) ==
    /\ episodes' = [episodes EXCEPT ![e] =
           [created_at |-> rooms[e].created_at,
            authenticated_count |-> Cardinality(r.state.authenticated)]]
    /\ recent_order' = Indexer!Put(recent_order, rooms[e].created_at, e)
    /\ stale' = stale \ {e}
    /\ memberships' = IF c.type = "SubmitResponse" THEN memberships \cup {<<k, e>>} ELSE memberships
    /\ gone' = IF c.type = "RevokeSession" THEN gone \cup {<<k, e>>} ELSE gone
    /\ UNCHANGED <<comments, disorder>>

LEMMA CommandStep ==
  ASSUME IndexInv, Indexer!on_command
  PROVE  \E e \in Episodes, c \in Indexer!Room!Commands, k \in PubKeys, time \in Times : \E r :
            /\ Told(e, c, k, time, r)
            /\ \/ c.type = "SubmitComment" /\ ToldComment(e, time, r)
               \/ c.type # "SubmitComment" /\ ToldOther(e, c, k, r)
<1> PICK e \in Episodes, c \in Indexer!Room!Commands, k \in PubKeys, time \in Times :
       LET r == Indexer!Room!Execute(rooms[e].state, c, k, time)
           x == [rooms[e] EXCEPT !.state = r.state] IN
       /\ rooms[e] # None
       /\ r.ok
       /\ rooms' = [rooms EXCEPT ![e] = x]
       /\ Indexer!Chained(e, c, k, r.undo)
       /\ IF c.type = "SubmitComment"
          THEN LET row == r.state.comments[Len(r.state.comments)] IN
               /\ Indexer!add_comment(e, row)
               /\ disorder' = IF \E i \in DOMAIN rooms[e].state.comments :
                                     rooms[e].state.comments[i].timestamp >= time
                              THEN disorder \cup {e} ELSE disorder
               /\ UNCHANGED <<episodes, memberships, recent_order, gone, stale>>
          ELSE /\ Indexer!upsert_episode(e, x)
               /\ memberships' = IF c.type = "SubmitResponse"
                                 THEN memberships \cup {<<k, e>>} ELSE memberships
               /\ gone' = IF c.type = "RevokeSession" THEN gone \cup {<<k, e>>} ELSE gone
               /\ UNCHANGED <<comments, disorder>>
  BY DEF Indexer!on_command
<1> PICK r, x : /\ r = Indexer!Room!Execute(rooms[e].state, c, k, time)
                /\ x = [rooms[e] EXCEPT !.state = r.state]
  OBVIOUS
<1>1. x = [created_at |-> rooms[e].created_at, state |-> r.state]
  <2>1. rooms[e] = [created_at |-> rooms[e].created_at, state |-> rooms[e].state]
    BY IndexParts
  <2>2. x = [rooms[e] EXCEPT !.state = r.state]
    OBVIOUS
  <2> QED  BY ONLY <2>1, <2>2
<1>2. x.created_at = rooms[e].created_at /\ x.state = r.state
  BY <1>1
<1>3. /\ blocks' = Append(blocks, [episode |-> e, cmd |-> c, by |-> k, undo |-> r.undo])
      /\ UNCHANGED <<shownVars, last_seen, undone, again>>
  BY DEF Indexer!Chained, Indexer!pageVars, shownVars
<1>4. rooms[e] # None /\ r.ok /\ rooms' = [rooms EXCEPT ![e] = x]
  OBVIOUS
<1>5. c.type = "SubmitComment" => ToldComment(e, time, r)
  BY DEF Indexer!add_comment, ToldComment
<1>6. c.type # "SubmitComment" =>
         /\ Indexer!upsert_episode(e, x)
         /\ memberships' = IF c.type = "SubmitResponse"
                           THEN memberships \cup {<<k, e>>} ELSE memberships
         /\ gone' = IF c.type = "RevokeSession" THEN gone \cup {<<k, e>>} ELSE gone
         /\ UNCHANGED <<comments, disorder>>
  OBVIOUS
<1>7. c.type # "SubmitComment" =>
         /\ episodes' = [episodes EXCEPT ![e] =
                [created_at |-> rooms[e].created_at,
                 authenticated_count |-> Cardinality(r.state.authenticated)]]
         /\ recent_order' = Indexer!Put(recent_order, rooms[e].created_at, e)
         /\ stale' = stale \ {e}
  BY <1>2, <1>6, SameCount DEF Indexer!upsert_episode
<1>8. ToldOther(e, c, k, r) \/ c.type = "SubmitComment"
  BY ONLY <1>6, <1>7 DEF ToldOther
<1>9. Told(e, c, k, time, r)
  <2>1. r = Indexer!Room!Execute(rooms[e].state, c, k, time)
    OBVIOUS
  <2>2. rooms' = [rooms EXCEPT ![e] = [created_at |-> rooms[e].created_at, state |-> r.state]]
    BY <1>1, <1>4
  <2> QED  BY ONLY <1>3, <1>4, <2>1, <2>2 DEF Told
<1> QED  BY <1>5, <1>8, <1>9

(* What a command leaves alone, and what it does to the chain *)
Frame(e) ==
    /\ \A i \in Episodes : i # e => comments'[i] = comments[i] /\ episodes'[i] = episodes[i]
                                    /\ (i \in stale => i \in stale')
                                    /\ \A k : <<k, i>> \in memberships' <=> <<k, i>> \in memberships
    /\ DOMAIN recent_order \subseteq DOMAIN recent_order'
    /\ memberships \subseteq memberships' /\ gone \subseteq gone' /\ disorder \subseteq disorder'

Moved(e, r) ==
    /\ rooms' \in [Episodes -> Entries \cup {None}] /\ IsSeq(blocks')
    /\ \A i \in Episodes : rooms'[i] # None =>
          rooms'[i].state.authorized # <<>> /\ 1 <= rooms'[i].state.next_comment_id
    /\ \A i \in Episodes : i # e =>
          /\ rooms'[i] = rooms[i] /\ Present(i)' = Present(i)
          /\ InNumber(i)' /\ Brought(i)' /\ Rowed(i)' /\ Listed(i)' /\ Seen(i)'
    /\ rooms'[e] # None /\ rooms'[e].created_at = rooms[e].created_at
    /\ rooms'[e].state = r.state
    /\ \A i \in 1 .. Len(blocks') : Undone(i)'

LEMMA CommandShared ==
  ASSUME IndexInv, NEW e \in Episodes, NEW c \in Indexer!Room!Commands, NEW k \in PubKeys,
         NEW time \in Times, NEW r, Told(e, c, k, time, r), Frame(e)
  PROVE  Moved(e, r)
<1> PICK n, b, ep, s, x :
       /\ n = Len(blocks) /\ b = [episode |-> e, cmd |-> c, by |-> k, undo |-> r.undo]
       /\ ep = rooms[e].state /\ s = r.state
       /\ x = [created_at |-> rooms[e].created_at, state |-> s]
  OBVIOUS
<1>1. /\ rooms[e] # None /\ r = Indexer!Room!Execute(ep, c, k, time) /\ r.ok
      /\ rooms' = [rooms EXCEPT ![e] = x] /\ blocks' = Append(blocks, b)
      /\ UNCHANGED <<shownVars, last_seen, undone, again>>
  BY DEF Told
<1>2. /\ ep \in Rooms /\ ep.authorized # <<>> /\ rooms[e].created_at \in Nat
      /\ ep.next_comment_id \in Nat /\ 1 <= ep.next_comment_id
      /\ Brought(e) /\ Rowed(e)
  BY <1>1, IndexParts
<1>3. time \in Nat
  BY IndexAssumption
<1>4. /\ c.type \in {"RequestChallenge", "SubmitResponse", "RevokeSession", "SubmitComment"}
      /\ k \in ep.authenticated <=> c.type \in {"RevokeSession", "SubmitComment"}
      /\ s \in Rooms /\ s.authorized # <<>> /\ Changed(ep, c.type, k, time, s)
      /\ r.undo \in Undos
      /\ c.type = "RequestChallenge" => r.undo.type = "Challenge"
      /\ c.type = "SubmitResponse" =>
            r.undo.type = "Authentication" /\ r.undo.key = k /\ r.undo.was = FALSE
      /\ c.type = "RevokeSession" => r.undo.type = "SessionRevoked" /\ r.undo.key = k
      /\ c.type = "SubmitComment" =>
            r.undo.type = "CommentAdded" /\ r.undo.comment_id = ep.next_comment_id
  <2>1. Accepted(ep, c, k, time, r)
    BY <1>1, <1>2, <1>3, CommandFacts
  <2> QED  BY <2>1 DEF Accepted
<1>5. /\ s.next_comment_id \in Nat /\ ep.next_comment_id <= s.next_comment_id
      /\ 1 <= s.next_comment_id
      /\ c.type = "SubmitComment" => s.next_comment_id = ep.next_comment_id + 1
  BY <1>2, <1>4 DEF Changed
<1>6. /\ rooms \in [Episodes -> Entries \cup {None}] /\ IsSeq(blocks)
      /\ x \in Entries /\ x # None /\ x.created_at = rooms[e].created_at /\ x.state = s
  BY <1>2, <1>4, IndexAssumption DEF IndexInv, IndexType, Entries
<1>7. /\ rooms'[e] = x /\ \A i \in Episodes : i # e => rooms'[i] = rooms[i]
      /\ rooms' \in [Episodes -> Entries \cup {None}]
  BY <1>1, <1>6
<1>8. /\ IsSeq(blocks') /\ n \in Nat /\ Len(blocks') = n + 1 /\ blocks'[n + 1] = b
      /\ \A i \in 1 .. n : blocks'[i] = blocks[i]
  BY <1>1, <1>6, Prolonged
<1>9. ASSUME NEW i \in Episodes, i # e
      PROVE  /\ rooms'[i] = rooms[i] /\ Present(i)' = Present(i)
             /\ InNumber(i)' /\ Brought(i)' /\ Rowed(i)' /\ Listed(i)' /\ Seen(i)'
  <2>1. /\ Present(i)' = Present(i) /\ Sessions(i)' = Sessions(i)
        /\ InNumber(i)' /\ Rowed(i)' /\ Listed(i)' /\ Seen(i)'
    <3>1. /\ comments'[i] = comments[i] /\ episodes'[i] = episodes[i]
          /\ (i \in stale => i \in stale') /\ (i \in disorder => i \in disorder')
          /\ \A j : <<j, i>> \in memberships' <=> <<j, i>> \in memberships
          /\ DOMAIN recent_order \subseteq DOMAIN recent_order' /\ gone \subseteq gone'
      BY <1>9 DEF Frame
    <3>2. rooms'[i] = rooms[i] /\ undone'[i] = undone[i] /\ last_seen' = last_seen
      BY <1>1, <1>7, <1>9
    <3> QED  BY <1>9, <3>1, <3>2, OthersStay
  <2>2. Brought(i)'
    <3>1. Brought(i)
      BY IndexParts
    <3>2. Len(blocks) \in Nat /\ Len(blocks') \in Nat /\ Len(blocks) <= Len(blocks')
      BY <1>8
    <3> QED  BY ONLY <1>8, <2>1, <3>1, <3>2, n = Len(blocks), BroughtGrows
  <2> QED  BY <1>7, <1>9, <2>1, <2>2
<1>10. /\ rooms'[e] # None /\ rooms'[e].created_at = rooms[e].created_at /\ rooms'[e].state = s
  BY <1>6, <1>7
<1>11. \A i \in Episodes : rooms'[i] # None =>
          rooms'[i].state.authorized # <<>> /\ 1 <= rooms'[i].state.next_comment_id
  BY <1>4, <1>5, <1>7, <1>10 DEF IndexInv, IndexType
<1>12. ASSUME NEW i \in 1 .. n PROVE Undone(i)'
  <2> PICK f : f = blocks[i].episode
    OBVIOUS
  <2>1. i \in Nat \ {0} /\ Undone(i) /\ (\A j \in 1 .. i : j \in 1 .. n) /\ f \in Episodes
        /\ rooms[f] # None
    BY <1>8, BlockParts
  <2>2. rooms'[f] # None
    BY <1>7, <1>10, <2>1
  <2>3. blocks[i].cmd.type = "SubmitComment" =>
           blocks[i].undo.comment_id < rooms'[f].state.next_comment_id
    <3>1. SUFFICES ASSUME blocks[i].cmd.type = "SubmitComment"
                   PROVE  blocks[i].undo.comment_id < rooms'[f].state.next_comment_id
      OBVIOUS
    <3>2. blocks[i].undo.comment_id < rooms[f].state.next_comment_id /\ blocks[i].undo \in Undos
          /\ blocks[i].undo.type = "CommentAdded"
      BY <2>1, <3>1 DEF Undone
    <3>3. blocks[i].undo.comment_id \in Nat
      BY <3>2 DEF Undos
    <3>4. CASE f = e
      BY <1>2, <1>5, <1>10, <3>2, <3>3, <3>4
    <3> QED  BY <1>7, <2>1, <3>2, <3>4
  <2>4. \A j \in 1 .. i : blocks'[j] = blocks[j]
    BY <1>8, <2>1
  <2>5. memberships \subseteq memberships'
    BY DEF Frame
  <2> QED  BY <2>1, <2>2, <2>3, <2>4, <2>5, UndoneStays
<1>13. Undone(n + 1)'
  <2>1. /\ b.episode = e /\ b.cmd = c /\ b.by = k /\ b.undo = r.undo
    OBVIOUS
  <2>2. \A i \in 1 .. n : blocks'[i] = blocks[i] /\ Undone(i)
    BY <1>8 DEF IndexInv
  <2>3. (n + 1) - 1 = n
    BY <1>8
  <2>4. CASE c.type = "RequestChallenge"
    BY <1>4, <1>8, <1>10, <2>1, <2>4 DEF Undone
  <2>5. CASE c.type = "SubmitResponse"
    BY <1>4, <1>8, <1>10, <2>1, <2>5 DEF Undone
  <2>6. CASE c.type = "RevokeSession"
    <3>1. k \in Sessions(e)
      BY <1>1, <1>4, <2>6 DEF Sessions
    <3>2. <<k, e>> \in memberships'
      BY <1>2, <3>1 DEF Rowed, Frame
    <3>3. \E j \in 1 .. n : About(j, e, "SubmitResponse") /\ blocks[j].by = k
      BY <1>2, <3>1 DEF Brought
    <3>4. \E j \in 1 .. n : About(j, e, "SubmitResponse")' /\ blocks'[j].by = k
      BY <2>2, <3>3 DEF About
    <3> QED  BY <1>4, <1>8, <1>10, <2>1, <2>3, <2>6, <3>2, <3>4 DEF Undone
  <2>7. CASE c.type = "SubmitComment"
    <3>1. ASSUME NEW j \in 1 .. n, About(j, e, "SubmitComment")'
          PROVE  blocks'[j].undo.comment_id < ep.next_comment_id
      <4>1. blocks'[j] = blocks[j] /\ Undone(j) /\ About(j, e, "SubmitComment")
        BY <2>2, <3>1 DEF About
      <4>2. blocks[j].undo.comment_id < rooms[e].state.next_comment_id
        BY <4>1 DEF Undone, About
      <4> QED  BY <4>1, <4>2
    <3>2. 1 <= ep.next_comment_id /\ ep.next_comment_id < s.next_comment_id
      BY <1>2, <1>5, <2>7
    <3> QED  BY <1>4, <1>8, <1>10, <2>1, <2>3, <2>7, <3>1, <3>2 DEF Undone
  <2> QED  BY <1>4, <2>4, <2>5, <2>6, <2>7
<1>14. \A i \in 1 .. Len(blocks') : Undone(i)'
  <2>1. \A i \in 1 .. n + 1 : i \in 1 .. n \/ i = n + 1
    BY <1>8
  <2> QED  BY <1>8, <1>12, <1>13, <2>1
<1>15. rooms'[e].state = r.state
  BY <1>10
<1> QED  BY <1>7, <1>8, <1>9, <1>10, <1>11, <1>14, <1>15 DEF Moved

LEMMA CommentInv ==
  ASSUME IndexInv, NEW e \in Episodes, NEW c \in Indexer!Room!Commands, NEW k \in PubKeys,
         NEW time \in Times, NEW r, Told(e, c, k, time, r), c.type = "SubmitComment",
         ToldComment(e, time, r)
  PROVE  IndexInv'
<1> PICK n, ep, s, next, note :
       /\ n = Len(blocks) /\ ep = rooms[e].state /\ s = r.state /\ next = ep.next_comment_id
       /\ note = [id |-> next, author |-> k, timestamp |-> time]
  OBVIOUS
<1>1. /\ rooms[e] # None /\ r = Indexer!Room!Execute(ep, c, k, time) /\ r.ok
      /\ blocks' = Append(blocks, [episode |-> e, cmd |-> c, by |-> k, undo |-> r.undo])
      /\ UNCHANGED <<shownVars, last_seen, undone, again>>
  BY DEF Told
<1>2. /\ ep \in Rooms /\ ep.authorized # <<>> /\ next \in Nat /\ 1 <= next
      /\ InNumber(e) /\ Brought(e) /\ Rowed(e) /\ Listed(e) /\ Seen(e)
      /\ ep.comments \in Seq(Notes) /\ time \in Nat /\ time > 0
  <2>1. time \in Nat /\ time > 0
    BY IndexAssumption
  <2>2. /\ ep \in Rooms /\ ep.authorized # <<>> /\ next \in Nat /\ 1 <= next
        /\ InNumber(e) /\ Brought(e) /\ Rowed(e) /\ Listed(e) /\ Seen(e)
    BY <1>1, IndexParts
  <2> QED  BY <2>1, <2>2, RoomParts
<1>3. Accepted(ep, c, k, time, r)
  BY <1>1, <1>2, CommandFacts
<1>4. /\ s.comments = Append(ep.comments, note) /\ s.next_comment_id = next + 1
      /\ s.authenticated = ep.authenticated
      /\ r.undo.comment_id = next
  BY <1>3 DEF Accepted, Changed
<1>5. note \in Notes /\ note.id = next /\ note.timestamp = time
  BY <1>2 DEF Notes
<1>6. s.comments[Len(s.comments)] = note /\ Contents(s.comments) = Contents(ep.comments) \cup {note}
  <2> PICK m : m = Len(ep.comments)
    OBVIOUS
  <2>1. Len(Append(ep.comments, note)) = m + 1 /\ Append(ep.comments, note)[m + 1] = note
    BY <1>2, <1>5, Appended
  <2>2. Contents(Append(ep.comments, note)) = Contents(ep.comments) \cup {note}
    BY <1>2, <1>5, ContentsOf
  <2> QED  BY <1>4, <2>1, <2>2
<1>7. /\ comments' = [comments EXCEPT ![e] = Indexer!Put(comments[e], next, note)]
      /\ disorder' = IF \E i \in DOMAIN ep.comments : ep.comments[i].timestamp >= time
                     THEN disorder \cup {e} ELSE disorder
      /\ UNCHANGED <<episodes, memberships, recent_order, gone, stale>>
  BY <1>5, <1>6 DEF ToldComment
<1>8. /\ comments = [i \in Episodes |-> comments[i]]
      /\ comments'[e] = Indexer!Put(comments[e], next, note)
      /\ \A i \in Episodes : i # e => comments'[i] = comments[i]
      /\ comments' = [i \in Episodes |-> comments'[i]]
  BY <1>7 DEF IndexInv, IndexType
<1>9. disorder \subseteq disorder' /\ Frame(e)
  BY <1>7, <1>8 DEF Frame
<1>10. Moved(e, r)
  BY <1>9, CommandShared
<1>11. /\ rooms' \in [Episodes -> Entries \cup {None}] /\ IsSeq(blocks')
       /\ \A i \in Episodes : rooms'[i] # None =>
             rooms'[i].state.authorized # <<>> /\ 1 <= rooms'[i].state.next_comment_id
       /\ \A i \in Episodes : i # e =>
             /\ rooms'[i] = rooms[i] /\ Present(i)' = Present(i)
             /\ InNumber(i)' /\ Brought(i)' /\ Rowed(i)' /\ Listed(i)' /\ Seen(i)'
       /\ rooms'[e] # None /\ rooms'[e].created_at = rooms[e].created_at /\ rooms'[e].state = s
       /\ \A i \in 1 .. Len(blocks') : Undone(i)'
  BY <1>10 DEF Moved
<1>12. /\ Present(e) = Contents(ep.comments) /\ Present(e)' = Present(e) \cup {note}
       /\ Sessions(e)' = Sessions(e)
  BY <1>1, <1>4, <1>6, <1>11 DEF Present, Sessions
<1>13. \A d \in Present(e) : 1 <= d.id /\ d.id < next /\ d.id \in Nat /\ d \in Notes
  <2>1. Present(e) \subseteq Notes
    BY IndexParts
  <2> QED  BY <1>2, <2>1 DEF InNumber, Notes
<1>14. e \notin disorder' => e \notin disorder /\ \A d \in Present(e) : d.timestamp < time
  <2>1. SUFFICES ASSUME e \notin disorder'
                 PROVE  e \notin disorder /\ \A d \in Present(e) : d.timestamp < time
    OBVIOUS
  <2>2. e \notin disorder /\ \A i \in DOMAIN ep.comments : ~ (ep.comments[i].timestamp >= time)
    BY <1>7, <2>1
  <2>3. \A d \in Present(e) : \E i \in DOMAIN ep.comments : d = ep.comments[i]
    BY <1>12 DEF Contents
  <2>4. \A d \in Present(e) : d.timestamp \in Nat
    BY <1>13 DEF Notes
  <2> QED  BY <1>2, <2>2, <2>3, <2>4
<1>15. InNumber(e)'
  <2>1. \A d \in Present(e)' : 1 <= d.id /\ d.id < next + 1
    BY <1>2, <1>5, <1>12, <1>13
  <2>2. ASSUME NEW d \in Present(e)', NEW f \in Present(e)', d.id = f.id PROVE d = f
    BY <1>2, <1>5, <1>12, <1>13, <2>2 DEF InNumber
  <2>3. ASSUME NEW d \in Present(e)', NEW f \in Present(e)', e \notin disorder', d.id < f.id
        PROVE  d.timestamp < f.timestamp
    BY <1>2, <1>5, <1>12, <1>13, <1>14, <2>3 DEF InNumber
  <2> QED  BY <1>4, <1>11, <2>1, <2>2, <2>3 DEF InNumber
<1>16. /\ n \in Nat /\ Len(blocks') = n + 1 /\ \A i \in 1 .. n : blocks'[i] = blocks[i]
       /\ blocks'[n + 1] = [episode |-> e, cmd |-> c, by |-> k, undo |-> r.undo]
  <2>1. IsSeq(blocks)
    BY DEF IndexInv, IndexType
  <2> QED  BY <1>1, <2>1, Prolonged
<1>17. Brought(e)'
  <2>1. ASSUME NEW d \in Present(e)'
        PROVE  \E i \in 1 .. n + 1 :
                  About(i, e, "SubmitComment")' /\ blocks'[i].undo.comment_id = d.id
    <3>1. CASE d = note
      <4>1. About(n + 1, e, "SubmitComment")' /\ blocks'[n + 1].undo.comment_id = next
        BY <1>4, <1>16 DEF About
      <4> QED  BY <1>5, <1>16, <3>1, <4>1
    <3>2. CASE d \in Present(e)
      <4>1. PICK i \in 1 .. n : About(i, e, "SubmitComment") /\ blocks[i].undo.comment_id = d.id
        BY <1>2, <3>2 DEF Brought
      <4>2. About(i, e, "SubmitComment")' /\ blocks'[i].undo.comment_id = d.id /\ i \in 1 .. n + 1
        BY <1>16, <4>1 DEF About
      <4> QED  BY <4>2
    <3> QED  BY <1>12, <3>1, <3>2
  <2>2. ASSUME NEW j \in Sessions(e)'
        PROVE  \E i \in 1 .. n + 1 : About(i, e, "SubmitResponse")' /\ blocks'[i].by = j
    <3>1. PICK i \in 1 .. n : About(i, e, "SubmitResponse") /\ blocks[i].by = j
      BY <1>2, <1>12 DEF Brought
    <3>2. About(i, e, "SubmitResponse")' /\ blocks'[i].by = j /\ i \in 1 .. n + 1
      BY <1>16, <3>1 DEF About
    <3> QED  BY <3>2
  <2> QED  BY <1>16, <2>1, <2>2 DEF Brought
<1> PICK old, new : old = comments[e] /\ new = comments'[e]
  OBVIOUS
<1>18. /\ DOMAIN new = DOMAIN old \cup {next} /\ new[next] = note
       /\ \A i \in DOMAIN old : i # next => new[i] = old[i]
  BY <1>8 DEF Indexer!Put
<1>19. /\ IsFiniteSet(DOMAIN old) /\ DOMAIN old \subseteq Nat
       /\ \A i \in DOMAIN old : old[i] \in Notes /\ old[i].id = i
  BY DEF IndexInv, IndexType
<1>20. /\ IsFiniteSet(DOMAIN new) /\ DOMAIN new \subseteq Nat
       /\ \A i \in DOMAIN new : new[i] \in Notes /\ new[i].id = i
  <2> PICK D : D = DOMAIN old
    OBVIOUS
  <2>1. IsFiniteSet(D \cup {next})
    BY <1>19, FS_AddElement
  <2> QED  BY <1>2, <1>5, <1>18, <1>19, <2>1
<1>21. Rowed(e)'
  <2>1. \A d \in Present(e)' : d.id \in DOMAIN new /\ new[d.id] = d
    <3>1. \A d \in Present(e) : d.id \in DOMAIN old /\ old[d.id] = d /\ d.id # next
      BY <1>2, <1>13 DEF Rowed
    <3> QED  BY <1>5, <1>12, <1>18, <3>1
  <2>2. ASSUME NEW i \in DOMAIN new
        PROVE  1 <= i /\ (new[i] \in Present(e)' \/ (i \in undone[e] /\ next + 1 <= i))
    <3>1. CASE i = next
      BY <1>2, <1>12, <1>18, <3>1
    <3>2. CASE i # next
      <4>1. i \in DOMAIN old /\ i \in Nat /\ new[i] = old[i]
        BY <1>18, <1>19, <3>2
      <4>2. 1 <= i /\ (old[i] \in Present(e) \/ (i \in undone[e] /\ next <= i))
        BY <1>1, <1>2, <4>1 DEF Rowed
      <4> QED  BY <1>2, <1>12, <3>2, <4>1, <4>2
    <3> QED  BY <3>1, <3>2
  <2>3. /\ \A j \in Sessions(e)' : <<j, e>> \in memberships'
        /\ \A j \in PubKeys : <<j, e>> \in memberships' => j \in Sessions(e)' \/ <<j, e>> \in gone'
    BY <1>2, <1>7, <1>12 DEF Rowed
  <2>4. undone' = undone /\ rooms'[e].state.next_comment_id = next + 1
    BY <1>1, <1>4, <1>11
  <2> QED  BY <2>1, <2>2, <2>3, <2>4 DEF Rowed
<1>22. Listed(e)'
  <2>1. rooms'[e].state.authenticated = rooms[e].state.authenticated
    BY <1>4, <1>11
  <2> QED  BY <1>1, <1>2, <1>7, <1>11, <2>1 DEF Listed
<1>23. Seen(e)'
  BY <1>1, <1>2, <1>12, SeenStays
<1>24. \A i \in Episodes : Present(i) \subseteq Present(i)' /\ undone'[i] = undone[i]
  BY <1>1, <1>11, <1>12
<1>26. IndexType'
  <2>1. \A i \in Episodes : /\ IsFiniteSet(DOMAIN comments'[i]) /\ DOMAIN comments'[i] \subseteq Nat
                            /\ \A j \in DOMAIN comments'[i] : /\ comments'[i][j] \in Notes
                                                              /\ comments'[i][j].id = j
    <3>1. SUFFICES ASSUME NEW i \in Episodes, i # e
                   PROVE  /\ IsFiniteSet(DOMAIN comments[i]) /\ DOMAIN comments[i] \subseteq Nat
                          /\ \A j \in DOMAIN comments[i] : /\ comments[i][j] \in Notes
                                                           /\ comments[i][j].id = j
      BY <1>8, <1>20
    <3> QED  BY DEF IndexInv, IndexType
  <2> QED  BY <1>1, <1>7, <1>8, <1>11, <2>1 DEF IndexInv, IndexType
<1>27. \A t \in DOMAIN recent_order' : Recent(t)'
  <2>1. SUFFICES ASSUME NEW t \in DOMAIN recent_order PROVE Recent(t)'
    BY <1>7
  <2>2. Recent(t)
    BY DEF IndexInv
  <2> QED  BY <1>1, <1>7, <1>11, <2>2 DEF Recent
<1>28. PageInv'
  <2>1. ASSUME NEW i \in Episodes PROVE Grows(i)
    <3>1. undone'[i] = undone[i] /\ (i \in disorder => i \in disorder')
      BY <1>1, <1>9
    <3>2. \A d \in Present(i) : There(d, i)'
      BY <1>24 DEF There
    <3>3. i # e => Present(i)' = Present(i)
      BY <1>11
    <3>4. i = e /\ i \notin disorder' =>
             /\ Present(i)' = Present(i) \cup {note}
             /\ 0 < note.timestamp /\ \A d \in Present(i) : d.timestamp < note.timestamp
      BY <1>5, <1>12, <1>14, IndexAssumption
    <3> QED  BY <3>1, <3>2, <3>3, <3>4 DEF Grows
  <2>2. UNCHANGED shownVars
    BY <1>1
  <2> QED  BY <2>1, <2>2, PageMoves
<1>29. \A i \in Episodes : InNumber(i)' /\ Brought(i)' /\ Rowed(i)' /\ Listed(i)' /\ Seen(i)'
  BY <1>11, <1>15, <1>17, <1>21, <1>22, <1>23
<1> QED  BY <1>11, <1>26, <1>27, <1>28, <1>29 DEF IndexInv

LEMMA OtherCommandInv ==
  ASSUME IndexInv, NEW e \in Episodes, NEW c \in Indexer!Room!Commands, NEW k \in PubKeys,
         NEW time \in Times, NEW r, Told(e, c, k, time, r), c.type # "SubmitComment",
         ToldOther(e, c, k, r)
  PROVE  IndexInv'
<1> PICK n, ep, s, at, entry :
       /\ n = Len(blocks) /\ ep = rooms[e].state /\ s = r.state /\ at = rooms[e].created_at
       /\ entry = [created_at |-> at, authenticated_count |-> Cardinality(s.authenticated)]
  OBVIOUS
<1>1. /\ rooms[e] # None /\ r = Indexer!Room!Execute(ep, c, k, time) /\ r.ok
      /\ blocks' = Append(blocks, [episode |-> e, cmd |-> c, by |-> k, undo |-> r.undo])
      /\ UNCHANGED <<shownVars, last_seen, undone, again>>
  BY DEF Told
<1>2. time \in Nat
  BY IndexAssumption
<1>3. /\ ep \in Rooms /\ ep.authorized # <<>> /\ 1 <= ep.next_comment_id
      /\ InNumber(e) /\ Brought(e) /\ Rowed(e) /\ Listed(e) /\ Seen(e)
  BY <1>1, IndexParts
<1>4. Accepted(ep, c, k, time, r)
  BY <1>1, <1>2, <1>3, CommandFacts
<1>5. /\ c.type \in {"RequestChallenge", "SubmitResponse", "RevokeSession"}
      /\ s.comments = ep.comments /\ s.next_comment_id = ep.next_comment_id
      /\ c.type = "RequestChallenge" => s.authenticated = ep.authenticated
      /\ c.type = "SubmitResponse" => s.authenticated = ep.authenticated \cup {k}
      /\ c.type = "RevokeSession" => s.authenticated = ep.authenticated \ {k}
  BY <1>4 DEF Accepted, Changed
<1>6. /\ episodes' = [episodes EXCEPT ![e] = entry]
      /\ recent_order' = Indexer!Put(recent_order, at, e) /\ stale' = stale \ {e}
      /\ memberships' = IF c.type = "SubmitResponse" THEN memberships \cup {<<k, e>>} ELSE memberships
      /\ gone' = IF c.type = "RevokeSession" THEN gone \cup {<<k, e>>} ELSE gone
      /\ UNCHANGED <<comments, disorder>>
  BY DEF ToldOther
<1>7. /\ episodes'[e] = entry /\ \A i \in Episodes : i # e => episodes'[i] = episodes[i]
      /\ episodes' = [i \in Episodes |-> episodes'[i]]
  BY <1>6 DEF IndexInv, IndexType
<1>8. /\ DOMAIN recent_order' = DOMAIN recent_order \cup {at} /\ recent_order'[at] = e
      /\ \A t \in DOMAIN recent_order : t # at => recent_order'[t] = recent_order[t]
  <2>1. recent_order' = [t \in DOMAIN recent_order \cup {at} |->
                             IF t = at THEN e ELSE recent_order[t]]
    BY <1>6 DEF Indexer!Put
  <2> QED  BY ONLY <2>1
<1>9. Frame(e)
  <2>1. \A i \in Episodes : i # e =>
           /\ comments'[i] = comments[i] /\ episodes'[i] = episodes[i] /\ (i \in stale => i \in stale')
    BY <1>6, <1>7
  <2>2. ASSUME NEW i \in Episodes, i # e, NEW j
        PROVE  <<j, i>> \in memberships' <=> <<j, i>> \in memberships
    BY <1>6, <2>2
  <2> QED  BY <1>6, <1>8, <2>1, <2>2 DEF Frame
<1>10. Moved(e, r)
  BY <1>9, CommandShared
<1>11. /\ rooms' \in [Episodes -> Entries \cup {None}] /\ IsSeq(blocks')
       /\ \A i \in Episodes : rooms'[i] # None =>
             rooms'[i].state.authorized # <<>> /\ 1 <= rooms'[i].state.next_comment_id
       /\ \A i \in Episodes : i # e =>
             /\ rooms'[i] = rooms[i] /\ Present(i)' = Present(i)
             /\ InNumber(i)' /\ Brought(i)' /\ Rowed(i)' /\ Listed(i)' /\ Seen(i)'
       /\ rooms'[e] # None /\ rooms'[e].created_at = at /\ rooms'[e].state = s
       /\ \A i \in 1 .. Len(blocks') : Undone(i)'
  BY <1>10 DEF Moved
<1>12. /\ Present(e)' = Present(e) /\ Sessions(e) = ep.authenticated
       /\ Sessions(e)' = s.authenticated
       /\ rooms'[e].state.next_comment_id = rooms[e].state.next_comment_id
  BY <1>1, <1>5, <1>11 DEF Present, Sessions
<1>13. InNumber(e)'
  BY <1>3, <1>6, <1>12, InNumberStays
<1>14. /\ n \in Nat /\ Len(blocks') = n + 1 /\ \A i \in 1 .. n : blocks'[i] = blocks[i]
       /\ blocks'[n + 1] = [episode |-> e, cmd |-> c, by |-> k, undo |-> r.undo]
  <2>1. IsSeq(blocks)
    BY DEF IndexInv, IndexType
  <2> QED  BY <1>1, <2>1, Prolonged
<1>15. Brought(e)'
  <2>1. ASSUME NEW d \in Present(e)'
        PROVE  \E i \in 1 .. n + 1 :
                  About(i, e, "SubmitComment")' /\ blocks'[i].undo.comment_id = d.id
    <3>1. PICK i \in 1 .. n : About(i, e, "SubmitComment") /\ blocks[i].undo.comment_id = d.id
      BY <1>3, <1>12 DEF Brought
    <3>2. About(i, e, "SubmitComment")' /\ blocks'[i].undo.comment_id = d.id /\ i \in 1 .. n + 1
      BY <1>14, <3>1 DEF About
    <3> QED  BY <3>2
  <2>2. ASSUME NEW j \in Sessions(e)'
        PROVE  \E i \in 1 .. n + 1 : About(i, e, "SubmitResponse")' /\ blocks'[i].by = j
    <3>1. CASE j \in Sessions(e)
      <4>1. PICK i \in 1 .. n : About(i, e, "SubmitResponse") /\ blocks[i].by = j
        BY <1>3, <3>1 DEF Brought
      <4>2. About(i, e, "SubmitResponse")' /\ blocks'[i].by = j /\ i \in 1 .. n + 1
        BY <1>14, <4>1 DEF About
      <4> QED  BY <4>2
    <3>2. CASE c.type = "SubmitResponse" /\ j = k
      <4>1. About(n + 1, e, "SubmitResponse")' /\ blocks'[n + 1].by = k
        BY <1>14, <3>2 DEF About
      <4> QED  BY <1>14, <3>2, <4>1
    <3> QED  BY <1>5, <1>12, <2>2, <3>1, <3>2
  <2> QED  BY <1>14, <2>1, <2>2 DEF Brought
<1>16. Rowed(e)'
  <2>1. \A j \in Sessions(e)' : <<j, e>> \in memberships'
    <3>1. \A j \in Sessions(e) : <<j, e>> \in memberships'
      BY <1>3, <1>6 DEF Rowed
    <3>2. c.type = "SubmitResponse" => <<k, e>> \in memberships'
      BY <1>6
    <3> QED  BY <1>5, <1>12, <3>1, <3>2
  <2>2. ASSUME NEW j \in PubKeys, <<j, e>> \in memberships'
        PROVE  j \in Sessions(e)' \/ <<j, e>> \in gone'
    <3>1. <<j, e>> \in memberships \/ (c.type = "SubmitResponse" /\ j = k)
      BY <1>6, <2>2
    <3>2. <<j, e>> \in memberships => j \in Sessions(e) \/ <<j, e>> \in gone
      BY <1>3 DEF Rowed
    <3>3. c.type = "RevokeSession" => <<k, e>> \in gone'
      BY <1>6
    <3>4. gone \subseteq gone'
      BY <1>6
    <3> QED  BY <1>5, <1>12, <3>1, <3>2, <3>3, <3>4
  <2>3. undone' = undone /\ comments' = comments
    BY <1>1, <1>6
  <2> QED  BY <1>1, <1>3, <1>12, <2>1, <2>2, <2>3 DEF Rowed
<1>17. Listed(e)'
  <2>1. /\ entry = [created_at |-> at, authenticated_count |-> Cardinality(s.authenticated)]
        /\ entry.created_at = at
    OBVIOUS
  <2> QED  BY ONLY <1>7, <1>8, <1>11, <2>1 DEF Listed
<1>18. Seen(e)'
  BY <1>1, <1>3, <1>12, SeenStays
<1>19. \A i \in Episodes : Present(i)' = Present(i)
  BY <1>11, <1>12
<1>21. IndexType'
  BY <1>1, <1>6, <1>7, <1>11 DEF IndexInv, IndexType
<1>22. ASSUME NEW t \in DOMAIN recent_order' PROVE Recent(t)'
  <2>1. CASE t = at
    BY <1>8, <1>11, <2>1 DEF Recent
  <2>2. CASE t # at
    <3>1. t \in DOMAIN recent_order /\ recent_order'[t] = recent_order[t] /\ Recent(t)
      BY <1>8, <2>2 DEF IndexInv
    <3> QED  BY <1>1, <1>11, <2>2, <3>1 DEF Recent
  <2> QED  BY <2>1, <2>2
<1>23. PageInv'
  <2>1. \A i \in Episodes : Grows(i)
    BY <1>1, <1>6, <1>19 DEF Grows, There
  <2>2. UNCHANGED shownVars
    BY <1>1
  <2> QED  BY <2>1, <2>2, PageMoves
<1>24. \A i \in Episodes : InNumber(i)' /\ Brought(i)' /\ Rowed(i)' /\ Listed(i)' /\ Seen(i)'
  BY <1>11, <1>13, <1>15, <1>16, <1>17, <1>18
<1> QED  BY <1>11, <1>21, <1>22, <1>23, <1>24 DEF IndexInv

LEMMA RoomCommandInv == ASSUME IndexInv, Indexer!on_command PROVE IndexInv'
<1> PICK e \in Episodes, c \in Indexer!Room!Commands, k \in PubKeys, time \in Times :
       \E r : /\ Told(e, c, k, time, r)
              /\ \/ c.type = "SubmitComment" /\ ToldComment(e, time, r)
                 \/ c.type # "SubmitComment" /\ ToldOther(e, c, k, r)
  BY CommandStep
<1> PICK r : /\ Told(e, c, k, time, r)
             /\ \/ c.type = "SubmitComment" /\ ToldComment(e, time, r)
                \/ c.type # "SubmitComment" /\ ToldOther(e, c, k, r)
  OBVIOUS
<1>1. CASE c.type = "SubmitComment" /\ ToldComment(e, time, r)
  BY <1>1, CommentInv
<1>2. CASE c.type # "SubmitComment" /\ ToldOther(e, c, k, r)
  BY <1>2, OtherCommandInv
<1> QED  BY <1>1, <1>2

-----------------------------------------------------------------------------
(* The engine takes the last block back, and starts again *)

LEMMA Shortened ==
  ASSUME NEW s, IsSeq(s), s # <<>>, NEW t, t = SubSeq(s, 1, Len(s) - 1)
  PROVE  /\ IsSeq(t) /\ Len(s) \in Nat \ {0} /\ Len(t) = Len(s) - 1
         /\ \A i \in 1 .. Len(s) - 1 : t[i] = s[i]
<1> PICK S, n : S = Contents(s) /\ n = Len(s)
  OBVIOUS
<1>1. s \in Seq(S) /\ n \in Nat \ {0}
  BY DEF IsSeq
<1>2. t \in Seq(S) /\ Len(t) = n - 1 /\ \A i \in 1 .. n - 1 : t[i] = s[i]
  BY <1>1
<1> QED  BY <1>1, <1>2, IsSeqOf

(* What is left of a room and what is known of it *)
Reverted(e, b, x, n) ==
    /\ blocks' = SubSeq(blocks, 1, n - 1)
    /\ rooms' = [rooms EXCEPT ![e] = x]
    /\ undone' = IF b.cmd.type = "SubmitComment"
                 THEN [undone EXCEPT ![e] = @ \cup {b.undo.comment_id}] ELSE undone
    /\ stale' = stale \cup {e}
    /\ gone' = IF b.cmd.type = "SubmitResponse" THEN gone \cup {<<b.by, e>>} ELSE gone
    /\ again' = IF b.cmd.type = "NewEpisode" THEN again \cup {e} ELSE again
    /\ UNCHANGED <<episodes, comments, memberships, recent_order, shownVars, last_seen, disorder>>

(* The rooms but the one that a block was about *)
LEMMA RevertOthers ==
  ASSUME IndexInv, blocks # <<>>, NEW n, n = Len(blocks), NEW b, b = blocks[n],
         NEW e, e = b.episode, NEW x, x \in Entries \cup {None}, Reverted(e, b, x, n)
  PROVE  /\ \A i \in Episodes : i # e =>
               /\ rooms'[i] = rooms[i] /\ Present(i)' = Present(i) /\ undone'[i] = undone[i]
               /\ InNumber(i)' /\ Brought(i)' /\ Rowed(i)' /\ Listed(i)' /\ Seen(i)'
         /\ e \in Episodes /\ rooms'[e] = x /\ rooms' \in [Episodes -> Entries \cup {None}]
         /\ n \in Nat \ {0} /\ IsSeq(blocks') /\ Len(blocks') = n - 1
         /\ \A i \in 1 .. n - 1 : i \in 1 .. n /\ blocks'[i] = blocks[i]
<1>1. /\ IsSeq(blocks) /\ rooms \in [Episodes -> Entries \cup {None}]
      /\ undone \in [Episodes -> SUBSET Nat]
  BY DEF IndexInv, IndexType
<1>2. blocks' = SubSeq(blocks, 1, n - 1)
  BY DEF Reverted
<1>3. /\ n \in Nat \ {0} /\ IsSeq(blocks') /\ Len(blocks') = n - 1
      /\ \A i \in 1 .. n - 1 : blocks'[i] = blocks[i]
  BY <1>1, <1>2, Shortened
<1>4. \A i \in 1 .. n - 1 : i \in 1 .. n
  BY <1>3
<1>5. e \in Episodes
  <2>1. n \in 1 .. Len(blocks)
    BY <1>3
  <2> QED  BY <2>1, BlockParts
<1>6. /\ rooms'[e] = x /\ rooms' \in [Episodes -> Entries \cup {None}]
      /\ \A i \in Episodes : i # e => rooms'[i] = rooms[i] /\ undone'[i] = undone[i]
  BY <1>1, <1>5 DEF Reverted
<1>7. ASSUME NEW i \in Episodes, i # e
      PROVE  /\ Present(i)' = Present(i)
             /\ InNumber(i)' /\ Brought(i)' /\ Rowed(i)' /\ Listed(i)' /\ Seen(i)'
  <2>1. /\ Present(i)' = Present(i) /\ Sessions(i)' = Sessions(i)
        /\ InNumber(i)' /\ Rowed(i)' /\ Listed(i)' /\ Seen(i)'
    <3>1. /\ comments'[i] = comments[i] /\ episodes'[i] = episodes[i] /\ last_seen' = last_seen
          /\ i \in stale => i \in stale'
          /\ \A k : <<k, i>> \in memberships' <=> <<k, i>> \in memberships
          /\ gone \subseteq gone' /\ DOMAIN recent_order \subseteq DOMAIN recent_order'
          /\ i \in disorder => i \in disorder'
      BY DEF Reverted
    <3> QED  BY <1>5, <1>6, <1>7, <3>1, OthersStay
  <2>2. Brought(i) /\ (\A j \in 1 .. n : j \in 1 .. n - 1 \/ j = n)
    <3>1. Brought(i)
      BY IndexParts
    <3> QED  BY <1>3, <3>1
  <2>3. ASSUME NEW d \in Present(i)'
        PROVE  \E j \in 1 .. n - 1 :
                  About(j, i, "SubmitComment")' /\ blocks'[j].undo.comment_id = d.id
    <3>1. PICK j \in 1 .. n : About(j, i, "SubmitComment") /\ blocks[j].undo.comment_id = d.id
      BY <2>1, <2>2 DEF Brought
    <3>2. j \in 1 .. n - 1
      BY <1>7, <2>2, <3>1 DEF About
    <3>3. About(j, i, "SubmitComment")' /\ blocks'[j].undo.comment_id = d.id
      BY <1>3, <3>1, <3>2 DEF About
    <3> QED  BY <3>2, <3>3
  <2>4. ASSUME NEW k \in Sessions(i)'
        PROVE  \E j \in 1 .. n - 1 : About(j, i, "SubmitResponse")' /\ blocks'[j].by = k
    <3>1. PICK j \in 1 .. n : About(j, i, "SubmitResponse") /\ blocks[j].by = k
      BY <2>1, <2>2 DEF Brought
    <3>2. j \in 1 .. n - 1
      BY <1>7, <2>2, <3>1 DEF About
    <3>3. About(j, i, "SubmitResponse")' /\ blocks'[j].by = k
      BY <1>3, <3>1, <3>2 DEF About
    <3> QED  BY <3>2, <3>3
  <2>5. Brought(i)'
    BY <1>3, <2>3, <2>4 DEF Brought
  <2> QED  BY <2>1, <2>5
<1> QED  BY <1>3, <1>4, <1>5, <1>6, <1>7

(* The block that created a room *)
LEMMA RevertFirstInv ==
  ASSUME IndexInv, blocks # <<>>, NEW n, n = Len(blocks), NEW b, b = blocks[n],
         NEW e, e = b.episode, b.cmd.type = "NewEpisode", Reverted(e, b, None, n)
  PROVE  IndexInv'
<1>1. /\ \A i \in Episodes : i # e =>
            /\ rooms'[i] = rooms[i] /\ Present(i)' = Present(i) /\ undone'[i] = undone[i]
            /\ InNumber(i)' /\ Brought(i)' /\ Rowed(i)' /\ Listed(i)' /\ Seen(i)'
      /\ e \in Episodes /\ rooms'[e] = None /\ rooms' \in [Episodes -> Entries \cup {None}]
      /\ n \in Nat \ {0} /\ IsSeq(blocks') /\ Len(blocks') = n - 1
      /\ \A i \in 1 .. n - 1 : i \in 1 .. n /\ blocks'[i] = blocks[i]
  BY RevertOthers
<1>2. /\ undone' = undone /\ stale' = stale \cup {e} /\ again' = again \cup {e} /\ gone' = gone
      /\ UNCHANGED <<episodes, comments, memberships, recent_order, shownVars, last_seen, disorder>>
  BY DEF Reverted
<1>3. Undone(n) /\ Brought(e) /\ Rowed(e) /\ Listed(e) /\ Seen(e)
  <2>1. n \in 1 .. Len(blocks)
    BY <1>1
  <2>2. Undone(n)
    BY <2>1, BlockParts
  <2> QED  BY <1>1, <2>2, IndexParts
<1>4. \A i \in 1 .. n - 1 : blocks[i].episode # e
  BY <1>3 DEF Undone
<1>5. \A i \in 1 .. n : i \in 1 .. n - 1 \/ i = n
  BY <1>1
<1>6. Present(e) = {} /\ Sessions(e) = {}
  <2>1. \A i \in 1 .. n : ~ About(i, e, "SubmitComment") /\ ~ About(i, e, "SubmitResponse")
    BY <1>4, <1>5 DEF About
  <2> QED  BY <1>3, <2>1 DEF Brought
<1>7. Present(e)' = {} /\ Sessions(e)' = {}
  BY <1>1 DEF Present, Sessions
<1>8. InNumber(e)' /\ Brought(e)'
  BY <1>7 DEF InNumber, Brought
<1>9. Rowed(e)'
  BY <1>1, <1>2, <1>3, <1>6, <1>7 DEF Rowed
<1>10. Listed(e)'
  BY <1>1, <1>2, <1>3 DEF Listed
<1>11. Seen(e)'
  BY <1>2, <1>3, <1>6, <1>7, SeenStays
<1>12. \A i \in Episodes : Present(i)' = Present(i)
  BY <1>1, <1>6, <1>7
<1>13. ASSUME NEW i \in 1 .. n - 1 PROVE Undone(i)'
  <2>1. i \in Nat \ {0} /\ Undone(i) /\ blocks[i].episode \in Episodes
        /\ rooms[blocks[i].episode] # None
    BY <1>1, BlockParts
  <2>2. rooms'[blocks[i].episode] = rooms[blocks[i].episode]
    BY <1>1, <1>4, <2>1
  <2>3. \A j \in 1 .. i : blocks'[j] = blocks[j]
    <3>1. \A j \in 1 .. i : j \in 1 .. n - 1
      BY <1>1
    <3> QED  BY <1>1, <3>1
  <2>4. blocks[i].cmd.type = "SubmitComment" => blocks[i].undo.comment_id <
           rooms'[blocks[i].episode].state.next_comment_id
    BY <2>1, <2>2 DEF Undone
  <2> QED  BY <1>2, <2>1, <2>2, <2>3, <2>4, UndoneStays
<1>14. ASSUME NEW t \in DOMAIN recent_order' PROVE Recent(t)'
  <2>1. Recent(t) /\ recent_order' = recent_order
    BY <1>2 DEF IndexInv
  <2>2. CASE recent_order[t] = e
    BY <1>2, <2>1, <2>2 DEF Recent
  <2>3. CASE recent_order[t] # e
    BY <1>1, <1>2, <2>1, <2>3 DEF Recent
  <2> QED  BY <2>2, <2>3
<1>15. IndexType'
  <2>1. \A i \in Episodes : rooms'[i] # None =>
           rooms'[i].state.authorized # <<>> /\ 1 <= rooms'[i].state.next_comment_id
    BY <1>1 DEF IndexInv, IndexType
  <2> QED  BY <1>1, <1>2, <2>1 DEF IndexInv, IndexType
<1>16. PageInv'
  <2>1. \A i \in Episodes : Grows(i)
    BY <1>2, <1>12 DEF Grows, There
  <2>2. UNCHANGED shownVars
    BY <1>2
  <2> QED  BY <2>1, <2>2, PageMoves
<1>18. \A i \in Episodes : InNumber(i)' /\ Brought(i)' /\ Rowed(i)' /\ Listed(i)' /\ Seen(i)'
  BY <1>1, <1>8, <1>9, <1>10, <1>11
<1> QED  BY <1>1, <1>13, <1>14, <1>15, <1>16, <1>18 DEF IndexInv

(* A block that a room had accepted *)
LEMMA RevertCommandInv ==
  ASSUME IndexInv, blocks # <<>>, NEW n, n = Len(blocks), NEW b, b = blocks[n],
         NEW e, e = b.episode, b.cmd.type # "NewEpisode",
         NEW s, s = Indexer!Room!Rollback(rooms[e].state, b.undo).state,
         NEW x, x = [created_at |-> rooms[e].created_at, state |-> s], Reverted(e, b, x, n)
  PROVE  IndexInv'
<1> PICK ep, u : ep = rooms[e].state /\ u = b.undo
  OBVIOUS
<1>1. n \in 1 .. Len(blocks)
  <2>1. IsSeq(blocks)
    BY DEF IndexInv, IndexType
  <2> QED  BY <2>1, Shortened
<1>2. Undone(n) /\ e \in Episodes /\ rooms[e] # None
  BY <1>1, BlockParts
<1>3. /\ ep \in Rooms /\ ep.authorized # <<>> /\ rooms[e].created_at \in Nat
      /\ ep.next_comment_id \in Nat /\ 1 <= ep.next_comment_id /\ Present(e) \subseteq Notes
      /\ InNumber(e) /\ Brought(e) /\ Rowed(e) /\ Listed(e) /\ Seen(e)
  BY <1>2, IndexParts
<1>4. /\ b.cmd.type \in {"RequestChallenge", "SubmitResponse", "RevokeSession", "SubmitComment"}
      /\ u \in Undos
      /\ b.cmd.type = "RequestChallenge" => u.type = "Challenge"
      /\ b.cmd.type = "SubmitResponse" =>
            u.type = "Authentication" /\ u.key = b.by /\ u.was = FALSE
      /\ b.cmd.type = "RevokeSession" =>
            /\ u.type = "SessionRevoked" /\ u.key = b.by /\ <<b.by, e>> \in memberships
            /\ \E j \in 1 .. n - 1 : About(j, e, "SubmitResponse") /\ blocks[j].by = b.by
      /\ b.cmd.type = "SubmitComment" =>
            /\ u.type = "CommentAdded" /\ 1 <= u.comment_id /\ u.comment_id < ep.next_comment_id
            /\ \A j \in 1 .. n - 1 : About(j, e, "SubmitComment") =>
                  blocks[j].undo.comment_id < u.comment_id
  BY <1>2 DEF Undone
<1>5. s \in Rooms /\ s.authorized # <<>> /\ Restored(ep, u, s)
  <2>1. s = Peer!Room!Rollback(ep, u).state
    BY SameRooms
  <2> QED  BY <1>3, <1>4, <2>1, RoomRolledBack, RoomRestored
<1>6. x \in Entries /\ x # None /\ x.created_at = rooms[e].created_at /\ x.state = s
  <2> PICK at : at = rooms[e].created_at
    OBVIOUS
  <2>1. x = [created_at |-> at, state |-> s] /\ at \in Nat /\ s \in Rooms
    BY <1>3, <1>5
  <2>2. x \in Entries /\ x.created_at = at /\ x.state = s
    BY ONLY <2>1 DEF Entries
  <2> QED  BY <2>2, IndexAssumption DEF Entries
<1>7. /\ \A i \in Episodes : i # e =>
            /\ rooms'[i] = rooms[i] /\ Present(i)' = Present(i) /\ undone'[i] = undone[i]
            /\ InNumber(i)' /\ Brought(i)' /\ Rowed(i)' /\ Listed(i)' /\ Seen(i)'
      /\ rooms'[e] = x /\ rooms' \in [Episodes -> Entries \cup {None}]
      /\ n \in Nat \ {0} /\ IsSeq(blocks') /\ Len(blocks') = n - 1
      /\ \A i \in 1 .. n - 1 : i \in 1 .. n /\ blocks'[i] = blocks[i]
  BY <1>6, RevertOthers
<1>8. /\ undone' = IF b.cmd.type = "SubmitComment"
                   THEN [undone EXCEPT ![e] = @ \cup {u.comment_id}] ELSE undone
      /\ stale' = stale \cup {e} /\ again' = again
      /\ gone' = IF b.cmd.type = "SubmitResponse" THEN gone \cup {<<b.by, e>>} ELSE gone
      /\ UNCHANGED <<episodes, comments, memberships, recent_order, shownVars, last_seen, disorder>>
  BY DEF Reverted
<1>9. undone \in [Episodes -> SUBSET Nat]
  BY DEF IndexInv, IndexType
<1>10. b.cmd.type = "SubmitComment" => u.comment_id \in Nat
  BY <1>4 DEF Undos
<1>11. /\ undone' \in [Episodes -> SUBSET Nat] /\ undone[e] \subseteq undone'[e]
       /\ b.cmd.type = "SubmitComment" => u.comment_id \in undone'[e]
       /\ b.cmd.type # "SubmitComment" => undone' = undone
  BY <1>2, <1>8, <1>9, <1>10
<1>12. /\ Present(e) = Contents(ep.comments) /\ Present(e)' = Contents(s.comments)
       /\ Sessions(e) = ep.authenticated /\ Sessions(e)' = s.authenticated
       /\ rooms'[e] # None /\ rooms'[e].created_at = rooms[e].created_at /\ rooms'[e].state = s
       /\ ep.comments \in Seq(Notes)
  BY <1>2, <1>3, <1>6, <1>7, RoomParts DEF Present, Sessions
<1>13. b.cmd.type # "SubmitComment" =>
          s.next_comment_id = ep.next_comment_id /\ Present(e)' = Present(e)
  BY <1>4, <1>5, <1>12 DEF Restored
<1>14. ASSUME b.cmd.type = "SubmitComment"
       PROVE  /\ s.authenticated = ep.authenticated
              /\ Present(e)' = {d \in Present(e) : d.id # u.comment_id}
              /\ s.next_comment_id \in {ep.next_comment_id, u.comment_id}
  <2>1. /\ s.authenticated = ep.authenticated
        /\ \/ s.comments = ep.comments /\ s.next_comment_id = ep.next_comment_id
              /\ \A i \in DOMAIN ep.comments : ep.comments[i].id # u.comment_id
           \/ s.comments = WithoutId(ep.comments, u.comment_id)
              /\ s.next_comment_id = u.comment_id
    BY <1>4, <1>5, <1>14 DEF Restored
  <2>2. CASE /\ s.comments = ep.comments /\ s.next_comment_id = ep.next_comment_id
             /\ \A i \in DOMAIN ep.comments : ep.comments[i].id # u.comment_id
    <3>1. \A d \in Contents(ep.comments) : d.id # u.comment_id
      BY ONLY <2>2 DEF Contents
    <3> QED  BY ONLY <1>12, <2>1, <2>2, <3>1
  <2>3. CASE /\ s.comments = WithoutId(ep.comments, u.comment_id)
             /\ s.next_comment_id = u.comment_id
    <3>1. Contents(WithoutId(ep.comments, u.comment_id)) =
             {d \in Contents(ep.comments) : d.id # u.comment_id}
      BY ONLY <1>12, ContentsOf
    <3> QED  BY <1>12, <2>1, <2>3, <3>1
  <2> QED  BY <2>1, <2>2, <2>3
<1>15. \A i \in 1 .. n : i \in 1 .. n - 1 \/ i = n
  BY <1>7
<1>16. /\ Present(e)' \subseteq Present(e) /\ 1 <= s.next_comment_id
       /\ s.next_comment_id \in Nat /\ s.next_comment_id <= ep.next_comment_id
  <2>1. CASE b.cmd.type = "SubmitComment"
    <3>1. u.comment_id \in Nat /\ 1 <= u.comment_id /\ u.comment_id < ep.next_comment_id
      BY <1>4, <1>10, <2>1
    <3>2. /\ Present(e)' = {d \in Present(e) : d.id # u.comment_id}
          /\ s.next_comment_id \in {ep.next_comment_id, u.comment_id}
      BY <1>14, <2>1
    <3>3. ep.next_comment_id \in Nat /\ 1 <= ep.next_comment_id
      BY <1>3
    <3>4. Present(e)' \subseteq Present(e)
      BY ONLY <3>2
    <3>5. s.next_comment_id = ep.next_comment_id \/ s.next_comment_id = u.comment_id
      BY ONLY <3>2
    <3> QED  BY ONLY <3>1, <3>3, <3>4, <3>5
  <2>2. CASE b.cmd.type # "SubmitComment"
    BY <1>3, <1>13, <2>2
  <2> QED  BY <2>1, <2>2
(* A comment that stays came with an earlier block *)
<1>17. ASSUME NEW d \in Present(e)'
       PROVE  /\ \E i \in 1 .. n - 1 :
                    About(i, e, "SubmitComment") /\ blocks[i].undo.comment_id = d.id
              /\ 1 <= d.id /\ d.id < s.next_comment_id
  <2>1. d \in Present(e) /\ 1 <= d.id /\ d.id < ep.next_comment_id
    BY <1>3, <1>16 DEF InNumber
  <2>2. PICK i \in 1 .. n : About(i, e, "SubmitComment") /\ blocks[i].undo.comment_id = d.id
    BY <1>3, <2>1 DEF Brought
  <2>3. i \in 1 .. n - 1
    BY <1>14, <1>15, <2>2 DEF About
  <2>4. b.cmd.type = "SubmitComment" => d.id < u.comment_id
    BY <1>4, <2>2, <2>3
  <2> QED  BY <1>13, <1>14, <2>1, <2>2, <2>3, <2>4
<1>18. InNumber(e)'
  <2>1. disorder' = disorder /\ rooms'[e].state.next_comment_id = s.next_comment_id
    BY <1>8, <1>12
  <2>2. \A d \in Present(e)' : 1 <= d.id /\ d.id < s.next_comment_id
    BY <1>17
  <2>3. \A d, f \in Present(e)' : /\ d.id = f.id => d = f
                                  /\ e \notin disorder /\ d.id < f.id => d.timestamp < f.timestamp
    BY <1>3, <1>16 DEF InNumber
  <2> QED  BY ONLY <2>1, <2>2, <2>3 DEF InNumber
(* A session that is left *)
<1>19. /\ b.cmd.type = "SubmitResponse" => Sessions(e)' = Sessions(e) \ {b.by}
       /\ b.cmd.type = "RevokeSession" =>
             Sessions(e)' = Sessions(e) \/ Sessions(e)' = Sessions(e) \cup {b.by}
       /\ b.cmd.type \in {"RequestChallenge", "SubmitComment"} => Sessions(e)' = Sessions(e)
  <2>1. CASE b.cmd.type = "SubmitResponse"
    <3>1. u.type = "Authentication" /\ u.was = FALSE /\ u.key = b.by
      BY <1>4, <2>1
    <3>2. s.authenticated = ep.authenticated \ {u.key}
      BY ONLY <1>5, <3>1 DEF Restored
    <3>3. Sessions(e)' = Sessions(e) \ {b.by}
      BY ONLY <1>12, <3>1, <3>2
    <3> QED  BY <2>1, <3>3
  <2>2. CASE b.cmd.type = "RevokeSession"
    <3>1. u.type = "SessionRevoked" /\ u.key = b.by
      BY <1>4, <2>2
    <3>2. s.authenticated = ep.authenticated \/ s.authenticated = ep.authenticated \cup {u.key}
      BY ONLY <1>5, <3>1 DEF Restored
    <3>3. Sessions(e)' = Sessions(e) \/ Sessions(e)' = Sessions(e) \cup {b.by}
      BY ONLY <1>12, <3>1, <3>2
    <3> QED  BY <2>2, <3>3
  <2>3. CASE b.cmd.type = "RequestChallenge"
    <3>1. s.authenticated = ep.authenticated
      BY <1>4, <1>5, <2>3 DEF Restored
    <3> QED  BY <1>12, <2>3, <3>1
  <2>4. CASE b.cmd.type = "SubmitComment"
    BY <1>12, <1>14, <2>4
  <2> QED  BY <1>4, <2>1, <2>2, <2>3, <2>4
<1>20. ASSUME NEW k \in Sessions(e)'
       PROVE  \E i \in 1 .. n - 1 : About(i, e, "SubmitResponse") /\ blocks[i].by = k
  <2>1. CASE b.cmd.type = "RevokeSession" /\ k = b.by
    BY <1>4, <2>1
  <2>2. CASE ~ (b.cmd.type = "RevokeSession" /\ k = b.by)
    <3>1. k \in Sessions(e) /\ ~ (b.cmd.type = "SubmitResponse" /\ k = b.by)
      BY <1>4, <1>20, <1>19, <2>2
    <3>2. PICK i \in 1 .. n : About(i, e, "SubmitResponse") /\ blocks[i].by = k
      BY <1>3, <3>1 DEF Brought
    <3>3. i \in 1 .. n - 1
      BY <1>15, <3>1, <3>2 DEF About
    <3> QED  BY <3>2, <3>3
  <2> QED  BY <2>1, <2>2
<1>21. Brought(e)'
  <2>1. \A i \in 1 .. n - 1 : \A type : About(i, e, type)' <=> About(i, e, type)
    BY <1>7 DEF About
  <2>2. \A d \in Present(e)' : \E i \in 1 .. n - 1 :
           About(i, e, "SubmitComment")' /\ blocks'[i].undo.comment_id = d.id
    <3>1. SUFFICES ASSUME NEW d \in Present(e)'
                   PROVE  \E i \in 1 .. n - 1 :
                             About(i, e, "SubmitComment")' /\ blocks'[i].undo.comment_id = d.id
      OBVIOUS
    <3>2. PICK i \in 1 .. n - 1 : About(i, e, "SubmitComment") /\ blocks[i].undo.comment_id = d.id
      BY <1>17
    <3> QED  BY <1>7, <2>1, <3>2
  <2>3. \A k \in Sessions(e)' : \E i \in 1 .. n - 1 :
           About(i, e, "SubmitResponse")' /\ blocks'[i].by = k
    BY <1>7, <1>20, <2>1
  <2> QED  BY <1>7, <2>2, <2>3 DEF Brought
<1>22. Rowed(e)'
  <2>1. \A d \in Present(e)' : d.id \in DOMAIN comments'[e] /\ comments'[e][d.id] = d
    BY <1>3, <1>8, <1>16 DEF Rowed
  <2>2. ASSUME NEW i \in DOMAIN comments'[e]
        PROVE  1 <= i /\ (comments'[e][i] \in Present(e)' \/ (i \in undone'[e] /\ s.next_comment_id <= i))
    <3>1. i \in DOMAIN comments[e] /\ comments'[e][i] = comments[e][i] /\ i \in Nat
          /\ comments[e][i].id = i
      BY <1>2, <1>8, <2>2 DEF IndexInv, IndexType
    <3>2. /\ 1 <= i
          /\ comments[e][i] \in Present(e) \/ (i \in undone[e] /\ ep.next_comment_id <= i)
      BY <1>2, <1>3, <3>1 DEF Rowed
    <3>3. CASE i \in undone[e] /\ ep.next_comment_id <= i
      <4>1. s.next_comment_id <= i
        BY ONLY <1>3, <1>16, <3>1, <3>3
      <4> QED  BY <1>11, <3>2, <3>3, <4>1
    <3>4. CASE comments[e][i] \in Present(e)
      <4>1. CASE comments[e][i] \in Present(e)'
        BY <3>1, <3>2, <4>1
      <4>2. CASE comments[e][i] \notin Present(e)'
        <5>1. b.cmd.type = "SubmitComment" /\ i = u.comment_id
          BY <1>13, <1>14, <3>1, <3>4, <4>2
        <5>2. s.next_comment_id = u.comment_id
          <6>1. s.comments = ep.comments \/ s.next_comment_id = u.comment_id
            BY <1>4, <1>5, <5>1 DEF Restored
          <6> QED  BY <1>12, <3>4, <4>2, <6>1
        <5> QED  BY <1>11, <3>1, <3>2, <5>1, <5>2
      <4> QED  BY <4>1, <4>2
    <3> QED  BY <3>2, <3>3, <3>4
  <2>3. \A k \in Sessions(e)' : <<k, e>> \in memberships'
    <3>1. \A k \in Sessions(e)' : k \in Sessions(e) \/ (b.cmd.type = "RevokeSession" /\ k = b.by)
      BY <1>4, <1>19
    <3>2. \A k \in Sessions(e) : <<k, e>> \in memberships
      BY <1>3 DEF Rowed
    <3> QED  BY <1>4, <1>8, <3>1, <3>2
  <2>4. ASSUME NEW k \in PubKeys, <<k, e>> \in memberships'
        PROVE  k \in Sessions(e)' \/ <<k, e>> \in gone'
    <3>1. k \in Sessions(e) \/ <<k, e>> \in gone
      BY <1>3, <1>8, <2>4 DEF Rowed
    <3>2. k \in Sessions(e) => k \in Sessions(e)' \/ (b.cmd.type = "SubmitResponse" /\ k = b.by)
      BY <1>4, <1>19
    <3>3. gone \subseteq gone' /\ (b.cmd.type = "SubmitResponse" => <<b.by, e>> \in gone')
      BY <1>8
    <3> QED  BY <3>1, <3>2, <3>3
  <2> QED  BY <1>12, <2>1, <2>2, <2>3, <2>4 DEF Rowed
<1>23. Listed(e)'
  BY <1>2, <1>3, <1>8, <1>12 DEF Listed
<1>24. Seen(e)'
  <2>1. CASE b.cmd.type = "SubmitComment"
    BY <1>11, <2>1 DEF Seen, Past
  <2>2. CASE b.cmd.type # "SubmitComment"
    BY <1>3, <1>8, <1>11, <1>13, <2>2, SeenStays
  <2> QED  BY <2>1, <2>2
<1>25. ASSUME NEW i \in Episodes, NEW d, There(d, i) PROVE There(d, i)'
  <2>1. CASE i # e
    BY <1>7, <1>25, <2>1 DEF There
  <2>2. CASE i = e /\ d.id \in undone[e]
    BY <1>11, <2>2 DEF There
  <2>3. CASE i = e /\ d \in Present(e)
    BY <1>11, <1>13, <1>14, <2>3 DEF There
  <2> QED  BY <1>25, <2>1, <2>2, <2>3 DEF There
<1>26. ASSUME NEW i \in 1 .. n - 1 PROVE Undone(i)'
  <2> PICK f : f = blocks[i].episode
    OBVIOUS
  <2>1. i \in Nat \ {0} /\ Undone(i) /\ f \in Episodes /\ rooms[f] # None
    BY <1>7, BlockParts
  <2>2. rooms'[f] # None
    BY <1>7, <1>12, <2>1
  <2>3. \A j \in 1 .. i : blocks'[j] = blocks[j]
    <3>1. \A j \in 1 .. i : j \in 1 .. n - 1
      BY <1>7
    <3> QED  BY <1>7, <3>1
  <2>4. blocks[i].cmd.type = "SubmitComment" =>
           blocks[i].undo.comment_id < rooms'[f].state.next_comment_id
    <3>1. SUFFICES ASSUME blocks[i].cmd.type = "SubmitComment"
                   PROVE  blocks[i].undo.comment_id < rooms'[f].state.next_comment_id
      OBVIOUS
    <3>2. blocks[i].undo.comment_id < rooms[f].state.next_comment_id
      BY <2>1, <3>1 DEF Undone
    <3>3. CASE f # e
      BY <1>7, <2>1, <3>2, <3>3
    <3>4. CASE f = e
      <4>1. b.cmd.type = "SubmitComment" => blocks[i].undo.comment_id < u.comment_id
        BY <1>4, <3>1, <3>4 DEF About
      <4> QED  BY <1>12, <1>13, <1>14, <3>2, <3>4, <4>1
    <3> QED  BY <3>3, <3>4
  <2>5. memberships \subseteq memberships'
    BY <1>8
  <2> QED  BY <2>1, <2>2, <2>3, <2>4, <2>5, UndoneStays
<1>27. ASSUME NEW t \in DOMAIN recent_order' PROVE Recent(t)'
  <2>1. Recent(t) /\ recent_order' = recent_order
    BY <1>8 DEF IndexInv
  <2> QED  BY <1>7, <1>8, <1>12, <2>1 DEF Recent
<1>28. IndexType'
  <2>1. \A i \in Episodes : rooms'[i] # None =>
           rooms'[i].state.authorized # <<>> /\ 1 <= rooms'[i].state.next_comment_id
    <3>1. \A i \in Episodes : rooms[i] # None =>
             rooms[i].state.authorized # <<>> /\ 1 <= rooms[i].state.next_comment_id
      BY DEF IndexInv, IndexType
    <3>2. \A i \in Episodes : i # e => rooms'[i] = rooms[i]
      BY <1>7
    <3>3. rooms'[e].state.authorized # <<>> /\ 1 <= rooms'[e].state.next_comment_id
      BY <1>5, <1>12, <1>16
    <3> QED  BY ONLY <3>1, <3>2, <3>3
  <2> QED  BY <1>7, <1>8, <1>11, <2>1 DEF IndexInv, IndexType
<1>29. PageInv'
  <2>1. ASSUME NEW i \in Episodes PROVE Grows(i)
    <3>1. \A d \in Present(i) : There(d, i)'
      BY <1>25, <2>1 DEF There
    <3>2. undone[i] \subseteq undone'[i] /\ Present(i)' \subseteq Present(i)
      BY <1>7, <1>11, <1>16, <2>1
    <3> QED  BY <1>8, <3>1, <3>2 DEF Grows
  <2>2. UNCHANGED shownVars
    BY <1>8
  <2> QED  BY <2>1, <2>2, PageMoves
<1>31. \A i \in Episodes : InNumber(i)' /\ Brought(i)' /\ Rowed(i)' /\ Listed(i)' /\ Seen(i)'
  BY <1>7, <1>18, <1>21, <1>22, <1>23, <1>24
<1> QED  BY <1>7, <1>26, <1>27, <1>28, <1>29, <1>31 DEF IndexInv

LEMMA RoomRevertInv == ASSUME IndexInv, Indexer!Revert PROVE IndexInv'
<1> PICK n, b, e : n = Len(blocks) /\ b = blocks[n] /\ e = b.episode
  OBVIOUS
<1>1. blocks # <<>>
  BY DEF Indexer!Revert
<1>2. n \in 1 .. Len(blocks)
  <2>1. IsSeq(blocks)
    BY DEF IndexInv, IndexType
  <2> QED  BY <1>1, <2>1, Shortened
<1>3. e \in Episodes /\ rooms[e] # None /\ rooms \in [Episodes -> Entries \cup {None}]
  BY <1>2, BlockParts DEF IndexInv, IndexType
<1>4. /\ blocks' = SubSeq(blocks, 1, n - 1)
      /\ rooms' = [rooms EXCEPT ![e] =
             IF b.cmd.type = "NewEpisode" THEN None
             ELSE [rooms[e] EXCEPT !.state =
                       Indexer!Room!Rollback(rooms[e].state, b.undo).state]]
      /\ undone' = IF b.cmd.type = "SubmitComment"
                   THEN [undone EXCEPT ![e] = @ \cup {b.undo.comment_id}] ELSE undone
      /\ stale' = stale \cup {e}
      /\ gone' = IF b.cmd.type = "SubmitResponse" THEN gone \cup {<<b.by, e>>} ELSE gone
      /\ again' = IF b.cmd.type = "NewEpisode" THEN again \cup {e} ELSE again
      /\ UNCHANGED <<episodes, comments, memberships, recent_order, shownVars, last_seen, disorder>>
  BY DEF Indexer!Revert, Indexer!storeVars, Indexer!pageVars, shownVars
<1>5. CASE b.cmd.type = "NewEpisode"
  <2>1. rooms' = [rooms EXCEPT ![e] = None]
    BY <1>4, <1>5
  <2>2. Reverted(e, b, None, n)
    BY <1>4, <2>1 DEF Reverted
  <2> QED  BY <1>1, <1>5, <2>2, RevertFirstInv
<1>6. CASE b.cmd.type # "NewEpisode"
  <2> PICK s, at, x : /\ s = Indexer!Room!Rollback(rooms[e].state, b.undo).state
                      /\ at = rooms[e].created_at /\ x = [created_at |-> at, state |-> s]
    OBVIOUS
  <2>1. rooms[e] = [created_at |-> at, state |-> rooms[e].state]
    BY <1>3, IndexParts
  <2>2. [rooms[e] EXCEPT !.state = s] = x
    BY ONLY <2>1, x = [created_at |-> at, state |-> s]
  <2>3. rooms' = [rooms EXCEPT ![e] = [rooms[e] EXCEPT !.state = s]]
    BY <1>4, <1>6
  <2>4. rooms' = [rooms EXCEPT ![e] = x]
    BY <2>2, <2>3
  <2>5. Reverted(e, b, x, n)
    BY <1>4, <2>4 DEF Reverted
  <2> QED  BY <1>1, <1>6, <2>5, RevertCommandInv
<1> QED  BY <1>5, <1>6

(* A store in memory is lost *)
LEMMA IndexRestartInv == ASSUME IndexInv, Indexer!Restart PROVE IndexInv'
<1>1. /\ rooms' = [e \in Episodes |-> None] /\ blocks' = <<>>
      /\ episodes' = [e \in Episodes |-> None] /\ comments' = [e \in Episodes |-> <<>>]
      /\ memberships' = {} /\ recent_order' = <<>>
      /\ undone' = [e \in Episodes |-> undone[e] \cup DOMAIN comments[e]]
      /\ UNCHANGED <<shownVars, last_seen, stale, gone, again, disorder>>
  BY DEF Indexer!Restart, Indexer!pageVars, shownVars
<1>2. DOMAIN <<>> = {} /\ Len(<<>>) = 0 /\ IsSeq(<<>>)
  BY DEF IsSeq
<1>3. ASSUME NEW e \in Episodes
      PROVE  /\ Present(e)' = {} /\ Sessions(e)' = {} /\ undone[e] \subseteq undone'[e]
             /\ \A d : There(d, e) => There(d, e)'
             /\ InNumber(e)' /\ Brought(e)' /\ Rowed(e)' /\ Listed(e)' /\ Seen(e)'
  <2>1. Present(e)' = {} /\ Sessions(e)' = {} /\ rooms'[e] = None
    BY <1>1 DEF Present, Sessions
  <2>2. Rowed(e) /\ Seen(e) /\ undone'[e] = undone[e] \cup DOMAIN comments[e]
    BY <1>1, IndexParts
  <2>3. \A d \in Present(e) : d.id \in undone'[e]
    BY <2>2 DEF Rowed
  <2>4. \A d : There(d, e) => There(d, e)'
    BY <2>2, <2>3 DEF There
  <2>5. InNumber(e)' /\ Brought(e)'
    BY <2>1 DEF InNumber, Brought
  <2>6. Rowed(e)'
    <3>1. DOMAIN comments'[e] = {}
      BY <1>1, <1>2
    <3> QED  BY <1>1, <2>1, <3>1 DEF Rowed
  <2>7. Listed(e)'
    BY <1>1, <2>1 DEF Listed
  <2>8. Seen(e)'
    <3>1. undone'[e] = {} => undone[e] = {} /\ Present(e) = {}
      BY <2>2, <2>3
    <3> QED  BY <1>1, <2>2, <3>1 DEF Seen, Past
  <2> QED  BY <2>1, <2>2, <2>4, <2>5, <2>6, <2>7, <2>8
<1>4. IndexType'
  <2>1. rooms' \in [Episodes -> Entries \cup {None}] /\ \A e \in Episodes : rooms'[e] = None
    BY <1>1
  <2>2. \A e \in Episodes : DOMAIN comments'[e] = {} /\ IsFiniteSet(DOMAIN comments'[e])
    BY <1>1, <1>2, FS_EmptySet
  <2>3. undone' \in [Episodes -> SUBSET Nat]
    BY <1>1 DEF IndexInv, IndexType
  <2>4. IsSeq(blocks)'
    BY <1>1, <1>2
  <2>5. /\ episodes' = [e \in Episodes |-> episodes'[e]]
        /\ comments' = [e \in Episodes |-> comments'[e]]
    BY <1>1
  <2> QED  BY <1>1, <2>1, <2>2, <2>3, <2>4, <2>5 DEF IndexInv, IndexType
<1>5. PageInv'
  <2>1. \A e \in Episodes : Grows(e)
    BY <1>1, <1>3 DEF Grows, There
  <2>2. UNCHANGED shownVars
    BY <1>1
  <2> QED  BY <2>1, <2>2, PageMoves
<1>7. /\ \A i \in 1 .. Len(blocks') : Undone(i)'
      /\ \A t \in DOMAIN recent_order' : Recent(t)'
  <2>1. 1 .. 0 = {}
    OBVIOUS
  <2> QED  BY <1>1, <1>2, <2>1
<1> QED  BY <1>3, <1>4, <1>5, <1>7 DEF IndexInv

LEMMA IndexNext == IndexInv /\ Indexer!Next => IndexInv'
<1> SUFFICES ASSUME IndexInv, Indexer!Next PROVE IndexInv'
  OBVIOUS
<1> QED
  BY RoomOpensInv, RoomCommandInv, RoomRevertInv, IndexRestartInv, LoadFeedInv, TickInv,
     AnswerInv, RenderInv, PollFeedInv, FailInv, NewCommentInv DEF Indexer!Next

LEMMA IndexStays == IndexInv /\ UNCHANGED indexVars => IndexInv'
<1> SUFFICES ASSUME IndexInv, UNCHANGED indexVars PROVE IndexInv'
  OBVIOUS
<1>1. UNCHANGED writtenVars /\ UNCHANGED shownVars /\ last_seen' = last_seen
  BY DEF indexVars, writtenVars, shownVars
<1>2. PageInv'
  <2>1. \A e \in Episodes : Grows(e)
    BY <1>1, StoreSame DEF Grows, There
  <2> QED  BY <1>1, <2>1, PageMoves
<1>3. last_seen' \in [Episodes -> Nat]
  BY <1>1 DEF IndexInv, IndexType
<1> QED  BY <1>1, <1>2, <1>3, SeenSame, PageStep

LEMMA IndexInit == Indexer!Init => IndexInv
<1> SUFFICES ASSUME Indexer!Init PROVE IndexInv
  OBVIOUS
<1>1. /\ rooms = [e \in Episodes |-> None] /\ blocks = <<>>
      /\ episodes = [e \in Episodes |-> None] /\ comments = [e \in Episodes |-> <<>>]
      /\ memberships = {} /\ recent_order = <<>>
      /\ last_seen = [e \in Episodes |-> 0] /\ undone = [e \in Episodes |-> {}]
  BY DEF Indexer!Init
<1>2. DOMAIN <<>> = {} /\ Len(<<>>) = 0 /\ IsSeq(<<>>) /\ 1 .. 0 = {}
  BY DEF IsSeq
<1>3. ASSUME NEW e \in Episodes
      PROVE  InNumber(e) /\ Brought(e) /\ Rowed(e) /\ Listed(e) /\ Seen(e)
  <2>1. Present(e) = {} /\ Sessions(e) = {} /\ DOMAIN comments[e] = {}
    BY <1>1, <1>2 DEF Present, Sessions
  <2> QED  BY <1>1, <2>1 DEF InNumber, Brought, Rowed, Listed, Seen, Past
<1>4. IndexType
  <2>1. \A e \in Episodes : DOMAIN comments[e] = {} /\ IsFiniteSet(DOMAIN comments[e])
    BY <1>1, <1>2, FS_EmptySet
  <2> QED  BY <1>1, <1>2, <2>1 DEF IndexType
<1>5. PageInv
  <2>1. /\ cards = {} /\ fetch = [f \in Fetches |-> None] /\ timer = None /\ loads = 0
        /\ feed = [episode |-> None, done |-> 0, oldest |-> {}]
    BY DEF Indexer!Init
  <2>2. PageType
    BY <2>1 DEF PageType
  <2>3. \A e \in Episodes : Fed(e)
    BY <1>1 DEF Fed, Present
  <2> QED  BY <2>1, <2>2, <2>3 DEF PageInv, Current
<1> QED  BY <1>1, <1>2, <1>3, <1>4, <1>5 DEF IndexInv

LEMMA RowsAre ==
  ASSUME IndexInv, NEW e \in Episodes, NEW c \in Indexer!Rows(e)
  PROVE  c.id \in DOMAIN comments[e] /\ c = comments[e][c.id]
<1>1. PICK i \in DOMAIN comments[e] : c = comments[e][i]
  BY DEF Indexer!Rows
<1> QED  BY <1>1 DEF IndexInv, IndexType

LEMMA IndexInvExplains == IndexInv => Indexer!IndexExplained
<1> SUFFICES ASSUME IndexInv PROVE Indexer!IndexExplained
  OBVIOUS
<1>1. ASSUME NEW e \in Episodes PROVE Indexer!StoreExplained(e)
  <2> PICK kept : kept = IF rooms[e] = None THEN {} ELSE Indexer!Contents(rooms[e].state.comments)
    OBVIOUS
  <2>1. Rowed(e) /\ Listed(e) /\ Brought(e)
    BY IndexParts
  <2>2. kept = Present(e)
    BY DEF Present, Contents, Indexer!Contents
  <2>3. rooms[e] # None /\ e \notin stale =>
           episodes[e] = [created_at |-> rooms[e].created_at,
                          authenticated_count |-> Indexer!Cardinality(rooms[e].state.authenticated)]
    BY <2>1, SameCount DEF Listed
  <2>4. kept \subseteq Indexer!Rows(e)
    BY <2>2, RowsOf
  <2>5. ASSUME NEW c \in Indexer!Rows(e) \ kept
        PROVE  c.id \in undone[e] /\ (rooms[e] # None => c.id >= rooms[e].state.next_comment_id)
    <3>1. c.id \in DOMAIN comments[e] /\ c = comments[e][c.id]
      BY RowsAre
    <3>2. c.id \in undone[e] /\ (rooms[e] # None => rooms[e].state.next_comment_id <= c.id)
      BY <2>1, <2>2, <3>1 DEF Rowed
    <3>3. rooms[e] # None => rooms[e].state.next_comment_id \in Nat
      BY IndexParts
    <3>4. c.id \in Nat
      BY <3>1 DEF IndexInv, IndexType
    <3> QED  BY <3>2, <3>3, <3>4
  <2>6. ASSUME NEW k \in PubKeys
        PROVE  /\ (rooms[e] # None /\ k \in rooms[e].state.authenticated) => <<k, e>> \in memberships
               /\ <<k, e>> \in memberships /\ ~ (rooms[e] # None /\ k \in rooms[e].state.authenticated)
                     => <<k, e>> \in gone
    BY <2>1 DEF Rowed, Sessions
  <2>7. ASSUME episodes[e] # None, e \notin Indexer!get_recent
        PROVE  LET other == recent_order[episodes[e].created_at] IN
               other \in again \/ episodes[other].created_at = episodes[e].created_at
    <3> PICK t, other : t = episodes[e].created_at /\ other = recent_order[t]
      OBVIOUS
    <3>1. t \in DOMAIN recent_order
      BY <2>1, <2>7 DEF Listed
    <3>2. /\ other \in Episodes
          /\ other \in again \/ (rooms[other] # None /\ rooms[other].created_at = t)
      BY <3>1 DEF IndexInv, Recent
    <3>3. rooms[other] # None => episodes[other].created_at = rooms[other].created_at
      BY <3>2, IndexParts DEF Listed
    <3> QED  BY <3>2, <3>3
  <2>8. ASSUME NEW t \in DOMAIN recent_order, recent_order[t] = e
        PROVE  t = episodes[e].created_at \/ e \in again
    <3>1. e \in again \/ (rooms[e] # None /\ rooms[e].created_at = t)
      BY <2>8 DEF IndexInv, Recent
    <3> QED  BY <2>1, <3>1 DEF Listed
  <2> QED  BY <2>2, <2>3, <2>4, <2>5, <2>6, <2>7, <2>8 DEF Indexer!StoreExplained, Indexer!me
<1>2. Indexer!FeedExplained
  <2>1. ASSUME NEW d \in cards
        PROVE  \/ /\ rooms[d.episode] # None
                  /\ d.comment \in Indexer!Contents(rooms[d.episode].state.comments)
               \/ d.comment.id \in undone[d.episode]
    <3> PICK c, e : c = d.comment /\ e = d.episode
      OBVIOUS
    <3>1. There(c, e)
      BY PageParts
    <3> QED  BY <3>1 DEF There, Present, Contents, Indexer!Contents
  <2>2. ASSUME feed.episode # None, rooms[feed.episode] # None, feed.done = loads,
               undone[feed.episode] = {}, feed.episode \notin disorder,
               NEW c \in Indexer!Missed(feed.episode)
        PROVE  c.timestamp > last_seen[feed.episode]
    <3> PICK e : e = feed.episode
      OBVIOUS
    <3>1. e \in Episodes /\ Fed(e) /\ last_seen[e] \in Nat
      BY <2>2, PageParts
    <3>2. c \in Present(e) /\ ~ Shown(c, e)
      BY <2>2 DEF Indexer!Missed, Shown, Present, Contents, Indexer!Contents
    <3>3. Coming(c) \/ Later(c, e)
      BY <2>2, <3>1, <3>2 DEF Fed, Loaded
    <3>4. ~ Coming(c)
      BY <2>2, PageParts DEF Coming, Current, Warranted
    <3>5. c.timestamp \in Nat
      BY <3>1, <3>2, IndexParts DEF Notes
    <3> QED  BY <3>1, <3>3, <3>4, <3>5 DEF Later
  <2> QED  BY <2>1, <2>2 DEF Indexer!FeedExplained
<1> QED  BY <1>1, <1>2 DEF Indexer!IndexExplained

(* The index of a room is what the engine has, but for what a block that   *)
(* left the chain had written and on_rollback did not take back.  A card   *)
(* of the index is a comment of its room unless that was reverted; and     *)
(* once the last load came to its end, the page misses of its room what is *)
(* later than all it has seen, which the next poll asks for, or older than *)
(* what a load brought, whatever requests, polls and words of the          *)
(* WebSocket came in between, of whatever rooms: unless a comment of the   *)
(* room was reverted or their times do not increase.                       *)
THEOREM RoomIndex == Spec => []IndexExplained
<1>1. Init => IndexInv
  BY IndexInit DEF Init
<1>2. IndexInv /\ [Next]_vars => IndexInv'
  <2>1. [Next]_vars => Indexer!Next \/ UNCHANGED indexVars
    BY DEF Next, vars
  <2> QED  BY <2>1, IndexNext, IndexStays
<1>3. IndexInv => IndexExplained
  BY IndexInvExplains DEF IndexExplained
<1> QED  BY <1>1, <1>2, <1>3, PTL DEF Spec
=============================================================================
