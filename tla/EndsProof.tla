------------------------------ MODULE EndsProof ------------------------------
(***************************************************************************)
(* The two ends of a non-INVITE transaction agree on its final response,   *)
(* and the client sends no more copies of its request than fit before its  *)
(* timeout, whatever the network loses, copies and reorders, for any       *)
(* fifos, timers and number of faults.                                     *)
(***************************************************************************)
EXTENDS NonInviteTransaction, SequenceTheorems, WellFoundedInduction, TLAPS

Finals == {"2XX", "3456XX"}

(* The final responses that wait in a fifo of the client.                  *)
Waits(fifo, r) == \E n \in 1..Len(fifo) : fifo[n] = Client!EventOf(r)

(* What the server has sent is what is on its way, what waits and what the *)
(* client's user was given, as long as there was one session.              *)
FromServer ==
  \A r \in Finals : (r \in toClient \/ Waits(cFifo, r) \/ final = r) => r \in finals

(* A session has sent one final response, or none yet, and has told its    *)
(* user of the request before.                                             *)
OneAnswer ==
  /\ finals \in {{}, {"2XX"}, {"3456XX"}}
  /\ sState = "COMPLETED" => finals = {response}
  /\ sState \in {"NONE", "PRE_TRYING", "TRYING", "PROCEEDING"}
       => finals = {} /\ response \in {"none", "1XX"}
  /\ sState \notin {"NONE", "PRE_TRYING"} => sTold["request"] = 1
  /\ sState \in {"NONE", "PRE_TRYING"} => sTold["request"] = 0

Types ==
  /\ cFifo \in Seq(Client!Events) /\ sFifo \in Seq(Server!Events)
  /\ final \in {"none"} \cup Finals /\ sState \in Server!States
  /\ sessions \in Nat /\ (sessions = 0 => sState = "NONE")

AgreeInv == Types /\ OneAnswer /\ (sessions <= 1 => FromServer)

-----------------------------------------------------------------------------
(* What waits behind the first event of a fifo waits in it, as that does.  *)
LEMMA WaitsTail ==
  ASSUME NEW E, NEW fifo \in Seq(E), fifo # <<>>, NEW r \in Finals
  PROVE  /\ Waits(Tail(fifo), r) => Waits(fifo, r)
         /\ Head(fifo) = Client!EventOf(r) => Waits(fifo, r)
<1>1. /\ Len(fifo) \in Nat /\ Len(fifo) >= 1 /\ Head(fifo) = fifo[1]
      /\ Len(Tail(fifo)) = Len(fifo) - 1
      /\ \A n \in 1..Len(Tail(fifo)) : Tail(fifo)[n] = fifo[n + 1]
  BY HeadTailProperties
<1>2. ASSUME Waits(Tail(fifo), r) PROVE Waits(fifo, r)
  <2>1. PICK n \in 1..Len(Tail(fifo)) : Tail(fifo)[n] = Client!EventOf(r)
    BY <1>2 DEF Waits
  <2>2. n + 1 \in 1..Len(fifo) /\ fifo[n + 1] = Client!EventOf(r)
    BY <1>1, <2>1
  <2> QED
    BY <2>2 DEF Waits
<1> QED
  BY <1>1, <1>2 DEF Waits

(* What waits after an event was added waited before, or is the event.     *)
LEMMA WaitsAppend ==
  ASSUME NEW E, NEW fifo \in Seq(E), NEW ev \in E, NEW r \in Finals,
         Waits(Append(fifo, ev), r)
  PROVE  Waits(fifo, r) \/ ev = Client!EventOf(r)
<1>1. PICK n \in 1..Len(Append(fifo, ev)) : Append(fifo, ev)[n] = Client!EventOf(r)
  BY DEF Waits
<1>2. /\ Len(fifo) \in Nat /\ n \in 1..(Len(fifo) + 1)
      /\ Append(fifo, ev)[n] = IF n <= Len(fifo) THEN fifo[n] ELSE ev
  BY <1>1, AppendProperties
<1>3. CASE n <= Len(fifo)
  BY <1>1, <1>2, <1>3 DEF Waits
<1>4. CASE ~(n <= Len(fifo))
  BY <1>1, <1>2, <1>4
<1> QED
  BY <1>3, <1>4

(* Each response has an event of its own.                                  *)
LEMMA EventOfResponses ==
  /\ \A r \in Client!Responses : Client!EventOf(r) \in Client!Events
  /\ \A r \in Client!Responses, q \in Finals : Client!EventOf(r) = Client!EventOf(q) => r = q
  /\ {"SND_REQUEST", "TIMEOUT_E", "TIMEOUT_F", "TIMEOUT_K"} \subseteq Client!Events
  /\ \A r \in Finals :
       Client!EventOf(r) \notin {"SND_REQUEST", "TIMEOUT_E", "TIMEOUT_F", "TIMEOUT_K"}
  /\ Client!EventOf("2XX") = "RCV_2XX" /\ Client!EventOf("3456XX") = "RCV_3456XX"
BY DEF Finals, Client!Responses, Client!EventOf, Client!Events, Client!Transitions

-----------------------------------------------------------------------------
(* Nothing was sent yet.                                                   *)
LEMMA AgreeInitially == Init => AgreeInv
BY DEF Init, AgreeInv, Types, OneAnswer, FromServer, Waits, Finals, Client!NictInit,
       Server!NistInit, Server!States, Server!Callbacks

(* A response comes in: it waits instead of being on its way.              *)
LEMMA ClientReceivesOne ==
  ASSUME AgreeInv, ClientReceives
  PROVE  AgreeInv'
<1>1. PICK copy \in BOOLEAN, r \in Client!Responses : Client!Receive(r, copy)
  BY DEF ClientReceives
<1>2. /\ r \in toClient /\ toClient' \subseteq toClient
      /\ cFifo' = Append(cFifo, Client!EventOf(r)) /\ UNCHANGED <<final, server>>
  BY <1>1 DEF ClientReceives, Client!Receive, Client!AddEvent
<1>3. Client!EventOf(r) \in Client!Events /\ cFifo \in Seq(Client!Events)
  BY EventOfResponses DEF AgreeInv, Types
<1>4. cFifo' \in Seq(Client!Events)
  BY <1>2, <1>3
<1>5. ASSUME NEW q \in Finals, Waits(cFifo, q)'
      PROVE  Waits(cFifo, q) \/ q \in toClient
  <2>1. Waits(Append(cFifo, Client!EventOf(r)), q)
    BY <1>2, <1>5 DEF Waits
  <2>2. Waits(cFifo, q) \/ Client!EventOf(r) = Client!EventOf(q)
    BY <1>3, <2>1, WaitsAppend
  <2> QED
    BY <1>2, <2>2, EventOfResponses
<1>6. Types' /\ OneAnswer'
  BY <1>2, <1>4 DEF AgreeInv, Types, OneAnswer, server
<1>7. FromServer => FromServer'
  BY <1>2, <1>5 DEF FromServer, server
<1>8. UNCHANGED sessions
  BY <1>2 DEF server
<1> QED
  BY <1>6, <1>7, <1>8 DEF AgreeInv

(* The client's thread: a final response is given that waited.             *)
LEMMA ClientRunsOnce ==
  ASSUME AgreeInv, ClientRuns
  PROVE  AgreeInv'
<1>1. UNCHANGED server /\ UNCHANGED toClient
  BY DEF ClientRuns, Client!SendRequest, Client!TimersExecute, Client!Execute, Client!Discard,
     Client!nict_snd_request, Client!osip_nict_timeout_e_event, Client!osip_nict_timeout_f_event,
     Client!osip_nict_timeout_k_event, Client!nict_rcv_1xx, Client!nict_rcv_23456xx,
     Client!Send, Client!wire
<1>2. \/ \E ev \in {"SND_REQUEST", "TIMEOUT_E", "TIMEOUT_F", "TIMEOUT_K"} :
           cFifo' = Append(cFifo, ev) /\ UNCHANGED final
      \/ /\ cFifo # <<>> /\ cFifo' = Tail(cFifo)
         /\ \/ UNCHANGED final
            \/ \E r \in Finals : Head(cFifo) = Client!EventOf(r) /\ final' = r
  <2>1. ASSUME Client!SendRequest \/ Client!TimersExecute
        PROVE  \E ev \in {"SND_REQUEST", "TIMEOUT_E", "TIMEOUT_F", "TIMEOUT_K"} :
                 cFifo' = Append(cFifo, ev) /\ UNCHANGED final
    BY <2>1 DEF Client!SendRequest, Client!TimersExecute, Client!AddEvent
  <2>2. ASSUME \/ Client!Discard \/ Client!nict_snd_request \/ Client!osip_nict_timeout_e_event
               \/ Client!osip_nict_timeout_f_event \/ Client!osip_nict_timeout_k_event
               \/ Client!nict_rcv_1xx
        PROVE  cFifo # <<>> /\ cFifo' = Tail(cFifo) /\ UNCHANGED final
    BY <2>2 DEF Client!Discard, Client!nict_snd_request, Client!osip_nict_timeout_e_event,
       Client!osip_nict_timeout_f_event, Client!osip_nict_timeout_k_event, Client!nict_rcv_1xx,
       Client!Handle
  <2>3. ASSUME Client!nict_rcv_23456xx
        PROVE  /\ cFifo # <<>> /\ cFifo' = Tail(cFifo)
               /\ \E r \in Finals : Head(cFifo) = Client!EventOf(r) /\ final' = r
    BY <2>3, EventOfResponses DEF Client!nict_rcv_23456xx, Client!Handle, Finals
  <2> QED
    BY <2>1, <2>2, <2>3 DEF ClientRuns, Client!Execute
<1>3. cFifo \in Seq(Client!Events)
  BY DEF AgreeInv, Types
<1>4. CASE \E ev \in {"SND_REQUEST", "TIMEOUT_E", "TIMEOUT_F", "TIMEOUT_K"} :
             cFifo' = Append(cFifo, ev) /\ UNCHANGED final
  <2>1. PICK ev \in {"SND_REQUEST", "TIMEOUT_E", "TIMEOUT_F", "TIMEOUT_K"} :
               cFifo' = Append(cFifo, ev) /\ UNCHANGED final
    BY <1>4
  <2>2. ev \in Client!Events /\ \A r \in Finals : Client!EventOf(r) # ev
    BY EventOfResponses
  <2>3. ASSUME NEW r \in Finals, Waits(cFifo, r)' PROVE Waits(cFifo, r)
    <3>1. Waits(Append(cFifo, ev), r)
      BY <2>1, <2>3 DEF Waits
    <3> QED
      BY <1>3, <2>2, <3>1, WaitsAppend
  <2>4. FromServer => FromServer'
    BY <1>1, <2>1, <2>3 DEF FromServer, server
  <2>5. Types' /\ OneAnswer'
    BY <1>1, <1>3, <2>1, <2>2 DEF AgreeInv, Types, OneAnswer, server
  <2> QED
    BY <1>1, <2>4, <2>5 DEF AgreeInv, server
<1>5. CASE cFifo # <<>> /\ cFifo' = Tail(cFifo)
  <2>1. ASSUME NEW r \in Finals, Waits(cFifo, r)' PROVE Waits(cFifo, r)
    <3>1. Waits(Tail(cFifo), r)
      BY <1>5, <2>1 DEF Waits
    <3> QED
      BY <1>3, <1>5, <3>1, WaitsTail
  <2>2. UNCHANGED final \/ \E r \in Finals : Waits(cFifo, r) /\ final' = r
    <3>1. \A r \in Finals : Head(cFifo) = Client!EventOf(r) => Waits(cFifo, r)
      BY <1>3, <1>5, WaitsTail
    <3>2. CASE \E ev \in {"SND_REQUEST", "TIMEOUT_E", "TIMEOUT_F", "TIMEOUT_K"} :
                 cFifo' = Append(cFifo, ev) /\ UNCHANGED final
      BY <3>2
    <3> QED
      BY <1>2, <3>1, <3>2
  <2>3. FromServer => FromServer'
    BY <1>1, <2>1, <2>2 DEF FromServer, server
  <2>4. Types' /\ OneAnswer'
    BY <1>1, <1>3, <1>5, <2>2 DEF AgreeInv, Types, OneAnswer, server
  <2> QED
    BY <1>1, <2>3, <2>4 DEF AgreeInv, server
<1> QED
  BY <1>2, <1>4, <1>5

(* A request comes in: it makes a session, which has answered nothing yet, *)
(* or waits for the one that is there.                                     *)
LEMMA ServerReceivesOne ==
  ASSUME AgreeInv, ServerReceives
  PROVE  AgreeInv'
<1>1. UNCHANGED client /\ UNCHANGED toClient
  BY DEF ServerReceives, Server!Create, Server!Receive, Server!Arrives
<1>2. PICK copy \in BOOLEAN : Server!Create(copy) \/ Server!Receive(copy)
  BY DEF ServerReceives
<1>3. "RCV_REQUEST" \in Server!Events
  BY DEF Server!Events, Server!Transitions
<1>4. CASE Server!Create(copy)
  <2>1. /\ sState \in {"NONE", "TERMINATED"} /\ sState' = "PRE_TRYING"
        /\ sFifo' = <<"RCV_REQUEST">> /\ response' = "none" /\ finals' = {}
        /\ sTold' = [c \in Server!Callbacks |-> 0] /\ sessions' = sessions + 1
    BY <1>4 DEF Server!Create
  <2>2. sTold'["request"] = 0
    BY <2>1 DEF Server!Callbacks
  <2>3. sFifo' \in Seq(Server!Events) /\ sessions' \in Nat /\ sessions' # 0
    BY <1>3, <2>1 DEF AgreeInv, Types
  <2>4. Types' /\ OneAnswer'
    BY <1>1, <2>1, <2>2, <2>3 DEF AgreeInv, Types, OneAnswer, client, Server!States
  <2>5. ASSUME (sessions <= 1)' PROVE FromServer'
    <3>1. sessions = 0 /\ sState = "NONE"
      BY <2>1, <2>5 DEF AgreeInv, Types
    <3>2. FromServer /\ finals = {}
      BY <3>1 DEF AgreeInv, OneAnswer
    <3> QED
      BY <1>1, <2>1, <3>2 DEF FromServer, client, Waits
  <2> QED
    BY <2>4, <2>5 DEF AgreeInv
<1>5. CASE Server!Receive(copy)
  <2>1. /\ UNCHANGED <<sState, response, sTold, finals, sessions>>
        /\ sFifo' = Append(sFifo, "RCV_REQUEST")
    BY <1>5 DEF Server!Receive, Server!AddEvent
  <2>2. sFifo' \in Seq(Server!Events)
    BY <1>3, <2>1 DEF AgreeInv, Types
  <2> QED
    BY <1>1, <2>1, <2>2 DEF AgreeInv, Types, OneAnswer, FromServer, Waits, client
<1> QED
  BY <1>2, <1>4, <1>5

(* The user's answers and the timer wait in the fifo of the server.        *)
LEMMA ServerQueues ==
  ASSUME AgreeInv, ServerAnswers \/ (ServerRuns /\ (Server!TimersExecute \/ Server!Discard))
  PROVE  AgreeInv'
<1>1. /\ UNCHANGED client /\ UNCHANGED toClient
      /\ UNCHANGED <<sState, response, sTold, finals, sessions>>
  BY DEF ServerAnswers, ServerRuns, Server!Answer, Server!TimersExecute, Server!Discard, Server!wire
<1>2. sFifo' \in Seq(Server!Events)
  <2>1. sFifo \in Seq(Server!Events)
    BY DEF AgreeInv, Types
  <2>2. \A r \in Server!Answers : Server!EventOf(r) \in Server!Events
    BY DEF Server!Answers, Server!EventOf, Server!Events, Server!Transitions
  <2>3. "TIMEOUT_J" \in Server!Events
    BY DEF Server!Events, Server!Transitions
  <2>4. \/ sFifo # <<>> /\ sFifo' = Tail(sFifo)
        \/ \E ev \in Server!Events : sFifo' = Append(sFifo, ev)
    BY <2>2, <2>3 DEF ServerAnswers, ServerRuns, Server!Answer, Server!TimersExecute,
       Server!Discard, Server!AddEvent
  <2> QED
    BY <2>1, <2>4
<1> QED
  BY <1>1, <1>2 DEF AgreeInv, Types, OneAnswer, FromServer, Waits, client

(* The machine of the server sends a final response once, and after it     *)
(* only copies of it.                                                      *)
LEMMA ServerHandles ==
  ASSUME AgreeInv, ServerRuns,
         \/ Server!nist_rcv_request \/ Server!nist_rcv_request_again
         \/ Server!nist_snd_1xx \/ Server!nist_snd_23456xx
         \/ Server!osip_nist_timeout_j_event
  PROVE  AgreeInv'
<1>1. UNCHANGED client /\ UNCHANGED sessions
  BY DEF ServerRuns, Server!nist_rcv_request, Server!nist_rcv_request_again,
     Server!nist_snd_1xx, Server!nist_snd_23456xx, Server!osip_nist_timeout_j_event
<1>2. sFifo # <<>> /\ sFifo' = Tail(sFifo)
  BY DEF Server!nist_rcv_request, Server!nist_rcv_request_again,
     Server!nist_snd_1xx, Server!nist_snd_23456xx, Server!osip_nist_timeout_j_event, Server!Handle
<1>3. sFifo' \in Seq(Server!Events)
  BY <1>2 DEF AgreeInv, Types
<1>4. /\ sState \notin {"NONE", "TERMINATED"} /\ sState \in Server!States /\ sessions # 0
  <2>1. sState \notin {"NONE", "TERMINATED"}
    BY DEF Server!nist_rcv_request, Server!nist_rcv_request_again, Server!nist_snd_1xx,
       Server!nist_snd_23456xx, Server!osip_nist_timeout_j_event, Server!Handle,
       Server!Transitions, Server!EventOf, Server!Open
  <2> QED
    BY <2>1 DEF AgreeInv, Types
<1>5. \A S \in SUBSET Server!Callbacks : Server!Call(S) =>
        /\ "request" \notin S => sTold'["request"] = sTold["request"]
        /\ ("request" \in S /\ sTold["request"] = 0) => sTold'["request"] = 1
  <2> SUFFICES ASSUME NEW S \in SUBSET Server!Callbacks, Server!Call(S)
               PROVE  sTold'["request"] = IF "request" \in S THEN Server!More(sTold["request"])
                                                             ELSE sTold["request"]
    BY DEF Server!More
  <2>1. "request" \in Server!Callbacks
    BY DEF Server!Callbacks
  <2> QED
    BY <2>1 DEF Server!Call
<1>6. Server!HandleTransportError =>
        sState' = "TERMINATED" /\ sTold'["request"] = sTold["request"]
  <2>1. {"error", "kill"} \in SUBSET Server!Callbacks /\ "request" \notin {"error", "kill"}
    BY DEF Server!Callbacks
  <2> QED
    BY <1>5, <2>1 DEF Server!HandleTransportError
<1>7. ASSUME sState' \in Server!States, sState' # "NONE", OneAnswer',
             finals \subseteq finals', toClient' \cap Finals \subseteq toClient \cup finals'
      PROVE  AgreeInv'
  <2>1. Types'
    BY <1>1, <1>3, <1>4, <1>7 DEF AgreeInv, Types, client
  <2>2. FromServer => FromServer'
    BY <1>1, <1>7 DEF FromServer, Waits, client
  <2> QED
    BY <1>1, <1>7, <2>1, <2>2 DEF AgreeInv
<1>8. OneAnswer
  BY DEF AgreeInv
<1>9. CASE Server!nist_rcv_request
  <2>1. /\ sState = "PRE_TRYING" /\ sState' = "TRYING" /\ Server!Call({"request"})
        /\ UNCHANGED <<response, finals, toClient>>
    BY <1>9 DEF Server!nist_rcv_request, Server!wire
  <2>2. sTold'["request"] = 1
    <3>1. sTold["request"] = 0 /\ {"request"} \in SUBSET Server!Callbacks
      BY <1>8, <2>1 DEF OneAnswer, Server!Callbacks
    <3> QED
      BY <1>5, <2>1, <3>1
  <2>3. OneAnswer'
    BY <1>8, <2>1, <2>2 DEF OneAnswer
  <2> QED
    BY <1>7, <2>1, <2>3 DEF Server!States
<1>10. CASE Server!nist_rcv_request_again
  <2>1. sState # "PRE_TRYING" /\ UNCHANGED response
    BY <1>10 DEF Server!nist_rcv_request_again
  <2>2. CASE UNCHANGED <<sState, sTold, finals, toClient>>
    BY <1>4, <1>7, <1>8, <2>1, <2>2 DEF OneAnswer
  <2>3. CASE response # "none" /\ Server!Sent(response) /\ UNCHANGED <<sState, sTold>>
    <3>1. sState \in {"TRYING", "PROCEEDING", "COMPLETED"}
      BY <1>4, <2>1 DEF Server!States
    <3>2. response = "1XX" \/ finals = {response}
      BY <1>8, <2>3, <3>1 DEF OneAnswer
    <3>3. finals' = finals /\ toClient' = toClient \cup {response}
      BY <2>3, <3>2 DEF Server!Sent
    <3>4. OneAnswer'
      BY <1>8, <2>1, <2>3, <3>3 DEF OneAnswer
    <3> QED
      BY <1>4, <1>7, <2>3, <3>2, <3>3, <3>4 DEF Finals
  <2>4. CASE Server!NotSent
    <3>1. /\ sState' = "TERMINATED" /\ sTold'["request"] = sTold["request"]
          /\ UNCHANGED <<finals, toClient>>
      BY <1>6, <2>4 DEF Server!NotSent, Server!wire
    <3>2. OneAnswer'
      BY <1>4, <1>8, <2>1, <3>1 DEF OneAnswer
    <3> QED
      BY <1>7, <3>1, <3>2 DEF Server!States
  <2> QED
    BY <1>10, <2>2, <2>3, <2>4 DEF Server!nist_rcv_request_again, Server!wire
<1>11. ASSUME sState \in Server!Open, NEW r \in Server!Answers, response' = r,
              \/ /\ Server!Sent(r) /\ UNCHANGED sTold
                 /\ IF r = "1XX" THEN sState' = "PROCEEDING" ELSE sState' = "COMPLETED"
              \/ Server!NotSent
       PROVE  AgreeInv'
  <2>1. finals = {} /\ sTold["request"] = 1
    BY <1>8, <1>11 DEF OneAnswer, Server!Open
  <2>2. CASE Server!NotSent
    <3>1. /\ sState' = "TERMINATED" /\ sTold'["request"] = 1
          /\ UNCHANGED <<finals, toClient>>
      BY <1>6, <2>1, <2>2 DEF Server!NotSent, Server!wire
    <3>2. OneAnswer'
      BY <2>1, <3>1 DEF OneAnswer
    <3> QED
      BY <1>7, <3>1, <3>2 DEF Server!States
  <2>3. CASE /\ Server!Sent(r) /\ UNCHANGED sTold
             /\ IF r = "1XX" THEN sState' = "PROCEEDING" ELSE sState' = "COMPLETED"
    <3>1. r \in {"1XX", "2XX", "3456XX"}
      BY DEF Server!Answers
    <3>2. toClient' = toClient \cup {r} /\ finals' = {r} \ {"1XX"}
      BY <2>1, <2>3 DEF Server!Sent
    <3>3. OneAnswer'
      BY <1>11, <2>1, <2>3, <3>1, <3>2 DEF OneAnswer
    <3>4. toClient' \cap Finals \subseteq toClient \cup finals'
      BY <3>2 DEF Finals
    <3> QED
      BY <1>7, <2>1, <2>3, <3>3, <3>4 DEF Server!States
  <2> QED
    BY <1>11, <2>2, <2>3
<1>12. CASE Server!nist_snd_1xx
  <2>1. sState \in Server!Open /\ "1XX" \in Server!Answers
    BY <1>12 DEF Server!nist_snd_1xx, Server!Handle, Server!Transitions, Server!Answers
  <2> QED
    BY <1>11, <1>12, <2>1 DEF Server!nist_snd_1xx
<1>13. CASE Server!nist_snd_23456xx
  <2>1. PICK r \in {"2XX", "3456XX"} :
          /\ Server!Handle(Server!EventOf(r))
          /\ response' = r
          /\ \/ Server!Sent(r) /\ sState' = "COMPLETED" /\ UNCHANGED sTold
             \/ Server!NotSent
    BY <1>13 DEF Server!nist_snd_23456xx
  <2>2. sState \in Server!Open /\ r \in Server!Answers /\ r # "1XX"
    BY <2>1 DEF Server!Handle, Server!EventOf, Server!Transitions, Server!Answers
  <2> QED
    BY <1>11, <2>1, <2>2
<1>14. CASE Server!osip_nist_timeout_j_event
  <2>1. /\ sState = "COMPLETED" /\ sState' = "TERMINATED" /\ Server!Call({"kill"})
        /\ UNCHANGED <<response, finals, toClient>>
    BY <1>14 DEF Server!osip_nist_timeout_j_event, Server!Handle, Server!Transitions, Server!wire
  <2>2. sTold'["request"] = sTold["request"]
    <3>1. {"kill"} \in SUBSET Server!Callbacks /\ "request" \notin {"kill"}
      BY DEF Server!Callbacks
    <3> QED
      BY <1>5, <2>1, <3>1
  <2>3. OneAnswer'
    BY <1>8, <2>1, <2>2 DEF OneAnswer
  <2> QED
    BY <1>7, <2>1, <2>3 DEF Server!States
<1> QED
  BY <1>9, <1>10, <1>12, <1>13, <1>14

-----------------------------------------------------------------------------
(* No step of the two ends or of the network disturbs their agreement.     *)
LEMMA AgreeStep == AgreeInv /\ [Next]_vars => AgreeInv'
<1> SUFFICES ASSUME AgreeInv, [Next]_vars PROVE AgreeInv'
  OBVIOUS
<1>1. CASE ClientReceives
  BY <1>1, ClientReceivesOne
<1>2. CASE ClientRuns
  BY <1>2, ClientRunsOnce
<1>3. CASE ServerReceives
  BY <1>3, ServerReceivesOne
<1>4. CASE ServerAnswers
  BY <1>4, ServerQueues
<1>5. CASE ServerRuns
  BY <1>5, ServerQueues, ServerHandles DEF ServerRuns, Server!Execute
<1>6. ASSUME UNCHANGED <<cFifo, final, sFifo, sState, response, sTold, finals, sessions>>,
             toClient' \subseteq toClient
      PROVE  AgreeInv'
  BY <1>6 DEF AgreeInv, Types, OneAnswer, FromServer, Waits
<1>7. CASE \E m \in toServer \cup toClient : Lose(m)
  BY <1>6, <1>7 DEF Lose, client, server
<1>8. CASE Tick
  BY <1>6, <1>8 DEF Tick, Client!ElapseTimers, Server!ElapseTimers
<1>9. CASE UNCHANGED vars
  BY <1>6, <1>9 DEF vars, client, server, network, wire
<1> QED
  BY <1>1, <1>2, <1>3, <1>4, <1>5, <1>7, <1>8, <1>9 DEF Next

(* The client's user is given the final response that the server's user    *)
(* chose, for any timers, fifos, faults and number of sessions: a response *)
(* given was waiting, one that waits was on its way, and on its way are    *)
(* copies of the one the session sent.                                     *)
THEOREM AnswersAlwaysAgree == Spec => []AnswersAgree
<1>1. AgreeInv => AnswersAgree
  <2> SUFFICES ASSUME AgreeInv, final # "none", sessions = 1
               PROVE  finals = {final} /\ sTold["request"] = 1
    BY DEF AnswersAgree
  <2>1. final \in Finals /\ FromServer
    BY DEF AgreeInv, Types
  <2>2. final \in finals
    BY <2>1 DEF FromServer
  <2> QED
    BY <2>2 DEF AgreeInv, OneAnswer
<1> QED
  BY <1>1, AgreeInitially, AgreeStep, PTL DEF Spec
-----------------------------------------------------------------------------
(* Some numbers have a first one.                                          *)
LEMMA Least ==
  ASSUME NEW S, S \subseteq Nat, S # {}
  PROVE  \E i \in S : \A l \in S : i <= l
<1>1. PICK i \in S : \A l \in S : ~ (<<l, i>> \in OpToRel(<, Nat))
  BY NatLessThanWellFounded, WFMin
<1>2. ASSUME NEW l \in S  PROVE i <= l
  <2>1. <<l, i>> \in Nat \X Nat /\ <<l, i>>[1] = l /\ <<l, i>>[2] = i
    OBVIOUS
  <2>2. ~(<<l, i>>[1] < <<l, i>>[2])
    BY <1>1, <2>1 DEF OpToRel
  <2> QED
    BY <2>1, <2>2
<1> QED
  BY <1>2

(* The values of a recursion up to n: each follows from the one before.    *)
Recurses(p, n, S, a, h) ==
  p \in [0..n -> S] /\ p[0] = a /\ \A i \in 1..n : p[i] = h[i][p[i - 1]]

(* They exist up to any n,                                                 *)
LEMMA RecursesFar ==
  ASSUME NEW S, NEW a \in S, NEW h \in [Nat -> [S -> S]], NEW n \in Nat
  PROVE  \E p : Recurses(p, n, S, a, h)
<1> DEFINE N == {m \in Nat : ~ \E p : Recurses(p, m, S, a, h)}
<1>1. SUFFICES ASSUME N # {} PROVE FALSE
  OBVIOUS
<1>2. PICK m \in N : \A l \in N : m <= l
  <2> HIDE DEF N
  <2>1. N \subseteq Nat
    BY DEF N
  <2> QED
    BY <1>1, <2>1, Least
<1>3. m \in Nat /\ ~ \E p : Recurses(p, m, S, a, h)
  OBVIOUS
<1>4. CASE m = 0
  <2>1. Recurses([i \in 0..0 |-> a], 0, S, a, h)
    BY DEF Recurses
  <2> QED
    BY <1>3, <1>4, <2>1
<1>5. CASE m # 0
  <2>1. m - 1 \in Nat /\ m - 1 \notin N
    BY <1>2, <1>3, <1>5
  <2>2. PICK p : Recurses(p, m - 1, S, a, h)
    BY <2>1
  <2>3. PICK q : q = [i \in 0..m |-> IF i = m THEN h[m][p[m - 1]] ELSE p[i]]
    OBVIOUS
  <2>4. \A i \in 0..(m - 1) : q[i] = p[i] /\ p[i] \in S
    BY <1>3, <2>1, <2>2, <2>3 DEF Recurses
  <2>5. q[m] = h[m][p[m - 1]] /\ h[m][p[m - 1]] \in S
    <3>1. p[m - 1] \in S /\ h[m] \in [S -> S]
      BY <1>3, <2>1, <2>4
    <3>2. q[m] = h[m][p[m - 1]]
      BY <1>3, <2>3
    <3> QED
      BY <3>1, <3>2
  <2>6. q \in [0..m -> S]
    <3>1. ASSUME NEW i \in 0..m PROVE q[i] \in S
      <4>1. i = m \/ i \in 0..(m - 1)
        BY <1>3
      <4> QED
        BY <2>4, <2>5, <4>1
    <3>2. q = [i \in 0..m |-> q[i]]
      BY <2>3
    <3> QED
      BY <3>1, <3>2
  <2>7. q[0] = a
    BY <1>3, <1>5, <2>2, <2>4 DEF Recurses
  <2>8. ASSUME NEW i \in 1..m PROVE q[i] = h[i][q[i - 1]]
    <3>1. CASE i = m
      BY <1>3, <1>5, <2>4, <2>5, <3>1
    <3>2. CASE i # m
      <4>1. i \in 1..(m - 1) /\ i - 1 \in 0..(m - 1) /\ i \in 0..(m - 1)
        BY <1>3, <3>2
      <4> QED
        BY <2>2, <2>4, <4>1 DEF Recurses
    <3> QED
      BY <3>1, <3>2
  <2>9. Recurses(q, m, S, a, h)
    BY <2>6, <2>7, <2>8 DEF Recurses
  <2> QED
    BY <1>3, <2>9
<1> QED
  BY <1>4, <1>5

(* and do not depend on how far they go.                                   *)
LEMMA RecursesOnce ==
  ASSUME NEW S, NEW a \in S, NEW h \in [Nat -> [S -> S]], NEW n \in Nat, NEW m \in Nat,
         NEW p, Recurses(p, n, S, a, h), NEW q, Recurses(q, m, S, a, h),
         NEW i \in Nat, i <= n, i <= m
  PROVE  p[i] = q[i]
<1> DEFINE N == {l \in Nat : l <= n /\ l <= m /\ p[l] # q[l]}
<1>1. SUFFICES ASSUME N # {} PROVE FALSE
  OBVIOUS
<1>2. PICK l \in N : \A c \in N : l <= c
  <2>1. N \subseteq Nat
    OBVIOUS
  <2> HIDE DEF N
  <2> QED
    BY <1>1, <2>1, Least
<1>3. l \in Nat /\ l <= n /\ l <= m /\ p[l] # q[l]
  OBVIOUS
<1>4. l # 0
  BY <1>3 DEF Recurses
<1>5. l - 1 \in Nat /\ l - 1 <= n /\ l - 1 <= m /\ l - 1 \notin N
  BY <1>2, <1>3, <1>4
<1>6. p[l - 1] = q[l - 1]
  BY <1>5
<1>7. p[l] = h[l][p[l - 1]] /\ q[l] = h[l][q[l - 1]]
  BY <1>3, <1>4 DEF Recurses
<1> QED
  BY <1>3, <1>6, <1>7

(* A recursion over the numbers defines a function.                        *)
Follows(p, a, h) == p[0] = a /\ \A i \in Nat : p[i + 1] = h[i + 1][p[i]]
LEMMA Recursion ==
  ASSUME NEW S, NEW a \in S, NEW h \in [Nat -> [S -> S]]
  PROVE  \E p \in [Nat -> S] : Follows(p, a, h)
<1> DEFINE To(n) == CHOOSE p : Recurses(p, n, S, a, h)
           F == [n \in Nat |-> To(n)[n]]
<1>1. ASSUME NEW n \in Nat  PROVE Recurses(To(n), n, S, a, h)
  BY RecursesFar
<1> HIDE DEF To
<1>2. \A n \in Nat : F[n] = To(n)[n] /\ F[n] \in S
  BY <1>1 DEF Recurses
<1>3. F[0] = a
  BY <1>1, <1>2 DEF Recurses
<1>4. ASSUME NEW i \in Nat  PROVE F[i + 1] = h[i + 1][F[i]]
  <2>1. i + 1 \in Nat /\ i <= i + 1 /\ i <= i
    OBVIOUS
  <2>2. To(i + 1)[i + 1] = h[i + 1][To(i + 1)[i]]
    <3>1. Recurses(To(i + 1), i + 1, S, a, h)
      BY <1>1, <2>1
    <3>2. i + 1 \in 1..(i + 1) /\ (i + 1) - 1 = i
      OBVIOUS
    <3> QED
      BY <3>1, <3>2 DEF Recurses
  <2>3. To(i + 1)[i] = To(i)[i]
    <3>1. Recurses(To(i + 1), i + 1, S, a, h) /\ Recurses(To(i), i, S, a, h)
      BY <1>1, <2>1
    <3>2. PICK P, Q : P = To(i + 1) /\ Q = To(i)
      OBVIOUS
    <3>3. Recurses(P, i + 1, S, a, h) /\ Recurses(Q, i, S, a, h)
      BY <3>1, <3>2
    <3>4. P[i] = Q[i]
      BY <2>1, <3>3, RecursesOnce
    <3> QED
      BY <3>2, <3>4
  <2> QED
    BY <1>2, <2>1, <2>2, <2>3
<1>5. F \in [Nat -> S]
  BY <1>2
<1> HIDE DEF F
<1> QED
  BY <1>3, <1>4, <1>5 DEF Follows

(* The intervals between copies: T1, and then the double up to T2.         *)
LEMMA SendIntervals ==
  /\ Client!SendInterval[0] = T1 /\ Client!SendInterval[1] = T1
  /\ \A n \in Nat \ {0} :
       Client!SendInterval[n + 1] = Client!DoubledUpToT2(Client!SendInterval[n])
<1> DEFINE Next1(i, x) == IF i <= 1 THEN T1 ELSE Client!DoubledUpToT2(x)
<1>1. PICK h : h = [i \in Nat |-> [x \in Nat |-> Next1(i, x)]]
  OBVIOUS
<1>2. T1 \in Nat /\ T2 \in Nat
  BY TimerAssumption
<1>3. \A x \in Nat : Client!DoubledUpToT2(x) \in Nat
  BY <1>2 DEF Client!DoubledUpToT2, Client!Doubled
<1>4. h \in [Nat -> [Nat -> Nat]]
  BY <1>1, <1>2, <1>3
<1>a. PICK p \in [Nat -> Nat] : Follows(p, T1, h)
  BY <1>2, <1>4, Recursion, Zenon
<1>5. p[0] = T1 /\ \A i \in Nat : p[i + 1] = h[i + 1][p[i]]
  BY <1>a DEF Follows
<1>6. ASSUME NEW n \in Nat  PROVE p[n] = Next1(n, p[n - 1])
  <2>1. CASE n = 0
    BY <1>5, <2>1
  <2>2. CASE n # 0
    <3>1. n - 1 \in Nat /\ (n - 1) + 1 = n /\ p[n - 1] \in Nat
      BY <2>2
    <3>2. p[n] = h[n][p[n - 1]]
      BY <1>5, <3>1
    <3> HIDE DEF Next1
    <3> QED
      BY <1>1, <3>1, <3>2
  <2> QED
    BY <2>1, <2>2
<1>7. p = [n \in Nat |-> IF n <= 1 THEN T1 ELSE Client!DoubledUpToT2(p[n - 1])]
  BY <1>6
<1>8. Client!SendInterval = [n \in Nat |-> IF n <= 1 THEN T1
                                ELSE Client!DoubledUpToT2(Client!SendInterval[n - 1])]
  BY <1>7, Zenon DEF Client!SendInterval
<1>9. \A n \in Nat : Client!SendInterval[n] = IF n <= 1 THEN T1
                                ELSE Client!DoubledUpToT2(Client!SendInterval[n - 1])
  BY <1>8, Zenon
<1>10. ASSUME NEW n \in Nat \ {0}
       PROVE  Client!SendInterval[n + 1] = Client!DoubledUpToT2(Client!SendInterval[n])
  <2>1. n + 1 \in Nat /\ ~(n + 1 <= 1) /\ (n + 1) - 1 = n
    OBVIOUS
  <2> QED
    BY <1>9, <2>1
<1> QED
  BY <1>9, <1>10

(* They are no longer than T2.                                             *)
LEMMA SendIntervalsShort ==
  \A n \in Nat : Client!SendInterval[n] \in Nat /\ Client!SendInterval[n] <= T2
<1> DEFINE N == {n \in Nat : ~(Client!SendInterval[n] \in Nat /\ Client!SendInterval[n] <= T2)}
<1>1. SUFFICES ASSUME N # {} PROVE FALSE
  OBVIOUS
<1>2. PICK n \in N : \A l \in N : n <= l
  <2>1. N \subseteq Nat
    OBVIOUS
  <2> HIDE DEF N
  <2> QED
    BY <1>1, <2>1, Least
<1>3. n \in Nat /\ ~(Client!SendInterval[n] \in Nat /\ Client!SendInterval[n] <= T2)
  OBVIOUS
<1>4. T1 \in Nat /\ T2 \in Nat /\ T1 <= T2
  BY TimerAssumption
<1>5. n > 1
  BY <1>3, <1>4, SendIntervals
<1>6. n - 1 \in Nat \ {0} /\ n - 1 \notin N /\ (n - 1) + 1 = n
  BY <1>2, <1>3, <1>5
<1>7. Client!SendInterval[n - 1] \in Nat
  BY <1>6
<1>8. Client!SendInterval[n] = Client!DoubledUpToT2(Client!SendInterval[n - 1])
  BY <1>6, SendIntervals
<1> QED
  BY <1>3, <1>4, <1>7, <1>8 DEF Client!DoubledUpToT2, Client!Doubled

(* The earliest time of a copy: an interval after that of the one before.  *)
LEMMA EarliestSends ==
  /\ Client!EarliestSend[0] = 0 /\ Client!EarliestSend[1] = 0
  /\ \A n \in Nat \ {0} :
       Client!EarliestSend[n + 1] = Client!EarliestSend[n] + Client!SendInterval[n]
<1> DEFINE Next1(i, x) == IF i <= 1 THEN 0 ELSE x + Client!SendInterval[i - 1]
<1>1. PICK h : h = [i \in Nat |-> [x \in Nat |-> Next1(i, x)]]
  OBVIOUS
<1>2. \A i \in Nat, x \in Nat : Next1(i, x) \in Nat
  BY SendIntervalsShort
<1>4. h \in [Nat -> [Nat -> Nat]]
  BY <1>1, <1>2
<1>a. PICK p \in [Nat -> Nat] : Follows(p, 0, h)
  <2>1. 0 \in Nat
    OBVIOUS
  <2> QED
    BY <1>4, <2>1, Recursion, Zenon
<1>5. p[0] = 0 /\ \A i \in Nat : p[i + 1] = h[i + 1][p[i]]
  BY <1>a DEF Follows
<1>6. ASSUME NEW n \in Nat  PROVE p[n] = Next1(n, p[n - 1])
  <2>1. CASE n = 0
    BY <1>5, <2>1
  <2>2. CASE n # 0
    <3>1. n - 1 \in Nat /\ (n - 1) + 1 = n /\ p[n - 1] \in Nat
      BY <2>2
    <3>2. p[n] = h[n][p[n - 1]]
      BY <1>5, <3>1
    <3> HIDE DEF Next1
    <3> QED
      BY <1>1, <3>1, <3>2
  <2> QED
    BY <2>1, <2>2
<1>7. p = [n \in Nat |-> IF n <= 1 THEN 0 ELSE p[n - 1] + Client!SendInterval[n - 1]]
  BY <1>6
<1>8. Client!EarliestSend = [n \in Nat |-> IF n <= 1 THEN 0
                               ELSE Client!EarliestSend[n - 1] + Client!SendInterval[n - 1]]
  BY <1>7, Zenon DEF Client!EarliestSend
<1>9. \A n \in Nat : Client!EarliestSend[n] = IF n <= 1 THEN 0
                               ELSE Client!EarliestSend[n - 1] + Client!SendInterval[n - 1]
  BY <1>8, Zenon
<1>10. ASSUME NEW n \in Nat \ {0}
       PROVE  Client!EarliestSend[n + 1] = Client!EarliestSend[n] + Client!SendInterval[n]
  <2>1. n + 1 \in Nat /\ ~(n + 1 <= 1) /\ (n + 1) - 1 = n
    OBVIOUS
  <2> QED
    BY <1>9, <2>1
<1> QED
  BY <1>9, <1>10

-----------------------------------------------------------------------------
(* The events of a client's fifo that its timers put there.                *)
TimersIn(fifo) == {n \in 1..Len(fifo) : fifo[n] \in Client!TimerEvents}

(* The one thread of the client polls the timers only when none of them    *)
(* waits; timer E waits while it is due, and none before the request left. *)
Queued ==
  /\ cFifo \in Seq(Client!Events)
  /\ \A p, q \in TimersIn(cFifo) : p = q
  /\ \A p \in TimersIn(cFifo) : cFifo[p] = "TIMEOUT_E" => e = 0
  /\ cState = "PRE_TRYING" => TimersIn(cFifo) = {}

(* Timer F tells how long the client waits, timer E when the next copy is  *)
(* sent at the earliest: not before its interval has passed.               *)
Timed ==
  /\ requests \in Nat /\ Client!EarliestSend[requests] <= Timeout
  /\ cState = "PRE_TRYING" => e = Off /\ eLength = T1 /\ requests = 0
  /\ cState \in {"PRE_TRYING"} \cup Client!Waiting => f \in 0..Timeout
  /\ cState \in Client!Waiting /\ e # Off =>
       /\ e \in Nat /\ eLength \in Nat
       /\ Client!SendInterval[requests] <= eLength
       /\ Client!EarliestSend[requests + 1] <= (Timeout - f) + e
  /\ reliable => requests <= 1
  /\ reliable /\ requests > 0 => e = Off

BoundInv == Queued /\ Timed

(* The earliest times are numbers.                                         *)
LEMMA EarliestSendsNat == \A n \in Nat : Client!EarliestSend[n] \in Nat
<1> DEFINE N == {n \in Nat : Client!EarliestSend[n] \notin Nat}
<1>1. SUFFICES ASSUME N # {} PROVE FALSE
  OBVIOUS
<1>2. PICK n \in N : \A l \in N : n <= l
  <2>1. N \subseteq Nat
    OBVIOUS
  <2> HIDE DEF N
  <2> QED
    BY <1>1, <2>1, Least
<1>3. n \in Nat /\ Client!EarliestSend[n] \notin Nat
  OBVIOUS
<1>4. n > 1
  BY <1>3, EarliestSends
<1>5. n - 1 \in Nat \ {0} /\ n - 1 \notin N /\ (n - 1) + 1 = n
  BY <1>2, <1>3, <1>4
<1>6. Client!EarliestSend[n - 1] \in Nat /\ Client!SendInterval[n - 1] \in Nat
  BY <1>5, SendIntervalsShort
<1>7. Client!EarliestSend[n] = Client!EarliestSend[n - 1] + Client!SendInterval[n - 1]
  BY <1>5, EarliestSends
<1> QED
  BY <1>3, <1>6, <1>7

(* What the first event leaves of the timers that wait.                    *)
LEMMA TimersTail ==
  ASSUME NEW E, NEW fifo \in Seq(E), fifo # <<>>
  PROVE  /\ \A p \in TimersIn(Tail(fifo)) :
              p \in Nat \ {0} /\ p + 1 \in TimersIn(fifo) /\ Tail(fifo)[p] = fifo[p + 1]
         /\ Head(fifo) \in Client!TimerEvents => 1 \in TimersIn(fifo)
         /\ Head(fifo) = fifo[1]
<1>1. /\ Len(fifo) \in Nat /\ Len(fifo) >= 1 /\ Head(fifo) = fifo[1]
      /\ Len(Tail(fifo)) = Len(fifo) - 1
      /\ \A n \in 1..Len(Tail(fifo)) : Tail(fifo)[n] = fifo[n + 1]
  BY HeadTailProperties
<1>2. ASSUME NEW p \in TimersIn(Tail(fifo))
      PROVE  p \in Nat \ {0} /\ p + 1 \in TimersIn(fifo) /\ Tail(fifo)[p] = fifo[p + 1]
  <2>1. p \in 1..Len(Tail(fifo)) /\ Tail(fifo)[p] \in Client!TimerEvents
    BY DEF TimersIn
  <2>2. p \in Nat \ {0} /\ p + 1 \in 1..Len(fifo) /\ Tail(fifo)[p] = fifo[p + 1]
    BY <1>1, <2>1
  <2> QED
    BY <2>1, <2>2 DEF TimersIn
<1>3. 1 \in 1..Len(fifo)
  BY <1>1
<1> QED
  BY <1>1, <1>2, <1>3 DEF TimersIn

(* An event is put behind the others: a timer only where none waits.       *)
LEMMA QueuedGrows ==
  ASSUME Queued, NEW ev \in Client!Events, cFifo' = Append(cFifo, ev),
         UNCHANGED <<e, cState>>,
         ev \in Client!TimerEvents =>
           TimersIn(cFifo) = {} /\ cState # "PRE_TRYING" /\ (ev = "TIMEOUT_E" => e = 0)
  PROVE  Queued'
<1>1. /\ cFifo \in Seq(Client!Events) /\ \A p, q \in TimersIn(cFifo) : p = q
      /\ \A p \in TimersIn(cFifo) : cFifo[p] = "TIMEOUT_E" => e = 0
      /\ cState = "PRE_TRYING" => TimersIn(cFifo) = {}
  BY DEF Queued
<1>2. cFifo' \in Seq(Client!Events)
  BY <1>1
<1>3. PICK F : F = Append(cFifo, ev)
  OBVIOUS
<1>4. /\ ev \in Client!TimerEvents => TimersIn(F) = TimersIn(cFifo) \cup {Len(cFifo) + 1}
      /\ ev \notin Client!TimerEvents => TimersIn(F) = TimersIn(cFifo)
      /\ \A p \in TimersIn(cFifo) : F[p] = cFifo[p]
      /\ F[Len(cFifo) + 1] = ev
  <2>1. /\ Len(cFifo) \in Nat /\ Len(F) = Len(cFifo) + 1
        /\ \A p \in 1..Len(cFifo) : F[p] = cFifo[p]
        /\ F[Len(cFifo) + 1] = ev
    BY <1>1, <1>3, AppendProperties
  <2>2. 1..(Len(cFifo) + 1) = (1..Len(cFifo)) \cup {Len(cFifo) + 1}
    BY <2>1
  <2> QED
    BY <2>1, <2>2 DEF TimersIn
<1>5. CASE ev \in Client!TimerEvents
  <2>1. TimersIn(F) = {Len(cFifo) + 1} /\ cState # "PRE_TRYING"
    BY <1>4, <1>5
  <2>2. F[Len(cFifo) + 1] = "TIMEOUT_E" => e = 0
    BY <1>4, <1>5
  <2>3. cFifo' = F /\ e' = e /\ cState' = cState
    BY <1>3
  <2> QED
    BY <1>2, <2>1, <2>2, <2>3 DEF Queued, TimersIn
<1>6. CASE ev \notin Client!TimerEvents
  <2>1. TimersIn(F) = TimersIn(cFifo)
    BY <1>4, <1>6
  <2>3. cFifo' = F /\ e' = e /\ cState' = cState
    BY <1>3
  <2> QED
    BY <1>1, <1>2, <1>4, <2>1, <2>3 DEF Queued, TimersIn
<1> QED
  BY <1>5, <1>6

(* The first event is taken: if it was a timer, no other one waits.        *)
LEMMA QueuedShrinks ==
  ASSUME Queued, cFifo # <<>>, cFifo' = Tail(cFifo),
         UNCHANGED e \/ Head(cFifo) \in Client!TimerEvents \/ cState = "PRE_TRYING",
         cState' = "PRE_TRYING" => cState = "PRE_TRYING"
  PROVE  Queued'
<1>1. /\ cFifo \in Seq(Client!Events) /\ \A p, q \in TimersIn(cFifo) : p = q
      /\ \A p \in TimersIn(cFifo) : cFifo[p] = "TIMEOUT_E" => e = 0
      /\ cState = "PRE_TRYING" => TimersIn(cFifo) = {}
  BY DEF Queued
<1>2. cFifo' \in Seq(Client!Events)
  BY <1>1
<1>3. PICK F : F = Tail(cFifo)
  OBVIOUS
<1>4. /\ \A p \in TimersIn(F) :
           p \in Nat \ {0} /\ p + 1 \in TimersIn(cFifo) /\ F[p] = cFifo[p + 1]
      /\ Head(cFifo) \in Client!TimerEvents => 1 \in TimersIn(cFifo)
  BY <1>1, <1>3, TimersTail
<1>5. \A p, q \in TimersIn(F) : p = q
  <2> SUFFICES ASSUME NEW p \in TimersIn(F), NEW q \in TimersIn(F) PROVE p = q
    OBVIOUS
  <2>1. p + 1 = q + 1 /\ p \in Nat /\ q \in Nat
    BY <1>1, <1>4
  <2> QED
    BY <2>1
<1>6. CASE TimersIn(F) = {}
  BY <1>2, <1>3, <1>6 DEF Queued, TimersIn
<1>7. CASE TimersIn(F) # {}
  <2>1. PICK p \in TimersIn(F) : TRUE
    BY <1>7
  <2>2. p \in Nat \ {0} /\ p + 1 \in TimersIn(cFifo)
    BY <1>4, <2>1
  <2>3. Head(cFifo) \notin Client!TimerEvents
    <3>1. SUFFICES ASSUME 1 \in TimersIn(cFifo) PROVE FALSE
      BY <1>4
    <3>2. p + 1 = 1
      BY <1>1, <2>2, <3>1
    <3> QED
      BY <2>2, <3>2
  <2>4. cState # "PRE_TRYING" /\ e' = e
    BY <1>1, <2>2, <2>3
  <2>5. \A n \in TimersIn(F) : F[n] = "TIMEOUT_E" => e = 0
    BY <1>1, <1>4
  <2>6. cFifo' = F /\ e' = e /\ cState' # "PRE_TRYING"
    BY <1>3, <2>4
  <2> QED
    BY <1>2, <1>5, <2>5, <2>6 DEF Queued, TimersIn
<1> QED
  BY <1>6, <1>7

(* The length of the next interval is at least what it should be.          *)
LEMMA NextInterval ==
  ASSUME NEW n \in Nat, NEW length \in Nat, Client!SendInterval[n] <= length
  PROVE  /\ Client!DoubledUpToT2(length) \in Nat
         /\ Client!SendInterval[n] <= Client!DoubledUpToT2(length)
         /\ Client!SendInterval[n + 1] <= Client!DoubledUpToT2(length)
         /\ T2 \in Nat /\ Client!SendInterval[n] <= T2 /\ Client!SendInterval[n + 1] <= T2
<1>1. T1 \in Nat /\ T2 \in Nat /\ T1 <= T2
  BY TimerAssumption
<1>2. /\ Client!SendInterval[n] \in Nat /\ Client!SendInterval[n] <= T2
      /\ Client!SendInterval[n + 1] \in Nat /\ Client!SendInterval[n + 1] <= T2
  BY SendIntervalsShort
<1>3. CASE n = 0
  <2>1. Client!SendInterval[n] = T1 /\ Client!SendInterval[n + 1] = T1
    BY <1>3, SendIntervals
  <2> QED
    BY <1>1, <2>1 DEF Client!DoubledUpToT2, Client!Doubled
<1>4. CASE n # 0
  <2>1. Client!SendInterval[n + 1] = Client!DoubledUpToT2(Client!SendInterval[n])
    BY <1>4, SendIntervals
  <2> QED
    BY <1>1, <1>2, <2>1 DEF Client!DoubledUpToT2, Client!Doubled
<1> QED
  BY <1>3, <1>4

(* A step that touches neither timer E nor the requests.                   *)
LEMMA TimedKept ==
  ASSUME Timed, UNCHANGED <<reliable, e, eLength, requests>>,
         \/ UNCHANGED <<f, cState>>
         \/ UNCHANGED f /\ cState \in Client!Waiting /\ cState' = "PROCEEDING"
         \/ cState' \in {"COMPLETED", "TERMINATED"}
  PROVE  Timed'
BY DEF Timed, Client!Waiting

(* Time passes while nothing is due.                                       *)
LEMMA TimedElapses ==
  ASSUME Timed, Tick
  PROVE  Timed'
<1>1. /\ e' = Client!Elapse(e) /\ f' = Client!Elapse(f)
      /\ UNCHANGED <<reliable, eLength, requests, cState>>
      /\ cState \in Client!Waiting => e # 0 /\ f # 0
  BY DEF Tick, Client!ElapseTimers, Idle, Due
<1>2. Timeout \in Nat
  BY TimerAssumption
<1>3. e = Off => e' = Off
  BY <1>1 DEF Client!Elapse, Client!Off, Off
<1>4. f \in 0..Timeout => f' \in 0..Timeout
  BY <1>1, <1>2 DEF Client!Elapse
<1>5. cState \in Client!Waiting /\ e' # Off =>
        /\ e' \in Nat /\ eLength \in Nat
        /\ Client!SendInterval[requests] <= eLength
        /\ Client!EarliestSend[requests + 1] <= (Timeout - f') + e'
  <2> SUFFICES ASSUME cState \in Client!Waiting, e # Off
      PROVE  /\ e' \in Nat /\ eLength \in Nat
             /\ Client!SendInterval[requests] <= eLength
             /\ Client!EarliestSend[requests + 1] <= (Timeout - f') + e'
    BY <1>3
  <2>1. /\ e \in Nat /\ eLength \in Nat /\ f \in 0..Timeout
        /\ Client!SendInterval[requests] <= eLength
        /\ Client!EarliestSend[requests + 1] <= (Timeout - f) + e
    BY DEF Timed
  <2>2. e' = e - 1 /\ f' = f - 1 /\ e' \in Nat
    BY <1>1, <1>2, <2>1 DEF Client!Elapse
  <2>3. (Timeout - f') + e' = (Timeout - f) + e
    BY <1>2, <2>1, <2>2
  <2> QED
    BY <2>1, <2>2, <2>3
<1> QED
  BY <1>1, <1>3, <1>4, <1>5 DEF Timed

(* The request leaves, or is kept back: timer E runs on for an interval    *)
(* that has grown, or is stopped for good.                                 *)
LEMMA TimedSends ==
  ASSUME Timed, cState \in Client!Waiting, e = 0, cState' \in {cState, "TERMINATED"},
         UNCHANGED <<reliable, f>>,
         NEW i, NEW length, Client!Send(i), Client!RunE(i, length),
         length \in {Client!DoubledUpToT2(eLength), T2}
  PROVE  Timed'
<1>1. /\ requests \in Nat /\ f \in 0..Timeout /\ eLength \in Nat
      /\ Client!SendInterval[requests] <= eLength
      /\ Client!EarliestSend[requests + 1] <= Timeout - f
      /\ Client!EarliestSend[requests] <= Timeout
      /\ reliable => requests = 0
  <2>1. e # Off /\ e \in Nat
    BY DEF Off
  <2>2. /\ requests \in Nat /\ f \in 0..Timeout /\ eLength \in Nat
        /\ Client!SendInterval[requests] <= eLength
        /\ Client!EarliestSend[requests + 1] <= (Timeout - f) + e
        /\ Client!EarliestSend[requests] <= Timeout
        /\ reliable /\ requests > 0 => e = Off
    BY <2>1 DEF Timed
  <2>3. (Timeout - f) + e = Timeout - f
    BY <2>2, TimerAssumption
  <2> QED
    BY <2>1, <2>2, <2>3
<1>2. /\ length \in Nat
      /\ Client!SendInterval[requests] <= length /\ Client!SendInterval[requests + 1] <= length
  BY <1>1, NextInterval
<1>3. requests' = requests \/ (i = "sent" /\ requests' = requests + 1)
  BY DEF Client!Send
<1>4. \/ reliable /\ i = "sent" /\ e' = Off
      \/ ~(reliable /\ i = "sent") /\ e' = length /\ eLength' = length
  BY <1>2 DEF Client!RunE, Client!Started, Client!Off, Off
<1>5. Timeout \in Nat
  BY TimerAssumption
<1>6. requests' \in Nat /\ Client!SendInterval[requests'] <= length
  BY <1>1, <1>2, <1>3
<1>7. Client!EarliestSend[requests'] <= Timeout
  <2>1. CASE requests' = requests
    BY <1>1, <2>1
  <2>2. CASE requests' = requests + 1
    BY <1>1, <1>5, <2>2, EarliestSendsNat
  <2> QED
    BY <1>3, <2>1, <2>2
<1>8. Client!EarliestSend[requests' + 1] <= (Timeout - f) + length
  <2>1. Client!EarliestSend[requests + 1] \in Nat /\ Client!SendInterval[requests + 1] \in Nat
    BY <1>1, EarliestSendsNat, SendIntervalsShort
  <2>2. CASE requests' = requests
    BY <1>1, <1>2, <1>5, <2>1, <2>2
  <2>3. CASE requests' = requests + 1
    <3>1. requests + 1 \in Nat \ {0}
      BY <1>1
    <3>2. Client!EarliestSend[requests' + 1] =
            Client!EarliestSend[requests + 1] + Client!SendInterval[requests + 1]
      BY <2>3, <3>1, EarliestSends
    <3> QED
      BY <1>1, <1>2, <1>5, <2>1, <3>2
  <2> QED
    BY <1>3, <2>2, <2>3
<1>9. /\ reliable => requests' <= 1
      /\ reliable /\ requests' > 0 => e' = Off
  <2>1. CASE requests' = requests
    BY <1>1, <2>1
  <2>2. CASE i = "sent" /\ requests' = requests + 1
    BY <1>1, <1>4, <2>2
  <2> QED
    BY <1>3, <2>1, <2>2
<1>10. cState' # "PRE_TRYING" /\ f' = f /\ reliable' = reliable
  BY DEF Client!Waiting
<1>11. CASE e' = Off
  BY <1>1, <1>6, <1>7, <1>9, <1>10, <1>11 DEF Timed
<1>12. CASE e' = length /\ eLength' = length
  BY <1>1, <1>2, <1>6, <1>7, <1>8, <1>9, <1>10, <1>12 DEF Timed
<1> QED
  BY <1>4, <1>11, <1>12

(* The request is sent for the first time, or is kept back.                *)
LEMMA TimedSendsFirst ==
  ASSUME Timed, Client!nict_snd_request
  PROVE  Timed'
<1>1. cState = "PRE_TRYING" /\ UNCHANGED <<reliable, f>>
  BY DEF Client!nict_snd_request, Client!Handle, Client!Transitions
<1>2. PICK i \in Client!SendResults :
        /\ Client!Send(i)
        /\ IF i = "error"
             THEN Client!HandleTransportError /\ UNCHANGED <<e, eLength>>
             ELSE Client!RunE(i, eLength) /\ cState' = "TRYING" /\ UNCHANGED cTold
  BY Zenon DEF Client!nict_snd_request
<1>3. /\ e = Off /\ eLength = T1 /\ requests = 0 /\ f \in 0..Timeout
  BY <1>1 DEF Timed
<1>4. T1 \in Nat /\ Timeout \in Nat
  BY TimerAssumption
<1>5. CASE i = "error"
  <2>1. cState' = "TERMINATED" /\ UNCHANGED <<e, eLength, requests>>
    BY <1>2, <1>5 DEF Client!Send, Client!HandleTransportError
  <2> QED
    BY <1>1, <2>1, TimedKept
<1>6. CASE i # "error"
  <2>1. cState' = "TRYING" /\ Client!RunE(i, T1)
    BY <1>2, <1>3, <1>6
  <2>2. requests' = 0 \/ (i = "sent" /\ requests' = 1)
    BY <1>2, <1>3 DEF Client!Send
  <2>3. \/ reliable /\ i = "sent" /\ e' = Off
        \/ ~(reliable /\ i = "sent") /\ e' = T1 /\ eLength' = T1
    BY <1>4, <2>1 DEF Client!RunE, Client!Started, Client!Off, Off
  <2>4. requests' \in Nat /\ Client!EarliestSend[requests'] = 0
        /\ Client!SendInterval[requests'] = T1
    BY <2>2, EarliestSends, SendIntervals
  <2>5. Client!EarliestSend[requests' + 1] <= (Timeout - f) + T1
    <3>1. CASE requests' = 0
      BY <1>3, <1>4, <3>1, EarliestSends
    <3>2. CASE requests' = 1
      <4>1. Client!EarliestSend[1 + 1] = Client!EarliestSend[1] + Client!SendInterval[1]
        BY EarliestSends
      <4>2. Client!EarliestSend[1 + 1] = T1
        BY <1>4, <4>1, EarliestSends, SendIntervals
      <4> QED
        BY <1>3, <1>4, <3>2, <4>2
    <3> QED
      BY <2>2, <3>1, <3>2
  <2>6. /\ reliable => requests' <= 1
        /\ reliable /\ requests' > 0 => e' = Off
    BY <2>2, <2>3
  <2>7. cState' # "PRE_TRYING" /\ f' \in 0..Timeout /\ f' = f /\ reliable' = reliable
    BY <1>1, <1>3, <2>1
  <2>8. CASE e' = Off
    BY <1>4, <2>4, <2>6, <2>7, <2>8 DEF Timed
  <2>9. CASE e' = T1 /\ eLength' = T1
    BY <1>4, <2>4, <2>5, <2>6, <2>7, <2>9 DEF Timed
  <2> QED
    BY <2>3, <2>8, <2>9
<1> QED
  BY <1>5, <1>6

-----------------------------------------------------------------------------
(* No timer runs but F, and nothing was sent.                              *)
LEMMA BoundInitially == Init => BoundInv
<1> SUFFICES ASSUME Init PROVE BoundInv
  OBVIOUS
<1>1. /\ cState = "PRE_TRYING" /\ e = Off /\ eLength = T1 /\ f = Timeout
      /\ cFifo = <<>> /\ requests = 0
  BY DEF Init, Client!NictInit, Client!Off, Off
<1>2. TimersIn(cFifo) = {}
  BY <1>1 DEF TimersIn
<1>3. Queued
  BY <1>1, <1>2 DEF Queued
<1>4. Timeout \in Nat
  BY TimerAssumption
<1>5. Client!EarliestSend[requests] = 0
  BY <1>1, EarliestSends
<1>6. Timed
  BY <1>1, <1>4, <1>5 DEF Timed, Client!Waiting
<1> QED
  BY <1>3, <1>6 DEF BoundInv

(* The client's thread polls its timers and handles an event.              *)
LEMMA BoundRuns ==
  ASSUME BoundInv, ClientRuns
  PROVE  BoundInv'
<1>0. Queued /\ Timed
  BY DEF BoundInv
<1>1. CASE Client!SendRequest
  <2>1. /\ "SND_REQUEST" \in Client!Events /\ "SND_REQUEST" \notin Client!TimerEvents
        /\ cFifo' = Append(cFifo, "SND_REQUEST")
        /\ UNCHANGED <<reliable, cState, e, eLength, f, requests>>
    BY <1>1, EventOfResponses DEF Client!SendRequest, Client!AddEvent, Client!timers,
       Client!TimerEvents
  <2> QED
    BY <1>0, <2>1, QueuedGrows, TimedKept DEF BoundInv
<1>2. CASE Client!TimersExecute
  <2>1. ~Client!PendingTimer /\ UNCHANGED <<reliable, cState, e, eLength, f, requests>>
    BY <1>2, NonInviteAssumption DEF Client!TimersExecute, Client!timers
  <2>2. TimersIn(cFifo) = {}
    BY <2>1 DEF TimersIn, Client!PendingTimer
  <2>3. PICK ev \in {"TIMEOUT_E", "TIMEOUT_F", "TIMEOUT_K"} :
          /\ cFifo' = Append(cFifo, ev) /\ cState # "PRE_TRYING"
          /\ ev = "TIMEOUT_E" => e = 0
    BY <1>2 DEF Client!TimersExecute, Client!AddEvent, Client!Due, Client!Waiting
  <2>4. ev \in Client!Events
    BY EventOfResponses
  <2>5. Queued'
    BY <1>0, <2>1, <2>2, <2>3, <2>4, QueuedGrows
  <2> QED
    BY <1>0, <2>1, <2>5, TimedKept DEF BoundInv
<1>3. CASE Client!Execute
  <2>0. cFifo # <<>> /\ cFifo' = Tail(cFifo)
    BY <1>3 DEF Client!Execute, Client!Discard, Client!nict_snd_request,
       Client!osip_nict_timeout_e_event, Client!osip_nict_timeout_f_event,
       Client!osip_nict_timeout_k_event, Client!nict_rcv_1xx, Client!nict_rcv_23456xx,
       Client!Handle
  <2>1. CASE Client!Discard
    <3>1. UNCHANGED <<reliable, cState, e, eLength, f, requests>>
      BY <2>1 DEF Client!Discard, Client!timers
    <3> QED
      BY <1>0, <2>0, <3>1, QueuedShrinks, TimedKept DEF BoundInv
  <2>2. CASE Client!nict_snd_request
    <3>1. cState = "PRE_TRYING"
      BY <2>2 DEF Client!nict_snd_request, Client!Handle, Client!Transitions
    <3> QED
      BY <1>0, <2>0, <2>2, <3>1, QueuedShrinks, TimedSendsFirst DEF BoundInv
  <2>3. CASE Client!osip_nict_timeout_e_event
    <3>1. PICK i \in Client!SendResults :
            /\ Client!Send(i)
            /\ Client!RunE(i, IF cState = "TRYING" THEN Client!DoubledUpToT2(eLength) ELSE T2)
            /\ IF i = "error" THEN Client!HandleTransportError
                              ELSE UNCHANGED <<cState, cTold>>
      BY <2>3, Zenon DEF Client!osip_nict_timeout_e_event
    <3>2. /\ Head(cFifo) = "TIMEOUT_E" /\ cState \in Client!Waiting
          /\ UNCHANGED <<reliable, f>>
      BY <2>3 DEF Client!osip_nict_timeout_e_event, Client!Handle, Client!Transitions
    <3>3. cState' \in {cState, "TERMINATED"}
      BY <3>1 DEF Client!HandleTransportError
    <3>4. e = 0
      <4>1. cFifo \in Seq(Client!Events)
        BY <1>0 DEF Queued
      <4>2. 1 \in TimersIn(cFifo) /\ cFifo[1] = "TIMEOUT_E"
        BY <2>0, <3>2, <4>1, TimersTail DEF Client!TimerEvents
      <4> QED
        BY <1>0, <4>2 DEF Queued
    <3>5. PICK length :
            length = IF cState = "TRYING" THEN Client!DoubledUpToT2(eLength) ELSE T2
      OBVIOUS
    <3>6. length \in {Client!DoubledUpToT2(eLength), T2} /\ Client!RunE(i, length)
      BY <3>1, <3>5
    <3>7. Timed'
      BY <1>0, <3>1, <3>2, <3>3, <3>4, <3>6, TimedSends
    <3>8. Head(cFifo) \in Client!TimerEvents /\ cState' # "PRE_TRYING"
      BY <3>2, <3>3 DEF Client!TimerEvents, Client!Waiting
    <3> QED
      BY <1>0, <2>0, <3>7, <3>8, QueuedShrinks DEF BoundInv
  <2>4. CASE \/ Client!osip_nict_timeout_f_event \/ Client!osip_nict_timeout_k_event
             \/ Client!nict_rcv_23456xx
    <3>1. /\ UNCHANGED <<reliable, e, eLength, requests>>
          /\ cState' \in {"COMPLETED", "TERMINATED"}
      BY <2>4 DEF Client!osip_nict_timeout_f_event, Client!osip_nict_timeout_k_event,
         Client!nict_rcv_23456xx
    <3> QED
      BY <1>0, <2>0, <3>1, QueuedShrinks, TimedKept DEF BoundInv
  <2>5. CASE Client!nict_rcv_1xx
    <3>1. /\ UNCHANGED <<reliable, e, eLength, f, requests>>
          /\ cState \in Client!Waiting /\ cState' = "PROCEEDING"
      BY <2>5 DEF Client!nict_rcv_1xx, Client!timers, Client!Handle, Client!Transitions
    <3> QED
      BY <1>0, <2>0, <3>1, QueuedShrinks, TimedKept DEF BoundInv
  <2> QED
    BY <1>3, <2>1, <2>2, <2>3, <2>4, <2>5 DEF Client!Execute
<1> QED
  BY <1>1, <1>2, <1>3 DEF ClientRuns

(* No step of the two ends or of the network hurries a copy.               *)
LEMMA BoundStep == BoundInv /\ [Next]_vars => BoundInv'
<1> SUFFICES ASSUME BoundInv, [Next]_vars PROVE BoundInv'
  OBVIOUS
<1>0. Queued /\ Timed
  BY DEF BoundInv
<1>1. CASE ClientReceives
  <2>1. PICK copy \in BOOLEAN, r \in Client!Responses : Client!Receive(r, copy)
    BY <1>1 DEF ClientReceives
  <2>2. /\ cFifo' = Append(cFifo, Client!EventOf(r))
        /\ UNCHANGED <<reliable, cState, e, eLength, f, requests>>
    BY <2>1 DEF Client!Receive, Client!AddEvent, Client!timers
  <2>3. Client!EventOf(r) \in Client!Events /\ Client!EventOf(r) \notin Client!TimerEvents
    BY EventOfResponses DEF Client!TimerEvents, Client!EventOf, Client!Responses
  <2> QED
    BY <1>0, <2>2, <2>3, QueuedGrows, TimedKept DEF BoundInv
<1>2. CASE ClientRuns
  BY <1>2, BoundRuns
<1>3. ASSUME UNCHANGED <<reliable, client>>
      PROVE  BoundInv'
  BY <1>0, <1>3 DEF BoundInv, Queued, Timed, TimersIn, client
<1>4. CASE ServerReceives
  BY <1>3, <1>4 DEF ServerReceives, Server!Create, Server!Receive, Server!Arrives
<1>5. CASE ServerAnswers
  BY <1>3, <1>5 DEF ServerAnswers, Server!Answer
<1>6. CASE ServerRuns
  BY <1>3, <1>6 DEF ServerRuns, Server!TimersExecute, Server!Execute, Server!Discard,
     Server!nist_rcv_request, Server!nist_rcv_request_again, Server!nist_snd_1xx,
     Server!nist_snd_23456xx, Server!osip_nist_timeout_j_event
<1>7. CASE \E m \in toServer \cup toClient : Lose(m)
  BY <1>3, <1>7 DEF Lose
<1>8. CASE Tick
  <2>1. cFifo = <<>> /\ UNCHANGED <<cFifo, cState>>
    BY <1>8 DEF Tick, Idle, Client!ElapseTimers
  <2>2. Queued'
    BY <1>0, <2>1 DEF Queued, TimersIn
  <2> QED
    BY <1>0, <1>8, <2>2, TimedElapses DEF BoundInv
<1>9. CASE UNCHANGED vars
  BY <1>3, <1>9 DEF vars
<1> QED
  BY <1>1, <1>2, <1>4, <1>5, <1>6, <1>7, <1>8, <1>9 DEF Next

(* Over a reliable transport the request leaves once, otherwise at most as *)
(* often as its intervals fit before timer F, for any timers, faults and   *)
(* answers: a copy waits for timer E, E for the interval of the copies     *)
(* before it, and the time that F has run is the sum of them.              *)
THEOREM RequestsAlwaysBounded == Spec => []RequestsBounded
<1>1. BoundInv => RequestsBounded
  BY DEF BoundInv, Timed, RequestsBounded, Client!RequestsBounded, Client!Off, Off
<1> QED
  BY <1>1, BoundInitially, BoundStep, PTL DEF Spec
=============================================================================
