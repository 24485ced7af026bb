-------------------------- MODULE TransactionProof --------------------------
(***************************************************************************)
(* Every machine of osip2 answers once and tells its user once, for every  *)
(* value of the timers, any number of threads that poll them, any peer and *)
(* any network.                                                            *)
(***************************************************************************)
EXTENDS Transaction, SequenceTheorems, TLAPS

(* What the calls of callbacks leave.                                      *)
LEMMA Counted ==
  ASSUME NEW C, NEW callbacks, told \in [C -> 0..2],
         told' = [c \in C |-> IF c \in callbacks
                              THEN IF told[c] < 2 THEN told[c] + 1 ELSE told[c]
                              ELSE told[c]]
  PROVE  /\ told' \in [C -> 0..2]
         /\ \A c \in C : c \notin callbacks => told'[c] = told[c]
         /\ \A c \in C : (c \in callbacks /\ told[c] = 0) => told'[c] = 1
<1>1. \A c \in C : told[c] \in 0..2
  OBVIOUS
<1> QED
  BY <1>1

(* What takes an event from a fifo, or adds one, leaves a fifo.            *)
LEMMA FifoTyped ==
  ASSUME NEW E, fifo \in Seq(E)
  PROVE  /\ fifo # <<>> => Tail(fifo) \in Seq(E) /\ Head(fifo) \in E
         /\ \A ev \in E : Append(fifo, ev) \in Seq(E)
  OBVIOUS

-----------------------------------------------------------------------------
(* The non-INVITE client transaction.                                      *)
NictInv == NICT!TypeOK /\ NICT!OneOutcome

(* The wire, the timers and the fifo of every step.                        *)
LEMMA NictQueues ==
  ASSUME NICT!TypeOK,
         \/ NICT!SendRequest \/ NICT!TimersExecute \/ NICT!Discard
         \/ \E r \in NICT!Responses, copy \in BOOLEAN : NICT!Receive(r, copy)
         \/ \E r \in NICT!Responses : NICT!Respond(r)
         \/ \E m \in toServer \cup toClient : NICT!Lose(m)
         \/ NICT!Tick
  PROVE  NICT!TypeOK' /\ UNCHANGED <<state, told, final>> /\ UNCHANGED sent
         /\ toServer' \subseteq toServer
<1>1. /\ fifo \in Seq(NICT!Events) /\ toServer \subseteq {"REQUEST"}
      /\ toClient \subseteq NICT!Responses
      /\ repeat \in NICT!Times /\ giveUp \in NICT!Times /\ absorb \in NICT!Times
  BY DEF NICT!TypeOK
<1>2. UNCHANGED <<reliable, state, told, final, sent, length>>
  BY DEF NICT!SendRequest, NICT!TimersExecute, NICT!Discard, NICT!Receive, NICT!Respond,
         NICT!Lose, NICT!Tick, NICT!ElapseTimers, NICT!timers, NICT!nictvars
<1>3. toServer' \subseteq toServer /\ toClient' \subseteq NICT!Responses
  BY <1>1 DEF NICT!SendRequest, NICT!TimersExecute, NICT!Discard, NICT!Receive,
         NICT!Respond, NICT!Lose, NICT!Tick, NICT!wire
<1>4. repeat' \in NICT!Times /\ giveUp' \in NICT!Times /\ absorb' \in NICT!Times
  BY <1>1 DEF NICT!SendRequest, NICT!TimersExecute, NICT!Discard, NICT!Receive,
         NICT!Respond, NICT!Lose, NICT!Tick, NICT!ElapseTimers, NICT!timers, NICT!nictvars,
         NICT!Elapse, NICT!Times, NICT!Off
<1>5. fifo' \in Seq(NICT!Events)
  <2>1. \A r \in NICT!Responses : NICT!EventOf(r) \in NICT!Events
    BY DEF NICT!Responses, NICT!EventOf, NICT!Events, NICT!Transitions
  <2>2. {"SND_REQUEST", "TIMEOUT_E", "TIMEOUT_F", "TIMEOUT_K"} \subseteq NICT!Events
    BY DEF NICT!Events, NICT!Transitions
  <2>3. \/ UNCHANGED fifo
        \/ \E ev \in NICT!Events : fifo' = Append(fifo, ev)
        \/ fifo # <<>> /\ fifo' = Tail(fifo)
    BY <2>1, <2>2 DEF NICT!SendRequest, NICT!TimersExecute, NICT!Discard, NICT!Receive,
         NICT!Respond, NICT!Lose, NICT!Tick, NICT!ElapseTimers, NICT!nictvars, NICT!AddEvent
  <2> QED
    BY <1>1, <2>3, FifoTyped
<1> QED
  BY <1>1, <1>2, <1>3, <1>4, <1>5 DEF NICT!TypeOK

(* The transaction ends, with a timeout or an error if it was waiting.     *)
LEMMA NictEnds ==
  ASSUME NictInv, state # "TERMINATED", state' = "TERMINATED", UNCHANGED final,
         \/ state # "COMPLETED" /\ NICT!Call({"timeout", "kill"})
         \/ state # "COMPLETED" /\ NICT!Call({"error", "kill"})
         \/ state = "COMPLETED" /\ NICT!Call({"kill"})
  PROVE  told' \in [NICT!Callbacks -> 0..2] /\ NICT!OneOutcome'
<1>1. /\ told \in [NICT!Callbacks -> 0..2] /\ told["kill"] = 0
      /\ told["final"] = IF final = "none" THEN 0 ELSE 1
      /\ told["final"] + told["timeout"] + told["error"] = IF state = "COMPLETED" THEN 1 ELSE 0
      /\ NICT!Callbacks = {"final", "timeout", "error", "kill"}
  BY DEF NictInv, NICT!TypeOK, NICT!OneOutcome, NICT!States, NICT!Callbacks
<1>2. /\ told["final"] \in 0..2 /\ told["timeout"] \in 0..2 /\ told["error"] \in 0..2
  BY <1>1
<1>3. PICK c \in {{"timeout", "kill"}, {"error", "kill"}, {"kill"}} :
        /\ NICT!Call(c) /\ (c = {"kill"} <=> state = "COMPLETED")
  OBVIOUS
<1>4. /\ told' \in [NICT!Callbacks -> 0..2]
      /\ \A k \in NICT!Callbacks : k \notin c => told'[k] = told[k]
      /\ \A k \in NICT!Callbacks : (k \in c /\ told[k] = 0) => told'[k] = 1
  <2>1. told' = [k \in NICT!Callbacks |-> IF k \in c
                                          THEN IF told[k] < 2 THEN told[k] + 1 ELSE told[k]
                                          ELSE told[k]]
    BY <1>3, Zenon DEF NICT!Call, NICT!More
  <2> QED
    BY <1>1, <2>1, Counted, ZenonT(60)
<1>5. state # "COMPLETED" => told["final"] = 0 /\ told["timeout"] = 0 /\ told["error"] = 0
  BY <1>1, <1>2
<1>6. told'["kill"] = 1 /\ told'["final"] = told["final"]
  BY <1>1, <1>3, <1>4
<1>7. told'["timeout"] + told'["error"] + told'["final"] = 1
  BY <1>1, <1>2, <1>3, <1>4, <1>5
<1>8. told'["final"] \in 0..2 /\ told'["timeout"] \in 0..2 /\ told'["error"] \in 0..2
  BY <1>1, <1>4
<1> QED
  BY <1>1, <1>4, <1>6, <1>7, <1>8 DEF NICT!OneOutcome

(* The requests that leave.                                                *)
LEMMA NictSends ==
  ASSUME NICT!TypeOK, NEW i, NICT!Send(i)
  PROVE  sent' \in Nat /\ toServer' \subseteq {"REQUEST"} /\ toClient' \subseteq NICT!Responses
<1>1. sent \in Nat /\ toServer \subseteq {"REQUEST"} /\ toClient \subseteq NICT!Responses
  BY DEF NICT!TypeOK
<1>2. /\ toServer' = toServer \cup {"REQUEST"} \/ toServer' = toServer
      /\ toClient' = toClient /\ (sent' = sent \/ sent' = sent + 1)
  BY DEF NICT!Send, NICT!wire
<1>3. sent' \in Nat
  BY <1>1, <1>2
<1>4. toServer' \subseteq {"REQUEST"}
  BY <1>1, <1>2
<1> QED
  BY <1>1, <1>2, <1>3, <1>4

(* The length of timer E is never anything else than a length.             *)
LEMMA NictRuns ==
  ASSUME NICT!TypeOK, NEW i, NEW l \in NICT!Lengths, NICT!RunE(i, l)
  PROVE  repeat' \in NICT!Times /\ length' \in NICT!Lengths
BY DEF NICT!RunE, NICT!Started, NICT!Lengths, NICT!Times, NICT!Off, NICT!Negative

(* Every handler of an event leaves a fifo.                                *)
LEMMA NictHandles ==
  ASSUME NICT!TypeOK, NEW ev, NICT!Handle(ev)
  PROVE  fifo' \in Seq(NICT!Events)
BY FifoTyped DEF NICT!TypeOK, NICT!Handle

(* The request is sent, or sent again.                                     *)
LEMMA NictRequests ==
  ASSUME NictInv, NICT!nict_snd_request \/ NICT!osip_nict_timeout_e_event
  PROVE  NictInv' /\ NICT!SendsWhileWaiting
<1>1. /\ fifo' \in Seq(NICT!Events) /\ state \in {"PRE_TRYING"} \cup NICT!Waiting
      /\ UNCHANGED <<reliable, giveUp, absorb, final>>
  <2>1. \E ev \in {"SND_REQUEST", "TIMEOUT_E"} :
          NICT!Handle(ev) /\ state \in {"PRE_TRYING"} \cup NICT!Waiting
    BY DEF NICT!nict_snd_request, NICT!osip_nict_timeout_e_event, NICT!Handle,
           NICT!Transitions
  <2> QED
    BY <2>1, NictHandles DEF NictInv, NICT!nict_snd_request, NICT!osip_nict_timeout_e_event
<1>2. PICK i \in NICT!SendResults :
        /\ NICT!Send(i)
        /\ \/ UNCHANGED <<repeat, length>>
           \/ \E l \in NICT!Lengths : NICT!RunE(i, l)
        /\ IF i = "error" THEN NICT!HandleTransportError
           ELSE UNCHANGED told /\ state' \in {"TRYING", state}
  <2>1. NICT!DoubledUpToT2(length) \in NICT!Lengths /\ T2 \in NICT!Lengths /\ length \in NICT!Lengths
    BY TimerAssumption DEF NictInv, NICT!TypeOK, NICT!Lengths, NICT!Times, NICT!Off,
       NICT!Negative, NICT!DoubledUpToT2, NICT!Doubled
  <2> QED
    BY <2>1 DEF NICT!nict_snd_request, NICT!osip_nict_timeout_e_event
<1>3. /\ sent' \in Nat /\ toServer' \subseteq {"REQUEST"} /\ toClient' \subseteq NICT!Responses
      /\ repeat' \in NICT!Times /\ length' \in NICT!Lengths
  BY <1>2, NictSends, NictRuns DEF NictInv, NICT!TypeOK
<1>4. final = "none" /\ NICT!SendsWhileWaiting
  <2>1. told["final"] + told["timeout"] + told["error"] = 0 /\ told \in [NICT!Callbacks -> 0..2]
    BY <1>1 DEF NictInv, NICT!TypeOK, NICT!OneOutcome, NICT!Waiting
  <2>2. told["final"] \in 0..2 /\ told["timeout"] \in 0..2 /\ told["error"] \in 0..2
    BY <2>1 DEF NICT!Callbacks
  <2>3. told["final"] = 0
    BY <2>1, <2>2
  <2> QED
    BY <1>1, <2>3 DEF NictInv, NICT!OneOutcome, NICT!SendsWhileWaiting
<1>5. state' \in NICT!States /\ told' \in [NICT!Callbacks -> 0..2] /\ NICT!OneOutcome'
  <2>1. CASE i = "error"
    BY <1>1, <1>2, <2>1, NictEnds DEF NICT!HandleTransportError, NICT!Waiting, NICT!States
  <2>2. CASE i # "error"
    BY <1>1, <1>2, <2>2 DEF NictInv, NICT!TypeOK, NICT!OneOutcome, NICT!Waiting, NICT!States
  <2> QED
    BY <2>1, <2>2
<1> QED
  BY <1>1, <1>3, <1>4, <1>5 DEF NictInv, NICT!TypeOK

(* Timers F and K end the transaction.                                     *)
LEMMA NictTimesOut ==
  ASSUME NictInv, NICT!osip_nict_timeout_f_event \/ NICT!osip_nict_timeout_k_event
  PROVE  NictInv' /\ NICT!SendsWhileWaiting
<1>1. \E ev \in {"TIMEOUT_F", "TIMEOUT_K"} : NICT!Handle(ev)
  BY DEF NICT!osip_nict_timeout_f_event, NICT!osip_nict_timeout_k_event
<1>2. fifo' \in Seq(NICT!Events)
  BY <1>1, NictHandles DEF NictInv
<1>3. /\ UNCHANGED <<reliable, repeat, length, final, sent, toServer, toClient>>
      /\ giveUp' \in {giveUp, NICT!Off} /\ absorb' \in {absorb, NICT!Off}
      /\ state' = "TERMINATED"
  BY DEF NICT!osip_nict_timeout_f_event, NICT!osip_nict_timeout_k_event, NICT!wire
<1>4. told' \in [NICT!Callbacks -> 0..2] /\ NICT!OneOutcome'
  BY <1>3, NictEnds DEF NICT!osip_nict_timeout_f_event, NICT!osip_nict_timeout_k_event,
       NICT!Handle, NICT!Transitions, NICT!Waiting
<1> QED
  BY <1>2, <1>3, <1>4 DEF NictInv, NICT!TypeOK, NICT!States, NICT!Times, NICT!Off,
     NICT!SendsWhileWaiting

(* A provisional answer, and the final one.                                *)
LEMMA NictAnswered ==
  ASSUME NictInv, NICT!nict_rcv_1xx \/ NICT!nict_rcv_23456xx
  PROVE  NictInv' /\ NICT!SendsWhileWaiting
<1>1. \E ev \in {"RCV_1XX", "RCV_2XX", "RCV_3456XX"} : NICT!Handle(ev)
  BY DEF NICT!nict_rcv_1xx, NICT!nict_rcv_23456xx
<1>2. fifo' \in Seq(NICT!Events) /\ state \in NICT!Waiting
  BY <1>1, NictHandles DEF NictInv, NICT!Handle, NICT!Transitions
<1>3. UNCHANGED <<reliable, repeat, length, giveUp, sent, toServer, toClient>>
  BY DEF NICT!nict_rcv_1xx, NICT!nict_rcv_23456xx, NICT!wire, NICT!timers
<1>4. absorb' \in NICT!Times
  BY TimerAssumption DEF NICT!nict_rcv_1xx, NICT!nict_rcv_23456xx, NICT!timers, NictInv,
       NICT!TypeOK, NICT!LengthOfK, NICT!Times
<1>5. /\ told \in [NICT!Callbacks -> 0..2] /\ told["final"] = 0 /\ told["timeout"] = 0
      /\ told["error"] = 0 /\ told["kill"] = 0 /\ final = "none"
  <2>1. /\ told["final"] + told["timeout"] + told["error"] = 0 /\ told \in [NICT!Callbacks -> 0..2]
        /\ told["kill"] = 0
    BY <1>2 DEF NictInv, NICT!TypeOK, NICT!OneOutcome, NICT!Waiting
  <2>2. told["final"] \in 0..2 /\ told["timeout"] \in 0..2 /\ told["error"] \in 0..2
    BY <2>1 DEF NICT!Callbacks
  <2> QED
    BY <2>1, <2>2 DEF NictInv, NICT!OneOutcome
<1>6. CASE NICT!nict_rcv_1xx
  <2>1. state' = "PROCEEDING" /\ UNCHANGED <<told, final>>
    BY <1>6 DEF NICT!nict_rcv_1xx
  <2> QED
    BY <1>2, <1>3, <1>4, <1>5, <2>1 DEF NictInv, NICT!TypeOK, NICT!OneOutcome, NICT!States,
       NICT!SendsWhileWaiting
<1>7. CASE NICT!nict_rcv_23456xx
  <2>1. state' = "COMPLETED" /\ NICT!Call({"final"}) /\ final' \in {"2XX", "3456XX"}
    BY <1>7 DEF NICT!nict_rcv_23456xx
  <2>2. /\ told' \in [NICT!Callbacks -> 0..2]
        /\ \A k \in NICT!Callbacks : k \notin {"final"} => told'[k] = told[k]
        /\ \A k \in NICT!Callbacks : (k \in {"final"} /\ told[k] = 0) => told'[k] = 1
    BY <1>5, <2>1, Counted DEF NICT!Call, NICT!More
  <2>3. told'["final"] = 1 /\ told'["timeout"] = 0 /\ told'["error"] = 0 /\ told'["kill"] = 0
    BY <1>5, <2>2 DEF NICT!Callbacks
  <2> QED
    BY <1>2, <1>3, <1>4, <1>5, <2>1, <2>2, <2>3 DEF NictInv, NICT!TypeOK, NICT!OneOutcome,
       NICT!States, NICT!SendsWhileWaiting
<1> QED
  BY <1>6, <1>7

(* Every step of the client and of those it meets.                         *)
LEMMA NictStep ==
  ASSUME NictInv, NICT!Next PROVE NictInv' /\ NICT!SendsWhileWaiting
<1>1. CASE \/ NICT!SendRequest \/ NICT!TimersExecute \/ NICT!Discard
           \/ \E r \in NICT!Responses, copy \in BOOLEAN : NICT!Receive(r, copy)
           \/ \E r \in NICT!Responses : NICT!Respond(r)
           \/ \E m \in toServer \cup toClient : NICT!Lose(m)
           \/ NICT!Tick
  BY <1>1, NictQueues DEF NictInv, NICT!OneOutcome, NICT!SendsWhileWaiting
<1> QED
  BY <1>1, NictRequests, NictTimesOut, NictAnswered DEF NICT!Next, NICT!NictNext, NICT!Execute

-----------------------------------------------------------------------------
(* The non-INVITE server transaction.  Before its final answer only        *)
(* provisional ones were kept, and no error was told of before the end.    *)
NistInv ==
  /\ NIST!TypeOK /\ NIST!OneFinalAnswer /\ NIST!ToldOnce
  /\ state \in {"NONE", "PRE_TRYING", "TRYING", "PROCEEDING"} => response \in {"none", "1XX"}
  /\ state # "TERMINATED" => told["error"] = 0

(* The steps that no handler makes: the timers, the fifo and the wire.     *)
LEMMA NistQueues ==
  ASSUME NistInv,
         \/ \E copy \in BOOLEAN : NIST!Receive(copy)
         \/ \E r \in NIST!Answers : NIST!Answer(r)
         \/ NIST!TimersExecute \/ NIST!Discard \/ NIST!Request \/ NIST!Tick
         \/ \E m \in toServer \cup toClient : NIST!Lose(m)
  PROVE  NistInv' /\ toClient' \subseteq toClient
<1>1. /\ fifo \in Seq(NIST!Events) /\ toServer \subseteq {"REQUEST"}
      /\ toClient \subseteq NIST!Answers /\ absorb \in NIST!Times
  BY DEF NistInv, NIST!TypeOK
<1>2. UNCHANGED <<reliable, state, response, told, finals, sessions>>
  BY DEF NIST!Receive, NIST!Answer, NIST!TimersExecute, NIST!Discard, NIST!Request,
         NIST!Lose, NIST!Tick, NIST!ElapseTimers, NIST!nistvars
<1>3. toServer' \subseteq {"REQUEST"} /\ toClient' \subseteq toClient
  BY <1>1 DEF NIST!Receive, NIST!Arrives, NIST!Answer, NIST!TimersExecute, NIST!Discard,
         NIST!Request, NIST!Lose, NIST!Tick, NIST!wire
<1>4. absorb' \in NIST!Times /\ (absorb' # NIST!Off <=> absorb # NIST!Off)
  BY <1>1 DEF NIST!Receive, NIST!Answer, NIST!TimersExecute, NIST!Discard,
         NIST!Request, NIST!Lose, NIST!Tick, NIST!ElapseTimers, NIST!nistvars,
         NIST!Elapse, NIST!Times, NIST!Off
<1>5. fifo' \in Seq(NIST!Events)
  <2>1. \A r \in NIST!Answers : NIST!EventOf(r) \in NIST!Events
    BY DEF NIST!Answers, NIST!EventOf, NIST!Events, NIST!Transitions
  <2>2. {"RCV_REQUEST", "TIMEOUT_J"} \subseteq NIST!Events
    BY DEF NIST!Events, NIST!Transitions
  <2>3. \/ UNCHANGED fifo
        \/ \E ev \in NIST!Events : fifo' = Append(fifo, ev)
        \/ fifo # <<>> /\ fifo' = Tail(fifo)
    BY <2>1, <2>2 DEF NIST!Receive, NIST!Answer, NIST!TimersExecute, NIST!Discard,
         NIST!Request, NIST!Lose, NIST!Tick, NIST!ElapseTimers, NIST!nistvars, NIST!AddEvent
  <2> QED
    BY <1>1, <2>3, FifoTyped
<1> QED
  BY <1>1, <1>2, <1>3, <1>4, <1>5 DEF NistInv, NIST!TypeOK, NIST!OneFinalAnswer, NIST!ToldOnce

(* A request that finds no transaction makes one.                          *)
LEMMA NistCreates ==
  ASSUME NistInv, NEW copy \in BOOLEAN, NIST!Create(copy)
  PROVE  NistInv' /\ NIST!RepeatsOrSilent
<1>1. /\ state' = "PRE_TRYING" /\ absorb' = NIST!Off /\ fifo' = <<"RCV_REQUEST">>
      /\ response' = "none" /\ told' = [c \in NIST!Callbacks |-> 0] /\ finals' = {}
      /\ sessions' = sessions + 1 /\ sessions < MaxSessions /\ UNCHANGED reliable
      /\ toServer' \subseteq toServer /\ toClient' = toClient
  BY DEF NIST!Create, NIST!Arrives
<1>2. fifo' \in Seq(NIST!Events)
  BY <1>1 DEF NIST!Events, NIST!Transitions
<1>3. sessions' \in 0..MaxSessions
  BY <1>1, TransactionAssumption DEF NistInv, NIST!TypeOK
<1>4. \A c \in NIST!Callbacks : told'[c] = 0
  BY <1>1
<1>5. told' \in [NIST!Callbacks -> 0..1]
  BY <1>1
<1> QED
  BY <1>1, <1>2, <1>3, <1>4, <1>5 DEF NistInv, NIST!TypeOK, NIST!OneFinalAnswer, NIST!ToldOnce,
     NIST!States, NIST!Callbacks, NIST!Times, NIST!Off, NIST!RepeatsOrSilent

(* What every handler takes from the fifo.                                 *)
LEMMA NistHandles ==
  ASSUME NistInv, NEW ev, NIST!Handle(ev)
  PROVE  fifo' \in Seq(NIST!Events)
BY FifoTyped DEF NistInv, NIST!TypeOK, NIST!Handle

(* Calls of callbacks.                                                     *)
LEMMA NistCalls ==
  ASSUME NistInv, NEW cs \in {{"request"}, {"error", "kill"}, {"kill"}}, NIST!Call(cs),
         \A c \in cs : told[c] = 0
  PROVE  /\ told' \in [NIST!Callbacks -> 0..1]
         /\ \A c \in NIST!Callbacks : told'[c] = IF c \in cs THEN 1 ELSE told[c]
<1>1. told \in [NIST!Callbacks -> 0..1]
  BY DEF NistInv, NIST!TypeOK
<1>2. told \in [NIST!Callbacks -> 0..2]
  BY <1>1
<1>3. /\ told' \in [NIST!Callbacks -> 0..2]
      /\ \A c \in NIST!Callbacks : c \notin cs => told'[c] = told[c]
      /\ \A c \in NIST!Callbacks : (c \in cs /\ told[c] = 0) => told'[c] = 1
  BY <1>2, Counted DEF NIST!Call, NIST!More
<1>4. \A c \in NIST!Callbacks : told'[c] = IF c \in cs THEN 1 ELSE told[c]
  BY <1>3
<1> QED
  BY <1>1, <1>3, <1>4

(* A response that cannot be sent ends the transaction.                    *)
LEMMA NistFails ==
  ASSUME NistInv, NIST!NotSent, state \notin {"NONE", "PRE_TRYING", "TERMINATED"},
         fifo' \in Seq(NIST!Events), response' \in NIST!Answers \cup {"none"},
         UNCHANGED <<reliable, absorb, sessions>>
  PROVE  NistInv' /\ toClient' = toClient
<1>1. NIST!Call({"error", "kill"}) /\ state' = "TERMINATED" /\ UNCHANGED <<finals, toServer, toClient>>
  BY DEF NIST!NotSent, NIST!HandleTransportError, NIST!wire
<1>2. told["error"] = 0 /\ told["kill"] = 0 /\ told["request"] = 1
  BY DEF NistInv, NIST!ToldOnce
<1>3. /\ told' \in [NIST!Callbacks -> 0..1]
      /\ \A c \in NIST!Callbacks : told'[c] = IF c \in {"error", "kill"} THEN 1 ELSE told[c]
  BY <1>1, <1>2, NistCalls
<1>4. told'["request"] = 1 /\ told'["error"] = 1 /\ told'["kill"] = 1
  BY <1>2, <1>3 DEF NIST!Callbacks
<1> QED
  BY <1>1, <1>3, <1>4 DEF NistInv, NIST!TypeOK, NIST!OneFinalAnswer, NIST!ToldOnce, NIST!States

(* The request arrives, for the first time or again.                       *)
LEMMA NistReceives ==
  ASSUME NistInv, NIST!nist_rcv_request \/ NIST!nist_rcv_request_again
  PROVE  NistInv' /\ NIST!RepeatsOrSilent
<1>1. fifo' \in Seq(NIST!Events)
  BY NistHandles DEF NIST!nist_rcv_request, NIST!nist_rcv_request_again
<1>2. CASE NIST!nist_rcv_request
  <2>1. /\ state = "PRE_TRYING" /\ state' = "TRYING" /\ NIST!Call({"request"})
        /\ UNCHANGED <<reliable, absorb, response, finals, sessions, toServer, toClient>>
    BY <1>2 DEF NIST!nist_rcv_request, NIST!wire
  <2>2. told["request"] = 0 /\ told["kill"] = 0 /\ told["error"] = 0
    BY <2>1 DEF NistInv, NIST!ToldOnce
  <2>3. /\ told' \in [NIST!Callbacks -> 0..1]
        /\ \A c \in NIST!Callbacks : told'[c] = IF c \in {"request"} THEN 1 ELSE told[c]
    BY <2>1, <2>2, NistCalls
  <2>4. told'["request"] = 1 /\ told'["kill"] = 0 /\ told'["error"] = 0
    BY <2>2, <2>3 DEF NIST!Callbacks
  <2> QED
    BY <1>1, <2>1, <2>3, <2>4 DEF NistInv, NIST!TypeOK, NIST!OneFinalAnswer, NIST!ToldOnce,
       NIST!States, NIST!RepeatsOrSilent
<1>3. CASE NIST!nist_rcv_request_again
  <2>1. state \in {"PROCEEDING", "COMPLETED"} /\ UNCHANGED <<reliable, absorb, response, sessions>>
    BY <1>3 DEF NIST!nist_rcv_request_again, NIST!Handle, NIST!Transitions
  <2>2. CASE NIST!NotSent
    BY <1>1, <2>1, <2>2, NistFails DEF NistInv, NIST!TypeOK, NIST!RepeatsOrSilent
  <2>3. CASE UNCHANGED <<state, told, finals, toServer, toClient>>
    BY <1>1, <2>1, <2>3 DEF NistInv, NIST!TypeOK, NIST!OneFinalAnswer, NIST!ToldOnce,
       NIST!RepeatsOrSilent
  <2>4. CASE response # "none" /\ NIST!Sent(response) /\ UNCHANGED <<state, told>>
    <3>1. finals' = finals
      BY <2>1, <2>4 DEF NIST!Sent, NistInv, NIST!OneFinalAnswer
    <3>2. toClient' = toClient \cup {response} /\ toServer' = toServer
      BY <2>4 DEF NIST!Sent
    <3>3. response \in NIST!Answers
      BY <2>4 DEF NistInv, NIST!TypeOK
    <3> QED
      BY <1>1, <2>1, <2>4, <3>1, <3>2, <3>3 DEF NistInv, NIST!TypeOK, NIST!OneFinalAnswer,
         NIST!ToldOnce, NIST!RepeatsOrSilent
  <2> QED
    BY <1>3, <2>2, <2>3, <2>4 DEF NIST!nist_rcv_request_again, NIST!wire
<1> QED
  BY <1>2, <1>3

(* The user answers.                                                       *)
LEMMA NistAnswers ==
  ASSUME NistInv, NIST!nist_snd_1xx \/ NIST!nist_snd_23456xx
  PROVE  NistInv' /\ NIST!RepeatsOrSilent
<1>1. \E ev : NIST!Handle(ev)
  BY DEF NIST!nist_snd_1xx, NIST!nist_snd_23456xx
<1>2. fifo' \in Seq(NIST!Events) /\ state \in NIST!Open
  BY <1>1, NistHandles DEF NIST!nist_snd_1xx, NIST!nist_snd_23456xx, NIST!Handle,
     NIST!Transitions, NIST!EventOf
<1>3. state \notin {"NONE", "PRE_TRYING", "TERMINATED", "COMPLETED"} /\ NIST!RepeatsOrSilent
  BY <1>2 DEF NIST!Open, NIST!RepeatsOrSilent
<1>4. UNCHANGED <<reliable, sessions>> /\ response' \in NIST!Answers
  BY DEF NIST!nist_snd_1xx, NIST!nist_snd_23456xx, NIST!Answers
<1>5. CASE NIST!NotSent
  <2>1. state' = "TERMINATED"
    BY <1>5 DEF NIST!NotSent, NIST!HandleTransportError
  <2>2. UNCHANGED absorb
    BY <2>1 DEF NIST!nist_snd_1xx, NIST!nist_snd_23456xx
  <2> QED
    BY <1>2, <1>3, <1>4, <1>5, <2>2, NistFails
<1>6. CASE NIST!nist_snd_1xx /\ ~NIST!NotSent
  <2>1. /\ state' = "PROCEEDING" /\ UNCHANGED <<told, absorb>> /\ response' = "1XX"
        /\ toClient' = toClient \cup {"1XX"} /\ finals' = finals /\ UNCHANGED toServer
    BY <1>6 DEF NIST!nist_snd_1xx, NIST!Sent
  <2> QED
    BY <1>2, <1>3, <1>4, <2>1 DEF NistInv, NIST!TypeOK, NIST!OneFinalAnswer, NIST!ToldOnce,
       NIST!States, NIST!Answers, NIST!Open
<1>7. CASE NIST!nist_snd_23456xx /\ ~NIST!NotSent
  <2>1. PICK r \in {"2XX", "3456XX"} :
          /\ state' = "COMPLETED" /\ UNCHANGED told /\ response' = r
          /\ absorb' = NIST!LengthOfJ /\ toClient' = toClient \cup {r}
          /\ finals' = finals \cup {r} /\ UNCHANGED toServer
    BY <1>7 DEF NIST!nist_snd_23456xx, NIST!Sent
  <2>2. finals' = {r}
    BY <1>2, <2>1 DEF NistInv, NIST!OneFinalAnswer, NIST!Open
  <2>3. absorb' \in NIST!Times /\ absorb' # NIST!Off
    BY <2>1, TimerAssumption DEF NIST!LengthOfJ, NIST!Times, NIST!Off
  <2> QED
    BY <1>2, <1>3, <1>4, <2>1, <2>2, <2>3 DEF NistInv, NIST!TypeOK, NIST!OneFinalAnswer,
       NIST!ToldOnce, NIST!States, NIST!Answers, NIST!Open
<1> QED
  BY <1>3, <1>5, <1>6, <1>7

(* Timer J.                                                                *)
LEMMA NistTimesOut ==
  ASSUME NistInv, NIST!osip_nist_timeout_j_event
  PROVE  NistInv' /\ NIST!RepeatsOrSilent
<1>1. /\ NIST!Handle("TIMEOUT_J") /\ absorb' = NIST!Off /\ NIST!Call({"kill"})
      /\ state' = "TERMINATED"
      /\ UNCHANGED <<reliable, response, finals, sessions, toServer, toClient>>
  BY DEF NIST!osip_nist_timeout_j_event, NIST!wire
<1>2. fifo' \in Seq(NIST!Events) /\ state = "COMPLETED"
  BY <1>1, NistHandles DEF NIST!Handle, NIST!Transitions
<1>3. told["request"] = 1 /\ told["kill"] = 0 /\ finals # {}
  BY <1>2 DEF NistInv, NIST!ToldOnce, NIST!OneFinalAnswer
<1>4. /\ told' \in [NIST!Callbacks -> 0..1]
      /\ \A c \in NIST!Callbacks : told'[c] = IF c \in {"kill"} THEN 1 ELSE told[c]
  BY <1>1, <1>3, NistCalls
<1>5. told'["request"] = 1 /\ told'["kill"] = 1
  BY <1>3, <1>4 DEF NIST!Callbacks
<1> QED
  BY <1>1, <1>2, <1>3, <1>4, <1>5 DEF NistInv, NIST!TypeOK, NIST!OneFinalAnswer, NIST!ToldOnce,
     NIST!States, NIST!Times, NIST!Off, NIST!RepeatsOrSilent

(* Every step of the server and of those it meets.                         *)
LEMMA NistStep ==
  ASSUME NistInv, NIST!Next PROVE NistInv' /\ NIST!RepeatsOrSilent
<1>1. CASE \/ \E copy \in BOOLEAN : NIST!Receive(copy)
           \/ \E r \in NIST!Answers : NIST!Answer(r)
           \/ NIST!TimersExecute \/ NIST!Discard \/ NIST!Request \/ NIST!Tick
           \/ \E m \in toServer \cup toClient : NIST!Lose(m)
  BY <1>1, NistQueues DEF NIST!RepeatsOrSilent
<1> QED
  BY <1>1, NistCreates, NistReceives, NistAnswers, NistTimesOut
     DEF NIST!Next, NIST!NistNext, NIST!Execute

-----------------------------------------------------------------------------
(* The INVITE server transaction.  Before the final answer only provisional *)
(* ones were kept; before the ACK none was told of, before the end no      *)
(* error; a transaction without a length for timer G never hears from it.  *)
IstWithoutG ==
  length = IST!Off => /\ repeat = IST!Off
                      /\ \A k \in 1..Len(fifo) : fifo[k] # "TIMEOUT_G"

IstInv ==
  /\ IST!TypeOK /\ IST!OneFinalAnswer /\ IST!ToldOnce /\ IstWithoutG
  /\ state \in {"NONE", "PRE_PROCEEDING", "PROCEEDING"} => response \in {"none", "1XX"}
  /\ state \notin {"CONFIRMED", "TERMINATED"} => told["ack"] = 0
  /\ state # "TERMINATED" => told["error"] = 0

(* Timer G stays silent in the rest of a fifo, and beside any other event.  *)
LEMMA IstFifo ==
  ASSUME fifo \in Seq(IST!Events)
  PROVE  /\ fifo # <<>> =>
              /\ Tail(fifo) \in Seq(IST!Events)
              /\ (\A k \in 1..Len(fifo) : fifo[k] # "TIMEOUT_G") =>
                   \A k \in 1..Len(Tail(fifo)) : Tail(fifo)[k] # "TIMEOUT_G"
         /\ \A ev \in IST!Events \ {"TIMEOUT_G"} :
              /\ Append(fifo, ev) \in Seq(IST!Events)
              /\ (\A k \in 1..Len(fifo) : fifo[k] # "TIMEOUT_G") =>
                   \A k \in 1..Len(Append(fifo, ev)) : Append(fifo, ev)[k] # "TIMEOUT_G"
<1>1. ASSUME fifo # <<>>
      PROVE  /\ Tail(fifo) \in Seq(IST!Events)
             /\ (\A k \in 1..Len(fifo) : fifo[k] # "TIMEOUT_G") =>
                  \A k \in 1..Len(Tail(fifo)) : Tail(fifo)[k] # "TIMEOUT_G"
  <2>1. /\ Tail(fifo) \in Seq(IST!Events) /\ Len(Tail(fifo)) = Len(fifo) - 1
        /\ \A k \in 1..Len(Tail(fifo)) : Tail(fifo)[k] = fifo[k + 1]
    BY <1>1, HeadTailProperties
  <2>2. Len(fifo) \in Nat
    BY LenProperties
  <2> QED
    BY <2>1, <2>2
<1>2. ASSUME NEW ev \in IST!Events \ {"TIMEOUT_G"}
      PROVE  /\ Append(fifo, ev) \in Seq(IST!Events)
             /\ (\A k \in 1..Len(fifo) : fifo[k] # "TIMEOUT_G") =>
                  \A k \in 1..Len(Append(fifo, ev)) : Append(fifo, ev)[k] # "TIMEOUT_G"
  <2>1. /\ Append(fifo, ev) \in Seq(IST!Events) /\ Len(Append(fifo, ev)) = Len(fifo) + 1
        /\ \A k \in 1..Len(fifo) : Append(fifo, ev)[k] = fifo[k]
        /\ Append(fifo, ev)[Len(fifo) + 1] = ev
    BY <1>2, AppendProperties
  <2>2. Len(fifo) \in Nat
    BY LenProperties
  <2> QED
    BY <2>1, <2>2
<1> QED
  BY <1>1, <1>2

(* The steps that no handler makes: the timers, the fifo and the wire.     *)
LEMMA IstQueues ==
  ASSUME IstInv,
         \/ \E m \in {"INVITE", "ACK"}, copy \in BOOLEAN : IST!Receive(m, copy)
         \/ \E r \in IST!Answers : IST!Answer(r)
         \/ IST!TimersExecute \/ IST!Discard \/ IST!Tick
         \/ \E m \in {"INVITE", "ACK"} : IST!Request(m)
         \/ \E m \in toServer \cup toClient : IST!Lose(m)
  PROVE  IstInv' /\ toClient' \subseteq toClient
<1>1. /\ fifo \in Seq(IST!Events) /\ toServer \subseteq {"INVITE", "ACK"}
      /\ toClient \subseteq IST!Answers /\ repeat \in IST!Times
      /\ giveUp \in IST!Times /\ absorb \in IST!Times
  BY DEF IstInv, IST!TypeOK
<1>2. UNCHANGED <<reliable, state, length, response, told, finals, sessions>>
  BY DEF IST!Receive, IST!Answer, IST!TimersExecute, IST!Discard, IST!Request,
         IST!Lose, IST!Tick, IST!ElapseTimers, IST!istvars, IST!timers
<1>3. toServer' \subseteq {"INVITE", "ACK"} /\ toClient' \subseteq toClient
  BY <1>1 DEF IST!Receive, IST!Arrives, IST!Answer, IST!TimersExecute, IST!Discard,
         IST!Request, IST!Lose, IST!Tick, IST!wire
<1>4. /\ repeat' \in IST!Times /\ giveUp' \in IST!Times /\ absorb' \in IST!Times
      /\ repeat = IST!Off => repeat' = IST!Off
  BY <1>1 DEF IST!Receive, IST!Answer, IST!TimersExecute, IST!Discard,
         IST!Request, IST!Lose, IST!Tick, IST!ElapseTimers, IST!istvars, IST!timers,
         IST!Elapse, IST!Times, IST!Off
<1>5. fifo' \in Seq(IST!Events) /\ IstWithoutG'
  <2>1. \A r \in IST!Answers : IST!EventOf(r) \in IST!Events \ {"TIMEOUT_G"}
    BY DEF IST!Answers, IST!EventOf, IST!Events, IST!Transitions
  <2>2. {"RCV_REQINVITE", "RCV_REQACK", "TIMEOUT_G", "TIMEOUT_H", "TIMEOUT_I"} \subseteq IST!Events
    BY DEF IST!Events, IST!Transitions
  <2>3. \/ UNCHANGED fifo
        \/ \E ev \in IST!Events \ {"TIMEOUT_G"} : fifo' = Append(fifo, ev)
        \/ fifo' = Append(fifo, "TIMEOUT_G") /\ repeat # IST!Off
        \/ fifo # <<>> /\ fifo' = Tail(fifo)
    BY <2>1, <2>2 DEF IST!Receive, IST!Answer, IST!TimersExecute, IST!Discard,
         IST!Request, IST!Lose, IST!Tick, IST!ElapseTimers, IST!istvars, IST!AddEvent,
         IST!Due, IST!Off
  <2>4. Append(fifo, "TIMEOUT_G") \in Seq(IST!Events)
    BY <1>1, <2>2
  <2> QED
    BY <1>1, <1>2, <1>4, <2>3, <2>4, IstFifo DEF IstInv, IstWithoutG
<1> QED
  BY <1>1, <1>2, <1>3, <1>4, <1>5 DEF IstInv, IST!TypeOK, IST!OneFinalAnswer, IST!ToldOnce

(* An INVITE that finds no transaction makes one.                          *)
LEMMA IstCreates ==
  ASSUME IstInv, NEW copy \in BOOLEAN, IST!Create(copy)
  PROVE  IstInv' /\ toClient' = toClient
<1>1. /\ state' = "PRE_PROCEEDING" /\ repeat' = IST!Off /\ giveUp' = IST!Off
      /\ absorb' = IST!Off /\ fifo' = <<"RCV_REQINVITE">>
      /\ length' = (IF reliable THEN IST!Off ELSE T1)
      /\ response' = "none" /\ told' = [c \in IST!Callbacks |-> 0] /\ finals' = {}
      /\ sessions' = sessions + 1 /\ sessions < MaxSessions /\ UNCHANGED reliable
      /\ toServer' \subseteq toServer /\ toClient' = toClient
  BY DEF IST!Create, IST!Arrives
<1>2. fifo' \in Seq(IST!Events) /\ IstWithoutG'
  BY <1>1 DEF IST!Events, IST!Transitions, IstWithoutG
<1>3. sessions' \in 0..MaxSessions
  BY <1>1, TransactionAssumption DEF IstInv, IST!TypeOK
<1>4. told' \in [IST!Callbacks -> 0..2] /\ \A c \in IST!Callbacks : told'[c] = 0
  BY <1>1
<1>5. length' \in IST!Times
  BY <1>1, TimerAssumption DEF IST!Times
<1> QED
  BY <1>1, <1>2, <1>3, <1>4, <1>5 DEF IstInv, IST!TypeOK, IST!OneFinalAnswer, IST!ToldOnce,
     IST!States, IST!Callbacks, IST!Times, IST!Off

(* What every handler takes from the fifo.                                 *)
LEMMA IstHandles ==
  ASSUME IstInv, NEW ev, IST!Handle(ev)
  PROVE  /\ fifo' \in Seq(IST!Events)
         /\ length = IST!Off => /\ ev # "TIMEOUT_G"
                                /\ \A k \in 1..Len(fifo') : fifo'[k] # "TIMEOUT_G"
<1>1. fifo \in Seq(IST!Events) /\ fifo # <<>> /\ Head(fifo) = ev /\ fifo' = Tail(fifo)
  BY DEF IstInv, IST!TypeOK, IST!Handle
<1>2. Head(fifo) = fifo[1] /\ 1 \in 1..Len(fifo)
  BY <1>1, HeadTailProperties, LenProperties, EmptySeq
<1> QED
  BY <1>1, <1>2, IstFifo DEF IstInv, IstWithoutG

(* Calls of callbacks that were not called before.                         *)
LEMMA IstCalls ==
  ASSUME IstInv, NEW cs \in {{"invite"}, {"ack"}, {"error", "kill"}, {"kill"}}, IST!Call(cs),
         \A c \in cs : told[c] = 0
  PROVE  /\ told' \in [IST!Callbacks -> 0..2]
         /\ \A c \in IST!Callbacks : told'[c] = IF c \in cs THEN 1 ELSE told[c]
<1>1. told \in [IST!Callbacks -> 0..2]
  BY DEF IstInv, IST!TypeOK
<1>2. /\ told' \in [IST!Callbacks -> 0..2]
      /\ \A c \in IST!Callbacks : c \notin cs => told'[c] = told[c]
      /\ \A c \in IST!Callbacks : (c \in cs /\ told[c] = 0) => told'[c] = 1
  BY <1>1, Counted DEF IST!Call, IST!More
<1> QED
  BY <1>2

(* A response that cannot be sent ends the transaction.                    *)
LEMMA IstFails ==
  ASSUME IstInv, IST!NotSent, state \in {"PROCEEDING", "COMPLETED"}, IstWithoutG',
         fifo' \in Seq(IST!Events), response' \in IST!Answers \cup {"none"},
         repeat' \in IST!Times, length' \in IST!Times, giveUp' \in IST!Times,
         absorb' \in IST!Times, UNCHANGED <<reliable, sessions>>
  PROVE  IstInv' /\ toClient' = toClient
<1>1. IST!Call({"error", "kill"}) /\ state' = "TERMINATED" /\ UNCHANGED <<finals, toServer, toClient>>
  BY DEF IST!NotSent, IST!HandleTransportError, IST!wire
<1>2. told["error"] = 0 /\ told["kill"] = 0 /\ told["invite"] = 1 /\ told["ack"] = 0
  BY DEF IstInv, IST!ToldOnce
<1>3. /\ told' \in [IST!Callbacks -> 0..2]
      /\ \A c \in IST!Callbacks : told'[c] = IF c \in {"error", "kill"} THEN 1 ELSE told[c]
  BY <1>1, <1>2, IstCalls
<1>4. told'["invite"] = 1 /\ told'["error"] = 1 /\ told'["kill"] = 1 /\ told'["ack"] = 0
  BY <1>2, <1>3 DEF IST!Callbacks
<1> QED
  BY <1>1, <1>3, <1>4 DEF IstInv, IST!TypeOK, IST!OneFinalAnswer, IST!ToldOnce, IST!States

(* A response that was kept is sent again.                                 *)
LEMMA IstRepeats ==
  ASSUME IstInv, state \in {"PROCEEDING", "COMPLETED"}, response # "none",
         IST!Sent(response), UNCHANGED <<state, told, response, reliable, sessions>>,
         fifo' \in Seq(IST!Events), IstWithoutG',
         repeat' \in IST!Times, length' \in IST!Times, giveUp' \in IST!Times,
         absorb' \in IST!Times
  PROVE  IstInv'
<1>1. response \in IST!Answers
  BY DEF IstInv, IST!TypeOK
<1>2. /\ toClient' = toClient \cup {response} /\ UNCHANGED toServer
      /\ finals' = finals
  BY <1>1 DEF IST!Sent, IstInv, IST!OneFinalAnswer
<1> QED
  BY <1>1, <1>2 DEF IstInv, IST!TypeOK, IST!OneFinalAnswer, IST!ToldOnce

(* The INVITE arrives, for the first time or again.                        *)
LEMMA IstReceives ==
  ASSUME IstInv, IST!ist_rcv_invite \/ IST!ist_rcv_invite_again
  PROVE  IstInv' /\ IST!StaysSilent
<1>1. /\ IST!Handle("RCV_REQINVITE") /\ state \in {"PRE_PROCEEDING", "PROCEEDING", "COMPLETED"}
      /\ UNCHANGED <<reliable, repeat, length, giveUp, absorb, response, sessions>>
  BY DEF IST!ist_rcv_invite, IST!ist_rcv_invite_again, IST!Handle, IST!Transitions, IST!timers
<1>2. fifo' \in Seq(IST!Events) /\ IstWithoutG'
  BY <1>1, IstHandles DEF IstInv, IstWithoutG
<1>3. CASE IST!ist_rcv_invite
  <2>1. /\ state = "PRE_PROCEEDING" /\ state' = "PROCEEDING" /\ IST!Call({"invite"})
        /\ UNCHANGED <<finals, toServer, toClient>>
    BY <1>3 DEF IST!ist_rcv_invite, IST!wire
  <2>2. told["invite"] = 0 /\ told["kill"] = 0 /\ told["error"] = 0 /\ told["ack"] = 0
    BY <2>1 DEF IstInv, IST!ToldOnce
  <2>3. /\ told' \in [IST!Callbacks -> 0..2]
        /\ \A c \in IST!Callbacks : told'[c] = IF c \in {"invite"} THEN 1 ELSE told[c]
    BY <2>1, <2>2, IstCalls
  <2>4. told'["invite"] = 1 /\ told'["kill"] = 0 /\ told'["error"] = 0 /\ told'["ack"] = 0
    BY <2>2, <2>3 DEF IST!Callbacks
  <2> QED
    BY <1>1, <1>2, <2>1, <2>3, <2>4 DEF IstInv, IST!TypeOK, IST!OneFinalAnswer, IST!ToldOnce,
       IST!States, IST!StaysSilent
<1>4. CASE IST!ist_rcv_invite_again
  <2>1. state \in {"PROCEEDING", "COMPLETED"} /\ IST!StaysSilent
    BY <1>1, <1>4 DEF IST!ist_rcv_invite_again, IST!StaysSilent
  <2>2. /\ repeat' \in IST!Times /\ length' \in IST!Times /\ giveUp' \in IST!Times
        /\ absorb' \in IST!Times /\ response' \in IST!Answers \cup {"none"}
    BY <1>1 DEF IstInv, IST!TypeOK
  <2>3. CASE UNCHANGED <<state, told, finals, toServer, toClient>>
    BY <1>1, <1>2, <2>1, <2>3 DEF IstInv, IST!TypeOK, IST!OneFinalAnswer, IST!ToldOnce
  <2>4. CASE response # "none" /\ IST!Sent(response) /\ UNCHANGED <<state, told>>
    BY <1>1, <1>2, <2>1, <2>2, <2>4, IstRepeats
  <2>5. CASE IST!NotSent
    BY <1>1, <1>2, <2>1, <2>2, <2>5, IstFails
  <2> QED
    BY <1>4, <2>1, <2>3, <2>4, <2>5 DEF IST!ist_rcv_invite_again, IST!wire
<1> QED
  BY <1>3, <1>4

(* Timer G: the failure is sent again, up to every T2.                     *)
LEMMA IstTimesOutG ==
  ASSUME IstInv, IST!osip_ist_timeout_g_event
  PROVE  IstInv' /\ IST!StaysSilent
<1>1. /\ IST!Handle("TIMEOUT_G") /\ state = "COMPLETED"
      /\ repeat' = IST!Started(IST!DoubledUpToT2(length)) /\ length' = IST!DoubledUpToT2(length)
      /\ UNCHANGED <<reliable, giveUp, absorb, response, sessions>>
      /\ (IST!Sent(response) /\ UNCHANGED <<state, told>>) \/ IST!NotSent
  BY DEF IST!osip_ist_timeout_g_event, IST!Handle, IST!Transitions
<1>2. fifo' \in Seq(IST!Events) /\ length \in Nat
  BY <1>1, IstHandles DEF IstInv, IST!TypeOK, IST!Times
<1>3. length' \in Nat /\ repeat' \in Nat
  BY <1>1, <1>2, TimerAssumption DEF IST!Started, IST!DoubledUpToT2, IST!Doubled
<1>4. IstWithoutG' /\ repeat' \in IST!Times /\ length' \in IST!Times
  BY <1>3 DEF IstWithoutG, IST!Off, IST!Times
<1>5. response = "3456XX" /\ giveUp' \in IST!Times /\ absorb' \in IST!Times
  BY <1>1 DEF IstInv, IST!TypeOK, IST!OneFinalAnswer
<1> QED
  BY <1>1, <1>2, <1>4, <1>5, IstRepeats, IstFails DEF IST!StaysSilent, IST!Answers

(* Timers H and I end the transaction.                                     *)
LEMMA IstTimesOut ==
  ASSUME IstInv, IST!osip_ist_timeout_h_event \/ IST!osip_ist_timeout_i_event
  PROVE  IstInv' /\ IST!StaysSilent
<1>1. PICK ev \in {"TIMEOUT_H", "TIMEOUT_I"} : IST!Handle(ev)
  BY DEF IST!osip_ist_timeout_h_event, IST!osip_ist_timeout_i_event
<1>2. /\ UNCHANGED <<reliable, repeat, length, response, finals, sessions, toServer, toClient>>
      /\ giveUp' \in {giveUp, IST!Off} /\ absorb' \in {absorb, IST!Off}
      /\ state' = "TERMINATED" /\ IST!Call({"kill"}) /\ state \in {"COMPLETED", "CONFIRMED"}
  BY DEF IST!osip_ist_timeout_h_event, IST!osip_ist_timeout_i_event, IST!wire, IST!Handle,
         IST!Transitions
<1>3. fifo' \in Seq(IST!Events) /\ IstWithoutG'
  BY <1>1, <1>2, IstHandles DEF IstInv, IstWithoutG
<1>4. told["kill"] = 0 /\ told["invite"] = 1 /\ told["ack"] <= 1 /\ finals = {"3456XX"}
  BY <1>2 DEF IstInv, IST!ToldOnce, IST!OneFinalAnswer
<1>5. /\ told' \in [IST!Callbacks -> 0..2]
      /\ \A c \in IST!Callbacks : told'[c] = IF c \in {"kill"} THEN 1 ELSE told[c]
  BY <1>2, <1>4, IstCalls
<1>6. told'["kill"] = 1 /\ told'["invite"] = 1 /\ told'["ack"] <= 1
  BY <1>4, <1>5 DEF IST!Callbacks
<1> QED
  BY <1>2, <1>3, <1>4, <1>5, <1>6 DEF IstInv, IST!TypeOK, IST!OneFinalAnswer, IST!ToldOnce,
     IST!States, IST!Times, IST!StaysSilent

(* The user answers: a provisional response, a 2xx, a failure.             *)
LEMMA IstAnswers ==
  ASSUME IstInv, IST!ist_snd_1xx \/ IST!ist_snd_2xx \/ IST!ist_snd_3456xx
  PROVE  IstInv' /\ IST!StaysSilent
<1>1. PICK ev \in {"SND_1XX", "SND_2XX", "SND_3456XX"} : IST!Handle(ev)
  BY DEF IST!ist_snd_1xx, IST!ist_snd_2xx, IST!ist_snd_3456xx
<1>2. /\ state = "PROCEEDING" /\ IST!StaysSilent
      /\ UNCHANGED <<reliable, length, absorb, sessions>> /\ response' \in IST!Answers
  BY <1>1 DEF IST!ist_snd_1xx, IST!ist_snd_2xx, IST!ist_snd_3456xx, IST!Handle,
     IST!Transitions, IST!timers, IST!Answers, IST!StaysSilent
<1>3. /\ repeat' \in {repeat, length} /\ giveUp' \in {giveUp, Timeout}
      /\ repeat' \in IST!Times /\ length' \in IST!Times /\ giveUp' \in IST!Times
      /\ absorb' \in IST!Times
  BY <1>2, TimerAssumption DEF IST!ist_snd_1xx, IST!ist_snd_2xx, IST!ist_snd_3456xx,
     IST!timers, IST!LengthOfG, IST!LengthOfH, IstInv, IST!TypeOK, IST!Times
<1>4. fifo' \in Seq(IST!Events) /\ IstWithoutG'
  BY <1>1, <1>2, <1>3, IstHandles DEF IstInv, IstWithoutG
<1>5. finals = {} /\ told["invite"] = 1 /\ told["kill"] = 0 /\ told["ack"] = 0 /\ told["error"] = 0
  BY <1>2 DEF IstInv, IST!OneFinalAnswer, IST!ToldOnce
<1>6. CASE IST!NotSent
  BY <1>2, <1>3, <1>4, <1>6, IstFails
<1>7. CASE IST!ist_snd_1xx /\ ~IST!NotSent
  <2>1. /\ response' = "1XX" /\ UNCHANGED <<state, told, toServer>> /\ finals' = finals
        /\ toClient' = toClient \cup {"1XX"}
    BY <1>7 DEF IST!ist_snd_1xx, IST!Sent
  <2> QED
    BY <1>2, <1>3, <1>4, <2>1 DEF IstInv, IST!TypeOK, IST!OneFinalAnswer, IST!ToldOnce,
       IST!Answers
<1>8. CASE IST!ist_snd_2xx /\ ~IST!NotSent
  <2>1. /\ response' = "2XX" /\ state' = "TERMINATED" /\ IST!Call({"kill"})
        /\ finals' = {"2XX"} /\ toClient' = toClient \cup {"2XX"} /\ UNCHANGED toServer
    BY <1>5, <1>8 DEF IST!ist_snd_2xx, IST!Sent
  <2>2. /\ told' \in [IST!Callbacks -> 0..2]
        /\ \A c \in IST!Callbacks : told'[c] = IF c \in {"kill"} THEN 1 ELSE told[c]
    BY <1>5, <2>1, IstCalls
  <2>3. told'["kill"] = 1 /\ told'["invite"] = 1 /\ told'["ack"] = 0
    BY <1>5, <2>2 DEF IST!Callbacks
  <2> QED
    BY <1>2, <1>3, <1>4, <2>1, <2>2, <2>3 DEF IstInv, IST!TypeOK, IST!OneFinalAnswer,
       IST!ToldOnce, IST!States, IST!Answers
<1>9. CASE IST!ist_snd_3456xx /\ ~IST!NotSent
  <2>1. /\ response' = "3456XX" /\ state' = "COMPLETED" /\ UNCHANGED <<told, toServer>>
        /\ finals' = {"3456XX"} /\ toClient' = toClient \cup {"3456XX"}
    BY <1>5, <1>9 DEF IST!ist_snd_3456xx, IST!Sent
  <2> QED
    BY <1>2, <1>3, <1>4, <1>5, <2>1 DEF IstInv, IST!TypeOK, IST!OneFinalAnswer, IST!ToldOnce,
       IST!States, IST!Answers
<1> QED
  BY <1>2, <1>6, <1>7, <1>8, <1>9

(* An ACK, the first or a copy.                                            *)
LEMMA IstAcks ==
  ASSUME IstInv, IST!ist_rcv_ack
  PROVE  IstInv' /\ IST!StaysSilent
<1>1. /\ IST!Handle("RCV_REQACK") /\ state \in {"COMPLETED", "CONFIRMED"}
      /\ IF state = "COMPLETED" THEN IST!Call({"ack"}) ELSE UNCHANGED told
      /\ absorb' = IST!LengthOfI /\ state' = "CONFIRMED"
      /\ UNCHANGED <<reliable, repeat, length, giveUp, response, finals, sessions, toServer, toClient>>
  BY DEF IST!ist_rcv_ack, IST!wire, IST!Handle, IST!Transitions
<1>2. fifo' \in Seq(IST!Events) /\ IstWithoutG'
  BY <1>1, IstHandles DEF IstInv, IstWithoutG
<1>3. absorb' \in IST!Times
  BY <1>1, TimerAssumption DEF IST!LengthOfI, IST!Times
<1>4. told["kill"] = 0 /\ told["invite"] = 1 /\ told["error"] = 0
  BY <1>1 DEF IstInv, IST!ToldOnce
<1>5. /\ told' \in [IST!Callbacks -> 0..2]
      /\ told'["kill"] = 0 /\ told'["invite"] = 1 /\ told'["error"] = 0 /\ told'["ack"] = 1
  <2>1. CASE state = "COMPLETED"
    <3>1. told["ack"] = 0
      BY <2>1 DEF IstInv
    <3>2. /\ told' \in [IST!Callbacks -> 0..2]
          /\ \A c \in IST!Callbacks : told'[c] = IF c \in {"ack"} THEN 1 ELSE told[c]
      BY <1>1, <2>1, <3>1, IstCalls
    <3> QED
      BY <1>4, <3>2 DEF IST!Callbacks
  <2>2. CASE state = "CONFIRMED"
    BY <1>1, <1>4, <2>2 DEF IstInv, IST!TypeOK, IST!ToldOnce
  <2> QED
    BY <1>1, <2>1, <2>2
<1> QED
  BY <1>1, <1>2, <1>3, <1>5 DEF IstInv, IST!TypeOK, IST!OneFinalAnswer, IST!ToldOnce,
     IST!States, IST!StaysSilent

(* Every step of the server and of those it meets.                         *)
LEMMA IstStep ==
  ASSUME IstInv, IST!Next PROVE IstInv' /\ IST!StaysSilent
<1>1. CASE \/ \E m \in {"INVITE", "ACK"}, copy \in BOOLEAN : IST!Receive(m, copy)
           \/ \E r \in IST!Answers : IST!Answer(r)
           \/ IST!TimersExecute \/ IST!Discard \/ IST!Tick
           \/ \E m \in {"INVITE", "ACK"} : IST!Request(m)
           \/ \E m \in toServer \cup toClient : IST!Lose(m)
  BY <1>1, IstQueues DEF IST!StaysSilent
<1>2. CASE \E copy \in BOOLEAN : IST!Create(copy)
  BY <1>2, IstCreates DEF IST!StaysSilent
<1>3. CASE IST!ist_rcv_invite \/ IST!ist_rcv_invite_again
  BY <1>3, IstReceives
<1>4. CASE \/ IST!osip_ist_timeout_g_event \/ IST!osip_ist_timeout_h_event
           \/ IST!osip_ist_timeout_i_event
  BY <1>4, IstTimesOutG, IstTimesOut
<1>5. CASE IST!ist_snd_1xx \/ IST!ist_snd_2xx \/ IST!ist_snd_3456xx
  BY <1>5, IstAnswers
<1>6. CASE IST!ist_rcv_ack
  BY <1>6, IstAcks
<1> QED
  BY <1>1, <1>2, <1>3, <1>4, <1>5, <1>6 DEF IST!Next, IST!IstNext, IST!Execute

-----------------------------------------------------------------------------
(* The INVITE client transaction.  Its own properties are proved in        *)
(* IctProof; here its type is, with what the type rests on: timer A is     *)
(* stopped with its length, and a timeout is only queued in an empty fifo.  *)
IctTimeouts == {"TIMEOUT_A", "TIMEOUT_B", "TIMEOUT_D"}

IctInv ==
  /\ ICT!TypeOK
  /\ length = ICT!Off => repeat = ICT!Off
  /\ \A n \in 1..Len(fifo) : fifo[n] \in IctTimeouts =>
       n = 1 /\ (fifo[n] = "TIMEOUT_A" => length # ICT!Off)

(* What a handler leaves of the fifo holds no timeout, and a queued TIMEOUT_A *)
(* finds its length.                                                       *)
LEMMA IctHandles ==
  ASSUME IctInv, fifo # <<>>
  PROVE  /\ Tail(fifo) \in Seq(ICT!Events)
         /\ \A n \in 1..Len(Tail(fifo)) : Tail(fifo)[n] \notin IctTimeouts
         /\ Head(fifo) = "TIMEOUT_A" => length # ICT!Off
<1>1. fifo \in Seq(ICT!Events) /\ Len(fifo) \in Nat
  BY LenProperties DEF IctInv, ICT!TypeOK
<1>2. /\ Tail(fifo) \in Seq(ICT!Events) /\ Len(Tail(fifo)) = Len(fifo) - 1
      /\ \A n \in 1..Len(Tail(fifo)) : Tail(fifo)[n] = fifo[n + 1]
      /\ Head(fifo) = fifo[1]
  BY <1>1, HeadTailProperties
<1>3. 1 \in 1..Len(fifo)
  BY <1>1, EmptySeq
<1>4. \A n \in 1..Len(Tail(fifo)) : n + 1 \in 1..Len(fifo) /\ n + 1 # 1
  BY <1>1, <1>2
<1> QED
  BY <1>2, <1>3, <1>4 DEF IctInv, IctTimeouts

(* The steps that no handler makes: the timers, the fifo and the wire.     *)
LEMMA IctQueues ==
  ASSUME IctInv,
         \/ ICT!SendInvite \/ ICT!TimersExecute \/ ICT!Discard \/ ICT!Tick
         \/ \E r \in ICT!Responses, copy \in BOOLEAN : ICT!Receive(r, copy)
         \/ \E r \in ICT!Responses : ICT!Respond(r)
         \/ \E m \in toServer \cup toClient : ICT!Lose(m)
  PROVE  IctInv'
<1>1. /\ fifo \in Seq(ICT!Events) /\ toServer \subseteq {"INVITE", "ACK"}
      /\ toClient \subseteq ICT!Responses /\ repeat \in ICT!Times
      /\ giveUp \in ICT!Times /\ absorb \in ICT!Times /\ Len(fifo) \in Nat
  BY LenProperties DEF IctInv, ICT!TypeOK
<1>2. UNCHANGED <<reliable, state, length, told, final, sent>>
  BY DEF ICT!SendInvite, ICT!TimersExecute, ICT!Discard, ICT!Receive, ICT!Respond,
         ICT!Lose, ICT!Tick, ICT!ElapseTimers, ICT!ictvars, ICT!timers
<1>3. toServer' \subseteq {"INVITE", "ACK"} /\ toClient' \subseteq ICT!Responses
  BY <1>1 DEF ICT!SendInvite, ICT!TimersExecute, ICT!Discard, ICT!Receive, ICT!Respond,
         ICT!Lose, ICT!Tick, ICT!wire
<1>4. /\ repeat' \in ICT!Times /\ giveUp' \in ICT!Times /\ absorb' \in ICT!Times
      /\ repeat = ICT!Off => repeat' = ICT!Off
  BY <1>1 DEF ICT!SendInvite, ICT!TimersExecute, ICT!Discard, ICT!Receive, ICT!Respond,
         ICT!Lose, ICT!Tick, ICT!ElapseTimers, ICT!ictvars, ICT!timers,
         ICT!Elapse, ICT!Times, ICT!Off
<1>5. \/ UNCHANGED fifo
      \/ \E ev \in ICT!Events \ IctTimeouts : fifo' = Append(fifo, ev)
      \/ \E ev \in {"TIMEOUT_A", "TIMEOUT_B", "TIMEOUT_D"} :
           fifo = <<>> /\ fifo' = Append(fifo, ev) /\ (ev = "TIMEOUT_A" => repeat # ICT!Off)
      \/ fifo # <<>> /\ fifo' = Tail(fifo)
  <2>1. \A r \in ICT!Responses : ICT!EventOf(r) \in ICT!Events \ IctTimeouts
    BY DEF ICT!Responses, ICT!EventOf, ICT!Events, ICT!Transitions, IctTimeouts
  <2>2. "SND_REQINVITE" \in ICT!Events \ IctTimeouts
    BY DEF ICT!Events, ICT!Transitions, IctTimeouts
  <2> QED
    BY <2>1, <2>2 DEF ICT!SendInvite, ICT!TimersExecute, ICT!Discard, ICT!Receive, ICT!Respond,
         ICT!Lose, ICT!Tick, ICT!ElapseTimers, ICT!ictvars, ICT!AddEvent, ICT!Due, ICT!Off
<1>6. /\ fifo' \in Seq(ICT!Events)
      /\ \A n \in 1..Len(fifo') : fifo'[n] \in IctTimeouts =>
           n = 1 /\ (fifo'[n] = "TIMEOUT_A" => length # ICT!Off)
  <2>1. ASSUME NEW ev \in ICT!Events, fifo' = Append(fifo, ev)
        PROVE  /\ fifo' \in Seq(ICT!Events) /\ Len(fifo') = Len(fifo) + 1
               /\ \A n \in 1..Len(fifo) : fifo'[n] = fifo[n]
               /\ fifo'[Len(fifo) + 1] = ev
    BY <1>1, <2>1, AppendProperties
  <2>2. IctTimeouts \subseteq ICT!Events
    BY DEF IctTimeouts, ICT!Events, ICT!Transitions
  <2>3. CASE UNCHANGED fifo
    BY <1>1, <2>3 DEF IctInv
  <2>4. CASE \E ev \in ICT!Events \ IctTimeouts : fifo' = Append(fifo, ev)
    BY <1>1, <2>1, <2>4 DEF IctInv
  <2>5. CASE \E ev \in {"TIMEOUT_A", "TIMEOUT_B", "TIMEOUT_D"} :
               fifo = <<>> /\ fifo' = Append(fifo, ev) /\ (ev = "TIMEOUT_A" => repeat # ICT!Off)
    <3>1. PICK ev \in IctTimeouts :
            fifo = <<>> /\ fifo' = Append(fifo, ev) /\ (ev = "TIMEOUT_A" => repeat # ICT!Off)
      BY <2>5 DEF IctTimeouts
    <3>2. Len(fifo) = 0
      BY <3>1
    <3>3. fifo' \in Seq(ICT!Events) /\ Len(fifo') = 1 /\ fifo'[1] = ev
      BY <2>1, <2>2, <3>1, <3>2
    <3> QED
      BY <3>1, <3>3 DEF IctInv
  <2>6. CASE fifo # <<>> /\ fifo' = Tail(fifo)
    BY <2>6, IctHandles
  <2> QED
    BY <1>5, <2>3, <2>4, <2>5, <2>6
<1> QED
  BY <1>1, <1>2, <1>3, <1>4, <1>6 DEF IctInv, ICT!TypeOK

(* What the callbacks leave.                                               *)
LEMMA IctCalls ==
  ASSUME IctInv, NEW cs, ICT!Call(cs)
  PROVE  told' \in [ICT!Callbacks -> 0..2]
BY Counted DEF IctInv, ICT!TypeOK, ICT!Call, ICT!More

(* Every handler.                                                          *)
LEMMA IctHandlers ==
  ASSUME IctInv, ICT!Execute, ~ICT!Discard
  PROVE  IctInv'
<1>1. PICK ev : ICT!Handle(ev) /\ (ICT!osip_ict_timeout_a_event => ev = "TIMEOUT_A")
  BY DEF ICT!Execute, ICT!ict_snd_invite, ICT!osip_ict_timeout_a_event,
     ICT!osip_ict_timeout_b_event, ICT!ict_rcv_1xx, ICT!ict_rcv_2xx, ICT!ict_rcv_3456xx,
     ICT!ict_retransmit_ack, ICT!osip_ict_timeout_d_event
<1>2. /\ fifo' \in Seq(ICT!Events) /\ \A n \in 1..Len(fifo') : fifo'[n] \notin IctTimeouts
      /\ ICT!osip_ict_timeout_a_event => length # ICT!Off
  BY <1>1, IctHandles DEF ICT!Handle
<1>3. /\ told \in [ICT!Callbacks -> 0..2] /\ reliable \in BOOLEAN /\ state \in ICT!States
      /\ repeat \in ICT!Times /\ length \in ICT!Times /\ giveUp \in ICT!Times
      /\ absorb \in ICT!Times /\ final \in {"none", "2XX", "3456XX"} /\ sent \in Nat
      /\ toServer \subseteq {"INVITE", "ACK"} /\ toClient \subseteq ICT!Responses
      /\ length = ICT!Off => repeat = ICT!Off
  BY DEF IctInv, ICT!TypeOK
<1>4. told' \in [ICT!Callbacks -> 0..2]
  <2>1. UNCHANGED told \/ \E cs : ICT!Call(cs)
    BY DEF ICT!Execute, ICT!ict_snd_invite, ICT!osip_ict_timeout_a_event,
       ICT!osip_ict_timeout_b_event, ICT!ict_rcv_1xx, ICT!ict_rcv_2xx, ICT!ict_rcv_3456xx,
       ICT!ict_retransmit_ack, ICT!osip_ict_timeout_d_event, ICT!HandleTransportError
  <2> QED
    BY <1>3, <2>1, IctCalls
<1>5. reliable' = reliable /\ state' \in ICT!States /\ final' \in {"none", "2XX", "3456XX"}
  BY <1>3 DEF ICT!Execute, ICT!ict_snd_invite, ICT!osip_ict_timeout_a_event,
     ICT!osip_ict_timeout_b_event, ICT!ict_rcv_1xx, ICT!ict_rcv_2xx, ICT!ict_rcv_3456xx,
     ICT!ict_retransmit_ack, ICT!osip_ict_timeout_d_event, ICT!HandleTransportError, ICT!States
<1>6. giveUp' \in ICT!Times /\ absorb' \in ICT!Times
  BY <1>3, TimerAssumption DEF ICT!Execute, ICT!ict_snd_invite, ICT!osip_ict_timeout_a_event,
     ICT!osip_ict_timeout_b_event, ICT!ict_rcv_1xx, ICT!ict_rcv_2xx, ICT!ict_rcv_3456xx,
     ICT!ict_retransmit_ack, ICT!osip_ict_timeout_d_event, ICT!timers, ICT!LengthOfD,
     ICT!Times, ICT!Off
<1>7. /\ repeat' \in ICT!Times /\ length' \in ICT!Times
      /\ length' = ICT!Off => repeat' = ICT!Off
  <2>1. CASE ICT!osip_ict_timeout_a_event
    <3>1. length \in Nat
      BY <1>2, <1>3, <2>1 DEF ICT!Times
    <3>2. ICT!Doubled(length) \in Nat /\ ICT!Started(ICT!Doubled(length)) \in Nat
      BY <3>1 DEF ICT!Doubled, ICT!Started
    <3>3. \/ repeat' = ICT!Off /\ length' = ICT!Off
          \/ repeat' = ICT!Started(ICT!Doubled(length)) /\ length' = ICT!Doubled(length)
      BY <2>1 DEF ICT!osip_ict_timeout_a_event
    <3> QED
      BY <3>2, <3>3 DEF ICT!Times, ICT!Off
  <2>2. CASE ~ICT!osip_ict_timeout_a_event
    <3>1. \/ UNCHANGED <<repeat, length>>
          \/ repeat' = ICT!Off /\ length' = ICT!Off
      BY <2>2 DEF ICT!Execute, ICT!ict_snd_invite, ICT!osip_ict_timeout_b_event,
         ICT!ict_rcv_1xx, ICT!ict_rcv_2xx, ICT!ict_rcv_3456xx, ICT!ict_retransmit_ack,
         ICT!osip_ict_timeout_d_event, ICT!timers
    <3> QED
      BY <1>3, <3>1 DEF ICT!Times
  <2> QED
    BY <2>1, <2>2
<1>8. sent' \in Nat /\ toServer' \subseteq {"INVITE", "ACK"} /\ toClient' \subseteq ICT!Responses
  <2>1. /\ sent' \in {sent, sent + 1} /\ toClient' = toClient
        /\ \/ toServer' = toServer
           \/ \E m \in {"INVITE", "ACK"} : toServer' = toServer \cup {m}
    BY DEF ICT!Execute, ICT!ict_snd_invite, ICT!osip_ict_timeout_a_event,
       ICT!osip_ict_timeout_b_event, ICT!ict_rcv_1xx, ICT!ict_rcv_2xx, ICT!ict_rcv_3456xx,
       ICT!ict_retransmit_ack, ICT!osip_ict_timeout_d_event, ICT!SendRequest, ICT!Put, ICT!wire
  <2>2. sent' \in Nat
    BY <1>3, <2>1
  <2> QED
    BY <1>3, <2>1, <2>2
<1> QED
  BY <1>2, <1>3, <1>4, <1>5, <1>6, <1>7, <1>8 DEF IctInv, ICT!TypeOK

(* Every step of the client and of those it meets.                         *)
LEMMA IctStep ==
  ASSUME IctInv, ICT!Next PROVE IctInv'
<1>1. CASE \/ ICT!SendInvite \/ ICT!TimersExecute \/ ICT!Discard \/ ICT!Tick
           \/ \E r \in ICT!Responses, copy \in BOOLEAN : ICT!Receive(r, copy)
           \/ \E r \in ICT!Responses : ICT!Respond(r)
           \/ \E m \in toServer \cup toClient : ICT!Lose(m)
  BY <1>1, IctQueues
<1>2. CASE ICT!Execute /\ ~ICT!Discard
  BY <1>2, IctHandlers
<1> QED
  BY <1>1, <1>2 DEF ICT!Next, ICT!IctNext

-----------------------------------------------------------------------------
(* A transaction keeps the invariant of its kind.                          *)
IInv ==
  \/ ctx_type = "ICT"  /\ IctInv
  \/ ctx_type = "IST"  /\ IstInv
  \/ ctx_type = "NICT" /\ NictInv
  \/ ctx_type = "NIST" /\ NistInv

(* What osip_transaction_init leaves.                                      *)
LEMMA InitIInv == Init => IInv
<1>1. ASSUME ICT!Init PROVE IctInv
  BY <1>1, TimerAssumption DEF ICT!Init, ICT!IctInit, IctInv, ICT!TypeOK, ICT!Times, ICT!Off,
     ICT!LengthOfB, ICT!States, ICT!Callbacks
<1>2. ASSUME IST!Init PROVE IstInv
  BY <1>2, TransactionAssumption DEF IST!Init, IST!IstInit, IstInv, IST!TypeOK, IST!Times,
     IST!Off, IST!States, IST!Callbacks, IST!OneFinalAnswer, IST!ToldOnce, IstWithoutG
<1>3. ASSUME NICT!Init PROVE NictInv
  <2>1. \A c \in NICT!Callbacks : told[c] = 0
    BY <1>3 DEF NICT!Init, NICT!NictInit
  <2>2. told["final"] = 0 /\ told["timeout"] = 0 /\ told["error"] = 0 /\ told["kill"] = 0
    BY <2>1 DEF NICT!Callbacks
  <2> QED
    BY <1>3, <2>2, TimerAssumption DEF NICT!Init, NICT!NictInit, NictInv, NICT!TypeOK,
       NICT!Times, NICT!Off, NICT!Lengths, NICT!States, NICT!OneOutcome
<1>4. ASSUME NIST!Init PROVE NistInv
  BY <1>4, TransactionAssumption DEF NIST!Init, NIST!NistInit, NistInv, NIST!TypeOK,
     NIST!Times, NIST!Off, NIST!States, NIST!Callbacks, NIST!OneFinalAnswer, NIST!ToldOnce
<1> QED
  BY <1>1, <1>2, <1>3, <1>4 DEF Init, IInv

(* Every step keeps the invariant, and says nothing that is over again.    *)
LEMMA StepIInv ==
  ASSUME IInv, [Next]_vars
  PROVE  /\ IInv'
         /\ [/\ ctx_type = "NICT" => NICT!SendsWhileWaiting
             /\ ctx_type = "IST"  => IST!StaysSilent
             /\ ctx_type = "NIST" => NIST!RepeatsOrSilent]_vars
<1>1. CASE UNCHANGED vars
  BY <1>1 DEF vars, common, client, server, IInv, IctInv, IstInv, NictInv, NistInv,
     ICT!TypeOK, IST!TypeOK, IST!OneFinalAnswer, IST!ToldOnce, IstWithoutG, NICT!TypeOK,
     NICT!OneOutcome, NIST!TypeOK, NIST!OneFinalAnswer, NIST!ToldOnce
<1>2. CASE AsICT(ICT!Next)
  BY <1>2, IctStep DEF AsICT, IInv
<1>3. CASE AsIST(IST!Next)
  BY <1>3, IstStep DEF AsIST, IInv
<1>4. CASE AsNICT(NICT!Next)
  BY <1>4, NictStep DEF AsNICT, IInv
<1>5. CASE AsNIST(NIST!Next)
  BY <1>5, NistStep DEF AsNIST, IInv
<1> QED
  BY <1>1, <1>2, <1>3, <1>4, <1>5 DEF Next

(* Every machine tells its user of one outcome and sends one final answer, *)
(* whatever peer and network it meets and however many threads poll it.    *)
THEOREM TransactionAnsweredOnce == Spec => []AnsweredOnce
<1>1. IInv => AnsweredOnce
  BY DEF IInv, IctInv, IstInv, NictInv, NistInv, AnsweredOnce, TypeOK
<1>2. IInv /\ [Next]_vars => IInv'
  BY StepIInv
<1> QED
  BY <1>1, <1>2, InitIInv, PTL DEF Spec

(* No machine says again what is over: a request that was answered, a      *)
(* failure that was acknowledged, a final response other than the first.   *)
THEOREM TransactionNothingAfterEnd == Spec => NothingAfterEnd
<1>1. IInv /\ [Next]_vars => IInv'
  BY StepIInv
<1>2. IInv /\ [Next]_vars =>
        [/\ ctx_type = "NICT" => NICT!SendsWhileWaiting
         /\ ctx_type = "IST"  => IST!StaysSilent
         /\ ctx_type = "NIST" => NIST!RepeatsOrSilent]_vars
  BY StepIInv
<1> QED
  BY <1>1, <1>2, InitIInv, PTL DEF Spec, NothingAfterEnd
=============================================================================
