-------------------------------- MODULE Nict --------------------------------
(***************************************************************************)
(* The non-INVITE client transaction of osip2 (nict.c, nict_fsm.c) with    *)
(* its fifo, osip_timers_nict_execute and osip_nict_execute.               *)
(***************************************************************************)
EXTENDS OsipTransaction

VARIABLES reliable,      \* the top Via says TCP, TLS or SCTP
          state,         \* nict->state
          e, eLength,    \* timer E, retransmission of the request
          f,             \* timer F, no final answer
          k,             \* timer K, absorbs retransmitted answers
          fifo,          \* nict->transactionff
          told,          \* calls of the callbacks that end a transaction
          final,         \* the final response given to the user, or "none"
          requests,      \* requests that left
          toServer, toClient

timers == <<e, eLength, f, k>>
wire   == <<toServer, toClient>>
nictvars == <<reliable, state, timers, fifo, told, final, requests>>
vars   == <<nictvars, wire>>

States == {"PRE_TRYING", "TRYING", "PROCEEDING", "COMPLETED", "TERMINATED"}

Responses == {"1XX", "2XX", "3456XX"}
Callbacks == {"final", "timeout", "error", "kill"}
Waiting   == {"TRYING", "PROCEEDING"}

(* handlers that outlive the final answer *)
TransitionsAnswerTwice ==
  [SND_REQUEST |-> {"PRE_TRYING"},
   TIMEOUT_F   |-> Waiting,
   TIMEOUT_E   |-> Waiting,
   RCV_1XX     |-> Waiting,
   RCV_2XX     |-> Waiting \cup {"COMPLETED"},
   RCV_3456XX  |-> Waiting,
   TIMEOUT_K   |-> {"COMPLETED"}]

(* nict_transition *)
Transitions ==
  [SND_REQUEST |-> {"PRE_TRYING"},
   TIMEOUT_F   |-> Waiting,
   TIMEOUT_E   |-> Waiting,
   RCV_1XX     |-> Waiting,
   RCV_2XX     |-> Waiting,
   RCV_3456XX  |-> Waiting,
   TIMEOUT_K   |-> {"COMPLETED"}]

Events == DOMAIN Transitions

TimerEvents == {"TIMEOUT_E", "TIMEOUT_F", "TIMEOUT_K"}

EventOf(response) ==
  CASE response = "1XX"    -> "RCV_1XX"
    [] response = "2XX"    -> "RCV_2XX"
    [] response = "3456XX" -> "RCV_3456XX"

(* osip_transaction_init with __osip_nict_init: F runs at once, E only has  *)
(* its length.                                                             *)
NictInit ==
  /\ reliable \in BOOLEAN
  /\ state = "PRE_TRYING"
  /\ e = Off /\ eLength = T1
  /\ f = Timeout
  /\ k = Off
  /\ fifo = <<>>
  /\ told = [c \in Callbacks |-> 0]
  /\ final = "none"
  /\ requests = 0

Init == NictInit /\ toServer = {} /\ toClient = {}

-----------------------------------------------------------------------------
AddEvent(ev) == fifo' = Append(fifo, ev)

(* The user hands the request to the new transaction, once. *)
SendRequest ==
  /\ state = "PRE_TRYING"
  /\ fifo = <<>>
  /\ AddEvent("SND_REQUEST")
  /\ UNCHANGED <<reliable, state, timers, told, final, requests, wire>>

Receive(r, copy) ==
  /\ state \notin {"PRE_TRYING", "TERMINATED"}
  /\ r \in toClient
  /\ Len(fifo) < MaxFifo
  /\ AddEvent(EventOf(r))
  /\ toClient' = IF copy THEN toClient ELSE toClient \ {r}
  /\ UNCHANGED <<reliable, state, timers, told, final, requests, toServer>>

PendingTimer == \E n \in 1..Len(fifo) : fifo[n] \in TimerEvents

(* osip_timers_nict_execute: K, else F, else E; pending events are not     *)
(* looked at.                                                              *)
TimersExecute ==
  /\ IF OneLoop THEN ~PendingTimer ELSE Len(fifo) < MaxFifo
  /\ \/ state = "COMPLETED" /\ Due(k) /\ AddEvent("TIMEOUT_K")
     \/ state \in Waiting /\ Due(f) /\ AddEvent("TIMEOUT_F")
     \/ state \in Waiting /\ ~Due(f) /\ Due(e) /\ AddEvent("TIMEOUT_E")
  /\ UNCHANGED <<reliable, state, timers, told, final, requests, wire>>

ElapseTimers ==
  /\ e' = Elapse(e) /\ f' = Elapse(f) /\ k' = Elapse(k)
  /\ UNCHANGED <<reliable, state, eLength, fifo, told, final, requests>>

-----------------------------------------------------------------------------
Handle(ev) ==
  /\ fifo # <<>> /\ Head(fifo) = ev
  /\ state \in Transitions[ev]
  /\ fifo' = Tail(fifo)

Discard ==
  /\ fifo # <<>>
  /\ state \notin Transitions[Head(fifo)]
  /\ fifo' = Tail(fifo)
  /\ UNCHANGED <<reliable, state, timers, told, final, requests, wire>>

Call(callbacks) ==
  told' = [c \in Callbacks |-> IF c \in callbacks THEN More(told[c]) ELSE told[c]]

(* nict_handle_transport_error *)
HandleTransportError ==
  /\ Call({"error", "kill"})
  /\ state' = "TERMINATED"

(* cb_send_message with the request *)
Send(i) ==
  IF i = "sent"
    THEN /\ toServer' = toServer \cup {"REQUEST"}
         /\ requests' = IF requests < MaxCopies THEN requests + 1 ELSE requests
         /\ UNCHANGED toClient
    ELSE UNCHANGED <<requests, wire>>

RunEAlways(i, length) == e' = Started(length) /\ eLength' = length

(* timer E runs for the given time, or is stopped because a reliable       *)
(* transport took the request                                              *)
RunE(i, length) ==
  IF reliable /\ i = "sent"
    THEN e' = Off /\ eLength' = Off
    ELSE e' = Started(length) /\ eLength' = length

nict_snd_request ==
  /\ Handle("SND_REQUEST")
  /\ \E i \in SendResults :
       /\ Send(i)
       /\ IF i = "error"
            THEN HandleTransportError /\ UNCHANGED <<e, eLength>>
            ELSE RunE(i, eLength) /\ state' = "TRYING" /\ UNCHANGED told
  /\ UNCHANGED <<reliable, f, k, final>>

(* In TRYING the interval doubles, in PROCEEDING it is always T2. *)
osip_nict_timeout_e_event ==
  /\ Handle("TIMEOUT_E")
  /\ \E i \in SendResults :
       /\ Send(i)
       /\ RunE(i, IF state = "TRYING" THEN DoubledUpToT2(eLength) ELSE T2)
       /\ IF i = "error" THEN HandleTransportError
                         ELSE UNCHANGED <<state, told>>
  /\ UNCHANGED <<reliable, f, k, final>>

osip_nict_timeout_f_event ==
  /\ Handle("TIMEOUT_F")
  /\ f' = Off
  /\ Call({"timeout", "kill"})
  /\ state' = "TERMINATED"
  /\ UNCHANGED <<reliable, e, eLength, k, final, requests, wire>>

osip_nict_timeout_k_event ==
  /\ Handle("TIMEOUT_K")
  /\ k' = Off
  /\ Call({"kill"})
  /\ state' = "TERMINATED"
  /\ UNCHANGED <<reliable, e, eLength, f, final, requests, wire>>

nict_rcv_1xx ==
  /\ Handle("RCV_1XX")
  /\ state' = "PROCEEDING"
  /\ UNCHANGED <<reliable, timers, told, final, requests, wire>>

(* timer_k_length *)
LengthOfK == IF reliable THEN 0 ELSE T4

nict_rcv_23456xx ==
  /\ \/ Handle("RCV_2XX")    /\ final' = "2XX"
     \/ Handle("RCV_3456XX") /\ final' = "3456XX"
  /\ Call({"final"})
  /\ k' = LengthOfK
  /\ state' = "COMPLETED"
  /\ UNCHANGED <<reliable, e, eLength, f, requests, wire>>

Execute ==
  \/ Discard
  \/ nict_snd_request
  \/ osip_nict_timeout_e_event
  \/ osip_nict_timeout_f_event
  \/ osip_nict_timeout_k_event
  \/ nict_rcv_1xx
  \/ nict_rcv_23456xx

NictNext ==
  \/ SendRequest
  \/ \E r \in Responses, copy \in BOOLEAN : Receive(r, copy)
  \/ TimersExecute
  \/ Execute

-----------------------------------------------------------------------------
(* The transaction alone: any server, and any network.                     *)

Respond(r) == toClient' = toClient \cup {r} /\ UNCHANGED <<nictvars, toServer>>

Lose(m) == /\ toServer' = toServer \ {m}
           /\ toClient' = toClient \ {m}
           /\ UNCHANGED nictvars

Tick == ElapseTimers /\ UNCHANGED wire

Next ==
  \/ NictNext
  \/ \E r \in Responses : Respond(r)
  \/ \E m \in toServer \cup toClient : Lose(m)
  \/ Tick

Spec == Init /\ [][Next]_vars

-----------------------------------------------------------------------------
TypeOK ==
  /\ reliable \in BOOLEAN
  /\ state \in States
  /\ e \in Times /\ f \in Times /\ k \in Times
  /\ eLength \in Lengths
  /\ fifo \in Seq(Events)
  /\ told \in [Callbacks -> 0..2]
  /\ final \in {"none", "2XX", "3456XX"}
  /\ requests \in Nat
  /\ toServer \subseteq {"REQUEST"}
  /\ toClient \subseteq Responses

(* Every request that was handed over ends in exactly one way for its      *)
(* user: one final response, or one timeout, or one transport error; the   *)
(* kill callback follows once, when the transaction terminates.            *)
OneOutcome ==
  /\ told["kill"] = IF state = "TERMINATED" THEN 1 ELSE 0
  /\ told["final"] = IF final = "none" THEN 0 ELSE 1
  /\ told["final"] + told["timeout"] + told["error"]
       = IF state \in {"COMPLETED", "TERMINATED"} THEN 1 ELSE 0

(* The n-th copy leaves at the earliest when n-1 intervals have passed.    *)
SendInterval[n \in Nat] == IF n <= 1 THEN T1 ELSE DoubledUpToT2(SendInterval[n - 1])
EarliestSend[n \in Nat] == IF n <= 1 THEN 0 ELSE EarliestSend[n - 1] + SendInterval[n - 1]

(* With one loop, on a reliable transport the request leaves once ("stop   *)
(* timer E in reliable transport ... the message was just sent"); otherwise*)
(* the number of copies is what fits before timer F.  Two pollers could    *)
(* queue timer E twice and arm it again with a length below zero.          *)
RequestsBounded ==
  OneLoop => /\ reliable => requests <= 1
             /\ EarliestSend[requests] <= Timeout
             /\ reliable /\ requests > 0 => e = Off

(* A queued timeout of a transaction that has been answered meanwhile has  *)
(* no effect: no request leaves after the final answer, and none is sent   *)
(* once a timeout was reported.                                            *)
SendsWhileWaiting ==
  requests' # requests \/ toServer' \ toServer # {} =>
    state \in {"PRE_TRYING"} \cup Waiting /\ final' = "none"

(* A request whose answer never comes times out even when provisional      *)
(* answers keep coming, and nothing keeps an answered one from ending.     *)
Waits   == state \in Waiting
Absorbs == state = "COMPLETED"
=============================================================================
