-------------------------------- MODULE Nist --------------------------------
(***************************************************************************)
(* The non-INVITE server transaction of osip2 (nist.c, nist_fsm.c) with    *)
(* its fifo, osip_timers_nist_execute and osip_nist_execute.  As for IST,  *)
(* a copy of the request that arrives after the kill callback makes a new  *)
(* transaction.                                                            *)
(***************************************************************************)
EXTENDS OsipTransaction

VARIABLES reliable,      \* the top Via says TCP, TLS or SCTP
          state,         \* nist->state, or "NONE" before the first request
          j,             \* timer J, absorbs retransmitted requests
          fifo,          \* nist->transactionff
          response,      \* nist->last_response
          told,          \* calls of the callbacks to the user
          finals,        \* the kinds of final responses that left
          sessions,      \* transactions made so far
          toServer, toClient

wire     == <<toServer, toClient>>
nistvars == <<reliable, state, j, fifo, response, told, finals, sessions>>
vars     == <<nistvars, wire>>

States == {"NONE", "PRE_TRYING", "TRYING", "PROCEEDING", "COMPLETED", "TERMINATED"}

Answers   == {"1XX", "2XX", "3456XX"}
Callbacks == {"request", "error", "kill"}
Open      == {"TRYING", "PROCEEDING"}

TransitionsAnswerTwice ==
  [RCV_REQUEST |-> {"PRE_TRYING", "PROCEEDING", "COMPLETED"},
   SND_1XX     |-> Open,
   SND_2XX     |-> Open \cup {"COMPLETED"},
   SND_3456XX  |-> Open,
   TIMEOUT_J   |-> {"COMPLETED"}]

(* nist_transition: a request retransmitted in TRYING is discarded *)
Transitions ==
  [RCV_REQUEST |-> {"PRE_TRYING", "PROCEEDING", "COMPLETED"},
   SND_1XX     |-> Open,
   SND_2XX     |-> Open,
   SND_3456XX  |-> Open,
   TIMEOUT_J   |-> {"COMPLETED"}]

Events == DOMAIN Transitions

EventOf(answer) ==
  CASE answer = "1XX"    -> "SND_1XX"
    [] answer = "2XX"    -> "SND_2XX"
    [] answer = "3456XX" -> "SND_3456XX"

NistInit ==
  /\ reliable \in BOOLEAN
  /\ state = "NONE"
  /\ j = Off
  /\ fifo = <<>>
  /\ response = "none"
  /\ told = [c \in Callbacks |-> 0]
  /\ finals = {}
  /\ sessions = 0

Init == NistInit /\ toServer = {} /\ toClient = {}

-----------------------------------------------------------------------------
AddEvent(e) == fifo' = Append(fifo, e)

Arrives(copy) ==
  /\ "REQUEST" \in toServer
  /\ toServer' = IF copy THEN toServer ELSE toServer \ {"REQUEST"}
  /\ UNCHANGED toClient

Create(copy) ==
  /\ state \in {"NONE", "TERMINATED"}
  /\ sessions < MaxSessions
  /\ Arrives(copy)
  /\ state' = "PRE_TRYING"
  /\ j' = Off
  /\ fifo' = <<"RCV_REQUEST">>
  /\ response' = "none"
  /\ told' = [c \in Callbacks |-> 0]
  /\ finals' = {}
  /\ sessions' = sessions + 1
  /\ UNCHANGED reliable

Receive(copy) ==
  /\ state \notin {"NONE", "TERMINATED"}
  /\ Len(fifo) < MaxFifo
  /\ Arrives(copy)
  /\ AddEvent("RCV_REQUEST")
  /\ UNCHANGED <<reliable, state, j, response, told, finals, sessions>>

(* The user answers a request it was told of, maybe more than once. *)
Answer(r) ==
  /\ state \in Open
  /\ Len(fifo) < MaxFifo
  /\ AddEvent(EventOf(r))
  /\ UNCHANGED <<reliable, state, j, response, told, finals, sessions, wire>>

PendingTimer == \E n \in 1..Len(fifo) : fifo[n] = "TIMEOUT_J"

(* osip_timers_nist_execute *)
TimersExecute ==
  /\ IF OneLoop THEN ~PendingTimer ELSE Len(fifo) < MaxFifo
  /\ state = "COMPLETED" /\ Due(j)
  /\ AddEvent("TIMEOUT_J")
  /\ UNCHANGED <<reliable, state, j, response, told, finals, sessions, wire>>

ElapseTimers ==
  /\ j' = Elapse(j)
  /\ UNCHANGED <<reliable, state, fifo, response, told, finals, sessions>>

-----------------------------------------------------------------------------
Handle(e) ==
  /\ fifo # <<>> /\ Head(fifo) = e
  /\ state \in Transitions[e]
  /\ fifo' = Tail(fifo)

Discard ==
  /\ fifo # <<>>
  /\ state \notin Transitions[Head(fifo)]
  /\ fifo' = Tail(fifo)
  /\ UNCHANGED <<reliable, state, j, response, told, finals, sessions, wire>>

Call(callbacks) ==
  told' = [c \in Callbacks |-> IF c \in callbacks THEN More(told[c]) ELSE told[c]]

(* nist_handle_transport_error *)
HandleTransportError ==
  /\ Call({"error", "kill"})
  /\ state' = "TERMINATED"

(* __osip_transaction_snd_xxx returns 0, or the transaction ends *)
Sent(r) ==
  /\ toClient' = toClient \cup {r}
  /\ finals' = finals \cup ({r} \ {"1XX"})
  /\ UNCHANGED toServer

NotSent == HandleTransportError /\ UNCHANGED <<finals, wire>>

(* nist_rcv_request, first request *)
nist_rcv_request ==
  /\ Handle("RCV_REQUEST") /\ state = "PRE_TRYING"
  /\ Call({"request"})
  /\ state' = "TRYING"
  /\ UNCHANGED <<reliable, j, response, finals, sessions, wire>>

(* nist_rcv_request, retransmission *)
nist_rcv_request_again ==
  /\ Handle("RCV_REQUEST") /\ state # "PRE_TRYING"
  /\ IF response = "none"
       THEN UNCHANGED <<state, told, finals, wire>>
       ELSE (Sent(response) /\ UNCHANGED <<state, told>>) \/ NotSent
  /\ UNCHANGED <<reliable, j, response, sessions>>

nist_snd_1xx ==
  /\ Handle("SND_1XX")
  /\ response' = "1XX"
  /\ \/ Sent("1XX") /\ state' = "PROCEEDING" /\ UNCHANGED told
     \/ NotSent
  /\ UNCHANGED <<reliable, j, sessions>>

(* timer J is not waited for *)
NoWait == 0

(* timer_j_length *)
LengthOfJ == IF reliable THEN 0 ELSE Timeout

nist_snd_23456xx ==
  /\ \E r \in {"2XX", "3456XX"} :
       /\ Handle(EventOf(r))
       /\ response' = r
       /\ \/ /\ Sent(r)
             /\ j' = LengthOfJ
             /\ state' = "COMPLETED"
             /\ UNCHANGED told
          \/ NotSent /\ UNCHANGED j
  /\ UNCHANGED <<reliable, sessions>>

osip_nist_timeout_j_event ==
  /\ Handle("TIMEOUT_J")
  /\ j' = Off
  /\ Call({"kill"})
  /\ state' = "TERMINATED"
  /\ UNCHANGED <<reliable, response, finals, sessions, wire>>

Execute ==
  \/ Discard
  \/ nist_rcv_request
  \/ nist_rcv_request_again
  \/ nist_snd_1xx
  \/ nist_snd_23456xx
  \/ osip_nist_timeout_j_event

NistNext ==
  \/ \E copy \in BOOLEAN : Create(copy)
  \/ \E copy \in BOOLEAN : Receive(copy)
  \/ \E r \in Answers : Answer(r)
  \/ TimersExecute
  \/ Execute

-----------------------------------------------------------------------------
(* The transaction alone: any client, and any network.                     *)

Request == /\ toServer' = toServer \cup {"REQUEST"}
           /\ UNCHANGED <<nistvars, toClient>>

Lose(m) == /\ toServer' = toServer \ {m}
           /\ toClient' = toClient \ {m}
           /\ UNCHANGED nistvars

Tick == ElapseTimers /\ UNCHANGED wire

Next ==
  \/ NistNext
  \/ Request
  \/ \E m \in toServer \cup toClient : Lose(m)
  \/ Tick

Spec == Init /\ [][Next]_vars

-----------------------------------------------------------------------------
TypeOK ==
  /\ reliable \in BOOLEAN
  /\ state \in States
  /\ j \in Times
  /\ fifo \in Seq(Events)
  /\ response \in Answers \cup {"none"}
  /\ told \in [Callbacks -> 0..1]
  /\ finals \subseteq {"2XX", "3456XX"}
  /\ sessions \in 0..MaxSessions
  /\ toServer \subseteq {"REQUEST"}
  /\ toClient \subseteq Answers

(* However many answers the user queued, the client is given one final     *)
(* response, whatever is retransmitted; it is also the one that is kept    *)
(* for retransmissions while the transaction is completed.                 *)
OneFinalAnswer ==
  /\ finals \in {{}, {"2XX"}, {"3456XX"}}
  /\ state = "COMPLETED" => finals = {response}
  /\ state \in {"NONE", "PRE_TRYING", "TRYING", "PROCEEDING"} => finals = {}

(* Each session tells the user of its request once and is killed once,     *)
(* when it terminates; it does not terminate before a final response left  *)
(* or a transport error was reported, and it does not wait for timer J     *)
(* without the timer.                                                      *)
ToldOnce ==
  /\ told["request"] = IF state \in {"NONE", "PRE_TRYING"} THEN 0 ELSE 1
  /\ told["kill"] = IF state = "TERMINATED" THEN 1 ELSE 0
  /\ state = "TERMINATED" => finals # {} \/ told["error"] = 1
  /\ state = "COMPLETED" <=> j # Off /\ state # "TERMINATED"

(* After the transaction terminated nothing leaves, and a completed one    *)
(* only repeats its final response.                                        *)
RepeatsOrSilent ==
  /\ state = "COMPLETED" => toClient' \subseteq toClient \cup {response}
  /\ state = "TERMINATED" => toClient' \subseteq toClient

(* A completed transaction ends although its request is retransmitted for  *)
(* ever: J is started once and polled whatever the fifo holds.             *)
Absorbs == state = "COMPLETED"
=============================================================================
