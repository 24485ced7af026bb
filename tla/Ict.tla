-------------------------------- MODULE Ict --------------------------------
(***************************************************************************)
(* The INVITE client transaction of osip2 (ict.c, ict_fsm.c) with the part *)
(* of osip.c and osip_transaction.c that drives it: events wait in the     *)
(* transaction's fifo, osip_timers_ict_execute turns timers that are due   *)
(* into events, osip_ict_execute takes events from the fifo and calls the  *)
(* handler of (state, event) or discards the event.  The wire is two sets  *)
(* of messages in flight: to be in a set twice is to be delivered twice,   *)
(* which Receive allows.                                                   *)
(***************************************************************************)
EXTENDS OsipTransaction

VARIABLES reliable,      \* the top Via says TCP, TLS or SCTP
          state,         \* ict->state
          a, aLength,    \* timer A, INVITE retransmissions
          b,             \* timer B, no answer
          d,             \* timer D, absorbs retransmitted failures
          fifo,          \* ict->transactionff
          told,          \* calls of the callbacks to the user
          final,         \* the final response given to the user, or "none"
          invites,       \* INVITEs that left
          toServer,      \* the wire to the server
          toClient       \* the wire to the client

timers == <<a, aLength, b, d>>
wire   == <<toServer, toClient>>
ictvars == <<reliable, state, timers, fifo, told, final, invites>>
vars   == <<ictvars, wire>>

States == {"PRE_CALLING", "CALLING", "PROCEEDING", "COMPLETED", "TERMINATED"}

Responses == {"1XX", "2XX", "3456XX"}

Callbacks == {"provisional", "final", "timeout", "error", "kill"}

(* ict_transition: the states in which each event has a handler *)
Transitions ==
  [SND_REQINVITE |-> {"PRE_CALLING"},
   TIMEOUT_A     |-> {"CALLING"},
   TIMEOUT_B     |-> {"CALLING"},
   TIMEOUT_D     |-> {"COMPLETED"},
   RCV_1XX       |-> {"CALLING", "PROCEEDING"},
   RCV_2XX       |-> {"CALLING", "PROCEEDING"},
   RCV_3456XX    |-> {"CALLING", "PROCEEDING", "COMPLETED"}]

Events == DOMAIN Transitions

(* The event of a received response, as osip_parse types it *)
EventOf(response) ==
  CASE response = "1XX"    -> "RCV_1XX"
    [] response = "2XX"    -> "RCV_2XX"
    [] response = "3456XX" -> "RCV_3456XX"

(* timer B is not started *)
NoB == Off

(* timer_b_length *)
LengthOfB == Timeout

(* osip_transaction_init with __osip_ict_init: A and B run from the moment  *)
(* the transaction is created, whatever the transport.                     *)
IctInit ==
  /\ reliable \in BOOLEAN
  /\ state = "PRE_CALLING"
  /\ a = T1 /\ aLength = T1
  /\ b = LengthOfB
  /\ d = Off
  /\ fifo = <<>>
  /\ told = [c \in Callbacks |-> 0]
  /\ final = "none"
  /\ invites = 0

Init == IctInit /\ toServer = {} /\ toClient = {}

-----------------------------------------------------------------------------
(* osip_transaction_add_event *)
AddEvent(e) == fifo' = Append(fifo, e)

(* The user hands the INVITE to the new transaction, once. *)
SendInvite ==
  /\ state = "PRE_CALLING"
  /\ fifo = <<>>
  /\ AddEvent("SND_REQINVITE")
  /\ UNCHANGED <<reliable, state, timers, told, final, invites, wire>>

(* A response arrives and osip_find_transaction_and_add_event finds the    *)
(* transaction, which is in the list until its kill callback.  The network *)
(* may keep a copy.                                                        *)
Receive(r, copy) ==
  /\ state \notin {"PRE_CALLING", "TERMINATED"}
  /\ r \in toClient
  /\ Len(fifo) < MaxFifo
  /\ AddEvent(EventOf(r))
  /\ toClient' = IF copy THEN toClient ELSE toClient \ {r}
  /\ UNCHANGED <<reliable, state, timers, told, final, invites, toServer>>

(* the check for a pending event is left out *)
TimersExecuteAlways ==
  /\ \/ state = "CALLING" /\ Due(b) /\ AddEvent("TIMEOUT_B")
     \/ state = "CALLING" /\ ~Due(b) /\ Due(a) /\ AddEvent("TIMEOUT_A")
     \/ state = "COMPLETED" /\ Due(d) /\ AddEvent("TIMEOUT_D")
  /\ UNCHANGED <<reliable, state, timers, told, final, invites, wire>>

(* osip_timers_ict_execute: B before A before D, and nothing while an      *)
(* event is pending.                                                       *)
TimersExecute ==
  /\ fifo = <<>>
  /\ \/ state = "CALLING" /\ Due(b) /\ AddEvent("TIMEOUT_B")
     \/ state = "CALLING" /\ ~Due(b) /\ Due(a) /\ AddEvent("TIMEOUT_A")
     \/ state = "COMPLETED" /\ Due(d) /\ AddEvent("TIMEOUT_D")
  /\ UNCHANGED <<reliable, state, timers, told, final, invites, wire>>

ElapseTimers ==
  /\ a' = Elapse(a) /\ b' = Elapse(b) /\ d' = Elapse(d)
  /\ UNCHANGED <<reliable, state, aLength, fifo, told, final, invites>>

-----------------------------------------------------------------------------
(* osip_ict_execute and osip_transaction_execute take the first event and  *)
(* look for its handler.                                                   *)

Handle(e) ==
  /\ fifo # <<>> /\ Head(fifo) = e
  /\ state \in Transitions[e]
  /\ fifo' = Tail(fifo)

Discard ==
  /\ fifo # <<>>
  /\ state \notin Transitions[Head(fifo)]
  /\ fifo' = Tail(fifo)
  /\ UNCHANGED <<reliable, state, timers, told, final, invites, wire>>

Call(callbacks) ==
  told' = [c \in Callbacks |-> IF c \in callbacks THEN More(told[c]) ELSE told[c]]

(* the error is not reported *)
KillOnly ==
  /\ Call({"kill"})
  /\ state' = "TERMINATED"

(* ict_handle_transport_error *)
HandleTransportError ==
  /\ Call({"error", "kill"})
  /\ state' = "TERMINATED"

Put(m) == toServer' = toServer \cup {m} /\ UNCHANGED toClient

(* cb_send_message with the INVITE: on a reliable transport timer A stops  *)
(* as soon as the message left.                                            *)
SendRequest(i) ==
  IF i = "sent"
    THEN /\ Put("INVITE")
         /\ invites' = invites + 1
    ELSE UNCHANGED <<invites, wire>>

StopsA(i) == reliable /\ i = "sent"

ict_snd_invite ==
  /\ Handle("SND_REQINVITE")
  /\ \E i \in SendResults :
       /\ SendRequest(i)
       /\ IF i = "error"
            THEN HandleTransportError /\ UNCHANGED <<a, aLength>>
            ELSE /\ state' = "CALLING"
                 /\ a' = IF StopsA(i) THEN Off ELSE a
                 /\ aLength' = IF StopsA(i) THEN Off ELSE aLength
                 /\ UNCHANGED told
  /\ UNCHANGED <<reliable, b, d, final>>

osip_ict_timeout_a_event ==
  /\ Handle("TIMEOUT_A")
  /\ \E i \in SendResults :
       /\ SendRequest(i)
       /\ a' = IF StopsA(i) THEN Off ELSE Started(Doubled(aLength))
       /\ aLength' = IF StopsA(i) THEN Off ELSE Doubled(aLength)
       /\ IF i = "error" THEN HandleTransportError
                         ELSE UNCHANGED <<state, told>>
  /\ UNCHANGED <<reliable, b, d, final>>

osip_ict_timeout_b_event ==
  /\ Handle("TIMEOUT_B")
  /\ b' = Off
  /\ Call({"timeout", "kill"})
  /\ state' = "TERMINATED"
  /\ UNCHANGED <<reliable, a, aLength, d, final, invites, wire>>

(* INVITEs are still retransmitted after a provisional answer *)
ict_rcv_1xx_calling ==
  /\ Handle("RCV_1XX")
  /\ Call({"provisional"})
  /\ UNCHANGED <<reliable, state, timers, final, invites, wire>>

ict_rcv_1xx ==
  /\ Handle("RCV_1XX")
  /\ Call({"provisional"})
  /\ state' = "PROCEEDING"
  /\ UNCHANGED <<reliable, timers, final, invites, wire>>

(* the transaction goes on after the 2xx *)
ict_rcv_2xx_completed ==
  /\ Handle("RCV_2XX")
  /\ final' = "2XX"
  /\ Call({"final"})
  /\ state' = "PROCEEDING"
  /\ UNCHANGED <<reliable, timers, invites, wire>>

ict_rcv_2xx ==
  /\ Handle("RCV_2XX")
  /\ final' = "2XX"
  /\ Call({"final", "kill"})
  /\ state' = "TERMINATED"
  /\ UNCHANGED <<reliable, timers, invites, wire>>

(* timer_d_length *)
LengthOfD == IF reliable THEN 0 ELSE Timeout

(* the failure is acknowledged and not reported *)
ict_rcv_3456xx_untold ==
  /\ Handle("RCV_3456XX") /\ state # "COMPLETED"
  /\ Put("ACK")
  /\ d' = LengthOfD
  /\ state' = "COMPLETED"
  /\ UNCHANGED <<reliable, a, aLength, b, told, final, invites>>

(* ict_rcv_3456xx, first failure: the ACK must leave at once, a transport  *)
(* that is not ready is an error too.                                      *)
ict_rcv_3456xx ==
  /\ Handle("RCV_3456XX") /\ state # "COMPLETED"
  /\ \/ \E i \in SendResults :
          IF i = "sent"
            THEN /\ Put("ACK")
                 /\ final' = "3456XX"
                 /\ Call({"final"})
                 /\ d' = LengthOfD
                 /\ state' = "COMPLETED"
            ELSE /\ HandleTransportError
                 /\ UNCHANGED <<final, d, wire>>
     \/ /\ AckMayFail
        /\ Call({"kill"})
        /\ state' = "TERMINATED"
        /\ UNCHANGED <<final, d, wire>>
  /\ UNCHANGED <<reliable, a, aLength, b, invites>>

ict_retransmit_ack ==
  /\ Handle("RCV_3456XX") /\ state = "COMPLETED"
  /\ \E i \in SendResults :
       IF i = "sent"
         THEN Put("ACK") /\ UNCHANGED <<state, told>>
         ELSE HandleTransportError /\ UNCHANGED wire
  /\ UNCHANGED <<reliable, timers, final, invites>>

osip_ict_timeout_d_event ==
  /\ Handle("TIMEOUT_D")
  /\ d' = Off
  /\ Call({"kill"})
  /\ state' = "TERMINATED"
  /\ UNCHANGED <<reliable, a, aLength, b, final, invites, wire>>

Execute ==
  \/ Discard
  \/ ict_snd_invite
  \/ osip_ict_timeout_a_event
  \/ osip_ict_timeout_b_event
  \/ ict_rcv_1xx
  \/ ict_rcv_2xx
  \/ ict_rcv_3456xx
  \/ ict_retransmit_ack
  \/ osip_ict_timeout_d_event

(* The steps of the client: the composed specifications use them too. *)
IctNext ==
  \/ SendInvite
  \/ \E r \in Responses, copy \in BOOLEAN : Receive(r, copy)
  \/ TimersExecute
  \/ Execute

-----------------------------------------------------------------------------
(* The transaction alone: any server, and any network.                     *)

Respond(r) == toClient' = toClient \cup {r} /\ UNCHANGED <<ictvars, toServer>>

Lose(m) == /\ toServer' = toServer \ {m}
           /\ toClient' = toClient \ {m}
           /\ UNCHANGED ictvars

Tick == ElapseTimers /\ UNCHANGED wire

Next ==
  \/ IctNext
  \/ \E r \in Responses : Respond(r)
  \/ \E m \in toServer \cup toClient : Lose(m)
  \/ Tick

Spec == Init /\ [][Next]_vars

-----------------------------------------------------------------------------
TypeOK ==
  /\ reliable \in BOOLEAN
  /\ state \in States
  /\ a \in Times /\ b \in Times /\ d \in Times
  /\ aLength \in Times
  /\ fifo \in Seq(Events)
  /\ told \in [Callbacks -> 0..2]
  /\ final \in {"none", "2XX", "3456XX"}
  /\ invites \in Nat
  /\ toServer \subseteq {"INVITE", "ACK"}
  /\ toClient \subseteq Responses

(* The user is told how the INVITE ended once: the kill callback, after    *)
(* which the transaction is out of the list and will be freed, is called   *)
(* exactly when the transaction terminates and never again, no final       *)
(* response is reported twice although failures are retransmitted, and a   *)
(* timeout excludes a final response.                                      *)
OutcomeOnce ==
  /\ told["kill"] = IF state = "TERMINATED" THEN 1 ELSE 0
  /\ told["final"] = IF final = "none" THEN 0 ELSE 1
  /\ told["error"] <= told["kill"]
  /\ told["timeout"] <= told["kill"]
  /\ ~(told["timeout"] > 0 /\ (told["error"] > 0 \/ told["final"] > 0))

(* No INVITE ends in silence: a terminated transaction has given its user  *)
(* a final response, a timeout or a transport error, and one that waits    *)
(* for retransmitted failures has given the failure.                       *)
NeverSilent ==
  /\ state = "TERMINATED" => \E c \in {"final", "timeout", "error"} : told[c] > 0
  /\ state = "COMPLETED" => final = "3456XX"

TimerEvents == {"TIMEOUT_A", "TIMEOUT_B", "TIMEOUT_D"}

(* A timeout that was queued is never stale: because timers are only       *)
(* polled when the fifo is empty, it is handled in the state in which it   *)
(* was due, however many responses arrive meanwhile.                       *)
TimeoutsNeverStale ==
  \A i \in 1..Len(fifo) :
    fifo[i] \in TimerEvents =>
      /\ i = 1
      /\ state \in Transitions[fifo[i]]
      /\ (fifo[i] = "TIMEOUT_A") => (aLength # Off)

(* After the user was told of any answer, provisional or final, no INVITE  *)
(* leaves again, though timer A goes on running; and the transaction sends *)
(* an ACK for nothing but a failure: the ACK of a 2xx is the user's.       *)
SendsWhatItMay ==
  /\ invites' # invites => told["provisional"] = 0 /\ told["final"] = 0
  /\ "ACK" \in toServer' \ toServer => final' = "3456XX" /\ state' = "COMPLETED"

NoRequestAfterAnswer == [][SendsWhatItMay]_vars

(* Timer B ends the wait for a first answer, and timer D the wait for      *)
(* retransmissions once the server stops: as long as one arrives in every  *)
(* turn of the loop the timers are not polled.                             *)
Waits   == state = "CALLING"
Absorbs == state = "COMPLETED"
Quiet   == toClient = {}
=============================================================================
