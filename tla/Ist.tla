-------------------------------- MODULE Ist --------------------------------
(***************************************************************************)
(* The INVITE server transaction of osip2 (ist.c, ist_fsm.c) with its fifo,*)
(* osip_timers_ist_execute and osip_ist_execute.  The transaction is made  *)
(* by the INVITE that finds no transaction; once its kill callback has     *)
(* taken it out of the list, a late copy of the same INVITE makes another  *)
(* one, a new session.                                                     *)
(***************************************************************************)
EXTENDS OsipTransaction

VARIABLES reliable,      \* the top Via says TCP, TLS or SCTP
          state,         \* ist->state, or "NONE" before the first INVITE
          g, gLength,    \* timer G, retransmission of the failure
          h,             \* timer H, no ACK
          i,             \* timer I, absorbs retransmitted ACKs
          fifo,          \* ist->transactionff
          response,      \* ist->last_response
          told,          \* calls of the callbacks to the user
          finals,        \* the kinds of final responses that left
          sessions,      \* transactions made so far
          toServer, toClient

timers  == <<g, gLength, h, i>>
wire    == <<toServer, toClient>>
istvars == <<reliable, state, timers, fifo, response, told, finals, sessions>>
vars    == <<istvars, wire>>

States == {"NONE", "PRE_PROCEEDING", "PROCEEDING", "COMPLETED", "CONFIRMED",
           "TERMINATED"}

Answers   == {"1XX", "2XX", "3456XX"}
Callbacks == {"invite", "ack", "error", "kill"}

(* a second final answer is sent after a failure *)
TransitionsAnswerTwice ==
  [RCV_REQINVITE |-> {"PRE_PROCEEDING", "PROCEEDING", "COMPLETED"},
   SND_1XX       |-> {"PROCEEDING"},
   SND_2XX       |-> {"PROCEEDING", "COMPLETED"},
   SND_3456XX    |-> {"PROCEEDING"},
   TIMEOUT_G     |-> {"COMPLETED"},
   TIMEOUT_H     |-> {"COMPLETED"},
   TIMEOUT_I     |-> {"CONFIRMED"},
   RCV_REQACK    |-> {"COMPLETED", "CONFIRMED"}]

(* timer G still has a handler after the ACK *)
TransitionsGAfterAck ==
  [TransitionsAnswerTwice EXCEPT !.SND_2XX = {"PROCEEDING"},
                                 !.TIMEOUT_G = {"COMPLETED", "CONFIRMED"}]

(* ist_transition *)
Transitions ==
  [RCV_REQINVITE |-> {"PRE_PROCEEDING", "PROCEEDING", "COMPLETED"},
   SND_1XX       |-> {"PROCEEDING"},
   SND_2XX       |-> {"PROCEEDING"},
   SND_3456XX    |-> {"PROCEEDING"},
   TIMEOUT_G     |-> {"COMPLETED"},
   TIMEOUT_H     |-> {"COMPLETED"},
   TIMEOUT_I     |-> {"CONFIRMED"},
   RCV_REQACK    |-> {"COMPLETED", "CONFIRMED"}]

Events == DOMAIN Transitions

TimerEvents == {"TIMEOUT_G", "TIMEOUT_H", "TIMEOUT_I"}

EventOf(answer) ==
  CASE answer = "1XX"    -> "SND_1XX"
    [] answer = "2XX"    -> "SND_2XX"
    [] answer = "3456XX" -> "SND_3456XX"

IstInit ==
  /\ reliable \in BOOLEAN
  /\ state = "NONE"
  /\ g = Off /\ gLength = Off /\ h = Off /\ i = Off
  /\ fifo = <<>>
  /\ response = "none"
  /\ told = [c \in Callbacks |-> 0]
  /\ finals = {}
  /\ sessions = 0

Init == IstInit /\ toServer = {} /\ toClient = {}

-----------------------------------------------------------------------------
AddEvent(e) == fifo' = Append(fifo, e)

Arrives(m, copy) ==
  /\ m \in toServer
  /\ toServer' = IF copy THEN toServer ELSE toServer \ {m}
  /\ UNCHANGED toClient

(* osip_find_transaction_and_add_event finds no transaction:               *)
(* osip_create_transaction makes one, __osip_ist_init starts no timer.     *)
Create(copy) ==
  /\ state \in {"NONE", "TERMINATED"}
  /\ sessions < MaxSessions
  /\ Arrives("INVITE", copy)
  /\ state' = "PRE_PROCEEDING"
  /\ g' = Off /\ h' = Off /\ i' = Off
  /\ gLength' = IF reliable THEN Off ELSE T1
  /\ fifo' = <<"RCV_REQINVITE">>
  /\ response' = "none"
  /\ told' = [c \in Callbacks |-> 0]
  /\ finals' = {}
  /\ sessions' = sessions + 1
  /\ UNCHANGED reliable

(* A retransmitted INVITE or an ACK for the transaction.  An ACK that finds *)
(* none makes none.                                                        *)
Receive(m, copy) ==
  /\ state \notin {"NONE", "TERMINATED"}
  /\ Len(fifo) < MaxFifo
  /\ Arrives(m, copy)
  /\ AddEvent(IF m = "ACK" THEN "RCV_REQACK" ELSE "RCV_REQINVITE")
  /\ UNCHANGED <<reliable, state, timers, response, told, finals, sessions>>

(* The user, who has been told of the INVITE, queues an answer.  It does so *)
(* while the transaction proceeds; nothing prevents two final answers in    *)
(* the fifo (a CANCEL being answered while the call is).                   *)
Answer(r) ==
  /\ state = "PROCEEDING"
  /\ Len(fifo) < MaxFifo
  /\ AddEvent(EventOf(r))
  /\ UNCHANGED <<reliable, state, timers, response, told, finals, sessions, wire>>

PendingTimer == \E k \in 1..Len(fifo) : fifo[k] \in TimerEvents

(* osip_timers_ist_execute: I, else H, else G; pending events are not      *)
(* looked at, so that two threads can queue one timeout several times (as  *)
(* often as the bound lets them).                                          *)
TimersExecute ==
  /\ IF OneLoop THEN ~PendingTimer ELSE Len(fifo) < MaxFifo
  /\ \/ state = "CONFIRMED" /\ Due(i) /\ AddEvent("TIMEOUT_I")
     \/ state = "COMPLETED" /\ Due(h) /\ AddEvent("TIMEOUT_H")
     \/ state = "COMPLETED" /\ ~Due(h) /\ Due(g) /\ AddEvent("TIMEOUT_G")
  /\ UNCHANGED <<reliable, state, timers, response, told, finals, sessions, wire>>

ElapseTimers ==
  /\ g' = Elapse(g) /\ h' = Elapse(h) /\ i' = Elapse(i)
  /\ UNCHANGED <<reliable, state, gLength, fifo, response, told, finals, sessions>>

-----------------------------------------------------------------------------
Handle(e) ==
  /\ fifo # <<>> /\ Head(fifo) = e
  /\ state \in Transitions[e]
  /\ fifo' = Tail(fifo)

Discard ==
  /\ fifo # <<>>
  /\ state \notin Transitions[Head(fifo)]
  /\ fifo' = Tail(fifo)
  /\ UNCHANGED <<reliable, state, timers, response, told, finals, sessions, wire>>

Call(callbacks) ==
  told' = [c \in Callbacks |-> IF c \in callbacks THEN More(told[c]) ELSE told[c]]

(* ist_handle_transport_error *)
HandleTransportError ==
  /\ Call({"error", "kill"})
  /\ state' = "TERMINATED"

(* __osip_transaction_snd_xxx: the response is on the wire, or any other   *)
(* result of cb_send_message ends the transaction                          *)
Sent(r) ==
  /\ toClient' = toClient \cup {r}
  /\ finals' = finals \cup ({r} \ {"1XX"})
  /\ UNCHANGED toServer

NotSent == HandleTransportError /\ UNCHANGED <<finals, wire>>

(* ist_rcv_invite, first INVITE *)
ist_rcv_invite ==
  /\ Handle("RCV_REQINVITE") /\ state = "PRE_PROCEEDING"
  /\ Call({"invite"})
  /\ state' = "PROCEEDING"
  /\ UNCHANGED <<reliable, timers, response, finals, sessions, wire>>

(* ist_rcv_invite, retransmission: the last response again, if any *)
ist_rcv_invite_again ==
  /\ Handle("RCV_REQINVITE") /\ state # "PRE_PROCEEDING"
  /\ \/ response = "none" /\ UNCHANGED <<state, told, finals, wire>>
     \/ response # "none" /\ Sent(response) /\ UNCHANGED <<state, told>>
     \/ response # "none" /\ NotSent
  /\ UNCHANGED <<reliable, timers, response, sessions>>

osip_ist_timeout_g_event ==
  /\ Handle("TIMEOUT_G")
  /\ g' = Started(DoubledUpToT2(gLength))
  /\ gLength' = DoubledUpToT2(gLength)
  /\ \/ Sent(response) /\ UNCHANGED <<state, told>>
     \/ NotSent
  /\ UNCHANGED <<reliable, h, i, response, sessions>>

osip_ist_timeout_h_event ==
  /\ Handle("TIMEOUT_H")
  /\ h' = Off
  /\ Call({"kill"})
  /\ state' = "TERMINATED"
  /\ UNCHANGED <<reliable, g, gLength, i, response, finals, sessions, wire>>

osip_ist_timeout_i_event ==
  /\ Handle("TIMEOUT_I")
  /\ i' = Off
  /\ Call({"kill"})
  /\ state' = "TERMINATED"
  /\ UNCHANGED <<reliable, g, gLength, h, response, finals, sessions, wire>>

ist_snd_1xx ==
  /\ Handle("SND_1XX")
  /\ response' = "1XX"
  /\ \/ Sent("1XX") /\ UNCHANGED <<state, told>>
     \/ NotSent
  /\ UNCHANGED <<reliable, timers, sessions>>

ist_snd_2xx ==
  /\ Handle("SND_2XX")
  /\ response' = "2XX"
  /\ \/ Sent("2XX") /\ Call({"kill"}) /\ state' = "TERMINATED"
     \/ NotSent
  /\ UNCHANGED <<reliable, timers, sessions>>

NoG == Off

(* timer_g_length, -1 on a reliable transport, and timer_h_length *)
LengthOfG == gLength

LengthOfH == Timeout

ist_snd_3456xx ==
  /\ Handle("SND_3456XX")
  /\ response' = "3456XX"
  /\ \/ /\ Sent("3456XX")
        /\ g' = LengthOfG
        /\ h' = LengthOfH
        /\ state' = "COMPLETED"
        /\ UNCHANGED told
     \/ NotSent /\ UNCHANGED <<g, h>>
  /\ UNCHANGED <<reliable, gLength, i, sessions>>

NoWait == 0

(* timer_i_length *)
LengthOfI == IF reliable THEN 0 ELSE T4

(* ist_rcv_ack: every ACK starts timer I again *)
ist_rcv_ack ==
  /\ Handle("RCV_REQACK")
  /\ IF state = "COMPLETED" THEN Call({"ack"}) ELSE UNCHANGED told
  /\ i' = LengthOfI
  /\ state' = "CONFIRMED"
  /\ UNCHANGED <<reliable, g, gLength, h, response, finals, sessions, wire>>

Execute ==
  \/ Discard
  \/ ist_rcv_invite
  \/ ist_rcv_invite_again
  \/ osip_ist_timeout_g_event
  \/ osip_ist_timeout_h_event
  \/ osip_ist_timeout_i_event
  \/ ist_snd_1xx
  \/ ist_snd_2xx
  \/ ist_snd_3456xx
  \/ ist_rcv_ack

IstNext ==
  \/ \E copy \in BOOLEAN : Create(copy)
  \/ \E m \in {"INVITE", "ACK"}, copy \in BOOLEAN : Receive(m, copy)
  \/ \E r \in Answers : Answer(r)
  \/ TimersExecute
  \/ Execute

-----------------------------------------------------------------------------
(* The transaction alone: any client, and any network.                     *)

Request(m) == toServer' = toServer \cup {m} /\ UNCHANGED <<istvars, toClient>>

Lose(m) == /\ toServer' = toServer \ {m}
           /\ toClient' = toClient \ {m}
           /\ UNCHANGED istvars

Tick == ElapseTimers /\ UNCHANGED wire

Next ==
  \/ IstNext
  \/ \E m \in {"INVITE", "ACK"} : Request(m)
  \/ \E m \in toServer \cup toClient : Lose(m)
  \/ Tick

Spec == Init /\ [][Next]_vars

-----------------------------------------------------------------------------
TypeOK ==
  /\ reliable \in BOOLEAN
  /\ state \in States
  /\ g \in Times /\ h \in Times /\ i \in Times
  /\ gLength \in Times
  /\ fifo \in Seq(Events)
  /\ response \in Answers \cup {"none"}
  /\ told \in [Callbacks -> 0..2]
  /\ finals \subseteq {"2XX", "3456XX"}
  /\ sessions \in 0..MaxSessions
  /\ toServer \subseteq {"INVITE", "ACK"}
  /\ toClient \subseteq Answers

(* However many answers are queued, and whatever is retransmitted, the     *)
(* client is given one kind of final response: the first that the handler  *)
(* took from the fifo.  A 2xx ends the transaction, a failure makes it     *)
(* wait for the ACK.                                                       *)
OneFinalAnswer ==
  /\ finals \in {{}, {"2XX"}, {"3456XX"}}
  /\ "2XX" \in finals => state = "TERMINATED"
  /\ state \in {"COMPLETED", "CONFIRMED"} => finals = {"3456XX"} /\ response = "3456XX"
  /\ state \in {"NONE", "PRE_PROCEEDING", "PROCEEDING"} => finals = {}

(* Each session tells the user of its INVITE once, of the first ACK at     *)
(* most once, and is killed once, when it terminates; it never terminates  *)
(* unless a final response left or the user was told of a transport error. *)
ToldOnce ==
  /\ told["invite"] = IF state \in {"NONE", "PRE_PROCEEDING"} THEN 0 ELSE 1
  /\ told["ack"] <= 1
  /\ state = "CONFIRMED" => told["ack"] = 1
  /\ told["kill"] = IF state = "TERMINATED" THEN 1 ELSE 0
  /\ state = "TERMINATED" => finals # {} \/ told["error"] = 1

(* Once the ACK was handled, or a 2xx was sent, no response leaves.        *)
StaysSilent ==
  state \in {"CONFIRMED", "TERMINATED"} => toClient' \subseteq toClient

(* A failure that nobody acknowledges is given up after timer H, even when *)
(* INVITEs keep coming; an acknowledged one after timer I, once the client *)
(* stops retransmitting its ACK.                                           *)
Waits   == state = "COMPLETED"
Absorbs == state = "CONFIRMED"
Quiet   == toServer = {}
=============================================================================
