------------------------------ MODULE IctProof ------------------------------
(***************************************************************************)
(* Proofs about the INVITE client transaction, for every value of the      *)
(* timers, whatever the server and the network do.                         *)
(***************************************************************************)
EXTENDS Ict, SequenceTheorems, TLAPS

(* What the user may have been told in each state. *)
ToldByState ==
  /\ state \in {"PRE_CALLING", "CALLING"} => told["provisional"] = 0
  /\ state \in {"PRE_CALLING", "CALLING", "PROCEEDING"} => told["final"] = 0
  /\ state # "TERMINATED" => told["timeout"] = 0 /\ told["error"] = 0

(* Timer A is stopped together with its length. *)
AStopped == a = Off <=> aLength = Off

(* Retransmissions are only waited for after a failure. *)
CompletedHasFailure == state = "COMPLETED" => final = "3456XX"

(* No INVITE ends in silence, unless there was no memory for its ACK. *)
NeverSilentInv == ~AckMayFail => NeverSilent

IInv == /\ TypeOK /\ TimeoutsNeverStale /\ AStopped
        /\ OutcomeOnce /\ ToldByState /\ CompletedHasFailure /\ NeverSilentInv

(* The invariant holds when osip_transaction_init returns. *)
LEMMA InitIInv == Init => IInv
  BY TimerAssumption, TransactionAssumption
     DEF Init, IctInit, IInv, TypeOK, TimeoutsNeverStale, AStopped, OutcomeOnce,
         ToldByState, CompletedHasFailure, NeverSilentInv, NeverSilent, LengthOfB,
         Times, Off, States, Callbacks, Responses, Events, Transitions

-----------------------------------------------------------------------------
(* The fifo.                                                               *)

(* What a step that takes the first event leaves: no timeout. *)
LEMMA TailHasNoTimeout ==
  ASSUME IInv, fifo # <<>>
  PROVE  /\ Tail(fifo) \in Seq(Events)
         /\ \A i \in 1..Len(Tail(fifo)) : Tail(fifo)[i] \notin TimerEvents
<1>1. fifo \in Seq(Events) /\ Len(fifo) \in Nat
  BY LenProperties DEF IInv, TypeOK
<1>2. /\ Tail(fifo) \in Seq(Events)
      /\ Len(Tail(fifo)) = Len(fifo) - 1
      /\ \A i \in 1..Len(Tail(fifo)) : Tail(fifo)[i] = fifo[i + 1]
  BY <1>1, HeadTailProperties
<1>3. ASSUME NEW i \in 1..Len(Tail(fifo)) PROVE Tail(fifo)[i] \notin TimerEvents
  <2>1. i + 1 \in 1..Len(fifo) /\ i + 1 # 1
    BY <1>1, <1>2
  <2> QED
    BY <1>2, <2>1 DEF IInv, TimeoutsNeverStale
<1> QED
  BY <1>2, <1>3

(* Every handler that runs leaves a fifo without timeouts; the timeout it   *)
(* handled, if any, was not stale.                                         *)
LEMMA HandleKeepsFifo ==
  ASSUME IInv, NEW e \in Events, Handle(e)
  PROVE  fifo' \in Seq(Events) /\ TimeoutsNeverStale'
         /\ (e = "TIMEOUT_A" => aLength # Off)
<1>1. fifo' \in Seq(Events) /\ TimeoutsNeverStale'
  BY TailHasNoTimeout DEF Handle, TimeoutsNeverStale
<1>2. ASSUME e = "TIMEOUT_A" PROVE aLength # Off
  <2>1. 1 \in 1..Len(fifo) /\ fifo[1] = "TIMEOUT_A"
    BY <1>2, LenProperties, EmptySeq DEF Handle, IInv, TypeOK
  <2> QED
    BY <2>1 DEF IInv, TimeoutsNeverStale, TimerEvents
<1> QED
  BY <1>1, <1>2

-----------------------------------------------------------------------------
(* Steps that leave the transaction alone but for its fifo and the wire.   *)
LEMMA QueueSteps ==
  ASSUME IInv,
         \/ SendInvite
         \/ \E r \in Responses, copy \in BOOLEAN : Receive(r, copy)
         \/ TimersExecute
         \/ Discard
         \/ \E r \in Responses : Respond(r)
         \/ \E m \in toServer \cup toClient : Lose(m)
  PROVE  IInv'
<1>1. UNCHANGED <<reliable, state, a, aLength, b, d, told, final, invites>>
  BY DEF SendInvite, Receive, TimersExecute, Discard, Respond, Lose, timers, ictvars
<1>2. toServer' \subseteq {"INVITE", "ACK"} /\ toClient' \subseteq Responses
  BY DEF SendInvite, Receive, TimersExecute, Discard, Respond, Lose, wire, IInv, TypeOK
<1>3. fifo' \in Seq(Events) /\ TimeoutsNeverStale'
  <2>1. fifo \in Seq(Events) /\ Len(fifo) \in Nat
    BY LenProperties DEF IInv, TypeOK
  <2>2. CASE SendInvite
    <3>1. fifo' = <<"SND_REQINVITE">>
      BY <2>2 DEF SendInvite, AddEvent
    <3> QED
      BY <3>1 DEF TimeoutsNeverStale, TimerEvents, Events, Transitions
  <2>3. ASSUME NEW r \in Responses, NEW copy \in BOOLEAN, Receive(r, copy)
        PROVE  fifo' \in Seq(Events) /\ TimeoutsNeverStale'
    <3>1. fifo' = Append(fifo, EventOf(r)) /\ EventOf(r) \in Events \ TimerEvents
      BY <2>3 DEF Receive, AddEvent, EventOf, Responses, Events, Transitions,
                  TimerEvents
    <3>2. /\ fifo' \in Seq(Events) /\ Len(fifo') = Len(fifo) + 1
          /\ \A i \in 1..Len(fifo) : fifo'[i] = fifo[i]
          /\ fifo'[Len(fifo) + 1] = EventOf(r)
      BY <2>1, <3>1, AppendProperties
    <3>3. ASSUME NEW i \in 1..Len(fifo'), fifo'[i] \in TimerEvents
          PROVE  i \in 1..Len(fifo) /\ fifo'[i] = fifo[i]
      BY <2>1, <3>1, <3>2, <3>3
    <3> QED
      BY <1>1, <3>2, <3>3 DEF IInv, TimeoutsNeverStale
  <2>4. CASE TimersExecute
    <3>1. PICK e \in TimerEvents :
            /\ fifo' = <<e>> /\ state \in Transitions[e]
            /\ (e = "TIMEOUT_A" => Due(a))
      BY <2>4 DEF TimersExecute, AddEvent, TimerEvents, Transitions
    <3>2. e = "TIMEOUT_A" => aLength # Off
      BY <3>1 DEF IInv, AStopped, Due, Off
    <3>3. e \in Events
      BY DEF TimerEvents, Events, Transitions
    <3>4. Len(<<e>>) = 1 /\ <<e>>[1] = e /\ <<e>> \in Seq(Events)
      BY <3>3
    <3> QED
      BY <1>1, <3>1, <3>2, <3>4 DEF TimeoutsNeverStale
  <2>5. CASE Discard
    BY <2>5, TailHasNoTimeout DEF Discard, TimeoutsNeverStale
  <2>6. CASE (\E r \in Responses : Respond(r)) \/ (\E m \in toServer \cup toClient : Lose(m))
    BY <1>1, <2>6 DEF Respond, Lose, ictvars, IInv, TypeOK, TimeoutsNeverStale
  <2> QED
    BY <2>2, <2>3, <2>4, <2>5, <2>6
<1> QED
  BY <1>1, <1>2, <1>3
     DEF IInv, TypeOK, AStopped, OutcomeOnce, ToldByState, CompletedHasFailure,
         NeverSilentInv, NeverSilent

(* Time passes. *)
LEMMA TickStep == IInv /\ Tick => IInv'
<1> SUFFICES ASSUME IInv, Tick PROVE IInv'
  OBVIOUS
<1>1. UNCHANGED <<reliable, state, aLength, fifo, told, final, invites, toServer, toClient>>
  BY DEF Tick, ElapseTimers, wire
<1>2. a' \in Times /\ b' \in Times /\ d' \in Times /\ (a' = Off <=> a = Off)
  BY DEF Tick, ElapseTimers, Elapse, IInv, TypeOK, Times, Off
<1> QED
  BY <1>1, <1>2
     DEF IInv, TypeOK, AStopped, OutcomeOnce, ToldByState, CompletedHasFailure,
         NeverSilentInv, NeverSilent, TimeoutsNeverStale

-----------------------------------------------------------------------------
(* The handlers.                                                           *)

(* A call of callbacks counts once more each of them, and only them. *)
LEMMA CallStep ==
  ASSUME TypeOK, NEW callbacks, Call(callbacks)
  PROVE  /\ told' \in [Callbacks -> 0..2]
         /\ \A c \in Callbacks :
              told'[c] = IF c \in callbacks THEN More(told[c]) ELSE told[c]
<1>1. told' = [c \in Callbacks |-> IF c \in callbacks THEN More(told[c]) ELSE told[c]]
  BY DEF Call
<1>2. \A c \in Callbacks : told[c] \in 0..2 /\ More(told[c]) \in 0..2
  BY DEF TypeOK, More
<1> QED
  BY <1>1, <1>2

(* The user is told of the error, then the transaction is killed. *)
LEMMA TransportErrorStep ==
  ASSUME IInv, state # "TERMINATED", HandleTransportError
  PROVE  /\ told' \in [Callbacks -> 0..2] /\ state' = "TERMINATED"
         /\ told'["kill"] = 1 /\ told'["error"] = 1 /\ told'["timeout"] = 0
         /\ told'["final"] = told["final"] /\ told'["provisional"] = told["provisional"]
<1>1. Call({"error", "kill"}) /\ state' = "TERMINATED"
  BY DEF HandleTransportError
<1>2. told["kill"] = 0 /\ told["error"] = 0 /\ told["timeout"] = 0
  BY DEF IInv, OutcomeOnce, ToldByState
<1> QED
  <2>1. /\ told' \in [Callbacks -> 0..2]
        /\ \A c \in Callbacks :
             told'[c] = IF c \in {"error", "kill"} THEN More(told[c]) ELSE told[c]
    BY <1>1, CallStep DEF IInv
  <2>2. More(0) = 1
    BY DEF More
  <2>3. told'["kill"] = More(told["kill"]) /\ told'["error"] = More(told["error"])
    BY <2>1 DEF Callbacks
  <2>4. told'["timeout"] = told["timeout"] /\ told'["final"] = told["final"]
    BY <2>1 DEF Callbacks
  <2>5. told'["provisional"] = told["provisional"]
    BY <2>1 DEF Callbacks
  <2> QED
    BY <1>1, <1>2, <2>1, <2>2, <2>3, <2>4, <2>5

(* The INVITE is sent for the first time or again. *)
LEMMA SendRequestStep ==
  ASSUME IInv, NEW i \in SendResults, SendRequest(i)
  PROVE  /\ invites' \in Nat
         /\ toServer' \subseteq {"INVITE", "ACK"} /\ toClient' \subseteq Responses
<1>1. invites \in Nat /\ toServer \subseteq {"INVITE", "ACK"} /\ toClient \subseteq Responses
  BY DEF IInv, TypeOK
<1>2. CASE i = "sent"
  <2>1. /\ toServer' = toServer \cup {"INVITE"} /\ toClient' = toClient
        /\ invites' = invites + 1
    BY <1>2 DEF SendRequest, Put
  <2> QED
    BY <1>1, <2>1
<1>3. CASE i # "sent"
  <2>1. UNCHANGED <<invites, toServer, toClient>>
    BY <1>3 DEF SendRequest, wire
  <2> QED
    BY <1>1, <2>1
<1> QED
  BY <1>2, <1>3

(* SND_REQINVITE, handled once. *)
LEMMA SendInviteStep == IInv /\ ict_snd_invite => IInv'
<1> SUFFICES ASSUME IInv, ict_snd_invite PROVE IInv'
  OBVIOUS
<1>1. "SND_REQINVITE" \in Events /\ Handle("SND_REQINVITE") /\ state = "PRE_CALLING"
  BY DEF ict_snd_invite, Handle, Transitions, Events
<1>2. fifo' \in Seq(Events) /\ TimeoutsNeverStale'
  BY <1>1, HandleKeepsFifo
<1>3. UNCHANGED <<reliable, b, d, final>>
  BY DEF ict_snd_invite
<1>4. PICK i \in SendResults :
        /\ SendRequest(i)
        /\ IF i = "error"
             THEN HandleTransportError /\ UNCHANGED <<a, aLength>>
             ELSE /\ state' = "CALLING"
                  /\ a' = IF StopsA(i) THEN Off ELSE a
                  /\ aLength' = IF StopsA(i) THEN Off ELSE aLength
                  /\ UNCHANGED told
  BY DEF ict_snd_invite
<1>5. /\ invites' \in Nat
      /\ toServer' \subseteq {"INVITE", "ACK"} /\ toClient' \subseteq Responses
  BY <1>4, SendRequestStep
<1>6. CASE i = "error"
  <2>1. UNCHANGED <<a, aLength>> /\ HandleTransportError
    BY <1>4, <1>6
  <2> QED
    BY <1>1, <1>2, <1>3, <1>5, <2>1, TransportErrorStep
       DEF IInv, TypeOK, AStopped, OutcomeOnce, ToldByState, CompletedHasFailure,
           NeverSilentInv, NeverSilent, States
<1>7. CASE i # "error"
  <2>1. state' = "CALLING" /\ UNCHANGED told
    BY <1>4, <1>7
  <2>2. a' \in Times /\ aLength' \in Times /\ (a' = Off <=> aLength' = Off)
    BY <1>4, <1>7 DEF IInv, TypeOK, AStopped, Times, Off
  <2> QED
    BY <1>1, <1>2, <1>3, <1>5, <2>1, <2>2
       DEF IInv, TypeOK, AStopped, OutcomeOnce, ToldByState, CompletedHasFailure,
           NeverSilentInv, NeverSilent, States
<1> QED
  BY <1>6, <1>7

(* Timer A: the length is never that of a stopped timer, so that its double *)
(* is a length.                                                            *)
LEMMA TimeoutAStep == IInv /\ osip_ict_timeout_a_event => IInv'
<1> SUFFICES ASSUME IInv, osip_ict_timeout_a_event PROVE IInv'
  OBVIOUS
<1>1. "TIMEOUT_A" \in Events /\ Handle("TIMEOUT_A") /\ state = "CALLING"
  BY DEF osip_ict_timeout_a_event, Handle, Transitions, Events
<1>2. fifo' \in Seq(Events) /\ TimeoutsNeverStale' /\ aLength # Off
  BY <1>1, HandleKeepsFifo
<1>3. UNCHANGED <<reliable, b, d, final>>
  BY DEF osip_ict_timeout_a_event
<1>4. PICK i \in SendResults :
        /\ SendRequest(i)
        /\ a' = IF StopsA(i) THEN Off ELSE Started(Doubled(aLength))
        /\ aLength' = IF StopsA(i) THEN Off ELSE Doubled(aLength)
        /\ IF i = "error" THEN HandleTransportError
                          ELSE UNCHANGED <<state, told>>
  BY DEF osip_ict_timeout_a_event
<1>5. /\ invites' \in Nat
      /\ toServer' \subseteq {"INVITE", "ACK"} /\ toClient' \subseteq Responses
  BY <1>4, SendRequestStep
<1>6. a' \in Times /\ aLength' \in Times /\ (a' = Off <=> aLength' = Off)
  <2>1. aLength \in Nat
    BY <1>2 DEF IInv, TypeOK, Times
  <2>2. Doubled(aLength) \in Nat /\ Started(Doubled(aLength)) \in Nat
    BY <2>1 DEF Doubled, Started
  <2> QED
    BY <1>4, <2>2 DEF Times, Off
<1>7. CASE i = "error"
  <2>1. HandleTransportError
    BY <1>4, <1>7
  <2> QED
    BY <1>1, <1>2, <1>3, <1>5, <1>6, <2>1, TransportErrorStep
       DEF IInv, TypeOK, AStopped, OutcomeOnce, ToldByState, CompletedHasFailure,
           NeverSilentInv, NeverSilent, States
<1>8. CASE i # "error"
  <2>1. UNCHANGED <<state, told>>
    BY <1>4, <1>8
  <2> QED
    BY <1>1, <1>2, <1>3, <1>5, <1>6, <2>1
       DEF IInv, TypeOK, AStopped, OutcomeOnce, ToldByState, CompletedHasFailure,
           NeverSilentInv, NeverSilent, States
<1> QED
  BY <1>7, <1>8

(* Timer B, a provisional answer, a 2xx and timer D. *)
LEMMA SimpleSteps ==
  IInv /\ (osip_ict_timeout_b_event \/ ict_rcv_1xx \/ ict_rcv_2xx \/ osip_ict_timeout_d_event)
    => IInv'
<1> SUFFICES ASSUME IInv,
                    osip_ict_timeout_b_event \/ ict_rcv_1xx \/ ict_rcv_2xx
                      \/ osip_ict_timeout_d_event
             PROVE  IInv'
  OBVIOUS
<1>1. fifo' \in Seq(Events) /\ TimeoutsNeverStale'
  <2>1. \E e \in Events : Handle(e)
    BY DEF osip_ict_timeout_b_event, ict_rcv_1xx, ict_rcv_2xx,
           osip_ict_timeout_d_event, Events, Transitions
  <2> QED
    BY <2>1, HandleKeepsFifo
<1>2. CASE osip_ict_timeout_b_event
  BY <1>1, <1>2
     DEF osip_ict_timeout_b_event, Handle, Transitions, Call, More, wire, Callbacks,
         IInv, TypeOK, AStopped, OutcomeOnce, ToldByState, CompletedHasFailure,
         NeverSilentInv, NeverSilent, States, Times
<1>3. CASE ict_rcv_1xx
  BY <1>1, <1>3
     DEF ict_rcv_1xx, Handle, Transitions, Call, More, wire, timers, Callbacks, IInv,
         TypeOK, AStopped, OutcomeOnce, ToldByState, CompletedHasFailure,
         NeverSilentInv, NeverSilent, States
<1>4. CASE ict_rcv_2xx
  BY <1>1, <1>4
     DEF ict_rcv_2xx, Handle, Transitions, Call, More, wire, timers, Callbacks, IInv,
         TypeOK, AStopped, OutcomeOnce, ToldByState, CompletedHasFailure,
         NeverSilentInv, NeverSilent, States
<1>5. CASE osip_ict_timeout_d_event
  BY <1>1, <1>5
     DEF osip_ict_timeout_d_event, Handle, Transitions, Call, More, wire, Callbacks,
         IInv, TypeOK, AStopped, OutcomeOnce, ToldByState, CompletedHasFailure,
         NeverSilentInv, NeverSilent, States, Times
<1> QED
  BY <1>2, <1>3, <1>4, <1>5

(* A failure, the first or a retransmitted one. *)
LEMMA FailureStep == IInv /\ (ict_rcv_3456xx \/ ict_retransmit_ack) => IInv'
<1> SUFFICES ASSUME IInv, ict_rcv_3456xx \/ ict_retransmit_ack PROVE IInv'
  OBVIOUS
<1>1. /\ "RCV_3456XX" \in Events /\ Handle("RCV_3456XX")
      /\ state \in {"CALLING", "PROCEEDING", "COMPLETED"}
  BY DEF ict_rcv_3456xx, ict_retransmit_ack, Handle, Transitions, Events
<1>2. fifo' \in Seq(Events) /\ TimeoutsNeverStale'
  BY <1>1, HandleKeepsFifo
<1>3. toServer' \subseteq {"INVITE", "ACK"} /\ toClient' \subseteq Responses
  BY DEF ict_rcv_3456xx, ict_retransmit_ack, Put, wire, IInv, TypeOK
<1>4. ASSUME state # "COMPLETED", final' = "3456XX", Call({"final"}), state' = "COMPLETED",
             d' = LengthOfD, UNCHANGED <<reliable, a, aLength, b, invites>>
      PROVE  IInv'
  <2>1. d' \in Times
    BY <1>4, TimerAssumption DEF LengthOfD, Times
  <2>2. /\ told' \in [Callbacks -> 0..2] /\ told'["final"] = 1
        /\ \A c \in Callbacks \ {"final"} : told'[c] = told[c]
    <3>1. told["final"] = 0
      BY <1>1, <1>4 DEF IInv, ToldByState
    <3> QED
      BY <1>4, <3>1, CallStep DEF IInv, More, Callbacks
  <2>3. final = "none"
    BY <1>1, <1>4 DEF IInv, OutcomeOnce, ToldByState
  <2> QED
    BY <1>1, <1>2, <1>3, <1>4, <2>1, <2>2, <2>3
       DEF IInv, TypeOK, AStopped, OutcomeOnce, ToldByState, CompletedHasFailure,
           NeverSilentInv, NeverSilent, States, Callbacks
<1>5. ASSUME HandleTransportError, UNCHANGED <<reliable, a, aLength, b, d, final, invites>>
      PROVE  IInv'
  BY <1>1, <1>2, <1>3, <1>5, TransportErrorStep
     DEF IInv, TypeOK, AStopped, OutcomeOnce, ToldByState, CompletedHasFailure,
         NeverSilentInv, NeverSilent, States
<1>6. ASSUME AckMayFail, state # "COMPLETED", Call({"kill"}), state' = "TERMINATED",
             UNCHANGED <<reliable, a, aLength, b, d, final, invites>>
      PROVE  IInv'
  <2>1. /\ told' \in [Callbacks -> 0..2] /\ told'["kill"] = 1
        /\ \A c \in Callbacks \ {"kill"} : told'[c] = told[c]
    <3>1. told["kill"] = 0
      BY <1>1, <1>6 DEF IInv, OutcomeOnce
    <3> QED
      BY <1>6, <3>1, CallStep DEF IInv, More, Callbacks
  <2> QED
    BY <1>1, <1>2, <1>3, <1>6, <2>1
       DEF IInv, TypeOK, AStopped, OutcomeOnce, ToldByState, CompletedHasFailure,
           NeverSilentInv, NeverSilent, States, Callbacks
<1>7. ASSUME UNCHANGED <<reliable, state, a, aLength, b, d, told, final, invites>> PROVE IInv'
  BY <1>2, <1>3, <1>7
     DEF IInv, TypeOK, AStopped, OutcomeOnce, ToldByState, CompletedHasFailure,
         NeverSilentInv, NeverSilent
<1>8. CASE ict_rcv_3456xx
  BY <1>4, <1>5, <1>6, <1>8 DEF ict_rcv_3456xx
<1>9. CASE ict_retransmit_ack
  BY <1>5, <1>7, <1>9 DEF ict_retransmit_ack, timers
<1> QED
  BY <1>8, <1>9

-----------------------------------------------------------------------------
(* Every step of the transaction, of its server and of the network. *)
LEMMA StepIInv == IInv /\ [Next]_vars => IInv'
<1> SUFFICES ASSUME IInv, [Next]_vars PROVE IInv'
  OBVIOUS
<1>1. CASE UNCHANGED vars
  BY <1>1
     DEF vars, ictvars, timers, wire, IInv, TypeOK, AStopped, OutcomeOnce, ToldByState,
         CompletedHasFailure, NeverSilentInv, NeverSilent, TimeoutsNeverStale
<1>2. CASE Execute
  BY <1>2, QueueSteps, SendInviteStep, TimeoutAStep, SimpleSteps, FailureStep
     DEF Execute
<1> QED
  BY <1>1, <1>2, QueueSteps, TickStep DEF Next, IctNext

(* The invariant holds in every reachable state. *)
LEMMA Inductive == Spec => []IInv
  BY InitIInv, StepIInv, PTL DEF Spec

(* Type correctness of the INVITE client transaction. *)
THEOREM IctTypeCorrect == Spec => []TypeOK
  BY Inductive, PTL DEF IInv

(* The user learns the outcome of an INVITE once, and the transaction is    *)
(* killed once, when it terminates.                                        *)
THEOREM IctOutcomeOnce == Spec => []OutcomeOnce
  BY Inductive, PTL DEF IInv

(* Polling the timers only when the fifo is empty is enough to keep every  *)
(* queued timeout from being handled in a state it was not meant for.      *)
THEOREM IctTimeoutsNeverStale == Spec => []TimeoutsNeverStale
  BY Inductive, PTL DEF IInv

(* As long as an ACK can be made, no INVITE ends without a final response, *)
(* a timeout or a transport error for its user.                            *)
THEOREM IctNeverSilent == ~AckMayFail => (Spec => []NeverSilent)
<1> SUFFICES ASSUME ~AckMayFail PROVE Spec => []NeverSilent
  OBVIOUS
<1>1. IInv => NeverSilent
  BY DEF IInv, NeverSilentInv
<1> QED
  BY <1>1, Inductive, PTL

(* No INVITE leaves after the user was told of an answer, and no ACK but    *)
(* that of a failure.                                                      *)
THEOREM IctNoRequestAfterAnswer == Spec => NoRequestAfterAnswer
<1>1. IInv /\ [Next]_vars => [SendsWhatItMay]_vars
  <2> SUFFICES ASSUME IInv, Next PROVE SendsWhatItMay
    OBVIOUS
  <2>1. CASE ict_snd_invite \/ osip_ict_timeout_a_event
    <3>1. state \in {"PRE_CALLING", "CALLING"}
      BY <2>1 DEF ict_snd_invite, osip_ict_timeout_a_event, Handle, Transitions
    <3>2. "ACK" \notin toServer' \ toServer
      BY <2>1 DEF ict_snd_invite, osip_ict_timeout_a_event, SendRequest, Put, wire
    <3> QED
      BY <3>1, <3>2 DEF IInv, ToldByState, SendsWhatItMay
  <2>2. CASE ict_rcv_3456xx
    BY <2>2 DEF ict_rcv_3456xx, Put, wire, SendsWhatItMay
  <2>3. CASE ict_retransmit_ack
    <3>1. state = "COMPLETED" /\ final' = final /\ invites' = invites
      BY <2>3 DEF ict_retransmit_ack
    <3>2. "ACK" \in toServer' \ toServer => state' = state
      BY <2>3 DEF ict_retransmit_ack, Put, wire
    <3> QED
      BY <3>1, <3>2 DEF IInv, CompletedHasFailure, SendsWhatItMay
  <2>4. CASE \/ Discard \/ osip_ict_timeout_b_event \/ ict_rcv_1xx \/ ict_rcv_2xx
             \/ osip_ict_timeout_d_event \/ SendInvite \/ TimersExecute \/ Tick
             \/ \E r \in Responses, copy \in BOOLEAN : Receive(r, copy)
             \/ \E r \in Responses : Respond(r)
             \/ \E m \in toServer \cup toClient : Lose(m)
    <3>1. invites' = invites /\ toServer' \subseteq toServer
      BY <2>4
         DEF Discard, osip_ict_timeout_b_event, ict_rcv_1xx, ict_rcv_2xx,
             osip_ict_timeout_d_event, SendInvite, TimersExecute, Tick, ElapseTimers,
             Receive, Respond, Lose, wire, ictvars
    <3> QED
      BY <3>1 DEF SendsWhatItMay
  <2> QED
    BY <2>1, <2>2, <2>3, <2>4 DEF Next, IctNext, Execute
<1> QED
  BY <1>1, Inductive, PTL DEF Spec, NoRequestAfterAnswer
=============================================================================
