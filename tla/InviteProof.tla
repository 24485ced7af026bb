----------------------------- MODULE InviteProof -----------------------------
(***************************************************************************)
(* The two ends of an INVITE transaction: an ACK of a failure means that   *)
(* the failure was told to the client's user, whatever the network loses,  *)
(* copies and reorders, for any timers, fifos, number of sessions and of   *)
(* faults.                                                                 *)
(***************************************************************************)
EXTENDS InviteTransaction, SequenceTheorems, TLAPS

(* The client's user is told of a final response as soon as there is one,  *)
(* and only the end of the transaction follows.                            *)
ToldOfFinal ==
  /\ final \in {"none", "2XX", "3456XX"}
  /\ cTold["final"] = (IF final = "none" THEN 0 ELSE 1)
  /\ final # "none" => cState \in {"COMPLETED", "TERMINATED"}
  /\ cState = "COMPLETED" => final = "3456XX"

(* An ACK that is on its way, that waits or that the server's user was     *)
(* told of.                                                                *)
AckWaits(fifo) == \E n \in 1..Len(fifo) : fifo[n] = "RCV_REQACK"
Acknowledged   == "ACK" \in toServer \/ AckWaits(sFifo) \/ sTold["ack"] > 0

AckInv ==
  /\ sFifo \in Seq(Server!Events) /\ ToldOfFinal
  /\ Acknowledged => final = "3456XX"

-----------------------------------------------------------------------------
(* What waits in a fifo that changed at one end waited in it before, or    *)
(* was added.                                                              *)
LEMMA AckWaitsAfter ==
  ASSUME NEW E, NEW fifo \in Seq(E)
  PROVE  /\ fifo # <<>> => /\ AckWaits(Tail(fifo)) => AckWaits(fifo)
                           /\ Head(fifo) = "RCV_REQACK" => AckWaits(fifo)
                           /\ Tail(fifo) \in Seq(E)
         /\ \A ev \in E : /\ AckWaits(Append(fifo, ev)) => AckWaits(fifo) \/ ev = "RCV_REQACK"
                          /\ Append(fifo, ev) \in Seq(E)
<1>1. ASSUME fifo # <<>>
      PROVE  /\ AckWaits(Tail(fifo)) => AckWaits(fifo)
             /\ Head(fifo) = "RCV_REQACK" => AckWaits(fifo)
             /\ Tail(fifo) \in Seq(E)
  <2>1. /\ Len(fifo) \in Nat /\ Len(fifo) >= 1 /\ Head(fifo) = fifo[1]
        /\ Len(Tail(fifo)) = Len(fifo) - 1 /\ Tail(fifo) \in Seq(E)
        /\ \A n \in 1..Len(Tail(fifo)) : Tail(fifo)[n] = fifo[n + 1]
    BY <1>1, HeadTailProperties
  <2>2. ASSUME AckWaits(Tail(fifo)) PROVE AckWaits(fifo)
    <3>1. PICK n \in 1..Len(Tail(fifo)) : Tail(fifo)[n] = "RCV_REQACK"
      BY <2>2 DEF AckWaits
    <3>2. n + 1 \in 1..Len(fifo) /\ fifo[n + 1] = "RCV_REQACK"
      BY <2>1, <3>1
    <3> QED
      BY <3>2 DEF AckWaits
  <2>3. Head(fifo) = "RCV_REQACK" => AckWaits(fifo)
    BY <2>1 DEF AckWaits
  <2> QED
    BY <2>1, <2>2, <2>3
<1>2. ASSUME NEW ev \in E, AckWaits(Append(fifo, ev))
      PROVE  AckWaits(fifo) \/ ev = "RCV_REQACK"
  <2>1. PICK n \in 1..Len(Append(fifo, ev)) : Append(fifo, ev)[n] = "RCV_REQACK"
    BY <1>2 DEF AckWaits
  <2>2. /\ Len(fifo) \in Nat /\ n \in 1..(Len(fifo) + 1)
        /\ Append(fifo, ev)[n] = IF n <= Len(fifo) THEN fifo[n] ELSE ev
    BY <2>1, AppendProperties
  <2>3. CASE n <= Len(fifo)
    BY <2>1, <2>2, <2>3 DEF AckWaits
  <2>4. CASE ~(n <= Len(fifo))
    BY <2>1, <2>2, <2>4
  <2> QED
    BY <2>3, <2>4
<1> QED
  BY <1>1, <1>2, AppendProperties

(* Nothing was acknowledged yet.                                           *)
LEMMA AckInitially == Init => AckInv
BY DEF Init, AckInv, ToldOfFinal, Acknowledged, AckWaits, Client!IctInit, Client!Callbacks,
       Server!IstInit, Server!Callbacks

-----------------------------------------------------------------------------
(* The client sends an ACK for nothing but a failure it has told of.       *)
LEMMA ClientHandles ==
  ASSUME ToldOfFinal, Client!Execute
  PROVE  /\ ToldOfFinal' /\ (final = "3456XX" => final' = "3456XX")
         /\ "ACK" \in toServer' => "ACK" \in toServer \/ final' = "3456XX"
<1>1. \A S \in SUBSET Client!Callbacks : Client!Call(S) =>
        /\ "final" \notin S => cTold'["final"] = cTold["final"]
        /\ ("final" \in S /\ cTold["final"] = 0) => cTold'["final"] = 1
  <2> SUFFICES ASSUME NEW S \in SUBSET Client!Callbacks, Client!Call(S)
               PROVE  cTold'["final"] = IF "final" \in S THEN Client!More(cTold["final"])
                                                         ELSE cTold["final"]
    BY DEF Client!More
  <2>1. "final" \in Client!Callbacks
    BY DEF Client!Callbacks
  <2> QED
    BY <2>1 DEF Client!Call
<1>2. /\ {"error", "kill"} \in SUBSET Client!Callbacks /\ {"kill"} \in SUBSET Client!Callbacks
      /\ {"timeout", "kill"} \in SUBSET Client!Callbacks
      /\ {"provisional"} \in SUBSET Client!Callbacks
      /\ {"final"} \in SUBSET Client!Callbacks /\ {"final", "kill"} \in SUBSET Client!Callbacks
  BY DEF Client!Callbacks
<1>3. \A S \in {{"error", "kill"}, {"kill"}, {"timeout", "kill"}, {"provisional"}} :
        Client!Call(S) => cTold'["final"] = cTold["final"]
  BY <1>1, <1>2
<1>4. \A S \in {{"final"}, {"final", "kill"}} :
        (Client!Call(S) /\ cTold["final"] = 0) => cTold'["final"] = 1
  BY <1>1, <1>2
<1>5. CASE Client!Discard
  BY <1>5 DEF Client!Discard, Client!wire, ToldOfFinal
<1>6. CASE Client!ict_snd_invite
  <2>1. /\ cState = "PRE_CALLING" /\ UNCHANGED final
        /\ toServer' \in {toServer, toServer \cup {"INVITE"}}
        /\ \/ cState' = "CALLING" /\ UNCHANGED cTold
           \/ cState' = "TERMINATED" /\ cTold'["final"] = cTold["final"]
    BY <1>3, <1>6 DEF Client!ict_snd_invite, Client!Handle, Client!Transitions, Client!SendRequest,
       Client!Put, Client!wire, Client!HandleTransportError
  <2> QED
    BY <2>1 DEF ToldOfFinal
<1>7. CASE Client!osip_ict_timeout_a_event
  <2>1. /\ cState = "CALLING" /\ UNCHANGED final
        /\ toServer' \in {toServer, toServer \cup {"INVITE"}}
        /\ \/ UNCHANGED <<cState, cTold>>
           \/ cState' = "TERMINATED" /\ cTold'["final"] = cTold["final"]
    BY <1>3, <1>7 DEF Client!osip_ict_timeout_a_event, Client!Handle, Client!Transitions,
       Client!SendRequest, Client!Put, Client!wire, Client!HandleTransportError
  <2> QED
    BY <2>1 DEF ToldOfFinal
<1>8. CASE Client!osip_ict_timeout_b_event \/ Client!osip_ict_timeout_d_event
  <2>1. /\ cState' = "TERMINATED" /\ UNCHANGED <<final, toServer>>
        /\ cTold'["final"] = cTold["final"]
    BY <1>3, <1>8 DEF Client!osip_ict_timeout_b_event, Client!osip_ict_timeout_d_event, Client!wire
  <2> QED
    BY <2>1 DEF ToldOfFinal
<1>9. CASE Client!ict_rcv_1xx
  <2>1. /\ cState \in {"CALLING", "PROCEEDING"} /\ cState' = "PROCEEDING"
        /\ UNCHANGED <<final, toServer>> /\ cTold'["final"] = cTold["final"]
    BY <1>3, <1>9 DEF Client!ict_rcv_1xx, Client!Handle, Client!Transitions, Client!wire
  <2> QED
    BY <2>1 DEF ToldOfFinal
<1>10. CASE Client!ict_rcv_2xx
  <2>1. /\ cState \in {"CALLING", "PROCEEDING"} /\ cState' = "TERMINATED" /\ final' = "2XX"
        /\ UNCHANGED toServer /\ Client!Call({"final", "kill"})
    BY <1>10 DEF Client!ict_rcv_2xx, Client!Handle, Client!Transitions, Client!wire
  <2>2. final = "none" /\ cTold["final"] = 0
    BY <2>1 DEF ToldOfFinal
  <2> QED
    BY <1>4, <2>1, <2>2 DEF ToldOfFinal
<1>11. CASE Client!ict_rcv_3456xx
  <2>1. /\ cState \in {"CALLING", "PROCEEDING"}
        /\ \/ /\ final' = "3456XX" /\ cState' = "COMPLETED" /\ Client!Call({"final"})
           \/ /\ cState' = "TERMINATED" /\ UNCHANGED <<final, toServer>>
              /\ cTold'["final"] = cTold["final"]
    BY <1>3, <1>11 DEF Client!ict_rcv_3456xx, Client!Handle, Client!Transitions, Client!Put,
       Client!HandleTransportError, Client!wire
  <2>2. final = "none" /\ cTold["final"] = 0
    BY <2>1 DEF ToldOfFinal
  <2> QED
    BY <1>4, <2>1, <2>2 DEF ToldOfFinal
<1>12. CASE Client!ict_retransmit_ack
  <2>1. /\ cState = "COMPLETED" /\ cState' \in {"COMPLETED", "TERMINATED"} /\ UNCHANGED final
        /\ cTold'["final"] = cTold["final"]
    BY <1>3, <1>12 DEF Client!ict_retransmit_ack, Client!Put, Client!HandleTransportError,
       Client!wire
  <2> QED
    BY <2>1 DEF ToldOfFinal
<1> QED
  BY <1>5, <1>6, <1>7, <1>8, <1>9, <1>10, <1>11, <1>12 DEF Client!Execute

(* A step of the client.                                                   *)
LEMMA ClientSteps ==
  ASSUME AckInv, ClientReceives \/ ClientRuns
  PROVE  AckInv'
<1>1. UNCHANGED <<sFifo, sTold>>
  BY DEF ClientReceives, ClientRuns, server
<1>2. /\ ToldOfFinal' /\ (final = "3456XX" => final' = "3456XX")
      /\ "ACK" \in toServer' => "ACK" \in toServer \/ final' = "3456XX"
  <2>1. ToldOfFinal
    BY DEF AckInv
  <2>2. CASE Client!Execute
    BY <2>1, <2>2, ClientHandles
  <2>3. CASE ClientReceives \/ Client!SendInvite \/ Client!TimersExecute
    <3>1. UNCHANGED <<cState, cTold, final, toServer>>
      BY <2>3 DEF ClientReceives, Client!Receive, Client!SendInvite, Client!TimersExecute,
         Client!wire
    <3> QED
      BY <2>1, <3>1 DEF ToldOfFinal
  <2> QED
    BY <2>2, <2>3 DEF ClientRuns
<1>3. Acknowledged' => Acknowledged \/ final' = "3456XX"
  BY <1>1, <1>2 DEF Acknowledged, AckWaits
<1> QED
  BY <1>1, <1>2, <1>3 DEF AckInv

(* The server's user is told of an ACK that waited.                        *)
LEMMA ServerHandles ==
  ASSUME sFifo \in Seq(Server!Events), Server!Execute
  PROVE  /\ sFifo' \in Seq(Server!Events) /\ UNCHANGED toServer
         /\ Acknowledged' => Acknowledged
<1>1. sFifo # <<>> /\ sFifo' = Tail(sFifo)
  BY DEF Server!Execute, Server!Discard, Server!ist_rcv_invite, Server!ist_rcv_invite_again,
     Server!osip_ist_timeout_g_event, Server!osip_ist_timeout_h_event,
     Server!osip_ist_timeout_i_event, Server!ist_snd_1xx, Server!ist_snd_2xx,
     Server!ist_snd_3456xx, Server!ist_rcv_ack, Server!Handle
<1>2. UNCHANGED toServer
  BY DEF Server!Execute, Server!Discard, Server!ist_rcv_invite, Server!ist_rcv_invite_again,
     Server!osip_ist_timeout_g_event, Server!osip_ist_timeout_h_event,
     Server!osip_ist_timeout_i_event, Server!ist_snd_1xx, Server!ist_snd_2xx,
     Server!ist_snd_3456xx, Server!ist_rcv_ack, Server!Sent, Server!NotSent, Server!wire
<1>3. \A S \in {{"invite"}, {"kill"}, {"error", "kill"}} :
        Server!Call(S) => sTold'["ack"] = sTold["ack"]
  <2>1. "ack" \in Server!Callbacks
    BY DEF Server!Callbacks
  <2> QED
    BY <2>1 DEF Server!Call
<1>4. sTold'["ack"] = sTold["ack"] \/ Head(sFifo) = "RCV_REQACK"
  <2>1. CASE \/ Server!Discard \/ Server!ist_rcv_invite \/ Server!ist_rcv_invite_again
             \/ Server!osip_ist_timeout_g_event
    BY <1>3, <2>1 DEF Server!Discard, Server!ist_rcv_invite, Server!ist_rcv_invite_again,
       Server!osip_ist_timeout_g_event, Server!NotSent, Server!HandleTransportError
  <2>2. CASE \/ Server!osip_ist_timeout_h_event \/ Server!osip_ist_timeout_i_event
             \/ Server!ist_snd_1xx \/ Server!ist_snd_2xx \/ Server!ist_snd_3456xx
    BY <1>3, <2>2 DEF Server!osip_ist_timeout_h_event, Server!osip_ist_timeout_i_event,
       Server!ist_snd_1xx, Server!ist_snd_2xx, Server!ist_snd_3456xx, Server!NotSent,
       Server!HandleTransportError
  <2>3. CASE Server!ist_rcv_ack
    BY <2>3 DEF Server!ist_rcv_ack, Server!Handle
  <2> QED
    BY <2>1, <2>2, <2>3 DEF Server!Execute
<1>5. /\ AckWaits(Tail(sFifo)) => AckWaits(sFifo)
      /\ Head(sFifo) = "RCV_REQACK" => AckWaits(sFifo)
      /\ Tail(sFifo) \in Seq(Server!Events)
  BY <1>1, AckWaitsAfter
<1> QED
  BY <1>1, <1>2, <1>4, <1>5 DEF Acknowledged, AckWaits

(* A step of the server: nothing is acknowledged by it.                    *)
LEMMA ServerSteps ==
  ASSUME AckInv, ServerReceives \/ ServerAnswers \/ ServerRuns
  PROVE  AckInv'
<1>1. UNCHANGED <<cState, cTold, final>> /\ sFifo \in Seq(Server!Events)
  BY DEF ServerReceives, ServerAnswers, ServerRuns, client, AckInv
<1>2. sFifo' \in Seq(Server!Events) /\ (Acknowledged' => Acknowledged)
  <2>1. CASE \E copy \in BOOLEAN : Server!Create(copy)
    <3>1. /\ sFifo' = <<"RCV_REQINVITE">> /\ toServer' \subseteq toServer
          /\ sTold' = [c \in Server!Callbacks |-> 0]
      BY <2>1 DEF Server!Create, Server!Arrives
    <3>2. sTold'["ack"] = 0 /\ "RCV_REQINVITE" \in Server!Events
      BY <3>1 DEF Server!Callbacks, Server!Events, Server!Transitions
    <3>3. ~AckWaits(sFifo')
      BY <3>1 DEF AckWaits
    <3> QED
      BY <3>1, <3>2, <3>3 DEF Acknowledged, AckWaits
  <2>2. CASE \E copy \in BOOLEAN, m \in {"INVITE", "ACK"} : Server!Receive(m, copy)
    <3>1. PICK m \in {"INVITE", "ACK"} :
            /\ m \in toServer /\ toServer' \subseteq toServer /\ UNCHANGED sTold
            /\ sFifo' = Append(sFifo, IF m = "ACK" THEN "RCV_REQACK" ELSE "RCV_REQINVITE")
      BY <2>2 DEF Server!Receive, Server!Arrives, Server!AddEvent
    <3>2. "RCV_REQACK" \in Server!Events /\ "RCV_REQINVITE" \in Server!Events
      BY DEF Server!Events, Server!Transitions
    <3>3. PICK ev \in Server!Events : /\ sFifo' = Append(sFifo, ev)
                                      /\ ev = "RCV_REQACK" => "ACK" \in toServer
      BY <3>1, <3>2
    <3>4. /\ AckWaits(Append(sFifo, ev)) => AckWaits(sFifo) \/ ev = "RCV_REQACK"
          /\ Append(sFifo, ev) \in Seq(Server!Events)
      BY <1>1, AckWaitsAfter
    <3> QED
      BY <3>1, <3>3, <3>4 DEF Acknowledged, AckWaits
  <2>3. CASE (\E r \in Server!Answers : Server!Answer(r)) \/ Server!TimersExecute
    <3>1. \A r \in Server!Answers : /\ Server!EventOf(r) \in Server!Events
                                    /\ Server!EventOf(r) # "RCV_REQACK"
      BY DEF Server!Answers, Server!EventOf, Server!Events, Server!Transitions
    <3>2. {"TIMEOUT_G", "TIMEOUT_H", "TIMEOUT_I"} \subseteq Server!Events
      BY DEF Server!Events, Server!Transitions
    <3>3. /\ UNCHANGED <<toServer, sTold>>
          /\ \E ev \in Server!Events : sFifo' = Append(sFifo, ev) /\ ev # "RCV_REQACK"
      BY <2>3, <3>1, <3>2 DEF Server!Answer, Server!TimersExecute, Server!AddEvent, Server!wire
    <3>4. PICK ev \in Server!Events : sFifo' = Append(sFifo, ev) /\ ev # "RCV_REQACK"
      BY <3>3
    <3>5. /\ AckWaits(Append(sFifo, ev)) => AckWaits(sFifo) \/ ev = "RCV_REQACK"
          /\ Append(sFifo, ev) \in Seq(Server!Events)
      BY <1>1, AckWaitsAfter
    <3> QED
      BY <3>3, <3>4, <3>5 DEF Acknowledged, AckWaits
  <2>4. CASE Server!Execute
    BY <1>1, <2>4, ServerHandles
  <2> QED
    BY <2>1, <2>2, <2>3, <2>4 DEF ServerReceives, ServerAnswers, ServerRuns
<1> QED
  BY <1>1, <1>2 DEF AckInv, ToldOfFinal

(* When the server's user is told that the ACK of its failure arrived, the *)
(* client's user has been told of a failure.                               *)
THEOREM AckAlwaysMeansTold == Spec => []AckMeansTold
<1>1. AckInv /\ [Next]_vars => AckInv'
  <2> SUFFICES ASSUME AckInv, [Next]_vars PROVE AckInv'
    OBVIOUS
  <2>1. CASE ClientReceives \/ ClientRuns
    BY <2>1, ClientSteps
  <2>2. CASE ServerReceives \/ ServerAnswers \/ ServerRuns
    BY <2>2, ServerSteps
  <2>3. CASE (\E m \in toServer \cup toClient : Lose(m)) \/ Tick \/ UNCHANGED vars
    <3>1. UNCHANGED <<cState, cTold, final, sFifo, sTold>> /\ toServer' \subseteq toServer
      BY <2>3 DEF Lose, Tick, Client!ElapseTimers, Server!ElapseTimers, client, server, vars,
         network, wire
    <3> QED
      BY <3>1 DEF AckInv, ToldOfFinal, Acknowledged, AckWaits
  <2> QED
    BY <2>1, <2>2, <2>3 DEF Next
<1>2. AckInv => AckMeansTold
  BY DEF AckInv, ToldOfFinal, Acknowledged, AckMeansTold
<1> QED
  BY <1>1, <1>2, AckInitially, PTL DEF Spec
=============================================================================
