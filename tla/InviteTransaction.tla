------------------------- MODULE InviteTransaction -------------------------
(***************************************************************************)
(* An INVITE client transaction (Ict) and the INVITE server transactions   *)
(* (Ist) it meets, over a network that loses, reorders, duplicates and     *)
(* delays.  Both ends are driven by the loop of eXosip_execute, which is   *)
(* fast against T1: time passes only when no event waits and no timer is   *)
(* due.  A copy of the INVITE lives at most Lifetime ticks in the network. *)
(***************************************************************************)
EXTENDS OsipTransaction

CONSTANTS Lifetime,    \* ticks a copy of the INVITE survives in the network
          SlowAnswers, \* may a response stay in the network for a tick?
          MaxFaults    \* bound: messages the network loses or copies

ASSUME InviteAssumption ==
  Lifetime \in Nat \ {0} /\ MaxFaults \in Nat /\ SlowAnswers \in BOOLEAN /\ OneLoop

VARIABLES reliable,
          cState, a, aLength, b, d, cFifo, cTold, final, invites,
          sState, g, gLength, h, i, sFifo, response, sTold, finals, sessions,
          toServer, toClient,
          left,         \* ticks left to the youngest INVITE in the network
          faults

Client == INSTANCE Ict WITH state <- cState, fifo <- cFifo, told <- cTold
Server == INSTANCE Ist WITH state <- sState, fifo <- sFifo, told <- sTold

client  == <<cState, a, aLength, b, d, cFifo, cTold, final, invites>>
server  == <<sState, g, gLength, h, i, sFifo, response, sTold, finals, sessions>>
wire    == <<toServer, toClient>>
network == <<wire, left, faults>>
vars    == <<reliable, client, server, network>>

Init ==
  /\ Client!IctInit /\ Server!IstInit
  /\ toServer = {} /\ toClient = {}
  /\ left = 0
  /\ faults = 0

(* Only a datagram is lost or delivered twice. *)
Fault == /\ ~reliable
         /\ faults < MaxFaults
         /\ faults' = faults + 1

Delivers(copy) == IF copy THEN Fault ELSE UNCHANGED faults

(* An INVITE that leaves is the youngest of the copies in the network. *)
RenewInvite == left' = IF invites' # invites THEN Lifetime ELSE left

ClientReceives ==
  /\ \E copy \in BOOLEAN :
       /\ Delivers(copy)
       /\ \E r \in Client!Responses : Client!Receive(r, copy)
  /\ UNCHANGED <<server, left>>

ClientRuns ==
  /\ Client!SendInvite \/ Client!TimersExecute \/ Client!Execute
  /\ RenewInvite
  /\ UNCHANGED <<server, faults>>

ServerReceives ==
  /\ \E copy \in BOOLEAN :
       /\ Delivers(copy)
       /\ Server!Create(copy) \/ \E m \in {"INVITE", "ACK"} : Server!Receive(m, copy)
  /\ UNCHANGED <<client, left>>

ServerAnswers ==
  /\ \E r \in Server!Answers : Server!Answer(r)
  /\ UNCHANGED <<client, left, faults>>

ServerRuns ==
  /\ Server!TimersExecute \/ Server!Execute
  /\ UNCHANGED <<client, left, faults>>

Lose(m) ==
  /\ Fault
  /\ toServer' = toServer \ {m}
  /\ toClient' = toClient \ {m}
  /\ UNCHANGED <<reliable, client, server, left>>

Idle ==
  /\ cFifo = <<>> /\ sFifo = <<>>
  /\ cState = "CALLING" => ~Due(a) /\ ~Due(b)
  /\ cState = "COMPLETED" => ~Due(d)
  /\ sState = "COMPLETED" => ~Due(g) /\ ~Due(h)
  /\ sState = "CONFIRMED" => ~Due(i)

(* A datagram that is too old is gone; a stream keeps its bytes. *)
Tick ==
  /\ Idle
  /\ SlowAnswers \/ toClient = {} \/ cState \in {"PRE_CALLING", "TERMINATED"}
  /\ Client!ElapseTimers /\ Server!ElapseTimers
  /\ left' = IF left > 0 THEN left - 1 ELSE 0
  /\ toServer' = IF left = 1 /\ ~reliable THEN toServer \ {"INVITE"} ELSE toServer
  /\ UNCHANGED <<toClient, faults>>

Next ==
  \/ ClientReceives
  \/ ClientRuns
  \/ ServerReceives
  \/ ServerAnswers
  \/ ServerRuns
  \/ \E m \in toServer \cup toClient : Lose(m)
  \/ Tick

Spec == Init /\ [][Next]_vars

Delivered(r) == Client!Receive(r, FALSE) /\ UNCHANGED <<server, left, faults>>

(* Both loops run, time passes, and a message that stays in the network is *)
(* delivered.  The user of the server may leave a call unanswered.         *)
Fairness ==
  /\ WF_vars(ClientRuns) /\ WF_vars(ServerRuns) /\ WF_vars(Tick)
  /\ \A r \in Client!Responses : SF_vars(Delivered(r))

FairSpec == Spec /\ Fairness

-----------------------------------------------------------------------------
TypeOK == Client!TypeOK /\ Server!TypeOK /\ left \in 0..Lifetime /\ faults \in 0..MaxFaults

(* What timer I is for: when no INVITE survives longer in the network than *)
(* T4, a call that was refused, and whose failure was acknowledged, is     *)
(* never announced to the server's user a second time.  A late copy makes  *)
(* a new session only after a 2xx, with which the server transaction ends  *)
(* at once, after a transport error, or after timer H.                     *)
NoGhostAfterAck ==
  [][(sessions' # sessions) => sTold["ack"] = 0]_vars

(* When the server's user is told that the ACK of its failure arrived, the *)
(* client's user has been told of a failure, across retransmissions,       *)
(* copies and a second session.                                            *)
AckMeansTold == sTold["ack"] > 0 => cTold["final"] = 1 /\ final = "3456XX"

(* Every copy of the failure was lost, the first one and what timer G sent *)
(* after it, before timer H ended the server's transaction: the client has *)
(* had a provisional answer, and nothing ends its wait.                    *)
EveryCopyLost ==
  /\ sState = "TERMINATED" /\ sTold["ack"] = 0 /\ faults >= 2
  /\ cState = "PROCEEDING" /\ "3456XX" \notin toClient

(* A call that the server's user refused ends at both ends although        *)
(* messages are lost, because the failure is retransmitted until it is     *)
(* acknowledged or timer H ends.  Two things break that, and then a client *)
(* in PROCEEDING, which has no timer, may wait for ever: a transport error *)
(* at the server, which ends the retransmission at once, and the loss of   *)
(* all copies there were.                                                  *)
RefusedCallEnds ==
  (finals = {"3456XX"}) ~>
    \/ cState = "TERMINATED" /\ sState = "TERMINATED"
    \/ sTold["error"] > 0
    \/ EveryCopyLost
=============================================================================
