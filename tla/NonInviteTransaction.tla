------------------------ MODULE NonInviteTransaction ------------------------
(***************************************************************************)
(* A non-INVITE client transaction (Nict) and the server transactions      *)
(* (Nist) it meets, over the network of InviteTransaction: datagrams are   *)
(* lost, copied and reordered, a copy of the request lives at most         *)
(* Lifetime ticks, and both loops are fast against T1.                     *)
(***************************************************************************)
EXTENDS OsipTransaction

CONSTANTS Lifetime,    \* ticks a copy of the request survives in the network
          MaxFaults    \* bound: messages the network loses or copies

ASSUME NonInviteAssumption == Lifetime \in Nat \ {0} /\ MaxFaults \in Nat /\ OneLoop

VARIABLES reliable,
          cState, e, eLength, f, k, cFifo, cTold, final, requests,
          sState, j, sFifo, response, sTold, finals, sessions,
          toServer, toClient,
          left,         \* ticks left to the youngest request in the network
          faults

Client == INSTANCE Nict WITH state <- cState, fifo <- cFifo, told <- cTold
Server == INSTANCE Nist WITH state <- sState, fifo <- sFifo, told <- sTold

client  == <<cState, e, eLength, f, k, cFifo, cTold, final, requests>>
server  == <<sState, j, sFifo, response, sTold, finals, sessions>>
wire    == <<toServer, toClient>>
network == <<wire, left, faults>>
vars    == <<reliable, client, server, network>>

Init ==
  /\ Client!NictInit /\ Server!NistInit
  /\ toServer = {} /\ toClient = {}
  /\ left = 0
  /\ faults = 0

Fault == /\ ~reliable
         /\ faults < MaxFaults
         /\ faults' = faults + 1

Delivers(copy) == IF copy THEN Fault ELSE UNCHANGED faults

RenewRequest == left' = IF requests' # requests THEN Lifetime ELSE left

ClientReceives ==
  /\ \E copy \in BOOLEAN :
       /\ Delivers(copy)
       /\ \E r \in Client!Responses : Client!Receive(r, copy)
  /\ UNCHANGED <<server, left>>

ClientRuns ==
  /\ Client!SendRequest \/ Client!TimersExecute \/ Client!Execute
  /\ RenewRequest
  /\ UNCHANGED <<server, faults>>

ServerReceives ==
  /\ \E copy \in BOOLEAN :
       /\ Delivers(copy)
       /\ Server!Create(copy) \/ Server!Receive(copy)
  /\ UNCHANGED <<client, left>>

ServerAnswers ==
  /\ \E r \in Server!Answers : Server!Answer(r)
  /\ UNCHANGED <<client, left, faults>>

ServerRuns ==
  /\ Server!TimersExecute \/ Server!Execute
  /\ UNCHANGED <<client, left, faults>>

Lose(m) ==
  /\ Fault
  /\ toServer' = toServer \ {m}
  /\ toClient' = toClient \ {m}
  /\ UNCHANGED <<reliable, client, server, left>>

Idle ==
  /\ cFifo = <<>> /\ sFifo = <<>>
  /\ cState \in Client!Waiting => ~Due(e) /\ ~Due(f)
  /\ cState = "COMPLETED" => ~Due(k)
  /\ sState = "COMPLETED" => ~Due(j)

Tick ==
  /\ Idle
  /\ Client!ElapseTimers /\ Server!ElapseTimers
  /\ left' = IF left > 0 THEN left - 1 ELSE 0
  /\ toServer' = IF left = 1 /\ ~reliable THEN {} ELSE toServer
  /\ UNCHANGED <<toClient, faults>>

Next ==
  \/ ClientReceives
  \/ ClientRuns
  \/ ServerReceives
  \/ ServerAnswers
  \/ ServerRuns
  \/ \E m \in toServer \cup toClient : Lose(m)
  \/ Tick

Spec == Init /\ [][Next]_vars

-----------------------------------------------------------------------------
TypeOK == Client!TypeOK /\ Server!TypeOK /\ left \in 0..Lifetime /\ faults \in 0..MaxFaults

(* Over a reliable transport the request leaves once, otherwise at most as *)
(* often as its intervals fit before timer F, whatever comes back.         *)
RequestsBounded == Client!RequestsBounded

(* What timer J is for: it outlasts every retransmission of the client, so *)
(* that a request is announced to the server's user a second time only     *)
(* when a transport error ended its transaction.                           *)
NoGhostRequest == [][(sessions' # sessions /\ sessions > 0) => sTold["error"] = 1]_vars

(* The client's user is given the final response that the server's user    *)
(* chose, whatever is lost, copied or overtaken on the way.                *)
AnswersAgree ==
  (final # "none" /\ sessions = 1) => (finals = {final} /\ sTold["request"] = 1)
=============================================================================
