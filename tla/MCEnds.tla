------------------------------- MODULE MCEnds -------------------------------
(* Two questions in one run: a non-INVITE request between two ends (the    *)
(* part "request"), and the end of a call that is refused (the part        *)
(* "call", an instance with a smaller network).  The part that is not      *)
(* being looked at stays in its initial state.                             *)
EXTENDS NonInviteTransaction

VARIABLES part,
          iReliable, iClient, iA, iALength, iB, iD, iCFifo, iCTold, iFinal, iInvites,
          iServer, iG, iGLength, iH, iI, iSFifo, iResponse, iSTold, iFinals, iSessions,
          iToServer, iToClient, iLeft, iFaults

Call == INSTANCE InviteTransaction WITH
  Timeout <- 3, MaxFifo <- 1, MaxSessions <- 1, AckMayFail <- TRUE, MaxFaults <- 2,
  SlowAnswers <- FALSE, reliable <- iReliable,
  cState <- iClient, a <- iA, aLength <- iALength, b <- iB, d <- iD, cFifo <- iCFifo,
  cTold <- iCTold, final <- iFinal, invites <- iInvites,
  sState <- iServer, g <- iG, gLength <- iGLength, h <- iH, i <- iI, sFifo <- iSFifo,
  response <- iResponse, sTold <- iSTold, finals <- iFinals, sessions <- iSessions,
  toServer <- iToServer, toClient <- iToClient, left <- iLeft, faults <- iFaults

callVars == <<iReliable, iClient, iA, iALength, iB, iD, iCFifo, iCTold, iFinal, iInvites,
              iServer, iG, iGLength, iH, iI, iSFifo, iResponse, iSTold, iFinals,
              iSessions, iToServer, iToClient, iLeft, iFaults>>
allVars  == <<part, vars, callVars>>

(* The instance that rests starts over a datagram transport. *)
EndsInit ==
  /\ Init /\ Call!Init
  /\ \/ part = "request" /\ ~iReliable
     \/ part = "call" /\ ~reliable

EndsNext ==
  \/ part = "request" /\ Next /\ UNCHANGED <<part, callVars>>
  \/ part = "call" /\ Call!Next /\ UNCHANGED <<part, vars>>

(* Both loops of the call run, time passes, a message that stays arrives. *)
Rests == UNCHANGED <<part, vars>>

EndsSpec ==
  /\ EndsInit /\ [][EndsNext]_allVars
  /\ WF_allVars(part = "call" /\ Call!ClientRuns /\ Rests)
  /\ WF_allVars(part = "call" /\ Call!ServerRuns /\ Rests)
  /\ WF_allVars(part = "call" /\ Call!Tick /\ Rests)
  /\ \A r \in {"1XX", "2XX", "3456XX"} :
       SF_allVars(part = "call" /\ Call!Delivered(r) /\ Rests)

(* A call that the server's user refused ends at both ends although        *)
(* messages are lost (see InviteTransaction).                              *)
RefusedCallEnds == Call!RefusedCallEnds
=============================================================================
