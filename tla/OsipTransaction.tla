--------------------------- MODULE OsipTransaction ---------------------------
(***************************************************************************)
(* What the four transaction machines of osip2 have in common: their       *)
(* timers, and the parameters of the environment they run in.              *)
(***************************************************************************)
EXTENDS OsipTimer, Sequences

CONSTANTS MaxFifo,      \* bound: messages, answers and timeouts are added to a
                        \* fifo while fewer events wait
          MaxSessions,  \* bound: server transactions made for one request
          MaxCopies,    \* bound: copies of a request are counted so far
          OneLoop,      \* one thread polls the timers and empties the fifos in
                        \* turns, as eXosip_execute does
          AckMayFail    \* may ict_create_ack return NULL?

ASSUME TransactionAssumption ==
  /\ MaxFifo \in Nat \ {0}
  /\ MaxSessions \in Nat \ {0}
  /\ MaxCopies \in Nat \ {0}
  /\ OneLoop \in BOOLEAN
  /\ AckMayFail \in BOOLEAN

(* What a run needs to know of a sequence of calls to one callback: none,  *)
(* one, or more than one.                                                  *)
More(count) == IF count < 2 THEN count + 1 ELSE count

(* What osip->cb_send_message returns: 0, the message left; a positive     *)
(* number, the transport is not ready (a name is being resolved, a         *)
(* connection opened) and nothing left; a negative number, an error.       *)
SendResults == {"sent", "not_ready", "error"}
=============================================================================
