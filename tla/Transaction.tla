----------------------------- MODULE Transaction -----------------------------
(***************************************************************************)
(* osip_transaction_t: a transaction is of one of four kinds, chosen by    *)
(* osip_transaction_init, and runs the machine of its kind for its whole   *)
(* life.  Each machine meets any peer and any network.  The kinds share    *)
(* the variables here: `repeat' with its `length' is timer A, E or G,      *)
(* `giveUp' is B, F or H, `absorb' is D, K, I or J.                        *)
(***************************************************************************)
EXTENDS OsipTransaction

VARIABLES ctx_type,
          reliable, state, repeat, length, giveUp, absorb, fifo, told,
          final, sent,                  \* of a client transaction
          response, finals, sessions,   \* of a server transaction
          toServer, toClient

ICT  == INSTANCE Ict  WITH a <- repeat, aLength <- length, b <- giveUp, d <- absorb,
                           invites <- sent
IST  == INSTANCE Ist  WITH g <- repeat, gLength <- length, h <- giveUp, i <- absorb
NICT == INSTANCE Nict WITH e <- repeat, eLength <- length, f <- giveUp, k <- absorb,
                           requests <- sent
NIST == INSTANCE Nist WITH j <- absorb

client == <<final, sent>>
server == <<response, finals, sessions>>
common == <<reliable, state, repeat, length, giveUp, absorb, fifo, told,
            toServer, toClient>>
vars   == <<ctx_type, common, client, server>>

NoClient == final = "none" /\ sent = 0

NoServer == response = "none" /\ finals = {} /\ sessions = 0

(* osip_transaction_init *)
Init ==
  \/ ctx_type = "ICT"  /\ ICT!Init  /\ NoServer
  \/ ctx_type = "IST"  /\ IST!Init  /\ NoClient
  \/ ctx_type = "NICT" /\ NICT!Init /\ NoServer
  \/ ctx_type = "NIST" /\ NIST!Init /\ NoClient
       /\ repeat = Off /\ length = Off /\ giveUp = Off

(* The steps of the machine of the transaction's kind. *)
AsICT(step)  == ctx_type = "ICT"  /\ step /\ UNCHANGED <<ctx_type, server>>
AsIST(step)  == ctx_type = "IST"  /\ step /\ UNCHANGED <<ctx_type, client>>
AsNICT(step) == ctx_type = "NICT" /\ step /\ UNCHANGED <<ctx_type, server>>
AsNIST(step) == ctx_type = "NIST" /\ step
                  /\ UNCHANGED <<ctx_type, client, repeat, length, giveUp>>

Next == AsICT(ICT!Next) \/ AsIST(IST!Next) \/ AsNICT(NICT!Next) \/ AsNIST(NIST!Next)

Spec == Init /\ [][Next]_vars

Execute == AsICT(ICT!Execute) \/ AsIST(IST!Execute)
             \/ AsNICT(NICT!Execute) \/ AsNIST(NIST!Execute)

Tick == AsICT(ICT!Tick) \/ AsIST(IST!Tick) \/ AsNICT(NICT!Tick) \/ AsNIST(NIST!Tick)

Poll == AsIST(IST!TimersExecute) \/ AsNICT(NICT!TimersExecute)
          \/ AsNIST(NIST!TimersExecute)

(* The loop of eXosip_execute polls the timers and empties the fifos in    *)
(* every turn, and time passes.  The poll of ICT may find an event in the  *)
(* fifo in every turn; only the bound on the fifo keeps the others from    *)
(* theirs.                                                                 *)
FairSpec ==
  /\ Spec
  /\ WF_vars(Tick) /\ WF_vars(Execute)
  /\ WF_vars(AsICT(ICT!TimersExecute)) /\ SF_vars(Poll)

-----------------------------------------------------------------------------
(* The properties of the machines, each stated in its module; those of Ict *)
(* are checked there.                                                      *)

TypeOK ==
  CASE ctx_type = "ICT"  -> ICT!TypeOK
    [] ctx_type = "IST"  -> IST!TypeOK
    [] ctx_type = "NICT" -> NICT!TypeOK
    [] ctx_type = "NIST" -> NIST!TypeOK

(* Nict has one outcome of a request, also with several threads; Ist and   *)
(* Nist send one final response, whatever the user queues, and tell of a    *)
(* request, of its ACK and of the end of the transaction once per session.  *)
AnsweredOnce ==
  /\ TypeOK
  /\ ctx_type = "NICT" => NICT!OneOutcome
  /\ ctx_type = "IST"  => IST!OneFinalAnswer /\ IST!ToldOnce
  /\ ctx_type = "NIST" => NIST!OneFinalAnswer /\ NIST!ToldOnce

(* What is over is not said again.  Nict: queued timeouts of a request     *)
(* that was answered send nothing.  Ist: nothing leaves after the ACK of a *)
(* failure, or after a 2xx.  Nist: after its final response a transaction  *)
(* only repeats it.                                                        *)
NothingAfterEnd ==
  [][/\ ctx_type = "NICT" => NICT!SendsWhileWaiting
     /\ ctx_type = "IST"  => IST!StaysSilent
     /\ ctx_type = "NIST" => NIST!RepeatsOrSilent]_vars

(* The wait for an answer or for an ACK; the wait for late copies. *)
Waits ==
  \/ ctx_type = "ICT"  /\ ICT!Waits
  \/ ctx_type = "IST"  /\ IST!Waits
  \/ ctx_type = "NICT" /\ NICT!Waits

Absorbs ==
  \/ ctx_type = "ICT"  /\ ICT!Absorbs
  \/ ctx_type = "IST"  /\ IST!Absorbs
  \/ ctx_type = "NICT" /\ NICT!Absorbs
  \/ ctx_type = "NIST" /\ NIST!Absorbs

Quiet ==
  /\ ctx_type = "ICT" => ICT!Quiet
  /\ ctx_type = "IST" => IST!Quiet

(* Every wait ends in every machine: that for an answer or an ACK whatever *)
(* the peer does; that for late copies, in the INVITE machines, once the   *)
(* peer stops sending them.                                                *)
EveryWaitEnds ==
  /\ Waits ~> ~Waits
  /\ <>[]Quiet => (Absorbs ~> ~Absorbs)
=============================================================================
