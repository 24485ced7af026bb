-------------------------------- MODULE Call --------------------------------
(***************************************************************************)
(* One call of eXosip, from the INVITE that starts it to CALL_RELEASED.    *)
(* Three parties work on its objects, each under the lock of the context:  *)
(*  - the application, with the eXosip_call_* functions and               *)
(*    eXosip_automatic_action;                                             *)
(*  - the reading half of the stack's thread, which turns a request of the *)
(*    peer into a transaction and gives a response to the transaction it   *)
(*    answers (_eXosip_handle_incoming_message);                           *)
(*  - the other half of the thread, which later runs the transactions and  *)
(*    releases what is finished (eXosip_execute).                          *)
(* An event waits in the fifo of its transaction between the second and    *)
(* the third, and the application may come between.                        *)
(*                                                                         *)
(* A response is one of five kinds: provisional, othertag (a provisional   *)
(* of an INVITE whose To tag is missing or not that of the dialog),        *)
(* success, challenge (401, 407 or 422: the request is repeated) and       *)
(* failure (the others).  A redirection is a challenge whose repetitions   *)
(* are not counted.                                                        *)
(***************************************************************************)
EXTENDS CallHeap

CONSTANTS MaxRetry,    \* repetitions of a challenged request: 3 in the code
          MaxFifo,     \* bound: events that wait for one server transaction
          MaxMinutes,  \* bound: delays of about 100 s
          LostAnswer   \* retransmissions of a 2xx before the BYE: 9 in the code

VARIABLE heap
vars == <<heap>>

Init == heap = EmptyHeap

tr == heap.tr
call == heap.call
dlg == heap.dlg

Known(d) == d \in Range(call.dialogs)
Pending(h, t) == h.tr[t].ff # <<>>
Client(h, t) == h.tr[t].kind \in {"ICT", "NICT"}
Accepts(t) == Len(tr[t].ff) < IF Client(heap, t) THEN 1 ELSE MaxFifo

Failures == {"failure", "challenge"}
(* the message class of a response, which is all its transaction looks at *)
Class(e) == IF e = "othertag" THEN "provisional" ELSE e
Ended(h, t) == h.tr[t].state = "TERMINATED"
Finished(h, t) == h.tr[t].state \in {"COMPLETED", "CONFIRMED", "TERMINATED"}

-----------------------------------------------------------------------------
(* What the transactions do: module Ict, Ist, Nict and Nist have them in   *)
(* full.  "timeout" is whichever timer ends the state.                     *)
NextState(kind, state, e) ==
  CASE e = "send" /\ state = "NEW" -> "TRYING"
    [] e = "rcv" /\ state = "NEW" -> "PROCEEDING"
    [] kind \in {"ICT", "NICT"} /\ state \in {"TRYING", "PROCEEDING"} ->
         CASE e = "provisional" -> "PROCEEDING"
           [] e = "success" /\ kind = "ICT" -> "TERMINATED"
           [] e \in Failures \cup {"success"} -> "COMPLETED"
           [] e = "timeout" /\ (kind = "NICT" \/ state = "TRYING") -> "TERMINATED"
           [] OTHER -> state
    [] kind \in {"IST", "NIST"} /\ state = "PROCEEDING" ->
         CASE e = "success" /\ kind = "IST" -> "TERMINATED"
           [] e \in Failures \cup {"success"} -> "COMPLETED"
           [] OTHER -> state
    [] kind = "IST" /\ state = "COMPLETED" /\ e = "ack" -> "CONFIRMED"
    [] state \in {"COMPLETED", "CONFIRMED"} /\ e = "timeout" -> "TERMINATED"
    [] OTHER -> state

(* a mutant: any failure ends the dialog *)
DeleteAnyDialog(h, d) == IF d # NULL THEN DropDialog(h, d) ELSE h
(* Only an established dialog survives the failure of its INVITE. *)
DeleteEarlyDialog(h, d) ==
  IF d # NULL /\ h.dlg[d].state = "EARLY" THEN DropDialog(h, d) ELSE h

(* cb_rcv1xx for an INVITE: the first response makes the dialog, and one   *)
(* with another To tag, or none, replaces it by an early one, even when it *)
(* was confirmed.  For an INVITE that outlived its call the dialog is on   *)
(* no list: it is lost.                                                    *)
cb_rcv1xx(h, t, e) ==
  LET d == h.tr[t].jd
      made == DialogInit(h, "EARLY", h.tr[t].cseq, FALSE)
      h1 == IF d = NULL
            THEN IF HasRoomForDialog(h) THEN [made EXCEPT !.tr[t].jd = made.dialogs] ELSE h
            ELSE IF e = "othertag" /\ h.dlg[d].state \in {"EARLY", "CONFIRMED"}
                 THEN ReplaceDialog(h, d, h.tr[t].cseq) ELSE h
  IN IF h.tr[t].method # "INVITE" \/ ~h.tr[t].jc THEN h
     ELSE [Report(h1, "RINGING", h1.tr[t].jd) EXCEPT !.call.expire = 2]

(* cb_rcv2xx_4invite; a dialog that is gone discards the 2xx in silence *)
cb_rcv2xx_4invite(h, t) ==
  LET d == h.tr[t].jd
      made == DialogInit(h, "CONFIRMED", h.tr[t].cseq, FALSE)
      h1 == IF d = NULL THEN [made EXCEPT !.tr[t].jd = made.dialogs]
            ELSE [h EXCEPT !.dlg[d].state = "CONFIRMED"]
  IN IF d # NULL /\ h.dlg[d].state = "gone" THEN h
     ELSE Report(h1, "ANSWERED", h1.tr[t].jd)

(* cb_rcv2xx: a success gives the dialog and the call their retries back *)
cb_rcv2xx(h, t) ==
  LET d == h.tr[t].jd
      h1 == [h EXCEPT !.call.retry = IF h.tr[t].jc THEN 0 ELSE @,
                      !.fault = @ \/ (h.tr[t].jc /\ h.call.state = "freed")]
      h2 == IF d = NULL THEN h1
            ELSE [h1 EXCEPT !.dlg[d].retry = 0, !.fault = @ \/ h.dlg[d].state = "freed"]
  IN IF ~h.tr[t].jc THEN h2
     ELSE IF h.tr[t].method = "INVITE" THEN cb_rcv2xx_4invite(h2, t)
     ELSE Report(h2, "MESSAGE_ANSWERED", d)

(* cb_rcv3xx and cb_rcv4xx; cb_rcv5xx and cb_rcv6xx do the same *)
RequestFailure(h, t) ==
  IF h.tr[t].method = "INVITE" THEN Report(h, "REQUESTFAILURE", h.tr[t].jd)
  ELSE Report(h, "MESSAGE_REQUESTFAILURE", h.tr[t].jd)
cb_rcv3456xx(h, t) ==
  LET h1 == IF h.tr[t].jc THEN RequestFailure(h, t) ELSE h IN
  IF h.tr[t].jc /\ h.tr[t].method = "INVITE" THEN DeleteEarlyDialog(h1, h.tr[t].jd) ELSE h1

(* cb_snd123456xx: only the initial INVITE closes the call *)
cb_snd3456xx(h, t) ==
  LET d == h.tr[t].jd IN
  IF d = NULL \/ h.tr[t].method # "INVITE" THEN h
  ELSE IF h.tr[t].jc /\ t = h.call.inc
       THEN Report(DeleteEarlyDialog(h, d), "CLOSED", d)
       ELSE DeleteEarlyDialog(h, d)

(* cb_rcvrequest and cb_rcvcancel *)
cb_rcvrequest(h, t) ==
  IF ~h.tr[t].jc \/ h.tr[t].method \in {"BYE", "INVITE"} THEN h
  ELSE IF h.tr[t].method = "CANCEL"
       THEN IF h.tr[t].jd = NULL THEN h ELSE Report(h, "CANCELLED", h.tr[t].jd)
       ELSE Report(h, "MESSAGE_NEW", h.tr[t].jd)

(* cb_xixt_kill_transaction *)
KillTransaction(h, t) ==
  LET h1 == [h EXCEPT !.tr[t].ff = <<>>, !.tr[t].fresh = Client(h, t)] IN
  IF h.tr[t].kind = "NICT" /\ h.tr[t].jc /\ h.tr[t].resp = "none"
  THEN Report(h1, "MESSAGE_REQUESTFAILURE", h.tr[t].jd) ELSE h1

(* osip_transaction_execute for the oldest event of t *)
Handle(h, t) ==
  LET e == Class(Head(h.tr[t].ff))
      from == h.tr[t].state
      to == NextState(h.tr[t].kind, from, e)
      client == Client(h, t)
      answers == e \in Failures \cup {"success", "provisional"}
      h1 == [h EXCEPT !.tr[t].ff = Tail(@), !.tr[t].state = to,
                      !.tr[t].resp = IF answers /\ (to # from \/ e = "provisional")
                                     THEN e ELSE @]
      h2 == CASE e = "provisional" /\ to = "PROCEEDING" /\ client ->
                   cb_rcv1xx(h1, t, Head(h.tr[t].ff))
              [] e = "success" /\ to # from /\ client -> cb_rcv2xx(h1, t)
              [] e \in Failures /\ to # from /\ client -> cb_rcv3456xx(h1, t)
              [] e \in Failures /\ to # from /\ ~client -> cb_snd3456xx(h1, t)
              [] e = "rcv" /\ to # from -> cb_rcvrequest(h1, t)
              [] OTHER -> h1
  IN IF to = "TERMINATED" /\ to # from THEN KillTransaction(h2, t) ELSE h2

HandleAll(h, t) == FoldLeft(LAMBDA g, i : IF Pending(g, t) THEN Handle(g, t) ELSE g,
                            h, [i \in 1..MaxFifo + 1 |-> i])

(* osip_ict_execute and the other three *)
Execute(h, kind) ==
  FoldLeft(LAMBDA g, t : IF g.tr[t].kind = kind THEN HandleAll(g, t) ELSE g,
           h, [t \in Ref |-> t])
ExecuteAll(h) == Execute(Execute(Execute(Execute(h, "NIST"), "NICT"), "IST"), "ICT")

-----------------------------------------------------------------------------
(* _eXosip_release_terminated_calls.  age 1 is more than 30 s, age 2 more  *)
(* than 180 s.                                                             *)

(* A transaction that never ends is dropped after 180 s. *)
Dropped(h, t) == Garbage(RemoveFromCall(h, t), t)
DropOld(h, t) ==
  IF t # NULL /\ ~Ended(h, t) /\ h.tr[t].age = 2 THEN Dropped(h, t) ELSE h
Waits(h, t) == t # NULL /\ ~Ended(h, t) /\ h.tr[t].age < 2

(* _eXosip_pendingosip_transaction_exist: does something keep the dialog? *)
StillPending(h, d) ==
  LET h1 == DropOld(h, LastInc(h, d, "BYE")) IN
  \/ Waits(h, LastInc(h, d, "BYE"))
  \/ Waits(h1, LastOut(h1, d, "BYE"))
  \/ Waits(h1, LastIncInvite(h1, d))
  \/ LET o == LastOutInvite(h1, d) IN o # NULL /\ ~Ended(h1, o) /\ h1.call.expire > 0

WithoutOldBye(h, d) ==
  LET h1 == DropOld(h, LastInc(h, d, "BYE")) IN
  IF Waits(h, LastInc(h, d, "BYE")) THEN h ELSE DropOld(h1, LastOut(h1, d, "BYE"))

(* _eXosip_release_finished_transactions spares the newest of each list    *)
(* and the newest INVITE.                                                  *)
OldTransactions(h, s, lastInvite) ==
  SelectSeq(IF s = <<>> THEN s ELSE Tail(s),
            LAMBDA t : Ended(h, t) /\ h.tr[t].age > 0 /\ t # lastInvite)
ReleaseFirst(h, s) == IF s = <<>> THEN h ELSE Dropped(h, Head(s))
ReleaseFinishedTransactions(h, d) ==
  ReleaseFirst(ReleaseFirst(h, OldTransactions(h, h.dlg[d].inc, LastIncInvite(h, d))),
               OldTransactions(h, h.dlg[d].out, LastOutInvite(h, d)))

ReleaseDialog(h, d) == DialogFree(RemoveDialogReference(h, d), d)

(* _eXosip_release_call *)
ReleaseCall(h, d) == CallFree(Report(h, "RELEASED", d))

(* _eXosip_release_aborted_calls; h itself when it does nothing *)
ReleaseAborted(h, d) ==
  LET t == Either(h.call.inc, h.call.out) IN
  IF t = NULL THEN ReleaseDialog(h, d)
  ELSE IF ~Ended(h, t)
       THEN IF h.tr[t].age = 2
            THEN DialogFree(Report(RemoveDialogReference(h, d), "NOANSWER", d), d) ELSE h
  ELSE IF h.tr[t].resp \in Failures \/ (t = h.call.out /\ h.tr[t].resp = "none")
       THEN ReleaseCall(h, d) ELSE h

(* one turn of the loop over the dialogs; next = FALSE ends it *)
ReleaseOne(s, d) ==
  LET h == s.h
      h1 == WithoutOldBye(h, d)
      h2 == ReleaseFinishedTransactions(h1, d)
      bye == Either(LastInc(h1, d, "BYE"), LastOut(h1, d, "BYE"))
      h3 == ReleaseAborted(h1, d)
  IN IF ~s.next THEN s
     ELSE IF StillPending(h, d) THEN [s EXCEPT !.h = h1]
     ELSE IF h2 # h1 THEN [s EXCEPT !.h = h2]
     ELSE IF bye # NULL /\ Ended(h1, bye) THEN [s EXCEPT !.h = ReleaseDialog(h1, d)]
     ELSE IF h3 # h1 THEN [h |-> h3, next |-> FALSE]
     ELSE IF h1.dlg[d].state = "gone" THEN [s EXCEPT !.h = ReleaseDialog(h1, d)]
     ELSE [s EXCEPT !.h = h1]

ReleaseDialogs(h) == FoldLeft(ReleaseOne, [h |-> h, next |-> TRUE], h.call.dialogs).h

(* a mutant: a call without dialogs does not wait *)
ReleaseCallAtOnce(h) ==
  IF h.call.state # "live" \/ h.call.dialogs # <<>> THEN h ELSE ReleaseCall(h, NULL)
(* A call without dialogs waits for its INVITE, at most 180 s, and 10 s    *)
(* more for a repetition.                                                  *)
ReleaseCallWithoutDialog(h) ==
  LET running(t) == t # NULL /\ ~Ended(h, t)
      old(t) == running(t) /\ h.tr[t].age = 2
  IN IF h.call.state # "live" \/ h.call.dialogs # <<>> THEN h
     ELSE IF old(h.call.inc) \/ old(h.call.out) THEN ReleaseCall(h, NULL)
     ELSE IF \/ running(h.call.inc) \/ running(h.call.out)
             \/ h.call.out # NULL /\ h.tr[h.call.out].fresh THEN h
     ELSE ReleaseCall(h, NULL)

(* The list of garbage: a challenged request outside of a dialog is kept   *)
(* 5 s for its repetition.                                                 *)
Disposable(h, t) ==
  \/ Ended(h, t) /\ ~(h.tr[t].kind = "NICT" /\ h.tr[t].resp # "none" /\ h.tr[t].fresh)
  \/ h.tr[t].age = 2 /\ ~Ended(h, t)
EmptyGarbage(h) ==
  LET freed == {t \in h.garbage : Disposable(h, t)} IN
  [h EXCEPT !.garbage = @ \ freed,
            !.tr = [t \in Ref |-> IF t \in freed THEN [NoTr EXCEPT !.state = "FREED"]
                                  ELSE @[t]]]

ReleaseTerminatedCalls(h) ==
  EmptyGarbage(ReleaseCallWithoutDialog(
    IF h.call.state = "live" THEN ReleaseDialogs(h) ELSE h))

(* eXosip_execute after the socket was read *)
Turn == heap' = ReleaseTerminatedCalls(ExecuteAll(heap))

-----------------------------------------------------------------------------
(* The application.                                                        *)
NewCall(h) == [h EXCEPT !.call = [NoCall EXCEPT !.state = "live"]]

eXosip_call_send_initial_invite ==
  /\ call.state = "none" /\ HasRoom(heap)
  /\ LET h == TransactionInit(NewCall(heap), "ICT", "INVITE", 1, <<"send">>)
     IN heap' = [SetReserved(h, h.made, TRUE, NULL) EXCEPT !.call.out = h.made]

(* build and send: not while a request of the same method runs, in either  *)
(* direction                                                               *)
Idle(d, method) ==
  LET last == LastOf(heap, d, method) IN
  last # NULL => /\ Finished(heap, last)
                 /\ ~(tr[last].kind = "ICT" /\ tr[last].state = "CONFIRMED")

(* a mutant: the dialog does not count its requests *)
SendUncounted(h, d, method) ==
  LET h1 == TransactionInit(h, IF method = "INVITE" THEN "ICT" ELSE "NICT", method,
                            h.dlg[d].local + 1, <<"send">>)
  IN SetReserved(AddOutgoing(h1, d, h1.made), h1.made, TRUE, d)
SendInDialog(h, d, method) ==
  LET n == h.dlg[d].local + 1
      h1 == TransactionInit(h, IF method = "INVITE" THEN "ICT" ELSE "NICT", method, n,
                            <<"send">>)
  IN SetReserved(AddOutgoing([h1 EXCEPT !.dlg[d].local = n], d, h1.made), h1.made, TRUE, d)

eXosip_call_send_request(d, method) ==
  /\ Known(d) /\ dlg[d].state \in {"EARLY", "CONFIRMED"} /\ HasRoom(heap)
  /\ Idle(d, method)
  /\ heap' = SendInDialog(heap, d, method)

(* eXosip_call_send_answer: is the transaction already answered?  What     *)
(* waits in its fifo is not looked at.                                     *)
Answer(h, t, e) ==
  LET d == DialogOf(h, t)
      h1 == IF e = "success" /\ h.tr[t].method = "INVITE"
            THEN [h EXCEPT !.dlg[d].ok = TRUE, !.dlg[d].count = 0,
                           !.dlg[d].state = "CONFIRMED"]
            ELSE h
  IN AddEvent(h1, t, e)

eXosip_call_send_answer(t, e) ==
  /\ InCall(heap, t) /\ tr[t].kind \in {"IST", "NIST"} /\ Accepts(t)
  /\ DialogOf(heap, t) # NULL
  /\ ~Finished(heap, t)
  /\ e = "success" => dlg[DialogOf(heap, t)].state # "gone"
  /\ heap' = Answer(heap, t, e)

FifoHasRoom(h, t) == t # NULL => Len(h.tr[t].ff) < MaxFifo
SendBye(h, d) == DropDialog(SendInDialog(h, d, "BYE"), d)

(* eXosip_call_terminate(cid, did): CANCEL, or the answer 603, or BYE *)
Terminate(h, d) ==
  LET out == LastOutInvite(h, d)
      inc == LastIncInvite(h, d)
      refuse == out = NULL /\ inc # NULL /\ h.tr[inc].resp = "provisional"
      h1 == IF refuse /\ ~Finished(h, inc) THEN Answer(h, inc, "failure") ELSE h
  IN IF ~(d # NULL /\ h.dlg[d].state = "CONFIRMED") /\ out # NULL
          /\ h.tr[out].resp = "provisional"
     THEN LET c == TransactionInit(h, "NICT", "CANCEL", h.tr[out].cseq, <<"send">>)
          IN Garbage(c, c.made)
     ELSE IF d = NULL \/ h.dlg[d].state = "gone" THEN h
     ELSE IF refuse /\ inc = h.call.inc THEN h1
     ELSE SendBye(h1, d)

eXosip_call_terminate(d) ==
  /\ call.state = "live" /\ HasRoom(heap)
  /\ d # NULL => Known(d) /\ dlg[d].state # "gone"
  /\ FifoHasRoom(heap, LastIncInvite(heap, d))
  /\ heap' = Terminate(heap, d)
  /\ heap' # heap

(* a mutant: the transaction that is replaced is forgotten *)
RetryForgets(h, d, t) ==
  LET h2 == TransactionInit(h, h.tr[t].kind, h.tr[t].method, h.tr[t].cseq + 1, <<"send">>)
  IN SetReserved([h2 EXCEPT !.call.out = h2.made], h2.made, TRUE, NULL)
(* _eXosip_call_retry_request *)
RetryRequest(h, d, t) ==
  LET h1 == IF d # NULL /\ h.dlg[d].state # "gone"
            THEN [h EXCEPT !.dlg[d].local = @ + 1] ELSE h
      h2 == TransactionInit(h1, h.tr[t].kind, h.tr[t].method, h.tr[t].cseq + 1, <<"send">>)
      new == h2.made
      replaced == [Garbage(h2, t) EXCEPT !.call.out = new]
  IN IF t = h.call.out
     THEN SetReserved(IF d # NULL THEN DialogFree(replaced, d) ELSE replaced, new, TRUE, NULL)
     ELSE SetReserved(AddOutgoing(h2, d, new), new, TRUE, d)

Challenged(t) ==
  /\ t # NULL /\ tr[t].kind \in {"ICT", "NICT"} /\ Finished(heap, t)
  /\ tr[t].resp = "challenge" /\ tr[t].age < 2

(* jd->d_retry++ and jd = jd->next, after the repetition *)
Retried(h, d) ==
  [h EXCEPT !.dlg[d].retry = @ + 1, !.fault = @ \/ h.dlg[d].state = "freed"]

(* eXosip_automatic_action: the initial INVITE when no dialog is alive,    *)
(* otherwise the newest request of a dialog                                *)
AutomaticAction ==
  /\ call.state = "live" /\ HasRoom(heap)
  /\ \/ /\ call.dialogs # <<>> => dlg[Head(call.dialogs)].state = "gone"
        /\ Challenged(call.out) /\ call.retry < MaxRetry
        /\ heap' = [RetryRequest(heap, NULL, call.out) EXCEPT !.call.retry = @ + 1]
     \/ \E d \in Range(call.dialogs) :
          LET t == IF dlg[d].out = <<>> THEN call.out ELSE Head(dlg[d].out) IN
          /\ dlg[d].state # "gone"
          /\ Challenged(t) /\ dlg[d].retry < MaxRetry
          /\ heap' = Retried(RetryRequest(heap, d, t), d)

(* _eXosip_retransmit_lost200ok, of eXosip_event_wait: the 2xx is sent     *)
(* again until its ACK, and after the last time the call is closed         *)
RetransmitLost200ok ==
  \E d \in Range(call.dialogs) :
    /\ dlg[d].state # "gone" /\ dlg[d].ok
    /\ IF dlg[d].count < LostAnswer
       THEN heap' = [heap EXCEPT !.dlg[d].count = @ + 1]
       ELSE LET h == [heap EXCEPT !.dlg[d].ok = FALSE, !.dlg[d].count = 0] IN
            /\ HasRoom(heap) /\ FifoHasRoom(heap, LastIncInvite(heap, d))
            /\ heap' = IF Terminate(h, d) = h THEN h ELSE Report(Terminate(h, d), "CLOSED", d)

Application ==
  \/ eXosip_call_send_initial_invite
  \/ \E d \in Dialogs, m \in {"INVITE", "INFO"} : eXosip_call_send_request(d, m)
  \/ \E t \in Ref, e \in {"success", "failure"} : eXosip_call_send_answer(t, e)
  \/ \E d \in Dialogs \cup {NULL} : eXosip_call_terminate(d)
  \/ AutomaticAction
  \/ RetransmitLost200ok

-----------------------------------------------------------------------------
(* The peer, through the reading half of the thread.                       *)

(* _eXosip_process_new_invite; the INVITE and its 100 and 101 are run      *)
(* before the lock is given back                                           *)
ProcessNewInvite ==
  /\ call.state = "none" /\ HasRoom(heap) /\ HasRoomForDialog(heap)
  /\ LET h == DialogInit(TransactionInit(NewCall(heap), "IST", "INVITE", 0,
                                         <<"rcv", "provisional">>), "EARLY", 1, TRUE)
         h1 == [SetReserved(h, h.made, TRUE, h.dialogs) EXCEPT !.call.inc = h.made]
     IN heap' = Report(Execute(h1, "IST"), "INVITE", h1.dialogs)

NewRequest(h, kind, method) == TransactionInit(h, kind, method, 0, <<"rcv">>)

(* _eXosip_send_default_answer: a refused request belongs to nobody *)
Refuse(h) == AddEvent(Garbage(h, h.made), h.made, "failure")

ClosedByBye(h, d) == LastInc(h, d, "BYE") # NULL \/ LastOut(h, d, "BYE") # NULL

(* _eXosip_process_newrequest for an INVITE within dialog d *)
ProcessReinvite(d) ==
  LET inc == LastIncInvite(heap, d)
      out == LastOutInvite(heap, d)
      h == TransactionInit(heap, "IST", "INVITE", 0, <<"rcv", "provisional">>)
  IN IF \/ ClosedByBye(heap, d)
        \/ inc # NULL /\ ~Finished(heap, inc)
        \/ out # NULL /\ ~Finished(heap, out)
     THEN Refuse(h)
     ELSE Report(Execute(SetReserved(AddIncoming(h, d, h.made), h.made, TRUE, d), "IST"),
                 "REINVITE", d)

(* A copy of the INVITE that started the call, when its transaction is     *)
(* over: a comment says that it is discarded, the code answers 404.        *)
ReceiveDuplicateInvite ==
  /\ call.inc # NULL /\ Ended(heap, call.inc) /\ HasRoom(heap)
  /\ heap' = Refuse(NewRequest(heap, "IST", "INVITE"))

(* _eXosip_process_bye: the server transactions are run at once *)
ProcessBye(d) ==
  LET h == NewRequest(heap, "NIST", "BYE")
      h1 == AddEvent(SetReserved(AddIncoming(h, d, h.made), h.made, TRUE, NULL),
                     h.made, "success")
  IN IF LastInc(heap, d, "BYE") # NULL THEN Refuse(h)
     ELSE Report(Execute(DropDialog(h1, d), "NIST"), "CLOSED", d)

(* _eXosip_process_message_within_dialog *)
ProcessMessage(d) ==
  LET h == NewRequest(heap, "NIST", "INFO")
  IN IF ClosedByBye(heap, d) THEN Refuse(h)
     ELSE SetReserved(AddIncoming(h, d, h.made), h.made, TRUE, d)

(* A request of the peer within a dialog; one with a lower CSeq is refused *)
(* and one with the same is dropped.                                       *)
ReceiveInDialog ==
  /\ HasRoom(heap)
  /\ \E d \in {e \in Range(call.dialogs) : dlg[e].state # "gone"} :
       \/ /\ dlg[d].remote /\ heap' = Refuse(NewRequest(heap, "NIST", "INFO"))
       \/ \E h \in {ProcessReinvite(d), ProcessBye(d), ProcessMessage(d)} :
            heap' = [h EXCEPT !.dlg[d].remote = TRUE]

(* _eXosip_process_ack: the 2xx is no longer sent again *)
ReceiveAck ==
  \E d \in {e \in Range(call.dialogs) : dlg[e].state # "gone"} :
    /\ dlg[d].ok
    /\ heap' = Report([heap EXCEPT !.dlg[d].ok = FALSE, !.dlg[d].count = 0], "ACK", d)

(* the ACK of a failure goes to its transaction *)
ReceiveAckOfFailure(t) ==
  /\ tr[t].kind = "IST" /\ tr[t].state = "COMPLETED" /\ Accepts(t)
  /\ heap' = AddEvent(heap, t, "ack")

(* _eXosip_process_cancel of the INVITE that started the call, or of one   *)
(* within a dialog                                                         *)
ReceiveCancel(t) ==
  /\ HasRoom(heap) /\ InCall(heap, t) /\ tr[t].kind = "IST" /\ Accepts(t)
  /\ LET d == DialogOf(heap, t)
         own(h) == IF d = NULL THEN Garbage(h, h.made) ELSE AddIncoming(h, d, h.made)
         h == own(NewRequest(heap, "NIST", "CANCEL"))
     IN heap' = IF Finished(heap, t) THEN AddEvent(h, h.made, "failure")
                ELSE AddEvent(SetReserved(AddEvent(h, h.made, "success"), h.made, TRUE, d),
                              t, "failure")

(* A response is given to the transaction it answers.  A 1xx with another  *)
(* tag is taken for the INVITE of a confirmed dialog; what it does to an   *)
(* early one, the fork of the INVITE, is in module Dialog.                 *)
ReceiveResponse(t, e) ==
  /\ tr[t].kind \in {"ICT", "NICT"} /\ tr[t].state \notin {"NEW", "TERMINATED", "FREED"}
  /\ Accepts(t)
  /\ tr[t].method = "INVITE" /\ tr[t].jd = NULL => HasRoomForDialog(heap)
  /\ e = "othertag" =>
       tr[t].method = "INVITE" /\ tr[t].jd # NULL /\ dlg[tr[t].jd].state = "CONFIRMED"
  /\ heap' = AddEvent(heap, t, e)

Network ==
  \/ ProcessNewInvite
  \/ ReceiveDuplicateInvite
  \/ ReceiveInDialog
  \/ ReceiveAck
  \/ \E t \in Ref : ReceiveAckOfFailure(t) \/ ReceiveCancel(t)
  \/ \E t \in Ref, e \in Failures \cup {"provisional", "othertag", "success"} : ReceiveResponse(t, e)

-----------------------------------------------------------------------------
(* Time.  A state that a timer ends is left before the long delays of the  *)
(* release of calls pass.                                                  *)
TimerRuns(t) ==
  \/ tr[t].state \in {"COMPLETED", "CONFIRMED"}
  \/ tr[t].state = "TRYING"
  \/ tr[t].kind = "NICT" /\ tr[t].state = "PROCEEDING"

(* eXosip_execute with a timer that is due: osip_timers_*_execute queue    *)
(* its event and the same turn runs it.                                    *)
Timeout(t) ==
  /\ TimerRuns(t) /\ ~Pending(heap, t)
  /\ heap' = ReleaseTerminatedCalls(ExecuteAll(AddEvent(heap, t, "timeout")))

Quiet == \A t \in Ref : ~Pending(heap, t) /\ (tr[t].state # "NEW")

(* the 5 s and 10 s after the end of a transaction *)
SecondsPass ==
  /\ Quiet /\ \E t \in Ref : tr[t].fresh
  /\ heap' = [heap EXCEPT !.tr = [t \in Ref |-> [tr[t] EXCEPT !.fresh = FALSE]]]

(* about 100 s *)
MinutesPass ==
  /\ Quiet
  /\ \A t \in Ref : ~TimerRuns(t) /\ ~tr[t].fresh
  /\ \A d \in Dialogs : ~dlg[d].ok
  /\ heap.minutes < MaxMinutes /\ heap.made > 0
  /\ heap' = [heap EXCEPT
       !.minutes = @ + 1,
       !.tr = [t \in Ref |-> IF tr[t].kind = "none" THEN tr[t]
                             ELSE [tr[t] EXCEPT !.age = IF @ = 2 THEN 2 ELSE @ + 1]],
       !.call.expire = IF @ > 0 THEN @ - 1 ELSE 0]

Clock == (\E t \in Ref : Timeout(t)) \/ SecondsPass \/ MinutesPass

Next == Application \/ Network \/ Turn \/ Clock

Spec == Init /\ [][Next]_vars

-----------------------------------------------------------------------------
Live(t) == tr[t].state \notin {"NONE", "FREED"}

TypeOK ==
  /\ call.inc \in Ref \cup {NULL} /\ call.out \in Ref \cup {NULL}
  /\ Range(call.dialogs) \subseteq Dialogs /\ IsInjective(call.dialogs)
  /\ heap.garbage \subseteq {t \in Ref : Live(t)}
  /\ \A t \in Ref : tr[t].jd \in Dialogs \cup {NULL} /\ tr[t].age \in 0..2

(* No callback is given a call or a dialog that was freed: every reference *)
(* a transaction keeps (reserved2 and reserved3) is cleared or moved when  *)
(* the object it names goes, by the release of dialogs and calls, by the   *)
(* repetition of an INVITE, and whatever waits in the fifos meanwhile.     *)
NoUseAfterFree == ~heap.fault

Homes(t) ==
  Cardinality({x \in {"inc", "out", "garbage"} :
                 \/ x = "inc" /\ t = call.inc
                 \/ x = "out" /\ t = call.out
                 \/ x = "garbage" /\ t \in heap.garbage})
  + Cardinality({d \in Dialogs : t \in Range(dlg[d].inc)})
  + Cardinality({d \in Dialogs : t \in Range(dlg[d].out)})

(* A transaction is in one place: none is leaked and none is freed twice,  *)
(* while calls, dialogs and j_transactions hand it on.                     *)
OwnedOnce == \A t \in Ref : Homes(t) = IF Live(t) THEN 1 ELSE 0

(* _eXosip_retransmit_lost200ok sends the 2xx of the first dialog of the   *)
(* call whichever dialog is late, which is right only as long as no other  *)
(* dialog waits for an ACK.                                                *)
OnlyFirstAwaitsAck ==
  \A d \in Range(call.dialogs) : dlg[d].ok => d = Head(call.dialogs)

(* The requests of a dialog, repetitions included, leave with growing CSeq *)
(* numbers, and the dialog knows the highest.  A dialog that a 1xx with    *)
(* another tag replaced counts on from that 1xx.                           *)
CSeqGrows ==
  \A d \in {e \in Range(call.dialogs) : ~dlg[e].replaced} :
    LET s == dlg[d].out IN
    /\ \A i, j \in DOMAIN s : i < j => tr[s[i]].cseq > tr[s[j]].cseq
    /\ s # <<>> /\ dlg[d].state # "gone" => tr[Head(s)].cseq <= dlg[d].local

(* What the dialogs of a call wait for and send stays in order. *)
DialogsInOrder == OnlyFirstAwaitsAck /\ CSeqGrows

Refused(t) == t # NULL /\ ({tr[t].resp} \cup Range(tr[t].ff)) \cap Failures # {}

(* An established dialog ends with a BYE, of either side, and never by a   *)
(* failure of a later request, a release or a retry; the dialog of a call  *)
(* that was refused and accepted goes with the call.  The one response     *)
(* that undoes it is the 1xx of a re-INVITE with another To tag, or none   *)
(* (cb_rcv1xx): the dialog is early again and a failure then deletes it.   *)
ReplacedBy1xx(d) ==
  /\ \E t \in Ref : tr[t].jd = d /\ tr[t].method = "INVITE" /\ tr[t].ff = <<"othertag">>
  /\ heap'.dlg[d].state = "EARLY" /\ heap'.dlg[d].replaced

EstablishedUntilBye ==
  [][\A d \in Dialogs :
       (dlg[d].state = "CONFIRMED" /\ heap'.dlg[d].state # "CONFIRMED") =>
         \/ \E t \in Ref : heap'.tr[t].method = "BYE" /\ tr[t].kind = "none"
         \/ Refused(call.inc)
         \/ ReplacedBy1xx(d)]_vars

(* A call is not released under an INVITE that still runs, nor under a BYE *)
(* that has no answer, unless it runs for more than 180 s.                 *)
ReleasedWhenDone ==
  [][(call.state = "live" /\ heap'.call.state = "freed") =>
       \A t \in Ref : (InCall(heap, t) /\ (t \in {call.inc, call.out} \/ tr[t].method = "BYE")
                         /\ tr[t].age < 2 /\ heap'.tr[t].kind # "none")
                      => heap'.tr[t].state \in {"TERMINATED", "COMPLETED", "CONFIRMED"}]_vars

(* eXcall_api.c:748 asks "is the transaction already answered?": an INVITE *)
(* that was refused is not accepted afterwards.                            *)
RefusedStaysRefused ==
  Refused(call.inc) => \A d \in Range(call.dialogs) : dlg[d].state # "CONFIRMED"
=============================================================================
