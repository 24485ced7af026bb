--------------------------- MODULE InSubscription ---------------------------
(***************************************************************************)
(* One incoming subscription of eXosip (eXinsubscription_api.c, jnotify.c  *)
(* and the parts of udp.c, jcallback.c and eXosip.c about it): the server  *)
(* transaction of the last SUBSCRIBE with the answers that wait in its     *)
(* fifo, the dialog, and the NOTIFYs of the application, which builds and   *)
(* sends one under one lock.                                               *)
(***************************************************************************)
EXTENDS Integers, Sequences, FiniteSets

CONSTANTS InsMaxFifo,   \* bound: answers that wait
          InsMaxNotify, \* bound: NOTIFY requests
          InsMaxAsked   \* bound: SUBSCRIBE requests

ASSUME InsAssumption == InsMaxFifo \in Nat \ {0} /\ {InsMaxNotify, InsMaxAsked} \subseteq Nat

VARIABLE ins

InsNoNotify == [state |-> "NONE", resp |-> "none", closes |-> FALSE, cseq |-> 0]

(* default: the application calls eXosip_default_action.  status: the peer *)
(* asked to end the subscription.  notifies: the NOTIFYs of the dialog,    *)
(* the newest first.  closed: a NOTIFY that ends it was accepted.          *)
InsInit ==
  \E default \in BOOLEAN :
    ins = [state |-> "none", dialog |-> "none", inc |-> "NONE", fifo |-> <<>>,
           status |-> "ACTIVE", notifies |-> <<>>, cseq |-> 0, retry |-> 0, asked |-> 0,
           default |-> default, closed |-> FALSE]

InsGone(n) == [n EXCEPT !.state = "removed", !.dialog = "none", !.notifies = <<>>, !.fifo = <<>>,
                        !.inc = "NONE"]

InsOpen(t)   == t.state \in {"TRYING", "PROCEEDING"}
InsLast(n)   == IF n.notifies = <<>> THEN InsNoNotify ELSE n.notifies[1]
InsUnanswered(n) == n.inc \in {"TRYING", "PROCEEDING"}

-----------------------------------------------------------------------------
(* A SUBSCRIBE outside of a dialog: 101 makes an early one. *)
InsNewSubscribe ==
  /\ ins.state = "none"
  /\ ins' = [ins EXCEPT !.state = "live", !.dialog = "EARLY", !.inc = "TRYING",
                        !.fifo = <<"1xx">>, !.asked = 1]

(* A SUBSCRIBE within the dialog, refused with 500 while the last one is   *)
(* not answered; Expires 0 ends the subscription.                          *)
InsSubscribeAgain ==
  /\ ins.state = "live" /\ ins.dialog # "NULL" /\ ins.asked < InsMaxAsked
  /\ ~InsUnanswered(ins)
  /\ \E expires \in {0, 600} :
       ins' = [ins EXCEPT !.inc = "TRYING", !.fifo = <<>>, !.asked = @ + 1,
                          !.status = IF expires = 0 THEN "TERMINATED" ELSE @]

(* eXosip_insubscription_send_answer; a 2xx confirms the dialog at once.   *)
InsAnswered(n, a) ==
  IF ~InsUnanswered(n) THEN n
  ELSE [n EXCEPT !.fifo = Append(@, a), !.dialog = IF a = "2xx" THEN "CONFIRMED" ELSE @]

eXosip_insubscription_send_answer ==
  /\ ins.state = "live" /\ Len(ins.fifo) < InsMaxFifo
  /\ \E a \in {"1xx", "2xx", "3456xx"} : ins' = InsAnswered(ins, a)

(* The server transaction sends what waits; a second final answer is        *)
(* dropped, and a failure deletes the dialog if it is still early.         *)
InsExecute ==
  /\ ins.fifo # <<>>
  /\ LET a == Head(ins.fifo)
         n == [ins EXCEPT !.fifo = Tail(@)]
     IN  ins' = IF ~InsUnanswered(ins) THEN n
                ELSE IF a = "1xx" THEN [n EXCEPT !.inc = "PROCEEDING"]
                ELSE [n EXCEPT !.inc = "COMPLETED",
                               !.dialog = IF a = "3456xx" /\ @ = "EARLY" THEN "NULL" ELSE @]

InsTimerJ == ins.inc = "COMPLETED" /\ ins.fifo = <<>> /\ ins' = [ins EXCEPT !.inc = "TERMINATED"]

-----------------------------------------------------------------------------
(* NOTIFYs.  One is built only in a dialog that is there, and one is built *)
(* or sent only when the last one was answered.                            *)
InsTransmit(n, cseq, closes) ==
  [n EXCEPT !.cseq = @ + 1,
            !.notifies = <<[state |-> "TRYING", resp |-> "none", closes |-> closes,
                            cseq |-> cseq]>> \o @]

InsNotifyAlways(n, closes) ==
  IF n.dialog = "NULL" THEN n ELSE InsTransmit(n, n.cseq + 1, closes)
InsNotify(n, closes) ==
  IF n.dialog = "NULL" \/ InsOpen(InsLast(n)) THEN n ELSE InsTransmit(n, n.cseq + 1, closes)

eXosip_insubscription_send_request ==
  /\ ins.state = "live"
  /\ \E closes \in BOOLEAN : ins' = InsNotify(ins, closes)

(* eXosip_insubscription_automatic: 202 and a first NOTIFY, or 489. *)
eXosip_insubscription_automatic ==
  /\ ins.state = "live" /\ ins.asked = 1 /\ Len(ins.fifo) < InsMaxFifo
  /\ \/ ins' = InsNotify(InsAnswered(ins, "2xx"), FALSE)
     \/ ins' = InsAnswered(ins, "3456xx")

(* The refused NOTIFY again, with credentials. *)
InsCredential(n, t) == InsTransmit(n, t.cseq + 1, t.closes)

InsRefused(t) == t.state \in {"COMPLETED", "TERMINATED"} /\ t.resp = "401"

InsAutomaticAction ==
  /\ ins.state = "live" /\ ins.dialog # "NULL"
  /\ InsRefused(InsLast(ins)) /\ ins.retry < 3
  /\ ins' = [InsCredential(ins, InsLast(ins)) EXCEPT !.retry = @ + 1]

(* eXosip_default_action, with the event of any NOTIFY that was refused.   *)
InsDefaultAction ==
  /\ ins.state = "live" /\ ins.default
  /\ \E i \in DOMAIN ins.notifies :
       InsRefused(ins.notifies[i]) /\ ins' = InsCredential(ins, ins.notifies[i])

InsHeard(t, state, resp) == [t EXCEPT !.state = state, !.resp = resp]
InsFinal(i, resp) == [ins EXCEPT !.notifies[i] = InsHeard(@, "COMPLETED", resp)]

(* The peer's answer: an accepted NOTIFY that says `terminated' is the end. *)
InsNotifyAnswer ==
  \E i \in DOMAIN ins.notifies :
    /\ InsOpen(ins.notifies[i])
    /\ \/ ins' = [ins EXCEPT !.notifies[i] = InsHeard(@, "PROCEEDING", "1xx")]
       \/ LET n == [InsFinal(i, "2xx") EXCEPT !.retry = 0]
          IN  ins' = IF ins.notifies[i].closes THEN [InsGone(n) EXCEPT !.closed = TRUE] ELSE n
       \/ \E resp \in {"401", "failure"} : ins' = InsFinal(i, resp)

(* cb_nict_kill_transaction.  After a provisional answer and no other the  *)
(* subscription stays, and nobody is told.                                 *)
InsForgets(t) == t.resp = "none" \/ t.resp = "failure" \/ (t.resp = "2xx" /\ ins.status = "TERMINATED")
InsKill ==
  \E i \in DOMAIN ins.notifies :
    LET t == ins.notifies[i]
    IN  /\ t.state # "TERMINATED"
        /\ ins' = IF InsForgets(t) THEN InsGone(ins)
                  ELSE [ins EXCEPT !.notifies[i] = InsHeard(@, "TERMINATED", t.resp)]

(* _eXosip_release_terminated_in_subscriptions: older NOTIFYs that are over *)
(* go; the subscription itself is never released by time.                  *)
InsRelease ==
  \E i \in DOMAIN ins.notifies :
    /\ i > 1 /\ ins.notifies[i].state = "TERMINATED"
    /\ ins' = [ins EXCEPT !.notifies = SubSeq(@, 1, i - 1) \o SubSeq(@, i + 1, Len(@))]

eXosip_insubscription_remove == ins.state = "live" /\ ins' = InsGone(ins)

InsNext ==
  \/ InsNewSubscribe
  \/ InsSubscribeAgain
  \/ eXosip_insubscription_send_answer
  \/ InsExecute
  \/ InsTimerJ
  \/ /\ ins.cseq < InsMaxNotify
     /\ \/ eXosip_insubscription_send_request
        \/ eXosip_insubscription_automatic
        \/ InsAutomaticAction
        \/ InsDefaultAction
  \/ InsNotifyAnswer
  \/ InsKill
  \/ InsRelease
  \/ eXosip_insubscription_remove

InsSpec == InsInit /\ [][InsNext]_ins

-----------------------------------------------------------------------------
InsTypeOK ==
  /\ ins.state \in {"none", "live", "removed"}
  /\ ins.dialog \in {"none", "EARLY", "CONFIRMED", "NULL"}
  /\ ins.retry \in 0..3 /\ Len(ins.fifo) <= InsMaxFifo

(* Without the default action NOTIFYs leave one after the other, with      *)
(* growing CSeq, whoever sends them; no answer confirms a dialog that was  *)
(* deleted; and a subscription whose last NOTIFY was accepted is gone.     *)
InsNotifiesInOrder ==
  /\ InsTypeOK
  /\ ~ins.default =>
       \A i, j \in DOMAIN ins.notifies :
         i < j => /\ ins.notifies[i].cseq > ins.notifies[j].cseq
                  /\ ~InsOpen(ins.notifies[j])
  /\ ins.dialog = "NULL" => ~InsUnanswered(ins)
  /\ ins.closed => ins.state = "removed"
=============================================================================
