---------------------------- MODULE Subscription ----------------------------
(***************************************************************************)
(* One outgoing subscription of eXosip (eXsubscription_api.c, jsubscribe.c *)
(* and the parts of udp.c, jcallback.c and eXosip.c about SUBSCRIBE and    *)
(* the NOTIFYs it brings) and its notifier.  A dialog is made by whatever  *)
(* comes first: a provisional answer with a tag, the 2xx, or a NOTIFY.     *)
(*                                                                         *)
(* Ages count units of 31 s: the code compares them with 15, 30, 64 and    *)
(* 120 s, and with nine tenths of the period.                              *)
(***************************************************************************)
EXTENDS Integers, Sequences, SequencesExt, FiniteSets, FiniteSetsExt

CONSTANTS SubPeriods,       \* expiration delays the application asks for
          SubGrants,        \* delays the notifier grants of its own
          SubMinExpires,    \* Min-Expires of its 423
          SubTags,          \* tags of the notifiers a SUBSCRIBE may reach
          SubMaxSent,       \* bound: SUBSCRIBE requests
          SubMaxDialogs     \* bound: dialogs

ASSUME SubAssumption ==
  /\ SubPeriods \subseteq Nat /\ SubGrants \subseteq Nat \ {0}
  /\ {SubMinExpires, SubMaxSent, SubMaxDialogs} \subseteq Nat

VARIABLE sub

SubUnit == 31
SubNoTr == [state |-> "NONE", resp |-> "none", expires |-> 0, age |-> 0, jd |-> 0]

(* dialogs: s_dialogs, the newest first; a dialog whose state is "NULL"    *)
(* lost its osip_dialog.  fault: a NULL dialog was read.  granted: seconds *)
(* the notifier still keeps the subscription.  trouble: a SUBSCRIBE was    *)
(* refused, or the application interfered.  tolerated: a little less than  *)
(* the period was granted, which is not looked at.  default: the           *)
(* application calls eXosip_default_action.                                *)
SubInit ==
  \E default \in BOOLEAN :
    sub = [state |-> "none", period |-> 0, retry |-> 0, out |-> SubNoTr, dialogs |-> <<>>,
           made |-> 0, sent |-> 0, fault |-> FALSE, granted |-> 0, trouble |-> FALSE,
           tolerated |-> FALSE, default |-> default]

SubDone(t)    == t.state \in {"COMPLETED", "TERMINATED"}
SubWaiting(t) == t.state \in {"TRYING", "PROCEEDING"}

(* _eXosip_subscribe_free: the dialogs go, the transactions are garbage. *)
SubGone(s) == [s EXCEPT !.state = "removed", !.dialogs = <<>>, !.out = SubNoTr]

SubDialogIds(s) == {s.dialogs[i].id : i \in DOMAIN s.dialogs}
SubAt(s, id)    == CHOOSE i \in DOMAIN s.dialogs : s.dialogs[i].id = id

(* The transaction a dialog is judged by: its newest, else the first one   *)
(* of the subscription (_eXosip_find_last_out_subscribe).                  *)
SubLast(s, id) ==
  IF id # 0 /\ s.dialogs[SubAt(s, id)].outs # <<>> THEN s.dialogs[SubAt(s, id)].outs[1] ELSE s.out
SubOwn(s, id) == id # 0 /\ s.dialogs[SubAt(s, id)].outs # <<>>

SubRequest(expires, id) ==
  [state |-> "TRYING", resp |-> "none", expires |-> expires, age |-> 0, jd |-> id]

(* _eXosip_subscribe_set_refresh_interval, of a request or of an answer.   *)
SubInterval(period, e) == IF e = 0 THEN 0 ELSE IF e < period - 15 THEN e ELSE period

SubAddDialog(s, tag, state) ==
  [s EXCEPT !.made = @ + 1,
            !.dialogs = <<[id |-> s.made + 1, tag |-> tag, state |-> state, retry |-> 0,
                           outs |-> <<>>]>> \o @]

-----------------------------------------------------------------------------
(* The application. *)
eXosip_subscribe_send_initial_request ==
  /\ sub.state = "none"
  /\ \E e \in SubPeriods :
       sub' = [sub EXCEPT !.state = "live", !.period = SubInterval(3600, e), !.sent = @ + 1,
                          !.out = SubRequest(e, 0)]

(* A SUBSCRIBE within a dialog, refused while the last one is not answered. *)
SubSend(s, id, e) ==
  IF ~SubDone(SubLast(s, id)) THEN s
  ELSE [s EXCEPT !.period = SubInterval(3600, e), !.sent = @ + 1,
                 !.dialogs[SubAt(s, id)].outs = <<SubRequest(e, id)>> \o @]

eXosip_subscribe_send_refresh_request ==
  \E i \in DOMAIN sub.dialogs, e \in SubPeriods :
    /\ sub.dialogs[i].state # "NULL"
    /\ sub' = SubSend([sub EXCEPT !.trouble = TRUE], sub.dialogs[i].id, e)

eXosip_subscribe_remove == sub.dialogs # <<>> /\ sub' = SubGone(sub)

-----------------------------------------------------------------------------
(* The refused request again, with credentials or with Min-Expires.  That  *)
(* of the subscription is replaced, that of a dialog gets a successor.     *)
SubCredential(s, id) ==
  LET last == SubLast(s, id)
      e    == IF last.resp = "423" THEN SubMinExpires ELSE last.expires
  IN  IF last.resp \in {"none", "423bare"} THEN s
      ELSE IF SubOwn(s, id)
           THEN [s EXCEPT !.sent = @ + 1,
                          !.dialogs[SubAt(s, id)].outs = <<SubRequest(e, id)>> \o @]
           ELSE [s EXCEPT !.sent = @ + 1, !.out = SubRequest(e, id)]

SubRefused(t) == SubDone(t) /\ t.age * SubUnit < 120
SubIsDue(s, t) == s.period # 0 /\ t.age * SubUnit > s.period - (s.period \div 10)

(* eXosip_automatic_action: the subscription while it has no dialog, then   *)
(* every dialog that is left.                                              *)
SubActsAlone(s) ==
  /\ s.dialogs = <<>> /\ s.retry < 3
  /\ SubRefused(s.out) /\ s.out.resp \in {"401", "423", "423bare"}
SubActsIn(s, id) ==
  LET d == s.dialogs[SubAt(s, id)]
      t == SubLast(s, id)
  IN  /\ d.state # "NULL"
      /\ IF SubRefused(t) /\ t.resp = "401" THEN d.retry < 3
         ELSE SubIsDue(s, t) /\ SubDone(t)

SubInDialog(s, id) ==
  IF ~SubActsIn(s, id) THEN s
  ELSE IF SubLast(s, id).resp = "401" /\ SubRefused(SubLast(s, id))
       THEN [SubCredential(s, id) EXCEPT !.dialogs[SubAt(s, id)].retry = @ + 1]
       ELSE SubSend(s, id, SubLast(s, id).expires)

SubAlone(s) ==
  IF SubActsAlone(s) THEN [SubCredential(s, 0) EXCEPT !.retry = @ + 1] ELSE s

SubActs == SubActsAlone(sub) \/ \E id \in SubDialogIds(sub) : SubActsIn(sub, id)

SubAutomaticAction ==
  /\ sub.state = "live" /\ SubActs
  /\ sub' = FoldLeft(SubInDialog, SubAlone(sub),
                     [i \in DOMAIN sub.dialogs |-> sub.dialogs[i].id])

(* eXosip_default_action with the event of a refusal: a transaction of the  *)
(* subscription goes with its first dialog, whatever state that is in.     *)
SubDefault ==
  /\ sub.default /\ sub.state = "live"
  /\ LET first == IF sub.dialogs = <<>> THEN 0 ELSE sub.dialogs[1].id
     IN  \E id \in {0} \cup SubDialogIds(sub) :
           LET jd == IF id = 0 THEN first ELSE id
               own == id # 0
               t == IF own THEN SubLast(sub, id) ELSE sub.out
               counted == jd # 0 /\ sub.dialogs[SubAt(sub, jd)].state # "NULL"
               retry == IF counted THEN sub.dialogs[SubAt(sub, jd)].retry ELSE sub.retry
               s == IF counted THEN [sub EXCEPT !.dialogs[SubAt(sub, jd)].retry = @ + 1]
                    ELSE [sub EXCEPT !.retry = @ + 1]
           IN  /\ own => SubOwn(sub, id)
               /\ t.resp = "401" /\ SubDone(t) /\ retry < 3
               /\ sub' = IF own THEN SubCredential(s, id)
                         ELSE [s EXCEPT !.sent = @ + 1, !.out = SubRequest(t.expires, jd)]

-----------------------------------------------------------------------------
(* Answers.  id = 0 is the transaction of the subscription, another id the *)
(* newest of that dialog.                                                  *)
SubTr(s, id) == IF id = 0 THEN s.out ELSE SubLast(s, id)
SubSet(s, id, t) ==
  IF id = 0 THEN [s EXCEPT !.out = t] ELSE [s EXCEPT !.dialogs[SubAt(s, id)].outs[1] = t]
SubPending(id) ==
  /\ id = 0 \/ SubOwn(sub, id)
  /\ SubWaiting(SubTr(sub, id))

(* The dialog of an answer: that of the transaction, else the one with the *)
(* tag of the answer, else a new one; a NULL dialog met on the way is read. *)
SubDialogOf(s, t, tag) ==
  IF t.jd # 0 THEN t.jd
  ELSE IF \E i \in DOMAIN s.dialogs : s.dialogs[i].tag = tag
       THEN s.dialogs[Min({i \in DOMAIN s.dialogs : s.dialogs[i].tag = tag})].id
       ELSE s.made + 1
SubReadsNull(s, t, tag) ==
  /\ t.jd = 0
  /\ \E i \in DOMAIN s.dialogs :
       /\ s.dialogs[i].state = "NULL"
       /\ \A j \in 1..(i - 1) : s.dialogs[j].tag # tag

SubWithDialog(s, t, tag, state) ==
  LET d == SubDialogOf(s, t, tag)
      r == [s EXCEPT !.fault = @ \/ SubReadsNull(s, t, tag)]
  IN  IF d \in SubDialogIds(s) THEN r ELSE SubAddDialog(r, tag, state)

SubProvisional(id, tag) ==
  LET t == SubTr(sub, id)
      s == SubWithDialog(sub, t, tag, "EARLY")
  IN  sub' = SubSet(s, id, [t EXCEPT !.state = "PROCEEDING", !.resp = "1xx",
                                     !.jd = SubDialogOf(sub, t, tag)])

SubShortenedNever(period, e) == period
SubShortened(period, e) == SubInterval(period, e)

SubSuccess(id, tag, e) ==
  LET t == SubTr(sub, id)
      d == SubDialogOf(sub, t, tag)
      r == SubWithDialog(sub, t, tag, "CONFIRMED")
      at == SubAt(r, d)
      null == r.dialogs[at].state = "NULL"
      s == [r EXCEPT !.retry = 0, !.fault = @ \/ null,
                     !.dialogs[at].retry = IF t.jd # 0 THEN 0 ELSE @,
                     !.dialogs[at].state = IF null THEN @ ELSE "CONFIRMED",
                     !.period = SubShortened(@, e),
                     !.granted = e,
                     !.tolerated = e < sub.period /\ e >= sub.period - 15]
  IN  sub' = SubSet(s, id, [t EXCEPT !.state = "COMPLETED", !.resp = "2xx", !.jd = d])

(* A failure deletes an early dialog, also when the request will be        *)
(* repeated with credentials; the eXosip_dialog stays in the list.         *)
SubDeleteEarly(s, t) ==
  IF t.jd # 0 /\ s.dialogs[SubAt(s, t.jd)].state = "EARLY"
  THEN [s EXCEPT !.dialogs[SubAt(s, t.jd)].state = "NULL"]
  ELSE s

SubFailure(id, resp) ==
  LET t == SubTr(sub, id)
  IN  sub' = SubSet([SubDeleteEarly(sub, t) EXCEPT !.trouble = @ \/ resp # "401"], id,
                    [t EXCEPT !.state = "COMPLETED", !.resp = resp])

(* cb_nict_kill_transaction: without a final answer, and when a SUBSCRIBE  *)
(* with Expires 0 is over, the subscription goes.                          *)
SubKill(id) ==
  LET t == SubTr(sub, id)
      closes == t.resp # "401" /\ t.expires = 0
      ended == SubSet(sub, id, [t EXCEPT !.state = "TERMINATED"])
  IN  sub' = IF closes \/ SubWaiting(t) THEN SubGone(sub) ELSE ended

SubAnswer ==
  \E id \in {0} \cup SubDialogIds(sub) :
    LET t == SubTr(sub, id)
        tags == IF t.jd = 0 THEN SubTags ELSE {sub.dialogs[SubAt(sub, t.jd)].tag}
        room == t.jd # 0 \/ sub.made < SubMaxDialogs
    IN  /\ sub.state = "live" /\ SubPending(id)
        /\ \/ \E tag \in tags : room /\ (t.jd = 0 \/ t.state = "TRYING") /\ SubProvisional(id, tag)
           \/ \E tag \in tags, e \in SubGrants \cup {t.expires} :
                room /\ e <= t.expires /\ (e = 0 <=> t.expires = 0) /\ SubSuccess(id, tag, e)
           \/ \E resp \in {"401", "failure"} \cup (IF t.expires > 0 THEN {"423", "423bare"} ELSE {}) :
                SubFailure(id, resp)
           \/ SubKill(id)

(* Timer K, also of a transaction of a dialog that has a successor.        *)
SubKillOld(i, j) ==
  LET t == sub.dialogs[i].outs[j]
  IN  sub' = IF t.resp # "401" /\ t.expires = 0 THEN SubGone(sub)
             ELSE [sub EXCEPT !.dialogs[i].outs[j].state = "TERMINATED"]

SubTimerK ==
  /\ sub.state = "live"
  /\ \/ sub.out.state = "COMPLETED" /\ SubKill(0)
     \/ \E i \in DOMAIN sub.dialogs : \E j \in DOMAIN sub.dialogs[i].outs :
          sub.dialogs[i].outs[j].state = "COMPLETED" /\ SubKillOld(i, j)

-----------------------------------------------------------------------------
(* A NOTIFY goes to the dialog with its tag, else it makes one; without a  *)
(* Subscription-State it is refused, after the dialog was made.  Those that *)
(* are not the last one differ in nothing else.                            *)
SubNotified ==
  \E tag \in SubTags, terminated \in BOOLEAN :
    LET known == \E i \in DOMAIN sub.dialogs :
                   sub.dialogs[i].tag = tag /\ sub.dialogs[i].state # "NULL"
        s == IF known THEN sub ELSE SubAddDialog(sub, tag, "CONFIRMED")
    IN  /\ sub.state = "live"
        /\ known \/ sub.made < SubMaxDialogs
        /\ sub' = IF terminated THEN SubGone(s) ELSE s

(* _eXosip_release_terminated_subscriptions *)
SubOver ==
  \/ sub.dialogs = <<>> /\ sub.out.age * SubUnit > 64
  \/ /\ sub.dialogs # <<>>
     /\ LET t == SubLast(sub, sub.dialogs[1].id)
        IN  t.state = "TERMINATED" /\ t.age > 0 /\ t.expires = 0
  \/ /\ sub.out.age * SubUnit > 64
     /\ \E i \in DOMAIN sub.dialogs : sub.dialogs[i].state \in {"EARLY", "NULL"}

SubFinished(outs) == {j \in DOMAIN outs : j > 1 /\ outs[j].state = "TERMINATED" /\ outs[j].age > 0}
SubSweep(d) ==
  IF SubFinished(d.outs) = {} THEN d ELSE [d EXCEPT !.outs = RemoveAt(@, Min(SubFinished(@)))]
SubSwept == [sub EXCEPT !.dialogs = [i \in DOMAIN @ |-> SubSweep(@[i])]]

SubRelease ==
  /\ sub.state = "live"
  /\ SubOver \/ SubSwept # sub
  /\ sub' = IF SubOver THEN SubGone(sub) ELSE SubSwept

(* Time passes when nothing is due: the application calls                  *)
(* eXosip_automatic_action all the time, and timer F ends every wait.      *)
SubOlder(t, old) ==
  IF t.state = "NONE" THEN t ELSE [t EXCEPT !.age = Min({@ + 1, IF old THEN 3 ELSE 7})]
SubTick ==
  LET Busy(id) == SubWaiting(SubTr(sub, id)) /\ (id = 0 \/ SubOwn(sub, id))
  IN  /\ sub.state = "live" /\ ~SubActs /\ ~SubOver
      /\ \A id \in {0} \cup SubDialogIds(sub) : Busy(id) => SubTr(sub, id).age = 0
      /\ sub' = [sub EXCEPT
           !.out = SubOlder(@, \A i \in DOMAIN sub.dialogs : sub.dialogs[i].outs # <<>>),
           !.granted = Max({0, @ - SubUnit}),
           !.dialogs = [i \in DOMAIN @ |-> [@[i] EXCEPT !.outs = [j \in DOMAIN @ |-> SubOlder(@[j], j > 1)]]]]

SubNext ==
  \/ /\ sub.sent < SubMaxSent
     /\ \/ eXosip_subscribe_send_initial_request
        \/ eXosip_subscribe_send_refresh_request
        \/ SubAutomaticAction
        \/ SubDefault
  \/ eXosip_subscribe_remove
  \/ SubAnswer
  \/ SubTimerK
  \/ SubNotified
  \/ SubRelease
  \/ SubTick

SubSpec == SubInit /\ [][SubNext]_sub

-----------------------------------------------------------------------------
SubTypeOK ==
  /\ sub.state \in {"none", "live", "removed"}
  /\ sub.retry \in 0..3 /\ \A i \in DOMAIN sub.dialogs : sub.dialogs[i].retry \in 0..3
  /\ Cardinality(SubDialogIds(sub)) = Len(sub.dialogs)

(* No answer is handled by way of a dialog that was deleted: neither the    *)
(* dialog of its own transaction nor one met in the search for its tag.    *)
(* With the default action it happens: see the README.                     *)
SubNoFault == ~sub.default => ~sub.fault

(* As long as the notifier accepts, asks for credentials at most, and the   *)
(* application leaves the subscription alone, the refresh of its dialog    *)
(* leaves before it expires (eXosip.h: "Refresh REGISTER and SUBSCRIBE     *)
(* before the expiration delay").                                          *)
SubKept ==
  (/\ sub.state = "live" /\ ~sub.trouble /\ ~sub.tolerated /\ Len(sub.dialogs) = 1
   /\ sub.period > 0 /\ SubLast(sub, sub.dialogs[1].id).resp = "2xx") => sub.granted > 0

(* A first SUBSCRIBE that was refused for want of credentials a minute ago  *)
(* is the last of three repetitions, unless an early dialog was deleted    *)
(* with the refusal (eXosip.h: "Retry with credentials upon reception of   *)
(* 401/407").                                                              *)
SubChallengeAnswered ==
  LET tries == {sub.retry} \cup {sub.dialogs[i].retry : i \in DOMAIN sub.dialogs}
  IN  (/\ sub.out.resp = "401" /\ sub.out.age > 1 /\ sub.sent < SubMaxSent
       /\ \A i \in DOMAIN sub.dialogs : sub.dialogs[i].state # "NULL" /\ sub.dialogs[i].outs = <<>>)
      => 3 \in tries

(* A subscription is kept, answered for and never reached through a dialog *)
(* that is gone.                                                           *)
SubscriptionKept == SubTypeOK /\ SubNoFault /\ SubKept /\ SubChallengeAnswered
=============================================================================
