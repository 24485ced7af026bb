---------------------------- MODULE Registration ----------------------------
(***************************************************************************)
(* One registration of eXosip (eXregister_api.c, jreg.c, and the parts of  *)
(* eXosip.c, jcallback.c and udp.c about REGISTER) and its registrar.  The *)
(* application builds and sends REGISTERs, eXosip_automatic_action         *)
(* refreshes them and repeats refused ones with credentials, the loop      *)
(* releases what is over.  Every action runs under the lock of eXosip.     *)
(*                                                                         *)
(* Ages are seconds since the birth of the last transaction; the clock     *)
(* stops only at the members of RegAges.                                   *)
(***************************************************************************)
EXTENDS Integers, FiniteSets, FiniteSetsExt

CONSTANTS RegPeriods,    \* expiration delays the application asks for
          RegGrants,     \* delays the registrar grants of its own
          RegMinExpires, \* Min-Expires of its 423
          RegAnswers,    \* answers of the registrar
          RegAges,       \* ages at which the clock stops
          RegMaxCSeq,    \* bound: requests of one Call-ID
          RegMaxCallIds  \* bound: Call-IDs

ASSUME RegAssumption ==
  /\ RegPeriods \subseteq Nat /\ RegGrants \subseteq Nat \ {0} /\ RegAges \subseteq Nat
  /\ RegMinExpires \in Nat \ {0}
  /\ RegAnswers \subseteq {"2xx", "401", "423", "423bare", "failure", "timeout"}
  /\ 0 \in RegAges

VARIABLE reg

RegUnsent == [callid |-> 0, cseq |-> 0, expires |-> 0]
RegNoTr   == [state |-> "NONE", resp |-> "none", callid |-> 0, cseq |-> 0, expires |-> 0]

(* granted: seconds the registrar still keeps the contact.  trouble: the   *)
(* registrar refused something, or the application interfered.  tolerated: *)
(* it granted a little less than what was asked, which is not looked at.   *)
RegInit ==
  reg = [state |-> "none", period |-> 0, retry |-> 0, tr |-> RegNoTr, age |-> 0,
         built |-> {}, callids |-> 0, old |-> {},
         granted |-> 0, trouble |-> FALSE, tolerated |-> FALSE, repeats |-> 0]

RegDone(tr) == tr.state \in {"COMPLETED", "TERMINATED"}
RegBusy(r)  == r.tr.state # "NONE" /\ ~RegDone(r.tr)
RegAtLeast30(expires) == IF expires = 0 THEN 0 ELSE Max({expires, 30})

(* The clock stops at age b next after age a.                              *)
RegFollows(a, b) == a < b /\ \A c \in RegAges : a < c => b <= c

(* The application calls eXosip_automatic_action so often that from an age *)
(* at which no refresh is due to the next one what is left does not run    *)
(* out.  With a call every second this excludes delays below 20 s.         *)
RegDelays == RegGrants \cup {RegAtLeast30(e) : e \in RegPeriods \ {0}}
ASSUME RegCalledOften ==
  \A p \in RegDelays, a \in 0..900, b \in RegAges :
    (a <= p - (p \div 10) /\ RegFollows(a, b)) => b < p

(* The REGISTER that follows the last one, none after a 423 without        *)
(* Min-Expires.                                                            *)
RegPeriodOf(r) == IF r.tr.resp = "423" THEN RegMinExpires ELSE r.period
RegMessage(r) ==
  IF r.tr.state = "NONE" THEN [callid |-> r.callids + 1, cseq |-> 1, expires |-> r.period]
  ELSE IF r.tr.resp = "423bare" THEN RegUnsent
  ELSE [callid |-> r.tr.callid, cseq |-> r.tr.cseq + 1, expires |-> RegPeriodOf(r)]

(* The old transaction goes to the garbage before the message is made: the *)
(* registration is without one until a message is sent.                    *)
RegBuild(r) ==
  [r EXCEPT !.tr = RegNoTr, !.period = RegPeriodOf(r),
            !.callids = IF r.tr.state = "NONE" THEN @ + 1 ELSE @]

RegTransmit(r, m) ==
  IF m = RegUnsent THEN r
  ELSE [r EXCEPT !.age = 0,
                 !.old = IF RegBusy(r) THEN @ \cup {r.tr} ELSE @,
                 !.tr = [state |-> "TRYING", resp |-> "none", callid |-> m.callid,
                         cseq |-> m.cseq, expires |-> m.expires]]

(* A message of the application is freed with an error while the last      *)
(* REGISTER is not answered.                                               *)
RegSendAlways(r, m) == RegTransmit([r EXCEPT !.built = @ \ {m}], m)
RegSend(r, m) ==
  IF RegBusy(r) THEN [r EXCEPT !.built = @ \ {m}]
  ELSE RegTransmit([r EXCEPT !.built = @ \ {m}], m)

(* eXosip_register_send_register with no message: it builds one itself.    *)
RegResend(r) == IF RegBusy(r) THEN r ELSE RegTransmit(RegBuild(r), RegMessage(r))

-----------------------------------------------------------------------------
(* The application, which may hold several messages it has not sent. *)
RegKeep(r) == [RegBuild(r) EXCEPT !.built = @ \cup ({RegMessage(r)} \ {RegUnsent})]

eXosip_register_build_initial_register ==
  /\ reg.state = "none"
  /\ \E e \in RegPeriods \ {0} :
       reg' = RegKeep([reg EXCEPT !.state = "live", !.period = RegAtLeast30(e)])

(* The period is set before the state of the last transaction is looked at. *)
eXosip_register_build_register ==
  /\ reg.state = "live"
  /\ \E e \in RegPeriods :
       LET r == [reg EXCEPT !.period = RegAtLeast30(e), !.trouble = TRUE]
       IN  reg' = IF RegBusy(r) THEN r ELSE RegKeep(r)

eXosip_register_send_register ==
  /\ reg.state = "live"
  /\ \E m \in reg.built : reg' = RegSend(reg, m)

RegFree(r) == [r EXCEPT !.state = "removed", !.built = {}, !.tr = RegNoTr,
                        !.old = IF RegBusy(r) THEN @ \cup {r.tr} ELSE @]

eXosip_register_remove == reg.state = "live" /\ reg' = RegFree([reg EXCEPT !.period = 0])

-----------------------------------------------------------------------------
(* eXosip_automatic_action, and the same in eXosip_default_action. *)
RegRefreshIsDue ==
  /\ reg.period # 0
  /\ \/ reg.age > 900
     \/ reg.age > reg.period - (reg.period \div 10)
     \/ reg.age > 120 /\ reg.tr.resp # "2xx"

RegChallenged == reg.tr.resp \in {"401", "423", "423bare"}

RegRetry == [RegResend(reg) EXCEPT !.retry = @ + 1, !.repeats = @ + 1]

RegActs ==
  /\ reg.state = "live" /\ reg.tr.state # "NONE"
  /\ IF RegRefreshIsDue THEN ~RegBusy(reg) ELSE reg.age < 120 /\ RegChallenged /\ reg.retry < 3

RegAutomaticAction ==
  /\ RegActs
  /\ reg' = IF RegRefreshIsDue THEN RegResend(reg) ELSE RegRetry

(* The application may hand the event of the refusal to the default action. *)
RegDefaultAction ==
  /\ reg.state = "live" /\ reg.tr.resp = "401" /\ reg.retry < 3
  /\ reg' = RegRetry

-----------------------------------------------------------------------------
(* The registrar.  The Expires of a 2xx that is not at least 15 s less     *)
(* than the period is taken for the delay of the answer.                   *)
RegShortened(period, e) == IF e < period - 15 THEN e ELSE period

RegUpdateNever(period, e, contact) == period
RegUpdate(period, e, contact) ==
  LET p == RegShortened(period, e)
  IN  IF contact /\ e > p THEN e ELSE p

RegFinal(tr, state, resp) == [tr EXCEPT !.state = state, !.resp = resp]

RegAccepted(r, e, contact) ==
  [r EXCEPT !.tr = RegFinal(r.tr, "COMPLETED", "2xx"), !.granted = e,
            !.tolerated = e < r.period /\ e >= r.period - 15,
            !.retry = 0, !.repeats = 0,
            !.period = IF e > 0 THEN RegUpdate(r.period, e, contact) ELSE r.period]
RegRefused(r, a) ==
  [r EXCEPT !.tr = IF a = "timeout" THEN RegFinal(r.tr, "TERMINATED", "none")
                   ELSE RegFinal(r.tr, "COMPLETED", a),
            !.trouble = TRUE, !.tolerated = FALSE]

(* An unregistration is granted no time. *)
RegAnswer ==
  /\ RegBusy(reg)
  /\ \E a \in RegAnswers :
       IF a # "2xx" THEN reg' = RegRefused(reg, a)
       ELSE \E e \in RegGrants \cup {reg.tr.expires}, contact \in BOOLEAN :
              /\ reg.tr.expires = 0 => e = 0
              /\ reg' = RegAccepted(reg, e, contact)

RegTimerK ==
  /\ reg.tr.state = "COMPLETED"
  /\ reg' = [reg EXCEPT !.tr.state = "TERMINATED"]

(* _eXosip_release_terminated_registrations *)
RegOver == /\ reg.state = "live" /\ reg.period = 0 /\ reg.tr.state # "NONE"
           /\ reg.age > 75 \/ reg.tr.resp = "2xx"
RegRelease == RegOver /\ reg' = RegFree(reg)

(* _eXosip_mark_all_registrations_expired, when a connection breaks.  The  *)
(* first guard is a bound: once for a REGISTER, as a rule.                 *)
RegMarkExpired ==
  /\ reg.age \in RegAges
  /\ reg.state = "live" /\ reg.tr.state # "NONE"
  /\ reg' = [reg EXCEPT !.age = @ + reg.period]

(* The application calls eXosip_automatic_action all the time; a REGISTER  *)
(* is answered or times out within 64 T1.                                  *)
RegTick ==
  \E next \in RegAges :
    /\ RegFollows(reg.age, next)
    /\ reg.tr.state # "NONE" /\ ~RegActs /\ ~RegOver
    /\ RegBusy(reg) => next <= 32
    /\ reg' = [reg EXCEPT !.age = next, !.granted = Max({0, @ - (next - reg.age)})]

RegNext ==
  \/ eXosip_register_build_initial_register
  \/ reg.tr.cseq < RegMaxCSeq /\ reg.callids < RegMaxCallIds
     /\ (eXosip_register_build_register \/ RegAutomaticAction \/ RegDefaultAction)
  \/ eXosip_register_send_register
  \/ eXosip_register_remove
  \/ RegAnswer
  \/ RegTimerK
  \/ RegRelease
  \/ RegMarkExpired
  \/ RegTick

RegSpec == RegInit /\ [][RegNext]_reg

-----------------------------------------------------------------------------
RegTypeOK ==
  /\ reg.state \in {"none", "live", "removed"}
  /\ reg.period \in Nat /\ reg.age \in Nat /\ reg.granted \in Nat
  /\ reg.retry \in 0..3
  /\ reg.tr.state \in {"NONE", "TRYING", "COMPLETED", "TERMINATED"}

(* No REGISTER leaves while an older one of the same registration has no   *)
(* final answer, whoever sends it: the application, with a message it      *)
(* built long ago, the refresh, or the repetition with credentials.  And   *)
(* between two successes a refusal is answered at most three times.        *)
RegOneAtATime ==
  /\ reg.state = "live" => reg.old = {}
  /\ reg.repeats <= 3

(* A Call-ID is named by one REGISTER, the last one or one that the        *)
(* application still holds, which alone is followed by the next CSeq: no   *)
(* two REGISTERs of a registration have the same Call-ID and CSeq, in      *)
(* whatever order the application sends what it built.                     *)
RegNumbersApart ==
  /\ \A m \in reg.built : m.callid \in 1..reg.callids
  /\ \A m, n \in reg.built : m.callid = n.callid => m = n
  /\ reg.tr.state # "NONE" =>
       /\ reg.tr.callid \in 1..reg.callids
       /\ \A m \in reg.built : m.callid # reg.tr.callid

(* As long as the registrar accepts and the application leaves the         *)
(* registration alone, its refresh leaves before the contact expires       *)
(* (eXosip.h: "Refresh REGISTER and SUBSCRIBE before the expiration"),     *)
(* unless the registrar granted up to 15 seconds less than was asked.      *)
RegKeepsContact ==
  (reg.state = "live" /\ ~reg.trouble /\ ~reg.tolerated /\ RegDone(reg.tr))
     => reg.granted > 0

(* A registration is refreshed in time and by one REGISTER at a time, each *)
(* with a number of its own.                                               *)
RegistrationKept == RegTypeOK /\ RegOneAtATime /\ RegNumbersApart /\ RegKeepsContact
=============================================================================
