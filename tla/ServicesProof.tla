---------------------------- MODULE ServicesProof ----------------------------
(***************************************************************************)
(* Four of the services of eXosip.  A registration  has one REGISTER at a  *)
(* time, and its refresh leaves while the registrar still keeps the        *)
(* contact, for any delays, any number of requests and any ages at which   *)
(* the clock stops that satisfy RegCalledOften.  The tag eXosip keeps of a *)
(* publication is one the server knows, for any number of requests, of     *)
(* tags and of answers out of order.  The NOTIFYs of an incoming           *)
(* subscription leave in order, for any number of them and of answers that *)
(* wait.  No nonce is used twice with one count, for any challenges.       *)
(***************************************************************************)
EXTENDS Registration, Publication, InSubscription, Auth,
        SequenceTheorems, WellFoundedInduction, TLAPS

RegMessages == [callid : Nat, cseq : Nat, expires : Nat]
RegTrs ==
  [state : {"NONE", "TRYING", "COMPLETED", "TERMINATED"},
   resp : {"none", "2xx", "401", "423", "423bare", "failure"},
   callid : Nat, cseq : Nat, expires : Nat]
RegStates ==
  [state : {"none", "live", "removed"}, period : Nat, retry : Nat, tr : RegTrs, age : Nat,
   built : SUBSET RegMessages, callids : Nat, old : SUBSET RegTrs,
   granted : Nat, trouble : BOOLEAN, tolerated : BOOLEAN, repeats : Nat]

(* Without trouble every REGISTER, built or sent, asks for one of the      *)
(* delays that are granted, and the last one was not refused.              *)
RegUntroubled ==
  (reg.state = "live" /\ ~reg.trouble) =>
    /\ reg.period \in RegDelays
    /\ \A m \in reg.built : m.expires \in RegDelays
    /\ reg.tr.state # "NONE" => reg.tr.expires \in RegDelays
    /\ reg.tr.resp \in {"none", "2xx"}

(* The contact is kept at least until the end of the period.               *)
RegLasts ==
  (reg.state = "live" /\ ~reg.trouble /\ ~reg.tolerated /\ RegDone(reg.tr))
    => reg.granted >= reg.period - reg.age

RegCounted == reg.retry \in 0..3 /\ reg.repeats = reg.retry

RegInv ==
  /\ reg \in RegStates
  /\ RegUnsent \notin reg.built
  /\ RegCounted /\ RegUntroubled /\ RegLasts /\ RegNumbersApart
  /\ reg.state = "live" => reg.old = {}
  /\ reg.state = "none" => reg.old = {} /\ reg.built = {} /\ reg.tr = RegNoTr
  /\ RegKeepsContact

-----------------------------------------------------------------------------
(* What the period is at least 30 s means.                                 *)
LEMMA RegAtLeast30Type ==
  ASSUME NEW e \in Nat PROVE RegAtLeast30(e) \in Nat /\ (e # 0 => RegAtLeast30(e) >= 30)
<1>1. CASE e >= 30
  <2>1. Max({e, 30}) = e
    BY <1>1 DEF Max
  <2> QED
    BY <2>1, <1>1 DEF RegAtLeast30
<1>2. CASE e < 30
  <2>1. Max({e, 30}) = 30
    BY <1>2 DEF Max
  <2> QED
    BY <2>1 DEF RegAtLeast30
<1> QED
  BY <1>1, <1>2

(* All delays are positive.                                                *)
LEMMA RegDelaysPositive == RegDelays \subseteq Nat \ {0}
<1>1. ASSUME NEW e \in RegPeriods \ {0} PROVE RegAtLeast30(e) \in Nat \ {0}
  <2>1. e \in Nat /\ e # 0
    BY RegAssumption
  <2> QED
    BY <2>1, RegAtLeast30Type
<1>2. RegGrants \subseteq Nat \ {0}
  BY RegAssumption
<1> QED
  BY <1>1, <1>2 DEF RegDelays

(* Before the first REGISTER.                                              *)
LEMMA RegInitially == RegInit => RegInv
BY DEF RegInit, RegInv, RegStates, RegTrs, RegNoTr, RegCounted, RegUntroubled, RegLasts,
       RegNumbersApart, RegKeepsContact, RegDone

-----------------------------------------------------------------------------
(* m is the message that follows the last REGISTER of r, n the number of   *)
(* Call-IDs after it.                                                      *)
RegNumbered(r, m, n) ==
  IF r.tr.state = "NONE" THEN m.callid = r.callids + 1 /\ n = r.callids + 1
  ELSE n = r.callids /\ (m # RegUnsent => m.callid = r.tr.callid)

(* A step that starts no Call-ID and builds nothing.                       *)
LEMMA RegApartSame ==
  ASSUME RegNumbersApart, reg'.built \subseteq reg.built, reg'.callids = reg.callids,
         reg'.tr.state # "NONE" => reg.tr.state # "NONE" /\ reg'.tr.callid = reg.tr.callid
  PROVE  RegNumbersApart'
BY DEF RegNumbersApart

(* The application sends a message it has built.                           *)
LEMMA RegApartTaken ==
  ASSUME RegNumbersApart, NEW m \in reg.built, reg'.built = reg.built \ {m},
         reg'.callids = reg.callids, reg'.tr.callid = m.callid
  PROVE  RegNumbersApart'
BY DEF RegNumbersApart

(* The message that follows the last REGISTER, which it replaces, is kept. *)
LEMMA RegApartKept ==
  ASSUME RegNumbersApart, reg.callids \in Nat, NEW m, NEW n, RegNumbered(reg, m, n),
         reg'.callids = n, reg'.built = reg.built \cup ({m} \ {RegUnsent}),
         reg'.tr.state = "NONE"
  PROVE  RegNumbersApart'
<1>1. CASE reg.tr.state = "NONE"
  <2>1. m.callid = reg.callids + 1 /\ reg'.callids = reg.callids + 1
    BY <1>1 DEF RegNumbered
  <2>2. \A b \in reg.built : b.callid \in 1..reg.callids
    BY DEF RegNumbersApart
  <2>3. \A b \in reg'.built : b \in reg.built \/ b = m
    OBVIOUS
  <2>4. \A b \in reg'.built : b.callid \in 1..reg'.callids
    BY <2>1, <2>2, <2>3
  <2>5. \A b \in reg.built : b.callid # m.callid
    BY <2>1, <2>2
  <2> QED
    BY <2>3, <2>4, <2>5 DEF RegNumbersApart
<1>2. CASE reg.tr.state # "NONE"
  <2>1. reg'.callids = reg.callids /\ (m # RegUnsent => m.callid = reg.tr.callid)
    BY <1>2 DEF RegNumbered
  <2> QED
    BY <1>2, <2>1 DEF RegNumbersApart
<1> QED
  BY <1>1, <1>2

(* It is sent at once.                                                     *)
LEMMA RegApartSent ==
  ASSUME RegNumbersApart, reg.callids \in Nat, NEW m, NEW n, RegNumbered(reg, m, n),
         reg'.callids = n, reg'.built = reg.built,
         reg'.tr.state # "NONE" => m # RegUnsent /\ reg'.tr.callid = m.callid
  PROVE  RegNumbersApart'
<1>1. CASE reg.tr.state = "NONE"
  <2>1. m.callid = reg.callids + 1 /\ reg'.callids = reg.callids + 1
    BY <1>1 DEF RegNumbered
  <2>2. \A b \in reg.built : b.callid \in 1..reg.callids
    BY DEF RegNumbersApart
  <2>3. m.callid \in 1..reg'.callids
    BY <2>1
  <2>4. \A b \in reg.built : b.callid \in 1..reg'.callids /\ b.callid # m.callid
    BY <2>1, <2>2
  <2> QED
    BY <2>3, <2>4 DEF RegNumbersApart
<1>2. CASE reg.tr.state # "NONE"
  <2>1. reg'.callids = reg.callids /\ (m # RegUnsent => m.callid = reg.tr.callid)
    BY <1>2 DEF RegNumbered
  <2> QED
    BY <1>2, <2>1 DEF RegNumbersApart
<1> QED
  BY <1>1, <1>2

-----------------------------------------------------------------------------
(* A step that keeps the period, the messages and the last answer.         *)
LEMMA RegSame ==
  ASSUME RegInv, reg' \in RegStates, RegCounted',
         reg.state = "live", reg'.state = reg.state, reg'.period = reg.period, reg'.built \subseteq reg.built,
         reg'.old = reg.old, reg'.trouble = reg.trouble, reg'.tolerated = reg.tolerated,
         reg'.tr.expires = reg.tr.expires, reg'.tr.resp = reg.tr.resp,
         reg'.tr.state # reg.tr.state => {reg.tr.state, reg'.tr.state} = {"COMPLETED", "TERMINATED"},
         reg'.granted = reg.granted, reg'.age >= reg.age,
         reg'.callids = reg.callids, reg'.tr.callid = reg.tr.callid
  PROVE  RegInv'
<1>1. reg \in RegStates /\ reg.tr \in RegTrs
  BY DEF RegInv, RegStates
<1>2. /\ reg'.tr.state # "NONE" => reg.tr.state # "NONE"
      /\ RegDone(reg.tr)' => RegDone(reg.tr)
  BY DEF RegDone
<1>3. reg.age \in Nat /\ reg'.age \in Nat /\ reg.granted \in Nat /\ reg.period \in Nat
  BY <1>1 DEF RegStates
<1>4. RegUntroubled'
  BY <1>2 DEF RegInv, RegUntroubled
<1>5. RegLasts' /\ RegKeepsContact'
  BY <1>2, <1>3 DEF RegInv, RegLasts, RegKeepsContact
<1>6. RegNumbersApart'
  BY <1>2, RegApartSame DEF RegInv
<1> QED
  BY <1>4, <1>5, <1>6 DEF RegInv

(* What RegTransmit makes of a registration without a REGISTER on its way. *)
LEMMA RegTransmits ==
  ASSUME NEW r \in RegStates, NEW m \in RegMessages, ~RegBusy(r)
  PROVE  /\ RegTransmit(r, m) \in RegStates
         /\ RegTransmit(r, m).state = r.state /\ RegTransmit(r, m).period = r.period
         /\ RegTransmit(r, m).built = r.built /\ RegTransmit(r, m).old = r.old
         /\ RegTransmit(r, m).trouble = r.trouble /\ RegTransmit(r, m).callids = r.callids
         /\ RegTransmit(r, m).retry = r.retry /\ RegTransmit(r, m).repeats = r.repeats
         /\ IF m = RegUnsent THEN RegTransmit(r, m).tr = r.tr
            ELSE /\ RegTransmit(r, m).tr.state = "TRYING" /\ RegTransmit(r, m).tr.resp = "none"
                 /\ RegTransmit(r, m).tr.expires = m.expires
                 /\ RegTransmit(r, m).tr.callid = m.callid
<1>1. CASE m = RegUnsent
  BY <1>1 DEF RegTransmit
<1>2. CASE m # RegUnsent
  <2> DEFINE tr == [state |-> "TRYING", resp |-> "none", callid |-> m.callid,
                    cseq |-> m.cseq, expires |-> m.expires]
             t  == RegTransmit(r, m)
             q  == [r EXCEPT !.age = 0]
  <2>1. t = [[q EXCEPT !.old = r.old] EXCEPT !.tr = tr]
    BY <1>2 DEF RegTransmit, RegStates
  <2>2. tr \in RegTrs /\ tr.state = "TRYING" /\ tr.resp = "none" /\ tr.expires = m.expires
      /\ tr.callid = m.callid
    BY DEF RegTrs, RegMessages
  <2>3. q = [state |-> r.state, period |-> r.period, retry |-> r.retry, tr |-> r.tr, age |-> 0,
             built |-> r.built, callids |-> r.callids, old |-> r.old, granted |-> r.granted,
             trouble |-> r.trouble, tolerated |-> r.tolerated, repeats |-> r.repeats]
    BY DEF RegStates
  <2> HIDE DEF tr, t, q
  <2>4. [q EXCEPT !.old = r.old] = q
    BY <2>3
  <2>5. t = [q EXCEPT !.tr = tr]
    BY <2>1, <2>4
  <2>6. t = [state |-> r.state, period |-> r.period, retry |-> r.retry, tr |-> tr, age |-> 0,
             built |-> r.built, callids |-> r.callids, old |-> r.old, granted |-> r.granted,
             trouble |-> r.trouble, tolerated |-> r.tolerated, repeats |-> r.repeats]
    BY <2>5, <2>3
  <2>7. /\ t \in RegStates /\ t.state = r.state /\ t.period = r.period /\ t.built = r.built
        /\ t.old = r.old /\ t.trouble = r.trouble /\ t.retry = r.retry
        /\ t.repeats = r.repeats /\ t.tr = tr /\ t.callids = r.callids
    BY <2>2, <2>6 DEF RegStates
  <2> QED
    BY <1>2, <2>2, <2>7 DEF t
<1> QED
  BY <1>1, <1>2

(* The same of one that counts its k-th repetition.                        *)
RegCounting(r, k) == [r EXCEPT !.retry = k, !.repeats = k]
LEMMA RegCounts ==
  ASSUME NEW r \in RegStates, NEW k \in Nat
  PROVE  /\ RegCounting(r, k) \in RegStates
         /\ RegCounting(r, k).state = r.state /\ RegCounting(r, k).period = r.period
         /\ RegCounting(r, k).built = r.built /\ RegCounting(r, k).old = r.old
         /\ RegCounting(r, k).trouble = r.trouble /\ RegCounting(r, k).tr = r.tr
         /\ RegCounting(r, k).tolerated = r.tolerated /\ RegCounting(r, k).age = r.age
         /\ RegCounting(r, k).granted = r.granted /\ RegCounting(r, k).callids = r.callids
         /\ RegCounting(r, k).retry = k /\ RegCounting(r, k).repeats = k
<1> DEFINE q == [r EXCEPT !.retry = k]
           t == RegCounting(r, k)
<1>1. t = [q EXCEPT !.repeats = k]
  BY DEF RegCounting
<1>2. q = [state |-> r.state, period |-> r.period, retry |-> k, tr |-> r.tr, age |-> r.age,
           built |-> r.built, callids |-> r.callids, old |-> r.old, granted |-> r.granted,
           trouble |-> r.trouble, tolerated |-> r.tolerated, repeats |-> r.repeats]
  BY DEF RegStates
<1> HIDE DEF q, t
<1>3. t = [state |-> r.state, period |-> r.period, retry |-> k, tr |-> r.tr, age |-> r.age,
           built |-> r.built, callids |-> r.callids, old |-> r.old, granted |-> r.granted,
           trouble |-> r.trouble, tolerated |-> r.tolerated, repeats |-> k]
  BY <1>1, <1>2
<1>4. /\ t \in RegStates /\ t.state = r.state /\ t.period = r.period /\ t.built = r.built
      /\ t.old = r.old /\ t.trouble = r.trouble /\ t.tr = r.tr /\ t.tolerated = r.tolerated
      /\ t.age = r.age /\ t.granted = r.granted /\ t.retry = k /\ t.repeats = k
      /\ t.callids = r.callids
  BY <1>3 DEF RegStates
<1> QED
  BY <1>4 DEF t

(* A message that is sent while no older one waits for its answer.         *)
LEMMA RegTransmitted ==
  ASSUME RegInv, reg' \in RegStates, RegCounted', RegNumbersApart', NEW m,
         reg.state = "live", reg'.state = reg.state, reg'.old = reg.old, reg'.trouble = reg.trouble,
         reg'.built \subseteq reg.built,
         (reg.state = "live" /\ ~reg.trouble)
            => reg'.period \in RegDelays /\ (m # RegUnsent => m.expires \in RegDelays),
         IF m = RegUnsent THEN reg'.tr = RegNoTr
         ELSE reg'.tr.state = "TRYING" /\ reg'.tr.resp = "none" /\ reg'.tr.expires = m.expires
  PROVE  RegInv'
<1>1. ~RegDone(reg.tr)' /\ reg'.tr.resp = "none"
      /\ (reg'.tr.state # "NONE" => m # RegUnsent /\ reg'.tr.expires = m.expires)
  BY DEF RegDone, RegNoTr
<1>2. RegUntroubled'
  BY <1>1 DEF RegInv, RegUntroubled
<1> QED
  BY <1>1, <1>2 DEF RegInv, RegLasts, RegKeepsContact

(* The next REGISTER asks for the period, unless the last one was refused  *)
(* for asking too little.                                                  *)
LEMMA RegBuilt ==
  ASSUME NEW r \in RegStates
  PROVE  /\ RegBuild(r) \in RegStates /\ RegMessage(r) \in RegMessages
         /\ RegBuild(r).tr = RegNoTr /\ RegBuild(r).period = RegPeriodOf(r)
         /\ RegBuild(r).state = r.state /\ RegBuild(r).old = r.old
         /\ RegBuild(r).trouble = r.trouble /\ RegBuild(r).built = r.built
         /\ RegBuild(r).retry = r.retry /\ RegBuild(r).repeats = r.repeats
         /\ RegMessage(r) # RegUnsent => RegMessage(r).expires \in {r.period, RegPeriodOf(r)}
         /\ r.tr.resp # "423" => RegPeriodOf(r) = r.period
         /\ RegNumbered(r, RegMessage(r), RegBuild(r).callids)
<1> DEFINE n == IF r.tr.state = "NONE" THEN r.callids + 1 ELSE r.callids
<1>1. RegPeriodOf(r) \in Nat /\ n \in Nat
  BY RegAssumption DEF RegPeriodOf, RegStates
<1>2. RegBuild(r) = [r EXCEPT !.tr = RegNoTr, !.period = RegPeriodOf(r), !.callids = n]
  BY DEF RegBuild
<1> HIDE DEF n
<1>3. RegBuild(r) =
        [state |-> r.state, period |-> RegPeriodOf(r), retry |-> r.retry, tr |-> RegNoTr,
         age |-> r.age, built |-> r.built, callids |-> n, old |-> r.old, granted |-> r.granted,
         trouble |-> r.trouble, tolerated |-> r.tolerated, repeats |-> r.repeats]
  BY <1>2 DEF RegStates
<1>6. RegNoTr \in RegTrs
  BY DEF RegNoTr, RegTrs
<1>4. r.tr \in RegTrs /\ r.callids \in Nat /\ r.period \in Nat
  BY DEF RegStates
<1>5. RegMessage(r) \in RegMessages
      /\ (RegMessage(r) # RegUnsent => RegMessage(r).expires \in {r.period, RegPeriodOf(r)})
  BY <1>1, <1>4 DEF RegMessage, RegMessages, RegUnsent, RegTrs
<1>7. RegNumbered(r, RegMessage(r), n)
  <2>1. r.tr.state # "NONE" /\ RegMessage(r) # RegUnsent => RegMessage(r).callid = r.tr.callid
    BY DEF RegMessage
  <2>2. r.tr.state = "NONE" => RegMessage(r).callid = r.callids + 1
    BY DEF RegMessage
  <2> QED
    BY <2>1, <2>2 DEF RegNumbered, n
<1>8. RegBuild(r).callids = n
  BY <1>3
<1> QED
  BY <1>1, <1>3, <1>5, <1>6, <1>7, <1>8 DEF RegStates, RegPeriodOf

(* Counting the same number again changes nothing.                         *)
LEMMA RegCountsNothing ==
  ASSUME NEW r \in RegStates, r.repeats = r.retry
  PROVE  RegCounting(r, r.retry) = r
BY DEF RegCounting, RegStates

(* A REGISTER that eXosip makes and sends at once, as the k-th repetition. *)
LEMMA RegResent ==
  ASSUME RegInv, reg.state = "live", NEW k \in 0..3, reg' = RegCounting(RegResend(reg), k)
  PROVE  RegInv'
<1>0. reg \in RegStates
  BY DEF RegInv
<1>1. CASE RegBusy(reg)
  <2>1. reg' = RegCounting(reg, k)
    BY <1>1 DEF RegResend
  <2>4. /\ reg' \in RegStates /\ reg.age \in Nat
        /\ reg'.state = reg.state /\ reg'.period = reg.period /\ reg'.built = reg.built
        /\ reg'.old = reg.old /\ reg'.trouble = reg.trouble /\ reg'.tolerated = reg.tolerated
        /\ reg'.tr = reg.tr /\ reg'.granted = reg.granted /\ reg'.age = reg.age
        /\ reg'.retry = k /\ reg'.repeats = k /\ reg'.callids = reg.callids
    <3>1. reg.age \in Nat
      BY <1>0 DEF RegStates
    <3> QED
      BY <1>0, <2>1, <3>1, RegCounts
  <2>5. RegCounted'
    BY <2>4 DEF RegCounted
  <2>6. reg'.built \subseteq reg.built /\ reg'.age >= reg.age
    BY <2>4
  <2> QED
    BY <2>4, <2>5, <2>6, RegSame
<1>2. CASE ~RegBusy(reg)
  <2> DEFINE r == RegBuild(reg)
             m == RegMessage(reg)
             t == RegTransmit(r, m)
  <2>1. reg' = RegCounting(t, k)
    BY <1>2 DEF RegResend
  <2>3. /\ r \in RegStates /\ m \in RegMessages /\ r.tr = RegNoTr
        /\ r.period = RegPeriodOf(reg) /\ r.state = reg.state /\ r.old = reg.old
        /\ r.trouble = reg.trouble /\ r.built = reg.built
        /\ m # RegUnsent => m.expires \in {reg.period, RegPeriodOf(reg)}
        /\ reg.tr.resp # "423" => RegPeriodOf(reg) = reg.period
        /\ RegNumbered(reg, m, r.callids)
    BY <1>0, RegBuilt
  <2>4. (reg.state = "live" /\ ~reg.trouble)
           => reg.period \in RegDelays /\ reg.tr.resp # "423"
    BY DEF RegInv, RegUntroubled
  <2> HIDE DEF r, m
  <2>5. ~RegBusy(r)
    BY <2>3 DEF RegBusy, RegNoTr
  <2>6. /\ t \in RegStates /\ t.state = r.state /\ t.period = r.period
        /\ t.built = r.built /\ t.old = r.old /\ t.trouble = r.trouble
        /\ t.callids = r.callids
        /\ IF m = RegUnsent THEN t.tr = RegNoTr
           ELSE /\ t.tr.state = "TRYING" /\ t.tr.resp = "none" /\ t.tr.expires = m.expires
                /\ t.tr.callid = m.callid
    BY <2>3, <2>5, RegTransmits
  <2> HIDE DEF t
  <2>7. /\ reg' \in RegStates /\ reg'.state = t.state /\ reg'.period = t.period
        /\ reg'.built = t.built /\ reg'.old = t.old /\ reg'.trouble = t.trouble
        /\ reg'.retry = k /\ reg'.repeats = k /\ reg'.tr = t.tr /\ reg'.callids = t.callids
    BY <2>1, <2>6, RegCounts
  <2>8. RegCounted'
    BY <2>7 DEF RegCounted
  <2>9. RegNumbersApart'
    <3>1. RegNumbersApart /\ reg.callids \in Nat
      BY <1>0 DEF RegInv, RegStates
    <3>2. reg'.built = reg.built /\ reg'.callids = r.callids
      BY <2>3, <2>6, <2>7
    <3>3. reg'.tr.state # "NONE" => m # RegUnsent /\ reg'.tr.callid = m.callid
      BY <2>6, <2>7 DEF RegNoTr
    <3> QED
      BY <2>3, <3>1, <3>2, <3>3, RegApartSent
  <2> QED
    BY <2>3, <2>4, <2>6, <2>7, <2>8, <2>9, RegTransmitted
<1> QED
  BY <1>1, <1>2

-----------------------------------------------------------------------------
(* A registration that is removed promises nothing.                        *)
LEMMA RegRemoved ==
  ASSUME RegInv, reg' \in RegStates, reg'.state = "removed", reg'.retry = reg.retry,
         reg'.repeats = reg.repeats, reg'.built = {}, reg'.tr = RegNoTr
  PROVE  RegInv'
BY DEF RegInv, RegCounted, RegUntroubled, RegLasts, RegNumbersApart, RegKeepsContact, RegNoTr

(* What is left when a registration is freed.                              *)
LEMMA RegFreed ==
  ASSUME NEW r \in RegStates
  PROVE  /\ RegFree(r) \in RegStates /\ RegFree(r).state = "removed"
         /\ RegFree(r).retry = r.retry /\ RegFree(r).repeats = r.repeats
         /\ RegFree(r).built = {} /\ RegFree(r).tr = RegNoTr
<1> DEFINE old == IF RegBusy(r) THEN r.old \cup {r.tr} ELSE r.old
<1>1. RegFree(r) = [r EXCEPT !.state = "removed", !.built = {}, !.tr = RegNoTr, !.old = old]
  BY DEF RegFree
<1>2. old \in SUBSET RegTrs /\ RegNoTr \in RegTrs
  BY DEF RegStates, RegTrs, RegNoTr
<1> HIDE DEF old
<1>3. RegFree(r) =
        [state |-> "removed", period |-> r.period, retry |-> r.retry, tr |-> RegNoTr,
         age |-> r.age, built |-> {}, callids |-> r.callids, old |-> old,
         granted |-> r.granted, trouble |-> r.trouble, tolerated |-> r.tolerated,
         repeats |-> r.repeats]
  BY <1>1 DEF RegStates
<1> QED
  BY <1>2, <1>3 DEF RegStates

(* What the application gets to send later.                                *)
LEMMA RegKept ==
  ASSUME NEW r \in RegStates
  PROVE  /\ RegKeep(r) \in RegStates
         /\ RegKeep(r).state = r.state /\ RegKeep(r).old = r.old
         /\ RegKeep(r).trouble = r.trouble /\ RegKeep(r).tr = RegNoTr
         /\ RegKeep(r).retry = r.retry /\ RegKeep(r).repeats = r.repeats
         /\ RegKeep(r).period = RegPeriodOf(r)
         /\ RegKeep(r).built = r.built \cup ({RegMessage(r)} \ {RegUnsent})
         /\ RegNumbered(r, RegMessage(r), RegKeep(r).callids)
         /\ RegUnsent \notin RegKeep(r).built \ r.built
<1> DEFINE b == RegBuild(r)
           built == b.built \cup ({RegMessage(r)} \ {RegUnsent})
<1>1. RegKeep(r) = [b EXCEPT !.built = built]
  BY DEF RegKeep
<1>2. /\ b \in RegStates /\ RegMessage(r) \in RegMessages /\ b.tr = RegNoTr
      /\ b.period = RegPeriodOf(r) /\ b.state = r.state /\ b.old = r.old
      /\ b.trouble = r.trouble /\ b.built = r.built /\ b.retry = r.retry
      /\ b.repeats = r.repeats /\ RegNumbered(r, RegMessage(r), b.callids)
  BY RegBuilt
<1>3. built \in SUBSET RegMessages /\ built = r.built \cup ({RegMessage(r)} \ {RegUnsent})
      /\ RegUnsent \notin built \ r.built
  BY <1>2 DEF RegStates
<1> HIDE DEF b, built
<1>4. RegKeep(r) =
        [state |-> b.state, period |-> b.period, retry |-> b.retry, tr |-> b.tr,
         age |-> b.age, built |-> built, callids |-> b.callids, old |-> b.old,
         granted |-> b.granted, trouble |-> b.trouble, tolerated |-> b.tolerated,
         repeats |-> b.repeats]
  BY <1>1, <1>2 DEF RegStates
<1> QED
  BY <1>2, <1>3, <1>4 DEF RegStates

-----------------------------------------------------------------------------
(* Assignments of the application to a registration.                       *)
RegAskedFirst(r, p) == [r EXCEPT !.state = "live", !.period = p]
RegAskedAgain(r, p) == [r EXCEPT !.period = p, !.trouble = TRUE]
RegAskedToEnd(r)    == [r EXCEPT !.period = 0]
RegTaken(r, b)      == [r EXCEPT !.built = b]

(* They leave the rest alone.                                              *)
LEMMA RegAsked ==
  ASSUME NEW r \in RegStates, NEW p \in Nat, NEW b \in SUBSET r.built
  PROVE  /\ RegAskedFirst(r, p) =
              [state |-> "live", period |-> p, retry |-> r.retry, tr |-> r.tr, age |-> r.age,
               built |-> r.built, callids |-> r.callids, old |-> r.old, granted |-> r.granted,
               trouble |-> r.trouble, tolerated |-> r.tolerated, repeats |-> r.repeats]
         /\ RegAskedAgain(r, p) =
              [state |-> r.state, period |-> p, retry |-> r.retry, tr |-> r.tr, age |-> r.age,
               built |-> r.built, callids |-> r.callids, old |-> r.old, granted |-> r.granted,
               trouble |-> TRUE, tolerated |-> r.tolerated, repeats |-> r.repeats]
         /\ RegAskedToEnd(r) =
              [state |-> r.state, period |-> 0, retry |-> r.retry, tr |-> r.tr, age |-> r.age,
               built |-> r.built, callids |-> r.callids, old |-> r.old, granted |-> r.granted,
               trouble |-> r.trouble, tolerated |-> r.tolerated, repeats |-> r.repeats]
         /\ RegTaken(r, b) =
              [state |-> r.state, period |-> r.period, retry |-> r.retry, tr |-> r.tr,
               age |-> r.age, built |-> b, callids |-> r.callids, old |-> r.old,
               granted |-> r.granted, trouble |-> r.trouble, tolerated |-> r.tolerated,
               repeats |-> r.repeats]
<1>1. RegAskedFirst(r, p) =
        [state |-> "live", period |-> p, retry |-> r.retry, tr |-> r.tr, age |-> r.age,
         built |-> r.built, callids |-> r.callids, old |-> r.old, granted |-> r.granted,
         trouble |-> r.trouble, tolerated |-> r.tolerated, repeats |-> r.repeats]
  <2> DEFINE q == [r EXCEPT !.state = "live"]
  <2>1. RegAskedFirst(r, p) = [q EXCEPT !.period = p]
    BY DEF RegAskedFirst
  <2>2. q = [state |-> "live", period |-> r.period, retry |-> r.retry, tr |-> r.tr,
             age |-> r.age, built |-> r.built, callids |-> r.callids, old |-> r.old,
             granted |-> r.granted, trouble |-> r.trouble, tolerated |-> r.tolerated,
             repeats |-> r.repeats]
    BY DEF RegStates
  <2> HIDE DEF q
  <2> QED
    BY <2>1, <2>2
<1>2. RegAskedAgain(r, p) =
        [state |-> r.state, period |-> p, retry |-> r.retry, tr |-> r.tr, age |-> r.age,
         built |-> r.built, callids |-> r.callids, old |-> r.old, granted |-> r.granted,
         trouble |-> TRUE, tolerated |-> r.tolerated, repeats |-> r.repeats]
  <2> DEFINE q == [r EXCEPT !.period = p]
  <2>1. RegAskedAgain(r, p) = [q EXCEPT !.trouble = TRUE]
    BY DEF RegAskedAgain
  <2>2. q = [state |-> r.state, period |-> p, retry |-> r.retry, tr |-> r.tr,
             age |-> r.age, built |-> r.built, callids |-> r.callids, old |-> r.old,
             granted |-> r.granted, trouble |-> r.trouble, tolerated |-> r.tolerated,
             repeats |-> r.repeats]
    BY DEF RegStates
  <2> HIDE DEF q
  <2> QED
    BY <2>1, <2>2
<1>3. RegAskedToEnd(r) =
        [state |-> r.state, period |-> 0, retry |-> r.retry, tr |-> r.tr, age |-> r.age,
         built |-> r.built, callids |-> r.callids, old |-> r.old, granted |-> r.granted,
         trouble |-> r.trouble, tolerated |-> r.tolerated, repeats |-> r.repeats]
  BY DEF RegStates, RegAskedToEnd
<1>4. RegTaken(r, b) =
        [state |-> r.state, period |-> r.period, retry |-> r.retry, tr |-> r.tr,
         age |-> r.age, built |-> b, callids |-> r.callids, old |-> r.old,
         granted |-> r.granted, trouble |-> r.trouble, tolerated |-> r.tolerated,
         repeats |-> r.repeats]
  BY DEF RegStates, RegTaken
<1> QED
  BY <1>1, <1>2, <1>3, <1>4

(* The application makes a registration and its first REGISTER.            *)
LEMMA RegBuildsInitial ==
  ASSUME RegInv, eXosip_register_build_initial_register
  PROVE  RegInv'
<1>0. reg \in RegStates
  BY DEF RegInv
<1>1. PICK e \in RegPeriods \ {0} :
        reg' = RegKeep([reg EXCEPT !.state = "live", !.period = RegAtLeast30(e)])
  BY DEF eXosip_register_build_initial_register
<1> DEFINE p == RegAtLeast30(e)
           r == RegAskedFirst(reg, p)
<1>2. e \in Nat /\ e # 0
  BY RegAssumption
<1>3. p \in Nat /\ p \in RegDelays /\ reg' = RegKeep(r)
  BY <1>1, <1>2, RegAtLeast30Type DEF RegDelays, RegAskedFirst
<1> HIDE DEF p
<1>4. r = [state |-> "live", period |-> p, retry |-> reg.retry, tr |-> reg.tr,
           age |-> reg.age, built |-> reg.built, callids |-> reg.callids, old |-> reg.old,
           granted |-> reg.granted, trouble |-> reg.trouble, tolerated |-> reg.tolerated,
           repeats |-> reg.repeats]
  BY <1>0, <1>3, RegAsked
<1>5. /\ reg.state = "none" /\ reg.old = {} /\ reg.built = {} /\ reg.tr = RegNoTr
      /\ reg.retry \in 0..3 /\ reg.repeats = reg.retry
  BY DEF eXosip_register_build_initial_register, RegInv, RegCounted
<1> HIDE DEF r
<1>6. /\ r \in RegStates /\ r.state = "live" /\ r.period = p /\ r.retry = reg.retry
      /\ r.tr = reg.tr /\ r.built = reg.built /\ r.old = reg.old
      /\ r.trouble = reg.trouble /\ r.repeats = reg.repeats /\ r.callids = reg.callids
  BY <1>0, <1>3, <1>4 DEF RegStates
<1>7. RegNoTr.resp = "none" /\ RegNoTr.state = "NONE"
  BY DEF RegNoTr
<1>8. RegPeriodOf(r) = p
  BY <1>5, <1>6, <1>7 DEF RegPeriodOf
<1>9. /\ reg' \in RegStates /\ reg'.state = "live" /\ reg'.old = {} /\ reg'.tr = RegNoTr
      /\ reg'.retry = reg.retry /\ reg'.repeats = reg.repeats /\ reg'.period = p
      /\ reg'.trouble = reg.trouble
  BY <1>3, <1>5, <1>6, <1>8, RegKept
<1>10. RegUnsent \notin reg'.built /\ \A m \in reg'.built : m.expires = p
  BY <1>3, <1>5, <1>6, <1>8, RegKept, RegBuilt
<1>11. RegCounted'
  BY <1>5, <1>9 DEF RegCounted
<1>12. RegNumbersApart'
  <2>1. RegNumbersApart /\ reg.callids \in Nat
    BY <1>0 DEF RegInv, RegStates
  <2>2. /\ reg'.built = reg.built \cup ({RegMessage(r)} \ {RegUnsent})
        /\ RegNumbered(r, RegMessage(r), reg'.callids)
    BY <1>3, <1>6, RegKept
  <2>3. RegNumbered(reg, RegMessage(r), reg'.callids)
    BY <1>6, <2>2 DEF RegNumbered
  <2>4. reg'.tr.state = "NONE"
    BY <1>7, <1>9
  <2> QED
    BY <2>1, <2>2, <2>3, <2>4, RegApartKept
<1> QED
  BY <1>12, <1>3, <1>7, <1>9, <1>10, <1>11 DEF RegInv, RegUntroubled, RegLasts, RegKeepsContact, RegDone

(* A step after which the application has interfered.                      *)
LEMMA RegTroubles ==
  ASSUME RegInv, RegNumbersApart', reg' \in RegStates, reg'.trouble, reg.state = "live", reg'.state = "live",
         reg'.old = reg.old, reg'.retry = reg.retry, reg'.repeats = reg.repeats,
         RegUnsent \notin reg'.built \ reg.built
  PROVE  RegInv'
BY DEF RegInv, RegCounted, RegUntroubled, RegLasts, RegKeepsContact

(* The application builds a REGISTER.                                      *)
LEMMA RegBuilds ==
  ASSUME RegInv, eXosip_register_build_register
  PROVE  RegInv'
<1>0. reg \in RegStates
  BY DEF RegInv
<1>1. PICK e \in RegPeriods :
        reg' = IF RegBusy(RegAskedAgain(reg, RegAtLeast30(e)))
               THEN RegAskedAgain(reg, RegAtLeast30(e))
               ELSE RegKeep(RegAskedAgain(reg, RegAtLeast30(e)))
  BY DEF eXosip_register_build_register, RegAskedAgain
<1> DEFINE p == RegAtLeast30(e)
           r == RegAskedAgain(reg, p)
<1>2. e \in Nat
  BY RegAssumption
<1>3. p \in Nat
  BY <1>2, RegAtLeast30Type
<1>4. reg' = IF RegBusy(r) THEN r ELSE RegKeep(r)
  BY <1>1
<1> HIDE DEF p
<1>5. r = [state |-> reg.state, period |-> p, retry |-> reg.retry, tr |-> reg.tr,
           age |-> reg.age, built |-> reg.built, callids |-> reg.callids, old |-> reg.old,
           granted |-> reg.granted, trouble |-> TRUE, tolerated |-> reg.tolerated,
           repeats |-> reg.repeats]
  BY <1>0, <1>3, RegAsked
<1> HIDE DEF r
<1>6. /\ r \in RegStates /\ r.state = reg.state /\ r.trouble = TRUE /\ r.old = reg.old
      /\ r.retry = reg.retry /\ r.repeats = reg.repeats
      /\ r.tr = reg.tr /\ r.built = reg.built /\ r.callids = reg.callids
  BY <1>0, <1>3, <1>5 DEF RegStates
<1>7. /\ reg' \in RegStates /\ reg'.state = reg.state /\ reg'.trouble = TRUE
      /\ reg'.old = reg.old /\ reg'.retry = reg.retry /\ reg'.repeats = reg.repeats
  BY <1>4, <1>6, RegKept
<1>8. RegUnsent \notin reg'.built \ reg.built
  BY <1>4, <1>5, <1>6, RegKept
<1>9. reg.state = "live"
  BY DEF eXosip_register_build_register
<1>10. RegNumbersApart'
  <2>1. RegNumbersApart /\ reg.callids \in Nat
    BY <1>0 DEF RegInv, RegStates
  <2>2. CASE RegBusy(r)
    BY <1>4, <1>6, <2>1, <2>2, RegApartSame
  <2>3. CASE ~RegBusy(r)
    <3>1. /\ reg'.built = reg.built \cup ({RegMessage(r)} \ {RegUnsent})
          /\ RegNumbered(r, RegMessage(r), reg'.callids) /\ reg'.tr = RegNoTr
      BY <1>4, <1>6, <2>3, RegKept
    <3>2. RegNumbered(reg, RegMessage(r), reg'.callids)
      BY <1>6, <3>1 DEF RegNumbered
    <3>3. reg'.tr.state = "NONE"
      BY <3>1 DEF RegNoTr
    <3> QED
      BY <2>1, <3>1, <3>2, <3>3, RegApartKept
  <2> QED
    BY <2>2, <2>3
<1> QED
  BY <1>7, <1>8, <1>9, <1>10, RegTroubles

(* The application sends a message it has built.                           *)
LEMMA RegSends ==
  ASSUME RegInv, eXosip_register_send_register
  PROVE  RegInv'
<1>0. reg \in RegStates /\ reg.state = "live" /\ reg.retry \in 0..3 /\ reg.repeats = reg.retry
  BY DEF RegInv, RegCounted, eXosip_register_send_register
<1>1. PICK m \in reg.built : reg' = RegSend(reg, m)
  BY DEF eXosip_register_send_register
<1> DEFINE b == reg.built \ {m}
           r == RegTaken(reg, b)
<1>2. b \in SUBSET reg.built /\ m \in RegMessages
  BY <1>0 DEF RegStates
<1>3. reg' = IF RegBusy(reg) THEN r ELSE RegTransmit(r, m)
  BY <1>1 DEF RegSend, RegTaken
<1> HIDE DEF b
<1>4. r = [state |-> reg.state, period |-> reg.period, retry |-> reg.retry, tr |-> reg.tr,
           age |-> reg.age, built |-> b, callids |-> reg.callids, old |-> reg.old,
           granted |-> reg.granted, trouble |-> reg.trouble, tolerated |-> reg.tolerated,
           repeats |-> reg.repeats]
  BY <1>0, <1>2, RegAsked
<1> HIDE DEF r
<1>5. /\ r \in RegStates /\ r.state = reg.state /\ r.trouble = reg.trouble
      /\ r.old = reg.old /\ r.retry = reg.retry /\ r.repeats = reg.repeats
      /\ r.period = reg.period /\ r.tr = reg.tr /\ r.age = reg.age /\ r.built = b
      /\ r.granted = reg.granted /\ r.tolerated = reg.tolerated /\ r.callids = reg.callids
  BY <1>0, <1>2, <1>4 DEF RegStates
<1>6. CASE RegBusy(reg)
  <2>1. reg' = r
    BY <1>3, <1>6
  <2>2. RegCounted'
    BY <2>1, <1>5, <1>0 DEF RegCounted
  <2>3. reg'.age >= reg.age
    BY <2>1, <1>5, <1>0 DEF RegStates
  <2> QED
    BY <2>1, <2>2, <2>3, <1>0, <1>2, <1>5, RegSame
<1>7. CASE ~RegBusy(reg)
  <2>1. reg' = RegTransmit(r, m) /\ ~RegBusy(r)
    BY <1>3, <1>7, <1>5 DEF RegBusy
  <2>2. /\ reg' \in RegStates /\ reg'.state = r.state /\ reg'.period = r.period
        /\ reg'.built = r.built /\ reg'.old = r.old /\ reg'.trouble = r.trouble
        /\ reg'.retry = r.retry /\ reg'.repeats = r.repeats /\ reg'.callids = r.callids
        /\ IF m = RegUnsent THEN reg'.tr = r.tr
           ELSE /\ reg'.tr.state = "TRYING" /\ reg'.tr.resp = "none"
                /\ reg'.tr.expires = m.expires /\ reg'.tr.callid = m.callid
    BY <1>2, <1>5, <2>1, RegTransmits
  <2>3. RegCounted'
    BY <1>0, <1>5, <2>2 DEF RegCounted
  <2>4. m # RegUnsent
    BY DEF RegInv
  <2>5. ~reg.trouble => reg.period \in RegDelays /\ m.expires \in RegDelays
    BY <1>0 DEF RegInv, RegUntroubled
  <2>6. reg'.built = reg.built \ {m} /\ reg'.callids = reg.callids /\ reg'.tr.callid = m.callid
    BY <1>5, <2>2, <2>4 DEF b
  <2>7. RegNumbersApart
    BY DEF RegInv
  <2>8. RegNumbersApart'
    BY <2>6, <2>7, RegApartTaken
  <2> QED
    BY <1>0, <1>2, <1>5, <2>2, <2>3, <2>4, <2>5, <2>8, RegTransmitted
<1> QED
  BY <1>6, <1>7

(* The application removes the registration, or the loop frees it.         *)
LEMMA RegRemoves ==
  ASSUME RegInv, eXosip_register_remove \/ RegRelease
  PROVE  RegInv'
<1>0. reg \in RegStates
  BY DEF RegInv
<1>1. RegAskedToEnd(reg) \in RegStates /\ RegAskedToEnd(reg).retry = reg.retry
      /\ RegAskedToEnd(reg).repeats = reg.repeats
  <2>1. RegAskedToEnd(reg) =
          [state |-> reg.state, period |-> 0, retry |-> reg.retry, tr |-> reg.tr,
           age |-> reg.age, built |-> reg.built, callids |-> reg.callids, old |-> reg.old,
           granted |-> reg.granted, trouble |-> reg.trouble, tolerated |-> reg.tolerated,
           repeats |-> reg.repeats]
    BY <1>0, RegAsked
  <2> QED
    BY <1>0, <2>1 DEF RegStates
<1>2. reg' = RegFree(RegAskedToEnd(reg)) \/ reg' = RegFree(reg)
  BY DEF eXosip_register_remove, RegRelease, RegAskedToEnd
<1> QED
  BY <1>0, <1>1, <1>2, RegFreed, RegRemoved

-----------------------------------------------------------------------------
(* The refresh, and the repetition of a REGISTER that was refused.         *)
LEMMA RegRefreshes ==
  ASSUME RegInv, RegAutomaticAction \/ RegDefaultAction
  PROVE  RegInv'
<1>0. reg \in RegStates /\ reg.retry \in 0..3 /\ reg.repeats = reg.retry
  BY DEF RegInv, RegCounted
<1>1. reg.state = "live"
  BY DEF RegAutomaticAction, RegDefaultAction, RegActs
<1> DEFINE r == RegResend(reg)
<1>2. r \in RegStates /\ r.retry = reg.retry /\ r.repeats = reg.repeats
  <2>1. CASE RegBusy(reg)
    BY <1>0, <2>1 DEF RegResend
  <2>2. CASE ~RegBusy(reg)
    <3>1. ~RegBusy(RegBuild(reg))
      BY <1>0, RegBuilt DEF RegBusy, RegNoTr
    <3> QED
      BY <1>0, <2>2, <3>1, RegBuilt, RegTransmits DEF RegResend
  <2> QED
    BY <2>1, <2>2
<1> HIDE DEF r
<1>3. CASE reg' = r
  <2>1. RegCounting(r, reg.retry) = r
    BY <1>0, <1>2, RegCountsNothing
  <2> QED
    BY <1>0, <1>1, <1>3, <2>1, RegResent DEF r
<1>4. CASE reg' = RegRetry /\ reg.retry < 3
  <2>1. RegRetry = RegCounting(r, reg.retry + 1)
    BY <1>0, <1>2 DEF RegRetry, RegCounting, r
  <2> QED
    BY <1>0, <1>1, <1>4, <2>1, RegResent DEF r
<1> QED
  BY <1>3, <1>4 DEF RegAutomaticAction, RegDefaultAction, RegActs, r

-----------------------------------------------------------------------------
(* The answer of the registrar ends the transaction.                       *)
LEMMA RegFinalType ==
  ASSUME NEW tr \in RegTrs, NEW s \in {"COMPLETED", "TERMINATED"},
         NEW a \in {"none", "2xx", "401", "423", "423bare", "failure"}
  PROVE  /\ RegFinal(tr, s, a) \in RegTrs /\ RegDone(RegFinal(tr, s, a))
         /\ RegFinal(tr, s, a).resp = a /\ RegFinal(tr, s, a).expires = tr.expires
         /\ RegFinal(tr, s, a).callid = tr.callid
<1>1. RegFinal(tr, s, a) = [state |-> s, resp |-> a, callid |-> tr.callid, cseq |-> tr.cseq,
                            expires |-> tr.expires]
  <2> DEFINE q == [tr EXCEPT !.state = s]
  <2>1. RegFinal(tr, s, a) = [q EXCEPT !.resp = a]
    BY DEF RegFinal
  <2>2. q = [state |-> s, resp |-> tr.resp, callid |-> tr.callid, cseq |-> tr.cseq,
             expires |-> tr.expires]
    BY DEF RegTrs
  <2> HIDE DEF q
  <2> QED
    BY <2>1, <2>2
<1> QED
  BY <1>1 DEF RegTrs, RegDone

(* The registrar refuses, or does not answer.                              *)
LEMMA RegIsRefused ==
  ASSUME NEW r \in RegStates, NEW a \in RegAnswers \ {"2xx"}
  PROVE  /\ RegRefused(r, a) \in RegStates /\ RegRefused(r, a).trouble = TRUE
         /\ RegRefused(r, a).state = r.state /\ RegRefused(r, a).old = r.old
         /\ RegRefused(r, a).retry = r.retry /\ RegRefused(r, a).repeats = r.repeats
         /\ RegRefused(r, a).built = r.built /\ RegRefused(r, a).callids = r.callids
         /\ RegRefused(r, a).tr.callid = r.tr.callid
<1> DEFINE tr == IF a = "timeout" THEN RegFinal(r.tr, "TERMINATED", "none")
                 ELSE RegFinal(r.tr, "COMPLETED", a)
           q  == [r EXCEPT !.tr = tr]
           tb == TRUE
           s  == [q EXCEPT !.trouble = tb]
           t  == RegRefused(r, a)
<1>1. tr \in RegTrs /\ tr.callid = r.tr.callid
  <2>1. r.tr \in RegTrs /\ a \in {"401", "423", "423bare", "failure", "timeout"}
    BY RegAssumption DEF RegStates
  <2> QED
    BY <2>1, RegFinalType
<1>2. t = [s EXCEPT !.tolerated = FALSE]
  BY DEF RegRefused
<1> HIDE DEF tr, tb
<1>3. q = [state |-> r.state, period |-> r.period, retry |-> r.retry, tr |-> tr,
           age |-> r.age, built |-> r.built, callids |-> r.callids, old |-> r.old,
           granted |-> r.granted, trouble |-> r.trouble, tolerated |-> r.tolerated,
           repeats |-> r.repeats]
  BY DEF RegStates
<1> HIDE DEF q
<1>4. s = [state |-> r.state, period |-> r.period, retry |-> r.retry, tr |-> tr,
           age |-> r.age, built |-> r.built, callids |-> r.callids, old |-> r.old,
           granted |-> r.granted, trouble |-> tb, tolerated |-> r.tolerated,
           repeats |-> r.repeats]
  BY <1>3
<1> HIDE DEF s, t
<1>5. t = [state |-> r.state, period |-> r.period, retry |-> r.retry, tr |-> tr,
           age |-> r.age, built |-> r.built, callids |-> r.callids, old |-> r.old,
           granted |-> r.granted, trouble |-> tb, tolerated |-> FALSE,
           repeats |-> r.repeats]
  BY <1>2, <1>4
<1>7. tb \in BOOLEAN
  BY DEF tb
<1>6. /\ t \in RegStates /\ t.trouble = tb /\ t.state = r.state /\ t.old = r.old
      /\ t.retry = r.retry /\ t.repeats = r.repeats /\ t.built = r.built
      /\ t.callids = r.callids /\ t.tr = tr
  BY <1>1, <1>5, <1>7 DEF RegStates
<1> QED
  BY <1>1, <1>6 DEF t, tb

(* The registrar accepts.                                                  *)
LEMMA RegIsAccepted ==
  ASSUME NEW r \in RegStates, NEW e \in Nat, NEW contact \in BOOLEAN
  PROVE  /\ RegAccepted(r, e, contact) \in RegStates
         /\ RegAccepted(r, e, contact).trouble = r.trouble
         /\ RegAccepted(r, e, contact).state = r.state
         /\ RegAccepted(r, e, contact).old = r.old
         /\ RegAccepted(r, e, contact).retry = 0 /\ RegAccepted(r, e, contact).repeats = 0
         /\ RegAccepted(r, e, contact).built = r.built
         /\ RegAccepted(r, e, contact).callids = r.callids
         /\ RegAccepted(r, e, contact).tr.callid = r.tr.callid
         /\ RegAccepted(r, e, contact).tr.resp = "2xx"
         /\ RegAccepted(r, e, contact).tr.expires = r.tr.expires
         /\ RegAccepted(r, e, contact).granted = e
         /\ RegAccepted(r, e, contact).age = r.age
         /\ RegAccepted(r, e, contact).tolerated <=> (e < r.period /\ e >= r.period - 15)
         /\ RegAccepted(r, e, contact).period
              = IF e > 0 THEN RegUpdate(r.period, e, contact) ELSE r.period
<1> DEFINE tr == RegFinal(r.tr, "COMPLETED", "2xx")
           p  == IF e > 0 THEN RegUpdate(r.period, e, contact) ELSE r.period
           tl == e < r.period /\ e >= r.period - 15
           q1 == [r EXCEPT !.tr = tr]
           q2 == [q1 EXCEPT !.granted = e]
           q3 == [q2 EXCEPT !.tolerated = tl]
           q4 == [q3 EXCEPT !.retry = 0]
           q5 == [q4 EXCEPT !.repeats = 0]
           t  == RegAccepted(r, e, contact)
<1>1. r.tr \in RegTrs /\ r.period \in Nat
  BY DEF RegStates
<1>2. tr \in RegTrs /\ tr.resp = "2xx" /\ tr.expires = r.tr.expires
      /\ tr.callid = r.tr.callid
  BY <1>1, RegFinalType
<1>3. p \in Nat /\ tl \in BOOLEAN
  BY <1>1 DEF RegUpdate, RegShortened
<1>4. t = [q5 EXCEPT !.period = p]
  BY DEF RegAccepted
<1> HIDE DEF tr, p, tl
<1>5. q1 = [state |-> r.state, period |-> r.period, retry |-> r.retry, tr |-> tr,
            age |-> r.age, built |-> r.built, callids |-> r.callids, old |-> r.old,
            granted |-> r.granted, trouble |-> r.trouble, tolerated |-> r.tolerated,
            repeats |-> r.repeats]
  BY DEF RegStates
<1> HIDE DEF q1
<1>6. q2 = [state |-> r.state, period |-> r.period, retry |-> r.retry, tr |-> tr,
            age |-> r.age, built |-> r.built, callids |-> r.callids, old |-> r.old,
            granted |-> e, trouble |-> r.trouble, tolerated |-> r.tolerated,
            repeats |-> r.repeats]
  BY <1>5
<1> HIDE DEF q2
<1>7. q3 = [state |-> r.state, period |-> r.period, retry |-> r.retry, tr |-> tr,
            age |-> r.age, built |-> r.built, callids |-> r.callids, old |-> r.old,
            granted |-> e, trouble |-> r.trouble, tolerated |-> tl,
            repeats |-> r.repeats]
  BY <1>6
<1> HIDE DEF q3
<1>8. q4 = [state |-> r.state, period |-> r.period, retry |-> 0, tr |-> tr,
            age |-> r.age, built |-> r.built, callids |-> r.callids, old |-> r.old,
            granted |-> e, trouble |-> r.trouble, tolerated |-> tl,
            repeats |-> r.repeats]
  BY <1>7
<1> HIDE DEF q4
<1>9. q5 = [state |-> r.state, period |-> r.period, retry |-> 0, tr |-> tr,
            age |-> r.age, built |-> r.built, callids |-> r.callids, old |-> r.old,
            granted |-> e, trouble |-> r.trouble, tolerated |-> tl, repeats |-> 0]
  BY <1>8
<1> HIDE DEF q5, t
<1>10. t = [state |-> r.state, period |-> p, retry |-> 0, tr |-> tr,
            age |-> r.age, built |-> r.built, callids |-> r.callids, old |-> r.old,
            granted |-> e, trouble |-> r.trouble, tolerated |-> tl, repeats |-> 0]
  BY <1>4, <1>9
<1>11. /\ t \in RegStates /\ t.trouble = r.trouble /\ t.state = r.state /\ t.old = r.old
       /\ t.retry = 0 /\ t.repeats = 0 /\ t.built = r.built /\ t.tr = tr
       /\ t.callids = r.callids /\ t.granted = e /\ t.age = r.age /\ t.tolerated = tl /\ t.period = p
  BY <1>2, <1>3, <1>10 DEF RegStates
<1> QED
  BY <1>2, <1>11 DEF t, tl, p

(* The registrar answers.                                                  *)
LEMMA RegIsAnswered ==
  ASSUME RegInv, RegAnswer
  PROVE  RegInv'
<1>0. reg \in RegStates /\ reg.tr \in RegTrs /\ reg.period \in Nat /\ reg.age \in Nat
  BY DEF RegInv, RegStates
<1>1. reg.tr.state # "NONE" /\ reg.state # "none"
  BY <1>0 DEF RegAnswer, RegBusy, RegDone, RegInv, RegNoTr
<1>2. CASE \E a \in RegAnswers \ {"2xx"} : reg' = RegRefused(reg, a)
  <2>0. PICK a \in RegAnswers \ {"2xx"} : reg' = RegRefused(reg, a)
    BY <1>2, Zenon
  <2>1. /\ reg' \in RegStates /\ reg'.trouble = TRUE /\ reg'.state = reg.state
        /\ reg'.old = reg.old /\ reg'.retry = reg.retry /\ reg'.repeats = reg.repeats
        /\ reg'.built = reg.built /\ reg'.callids = reg.callids
        /\ reg'.tr.callid = reg.tr.callid
    BY <1>0, <2>0, RegIsRefused, ZenonT(60)
  <2>2. RegNumbersApart'
    BY <1>1, <2>1, RegApartSame DEF RegInv
  <2> QED
    BY <1>1, <2>1, <2>2 DEF RegInv, RegCounted, RegUntroubled, RegLasts, RegKeepsContact
<1>3. CASE \E e \in RegGrants \cup {reg.tr.expires}, contact \in BOOLEAN :
             (reg.tr.expires = 0 => e = 0) /\ reg' = RegAccepted(reg, e, contact)
  <2>1. PICK e \in RegGrants \cup {reg.tr.expires}, contact \in BOOLEAN :
               (reg.tr.expires = 0 => e = 0) /\ reg' = RegAccepted(reg, e, contact)
    BY <1>3
  <2>2. e \in Nat
    BY <1>0, RegAssumption DEF RegTrs
  <2>3. /\ reg' \in RegStates /\ reg'.trouble = reg.trouble /\ reg'.state = reg.state
        /\ reg'.old = reg.old /\ reg'.retry = 0 /\ reg'.repeats = 0
        /\ reg'.built = reg.built /\ reg'.tr.resp = "2xx"
        /\ reg'.tr.expires = reg.tr.expires /\ reg'.granted = e /\ reg'.age = reg.age
        /\ reg'.callids = reg.callids /\ reg'.tr.callid = reg.tr.callid
        /\ reg'.period = IF e > 0 THEN RegUpdate(reg.period, e, contact) ELSE reg.period
    BY <1>0, <2>1, <2>2, RegIsAccepted, SMTT(60)
  <2>12. reg'.tolerated <=> (e < reg.period /\ e >= reg.period - 15)
    BY <1>0, <2>1, <2>2, RegIsAccepted
  <2>4. RegCounted'
    BY <2>3 DEF RegCounted
  <2>5. ASSUME reg.state = "live", ~reg.trouble
        PROVE  e \in RegDelays /\ e > 0 /\ reg.period \in RegDelays
    <3>1. reg.tr.expires \in RegDelays /\ reg.period \in RegDelays
      BY <1>1, <2>5 DEF RegInv, RegUntroubled
    <3> QED
      BY <2>1, <3>1, RegDelaysPositive DEF RegDelays
  <2>6. RegUpdate(reg.period, e, contact) \in {reg.period, e}
    BY DEF RegUpdate, RegShortened
  <2>7. RegUntroubled'
    BY <1>1, <2>3, <2>5, <2>6 DEF RegInv, RegUntroubled
  <2>8. ASSUME reg.state = "live", ~reg.trouble, ~reg'.tolerated
        PROVE  RegUpdate(reg.period, e, contact) <= e
    BY <1>0, <2>2, <2>12, <2>8 DEF RegUpdate, RegShortened
  <2>9. RegLasts'
    BY <1>0, <2>2, <2>3, <2>5, <2>6, <2>8 DEF RegLasts
  <2>10. RegKeepsContact'
    BY <2>3, <2>5 DEF RegKeepsContact
  <2>11. RegNumbersApart'
    BY <1>1, <2>3, RegApartSame DEF RegInv
  <2> QED
    BY <1>1, <2>3, <2>4, <2>7, <2>9, <2>10, <2>11 DEF RegInv
<1> QED
  BY <1>2, <1>3 DEF RegAnswer

-----------------------------------------------------------------------------
(* Assignments of the clock.                                               *)
RegTerminating(r)  == [r EXCEPT !.tr = [r.tr EXCEPT !.state = "TERMINATED"]]
RegAged(r, a)      == [r EXCEPT !.age = a]
RegAgedAs(r, a, g) == [r EXCEPT !.age = a, !.granted = g]

(* They leave the rest alone.                                              *)
LEMMA RegAges1 ==
  ASSUME NEW r \in RegStates, NEW a \in Nat, NEW g \in Nat
  PROVE  /\ RegTerminating(r) =
              [state |-> r.state, period |-> r.period, retry |-> r.retry,
               tr |-> [r.tr EXCEPT !.state = "TERMINATED"], age |-> r.age,
               built |-> r.built, callids |-> r.callids, old |-> r.old, granted |-> r.granted,
               trouble |-> r.trouble, tolerated |-> r.tolerated, repeats |-> r.repeats]
         /\ RegAged(r, a) =
              [state |-> r.state, period |-> r.period, retry |-> r.retry, tr |-> r.tr,
               age |-> a, built |-> r.built, callids |-> r.callids, old |-> r.old,
               granted |-> r.granted, trouble |-> r.trouble, tolerated |-> r.tolerated,
               repeats |-> r.repeats]
         /\ RegAgedAs(r, a, g) =
              [state |-> r.state, period |-> r.period, retry |-> r.retry, tr |-> r.tr,
               age |-> a, built |-> r.built, callids |-> r.callids, old |-> r.old,
               granted |-> g, trouble |-> r.trouble, tolerated |-> r.tolerated,
               repeats |-> r.repeats]
<1> DEFINE tr == [r.tr EXCEPT !.state = "TERMINATED"]
           q  == RegAged(r, a)
<1>1. RegTerminating(r) =
        [state |-> r.state, period |-> r.period, retry |-> r.retry, tr |-> tr, age |-> r.age,
         built |-> r.built, callids |-> r.callids, old |-> r.old, granted |-> r.granted,
         trouble |-> r.trouble, tolerated |-> r.tolerated, repeats |-> r.repeats]
  <2>1. RegTerminating(r) = [r EXCEPT !.tr = tr]
    BY DEF RegTerminating
  <2> HIDE DEF tr
  <2> QED
    BY <2>1 DEF RegStates
<1>2. q = [state |-> r.state, period |-> r.period, retry |-> r.retry, tr |-> r.tr,
           age |-> a, built |-> r.built, callids |-> r.callids, old |-> r.old,
           granted |-> r.granted, trouble |-> r.trouble, tolerated |-> r.tolerated,
           repeats |-> r.repeats]
  BY DEF RegStates, RegAged
<1>3. RegAgedAs(r, a, g) = [q EXCEPT !.granted = g]
  BY DEF RegAgedAs, RegAged
<1> HIDE DEF q, tr
<1>4. RegAgedAs(r, a, g) =
        [state |-> r.state, period |-> r.period, retry |-> r.retry, tr |-> r.tr,
         age |-> a, built |-> r.built, callids |-> r.callids, old |-> r.old,
         granted |-> g, trouble |-> r.trouble, tolerated |-> r.tolerated,
         repeats |-> r.repeats]
  BY <1>2, <1>3
<1> QED
  BY <1>1, <1>2, <1>4 DEF q, tr

(* Timer K ends a REGISTER that was answered.                              *)
LEMMA RegEnds ==
  ASSUME RegInv, RegTimerK
  PROVE  RegInv'
<1>0. reg \in RegStates /\ reg.tr \in RegTrs /\ reg.age \in Nat
  BY DEF RegInv, RegStates
<1> DEFINE tr == [reg.tr EXCEPT !.state = "TERMINATED"]
<1>1. reg.tr.state = "COMPLETED" /\ reg' = RegTerminating(reg)
  BY DEF RegTimerK, RegTerminating
<1>2. tr \in RegTrs /\ tr.state = "TERMINATED" /\ tr.resp = reg.tr.resp
      /\ tr.expires = reg.tr.expires /\ tr.callid = reg.tr.callid
  BY <1>0 DEF RegTrs
<1>3. reg' = [state |-> reg.state, period |-> reg.period, retry |-> reg.retry, tr |-> tr,
              age |-> reg.age, built |-> reg.built, callids |-> reg.callids, old |-> reg.old,
              granted |-> reg.granted, trouble |-> reg.trouble, tolerated |-> reg.tolerated,
              repeats |-> reg.repeats]
  BY <1>0, <1>1, RegAges1
<1> HIDE DEF tr
<1>4. /\ reg' \in RegStates /\ reg'.state = reg.state /\ reg'.period = reg.period
      /\ reg'.built = reg.built /\ reg'.old = reg.old /\ reg'.trouble = reg.trouble
      /\ reg'.tolerated = reg.tolerated /\ reg'.tr = tr /\ reg'.granted = reg.granted
      /\ reg'.age = reg.age /\ reg'.retry = reg.retry /\ reg'.repeats = reg.repeats
      /\ reg'.callids = reg.callids
  BY <1>0, <1>2, <1>3 DEF RegStates
<1>5. RegCounted'
  BY <1>4 DEF RegInv, RegCounted
<1>6. CASE reg.state = "live"
  BY <1>0, <1>1, <1>2, <1>4, <1>5, <1>6, RegSame
<1>7. CASE reg.state # "live"
  <2>1. reg.state # "none"
    BY <1>1 DEF RegInv, RegNoTr
  <2>2. RegNumbersApart'
    BY <1>1, <1>2, <1>4, RegApartSame DEF RegInv
  <2> QED
    BY <1>4, <1>5, <1>7, <2>1, <2>2 DEF RegInv, RegUntroubled, RegLasts, RegKeepsContact
<1> QED
  BY <1>6, <1>7

(* The network has changed.                                                *)
LEMMA RegExpires ==
  ASSUME RegInv, RegMarkExpired
  PROVE  RegInv'
<1>0. reg \in RegStates /\ reg.age \in Nat /\ reg.period \in Nat /\ reg.state = "live"
  BY DEF RegInv, RegStates, RegMarkExpired
<1> DEFINE a == reg.age + reg.period
<1>1. a \in Nat /\ a >= reg.age /\ reg' = RegAged(reg, a)
  BY <1>0 DEF RegMarkExpired, RegAged
<1> HIDE DEF a
<1>2. reg' = [state |-> reg.state, period |-> reg.period, retry |-> reg.retry, tr |-> reg.tr,
              age |-> a, built |-> reg.built, callids |-> reg.callids, old |-> reg.old,
              granted |-> reg.granted, trouble |-> reg.trouble, tolerated |-> reg.tolerated,
              repeats |-> reg.repeats]
  BY <1>0, <1>1, RegAges1
<1>3. /\ reg' \in RegStates /\ reg'.state = reg.state /\ reg'.period = reg.period
      /\ reg'.built = reg.built /\ reg'.old = reg.old /\ reg'.trouble = reg.trouble
      /\ reg'.tolerated = reg.tolerated /\ reg'.tr = reg.tr /\ reg'.granted = reg.granted
      /\ reg'.age = a /\ reg'.retry = reg.retry /\ reg'.repeats = reg.repeats
      /\ reg'.callids = reg.callids
  BY <1>0, <1>1, <1>2 DEF RegStates
<1>4. RegCounted'
  BY <1>3 DEF RegInv, RegCounted
<1> QED
  BY <1>0, <1>1, <1>3, <1>4, RegSame

(* What is left of the delay.                                              *)
LEMMA RegLeft ==
  ASSUME NEW x \in Int PROVE Max({0, x}) \in Nat /\ Max({0, x}) >= x
<1>1. CASE x >= 0
  <2>1. Max({0, x}) = x
    BY <1>1 DEF Max
  <2> QED
    BY <2>1, <1>1
<1>2. CASE x < 0
  <2>1. Max({0, x}) = 0
    BY <1>2 DEF Max
  <2> QED
    BY <2>1, <1>2
<1> QED
  BY <1>1, <1>2

(* The ages at which a refresh is not due.                                 *)
LEMMA RegBeforeDue ==
  ASSUME NEW age \in Nat, NEW period \in Nat,
         ~(age > 900), ~(age > period - (period \div 10))
  PROVE  age \in 0..900 /\ age <= period - (period \div 10)
OBVIOUS

(* Time passes, to the next age at which the clock stops: the refresh is   *)
(* not due, so that something is left of the delay.                        *)
LEMMA RegTicks ==
  ASSUME RegInv, RegTick
  PROVE  RegInv'
<1>0. reg \in RegStates /\ reg.age \in Nat /\ reg.period \in Nat /\ reg.granted \in Nat
  BY DEF RegInv, RegStates
<1>1. PICK next \in RegAges :
        /\ RegFollows(reg.age, next)
        /\ reg.tr.state # "NONE" /\ ~RegActs
        /\ reg' = [reg EXCEPT !.age = next, !.granted = Max({0, @ - (next - reg.age)})]
  BY DEF RegTick
<1> DEFINE g == Max({0, reg.granted - (next - reg.age)})
<1>2. next \in Nat /\ next > reg.age
  BY <1>1, RegAssumption DEF RegFollows
<1>3. g \in Nat /\ g >= reg.granted - (next - reg.age)
  BY <1>0, <1>2, RegLeft
<1>4. reg' = RegAgedAs(reg, next, g)
  BY <1>1 DEF RegAgedAs
<1> HIDE DEF g
<1>5. reg' = [state |-> reg.state, period |-> reg.period, retry |-> reg.retry, tr |-> reg.tr,
              age |-> next, built |-> reg.built, callids |-> reg.callids, old |-> reg.old,
              granted |-> g, trouble |-> reg.trouble, tolerated |-> reg.tolerated,
              repeats |-> reg.repeats]
  BY <1>0, <1>2, <1>3, <1>4, RegAges1
<1>6. /\ reg' \in RegStates /\ reg'.state = reg.state /\ reg'.period = reg.period
      /\ reg'.built = reg.built /\ reg'.old = reg.old /\ reg'.trouble = reg.trouble
      /\ reg'.tolerated = reg.tolerated /\ reg'.tr = reg.tr /\ reg'.granted = g
      /\ reg'.age = next /\ reg'.retry = reg.retry /\ reg'.repeats = reg.repeats
      /\ reg'.callids = reg.callids
  BY <1>0, <1>2, <1>3, <1>5 DEF RegStates
<1>11. RegNumbersApart'
  BY <1>6, RegApartSame DEF RegInv
<1>7. RegCounted' /\ RegUntroubled'
  BY <1>6 DEF RegInv, RegCounted, RegUntroubled
<1>8. RegDone(reg.tr)' <=> RegDone(reg.tr)
  BY <1>6 DEF RegDone
<1>9. ASSUME reg.state = "live", ~reg.trouble, ~reg.tolerated, RegDone(reg.tr)
      PROVE  g >= reg.period - next /\ g > 0
  <2>1. reg.granted >= reg.period - reg.age
    BY <1>9 DEF RegInv, RegLasts
  <2>2. g >= reg.period - next
    BY <1>0, <1>2, <1>3, <2>1
  <2>3. reg.period \in RegDelays /\ reg.period # 0
    BY <1>9, RegDelaysPositive DEF RegInv, RegUntroubled
  <2>4. ~RegBusy(reg)
    BY <1>9 DEF RegBusy
  <2>5. ~RegRefreshIsDue
    BY <1>1, <1>9, <2>4 DEF RegActs
  <2>6. reg.age \in 0..900 /\ reg.age <= reg.period - (reg.period \div 10)
    <3>0. PICK age, period : age = reg.age /\ period = reg.period
      OBVIOUS
    <3>1. ~(age > 900) /\ ~(age > period - (period \div 10))
      BY <2>3, <2>5, <3>0 DEF RegRefreshIsDue
    <3>2. age \in Nat /\ period \in Nat
      BY <1>0, <3>0
    <3> HIDE <3>0
    <3>3. age \in 0..900 /\ age <= period - (period \div 10)
      BY <3>1, <3>2, RegBeforeDue, SMTT(60)
    <3> QED
      BY <3>0, <3>3, SMTT(60)
  <2>7. next < reg.period
    BY <1>1, <2>3, <2>6, RegCalledOften, ZenonT(60)
  <2> QED
    BY <1>0, <1>2, <1>3, <2>2, <2>7
<1>10. RegLasts' /\ RegKeepsContact'
  BY <1>6, <1>8, <1>9 DEF RegLasts, RegKeepsContact
<1> QED
  BY <1>6, <1>7, <1>10, <1>11 DEF RegInv

-----------------------------------------------------------------------------
(* Every step keeps the inductive invariant.                               *)
LEMMA RegStep == RegInv /\ [RegNext]_reg => RegInv'
<1> SUFFICES ASSUME RegInv, [RegNext]_reg PROVE RegInv'
  OBVIOUS
<1>1. CASE eXosip_register_build_initial_register
  BY <1>1, RegBuildsInitial
<1>2. CASE eXosip_register_build_register
  BY <1>2, RegBuilds
<1>3. CASE eXosip_register_send_register
  BY <1>3, RegSends
<1>4. CASE eXosip_register_remove \/ RegRelease
  BY <1>4, RegRemoves
<1>5. CASE RegAutomaticAction \/ RegDefaultAction
  BY <1>5, RegRefreshes
<1>6. CASE RegAnswer
  BY <1>6, RegIsAnswered
<1>7. CASE RegTimerK
  BY <1>7, RegEnds
<1>8. CASE RegMarkExpired
  BY <1>8, RegExpires
<1>9. CASE RegTick
  BY <1>9, RegTicks
<1>10. CASE reg' = reg
  BY <1>10 DEF RegInv, RegCounted, RegUntroubled, RegLasts, RegNumbersApart, RegKeepsContact,
               RegDone
<1> QED
  BY <1>1, <1>2, <1>3, <1>4, <1>5, <1>6, <1>7, <1>8, <1>9, <1>10 DEF RegNext

(* The inductive invariant: what is promised while nothing is refused and  *)
(* the application keeps out, that what is counted is consistent, and that *)
(* no two REGISTERs made so far that may still leave share a Call-ID.      *)
THEOREM RegistrationInvariant == RegSpec => []RegInv
BY RegInitially, RegStep, PTL DEF RegSpec

(* A registration has the fields of its type, never two REGISTERs under    *)
(* way, at most three repetitions between two successes, one REGISTER that *)
(* carries on each Call-ID, and while the registrar accepts, it is         *)
(* refreshed before the contact expires.                                   *)
THEOREM RegistrationAlwaysKept == RegSpec => []RegistrationKept
<1>1. RegInv => RegistrationKept
  <2> SUFFICES ASSUME RegInv PROVE RegistrationKept
    OBVIOUS
  <2>1. RegTypeOK
    BY DEF RegInv, RegCounted, RegStates, RegTrs, RegTypeOK
  <2>2. RegOneAtATime /\ RegNumbersApart /\ RegKeepsContact
    BY DEF RegInv, RegCounted, RegOneAtATime
  <2> QED
    BY <2>1, <2>2 DEF RegistrationKept
<1> QED
  BY <1>1, RegistrationInvariant, PTL

-----------------------------------------------------------------------------
PubTrs ==
  [state : {"NONE", "TRYING", "PROCEEDING", "COMPLETED", "TERMINATED"},
   resp  : {"none", "1xx", "2xx", "401", "412", "423", "423bare", "failure"},
   match : Nat, expires : Nat, id : Nat]

PubShape ==
  /\ pub = [state |-> pub.state, period |-> pub.period, etag |-> pub.etag, retry |-> pub.retry,
            tr |-> pub.tr, age |-> pub.age, old |-> pub.old, sent |-> pub.sent,
            entities |-> pub.entities, issued |-> pub.issued]
  /\ pub.sent \in Nat /\ pub.issued \in Nat
  /\ pub.tr \in PubTrs /\ pub.old \subseteq PubTrs

(* A request names a tag that was handed out before it was sent; so one    *)
(* that is answered late cannot replace the tag of the last 2xx, which was *)
(* handed out after it was sent.                                           *)
PubNamesOlder == \A t \in pub.old \cup {pub.tr} : t.match <= pub.issued
PubLateSpares ==
  (pub.state = "live" /\ pub.tr.resp = "2xx") => \A t \in pub.old : t.match # pub.etag
PubInv == PubShape /\ PubNamesOlder /\ PubLateSpares /\ PublicationKept

(* Before the first publication no tag is kept and nothing is on its way.  *)
LEMMA PubInitially == PubInit => PubInv
BY DEF PubInit, PubInv, PubShape, PubNamesOlder, PubLateSpares, PublicationKept, PubTypeOK,
       PubTrs, PubNoTr

(* A new request, whatever it repeats: the tags do not change, and the     *)
(* last request is not answered yet.                                       *)
LEMMA PubTransmitted ==
  ASSUME PubInv, NEW period, NEW retry \in 0..3, NEW match \in 0..pub.issued, NEW expires \in Nat,
         pub' = [PubTransmit([pub EXCEPT !.state = "live", !.period = period], match, expires)
                   EXCEPT !.retry = retry]
  PROVE  PubInv'
<1> DEFINE tr == [state |-> "TRYING", resp |-> "none", match |-> match, expires |-> expires,
                  id |-> pub.sent + 1]
<1>1. pub' = [state |-> "live", period |-> period, etag |-> pub.etag, retry |-> retry,
              tr |-> tr, age |-> 0, old |-> PubGarbage(pub), sent |-> pub.sent + 1,
              entities |-> pub.entities, issued |-> pub.issued]
  BY DEF PubInv, PubShape, PubTransmit, PubGarbage
<1>2. PubGarbage(pub) \subseteq pub.old \cup {pub.tr}
  BY DEF PubGarbage
<1>3. tr \in PubTrs /\ PubGarbage(pub) \subseteq PubTrs
  BY <1>2 DEF PubInv, PubShape, PubTrs
<1>4. PubShape'
  BY <1>1, <1>3 DEF PubInv, PubShape
<1>5. PubNamesOlder'
  BY <1>1, <1>2 DEF PubInv, PubShape, PubNamesOlder
<1>6. PubLateSpares' /\ PublicationKept'
  BY <1>1 DEF PubInv, PubLateSpares, PublicationKept, PubTypeOK
<1> QED
  BY <1>4, <1>5, <1>6 DEF PubInv

(* The request the refresh and the repetitions send. *)
LEMMA PubRepeated ==
  ASSUME PubInv, pub.state = "live", NEW match \in 0..pub.issued, NEW expires \in Nat,
         \/ pub' = PubTransmit(pub, match, expires)
         \/ pub.retry < 3 /\ pub' = [PubTransmit(pub, match, expires) EXCEPT !.retry = @ + 1]
  PROVE  PubInv'
<1>1. pub = [pub EXCEPT !.state = "live", !.period = pub.period]
  BY DEF PubInv, PubShape
<1>2. pub.retry \in 0..3
  BY DEF PubInv, PublicationKept, PubTypeOK
<1>3. PubTransmit(pub, match, expires).retry = pub.retry
  BY DEF PubTransmit, PubInv, PubShape
<1>4. PubTransmit(pub, match, expires)
        = [PubTransmit(pub, match, expires) EXCEPT !.retry = pub.retry]
  BY DEF PubTransmit, PubInv, PubShape
<1>5. CASE pub' = PubTransmit(pub, match, expires)
  <2>1. pub' = [PubTransmit([pub EXCEPT !.state = "live", !.period = pub.period], match, expires)
                  EXCEPT !.retry = pub.retry]
    BY <1>1, <1>4, <1>5
  <2> QED
    BY <1>2, <2>1, PubTransmitted
<1>6. CASE pub.retry < 3 /\ pub' = [PubTransmit(pub, match, expires) EXCEPT !.retry = @ + 1]
  <2>1. pub' = [PubTransmit([pub EXCEPT !.state = "live", !.period = pub.period], match, expires)
                  EXCEPT !.retry = pub.retry + 1]
    BY <1>1, <1>3, <1>6
  <2>2. pub.retry + 1 \in 0..3
    BY <1>2, <1>6
  <2> QED
    BY <2>1, <2>2, PubTransmitted
<1> QED
  BY <1>5, <1>6

(* The refresh of the automatic mode, whatever was answered last: after a  *)
(* 412 the request names no tag, after a 423 it asks for a longer delay.   *)
LEMMA PubRefreshed ==
  ASSUME PubInv, pub.state = "live", pub' = PubRefresh(pub)
  PROVE  PubInv'
<1>1. pub.tr.match \in 0..pub.issued /\ 0 \in 0..pub.issued /\ pub.tr.expires \in Nat
  BY DEF PubInv, PubShape, PubNamesOlder, PubTrs
<1>2. PubMinExpires \in Nat
  BY PubAssumption
<1>3. CASE pub' = pub
  BY <1>3 DEF PubInv, PubShape, PubNamesOlder, PubLateSpares, PublicationKept, PubTypeOK
<1>4. CASE pub' = PubTransmit(pub, 0, pub.tr.expires)
  BY <1>1, <1>4, PubRepeated
<1>5. CASE pub' = PubTransmit(pub, pub.tr.match, PubMinExpires)
  BY <1>1, <1>2, <1>5, PubRepeated
<1>6. CASE pub' = PubTransmit(pub, pub.tr.match, pub.tr.expires)
  BY <1>1, <1>6, PubRepeated
<1> QED
  BY <1>3, <1>4, <1>5, <1>6 DEF PubRefresh

-----------------------------------------------------------------------------
(* Answers *)

(* What an answer other than a 2xx changes: the last request, or the set   *)
(* of the older ones.                                                      *)
LEMMA PubNotAccepted ==
  ASSUME PubInv, NEW tr \in PubTrs, NEW old \in SUBSET pub.old,
         tr.match = pub.tr.match, tr.expires = pub.tr.expires,
         tr.resp = "2xx" => pub.tr.resp = "2xx",
         pub' = [pub EXCEPT !.tr = tr, !.old = old]
  PROVE  PubInv'
<1>1. pub' = [state |-> pub.state, period |-> pub.period, etag |-> pub.etag,
              retry |-> pub.retry, tr |-> tr, age |-> pub.age, old |-> old,
              sent |-> pub.sent, entities |-> pub.entities, issued |-> pub.issued]
  BY DEF PubInv, PubShape
<1> QED
  BY <1>1, ZenonT(60) DEF PubInv, PubShape, PubNamesOlder, PubLateSpares, PublicationKept, PubTypeOK

(* A transaction that may still be answered is the last one or an older    *)
(* one, and names no tag or one that was handed out.                       *)
LEMMA PubWaitingTyped ==
  ASSUME PubInv, NEW t \in PubGarbage(pub)
  PROVE  t \in PubTrs /\ t.match \in 0..pub.issued /\ (t # pub.tr => t \in pub.old)
BY DEF PubGarbage, PubInv, PubShape, PubNamesOlder, PubTrs

(* A refusal completes the last request, or ends an older one.             *)
LEMMA PubRefusedKept ==
  ASSUME PubInv, NEW t \in PubGarbage(pub), PubRefused(t)
  PROVE  PubInv'
<1>1. PICK resp \in {"401", "412", "423", "423bare", "failure"} : pub' = PubFinal(pub, t, resp)
  BY DEF PubRefused
<1>2. pub.tr \in PubTrs
  BY DEF PubInv, PubShape
<1>3. CASE t = pub.tr
  <2> DEFINE tr == [pub.tr EXCEPT !.state = "COMPLETED", !.resp = resp]
  <2>1. pub' = [pub EXCEPT !.tr = tr, !.old = pub.old]
    BY <1>1, <1>3 DEF PubFinal, PubInv, PubShape
  <2>2. tr \in PubTrs /\ tr.match = pub.tr.match /\ tr.expires = pub.tr.expires /\ tr.resp # "2xx"
    BY <1>2 DEF PubTrs
  <2> HIDE DEF tr
  <2> QED
    BY <2>1, <2>2, PubNotAccepted
<1>4. CASE t # pub.tr
  <2>1. pub' = [pub EXCEPT !.tr = pub.tr, !.old = pub.old \ {t}]
    BY <1>1, <1>4 DEF PubFinal, PubInv, PubShape
  <2> QED
    BY <1>2, <2>1, PubNotAccepted
<1> QED
  BY <1>3, <1>4

(* Timer F ends a request without an answer; no tag changes.               *)
LEMMA PubTimeoutKept ==
  ASSUME PubInv, NEW t \in PubGarbage(pub), PubTimeout(t)
  PROVE  PubInv'
<1>1. pub.tr \in PubTrs
  BY DEF PubInv, PubShape
<1>2. CASE t = pub.tr
  <2> DEFINE tr == [pub.tr EXCEPT !.state = "TERMINATED"]
  <2>1. pub' = [pub EXCEPT !.tr = tr, !.old = pub.old]
    BY <1>2 DEF PubTimeout, PubInv, PubShape
  <2>2. tr \in PubTrs /\ tr.match = pub.tr.match /\ tr.expires = pub.tr.expires
        /\ tr.resp = pub.tr.resp
    BY <1>1 DEF PubTrs
  <2> HIDE DEF tr
  <2> QED
    BY <2>1, <2>2, PubNotAccepted
<1>3. CASE t # pub.tr
  <2>1. pub' = [pub EXCEPT !.tr = pub.tr, !.old = pub.old \ {t}]
    BY <1>3 DEF PubTimeout, PubInv, PubShape
  <2> QED
    BY <1>1, <2>1, PubNotAccepted
<1> QED
  BY <1>2, <1>3

(* A 2xx to an older request takes away the tag that it named, which is    *)
(* not the one that is kept.                                               *)
LEMMA PubLateSuccessKept ==
  ASSUME PubInv, NEW t \in PubGarbage(pub), t # pub.tr, PubSuccess(t)
  PROVE  PubInv'
<1>1. pub' = [state |-> pub.state, period |-> pub.period, etag |-> pub.etag,
              retry |-> pub.retry, tr |-> pub.tr, age |-> pub.age, old |-> pub.old \ {t},
              sent |-> pub.sent, entities |-> PubServe(t), issued |-> pub.issued + 1]
  BY ZenonT(60) DEF PubSuccess, PubFinal, PubInv, PubShape
<1>2. t \in pub.old /\ t.match \in 0..pub.issued
  BY PubWaitingTyped
<1>3. pub.issued \in Nat /\ pub.entities \subseteq 1..pub.issued /\ pub.etag \in 0..pub.issued
  BY DEF PubInv, PubShape, PublicationKept, PubTypeOK
<1>4. PubServe(t) \subseteq 1..(pub.issued + 1) /\ pub.entities \ {t.match} \subseteq PubServe(t)
  BY <1>3 DEF PubServe
<1>5. PubShape'
  BY <1>1, <1>3 DEF PubInv, PubShape
<1>6. PubNamesOlder'
  BY <1>1, <1>3 DEF PubInv, PubShape, PubNamesOlder, PubTrs
<1>7. PubLateSpares'
  BY <1>1 DEF PubInv, PubLateSpares
<1>8. PubTypeOK'
  BY <1>1, <1>3, <1>4 DEF PubInv, PublicationKept, PubTypeOK
<1>9. ASSUME pub.state = "live", pub.tr.resp = "2xx", pub.tr.expires > 0
      PROVE  pub.etag \in PubServe(t)
  BY <1>2, <1>4, <1>9 DEF PubInv, PubLateSpares, PublicationKept
<1> QED
  BY <1>1, <1>5, <1>6, <1>7, <1>8, <1>9 DEF PubInv, PublicationKept

(* A 2xx to the last request gives the tag that is kept from now on; all   *)
(* requests on their way name older ones.                                  *)
LEMMA PubLastSuccessKept ==
  ASSUME PubInv, PubSuccess(pub.tr)
  PROVE  PubInv'
<1> DEFINE tr == [pub.tr EXCEPT !.state = "COMPLETED", !.resp = "2xx"]
<1>1. PICK period : pub' = [state |-> pub.state, period |-> period, etag |-> pub.issued + 1,
              retry |-> 0, tr |-> tr, age |-> pub.age, old |-> pub.old,
              sent |-> pub.sent, entities |-> PubServe(pub.tr), issued |-> pub.issued + 1]
  BY ZenonT(60) DEF PubSuccess, PubUpdate, PubFinal, PubInv, PubShape
<1>2. pub.tr \in PubTrs /\ pub.issued \in Nat /\ pub.entities \subseteq 1..pub.issued
  BY DEF PubInv, PubShape, PublicationKept, PubTypeOK
<1>3. tr \in PubTrs /\ tr.match = pub.tr.match /\ tr.expires = pub.tr.expires
  BY <1>2 DEF PubTrs
<1>4. /\ PubServe(pub.tr) \subseteq 1..(pub.issued + 1)
      /\ pub.tr.expires > 0 => pub.issued + 1 \in PubServe(pub.tr)
  BY <1>2 DEF PubServe, PubTrs
<1> HIDE DEF tr
<1>5. PubShape'
  BY <1>1, <1>2, <1>3 DEF PubInv, PubShape
<1>6. PubNamesOlder' /\ PubLateSpares'
  BY <1>1, <1>2, <1>3 DEF PubInv, PubShape, PubNamesOlder, PubLateSpares, PubTrs
<1>7. pub.state \in {"none", "live", "removed"}
  BY DEF PubInv, PublicationKept, PubTypeOK
<1>8. PublicationKept'
  BY <1>1, <1>2, <1>3, <1>4, <1>7 DEF PublicationKept, PubTypeOK
<1> QED
  BY <1>5, <1>6, <1>8 DEF PubInv

-----------------------------------------------------------------------------
(* Every step of the publication and of the server keeps the invariant.    *)
LEMMA PubStep == PubInv /\ [PubNext]_pub => PubInv'
<1> SUFFICES ASSUME PubInv, [PubNext]_pub PROVE PubInv'
  OBVIOUS
<1>1. /\ pub.retry \in 0..3 /\ pub.etag \in 0..pub.issued
      /\ pub.tr \in PubTrs /\ pub.tr.match \in 0..pub.issued /\ pub.tr.expires \in Nat
  BY DEF PubInv, PubShape, PubNamesOlder, PublicationKept, PubTypeOK, PubTrs
<1>2. CASE eXosip_publish
  <2>1. PICK e \in PubPeriods :
          pub' = PubTransmit([pub EXCEPT !.state = "live", !.period = e], pub.etag, e)
    BY <1>2 DEF eXosip_publish
  <2>2. pub' = [PubTransmit([pub EXCEPT !.state = "live", !.period = e], pub.etag, e)
                  EXCEPT !.retry = pub.retry]
    BY <2>1, ZenonT(60) DEF PubTransmit, PubInv, PubShape
  <2>3. e \in Nat
    BY PubAssumption
  <2> QED
    BY <1>1, <2>2, <2>3, PubTransmitted
<1>3. CASE PubAutomaticAction
  <2>1. pub.state = "live"
    BY <1>3 DEF PubAutomaticAction
  <2>2. CASE pub' = PubRefresh(pub)
    BY <2>1, <2>2, PubRefreshed
  <2>3. CASE pub.retry < 3 /\ pub' = [PubRetryWithAuth(pub) EXCEPT !.retry = @ + 1]
    BY <1>1, <2>1, <2>3, PubRepeated DEF PubRetryWithAuth
  <2> QED
    BY <1>3, <2>2, <2>3 DEF PubAutomaticAction
<1>4. CASE PubDefaultAction
  BY <1>1, <1>4, PubRepeated DEF PubDefaultAction, PubRetryWithAuth
<1>5. CASE PubAnswer
  <2>1. PICK t \in PubGarbage(pub) : PubSuccess(t) \/ PubRefused(t) \/ PubTimeout(t)
    BY <1>5 DEF PubAnswer
  <2>2. CASE PubSuccess(t)
    BY <2>2, PubLateSuccessKept, PubLastSuccessKept
  <2> QED
    BY <2>1, <2>2, PubRefusedKept, PubTimeoutKept
<1>6. CASE PubProvisional
  <2> DEFINE tr == [pub.tr EXCEPT !.state = "PROCEEDING", !.resp = "1xx"]
  <2>1. pub' = [pub EXCEPT !.tr = tr, !.old = pub.old]
    BY <1>6 DEF PubProvisional, PubInv, PubShape
  <2>2. tr \in PubTrs /\ tr.match = pub.tr.match /\ tr.expires = pub.tr.expires /\ tr.resp # "2xx"
    BY <1>1 DEF PubTrs
  <2> HIDE DEF tr
  <2> QED
    BY <2>1, <2>2, PubNotAccepted
<1>7. CASE PubRelease
  <2>1. pub' = [state |-> "removed", period |-> pub.period, etag |-> pub.etag,
                retry |-> pub.retry, tr |-> PubNoTr, age |-> pub.age, old |-> PubGarbage(pub),
                sent |-> pub.sent, entities |-> pub.entities, issued |-> pub.issued]
    BY <1>7 DEF PubRelease, PubInv, PubShape
  <2>2. PubNoTr \in PubTrs /\ PubNoTr.match = 0
    BY DEF PubNoTr, PubTrs
  <2>3. PubShape' /\ PubNamesOlder'
    BY <2>1, <2>2, PubWaitingTyped DEF PubInv, PubShape, PubNamesOlder
  <2>4. PubLateSpares' /\ PublicationKept'
    BY <2>1 DEF PubInv, PubLateSpares, PublicationKept, PubTypeOK
  <2> QED
    BY <2>3, <2>4 DEF PubInv
<1>8. CASE PubTick
  <2>1. PICK age : pub' = [pub EXCEPT !.age = age]
    BY <1>8 DEF PubTick
  <2>2. pub' = [state |-> pub.state, period |-> pub.period, etag |-> pub.etag,
                retry |-> pub.retry, tr |-> pub.tr, age |-> age, old |-> pub.old,
                sent |-> pub.sent, entities |-> pub.entities, issued |-> pub.issued]
    BY <2>1 DEF PubInv, PubShape
  <2> QED
    BY <2>2 DEF PubInv, PubShape, PubNamesOlder, PubLateSpares, PublicationKept, PubTypeOK
<1>9. CASE UNCHANGED pub
  BY <1>9 DEF PubInv, PubShape, PubNamesOlder, PubLateSpares, PublicationKept, PubTypeOK
<1> QED
  BY <1>2, <1>3, <1>4, <1>5, <1>6, <1>7, <1>8, <1>9 DEF PubNext

(* What the argument rests on: requests on their way name tags that were   *)
(* handed out before them (PubNamesOlder), and those that are still on     *)
(* their way when the last one was accepted do not name its tag.           *)
THEOREM PublicationInvariant == PubSpec => []PubInv
<1>1. PubInit => PubInv
  BY PubInitially
<1>2. PubInv /\ [PubNext]_pub => PubInv'
  BY PubStep
<1> QED
  BY <1>1, <1>2, PTL DEF PubSpec

(* The tag that eXosip names in its next PUBLISH is known to the server    *)
(* (_eXosip_pub_update, _eXosip_pub_refresh), for any number of requests   *)
(* and tags and any order of the answers.                                  *)
THEOREM PublicationAlwaysKept == PubSpec => []PublicationKept
<1>1. PubInv => PublicationKept
  BY DEF PubInv
<1> QED
  BY <1>1, PublicationInvariant, PTL

-----------------------------------------------------------------------------
(* An incoming subscription.  The kinds of answers that wait, the states    *)
(* of the dialog, of the server transaction and of the subscription, and   *)
(* what the peer asked for.                                                *)
InsAnswerKinds == {"1xx", "2xx", "3456xx"}
InsDialogs == {"none", "EARLY", "CONFIRMED", "NULL"}
InsServer == {"NONE", "TRYING", "PROCEEDING", "COMPLETED", "TERMINATED"}
InsLives == {"none", "live", "removed"}
InsStatuses == {"ACTIVE", "TERMINATED"}

InsTrs ==
  [state : {"NONE", "TRYING", "PROCEEDING", "COMPLETED", "TERMINATED"},
   resp : {"none", "1xx", "2xx", "401", "failure"}, closes : BOOLEAN, cseq : Nat]
InsStates ==
  [state : InsLives, dialog : InsDialogs,
   inc : InsServer,
   fifo : Seq(InsAnswerKinds), status : InsStatuses,
   notifies : Seq(InsTrs), cseq : Nat, retry : 0..3, asked : Nat,
   default : BOOLEAN, closed : BOOLEAN]

(* What InsNotifiesInOrder says of the NOTIFYs ns of a dialog whose local  *)
(* CSeq is cseq, and that it is the CSeq of the newest.                    *)
InsOrder(ns) ==
  \A i, j \in DOMAIN ns : i < j => ns[i].cseq > ns[j].cseq /\ ~InsOpen(ns[j])
InsNewest(ns, cseq) == ns # <<>> => ns[1].cseq = cseq

InsOf(n) ==
  /\ n \in InsStates
  /\ Len(n.fifo) <= InsMaxFifo
  /\ ~n.default => InsOrder(n.notifies) /\ InsNewest(n.notifies, n.cseq)
  /\ n.dialog = "NULL" => ~InsUnanswered(n)
  /\ n.closed => n.state = "removed"
InsInv == InsOf(ins)

(* A subscription is its fields.                                           *)
InsRecord(state, dialog, inc, fifo, status, notifies, cseq, retry, asked, default, closed) ==
  [state |-> state, dialog |-> dialog, inc |-> inc, fifo |-> fifo, status |-> status,
   notifies |-> notifies, cseq |-> cseq, retry |-> retry, asked |-> asked,
   default |-> default, closed |-> closed]
LEMMA InsFields ==
  ASSUME NEW n, InsOf(n)
  PROVE  n = InsRecord(n.state, n.dialog, n.inc, n.fifo, n.status, n.notifies, n.cseq, n.retry,
                       n.asked, n.default, n.closed)
BY DEF InsOf, InsStates, InsRecord

(* One that is gone has no NOTIFYs and no answers left.                    *)
LEMMA InsGoneKeeps ==
  ASSUME NEW n, InsOf(n)
  PROVE  InsOf(InsGone(n)) /\ InsOf([InsGone(n) EXCEPT !.closed = TRUE])
<1> DEFINE gone(closed) == InsRecord("removed", "none", "NONE", <<>>, n.status, <<>>, n.cseq,
                                     n.retry, n.asked, n.default, closed)
<1>1. n = InsRecord(n.state, n.dialog, n.inc, n.fifo, n.status, n.notifies, n.cseq, n.retry,
                    n.asked, n.default, n.closed)
  BY InsFields
<1>2. ASSUME NEW m, m = InsGone(n) PROVE m = gone(n.closed)
  BY <1>1, <1>2 DEF InsGone, InsRecord
<1>3. ASSUME NEW m, m = [InsGone(n) EXCEPT !.closed = TRUE] PROVE m = gone(TRUE)
  BY <1>1, <1>3 DEF InsGone, InsRecord
<1>4. InsOrder(<<>>) /\ \A c \in Nat : InsNewest(<<>>, c)
  BY DEF InsOrder, InsNewest
<1>5. ASSUME NEW closed \in BOOLEAN PROVE InsOf(gone(closed))
  <2>1. gone(closed) \in InsStates
    BY DEF InsOf, InsStates, InsRecord, InsLives, InsDialogs, InsServer
  <2> QED
    BY <1>4, <2>1, InsAssumption DEF InsOf, InsStates, InsUnanswered, InsRecord
<1>6. n.closed \in BOOLEAN
  BY DEF InsOf, InsStates
<1> QED
  BY <1>2, <1>3, <1>5, <1>6

(* A NOTIFY in front of the others, with a greater number, when the last    *)
(* one was answered.                                                       *)
LEMMA InsTransmits ==
  ASSUME NEW n, InsOf(n), n.state = "live", NEW cseq \in Nat, NEW closes \in BOOLEAN,
         ~n.default => cseq = n.cseq + 1 /\ ~InsOpen(InsLast(n))
  PROVE  InsOf(InsTransmit(n, cseq, closes))
<1> DEFINE t == [state |-> "TRYING", resp |-> "none", closes |-> closes, cseq |-> cseq]
           ns == <<t>> \o n.notifies
<1>1. n.notifies \in Seq(InsTrs) /\ n.cseq \in Nat
  BY DEF InsOf, InsStates
<1>2. t \in InsTrs
  BY DEF InsTrs
<1>3. /\ ns \in Seq(InsTrs) /\ Len(ns) = Len(n.notifies) + 1
      /\ \A i \in 1..Len(ns) : ns[i] = IF i = 1 THEN t ELSE n.notifies[i - 1]
  <2>1. <<t>> \in Seq(InsTrs) /\ Len(<<t>>) = 1 /\ <<t>>[1] = t
    BY <1>2
  <2> QED
    BY <1>1, <2>1, ConcatProperties
<1>4. ASSUME ~n.default
      PROVE  InsOrder(ns) /\ InsNewest(ns, n.cseq + 1)
  <2>1. /\ \A i \in DOMAIN n.notifies : n.notifies[i].cseq <= n.cseq
        /\ \A i \in DOMAIN n.notifies : ~InsOpen(n.notifies[i])
    <3> SUFFICES ASSUME NEW i \in DOMAIN n.notifies
                 PROVE  n.notifies[i].cseq <= n.cseq /\ ~InsOpen(n.notifies[i])
      OBVIOUS
    <3>1. n.notifies # <<>> /\ 1 \in DOMAIN n.notifies /\ i \in 1..Len(n.notifies)
      BY <1>1
    <3>2. n.notifies[1].cseq = n.cseq /\ ~InsOpen(n.notifies[1])
      BY <1>4, <3>1 DEF InsOf, InsNewest, InsLast
    <3>3. CASE i = 1
      BY <3>2, <3>3, <1>1
    <3>4. CASE i # 1
      <4>1. 1 < i
        BY <3>1, <3>4
      <4>2. n.notifies[1].cseq > n.notifies[i].cseq /\ ~InsOpen(n.notifies[i])
        BY <1>4, <3>1, <4>1 DEF InsOf, InsOrder
      <4>3. n.notifies[i] \in InsTrs /\ n.notifies[1] \in InsTrs
        BY <1>1, <3>1, ElementOfSeq
      <4>4. n.notifies[i].cseq \in Nat /\ n.notifies[1].cseq \in Nat
        BY <4>3 DEF InsTrs
      <4> QED
        BY <4>2, <4>4, <3>2, <1>1
    <3> QED
      BY <3>3, <3>4
  <2>2. InsNewest(ns, n.cseq + 1)
    BY <1>3, <1>1, <1>4 DEF InsNewest
  <2>3. ASSUME NEW i \in DOMAIN ns, NEW j \in DOMAIN ns, i < j
        PROVE  ns[i].cseq > ns[j].cseq /\ ~InsOpen(ns[j])
    <3>1. i \in 1..Len(ns) /\ j \in 1..Len(ns) /\ j # 1 /\ Len(n.notifies) \in Nat
      BY <2>3, <1>1, <1>3
    <3>2. j - 1 \in DOMAIN n.notifies /\ ns[j] = n.notifies[j - 1]
      BY <3>1, <1>1, <1>3
    <3>3. ~InsOpen(ns[j]) /\ ns[j].cseq <= n.cseq /\ ns[j].cseq \in Nat
      <4>1. ns[j] \in InsTrs
        BY <3>1, <1>3, ElementOfSeq
      <4> QED
        BY <4>1, <3>2, <2>1 DEF InsTrs
    <3>4. CASE i = 1
      <4>2. ns[i] = t /\ t.cseq = cseq
        BY <3>1, <3>4, <1>3
      <4>1. ns[i].cseq = n.cseq + 1 /\ n.cseq \in Nat
        BY <4>2, <1>1, <1>4, Zenon
      <4> QED
        BY <3>3, <4>1, SMTT(60)
    <3>5. CASE i # 1
      <4>1. i - 1 \in DOMAIN n.notifies /\ ns[i] = n.notifies[i - 1] /\ i - 1 < j - 1
        BY <3>1, <3>5, <1>1, <1>3, <2>3
      <4> QED
        BY <1>4, <3>2, <3>3, <4>1 DEF InsOf, InsOrder
    <3> QED
      BY <3>4, <3>5
  <2> QED
    BY <2>2, <2>3 DEF InsOrder
<1>5. InsTransmit(n, cseq, closes) = [n EXCEPT !.cseq = n.cseq + 1, !.notifies = ns]
  BY DEF InsTransmit
<1> HIDE DEF ns
<1> DEFINE m == InsRecord(n.state, n.dialog, n.inc, n.fifo, n.status, ns, n.cseq + 1, n.retry,
                          n.asked, n.default, n.closed)
<1>6. InsTransmit(n, cseq, closes) = m
  <2>1. n = InsRecord(n.state, n.dialog, n.inc, n.fifo, n.status, n.notifies, n.cseq, n.retry,
                      n.asked, n.default, n.closed)
    BY InsFields
  <2> QED
    BY <1>5, <2>1 DEF InsRecord
<1>7. m \in InsStates
  BY <1>1, <1>3 DEF InsOf, InsStates, InsRecord
<1>8. InsOf(m)
  BY <1>4, <1>7 DEF InsOf, InsUnanswered, InsRecord
<1> QED
  BY <1>6, <1>8

(* One that is answered, or over, stays where it is.                       *)
LEMMA InsBecomes ==
  ASSUME NEW n, InsOf(n), NEW i \in DOMAIN n.notifies, NEW t \in InsTrs,
         t.cseq = n.notifies[i].cseq, InsOpen(t) => InsOpen(n.notifies[i])
  PROVE  InsOf([n EXCEPT !.notifies[i] = t])
<1> DEFINE ns == [n.notifies EXCEPT ![i] = t]
<1>1. n.notifies \in Seq(InsTrs) /\ i \in 1..Len(n.notifies)
  BY DEF InsOf, InsStates
<1>2. /\ ns \in Seq(InsTrs) /\ DOMAIN ns = DOMAIN n.notifies
      /\ \A j \in DOMAIN ns : ns[j].cseq = n.notifies[j].cseq
      /\ \A j \in DOMAIN ns : InsOpen(ns[j]) => InsOpen(n.notifies[j])
      /\ ns # <<>> => n.notifies # <<>>
  <2>1. ns \in Seq(InsTrs) /\ DOMAIN ns = DOMAIN n.notifies
    BY <1>1, ExceptSeq
  <2> QED
    BY <1>1, <2>1
<1>3. ~n.default => InsOrder(ns)
  BY <1>2 DEF InsOf, InsOrder
<1>4. ~n.default => InsNewest(ns, n.cseq)
  BY <1>1, <1>2 DEF InsOf, InsNewest
<1>5. [n EXCEPT !.notifies[i] = t] = [n EXCEPT !.notifies = ns]
  OBVIOUS
<1> HIDE DEF ns
<1> QED
  BY <1>2, <1>3, <1>4, <1>5 DEF InsOf, InsStates, InsUnanswered

(* One that is not the newest is taken out.                                *)
LEMMA InsReleases ==
  ASSUME NEW n, InsOf(n), NEW i \in DOMAIN n.notifies, i > 1
  PROVE  InsOf([n EXCEPT !.notifies = SubSeq(@, 1, i - 1) \o SubSeq(@, i + 1, Len(@))])
<1> DEFINE old == n.notifies
           ns == SubSeq(old, 1, i - 1) \o SubSeq(old, i + 1, Len(old))
<1>1. old \in Seq(InsTrs) /\ i \in 2..Len(old) /\ Len(old) \in Nat
  BY DEF InsOf, InsStates
<1>2. /\ ns \in Seq(InsTrs) /\ Len(ns) = Len(old) - 1
      /\ \A k \in 1..Len(ns) : ns[k] = IF k < i THEN old[k] ELSE old[k + 1]
  <2> DEFINE a == SubSeq(old, 1, i - 1)
             b == SubSeq(old, i + 1, Len(old))
  <2>1. \A k \in 1..Len(old) : old[k] \in InsTrs
    BY <1>1, ElementOfSeq
  <2>2. a \in Seq(InsTrs) /\ Len(a) = i - 1 /\ \A k \in 1..(i - 1) : a[k] = old[k]
    BY <1>1, <2>1, SubSeqProperties
  <2>3. b \in Seq(InsTrs) /\ Len(b) = Len(old) - i /\ \A k \in 1..(Len(old) - i) : b[k] = old[i + k]
    BY <1>1, <2>1, SubSeqProperties, SMTT(60)
  <2> HIDE DEF a, b
  <2>4. /\ a \o b \in Seq(InsTrs) /\ Len(a \o b) = Len(old) - 1
        /\ \A k \in 1..(Len(old) - 1) : (a \o b)[k] = IF k <= i - 1 THEN a[k] ELSE b[k - (i - 1)]
    <3>1. /\ a \o b \in Seq(InsTrs) /\ Len(a \o b) = Len(a) + Len(b)
          /\ \A k \in 1..(Len(a) + Len(b)) :
               (a \o b)[k] = IF k <= Len(a) THEN a[k] ELSE b[k - Len(a)]
      BY <2>2, <2>3, ConcatProperties
    <3>2. Len(a) = i - 1 /\ Len(a) + Len(b) = Len(old) - 1
      <4> HIDE DEF old
      <4> QED
        BY <1>1, <2>2, <2>3
    <3> QED
      BY <3>1, <3>2
  <2>5. ns = a \o b
    BY DEF a, b
  <2> HIDE DEF ns
  <2>6. ASSUME NEW k \in 1..(Len(old) - 1)
        PROVE  ns[k] = IF k < i THEN old[k] ELSE old[k + 1]
    <3> HIDE DEF old
    <3>1. CASE k < i
      BY <1>1, <2>2, <2>4, <2>5, <3>1
    <3>2. CASE ~(k < i)
      <4>1. k - (i - 1) \in 1..(Len(old) - i) /\ i + (k - (i - 1)) = k + 1
        BY <1>1, <3>2
      <4> QED
        <5>1. ~(k <= i - 1)
          BY <1>1, <3>2
        <5>2. ns[k] = b[k - (i - 1)]
          BY <2>4, <2>5, <5>1
        <5> QED
          BY <2>3, <3>2, <4>1, <5>2
    <3> QED
      BY <3>1, <3>2
  <2> QED
    BY <2>4, <2>5, <2>6
<1> HIDE DEF ns
<1>3. ~n.default => InsOrder(ns) /\ InsNewest(ns, n.cseq)
  <2> SUFFICES ASSUME ~n.default PROVE InsOrder(ns) /\ InsNewest(ns, n.cseq)
    OBVIOUS
  <2>1. InsOrder(old) /\ old # <<>> /\ old[1].cseq = n.cseq
    BY <1>1 DEF InsOf, InsNewest
  <2>2. InsNewest(ns, n.cseq)
    <3>1. ns # <<>> => 1 \in 1..Len(ns) /\ 1 < i
      BY <1>1, <1>2
    <3> HIDE DEF old
    <3> QED
      BY <1>2, <2>1, <3>1 DEF InsNewest
  <2>3. ASSUME NEW j \in DOMAIN ns, NEW k \in DOMAIN ns, j < k
        PROVE  ns[j].cseq > ns[k].cseq /\ ~InsOpen(ns[k])
    <3> DEFINE To(m) == IF m < i THEN m ELSE m + 1
    <3>1. /\ To(j) \in DOMAIN old /\ To(k) \in DOMAIN old /\ To(j) < To(k)
          /\ ns[j] = old[To(j)] /\ ns[k] = old[To(k)]
      BY <1>1, <1>2, <2>3, SMTT(60)
    <3> HIDE DEF To, old
    <3> QED
      BY <2>1, <3>1 DEF InsOrder
  <2> QED
    BY <2>2, <2>3 DEF InsOrder
<1> SUFFICES ASSUME NEW m, m = [n EXCEPT !.notifies = ns] PROVE InsOf(m)
  BY DEF ns
<1>4. m = InsRecord(n.state, n.dialog, n.inc, n.fifo, n.status, ns, n.cseq, n.retry, n.asked,
                    n.default, n.closed)
  <2>1. n = InsRecord(n.state, n.dialog, n.inc, n.fifo, n.status, n.notifies, n.cseq, n.retry,
                      n.asked, n.default, n.closed)
    BY InsFields
  <2> QED
    BY <2>1 DEF InsRecord
<1>5. m \in InsStates
  BY <1>2, <1>4 DEF InsOf, InsStates, InsRecord
<1> QED
  BY <1>3, <1>4, <1>5 DEF InsOf, InsUnanswered, InsRecord

(* What the server transaction and the dialog do, away from the NOTIFYs.   *)
LEMMA InsServes ==
  ASSUME NEW n, InsOf(n),
         NEW state \in InsLives, n.closed => state = "removed",
         NEW dialog \in InsDialogs,
         NEW inc \in InsServer,
         dialog = "NULL" => inc \notin {"TRYING", "PROCEEDING"},
         NEW fifo \in Seq(InsAnswerKinds), Len(fifo) <= InsMaxFifo,
         NEW status \in InsStatuses, NEW retry \in 0..3, NEW asked \in Nat
  PROVE  InsOf(InsRecord(state, dialog, inc, fifo, status, n.notifies, n.cseq, retry, asked,
                         n.default, n.closed))
<1> DEFINE m == InsRecord(state, dialog, inc, fifo, status, n.notifies, n.cseq, retry, asked,
                          n.default, n.closed)
<1>1. m \in InsStates
  BY DEF InsOf, InsStates, InsRecord
<1> QED
  BY <1>1 DEF InsOf, InsUnanswered, InsRecord

(* An answer that is queued; a 2xx confirms the dialog at once.            *)
LEMMA InsAnswers ==
  ASSUME NEW n, InsOf(n), Len(n.fifo) < InsMaxFifo, NEW a \in InsAnswerKinds
  PROVE  InsOf(InsAnswered(n, a)) /\ InsAnswered(n, a).state = n.state
<1> DEFINE dialog == IF a = "2xx" THEN "CONFIRMED" ELSE n.dialog
<1>1. n = InsRecord(n.state, n.dialog, n.inc, n.fifo, n.status, n.notifies, n.cseq, n.retry,
                    n.asked, n.default, n.closed)
  BY InsFields
<1>2. CASE ~InsUnanswered(n)
  BY <1>2 DEF InsAnswered
<1>3. CASE InsUnanswered(n)
  <2> SUFFICES ASSUME NEW m, m = [n EXCEPT !.fifo = Append(n.fifo, a), !.dialog = dialog]
               PROVE  InsOf(m) /\ m.state = n.state
    BY <1>3 DEF InsAnswered
  <2>1. m = InsRecord(n.state, dialog, n.inc, Append(n.fifo, a), n.status, n.notifies, n.cseq,
                      n.retry, n.asked, n.default, n.closed)
    BY <1>1 DEF InsRecord
  <2>2. dialog \in {"none", "EARLY", "CONFIRMED"}
    BY <1>3 DEF InsOf, InsStates, InsUnanswered, InsDialogs
  <2>3. /\ Append(n.fifo, a) \in Seq(InsAnswerKinds)
        /\ Len(Append(n.fifo, a)) <= InsMaxFifo
    BY InsAssumption DEF InsOf, InsStates
  <2> HIDE DEF dialog
  <2>4. /\ n.state \in InsLives /\ (n.closed => n.state = "removed")
        /\ n.inc \in InsServer
        /\ n.status \in InsStatuses /\ n.retry \in 0..3 /\ n.asked \in Nat
    BY DEF InsOf, InsStates
  <2>5. InsOf(InsRecord(n.state, dialog, n.inc, Append(n.fifo, a), n.status, n.notifies, n.cseq,
                        n.retry, n.asked, n.default, n.closed))
    <3>1. dialog \in InsDialogs /\ dialog # "NULL"
      BY <2>2 DEF InsDialogs
    <3> QED
      BY <2>3, <2>4, <3>1, InsServes, Zenon
  <2> QED
    BY <1>1, <2>1, <2>5 DEF InsRecord
<1> QED
  BY <1>2, <1>3

(* A NOTIFY of the application, which waits for the answer to the last one. *)
LEMMA InsNotifies ==
  ASSUME NEW n, InsOf(n), n.state = "live", NEW closes \in BOOLEAN
  PROVE  InsOf(InsNotify(n, closes))
<1>1. n.cseq + 1 \in Nat
  BY DEF InsOf, InsStates
<1> QED
  BY <1>1, InsTransmits DEF InsNotify

(* The server transaction of the SUBSCRIBE.                                *)
LEMMA InsServerSteps ==
  ASSUME InsInv, InsNewSubscribe \/ InsSubscribeAgain \/ InsExecute \/ InsTimerJ
  PROVE  InsInv'
<1> DEFINE R(state, dialog, inc, fifo, status, asked) ==
             InsRecord(state, dialog, inc, fifo, status, ins.notifies, ins.cseq, ins.retry, asked,
                       ins.default, ins.closed)
<1>1. ins = R(ins.state, ins.dialog, ins.inc, ins.fifo, ins.status, ins.asked)
  BY InsFields DEF InsInv
<1>2. /\ ins.state \in InsLives /\ (ins.closed => ins.state = "removed")
      /\ ins.dialog \in InsDialogs
      /\ ins.dialog = "NULL" => ins.inc \notin {"TRYING", "PROCEEDING"}
      /\ ins.inc \in InsServer
      /\ ins.fifo \in Seq(InsAnswerKinds) /\ Len(ins.fifo) <= InsMaxFifo
      /\ ins.status \in InsStatuses /\ ins.retry \in 0..3 /\ ins.asked \in Nat
  BY DEF InsInv, InsOf, InsStates, InsUnanswered
<1>3. ASSUME InsNewSubscribe PROVE InsInv'
  <2>1. ins' = R("live", "EARLY", "TRYING", <<"1xx">>, ins.status, 1)
    BY <1>1, <1>3 DEF InsNewSubscribe, InsRecord
  <2>2. <<"1xx">> \in Seq(InsAnswerKinds) /\ Len(<<"1xx">>) <= InsMaxFifo
    BY InsAssumption DEF InsAnswerKinds
  <2>3. ~ins.closed
    BY <1>2, <1>3 DEF InsNewSubscribe
  <2>4. "live" \in InsLives /\ "EARLY" \in InsDialogs
        /\ "EARLY" # "NULL" /\ 1 \in Nat
        /\ "TRYING" \in InsServer
    BY DEF InsLives, InsDialogs, InsServer
  <2> QED
    BY <1>2, <2>1, <2>2, <2>3, <2>4, InsServes DEF InsInv
<1>4. ASSUME InsSubscribeAgain PROVE InsInv'
  <2> PICK status \in InsStatuses :
        ins' = R(ins.state, ins.dialog, "TRYING", <<>>, status, ins.asked + 1)
    <3>1. PICK expires \in {0, 600} :
            ins' = [ins EXCEPT !.inc = "TRYING", !.fifo = <<>>, !.asked = ins.asked + 1,
                               !.status = IF expires = 0 THEN "TERMINATED" ELSE ins.status]
      BY <1>4 DEF InsSubscribeAgain
    <3> DEFINE st == IF expires = 0 THEN "TERMINATED" ELSE ins.status
    <3>2. st \in InsStatuses
      BY <1>2 DEF InsStatuses
    <3>3. ins' = [ins EXCEPT !.inc = "TRYING", !.fifo = <<>>, !.asked = ins.asked + 1,
                             !.status = st]
      BY <3>1
    <3> HIDE DEF st
    <3>4. ins' = R(ins.state, ins.dialog, "TRYING", <<>>, st, ins.asked + 1)
      BY <1>1, <3>3, ZenonT(60) DEF InsRecord
    <3> QED
      BY <3>2, <3>4
  <2>1. <<>> \in Seq(InsAnswerKinds) /\ Len(<<>>) <= InsMaxFifo
    BY InsAssumption
  <2>2. ins.dialog # "NULL" /\ ins.asked + 1 \in Nat
        /\ "TRYING" \in InsServer
    BY <1>2, <1>4 DEF InsSubscribeAgain, InsServer
  <2> QED
    BY <1>2, <2>1, <2>2, InsServes DEF InsInv
<1>5. ASSUME InsExecute PROVE InsInv'
  <2> DEFINE fifo == Tail(ins.fifo)
  <2>1. fifo \in Seq(InsAnswerKinds) /\ Len(fifo) <= InsMaxFifo
    BY <1>2, <1>5, InsAssumption DEF InsExecute
  <2>2. PICK dialog \in InsDialogs,
             inc \in InsServer :
          /\ dialog = "NULL" => inc \notin {"TRYING", "PROCEEDING"}
          /\ ins' = R(ins.state, dialog, inc, fifo, ins.status, ins.asked)
    <3>1. CASE ~InsUnanswered(ins)
      <4>1. ins' = [ins EXCEPT !.fifo = fifo]
        BY <1>5, <3>1 DEF InsExecute
      <4> HIDE DEF fifo
      <4>2. ins' = R(ins.state, ins.dialog, ins.inc, fifo, ins.status, ins.asked)
        BY <1>1, <4>1 DEF InsRecord
      <4> QED
        BY <1>2, <4>2
    <3>2. CASE InsUnanswered(ins) /\ Head(ins.fifo) = "1xx"
      <4>1. ins' = [[ins EXCEPT !.fifo = fifo] EXCEPT !.inc = "PROCEEDING"]
        BY <1>5, <3>2 DEF InsExecute
      <4> HIDE DEF fifo
      <4>2. ins' = R(ins.state, ins.dialog, "PROCEEDING", fifo, ins.status, ins.asked)
        BY <1>1, <4>1 DEF InsRecord
      <4>3. ins.dialog # "NULL"
        BY <1>2, <3>2 DEF InsUnanswered
      <4> QED
        BY <1>2, <4>2, <4>3 DEF InsServer
    <3>3. CASE InsUnanswered(ins) /\ Head(ins.fifo) # "1xx"
      <4> DEFINE early == Head(ins.fifo) = "3456xx" /\ ins.dialog = "EARLY"
                 dialog == IF early THEN "NULL" ELSE ins.dialog
      <4>1. ins' = [[ins EXCEPT !.fifo = fifo] EXCEPT !.inc = "COMPLETED", !.dialog = dialog]
        BY <1>1, <1>5, <3>3 DEF InsExecute, InsRecord
      <4>2. dialog \in InsDialogs
        BY <1>2 DEF InsDialogs
      <4> HIDE DEF dialog, fifo
      <4>3. ins' = R(ins.state, dialog, "COMPLETED", fifo, ins.status, ins.asked)
        BY <1>1, <4>1 DEF InsRecord
      <4> QED
        BY <4>2, <4>3 DEF InsServer
    <3> QED
      BY <3>1, <3>2, <3>3
  <2> HIDE DEF fifo
  <2> QED
    BY <1>2, <2>1, <2>2, InsServes DEF InsInv
<1>6. ASSUME InsTimerJ PROVE InsInv'
  <2>1. ins' = R(ins.state, ins.dialog, "TERMINATED", ins.fifo, ins.status, ins.asked)
    BY <1>1, <1>6 DEF InsTimerJ, InsRecord
  <2>2. "TERMINATED" \in InsServer
        /\ "TERMINATED" \notin {"TRYING", "PROCEEDING"}
    BY DEF InsServer
  <2>3. InsOf(R(ins.state, ins.dialog, "TERMINATED", ins.fifo, ins.status, ins.asked))
    BY <1>2, <2>2, InsServes, Zenon DEF InsInv
  <2> QED
    BY <2>1, <2>3 DEF InsInv
<1> QED
  BY <1>3, <1>4, <1>5, <1>6

(* The repetitions are counted.                                            *)
LEMMA InsCounts ==
  ASSUME NEW n, InsOf(n), NEW retry \in 0..3
  PROVE  InsOf([n EXCEPT !.retry = retry])
<1>1. n = InsRecord(n.state, n.dialog, n.inc, n.fifo, n.status, n.notifies, n.cseq, n.retry,
                    n.asked, n.default, n.closed)
  BY InsFields
<1>2. [n EXCEPT !.retry = retry]
        = InsRecord(n.state, n.dialog, n.inc, n.fifo, n.status, n.notifies, n.cseq, retry,
                    n.asked, n.default, n.closed)
  BY <1>1 DEF InsRecord
<1>3. /\ n.state \in InsLives /\ (n.closed => n.state = "removed") /\ n.dialog \in InsDialogs
      /\ n.inc \in InsServer /\ (n.dialog = "NULL" => n.inc \notin {"TRYING", "PROCEEDING"})
      /\ n.fifo \in Seq(InsAnswerKinds) /\ Len(n.fifo) <= InsMaxFifo
      /\ n.status \in InsStatuses /\ n.asked \in Nat
  BY DEF InsOf, InsStates, InsUnanswered
<1> QED
  BY <1>2, <1>3, InsServes

(* What the application sends.                                             *)
LEMMA InsClientSteps ==
  ASSUME InsInv,
         \/ eXosip_insubscription_send_answer \/ eXosip_insubscription_send_request
         \/ eXosip_insubscription_automatic \/ eXosip_insubscription_remove
         \/ InsAutomaticAction \/ InsDefaultAction
  PROVE  InsInv'
<1>1. ASSUME eXosip_insubscription_send_answer PROVE InsInv'
  <2>1. PICK a \in InsAnswerKinds : ins' = InsAnswered(ins, a)
    BY <1>1 DEF eXosip_insubscription_send_answer, InsAnswerKinds
  <2> QED
    BY <1>1, <2>1, InsAnswers DEF eXosip_insubscription_send_answer, InsInv
<1>2. ASSUME eXosip_insubscription_send_request PROVE InsInv'
  BY <1>2, InsNotifies DEF eXosip_insubscription_send_request, InsInv
<1>3. ASSUME eXosip_insubscription_automatic PROVE InsInv'
  <2>1. ASSUME NEW a \in InsAnswerKinds
        PROVE  InsOf(InsAnswered(ins, a)) /\ InsAnswered(ins, a).state = "live"
    BY <1>3, InsAnswers DEF eXosip_insubscription_automatic, InsInv
  <2>2. "2xx" \in InsAnswerKinds /\ "3456xx" \in InsAnswerKinds
    BY DEF InsAnswerKinds
  <2>3. InsOf(InsNotify(InsAnswered(ins, "2xx"), FALSE)) /\ InsOf(InsAnswered(ins, "3456xx"))
    BY <2>1, <2>2, InsNotifies
  <2> QED
    BY <1>3, <2>3 DEF eXosip_insubscription_automatic, InsInv
<1>4. ASSUME eXosip_insubscription_remove PROVE InsInv'
  BY <1>4, InsGoneKeeps DEF eXosip_insubscription_remove, InsInv
<1>5. ASSUME InsAutomaticAction PROVE InsInv'
  <2> DEFINE t == InsLast(ins)
             m == InsTransmit(ins, t.cseq + 1, t.closes)
  <2>1. ins.notifies # <<>> /\ t = ins.notifies[1] /\ t \in InsTrs
    <3>1. ins.notifies # <<>>
      BY <1>5 DEF InsAutomaticAction, InsRefused, InsLast, InsNoNotify
    <3>2. ins.notifies \in Seq(InsTrs)
      BY DEF InsInv, InsOf, InsStates
    <3> QED
      BY <3>1, <3>2 DEF InsLast
  <2>2. ~ins.default => t.cseq + 1 = ins.cseq + 1 /\ ~InsOpen(t)
    BY <1>5, <2>1 DEF InsInv, InsOf, InsNewest, InsAutomaticAction, InsRefused, InsOpen
  <2>3. ins.state = "live" /\ t.cseq + 1 \in Nat /\ t.closes \in BOOLEAN
    BY <1>5, <2>1 DEF InsAutomaticAction, InsTrs
  <2> HIDE DEF t
  <2>4. InsOf(m)
    BY <2>2, <2>3, InsTransmits DEF InsInv, t
  <2>5. ins' = [m EXCEPT !.retry = @ + 1]
    BY <1>5 DEF InsAutomaticAction, InsCredential, t
  <2>6. m.retry = ins.retry /\ ins.retry < 3 /\ ins.retry \in 0..3
    <3>1. ins = InsRecord(ins.state, ins.dialog, ins.inc, ins.fifo, ins.status, ins.notifies,
                          ins.cseq, ins.retry, ins.asked, ins.default, ins.closed)
      BY InsFields DEF InsInv
    <3> QED
      BY <1>5, <3>1 DEF InsTransmit, InsRecord, InsAutomaticAction, InsInv, InsOf, InsStates
  <2> HIDE DEF m
  <2>7. m.retry + 1 \in 0..3
    BY <2>6
  <2>8. InsOf([m EXCEPT !.retry = m.retry + 1])
    BY <2>4, <2>7, InsCounts, Zenon
  <2> QED
    BY <2>5, <2>8 DEF InsInv
<1>6. ASSUME InsDefaultAction PROVE InsInv'
  <2>1. PICK i \in DOMAIN ins.notifies : ins' = InsCredential(ins, ins.notifies[i])
    BY <1>6 DEF InsDefaultAction
  <2>2. ins.notifies[i] \in InsTrs
    BY ElementOfSeq DEF InsInv, InsOf, InsStates
  <2>3. ins.notifies[i].cseq + 1 \in Nat /\ ins.notifies[i].closes \in BOOLEAN
    BY <2>2 DEF InsTrs
  <2> QED
    BY <1>6, <2>1, <2>3, InsTransmits DEF InsDefaultAction, InsCredential, InsInv
<1> QED
  BY <1>1, <1>2, <1>3, <1>4, <1>5, <1>6

(* What an answer, or its timer, makes of a NOTIFY.                        *)
LEMMA InsHears ==
  ASSUME InsInv, NEW i \in DOMAIN ins.notifies,
         NEW state \in {"PROCEEDING", "COMPLETED", "TERMINATED"},
         NEW resp \in {"none", "1xx", "2xx", "401", "failure"},
         state = "PROCEEDING" => InsOpen(ins.notifies[i])
  PROVE  InsOf([ins EXCEPT !.notifies[i] = InsHeard(@, state, resp)])
<1> DEFINE t == InsHeard(ins.notifies[i], state, resp)
<1>1. ins.notifies[i] \in InsTrs
  BY ElementOfSeq DEF InsInv, InsOf, InsStates
<1>2. t = [state |-> state, resp |-> resp, closes |-> ins.notifies[i].closes,
           cseq |-> ins.notifies[i].cseq]
  <2> SUFFICES ASSUME NEW u, u = t
               PROVE  u = [state |-> state, resp |-> resp, closes |-> ins.notifies[i].closes,
                           cseq |-> ins.notifies[i].cseq]
    OBVIOUS
  <2> QED
    BY <1>1 DEF InsTrs, InsHeard
<1>3. t \in InsTrs /\ t.cseq = ins.notifies[i].cseq /\ (InsOpen(t) => InsOpen(ins.notifies[i]))
  BY <1>1, <1>2 DEF InsTrs, InsOpen
<1>4. [ins EXCEPT !.notifies[i] = InsHeard(@, state, resp)] = [ins EXCEPT !.notifies[i] = t]
  OBVIOUS
<1> HIDE DEF t
<1> QED
  BY <1>3, <1>4, InsBecomes DEF InsInv

(* What happens to the NOTIFYs.                                            *)
LEMMA InsNotifySteps ==
  ASSUME InsInv, InsNotifyAnswer \/ InsKill \/ InsRelease
  PROVE  InsInv'
<1>1. ASSUME InsNotifyAnswer PROVE InsInv'
  <2>1. PICK i \in DOMAIN ins.notifies :
          /\ InsOpen(ins.notifies[i])
          /\ \/ ins' = [ins EXCEPT !.notifies[i] = InsHeard(@, "PROCEEDING", "1xx")]
             \/ ins' = [InsFinal(i, "2xx") EXCEPT !.retry = 0]
             \/ ins' = [InsGone([InsFinal(i, "2xx") EXCEPT !.retry = 0]) EXCEPT !.closed = TRUE]
             \/ \E resp \in {"401", "failure"} : ins' = InsFinal(i, resp)
    BY <1>1 DEF InsNotifyAnswer
  <2>2. InsOf([ins EXCEPT !.notifies[i] = InsHeard(@, "PROCEEDING", "1xx")])
    BY <2>1, InsHears
  <2>3. ASSUME NEW resp \in {"2xx", "401", "failure"} PROVE InsOf(InsFinal(i, resp))
    BY InsHears DEF InsFinal
  <2> DEFINE n == InsFinal(i, "2xx")
             m == [n EXCEPT !.retry = 0]
  <2>4. InsOf(n)
    BY <2>3
  <2> HIDE DEF n
  <2>5. InsOf(m)
    <3>1. 0 \in 0..3
      OBVIOUS
    <3> QED
      BY <2>4, <3>1, InsCounts, Zenon
  <2> HIDE DEF m
  <2>6. InsOf([InsGone(m) EXCEPT !.closed = TRUE])
    BY <2>5, InsGoneKeeps
  <2> QED
    BY <2>1, <2>2, <2>3, <2>5, <2>6 DEF InsInv, m, n
<1>2. ASSUME InsKill PROVE InsInv'
  <2>1. PICK i \in DOMAIN ins.notifies :
          \/ ins' = InsGone(ins)
          \/ ins' = [ins EXCEPT !.notifies[i] = InsHeard(@, "TERMINATED", ins.notifies[i].resp)]
    BY <1>2 DEF InsKill
  <2>2. ins.notifies[i] \in InsTrs
    BY ElementOfSeq DEF InsInv, InsOf, InsStates
  <2>3. ins.notifies[i].resp \in {"none", "1xx", "2xx", "401", "failure"}
    BY <2>2 DEF InsTrs
  <2>4. InsOf([ins EXCEPT !.notifies[i] = InsHeard(@, "TERMINATED", ins.notifies[i].resp)])
    BY <2>3, InsHears
  <2>5. InsOf(InsGone(ins))
    BY InsGoneKeeps DEF InsInv
  <2> QED
    BY <2>1, <2>4, <2>5 DEF InsInv
<1>3. ASSUME InsRelease PROVE InsInv'
  BY <1>3, InsReleases DEF InsRelease, InsInv
<1> QED
  BY <1>1, <1>2, <1>3

(* Before the first SUBSCRIBE.                                             *)
LEMMA InsInitially == InsInit => InsInv
BY InsAssumption DEF InsInit, InsInv, InsOf, InsStates, InsOrder, InsNewest, InsUnanswered,
   InsLives, InsDialogs, InsServer, InsStatuses

(* NOTIFYs leave one after the other, unless the default action repeats    *)
(* them, and the dialog and its subscription end together.                 *)
THEOREM InsAlwaysInOrder == InsSpec => []InsNotifiesInOrder
<1>1. InsInv /\ [InsNext]_ins => InsInv'
  <2> SUFFICES ASSUME InsInv, [InsNext]_ins PROVE InsInv'
    OBVIOUS
  <2>1. CASE UNCHANGED ins
    BY <2>1 DEF InsInv
  <2>2. CASE InsNext
    BY <2>2, InsServerSteps, InsClientSteps, InsNotifySteps DEF InsNext
  <2> QED
    BY <2>1, <2>2
<1>2. InsInv => InsNotifiesInOrder
  BY DEF InsInv, InsOf, InsStates, InsOrder, InsNotifiesInOrder, InsTypeOK, InsLives, InsDialogs
<1> QED
  BY InsInitially, <1>1, <1>2, PTL DEF InsSpec

-----------------------------------------------------------------------------
(* The credentials. *)

(* The entry of the table that a place holds, and those that are in use.   *)
AuthEntryOf(e) == e = [callid |-> e.callid, wa |-> e.wa, count |-> e.count, code |-> e.code]
AuthUsed(table) == {p \in 1..AuthSlots : table[p].callid # "none"}

(* What a Call-ID waits for: challenges that nobody answered, each with a  *)
(* nonce that was never used and that no other challenge has.              *)
AuthWaiting(calls, counts) ==
  /\ \A c \in AuthCallIds : calls[c].state # "refused" => calls[c].challenge = <<>>
  /\ \A c \in AuthCallIds : \A i \in DOMAIN calls[c].challenge :
       calls[c].challenge[i].nonce \in DOMAIN counts /\ counts[calls[c].challenge[i].nonce] = 0
  /\ \A c, d \in AuthCallIds : \A i \in DOMAIN calls[c].challenge, j \in DOMAIN calls[d].challenge :
       calls[c].challenge[i].nonce = calls[d].challenge[j].nonce => c = d /\ i = j

AuthCalls(calls) ==
  /\ DOMAIN calls = AuthCallIds
  /\ \A c \in AuthCallIds :
       \E n \in Nat : DOMAIN calls[c].challenge = 1..n /\ Len(calls[c].challenge) = n

(* The table keeps a nonce in one place, with a count that is not behind   *)
(* that of the server, and one place for a Call-ID and a realm; a nonce    *)
(* that is waited for can only be there for the Call-ID that waits.        *)
AuthTyped(table) ==
  /\ table = [p \in 1..AuthSlots |-> table[p]]
  /\ \A p \in 1..AuthSlots : AuthEntryOf(table[p])
AuthAhead(table, counts) ==
  \A p \in AuthUsed(table) :
    /\ table[p].callid \in AuthCallIds
    /\ table[p].count \in Nat \ {0}
    /\ table[p].wa.nonce \in DOMAIN counts
    /\ counts[table[p].wa.nonce] <= table[p].count
AuthOnce(table) ==
  \A p, q \in AuthUsed(table) :
    /\ table[p].wa.nonce = table[q].wa.nonce => p = q
    /\ table[p].callid = table[q].callid /\ table[p].wa.realm = table[q].wa.realm => p = q
AuthExpected(table, calls) ==
  \A p \in AuthUsed(table), c \in AuthCallIds : \A i \in DOMAIN calls[c].challenge :
    table[p].wa.nonce = calls[c].challenge[i].nonce =>
      table[p].callid = c /\ table[p].wa.realm = calls[c].challenge[i].realm
AuthHolds(table, calls, counts) ==
  AuthTyped(table) /\ AuthAhead(table, counts) /\ AuthOnce(table) /\ AuthExpected(table, calls)

AuthInv ==
  /\ auth.sound
  /\ auth.infos \in Seq(AuthInfos) /\ auth.counts \in Seq(Nat)
  /\ AuthCalls(auth.calls) /\ AuthWaiting(auth.calls, auth.counts)
  /\ AuthHolds(auth.table, auth.calls, auth.counts)

-----------------------------------------------------------------------------
(* The first and the last of some places.                                  *)
LEMMA AuthFirst ==
  ASSUME NEW S, S \subseteq Nat, S # {}
  PROVE  Min(S) \in S /\ \A x \in S : Min(S) <= x
<1>1. PICK i \in S : \A l \in S : ~ (<<l, i>> \in OpToRel(<, Nat))
  BY NatLessThanWellFounded, WFMin
<1>2. ASSUME NEW l \in S  PROVE i <= l
  <2>1. <<l, i>> \in Nat \X Nat /\ <<l, i>>[1] = l /\ <<l, i>>[2] = i
    OBVIOUS
  <2>2. ~(<<l, i>>[1] < <<l, i>>[2])
    BY <1>1, <2>1 DEF OpToRel
  <2> QED
    BY <2>1, <2>2
<1> QED
  BY <1>2, Zenon DEF Min

LEMMA AuthLast ==
  ASSUME NEW S, NEW n \in Nat, S \subseteq 0..n, S # {}
  PROVE  Max(S) \in S /\ \A x \in S : Max(S) >= x
<1> DEFINE B == {m \in Nat : \A x \in S : m >= x}
<1>1. n \in B /\ B \subseteq Nat
  OBVIOUS
<1>2. PICK m : m = Min(B)
  OBVIOUS
<1>3. m \in B /\ \A x \in B : m <= x
  <2> HIDE DEF B
  <2> QED
    BY <1>1, <1>2, AuthFirst
<1>4. m \in Nat /\ \A x \in S : m >= x /\ x \in Nat
  BY <1>3
<1>5. m \in S
  <2> SUFFICES ASSUME m \notin S PROVE FALSE
    OBVIOUS
  <2>1. PICK x \in S : TRUE
    OBVIOUS
  <2>2. m # 0
    BY <1>4, <2>1
  <2>3. m - 1 \in Nat /\ \A y \in S : m - 1 >= y
    BY <1>4, <2>2
  <2>4. m - 1 \in B
    BY <2>3
  <2>5. m <= m - 1
    BY <1>3, <2>4
  <2> QED
    BY <1>4, <2>5
<1>6. \E x \in S : \A y \in S : x >= y
  BY <1>4, <1>5
<1> QED
  BY <1>6, Zenon DEF Max

(* The initial state.                                                      *)
LEMMA AuthInvInitially == AuthInit => AuthInv
<1> SUFFICES ASSUME AuthInit PROVE AuthInv
  OBVIOUS
<1>1. /\ auth.infos = <<>> /\ auth.counts = <<>>
      /\ auth.table = [p \in 1..AuthSlots |-> AuthFreeSlot]
      /\ auth.calls = [c \in AuthCallIds |-> AuthCall("new", FALSE, <<>>)]
      /\ auth.sound
  BY DEF AuthInit, AuthIs
<1>2. AuthUsed(auth.table) = {}
  BY <1>1 DEF AuthUsed, AuthFreeSlot
<1>3. AuthHolds(auth.table, auth.calls, auth.counts)
  <2>1. AuthTyped(auth.table)
    BY <1>1 DEF AuthTyped, AuthEntryOf, AuthFreeSlot
  <2> QED
    BY <1>2, <2>1 DEF AuthHolds, AuthAhead, AuthOnce, AuthExpected
<1>4. \A c \in AuthCallIds : auth.calls[c].challenge = <<>>
  BY <1>1 DEF AuthCall
<1>5. DOMAIN <<>> = {}
  OBVIOUS
<1>6. AuthWaiting(auth.calls, auth.counts)
  BY <1>4, <1>5 DEF AuthWaiting
<1>7. AuthCalls(auth.calls)
  <2>1. DOMAIN <<>> = 1..0 /\ Len(<<>>) = 0 /\ 0 \in Nat
    OBVIOUS
  <2>2. DOMAIN auth.calls = AuthCallIds
    BY <1>1
  <2> QED
    BY <1>4, <2>1, <2>2 DEF AuthCalls
<1> QED
  BY <1>1, <1>3, <1>6, <1>7 DEF AuthInv

(* A challenge that is waited for is stored where its nonce was, or where  *)
(* its Call-ID and realm have a place, or in a free place.                 *)
LEMMA AuthStoreHolds ==
  ASSUME NEW t, NEW calls, NEW counts, AuthHolds(t, calls, counts), AuthWaiting(calls, counts),
         NEW c \in AuthCallIds, NEW i \in DOMAIN calls[c].challenge,
         NEW wa, wa = calls[c].challenge[i], NEW code
  PROVE  AuthHolds(_eXosip_store_nonce(t, c, wa, code), calls, counts)
<1> DEFINE new == _eXosip_store_nonce(t, c, wa, code)
<1>0. /\ AuthTyped(t) /\ AuthAhead(t, counts) /\ AuthOnce(t) /\ AuthExpected(t, calls)
      /\ DOMAIN t = 1..AuthSlots /\ c # "none" /\ AuthSlots \in Nat
      /\ wa.nonce \in DOMAIN counts /\ counts[wa.nonce] = 0
  <2>1. /\ AuthTyped(t) /\ AuthAhead(t, counts) /\ AuthOnce(t) /\ AuthExpected(t, calls)
    BY DEF AuthHolds
  <2>2. DOMAIN t = 1..AuthSlots
    <3>1. t = [p \in 1..AuthSlots |-> t[p]]
      BY <2>1 DEF AuthTyped
    <3> QED
      BY <3>1, Zenon
  <2>3. c # "none" /\ AuthSlots \in Nat
    BY AuthAssumption DEF AuthCallIds
  <2>4. wa.nonce \in DOMAIN counts /\ counts[wa.nonce] = 0
    BY DEF AuthWaiting
  <2> QED
    BY <2>1, <2>2, <2>3, <2>4
<1>1. \A q \in AuthUsed(t) : t[q].wa.nonce = wa.nonce =>
        t[q].callid = c /\ t[q].wa.realm = wa.realm
  BY <1>0 DEF AuthExpected
<1>2. \A d \in AuthCallIds : \A j \in DOMAIN calls[d].challenge :
        wa.nonce = calls[d].challenge[j].nonce => c = d /\ wa.realm = calls[d].challenge[j].realm
  BY DEF AuthWaiting
(* it is the only place with its nonce, and the only one for its realm *)
<1>3. ASSUME NEW p \in 1..AuthSlots, NEW e, e = [callid |-> c, wa |-> wa, count |-> 1, code |-> e.code],
             new = [t EXCEPT ![p] = e],
             \A q \in AuthUsed(t) : t[q].callid = c /\ t[q].wa.realm = wa.realm => q = p
      PROVE  AuthHolds(new, calls, counts)
  <2> HIDE DEF new
  <2>1. /\ new = [q \in 1..AuthSlots |-> new[q]] /\ new[p] = e
        /\ \A q \in 1..AuthSlots : q # p => new[q] = t[q]
    BY <1>0, <1>3
  <2>2. e.callid = c /\ e.wa = wa /\ e.count = 1
    BY <1>3
  <2>3. \A q \in AuthUsed(new) : q = p \/ (q # p /\ q \in AuthUsed(t) /\ new[q] = t[q])
    BY <2>1 DEF AuthUsed
  <2>4. AuthTyped(new)
    <3>1. AuthEntryOf(e)
      BY <1>3, <2>2 DEF AuthEntryOf
    <3> QED
      BY <1>0, <2>1, <3>1 DEF AuthTyped
  <2>5. AuthAhead(new, counts)
    BY <1>0, <2>1, <2>2, <2>3 DEF AuthAhead
  <2>6. AuthOnce(new)
    <3>1. \A q \in AuthUsed(t) : q # p => t[q].wa.nonce # wa.nonce
      BY <1>1, <1>3
    <3>2. \A q \in AuthUsed(t) : q # p => ~(t[q].callid = c /\ t[q].wa.realm = wa.realm)
      BY <1>3
    <3> QED
      BY <1>0, <2>1, <2>2, <2>3, <3>1, <3>2 DEF AuthOnce
  <2>7. AuthExpected(new, calls)
    BY <1>0, <1>2, <2>1, <2>2, <2>3 DEF AuthExpected
  <2> QED
    BY <2>4, <2>5, <2>6, <2>7 DEF AuthHolds
<1>4. CASE AuthEntry(t, c, wa.realm) # {}
  <2>1. PICK p : p = Min(AuthEntry(t, c, wa.realm))
    OBVIOUS
  <2>2. p \in AuthEntry(t, c, wa.realm)
    <3>1. AuthEntry(t, c, wa.realm) \subseteq Nat
      BY <1>0 DEF AuthEntry
    <3> QED
      BY <1>4, <2>1, <3>1, AuthFirst
  <2>3. p \in 1..AuthSlots /\ t[p].callid = c /\ t[p].wa.realm = wa.realm /\ p \in AuthUsed(t)
    BY <1>0, <2>2 DEF AuthEntry, AuthUsed
  <2>4. PICK e : e = AuthNonce(c, wa, 1, t[p].code)
    OBVIOUS
  <2>6. new = [t EXCEPT ![p] = e]
    BY <1>4, <2>1, <2>4, Zenon DEF _eXosip_store_nonce
  <2>7. \A q \in AuthUsed(t) : t[q].callid = c /\ t[q].wa.realm = wa.realm => q = p
    BY <1>0, <2>3 DEF AuthOnce
  <2>8. e = [callid |-> c, wa |-> wa, count |-> 1, code |-> e.code]
    BY <2>4 DEF AuthNonce
  <2>9. AuthHolds(new, calls, counts)
    <3> HIDE DEF new
    <3> QED
      BY <1>3, <2>3, <2>6, <2>7, <2>8
  <2> QED
    BY <2>9, Zenon
<1>5. CASE AuthEntry(t, c, wa.realm) = {} /\ AuthRoom(t) = {}
  BY <1>5 DEF _eXosip_store_nonce
<1>6. CASE AuthEntry(t, c, wa.realm) = {} /\ AuthRoom(t) # {}
  <2>1. PICK p : p = Min(AuthRoom(t))
    OBVIOUS
  <2>2. p \in AuthRoom(t)
    <3>1. AuthRoom(t) \subseteq Nat
      BY <1>0 DEF AuthRoom
    <3> QED
      BY <1>6, <2>1, <3>1, AuthFirst
  <2>3. p \in 1..AuthSlots
    BY <1>0, <2>2 DEF AuthRoom
  <2>4. PICK e : e = AuthNonce(c, wa, 1, code)
    OBVIOUS
  <2>5. new = [t EXCEPT ![p] = e]
    BY <1>6, <2>1, <2>4, Zenon DEF _eXosip_store_nonce
  <2>6. \A q \in AuthUsed(t) : ~(t[q].callid = c /\ t[q].wa.realm = wa.realm)
    BY <1>0, <1>6 DEF AuthEntry, AuthUsed
  <2>7. e = [callid |-> c, wa |-> wa, count |-> 1, code |-> e.code]
    BY <2>4 DEF AuthNonce
  <2>8. AuthHolds(new, calls, counts)
    <3> HIDE DEF new
    <3> QED
      BY <1>3, <2>3, <2>5, <2>6, <2>7
  <2> QED
    BY <2>8, Zenon
<1> QED
  BY <1>4, <1>5, <1>6


(* The table after each of the challenges: every one follows from the one  *)
(* before.                                                                 *)
AuthStoring(f, n, t, c, ch, done) ==
  f = [i \in 0..n |->
         IF i = 0 THEN t
         ELSE IF i \notin done THEN f[i - 1]
         ELSE _eXosip_store_nonce(f[i - 1], c, ch[i], ch[i].code)]

LEMMA AuthStoringGoesOn ==
  ASSUME NEW n \in Nat, NEW t, NEW c, NEW ch, NEW done
  PROVE  \E f : AuthStoring(f, n, t, c, ch, done)
<1> DEFINE N == {m \in Nat : ~ \E f : AuthStoring(f, m, t, c, ch, done)}
<1>1. SUFFICES ASSUME N # {} PROVE FALSE
  OBVIOUS
<1>2. PICK m \in N : \A l \in N : m <= l
  <2> HIDE DEF N
  <2>1. N \subseteq Nat
    BY DEF N
  <2> QED
    BY <1>1, <2>1, AuthFirst
<1>3. m \in Nat /\ ~ \E f : AuthStoring(f, m, t, c, ch, done)
  OBVIOUS
<1>4. CASE m = 0
  <2>1. AuthStoring([i \in 0..0 |-> t], 0, t, c, ch, done)
    BY DEF AuthStoring
  <2> QED
    BY <1>3, <1>4, <2>1
<1>5. CASE m # 0
  <2>1. m - 1 \in Nat /\ m - 1 \notin N
    BY <1>2, <1>3, <1>5
  <2>2. PICK f : AuthStoring(f, m - 1, t, c, ch, done)
    BY <2>1
  <2> DEFINE Then(i, x) == IF i = 0 THEN t
                           ELSE IF i \notin done THEN x
                           ELSE _eXosip_store_nonce(x, c, ch[i], ch[i].code)
  <2>3. PICK g : g = [i \in 0..m |-> IF i = m THEN Then(m, f[m - 1]) ELSE f[i]]
    OBVIOUS
  <2>4. \A i \in 0..(m - 1) : f[i] = Then(i, f[i - 1])
    <3>1. f = [i \in 0..(m - 1) |-> Then(i, f[i - 1])]
      BY <2>2, Zenon DEF AuthStoring
    <3> QED
      BY <3>1, Zenon
  <2> HIDE DEF Then
  <2>5. /\ \A i \in 0..(m - 1) : g[i] = f[i]
        /\ g[m] = Then(m, f[m - 1])
    BY <1>3, <1>5, <2>3
  <2>6. ASSUME NEW i \in 0..m PROVE g[i] = Then(i, g[i - 1])
    <3>1. CASE i = m
      <4>1. g[m - 1] = f[m - 1]
        BY <1>3, <1>5, <2>5
      <4> QED
        BY <2>5, <3>1, <4>1
    <3>2. CASE i # m /\ i # 0
      <4>1. i \in 0..(m - 1) /\ i - 1 \in 0..(m - 1)
        BY <1>3, <3>2
      <4> QED
        BY <2>4, <2>5, <4>1
    <3>3. CASE i # m /\ i = 0
      <4>1. 0 \in 0..(m - 1)
        BY <1>3, <1>5
      <4>2. Then(0, f[0 - 1]) = t /\ Then(0, g[0 - 1]) = t
        BY DEF Then
      <4>3. g[0] = f[0] /\ f[0] = Then(0, f[0 - 1])
        BY <2>4, <2>5, <4>1
      <4> QED
        BY <3>3, <4>2, <4>3
    <3> QED
      BY <3>1, <3>2, <3>3
  <2>7. g = [i \in 0..m |-> Then(i, g[i - 1])]
    <3>1. g = [i \in 0..m |-> g[i]]
      BY <2>3
    <3> QED
      BY <2>6, <3>1
  <2>8. AuthStoring(g, m, t, c, ch, done)
    BY <2>7, Zenon DEF AuthStoring, Then
  <2> QED
    BY <1>3, <2>8
<1> QED
  BY <1>4, <1>5

(* However many of the challenges are stored, the table holds.             *)
LEMMA AuthStoredHolds ==
  ASSUME NEW calls, NEW counts, NEW c \in AuthCallIds, NEW done,
         AuthHolds(auth.table, calls, counts), AuthWaiting(calls, counts),
         NEW ch, ch = calls[c].challenge, NEW n \in Nat, DOMAIN ch = 1..n, Len(ch) = n
  PROVE  AuthHolds(AuthStored(c, ch, done), calls, counts)
<1>1. PICK f : /\ f = [i \in 0..n |->
                         IF i = 0 THEN auth.table
                         ELSE IF i \notin done THEN f[i - 1]
                         ELSE _eXosip_store_nonce(f[i - 1], c, ch[i], ch[i].code)]
               /\ AuthStored(c, ch, done) = f[n]
  <2>1. \E f : AuthStoring(f, n, auth.table, c, ch, done)
    BY AuthStoringGoesOn
  <2>2. \E f : f = [i \in 0..n |->
                      IF i = 0 THEN auth.table
                      ELSE IF i \notin done THEN f[i - 1]
                      ELSE _eXosip_store_nonce(f[i - 1], c, ch[i], ch[i].code)]
    BY <2>1, Zenon DEF AuthStoring
  <2> QED
    BY <2>2, Zenon DEF AuthStored
<1>2. /\ f[0] = auth.table
      /\ \A i \in 1..n : f[i] = IF i \notin done THEN f[i - 1]
                                ELSE _eXosip_store_nonce(f[i - 1], c, ch[i], ch[i].code)
  <2>1. 0 \in 0..n /\ \A i \in 1..n : i \in 0..n /\ i # 0
    BY SMT
  <2> QED
    BY <1>1, <2>1
<1> DEFINE N == {m \in Nat : m <= n /\ ~AuthHolds(f[m], calls, counts)}
<1>3. SUFFICES ASSUME N # {} PROVE FALSE
  BY <1>1
<1>4. PICK m \in N : \A l \in N : m <= l
  <2> HIDE DEF N
  <2>1. N \subseteq Nat
    BY DEF N
  <2> QED
    BY <1>3, <2>1, AuthFirst
<1>5. m \in Nat /\ m <= n /\ ~AuthHolds(f[m], calls, counts) /\ m # 0
  BY <1>2
<1>6. m - 1 \in Nat /\ m - 1 \notin N /\ m - 1 <= n /\ m \in 1..n
  BY <1>4, <1>5
<1>7. AuthHolds(f[m - 1], calls, counts)
  BY <1>6
<1>8. AuthHolds(_eXosip_store_nonce(f[m - 1], c, ch[m], ch[m].code), calls, counts)
  BY <1>6, <1>7, AuthStoreHolds
<1> QED
  BY <1>2, <1>5, <1>6, <1>7, <1>8


(* The credentials that are found are among those that fit the realm.      *)
LEMMA AuthFound ==
  ASSUME auth.infos \in Seq(AuthInfos), NEW realm,
         eXosip_find_authentication_info(realm) # AuthNobody
  PROVE  \E k \in AuthFitting(realm) :
           eXosip_find_authentication_info(realm) = auth.infos[k]
<1> DEFINE named    == {i \in DOMAIN auth.infos : AuthIsFor(auth.infos[i], realm)}
           nameless == {i \in DOMAIN auth.infos : auth.infos[i].realm = <<>>}
           Own(is)  == {i \in is : auth.infos[i].username = AuthUser}
<1>1. /\ eXosip_find_authentication_info(realm) =
           IF Own(named) # {} THEN auth.infos[Min(Own(named))]
           ELSE IF named # {} THEN auth.infos[Min(named)]
           ELSE IF Own(nameless) # {} THEN auth.infos[Max(Own(nameless))]
           ELSE IF nameless # {} THEN auth.infos[Min(nameless)]
           ELSE AuthNobody
      /\ AuthFitting(realm) = IF named # {} THEN named ELSE nameless
  BY Zenon DEF eXosip_find_authentication_info, AuthFitting
<1>2. Len(auth.infos) \in Nat /\ DOMAIN auth.infos = 1..Len(auth.infos)
  OBVIOUS
<1>3. /\ named \subseteq 0..Len(auth.infos) /\ nameless \subseteq 0..Len(auth.infos)
      /\ Own(named) \subseteq named /\ Own(nameless) \subseteq nameless
  BY <1>2
<1> HIDE DEF named, nameless, Own
<1>4. ASSUME NEW S, S \subseteq 0..Len(auth.infos), S # {}
      PROVE  Min(S) \in S /\ Max(S) \in S
  <2>1. S \subseteq Nat
    BY <1>2, <1>4
  <2> QED
    BY <1>2, <1>4, <2>1, AuthFirst, AuthLast
<1>5. CASE Own(named) # {}
  <2>1. Min(Own(named)) \in Own(named) /\ named # {}
    BY <1>3, <1>4, <1>5
  <2> QED
    BY <1>1, <1>3, <1>5, <2>1
<1>6. CASE Own(named) = {} /\ named # {}
  <2>1. Min(named) \in named
    BY <1>3, <1>4, <1>6
  <2> QED
    BY <1>1, <1>6, <2>1
<1>7. CASE Own(named) = {} /\ named = {} /\ Own(nameless) # {}
  <2>1. Max(Own(nameless)) \in nameless
    BY <1>3, <1>4, <1>7
  <2> QED
    BY <1>1, <1>7, <2>1
<1>8. CASE Own(named) = {} /\ named = {} /\ Own(nameless) = {} /\ nameless # {}
  <2>1. Min(nameless) \in nameless
    BY <1>3, <1>4, <1>8
  <2> QED
    BY <1>1, <1>8, <2>1
<1>9. CASE Own(named) = {} /\ named = {} /\ Own(nameless) = {} /\ nameless = {}
  BY <1>1, <1>9
<1> QED
  BY <1>5, <1>6, <1>7, <1>8, <1>9

(* What is made from them: the server computes the same.                   *)
LEMMA AuthHeaderVerifies ==
  ASSUME auth.infos \in Seq(AuthInfos), NEW place, NEW code, NEW wa, NEW method, NEW count,
         eXosip_find_authentication_info(wa.realm) # AuthNobody,
         NEW h, h = AuthHeader(place, code, wa, method, count).made
  PROVE  /\ h.wa = wa /\ h.count = count
         /\ h.wa.algorithm = "MD5" => \E k \in AuthFitting(h.wa.realm) :
              h.username = auth.infos[k].userid /\ AuthVerifies(h, method, auth.infos[k])
<1>1. PICK info : info = eXosip_find_authentication_info(wa.realm)
  OBVIOUS
<1>2. h = _eXosip_create_authorization_header(wa, info, method, count)
  BY <1>1, Zenon DEF AuthHeader, _eXosip_create_proxy_authorization_header
<1>3. PICK ha1, aka : /\ aka = (wa.algorithm # "MD5")
                      /\ ha1 = IF info.ha1 # <<>> THEN info.ha1
                               ELSE DigestCalcHA1(info.userid, wa.realm,
                                      IF wa.algorithm # "MD5"
                                      THEN DigestCalcResponseAka(info.passwd, wa.nonce, wa.algorithm)
                                      ELSE <<"none", info.passwd, 0>>)
  OBVIOUS
<1>4. h = [wa |-> wa, username |-> info.userid, qop |-> AuthQop(wa), count |-> count,
           response |-> DigestCalcResponse(ha1, wa.nonce, count, AuthQop(wa),
                                           wa.algorithm # "MD5", method)]
  BY <1>2, <1>3, Zenon DEF _eXosip_create_authorization_header
<1>5. /\ h.wa = wa /\ h.count = count /\ h.username = info.userid /\ h.qop = AuthQop(wa)
      /\ h.response = DigestCalcResponse(ha1, wa.nonce, count, AuthQop(wa),
                                         wa.algorithm # "MD5", method)
  <2>1. PICK q, r : /\ q = AuthQop(wa)
                    /\ r = DigestCalcResponse(ha1, wa.nonce, count, AuthQop(wa),
                                               wa.algorithm # "MD5", method)
    OBVIOUS
  <2>2. h = [wa |-> wa, username |-> info.userid, qop |-> q, count |-> count, response |-> r]
    BY <1>4, <2>1, Zenon
  <2>3. h.wa = wa /\ h.count = count /\ h.username = info.userid /\ h.qop = q /\ h.response = r
    BY <2>2
  <2> QED
    BY <2>1, <2>3, Zenon
<1>6. PICK k \in AuthFitting(wa.realm) : info = auth.infos[k]
  BY <1>1, AuthFound
<1>7. ASSUME wa.algorithm = "MD5"  PROVE AuthVerifies(h, method, info)
  <2>1. ha1 = IF info.ha1 # <<>> THEN info.ha1
              ELSE <<"HA1", info.userid, wa.realm, <<"none", info.passwd, 0>>>>
    BY <1>3, <1>7, Zenon DEF DigestCalcHA1
  <2>2. h.response = <<ha1, wa.nonce, IF AuthQop(wa) = "none" THEN <<>> ELSE <<count, AuthQop(wa)>>,
                       method>>
    BY <1>5, <1>7, Zenon DEF DigestCalcResponse
  <2> QED
    BY <1>5, <2>1, <2>2, Zenon DEF AuthVerifies
<1> QED
  BY <1>5, <1>6, <1>7

(* What the headers of a request say of nonces: each is used once more,    *)
(* no more often than the table knows, and only what the request waits for.*)
AuthFits(headers, table, calls, counts, c) ==
  \A g \in headers :
    /\ g.made.count \in Nat
    /\ g.made.count > counts[g.made.wa.nonce]
    /\ \A h \in headers : g.made.wa.nonce = h.made.wa.nonce => g.made.count = h.made.count
    /\ \A p \in AuthUsed(table) :
         table[p].wa.nonce = g.made.wa.nonce => g.made.count <= table[p].count
    /\ \A d \in AuthCallIds : \A j \in DOMAIN calls[d].challenge :
         calls[d].challenge[j].nonce = g.made.wa.nonce => d = c
    /\ g.made.wa.algorithm = "MD5" => \E k \in AuthFitting(g.made.wa.realm) :
         /\ g.made.username = auth.infos[k].userid
         /\ AuthVerifies(g.made, AuthMethods[c], auth.infos[k])


(* The counts of the server after a request: that of a header for the      *)
(* nonces that were used.                                                  *)
LEMMA AuthCountedOnce ==
  ASSUME NEW headers, auth.counts \in Seq(Nat),
         \A g \in headers : g.made.count \in Nat,
         \A g, h \in headers : g.made.wa.nonce = h.made.wa.nonce => g.made.count = h.made.count
  PROVE  /\ AuthCounted(headers) \in Seq(Nat)
         /\ DOMAIN AuthCounted(headers) = DOMAIN auth.counts
         /\ \A n \in DOMAIN auth.counts :
              \/ AuthCounted(headers)[n] = auth.counts[n]
              \/ \E g \in headers : g.made.wa.nonce = n /\ AuthCounted(headers)[n] = g.made.count
<1> DEFINE Used(n) == {h.made.count : h \in {g \in headers :
                          g.made.wa.nonce = n /\ g.made.qop # "none"}}
           All(n)  == {auth.counts[n]} \cup Used(n)
<1>1. AuthCounted(headers) = [n \in DOMAIN auth.counts |-> Max(All(n))]
  BY Zenon DEF AuthCounted
<1>2. PICK len \in Nat : DOMAIN auth.counts = 1..len
  <2>1. Len(auth.counts) \in Nat /\ DOMAIN auth.counts = 1..Len(auth.counts)
    OBVIOUS
  <2> QED
    BY <2>1
<1>3. ASSUME NEW n \in DOMAIN auth.counts
      PROVE  /\ Max(All(n)) \in Nat
             /\ \/ Max(All(n)) = auth.counts[n]
                \/ \E g \in headers : g.made.wa.nonce = n /\ Max(All(n)) = g.made.count
  <2>1. auth.counts[n] \in Nat
    OBVIOUS
  <2>2. ASSUME NEW x \in Used(n)
        PROVE  x \in Nat /\ \E g \in headers : g.made.wa.nonce = n /\ x = g.made.count
    OBVIOUS
  <2>3. ASSUME NEW x \in Used(n), NEW y \in Used(n)  PROVE x = y
    <3>1. PICK g \in headers : g.made.wa.nonce = n /\ x = g.made.count
      BY <2>2
    <3>2. PICK h \in headers : h.made.wa.nonce = n /\ y = h.made.count
      BY <2>2
    <3> QED
      BY <3>1, <3>2
  <2> HIDE DEF Used
  <2>4. CASE Used(n) = {}
    <3>1. /\ All(n) = {auth.counts[n]} /\ All(n) # {}
          /\ All(n) \subseteq 0..auth.counts[n]
      BY <2>1, <2>4
    <3>2. Max(All(n)) \in All(n)
      <4> HIDE DEF All
      <4> QED
        BY <2>1, <3>1, AuthLast
    <3> QED
      BY <2>1, <3>1, <3>2
  <2>5. CASE Used(n) # {}
    <3>1. PICK x \in Used(n) : TRUE
      BY <2>5
    <3>2. PICK m : m = x + auth.counts[n]
      OBVIOUS
    <3>3. x \in Nat /\ m \in Nat /\ x <= m /\ auth.counts[n] <= m
      BY <2>1, <2>2, <3>1, <3>2
    <3>4. All(n) \subseteq 0..m /\ All(n) # {}
      <4>1. ASSUME NEW y \in All(n)  PROVE y = auth.counts[n] \/ y = x
        BY <2>3, <3>1, <4>1
      <4>2. auth.counts[n] \in All(n)
        OBVIOUS
      <4> HIDE DEF All
      <4>3. \A y \in All(n) : y \in 0..m
        BY <2>1, <3>3, <4>1
      <4> QED
        BY <4>2, <4>3
    <3>5. Max(All(n)) \in All(n)
      <4> HIDE DEF All
      <4> QED
        BY <3>3, <3>4, AuthLast
    <3> QED
      BY <2>1, <2>2, <3>5
  <2> QED
    BY <2>4, <2>5
<1> HIDE DEF All
<1>4. AuthCounted(headers) \in [1..len -> Nat]
  BY <1>1, <1>2, <1>3
<1> QED
  BY <1>1, <1>2, <1>3, <1>4

(* The headers and the table of a request that nobody asked credentials    *)
(* for: each is made from an entry of the Call-ID.                         *)
AuthGoesOn(built, c, place, done) ==
  /\ built.table = [p \in 1..AuthSlots |->
       IF p \in done THEN [auth.table[p] EXCEPT !.count = @ + 1] ELSE auth.table[p]]
  /\ built.headers = {AuthHeader(place, auth.table[p].code, auth.table[p].wa, AuthMethods[c],
                                 auth.table[p].count + 1) : p \in done}
  /\ \A p \in done : /\ p \in 1..AuthSlots /\ auth.table[p].callid = c
                     /\ eXosip_find_authentication_info(auth.table[p].wa.realm) # AuthNobody

(* A header that nobody asked for is made from an entry of the table, whose*)
(* count goes on.                                                          *)
LEMMA AuthUnaskedHolds ==
  ASSUME AuthInv, NEW c \in AuthCallIds, auth.calls[c].challenge = <<>>,
         NEW built, built = AuthUnasked(c)
  PROVE  /\ AuthHolds(built.table, auth.calls, auth.counts)
         /\ AuthFits(built.headers, built.table, auth.calls, auth.counts, c)
<1>0. /\ AuthTyped(auth.table) /\ AuthAhead(auth.table, auth.counts) /\ AuthOnce(auth.table)
      /\ AuthExpected(auth.table, auth.calls) /\ AuthSlots \in Nat /\ c # "none"
      /\ auth.infos \in Seq(AuthInfos)
  BY AuthAssumption DEF AuthInv, AuthHolds, AuthCallIds
<1>1. DOMAIN auth.table = 1..AuthSlots
  <2>1. auth.table = [p \in 1..AuthSlots |-> auth.table[p]]
    BY <1>0 DEF AuthTyped
  <2> QED
    BY <2>1, Zenon
<1>2. PICK place, done : AuthGoesOn(built, c, place, done)
  <2> DEFINE place == IF AuthMethods[c] = "REGISTER" THEN "Authorization" ELSE "Proxy-Authorization"
             mine == {p \in DOMAIN auth.table : auth.table[p].callid = c}
             failing == {p \in mine : eXosip_find_authentication_info(auth.table[p].wa.realm) = AuthNobody}
             done == AuthBefore(mine, failing)
             table == [p \in 1..AuthSlots |->
               IF p \in done THEN [auth.table[p] EXCEPT !.count = @ + 1] ELSE auth.table[p]]
             headers == {AuthHeader(place, auth.table[p].code, auth.table[p].wa, AuthMethods[c],
                                    auth.table[p].count + 1) : p \in done}
  <2>1. built = [failed |-> failing # {}, table |-> table, headers |-> headers]
    BY <1>1, Zenon DEF AuthUnasked
  <2>2. built.table = table /\ built.headers = headers
    <3>1. PICK f, T, H : f = (failing # {}) /\ T = table /\ H = headers
      OBVIOUS
    <3> HIDE DEF table, headers, failing
    <3>2. built = [failed |-> f, table |-> T, headers |-> H]
      BY <2>1, <3>1, Zenon
    <3>3. built.table = T /\ built.headers = H
      BY <3>2
    <3> QED
      BY <3>1, <3>3
  <2>3. ASSUME NEW p \in done
        PROVE  /\ p \in 1..AuthSlots /\ auth.table[p].callid = c
               /\ eXosip_find_authentication_info(auth.table[p].wa.realm) # AuthNobody
    <3>1. p \in mine /\ \A q \in failing : p < q
      BY DEF AuthBefore
    <3>2. p \in 1..AuthSlots /\ auth.table[p].callid = c
      BY <1>1, <3>1
    <3>3. p \notin failing
      <4> SUFFICES ASSUME p \in failing PROVE FALSE
        OBVIOUS
      <4>1. p < p
        BY <3>1, Zenon
      <4> HIDE DEF failing, mine, done
      <4> QED
        BY <3>2, <4>1
    <3> QED
      BY <3>1, <3>2, <3>3
  <2>4. PICK P, D : P = place /\ D = done
    OBVIOUS
  <2>5. /\ built.table = [p \in 1..AuthSlots |->
             IF p \in D THEN [auth.table[p] EXCEPT !.count = @ + 1] ELSE auth.table[p]]
        /\ built.headers = {AuthHeader(P, auth.table[p].code, auth.table[p].wa, AuthMethods[c],
                                       auth.table[p].count + 1) : p \in D}
    BY <2>2, <2>4, Zenon
  <2>6. \A p \in D : /\ p \in 1..AuthSlots /\ auth.table[p].callid = c
                     /\ eXosip_find_authentication_info(auth.table[p].wa.realm) # AuthNobody
    BY <2>3, <2>4, Zenon
  <2> HIDE DEF done, place, mine, failing, table, headers
  <2>7. AuthGoesOn(built, c, P, D)
    BY <2>5, <2>6, Zenon DEF AuthGoesOn
  <2> QED
    BY <2>7
<1>9. /\ built.table = [p \in 1..AuthSlots |->
             IF p \in done THEN [auth.table[p] EXCEPT !.count = @ + 1] ELSE auth.table[p]]
        /\ built.headers = {AuthHeader(place, auth.table[p].code, auth.table[p].wa, AuthMethods[c],
                                       auth.table[p].count + 1) : p \in done}
        /\ \A p \in done : /\ p \in 1..AuthSlots /\ auth.table[p].callid = c
                           /\ eXosip_find_authentication_info(auth.table[p].wa.realm) # AuthNobody
  BY <1>2, Zenon DEF AuthGoesOn
<1>3. \A p \in done : p \in AuthUsed(auth.table)
  BY <1>0, <1>9 DEF AuthUsed
<1>4. ASSUME NEW p \in 1..AuthSlots
      PROVE  /\ AuthEntryOf(built.table[p])
             /\ built.table[p].callid = auth.table[p].callid
             /\ built.table[p].wa = auth.table[p].wa
             /\ p \in done => built.table[p].count = auth.table[p].count + 1
             /\ p \notin done => built.table[p].count = auth.table[p].count
  <2>1. PICK e : e = auth.table[p]
    OBVIOUS
  <2>2. e = [callid |-> e.callid, wa |-> e.wa, count |-> e.count, code |-> e.code]
    BY <1>0, <2>1 DEF AuthTyped, AuthEntryOf
  <2>3. built.table[p] = IF p \in done THEN [e EXCEPT !.count = @ + 1] ELSE e
    BY <1>9, <2>1
  <2>4. CASE p \in done
    <3>1. built.table[p] = [e EXCEPT !.count = e.count + 1]
      BY <2>3, <2>4
    <3>2. [e EXCEPT !.count = e.count + 1] =
            [callid |-> e.callid, wa |-> e.wa, count |-> e.count + 1, code |-> e.code]
      BY <2>2
    <3> QED
      BY <2>1, <2>4, <3>1, <3>2 DEF AuthEntryOf
  <2>5. CASE p \notin done
    BY <2>1, <2>2, <2>3, <2>5 DEF AuthEntryOf
  <2> QED
    BY <2>4, <2>5
<1>5. \A p : p \in AuthUsed(built.table) <=> p \in AuthUsed(auth.table)
  BY <1>4 DEF AuthUsed
<1>6. AuthHolds(built.table, auth.calls, auth.counts)
  <2>1. AuthTyped(built.table)
    <3>1. built.table = [p \in 1..AuthSlots |-> built.table[p]]
      BY <1>9
    <3> QED
      BY <1>4, <3>1 DEF AuthTyped
  <2>2. AuthAhead(built.table, auth.counts)
    <3> SUFFICES ASSUME NEW p \in AuthUsed(auth.table)
        PROVE  /\ built.table[p].callid \in AuthCallIds
               /\ built.table[p].count \in Nat \ {0}
               /\ built.table[p].wa.nonce \in DOMAIN auth.counts
               /\ auth.counts[built.table[p].wa.nonce] <= built.table[p].count
      BY <1>5 DEF AuthAhead
    <3>1. p \in 1..AuthSlots
      BY DEF AuthUsed
    <3>2. /\ auth.table[p].callid \in AuthCallIds
          /\ auth.table[p].count \in Nat \ {0}
          /\ auth.table[p].wa.nonce \in DOMAIN auth.counts
          /\ auth.counts[auth.table[p].wa.nonce] <= auth.table[p].count
      BY <1>0 DEF AuthAhead
    <3>3. auth.counts[auth.table[p].wa.nonce] \in Nat
      BY <3>2 DEF AuthInv
    <3> QED
      BY <1>4, <3>1, <3>2, <3>3
  <2>3. \A p \in AuthUsed(auth.table) : /\ built.table[p].wa = auth.table[p].wa
                                        /\ built.table[p].callid = auth.table[p].callid
    BY <1>4 DEF AuthUsed
  <2>4. AuthOnce(built.table)
    <3> SUFFICES ASSUME NEW p \in AuthUsed(built.table), NEW q \in AuthUsed(built.table)
        PROVE  /\ built.table[p].wa.nonce = built.table[q].wa.nonce => p = q
               /\ built.table[p].callid = built.table[q].callid
                  /\ built.table[p].wa.realm = built.table[q].wa.realm => p = q
      BY Zenon DEF AuthOnce
    <3>0. p \in AuthUsed(auth.table) /\ q \in AuthUsed(auth.table)
      BY <1>5, Zenon
    <3>1. /\ auth.table[p].wa.nonce = auth.table[q].wa.nonce => p = q
          /\ auth.table[p].callid = auth.table[q].callid
             /\ auth.table[p].wa.realm = auth.table[q].wa.realm => p = q
      BY <1>0, <3>0, Zenon DEF AuthOnce
    <3> QED
      BY <2>3, <3>0, <3>1
  <2>5. AuthExpected(built.table, auth.calls)
    BY <1>0, <1>5, <2>3 DEF AuthExpected
  <2> QED
    BY <2>1, <2>2, <2>4, <2>5 DEF AuthHolds
<1>7. ASSUME NEW g \in built.headers
      PROVE  \E p \in done :
               /\ g.made.wa = auth.table[p].wa /\ g.made.count = auth.table[p].count + 1
               /\ g.made.wa.algorithm = "MD5" => \E k \in AuthFitting(g.made.wa.realm) :
                    /\ g.made.username = auth.infos[k].userid
                    /\ AuthVerifies(g.made, AuthMethods[c], auth.infos[k])
  <2>1. PICK p \in done : g = AuthHeader(place, auth.table[p].code, auth.table[p].wa,
                                         AuthMethods[c], auth.table[p].count + 1)
    BY <1>9
  <2>2. eXosip_find_authentication_info(auth.table[p].wa.realm) # AuthNobody
    BY <1>9
  <2> QED
    <3>1. PICK wa, h, n : /\ wa = auth.table[p].wa /\ h = g.made
                          /\ n = auth.table[p].count + 1
      OBVIOUS
    <3>2. h = AuthHeader(place, auth.table[p].code, wa, AuthMethods[c], n).made
      BY <2>1, <3>1, Zenon
    <3>3. /\ h.wa = wa /\ h.count = n
          /\ h.wa.algorithm = "MD5" => \E k \in AuthFitting(h.wa.realm) :
               h.username = auth.infos[k].userid /\ AuthVerifies(h, AuthMethods[c], auth.infos[k])
      <4>1. auth.infos \in Seq(AuthInfos) /\ eXosip_find_authentication_info(wa.realm) # AuthNobody
        BY <1>0, <2>2, <3>1
      <4> QED
        BY <3>2, <4>1, AuthHeaderVerifies
    <3> QED
      BY <3>1, <3>3, Zenon
<1>8. AuthFits(built.headers, built.table, auth.calls, auth.counts, c)
  <2> SUFFICES ASSUME NEW g \in built.headers
      PROVE /\ g.made.count \in Nat
            /\ g.made.count > auth.counts[g.made.wa.nonce]
            /\ \A h \in built.headers :
                 g.made.wa.nonce = h.made.wa.nonce => g.made.count = h.made.count
            /\ \A p \in AuthUsed(built.table) :
                 built.table[p].wa.nonce = g.made.wa.nonce => g.made.count <= built.table[p].count
            /\ \A d \in AuthCallIds : \A j \in DOMAIN auth.calls[d].challenge :
                 auth.calls[d].challenge[j].nonce = g.made.wa.nonce => d = c
            /\ g.made.wa.algorithm = "MD5" => \E k \in AuthFitting(g.made.wa.realm) :
                 /\ g.made.username = auth.infos[k].userid
                 /\ AuthVerifies(g.made, AuthMethods[c], auth.infos[k])
    BY Zenon DEF AuthFits
  <2>1. PICK p \in done :
          /\ g.made.wa = auth.table[p].wa /\ g.made.count = auth.table[p].count + 1
          /\ g.made.wa.algorithm = "MD5" => \E k \in AuthFitting(g.made.wa.realm) :
               /\ g.made.username = auth.infos[k].userid
               /\ AuthVerifies(g.made, AuthMethods[c], auth.infos[k])
    BY <1>7
  <2>2. p \in AuthUsed(auth.table) /\ p \in 1..AuthSlots /\ auth.table[p].callid = c
    BY <1>9, <1>3
  <2>3. /\ auth.table[p].count \in Nat /\ auth.table[p].wa.nonce \in DOMAIN auth.counts
        /\ auth.counts[auth.table[p].wa.nonce] <= auth.table[p].count
    BY <1>0, <2>2 DEF AuthAhead
  <2>4. auth.counts[auth.table[p].wa.nonce] \in Nat
    BY <2>3 DEF AuthInv
  <2>5. g.made.count \in Nat /\ g.made.count > auth.counts[g.made.wa.nonce]
    BY <2>1, <2>3, <2>4
  <2>6. ASSUME NEW h \in built.headers, g.made.wa.nonce = h.made.wa.nonce
        PROVE  g.made.count = h.made.count
    <3>1. PICK q \in done :
            h.made.wa = auth.table[q].wa /\ h.made.count = auth.table[q].count + 1
      BY <1>7
    <3>2. p = q
      BY <1>0, <1>3, <2>1, <2>2, <2>6, <3>1 DEF AuthOnce
    <3> QED
      BY <2>1, <3>1, <3>2
  <2>7. ASSUME NEW q \in AuthUsed(built.table), built.table[q].wa.nonce = g.made.wa.nonce
        PROVE  g.made.count <= built.table[q].count
    <3>1. q \in AuthUsed(auth.table) /\ q \in 1..AuthSlots
      BY <1>5 DEF AuthUsed
    <3>2. q = p
      BY <1>0, <1>4, <2>1, <2>2, <2>7, <3>1 DEF AuthOnce
    <3> QED
      BY <1>4, <2>1, <2>2, <2>3, <3>2
  <2>8. \A d \in AuthCallIds : \A j \in DOMAIN auth.calls[d].challenge :
          auth.calls[d].challenge[j].nonce = g.made.wa.nonce => d = c
    BY <1>0, <2>1, <2>2 DEF AuthExpected
  <2> QED
    BY <2>1, <2>5, <2>6, <2>7, <2>8
<1> QED
  BY <1>6, <1>8


(* A header that was asked for uses a nonce for the first time.            *)
LEMMA AuthAskedHolds ==
  ASSUME AuthInv, NEW c \in AuthCallIds, NEW ch, ch = auth.calls[c].challenge,
         NEW built, built = AuthAsked(c, ch)
  PROVE  /\ AuthHolds(built.table, auth.calls, auth.counts)
         /\ AuthFits(built.headers, built.table, auth.calls, auth.counts, c)
<1>0. /\ AuthHolds(auth.table, auth.calls, auth.counts) /\ AuthWaiting(auth.calls, auth.counts)
      /\ auth.infos \in Seq(AuthInfos)
  BY DEF AuthInv
<1>1. PICK n \in Nat : DOMAIN ch = 1..n /\ Len(ch) = n
  BY DEF AuthInv, AuthCalls
<1> DEFINE Place(wa) == IF wa.code = 401 THEN "Authorization" ELSE "Proxy-Authorization"
           failing == {i \in DOMAIN ch :
                         \/ eXosip_find_authentication_info(ch[i].realm) = AuthNobody
                         \/ ~AuthKnown(ch[i])}
           done == AuthBefore(DOMAIN ch, failing)
           table == IF AuthStores(c) THEN AuthStored(c, ch, done) ELSE auth.table
           headers == {AuthHeader(Place(ch[i]), ch[i].code, ch[i], AuthMethods[c], 1) : i \in done}
<1>2. built.table = table /\ built.headers = headers
  <2>1. built = [failed |-> failing # {}, table |-> table, headers |-> headers]
    BY Zenon DEF AuthAsked
  <2>2. PICK f, T, H : f = (failing # {}) /\ T = table /\ H = headers
    OBVIOUS
  <2> HIDE DEF table, headers, failing
  <2>3. built = [failed |-> f, table |-> T, headers |-> H]
    BY <2>1, <2>2, Zenon
  <2>4. built.table = T /\ built.headers = H
    BY <2>3
  <2> QED
    BY <2>2, <2>4
<1>3. ASSUME NEW i \in done
      PROVE  i \in DOMAIN ch /\ eXosip_find_authentication_info(ch[i].realm) # AuthNobody
  <2>1. i \in DOMAIN ch /\ \A j \in failing : i < j
    BY DEF AuthBefore
  <2>2. i \in Nat
    BY <1>1, <2>1
  <2>3. i \notin failing
    <3> SUFFICES ASSUME i \in failing PROVE FALSE
      OBVIOUS
    <3>1. i < i
      BY <2>1, Zenon
    <3> HIDE DEF failing, done
    <3> QED
      BY <2>2, <3>1
  <2> QED
    BY <2>1, <2>3
<1> HIDE DEF done
<1>4. AuthHolds(built.table, auth.calls, auth.counts)
  <2>1. AuthHolds(AuthStored(c, ch, done), auth.calls, auth.counts)
    BY <1>0, <1>1, AuthStoredHolds
  <2>2. AuthHolds(table, auth.calls, auth.counts)
    <3>1. CASE AuthStores(c)
      BY <2>1, <3>1
    <3>2. CASE ~AuthStores(c)
      BY <1>0, <3>2
    <3> QED
      BY <3>1, <3>2
  <2> QED
    BY <1>2, <2>2
<1>5. ASSUME NEW g \in built.headers
      PROVE  \E i \in DOMAIN ch :
               /\ g.made.wa = ch[i] /\ g.made.count = 1
               /\ g.made.wa.algorithm = "MD5" => \E k \in AuthFitting(g.made.wa.realm) :
                    /\ g.made.username = auth.infos[k].userid
                    /\ AuthVerifies(g.made, AuthMethods[c], auth.infos[k])
  <2>1. PICK i \in done : g = AuthHeader(Place(ch[i]), ch[i].code, ch[i], AuthMethods[c], 1)
    BY <1>2
  <2>2. i \in DOMAIN ch /\ eXosip_find_authentication_info(ch[i].realm) # AuthNobody
    BY <1>3
  <2>3. PICK place : place = Place(ch[i])
    OBVIOUS
  <2> HIDE DEF Place
  <2>4. g = AuthHeader(place, ch[i].code, ch[i], AuthMethods[c], 1)
    BY <2>1, <2>3
  <2>5. /\ g.made.wa = ch[i] /\ g.made.count = 1
        /\ g.made.wa.algorithm = "MD5" => \E k \in AuthFitting(g.made.wa.realm) :
             /\ g.made.username = auth.infos[k].userid
             /\ AuthVerifies(g.made, AuthMethods[c], auth.infos[k])
    <3>1. PICK wa : wa = ch[i]
      OBVIOUS
    <3>2. /\ g = AuthHeader(place, wa.code, wa, AuthMethods[c], 1)
          /\ eXosip_find_authentication_info(wa.realm) # AuthNobody
      BY <2>2, <2>4, <3>1
    <3>3. PICK h : h = g.made
      OBVIOUS
    <3>4. /\ h.wa = wa /\ h.count = 1
          /\ h.wa.algorithm = "MD5" => \E k \in AuthFitting(h.wa.realm) :
               h.username = auth.infos[k].userid /\ AuthVerifies(h, AuthMethods[c], auth.infos[k])
      BY <1>0, <3>2, <3>3, AuthHeaderVerifies
    <3> QED
      BY <3>1, <3>3, <3>4
  <2> QED
    BY <2>2, <2>5
<1>6. AuthFits(built.headers, built.table, auth.calls, auth.counts, c)
  <2> SUFFICES ASSUME NEW g \in built.headers
      PROVE /\ g.made.count \in Nat
            /\ g.made.count > auth.counts[g.made.wa.nonce]
            /\ \A h \in built.headers :
                 g.made.wa.nonce = h.made.wa.nonce => g.made.count = h.made.count
            /\ \A p \in AuthUsed(built.table) :
                 built.table[p].wa.nonce = g.made.wa.nonce => g.made.count <= built.table[p].count
            /\ \A d \in AuthCallIds : \A j \in DOMAIN auth.calls[d].challenge :
                 auth.calls[d].challenge[j].nonce = g.made.wa.nonce => d = c
            /\ g.made.wa.algorithm = "MD5" => \E k \in AuthFitting(g.made.wa.realm) :
                 /\ g.made.username = auth.infos[k].userid
                 /\ AuthVerifies(g.made, AuthMethods[c], auth.infos[k])
    BY Zenon DEF AuthFits
  <2>1. PICK i \in DOMAIN ch :
          /\ g.made.wa = ch[i] /\ g.made.count = 1
          /\ g.made.wa.algorithm = "MD5" => \E k \in AuthFitting(g.made.wa.realm) :
               /\ g.made.username = auth.infos[k].userid
               /\ AuthVerifies(g.made, AuthMethods[c], auth.infos[k])
    BY <1>5
  <2>2. \A h \in built.headers : h.made.count = 1
    BY <1>5
  <2>3. auth.counts[g.made.wa.nonce] = 0
    BY <1>0, <2>1 DEF AuthWaiting
  <2>4. ASSUME NEW p \in AuthUsed(built.table)  PROVE 1 <= built.table[p].count
    <3>1. built.table[p].count \in Nat \ {0}
      BY <1>4 DEF AuthHolds, AuthAhead
    <3> QED
      BY <3>1
  <2>5. \A d \in AuthCallIds : \A j \in DOMAIN auth.calls[d].challenge :
          auth.calls[d].challenge[j].nonce = g.made.wa.nonce => d = c
    BY <1>0, <2>1 DEF AuthWaiting
  <2> QED
    <3>1. g.made.count \in Nat /\ g.made.count > auth.counts[g.made.wa.nonce]
      BY <2>1, <2>3
    <3>2. \A h \in built.headers : g.made.wa.nonce = h.made.wa.nonce => g.made.count = h.made.count
      BY <2>1, <2>2, Zenon
    <3>3. \A p \in AuthUsed(built.table) : g.made.count <= built.table[p].count
      BY <2>1, <2>4, Zenon
    <3> QED
      BY <2>1, <2>5, <3>1, <3>2, <3>3, Zenon
<1> QED
  BY <1>4, <1>6

(* A step that leaves the counts alone and forgets challenges at most.     *)
LEMMA AuthCallsStep ==
  ASSUME NEW table, NEW calls, NEW counts, AuthCalls(calls), AuthWaiting(calls, counts),
         AuthHolds(table, calls, counts),
         NEW new, AuthCalls(new),
         \A c \in AuthCallIds : new[c].challenge = <<>> \/ new[c] = calls[c]
  PROVE  AuthWaiting(new, counts) /\ AuthHolds(table, new, counts)
<1>1. DOMAIN <<>> = {}
  OBVIOUS
<1>2. \A c \in AuthCallIds : \A i \in DOMAIN new[c].challenge :
        i \in DOMAIN calls[c].challenge /\ new[c].challenge = calls[c].challenge
  BY <1>1
<1>3. \A c \in AuthCallIds : new[c].state # "refused" => new[c].challenge = <<>>
  BY DEF AuthWaiting
<1>4. AuthWaiting(new, counts)
  BY <1>2, <1>3 DEF AuthWaiting
<1>5. AuthExpected(table, new)
  BY <1>2 DEF AuthHolds, AuthExpected
<1> QED
  BY <1>4, <1>5 DEF AuthHolds

(* The request leaves with its headers, or is given up.                    *)
LEMMA AuthSendsOne ==
  ASSUME AuthInv, NEW c \in AuthCallIds, NEW challenge, AuthSends(c, challenge),
         challenge = <<>> => auth.calls[c].challenge = <<>>,
         challenge # <<>> => challenge = auth.calls[c].challenge
  PROVE  AuthInv'
<1>1. PICK built : built = _eXosip_add_authentication_information(c, challenge)
  OBVIOUS
<1>2. /\ AuthHolds(built.table, auth.calls, auth.counts)
      /\ AuthFits(built.headers, built.table, auth.calls, auth.counts, c)
  <2>1. CASE challenge = <<>>
    BY <1>1, <2>1, AuthUnaskedHolds DEF _eXosip_add_authentication_information
  <2>2. CASE challenge # <<>>
    BY <1>1, <2>2, AuthAskedHolds DEF _eXosip_add_authentication_information
  <2> QED
    BY <2>1, <2>2
<1>3. \/ auth' = AuthIs(auth.infos, built.table,
                        [auth.calls EXCEPT ![c] = AuthCall("sent", @.tag, <<>>)],
                        AuthCounted(built.headers),
                        auth.sound /\ AuthSound(AuthMethods[c], built.headers))
      \/ auth' = AuthIs(auth.infos, built.table, auth.calls, auth.counts, auth.sound)
  BY <1>1, Zenon DEF AuthSends
<1>4. /\ auth.sound /\ auth.infos \in Seq(AuthInfos) /\ auth.counts \in Seq(Nat)
      /\ AuthCalls(auth.calls) /\ AuthWaiting(auth.calls, auth.counts)
  BY DEF AuthInv
<1>5. CASE auth' = AuthIs(auth.infos, built.table, auth.calls, auth.counts, auth.sound)
  <2>1. /\ auth'.infos = auth.infos /\ auth'.table = built.table /\ auth'.calls = auth.calls
        /\ auth'.counts = auth.counts /\ auth'.sound = auth.sound
    BY <1>5 DEF AuthIs
  <2> QED
    BY <1>2, <1>4, <2>1, Zenon DEF AuthInv
<1>6. CASE auth' = AuthIs(auth.infos, built.table,
                          [auth.calls EXCEPT ![c] = AuthCall("sent", @.tag, <<>>)],
                          AuthCounted(built.headers),
                          auth.sound /\ AuthSound(AuthMethods[c], built.headers))
  <2>1. AuthSound(AuthMethods[c], built.headers)
    <3> SUFFICES ASSUME NEW g \in built.headers
        PROVE /\ g.made.count > auth.counts[g.made.wa.nonce]
              /\ g.made.wa.algorithm = "MD5" => \E k \in AuthFitting(g.made.wa.realm) :
                   /\ g.made.username = auth.infos[k].userid
                   /\ AuthVerifies(g.made, AuthMethods[c], auth.infos[k])
      BY Zenon DEF AuthSound
    <3> QED
      BY <1>2, Zenon DEF AuthFits
  <2>2. PICK T, K, N : /\ T = built.table /\ N = AuthCounted(built.headers)
                       /\ K = [auth.calls EXCEPT ![c] = AuthCall("sent", auth.calls[c].tag, <<>>)]
    OBVIOUS
  <2>3. PICK s : s = (auth.sound /\ AuthSound(AuthMethods[c], built.headers))
    OBVIOUS
  <2>4. auth'.infos = auth.infos /\ auth'.table = T /\ auth'.calls = K /\ auth'.counts = N
        /\ auth'.sound
    <3>1. auth' = AuthIs(auth.infos, T, K, N, s)
      BY <1>6, <2>2, <2>3, Zenon
    <3>2. auth'.infos = auth.infos /\ auth'.table = T /\ auth'.calls = K /\ auth'.counts = N
          /\ auth'.sound = s
      BY <3>1 DEF AuthIs
    <3>3. s
      BY <1>4, <2>1, <2>3, Zenon
    <3> QED
      BY <3>2, <3>3, Zenon
  <2>5. /\ \A d \in AuthCallIds : d # c => K[d] = auth.calls[d]
        /\ K[c].state = "sent" /\ K[c].challenge = <<>>
        /\ DOMAIN K = AuthCallIds
    <3>1. PICK y : y = AuthCall("sent", auth.calls[c].tag, <<>>)
      OBVIOUS
    <3>2. K = [auth.calls EXCEPT ![c] = y] /\ DOMAIN auth.calls = AuthCallIds
      BY <1>4, <2>2, <3>1 DEF AuthCalls
    <3>3. y.state = "sent" /\ y.challenge = <<>>
      BY <3>1 DEF AuthCall
    <3> QED
      BY <3>2, <3>3
  <2>6. K[c].challenge = <<>>
    BY <2>5
  <2>7. AuthCalls(K)
    <3>1. DOMAIN <<>> = 1..0 /\ Len(<<>>) = 0 /\ 0 \in Nat
      OBVIOUS
    <3>2. \E n \in Nat : DOMAIN K[c].challenge = 1..n /\ Len(K[c].challenge) = n
      BY <2>6, <3>1
    <3> QED
      BY <1>4, <2>5, <3>2 DEF AuthCalls
  <2>8. AuthWaiting(K, auth.counts) /\ AuthHolds(T, K, auth.counts)
    BY <1>2, <1>4, <2>2, <2>5, <2>6, <2>7, AuthCallsStep
  <2>9. /\ N \in Seq(Nat) /\ DOMAIN N = DOMAIN auth.counts
        /\ \A n \in DOMAIN auth.counts :
             \/ N[n] = auth.counts[n]
             \/ \E g \in built.headers : g.made.wa.nonce = n /\ N[n] = g.made.count
    <3>1. /\ \A g \in built.headers : g.made.count \in Nat
          /\ \A g, h \in built.headers :
               g.made.wa.nonce = h.made.wa.nonce => g.made.count = h.made.count
      BY <1>2 DEF AuthFits
    <3> QED
      BY <1>4, <2>2, <3>1, AuthCountedOnce
  <2>10. ASSUME NEW d \in AuthCallIds, NEW i \in DOMAIN K[d].challenge
         PROVE  /\ K[d].challenge[i].nonce \in DOMAIN N
                /\ N[K[d].challenge[i].nonce] = 0
    <3>1. d # c
      BY <2>6
    <3>2. K[d] = auth.calls[d]
      BY <2>5, <3>1
    <3>3. PICK n : n = K[d].challenge[i].nonce
      OBVIOUS
    <3>4. n \in DOMAIN auth.counts /\ auth.counts[n] = 0
      BY <2>8, <3>3 DEF AuthWaiting
    <3>5. \A g \in built.headers : g.made.wa.nonce # n
      BY <1>2, <3>1, <3>2, <3>3 DEF AuthFits
    <3> QED
      BY <2>9, <3>3, <3>4, <3>5
  <2>11. AuthWaiting(K, N)
    <3>1. /\ \A d \in AuthCallIds : K[d].state # "refused" => K[d].challenge = <<>>
          /\ \A a, d \in AuthCallIds : \A i \in DOMAIN K[a].challenge, j \in DOMAIN K[d].challenge :
               K[a].challenge[i].nonce = K[d].challenge[j].nonce => a = d /\ i = j
      BY <2>8, Zenon DEF AuthWaiting
    <3> QED
      BY <2>10, <3>1, Zenon DEF AuthWaiting
  <2>12. AuthAhead(T, N)
    <3> SUFFICES ASSUME NEW p \in AuthUsed(T)
        PROVE  /\ T[p].callid \in AuthCallIds /\ T[p].count \in Nat \ {0}
               /\ T[p].wa.nonce \in DOMAIN N /\ N[T[p].wa.nonce] <= T[p].count
      BY Zenon DEF AuthAhead
    <3>1. /\ T[p].callid \in AuthCallIds /\ T[p].count \in Nat \ {0}
          /\ T[p].wa.nonce \in DOMAIN auth.counts
          /\ auth.counts[T[p].wa.nonce] <= T[p].count
      BY <2>8 DEF AuthHolds, AuthAhead
    <3>2. \A g \in built.headers : g.made.wa.nonce = T[p].wa.nonce => g.made.count <= T[p].count
      BY <1>2, <2>2 DEF AuthFits
    <3> QED
      BY <2>9, <3>1, <3>2
  <2>13. AuthHolds(T, K, N)
    BY <2>8, <2>12 DEF AuthHolds
  <2> QED
    BY <1>4, <2>4, <2>7, <2>9, <2>11, <2>13, Zenon DEF AuthInv
<1> QED
  BY <1>3, <1>5, <1>6


(* The application changes its list.                                       *)
LEMMA AuthListedHolds ==
  ASSUME AuthInv, NEW infos \in Seq(AuthInfos), AuthListed(infos)
  PROVE  AuthInv'
<1>1. /\ auth'.infos = infos /\ auth'.table = auth.table /\ auth'.calls = auth.calls
      /\ auth'.counts = auth.counts /\ auth'.sound = auth.sound
  BY DEF AuthListed, AuthIs
<1> QED
  BY <1>1, Zenon DEF AuthInv

LEMMA AuthListHolds ==
  ASSUME AuthInv, \/ eXosip_add_authentication_info \/ eXosip_remove_authentication_info
                  \/ eXosip_clear_authentication_info
  PROVE  AuthInv'
<1>0. auth.infos \in Seq(AuthInfos)
  BY DEF AuthInv
<1>1. CASE eXosip_add_authentication_info
  <2>1. PICK info \in AuthInfos :
          AuthListed(IF info.passwd = "none" /\ info.ha1 = <<>> THEN auth.infos
                     ELSE <<info>> \o auth.infos)
    BY <1>1, Zenon DEF eXosip_add_authentication_info
  <2>2. <<info>> \o auth.infos \in Seq(AuthInfos)
    BY <1>0
  <2>3. AuthListed(auth.infos) \/ AuthListed(<<info>> \o auth.infos)
    BY <2>1, Zenon
  <2> QED
    BY <1>0, <2>2, <2>3, AuthListedHolds
<1>2. CASE eXosip_remove_authentication_info
  <2>0. \E m : AuthListed([i \in 1..(Len(auth.infos) - 1) |->
                             IF i < m THEN auth.infos[i] ELSE auth.infos[i + 1]])
    BY <1>2, Zenon DEF eXosip_remove_authentication_info
  <2>1. PICK m : AuthListed([i \in 1..(Len(auth.infos) - 1) |->
                               IF i < m THEN auth.infos[i] ELSE auth.infos[i + 1]])
    BY <2>0, Zenon
  <2>2. PICK n : n = Len(auth.infos) - 1
    OBVIOUS
  <2>3. PICK x : x = [i \in 1..n |-> IF i < m THEN auth.infos[i] ELSE auth.infos[i + 1]]
    OBVIOUS
  <2>4. Len(auth.infos) \in Nat /\ DOMAIN auth.infos = 1..Len(auth.infos)
    BY <1>0
  <2>5. x \in Seq(AuthInfos)
    <3>1. CASE n \in Nat
      <4>1. ASSUME NEW i \in 1..n
            PROVE  auth.infos[i] \in AuthInfos /\ auth.infos[i + 1] \in AuthInfos
        <5>1. i \in 1..Len(auth.infos) /\ i + 1 \in 1..Len(auth.infos)
          BY <2>2, <2>4, <3>1
        <5> QED
          BY <1>0, <5>1
      <4>2. x \in [1..n -> AuthInfos]
        BY <2>3, <4>1
      <4> QED
        BY <3>1, <4>2
    <3>2. CASE n \notin Nat
      <4>1. 1..n = {}
        BY <2>2, <2>4, <3>2
      <4>2. x = <<>>
        BY <2>3, <4>1
      <4> QED
        BY <4>2
    <3> QED
      BY <3>1, <3>2
  <2>6. AuthListed(x)
    BY <2>1, <2>2, <2>3, Zenon
  <2> QED
    BY <2>5, <2>6, AuthListedHolds
<1>3. CASE eXosip_clear_authentication_info
  <2>1. AuthListed(<<>>) /\ <<>> \in Seq(AuthInfos)
    BY <1>3 DEF eXosip_clear_authentication_info
  <2> QED
    BY <2>1, AuthListedHolds
<1> QED
  BY <1>1, <1>2, <1>3

(* What is given up for a Call-ID leaves a free place.                     *)
LEMMA AuthDeleteHolds ==
  ASSUME NEW t, NEW calls, NEW counts, AuthHolds(t, calls, counts), NEW c
  PROVE  AuthHolds(_eXosip_delete_nonce(t, c), calls, counts)
<1> DEFINE of == {p \in DOMAIN t : t[p].callid = c}
<1>1. AuthTyped(t) /\ AuthAhead(t, counts) /\ AuthOnce(t) /\ AuthExpected(t, calls)
  BY DEF AuthHolds
<1>2. CASE of = {}
  BY <1>2, Zenon DEF _eXosip_delete_nonce
<1>3. CASE of # {}
  <2>1. PICK p, new : p = Min(of) /\ new = [t EXCEPT ![p] = AuthFreeSlot]
    OBVIOUS
  <2>2. _eXosip_delete_nonce(t, c) = new
    BY <1>3, <2>1, Zenon DEF _eXosip_delete_nonce
  <2>3. t = [q \in 1..AuthSlots |-> t[q]]
    BY <1>1 DEF AuthTyped
  <2>4. DOMAIN t = 1..AuthSlots
    BY <2>3, Zenon
  <2>5. /\ DOMAIN new = 1..AuthSlots
        /\ \A q \in 1..AuthSlots : new[q] = t[q] \/ new[q] = AuthFreeSlot
    BY <2>1, <2>4
  <2>6. AuthFreeSlot.callid = "none" /\ AuthEntryOf(AuthFreeSlot)
    BY DEF AuthFreeSlot, AuthEntryOf
  <2>7. \A q \in AuthUsed(new) : q \in AuthUsed(t) /\ new[q] = t[q]
    BY <2>5, <2>6 DEF AuthUsed
  <2>8. AuthTyped(new)
    <3>1. new = [q \in 1..AuthSlots |-> new[q]]
      BY <2>1, <2>4
    <3>2. \A q \in 1..AuthSlots : AuthEntryOf(t[q])
      BY <1>1 DEF AuthTyped
    <3> QED
      BY <2>5, <2>6, <3>1, <3>2 DEF AuthTyped
  <2>9. AuthAhead(new, counts)
    BY <1>1, <2>7 DEF AuthAhead
  <2>10. AuthOnce(new)
    BY <1>1, <2>7 DEF AuthOnce
  <2>11. AuthExpected(new, calls)
    BY <1>1, <2>7 DEF AuthExpected
  <2> QED
    BY <2>2, <2>8, <2>9, <2>10, <2>11 DEF AuthHolds
<1> QED
  BY <1>2, <1>3

(* A Call-ID is accepted or given up: it waits for nothing.                *)
LEMMA AuthEndsWaiting ==
  ASSUME AuthInv, NEW c \in AuthCallIds, AuthAccepted(c) \/ AuthGone(c)
  PROVE  AuthInv'
<1>1. PICK T, K, s, tag :
        /\ auth' = AuthIs(auth.infos, T, K, auth.counts, auth.sound)
        /\ K = [auth.calls EXCEPT ![c] = AuthCall(s, tag, <<>>)]
        /\ T = auth.table \/ T = _eXosip_delete_nonce(auth.table, c)
  <2>1. CASE AuthAccepted(c)
    <3>1. auth' = AuthIs(auth.infos, auth.table,
                    [auth.calls EXCEPT ![c] = AuthCall("answered", TRUE, <<>>)],
                    auth.counts, auth.sound)
      BY <2>1, Zenon DEF AuthAccepted
    <3> QED
      BY <3>1, Zenon
  <2>2. CASE AuthGone(c)
    <3>1. auth' = AuthIs(auth.infos, _eXosip_delete_nonce(auth.table, c),
                    [auth.calls EXCEPT ![c] = AuthCall("gone", auth.calls[c].tag, <<>>)],
                    auth.counts, auth.sound)
      BY <2>2, Zenon DEF AuthGone
    <3> QED
      BY <3>1, Zenon
  <2> QED
    BY <2>1, <2>2
<1>2. /\ auth'.infos = auth.infos /\ auth'.table = T /\ auth'.calls = K
      /\ auth'.counts = auth.counts /\ auth'.sound = auth.sound
  BY <1>1 DEF AuthIs
<1>3. /\ AuthCalls(auth.calls) /\ AuthWaiting(auth.calls, auth.counts)
      /\ AuthHolds(auth.table, auth.calls, auth.counts)
  BY DEF AuthInv
<1>4. AuthHolds(T, auth.calls, auth.counts)
  BY <1>1, <1>3, AuthDeleteHolds
<1>5. PICK y : y = AuthCall(s, tag, <<>>)
  OBVIOUS
<1>6. /\ \A d \in AuthCallIds : d # c => K[d] = auth.calls[d]
      /\ K[c].challenge = <<>> /\ DOMAIN K = AuthCallIds
  <2>1. y.challenge = <<>>
    BY <1>5 DEF AuthCall
  <2>2. K = [auth.calls EXCEPT ![c] = y] /\ DOMAIN auth.calls = AuthCallIds
    BY <1>1, <1>3, <1>5 DEF AuthCalls
  <2> QED
    BY <2>1, <2>2
<1>7. AuthCalls(K)
  <2>1. DOMAIN <<>> = 1..0 /\ Len(<<>>) = 0 /\ 0 \in Nat
    OBVIOUS
  <2>2. \E n \in Nat : DOMAIN K[c].challenge = 1..n /\ Len(K[c].challenge) = n
    BY <1>6, <2>1
  <2> QED
    BY <1>3, <1>6, <2>2 DEF AuthCalls
<1>8. AuthWaiting(K, auth.counts) /\ AuthHolds(T, K, auth.counts)
  BY <1>3, <1>4, <1>6, <1>7, AuthCallsStep
<1> QED
  BY <1>2, <1>7, <1>8, Zenon DEF AuthInv

(* A server refuses, with nonces nobody has heard of.                      *)
LEMMA AuthRefusedHolds ==
  ASSUME AuthInv, NEW c \in AuthCallIds, AuthRefused(c)
  PROVE  AuthInv'
<1>0. /\ AuthCalls(auth.calls) /\ AuthWaiting(auth.calls, auth.counts)
      /\ AuthHolds(auth.table, auth.calls, auth.counts) /\ auth.counts \in Seq(Nat)
      /\ auth.calls[c].challenge = <<>>
  <2>1. auth.calls[c].state # "refused"
    BY DEF AuthRefused
  <2> QED
    BY <2>1 DEF AuthInv, AuthWaiting
<1>1. PICK ch \in AuthChallenges :
        auth' = AuthIs(auth.infos, auth.table,
                       [auth.calls EXCEPT ![c] = AuthCall("refused", auth.calls[c].tag, AuthGiven(ch))],
                       auth.counts \o [i \in DOMAIN ch |-> 0], auth.sound)
  BY Zenon DEF AuthRefused
<1>2. PICK n \in Nat : DOMAIN ch = 1..n
  <2>1. ch \in Seq({ch[i] : i \in DOMAIN ch})
    BY AuthAssumption
  <2>2. Len(ch) \in Nat /\ DOMAIN ch = 1..Len(ch)
    BY <2>1
  <2> QED
    BY <2>2
<1>3. PICK m \in Nat : DOMAIN auth.counts = 1..m /\ Len(auth.counts) = m
  <2>1. Len(auth.counts) \in Nat /\ DOMAIN auth.counts = 1..Len(auth.counts)
    BY <1>0
  <2> QED
    BY <2>1
<1>4. PICK K, N, Z, G :
        /\ Z = [i \in 1..n |-> 0] /\ N = auth.counts \o Z /\ G = AuthGiven(ch)
        /\ K = [auth.calls EXCEPT ![c] = AuthCall("refused", auth.calls[c].tag, G)]
  OBVIOUS
<1>5. /\ auth'.infos = auth.infos /\ auth'.table = auth.table /\ auth'.calls = K
      /\ auth'.counts = N /\ auth'.sound = auth.sound
  <2>1. auth' = AuthIs(auth.infos, auth.table, K, N, auth.sound)
    BY <1>1, <1>2, <1>4, Zenon
  <2> QED
    BY <2>1 DEF AuthIs
<1>6. /\ N \in Seq(Nat) /\ DOMAIN N = 1..(m + n)
      /\ \A i \in 1..m : N[i] = auth.counts[i]
      /\ \A i \in 1..n : N[m + i] = 0
  <2>1. Z \in Seq(Nat) /\ Len(Z) = n
    <3>1. Z \in [1..n -> Nat]
      BY <1>4
    <3> QED
      BY <3>1
  <2>2. /\ N \in Seq(Nat) /\ Len(N) = m + n
        /\ \A i \in 1..(m + n) : N[i] = IF i <= m THEN auth.counts[i] ELSE Z[i - m]
    <3>1. auth.counts \in Seq(Nat)
      BY <1>0, Zenon
    <3>2. /\ auth.counts \o Z \in Seq(Nat)
          /\ Len(auth.counts \o Z) = Len(auth.counts) + Len(Z)
          /\ \A i \in 1..(Len(auth.counts) + Len(Z)) :
               (auth.counts \o Z)[i] = IF i <= Len(auth.counts) THEN auth.counts[i]
                                       ELSE Z[i - Len(auth.counts)]
      BY <2>1, <3>1, ConcatProperties, Zenon
    <3> QED
      BY <1>3, <1>4, <2>1, <3>2
  <2>3. DOMAIN N = 1..(m + n)
    BY <2>2
  <2>4. ASSUME NEW i \in 1..m  PROVE N[i] = auth.counts[i]
    BY <2>2
  <2>5. ASSUME NEW i \in 1..n  PROVE N[m + i] = 0
    <3>1. m + i \in 1..(m + n) /\ ~(m + i <= m) /\ (m + i) - m = i
      OBVIOUS
    <3> QED
      BY <1>4, <2>2, <3>1
  <2> QED
    BY <2>2, <2>3, <2>4, <2>5
<1>7. /\ DOMAIN G = 1..n /\ Len(G) = n
      /\ \A i \in 1..n : G[i].nonce = m + i
  <2> DEFINE Given(i) == [nonce |-> Len(auth.counts) + i, realm |-> ch[i].realm, code |-> ch[i].code,
                          qop |-> ch[i].qop, type |-> ch[i].type, algorithm |-> ch[i].algorithm]
  <2>1. G = [i \in 1..n |-> Given(i)]
    BY <1>2, <1>4, Zenon DEF AuthGiven
  <2>2. \A i \in 1..n : Given(i).nonce = m + i
    BY <1>3
  <2> HIDE DEF Given
  <2>3. DOMAIN G = 1..n /\ \A i \in 1..n : G[i] = Given(i)
    BY <2>1
  <2>4. Len(G) = n
    <3>1. PICK S : S = {Given(i) : i \in 1..n}
      OBVIOUS
    <3>2. G \in [1..n -> S]
      BY <2>1, <3>1
    <3> QED
      BY <3>2
  <2> QED
    BY <2>2, <2>3, <2>4
<1>8. /\ \A d \in AuthCallIds : d # c => K[d] = auth.calls[d]
      /\ K[c].state = "refused" /\ K[c].challenge = G /\ DOMAIN K = AuthCallIds
  <2>1. PICK y : y = AuthCall("refused", auth.calls[c].tag, G)
    OBVIOUS
  <2>2. y.state = "refused" /\ y.challenge = G
    BY <2>1 DEF AuthCall
  <2>3. K = [auth.calls EXCEPT ![c] = y] /\ DOMAIN auth.calls = AuthCallIds
    BY <1>0, <1>4, <2>1 DEF AuthCalls
  <2> QED
    BY <2>2, <2>3
<1>9. AuthCalls(K)
  BY <1>0, <1>7, <1>8 DEF AuthCalls
(* The nonces of others are older. *)
<1>10. ASSUME NEW d \in AuthCallIds, d # c, NEW i \in DOMAIN K[d].challenge
       PROVE  /\ i \in DOMAIN auth.calls[d].challenge
              /\ K[d].challenge[i] = auth.calls[d].challenge[i]
              /\ K[d].challenge[i].nonce \in 1..m
              /\ N[K[d].challenge[i].nonce] = 0
  <2>1. K[d] = auth.calls[d]
    BY <1>8, <1>10
  <2>2. /\ auth.calls[d].challenge[i].nonce \in DOMAIN auth.counts
        /\ auth.counts[auth.calls[d].challenge[i].nonce] = 0
    BY <1>0, <2>1 DEF AuthWaiting
  <2> QED
    BY <1>3, <1>6, <2>1, <2>2
<1>11. ASSUME NEW i \in DOMAIN K[c].challenge
       PROVE  /\ i \in 1..n /\ K[c].challenge[i].nonce = m + i
              /\ N[K[c].challenge[i].nonce] = 0
  BY <1>6, <1>7, <1>8
<1>12. AuthWaiting(K, N)
  <2>1. \A d \in AuthCallIds : K[d].state # "refused" => K[d].challenge = <<>>
    BY <1>0, <1>8 DEF AuthWaiting
  <2>2. ASSUME NEW d \in AuthCallIds, NEW i \in DOMAIN K[d].challenge
        PROVE  K[d].challenge[i].nonce \in DOMAIN N /\ N[K[d].challenge[i].nonce] = 0
    <3>1. CASE d = c
      BY <1>6, <1>11, <3>1
    <3>2. CASE d # c
      BY <1>6, <1>10, <3>2
    <3> QED
      BY <3>1, <3>2
  <2>3. ASSUME NEW a \in AuthCallIds, NEW d \in AuthCallIds,
               NEW i \in DOMAIN K[a].challenge, NEW j \in DOMAIN K[d].challenge,
               K[a].challenge[i].nonce = K[d].challenge[j].nonce
        PROVE  a = d /\ i = j
    <3>1. CASE a = c /\ d = c
      BY <1>11, <2>3, <3>1
    <3>2. CASE a = c /\ d # c
      BY <1>10, <1>11, <2>3, <3>2
    <3>3. CASE a # c /\ d = c
      BY <1>10, <1>11, <2>3, <3>3
    <3>4. CASE a # c /\ d # c
      <4>1. auth.calls[a].challenge[i].nonce = auth.calls[d].challenge[j].nonce
        BY <1>10, <2>3, <3>4
      <4> QED
        BY <1>0, <1>10, <3>4, <4>1 DEF AuthWaiting
    <3> QED
      BY <3>1, <3>2, <3>3, <3>4
  <2> QED
    BY <2>1, <2>2, <2>3, Zenon DEF AuthWaiting
<1>13. AuthHolds(auth.table, K, N)
  <2>1. AuthTyped(auth.table) /\ AuthOnce(auth.table) /\ AuthAhead(auth.table, auth.counts)
        /\ AuthExpected(auth.table, auth.calls)
    BY <1>0 DEF AuthHolds
  <2>2. \A p \in AuthUsed(auth.table) : auth.table[p].wa.nonce \in 1..m
    BY <1>3, <2>1 DEF AuthAhead
  <2>3. AuthAhead(auth.table, N)
    <3> SUFFICES ASSUME NEW p \in AuthUsed(auth.table)
        PROVE  /\ auth.table[p].callid \in AuthCallIds
               /\ auth.table[p].count \in Nat \ {0}
               /\ auth.table[p].wa.nonce \in DOMAIN N
               /\ N[auth.table[p].wa.nonce] <= auth.table[p].count
      BY Zenon DEF AuthAhead
    <3>1. /\ auth.table[p].callid \in AuthCallIds
          /\ auth.table[p].count \in Nat \ {0}
          /\ auth.counts[auth.table[p].wa.nonce] <= auth.table[p].count
      BY <2>1, Zenon DEF AuthAhead
    <3>2. PICK k : k = auth.table[p].wa.nonce
      OBVIOUS
    <3>3. k \in DOMAIN N /\ N[k] = auth.counts[k]
      <4>1. k \in 1..m
        BY <2>2, <3>2, Zenon
      <4>2. k \in 1..(m + n)
        BY <1>2, <1>3, <4>1
      <4> QED
        BY <1>6, <4>1, <4>2, Zenon
    <3> QED
      BY <3>1, <3>2, <3>3, Zenon
  <2>4. ASSUME NEW p \in AuthUsed(auth.table), NEW d \in AuthCallIds,
               NEW i \in DOMAIN K[d].challenge,
               auth.table[p].wa.nonce = K[d].challenge[i].nonce
        PROVE  auth.table[p].callid = d /\ auth.table[p].wa.realm = K[d].challenge[i].realm
    <3>1. CASE d = c
      BY <1>11, <2>2, <2>4, <3>1
    <3>2. CASE d # c
      BY <1>10, <2>1, <2>4, <3>2 DEF AuthExpected
    <3> QED
      BY <3>1, <3>2
  <2>5. AuthExpected(auth.table, K)
    BY <2>4, Zenon DEF AuthExpected
  <2> QED
    BY <2>1, <2>3, <2>5 DEF AuthHolds
<1> QED
  BY <1>5, <1>6, <1>9, <1>12, <1>13, Zenon DEF AuthInv

(* No step uses a nonce twice.                                             *)
LEMMA AuthStep == AuthInv /\ [AuthNext]_auth => AuthInv'
<1> SUFFICES ASSUME AuthInv, [AuthNext]_auth PROVE AuthInv'
  OBVIOUS
<1>1. CASE UNCHANGED auth
  BY <1>1, Zenon DEF AuthInv
<1>2. CASE \/ eXosip_add_authentication_info \/ eXosip_remove_authentication_info
           \/ eXosip_clear_authentication_info
  BY <1>2, AuthListHolds
<1>3. ASSUME NEW c \in AuthCallIds, AuthRequest(c)  PROVE AuthInv'
  <2>1. AuthSends(c, <<>>) /\ auth.calls[c].challenge = <<>>
    BY <1>3 DEF AuthRequest, AuthInv, AuthWaiting
  <2> QED
    BY <2>1, AuthSendsOne
<1>4. ASSUME NEW c \in AuthCallIds, AuthRetry(c)  PROVE AuthInv'
  <2>1. PICK ch : ch = auth.calls[c].challenge
    OBVIOUS
  <2>2. AuthSends(c, ch)
    BY <1>4, <2>1, Zenon DEF AuthRetry
  <2> QED
    BY <2>1, <2>2, AuthSendsOne
<1>5. ASSUME NEW c \in AuthCallIds, AuthAccepted(c) \/ AuthGone(c)  PROVE AuthInv'
  BY <1>5, AuthEndsWaiting
<1>6. ASSUME NEW c \in AuthCallIds, AuthRefused(c)  PROVE AuthInv'
  BY <1>6, AuthRefusedHolds
<1> QED
  BY <1>1, <1>2, <1>3, <1>4, <1>5, <1>6, Zenon DEF AuthNext

(* Servers that make a nonce for every challenge never see a count of it   *)
(* twice, and what they compute from a header is its response, for any     *)
(* credentials, challenges, Call-IDs, methods and places of the table.     *)
THEOREM AuthNonceNeverReplayed == AuthSpec => []AuthNeverReplayed
<1>1. AuthInv => AuthNeverReplayed
  BY DEF AuthInv, AuthNeverReplayed
<1> QED
  BY <1>1, AuthInvInitially, AuthStep, PTL DEF AuthSpec
=============================================================================
