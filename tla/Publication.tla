---------------------------- MODULE Publication -----------------------------
(***************************************************************************)
(* One publication of eXosip (eXpublish_api.c, jpublish.c and the parts of *)
(* eXosip.c, jcallback.c and udp.c about PUBLISH) and the server that      *)
(* keeps what was published under entity tags.  eXosip_publish does not    *)
(* wait for the answer to the last PUBLISH: older ones may be answered     *)
(* late and out of order.                                                  *)
(***************************************************************************)
EXTENDS Integers, FiniteSets, FiniteSetsExt

CONSTANTS PubPeriods,  \* expiration delays the application asks for
          PubMinExpires,
          PubAges,     \* ages at which the clock stops
          PubMaxEtags, \* bound: entity tags the server hands out
          PubMaxSent   \* bound: PUBLISH requests

ASSUME PubAssumption ==
  PubPeriods \subseteq Nat /\ PubAges \subseteq Nat /\ {PubMinExpires, PubMaxEtags} \subseteq Nat

VARIABLE pub

PubNoTr == [state |-> "NONE", resp |-> "none", match |-> 0, expires |-> 0, id |-> 0]

(* entities: what the server keeps; issued: the tags it has handed out.    *)
PubInit ==
  pub = [state |-> "none", period |-> 0, etag |-> 0, retry |-> 0, tr |-> PubNoTr, age |-> 0,
         old |-> {}, sent |-> 0, entities |-> {}, issued |-> 0]

PubWaiting(t)  == t.state \in {"TRYING", "PROCEEDING"}
PubGarbage(p)  == IF PubWaiting(p.tr) THEN p.old \cup {p.tr} ELSE p.old

PubTransmit(p, match, expires) ==
  [p EXCEPT !.old = PubGarbage(p), !.age = 0, !.sent = @ + 1,
            !.tr = [state |-> "TRYING", resp |-> "none", match |-> match,
                    expires |-> expires, id |-> p.sent + 1]]

(* A PUBLISH of the application; a new context asks for an Expires. *)
eXosip_publish ==
  /\ pub.state # "removed"
  /\ \E e \in PubPeriods :
       /\ pub.state = "none" => e > 0
       /\ pub' = PubTransmit([pub EXCEPT !.state = "live", !.period = e], pub.etag, e)

-----------------------------------------------------------------------------
(* The request is repeated as it was; without a response there is nothing  *)
(* the refresh could do.                                                   *)
PubRefresh(p) ==
  CASE p.tr.resp \in {"none", "423bare"} -> p
    [] p.tr.resp = "412" -> PubTransmit(p, 0, p.tr.expires)
    [] p.tr.resp = "423" -> PubTransmit(p, p.tr.match, PubMinExpires)
    [] OTHER -> PubTransmit(p, p.tr.match, p.tr.expires)

PubRetryWithAuth(p) == PubTransmit(p, p.tr.match, p.tr.expires)

PubRefreshIsDue ==
  /\ pub.period # 0
  /\ \/ pub.age > 900
     \/ pub.age > pub.period - (pub.period \div 10)
     \/ pub.age > 120 /\ pub.tr.resp # "2xx"

PubAutomaticAction ==
  /\ pub.state = "live"
  /\ \/ PubRefreshIsDue /\ pub' = PubRefresh(pub)
     \/ /\ ~PubRefreshIsDue /\ pub.age < 120
        /\ \/ /\ pub.tr.resp = "401" /\ pub.retry < 3
              /\ pub' = [PubRetryWithAuth(pub) EXCEPT !.retry = @ + 1]
           \/ pub.tr.resp \in {"412", "423", "423bare"} /\ pub' = PubRefresh(pub)

(* The default action repeats without counting. *)
PubDefaultAction ==
  /\ pub.state = "live" /\ pub.tr.resp = "401"
  /\ pub' = PubRetryWithAuth(pub)

-----------------------------------------------------------------------------
(* The server: a PUBLISH with a tag replaces or removes that entity, one   *)
(* without a tag makes a new entity.                                       *)
PubKnows(t) == t.match = 0 \/ t.match \in pub.entities

PubServe(t) ==
  LET kept == pub.entities \ {t.match}
  IN  IF t.expires = 0 THEN kept ELSE kept \cup {pub.issued + 1}

(* The tag of a 2xx is kept if it answers the last PUBLISH. *)
PubUpdateOnce(p, t, tag) == IF p.etag # 0 THEN p ELSE [p EXCEPT !.etag = tag]
PubUpdate(p, t, tag) == [p EXCEPT !.etag = tag]

PubFinal(p, t, resp) ==
  IF t = p.tr THEN [p EXCEPT !.tr.state = "COMPLETED", !.tr.resp = resp]
  ELSE [p EXCEPT !.old = @ \ {t}]

PubSuccess(t) ==
  /\ PubKnows(t) /\ pub.issued < PubMaxEtags
  /\ \E e \in PubPeriods :
       LET p == [PubFinal(pub, t, "2xx") EXCEPT !.entities = PubServe(t), !.issued = @ + 1]
       IN  pub' = IF t # pub.tr THEN p
                  ELSE [PubUpdate(p, t, pub.issued + 1) EXCEPT
                          !.retry = 0,
                          !.period = IF e > 0 /\ e < @ - 15 THEN e ELSE @]

PubRefused(t) ==
  \E resp \in {"401", "423", "423bare", "failure"} \cup (IF PubKnows(t) THEN {} ELSE {"412"}) :
    pub' = PubFinal(pub, t, resp)

PubProvisional == /\ pub.tr.state = "TRYING"
                  /\ pub' = [pub EXCEPT !.tr.state = "PROCEEDING", !.tr.resp = "1xx"]

(* Timer F: the transaction is over, what it answered last stays. *)
PubTimeout(t) ==
  pub' = IF t = pub.tr THEN [pub EXCEPT !.tr.state = "TERMINATED"] ELSE [pub EXCEPT !.old = @ \ {t}]

PubAnswer == \E t \in PubGarbage(pub) : PubSuccess(t) \/ PubRefused(t) \/ PubTimeout(t)

(* _eXosip_release_terminated_publications *)
PubRelease ==
  /\ pub.state = "live" /\ pub.period = 0
  /\ pub.age > 75 \/ pub.tr.resp = "2xx"
  /\ pub' = [pub EXCEPT !.state = "removed", !.tr = PubNoTr, !.old = PubGarbage(pub)]

PubTick ==
  LET later == {a \in PubAges : a > pub.age}
  IN  /\ later # {} /\ pub.tr.state # "NONE"
      /\ PubWaiting(pub.tr) => Min(later) <= 32
      /\ pub' = [pub EXCEPT !.age = Min(later)]

PubNext ==
  \/ pub.sent < PubMaxSent /\ (eXosip_publish \/ PubAutomaticAction \/ PubDefaultAction)
  \/ PubAnswer
  \/ PubProvisional
  \/ PubRelease
  \/ PubTick

PubSpec == PubInit /\ [][PubNext]_pub

-----------------------------------------------------------------------------
PubTypeOK ==
  /\ pub.state \in {"none", "live", "removed"}
  /\ pub.etag \in 0..pub.issued /\ pub.entities \subseteq 1..pub.issued
  /\ pub.retry \in 0..3

(* When the last PUBLISH was accepted, the tag eXosip keeps for the next   *)
(* one is a tag the server knows, however the answers to older ones, the   *)
(* refreshes and the repetitions were ordered.  The refresh and the        *)
(* repetition name the tag of their last transaction (pub.tr.match), of    *)
(* which this says nothing.                                                *)
PublicationKept ==
  /\ PubTypeOK
  /\ (pub.state = "live" /\ pub.tr.resp = "2xx" /\ pub.tr.expires > 0)
       => pub.etag \in pub.entities
=============================================================================
