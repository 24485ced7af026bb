--------------------------- MODULE TransactionList --------------------------
(***************************************************************************)
(* The lists of an osip_t (osip.c): how a message finds its transaction    *)
(* (osip_transaction.c), how long the stack may sleep, and the             *)
(* retransmissions of 2xx and ACK.  What the machines do is in Ict, Ist,   *)
(* Nict and Nist; here a transaction is what identifies it, its state and  *)
(* the time left on its timers.                                            *)
(***************************************************************************)
EXTENDS Integers, FiniteSets

CONSTANTS TlRequests,   \* what other ends send
          TlLive,       \* transactions that exist at once
          TlMade,       \* transactions ever made
          TlTimed,      \* those whose timers are looked at
          TlTime,       \* the longest timer
          TlDialogs,
          TlStarts,     \* 2xx and ACK of a dialog that are repeated
          TlCounter     \* copies of each

(* client: the transaction of the other end that sent it; host, port: the  *)
(* sent-by of the topmost Via; branches begin with z9hG4bK in TlCookies.   *)
TlCookies == {"z1", "z2"}
ASSUME TlAssumption ==
  /\ \A m \in TlRequests : DOMAIN m = {"client", "method", "branch", "host", "port",
                                       "call", "from", "to", "cseq"}
  /\ {TlLive, TlMade, TlTimed, TlTime, TlStarts, TlCounter} \subseteq Nat \ {0}

VARIABLE osip

(* A list of transactions is filled at its end, so its order is that of    *)
(* the identifiers.  uses: a program that only exchanges messages, or      *)
(* looks at timers, or lets the library repeat its 2xx and ACK.            *)
TlKinds == {"ICT", "IST", "NICT", "NIST"}
TlInit  == \E uses \in {"messages", "timers", "ixt"} :
  osip = [uses |-> uses, transactions |-> {}, id |-> 1, requests |-> {},
          late |-> FALSE, ixt |-> {}, dialogs |-> TlDialogs, acked |-> {},
          started |-> [d \in TlDialogs |-> 0]]

TlList(kind) == {t \in osip.transactions : t.kind = kind}

-----------------------------------------------------------------------------
(* The port of a sent-by is 5060 where none is given. *)
TlPort(m) == IF m.port = "none" THEN "5060" ELSE m.port
(* Two requests have the same branch, sent-by and method only when one     *)
(* client sent both, one being a copy of the other or its ACK; where the   *)
(* branch is of no use, when they have the same Call-ID, From and CSeq too.*)
TlSameTransaction(o, m) ==
  /\ <<o.branch, o.host, TlPort(o)>> = <<m.branch, m.host, TlPort(m)>>
  /\ o.method = m.method \/ <<o.method, m.method>> = <<"INVITE", "ACK">>
  /\ o.branch \notin TlCookies => <<o.call, o.from, o.cseq>> = <<m.call, m.from, m.cseq>>
TlSameText(o, m) ==
  o.port = m.port /\ (o.to = m.to \/ (m.method = "ACK" /\ o.to = "none"))
ASSUME TlClients ==
  \A o, m \in TlRequests : o.method # "ACK" =>
    /\ o.client = m.client <=> TlSameTransaction(o, m)
    /\ TlSameTransaction(o, m) /\ o.branch \notin TlCookies => TlSameText(o, m)
TlSentByPort(o, m) == TlPort(o) = TlPort(m)
TlSentBy(o, m) == o.host = m.host /\ TlPort(o) = TlPort(m)
osip_cseq_match(o, m) ==
  o.cseq = m.cseq /\ ({o.method, m.method} \subseteq {"INVITE", "ACK"} \/ o.method = m.method)
TlOldMatch(o, m) ==
  /\ o.call = m.call /\ o.from = m.from /\ osip_cseq_match(o, m)
  /\ o.to = m.to \/ (m.method = "ACK" /\ o.to = "none")
  /\ <<o.host, o.port, o.branch>> = <<m.host, m.port, m.branch>>
__osip_transaction_matching_request_osip_to_xist_17_2_3(o, m) ==
  IF {o.branch, m.branch} \subseteq TlCookies
  THEN /\ o.branch = m.branch /\ TlSentBy(o, m)
       /\ o.method = m.method \/ (o.method = "INVITE" /\ m.method = "ACK")
  ELSE (o.branch = "none" <=> m.branch = "none") /\ TlOldMatch(o, m)
__osip_transaction_matching_response_osip_to_xict_17_1_3(o, m) ==
  o.branch = m.branch /\ o.method = m.method

(* The transactions of a list that match, and the first of them. *)
osip_transaction_find(kind, m) ==
  {t \in TlList(kind) :
    IF kind \in {"IST", "NIST"}
    THEN __osip_transaction_matching_request_osip_to_xist_17_2_3(t.request, m)
    ELSE __osip_transaction_matching_response_osip_to_xict_17_1_3(t.request, m)}
TlFirst(t, found) == t \in found /\ \A u \in found : t.id <= u.id

osip_transaction_init(kind, request) ==
  [id |-> osip.id, request |-> request, heard |-> {request.client}, state |-> "first",
   left |-> [x \in {} |-> 0], queued |-> FALSE, kind |-> kind]
(* __osip_add_ict and the other three. *)
TlAdd(kind, request) ==
  /\ Cardinality(osip.transactions) < TlLive /\ osip.id <= TlMade
  /\ osip' = [osip EXCEPT !.id = @ + 1,
                !.transactions = @ \cup {osip_transaction_init(kind, request)},
                !.requests = IF kind \in {"ICT", "NICT"} THEN @ \cup {request} ELSE @]
(* __osip_remove_ict_transaction and the other three. *)
TlWithout(t) == osip.transactions \ {t}
TlHears(t, client) ==
  osip' = [osip EXCEPT !.transactions = TlWithout(t) \cup {[t EXCEPT !.heard = @ \cup {client}]}]

(* An ACK makes no transaction. *)
osip_find_transaction_and_add_event(kind, m) ==
  \E t \in osip.transactions : TlFirst(t, osip_transaction_find(kind, m)) /\ TlHears(t, m.client)
osip_create_transaction(kind, m) ==
  osip_transaction_find(kind, m) = {} /\ m.method # "ACK" /\ TlAdd(kind, m)
TlReceives == \E m \in TlRequests :
  LET kind == IF m.method \in {"INVITE", "ACK"} THEN "IST" ELSE "NIST"
  IN  osip_find_transaction_and_add_event(kind, m) \/ osip_create_transaction(kind, m)

(* What leaves here has a branch of its own, except the CANCEL of an       *)
(* INVITE, of which there is one.  A response may come late, or be a copy. *)
TlSends == \E method \in {"INVITE", "OPTIONS"} :
  TlAdd(IF method = "INVITE" THEN "ICT" ELSE "NICT",
        [client |-> osip.id, method |-> method, branch |-> osip.id])
TlCancels == \E t \in TlList("ICT") :
  /\ \A m \in osip.requests : m.branch = t.request.branch => m.method = "INVITE"
  /\ TlAdd("NICT", [client |-> osip.id, method |-> "CANCEL", branch |-> t.request.branch])
TlAnswered == \E m \in osip.requests :
  osip_find_transaction_and_add_event(IF m.method = "INVITE" THEN "ICT" ELSE "NICT", m)

osip_remove_transaction == \E t \in osip.transactions :
  osip' = [osip EXCEPT !.transactions = TlWithout(t)]

-----------------------------------------------------------------------------
(* The timers that are armed, and fire, in the states of the machines.     *)
TlArmed(kind, state) ==
  CASE kind = "ICT" /\ state = "calling"                  -> {"A", "B"}
    [] kind = "ICT" /\ state = "completed"                -> {"D"}
    [] kind = "IST" /\ state = "completed"                -> {"G", "H"}
    [] kind = "IST" /\ state = "confirmed"                -> {"I"}
    [] kind = "NICT" /\ state \in {"trying", "proceeding"} -> {"E", "F"}
    [] kind = "NICT" /\ state = "completed"               -> {"K"}
    [] kind = "NIST" /\ state = "completed"               -> {"J"}
    [] OTHER                                              -> {}
TlStates == {"calling", "trying", "proceeding", "completed", "confirmed"}

TlBegins == osip.id <= TlTimed /\ \E kind \in TlKinds :
  TlAdd(kind, [client |-> osip.id, method |-> "OPTIONS", branch |-> osip.id])
TlMoves == \E t \in osip.transactions : \E state \in TlStates : \E queued \in BOOLEAN :
  \E left \in [TlArmed(t.kind, state) -> 0..TlTime] :
    osip' = [osip EXCEPT !.transactions = TlWithout(t) \cup
               {[t EXCEPT !.state = state, !.left = left, !.queued = queued]}]

(* The timers that are looked at when the stack goes to sleep; only in the *)
(* list of INVITE client transactions it sees events that wait.            *)
TlLooksAt(t) ==
  CASE t.kind = "ICT" /\ t.state = "calling"                  -> {"B", "A"}
    [] t.kind = "ICT" /\ t.state = "completed"                -> {"D"}
    [] t.kind = "IST" /\ t.state = "confirmed"                -> {"I"}
    [] t.kind = "IST" /\ t.state = "completed"                -> {"H", "G"}
    [] t.kind = "NICT" /\ t.state = "completed"               -> {"K"}
    [] t.kind = "NICT" /\ t.state \in {"proceeding", "trying"} -> {"F", "E"}
    [] t.kind = "NIST" /\ t.state = "completed"               -> {"J"}
    [] OTHER                                                  -> {}
osip_timers_gettimeout ==
  IF \E t \in TlList("ICT") : t.queued THEN {0}
  ELSE (UNION {{t.left[x] : x \in TlLooksAt(t)} : t \in osip.transactions})
       \cup {x.left : x \in osip.ixt}

TlRests(t, slept) == [t EXCEPT !.left = [x \in DOMAIN @ |-> @[x] - slept]]
TlSleeps == \E slept \in osip_timers_gettimeout :
  /\ slept > 0 /\ \A left \in osip_timers_gettimeout : slept <= left
  /\ osip' = [osip EXCEPT
       !.transactions = {TlRests(t, slept) : t \in @},
       !.ixt = {[x EXCEPT !.left = @ - slept] : x \in @},
       !.late = \/ \E t \in osip.transactions : \E x \in TlArmed(t.kind, t.state) : t.left[x] < slept
                \/ \E x \in osip.ixt : x.left < slept]

-----------------------------------------------------------------------------
(* osip_start_200ok_retransmissions and osip_start_ack_retransmissions put *)
(* it in front: of what is repeated for a dialog, the last that was        *)
(* started comes first.                                                    *)
ixt_init(d) == [dialog |-> d, nth |-> osip.started[d] + 1, counter |-> TlCounter, left |-> 1]
TlStartsIxt == \E d \in osip.dialogs :
  /\ osip.started[d] < TlStarts
  /\ osip' = [osip EXCEPT !.ixt = @ \cup {ixt_init(d)}, !.started[d] = @ + 1]

(* The first of the dialog, whatever it repeats. *)
osip_stop_200ok_retransmissions == \E x \in osip.ixt :
  /\ \A y \in osip.ixt : y.dialog = x.dialog => y.nth <= x.nth
  /\ osip' = [osip EXCEPT !.ixt = @ \ {x}, !.acked = @ \cup {x.dialog}]

(* The program ends a dialog, and what is repeated for it, as the comment  *)
(* says.                                                                   *)
osip_stop_retransmissions_from_dialog == \E d \in osip.dialogs :
  osip' = [osip EXCEPT !.ixt = {x \in @ : x.dialog # d}, !.dialogs = @ \ {d}]

ixt_retransmit(x) == [x EXCEPT !.counter = @ - 1, !.left = TlTime]
osip_retransmissions_execute == \E due \in SUBSET {x \in osip.ixt : x.left = 0} :
  /\ due # {}
  /\ osip' = [osip EXCEPT !.ixt =
       {x \in (@ \ due) \cup {ixt_retransmit(x) : x \in due} : x.counter # 0}]

TlNext ==
  \/ osip.uses = "messages" /\ (TlReceives \/ TlSends \/ TlCancels \/ TlAnswered
                                \/ osip_remove_transaction)
  \/ osip.uses = "timers" /\ (TlBegins \/ TlMoves \/ TlSleeps)
  \/ osip.uses = "ixt" /\ (TlStartsIxt \/ osip_stop_200ok_retransmissions \/ TlSleeps
                           \/ osip_stop_retransmissions_from_dialog \/ osip_retransmissions_execute)

TlSpec == TlInit /\ [][TlNext]_osip

-----------------------------------------------------------------------------
(* A message goes to the transaction of the client that sent it and to no  *)
(* other, also when two clients chose the same branch, and no client has   *)
(* two transactions: the client of an ACK or of a copy is that of the      *)
(* request before.                                                         *)
TlOneOwner ==
  /\ \A t \in osip.transactions : t.heard = {t.request.client}
  /\ \A k \in TlKinds : \A t, u \in TlList(k) :
       t.request.client = u.request.client => t.id = u.id

(* A dialog that ended is not used; what is repeated has copies left; and  *)
(* the ACK stops the 2xx when nothing else of its dialog was repeated.     *)
TlRepeats ==
  \A x \in osip.ixt :
    /\ x.dialog \in osip.dialogs /\ x.counter \in 1..TlCounter
    /\ osip.started[x.dialog] = 1 => x.dialog \notin osip.acked

(* Messages find their transactions, the stack never sleeps past a timer   *)
(* that one of the machines waits for, and repetitions end.                *)
ListsKept == TlOneOwner /\ ~osip.late /\ TlRepeats
=============================================================================
