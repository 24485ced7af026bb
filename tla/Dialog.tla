------------------------------- MODULE Dialog -------------------------------
(***************************************************************************)
(* The dialogs of one call (osip_dialog.c), the requests and answers that  *)
(* are built from them (jrequest.c, jresponse.c), and what an answer or a  *)
(* request makes of them (jcallback.c, udp.c).  Proxies between the ends   *)
(* record the route; the INVITE may be forked; the network loses, copies   *)
(* and reorders whatever is on the wire.                                   *)
(***************************************************************************)
EXTENDS Integers, SequencesExt

CONSTANTS DlgChains,        \* proxies from the caller on: [lr, rr]
          DlgForks,         \* ends the INVITE may reach
          DlgMaxSent,       \* bound: requests within dialogs
          DlgMaxMoves       \* bound: addresses of an end after the first

ASSUME DlgAssumption ==
  /\ {DlgMaxSent, DlgMaxMoves} \subseteq Nat
  /\ {"caller", ""} \cap DlgForks = {}

VARIABLE dlg

DlgEnds     == {"caller"} \cup DlgForks
DlgProxy(i) == <<"proxy", i>>
DlgNone == [state |-> "NONE", local |-> "", remote |-> "", lcseq |-> 0, rcseq |-> 0,
            route |-> <<>>, target |-> <<>>]

(* dialogs: d_dialog of the one dialog of every end; address: how often an *)
(* end has moved; answered: the caller's INVITE got its 2xx; replaced: the *)
(* caller's dialog gave way to that of another end; wire: all that was     *)
(* ever sent, read in any order and any number of times.                   *)
DlgInit ==
  \E chain \in DlgChains :
    dlg = [chain |-> chain, dialogs |-> [e \in DlgEnds |-> DlgNone],
           address |-> [e \in DlgEnds |-> 0], answered |-> FALSE,
           replaced |-> FALSE, wire |-> {}, sent |-> 0]

-----------------------------------------------------------------------------
(* A request on its way.  Who sends it looks at the first Route: a loose   *)
(* router is the next hop, otherwise the request URI is.  A loose router   *)
(* takes itself off the Route; a strict one makes the first Route the      *)
(* request URI, and the router before it provides for that.                *)
DlgIsProxy(uri)  == uri[1] = "proxy"
DlgIsLoose(uri)  == DlgIsProxy(uri) /\ dlg.chain[uri[2]].lr
DlgNextHop(r)    == IF r.route # <<>> /\ DlgIsLoose(Head(r.route)) THEN Head(r.route) ELSE r.uri
DlgOnward(r)     ==
  IF r.route = <<>> THEN [r EXCEPT !.next = r.uri]
  ELSE IF DlgIsLoose(Head(r.route)) THEN [r EXCEPT !.next = Head(r.route)]
  ELSE [r EXCEPT !.uri = Head(r.route), !.route = Append(Tail(r.route), r.uri),
                 !.next = Head(r.route)]
DlgPopped(r)     == [r EXCEPT !.uri = Head(r.route), !.route = Tail(r.route), !.next = Head(r.route)]
DlgThrough(r, hop) ==
  IF ~DlgIsLoose(hop) THEN IF r.route = <<>> THEN r ELSE DlgPopped(r)
  ELSE LET mine == IF r.uri = hop /\ r.route # <<>>
                   THEN [r EXCEPT !.uri = Last(r.route), !.route = Front(r.route)] ELSE r
           rest == IF mine.route # <<>> /\ Head(mine.route) = hop
                   THEN [mine EXCEPT !.route = Tail(mine.route)] ELSE mine
       IN  DlgOnward(rest)
DlgHop(r, i) ==
  LET there == [r EXCEPT !.path = Append(@, r.next)]
  IN  IF r.path # <<>> /\ ~DlgIsProxy(Last(r.path)) THEN r
      ELSE IF DlgIsProxy(r.next) THEN DlgThrough(there, r.next) ELSE there
DlgTravels(r) ==
  FoldLeft(DlgHop, [uri |-> r.uri, route |-> r.route, next |-> DlgNextHop(r), path |-> <<>>],
           [i \in 1 .. 2 * Len(dlg.chain) + 2 |-> i]).path

(* The routers that stay on the way, as a request towards the forks or     *)
(* towards the caller meets them.                                          *)
DlgRecording(chain) == SelectSeq([i \in DOMAIN chain |-> DlgProxy(i)],
                                 LAMBDA p : chain[p[2]].rr)
DlgRouters     == DlgRecording(dlg.chain)
DlgReversed(s) == Reverse(s)
DlgWay(sender) == IF sender = "caller" THEN DlgRouters ELSE DlgReversed(DlgRouters)

-----------------------------------------------------------------------------
(* __osip_dialog_init: the routers of the answer in its order at the end   *)
(* that was called, and reversed at the one that called.                   *)
DlgMade(code, local, remote, cseq, route, target) ==
  [state |-> IF code = 200 THEN "CONFIRMED" ELSE "EARLY", local |-> local, remote |-> remote,
   lcseq |-> cseq, rcseq |-> -1, route |-> route, target |-> target]
osip_dialog_init_as_uac(m) ==
  DlgMade(m.code, m.from, m.to, m.cseq, DlgReversed(m.recorded), m.contact)
osip_dialog_init_as_uas(m, tag) ==
  [DlgMade(101, tag, m.from, 1, m.recorded, m.contact) EXCEPT !.rcseq = m.cseq]

osip_dialog_update_route_set_as_uas(d, m) ==
  [d EXCEPT !.target = IF m.contact = <<>> THEN @ ELSE m.contact]
osip_dialog_update_route_set_as_uac_once(d, m) ==
  [d EXCEPT !.target = IF m.contact = <<>> THEN @ ELSE m.contact,
            !.state = IF m.code = 200 THEN "CONFIRMED" ELSE @]
osip_dialog_update_route_set_as_uac(d, m) ==
  [d EXCEPT !.target = IF m.contact = <<>> THEN @ ELSE m.contact,
            !.route = IF d.state = "EARLY" THEN DlgReversed(m.recorded) ELSE @,
            !.state = IF m.code = 200 THEN "CONFIRMED" ELSE @]

(* The tag of the other end decides, the own tag is not compared.          *)
osip_dialog_match_as_uas(d, m) == d.state # "NONE" /\ d.remote = m.from
osip_dialog_match_as_uac(d, m) == d.state # "NONE" /\ d.local = m.from /\ d.remote = m.to

-----------------------------------------------------------------------------
(* Requests.  dialog_fill_route_set: a first router that is strict becomes *)
(* the request URI; it stays in the Route and the last router is left out. *)
DlgAddress(end) == <<end, dlg.address[end]>>
DlgMessage(method, code, from, to, cseq, path, recorded, contact) ==
  [method |-> method, code |-> code, from |-> from, to |-> to, cseq |-> cseq, path |-> path,
   recorded |-> recorded, contact |-> contact]

dialog_fill_route_set(d) ==
  IF DlgIsLoose(Head(d.route)) THEN [uri |-> d.target, route |-> d.route]
  ELSE [uri |-> Head(d.route), route |-> Append(Front(d.route), d.target)]
_eXosip_build_request_within_dialog(d, method) ==
  LET cseq == IF method = "ACK" THEN d.lcseq ELSE d.lcseq + 1
      r    == IF d.route = <<>> THEN [uri |-> d.target, route |-> <<>>] ELSE dialog_fill_route_set(d)
  IN  DlgMessage(method, 0, d.local, d.remote, cseq, DlgTravels(r), <<>>,
                 DlgAddress(d.local))

(* The first INVITE goes through the whole chain, by an outbound proxy or  *)
(* by name; every router that stays puts itself on top.                    *)
_eXosip_generating_request_out_of_dialog ==
  /\ dlg.wire = {}
  /\ dlg' = [dlg EXCEPT !.wire =
       {DlgMessage("INVITE", 0, "caller", "", 20, <<>>, DlgReversed(DlgRouters),
                   DlgAddress("caller"))}]

(* A new INVITE makes the dialog; copies of it are answered or discarded   *)
(* and change nothing.                                                     *)
_eXosip_dialog_init_as_uas(end) ==
  /\ dlg.dialogs[end].state = "NONE"
  /\ \E m \in dlg.wire :
       /\ m.method = "INVITE" /\ m.code = 0 /\ m.to = ""
       /\ \A n \in dlg.wire : ~(n.method = "BYE" /\ n.to = end)
       /\ dlg' = [dlg EXCEPT !.dialogs[end] = osip_dialog_init_as_uas(m, end)]

(* An answer that makes a dialog carries the routers and the address; one  *)
(* of another kind of program may do so only when it is final.             *)
_eXosip_answer_invite_123456xx(end) ==
  LET d == dlg.dialogs[end]
  IN  /\ d.state = "EARLY"
      /\ \E code \in {180, 200}, bare \in BOOLEAN :
           /\ bare => code = 180
           /\ dlg' = [dlg EXCEPT
                !.dialogs[end].state = IF code = 200 THEN "CONFIRMED" ELSE @,
                !.wire = @ \cup {DlgMessage("INVITE", code, d.remote, end, 20, <<>>,
                                            IF bare THEN <<>> ELSE d.route,
                                            DlgAddress(end))}]

(* The caller gets an answer.  A tag that is not the one of its dialog     *)
(* replaces the dialog, as long as the INVITE waits for a 2xx.             *)
DlgAnswered(d, m) ==
  IF osip_dialog_match_as_uac(d, m) THEN osip_dialog_update_route_set_as_uac(d, m)
  ELSE osip_dialog_init_as_uac(m)
DlgReplaces(m) == dlg.dialogs["caller"].state # "NONE" /\ dlg.dialogs["caller"].remote # m.to
cb_rcv1xx(m) ==
  dlg' = [dlg EXCEPT !.dialogs["caller"] = DlgAnswered(@, m), !.replaced = @ \/ DlgReplaces(m)]
cb_rcv2xx_4invite(m) ==
  dlg' = [dlg EXCEPT !.dialogs["caller"] = DlgAnswered(@, m), !.replaced = @ \/ DlgReplaces(m),
                     !.answered = TRUE]

(* A 2xx of another end after that: it gets an ACK and a BYE, whose number *)
(* leaves room for what may have been sent to it before.                   *)
_eXosip_process_response_out_of_transaction(m) ==
  LET d == osip_dialog_init_as_uac(m)
  IN  /\ m.code = 200 /\ ~osip_dialog_match_as_uac(dlg.dialogs["caller"], m)
      /\ dlg' = [dlg EXCEPT !.wire = @ \cup
           {_eXosip_build_request_within_dialog(d, "ACK"),
            _eXosip_build_request_within_dialog([d EXCEPT !.lcseq = @ + 4], "BYE")}]

DlgGetsAnswer ==
  \E m \in dlg.wire :
    /\ m.method = "INVITE" /\ m.from = "caller" /\ m.cseq = 20 /\ m.code # 0
    /\ IF dlg.answered THEN _eXosip_process_response_out_of_transaction(m)
       ELSE (m.code = 180 /\ cb_rcv1xx(m)) \/ (m.code = 200 /\ cb_rcv2xx_4invite(m))

-----------------------------------------------------------------------------
(* Requests within the dialog. *)
(* An end that moves says so in an INVITE. *)
DlgMovesTo(end, method) ==
  {dlg.address[end]} \cup
    (IF method = "INVITE" /\ dlg.address[end] < DlgMaxMoves THEN {dlg.address[end] + 1} ELSE {})
DlgSends(end) ==
  LET d == dlg.dialogs[end]
  IN  /\ dlg.sent < DlgMaxSent /\ d.state # "NONE"
      /\ \E method \in {"INFO"} \cup (IF d.state = "CONFIRMED" THEN {"INVITE"} ELSE {}) :
           \E address \in DlgMovesTo(end, method) :
             dlg' = [dlg EXCEPT !.sent = @ + 1, !.dialogs[end].lcseq = @ + 1,
                       !.address[end] = address,
                       !.wire = @ \cup {[_eXosip_build_request_within_dialog(d, method)
                                           EXCEPT !.contact = <<end, address>>]}]

(* A lower number is refused and the same number discarded.  An INVITE     *)
(* within the dialog brings an address and its answer another; a BYE ends  *)
(* the dialog.                                                             *)
_eXosip_process_newrequest(end) ==
  \E m \in dlg.wire :
    LET d   == dlg.dialogs[end]
        got == [d EXCEPT !.rcseq = m.cseq]
    IN  /\ m.code = 0 /\ m.to = end /\ m.method \notin {"ACK"}
        /\ osip_dialog_match_as_uas(d, m)
        /\ d.rcseq > 0 => m.cseq > d.rcseq
        /\ dlg' = [dlg EXCEPT
             !.dialogs[end] = IF m.method = "BYE" THEN DlgNone
                              ELSE IF m.method = "INVITE"
                              THEN osip_dialog_update_route_set_as_uas(got, m) ELSE got,
             !.wire = IF m.method = "INVITE"
                      THEN @ \cup {DlgMessage("INVITE", 200, m.from, end, m.cseq, <<>>, <<>>,
                                              DlgAddress(end))} ELSE @]

DlgGetsAnswerWithin(end) ==
  \E m \in dlg.wire :
    /\ m.code = 200 /\ m.from = end /\ m.recorded = <<>>
    /\ m.cseq = dlg.dialogs[end].lcseq /\ (end = "caller" => m.cseq # 20)
    /\ osip_dialog_match_as_uac(dlg.dialogs[end], m)
    /\ dlg' = [dlg EXCEPT !.dialogs[end] = osip_dialog_update_route_set_as_uac(@, m)]

DlgNext ==
  \/ _eXosip_generating_request_out_of_dialog
  \/ \E f \in DlgForks : _eXosip_dialog_init_as_uas(f) \/ _eXosip_answer_invite_123456xx(f)
  \/ DlgGetsAnswer
  \/ \E e \in DlgEnds :
       DlgSends(e) \/ _eXosip_process_newrequest(e) \/ DlgGetsAnswerWithin(e)

DlgSpec == DlgInit /\ [][DlgNext]_dlg

-----------------------------------------------------------------------------
(* Two dialogs that name each other agree: their routes are the reverse of *)
(* each other once the caller's is confirmed, neither end expects a number *)
(* above what the other has used, and each aims at an address the other    *)
(* has announced.  A dialog of the caller that is replaced forgets its     *)
(* numbers: one that comes back uses them again.                           *)
DlgAgree(f) ==
  LET a == dlg.dialogs["caller"]
      b == dlg.dialogs[f]
  IN  a.state # "NONE" /\ b.state # "NONE" /\ a.remote = f =>
        /\ b.remote = "caller" /\ a.local = "caller" /\ b.local = f
        /\ a.state = "CONFIRMED" => a.route = DlgReversed(b.route)
        /\ ~dlg.replaced => b.rcseq <= a.lcseq
        /\ a.rcseq <= b.lcseq
        /\ a.target[1] = f /\ b.target[1] = "caller"
DialogsAgree == \A f \in DlgForks : DlgAgree(f)

(* A request meets every router that stays on the way, once and in order,  *)
(* and then the end it is for; unless it was sent while only an answer     *)
(* without routers had come.  "If the first URI of route set does not      *)
(* contain lr, the req_uri is set to the first uri of route set" and the   *)
(* Route has "the remainder of the route set values in order", says        *)
(* dialog_fill_route_set.                                                  *)
DlgRouted ==
  \A m \in dlg.wire : m.code = 0 /\ m.to # "" =>
    \/ Front(m.path) = DlgWay(m.from) /\ Last(m.path)[1] = m.to
    \/ m.path = <<Last(m.path)>> /\ m.from = "caller" /\ \E n \in dlg.wire :
         n.code = 180 /\ n.to = m.to /\ n.recorded = <<>>

=============================================================================
