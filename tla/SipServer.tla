------------------------------ MODULE SipServer -----------------------------
(***************************************************************************)
(* The server of framework/src on top of eXosip: the loop of sip_server.c, *)
(* the handlers of requests of sip_handle_request.c, and the table of      *)
(* sdp_handle_request.c, which is entered with the name of the media and   *)
(* the attribute `type' of the body of the request.  The stack's thread    *)
(* announces requests and sends answers whenever it has the lock.          *)
(***************************************************************************)
EXTENDS Integers, Sequences, FiniteSets

CONSTANTS SrvInputs,      \* requests that may be sent: [method, body]
          SrvMaxRequests  \* bound: requests of a behaviour

ASSUME SrvAssumption ==
  /\ SrvMaxRequests \in Nat
  /\ \A r \in SrvInputs :
       r.method \in {"MESSAGE", "REGISTER", "SUBSCRIBE", "INVITE", "OPTIONS"}

VARIABLE srv

(* A body, if there is one, can be parsed or not; it is the sequence of    *)
(* its medias, each with its name, its attributes and the value of its     *)
(* `type', if it has one.                                                  *)
SrvLast(S)          == CHOOSE i \in S : \A j \in S : j <= i
SrvMedias(body)     == IF body.state = "parsed" THEN body.medias ELSE <<>>
SrvAttributes(body) == UNION {body.medias[i].attributes : i \in DOMAIN body.medias}
SrvTyped(body)      == {i \in DOMAIN SrvMedias(body) : body.medias[i].type # "absent"}
SrvNames(body)      == body.medias[SrvLast(SrvTyped(body))].type
SrvName(body)       == body.medias[Len(body.medias)].name

-----------------------------------------------------------------------------
(* The functions of the table: whether they succeed with the attributes of *)
(* the request, and the attributes of the body they give the answer.       *)
SrvAnswering(ok, attributes) == [ok |-> ok, body |-> IF ok THEN attributes ELSE {}]
SrvAgreed(ok)                == SrvAnswering(ok, {})

message_route_update_func(a)   == SrvAnswering({"phonenum", "route"} \subseteq a, {<<"type", "route_update">>})
message_route_del_func(a)      == SrvAgreed(TRUE)
message_service_verify_func(a) ==
  SrvAnswering({"service_type", "loc"} \subseteq a,
               {<<"type", "service_verify">>, <<"status", "online">>, <<"result", "ok">>})
message_info_modify_func(a)    ==
  SrvAnswering("email" \in a \/ "mphone" \in a, {<<"type", "info_modify">>, <<"result", "ok">>})
message_mp_reg_func(a)         == SrvAgreed({"phonenum", "password"} \subseteq a)
message_mp_dereg_func(a)       == SrvAgreed({"phonenum", "password"} \subseteq a)
message_status_update_func(a)  ==
  SrvAnswering("status" \in a, {<<"type", "status_update">>, <<"status", "online">>})
message_info_query_func(a)     ==
  SrvAnswering({"email", "mphone", "service_type", "loc"} \subseteq a,
               {<<"type", "<info_modify>">>, <<"result", "ok">>})
message_phone_access_func(a)   == SrvAgreed(TRUE)
message_cache_notify_func(a)   == SrvAgreed("cache" \in a)
message_cache_obtain_func(a)   == SrvAgreed("cache" \in a)
message_obtain_notify_func(a)  == SrvAgreed("cache" \in a)
message_cache_del_func(a)      == SrvAgreed("cache" \in a)
message_link_detech_func(a)    == SrvAgreed(TRUE)
message_heart_beat_func(a)     == SrvAgreed(TRUE)
register_reg_func(a)           ==
  SrvAnswering({"loc", "timestamp", "authdata"} \subseteq a,
               {<<"phonenum", "XXXXXXXXXX">>, <<"alloc", "TEMCA">>,
                <<"cache", "100033 011 email length time">>, <<"route", "<ID@HOST>">>,
                <<"user_type", "normal">>})
register_dereg_func(a)         == SrvAgreed(TRUE)
invite_func(a)                 == SrvAgreed(TRUE)   \* the nine invite_*_func
subscribe_status_subscribe_func(a) == SrvAgreed(TRUE)

SrvInviteTypes == {"voice", "ptt_video", "data_broadcast", "voice_broadcast", "urgent_data",
                   "email", "txt_msg", "code_cmd", "define_data"}

(* HANDLE_REQUEST *)
HANDLE_REQUEST(type, a) ==
  CASE type = "reg"              -> register_reg_func(a)
    [] type = "dereg"            -> register_dereg_func(a)
    [] type \in SrvInviteTypes   -> invite_func(a)
    [] type = "status_subscribe" -> subscribe_status_subscribe_func(a)
    [] type = "route_update"     -> message_route_update_func(a)
    [] type = "route_del"        -> message_route_del_func(a)
    [] type = "service_verify"   -> message_service_verify_func(a)
    [] type = "info_modify"      -> message_info_modify_func(a)
    [] type = "mp_reg"           -> message_mp_reg_func(a)
    [] type = "mp_dereg"         -> message_mp_dereg_func(a)
    [] type = "status_update"    -> message_status_update_func(a)
    [] type = "info_query"       -> message_info_query_func(a)
    [] type = "phone_access"     -> message_phone_access_func(a)
    [] type = "cache_notify"     -> message_cache_notify_func(a)
    [] type = "cache_obtain"     -> message_cache_obtain_func(a)
    [] type = "obtain_notify"    -> message_obtain_notify_func(a)
    [] type = "cache_del"        -> message_cache_del_func(a)
    [] type = "link_detech"      -> message_link_detech_func(a)
    [] type = "heart_beat"       -> message_heart_beat_func(a)
    [] OTHER                     -> SrvAgreed(FALSE)

-----------------------------------------------------------------------------
(* requests: every request that came, in order; events: those announced    *)
(* and not taken; type: what the frame of switch_to_function last held.    *)
SrvInit ==
  srv = [requests |-> <<>>, events |-> <<>>, lock |-> "free", pc |-> "wait", now |-> 0,
         type |-> "absent", crashed |-> FALSE]

SrvSent(input) ==
  [method |-> input.method, body |-> input.body, status |-> "arrived", answer |-> 0, sdp |-> {}]

(* A request comes in: eXosip makes a transaction of it. *)
SrvReceives == \E input \in SrvInputs :
  /\ Len(srv.requests) < SrvMaxRequests /\ ~srv.crashed
  /\ srv' = [srv EXCEPT !.requests = Append(@, SrvSent(input))]

(* The stack's thread in its turn announces what came and sends what was   *)
(* queued; an in-dialog request is none of its business here.              *)
SrvOf(status) == {r \in DOMAIN srv.requests : srv.requests[r].status = status}
SrvFirst(S)   == CHOOSE r \in S : \A q \in S : r <= q
SrvAnnounces ==
  /\ srv.lock = "free" /\ ~srv.crashed /\ SrvOf("arrived") # {}
  /\ LET r == SrvFirst(SrvOf("arrived"))
     IN  srv' = [srv EXCEPT !.requests[r].status = "announced", !.events = Append(@, r)]
SrvSendsAnswer ==
  /\ srv.lock = "free" /\ ~srv.crashed
  /\ \E r \in SrvOf("queued") : srv' = [srv EXCEPT !.requests[r].status = "answered"]

-----------------------------------------------------------------------------
SrvRequest(s) == s.requests[s.now]
SrvQueue(s, code, sdp) ==
  [s EXCEPT !.requests[s.now] =
     [@ EXCEPT !.status = "queued", !.answer = code, !.sdp = sdp]]
SrvBack(s)  == IF s.crashed THEN s ELSE [s EXCEPT !.pc = "wait", !.now = 0]
SrvCrash(s) == [s EXCEPT !.crashed = TRUE]

(* eXosip_event_wait, eXosip_lock and eXosip_automatic_action of the loop: *)
(* each takes the lock, which is not recursive.                            *)
SrvTakes ==
  /\ srv.pc = "wait" /\ srv.lock = "free" /\ srv.events # <<>> /\ ~srv.crashed
  /\ srv' = [srv EXCEPT !.now = Head(srv.events), !.events = Tail(@), !.pc = "handle"]

(* switch_to_function: its outcomes, of which s is the state and h the     *)
(* result.  Without an attribute `type' the variable is not initialised.   *)
SrvEntry(type, body) ==
  IF SrvName(body) = "data" THEN HANDLE_REQUEST(type, SrvAttributes(body)) ELSE SrvAgreed(FALSE)
SrvOutcome(s, type) == [s |-> [s EXCEPT !.type = type], h |-> SrvEntry(type, SrvRequest(s).body)]
SrvRefusal(s)       == [s |-> s, h |-> SrvAgreed(FALSE)]
switch_to_function(s) ==
  LET body == SrvRequest(s).body
  IN  CASE SrvMedias(body) = <<>> -> {SrvRefusal(s)}
        [] SrvTyped(body) # {}    -> {SrvOutcome(s, SrvNames(body))}
        [] OTHER -> {SrvOutcome(s, s.type), SrvOutcome(s, "garbage"), SrvRefusal(SrvCrash(s))}

(* handle_request_message, without the lock: what is refused is forgotten. *)
handle_request_message ==
  /\ srv.pc = "handle" /\ SrvRequest(srv).method = "MESSAGE" /\ ~srv.crashed
  /\ \E o \in switch_to_function(srv) :
       srv' = IF o.h.ok THEN SrvBack(SrvQueue(o.s, 200, o.h.body)) ELSE SrvBack(o.s)

(* handle_request_register asks for the call of a request that is in none: *)
(* neither the answer nor the refusal is found a transaction.              *)
handle_request_register ==
  /\ srv.pc = "handle" /\ SrvRequest(srv).method = "REGISTER" /\ ~srv.crashed
  /\ srv.lock = "free"
  /\ srv' = SrvBack(srv)

(* handle_request_subscribe returns with the lock what it refuses. *)
SrvLocks(method) ==
  /\ srv.pc = "handle" /\ SrvRequest(srv).method = method /\ srv.lock = "free" /\ ~srv.crashed
  /\ srv' = [srv EXCEPT !.lock = "server", !.pc = "locked"]
SrvUnlocked(s) == [SrvBack(s) EXCEPT !.lock = "free"]

handle_request_subscribe_never_unlocks ==
  /\ srv.pc = "locked" /\ SrvRequest(srv).method = "SUBSCRIBE" /\ ~srv.crashed
  /\ \E o \in switch_to_function(srv) :
       srv' = IF o.h.ok THEN SrvBack(SrvQueue(o.s, 200, o.h.body)) ELSE SrvBack(o.s)
handle_request_subscribe ==
  /\ srv.pc = "locked" /\ SrvRequest(srv).method = "SUBSCRIBE" /\ ~srv.crashed
  /\ \E o \in switch_to_function(srv) :
       srv' = IF o.h.ok THEN SrvUnlocked(SrvQueue(o.s, 200, o.h.body)) ELSE SrvBack(o.s)

(* handle_request_invite queues a 180 and prints to a null pointer. *)
handle_request_invite ==
  /\ srv.pc = "locked" /\ SrvRequest(srv).method = "INVITE" /\ ~srv.crashed
  /\ srv' = SrvCrash(SrvQueue(srv, 180, {}))

(* Any other request is dropped. *)
SrvIgnores ==
  /\ srv.pc = "handle" /\ SrvRequest(srv).method = "OPTIONS"
  /\ srv' = SrvBack(srv)

SrvHandles ==
  \/ handle_request_message \/ handle_request_register \/ SrvIgnores
  \/ SrvLocks("SUBSCRIBE") \/ handle_request_subscribe
  \/ SrvLocks("INVITE") \/ handle_request_invite

SrvNext == SrvReceives \/ SrvAnnounces \/ SrvSendsAnswer \/ SrvTakes \/ SrvHandles

SrvSpec == SrvInit /\ [][SrvNext]_srv

-----------------------------------------------------------------------------
SrvTypeOK ==
  /\ srv.pc \in {"wait", "handle", "locked"} /\ srv.lock \in {"free", "server"}
  /\ \A r \in DOMAIN srv.requests :
       srv.requests[r].status \in {"arrived", "announced", "queued", "answered"}

SrvDone(r) == r \in DOMAIN srv.requests /\ r # srv.now /\ srv.requests[r].status # "arrived"
              /\ \A i \in DOMAIN srv.events : srv.events[i] # r

SrvServed(body) == SrvTyped(body) # {} /\ SrvEntry(SrvNames(body), body).ok

(* Whatever was handled before, a MESSAGE or a SUBSCRIBE that names its    *)
(* type is answered 200 when it was handled if and only if the function of *)
(* that type agrees, and the answer names the type of the request and not  *)
(* another's, but for info_query, which is told of info_modify; no         *)
(* REGISTER is answered.  The loop stops only for an INVITE, for a request *)
(* without a type, or for a SUBSCRIBE that was refused, which keeps the    *)
(* lock.                                                                   *)
SrvAnsweredRight(q) ==
  q.method \in {"MESSAGE", "SUBSCRIBE"} /\ SrvTyped(q.body) # {}
    => ((q.answer = 200) <=> SrvServed(q.body))
SrvNamesType(q) ==
  \A pair \in q.sdp : pair[1] = "type" /\ SrvTyped(q.body) # {} =>
    pair[2] = (IF SrvNames(q.body) = "info_query" THEN "<info_modify>" ELSE SrvNames(q.body))

SrvAnswersWhatIsAsked ==
  \A r \in DOMAIN srv.requests :
    LET q == srv.requests[r]
    IN  /\ SrvDone(r) => SrvAnsweredRight(q)
        /\ SrvNamesType(q)
        /\ q.method \in {"REGISTER", "OPTIONS"} => q.answer = 0

SrvStopsOnlyFor ==
  /\ srv.lock = "server" /\ srv.pc = "wait" =>
       \E r \in DOMAIN srv.requests :
         SrvDone(r) /\ srv.requests[r].method = "SUBSCRIBE" /\ srv.requests[r].answer = 0
  /\ srv.crashed => LET q == SrvRequest(srv) IN q.method = "INVITE" \/ SrvTyped(q.body) = {}

SrvKeepsServing == SrvTypeOK /\ SrvAnswersWhatIsAsked /\ SrvStopsOnlyFor
=============================================================================
