------------------------------ MODULE MCServices ----------------------------
(* The parts beside calls: the services of eXosip, the server and what     *)
(* they build on, one at a time.  The part that is looked at moves, the    *)
(* others stay as they are initially.                                      *)
EXTENDS Registration, Publication, Subscription, InSubscription,
        SipServer, Sdp, Auth

(* The requests that the server is sent: every type with all attributes    *)
(* and with none, bodies that lack a type or a media, and other methods.   *)
SrvAll == {"phonenum", "route", "service_type", "loc", "email", "mphone", "password", "status",
           "cache", "timestamp", "authdata"}
SrvTypes == {"reg", "dereg", "voice", "status_subscribe", "route_update", "route_del",
             "service_verify", "info_modify", "mp_reg", "mp_dereg", "status_update",
             "info_query", "phone_access", "cache_notify", "cache_obtain", "obtain_notify",
             "cache_del", "link_detech", "heart_beat", "unknown"}
SrvMedia(name, type, attributes) == [name |-> name, type |-> type, attributes |-> attributes]
SrvBody(medias) == [state |-> "parsed", medias |-> medias]
SrvFew == {[state |-> "none", medias |-> <<>>], [state |-> "garbled", medias |-> <<>>]}
  \cup {SrvBody(m) : m \in
          {<<>>, <<SrvMedia("data", "absent", {})>>,
           <<SrvMedia("audio", "reg", SrvAll)>>, <<SrvMedia("data", "status_subscribe", {})>>,
           <<SrvMedia("data", "heart_beat", {}), SrvMedia("data", "mp_reg", SrvAll)>>,
           <<SrvMedia("data", "info_query", SrvAll), SrvMedia("data", "absent", {})>>}}
SrvManyInputs ==
  [method : {"MESSAGE"},
   body   : {SrvBody(<<SrvMedia("data", t, a)>>) : t \in SrvTypes, a \in {{}, SrvAll}}]
  \cup [method : {"MESSAGE", "SUBSCRIBE"}, body : SrvFew]
  \cup [method : {"REGISTER", "INVITE", "OPTIONS"},
         body   : {SrvBody(<<SrvMedia("data", "reg", SrvAll)>>)}]

(* Texts that stop in the head, and in the first and the second media.     *)
SdpFew == {<<"v">>, <<"v", "o", "c", "t">>, <<"v", "o", "t", "r", "z", "k", "m">>,
           <<"v", "s", "o", "t", "m", "a", "m", "a">>}

(* Two users, realms of which one begins with the other, and the           *)
(* challenges of a registrar, of a proxy and of both.                      *)
AuthInfo(username, realm, passwd, ha1) ==
  [username |-> username, userid |-> username, passwd |-> passwd, ha1 |-> ha1, realm |-> realm]
AuthFewInfos ==
  {AuthInfo("u", <<>>, "p", <<>>), AuthInfo("u", <<1>>, "p", <<>>),
   AuthInfo("w", <<1, 2>>, "none", <<"HA1", "w", <<1>>, <<"none", "q", 0>>>>)}
AuthTwoCalls == [r |-> "REGISTER", m |-> "MESSAGE"]
AuthChallenge(code, realm, qop, type, algorithm) ==
  [code |-> code, realm |-> realm, qop |-> qop, type |-> type, algorithm |-> algorithm]
AuthFewChallenges ==
  {<<AuthChallenge(401, <<1>>, "auth", "Digest", "MD5")>>,
   <<AuthChallenge(401, <<1>>, "auth-int", "Digest", "AKAv1-MD5"),
     AuthChallenge(407, <<2>>, "auth", "Digest", "MD5")>>,
   <<AuthChallenge(407, <<1>>, "none", "Digest", "MD5"),
     AuthChallenge(407, <<2>>, "auth", "Basic", "MD5")>>}

-----------------------------------------------------------------------------
VARIABLE part

servicesVars == <<part, reg, pub, sub, ins, srv, sdp, auth>>

ServicesInit ==
  /\ RegInit /\ PubInit /\ SubInit /\ InsInit /\ SrvInit /\ SdpInit
  /\ AuthInit
  /\ part \in {"registration", "publication", "subscription", "insubscription", "server",
               "sdp", "auth"}
  /\ part # "subscription" => ~sub.default
  /\ part # "insubscription" => ~ins.default
  /\ part # "sdp" => Len(sdp.text) = 1

ServicesNext ==
  \/ part = "registration" /\ RegNext
     /\ UNCHANGED <<part, pub, sub, ins, srv, sdp, auth>>
  \/ part = "publication" /\ PubNext
     /\ UNCHANGED <<part, reg, sub, ins, srv, sdp, auth>>
  \/ part = "subscription" /\ SubNext
     /\ UNCHANGED <<part, reg, pub, ins, srv, sdp, auth>>
  \/ part = "insubscription" /\ InsNext
     /\ UNCHANGED <<part, reg, pub, sub, srv, sdp, auth>>
  \/ part = "server" /\ SrvNext
     /\ UNCHANGED <<part, reg, pub, sub, ins, sdp, auth>>
  \/ part = "sdp" /\ SdpNext
     /\ UNCHANGED <<part, reg, pub, sub, ins, srv, auth>>
  \/ part = "auth" /\ AuthNext
     /\ UNCHANGED <<part, reg, pub, sub, ins, srv, sdp>>

ServicesSpec == ServicesInit /\ [][ServicesNext]_servicesVars
=============================================================================
