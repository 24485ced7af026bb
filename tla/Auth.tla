-------------------------------- MODULE Auth --------------------------------
(***************************************************************************)
(* Credentials and challenges of eXosip (eXosip.c, jauth.c): the list of   *)
(* authentication information, the table of nonces by Call-ID, and the     *)
(* headers that answer a challenge or go along unasked.  A hash is the     *)
(* tuple of what is hashed; the memory for a header is always there.       *)
(***************************************************************************)
EXTENDS Integers, Sequences, FiniteSets, FiniteSetsExt

CONSTANTS AuthInfos,        \* entries the application may add
          AuthUser,         \* the user of the From
          AuthMethods,      \* Call-ID -> method of its requests
          AuthChallenges,   \* sequences of challenges an answer may carry
          AuthSlots,        \* MAX_EXOSIP_HTTP_AUTH
          AuthMaxInfos,     \* bound: entries in the list
          AuthMaxNonces,    \* bound: nonces the servers make
          AuthMaxCount      \* bound: uses of one nonce

(* "none" is an empty text: the Call-ID of a free place, and of no request. *)
ASSUME AuthAssumption ==
  /\ {AuthSlots, AuthMaxInfos, AuthMaxNonces, AuthMaxCount} \subseteq Nat
  /\ "none" \notin DOMAIN AuthMethods
  /\ \A ch \in AuthChallenges : ch \in Seq({ch[i] : i \in DOMAIN ch})

VARIABLE auth

AuthCallIds  == DOMAIN AuthMethods
AuthNobody   ==
  [username |-> "none", userid |-> "none", passwd |-> "none", ha1 |-> <<>>, realm |-> <<>>]
AuthFreeSlot == [callid |-> "none", wa |-> <<>>, count |-> 0, code |-> 0]

(* infos: authinfos, the newest first; table: http_auths.  calls: what a   *)
(* Call-ID waits for.  nonces: number made; counts: of every nonce, the    *)
(* highest count that was used.  sound: no header was ever wrong.          *)
AuthIs(infos, table, calls, counts, sound) ==
  [infos |-> infos, table |-> table, calls |-> calls, counts |-> counts, sound |-> sound]
AuthCall(state, tag, challenge) == [state |-> state, tag |-> tag, challenge |-> challenge]
AuthInit ==
  auth = AuthIs(<<>>, [p \in 1..AuthSlots |-> AuthFreeSlot],
                [c \in AuthCallIds |-> AuthCall("new", FALSE, <<>>)], <<>>, TRUE)

-----------------------------------------------------------------------------
(* The list of the application: an entry without secret is not added, and  *)
(* the first entry of that user and realm, which may be none at all, goes. *)
AuthListed(infos) == auth' = AuthIs(infos, auth.table, auth.calls, auth.counts, auth.sound)
eXosip_add_authentication_info ==
  /\ Len(auth.infos) < AuthMaxInfos
  /\ \E info \in AuthInfos :
       AuthListed(IF info.passwd = "none" /\ info.ha1 = <<>> THEN auth.infos
                  ELSE <<info>> \o auth.infos)

eXosip_remove_authentication_info ==
  \E info \in AuthInfos :
    LET infos == auth.infos
        these == {i \in DOMAIN infos :
                    infos[i].username = info.username /\ infos[i].realm = info.realm}
    IN  /\ these # {}
        /\ AuthListed([i \in 1..(Len(infos) - 1) |->
                         IF i < Min(these) THEN infos[i] ELSE infos[i + 1]])

eXosip_clear_authentication_info == auth.infos # <<>> /\ AuthListed(<<>>)

(* The entry for the realm of a challenge: of the user of the From, else   *)
(* of anybody, else one without realm.  The comparison stops at the length *)
(* of the challenge's realm.                                               *)
AuthIsFor(info, realm) ==
  /\ info.realm # <<>> /\ Len(realm) <= Len(info.realm)
  /\ \A i \in DOMAIN realm : realm[i] = info.realm[i]
eXosip_find_authentication_info(realm) ==
  LET infos    == auth.infos
      named    == {i \in DOMAIN infos : AuthIsFor(infos[i], realm)}
      nameless == {i \in DOMAIN infos : infos[i].realm = <<>>}
      Own(is)  == {i \in is : infos[i].username = AuthUser}
  IN  IF Own(named) # {} THEN infos[Min(Own(named))]
      ELSE IF named # {} THEN infos[Min(named)]
      ELSE IF Own(nameless) # {} THEN infos[Max(Own(nameless))]
      ELSE IF nameless # {} THEN infos[Min(nameless)]
      ELSE AuthNobody

-----------------------------------------------------------------------------
(* The digest.  Of AKA the count and the quality are left out.             *)
DigestCalcHA1(user, realm, secret) == <<"HA1", user, realm, secret>>
DigestCalcResponseAka(passwd, nonce, alg) == <<alg, passwd, nonce>>
DigestCalcResponse(ha1, nonce, count, qop, aka, method) ==
  <<ha1, nonce, IF qop = "none" \/ aka THEN <<>> ELSE <<count, qop>>, method>>

(* "auth" is answered to whatever quality a challenge offers.              *)
AuthQop(wa) == IF wa.qop = "none" THEN "none" ELSE "auth"
AuthKnown(wa) == wa.type = "Digest" /\ wa.algorithm \in {"MD5", "AKAv1-MD5", "AKAv2-MD5"}
_eXosip_create_authorization_header(wa, info, method, count) ==
  LET aka    == wa.algorithm # "MD5"
      secret == IF aka THEN DigestCalcResponseAka(info.passwd, wa.nonce, wa.algorithm)
                ELSE <<"none", info.passwd, 0>>
      ha1    == IF info.ha1 # <<>> THEN info.ha1
                ELSE DigestCalcHA1(info.userid, wa.realm, secret)
  IN  [wa |-> wa, username |-> info.userid, qop |-> AuthQop(wa), count |-> count,
       response |-> DigestCalcResponse(ha1, wa.nonce, count, AuthQop(wa), aka, method)]
_eXosip_create_proxy_authorization_header(wa, info, method, count) ==
  _eXosip_create_authorization_header(wa, info, method, count)

-----------------------------------------------------------------------------
(* The table.  One entry of a Call-ID and realm; a new one counts from 1   *)
(* but keeps the code; what finds no room is forgotten.                    *)
AuthEntry(table, callid, realm) ==
  {p \in DOMAIN table : table[p].callid = callid /\ table[p].wa.realm = realm}
AuthRoom(table) == {p \in DOMAIN table : table[p].callid = "none"}
AuthNonce(callid, wa, count, code) ==
  [callid |-> callid, wa |-> wa, count |-> count, code |-> code]
_eXosip_store_nonce_from_zero(table, callid, wa, code) ==
  LET entry == AuthEntry(table, callid, wa.realm)
  IN  IF entry # {} THEN [table EXCEPT ![Min(entry)] = AuthNonce(callid, wa, 0, @.code)]
      ELSE IF AuthRoom(table) = {} THEN table
      ELSE [table EXCEPT ![Min(AuthRoom(table))] = AuthNonce(callid, wa, 0, code)]
_eXosip_store_nonce(table, callid, wa, code) ==
  LET entry == AuthEntry(table, callid, wa.realm)
  IN  IF entry # {} THEN [table EXCEPT ![Min(entry)] = AuthNonce(callid, wa, 1, @.code)]
      ELSE IF AuthRoom(table) = {} THEN table
      ELSE [table EXCEPT ![Min(AuthRoom(table))] = AuthNonce(callid, wa, 1, code)]

(* Of a Call-ID with entries of two realms the second stays for ever.      *)
_eXosip_delete_nonce(table, callid) ==
  LET of == {p \in DOMAIN table : table[p].callid = callid}
  IN  IF of = {} THEN table ELSE [table EXCEPT ![Min(of)] = AuthFreeSlot]

(* The header for a challenge, made by one of two functions that are the   *)
(* same; of what lies before the first that fails one is made.             *)
AuthHeader(place, code, wa, method, count) ==
  LET info == eXosip_find_authentication_info(wa.realm)
      made == IF code = 401
              THEN _eXosip_create_authorization_header(wa, info, method, count)
              ELSE _eXosip_create_proxy_authorization_header(wa, info, method, count)
  IN  [place |-> place, made |-> made]
AuthBefore(is, failing) == {i \in is : \A j \in failing : i < j}

(* Headers for a new request, from the entries of its Call-ID in order, as *)
(* long as there are credentials; a header that answered a 401 goes along  *)
(* as Proxy-Authorization unless the request is a REGISTER.                *)
AuthUnasked(callid) ==
  LET table   == auth.table
      method  == AuthMethods[callid]
      place   == IF method = "REGISTER" THEN "Authorization" ELSE "Proxy-Authorization"
      mine    == {p \in DOMAIN table : table[p].callid = callid}
      failing == {p \in mine : eXosip_find_authentication_info(table[p].wa.realm) = AuthNobody}
      done    == AuthBefore(mine, failing)
  IN  [failed  |-> failing # {},
       table   |-> [p \in DOMAIN table |-> IF p \in done THEN [table[p] EXCEPT !.count = @ + 1]
                                                          ELSE table[p]],
       headers |-> {AuthHeader(place, table[p].code, table[p].wa, method, table[p].count + 1) :
                      p \in done}]

(* Headers for the challenges of an answer: WWW-Authenticate first.        *)
AuthStores(callid) ==
  AuthMethods[callid] \in {"REGISTER", "INVITE", "SUBSCRIBE"} \/ auth.calls[callid].tag
AuthStored(callid, challenge, done) ==
  LET table[i \in 0..Len(challenge)] ==
        IF i = 0 THEN auth.table
        ELSE IF i \notin done THEN table[i - 1]
        ELSE _eXosip_store_nonce(table[i - 1], callid, challenge[i], challenge[i].code)
  IN  table[Len(challenge)]
AuthAsked(callid, challenge) ==
  LET Place(wa) == IF wa.code = 401 THEN "Authorization" ELSE "Proxy-Authorization"
      failing == {i \in DOMAIN challenge :
                    \/ eXosip_find_authentication_info(challenge[i].realm) = AuthNobody
                    \/ ~AuthKnown(challenge[i])}
      done    == AuthBefore(DOMAIN challenge, failing)
  IN  [failed  |-> failing # {},
       table   |-> IF AuthStores(callid) THEN AuthStored(callid, challenge, done) ELSE auth.table,
       headers |-> {AuthHeader(Place(challenge[i]), challenge[i].code, challenge[i],
                               AuthMethods[callid], 1) : i \in done}]

_eXosip_add_authentication_information(callid, challenge) ==
  IF challenge = <<>> THEN AuthUnasked(callid) ELSE AuthAsked(callid, challenge)

-----------------------------------------------------------------------------
(* A request leaves.  The headers made before one that fails go along,     *)
(* unless the caller gives the request up.                                 *)
AuthCounted(headers) ==
  [n \in DOMAIN auth.counts |->
     Max({auth.counts[n]} \cup {h.made.count : h \in {g \in headers :
            g.made.wa.nonce = n /\ g.made.qop # "none"}})]
(* What a server computes from the header, the method and the secret.      *)
AuthVerifies(h, method, info) ==
  h.response =
    <<IF info.ha1 # <<>> THEN info.ha1
      ELSE <<"HA1", info.userid, h.wa.realm, <<"none", info.passwd, 0>>>>,
      h.wa.nonce, IF h.qop = "none" THEN <<>> ELSE <<h.count, h.qop>>, method>>
AuthFitting(realm) ==
  LET named == {i \in DOMAIN auth.infos : AuthIsFor(auth.infos[i], realm)}
  IN  IF named # {} THEN named ELSE {i \in DOMAIN auth.infos : auth.infos[i].realm = <<>>}
AuthSound(method, headers) ==
  \A h \in {g.made : g \in headers} :
    /\ h.qop # "none" => h.count > auth.counts[h.wa.nonce]
    /\ h.wa.algorithm = "MD5" => \E k \in AuthFitting(h.wa.realm) :
         h.username = auth.infos[k].userid /\ AuthVerifies(h, method, auth.infos[k])

AuthSends(callid, challenge) ==
  LET built == _eXosip_add_authentication_information(callid, challenge)
  IN  /\ \A p \in DOMAIN built.table : built.table[p].count <= AuthMaxCount
      /\ \/ auth' = AuthIs(auth.infos, built.table,
                           [auth.calls EXCEPT ![callid] = AuthCall("sent", @.tag, <<>>)],
                           AuthCounted(built.headers),
                           auth.sound /\ AuthSound(AuthMethods[callid], built.headers))
         \/ built.failed
            /\ auth' = AuthIs(auth.infos, built.table, auth.calls, auth.counts, auth.sound)

AuthRequest(c) == auth.calls[c].state \in {"new", "answered"} /\ AuthSends(c, <<>>)
AuthRetry(c) == auth.calls[c].state = "refused" /\ AuthSends(c, auth.calls[c].challenge)

(* The servers: accepted, which makes a dialog; or refused with            *)
(* challenges, each with a nonce of its own.                               *)
AuthAccepted(c) ==
  /\ auth.calls[c].state = "sent"
  /\ auth' = AuthIs(auth.infos, auth.table,
                    [auth.calls EXCEPT ![c] = AuthCall("answered", TRUE, <<>>)],
                    auth.counts, auth.sound)
AuthGiven(ch) ==
  [i \in DOMAIN ch |-> [nonce |-> Len(auth.counts) + i, realm |-> ch[i].realm, code |-> ch[i].code,
                        qop |-> ch[i].qop, type |-> ch[i].type, algorithm |-> ch[i].algorithm]]
AuthRefused(c) ==
  /\ auth.calls[c].state = "sent"
  /\ \E ch \in AuthChallenges :
       /\ Len(auth.counts) + Len(ch) <= AuthMaxNonces
       /\ auth' = AuthIs(auth.infos, auth.table,
                         [auth.calls EXCEPT ![c] = AuthCall("refused", @.tag, AuthGiven(ch))],
                         auth.counts \o [i \in DOMAIN ch |-> 0], auth.sound)

(* What the Call-ID belonged to is freed. *)
AuthGone(c) ==
  /\ auth.calls[c].state \notin {"new", "gone"}
  /\ auth' = AuthIs(auth.infos, _eXosip_delete_nonce(auth.table, c),
                    [auth.calls EXCEPT ![c] = AuthCall("gone", @.tag, <<>>)],
                    auth.counts, auth.sound)

AuthNext ==
  \/ eXosip_add_authentication_info
  \/ eXosip_remove_authentication_info
  \/ eXosip_clear_authentication_info
  \/ \E c \in AuthCallIds :
       AuthRequest(c) \/ AuthRetry(c) \/ AuthAccepted(c) \/ AuthRefused(c) \/ AuthGone(c)

AuthSpec == AuthInit /\ [][AuthNext]_auth

-----------------------------------------------------------------------------
(* Servers that make a nonce for every challenge never see a count of it   *)
(* twice, whichever requests, refusals and frees come between and although *)
(* entries are replaced and dropped; and a header is made from credentials *)
(* of the realm of the challenge (or of one that begins with it) when      *)
(* there are such, else from those without realm, and the server verifies. *)
AuthNeverReplayed == auth.sound
=============================================================================
