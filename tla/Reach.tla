-------------------------------- MODULE Reach -------------------------------
(***************************************************************************)
(* Where eXosip says it is reached: the transport that listens             *)
(* (eXosip_listen_addr, eXosip_set_socket), the public address the         *)
(* application gives (eXosip_masquerade_contact) or the answers tell       *)
(* (udp_tl_learn_port_from_via), the Contact of a request when it is built *)
(* (jrequest.c) and as a transport changes it each time it sends the       *)
(* request.  A domain is the host of a From header; a port of 0 is none,   *)
(* or the empty text.  The names of the DNS cache (eXosip_set_option) are  *)
(* kept in a table of the same kind.                                       *)
(***************************************************************************)
EXTENDS Integers, Sequences, FiniteSets, FiniteSetsExt, SequencesExt

CONSTANTS RchChoices,    \* sets of transports, among "UDP", "TCP" and "DTLS-UDP", that are used
          RchDomains,    \* of the accounts
          RchRelated,    \* pairs of domains of which one's name contains the other's
          RchPorts,      \* that NATs, the application and the system choose, 5060 among them
          RchHosts,      \* names that are resolved
          RchIps,        \* what they may resolve to
          RchSlots       \* MAX_EXOSIP_ACCOUNT_INFO, MAX_EXOSIP_DNS_ENTRY

ASSUME RchAssumption ==
  /\ RchChoices \subseteq SUBSET {"UDP", "TCP", "DTLS-UDP"}
  /\ RchSlots \in Nat \ {0} /\ RchPorts \subseteq 1..65535 /\ 5060 \in RchPorts

VARIABLE rch

RchNowhere == [ip |-> "none", port |-> 0]
RchNoRequest == [state |-> "none"]

(* uses: the transports that are looked at, or none, then the names are;   *)
(* told: what was told last of a domain or a host; peer: the connection of *)
(* a stream transport, with its own port and its NAT's.                    *)
RchInit == \E uses \in RchChoices \cup {{}}, learn \in BOOLEAN :
  rch = [uses |-> uses, eXtl |-> "none", learn_port |-> learn /\ "UDP" \in uses,
         socket |-> [t \in uses |-> "none"],
         proto_port |-> [t \in uses |-> 0], firewall |-> [t \in uses |-> RchNowhere],
         peer |-> [ephemeral |-> 0, natted |-> RchNowhere],
         table |-> <<>>, told |-> [k \in RchDomains \cup RchHosts |-> RchNowhere],
         request |-> RchNoRequest]

RchEffective(port) == IF port = 0 THEN 5060 ELSE port
RchSame(d, e)      == d = e \/ <<d, e>> \in RchRelated \/ <<e, d>> \in RchRelated

-----------------------------------------------------------------------------
(* A table: the entry of a key is changed where it is, a new one takes the *)
(* first place that is free ("none"), and is not taken if there is none.   *)
RchFree == [key |-> "none", value |-> RchNowhere]
RchAt(table, key)  == {i \in DOMAIN table : table[i].key = key}
RchKeys(table)     == {e.key : e \in ToSet(table)} \ {"none"}
RchPutFirst(table, key, value) ==
  LET entry == [key |-> key, value |-> value]
  IN  IF RchAt(table, "none") # {} THEN [table EXCEPT ![Min(RchAt(table, "none"))] = entry]
      ELSE IF Len(table) < RchSlots THEN Append(table, entry) ELSE table
RchPut(table, key, value) ==
  IF RchAt(table, key) = {} THEN RchPutFirst(table, key, value)
  ELSE [table EXCEPT ![Min(RchAt(table, key))].value = value]
RchDelete(table, key) ==
  IF RchAt(table, key) = {} THEN table ELSE [table EXCEPT ![Min(RchAt(table, key))] = RchFree]

(* The first entry whose name contains, or is contained in, the domain     *)
RchAccount(table, domain) ==
  LET is == {i \in DOMAIN table : table[i].key # "none" /\ RchSame(table[i].key, domain)}
  IN  IF is = {} THEN RchNowhere ELSE table[Min(is)].value

(* _eXosip_get_addrinfo goes on through the table after a hit *)
RchResolve(table, host) ==
  FoldLeft(LAMBDA h, e : IF e.key = h THEN e.value.ip ELSE h, host, table)

-----------------------------------------------------------------------------
(* tl_open: the socket is bound to the port, or, when it is 0, to a port   *)
(* that the system chooses.  What fails leaves the port that was asked.    *)
RchOpened(r, t, port) ==
  [r EXCEPT !.socket[t] = "open", !.proto_port[t] = port, !.firewall[t].port = port]

RchListen == \E t \in rch.uses, port \in RchPorts \cup {0} :
  /\ rch.eXtl = "none"
  /\ \/ rch' = [rch EXCEPT !.proto_port[t] = port]
     \/ \E p \in IF port = 0 THEN RchPorts ELSE {port} :
          rch' = [RchOpened(rch, t, p) EXCEPT !.eXtl = t]

(* eXosip_set_socket, at any time: another transport than UDP and TCP is   *)
(* refused when none is listened on any more.                              *)
RchSetSocket == \E t \in rch.uses, port \in RchPorts :
  rch' = IF t \notin {"UDP", "TCP"} THEN [rch EXCEPT !.eXtl = "none"]
         ELSE [rch EXCEPT !.eXtl = t, !.socket[t] = "open", !.proto_port[t] = port]

(* _udp_tl_reset: the socket is closed and its number stays if no other    *)
(* can be opened; else the port is the one that is listened on again.      *)
RchUdpReset ==
  /\ rch.eXtl = "UDP"
  /\ rch' \in {[rch EXCEPT !.socket["UDP"] = "closed"], RchOpened(rch, "UDP", rch.proto_port["UDP"])}

(* eXosip_masquerade_contact, of every transport *)
RchMasquerade == \E ip \in {"none", "public"}, port \in RchPorts \cup {0} :
  rch' = [rch EXCEPT !.firewall = [t \in rch.uses |->
    IF ip = "none" THEN [ip |-> "none", port |-> rch.proto_port[t]]
    ELSE [ip |-> ip, port |-> IF port = 0 THEN rch.firewall[t].port ELSE port]]]

-----------------------------------------------------------------------------
(* _eXosip_generating_request_out_of_dialog with a Contact: that of the    *)
(* application, that of a REGISTER, or that of another request, which is   *)
(* not taken if it ends in a colon.                                        *)
RchContacts(f) ==
  LET host == IF f.ip = "none" THEN "local" ELSE f.ip
  IN  {[host |-> "own", port |-> 0], [host |-> host, port |-> f.port],
       [host |-> IF f.port = 0 THEN "none" ELSE host, port |-> f.port]}
RchBuild ==
  /\ rch.eXtl # "none"
  /\ \E d \in RchDomains : \E c \in RchContacts(rch.firewall[rch.eXtl]) : rch' = [rch EXCEPT !.request =
       [state |-> "built", domain |-> d, host |-> c.host, port |-> c.port, told |-> RchNowhere]]

(* eXtl_update_local_target: of UDP, which looks for the account ...       *)
RchUdpTargetOnce(r, q) ==
  LET account == RchAccount(r.table, q.domain)
  IN  IF r.firewall["UDP"].ip = "none" \/ q.host = "none" \/ q.port # 0 THEN q
      ELSE IF account = RchNowhere THEN [q EXCEPT !.port = r.firewall["UDP"].port]
      ELSE [q EXCEPT !.host = account.ip, !.port = account.port]
RchUdpTarget(r, q) ==
  LET account == RchAccount(r.table, q.domain)
      ported(p) == IF q.port = 0 /\ p = 5060 THEN 0 ELSE p
  IN  IF r.firewall["UDP"].ip = "none" \/ q.host = "none" THEN q
      ELSE IF account = RchNowhere THEN [q EXCEPT !.port = ported(r.firewall["UDP"].port)]
      ELSE [q EXCEPT !.host = account.ip, !.port = ported(account.port)]

(* ... of DTLS, which replaces the port of what it masqueraded itself ...  *)
RchDtlsTarget(r, q) ==
  IF q.host = r.firewall["DTLS-UDP"].ip THEN [q EXCEPT !.port = r.firewall["DTLS-UDP"].port] ELSE q

(* ... and of TCP and TLS, for the connection that the request goes on.    *)
RchStreamTarget(r, q) ==
  LET p == r.peer
      own == IF q.host = "none" THEN q ELSE [q EXCEPT !.port = p.ephemeral]
  IN  IF r.firewall["TCP"].ip = "none" \/ p.natted = RchNowhere \/ q.host = "none" THEN own
      ELSE [own EXCEPT !.host = p.natted.ip, !.port = p.natted.port]

(* What the one who is sent the request told last, over this way to it *)
RchToldOf(r, d) ==
  CASE r.eXtl = "UDP" /\ RchAt(r.table, d) # {} -> r.told[d]
    [] r.eXtl = "TCP" /\ r.peer.natted # RchNowhere -> r.peer.natted
    [] OTHER -> RchNowhere

RchTarget(r, q) ==
  CASE r.eXtl = "UDP" -> RchUdpTarget(r, q)
    [] r.eXtl = "TCP" -> RchStreamTarget(r, q)
    [] OTHER -> RchDtlsTarget(r, q)
RchSend ==
  /\ rch.request.state # "none" /\ rch.eXtl # "none"
  /\ rch.eXtl = "TCP" => rch.peer.ephemeral # 0
  /\ LET q == rch.request
         public == rch.firewall[rch.eXtl].ip # "none" /\ q.host # "none"
     IN  rch' = [rch EXCEPT !.request =
           [RchTarget(rch, q) EXCEPT !.state = IF rch.socket[rch.eXtl] = "open" THEN "sent" ELSE @,
              !.told = IF public THEN RchToldOf(rch, q.domain) ELSE RchNowhere]]

(* A new connection of a stream transport *)
RchConnect == \E port \in RchPorts \ {5060} :
  /\ rch.eXtl = "TCP"
  /\ rch' = [rch EXCEPT !.peer = [ephemeral |-> port, natted |-> RchNowhere]]

(* udp_tl_learn_port_from_via: the port of rport, and, if there is a       *)
(* received too, the address of the account.                               *)
RchLearned(r, d, ip, port) ==
  LET u == [r EXCEPT !.firewall["UDP"].port = port]
      value == [ip |-> ip, port |-> port]
  IN  IF ip = "none" THEN u
      ELSE [u EXCEPT !.table = RchPut(r.table, d, value), !.told[d] = value]
RchAnswer == \E ip \in {"none", "natted"}, port \in RchPorts :
  /\ rch.request.state = "sent"
  /\ rch' = CASE rch.eXtl = "TCP" /\ rch.peer.ephemeral # 0 /\ rch.peer.natted = RchNowhere /\ ip # "none" ->
                   [rch EXCEPT !.peer.natted = [ip |-> ip, port |-> port], !.request = RchNoRequest]
              [] rch.eXtl # "TCP" /\ rch.learn_port ->
                   [RchLearned(rch, rch.request.domain, ip, port) EXCEPT !.request = RchNoRequest]
              [] OTHER -> [rch EXCEPT !.request = RchNoRequest]

-----------------------------------------------------------------------------
(* EXOSIP_OPT_ADD_DNS_CACHE: with the address, or without, when it is      *)
(* asked of the system unless it is there; EXOSIP_OPT_DELETE_DNS_CACHE.    *)
RchNameTold(r, h, ip) ==
  LET value == [ip |-> ip, port |-> 0]
      table == RchPut(r.table, h, value)
  IN  [r EXCEPT !.table = table, !.told[h] = IF RchAt(table, h) = {} THEN RchNowhere ELSE value]
RchAddName == \E h \in RchHosts, ip \in RchIps : rch' = RchNameTold(rch, h, ip)
RchAskName == \E h \in RchHosts, ip \in RchIps :
  rch' = IF RchAt(rch.table, h) # {} THEN rch ELSE RchNameTold(rch, h, ip)
RchDeleteName == \E h \in RchHosts :
  rch' = [rch EXCEPT !.table = RchDelete(rch.table, h), !.told[h] = RchNowhere]

RchNext ==
  \/ /\ rch.uses # {}
     /\ \/ RchListen \/ RchSetSocket \/ RchUdpReset \/ RchMasquerade
        \/ RchBuild \/ RchSend \/ RchConnect \/ RchAnswer
  \/ /\ rch.uses = {}
     /\ \/ RchAddName \/ RchAskName \/ RchDeleteName

RchSpec == RchInit /\ [][RchNext]_rch

-----------------------------------------------------------------------------
RchTypeOK ==
  /\ rch.eXtl \in rch.uses \cup {"none"} /\ Len(rch.table) <= RchSlots
  /\ \A t \in rch.uses : rch.firewall[t].port \in RchPorts \cup {0}

(* A request that is sent, or sent again, announces the address at which   *)
(* the one it is sent to saw the sender last, if that was learned and      *)
(* nothing of a related domain comes first.  A domain or a host is once in *)
(* its table, with what was told of it last, and is missing only if the    *)
(* table is full; whatever transport is used has a socket.                 *)
RchToldOnce(key) ==
  LET at == RchAt(rch.table, key)
  IN  /\ Cardinality(at) <= 1
      /\ \A i \in at : rch.table[i].value = rch.told[key]
      /\ (at = {} /\ rch.told[key] # RchNowhere) => Cardinality(RchKeys(rch.table)) = RchSlots
RchAnnounced(q) ==
  (q.told # RchNowhere /\ \A k \in RchKeys(rch.table) : RchSame(k, q.domain) => k = q.domain) =>
    q.host = q.told.ip /\ RchEffective(q.port) = q.told.port
RchKept ==
  /\ RchTypeOK
  /\ \A key \in RchDomains \cup RchHosts : RchToldOnce(key)
  /\ \A h \in RchHosts : RchResolve(rch.table, h) = IF rch.told[h] = RchNowhere THEN h ELSE rch.told[h].ip
  /\ rch.eXtl # "none" => rch.socket[rch.eXtl] # "none"
  /\ rch.request.state = "sent" => RchAnnounced(rch.request)
=============================================================================
