------------------------------- MODULE Servers ------------------------------
(***************************************************************************)
(* Which server a request is sent to: the record of one domain that        *)
(* eXosip_dnsutils_naptr keeps for REGISTERs (eXutils.c), and              *)
(* udp_tl_send_message, that takes the server of its index and rotates.    *)
(* The code has three resolvers, of which a build takes one: c-ares, which *)
(* is asked and answers or fails later, that of Windows and that of the    *)
(* system, for whose answers eXosip waits.  Requests wait at the eleven    *)
(* instants at which a request leaves (timer E).                           *)
(***************************************************************************)
EXTENDS Integers, Sequences, FiniteSets

CONSTANTS NapServers,    \* [name, priority, kind]
          NapAnswers,    \* orders in which SRV answers list them
          NapTable,      \* entries of osip_srv_record_t
          NapRequests    \* REGISTERs to the domain

ASSUME NapAssumption ==
  /\ \A a \in NapAnswers : \A n \in DOMAIN a : a[n] \in NapServers
  /\ \A s \in NapServers : s.kind \in {"up", "silent", "refusing", "unknown"}
  /\ NapTable \in Nat \ {0}

VARIABLE nap

NapLast   == 11           \* requests that leave before timer F
NapWindow == 6            \* the one that leaves after 11 or 12 seconds

(* udp: whether there is a name to ask for and the table of its servers;   *)
(* channel: the query under way; guessed: the domain has no NAPTR;         *)
(* broken: a select failed; cut: a list of servers was not read to its end.*)
NapRecord == [state |-> "UNKNOWN", name |-> FALSE, table |-> <<>>, index |-> 1,
              channel |-> FALSE, guessed |-> FALSE, broken |-> FALSE, cut |-> FALSE]
(* linked: naptr_record; turned: another request rotated meanwhile.        *)
NapIdle   == [state |-> "none", copies |-> 0, linked |-> FALSE, heard |-> FALSE,
              tried |-> {}, refused |-> FALSE, turned |-> FALSE, early |-> FALSE]
NapInit   == \E resolver \in {"c-ares", "Windows", "system"} :
  nap = [resolver |-> resolver, record |-> NapRecord, cached |-> FALSE,
         requests |-> [r \in NapRequests |-> NapIdle]]

-----------------------------------------------------------------------------
(* Each SRV is put behind those there are, and sorted by priority alone;   *)
(* what does not fit is skipped.                                           *)
osip_srv_record_sort(table, server) ==
  LET before == SelectSeq(table, LAMBDA s : s.priority <= server.priority)
      behind == SelectSeq(table, LAMBDA s : s.priority > server.priority)
  IN  before \o <<server>> \o behind
save_SRV(table, server) ==
  IF Len(table) = NapTable THEN table ELSE osip_srv_record_sort(table, server)
NapStored(answer) ==
  LET stored[n \in 0 .. Len(answer)] ==
        IF n = 0 THEN <<>> ELSE save_SRV(stored[n - 1], answer[n])
  IN  stored[Len(answer)]

NapDone(rec, state) == [rec EXCEPT !.state = state, !.channel = FALSE]
(* Of the answer to a SRV query, or of one that came with the NAPTR.  One  *)
(* of another transport is enough.                                         *)
_store_srv(rec) ==
  {[NapDone(rec, "SRVDONE") EXCEPT !.table = NapStored(a)] : a \in NapAnswers}
    \cup {NapDone(rec, "SRVDONE")}
NapUnserved(rec) == NapDone(rec, IF rec.guessed THEN "NOTSUPPORTED" ELSE "RETRYLATER")

(* A NAPTR of UDP gives the name to ask for. *)
save_NAPTR(rec) == [rec EXCEPT !.name = TRUE]

(* eXosip_dnsutils_srv_lookup in state NAPTRDONE asks for every name. *)
NapAsked(rec) ==
  IF ~rec.name THEN NapDone(rec, "NOTSUPPORTED")
  ELSE [rec EXCEPT !.state = "SRVINPROGRESS", !.channel = TRUE]
_naptr_callback(rec) ==
  {NapDone(rec, "RETRYLATER"),                                  \* failure
   NapAsked([rec EXCEPT !.name = TRUE, !.guessed = TRUE]),      \* no NAPTR
   NapAsked(save_NAPTR(rec)), NapAsked(rec)}
    \cup _store_srv(save_NAPTR(rec))

(* A select that fails while a channel is looked at ends the channel; only *)
(* eXosip_dnsutils_srv_lookup then gives up the record.                    *)
eXosip_dnsutils_srv_lookup(rec) ==
  IF rec.state # "SRVINPROGRESS" \/ ~rec.channel THEN {rec}
  ELSE {rec, NapUnserved(rec), NapDone(rec, "RETRYLATER")} \cup _store_srv(rec)
eXosip_dnsutils_dns_process(rec) ==
  IF nap.resolver # "c-ares" THEN {rec} ELSE
  UNION {IF ~r.channel THEN {r}
         ELSE {r, [r EXCEPT !.channel = FALSE, !.broken = TRUE]}
              \cup (IF r.state = "INPROGRESS" THEN _naptr_callback(r)
                    ELSE eXosip_dnsutils_srv_lookup(r)) :
         r \in eXosip_dnsutils_srv_lookup(rec)}

eXosip_dnsutils_naptr_lookup ==
  LET rec == [NapRecord EXCEPT !.state = "INPROGRESS", !.channel = TRUE]
  IN  {rec, NapDone(rec, "RETRYLATER")} \cup _naptr_callback(rec)
(* A record that is to be tried later is begun anew. *)
NapAnew == ~nap.cached \/ nap.record.state = "RETRYLATER"
eXosip_dnsutils_naptr ==
  IF NapAnew THEN eXosip_dnsutils_naptr_lookup ELSE eXosip_dnsutils_srv_lookup(nap.record)

-----------------------------------------------------------------------------
(* The other two, which wait.  The servers of a SRV answer are sorted once *)
(* they are all there, if the answer of the system is well formed.         *)
NapOfWindows(rec) == {[rec EXCEPT !.table = NapStored(a)] : a \in NapAnswers}
NapOfSystem(rec) ==
  NapOfWindows(rec) \cup
    UNION {{[rec EXCEPT !.table = SubSeq(a, 1, n), !.cut = TRUE] :
              n \in {n \in 1 .. Len(a) - 1 : n < NapTable}} : a \in NapAnswers}

(* eXosip_dnsutils_srv_lookup: every name is asked for at once.            *)
NapServed(rec, answers) ==
  {[r EXCEPT !.state = "SRVDONE"] : r \in {rec} \cup IF rec.name THEN answers ELSE {}}
    \cup {[rec EXCEPT !.state = "RETRYLATER"]}

(* eXosip_dnsutils_naptr_lookup.  Windows leaves the record as it is when  *)
(* it fails, and takes the servers that come with the answer.              *)
NapAskWindows ==
  LET named == {[NapRecord EXCEPT !.name = b] : b \in BOOLEAN}
  IN  {NapRecord} \cup {[r EXCEPT !.state = "NAPTRDONE"] : r \in named}
        \cup UNION {NapServed(r, NapOfWindows(r)) \ {[r EXCEPT !.state = "RETRYLATER"]} : r \in named}
NapAskSystem ==
  {[NapRecord EXCEPT !.state = state] : state \in {"NOTSUPPORTED", "RETRYLATER"}}
    \cup {[NapRecord EXCEPT !.state = "NAPTRDONE", !.name = b] : b \in BOOLEAN}

(* eXosip_dnsutils_naptr of each: what is known stays as it is.            *)
NapWindows ==
  IF ~NapAnew THEN {nap.record}
  ELSE UNION {IF r.state = "NAPTRDONE" THEN NapServed(r, NapOfWindows(r)) ELSE {r} : r \in NapAskWindows}
NapSystem ==
  IF ~NapAnew THEN {nap.record}
  ELSE UNION {IF r.state = "NAPTRDONE" THEN NapServed(r, NapOfSystem(r)) ELSE {r} : r \in NapAskSystem}

NapFound ==
  CASE nap.resolver = "c-ares"  -> eXosip_dnsutils_naptr
    [] nap.resolver = "Windows" -> NapWindows
    [] nap.resolver = "system"  -> NapSystem

-----------------------------------------------------------------------------
(* The next server; behind a full table lies the name of the next record.  *)
eXosip_dnsutils_rotate_srv_further(rec) == [rec EXCEPT !.index = @ + 1]
eXosip_dnsutils_rotate_srv(rec) ==
  [rec EXCEPT !.index = IF @ < Len(rec.table) \/ @ = NapTable THEN @ + 1 ELSE 1]
NapBeyond == [name |-> "beyond", priority |-> 0, kind |-> "unknown"]
NapServer(rec) == IF rec.index \in DOMAIN rec.table THEN rec.table[rec.index] ELSE NapBeyond

NapSent(r, rec, request) ==
  nap' = [nap EXCEPT !.record = rec,
            !.requests = [q \in NapRequests |->
               IF q = r THEN [request EXCEPT !.copies = @ + 1]
               ELSE [nap.requests[q] EXCEPT !.turned = @ \/ rec.index # nap.record.index]]]
NapTried(r, server) ==
  [nap.requests[r] EXCEPT !.state = "waiting", !.tried = @ \cup {server},
     !.early = @ \/ (server # "domain" /\ nap.requests[r].copies < NapWindow)]
NapFails(r) == [nap.requests[r] EXCEPT !.state = "error"]
NapNotSent(r) == [nap.requests[r] EXCEPT !.state = "waiting"]

(* udp_tl_send_message: without servers the address of the domain is used; *)
(* the loop over names that have no address ends after its first round; a  *)
(* failing sendto rotates, and so does the copy that leaves after eleven   *)
(* seconds without an answer.                                              *)
udp_tl_send_message(r) ==
  \E first \in eXosip_dnsutils_dns_process(nap.record) :
  \E rec \in eXosip_dnsutils_dns_process(first) :
    LET server == NapServer(rec)
        next   == eXosip_dnsutils_rotate_srv(rec)
        now    == nap.requests[r].copies + 1
    IN  \/ /\ rec.state \in {"NOTSUPPORTED", "RETRYLATER", "UNKNOWN"}
           /\ NapSent(r, rec, [NapTried(r, "domain") EXCEPT !.linked = FALSE])
        \/ rec.state \in {"INPROGRESS", "SRVINPROGRESS"} /\ NapSent(r, rec, NapNotSent(r))
        \/ rec.state = "SRVDONE" /\ rec.table = <<>> /\ NapSent(r, rec, NapTried(r, "domain"))
        \/ /\ rec.state = "SRVDONE" /\ rec.table # <<>>
           /\ CASE server.kind = "unknown" -> NapSent(r, next, NapFails(r))
                [] server.kind = "refusing" /\ Len(rec.table) > 1 ->
                     NapSent(r, next, [NapNotSent(r) EXCEPT !.refused = TRUE])
                [] server.kind = "refusing" -> NapSent(r, next, NapFails(r))
                [] OTHER ->
                     NapSent(r, IF now = NapWindow /\ ~nap.requests[r].heard THEN next ELSE rec,
                             NapTried(r, server.name))

-----------------------------------------------------------------------------
(* nict_snd_request and osip_nict_timeout_e_event; timer F.                *)
NapSends(r) ==
  /\ nap.requests[r].state = "waiting" /\ nap.requests[r].copies < NapLast
  /\ IF nap.requests[r].linked THEN udp_tl_send_message(r)
     ELSE NapSent(r, nap.record, NapTried(r, "domain"))
(* Windows may know of no DNS server, and then gives no record. *)
NapUnconfigured(r) ==
  /\ nap.resolver = "Windows"
  /\ nap' = [nap EXCEPT !.requests[r] = [NapIdle EXCEPT !.state = "waiting"]]
_eXosip_transaction_init(r) ==
  /\ nap.requests[r].state = "none"
  /\ \/ NapUnconfigured(r)
     \/ \E rec \in NapFound :
          nap' = [nap EXCEPT !.record = rec, !.cached = TRUE,
                             !.requests = [q \in NapRequests |->
                               IF q = r THEN [NapIdle EXCEPT !.state = "waiting", !.linked = TRUE]
                               ELSE [@[q] EXCEPT !.turned = @ \/ rec.index # nap.record.index]]]
NapTimesOut(r) ==
  /\ nap.requests[r].state = "waiting" /\ nap.requests[r].copies = NapLast
  /\ nap' = [nap EXCEPT !.requests[r].state = "timeout"]

(* A server that is up answers when it likes; the first answer may be      *)
(* provisional.                                                            *)
NapAnswered(r) ==
  /\ nap.requests[r].state = "waiting"
  /\ \E s \in NapServers : s.name \in nap.requests[r].tried /\ s.kind = "up"
  /\ \/ nap' = [nap EXCEPT !.requests[r].state = "answered"]
     \/ ~nap.requests[r].heard /\ nap' = [nap EXCEPT !.requests[r].heard = TRUE]

NapNext ==
  \E r \in NapRequests :
    NapSends(r) \/ _eXosip_transaction_init(r) \/ NapTimesOut(r) \/ NapAnswered(r)

NapSpec == NapInit /\ [][NapNext]_nap

-----------------------------------------------------------------------------
(* The index is that of a server, unless the table was full and the        *)
(* rotation left it at its end; the servers are in the order of their      *)
(* priorities, unless the answer that listed them broke off.               *)
NapTableKept ==
  LET table == nap.record.table
  IN  /\ table # <<>> /\ Len(table) < NapTable => nap.record.index \in DOMAIN table
      /\ \A i, j \in DOMAIN table : i < j /\ ~nap.record.cut => table[i].priority <= table[j].priority

(* A record that waits for the resolver has a query under way, or every    *)
(* later request would wait for it in vain; a failing select is the one    *)
(* case in which it has none.                                              *)
NapNeverStuck ==
  nap.record.state \in {"INPROGRESS", "SRVINPROGRESS"} => nap.record.channel \/ nap.record.broken

(* Failover: a request that had the record to itself and was sent to a     *)
(* server in time does not time out at that server alone when there are    *)
(* others; and it is given up only when a name had no address or the only  *)
(* server refuses.                                                         *)
NapAnotherTried(r) ==
  LET q == nap.requests[r]
      table == nap.record.table
  IN  /\ q.state = "timeout" /\ q.early /\ ~q.turned /\ ~q.heard /\ Len(table) \in 2 .. NapTable - 1 =>
           Cardinality(q.tried) > 1 \/ q.refused
      /\ q.state = "error" /\ Len(table) < NapTable =>
           \/ \E n \in DOMAIN table : table[n].kind = "unknown"
           \/ table # <<>> /\ Len(table) = 1 /\ table[1].kind = "refusing"

ServersTried == NapTableKept /\ NapNeverStuck /\ \A r \in NapRequests : NapAnotherTried(r)
=============================================================================
