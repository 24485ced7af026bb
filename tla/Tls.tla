--------------------------------- MODULE Tls --------------------------------
(***************************************************************************)
(* The TLS transport of eXosip (eXtl_tls.c): the table of connections of   *)
(* the TCP transport with a handshake for each.  A connection that was     *)
(* asked for is pending, then connected (ssl_state 1), then its            *)
(* certificate was accepted (3); one that was accepted begins at 2.  The   *)
(* handshake is taken further by whoever comes first: the thread of the    *)
(* stack, which accepts, reads and keeps alive without the lock, or the    *)
(* one that sends with the lock, one at a time.  A step ends where the     *)
(* code asks the kernel or OpenSSL and where it looked at what it is       *)
(* about to change; the other thread may come in between.                  *)
(***************************************************************************)
EXTENDS Integers, FiniteSets, FiniteSetsExt

CONSTANTS TlsPeers,        \* addresses, port included, of the others
          TlsSlots,        \* EXOSIP_MAX_SOCKETS
          TlsCertificates, \* what the others show: "good", "selfsigned", "wrong" or "none"
          TlsPinned        \* a certificate of the server was configured

ASSUME TlsAssumption ==
  /\ TlsSlots \in Nat \ {0} /\ TlsPinned \in BOOLEAN
  /\ TlsCertificates \subseteq {"good", "selfsigned", "wrong", "none"}

VARIABLES tls,     \* the table
          tlsAt,   \* where each of the two threads is
          tlsTorn  \* whose slot was closed or filled by the other, and why

(* A slot as it is filled: one that was accepted has its handshake behind  *)
(* it, one that was asked for does not.                                    *)
TlsStream(sock, peer, server, pending) ==
  [sock |-> sock, peer |-> peer, server |-> server, pending |-> pending, invalid |-> FALSE,
   ssl_state |-> IF server THEN 2 ELSE 0, ssl_conn |-> server]
TlsNoStream == TlsStream(0, "none", FALSE, FALSE)

(* A connection of the kernel and the TLS layer on it. *)
TlsClosed == [status |-> "none", cert |-> "none", shaken |-> FALSE]

TlsThreads == {"reader", "sender"}
TlsIdle == [pc |-> "idle", slot |-> 0, peer |-> "none"]

(* exposed: a message was taken from, or given to, a connection whose      *)
(* handshake was not over or whose certificate was not accepted.           *)
TlsInit ==
  /\ tls = [slots |-> [i \in 1..TlsSlots |-> TlsNoStream],
            conns |-> [f \in 1..TlsSlots |-> TlsClosed], exposed |-> FALSE]
  /\ tlsAt = [w \in TlsThreads |-> TlsIdle] /\ tlsTorn = {}
tlsVars == <<tls, tlsAt, tlsTorn>>

TlsFreeFd(t) == Min({f \in 1..TlsSlots : t.conns[f] = TlsClosed})
TlsCloseSockinfo(t, i) ==
  [t EXCEPT !.slots[i] = TlsNoStream, !.conns[t.slots[i].sock] = TlsClosed]
TlsCloseAll(t, doomed) ==
  [t EXCEPT !.slots = [i \in 1..TlsSlots |-> IF i \in doomed THEN TlsNoStream ELSE t.slots[i]],
            !.conns = [f \in 1..TlsSlots |-> IF f \in {t.slots[i].sock : i \in doomed}
                                              THEN TlsClosed ELSE t.conns[f]]]

TlsInUse(t)            == {i \in 1..TlsSlots : t.slots[i].sock # 0}
TlsFindSocket(t, peer) == {i \in TlsInUse(t) : t.slots[i].peer = peer}
TlsConn(t, i)          == t.conns[t.slots[i].sock]
TlsIsConnected(t, i)   == CASE TlsConn(t, i).status = "connecting" -> 1
                            [] TlsConn(t, i).status \in {"up", "closed"} -> 0
                            [] OTHER -> -1

TlsAccepted(cert)   == cert = "good" \/ (cert = "selfsigned" /\ ~TlsPinned)
TlsTrusted(t, i)    == TlsConn(t, i).shaken /\ (t.slots[i].server \/ TlsAccepted(TlsConn(t, i).cert))
TlsCarries(t, i)    == [t EXCEPT !.exposed = @ \/ ~TlsTrusted(t, i)]

-----------------------------------------------------------------------------
(* The connections come up, are closed and break. *)
TlsBecomes(status) == CASE status = "up" -> {"closed", "broken"}
                        [] status = "connecting" -> {"up", "broken"}
                        [] OTHER -> {}
TlsPeerActs ==
  /\ \E f \in 1..TlsSlots : \E s \in TlsBecomes(tls.conns[f].status) :
       tls' = [tls EXCEPT !.conns[f].status = s]
  /\ UNCHANGED <<tlsAt, tlsTorn>>

-----------------------------------------------------------------------------
(* Thread w goes on to pc, with slot i or with the one it has; whose slot  *)
(* the other is in the middle of using.                                    *)
TlsOther(w)     == IF w = "reader" THEN "sender" ELSE "reader"
TlsAtSlot(pc, i) == [pc |-> pc, slot |-> i, peer |-> "none"]
TlsGoes(w, pc)  == tlsAt' = [tlsAt EXCEPT ![w] = TlsAtSlot(pc, tlsAt[w].slot)]
TlsEnds(w)      == tlsAt' = [tlsAt EXCEPT ![w] = TlsIdle]
TlsUsing(w)     == tlsAt[w].pc \notin {"idle", "accept", "open"}
TlsTears(w, doomed, why) ==
  {<<TlsOther(w), why>> : i \in {j \in doomed : TlsUsing(TlsOther(w)) /\ tlsAt[TlsOther(w)].slot = j}}

(* The connection is known to be up, after a look at it (is_connected). *)
TlsConnectedNow(t, i) == [t EXCEPT !.slots[i] = [t.slots[i] EXCEPT !.ssl_state = 1, !.pending = FALSE]]
TlsLooked(w) ==
  /\ tlsAt[w].pc = "looked"
  /\ tls' = TlsConnectedNow(tls, tlsAt[w].slot)
  /\ TlsGoes(w, "shake") /\ UNCHANGED tlsTorn

(* _tls_tl_ssl_connect_socket: the handshake fails, is under way, or is    *)
(* over (once, whoever asks) and the certificate that came with it is      *)
(* looked at.  When it is under way the thread that reads looks once more  *)
(* at what the other may have made of it.                                  *)
TlsBegun(t, i) == [t EXCEPT !.slots[i] = [t.slots[i] EXCEPT !.ssl_conn = TRUE]]
TlsShown(conn) == IF conn.shaken THEN {conn.cert} ELSE TlsCertificates
TlsShaken(t, i, cert) ==
  [t EXCEPT !.slots[i] = [t.slots[i] EXCEPT !.ssl_conn = TRUE],
            !.conns[t.slots[i].sock] = [TlsConn(t, i) EXCEPT !.shaken = TRUE, !.cert = cert]]
TlsVerdictUnchecked(cert) == "passed"
TlsVerdict(cert) == IF TlsAccepted(cert) THEN "passed" ELSE "failed"
TlsSslConnect(w) ==
  LET i == tlsAt[w].slot
      up == TlsConn(tls, i).status = "up"
  IN  /\ tlsAt[w].pc = "shake" /\ UNCHANGED tlsTorn
      /\ \/ UNCHANGED tls /\ TlsGoes(w, "failed")
         \/ /\ up /\ tls' = TlsBegun(tls, i)
            /\ IF w = "reader" /\ tls.slots[i].ssl_state = 3 THEN TlsGoes(w, "read") ELSE TlsEnds(w)
         \/ up /\ \E cert \in TlsShown(TlsConn(tls, i)) :
                    tls' = TlsShaken(tls, i, cert) /\ TlsGoes(w, TlsVerdict(cert))

(* What the thread found of the connection goes into the slot. *)
TlsPassed(w) ==
  /\ tlsAt[w].pc = "passed"
  /\ tls' = [tls EXCEPT !.slots[tlsAt[w].slot].ssl_state = 3]
  /\ TlsGoes(w, IF w = "reader" THEN "read" ELSE "write") /\ UNCHANGED tlsTorn
TlsFailed(w) ==
  LET i == tlsAt[w].slot
  IN  /\ tlsAt[w].pc = "failed"
      /\ tls' = TlsCloseSockinfo(tls, i)
      /\ TlsEnds(w) /\ tlsTorn' = TlsTears(w, {i}, "failed")

-----------------------------------------------------------------------------
(* tls_tl_read_message: a full table loses its first connection before     *)
(* accept is asked; SSL_accept is waited for before the slot is filled.    *)
TlsEvicted(t) == IF TlsInUse(t) = 1..TlsSlots THEN TlsCloseSockinfo(t, 1) ELSE t
TlsServers(t) == {i \in TlsInUse(t) : t.slots[i].server}

TlsAccept ==
  /\ tlsAt["reader"].pc = "idle"
  /\ tls' = TlsEvicted(tls)
  /\ tlsAt' = [tlsAt EXCEPT !["reader"] = TlsAtSlot("accept", Min(1..TlsSlots \ TlsInUse(TlsEvicted(tls))))]
  /\ tlsTorn' = IF TlsInUse(tls) = 1..TlsSlots THEN TlsTears("reader", {1}, "evicted") ELSE {}

(* A slot that was found free is filled with a connection, unless the      *)
(* other thread filled it meanwhile: then that connection is overwritten.  *)
TlsTake(t, i, stream, conn) ==
  [t EXCEPT !.conns[stream.sock] = conn, !.slots[i] = stream]
TlsFills(w) == tlsAt[w].slot \notin TlsInUse(tls) /\ UNCHANGED tlsTorn
TlsOverwrites(w) ==
  /\ tlsAt[w].slot \in TlsInUse(tls) /\ tlsTorn' = {<<w, "taken">>}
  /\ UNCHANGED tls /\ TlsEnds(w)

TlsAcceptEnds ==
  /\ tlsAt["reader"].pc = "accept" /\ TlsEnds("reader")
  /\ \/ UNCHANGED <<tls, tlsTorn>>              \* no connection, no context, no handshake
     \/ /\ tls' = TlsCloseAll(tls, TlsServers(tls))    \* EBADF: opened again
        /\ tlsTorn' = TlsTears("reader", TlsServers(tls), "reopened")
     \/ /\ TlsFills("reader")
        /\ \E p \in TlsPeers :
             tls' = TlsTake(tls, tlsAt["reader"].slot, TlsStream(TlsFreeFd(tls), p, TRUE, FALSE),
                            [status |-> "up", cert |-> "none", shaken |-> TRUE])
     \/ TlsOverwrites("reader")

(* _tls_tl_recv of a connection that select found readable, up to the      *)
(* handshake or the first byte.                                            *)
TlsRecv ==
  /\ tlsAt["reader"].pc = "idle" /\ UNCHANGED <<tls, tlsTorn>>
  /\ \E i \in TlsInUse(tls) :
       LET s == tls.slots[i].ssl_state
           r == TlsIsConnected(tls, i)
           pcs == CASE s = 0 -> IF r = 0 THEN {"looked"} ELSE IF r = -1 THEN {"failed"} ELSE {}
                    [] s = 1 -> {"shake"}
                    [] s = 2 -> IF TlsConn(tls, i).status = "up" THEN {"passed"} ELSE {"passed", "failed"}
                    [] OTHER -> {"read"}
       IN  \E pc \in pcs : tlsAt' = [tlsAt EXCEPT !["reader"] = TlsAtSlot(pc, i)]

(* SSL_read, and then the messages in the buffer (handle_messages). *)
TlsRead ==
  LET i == tlsAt["reader"].slot
      up == TlsConn(tls, i).status = "up"
  IN  /\ tlsAt["reader"].pc = "read" /\ UNCHANGED tlsTorn
      /\ \/ up /\ UNCHANGED tls /\ TlsEnds("reader")
         \/ up /\ tls' = TlsCarries(tls, i) /\ TlsGoes("reader", "walk")
         \/ ~up /\ UNCHANGED tls /\ TlsGoes("reader", "failed")
TlsHandleMessages ==
  tlsAt["reader"].pc = "walk" /\ TlsEnds("reader") /\ UNCHANGED <<tls, tlsTorn>>

(* tls_tl_keepalive writes where the handshake is over. *)
TlsKeepalive == \E i \in TlsInUse(tls) :
  /\ tlsAt["reader"].pc = "idle" /\ tls.slots[i].ssl_state > 2
  /\ tlsAt' = [tlsAt EXCEPT !["reader"] = TlsAtSlot("write", i)] /\ UNCHANGED <<tls, tlsTorn>>

(* SSL_write, of an empty message or of one that is sent. *)
TlsWrite(w) ==
  /\ tlsAt[w].pc = "write" /\ tls' = TlsCarries(tls, tlsAt[w].slot)
  /\ TlsEnds(w) /\ UNCHANGED tlsTorn

-----------------------------------------------------------------------------
(* _tls_tl_check_connected: known is those that came up between its        *)
(* connect and its look at the socket.                                     *)
TlsInvalid(t) == {i \in 1..TlsSlots : t.slots[i].invalid}
TlsProbed(t) ==
  {i \in TlsInUse(t) : t.slots[i].pending /\ ~t.slots[i].invalid /\ t.slots[i].ssl_state = 0}
TlsProbedAs(t, status) == {i \in TlsProbed(t) : TlsConn(t, i).status = status}
TlsCheckConnected(t, known) ==
  LET settled == [i \in 1..TlsSlots |->
                    [t.slots[i] EXCEPT
                       !.pending = i \in TlsProbedAs(t, "connecting"),
                       !.ssl_state = IF i \in known THEN 1 ELSE t.slots[i].ssl_state]]
  IN  TlsCloseAll([t EXCEPT !.slots = settled], TlsInvalid(t) \cup TlsProbedAs(t, "broken"))

(* What is done with the connection that is to be used, pos, or with the   *)
(* one the transaction came on, via, if it came on any: although the code  *)
(* looks for another, it then writes on that one, unless pos has a         *)
(* handshake to make.                                                      *)
TlsChosen(t, pos, via) ==
  LET carrier == IF via = 0 THEN pos ELSE via
  IN  CASE t.slots[pos].ssl_state = 0 ->
             IF TlsIsConnected(t, pos) = 0 THEN TlsAtSlot("looked", pos) ELSE TlsIdle
        [] t.slots[pos].ssl_state = 1 -> TlsAtSlot("shake", pos)
        [] OTHER -> IF t.slots[carrier].ssl_conn THEN TlsAtSlot("write", carrier) ELSE TlsIdle

(* tls_tl_send_message, once the name is resolved: the connections are     *)
(* checked, then one is found or a slot for a new one.                     *)
TlsSendMessage ==
  /\ tlsAt["sender"].pc = "idle"
  /\ \E peer \in TlsPeers, via \in {0} \cup {i \in TlsInUse(tls) : tls.slots[i].ssl_state = 3},
        known \in SUBSET TlsProbedAs(tls, "up") :
     LET t == TlsCheckConnected(tls, known)
         from == IF via \in TlsInUse(t) THEN via ELSE 0
         to == TlsFindSocket(t, peer)
     IN  /\ tls' = t
         /\ tlsAt' = [tlsAt EXCEPT !["sender"] =
              IF to # {} THEN TlsChosen(t, Min(to), from)
              ELSE IF from # 0 THEN TlsChosen(t, from, from)
              ELSE IF TlsInUse(t) = 1..TlsSlots THEN TlsIdle
              ELSE [pc |-> "open", slot |-> Min(1..TlsSlots \ TlsInUse(t)), peer |-> peer]]
  /\ tlsTorn' = TlsTears("sender", TlsInvalid(tls), "reset")
                \cup TlsTears("sender", TlsProbedAs(tls, "broken"), "broken")

(* _tls_tl_connect_socket: no connection; one that is under way, maybe up  *)
(* when it is looked at again; one that is up, which is known before or    *)
(* after the slot is filled.                                               *)
TlsOpened(status, pending) ==
  TlsTake(tls, tlsAt["sender"].slot, TlsStream(TlsFreeFd(tls), tlsAt["sender"].peer, FALSE, pending),
          [status |-> status, cert |-> "none", shaken |-> FALSE])
TlsConnectSocket ==
  /\ tlsAt["sender"].pc = "open"
  /\ \/ TlsEnds("sender") /\ UNCHANGED <<tls, tlsTorn>>
     \/ /\ TlsFills("sender")
        /\ \/ tls' = TlsOpened("connecting", TRUE) /\ TlsEnds("sender")
           \/ \E pending \in BOOLEAN :
                tls' = TlsOpened("up", pending) /\ TlsGoes("sender", "looked")
           \/ /\ tls' = TlsConnectedNow(TlsOpened("up", FALSE), tlsAt["sender"].slot)
              /\ TlsGoes("sender", "shake")
     \/ TlsOverwrites("sender")

(* tls_tl_reset, by the application and without the lock, leaves the       *)
(* closing to the next send.                                               *)
TlsReset ==
  /\ tls' = [tls EXCEPT !.slots =
               [i \in 1..TlsSlots |-> [tls.slots[i] EXCEPT !.invalid = i \in TlsInUse(tls)]]]
  /\ UNCHANGED <<tlsAt, tlsTorn>>

(* A thread whose slot was closed or filled by the other goes on with      *)
(* freed memory: what it does then is undefined, and the model ends.       *)
TlsNext ==
  /\ tlsTorn = {}
  /\ \/ TlsPeerActs
     \/ \E w \in TlsThreads :
          TlsLooked(w) \/ TlsSslConnect(w) \/ TlsPassed(w) \/ TlsFailed(w) \/ TlsWrite(w)
     \/ TlsAccept \/ TlsAcceptEnds \/ TlsRecv \/ TlsRead \/ TlsHandleMessages \/ TlsKeepalive
     \/ TlsSendMessage \/ TlsConnectSocket \/ TlsReset

TlsSpec == TlsInit /\ [][TlsNext]_tlsVars

-----------------------------------------------------------------------------
TlsTypeOK ==
  \A i \in 1..TlsSlots : tls.slots[i].ssl_state \in 0..3 /\ tls.slots[i].sock \in 0..TlsSlots

(* What the code does not keep apart: the thread that reads loses its slot *)
(* to a send after a reset, after the failure of a connection whose        *)
(* connect is still pending, and after the failure of a handshake both     *)
(* take further; the one that sends loses its own to a failure, an         *)
(* eviction or the reopening of the listening socket; and both may fill    *)
(* the slot that both found free.                                          *)
TlsTearings ==
  ({"reader"} \X {"reset", "broken", "failed", "taken"})
  \cup ({"sender"} \X {"failed", "evicted", "reopened", "taken"})

(* No message is handed to the stack from, or written to, a connection     *)
(* before its handshake is over and its certificate accepted, however the  *)
(* steps of the thread that reads fall between those of the one that       *)
(* sends; no descriptor is in two slots or in none, and a slot that is     *)
(* ready has a TLS connection: as long as neither closes or fills the slot *)
(* the other is in the middle of using, which happens in no other way than *)
(* those listed above.                                                     *)
TlsGuarded ==
  /\ ~tls.exposed
  /\ \A f \in 1..TlsSlots :
       Cardinality({i \in TlsInUse(tls) : tls.slots[i].sock = f})
         = (IF tls.conns[f] = TlsClosed THEN 0 ELSE 1)
  /\ \A i \in TlsInUse(tls) : tls.slots[i].ssl_state \in {2, 3} => TlsTrusted(tls, i)
TlsNothingExposed == tlsTorn \subseteq TlsTearings /\ (tlsTorn = {} => TlsTypeOK /\ TlsGuarded)
=============================================================================
