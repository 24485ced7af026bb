--------------------------------- MODULE Dtls -------------------------------
(***************************************************************************)
(* The DTLS transport of eXosip (eXtl_dtls.c): associations with the       *)
(* others over one UDP socket.  Whoever sends first is given the first     *)
(* free place of the table, and eXosip is the server; an association that  *)
(* eXosip asks for is always put in the first place, whatever is there,    *)
(* and connects the socket, which then hears nobody else.  What is written *)
(* on an association that was asked for goes where its socket is connected *)
(* (BIO_CTRL_DGRAM_SET_CONNECTED).                                         *)
(***************************************************************************)
EXTENDS Integers

CONSTANTS DtlsPeers,   \* addresses, port included, of the others
          DtlsSlots,   \* EXOSIP_MAX_SOCKETS
          DtlsSockets  \* sockets that are opened or given, one after the other

ASSUME DtlsAssumption == DtlsSlots \in Nat \ {0} /\ DtlsSockets \in Nat \ {0} /\ "none" \notin DtlsPeers

VARIABLE dtls

DtlsNoStream == [peer |-> "none", type |-> 0, socket |-> 0, shaken |-> FALSE]
DtlsServer == 1
DtlsClient == 2

(* socket: the one that is read, none at first; server_ctx, client_ctx:    *)
(* what associations are made from, if the certificates and the keys could *)
(* be read; connected: the peer that a socket is connected to; overrun:    *)
(* the entry that follows the table was read.                              *)
DtlsClosed ==
  [slots |-> [i \in 1..DtlsSlots |-> DtlsNoStream], socket |-> 0,
   server_ctx |-> FALSE, client_ctx |-> FALSE,
   connected |-> [s \in 1..DtlsSockets |-> "none"], overrun |-> FALSE]
DtlsInit == dtls = DtlsClosed

DtlsInUse(d) == {i \in 1..DtlsSlots : d.slots[i].type # 0}
DtlsFindServers(d, peer) ==
  {i \in DtlsInUse(d) : d.slots[i].peer = peer /\ d.slots[i].type = DtlsServer}
DtlsFind(d, peer) == {i \in DtlsInUse(d) : d.slots[i].peer = peer}
DtlsFirst(S) == CHOOSE i \in S : \A j \in S : i <= j
DtlsShutdownFree(d, i) == [d EXCEPT !.slots[i] = DtlsNoStream]
DtlsShaken(d, i, b) == [d EXCEPT !.slots[i].shaken = b]

(* dtls_tl_open: the contexts are there even if no socket can be bound.    *)
(* dtls_tl_set_socket: the associations stay on the socket they began on,  *)
(* which is not read any more, and no context is made.  dtls_tl_free, of   *)
(* eXosip_quit: everything is begun anew.                                  *)
DtlsInitializeServerCtx(d) == {[d EXCEPT !.server_ctx = b] : b \in BOOLEAN}
DtlsInitializeClientCtx(d) == {[d EXCEPT !.client_ctx = b] : b \in BOOLEAN}
DtlsOpen ==
  /\ dtls.socket = 0
  /\ \E d \in DtlsInitializeServerCtx(dtls) : \E e \in DtlsInitializeClientCtx(d) :
       dtls' \in {e, [e EXCEPT !.socket = 1]}
DtlsSetSocket ==
  /\ ~dtls.overrun /\ dtls.socket < DtlsSockets
  /\ dtls' = [dtls EXCEPT !.socket = @ + 1]
DtlsFree == ~dtls.overrun /\ dtls' = DtlsClosed

-----------------------------------------------------------------------------
(* dtls_tl_read_message.  A datagram is for the association of the one who *)
(* sent it, of either type, else for a new one; a full table is looked for *)
(* with "pos < 0", which it never is.  SSL_read takes the handshake        *)
(* further, gives what it decrypts, or ends the association.               *)
DtlsHears(d, peer) == d.connected[d.socket] \in {"none", peer}
DtlsAccepted(d, i, peer) ==
  [d EXCEPT !.slots[i] = [peer |-> peer, type |-> DtlsServer, socket |-> d.socket, shaken |-> FALSE]]
DtlsSslRead(d, i) == {d, DtlsShaken(d, i, TRUE), DtlsShutdownFree(d, i)}

DtlsReadMessage == \E peer \in DtlsPeers :
  /\ ~dtls.overrun /\ dtls.socket # 0 /\ DtlsHears(dtls, peer)
  /\ LET found == DtlsFind(dtls, peer)
         free == 1..DtlsSlots \ DtlsInUse(dtls)
         new == DtlsFirst(free)
     IN  \/ /\ found # {}
            /\ dtls' \in DtlsSslRead(dtls, DtlsFirst(found))
         \/ /\ found = {} /\ free # {}
            /\ \/ dtls' = dtls                    \* no key, or SSL_new failed
               \/ dtls.server_ctx /\ dtls' \in DtlsSslRead(DtlsAccepted(dtls, new, peer), new)
         \/ /\ found = {} /\ free = {}
            /\ dtls' = [dtls EXCEPT !.overrun = TRUE]

-----------------------------------------------------------------------------
(* dtls_tl_send_message.  A name that is not resolved yet, or never, and a *)
(* message without a text are not sent.  An association as a server is     *)
(* preferred to one as a client; the first place is emptied for a new one, *)
(* which SSL_new or connect may still refuse.                              *)
DtlsOfType(d, peer, type) == {i \in DtlsFind(d, peer) : d.slots[i].type = type}
DtlsUsed(d, peer) ==
  IF DtlsOfType(d, peer, DtlsServer) # {} THEN DtlsOfType(d, peer, DtlsServer)
  ELSE DtlsOfType(d, peer, DtlsClient)

DtlsConnected(d, peer) ==
  [d EXCEPT !.slots[1] = [peer |-> peer, type |-> DtlsClient, socket |-> d.socket, shaken |-> FALSE],
            !.connected[d.socket] = peer]

(* SSL_write: what is not written now fails the transaction, and ends the  *)
(* association unless the handshake is only not over yet.                  *)
DtlsSslWrite(d, i) == {d, DtlsShaken(d, i, TRUE), DtlsShutdownFree(d, i)}

DtlsSendMessage == \E peer \in DtlsPeers :
  /\ ~dtls.overrun /\ dtls.socket # 0
  /\ LET used == DtlsUsed(dtls, peer)
         emptied == DtlsShutdownFree(dtls, 1)
     IN  \/ dtls' = dtls
         \/ used # {} /\ dtls' \in DtlsSslWrite(dtls, DtlsFirst(used))
         \/ used = {} /\ dtls' = emptied
         \/ used = {} /\ dtls.client_ctx /\ dtls' \in DtlsSslWrite(DtlsConnected(dtls, peer), 1)

DtlsNext == DtlsOpen \/ DtlsSetSocket \/ DtlsFree \/ DtlsReadMessage \/ DtlsSendMessage

DtlsSpec == DtlsInit /\ [][DtlsNext]_dtls

-----------------------------------------------------------------------------
DtlsStream == [peer : DtlsPeers \cup {"none"}, type : {0, DtlsServer, DtlsClient},
               socket : 0..DtlsSockets, shaken : BOOLEAN]
DtlsTypeOK(d) ==
  d \in [slots : [1..DtlsSlots -> DtlsStream], socket : 0..DtlsSockets,
         server_ctx : BOOLEAN, client_ctx : BOOLEAN,
         connected : [1..DtlsSockets -> DtlsPeers \cup {"none"}], overrun : BOOLEAN]

(* Nobody has two associations, as a server and as a client, although each *)
(* side may begin one; what is written on an association that was asked    *)
(* for goes to its peer, although its socket is shared with, and connected *)
(* again for, others; the table is not overrun once the socket it reads is *)
(* connected, since the one it hears has, or finds, a place in the table.  *)
DtlsOneEach(d) == \A i, j \in DtlsInUse(d) : d.slots[i].peer = d.slots[j].peer => i = j
DtlsWritesToPeer(d) ==
  \A i \in DtlsInUse(d) :
    d.slots[i].type = DtlsClient => d.connected[d.slots[i].socket] = d.slots[i].peer
DtlsPlaceForHeard(d) ==
  d.socket # 0 /\ d.connected[d.socket] # "none" =>
    ~d.overrun /\ (DtlsFind(d, d.connected[d.socket]) # {} \/ DtlsInUse(d) # 1..DtlsSlots)
DtlsKept ==
  DtlsTypeOK(dtls) /\ DtlsOneEach(dtls) /\ DtlsWritesToPeer(dtls) /\ DtlsPlaceForHeard(dtls)
=============================================================================
