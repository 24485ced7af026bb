--------------------------------- MODULE Tcp --------------------------------
(***************************************************************************)
(* The TCP transport of eXosip (eXtl_tcp.c): a table of connections that   *)
(* the stack's thread selects, accepts on and reads, without the lock, and *)
(* that every send of any thread checks, searches and adds to.  The bytes  *)
(* of a stream are tokens: the headers of a message, the empty line that   *)
(* ends them, and the pieces of a body.  The kernel hands descriptors out  *)
(* again, lowest first, as soon as they are closed.                        *)
(***************************************************************************)
EXTENDS Integers, FiniteSets, FiniteSetsExt, SequencesExt

CONSTANTS TcpPeers,     \* addresses, port included, of the others
          TcpTalkers,   \* those of them that send something
          TcpSlots,     \* EXOSIP_MAX_SOCKETS
          TcpMaxFd,     \* bound: descriptors
          TcpMessages,  \* bound: messages on one connection
          TcpBufSize    \* SIP_MESSAGE_MAX_LENGTH, in tokens

ASSUME TcpAssumption ==
  TcpTalkers \subseteq TcpPeers /\ {TcpSlots, TcpMaxFd, TcpMessages, TcpBufSize} \subseteq Nat

VARIABLE tcp

TcpListening == 0

TcpHeaders(k)   == [kind |-> "head", msg |-> k, clen |-> k % 2]
TcpEmptyLine == [kind |-> "crlfcrlf"]
TcpBody(k)   == [kind |-> "body", msg |-> k]

(* What a peer sends on a connection: messages, a keep-alive before each   *)
(* second one.                                                             *)
TcpMessage(k) == <<TcpHeaders(k), TcpEmptyLine>> \o [i \in 1..(k % 2) |-> TcpBody(k)]
TcpStream ==
  FlattenSeq([k \in 1..TcpMessages |->
                IF k % 2 = 0 THEN <<TcpEmptyLine>> \o TcpMessage(k) ELSE TcpMessage(k)])

TcpNoStream == [sock |-> 0, peer |-> "none", server |-> FALSE, pending |-> FALSE,
                invalid |-> FALSE, buf |-> <<>>, size |-> 0]

(* A connection of the kernel, under its descriptor: how much of its       *)
(* stream was read and how many messages were handed to the stack.         *)
TcpClosed == [status |-> "none", read |-> 0, handed |-> 0, garbled |-> FALSE]

(* slots: socket_tab; fdset and pos: read_message; walk: how far           *)
(* handle_messages has come in the buffer of slot pos; freed: why that     *)
(* buffer was freed under it, if it was.                                   *)
TcpInit ==
  tcp = [slots |-> [i \in 1..TcpSlots |-> TcpNoStream],
         conns |-> [f \in 1..TcpMaxFd |-> TcpClosed], backlog |-> {},
         fdset |-> {}, pc |-> "idle", pos |-> 1, walk |-> 0, freed |-> "no"]

TcpFreeFds(t) == {f \in 1..TcpMaxFd : t.conns[f] = TcpClosed}
TcpFreeFd(t)  == Min(TcpFreeFds(t))
TcpOpened(t, status) == [t EXCEPT !.conns[TcpFreeFd(t)].status = status]

(* _tcp_tl_close_sockinfo; the buffer that is being walked goes with it. *)
TcpWhy(t, i) == CASE t.slots[i].invalid -> "reset"
                  [] t.slots[i].pending /\ t.conns[t.slots[i].sock].status = "broken" -> "broken"
                  [] OTHER -> "closed"
TcpCloseSockinfo(t, i) ==
  [t EXCEPT !.slots[i] = TcpNoStream, !.conns[t.slots[i].sock] = TcpClosed,
            !.freed = IF t.pc = "walk" /\ t.pos = i THEN TcpWhy(t, i) ELSE @]
TcpCloseAll(t, doomed) == FoldSet(LAMBDA i, u : TcpCloseSockinfo(u, i), t, doomed)

TcpInUse(t)            == {i \in 1..TcpSlots : t.slots[i].sock # 0}
TcpFindSockinfo(t, fd) == {i \in TcpInUse(t) : t.slots[i].sock = fd}
TcpFindSocket(t, peer) == {i \in TcpInUse(t) : t.slots[i].peer = peer}
TcpStatus(t, i)        == t.conns[t.slots[i].sock].status
TcpIsConnected(t, i)   == CASE TcpStatus(t, i) = "connecting" -> 1
                            [] TcpStatus(t, i) \in {"up", "closed"} -> 0
                            [] OTHER -> -1

-----------------------------------------------------------------------------
(* The others: they connect, close and abort; a connection that was asked  *)
(* for comes up or is refused.                                             *)
TcpPeerConnects == tcp.backlog = {} /\ \E p \in TcpPeers : tcp' = [tcp EXCEPT !.backlog = {p}]

TcpBecomes(status) == CASE status = "up" -> {"closed", "broken"}
                        [] status = "connecting" -> {"up", "broken"}
                        [] OTHER -> {}
TcpPeerActs == \E f \in 1..TcpMaxFd : \E s \in TcpBecomes(tcp.conns[f].status) :
  tcp' = [tcp EXCEPT !.conns[f].status = s]

-----------------------------------------------------------------------------
(* tcp_tl_set_fdset and the select of _eXosip_read_message: some of those  *)
(* that have data, an end or an error to be read.                          *)
TcpReadable(i) ==
  LET c == tcp.conns[tcp.slots[i].sock]
  IN  \/ c.status = "up" /\ c.read < Len(TcpStream) /\ tcp.slots[i].peer \in TcpTalkers
      \/ c.status \in {"closed", "broken"}
TcpSetFdset ==
  LET ready == {tcp.slots[i].sock : i \in {j \in TcpInUse(tcp) : TcpReadable(j)}}
               \cup (IF tcp.backlog = {} THEN {} ELSE {TcpListening})
  IN  /\ tcp.pc = "idle"
      /\ \E set \in (SUBSET ready) \ {{}} :
           tcp' = [tcp EXCEPT !.fdset = set, !.pc = "accept", !.pos = 1]

(* A full table loses its first connection before accept is asked. *)
TcpEvicted(t) == IF TcpInUse(t) = 1..TcpSlots THEN TcpCloseSockinfo(t, 1) ELSE t

TcpServers(t) == {i \in TcpInUse(t) : t.slots[i].server}

TcpAccept ==
  /\ tcp.pc = "accept"
  /\ IF TcpListening \notin tcp.fdset THEN tcp' = [tcp EXCEPT !.pc = "read"]
     ELSE LET t == [TcpEvicted(tcp) EXCEPT !.pc = "read"]
              free == Min(1..TcpSlots \ TcpInUse(t))
          IN  \/ \E p \in t.backlog :
                   tcp' = [TcpOpened(t, "up") EXCEPT
                             !.backlog = @ \ {p},
                             !.slots[free] = [TcpNoStream EXCEPT !.sock = TcpFreeFd(t), !.peer = p,
                                                                 !.server = TRUE]]
              \/ tcp' = [t EXCEPT !.backlog = {}]                           \* the caller went away
              \/ tcp' = [TcpCloseAll(t, TcpServers(t)) EXCEPT !.backlog = {}] \* EBADF: opened again

(* The buffer grows when it is full and shrinks when it is empty. *)
TcpSizedFor(s) == IF Len(s.buf) = s.size /\ s.size > 0 THEN s.size + 1
               ELSE IF s.buf = <<>> THEN TcpBufSize ELSE s.size

TcpTurn(t) == IF t.pos = TcpSlots
              THEN [t EXCEPT !.pc = "idle", !.fdset = {}, !.pos = 1, !.walk = 0, !.freed = "no"]
              ELSE [t EXCEPT !.pc = "read", !.pos = @ + 1, !.walk = 0, !.freed = "no"]

(* _tcp_tl_recv up to its call of handle_messages.  A connection that was  *)
(* accepted on a descriptor of the set has nothing to read yet: the thread *)
(* waits for it.                                                           *)
TcpReceived(t, i, n) ==
  LET fd == t.slots[i].sock
      r == t.conns[fd].read
  IN  [t EXCEPT !.slots[i].buf = @ \o SubSeq(TcpStream, r + 1, r + n),
                !.slots[i].size = TcpSizedFor(t.slots[i]),
                !.conns[fd].read = r + n, !.pc = "walk"]

TcpRecv(i) ==
  LET c == tcp.conns[tcp.slots[i].sock]
      room == TcpSizedFor(tcp.slots[i]) - Len(tcp.slots[i].buf)
  IN  \/ /\ c.status = "up"
         /\ \E n \in 1..Min({room, Len(TcpStream) - c.read}) : tcp' = TcpReceived(tcp, i, n)
      \/ /\ c.status \in {"closed", "broken"}
         /\ tcp' = TcpTurn(TcpCloseSockinfo(tcp, i))
      \/ /\ c.status \in {"up", "connecting"} /\ ~tcp.slots[i].server
         /\ tcp' = TcpTurn(tcp)

TcpReadMessage ==
  /\ tcp.pc = "read"
  /\ IF tcp.slots[tcp.pos].sock # 0 /\ tcp.slots[tcp.pos].sock \in tcp.fdset
     THEN TcpRecv(tcp.pos) ELSE tcp' = TcpTurn(tcp)

(* handle_messages, one message at a time: the length is that of the       *)
(* headers and of the body they announce, none if they announce none.      *)
TcpEmptyLines(b) == {e \in DOMAIN b : b[e] = TcpEmptyLine}
TcpMessageLength(b) ==
  IF TcpEmptyLines(b) = {} THEN 0
  ELSE LET e == Min(TcpEmptyLines(b))
           headers == {j \in 1..(e - 1) : b[j].kind = "head"}
           clen == IF headers = {} THEN 0 ELSE b[Min(headers)].clen
       IN  IF e + clen > Len(b) THEN 0 ELSE e + clen

(* What was consumed leaves the buffer, the rest moves to its beginning. *)
TcpConsumedAll(t, i) == TcpTurn([t EXCEPT !.slots[i].buf = <<>>])
TcpConsumed(t, i) == TcpTurn([t EXCEPT !.slots[i].buf = SubSeq(@, t.walk + 1, Len(@))])

TcpHandedOn(c, message) ==
  [c EXCEPT !.handed = @ + 1, !.garbled = @ \/ message # TcpMessage(c.handed + 1)]

TcpHandleMessages ==
  /\ tcp.pc = "walk" /\ tcp.freed = "no"
  /\ LET s == tcp.slots[tcp.pos]
         rest == SubSeq(s.buf, tcp.walk + 1, Len(s.buf))
         n == TcpMessageLength(rest)
         t == [tcp EXCEPT !.walk = @ + n]
     IN  tcp' = CASE n = 0 -> TcpConsumed(tcp, tcp.pos)
                  [] n = 1 -> t
                  [] OTHER -> [t EXCEPT !.conns[s.sock] = TcpHandedOn(@, SubSeq(rest, 1, n))]

(* A buffer that a send freed meanwhile is walked to its end all the same: *)
(* what is handed on then is undefined.  The slot is empty, or that of     *)
(* another connection that has no buffer yet, and stays so.                *)
TcpHandleFreed ==
  /\ tcp.pc = "walk" /\ tcp.freed # "no"
  /\ tcp' = TcpTurn(tcp)

-----------------------------------------------------------------------------
(* _tcp_tl_check_connected *)
TcpDoomed(t) == {i \in 1..TcpSlots : t.slots[i].invalid
                 \/ (t.slots[i].pending /\ TcpStatus(t, i) \in {"broken"})}
TcpCheckConnected(t) ==
  LET u == TcpCloseAll(t, TcpDoomed(t))
  IN  [u EXCEPT !.slots = [i \in 1..TcpSlots |->
         [u.slots[i] EXCEPT !.pending = @ /\ TcpStatus(u, i) = "connecting"]]]

(* _tcp_tl_connect_socket: none when the table is full or refused at once *)
TcpConnected(t, peer, status) ==
  [TcpOpened(t, status) EXCEPT
     !.slots[Min(1..TcpSlots \ TcpInUse(t))] =
        [TcpNoStream EXCEPT !.sock = TcpFreeFd(t), !.peer = peer, !.pending = status = "connecting"]]
TcpConnects(t, peer) ==
  IF TcpInUse(t) = 1..TcpSlots THEN {t}
  ELSE {t} \cup {TcpConnected(t, peer, status) : status \in {"connecting", "up"}}

(* tcp_tl_send_message, once the name is resolved: the connection to that  *)
(* address, else the one the transaction came on, or else a new one, even  *)
(* if nothing can be written on it yet.                                    *)
TcpSendMessage ==
  LET t       == TcpCheckConnected(tcp)
      unknown == {peer \in TcpPeers : TcpFindSocket(t, peer) = {}}
  IN  tcp' \in {t} \cup UNION {TcpConnects(t, peer) : peer \in unknown}

(* tcp_tl_reset, by the application and without the lock *)
TcpReset ==
  tcp' = [tcp EXCEPT !.slots = [i \in 1..TcpSlots |-> [tcp.slots[i] EXCEPT !.invalid = i \in TcpInUse(tcp)]]]

(* tcp_tl_keepalive, in the turn of the stack's thread *)
TcpKeepalive ==
  /\ tcp.pc = "idle"
  /\ tcp' = TcpCloseAll(tcp, {i \in TcpInUse(tcp) : TcpIsConnected(tcp, i) = -1})

TcpNext ==
  \/ TcpPeerConnects \/ TcpPeerActs
  \/ TcpSetFdset \/ TcpAccept \/ TcpReadMessage \/ TcpHandleMessages \/ TcpHandleFreed
  \/ TcpSendMessage \/ TcpReset \/ TcpKeepalive

TcpSpec == TcpInit /\ [][TcpNext]_tcp

-----------------------------------------------------------------------------
TcpTypeOK ==
  /\ tcp.pc \in {"idle", "accept", "read", "walk"}
  /\ \A i \in 1..TcpSlots : tcp.slots[i].sock \in 0..TcpMaxFd

(* However the stream is cut, whatever is sent, accepted and evicted       *)
(* meanwhile, the messages handed to the stack from a connection are those *)
(* its peer sent, whole and in order; when nothing of a connection is left *)
(* to read, none is missing.  No descriptor is in two slots or in none.    *)
(* The buffer that is being walked is closed under the walk by no other    *)
(* event than a reset, or the failure of a connection whose connect is     *)
(* still pending; of what is handed on after that nothing is said.         *)
TcpNoneMissing(c) == c.read = Len(TcpStream) => c.handed = TcpMessages
TcpStreamsKept ==
  /\ TcpTypeOK
  /\ tcp.freed \in {"no", "reset", "broken"}
  /\ \A f \in 1..TcpMaxFd : ~tcp.conns[f].garbled
  /\ \A f \in 1..TcpMaxFd : tcp.pc = "idle" => TcpNoneMissing(tcp.conns[f])
  /\ \A f \in 1..TcpMaxFd :
       Cardinality(TcpFindSockinfo(tcp, f)) = (IF tcp.conns[f] = TcpClosed THEN 0 ELSE 1)
=============================================================================
