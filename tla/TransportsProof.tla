--------------------------- MODULE TransportsProof ---------------------------
(***************************************************************************)
(* What takes messages to the other end.  The associations of DTLS: one    *)
(* for each peer, which writes to that peer, and a place for whoever is    *)
(* heard once the socket is connected; for tables of any size, any peers   *)
(* and any number of sockets.  The connections of TLS: nothing passes on   *)
(* one before its handshake is over and its certificate accepted, until    *)
(* one of the two threads takes a slot from the other, in one of the eight *)
(* ways listed; for any number of slots and whatever certificates the      *)
(* others show.  The dialogs of a call: the two that name each other       *)
(* agree; for any proxies, forks and numbers of requests.  The lists of    *)
(* transactions: a message finds that of its client, no sleep passes a     *)
(* timer, and what is repeated ends; for any clients that tell their       *)
(* requests apart.                                                         *)
(***************************************************************************)
EXTENDS Dialog, Dtls, Tls, TransactionList, WellFoundedInduction, FiniteSetTheorems, TLAPS

(* Some numbers have a first one.                                          *)
LEMMA Least ==
  ASSUME NEW S, S \subseteq Nat, S # {}
  PROVE  \E i \in S : \A j \in S : i <= j
<1>1. PICK i \in S : \A j \in S : ~ (<<j, i>> \in OpToRel(<, Nat))
  BY NatLessThanWellFounded, WFMin
<1>2. ASSUME NEW j \in S  PROVE i <= j
  <2>1. <<j, i>> \in Nat \X Nat /\ <<j, i>>[1] = j /\ <<j, i>>[2] = i
    OBVIOUS
  <2>2. ~(<<j, i>>[1] < <<j, i>>[2])
    BY <1>1, <2>1 DEF OpToRel
  <2> QED
    BY <2>1, <2>2
<1> QED
  BY <1>2

-----------------------------------------------------------------------------
(* Only the first place holds an association that was asked for; what is   *)
(* in use has a socket, and the sockets to come are not connected.         *)
DtlsClientFirst(d) == \A i \in DtlsInUse(d) : d.slots[i].type = DtlsClient => i = 1
DtlsOnSocket(d)    == \A i \in DtlsInUse(d) : d.slots[i].socket # 0
DtlsFresh(d)       == \A s \in 1..DtlsSockets : d.connected[s] # "none" => s <= d.socket
DtlsInv(d) ==
  /\ DtlsTypeOK(d) /\ DtlsOneEach(d) /\ DtlsWritesToPeer(d) /\ DtlsPlaceForHeard(d)
  /\ DtlsClientFirst(d) /\ DtlsOnSocket(d) /\ DtlsFresh(d)

(* A set of places has a first one.                                        *)
LEMMA DtlsFirstOf ==
  ASSUME NEW S, S \subseteq 1..DtlsSlots, S # {}
  PROVE  DtlsFirst(S) \in S
<1>1. S \subseteq Nat
  BY DtlsAssumption
<1> QED
  BY <1>1, Least DEF DtlsFirst

(* Before dtls_tl_open, and after dtls_tl_free, there is nothing.          *)
LEMMA DtlsNothingYet == DtlsInv(DtlsClosed)
BY DtlsAssumption DEF DtlsInv, DtlsClosed, DtlsTypeOK, DtlsStream, DtlsNoStream, DtlsOneEach,
   DtlsWritesToPeer, DtlsPlaceForHeard, DtlsClientFirst, DtlsOnSocket, DtlsFresh, DtlsInUse

(* The fields of what the invariant is about.                              *)
LEMMA DtlsFields ==
  ASSUME NEW d, DtlsTypeOK(d)
  PROVE  /\ d.slots \in [1..DtlsSlots -> DtlsStream] /\ d.socket \in 0..DtlsSockets
         /\ d.server_ctx \in BOOLEAN /\ d.client_ctx \in BOOLEAN /\ d.overrun \in BOOLEAN
         /\ d.connected \in [1..DtlsSockets -> DtlsPeers \cup {"none"}]
         /\ 1 \in 1..DtlsSlots
BY DtlsAssumption DEF DtlsTypeOK

(* Closing an association leaves a place.                                  *)
LEMMA DtlsFreed ==
  ASSUME NEW d, DtlsInv(d), NEW i \in 1..DtlsSlots
  PROVE  DtlsInv(DtlsShutdownFree(d, i))
<1> DEFINE e == DtlsShutdownFree(d, i)
           slots == [d.slots EXCEPT ![i] = DtlsNoStream]
<1>0. DtlsTypeOK(d)
  BY DEF DtlsInv
<1>1. e = [d EXCEPT !.slots = slots]
  BY <1>0 DEF DtlsShutdownFree, DtlsTypeOK
<1>2. /\ e.slots = slots /\ e.socket = d.socket /\ e.overrun = d.overrun
      /\ e.connected = d.connected
  BY <1>0, <1>1 DEF DtlsTypeOK
<1>3. slots \in [1..DtlsSlots -> DtlsStream]
  BY <1>0, DtlsFields, DtlsAssumption DEF DtlsStream, DtlsNoStream
<1>4. DtlsTypeOK(e)
  BY <1>0, <1>1, <1>3 DEF DtlsTypeOK
<1> HIDE DEF e
<1>8. /\ DtlsNoStream.type = 0 /\ e.slots[i] = DtlsNoStream
      /\ \A j \in 1..DtlsSlots : j # i => e.slots[j] = d.slots[j]
  BY <1>0, <1>2, DtlsFields DEF DtlsNoStream
<1> HIDE DEF slots
<1>5. /\ DtlsInUse(e) = DtlsInUse(d) \ {i}
      /\ \A j \in DtlsInUse(e) : e.slots[j] = d.slots[j]
  BY <1>8 DEF DtlsInUse
<1>6. DtlsOneEach(e) /\ DtlsWritesToPeer(e) /\ DtlsClientFirst(e) /\ DtlsOnSocket(e) /\ DtlsFresh(e)
  BY <1>2, <1>5 DEF DtlsInv, DtlsOneEach, DtlsWritesToPeer, DtlsClientFirst, DtlsOnSocket, DtlsFresh
<1>7. DtlsPlaceForHeard(e)
  BY <1>2, <1>5 DEF DtlsInv, DtlsPlaceForHeard
<1> QED
  BY <1>4, <1>6, <1>7 DEF DtlsInv, e

(* The handshake tells nothing of places and sockets.                      *)
LEMMA DtlsShakenKept ==
  ASSUME NEW d, DtlsInv(d), NEW i \in 1..DtlsSlots, NEW b \in BOOLEAN
  PROVE  DtlsInv(DtlsShaken(d, i, b))
<1> DEFINE e == DtlsShaken(d, i, b)
           stream == [d.slots[i] EXCEPT !.shaken = b]
           slots == [d.slots EXCEPT ![i] = stream]
<1>0. DtlsTypeOK(d) /\ d.slots[i] \in DtlsStream
  BY DtlsFields DEF DtlsInv
<1>1. e = [d EXCEPT !.slots = slots]
  BY <1>0 DEF DtlsShaken, DtlsTypeOK
<1>2. /\ e.slots = slots /\ e.socket = d.socket /\ e.overrun = d.overrun
      /\ e.connected = d.connected
  BY <1>0, <1>1 DEF DtlsTypeOK
<1>3. /\ stream \in DtlsStream /\ stream.peer = d.slots[i].peer /\ stream.type = d.slots[i].type
      /\ stream.socket = d.slots[i].socket
  BY <1>0 DEF DtlsStream
<1> HIDE DEF stream
<1>4. slots \in [1..DtlsSlots -> DtlsStream]
  BY <1>0, <1>3, DtlsFields
<1>5. DtlsTypeOK(e)
  BY <1>0, <1>1, <1>4 DEF DtlsTypeOK
<1>6. \A j \in 1..DtlsSlots : /\ e.slots[j].peer = d.slots[j].peer /\ e.slots[j].type = d.slots[j].type
                              /\ e.slots[j].socket = d.slots[j].socket
  BY <1>0, <1>2, <1>3, DtlsFields
<1> HIDE DEF e, slots
<1>7. DtlsInUse(e) = DtlsInUse(d) /\ \A p : DtlsFind(e, p) = DtlsFind(d, p)
  BY <1>6 DEF DtlsInUse, DtlsFind
<1>8. DtlsOneEach(e) /\ DtlsWritesToPeer(e) /\ DtlsClientFirst(e) /\ DtlsOnSocket(e) /\ DtlsFresh(e)
  BY <1>2, <1>6, <1>7, SMTT(60)
     DEF DtlsInv, DtlsOneEach, DtlsWritesToPeer, DtlsClientFirst, DtlsOnSocket, DtlsFresh, DtlsInUse
<1>9. DtlsPlaceForHeard(e)
  BY <1>2, <1>7 DEF DtlsInv, DtlsPlaceForHeard
<1> QED
  BY <1>5, <1>8, <1>9 DEF DtlsInv, e

(* A new association of one who is heard and has none, in a free place.    *)
LEMMA DtlsAcceptedKept ==
  ASSUME NEW d, DtlsInv(d), NEW peer \in DtlsPeers, d.socket # 0, DtlsHears(d, peer),
         DtlsFind(d, peer) = {}, NEW i \in 1..DtlsSlots, i \notin DtlsInUse(d)
  PROVE  DtlsInv(DtlsAccepted(d, i, peer))
<1> DEFINE e == DtlsAccepted(d, i, peer)
           stream == [peer |-> peer, type |-> DtlsServer, socket |-> d.socket, shaken |-> FALSE]
           slots == [d.slots EXCEPT ![i] = stream]
<1>0. DtlsTypeOK(d)
  BY DEF DtlsInv
<1>1. e = [d EXCEPT !.slots = slots]
  BY <1>0 DEF DtlsAccepted, DtlsTypeOK
<1>2. /\ e.slots = slots /\ e.socket = d.socket /\ e.overrun = d.overrun
      /\ e.connected = d.connected
  BY <1>0, <1>1 DEF DtlsTypeOK
<1>3. /\ stream \in DtlsStream /\ stream.peer = peer /\ stream.type = DtlsServer
      /\ stream.socket = d.socket /\ DtlsServer # 0 /\ DtlsServer # DtlsClient
  BY <1>0, DtlsFields DEF DtlsStream, DtlsServer, DtlsClient
<1> HIDE DEF stream
<1>4. slots \in [1..DtlsSlots -> DtlsStream]
  BY <1>0, <1>3, DtlsFields
<1>5. DtlsTypeOK(e)
  BY <1>0, <1>1, <1>4 DEF DtlsTypeOK
<1> HIDE DEF e
<1>6. e.slots[i] = stream /\ \A j \in 1..DtlsSlots : j # i => e.slots[j] = d.slots[j]
  BY <1>0, <1>2, DtlsFields
<1> HIDE DEF slots
<1>7. /\ DtlsInUse(e) = DtlsInUse(d) \cup {i}
      /\ \A j \in DtlsInUse(d) : e.slots[j] = d.slots[j] /\ d.slots[j].peer # peer
  BY <1>3, <1>6 DEF DtlsInUse, DtlsFind
<1>8. DtlsOneEach(e)
  BY <1>3, <1>6, <1>7 DEF DtlsInv, DtlsOneEach
<1>9. DtlsWritesToPeer(e) /\ DtlsClientFirst(e) /\ DtlsOnSocket(e) /\ DtlsFresh(e)
  BY <1>2, <1>3, <1>6, <1>7 DEF DtlsInv, DtlsWritesToPeer, DtlsClientFirst, DtlsOnSocket, DtlsFresh
<1>10. i \in DtlsFind(e, peer)
  BY <1>3, <1>6, <1>7 DEF DtlsFind
<1>11. DtlsPlaceForHeard(e)
  BY <1>2, <1>10 DEF DtlsInv, DtlsPlaceForHeard, DtlsHears
<1> QED
  BY <1>5, <1>8, <1>9, <1>11 DEF DtlsInv, e

(* An association that is asked for takes the first place and the socket.  *)
LEMMA DtlsConnectedKept ==
  ASSUME NEW d, DtlsInv(d), NEW peer \in DtlsPeers, d.socket # 0, ~d.overrun,
         DtlsUsed(d, peer) = {}
  PROVE  DtlsInv(DtlsConnected(d, peer))
<1> DEFINE e == DtlsConnected(d, peer)
           stream == [peer |-> peer, type |-> DtlsClient, socket |-> d.socket, shaken |-> FALSE]
           slots == [d.slots EXCEPT ![1] = stream]
           connected == [d.connected EXCEPT ![d.socket] = peer]
<1>0. DtlsTypeOK(d) /\ d.socket \in 1..DtlsSockets
  BY DtlsFields DEF DtlsInv
<1>1. e = [d EXCEPT !.slots = slots, !.connected = connected]
  BY <1>0 DEF DtlsConnected, DtlsTypeOK
<1>2. /\ e.slots = slots /\ e.socket = d.socket /\ e.overrun = d.overrun
      /\ e.connected = connected
  BY <1>0, <1>1 DEF DtlsTypeOK
<1>3. /\ stream \in DtlsStream /\ stream.peer = peer /\ stream.type = DtlsClient
      /\ stream.socket = d.socket /\ DtlsClient # 0
  BY <1>0, DtlsFields DEF DtlsStream, DtlsClient
<1> HIDE DEF stream
<1>4. /\ slots \in [1..DtlsSlots -> DtlsStream]
      /\ connected \in [1..DtlsSockets -> DtlsPeers \cup {"none"}]
  BY <1>0, <1>3, DtlsFields
<1>5. DtlsTypeOK(e)
  BY <1>0, <1>1, <1>4 DEF DtlsTypeOK
<1> HIDE DEF e
<1>6. /\ e.slots[1] = stream /\ \A j \in 1..DtlsSlots : j # 1 => e.slots[j] = d.slots[j]
      /\ 1 \in 1..DtlsSlots
  BY <1>0, <1>2, DtlsFields
<1>7. /\ e.connected[d.socket] = peer
      /\ \A s \in 1..DtlsSockets : s # d.socket => e.connected[s] = d.connected[s]
  BY <1>0, <1>2, DtlsFields
<1> HIDE DEF slots, connected
<1>8. DtlsFind(d, peer) = {}
  <2>1. DtlsOfType(d, peer, DtlsServer) = {} /\ DtlsOfType(d, peer, DtlsClient) = {}
    BY DEF DtlsUsed
  <2>2. SUFFICES ASSUME NEW i \in DtlsFind(d, peer)  PROVE FALSE
    OBVIOUS
  <2>3. d.slots[i] \in DtlsStream /\ d.slots[i].type # 0
    BY <1>0, <2>2, DtlsFields DEF DtlsFind, DtlsInUse
  <2>4. d.slots[i].type \in {DtlsServer, DtlsClient}
    BY <2>3 DEF DtlsStream
  <2> QED
    BY <2>1, <2>2, <2>4 DEF DtlsOfType
<1>9. /\ DtlsInUse(e) = DtlsInUse(d) \cup {1}
      /\ \A j \in DtlsInUse(d) : j # 1 => e.slots[j] = d.slots[j] /\ d.slots[j].peer # peer
  BY <1>3, <1>6, <1>8 DEF DtlsInUse, DtlsFind
<1>10. DtlsOneEach(e)
  BY <1>3, <1>6, <1>9 DEF DtlsInv, DtlsOneEach
<1>11. DtlsClientFirst(e) /\ DtlsOnSocket(e)
  BY <1>3, <1>6, <1>9 DEF DtlsInv, DtlsClientFirst, DtlsOnSocket
<1>12. DtlsWritesToPeer(e)
  BY <1>3, <1>6, <1>7, <1>11 DEF DtlsWritesToPeer, DtlsClientFirst
<1>13. DtlsFresh(e)
  BY <1>0, <1>2, <1>7 DEF DtlsInv, DtlsFresh
<1>14. 1 \in DtlsFind(e, peer)
  BY <1>3, <1>6, <1>9 DEF DtlsFind
<1>15. DtlsPlaceForHeard(e)
  BY <1>2, <1>7, <1>14 DEF DtlsPlaceForHeard
<1> QED
  BY <1>5, <1>10, <1>11, <1>12, <1>13, <1>15 DEF DtlsInv, e

(* dtls_tl_open, dtls_tl_set_socket: a new socket is not connected, and    *)
(* the contexts are of no account.                                         *)
LEMMA DtlsOpenKept ==
  ASSUME NEW d, DtlsInv(d), NEW b \in BOOLEAN, NEW c \in BOOLEAN,
         NEW n \in 0..DtlsSockets, n = d.socket \/ n = d.socket + 1
  PROVE  DtlsInv([d EXCEPT !.server_ctx = b, !.client_ctx = c, !.socket = n])
<1> DEFINE e == [d EXCEPT !.server_ctx = b, !.client_ctx = c, !.socket = n]
<1>0. DtlsTypeOK(d)
  BY DEF DtlsInv
<1>1. /\ e.slots = d.slots /\ e.socket = n /\ e.overrun = d.overrun
      /\ e.connected = d.connected
  BY <1>0 DEF DtlsTypeOK
<1>2. DtlsTypeOK(e)
  BY <1>0 DEF DtlsTypeOK
<1> HIDE DEF e
<1>3. DtlsInUse(e) = DtlsInUse(d) /\ \A p : DtlsFind(e, p) = DtlsFind(d, p)
  BY <1>1 DEF DtlsInUse, DtlsFind
<1>4. DtlsOneEach(e) /\ DtlsWritesToPeer(e) /\ DtlsClientFirst(e) /\ DtlsOnSocket(e)
  BY <1>1, <1>3 DEF DtlsInv, DtlsOneEach, DtlsWritesToPeer, DtlsClientFirst, DtlsOnSocket
<1>5. \A s \in 1..DtlsSockets : d.connected[s] # "none" => s <= d.socket
  BY DEF DtlsInv, DtlsFresh
<1>6. d.socket \in 0..DtlsSockets
  BY <1>0, DtlsFields
<1>7. DtlsFresh(e)
  BY <1>1, <1>5, <1>6 DEF DtlsFresh
<1>8. DtlsPlaceForHeard(e)
  BY <1>1, <1>3, <1>5, <1>6 DEF DtlsInv, DtlsPlaceForHeard
<1> QED
  BY <1>2, <1>4, <1>7, <1>8 DEF DtlsInv, e

(* SSL_read and SSL_write: the association goes on or ends.                *)
LEMMA DtlsSslKept ==
  ASSUME NEW d, DtlsInv(d), NEW i \in 1..DtlsSlots, NEW e,
         e \in DtlsSslRead(d, i) \/ e \in DtlsSslWrite(d, i)
  PROVE  DtlsInv(e)
<1>1. e \in {d, DtlsShaken(d, i, TRUE), DtlsShutdownFree(d, i)}
  BY DEF DtlsSslRead, DtlsSslWrite
<1> QED
  BY <1>1, DtlsShakenKept, DtlsFreed

(* dtls_tl_read_message.                                                   *)
LEMMA DtlsReadKept == DtlsInv(dtls) /\ DtlsReadMessage => DtlsInv(dtls')
<1> SUFFICES ASSUME DtlsInv(dtls), DtlsReadMessage  PROVE DtlsInv(dtls')
  OBVIOUS
<1>0. DtlsTypeOK(dtls)
  BY DEF DtlsInv
<1>1. PICK peer \in DtlsPeers :
        /\ ~dtls.overrun /\ dtls.socket # 0 /\ DtlsHears(dtls, peer)
        /\ LET found == DtlsFind(dtls, peer)
               free == 1..DtlsSlots \ DtlsInUse(dtls)
               new == DtlsFirst(free)
           IN  \/ /\ found # {}
                  /\ dtls' \in DtlsSslRead(dtls, DtlsFirst(found))
               \/ /\ found = {} /\ free # {}
                  /\ \/ dtls' = dtls
                     \/ dtls.server_ctx /\ dtls' \in DtlsSslRead(DtlsAccepted(dtls, new, peer), new)
               \/ /\ found = {} /\ free = {}
                  /\ dtls' = [dtls EXCEPT !.overrun = TRUE]
  BY DEF DtlsReadMessage
<1> DEFINE found == DtlsFind(dtls, peer)
           free == 1..DtlsSlots \ DtlsInUse(dtls)
           new == DtlsFirst(free)
<1>2. CASE found # {} /\ dtls' \in DtlsSslRead(dtls, DtlsFirst(found))
  <2>1. DtlsFirst(found) \in 1..DtlsSlots
    BY <1>2, DtlsFirstOf DEF DtlsFind, DtlsInUse
  <2> QED
    BY <1>2, <2>1, DtlsSslKept
<1>3. CASE found = {} /\ free # {} /\ dtls' = dtls
  BY <1>3
<1>4. CASE found = {} /\ free # {} /\ dtls' \in DtlsSslRead(DtlsAccepted(dtls, new, peer), new)
  <2>1. new \in free
    BY <1>4, DtlsFirstOf
  <2> HIDE DEF new
  <2>2. DtlsInv(DtlsAccepted(dtls, new, peer))
    BY <1>1, <1>4, <2>1, DtlsAcceptedKept
  <2> QED
    BY <1>4, <2>1, <2>2, DtlsSslKept
<1>5. CASE found = {} /\ free = {} /\ dtls' = [dtls EXCEPT !.overrun = TRUE]
  <2> DEFINE e == [dtls EXCEPT !.overrun = TRUE]
  <2>1. /\ e.slots = dtls.slots /\ e.socket = dtls.socket /\ e.connected = dtls.connected
        /\ DtlsTypeOK(e)
    BY <1>0 DEF DtlsTypeOK
  <2> HIDE DEF e
  <2>2. DtlsInUse(e) = DtlsInUse(dtls)
    BY <2>1 DEF DtlsInUse
  <2>3. DtlsOneEach(e) /\ DtlsWritesToPeer(e) /\ DtlsClientFirst(e) /\ DtlsOnSocket(e) /\ DtlsFresh(e)
    BY <2>1, <2>2
       DEF DtlsInv, DtlsOneEach, DtlsWritesToPeer, DtlsClientFirst, DtlsOnSocket, DtlsFresh
  <2>4. DtlsInUse(dtls) = 1..DtlsSlots
    BY <1>5 DEF DtlsInUse
  <2>5. DtlsPlaceForHeard(e)
    BY <1>1, <1>5, <2>1, <2>4 DEF DtlsInv, DtlsPlaceForHeard, DtlsHears
  <2> QED
    BY <1>5, <2>1, <2>3, <2>5 DEF DtlsInv, e
<1> QED
  BY <1>1, <1>2, <1>3, <1>4, <1>5

(* dtls_tl_send_message.                                                   *)
LEMMA DtlsSendKept == DtlsInv(dtls) /\ DtlsSendMessage => DtlsInv(dtls')
<1> SUFFICES ASSUME DtlsInv(dtls), DtlsSendMessage  PROVE DtlsInv(dtls')
  OBVIOUS
<1>1. PICK peer \in DtlsPeers :
        /\ ~dtls.overrun /\ dtls.socket # 0
        /\ LET used == DtlsUsed(dtls, peer)
               emptied == DtlsShutdownFree(dtls, 1)
           IN  \/ dtls' = dtls
               \/ used # {} /\ dtls' \in DtlsSslWrite(dtls, DtlsFirst(used))
               \/ used = {} /\ dtls' = emptied
               \/ used = {} /\ dtls.client_ctx /\ dtls' \in DtlsSslWrite(DtlsConnected(dtls, peer), 1)
  BY DEF DtlsSendMessage
<1>2. 1 \in 1..DtlsSlots
  BY DtlsAssumption
<1>3. CASE DtlsUsed(dtls, peer) # {} /\ dtls' \in DtlsSslWrite(dtls, DtlsFirst(DtlsUsed(dtls, peer)))
  <2>1. DtlsUsed(dtls, peer) \subseteq 1..DtlsSlots
    BY DEF DtlsUsed, DtlsOfType, DtlsFind, DtlsInUse
  <2>2. DtlsFirst(DtlsUsed(dtls, peer)) \in 1..DtlsSlots
    BY <1>3, <2>1, DtlsFirstOf
  <2> QED
    BY <1>3, <2>2, DtlsSslKept
<1>4. CASE dtls' = DtlsShutdownFree(dtls, 1)
  BY <1>2, <1>4, DtlsFreed
<1>5. CASE DtlsUsed(dtls, peer) = {} /\ dtls' \in DtlsSslWrite(DtlsConnected(dtls, peer), 1)
  <2>1. DtlsInv(DtlsConnected(dtls, peer))
    BY <1>1, <1>5, DtlsConnectedKept
  <2> QED
    BY <1>2, <1>5, <2>1, DtlsSslKept
<1> QED
  BY <1>1, <1>3, <1>4, <1>5

(* What holds of the associations is kept by every step.                   *)
LEMMA DtlsStepKept == DtlsInv(dtls) /\ [DtlsNext]_dtls => DtlsInv(dtls')
<1> SUFFICES ASSUME DtlsInv(dtls), [DtlsNext]_dtls  PROVE DtlsInv(dtls')
  OBVIOUS
<1>0. DtlsTypeOK(dtls) /\ dtls.socket \in 0..DtlsSockets
  BY DtlsFields DEF DtlsInv
<1>1. CASE DtlsOpen
  <2>1. PICK b \in BOOLEAN, c \in BOOLEAN :
          dtls' \in {[dtls EXCEPT !.server_ctx = b, !.client_ctx = c, !.socket = dtls.socket],
                    [dtls EXCEPT !.server_ctx = b, !.client_ctx = c, !.socket = 1]}
    <3>1. PICK b \in BOOLEAN, c \in BOOLEAN :
            LET e == [[dtls EXCEPT !.server_ctx = b] EXCEPT !.client_ctx = c]
            IN  dtls' \in {e, [e EXCEPT !.socket = 1]}
      BY <1>1, ZenonT(60) DEF DtlsOpen, DtlsInitializeServerCtx, DtlsInitializeClientCtx
    <3>2. dtls = [slots |-> dtls.slots, socket |-> dtls.socket, server_ctx |-> dtls.server_ctx,
                  client_ctx |-> dtls.client_ctx, connected |-> dtls.connected,
                  overrun |-> dtls.overrun]
      BY <1>0 DEF DtlsTypeOK
    <3> DEFINE e == [[dtls EXCEPT !.server_ctx = b] EXCEPT !.client_ctx = c]
    <3>3. e = [dtls EXCEPT !.server_ctx = b, !.client_ctx = c, !.socket = dtls.socket]
      BY <3>2
    <3>4. [e EXCEPT !.socket = 1] = [dtls EXCEPT !.server_ctx = b, !.client_ctx = c, !.socket = 1]
      BY <3>2
    <3> HIDE DEF e
    <3>5. dtls' \in {e, [e EXCEPT !.socket = 1]}
      BY <3>1 DEF e
    <3> QED
      BY <3>3, <3>4, <3>5
  <2>2. 1 \in 0..DtlsSockets /\ 1 = dtls.socket + 1
    BY <1>1, DtlsAssumption DEF DtlsOpen
  <2>3. DtlsInv([dtls EXCEPT !.server_ctx = b, !.client_ctx = c, !.socket = dtls.socket])
    BY <1>0, DtlsOpenKept
  <2>4. DtlsInv([dtls EXCEPT !.server_ctx = b, !.client_ctx = c, !.socket = 1])
    BY <2>2, DtlsOpenKept, Zenon
  <2> QED
    BY <2>1, <2>3, <2>4
<1>2. CASE DtlsSetSocket
  <2>1. dtls' = [dtls EXCEPT !.server_ctx = dtls.server_ctx, !.client_ctx = dtls.client_ctx,
                            !.socket = dtls.socket + 1]
    BY <1>0, <1>2 DEF DtlsSetSocket, DtlsTypeOK
  <2>2. dtls.socket + 1 \in 0..DtlsSockets
    BY <1>0, <1>2, DtlsAssumption DEF DtlsSetSocket
  <2>3. dtls.server_ctx \in BOOLEAN /\ dtls.client_ctx \in BOOLEAN
    BY <1>0, DtlsFields
  <2> QED
    BY <2>1, <2>2, <2>3, DtlsOpenKept
<1>3. CASE DtlsFree
  BY <1>3, DtlsNothingYet DEF DtlsFree
<1>4. CASE DtlsReadMessage
  BY <1>4, DtlsReadKept
<1>5. CASE DtlsSendMessage
  BY <1>5, DtlsSendKept
<1>6. CASE UNCHANGED dtls
  BY <1>6
<1> QED
  BY <1>1, <1>2, <1>3, <1>4, <1>5, <1>6 DEF DtlsNext

(* Nobody has two associations, what is written on one that was asked for  *)
(* goes to its peer, and the table is not overrun on a connected socket.   *)
THEOREM DtlsAssociationsKept == DtlsSpec => []DtlsKept
<1>1. DtlsInit => DtlsInv(dtls)
  BY DtlsNothingYet DEF DtlsInit
<1>2. DtlsInv(dtls) => DtlsKept
  BY DEF DtlsInv, DtlsKept
<1>3. DtlsInv(dtls) /\ [DtlsNext]_dtls => DtlsInv(dtls)'
  BY DtlsStepKept
<1> QED
  BY <1>1, <1>2, <1>3, PTL DEF DtlsSpec

-----------------------------------------------------------------------------
(* The table of TLS connections.  A slot that is used has a connection of  *)
(* its own, and a connection has a slot; one whose handshake is over was   *)
(* accepted, or its certificate was.                                       *)
TlsStreams ==
  [sock : 0..TlsSlots, peer : TlsPeers \cup {"none"}, server : BOOLEAN, pending : BOOLEAN,
   invalid : BOOLEAN, ssl_state : 0..3, ssl_conn : BOOLEAN]
TlsConns ==
  [status : {"none", "connecting", "up", "closed", "broken"},
   cert : TlsCertificates \cup {"none"}, shaken : BOOLEAN]

TlsUsed(slots) == {i \in 1..TlsSlots : slots[i].sock # 0}
TlsReady(s, c) == s.ssl_state \in {2, 3} => c.shaken /\ (s.server \/ TlsAccepted(c.cert))
TlsOwned(slots, conns) ==
  /\ \A f \in 1..TlsSlots : conns[f].status = "none" => conns[f] = TlsClosed
  /\ \A i \in TlsUsed(slots) : /\ conns[slots[i].sock] # TlsClosed
                               /\ TlsReady(slots[i], conns[slots[i].sock])
  /\ \A i, j \in TlsUsed(slots) : slots[i].sock = slots[j].sock => i = j
  /\ \A f \in 1..TlsSlots : conns[f] # TlsClosed => \E i \in TlsUsed(slots) : slots[i].sock = f
TlsKept(slots, conns) ==
  /\ slots \in [1..TlsSlots -> TlsStreams] /\ conns \in [1..TlsSlots -> TlsConns]
  /\ TlsOwned(slots, conns)

TlsState(slots, conns, exposed) ==
  [slots |-> slots, conns |-> conns, exposed |-> exposed]
TlsInv(t) ==
  /\ t = TlsState(t.slots, t.conns, t.exposed)
  /\ t.exposed = FALSE /\ TlsKept(t.slots, t.conns)

(* What the lemmas about a table prove of a state with that table.         *)
LEMMA TlsInvOf ==
  ASSUME NEW slots, NEW conns, NEW exposed, exposed = FALSE,
         TlsKept(slots, conns)
  PROVE  TlsInv(TlsState(slots, conns, exposed))
BY DEF TlsInv, TlsState

(* An empty slot and a closed connection.                                 *)
LEMMA TlsNone == TlsNoStream \in TlsStreams /\ TlsClosed \in TlsConns /\ TlsNoStream.sock = 0
BY TlsAssumption DEF TlsNoStream, TlsStream, TlsStreams, TlsClosed, TlsConns

(* Slots that are emptied give back their connections.                     *)
LEMMA TlsCloseKept ==
  ASSUME NEW slots, NEW conns, TlsKept(slots, conns), NEW D, D \subseteq 1..TlsSlots
  PROVE  TlsKept([i \in 1..TlsSlots |-> IF i \in D THEN TlsNoStream ELSE slots[i]],
                 [f \in 1..TlsSlots |-> IF f \in {slots[i].sock : i \in D} THEN TlsClosed
                                        ELSE conns[f]])
<1> DEFINE s2 == [i \in 1..TlsSlots |-> IF i \in D THEN TlsNoStream ELSE slots[i]]
           c2 == [f \in 1..TlsSlots |-> IF f \in {slots[i].sock : i \in D} THEN TlsClosed
                                        ELSE conns[f]]
<1>1. slots \in [1..TlsSlots -> TlsStreams] /\ conns \in [1..TlsSlots -> TlsConns]
  BY DEF TlsKept
<1>2. s2 \in [1..TlsSlots -> TlsStreams] /\ c2 \in [1..TlsSlots -> TlsConns]
  BY <1>1, TlsNone
<1>3. \A i \in TlsUsed(s2) : i \notin D /\ i \in TlsUsed(slots) /\ s2[i] = slots[i]
  BY TlsNone DEF TlsUsed
<1>4. \A i \in TlsUsed(slots) : i \notin D => i \in TlsUsed(s2) /\ s2[i] = slots[i]
  BY DEF TlsUsed
<1>5. \A i \in TlsUsed(slots) : slots[i].sock \in 1..TlsSlots
  BY <1>1, TlsAssumption DEF TlsUsed, TlsStreams
<1>6. \A i \in TlsUsed(s2) : c2[slots[i].sock] = conns[slots[i].sock]
  <2> SUFFICES ASSUME NEW i \in TlsUsed(s2), NEW j \in D, slots[j].sock = slots[i].sock
               PROVE  FALSE
    BY <1>3, <1>5
  <2>1. j \in TlsUsed(slots) /\ i \in TlsUsed(slots) /\ i \notin D
    BY <1>3 DEF TlsUsed
  <2> QED
    BY <2>1 DEF TlsKept, TlsOwned
<1>7. \A f \in 1..TlsSlots : c2[f] # TlsClosed =>
        c2[f] = conns[f] /\ \A i \in D : slots[i].sock # f
  OBVIOUS
<1> HIDE DEF s2, c2
<1>8. TlsOwned(s2, c2)
  <2>1. \A f \in 1..TlsSlots : c2[f].status = "none" => c2[f] = TlsClosed
    BY <1>7 DEF TlsKept, TlsOwned
  <2>2. \A i \in TlsUsed(s2) : c2[s2[i].sock] # TlsClosed /\ TlsReady(s2[i], c2[s2[i].sock])
    BY <1>3, <1>6 DEF TlsKept, TlsOwned
  <2>3. \A i, j \in TlsUsed(s2) : s2[i].sock = s2[j].sock => i = j
    BY <1>3 DEF TlsKept, TlsOwned
  <2>4. ASSUME NEW f \in 1..TlsSlots, c2[f] # TlsClosed
        PROVE  \E i \in TlsUsed(s2) : s2[i].sock = f
    <3>1. PICK i \in TlsUsed(slots) : slots[i].sock = f
      BY <1>7, <2>4 DEF TlsKept, TlsOwned
    <3> QED
      BY <1>4, <1>7, <2>4, <3>1
  <2> QED
    BY <2>1, <2>2, <2>3, <2>4 DEF TlsOwned
<1> QED
  BY <1>2, <1>8 DEF TlsKept, s2, c2

(* A slot that is used changes together with its connection.               *)
LEMMA TlsChangeKept ==
  ASSUME NEW slots, NEW conns, TlsKept(slots, conns), NEW i \in TlsUsed(slots),
         NEW s \in TlsStreams, s.sock = slots[i].sock,
         NEW c \in TlsConns, c.status # "none", TlsReady(s, c)
  PROVE  /\ TlsKept([slots EXCEPT ![i] = s], [conns EXCEPT ![s.sock] = c])
         /\ c = conns[s.sock] => TlsKept([slots EXCEPT ![i] = s], conns)
<1> DEFINE s2 == [slots EXCEPT ![i] = s]
           c2 == [conns EXCEPT ![s.sock] = c]
<1>1. /\ slots \in [1..TlsSlots -> TlsStreams] /\ conns \in [1..TlsSlots -> TlsConns]
      /\ i \in 1..TlsSlots /\ s.sock \in 1..TlsSlots
  BY TlsAssumption DEF TlsKept, TlsUsed, TlsStreams
<1>2. s2 \in [1..TlsSlots -> TlsStreams] /\ c2 \in [1..TlsSlots -> TlsConns]
  BY <1>1
<1>3. /\ TlsUsed(s2) = TlsUsed(slots)
      /\ \A j \in 1..TlsSlots : s2[j].sock = slots[j].sock /\ s2[j] = IF j = i THEN s ELSE slots[j]
  BY <1>1 DEF TlsUsed
<1>4. \A f \in 1..TlsSlots : c2[f] = IF f = s.sock THEN c ELSE conns[f]
  BY <1>1
<1>5. \A j \in TlsUsed(slots) : /\ j \in 1..TlsSlots /\ slots[j].sock \in 1..TlsSlots
                                /\ slots[j].sock = s.sock => j = i
  BY <1>1, TlsAssumption DEF TlsKept, TlsOwned, TlsUsed, TlsStreams
<1>6. c # TlsClosed
  BY DEF TlsClosed
<1>7. c = conns[s.sock] => c2 = conns
  BY <1>1
<1> HIDE DEF s2, c2
<1>8. TlsOwned(s2, c2)
  <2>1. \A f \in 1..TlsSlots : c2[f].status = "none" => c2[f] = TlsClosed
    BY <1>4 DEF TlsKept, TlsOwned
  <2>2. \A j \in TlsUsed(s2) : c2[s2[j].sock] # TlsClosed /\ TlsReady(s2[j], c2[s2[j].sock])
    BY <1>3, <1>4, <1>5, <1>6 DEF TlsKept, TlsOwned
  <2>3. \A j, k \in TlsUsed(s2) : s2[j].sock = s2[k].sock => j = k
    BY <1>3, <1>5 DEF TlsKept, TlsOwned
  <2>4. \A f \in 1..TlsSlots : c2[f] # TlsClosed => \E j \in TlsUsed(s2) : s2[j].sock = f
    BY <1>3, <1>4, <1>5 DEF TlsKept, TlsOwned
  <2> QED
    BY <2>1, <2>2, <2>3, <2>4 DEF TlsOwned
<1>9. TlsKept(s2, c2)
  BY <1>2, <1>8 DEF TlsKept
<1> QED
  BY <1>7, <1>9 DEF s2, c2

(* A free slot takes a free connection.                                    *)
LEMMA TlsOpenKept ==
  ASSUME NEW slots, NEW conns, TlsKept(slots, conns),
         NEW i \in 1..TlsSlots, slots[i].sock = 0, NEW f \in 1..TlsSlots, conns[f] = TlsClosed,
         NEW s \in TlsStreams, s.sock = f, NEW c \in TlsConns, c.status # "none", TlsReady(s, c)
  PROVE  TlsKept([slots EXCEPT ![i] = s], [conns EXCEPT ![f] = c])
<1> DEFINE s2 == [slots EXCEPT ![i] = s]
           c2 == [conns EXCEPT ![f] = c]
<1>1. /\ slots \in [1..TlsSlots -> TlsStreams] /\ conns \in [1..TlsSlots -> TlsConns]
      /\ f # 0
  BY TlsAssumption DEF TlsKept
<1>2. s2 \in [1..TlsSlots -> TlsStreams] /\ c2 \in [1..TlsSlots -> TlsConns]
  BY <1>1
<1>3. /\ TlsUsed(s2) = TlsUsed(slots) \cup {i} /\ i \notin TlsUsed(slots)
      /\ \A j \in 1..TlsSlots : s2[j] = IF j = i THEN s ELSE slots[j]
  BY <1>1 DEF TlsUsed
<1>4. \A g \in 1..TlsSlots : c2[g] = IF g = f THEN c ELSE conns[g]
  BY <1>1
<1>5. \A j \in TlsUsed(slots) : /\ j \in 1..TlsSlots /\ slots[j].sock \in 1..TlsSlots
                                /\ slots[j].sock # f
  BY <1>1, TlsAssumption DEF TlsKept, TlsOwned, TlsUsed, TlsStreams
<1>6. c # TlsClosed
  BY DEF TlsClosed
<1> HIDE DEF s2, c2
<1>7. TlsOwned(s2, c2)
  <2>1. \A g \in 1..TlsSlots : c2[g].status = "none" => c2[g] = TlsClosed
    BY <1>4 DEF TlsKept, TlsOwned
  <2>2. \A j \in TlsUsed(s2) : c2[s2[j].sock] # TlsClosed /\ TlsReady(s2[j], c2[s2[j].sock])
    BY <1>3, <1>4, <1>5, <1>6, SMTT(60) DEF TlsKept, TlsOwned
  <2>3. \A j, k \in TlsUsed(s2) : s2[j].sock = s2[k].sock => j = k
    BY <1>3, <1>5 DEF TlsKept, TlsOwned
  <2>4. \A g \in 1..TlsSlots : c2[g] # TlsClosed => \E j \in TlsUsed(s2) : s2[j].sock = g
    BY <1>3, <1>4, <1>5 DEF TlsKept, TlsOwned
  <2> QED
    BY <2>1, <2>2, <2>3, <2>4 DEF TlsOwned
<1> QED
  BY <1>2, <1>7 DEF TlsKept, s2, c2

(* All slots change at once, but not their connections.                    *)
LEMMA TlsRemarkKept ==
  ASSUME NEW slots, NEW conns, TlsKept(slots, conns), NEW s2 \in [1..TlsSlots -> TlsStreams],
         \A i \in 1..TlsSlots : /\ s2[i].sock = slots[i].sock /\ s2[i].server = slots[i].server
                                /\ s2[i].ssl_state \in {slots[i].ssl_state, 1}
  PROVE  TlsKept(s2, conns)
<1>1. TlsUsed(s2) = TlsUsed(slots) /\ TlsUsed(slots) \subseteq 1..TlsSlots
  BY DEF TlsUsed
<1>2. \A i \in TlsUsed(slots) : TlsReady(s2[i], conns[s2[i].sock])
  BY <1>1, SMTT(60) DEF TlsKept, TlsOwned, TlsReady
<1> QED
  BY <1>1, <1>2 DEF TlsKept, TlsOwned

(* The least of some slots, or connections, is one of them.                *)
LEMMA TlsLeast ==
  ASSUME NEW S, S \subseteq 1..TlsSlots, S # {}
  PROVE  Min(S) \in S
<1>1. S \subseteq Nat
  BY TlsAssumption
<1> QED
  BY <1>1, Least DEF Min

(* While a slot is free, so is a connection: the others have one each.     *)
LEMMA TlsRoom ==
  ASSUME NEW slots, NEW conns, TlsKept(slots, conns),
         NEW i \in 1..TlsSlots, slots[i].sock = 0
  PROVE  \E f \in 1..TlsSlots : conns[f] = TlsClosed
<1> SUFFICES ASSUME \A f \in 1..TlsSlots : conns[f] # TlsClosed PROVE FALSE
  OBVIOUS
<1> DEFINE U == TlsUsed(slots)
           own == [f \in 1..TlsSlots |-> CHOOSE j \in U : slots[j].sock = f]
<1>1. U \in SUBSET (1..TlsSlots) /\ i \notin U
  BY DEF TlsUsed
<1>2. \A f \in 1..TlsSlots : own[f] \in U /\ slots[own[f]].sock = f
  <2>1. \A f \in 1..TlsSlots : \E j \in U : slots[j].sock = f
    BY DEF TlsKept, TlsOwned
  <2> QED
    BY <2>1
<1>3. own \in [1..TlsSlots -> U]
  BY <1>2
<1> HIDE DEF U, own
<1>4. IsFiniteSet(1..TlsSlots)
  BY TlsAssumption, FS_Interval
<1>5. IsFiniteSet(U) /\ Cardinality(U) < Cardinality(1..TlsSlots)
  <2>1. /\ IsFiniteSet(U) /\ Cardinality(U) <= Cardinality(1..TlsSlots)
        /\ Cardinality(U) # Cardinality(1..TlsSlots)
    BY <1>1, <1>4, FS_Subset
  <2>2. Cardinality(U) \in Nat /\ Cardinality(1..TlsSlots) \in Nat
    BY <1>4, <2>1, FS_CardinalityType
  <2> QED
    BY <2>1, <2>2
<1>6. PICK f, g \in 1..TlsSlots : f # g /\ own[f] = own[g]
  <2>1. PICK S, T, h : S = 1..TlsSlots /\ T = U /\ h = own
    OBVIOUS
  <2>2. IsFiniteSet(S) /\ IsFiniteSet(T) /\ Cardinality(T) < Cardinality(S) /\ h \in [S -> T]
    BY <1>3, <1>4, <1>5, <2>1, Zenon
  <2> HIDE <2>1
  <2>3. \E x, y \in S : x # y /\ h[x] = h[y]
    BY <2>2, FS_PigeonHole, ZenonT(60)
  <2> QED
    BY <2>1, <2>3, Zenon
<1> QED
  BY <1>2, <1>6
-----------------------------------------------------------------------------
(* The fields of a state.                                                  *)
LEMMA TlsFields ==
  ASSUME NEW t, TlsInv(t)
  PROVE  /\ t = [slots |-> t.slots, conns |-> t.conns, exposed |-> t.exposed]
         /\ t.exposed = FALSE
BY DEF TlsInv, TlsState

(* The slots in use are those of the table.                                *)
LEMMA TlsTables ==
  ASSUME NEW t, TlsInv(t)
  PROVE  /\ TlsInUse(t) = TlsUsed(t.slots) /\ TlsInUse(t) \subseteq 1..TlsSlots
         /\ \A i \in TlsInUse(t) : /\ i \in 1..TlsSlots /\ t.slots[i].sock \in 1..TlsSlots
                                   /\ t.slots[i] \in TlsStreams /\ TlsConn(t, i) \in TlsConns
                                   /\ TlsConn(t, i) = t.conns[t.slots[i].sock]
                                   /\ TlsConn(t, i).status # "none"
                                   /\ TlsReady(t.slots[i], TlsConn(t, i))
         /\ \A i \in 1..TlsSlots : t.slots[i] \in TlsStreams /\ (i \notin TlsInUse(t) => t.slots[i].sock = 0)
<1>1. t.slots \in [1..TlsSlots -> TlsStreams] /\ t.conns \in [1..TlsSlots -> TlsConns]
  BY DEF TlsInv, TlsKept
<1>2. TlsInUse(t) = TlsUsed(t.slots) /\ TlsInUse(t) \subseteq 1..TlsSlots
  BY DEF TlsInUse, TlsUsed
<1>3. \A i \in TlsInUse(t) : t.slots[i].sock \in 1..TlsSlots
  BY <1>1, TlsAssumption DEF TlsInUse, TlsStreams
<1>4. \A i \in TlsInUse(t) : t.conns[t.slots[i].sock] # TlsClosed
                               /\ TlsReady(t.slots[i], t.conns[t.slots[i].sock])
  BY <1>2, SMTT(60) DEF TlsInv, TlsKept, TlsOwned
<1>5. \A i \in TlsInUse(t) : t.conns[t.slots[i].sock].status # "none"
  <2>1. \A f \in 1..TlsSlots : t.conns[f].status = "none" => t.conns[f] = TlsClosed
    BY DEF TlsInv, TlsKept, TlsOwned
  <2> QED
    BY <1>3, <1>4, <2>1, Zenon
<1> QED
  BY <1>1, <1>2, <1>3, <1>4, <1>5 DEF TlsConn, TlsInUse

(* The slots in D stay in use, and what they may carry they still may.     *)
TlsStays(t, u, D) == \A i \in D : i \in TlsInUse(u) /\ (TlsTrusted(t, i) => TlsTrusted(u, i))

(* Those that keep their connection do.                                    *)
LEMMA TlsSameStays ==
  ASSUME NEW t, NEW u, NEW D, D \subseteq TlsInUse(t),
         \A i \in D : u.slots[i] = t.slots[i] /\ u.conns[t.slots[i].sock] = t.conns[t.slots[i].sock]
  PROVE  TlsStays(t, u, D)
BY DEF TlsStays, TlsInUse, TlsTrusted, TlsConn

(* Some slots are closed; one slot is.                                     *)
LEMMA TlsClosesAll ==
  ASSUME NEW t, TlsInv(t), NEW D, D \subseteq 1..TlsSlots
  PROVE  /\ TlsInv(TlsCloseAll(t, D))
         /\ \A i \in 1..TlsSlots : TlsCloseAll(t, D).slots[i] = IF i \in D THEN TlsNoStream ELSE t.slots[i]
         /\ TlsStays(t, TlsCloseAll(t, D), TlsInUse(t) \ D)
<1> DEFINE s2 == [i \in 1..TlsSlots |-> IF i \in D THEN TlsNoStream ELSE t.slots[i]]
           c2 == [f \in 1..TlsSlots |-> IF f \in {t.slots[i].sock : i \in D} THEN TlsClosed
                                        ELSE t.conns[f]]
<1>1. t = [slots |-> t.slots, conns |-> t.conns, exposed |-> t.exposed]
  BY DEF TlsInv, TlsState
<1>2. TlsKept(s2, c2)
  <2>1. TlsKept(t.slots, t.conns)
    BY DEF TlsInv
  <2> QED
    BY <2>1, TlsCloseKept, Zenon
<1>3. TlsCloseAll(t, D) = [t EXCEPT !.slots = s2, !.conns = c2]
  BY DEF TlsCloseAll
<1>4. \A i \in 1..TlsSlots : s2[i] = IF i \in D THEN TlsNoStream ELSE t.slots[i]
  OBVIOUS
<1>7. ASSUME NEW i \in TlsInUse(t) \ D
      PROVE  s2[i] = t.slots[i] /\ c2[t.slots[i].sock] = t.conns[t.slots[i].sock]
  <2>1. /\ i \in TlsUsed(t.slots) /\ i \in 1..TlsSlots /\ t.slots[i].sock \in 1..TlsSlots
        /\ t.slots[i].sock # 0
    BY TlsTables DEF TlsInUse
  <2>2. ASSUME NEW j \in D PROVE t.slots[j].sock # t.slots[i].sock
    <3>1. t.slots[j].sock # 0 => j \in TlsUsed(t.slots)
      BY DEF TlsUsed
    <3>2. \A k, m \in TlsUsed(t.slots) : t.slots[k].sock = t.slots[m].sock => k = m
      BY DEF TlsInv, TlsKept, TlsOwned
    <3> QED
      BY <2>1, <3>1, <3>2
  <2> QED
    BY <2>1, <2>2
<1> HIDE DEF s2, c2
<1>5. TlsCloseAll(t, D) = TlsState(s2, c2, t.exposed)
  <2> SUFFICES ASSUME NEW u, u = [t EXCEPT !.slots = s2, !.conns = c2]
               PROVE  u = TlsState(s2, c2, t.exposed)
    BY <1>3
  <2> QED
    BY <1>1 DEF TlsState
<1>6. TlsInv(TlsState(s2, c2, t.exposed))
  <2>1. t.exposed = FALSE
    BY DEF TlsInv
  <2> QED
    BY <1>2, <2>1, TlsInvOf, Zenon
<1>8. TlsCloseAll(t, D).slots = s2 /\ TlsCloseAll(t, D).conns = c2
  BY <1>5 DEF TlsState
<1>9. TlsStays(t, TlsCloseAll(t, D), TlsInUse(t) \ D)
  BY <1>7, <1>8, TlsSameStays
<1> QED
  BY <1>4, <1>5, <1>6, <1>8, <1>9

(* Closing one is closing some.                                            *)
LEMMA TlsCloses ==
  ASSUME NEW t, TlsInv(t), NEW i \in 1..TlsSlots
  PROVE  TlsCloseSockinfo(t, i) = TlsCloseAll(t, {i})
<1> DEFINE s2 == [j \in 1..TlsSlots |-> IF j \in {i} THEN TlsNoStream ELSE t.slots[j]]
           c2 == [f \in 1..TlsSlots |-> IF f \in {t.slots[j].sock : j \in {i}} THEN TlsClosed
                                        ELSE t.conns[f]]
<1>0. /\ t = [slots |-> t.slots, conns |-> t.conns, exposed |-> t.exposed]
      /\ t.exposed = FALSE
  BY TlsFields
<1>1. t.slots \in [1..TlsSlots -> TlsStreams] /\ t.conns \in [1..TlsSlots -> TlsConns]
  BY DEF TlsInv, TlsKept
<1>2. [t.slots EXCEPT ![i] = TlsNoStream] = s2
  BY <1>1
<1>3. [t.conns EXCEPT ![t.slots[i].sock] = TlsClosed] = c2
  BY <1>1
<1>4. TlsCloseSockinfo(t, i) = TlsState([t.slots EXCEPT ![i] = TlsNoStream],
                                        [t.conns EXCEPT ![t.slots[i].sock] = TlsClosed], t.exposed)
  <2> SUFFICES ASSUME NEW u, u = TlsCloseSockinfo(t, i)
               PROVE  u = TlsState([t.slots EXCEPT ![i] = TlsNoStream],
                                   [t.conns EXCEPT ![t.slots[i].sock] = TlsClosed], t.exposed)
    OBVIOUS
  <2> QED
    BY <1>0 DEF TlsCloseSockinfo, TlsState
<1>5. TlsCloseAll(t, {i}) = [t EXCEPT !.slots = s2, !.conns = c2]
  BY DEF TlsCloseAll
<1> HIDE DEF s2, c2
<1>6. t = [slots |-> t.slots, conns |-> t.conns, exposed |-> t.exposed]
  BY DEF TlsInv, TlsState
<1>7. TlsCloseAll(t, {i}) = TlsState(s2, c2, t.exposed)
  <2> SUFFICES ASSUME NEW u, u = [t EXCEPT !.slots = s2, !.conns = c2]
               PROVE  u = TlsState(s2, c2, t.exposed)
    BY <1>5
  <2> QED
    BY <1>6 DEF TlsState
<1> QED
  BY <1>2, <1>3, <1>4, <1>7

(* So the others stay as they are.                                         *)
LEMMA TlsClosesOne ==
  ASSUME NEW t, TlsInv(t), NEW i \in 1..TlsSlots
  PROVE  /\ TlsInv(TlsCloseSockinfo(t, i))
         /\ TlsCloseSockinfo(t, i).slots[i] = TlsNoStream
         /\ TlsStays(t, TlsCloseSockinfo(t, i), TlsInUse(t) \ {i})
<1>1. /\ TlsInv(TlsCloseAll(t, {i}))
      /\ \A j \in 1..TlsSlots : TlsCloseAll(t, {i}).slots[j]
           = IF j \in {i} THEN TlsNoStream ELSE t.slots[j]
      /\ TlsStays(t, TlsCloseAll(t, {i}), TlsInUse(t) \ {i})
  BY TlsClosesAll
<1>2. TlsCloseSockinfo(t, i) = TlsCloseAll(t, {i})
  BY TlsCloses
<1> QED
  BY <1>1, <1>2

(* A message passes only where it may.                                     *)
LEMMA TlsMayCarry ==
  ASSUME NEW t, TlsInv(t), NEW i, TlsTrusted(t, i)
  PROVE  TlsCarries(t, i) = t
<1>1. t = [slots |-> t.slots, conns |-> t.conns, exposed |-> t.exposed]
  BY DEF TlsInv, TlsState
<1>3. (t.exposed \/ ~TlsTrusted(t, i)) = t.exposed
  BY DEF TlsInv
<1>4. ASSUME NEW u, u = [t EXCEPT !.exposed = t.exposed] PROVE u = t
  BY <1>1, <1>4
<1> QED
  BY <1>3, <1>4 DEF TlsCarries

(* A slot that is in use changes, alone or with its connection.            *)
TlsPut(t, i, s)        == [t EXCEPT !.slots[i] = s]
TlsPutBoth(t, i, s, c) == [t EXCEPT !.slots[i] = s, !.conns[s.sock] = c]
TlsSame(m, n)          == m \in TlsStreams /\ m.sock = n.sock /\ m.server = n.server

(* It stays in use.                                                        *)
LEMMA TlsSlotChanges ==
  ASSUME NEW t, TlsInv(t), NEW i \in TlsInUse(t),
         NEW s \in TlsStreams, TlsSame(s, t.slots[i]), TlsReady(s, TlsConn(t, i)),
         NEW u, u = TlsPut(t, i, s)
  PROVE  TlsInv(u) /\ TlsStays(t, u, TlsInUse(t))
<1>0. /\ t = [slots |-> t.slots, conns |-> t.conns, exposed |-> t.exposed]
      /\ t.exposed = FALSE
  BY TlsFields
<1>a. s.sock = t.slots[i].sock /\ s.server = t.slots[i].server
  BY DEF TlsSame
<1>1. /\ i \in TlsUsed(t.slots) /\ TlsKept(t.slots, t.conns)
      /\ TlsConn(t, i) \in TlsConns /\ TlsConn(t, i) = t.conns[s.sock] /\ TlsConn(t, i).status # "none"
  BY <1>a, TlsTables DEF TlsInv
<1>2. TlsKept([t.slots EXCEPT ![i] = s], t.conns)
  BY <1>a, <1>1, TlsChangeKept
<1>3. u = TlsState([t.slots EXCEPT ![i] = s], t.conns, t.exposed)
  BY <1>0 DEF TlsState, TlsPut
<1>4. t.exposed = FALSE
  BY <1>0
<1>5. TlsInv(TlsState([t.slots EXCEPT ![i] = s], t.conns, t.exposed))
  BY <1>2, <1>4, TlsInvOf, Zenon
<1>6. TlsInv(u)
  BY <1>3, <1>5, Zenon
<1>7. u.slots = [t.slots EXCEPT ![i] = s]
  BY <1>3 DEF TlsState
<1>8. t.slots \in [1..TlsSlots -> TlsStreams] /\ i \in 1..TlsSlots
  BY TlsTables DEF TlsInv, TlsKept
<1>9. u.slots[i] = s /\ \A j \in 1..TlsSlots : j # i => u.slots[j] = t.slots[j]
  BY <1>7, <1>8
<1>b. u.conns = t.conns
  BY <1>3 DEF TlsState
<1>10. ASSUME NEW j \in TlsInUse(t)
       PROVE  j \in TlsInUse(u) /\ (TlsTrusted(t, j) => TlsTrusted(u, j))
  <2>1. u.slots[j].sock = t.slots[j].sock /\ u.slots[j].server = t.slots[j].server
    BY <1>a, <1>9 DEF TlsInUse
  <2> QED
    BY <1>b, <2>1 DEF TlsInUse, TlsTrusted, TlsConn
<1> QED
  BY <1>6, <1>10 DEF TlsStays

(* A slot changes together with its connection.                            *)
LEMMA TlsBothChange ==
  ASSUME NEW t, TlsInv(t), NEW i \in TlsInUse(t),
         NEW s \in TlsStreams, TlsSame(s, t.slots[i]),
         NEW c \in TlsConns, c.status # "none", TlsReady(s, c),
         TlsTrusted(t, i) => c.shaken /\ (s.server \/ TlsAccepted(c.cert)),
         NEW u, u = TlsPutBoth(t, i, s, c)
  PROVE  /\ TlsInv(u) /\ TlsStays(t, u, TlsInUse(t))
         /\ u.slots[i] = s /\ TlsConn(u, i) = c
<1>0. /\ t = [slots |-> t.slots, conns |-> t.conns, exposed |-> t.exposed]
      /\ t.exposed = FALSE
  BY TlsFields
<1>a. s.sock = t.slots[i].sock /\ s.server = t.slots[i].server
  BY DEF TlsSame
<1>1. i \in TlsUsed(t.slots) /\ TlsKept(t.slots, t.conns)
  BY TlsTables DEF TlsInv
<1>2. TlsKept([t.slots EXCEPT ![i] = s], [t.conns EXCEPT ![s.sock] = c])
  BY <1>a, <1>1, TlsChangeKept
<1>3. u = TlsState([t.slots EXCEPT ![i] = s], [t.conns EXCEPT ![s.sock] = c], t.exposed)
  BY <1>0 DEF TlsState, TlsPutBoth
<1>4. t.exposed = FALSE
  BY <1>0
<1>5. TlsInv(TlsState([t.slots EXCEPT ![i] = s], [t.conns EXCEPT ![s.sock] = c], t.exposed))
  BY <1>2, <1>4, TlsInvOf, Zenon
<1>6. TlsInv(u)
  BY <1>3, <1>5, Zenon
<1>7. u.slots = [t.slots EXCEPT ![i] = s]
  BY <1>3 DEF TlsState
<1>8. t.slots \in [1..TlsSlots -> TlsStreams] /\ i \in 1..TlsSlots
  BY TlsTables DEF TlsInv, TlsKept
<1>9. u.slots[i] = s /\ \A j \in 1..TlsSlots : j # i => u.slots[j] = t.slots[j]
  BY <1>7, <1>8
<1>b. /\ u.conns = [t.conns EXCEPT ![s.sock] = c] /\ t.conns \in [1..TlsSlots -> TlsConns]
      /\ s.sock \in 1..TlsSlots
  <2>1. t.slots[i].sock \in 1..TlsSlots
    BY TlsTables
  <2> QED
    BY <1>a, <1>3, <2>1 DEF TlsState, TlsInv, TlsKept
<1>c. u.conns[s.sock] = c /\ \A f \in 1..TlsSlots : f # s.sock => u.conns[f] = t.conns[f]
  BY <1>b
<1>d. TlsConn(u, i) = c
  BY <1>9, <1>c DEF TlsConn
<1>10. ASSUME NEW j \in TlsInUse(t)
       PROVE  j \in TlsInUse(u) /\ (TlsTrusted(t, j) => TlsTrusted(u, j))
  <2>1. CASE j = i
    <3>1. u.slots[i].sock # 0
      BY <1>a, <1>9 DEF TlsInUse
    <3> QED
      BY <1>8, <1>9, <1>d, <2>1, <3>1 DEF TlsInUse, TlsTrusted
  <2>2. CASE j # i
    <3>1. u.slots[j] = t.slots[j] /\ j \in 1..TlsSlots /\ t.slots[j].sock \in 1..TlsSlots
      BY <1>9, <2>2, TlsTables
    <3>2. t.slots[j].sock # s.sock
      <4>1. i \in TlsUsed(t.slots) /\ j \in TlsUsed(t.slots)
        BY TlsTables
      <4> QED
        BY <1>a, <2>2, <4>1 DEF TlsInv, TlsKept, TlsOwned
    <3>3. u.conns[t.slots[j].sock] = t.conns[t.slots[j].sock]
      BY <1>c, <3>1, <3>2
    <3> QED
      BY <3>1, <3>3 DEF TlsInUse, TlsTrusted, TlsConn
  <2> QED
    BY <2>1, <2>2
<1> QED
  BY <1>6, <1>9, <1>10, <1>d DEF TlsStays

(* While a slot is free there is a connection that is.                     *)
LEMMA TlsFreeFound ==
  ASSUME NEW t, TlsInv(t), NEW i \in 1..TlsSlots, i \notin TlsInUse(t)
  PROVE  /\ t.slots[i].sock = 0
         /\ TlsFreeFd(t) \in 1..TlsSlots /\ t.conns[TlsFreeFd(t)] = TlsClosed
<1>1. t.slots[i].sock = 0
  BY DEF TlsInUse
<1>2. {g \in 1..TlsSlots : t.conns[g] = TlsClosed} # {}
  BY <1>1, TlsRoom DEF TlsInv
<1>3. TlsFreeFd(t) \in {g \in 1..TlsSlots : t.conns[g] = TlsClosed}
  BY <1>2, TlsLeast DEF TlsFreeFd
<1> QED
  BY <1>1, <1>3

(* They are taken.                                                         *)
LEMMA TlsTakes ==
  ASSUME NEW t, TlsInv(t), NEW i \in 1..TlsSlots, i \notin TlsInUse(t),
         NEW c \in TlsConns, c.status # "none",
         NEW s \in TlsStreams, s.sock = TlsFreeFd(t), TlsReady(s, c),
         NEW u, u = TlsTake(t, i, s, c)
  PROVE  /\ TlsInv(u) /\ TlsStays(t, u, TlsInUse(t)) /\ i \in TlsInUse(u)
         /\ u.slots[i] = s /\ TlsConn(u, i) = c
<1> DEFINE f == TlsFreeFd(t)
<1>0. /\ t = [slots |-> t.slots, conns |-> t.conns, exposed |-> t.exposed]
      /\ t.exposed = FALSE
  BY TlsFields
<1>1. t.slots[i].sock = 0 /\ f \in 1..TlsSlots /\ t.conns[f] = TlsClosed
  BY TlsFreeFound
<1>2. u = [t EXCEPT !.conns[f] = c, !.slots[i] = s] /\ s.sock = f
  BY DEF TlsTake
<1> HIDE DEF f
<1>3. TlsKept([t.slots EXCEPT ![i] = s], [t.conns EXCEPT ![f] = c])
  BY <1>1, <1>2, TlsOpenKept DEF TlsInv
<1>4. u = TlsState([t.slots EXCEPT ![i] = s], [t.conns EXCEPT ![f] = c], t.exposed)
  BY <1>0, <1>2 DEF TlsState
<1>5. TlsInv(u)
  <2>1. t.exposed = FALSE
    BY <1>0
  <2>2. TlsInv(TlsState([t.slots EXCEPT ![i] = s], [t.conns EXCEPT ![f] = c], t.exposed))
    BY <1>3, <2>1, TlsInvOf, Zenon
  <2> QED
    BY <1>4, <2>2, Zenon
<1>6. /\ u.slots = [t.slots EXCEPT ![i] = s] /\ t.slots \in [1..TlsSlots -> TlsStreams]
      /\ u.conns = [t.conns EXCEPT ![f] = c] /\ t.conns \in [1..TlsSlots -> TlsConns]
  BY <1>4 DEF TlsState, TlsInv, TlsKept
<1>7. u.slots[i] = s /\ \A j \in 1..TlsSlots : j # i => u.slots[j] = t.slots[j]
  BY <1>6
<1>8. u.conns[f] = c /\ \A g \in 1..TlsSlots : g # f => u.conns[g] = t.conns[g]
  BY <1>1, <1>6
<1>9. i \in TlsInUse(u) /\ TlsConn(u, i) = c
  BY <1>1, <1>2, <1>7, <1>8, TlsAssumption DEF TlsInUse, TlsConn
<1>10. ASSUME NEW j \in TlsInUse(t)
       PROVE  u.slots[j] = t.slots[j] /\ u.conns[t.slots[j].sock] = t.conns[t.slots[j].sock]
  <2>1. j \in 1..TlsSlots /\ j # i /\ t.slots[j].sock \in 1..TlsSlots
    BY TlsTables
  <2>2. t.slots[j].sock # f
    BY <1>1, TlsTables DEF TlsClosed
  <2> QED
    BY <1>7, <1>8, <2>1, <2>2
<1>11. TlsStays(t, u, TlsInUse(t))
  BY <1>10, TlsSameStays
<1> QED
  BY <1>5, <1>7, <1>9, <1>11
-----------------------------------------------------------------------------
(* The updates the code makes of a slot: none moves it to another          *)
(* connection.                                                             *)
TlsTried(n)     == [n EXCEPT !.ssl_conn = TRUE]
TlsUp(n)        == [n EXCEPT !.ssl_state = 1, !.pending = FALSE]
TlsReadNow(n)   == [n EXCEPT !.ssl_state = 3]
TlsSettled(n, p, q) == [n EXCEPT !.pending = p, !.ssl_state = q]
TlsDoubted(n, p) == [n EXCEPT !.invalid = p]

LEMMA TlsUpdates ==
  ASSUME NEW n \in TlsStreams
  PROVE  /\ TlsSame(TlsTried(n), n) /\ TlsTried(n).ssl_state = n.ssl_state
         /\ TlsSame(TlsUp(n), n) /\ TlsUp(n).ssl_state = 1
         /\ TlsSame(TlsReadNow(n), n) /\ TlsReadNow(n).ssl_state = 3
<1>0. n = [sock |-> n.sock, peer |-> n.peer, server |-> n.server, pending |-> n.pending,
           invalid |-> n.invalid, ssl_state |-> n.ssl_state, ssl_conn |-> n.ssl_conn]
  BY DEF TlsStreams
<1>1. ASSUME NEW m, m = [n EXCEPT !.ssl_conn = TRUE]
      PROVE  TlsSame(m, n) /\ m.ssl_state = n.ssl_state
  BY <1>0, <1>1 DEF TlsSame, TlsStreams
<1>3. ASSUME NEW m, m = [n EXCEPT !.ssl_state = 1, !.pending = FALSE]
      PROVE  TlsSame(m, n) /\ m.ssl_state = 1
  <2>1. m = [[n EXCEPT !.ssl_state = 1] EXCEPT !.pending = FALSE]
    BY <1>3
  <2>2. PICK k : k = [n EXCEPT !.ssl_state = 1]
    OBVIOUS
  <2>3. TlsSame(k, n) /\ k.ssl_state = 1
    BY <1>0, <2>2 DEF TlsSame, TlsStreams
  <2>4. m = [k EXCEPT !.pending = FALSE]
    BY <2>1, <2>2
  <2> QED
    BY <2>3, <2>4 DEF TlsSame, TlsStreams
<1>4. ASSUME NEW m, m = [n EXCEPT !.ssl_state = 3]
      PROVE  TlsSame(m, n) /\ m.ssl_state = 3
  BY <1>0, <1>4 DEF TlsSame, TlsStreams
<1> QED
  BY <1>1, <1>3, <1>4 DEF TlsTried, TlsUp, TlsReadNow

(* Those that every slot gets at once.                                     *)
LEMMA TlsUpdatesOfAll ==
  ASSUME NEW n \in TlsStreams, NEW p \in BOOLEAN, NEW q \in 0..3
  PROVE  /\ TlsSame(TlsSettled(n, p, q), n) /\ TlsSettled(n, p, q).ssl_state = q
         /\ TlsSettled(n, p, q).peer = n.peer
         /\ TlsSame(TlsDoubted(n, p), n) /\ TlsDoubted(n, p).ssl_state = n.ssl_state
<1>0. n = [sock |-> n.sock, peer |-> n.peer, server |-> n.server, pending |-> n.pending,
           invalid |-> n.invalid, ssl_state |-> n.ssl_state, ssl_conn |-> n.ssl_conn]
  BY DEF TlsStreams
<1>1. ASSUME NEW m, m = [n EXCEPT !.pending = p, !.ssl_state = q]
      PROVE  TlsSame(m, n) /\ m.ssl_state = q /\ m.peer = n.peer
  BY <1>0, <1>1 DEF TlsSame, TlsStreams
<1>2. ASSUME NEW m, m = [n EXCEPT !.invalid = p]
      PROVE  TlsSame(m, n) /\ m.ssl_state = n.ssl_state
  BY <1>0, <1>2 DEF TlsSame, TlsStreams
<1> QED
  BY <1>1, <1>2 DEF TlsSettled, TlsDoubted
-----------------------------------------------------------------------------
(* Somebody's slot is in nobody's hands but his: what a thread has in hand *)
(* is in use, and where it passes messages it may.                         *)
TlsHeld(t, p) ==
  /\ p.pc \in {"accept", "open"} => p.slot \in 1..TlsSlots
  /\ p.pc = "open" => p.peer \in TlsPeers
  /\ p.pc \notin {"idle", "accept", "open"} => p.slot \in TlsInUse(t)
  /\ p.pc \in {"passed", "read", "write"} => TlsTrusted(t, p.slot)
TlsPlaced(at) == at = [w \in TlsThreads |-> at[w]]
TlsSound(t, at) == TlsInv(t) /\ \A w \in TlsThreads : TlsHeld(t, at[w])
TlsSafe ==
  /\ TlsPlaced(tlsAt) /\ tlsTorn \subseteq TlsTearings
  /\ tlsTorn = {} => TlsSound(tls, tlsAt)

(* A thread that goes on moves alone.                                      *)
LEMMA TlsMoves ==
  ASSUME NEW at, TlsPlaced(at), NEW w \in TlsThreads, NEW q, NEW bt, bt = [at EXCEPT ![w] = q]
  PROVE  /\ TlsPlaced(bt) /\ bt[w] = q
         /\ \A v \in TlsThreads : v # w => bt[v] = at[v]
BY DEF TlsPlaced

(* Whose slots are taken from the other is told.                           *)
LEMMA TlsTearsTold ==
  ASSUME NEW w \in TlsThreads, NEW D, NEW why
  PROVE  /\ TlsTears(w, D, why) \subseteq {<<TlsOther(w), why>>}
         /\ \A v \in TlsThreads : v # w /\ TlsTears(w, D, why) = {} /\ TlsUsing(v) => tlsAt[v].slot \notin D
<1>1. \A v \in TlsThreads : v # w => v = TlsOther(w)
  BY DEF TlsThreads, TlsOther
<1> QED
  BY <1>1 DEF TlsTears

(* A step of one thread, which takes the slots in D away and leaves the    *)
(* others as they are.                                                     *)
LEMMA TlsStepOf ==
  ASSUME TlsPlaced(tlsAt), TlsSound(tls, tlsAt), NEW w \in TlsThreads, NEW D,
         TlsInv(tls'), TlsStays(tls, tls', TlsInUse(tls) \ D),
         NEW q, tlsAt' = [tlsAt EXCEPT ![w] = q], TlsHeld(tls', q),
         tlsTorn' \subseteq TlsTearings,
         tlsTorn' = {} => \A v \in TlsThreads : v # w /\ TlsUsing(v) => tlsAt[v].slot \notin D
  PROVE  TlsSafe'
<1>1. /\ TlsPlaced(tlsAt') /\ tlsAt'[w] = q
      /\ \A v \in TlsThreads : v # w => tlsAt'[v] = tlsAt[v]
  <2>1. PICK bt : bt = tlsAt'
    OBVIOUS
  <2>2. bt = [tlsAt EXCEPT ![w] = q]
    BY <2>1
  <2>3. TlsPlaced(bt) /\ bt[w] = q /\ \A v \in TlsThreads : v # w => bt[v] = tlsAt[v]
    BY <2>2 DEF TlsPlaced
  <2> QED
    BY <2>1, <2>3
<1>2. ASSUME tlsTorn' = {}, NEW v \in TlsThreads, v # w PROVE TlsHeld(tls', tlsAt[v])
  <2>1. TlsHeld(tls, tlsAt[v])
    BY DEF TlsSound
  <2>2. TlsUsing(v) => tlsAt[v].slot \notin D
    BY <1>2
  <2> QED
    BY <2>1, <2>2 DEF TlsHeld, TlsStays, TlsUsing
<1> QED
  BY <1>1, <1>2 DEF TlsSafe, TlsSound

(* One that takes nothing away.                                            *)
LEMMA TlsQuietStep ==
  ASSUME TlsPlaced(tlsAt), TlsSound(tls, tlsAt), NEW w \in TlsThreads, tlsTorn = {}, UNCHANGED tlsTorn,
         TlsInv(tls'), TlsStays(tls, tls', TlsInUse(tls)),
         NEW q, tlsAt' = [tlsAt EXCEPT ![w] = q], TlsHeld(tls', q)
  PROVE  TlsSafe'
<1>1. TlsInUse(tls) \ {} = TlsInUse(tls)
  OBVIOUS
<1> QED
  BY <1>1, TlsStepOf, Zenon

(* A thread that found its slot filled by the other.                       *)
LEMMA TlsTornStep ==
  ASSUME TlsPlaced(tlsAt), NEW w \in TlsThreads, tlsTorn' = {<<w, "taken">>}, TlsEnds(w)
  PROVE  TlsSafe'
<1>1. TlsPlaced(tlsAt')
  <2>1. tlsAt' = [tlsAt EXCEPT ![w] = TlsIdle]
    BY DEF TlsEnds
  <2> QED
    BY <2>1, TlsMoves, Zenon
<1>2. <<w, "taken">> \in TlsTearings
  BY DEF TlsTearings, TlsThreads
<1> QED
  BY <1>1, <1>2 DEF TlsSafe

(* A thread with nothing in hand, and one that has a slot in use.          *)
LEMMA TlsHolds ==
  ASSUME NEW t
  PROVE  /\ TlsHeld(t, TlsIdle)
         /\ \A i \in TlsInUse(t), pc \in {"looked", "shake", "failed", "walk"} : TlsHeld(t, TlsAtSlot(pc, i))
         /\ \A i \in TlsInUse(t), pc \in {"passed", "read", "write"} :
              TlsTrusted(t, i) => TlsHeld(t, TlsAtSlot(pc, i))
         /\ \A i \in 1..TlsSlots : TlsHeld(t, TlsAtSlot("accept", i))
BY DEF TlsHeld, TlsIdle, TlsAtSlot

(* What is open may be used.                                               *)
LEMMA TlsOpenTrusted ==
  ASSUME NEW t, TlsInv(t), NEW i \in TlsInUse(t), t.slots[i].ssl_state \in {2, 3}
  PROVE  TlsTrusted(t, i)
BY TlsTables DEF TlsReady, TlsTrusted

(* Where a thread is when it holds a slot.                                 *)
LEMMA TlsInHand ==
  ASSUME TlsSound(tls, tlsAt), NEW w \in TlsThreads, tlsAt[w].pc \notin {"idle", "accept", "open"}
  PROVE  /\ tlsAt[w].slot \in TlsInUse(tls) /\ tlsAt[w].slot \in 1..TlsSlots /\ TlsInv(tls)
         /\ tlsAt[w].pc \in {"passed", "read", "write"} => TlsTrusted(tls, tlsAt[w].slot)
BY DEF TlsSound, TlsHeld, TlsInUse

(* What does not change stays.                                             *)
LEMMA TlsUnchangedStays == \A t : TlsStays(t, t, TlsInUse(t))
BY DEF TlsStays
-----------------------------------------------------------------------------
(* The connection is known to be up.                                       *)
LEMMA TlsConnectedKeeps ==
  ASSUME NEW t, TlsInv(t), NEW i \in TlsInUse(t)
  PROVE  TlsInv(TlsConnectedNow(t, i)) /\ TlsStays(t, TlsConnectedNow(t, i), TlsInUse(t))
<1> DEFINE s == TlsUp(t.slots[i])
           u == TlsConnectedNow(t, i)
<1>1. t.slots[i] \in TlsStreams
  BY TlsTables
<1>2. s \in TlsStreams /\ TlsSame(s, t.slots[i]) /\ s.ssl_state = 1
  BY <1>1, TlsUpdates DEF TlsSame
<1>3. TlsReady(s, TlsConn(t, i))
  BY <1>2 DEF TlsReady
<1>4. u = TlsPut(t, i, s)
  BY DEF TlsConnectedNow, TlsUp, TlsPut
<1> HIDE DEF s, u
<1>5. TlsInv(u) /\ TlsStays(t, u, TlsInUse(t))
  BY <1>2, <1>3, <1>4, TlsSlotChanges
<1> QED
  BY <1>5 DEF u

(* Either thread, after its look.                                          *)
LEMMA TlsLookedKeeps ==
  ASSUME TlsPlaced(tlsAt), TlsSound(tls, tlsAt), tlsTorn = {}, NEW w \in TlsThreads, TlsLooked(w)
  PROVE  TlsSafe'
<1> DEFINE i == tlsAt[w].slot
<1>1. i \in TlsInUse(tls) /\ TlsInv(tls)
  BY TlsInHand DEF TlsLooked
<1>2. tls' = TlsConnectedNow(tls, i) /\ tlsAt' = [tlsAt EXCEPT ![w] = TlsAtSlot("shake", i)] /\ UNCHANGED tlsTorn
  BY DEF TlsLooked, TlsGoes
<1> HIDE DEF i
<1>3. TlsInv(tls') /\ TlsStays(tls, tls', TlsInUse(tls))
  BY <1>1, <1>2, TlsConnectedKeeps
<1>4. i \in TlsInUse(tls')
  BY <1>1, <1>3 DEF TlsStays
<1>5. TlsHeld(tls', TlsAtSlot("shake", i))
  BY <1>4, TlsHolds
<1> QED
  BY <1>2, <1>3, <1>5, TlsQuietStep

(* A handshake that is over: the certificate is known from then on.        *)
LEMMA TlsShakenKeeps ==
  ASSUME NEW t, TlsInv(t), NEW i \in TlsInUse(t), NEW cert \in TlsShown(TlsConn(t, i)),
         NEW u, u = TlsShaken(t, i, cert)
  PROVE  /\ TlsInv(u) /\ TlsStays(t, u, TlsInUse(t))
         /\ TlsAccepted(cert) => TlsTrusted(u, i)
<1> DEFINE s == TlsTried(t.slots[i])
<1>0. PICK c : c = [TlsConn(t, i) EXCEPT !.shaken = TRUE, !.cert = cert]
  OBVIOUS
<1>1. /\ t.slots[i] \in TlsStreams /\ TlsConn(t, i) \in TlsConns /\ TlsConn(t, i).status # "none"
      /\ TlsReady(t.slots[i], TlsConn(t, i))
  BY TlsTables
<1>2. TlsSame(s, t.slots[i]) /\ s.ssl_state = t.slots[i].ssl_state /\ s \in TlsStreams
  BY <1>1, TlsUpdates DEF TlsSame
<1>3. cert \in TlsCertificates \cup {"none"} /\ (TlsConn(t, i).shaken => cert = TlsConn(t, i).cert)
  BY <1>1 DEF TlsShown, TlsConns
<1>4. /\ c \in TlsConns /\ c.status # "none" /\ c.shaken = TRUE /\ c.cert = cert
  <2>1. PICK d \in TlsConns : d = TlsConn(t, i)
    BY <1>1
  <2>2. d = [status |-> d.status, cert |-> d.cert, shaken |-> d.shaken]
    BY DEF TlsConns
  <2>3. c = [d EXCEPT !.shaken = TRUE, !.cert = cert]
    BY <1>0, <2>1
  <2>4. c = [status |-> d.status, cert |-> cert, shaken |-> TRUE]
    BY <2>2, <2>3
  <2> QED
    BY <1>1, <1>3, <2>1, <2>4 DEF TlsConns
<1>5. u = TlsPutBoth(t, i, s, c)
  BY <1>0, <1>2 DEF TlsShaken, TlsTried, TlsPutBoth, TlsSame
<1> HIDE DEF s
<1>6. TlsReady(s, c)
  BY <1>1, <1>2, <1>3, <1>4 DEF TlsReady, TlsSame
<1>7. TlsTrusted(t, i) => c.shaken /\ (s.server \/ TlsAccepted(c.cert))
  BY <1>2, <1>3, <1>4 DEF TlsTrusted, TlsSame
<1>8. TlsInv(u) /\ TlsStays(t, u, TlsInUse(t)) /\ u.slots[i] = s /\ TlsConn(u, i) = c
  BY <1>2, <1>4, <1>5, <1>6, <1>7, TlsBothChange
<1>9. TlsAccepted(cert) => TlsTrusted(u, i)
  BY <1>4, <1>8 DEF TlsTrusted
<1> QED
  BY <1>8, <1>9

(* One that is under way.                                                  *)
LEMMA TlsBegunKeeps ==
  ASSUME NEW t, TlsInv(t), NEW i \in TlsInUse(t)
  PROVE  /\ TlsInv(TlsBegun(t, i)) /\ TlsStays(t, TlsBegun(t, i), TlsInUse(t))
<1> DEFINE s == TlsTried(t.slots[i])
           u == TlsBegun(t, i)
<1>1. t.slots[i] \in TlsStreams /\ TlsReady(t.slots[i], TlsConn(t, i))
  BY TlsTables
<1>2. s \in TlsStreams /\ TlsSame(s, t.slots[i]) /\ s.ssl_state = t.slots[i].ssl_state
  BY <1>1, TlsUpdates DEF TlsSame
<1>3. TlsReady(s, TlsConn(t, i))
  BY <1>1, <1>2 DEF TlsReady, TlsSame
<1>4. u = TlsPut(t, i, s)
  BY DEF TlsBegun, TlsTried, TlsPut
<1> HIDE DEF s, u
<1>5. TlsInv(u) /\ TlsStays(t, u, TlsInUse(t))
  BY <1>2, <1>3, <1>4, TlsSlotChanges
<1> QED
  BY <1>5 DEF u

(* A turn of the handshake.                                                *)
LEMMA TlsSslConnectKeeps ==
  ASSUME TlsPlaced(tlsAt), TlsSound(tls, tlsAt), tlsTorn = {}, NEW w \in TlsThreads, TlsSslConnect(w)
  PROVE  TlsSafe'
<1>1. PICK i : i = tlsAt[w].slot
  OBVIOUS
<1>2. i \in TlsInUse(tls) /\ TlsInv(tls) /\ UNCHANGED tlsTorn
  BY <1>1, TlsInHand DEF TlsSslConnect
<1>3. \/ tls' = tls /\ TlsGoes(w, "failed")
      \/ /\ tls' = TlsBegun(tls, i)
         /\ IF w = "reader" /\ tls.slots[i].ssl_state = 3 THEN TlsGoes(w, "read") ELSE TlsEnds(w)
      \/ \E cert \in TlsShown(TlsConn(tls, i)) :
           tls' = TlsShaken(tls, i, cert) /\ TlsGoes(w, TlsVerdict(cert))
  BY <1>1 DEF TlsSslConnect
<1>4. CASE tls' = tls /\ TlsGoes(w, "failed")
  <2>1. TlsHeld(tls', TlsAtSlot("failed", i))
    BY <1>2, <1>4, TlsHolds
  <2>2. tlsAt' = [tlsAt EXCEPT ![w] = TlsAtSlot("failed", i)]
    BY <1>1, <1>4 DEF TlsGoes
  <2>3. TlsInv(tls') /\ TlsStays(tls, tls', TlsInUse(tls))
    BY <1>2, <1>4, TlsUnchangedStays
  <2> QED
    BY <1>2, <2>1, <2>2, <2>3, TlsQuietStep
<1>5. CASE /\ tls' = TlsBegun(tls, i)
           /\ IF w = "reader" /\ tls.slots[i].ssl_state = 3 THEN TlsGoes(w, "read") ELSE TlsEnds(w)
  <2>1. TlsInv(tls') /\ TlsStays(tls, tls', TlsInUse(tls))
    BY <1>2, <1>5, TlsBegunKeeps
  <2>2. i \in TlsInUse(tls')
    BY <1>2, <2>1 DEF TlsStays
  <2>3. CASE TlsEnds(w)
    <3>1. TlsHeld(tls', TlsIdle) /\ tlsAt' = [tlsAt EXCEPT ![w] = TlsIdle]
      BY <2>3, TlsHolds DEF TlsEnds
    <3> QED
      BY <1>2, <2>1, <3>1, TlsQuietStep
  <2>4. CASE tls.slots[i].ssl_state = 3 /\ TlsGoes(w, "read")
    <3>1. TlsTrusted(tls', i)
      BY <1>2, <2>1, <2>4, TlsOpenTrusted DEF TlsStays
    <3>2. TlsHeld(tls', TlsAtSlot("read", i))
      BY <2>2, <3>1, TlsHolds
    <3>3. tlsAt' = [tlsAt EXCEPT ![w] = TlsAtSlot("read", i)]
      BY <1>1, <2>4 DEF TlsGoes
    <3> QED
      BY <1>2, <2>1, <3>2, <3>3, TlsQuietStep
  <2> QED
    BY <1>5, <2>3, <2>4
<1>6. ASSUME NEW cert \in TlsShown(TlsConn(tls, i)),
             tls' = TlsShaken(tls, i, cert), TlsGoes(w, TlsVerdict(cert))
      PROVE  TlsSafe'
  <2>1. /\ TlsInv(tls') /\ TlsStays(tls, tls', TlsInUse(tls))
        /\ TlsAccepted(cert) => TlsTrusted(tls', i)
    BY <1>2, <1>6, TlsShakenKeeps
  <2>2. i \in TlsInUse(tls')
    BY <1>2, <2>1 DEF TlsStays
  <2>3. TlsHeld(tls', TlsAtSlot(TlsVerdict(cert), i))
    BY <2>1, <2>2, TlsHolds DEF TlsVerdict
  <2>4. tlsAt' = [tlsAt EXCEPT ![w] = TlsAtSlot(TlsVerdict(cert), i)]
    BY <1>1, <1>6 DEF TlsGoes
  <2> QED
    BY <1>2, <2>1, <2>3, <2>4, TlsQuietStep
<1> QED
  BY <1>3, <1>4, <1>5, <1>6

(* The certificate was accepted.                                           *)
LEMMA TlsPassedKeeps ==
  ASSUME TlsPlaced(tlsAt), TlsSound(tls, tlsAt), tlsTorn = {}, NEW w \in TlsThreads, TlsPassed(w)
  PROVE  TlsSafe'
<1>1. PICK i : i = tlsAt[w].slot
  OBVIOUS
<1>2. i \in TlsInUse(tls) /\ TlsInv(tls) /\ UNCHANGED tlsTorn /\ TlsTrusted(tls, i)
  BY <1>1, TlsInHand DEF TlsPassed
<1>3. /\ tls' = [tls EXCEPT !.slots[i].ssl_state = 3]
      /\ TlsGoes(w, IF w = "reader" THEN "read" ELSE "write")
  BY <1>1 DEF TlsPassed
<1> DEFINE s == TlsReadNow(tls.slots[i])
<1>4. TlsSame(s, tls.slots[i]) /\ s \in TlsStreams
  BY <1>2, TlsTables, TlsUpdates DEF TlsSame
<1>5. TlsReady(s, TlsConn(tls, i))
  <2> HIDE DEF s
  <2> QED
    BY <1>2, <1>4 DEF TlsTrusted, TlsReady, TlsSame
<1>6. tls' = TlsPut(tls, i, s)
  BY <1>3 DEF TlsReadNow, TlsPut
<1> HIDE DEF s
<1>7. TlsInv(tls') /\ TlsStays(tls, tls', TlsInUse(tls))
  BY <1>2, <1>4, <1>5, <1>6, TlsSlotChanges
<1>8. PICK pc \in {"read", "write"} : tlsAt' = [tlsAt EXCEPT ![w] = TlsAtSlot(pc, i)]
  BY <1>1, <1>3 DEF TlsGoes
<1>9. TlsHeld(tls', TlsAtSlot(pc, i))
  BY <1>2, <1>7, TlsHolds DEF TlsStays
<1> QED
  BY <1>2, <1>7, <1>8, <1>9, TlsQuietStep

(* The handshake or the connection failed: the slot is taken from the      *)
(* other thread if that has it in hand.                                    *)
LEMMA TlsFailedKeeps ==
  ASSUME TlsPlaced(tlsAt), TlsSound(tls, tlsAt), tlsTorn = {}, NEW w \in TlsThreads, TlsFailed(w)
  PROVE  TlsSafe'
<1>1. PICK i : i = tlsAt[w].slot
  OBVIOUS
<1>2. i \in 1..TlsSlots /\ TlsInv(tls)
  BY <1>1, TlsInHand DEF TlsFailed
<1>3. /\ tls' = TlsCloseSockinfo(tls, i) /\ tlsAt' = [tlsAt EXCEPT ![w] = TlsIdle]
      /\ tlsTorn' = TlsTears(w, {i}, "failed")
  BY <1>1 DEF TlsFailed, TlsEnds
<1>4. TlsInv(tls') /\ TlsStays(tls, tls', TlsInUse(tls) \ {i})
  BY <1>2, <1>3, TlsClosesOne
<1>5. <<TlsOther(w), "failed">> \in TlsTearings
  BY DEF TlsTearings, TlsOther
<1>6. /\ tlsTorn' \subseteq TlsTearings
      /\ tlsTorn' = {} => \A v \in TlsThreads : v # w /\ TlsUsing(v) => tlsAt[v].slot \notin {i}
  BY <1>3, <1>5, TlsTearsTold, Zenon
<1> QED
  BY <1>3, <1>4, <1>6, TlsHolds, TlsStepOf
-----------------------------------------------------------------------------
(* A thread that does nothing more with its slot, or goes on with one it   *)
(* has in hand, without touching the table.                                *)
LEMMA TlsWalks ==
  ASSUME TlsPlaced(tlsAt), TlsSound(tls, tlsAt), tlsTorn = {}, UNCHANGED <<tls, tlsTorn>>,
         NEW w \in TlsThreads, NEW q, tlsAt' = [tlsAt EXCEPT ![w] = q], TlsHeld(tls, q)
  PROVE  TlsSafe'
<1>1. TlsInv(tls') /\ TlsStays(tls, tls', TlsInUse(tls)) /\ TlsHeld(tls', q) /\ UNCHANGED tlsTorn
  BY TlsUnchangedStays DEF TlsSound
<1> QED
  BY <1>1, TlsQuietStep, Zenon

(* A message is written.                                                   *)
LEMMA TlsWriteKeeps ==
  ASSUME TlsPlaced(tlsAt), TlsSound(tls, tlsAt), tlsTorn = {}, NEW w \in TlsThreads, TlsWrite(w)
  PROVE  TlsSafe'
<1>1. TlsInv(tls) /\ TlsTrusted(tls, tlsAt[w].slot)
  BY TlsInHand DEF TlsWrite
<1>2. UNCHANGED <<tls, tlsTorn>>
  BY <1>1, TlsMayCarry DEF TlsWrite
<1>3. tlsAt' = [tlsAt EXCEPT ![w] = TlsIdle] /\ TlsHeld(tls, TlsIdle)
  BY TlsHolds DEF TlsWrite, TlsEnds
<1> QED
  BY <1>2, <1>3, TlsWalks

(* What was read is handed on.                                             *)
LEMMA TlsReadKeeps ==
  ASSUME TlsPlaced(tlsAt), TlsSound(tls, tlsAt), tlsTorn = {}, TlsRead
  PROVE  TlsSafe'
<1>0. "reader" \in TlsThreads
  BY DEF TlsThreads
<1>1. PICK i : i = tlsAt["reader"].slot
  OBVIOUS
<1>2. i \in TlsInUse(tls) /\ TlsInv(tls) /\ TlsTrusted(tls, i)
  BY <1>0, <1>1, TlsInHand DEF TlsRead
<1>3. UNCHANGED <<tls, tlsTorn>>
  BY <1>1, <1>2, TlsMayCarry DEF TlsRead
<1>4. tlsAt' \in {[tlsAt EXCEPT !["reader"] = q] : q \in {TlsIdle, TlsAtSlot("walk", i), TlsAtSlot("failed", i)}}
  BY <1>1 DEF TlsRead, TlsGoes, TlsEnds
<1>5. \A q \in {TlsIdle, TlsAtSlot("walk", i), TlsAtSlot("failed", i)} : TlsHeld(tls, q)
  BY <1>2, TlsHolds
<1> QED
  BY <1>0, <1>3, <1>4, <1>5, TlsWalks

(* The messages were handled.                                              *)
LEMMA TlsHandledKeeps ==
  ASSUME TlsPlaced(tlsAt), TlsSound(tls, tlsAt), tlsTorn = {}, TlsHandleMessages
  PROVE  TlsSafe'
<1>1. tlsAt' = [tlsAt EXCEPT !["reader"] = TlsIdle] /\ "reader" \in TlsThreads /\ TlsHeld(tls, TlsIdle)
  BY TlsHolds DEF TlsHandleMessages, TlsEnds, TlsThreads
<1> QED
  BY <1>1, TlsWalks DEF TlsHandleMessages

(* A connection that is readable.                                          *)
LEMMA TlsRecvKeeps ==
  ASSUME TlsPlaced(tlsAt), TlsSound(tls, tlsAt), tlsTorn = {}, TlsRecv
  PROVE  TlsSafe'
<1>1. PICK i \in TlsInUse(tls), pc \in {"looked", "shake", "failed", "passed", "read"} :
        /\ tlsAt' = [tlsAt EXCEPT !["reader"] = TlsAtSlot(pc, i)]
        /\ pc \in {"passed", "read"} => tls.slots[i].ssl_state \notin {0, 1}
  <2>1. PICK i, pc :
          /\ i \in TlsInUse(tls)
          /\ tlsAt' = [tlsAt EXCEPT !["reader"] = TlsAtSlot(pc, i)]
          /\ LET s == tls.slots[i].ssl_state
                 r == TlsIsConnected(tls, i)
             IN  pc \in CASE s = 0 -> IF r = 0 THEN {"looked"} ELSE IF r = -1 THEN {"failed"} ELSE {}
                           [] s = 1 -> {"shake"}
                           [] s = 2 -> IF TlsConn(tls, i).status = "up" THEN {"passed"} ELSE {"passed", "failed"}
                           [] OTHER -> {"read"}
    BY Zenon DEF TlsRecv
  <2>2. /\ pc \in {"looked", "shake", "failed", "passed", "read"}
        /\ pc \in {"passed", "read"} => tls.slots[i].ssl_state \notin {0, 1}
    <3>1. CASE tls.slots[i].ssl_state = 0
      BY <2>1, <3>1
    <3>2. CASE tls.slots[i].ssl_state = 1
      BY <2>1, <3>2
    <3>3. CASE tls.slots[i].ssl_state = 2
      BY <2>1, <3>3
    <3>4. CASE tls.slots[i].ssl_state \notin {0, 1, 2}
      BY <2>1, <3>4
    <3> QED
      BY <3>1, <3>2, <3>3, <3>4
  <2> QED
    BY <2>1, <2>2
<1>2. TlsInv(tls) /\ tls.slots[i] \in TlsStreams /\ "reader" \in TlsThreads
  BY TlsTables DEF TlsSound, TlsThreads
<1>3. pc \in {"passed", "read"} => TlsTrusted(tls, i)
  <2>1. tls.slots[i].ssl_state \in 0..3
    BY <1>2 DEF TlsStreams
  <2> QED
    BY <1>1, <1>2, <2>1, TlsOpenTrusted
<1>4. TlsHeld(tls, TlsAtSlot(pc, i))
  BY <1>3, TlsHolds
<1> QED
  BY <1>1, <1>2, <1>4, TlsWalks DEF TlsRecv

(* An empty message is to be written.                                      *)
LEMMA TlsKeepaliveKeeps ==
  ASSUME TlsPlaced(tlsAt), TlsSound(tls, tlsAt), tlsTorn = {}, TlsKeepalive
  PROVE  TlsSafe'
<1>1. PICK i \in TlsInUse(tls) :
        tls.slots[i].ssl_state > 2 /\ tlsAt' = [tlsAt EXCEPT !["reader"] = TlsAtSlot("write", i)]
  BY DEF TlsKeepalive
<1>2. TlsInv(tls) /\ tls.slots[i] \in TlsStreams /\ "reader" \in TlsThreads
  BY TlsTables DEF TlsSound, TlsThreads
<1>3. TlsTrusted(tls, i)
  <2>1. tls.slots[i].ssl_state \in 0..3
    BY <1>2 DEF TlsStreams
  <2> QED
    BY <1>1, <1>2, <2>1, TlsOpenTrusted
<1>4. TlsHeld(tls, TlsAtSlot("write", i))
  BY <1>3, TlsHolds
<1> QED
  BY <1>1, <1>2, <1>4, TlsWalks DEF TlsKeepalive
-----------------------------------------------------------------------------
(* A full table loses its first connection before another is accepted.     *)
LEMMA TlsAcceptKeeps ==
  ASSUME TlsPlaced(tlsAt), TlsSound(tls, tlsAt), tlsTorn = {}, TlsAccept
  PROVE  TlsSafe'
<1>0. TlsInv(tls) /\ "reader" \in TlsThreads /\ TlsOther("reader") = "sender"
  BY DEF TlsSound, TlsThreads, TlsOther
<1>1. PICK e : e = TlsEvicted(tls)
  OBVIOUS
<1>2. PICK q : q = TlsAtSlot("accept", Min(1..TlsSlots \ TlsInUse(e)))
  OBVIOUS
<1>3. tls' = e /\ tlsAt' = [tlsAt EXCEPT !["reader"] = q]
  BY <1>1, <1>2 DEF TlsAccept
<1>5. TlsInUse(e) # 1..TlsSlots => TlsHeld(e, q)
  <2> SUFFICES ASSUME TlsInUse(e) # 1..TlsSlots PROVE TlsHeld(e, q)
    OBVIOUS
  <2>1. 1..TlsSlots \ TlsInUse(e) # {}
    BY DEF TlsInUse
  <2>2. Min(1..TlsSlots \ TlsInUse(e)) \in 1..TlsSlots
    BY <2>1, TlsLeast
  <2> QED
    BY <1>2, <2>2, TlsHolds
<1>6. CASE TlsInUse(tls) # 1..TlsSlots
  <2>1. e = tls /\ tlsTorn' = {}
    BY <1>1, <1>6 DEF TlsEvicted, TlsAccept
  <2>2. UNCHANGED <<tls, tlsTorn>> /\ TlsHeld(tls, q)
    BY <1>3, <1>5, <1>6, <2>1
  <2> QED
    BY <1>0, <1>3, <2>2, TlsWalks
<1>7. CASE TlsInUse(tls) = 1..TlsSlots
  <2>1. e = TlsCloseSockinfo(tls, 1) /\ 1 \in 1..TlsSlots /\ tlsTorn' = TlsTears("reader", {1}, "evicted")
    BY <1>1, <1>7, TlsAssumption DEF TlsEvicted, TlsAccept
  <2>2. TlsInv(e) /\ e.slots[1] = TlsNoStream /\ TlsStays(tls, e, TlsInUse(tls) \ {1})
    BY <1>0, <2>1, TlsClosesOne
  <2>3. 1 \notin TlsInUse(e)
    BY <2>2, TlsNone DEF TlsInUse
  <2>4. TlsHeld(e, q)
    BY <1>5, <2>1, <2>3
  <2>5. <<"sender", "evicted">> \in TlsTearings
    BY DEF TlsTearings
  <2>6. /\ tlsTorn' \subseteq TlsTearings
        /\ tlsTorn' = {} => \A v \in TlsThreads : v # "reader" /\ TlsUsing(v) => tlsAt[v].slot \notin {1}
    BY <1>0, <2>1, <2>5, TlsTearsTold
  <2> QED
    BY <1>0, <1>3, <2>2, <2>4, <2>6, TlsStepOf
<1> QED
  BY <1>6, <1>7

(* What a thread that found a slot free fills it with.                     *)
LEMMA TlsFillsKeeps ==
  ASSUME TlsPlaced(tlsAt), TlsSound(tls, tlsAt), tlsTorn = {}, NEW w \in TlsThreads,
         NEW i, i = tlsAt[w].slot, tlsAt[w].pc \in {"accept", "open"}, TlsFills(w),
         NEW peer \in TlsPeers, NEW server \in BOOLEAN, NEW pending \in BOOLEAN,
         NEW status \in {"connecting", "up"}, NEW shaken \in BOOLEAN, server => shaken,
         NEW u, u = TlsTake(tls, i, TlsStream(TlsFreeFd(tls), peer, server, pending),
                            [status |-> status, cert |-> "none", shaken |-> shaken])
  PROVE  TlsInv(u) /\ TlsStays(tls, u, TlsInUse(tls)) /\ i \in TlsInUse(u)
<1>1. i \in 1..TlsSlots /\ i \notin TlsInUse(tls) /\ TlsInv(tls)
  BY DEF TlsSound, TlsHeld, TlsFills
<1>2. TlsFreeFd(tls) \in 1..TlsSlots
  BY <1>1, TlsFreeFound
<1>3. PICK f \in 1..TlsSlots : f = TlsFreeFd(tls)
  BY <1>2
<1>4. PICK c : c = [status |-> status, cert |-> "none", shaken |-> shaken]
  OBVIOUS
<1>5. PICK s : s = TlsStream(f, peer, server, pending)
  OBVIOUS
<1>6. c \in TlsConns /\ c.status # "none" /\ c.shaken = shaken
  BY <1>4 DEF TlsConns
<1>7. s \in TlsStreams /\ s.sock = f /\ s.server = server /\ (s.ssl_state \in {2, 3} => server)
  BY <1>5 DEF TlsStream, TlsStreams
<1>8. TlsReady(s, c)
  BY <1>6, <1>7 DEF TlsReady
<1>9. u = TlsTake(tls, i, s, c)
  BY <1>3, <1>4, <1>5
<1> QED
  BY <1>1, <1>3, <1>6, <1>7, <1>8, <1>9, TlsTakes

(* What was accepted is in the slot, or nothing is, or the listening       *)
(* socket is opened again and those it accepted are closed.                *)
LEMMA TlsAcceptEndsKeeps ==
  ASSUME TlsPlaced(tlsAt), TlsSound(tls, tlsAt), tlsTorn = {}, TlsAcceptEnds
  PROVE  TlsSafe'
<1>0. /\ TlsInv(tls) /\ "reader" \in TlsThreads /\ TlsOther("reader") = "sender"
      /\ tlsAt' = [tlsAt EXCEPT !["reader"] = TlsIdle] /\ \A t : TlsHeld(t, TlsIdle)
  BY TlsHolds DEF TlsSound, TlsThreads, TlsOther, TlsAcceptEnds, TlsEnds
<1>1. CASE UNCHANGED <<tls, tlsTorn>>
  BY <1>0, <1>1, TlsWalks
<1>2. CASE /\ tls' = TlsCloseAll(tls, TlsServers(tls))
           /\ tlsTorn' = TlsTears("reader", TlsServers(tls), "reopened")
  <2>1. TlsServers(tls) \subseteq 1..TlsSlots
    BY DEF TlsServers, TlsInUse
  <2>2. TlsInv(tls') /\ TlsStays(tls, tls', TlsInUse(tls) \ TlsServers(tls))
    BY <1>0, <1>2, <2>1, TlsClosesAll
  <2>3. <<"sender", "reopened">> \in TlsTearings
    BY DEF TlsTearings
  <2>4. /\ tlsTorn' \subseteq TlsTearings
        /\ tlsTorn' = {} => \A v \in TlsThreads : v # "reader" /\ TlsUsing(v) => tlsAt[v].slot \notin TlsServers(tls)
    BY <1>0, <1>2, <2>3, TlsTearsTold
  <2> QED
    BY <1>0, <2>2, <2>4, TlsStepOf
<1>3. ASSUME TlsFills("reader"), NEW p \in TlsPeers,
             tls' = TlsTake(tls, tlsAt["reader"].slot, TlsStream(TlsFreeFd(tls), p, TRUE, FALSE),
                            [status |-> "up", cert |-> "none", shaken |-> TRUE])
      PROVE  TlsSafe'
  <2>1. tlsAt["reader"].pc \in {"accept", "open"} /\ UNCHANGED tlsTorn
    BY <1>3 DEF TlsAcceptEnds, TlsFills
  <2>2. TlsInv(tls') /\ TlsStays(tls, tls', TlsInUse(tls))
    BY <1>0, <1>3, <2>1, TlsFillsKeeps
  <2> QED
    BY <1>0, <2>1, <2>2, TlsQuietStep
<1>4. CASE TlsOverwrites("reader")
  <2>1. tlsTorn' = {<<"reader", "taken">>} /\ TlsEnds("reader")
    BY <1>4 DEF TlsOverwrites
  <2> QED
    BY <1>0, <2>1, TlsTornStep
<1> QED
  BY <1>1, <1>2, <1>3, <1>4 DEF TlsAcceptEnds

(* A connection is asked for.                                              *)
LEMMA TlsConnectSocketKeeps ==
  ASSUME TlsPlaced(tlsAt), TlsSound(tls, tlsAt), tlsTorn = {}, TlsConnectSocket
  PROVE  TlsSafe'
<1>0. /\ TlsInv(tls) /\ "sender" \in TlsThreads /\ tlsAt["sender"].pc = "open"
      /\ tlsAt["sender"].peer \in TlsPeers /\ \A t : TlsHeld(t, TlsIdle)
  BY TlsHolds DEF TlsSound, TlsThreads, TlsConnectSocket, TlsHeld
<1>1. PICK i : i = tlsAt["sender"].slot
  OBVIOUS
<1>2. ASSUME TlsFills("sender"), NEW status \in {"connecting", "up"}, NEW pending \in BOOLEAN,
             NEW u, u = TlsOpened(status, pending)
      PROVE  TlsInv(u) /\ TlsStays(tls, u, TlsInUse(tls)) /\ i \in TlsInUse(u)
  BY <1>0, <1>1, <1>2, TlsFillsKeeps DEF TlsOpened
<1>3. CASE TlsEnds("sender") /\ UNCHANGED <<tls, tlsTorn>>
  <2>1. tlsAt' = [tlsAt EXCEPT !["sender"] = TlsIdle]
    BY <1>3 DEF TlsEnds
  <2> QED
    BY <1>0, <1>3, <2>1, TlsWalks
<1>4. CASE TlsOverwrites("sender")
  <2>1. tlsTorn' = {<<"sender", "taken">>} /\ TlsEnds("sender")
    BY <1>4 DEF TlsOverwrites
  <2> QED
    BY <1>0, <2>1, TlsTornStep
<1>5. ASSUME TlsFills("sender"), tls' = TlsOpened("connecting", TRUE), TlsEnds("sender")
      PROVE  TlsSafe'
  <2>1. TlsInv(tls') /\ TlsStays(tls, tls', TlsInUse(tls))
    BY <1>2, <1>5
  <2>2. tlsAt' = [tlsAt EXCEPT !["sender"] = TlsIdle] /\ UNCHANGED tlsTorn
    BY <1>5 DEF TlsEnds, TlsFills
  <2> QED
    BY <1>0, <2>1, <2>2, TlsQuietStep
<1>6. ASSUME TlsFills("sender"), NEW pending \in BOOLEAN,
             tls' = TlsOpened("up", pending), TlsGoes("sender", "looked")
      PROVE  TlsSafe'
  <2>1. TlsInv(tls') /\ TlsStays(tls, tls', TlsInUse(tls)) /\ i \in TlsInUse(tls')
    BY <1>2, <1>6
  <2>2. tlsAt' = [tlsAt EXCEPT !["sender"] = TlsAtSlot("looked", i)] /\ UNCHANGED tlsTorn
    BY <1>1, <1>6 DEF TlsGoes, TlsFills
  <2>3. TlsHeld(tls', TlsAtSlot("looked", i))
    BY <2>1, TlsHolds
  <2> QED
    BY <1>0, <2>1, <2>2, <2>3, TlsQuietStep
<1>7. ASSUME TlsFills("sender"), tls' = TlsConnectedNow(TlsOpened("up", FALSE), tlsAt["sender"].slot),
             TlsGoes("sender", "shake")
      PROVE  TlsSafe'
  <2>1. PICK u : u = TlsOpened("up", FALSE)
    OBVIOUS
  <2>2. TlsInv(u) /\ TlsStays(tls, u, TlsInUse(tls)) /\ i \in TlsInUse(u)
    BY <1>2, <1>7, <2>1
  <2>3. tls' = TlsConnectedNow(u, i)
    BY <1>1, <1>7, <2>1
  <2>4. TlsInv(tls') /\ TlsStays(u, tls', TlsInUse(u))
    BY <2>2, <2>3, TlsConnectedKeeps
  <2>5. TlsStays(tls, tls', TlsInUse(tls)) /\ i \in TlsInUse(tls')
    BY <2>2, <2>4 DEF TlsStays
  <2>6. tlsAt' = [tlsAt EXCEPT !["sender"] = TlsAtSlot("shake", i)] /\ UNCHANGED tlsTorn
    BY <1>1, <1>7 DEF TlsGoes, TlsFills
  <2>7. TlsHeld(tls', TlsAtSlot("shake", i))
    BY <2>5, TlsHolds
  <2> QED
    BY <1>0, <2>4, <2>5, <2>6, <2>7, TlsQuietStep
<1> QED
  BY <1>3, <1>4, <1>5, <1>6, <1>7 DEF TlsConnectSocket
-----------------------------------------------------------------------------
(* The slots a look at the connections closes.                             *)
TlsDoomed(t) == TlsInvalid(t) \cup TlsProbedAs(t, "broken")
TlsLeft(t)   == TlsInUse(t) \ TlsDoomed(t)

(* The connections are looked at before a message is sent: those that stay *)
(* were there, as they were unless they came up.                           *)
LEMMA TlsCheckKeeps ==
  ASSUME NEW t, TlsInv(t), NEW known, known \subseteq TlsProbed(t),
         NEW u, u = TlsCheckConnected(t, known)
  PROVE  /\ TlsInv(u) /\ TlsInUse(u) \subseteq TlsInUse(t)
         /\ \A i \in TlsInUse(u) : t.slots[i].ssl_state = 3 => u.slots[i].ssl_state = 3
         /\ TlsStays(t, u, TlsLeft(t))
<1> DEFINE doomed == TlsInvalid(t) \cup TlsProbedAs(t, "broken")
           waiting == TlsProbedAs(t, "connecting")
           q(i) == IF i \in known THEN 1 ELSE t.slots[i].ssl_state
           settled == [i \in 1..TlsSlots |-> TlsSettled(t.slots[i], i \in waiting, q(i))]
<1>0. /\ t = [slots |-> t.slots, conns |-> t.conns, exposed |-> t.exposed]
      /\ t.exposed = FALSE
  BY TlsFields
<1>1. t.slots \in [1..TlsSlots -> TlsStreams] /\ TlsKept(t.slots, t.conns)
  BY DEF TlsInv, TlsKept
<1>2. \A i \in 1..TlsSlots : /\ t.slots[i] \in TlsStreams /\ q(i) \in 0..3
                             /\ q(i) \in {t.slots[i].ssl_state, 1}
  <2>1. \A i \in 1..TlsSlots : t.slots[i] \in TlsStreams
    BY <1>1
  <2>2. \A n \in TlsStreams : n.ssl_state \in 0..3
    BY DEF TlsStreams
  <2> QED
    BY <2>1, <2>2
<1>3. \A i \in known : t.slots[i].ssl_state = 0
  BY DEF TlsProbed
<1>4. u = TlsCloseAll([t EXCEPT !.slots = settled], doomed)
  BY DEF TlsCheckConnected, TlsSettled
<1>5. doomed \subseteq 1..TlsSlots
  BY DEF TlsInvalid, TlsProbedAs, TlsProbed, TlsInUse
<1>6. \A i \in 1..TlsSlots : settled[i] = TlsSettled(t.slots[i], i \in waiting, q(i))
  OBVIOUS
<1>7. settled = [i \in 1..TlsSlots |-> settled[i]]
  OBVIOUS
<1>18. doomed = TlsInvalid(t) \cup TlsProbedAs(t, "broken")
  OBVIOUS
<1> HIDE DEF doomed, waiting, settled
<1>8. \A i \in 1..TlsSlots : TlsSame(settled[i], t.slots[i]) /\ settled[i].ssl_state = q(i)
  <2> SUFFICES ASSUME NEW i \in 1..TlsSlots
               PROVE  TlsSame(settled[i], t.slots[i]) /\ settled[i].ssl_state = q(i)
    OBVIOUS
  <2>1. (i \in waiting) \in BOOLEAN /\ t.slots[i] \in TlsStreams /\ q(i) \in 0..3
    BY <1>2
  <2>2. settled[i] = TlsSettled(t.slots[i], i \in waiting, q(i))
    BY <1>6
  <2> HIDE DEF q
  <2>3. ASSUME NEW n \in TlsStreams, NEW p \in BOOLEAN, NEW r \in 0..3
        PROVE  TlsSame(TlsSettled(n, p, r), n) /\ TlsSettled(n, p, r).ssl_state = r
    BY TlsUpdatesOfAll
  <2>4. /\ TlsSame(TlsSettled(t.slots[i], i \in waiting, q(i)), t.slots[i])
        /\ TlsSettled(t.slots[i], i \in waiting, q(i)).ssl_state = q(i)
    BY <2>1, <2>3, Zenon
  <2> QED
    BY <2>2, <2>4
<1>9. TlsKept(settled, t.conns)
  <2>1. settled \in [1..TlsSlots -> TlsStreams]
    BY <1>7, <1>8 DEF TlsSame
  <2> QED
    BY <1>1, <1>2, <1>8, <2>1, TlsRemarkKept DEF TlsSame
<1> DEFINE v == [t EXCEPT !.slots = settled]
<1>10. v = TlsState(settled, t.conns, t.exposed)
  <2> SUFFICES ASSUME NEW w, w = [t EXCEPT !.slots = settled]
               PROVE  w = TlsState(settled, t.conns, t.exposed)
    OBVIOUS
  <2> QED
    BY <1>0 DEF TlsState
<1>11. TlsInv(v)
  <2>1. t.exposed = FALSE
    BY <1>0
  <2>2. TlsInv(TlsState(settled, t.conns, t.exposed))
    BY <1>9, <2>1, TlsInvOf, Zenon
  <2> QED
    BY <1>10, <2>2, Zenon
<1>12. v.slots = settled
  BY <1>10 DEF TlsState
<1>13. u = TlsCloseAll(v, doomed)
  BY <1>4
<1>19. v.conns = t.conns
  BY <1>10 DEF TlsState
<1> HIDE DEF v
<1>20. TlsInUse(v) = TlsInUse(t) /\ TlsStays(t, v, TlsInUse(t))
  <2>1. \A i \in 1..TlsSlots : v.slots[i].sock = t.slots[i].sock /\ v.slots[i].server = t.slots[i].server
    BY <1>8, <1>12 DEF TlsSame
  <2>2. TlsInUse(v) = TlsInUse(t) /\ TlsInUse(t) \subseteq 1..TlsSlots
    BY <2>1 DEF TlsInUse
  <2> QED
    BY <1>19, <2>1, <2>2 DEF TlsStays, TlsTrusted, TlsConn
<1>14. /\ TlsInv(u) /\ TlsStays(v, u, TlsInUse(v) \ doomed)
       /\ \A i \in 1..TlsSlots : u.slots[i] = IF i \in doomed THEN TlsNoStream ELSE settled[i]
  <2>1. /\ TlsInv(TlsCloseAll(v, doomed)) /\ TlsStays(v, TlsCloseAll(v, doomed), TlsInUse(v) \ doomed)
        /\ \A i \in 1..TlsSlots :
             TlsCloseAll(v, doomed).slots[i] = IF i \in doomed THEN TlsNoStream ELSE v.slots[i]
    BY <1>5, <1>11, TlsClosesAll, ZenonT(60)
  <2> QED
    BY <1>12, <1>13, <2>1
<1>15. \A i \in TlsInUse(u) : i \in 1..TlsSlots /\ u.slots[i] = settled[i]
  BY <1>14, TlsNone DEF TlsInUse
<1>16. \A i \in TlsInUse(u) : i \in TlsInUse(t)
  BY <1>8, <1>15 DEF TlsInUse, TlsSame
<1>17. \A i \in TlsInUse(u) : t.slots[i].ssl_state = 3 => u.slots[i].ssl_state = 3
  BY <1>3, <1>8, <1>15
<1>21. TlsStays(t, u, TlsInUse(t) \ doomed)
  BY <1>14, <1>20 DEF TlsStays
<1> QED
  BY <1>14, <1>16, <1>17, <1>18, <1>21 DEF TlsDoomed, TlsLeft

(* Whoever is chosen may be used as far as it got.                         *)
LEMMA TlsChosenHeld ==
  ASSUME NEW t, TlsInv(t), NEW pos \in TlsInUse(t),
         NEW via, via = 0 \/ (via \in TlsInUse(t) /\ t.slots[via].ssl_state = 3)
  PROVE  TlsHeld(t, TlsChosen(t, pos, via))
<1>1. t.slots[pos].ssl_state \in 0..3
  <2>1. t.slots[pos] \in TlsStreams
    BY TlsTables, Zenon
  <2> QED
    BY <2>1 DEF TlsStreams
<1>2. CASE t.slots[pos].ssl_state = 0
  <2>1. TlsChosen(t, pos, via) = IF TlsIsConnected(t, pos) = 0 THEN TlsAtSlot("looked", pos) ELSE TlsIdle
    BY <1>2 DEF TlsChosen
  <2> QED
    BY <2>1, TlsHolds
<1>3. CASE t.slots[pos].ssl_state = 1
  <2>1. TlsChosen(t, pos, via) = TlsAtSlot("shake", pos)
    BY <1>3 DEF TlsChosen
  <2> QED
    BY <2>1, TlsHolds
<1>4. CASE t.slots[pos].ssl_state \in {2, 3}
  <2>1. PICK i : i = IF via = 0 THEN pos ELSE via
    OBVIOUS
  <2>2. TlsChosen(t, pos, via) = IF t.slots[i].ssl_conn THEN TlsAtSlot("write", i) ELSE TlsIdle
    BY <1>4, <2>1 DEF TlsChosen
  <2>3. i \in TlsInUse(t) /\ t.slots[i].ssl_state \in {2, 3}
    BY <1>4, <2>1
  <2>4. TlsTrusted(t, i)
    BY <2>3, TlsOpenTrusted
  <2> QED
    BY <2>2, <2>3, <2>4, TlsHolds
<1> QED
  BY <1>1, <1>2, <1>3, <1>4

(* A message is to be sent, on a connection there is or on a new one.      *)
LEMMA TlsSendMessageKeeps ==
  ASSUME TlsPlaced(tlsAt), TlsSound(tls, tlsAt), tlsTorn = {}, TlsSendMessage
  PROVE  TlsSafe'
<1>0. TlsInv(tls) /\ "sender" \in TlsThreads /\ TlsOther("sender") = "reader"
  BY DEF TlsSound, TlsThreads, TlsOther
<1>1. PICK peer \in TlsPeers,
           via \in {0} \cup {i \in TlsInUse(tls) : tls.slots[i].ssl_state = 3},
           known \in SUBSET TlsProbedAs(tls, "up") :
        LET t == TlsCheckConnected(tls, known)
            from == IF via \in TlsInUse(t) THEN via ELSE 0
            to == TlsFindSocket(t, peer)
        IN  /\ tls' = t
            /\ tlsAt' = [tlsAt EXCEPT !["sender"] =
                 IF to # {} THEN TlsChosen(t, Min(to), from)
                 ELSE IF from # 0 THEN TlsChosen(t, from, from)
                 ELSE IF TlsInUse(t) = 1..TlsSlots THEN TlsIdle
                 ELSE [pc |-> "open", slot |-> Min(1..TlsSlots \ TlsInUse(t)), peer |-> peer]]
  BY DEF TlsSendMessage
<1>2. PICK t : t = TlsCheckConnected(tls, known)
  OBVIOUS
<1>3. PICK from : from = IF via \in TlsInUse(t) THEN via ELSE 0
  OBVIOUS
<1>4. PICK q : q = IF TlsFindSocket(t, peer) # {} THEN TlsChosen(t, Min(TlsFindSocket(t, peer)), from)
                   ELSE IF from # 0 THEN TlsChosen(t, from, from)
                   ELSE IF TlsInUse(t) = 1..TlsSlots THEN TlsIdle
                   ELSE [pc |-> "open", slot |-> Min(1..TlsSlots \ TlsInUse(t)), peer |-> peer]
  OBVIOUS
<1>5. tls' = t /\ tlsAt' = [tlsAt EXCEPT !["sender"] = q]
  BY <1>1, <1>2, <1>3, <1>4, Zenon
<1>6. PICK D : D = TlsDoomed(tls)
  OBVIOUS
<1>7. /\ TlsInv(t) /\ TlsInUse(t) \subseteq TlsInUse(tls) /\ TlsStays(tls, t, TlsInUse(tls) \ D)
      /\ \A i \in TlsInUse(t) : tls.slots[i].ssl_state = 3 => t.slots[i].ssl_state = 3
  <2>1. known \subseteq TlsProbed(tls)
    BY DEF TlsProbedAs
  <2>2. /\ TlsInv(t) /\ TlsInUse(t) \subseteq TlsInUse(tls)
        /\ TlsStays(tls, t, TlsLeft(tls))
        /\ \A i \in TlsInUse(t) : tls.slots[i].ssl_state = 3 => t.slots[i].ssl_state = 3
    BY <1>0, <1>2, <2>1, TlsCheckKeeps
  <2> QED
    BY <1>6, <2>2 DEF TlsLeft
<1>8. from = 0 \/ (from \in TlsInUse(t) /\ t.slots[from].ssl_state = 3)
  BY <1>3, <1>7
<1>9. TlsHeld(t, q)
  <2>1. CASE TlsFindSocket(t, peer) # {}
    <3>1. TlsFindSocket(t, peer) \subseteq TlsInUse(t) /\ TlsInUse(t) \subseteq 1..TlsSlots
      BY DEF TlsFindSocket, TlsInUse
    <3>2. Min(TlsFindSocket(t, peer)) \in TlsInUse(t)
      BY <2>1, <3>1, TlsLeast
    <3> QED
      BY <1>4, <1>7, <1>8, <2>1, <3>2, TlsChosenHeld
  <2>2. CASE TlsFindSocket(t, peer) = {} /\ from # 0
    BY <1>4, <1>7, <1>8, <2>2, TlsChosenHeld
  <2>3. CASE TlsFindSocket(t, peer) = {} /\ from = 0 /\ TlsInUse(t) = 1..TlsSlots
    BY <1>4, <2>3, TlsHolds
  <2>4. CASE TlsFindSocket(t, peer) = {} /\ from = 0 /\ TlsInUse(t) # 1..TlsSlots
    <3>1. 1..TlsSlots \ TlsInUse(t) # {}
      BY <2>4 DEF TlsInUse
    <3>2. Min(1..TlsSlots \ TlsInUse(t)) \in 1..TlsSlots
      BY <3>1, TlsLeast
    <3>3. q = [pc |-> "open", slot |-> Min(1..TlsSlots \ TlsInUse(t)), peer |-> peer]
      BY <1>4, <2>4
    <3> QED
      BY <3>2, <3>3 DEF TlsHeld
  <2> QED
    BY <2>1, <2>2, <2>3, <2>4
<1>10. /\ tlsTorn' \subseteq TlsTearings
       /\ tlsTorn' = {} => \A v \in TlsThreads : v # "sender" /\ TlsUsing(v) => tlsAt[v].slot \notin D
  <2>1. tlsTorn' = TlsTears("sender", TlsInvalid(tls), "reset")
                   \cup TlsTears("sender", TlsProbedAs(tls, "broken"), "broken")
    BY DEF TlsSendMessage
  <2>2. <<"reader", "reset">> \in TlsTearings /\ <<"reader", "broken">> \in TlsTearings
    BY DEF TlsTearings
  <2>3. /\ TlsTears("sender", TlsInvalid(tls), "reset") \subseteq {<<"reader", "reset">>}
        /\ TlsTears("sender", TlsProbedAs(tls, "broken"), "broken") \subseteq {<<"reader", "broken">>}
    BY <1>0, TlsTearsTold
  <2>4. ASSUME tlsTorn' = {}, NEW v \in TlsThreads, v # "sender", TlsUsing(v)
        PROVE  tlsAt[v].slot \notin D
    <3>1. /\ TlsTears("sender", TlsInvalid(tls), "reset") = {}
          /\ TlsTears("sender", TlsProbedAs(tls, "broken"), "broken") = {}
      BY <2>1, <2>4
    <3> QED
      BY <1>0, <1>6, <2>4, <3>1, TlsTearsTold DEF TlsDoomed
  <2> QED
    BY <2>1, <2>2, <2>3, <2>4
<1> QED
  BY <1>0, <1>5, <1>7, <1>9, <1>10, TlsStepOf

-----------------------------------------------------------------------------
(* Every connection in use is to be closed.                                *)
LEMMA TlsResetKeeps ==
  ASSUME TlsInv(tls), TlsReset
  PROVE  TlsInv(tls') /\ TlsStays(tls, tls', TlsInUse(tls))
<1> DEFINE doubted == [i \in 1..TlsSlots |-> TlsDoubted(tls.slots[i], i \in TlsInUse(tls))]
<1> SUFFICES ASSUME NEW u, u = [tls EXCEPT !.slots = doubted]
             PROVE  TlsInv(u) /\ TlsStays(tls, u, TlsInUse(tls))
  BY DEF TlsReset, TlsDoubted
<1>0. /\ tls = [slots |-> tls.slots, conns |-> tls.conns, exposed |-> tls.exposed]
      /\ tls.exposed = FALSE
  BY TlsFields
<1>1. tls.slots \in [1..TlsSlots -> TlsStreams] /\ TlsKept(tls.slots, tls.conns)
  BY DEF TlsInv, TlsKept
<1>2. \A i \in 1..TlsSlots : /\ doubted[i] = TlsDoubted(tls.slots[i], i \in TlsInUse(tls))
                             /\ tls.slots[i] \in TlsStreams
  BY <1>1
<1>3. doubted = [i \in 1..TlsSlots |-> doubted[i]]
  OBVIOUS
<1> HIDE DEF doubted
<1>4. \A i \in 1..TlsSlots : /\ TlsSame(doubted[i], tls.slots[i])
                             /\ doubted[i].ssl_state = tls.slots[i].ssl_state
  <2> SUFFICES ASSUME NEW i \in 1..TlsSlots
               PROVE  /\ TlsSame(doubted[i], tls.slots[i])
                      /\ doubted[i].ssl_state = tls.slots[i].ssl_state
    OBVIOUS
  <2>1. (i \in TlsInUse(tls)) \in BOOLEAN /\ tls.slots[i] \in TlsStreams
    BY <1>2
  <2>2. 0 \in 0..3
    OBVIOUS
  <2>3. ASSUME NEW n \in TlsStreams, NEW p \in BOOLEAN
        PROVE  TlsSame(TlsDoubted(n, p), n) /\ TlsDoubted(n, p).ssl_state = n.ssl_state
    BY <2>2, TlsUpdatesOfAll
  <2>4. /\ TlsSame(TlsDoubted(tls.slots[i], i \in TlsInUse(tls)), tls.slots[i])
        /\ TlsDoubted(tls.slots[i], i \in TlsInUse(tls)).ssl_state = tls.slots[i].ssl_state
    BY <2>1, <2>3, Zenon
  <2> QED
    BY <1>2, <2>4
<1>5. TlsKept(doubted, tls.conns)
  <2>1. doubted \in [1..TlsSlots -> TlsStreams]
    BY <1>3, <1>4 DEF TlsSame
  <2> QED
    BY <1>1, <1>4, <2>1, TlsRemarkKept DEF TlsSame
<1>6. u = TlsState(doubted, tls.conns, tls.exposed)
  BY <1>0 DEF TlsState
<1>7. TlsInv(TlsState(doubted, tls.conns, tls.exposed))
  <2>1. tls.exposed = FALSE
    BY <1>0
  <2> QED
    BY <1>5, <2>1, TlsInvOf, Zenon
<1>8. u.slots = doubted /\ u.conns = tls.conns
  BY <1>6 DEF TlsState
<1>9. TlsStays(tls, u, TlsInUse(tls))
  BY <1>4, <1>8 DEF TlsSame, TlsStays, TlsInUse, TlsTrusted, TlsConn
<1> QED
  BY <1>6, <1>7, <1>9, Zenon

(* Its connection comes up, is closed or breaks.                           *)
LEMMA TlsPeerActsKeeps ==
  ASSUME TlsInv(tls), TlsPeerActs
  PROVE  TlsInv(tls') /\ TlsStays(tls, tls', TlsInUse(tls))
<1> SUFFICES ASSUME NEW f \in 1..TlsSlots, NEW x \in TlsBecomes(tls.conns[f].status),
                    tls' = [tls EXCEPT !.conns[f].status = x]
             PROVE  TlsInv(tls') /\ TlsStays(tls, tls', TlsInUse(tls))
  BY DEF TlsPeerActs
<1>1. /\ tls.slots \in [1..TlsSlots -> TlsStreams] /\ tls.conns \in [1..TlsSlots -> TlsConns]
      /\ tls.conns[f] # TlsClosed /\ x \in {"up", "closed", "broken"}
  BY DEF TlsInv, TlsKept, TlsBecomes, TlsClosed
<1>2. PICK i \in TlsUsed(tls.slots) : tls.slots[i].sock = f
  BY <1>1 DEF TlsInv, TlsKept, TlsOwned
<1>3. i \in TlsInUse(tls) /\ TlsConn(tls, i) = tls.conns[f] /\ tls.slots[i] \in TlsStreams
  BY <1>2, TlsTables
<1> DEFINE c == [tls.conns[f] EXCEPT !.status = x]
<1>4. /\ c \in TlsConns /\ c.status # "none"
      /\ c.shaken = tls.conns[f].shaken /\ c.cert = tls.conns[f].cert
  BY <1>1 DEF TlsConns
<1>5. TlsReady(tls.slots[i], c)
  BY <1>3, <1>4, TlsTables, SMTT(60) DEF TlsReady
<1>6. tls' = [tls EXCEPT !.conns[f] = c]
  OBVIOUS
<1> HIDE DEF c
<1>7. tls' = TlsPutBoth(tls, i, tls.slots[i], c)
  <2>1. tls = [slots |-> tls.slots, conns |-> tls.conns, exposed |-> tls.exposed]
    BY TlsFields
  <2>2. [tls.slots EXCEPT ![i] = tls.slots[i]] = tls.slots
    BY <1>1
  <2> SUFFICES ASSUME NEW u, u = [tls EXCEPT !.slots[i] = tls.slots[i], !.conns[f] = c]
               PROVE  tls' = u
    BY <1>2 DEF TlsPutBoth
  <2>3. u = TlsState([tls.slots EXCEPT ![i] = tls.slots[i]], [tls.conns EXCEPT ![f] = c],
                     tls.exposed)
    BY <2>1 DEF TlsState
  <2>4. tls' = TlsState(tls.slots, [tls.conns EXCEPT ![f] = c], tls.exposed)
    BY <1>6, <2>1 DEF TlsState
  <2> QED
    BY <2>2, <2>3, <2>4
<1> QED
  <2>1. TlsSame(tls.slots[i], tls.slots[i])
    BY <1>3 DEF TlsSame
  <2>2. TlsTrusted(tls, i) => c.shaken /\ (tls.slots[i].server \/ TlsAccepted(c.cert))
    BY <1>3, <1>4 DEF TlsTrusted
  <2> QED
    BY <1>3, <1>4, <1>5, <1>7, <2>1, <2>2, TlsBothChange
-----------------------------------------------------------------------------
(* What the tables promise is what the run checks.                         *)
LEMMA TlsInvGuards ==
  ASSUME TlsInv(tls)
  PROVE  TlsTypeOK /\ TlsGuarded
<1>1. TlsTypeOK
  <2>1. \A n \in TlsStreams : n.ssl_state \in 0..3 /\ n.sock \in 0..TlsSlots
    BY DEF TlsStreams
  <2> QED
    BY <2>1, TlsTables DEF TlsTypeOK
<1>2. ~tls.exposed
  BY TlsFields
<1>3. ASSUME NEW f \in 1..TlsSlots
      PROVE  Cardinality({i \in TlsInUse(tls) : tls.slots[i].sock = f})
               = (IF tls.conns[f] = TlsClosed THEN 0 ELSE 1)
  <2> DEFINE those == {i \in TlsInUse(tls) : tls.slots[i].sock = f}
  <2>0. TlsInUse(tls) = TlsUsed(tls.slots) /\ TlsOwned(tls.slots, tls.conns)
    BY TlsTables DEF TlsInv, TlsKept
  <2>1. CASE tls.conns[f] = TlsClosed
    <3>1. those = {}
      BY <2>0, <2>1 DEF TlsOwned
    <3> QED
      BY <2>1, <3>1, FS_EmptySet
  <2>2. CASE tls.conns[f] # TlsClosed
    <3>1. PICK i \in TlsInUse(tls) : tls.slots[i].sock = f
      BY <2>0, <2>2 DEF TlsOwned
    <3>2. those = {i}
      BY <2>0, <3>1 DEF TlsOwned
    <3> QED
      BY <2>2, <3>2, FS_Singleton
  <2> QED
    BY <2>1, <2>2
<1>4. \A i \in TlsInUse(tls) : tls.slots[i].ssl_state \in {2, 3} => TlsTrusted(tls, i)
  BY TlsTables DEF TlsReady, TlsTrusted
<1> QED
  BY <1>1, <1>2, <1>3, <1>4 DEF TlsGuarded

(* At the start there is no connection.                                    *)
LEMMA TlsInitHolds == TlsInit => TlsSafe
<1> DEFINE slots == [i \in 1..TlsSlots |-> TlsNoStream]
           conns == [f \in 1..TlsSlots |-> TlsClosed]
<1> SUFFICES ASSUME TlsInit PROVE TlsSafe
  OBVIOUS
<1>0. tls = TlsState(slots, conns, FALSE)
  BY DEF TlsInit, TlsState
<1>1. slots \in [1..TlsSlots -> TlsStreams] /\ conns \in [1..TlsSlots -> TlsConns]
  BY TlsNone
<1>2. TlsUsed(slots) = {}
  BY TlsNone DEF TlsUsed
<1>3. TlsOwned(slots, conns)
  BY <1>2 DEF TlsOwned
<1> HIDE DEF slots, conns
<1>4. TlsKept(slots, conns)
  BY <1>1, <1>3 DEF TlsKept
<1>5. TlsInv(tls)
  BY <1>0, <1>4, TlsInvOf
<1>6. TlsPlaced(tlsAt) /\ \A w \in TlsThreads : tlsAt[w] = TlsIdle
  BY DEF TlsInit, TlsPlaced
<1>7. \A w \in TlsThreads : TlsHeld(tls, tlsAt[w])
  BY <1>6, TlsHolds
<1>8. tlsTorn = {}
  BY DEF TlsInit
<1> QED
  BY <1>5, <1>6, <1>7, <1>8 DEF TlsSafe, TlsSound

(* No thread moves: what they have in hand they still have.                *)
LEMMA TlsOthersMove ==
  ASSUME TlsPlaced(tlsAt), TlsSound(tls, tlsAt), UNCHANGED <<tlsAt, tlsTorn>>, tlsTorn = {},
         TlsInv(tls'), TlsStays(tls, tls', TlsInUse(tls))
  PROVE  TlsSafe'
<1>1. ASSUME NEW w \in TlsThreads PROVE TlsHeld(tls', tlsAt[w])
  <2>1. TlsHeld(tls, tlsAt[w])
    BY DEF TlsSound
  <2> QED
    BY <2>1 DEF TlsHeld, TlsStays
<1>2. TlsPlaced(tlsAt')
  BY DEF TlsPlaced
<1> QED
  BY <1>1, <1>2 DEF TlsSafe, TlsSound

(* Nothing is read from a TLS connection, or written to it, before its     *)
(* handshake is over and its certificate accepted, and every connection    *)
(* has one slot, however the two threads take their steps in between one   *)
(* another's, until one closes or fills the slot the other uses: which is  *)
(* in one of the eight ways listed; for any number of slots, any peers and *)
(* whatever certificates they show.                                        *)
THEOREM TlsAlwaysGuarded == TlsSpec => []TlsNothingExposed
<1>1. TlsSafe /\ [TlsNext]_tlsVars => TlsSafe'
  <2> SUFFICES ASSUME TlsSafe, [TlsNext]_tlsVars PROVE TlsSafe'
    OBVIOUS
  <2>1. CASE UNCHANGED tlsVars
    BY <2>1 DEF TlsSafe, tlsVars
  <2>2. CASE TlsNext
    <3>1. TlsPlaced(tlsAt) /\ TlsSound(tls, tlsAt) /\ tlsTorn = {}
      BY <2>2 DEF TlsSafe, TlsNext
    <3>2. CASE TlsPeerActs
      <4>1. TlsInv(tls') /\ TlsStays(tls, tls', TlsInUse(tls))
        BY <3>1, <3>2, TlsPeerActsKeeps DEF TlsSound
      <4> QED
        BY <3>1, <3>2, <4>1, TlsOthersMove DEF TlsPeerActs
    <3>3. CASE TlsReset
      <4>1. TlsInv(tls') /\ TlsStays(tls, tls', TlsInUse(tls))
        BY <3>1, <3>3, TlsResetKeeps DEF TlsSound
      <4> QED
        BY <3>1, <3>3, <4>1, TlsOthersMove DEF TlsReset
    <3>4. ASSUME NEW w \in TlsThreads,
                 TlsLooked(w) \/ TlsSslConnect(w) \/ TlsPassed(w) \/ TlsFailed(w) \/ TlsWrite(w)
          PROVE  TlsSafe'
      BY <3>1, <3>4, TlsLookedKeeps, TlsSslConnectKeeps, TlsPassedKeeps, TlsFailedKeeps, TlsWriteKeeps
    <3>5. CASE TlsAccept \/ TlsAcceptEnds \/ TlsRecv \/ TlsRead \/ TlsHandleMessages \/ TlsKeepalive
      BY <3>1, <3>5, TlsAcceptKeeps, TlsAcceptEndsKeeps, TlsRecvKeeps, TlsReadKeeps,
         TlsHandledKeeps, TlsKeepaliveKeeps
    <3>6. CASE TlsSendMessage \/ TlsConnectSocket
      BY <3>1, <3>6, TlsSendMessageKeeps, TlsConnectSocketKeeps
    <3> QED
      BY <2>2, <3>2, <3>3, <3>4, <3>5, <3>6 DEF TlsNext
  <2> QED
    BY <2>1, <2>2
<1>2. TlsSafe => TlsNothingExposed
  BY TlsInvGuards DEF TlsSafe, TlsSound, TlsNothingExposed
<1> QED
  BY <1>1, <1>2, TlsInitHolds, PTL DEF TlsSpec

-----------------------------------------------------------------------------
(* What holds of a call s with the dialogs of its ends and its wire.       *)
DlgBye(s, f)     == \E m \in s.wire : m.method = "BYE" /\ m.to = f
DlgWith(s, f)    == s.dialogs["caller"].state # "NONE" /\ s.dialogs["caller"].remote = f
DlgUnknown(s, f) == s.dialogs[f].state = "NONE" /\ ~DlgBye(s, f)
DlgIsDialog(d)   ==
  /\ d = [state |-> d.state, local |-> d.local, remote |-> d.remote, lcseq |-> d.lcseq,
          rcseq |-> d.rcseq, route |-> d.route, target |-> d.target]
  /\ d.state \in {"NONE", "EARLY", "CONFIRMED"}
  /\ d.lcseq \in Int /\ d.rcseq \in Int

DlgShape(s) ==
  /\ s = [chain |-> s.chain, dialogs |-> s.dialogs, address |-> s.address,
          answered |-> s.answered, replaced |-> s.replaced, wire |-> s.wire, sent |-> s.sent]
  /\ s.dialogs = [e \in DlgEnds |-> s.dialogs[e]]
  /\ s.address = [e \in DlgEnds |-> s.address[e]]
  /\ s.answered \in BOOLEAN /\ s.replaced \in BOOLEAN
  /\ \A e \in DlgEnds : DlgIsDialog(s.dialogs[e])

(* The routers as the end that is called reads them. *)
DlgRecorded(s) == DlgReversed(DlgRecording(s.chain))

DlgCallerFits(s) ==
  LET a == s.dialogs["caller"]
  IN  /\ a.state # "NONE" => /\ a.local = "caller" /\ a.remote \in DlgForks
                             /\ a.target[1] = a.remote /\ a.lcseq >= 20
                             /\ ~DlgUnknown(s, a.remote)
      /\ a.state = "CONFIRMED" => a.route = DlgReversed(DlgRecorded(s))
      /\ s.answered <=> a.state = "CONFIRMED"

DlgForkFits(s, f) ==
  LET a == s.dialogs["caller"]
      b == s.dialogs[f]
  IN  b.state # "NONE" =>
        /\ b.local = f /\ b.remote = "caller" /\ b.route = DlgRecorded(s)
        /\ b.target[1] = "caller" /\ b.lcseq >= 1
        /\ DlgWith(s, f) => a.rcseq <= b.lcseq
        /\ ~s.replaced => b.rcseq <= 20 \/ (DlgWith(s, f) /\ b.rcseq <= a.lcseq)

(* A message on the wire is one that the dialogs of its ends account for.  *)
DlgFirstFits(s, m) ==
  m.from = "caller" /\ m.to = "" /\ m.method = "INVITE" /\ m.cseq = 20
    /\ m.recorded = DlgRecorded(s)
DlgFromCallerFits(s, m) ==
  /\ m.from = "caller" /\ m.to \in DlgForks
  /\ m.method = "INVITE" => s.answered /\ m.cseq > 20
  /\ ~s.replaced /\ m.method \notin {"ACK", "BYE"} =>
       DlgWith(s, m.to) /\ m.cseq <= s.dialogs["caller"].lcseq
DlgFromForkFits(s, m) ==
  /\ m.from \in DlgForks /\ m.to = "caller" /\ m.method # "BYE" /\ ~DlgUnknown(s, m.from)
  /\ s.dialogs[m.from].state = "EARLY" => m.method # "INVITE"
  /\ s.dialogs[m.from].state # "NONE" => m.cseq <= s.dialogs[m.from].lcseq
DlgAnswerOfForkFits(s, m) ==
  /\ m.from = "caller" /\ m.to \in DlgForks /\ ~DlgUnknown(s, m.to)
  /\ m.cseq = 20 => (m.code = 200 => m.recorded = DlgRecorded(s))
  /\ m.cseq # 20 => s.answered
DlgAnswerOfCallerFits(s, m) ==
  /\ m.from \in DlgForks /\ m.to = "caller" /\ ~DlgUnknown(s, m.from)
  /\ s.dialogs[m.from].state # "EARLY"

DlgFits(s, m) ==
  /\ m.cseq \in Int /\ m.contact # <<>>
  /\ m.code = 0 => /\ m.contact[1] = m.from
                   /\ DlgFirstFits(s, m) \/ DlgFromCallerFits(s, m) \/ DlgFromForkFits(s, m)
  /\ m.code # 0 => /\ m.contact[1] = m.to
                   /\ DlgAnswerOfForkFits(s, m) \/ DlgAnswerOfCallerFits(s, m)

DlgInvOf(s) ==
  /\ DlgShape(s)
  /\ DlgCallerFits(s)
  /\ \A f \in DlgForks : DlgForkFits(s, f)
  /\ \A m \in s.wire : DlgFits(s, m)
DlgInv == DlgInvOf(dlg)

(* The invariant says of two dialogs what is wanted.                       *)
LEMMA DlgInvAgrees == DlgInv => DialogsAgree
<1> SUFFICES ASSUME DlgInv, NEW f \in DlgForks
             PROVE  DlgAgree(f)
  BY DEF DialogsAgree
<1> DEFINE a == dlg.dialogs["caller"]
           b == dlg.dialogs[f]
<1>1. SUFFICES ASSUME a.state # "NONE", b.state # "NONE", a.remote = f
               PROVE  DlgAgree(f)
  BY DEF DlgAgree
<1>2. DlgCallerFits(dlg) /\ DlgForkFits(dlg, f) /\ DlgWith(dlg, f)
  BY <1>1 DEF DlgInv, DlgInvOf, DlgWith
<1>3. a.local = "caller" /\ a.target[1] = f /\ a.lcseq >= 20
  BY <1>1, <1>2 DEF DlgCallerFits
<1>4. a.state = "CONFIRMED" => a.route = DlgReversed(DlgRecorded(dlg))
  BY <1>2 DEF DlgCallerFits
<1>5. /\ b.local = f /\ b.remote = "caller" /\ b.route = DlgRecorded(dlg)
      /\ b.target[1] = "caller" /\ a.rcseq <= b.lcseq
      /\ ~dlg.replaced => b.rcseq <= 20 \/ b.rcseq <= a.lcseq
  BY <1>1, <1>2 DEF DlgForkFits
<1>6. a.lcseq \in Int /\ b.rcseq \in Int
  BY DEF DlgInv, DlgInvOf, DlgShape, DlgIsDialog, DlgEnds
<1>7. ~dlg.replaced => b.rcseq <= a.lcseq
  BY <1>3, <1>5, <1>6
<1> QED
  BY <1>1, <1>3, <1>4, <1>5, <1>7 DEF DlgAgree

(* Before the call nobody has a dialog and nothing was sent.               *)
LEMMA DlgInitInv == DlgInit => DlgInv
<1> SUFFICES ASSUME DlgInit
             PROVE  DlgInv
  OBVIOUS
<1>1. PICK chain \in DlgChains :
        dlg = [chain |-> chain, dialogs |-> [e \in DlgEnds |-> DlgNone],
               address |-> [e \in DlgEnds |-> 0], answered |-> FALSE,
               replaced |-> FALSE, wire |-> {}, sent |-> 0]
  BY DEF DlgInit
<1>2. /\ dlg.wire = {} /\ ~dlg.answered
      /\ \A e \in DlgEnds : dlg.dialogs[e] = DlgNone
  BY <1>1
<1>3. DlgIsDialog(DlgNone) /\ DlgNone.state = "NONE"
  BY DEF DlgIsDialog, DlgNone
<1>4. DlgShape(dlg)
  BY <1>1, <1>3 DEF DlgShape
<1>5. DlgCallerFits(dlg)
  BY <1>2, <1>3 DEF DlgCallerFits, DlgEnds
<1>6. \A f \in DlgForks : DlgForkFits(dlg, f)
  BY <1>2, <1>3 DEF DlgForkFits, DlgEnds
<1> QED
  BY <1>2, <1>4, <1>5, <1>6 DEF DlgInv, DlgInvOf

-----------------------------------------------------------------------------
(* A call goes on when no dialog is made where there was none, numbers     *)
(* only grow and the caller stays with an end unless it is replaced: then  *)
(* what was accounted for still is.                                        *)
DlgGoesOn(s, t) ==
  /\ t.chain = s.chain
  /\ s.answered => t.answered
  /\ ~t.replaced => /\ ~s.replaced
                    /\ \A f \in DlgForks : DlgWith(s, f) =>
                         /\ DlgWith(t, f)
                         /\ s.dialogs["caller"].lcseq <= t.dialogs["caller"].lcseq
  /\ \A f \in DlgForks :
       /\ DlgUnknown(t, f) => DlgUnknown(s, f)
       /\ t.dialogs[f].state = "EARLY" => s.dialogs[f].state = "EARLY"
       /\ t.dialogs[f].state # "NONE" => /\ s.dialogs[f].state # "NONE"
                                         /\ s.dialogs[f].lcseq <= t.dialogs[f].lcseq

(* A call that goes on still accounts for a message. *)
LEMMA DlgStillFits ==
  ASSUME NEW s, NEW t, NEW m, DlgShape(s), DlgShape(t), DlgGoesOn(s, t), DlgFits(s, m)
  PROVE  DlgFits(t, m)
<1> DEFINE a == s.dialogs["caller"]
           u == t.dialogs["caller"]
<1>1. m.cseq \in Int
  BY DEF DlgFits
<1>2. \A e \in DlgEnds : s.dialogs[e].lcseq \in Int /\ t.dialogs[e].lcseq \in Int
  BY DEF DlgShape, DlgIsDialog
<1>3. a.lcseq \in Int /\ u.lcseq \in Int
  BY <1>2 DEF DlgEnds
<1>4. DlgRecorded(s) = DlgRecorded(t)
  BY DEF DlgGoesOn, DlgRecorded
<1>5. DlgFirstFits(s, m) => DlgFirstFits(t, m)
  BY <1>4 DEF DlgFirstFits
<1>6. DlgFromCallerFits(s, m) => DlgFromCallerFits(t, m)
  BY <1>1, <1>3 DEF DlgFromCallerFits, DlgGoesOn
<1>7. ASSUME DlgFromForkFits(s, m)  PROVE DlgFromForkFits(t, m)
  <2>1. m.from \in DlgForks /\ m.from \in DlgEnds
    BY <1>7 DEF DlgFromForkFits, DlgEnds
  <2>2. t.dialogs[m.from].state # "NONE" => m.cseq <= t.dialogs[m.from].lcseq
    BY <1>1, <1>2, <1>7, <2>1 DEF DlgFromForkFits, DlgGoesOn
  <2> QED
    BY <1>7, <2>1, <2>2 DEF DlgFromForkFits, DlgGoesOn
<1>8. DlgAnswerOfForkFits(s, m) => DlgAnswerOfForkFits(t, m)
  BY <1>4 DEF DlgAnswerOfForkFits, DlgGoesOn
<1>9. DlgAnswerOfCallerFits(s, m) => DlgAnswerOfCallerFits(t, m)
  BY DEF DlgAnswerOfCallerFits, DlgGoesOn
<1> QED
  BY <1>5, <1>6, <1>7, <1>8, <1>9 DEF DlgFits

(* Only the wire changes. *)
LEMMA DlgWireGrows ==
  ASSUME NEW s, NEW t, NEW M, DlgInvOf(s), DlgShape(t), t.chain = s.chain,
         t.dialogs = s.dialogs, t.answered = s.answered, t.replaced = s.replaced,
         t.wire = s.wire \cup M, \A m \in M : DlgFits(s, m)
  PROVE  DlgInvOf(t)
<1>1. \A f : DlgUnknown(t, f) => DlgUnknown(s, f)
  BY DEF DlgUnknown, DlgBye
<1>2. \A f : DlgWith(t, f) <=> DlgWith(s, f)
  BY DEF DlgWith
<1>3. DlgShape(s)
  BY DEF DlgInvOf
<1>4. /\ s.dialogs["caller"].lcseq \in Int
      /\ \A f \in DlgForks : s.dialogs[f].lcseq \in Int
  BY <1>3 DEF DlgShape, DlgIsDialog, DlgEnds
<1>5. DlgGoesOn(s, t)
  BY <1>1, <1>2, <1>4 DEF DlgGoesOn
<1>6. DlgRecorded(s) = DlgRecorded(t)
  BY DEF DlgRecorded
<1>7. DlgCallerFits(t)
  BY <1>1, <1>6 DEF DlgInvOf, DlgCallerFits
<1>8. ASSUME NEW f \in DlgForks  PROVE DlgForkFits(t, f)
  <2>1. DlgForkFits(s, f)
    BY DEF DlgInvOf
  <2> QED
    BY <1>2, <1>6, <2>1 DEF DlgForkFits
<1>9. \A m \in t.wire : DlgFits(s, m)
  BY DEF DlgInvOf
<1>10. \A m \in t.wire : DlgFits(t, m)
  BY <1>3, <1>5, <1>9, DlgStillFits
<1> QED
  BY <1>7, <1>8, <1>10 DEF DlgInvOf

DlgPut(D, e, u) == [D EXCEPT ![e] = u]

(* Only the dialog of the caller changes. *)
LEMMA DlgCallerChanges ==
  ASSUME NEW s, NEW t, NEW u, DlgInvOf(s), DlgShape(t), t.chain = s.chain,
         t.dialogs = DlgPut(s.dialogs, "caller", u), t.wire = s.wire,
         s.answered => t.answered, DlgCallerFits(t),
         ~t.replaced => /\ ~s.replaced
                        /\ \A f \in DlgForks : DlgWith(s, f) =>
                             DlgWith(t, f) /\ s.dialogs["caller"].lcseq <= u.lcseq,
         \A f \in DlgForks : DlgWith(t, f) /\ s.dialogs[f].state # "NONE" =>
           u.rcseq <= s.dialogs[f].lcseq
  PROVE  DlgInvOf(t)
<1>1. DlgShape(s)
  BY DEF DlgInvOf
<1>2. t.dialogs["caller"] = u /\ \A f \in DlgForks : t.dialogs[f] = s.dialogs[f]
  BY <1>1, DlgAssumption DEF DlgShape, DlgEnds, DlgPut
<1>3. \A f \in DlgForks : DlgUnknown(t, f) => DlgUnknown(s, f)
  BY <1>2 DEF DlgUnknown, DlgBye
<1>4. \A f \in DlgForks : s.dialogs[f].lcseq \in Int /\ s.dialogs[f].rcseq \in Int
  BY <1>1 DEF DlgShape, DlgIsDialog, DlgEnds
<1>5. s.dialogs["caller"].lcseq \in Int /\ u.lcseq \in Int
  BY <1>1, <1>2 DEF DlgShape, DlgIsDialog, DlgEnds
<1>6. DlgGoesOn(s, t)
  BY <1>2, <1>3, <1>4 DEF DlgGoesOn
<1>7. ASSUME NEW f \in DlgForks  PROVE DlgForkFits(t, f)
  <2>1. DlgForkFits(s, f)
    BY DEF DlgInvOf
  <2>2. DlgRecorded(t) = DlgRecorded(s)
    BY DEF DlgRecorded
  <2> QED
    BY <1>2, <1>4, <1>5, <2>1, <2>2 DEF DlgForkFits
<1>8. \A m \in t.wire : DlgFits(t, m)
  BY <1>1, <1>6, DlgStillFits DEF DlgInvOf
<1> QED
  BY <1>7, <1>8 DEF DlgInvOf

(* Only the dialog of a fork changes: it goes on, or was ended by a BYE.   *)
LEMMA DlgForkChanges ==
  ASSUME NEW s, NEW t, NEW f \in DlgForks, NEW u, DlgInvOf(s), DlgShape(t),
         t.chain = s.chain, t.dialogs = DlgPut(s.dialogs, f, u), t.wire = s.wire,
         t.answered = s.answered, t.replaced = s.replaced,
         s.dialogs[f].state # "NONE",
         u.state = "NONE" => DlgBye(s, f),
         u.state # "NONE" =>
           /\ u.local = f /\ u.remote = "caller" /\ u.route = DlgRecorded(s)
           /\ u.target[1] = "caller" /\ s.dialogs[f].lcseq <= u.lcseq
           /\ u.state = "EARLY" => s.dialogs[f].state = "EARLY"
           /\ ~s.replaced => \/ u.rcseq <= 20
                             \/ DlgWith(s, f) /\ u.rcseq <= s.dialogs["caller"].lcseq
  PROVE  DlgInvOf(t)
<1>1. DlgShape(s)
  BY DEF DlgInvOf
<1>2. /\ t.dialogs["caller"] = s.dialogs["caller"] /\ t.dialogs[f] = u
      /\ \A g \in DlgForks : g # f => t.dialogs[g] = s.dialogs[g]
  BY <1>1, DlgAssumption DEF DlgShape, DlgEnds, DlgPut
<1>3. \A g : DlgWith(t, g) <=> DlgWith(s, g)
  BY <1>2 DEF DlgWith
<1>4. \A g \in DlgForks : DlgUnknown(t, g) => DlgUnknown(s, g)
  BY <1>2 DEF DlgUnknown, DlgBye
<1>5. /\ \A e \in DlgEnds : s.dialogs[e].lcseq \in Int /\ s.dialogs[e].rcseq \in Int
      /\ u.lcseq \in Int /\ s.dialogs["caller"].rcseq \in Int
      /\ s.dialogs["caller"].lcseq \in Int
      /\ \A g \in DlgForks : s.dialogs[g].lcseq \in Int
  BY <1>1, <1>2 DEF DlgShape, DlgIsDialog, DlgEnds
<1>6. DlgGoesOn(s, t)
  BY <1>2, <1>3, <1>4, <1>5 DEF DlgGoesOn
<1>7. DlgRecorded(t) = DlgRecorded(s)
  BY DEF DlgRecorded
<1>8. ASSUME NEW g \in DlgForks  PROVE DlgForkFits(t, g)
  <2>1. DlgForkFits(s, g) /\ DlgForkFits(s, f)
    BY DEF DlgInvOf
  <2>2. CASE g # f
    BY <1>2, <1>3, <1>7, <2>1, <2>2 DEF DlgForkFits
  <2>3. CASE g = f
    <3> SUFFICES ASSUME u.state # "NONE"  PROVE DlgForkFits(t, g)
      BY <1>2, <2>3, Zenon DEF DlgForkFits
    <3>1. /\ s.dialogs[f].lcseq >= 1 /\ s.dialogs[f].lcseq <= u.lcseq
          /\ DlgWith(s, f) => s.dialogs["caller"].rcseq <= s.dialogs[f].lcseq
      BY <2>1, Zenon DEF DlgForkFits
    <3>2. s.dialogs[f].lcseq \in Int /\ u.lcseq \in Int /\ s.dialogs["caller"].rcseq \in Int
      BY <1>5, Zenon DEF DlgEnds
    <3>3. u.lcseq >= 1 /\ (DlgWith(s, f) => s.dialogs["caller"].rcseq <= u.lcseq)
      BY <3>1, <3>2
    <3> QED
      BY <1>2, <1>3, <1>7, <2>3, <3>3, Zenon DEF DlgForkFits
  <2> QED
    BY <2>2, <2>3
<1>9. DlgCallerFits(t)
  BY <1>2, <1>4, <1>7 DEF DlgInvOf, DlgCallerFits
<1>10. \A m \in t.wire : DlgFits(t, m)
  BY <1>1, <1>6, DlgStillFits DEF DlgInvOf
<1> QED
  BY <1>8, <1>9, <1>10 DEF DlgInvOf

(* An end that nobody has heard of gets its first dialog. *)
LEMMA DlgForkAppears ==
  ASSUME NEW s, NEW t, NEW f \in DlgForks, NEW u, DlgInvOf(s), DlgShape(t),
         t.chain = s.chain, t.dialogs = DlgPut(s.dialogs, f, u), t.wire = s.wire,
         t.answered = s.answered, t.replaced = s.replaced,
         DlgUnknown(s, f), u.state # "NONE",
         u.local = f, u.remote = "caller", u.route = DlgRecorded(s),
         u.target[1] = "caller", u.lcseq = 1, u.rcseq = 20
  PROVE  DlgInvOf(t)
<1>1. DlgShape(s)
  BY DEF DlgInvOf
<1>2. /\ t.dialogs["caller"] = s.dialogs["caller"] /\ t.dialogs[f] = u
      /\ \A g \in DlgForks : g # f => t.dialogs[g] = s.dialogs[g]
  BY <1>1, DlgAssumption DEF DlgShape, DlgEnds, DlgPut
<1>3. /\ \A g : DlgWith(t, g) <=> DlgWith(s, g)
      /\ ~DlgWith(s, f)
  BY <1>2 DEF DlgWith, DlgInvOf, DlgCallerFits
<1>4. \A g \in DlgForks : DlgUnknown(t, g) => DlgUnknown(s, g)
  BY <1>2 DEF DlgUnknown, DlgBye
<1>5. DlgRecorded(t) = DlgRecorded(s)
  BY DEF DlgRecorded
<1>6. ASSUME NEW g \in DlgForks  PROVE DlgForkFits(t, g)
  <2>1. DlgForkFits(s, g)
    BY DEF DlgInvOf
  <2> QED
    BY <1>2, <1>3, <1>5, <2>1 DEF DlgForkFits
<1>7. DlgCallerFits(t)
  BY <1>2, <1>4, <1>5 DEF DlgInvOf, DlgCallerFits
<1>8. ASSUME NEW m \in t.wire  PROVE DlgFits(t, m)
  <2>1. DlgFits(s, m)
    BY <1>8 DEF DlgInvOf
  <2>2. DlgFromCallerFits(s, m) => DlgFromCallerFits(t, m)
    BY <1>2, <1>3 DEF DlgFromCallerFits
  <2>3. DlgFromForkFits(s, m) => DlgFromForkFits(t, m)
    BY <1>2, <1>4 DEF DlgFromForkFits
  <2>4. DlgAnswerOfForkFits(s, m) => DlgAnswerOfForkFits(t, m)
    BY <1>4, <1>5 DEF DlgAnswerOfForkFits
  <2>5. DlgAnswerOfCallerFits(s, m) => DlgAnswerOfCallerFits(t, m)
    BY <1>2, <1>4 DEF DlgAnswerOfCallerFits
  <2>6. DlgFirstFits(s, m) => DlgFirstFits(t, m)
    BY <1>5 DEF DlgFirstFits
  <2> QED
    BY <2>1, <2>2, <2>3, <2>4, <2>5, <2>6 DEF DlgFits
<1> QED
  BY <1>6, <1>7, <1>8 DEF DlgInvOf

(* What is put on the wire and accounted for keeps the rest as it is.      *)
DlgSent(s, M) == [s EXCEPT !.wire = @ \cup M]

(* So the invariant is kept when such messages are sent. *)
LEMMA DlgPutOnWire ==
  ASSUME NEW s, NEW t, NEW M, DlgInvOf(s), t = DlgSent(s, M),
         \A m \in M : DlgFits(s, m)
  PROVE  /\ DlgInvOf(t) /\ t.chain = s.chain /\ t.dialogs = s.dialogs
         /\ t.address = s.address /\ t.answered = s.answered /\ t.replaced = s.replaced
         /\ t.wire = s.wire \cup M /\ t.sent = s.sent
<1>1. DlgShape(s)
  BY DEF DlgInvOf
<1>2. t = [chain |-> s.chain, dialogs |-> s.dialogs, address |-> s.address,
           answered |-> s.answered, replaced |-> s.replaced,
           wire |-> s.wire \cup M, sent |-> s.sent]
  BY <1>1 DEF DlgShape, DlgSent
<1>3. DlgShape(t)
  BY <1>1, <1>2 DEF DlgShape
<1> QED
  BY <1>2, <1>3, DlgWireGrows

(* A contact names its end. *)
LEMMA DlgContacts ==
  ASSUME NEW e, NEW k, NEW c, c = <<e, k>>
  PROVE  c # <<>> /\ c[1] = e
OBVIOUS

-----------------------------------------------------------------------------
(* The steps.  The INVITE leaves the caller. *)
LEMMA DlgFirstRequestKeeps ==
  DlgInv /\ _eXosip_generating_request_out_of_dialog => DlgInv'
<1> SUFFICES ASSUME DlgInv, _eXosip_generating_request_out_of_dialog
             PROVE  DlgInv'
  OBVIOUS
<1>1. PICK s : s = dlg
  OBVIOUS
<1>2. PICK t : t = dlg'
  OBVIOUS
<1>3. DlgInvOf(s)
  BY <1>1 DEF DlgInv
<1>4. PICK m : m = DlgMessage("INVITE", 0, "caller", "", 20, <<>>, DlgRecorded(s),
                              <<"caller", s.address["caller"]>>)
  OBVIOUS
<1>5. s.wire = {} /\ t = [s EXCEPT !.wire = {m}]
  BY <1>1, <1>2, <1>4
     DEF _eXosip_generating_request_out_of_dialog, DlgAddress, DlgRouters, DlgRecorded
<1>6. t = DlgSent(s, {m})
  BY <1>3, <1>5 DEF DlgInvOf, DlgShape, DlgSent
<1>7. /\ m.method = "INVITE" /\ m.code = 0 /\ m.from = "caller" /\ m.to = "" /\ m.cseq = 20
      /\ m.recorded = DlgRecorded(s)
  BY <1>4 DEF DlgMessage
<1>8. m.contact = <<"caller", s.address["caller"]>> /\ m.cseq = 20
  BY <1>4 DEF DlgMessage
<1>9. DlgFirstFits(s, m)
  BY <1>7 DEF DlgFirstFits
<1>10. DlgFits(s, m)
  <2>1. m.contact # <<>> /\ m.contact[1] = "caller"
    BY <1>8, DlgContacts
  <2>2. m.cseq \in Int
    BY <1>8
  <2>3. m.code = 0 /\ m.contact[1] = m.from
    BY <1>7, <2>1
  <2> QED
    BY <1>9, <2>1, <2>2, <2>3 DEF DlgFits
<1>11. DlgInvOf(t)
  BY <1>3, <1>6, <1>10, DlgPutOnWire
<1> QED
  BY <1>2, <1>11 DEF DlgInv

(* It makes a dialog at an end it reaches. *)
LEMMA DlgAppearsKeeps ==
  ASSUME NEW f \in DlgForks, DlgInv, _eXosip_dialog_init_as_uas(f)
  PROVE  DlgInv'
<1>1. PICK s : s = dlg
  OBVIOUS
<1>2. PICK t : t = dlg'
  OBVIOUS
<1>3. DlgInvOf(s) /\ DlgShape(s)
  BY <1>1 DEF DlgInv, DlgInvOf
<1>4. PICK m \in s.wire :
        /\ m.method = "INVITE" /\ m.code = 0 /\ m.to = ""
        /\ \A n \in s.wire : ~(n.method = "BYE" /\ n.to = f)
        /\ t = [s EXCEPT !.dialogs[f] = osip_dialog_init_as_uas(m, f)]
  BY <1>1, <1>2 DEF _eXosip_dialog_init_as_uas
<1>5. s.dialogs[f].state = "NONE" /\ DlgUnknown(s, f)
  BY <1>1, <1>4 DEF _eXosip_dialog_init_as_uas, DlgUnknown, DlgBye
<1>6. DlgFits(s, m)
  BY <1>3, <1>4 DEF DlgInvOf
<1>7. /\ m.from = "caller" /\ m.cseq = 20 /\ m.recorded = DlgRecorded(s)
      /\ m.contact[1] = "caller"
  BY <1>4, <1>6, DlgAssumption DEF DlgFits, DlgFirstFits, DlgFromCallerFits, DlgFromForkFits
<1>8. PICK u : u = osip_dialog_init_as_uas(m, f)
  OBVIOUS
<1>9. u = [state |-> "EARLY", local |-> f, remote |-> "caller", lcseq |-> 1, rcseq |-> 20,
           route |-> DlgRecorded(s), target |-> m.contact]
  BY <1>7, <1>8 DEF osip_dialog_init_as_uas, DlgMade
<1>10. DlgIsDialog(u)
  BY <1>9 DEF DlgIsDialog
<1>11. t = [chain |-> s.chain, dialogs |-> DlgPut(s.dialogs, f, u), address |-> s.address,
            answered |-> s.answered, replaced |-> s.replaced, wire |-> s.wire, sent |-> s.sent]
  BY <1>3, <1>4, <1>8 DEF DlgShape, DlgPut
<1>12. DlgShape(t)
  BY <1>3, <1>10, <1>11 DEF DlgShape, DlgEnds, DlgPut
<1>13. DlgInvOf(t)
  BY <1>3, <1>5, <1>7, <1>9, <1>11, <1>12, DlgForkAppears
<1> QED
  BY <1>2, <1>13 DEF DlgInv

(* That end answers. *)
LEMMA DlgAnswersKeeps ==
  ASSUME NEW f \in DlgForks, DlgInv, _eXosip_answer_invite_123456xx(f)
  PROVE  DlgInv'
<1>1. PICK s : s = dlg
  OBVIOUS
<1>2. PICK t : t = dlg'
  OBVIOUS
<1>3. DlgInvOf(s) /\ DlgShape(s)
  BY <1>1 DEF DlgInv, DlgInvOf
<1>4. PICK d : d = s.dialogs[f]
  OBVIOUS
<1>5. PICK code \in {180, 200}, bare \in BOOLEAN :
        /\ bare => code = 180
        /\ dlg' = [dlg EXCEPT
             !.dialogs[f].state = IF code = 200 THEN "CONFIRMED" ELSE @,
             !.wire = @ \cup {DlgMessage("INVITE", code, dlg.dialogs[f].remote, f, 20, <<>>,
                                         IF bare THEN <<>> ELSE dlg.dialogs[f].route,
                                         <<f, dlg.address[f]>>)}]
  BY Zenon DEF _eXosip_answer_invite_123456xx, DlgAddress
<1>6. d.state = "EARLY" /\ d.remote = "caller" /\ d.route = DlgRecorded(s)
  BY <1>1, <1>3, <1>4 DEF _eXosip_answer_invite_123456xx, DlgInvOf, DlgForkFits
<1>7. PICK m : m = DlgMessage("INVITE", code, d.remote, f, 20, <<>>,
                              IF bare THEN <<>> ELSE d.route, <<f, s.address[f]>>)
  OBVIOUS
<1>8. /\ m.method = "INVITE" /\ m.code = code /\ m.from = "caller" /\ m.to = f
      /\ code = 200 => m.recorded = DlgRecorded(s)
  BY <1>5, <1>6, <1>7 DEF DlgMessage
<1>9. m.contact = <<f, s.address[f]>> /\ m.cseq = 20
  BY <1>7 DEF DlgMessage
<1>10. DlgAnswerOfForkFits(s, m)
  <2>1. ~DlgUnknown(s, f)
    BY <1>4, <1>6 DEF DlgUnknown
  <2> QED
    BY <1>8, <1>9, <2>1 DEF DlgAnswerOfForkFits
<1>11. DlgFits(s, m)
  <2>1. m.contact # <<>> /\ m.contact[1] = f
    BY <1>9, DlgContacts
  <2>2. m.cseq \in Int
    BY <1>9
  <2>3. m.code # 0 /\ m.contact[1] = m.to
    BY <1>5, <1>8, <2>1
  <2> QED
    BY <1>10, <2>1, <2>2, <2>3 DEF DlgFits
<1>12. PICK r : r = DlgSent(s, {m})
  OBVIOUS
<1>13. /\ DlgInvOf(r) /\ r.chain = s.chain /\ r.dialogs = s.dialogs
       /\ r.address = s.address /\ r.answered = s.answered /\ r.replaced = s.replaced
       /\ r.wire = s.wire \cup {m} /\ r.sent = s.sent
  BY <1>3, <1>11, <1>12, DlgPutOnWire
<1>14. PICK state : state = IF code = 200 THEN "CONFIRMED" ELSE d.state
  OBVIOUS
<1>15. PICK u : u = [d EXCEPT !.state = state]
  OBVIOUS
<1>16. DlgIsDialog(d)
  BY <1>3, <1>4 DEF DlgShape, DlgEnds
<1>17. u = [state |-> state, local |-> d.local,
            remote |-> d.remote, lcseq |-> d.lcseq, rcseq |-> d.rcseq, route |-> d.route,
            target |-> d.target]
  BY <1>15, <1>16 DEF DlgIsDialog
<1>18. DlgIsDialog(u)
  BY <1>6, <1>16, <1>17, <1>14 DEF DlgIsDialog
<1>19. t = [chain |-> s.chain, dialogs |-> DlgPut(s.dialogs, f, u), address |-> s.address,
            answered |-> s.answered, replaced |-> s.replaced, wire |-> s.wire \cup {m},
            sent |-> s.sent]
  BY <1>1, <1>2, <1>3, <1>4, <1>5, <1>7, <1>15, <1>14, ZenonT(60) DEF DlgShape, DlgEnds, DlgPut
<1>20. DlgShape(t)
  BY <1>3, <1>18, <1>19 DEF DlgShape, DlgEnds, DlgPut
<1>21. DlgForkFits(r, f)
  BY <1>13 DEF DlgInvOf
<1>22. DlgInvOf(t)
  <2>1. /\ u.state = state /\ u.local = d.local /\ u.remote = d.remote /\ u.route = d.route
        /\ u.target = d.target /\ u.lcseq = d.lcseq /\ u.rcseq = d.rcseq
    BY <1>17
  <2>2. d.lcseq <= u.lcseq /\ r.dialogs[f] = d
    BY <1>4, <1>13, <1>16, <2>1 DEF DlgIsDialog
  <2>3. /\ u.local = f /\ u.remote = "caller" /\ u.route = DlgRecorded(r)
        /\ u.target[1] = "caller"
        /\ ~r.replaced => \/ u.rcseq <= 20
                          \/ DlgWith(r, f) /\ u.rcseq <= r.dialogs["caller"].lcseq
    BY <1>6, <1>21, <2>1, <2>2 DEF DlgForkFits
  <2>4. /\ t.chain = r.chain /\ t.dialogs = DlgPut(r.dialogs, f, u) /\ t.wire = r.wire
        /\ t.answered = r.answered /\ t.replaced = r.replaced
    BY <1>13, <1>19
  <2>5. u.state # "NONE" /\ r.dialogs[f].state = "EARLY"
    BY <1>6, <1>14, <2>1, <2>2
  <2>6. r.dialogs[f].state # "NONE" /\ r.dialogs[f].lcseq <= u.lcseq
    BY <2>2, <2>5
  <2>7. u.state = "NONE" => DlgBye(r, f)
    BY <2>5
  <2>8. u.state # "NONE" =>
          /\ u.local = f /\ u.remote = "caller" /\ u.route = DlgRecorded(r)
          /\ u.target[1] = "caller" /\ r.dialogs[f].lcseq <= u.lcseq
          /\ u.state = "EARLY" => r.dialogs[f].state = "EARLY"
          /\ ~r.replaced => \/ u.rcseq <= 20
                            \/ DlgWith(r, f) /\ u.rcseq <= r.dialogs["caller"].lcseq
    BY <2>3, <2>5, <2>6, Zenon
  <2>9. DlgInvOf(r) /\ r.dialogs[f].state # "NONE"
    BY <1>13, <2>6, Zenon
  <2> QED
    BY <1>20, <2>4, <2>7, <2>8, <2>9, DlgForkChanges, SMTT(60)
<1> QED
  BY <1>2, <1>22 DEF DlgInv

(* What an answer makes of the dialog it belongs to. *)
LEMMA DlgAnswerUpdates ==
  ASSUME NEW d, NEW m, NEW u, DlgIsDialog(d), m.contact # <<>>,
         u = osip_dialog_update_route_set_as_uac(d, m)
  PROVE  /\ DlgIsDialog(u) /\ u.local = d.local /\ u.remote = d.remote
         /\ u.lcseq = d.lcseq /\ u.rcseq = d.rcseq /\ u.target = m.contact
         /\ m.code = 200 => u.state = "CONFIRMED"
         /\ m.code # 200 => u.state = d.state
         /\ d.state = "EARLY" => u.route = DlgReversed(m.recorded)
         /\ d.state # "EARLY" => u.route = d.route
<1>1. PICK state : state = IF m.code = 200 THEN "CONFIRMED" ELSE d.state
  OBVIOUS
<1>2. PICK route : route = IF d.state = "EARLY" THEN DlgReversed(m.recorded) ELSE d.route
  OBVIOUS
<1>3. u = [d EXCEPT !.target = m.contact, !.route = route, !.state = state]
  BY <1>1, <1>2 DEF osip_dialog_update_route_set_as_uac
<1>4. u = [state |-> state, local |-> d.local, remote |-> d.remote, lcseq |-> d.lcseq,
           rcseq |-> d.rcseq, route |-> route, target |-> m.contact]
  BY <1>3 DEF DlgIsDialog
<1>5. DlgIsDialog(u)
  BY <1>1, <1>4 DEF DlgIsDialog
<1> QED
  BY <1>1, <1>2, <1>4, <1>5

(* What it makes of none. *)
LEMMA DlgAnswerMakes ==
  ASSUME NEW m, NEW u, m.cseq \in Int, u = osip_dialog_init_as_uac(m)
  PROVE  /\ DlgIsDialog(u) /\ u.local = m.from /\ u.remote = m.to
         /\ u.lcseq = m.cseq /\ u.rcseq = -1 /\ u.target = m.contact
         /\ m.code = 200 => u.state = "CONFIRMED"
         /\ m.code # 200 => u.state = "EARLY"
         /\ u.route = DlgReversed(m.recorded)
<1>1. PICK state : state = IF m.code = 200 THEN "CONFIRMED" ELSE "EARLY"
  OBVIOUS
<1>2. u = [state |-> state, local |-> m.from, remote |-> m.to, lcseq |-> m.cseq,
           rcseq |-> -1, route |-> DlgReversed(m.recorded), target |-> m.contact]
  BY <1>1 DEF osip_dialog_init_as_uac, DlgMade
<1>3. DlgIsDialog(u)
  BY <1>1, <1>2 DEF DlgIsDialog
<1> QED
  BY <1>1, <1>2, <1>3

(* The caller's dialog after an answer to its INVITE. *)
LEMMA DlgAnsweredFits ==
  ASSUME NEW s, NEW m, NEW u, DlgInvOf(s), m \in s.wire, m.from = "caller", m.cseq = 20,
         m.code # 0, u = DlgAnswered(s.dialogs["caller"], m)
  PROVE  /\ DlgIsDialog(u) /\ u.state # "NONE" /\ u.local = "caller" /\ u.remote = m.to
         /\ m.to \in DlgForks /\ ~DlgUnknown(s, m.to)
         /\ u.target[1] = m.to /\ u.lcseq >= 20
         /\ u.state = "CONFIRMED" => u.route = DlgReversed(DlgRecorded(s))
         /\ m.code = 200 => u.state = "CONFIRMED"
         /\ m.code # 200 /\ ~s.answered => u.state # "CONFIRMED"
         /\ DlgWith(s, m.to) => s.dialogs["caller"].lcseq <= u.lcseq
         /\ s.dialogs[m.to].state # "NONE" => u.rcseq <= s.dialogs[m.to].lcseq
<1>1. PICK a : a = s.dialogs["caller"]
  OBVIOUS
<1>2. DlgShape(s) /\ DlgCallerFits(s) /\ DlgFits(s, m)
  BY DEF DlgInvOf
<1>3. DlgIsDialog(a)
  BY <1>1, <1>2 DEF DlgShape, DlgEnds
<1>4. /\ m.cseq \in Int /\ m.contact # <<>> /\ m.contact[1] = m.to
      /\ m.to \in DlgForks /\ ~DlgUnknown(s, m.to)
      /\ m.code = 200 => m.recorded = DlgRecorded(s)
  BY <1>2, DlgAssumption DEF DlgFits, DlgAnswerOfForkFits, DlgAnswerOfCallerFits
<1>5. /\ DlgForkFits(s, m.to) /\ s.dialogs[m.to].lcseq \in Int
  BY <1>2, <1>4 DEF DlgInvOf, DlgShape, DlgIsDialog, DlgEnds
<1>6. /\ a.state # "NONE" => a.local = "caller" /\ a.lcseq >= 20
      /\ a.state = "CONFIRMED" => a.route = DlgReversed(DlgRecorded(s))
      /\ ~s.answered => a.state # "CONFIRMED"
  BY <1>1, <1>2 DEF DlgCallerFits
<1>7. CASE osip_dialog_match_as_uac(a, m)
  <2>1. u = osip_dialog_update_route_set_as_uac(a, m)
    BY <1>1, <1>7 DEF DlgAnswered
  <2>2. a.state # "NONE" /\ a.remote = m.to
    BY <1>7 DEF osip_dialog_match_as_uac
  <2>3. /\ DlgIsDialog(u) /\ u.local = a.local /\ u.remote = a.remote
        /\ u.lcseq = a.lcseq /\ u.rcseq = a.rcseq /\ u.target = m.contact
        /\ m.code = 200 => u.state = "CONFIRMED"
        /\ m.code # 200 => u.state = a.state
        /\ a.state = "EARLY" => u.route = DlgReversed(m.recorded)
        /\ a.state # "EARLY" => u.route = a.route
    BY <1>3, <1>4, <2>1, DlgAnswerUpdates
  <2>4. u.state = "CONFIRMED" => u.route = DlgReversed(DlgRecorded(s))
    BY <1>3, <1>4, <1>6, <2>2, <2>3 DEF DlgIsDialog
  <2>5. u.state # "NONE" /\ u.lcseq >= 20 /\ a.lcseq <= u.lcseq
    BY <1>3, <1>6, <2>2, <2>3 DEF DlgIsDialog
  <2>6. s.dialogs[m.to].state # "NONE" => u.rcseq <= s.dialogs[m.to].lcseq
    BY <1>1, <1>5, <2>2, <2>3 DEF DlgForkFits, DlgWith
  <2> QED
    BY <1>1, <1>4, <1>6, <2>2, <2>3, <2>4, <2>5, <2>6
<1>8. CASE ~osip_dialog_match_as_uac(a, m)
  <2>1. u = osip_dialog_init_as_uac(m)
    BY <1>1, <1>8 DEF DlgAnswered
  <2>2. ~DlgWith(s, m.to)
    BY <1>1, <1>6, <1>8 DEF osip_dialog_match_as_uac, DlgWith
  <2>3. /\ DlgIsDialog(u) /\ u.local = m.from /\ u.remote = m.to
        /\ u.lcseq = m.cseq /\ u.rcseq = -1 /\ u.target = m.contact
        /\ m.code = 200 => u.state = "CONFIRMED"
        /\ m.code # 200 => u.state = "EARLY"
        /\ u.route = DlgReversed(m.recorded)
    BY <1>4, <2>1, DlgAnswerMakes
  <2>4. s.dialogs[m.to].state # "NONE" => u.rcseq <= s.dialogs[m.to].lcseq
    BY <1>5, <2>3 DEF DlgForkFits
  <2> QED
    BY <1>4, <2>2, <2>3, <2>4
<1> QED
  BY <1>7, <1>8

(* The caller gets an answer while its INVITE waits for a 2xx. *)
LEMMA DlgCallerAnsweredKeeps ==
  ASSUME DlgInv, NEW m \in dlg.wire, m.from = "caller", m.cseq = 20, ~dlg.answered,
         (m.code = 180 /\ cb_rcv1xx(m)) \/ (m.code = 200 /\ cb_rcv2xx_4invite(m))
  PROVE  DlgInv'
<1>1. PICK s : s = dlg
  OBVIOUS
<1>2. PICK t : t = dlg'
  OBVIOUS
<1>3. DlgInvOf(s) /\ DlgShape(s) /\ m \in s.wire
  BY <1>1 DEF DlgInv, DlgInvOf
<1>4. PICK u : u = DlgAnswered(s.dialogs["caller"], m)
  OBVIOUS
<1>5. /\ DlgIsDialog(u) /\ u.state # "NONE" /\ u.local = "caller" /\ u.remote = m.to
      /\ m.to \in DlgForks /\ ~DlgUnknown(s, m.to)
      /\ u.target[1] = m.to /\ u.lcseq >= 20
      /\ u.state = "CONFIRMED" => u.route = DlgReversed(DlgRecorded(s))
      /\ m.code = 200 => u.state = "CONFIRMED"
      /\ m.code # 200 /\ ~s.answered => u.state # "CONFIRMED"
      /\ DlgWith(s, m.to) => s.dialogs["caller"].lcseq <= u.lcseq
      /\ s.dialogs[m.to].state # "NONE" => u.rcseq <= s.dialogs[m.to].lcseq
  <2>1. m.code # 0
    OBVIOUS
  <2> QED
    BY <1>3, <1>4, <2>1, DlgAnsweredFits
<1>6. PICK replaces \in BOOLEAN :
        /\ replaces <=> s.dialogs["caller"].state # "NONE" /\ s.dialogs["caller"].remote # m.to
        /\ replaces = DlgReplaces(m)
  BY <1>1 DEF DlgReplaces
<1>7. PICK answered \in BOOLEAN, replaced \in BOOLEAN :
        /\ answered <=> m.code = 200
        /\ replaced <=> s.replaced \/ replaces
        /\ t = [chain |-> s.chain, dialogs |-> DlgPut(s.dialogs, "caller", u),
                address |-> s.address, answered |-> answered, replaced |-> replaced,
                wire |-> s.wire, sent |-> s.sent]
  <2>1. PICK replaced \in BOOLEAN : replaced = (s.replaced \/ replaces)
    OBVIOUS
  <2>2. CASE m.code = 180 /\ cb_rcv1xx(m)
    <3>1. t = [s EXCEPT !.dialogs["caller"] = u, !.replaced = replaced]
      BY <1>1, <1>2, <1>4, <1>6, <2>1, <2>2 DEF cb_rcv1xx
    <3>2. t = [chain |-> s.chain, dialogs |-> DlgPut(s.dialogs, "caller", u),
               address |-> s.address, answered |-> s.answered, replaced |-> replaced,
               wire |-> s.wire, sent |-> s.sent]
      BY <1>3, <3>1 DEF DlgShape, DlgPut
    <3>3. s.answered \in BOOLEAN /\ ~s.answered /\ m.code # 200
      BY <1>1, <1>3, <2>2 DEF DlgShape
    <3> QED
      BY <2>1, <3>2, <3>3
  <2>3. CASE m.code = 200 /\ cb_rcv2xx_4invite(m)
    <3>1. t = [s EXCEPT !.dialogs["caller"] = u, !.replaced = replaced, !.answered = TRUE]
      BY <1>1, <1>2, <1>4, <1>6, <2>1, <2>3 DEF cb_rcv2xx_4invite
    <3>2. t = [chain |-> s.chain, dialogs |-> DlgPut(s.dialogs, "caller", u),
               address |-> s.address, answered |-> TRUE, replaced |-> replaced,
               wire |-> s.wire, sent |-> s.sent]
      BY <1>3, <3>1 DEF DlgShape, DlgPut
    <3> QED
      BY <2>1, <2>3, <3>2
  <2> QED
    BY <2>2, <2>3
<1>8. DlgShape(t)
  BY <1>3, <1>5, <1>7 DEF DlgShape, DlgEnds, DlgPut
<1>9. /\ t.chain = s.chain /\ t.dialogs = DlgPut(s.dialogs, "caller", u) /\ t.wire = s.wire
      /\ t.dialogs["caller"] = u /\ \A f \in DlgForks : t.dialogs[f] = s.dialogs[f]
  BY <1>3, <1>7, DlgAssumption DEF DlgShape, DlgEnds, DlgPut
<1>10. \A f : DlgWith(t, f) => f = m.to
  BY <1>5, <1>9 DEF DlgWith
<1>11. \A f \in DlgForks : DlgUnknown(t, f) => DlgUnknown(s, f)
  BY <1>9 DEF DlgUnknown, DlgBye
<1>12. DlgCallerFits(t)
  <2>1. DlgRecorded(t) = DlgRecorded(s)
    BY <1>9 DEF DlgRecorded
  <2>2. t.answered <=> u.state = "CONFIRMED"
    BY <1>1, <1>5, <1>7
  <2> QED
    BY <1>5, <1>9, <1>11, <2>1, <2>2 DEF DlgCallerFits
<1>13. ASSUME ~t.replaced
       PROVE  /\ ~s.replaced
              /\ \A f \in DlgForks : DlgWith(s, f) =>
                   DlgWith(t, f) /\ s.dialogs["caller"].lcseq <= u.lcseq
  <2>1. ~s.replaced /\ ~replaces
    BY <1>7, <1>13
  <2>2. \A f : DlgWith(s, f) => f = m.to
    BY <1>6, <2>1 DEF DlgWith
  <2>3. DlgWith(t, m.to)
    BY <1>5, <1>9 DEF DlgWith
  <2> QED
    BY <1>5, <2>1, <2>2, <2>3
<1>14. s.answered => t.answered
  BY <1>1
<1>15. \A f \in DlgForks : DlgWith(t, f) /\ s.dialogs[f].state # "NONE" =>
         u.rcseq <= s.dialogs[f].lcseq
  BY <1>5, <1>10
<1>16. DlgInvOf(t)
  BY <1>3, <1>8, <1>9, <1>12, <1>13, <1>14, <1>15, DlgCallerChanges
<1> QED
  BY <1>2, <1>16 DEF DlgInv

(* A request within a dialog is a message from its end to the other one.   *)
LEMMA DlgRequestSays ==
  ASSUME NEW d, NEW method, NEW m, d.lcseq \in Int,
         m = _eXosip_build_request_within_dialog(d, method)
  PROVE  /\ m.method = method /\ m.code = 0 /\ m.from = d.local /\ m.to = d.remote
         /\ m.contact = <<d.local, dlg.address[d.local]>>
         /\ m.cseq \in Int /\ (method # "ACK" => m.cseq = d.lcseq + 1)
<1>1. PICK cseq : cseq = IF method = "ACK" THEN d.lcseq ELSE d.lcseq + 1
  OBVIOUS
<1>2. PICK path :
        m = DlgMessage(method, 0, d.local, d.remote, cseq, path, <<>>,
                       <<d.local, dlg.address[d.local]>>)
  BY <1>1, Zenon DEF _eXosip_build_request_within_dialog, DlgAddress
<1>3. /\ m.method = method /\ m.code = 0 /\ m.from = d.local /\ m.to = d.remote
      /\ m.contact = <<d.local, dlg.address[d.local]>>
  BY <1>2 DEF DlgMessage
<1>4. m.cseq = cseq
  BY <1>2 DEF DlgMessage
<1> QED
  BY <1>1, <1>3, <1>4

(* The caller acknowledges and ends the dialog of a 2xx that is too late.   *)
LEMMA DlgUnexpectedKeeps ==
  ASSUME DlgInv, NEW m \in dlg.wire, m.from = "caller", m.cseq = 20,
         _eXosip_process_response_out_of_transaction(m)
  PROVE  DlgInv'
<1>1. PICK s : s = dlg
  OBVIOUS
<1>2. PICK t : t = dlg'
  OBVIOUS
<1>3. DlgInvOf(s) /\ DlgShape(s) /\ m \in s.wire
  BY <1>1 DEF DlgInv, DlgInvOf
<1>4. PICK d : d = osip_dialog_init_as_uac(m)
  OBVIOUS
<1>5. PICK e : e = [d EXCEPT !.lcseq = @ + 4]
  OBVIOUS
<1>6. PICK ack : ack = _eXosip_build_request_within_dialog(d, "ACK")
  OBVIOUS
<1>7. PICK bye : bye = _eXosip_build_request_within_dialog(e, "BYE")
  OBVIOUS
<1>8. m.code = 200 /\ t = DlgSent(s, {ack, bye})
  BY <1>1, <1>2, <1>4, <1>5, <1>6, <1>7
     DEF _eXosip_process_response_out_of_transaction, DlgSent
<1>9. m.cseq \in Int /\ m.to \in DlgForks
  <2>1. DlgFits(s, m) /\ m.code # 0
    BY <1>3, <1>8 DEF DlgInvOf
  <2>2. m.cseq \in Int /\ (DlgAnswerOfForkFits(s, m) \/ DlgAnswerOfCallerFits(s, m))
    BY <2>1 DEF DlgFits
  <2> QED
    BY <2>2, DlgAssumption DEF DlgAnswerOfForkFits, DlgAnswerOfCallerFits
<1>10. DlgIsDialog(d) /\ d.local = "caller" /\ d.remote = m.to /\ d.lcseq \in Int
  BY <1>4, <1>9, DlgAnswerMakes DEF DlgIsDialog
<1>11. e.local = "caller" /\ e.remote = m.to /\ e.lcseq \in Int
  BY <1>5, <1>10 DEF DlgIsDialog
<1>12. /\ ack.method = "ACK" /\ ack.code = 0 /\ ack.from = "caller" /\ ack.to = m.to
       /\ ack.contact = <<"caller", s.address["caller"]>> /\ ack.cseq \in Int
  BY <1>1, <1>6, <1>10, DlgRequestSays
<1>13. /\ bye.method = "BYE" /\ bye.code = 0 /\ bye.from = "caller" /\ bye.to = m.to
       /\ bye.contact = <<"caller", s.address["caller"]>> /\ bye.cseq \in Int
  BY <1>1, <1>7, <1>11, DlgRequestSays
<1>14. DlgFits(s, ack)
  <2>1. ack.contact # <<>> /\ ack.contact[1] = "caller"
    BY <1>12, DlgContacts
  <2>2. DlgFromCallerFits(s, ack)
    BY <1>9, <1>12 DEF DlgFromCallerFits
  <2> QED
    BY <1>12, <2>1, <2>2 DEF DlgFits
<1>15. DlgFits(s, bye)
  <2>1. bye.contact # <<>> /\ bye.contact[1] = "caller"
    BY <1>13, DlgContacts
  <2>2. DlgFromCallerFits(s, bye)
    BY <1>9, <1>13 DEF DlgFromCallerFits
  <2> QED
    BY <1>13, <2>1, <2>2 DEF DlgFits
<1>16. DlgInvOf(t)
  BY <1>3, <1>8, <1>14, <1>15, DlgPutOnWire
<1> QED
  BY <1>2, <1>16 DEF DlgInv

(* An answer to the INVITE of the caller is one of the two. *)
LEMMA DlgGetsAnswerKeeps == DlgInv /\ DlgGetsAnswer => DlgInv'
<1> SUFFICES ASSUME DlgInv, DlgGetsAnswer
             PROVE  DlgInv'
  OBVIOUS
<1>1. PICK m \in dlg.wire :
        /\ m.from = "caller" /\ m.cseq = 20
        /\ IF dlg.answered THEN _eXosip_process_response_out_of_transaction(m)
           ELSE (m.code = 180 /\ cb_rcv1xx(m)) \/ (m.code = 200 /\ cb_rcv2xx_4invite(m))
  BY DEF DlgGetsAnswer
<1>2. CASE dlg.answered
  BY <1>1, <1>2, DlgUnexpectedKeeps
<1>3. CASE ~dlg.answered
  BY <1>1, <1>3, DlgCallerAnsweredKeeps
<1> QED
  BY <1>2, <1>3

(* A request within a dialog with another address than that of its end.    *)
DlgMoving(d, method, c) == [_eXosip_build_request_within_dialog(d, method) EXCEPT !.contact = c]

(* It is a message of that end as well, with the next number. *)
LEMMA DlgMovingSays ==
  ASSUME NEW d, NEW method, NEW c, NEW m, d.lcseq \in Int, method # "ACK",
         m = DlgMoving(d, method, c)
  PROVE  /\ m.method = method /\ m.code = 0 /\ m.from = d.local /\ m.to = d.remote
         /\ m.contact = c /\ m.cseq \in Int /\ m.cseq = d.lcseq + 1
<1>1. PICK cseq : cseq = IF method = "ACK" THEN d.lcseq ELSE d.lcseq + 1
  OBVIOUS
<1>2. PICK q : q = _eXosip_build_request_within_dialog(d, method)
  OBVIOUS
<1>3. PICK path :
        q = DlgMessage(method, 0, d.local, d.remote, cseq, path, <<>>,
                       <<d.local, dlg.address[d.local]>>)
  BY <1>1, <1>2, Zenon DEF _eXosip_build_request_within_dialog, DlgAddress
<1>4. m = [q EXCEPT !.contact = c]
  BY <1>2 DEF DlgMoving
<1>5. /\ m.method = method /\ m.code = 0 /\ m.from = d.local /\ m.to = d.remote
      /\ m.contact = c
  BY <1>3, <1>4 DEF DlgMessage
<1>6. m.cseq = cseq
  BY <1>3, <1>4 DEF DlgMessage
<1> QED
  BY <1>1, <1>5, <1>6

(* An end sends a request: its number is used before the request leaves.   *)
LEMMA DlgSendsKeeps ==
  ASSUME NEW end \in DlgEnds, DlgInv, DlgSends(end)
  PROVE  DlgInv'
<1>1. PICK s : s = dlg
  OBVIOUS
<1>2. PICK t : t = dlg'
  OBVIOUS
<1>3. DlgInvOf(s) /\ DlgShape(s) /\ DlgCallerFits(s)
  BY <1>1 DEF DlgInv, DlgInvOf
<1>4. PICK d : d = s.dialogs[end]
  OBVIOUS
<1>5. DlgIsDialog(d) /\ d.state # "NONE" /\ d.lcseq \in Int
  BY <1>1, <1>3, <1>4 DEF DlgSends, DlgShape, DlgIsDialog
<1>6. PICK method \in {"INFO"} \cup (IF dlg.dialogs[end].state = "CONFIRMED"
                                      THEN {"INVITE"} ELSE {}) :
         \E address \in DlgMovesTo(end, method) :
           dlg' = [dlg EXCEPT !.sent = @ + 1, !.dialogs[end].lcseq = @ + 1,
                     !.address[end] = address,
                     !.wire = @ \cup {[_eXosip_build_request_within_dialog(dlg.dialogs[end], method)
                                         EXCEPT !.contact = <<end, address>>]}]
  BY Zenon DEF DlgSends
<1>7. PICK address :
        dlg' = [dlg EXCEPT !.sent = @ + 1, !.dialogs[end].lcseq = @ + 1,
                  !.address[end] = address,
                  !.wire = @ \cup {[_eXosip_build_request_within_dialog(dlg.dialogs[end], method)
                                      EXCEPT !.contact = <<end, address>>]}]
  BY <1>6, Zenon
<1>8. method # "ACK" /\ method # "BYE" /\ (method = "INVITE" => d.state = "CONFIRMED")
  BY <1>1, <1>4
<1>9. PICK m : m = DlgMoving(d, method, <<end, address>>)
  OBVIOUS
<1>10. t = [s EXCEPT !.sent = @ + 1, !.dialogs[end].lcseq = @ + 1, !.address[end] = address,
                     !.wire = @ \cup {m}]
  BY <1>1, <1>2, <1>4, <1>7, <1>9, Zenon DEF DlgMoving
<1>11. /\ m.method = method /\ m.code = 0 /\ m.from = d.local /\ m.to = d.remote
      /\ m.contact = <<end, address>> /\ m.cseq \in Int /\ m.cseq = d.lcseq + 1
  BY <1>5, <1>8, <1>9, DlgMovingSays
<1>12. PICK u : u = [d EXCEPT !.lcseq = d.lcseq + 1]
  OBVIOUS
<1>13. u = [state |-> d.state, local |-> d.local, remote |-> d.remote, lcseq |-> d.lcseq + 1,
            rcseq |-> d.rcseq, route |-> d.route, target |-> d.target]
  BY <1>5, <1>12 DEF DlgIsDialog
<1>14. DlgIsDialog(u) /\ d.lcseq <= u.lcseq /\ m.cseq <= u.lcseq
  BY <1>5, <1>11, <1>13 DEF DlgIsDialog
<1>15. PICK r : r = [chain |-> s.chain, dialogs |-> DlgPut(s.dialogs, end, u),
                     address |-> [s.address EXCEPT ![end] = address],
                     answered |-> s.answered, replaced |-> s.replaced, wire |-> s.wire,
                     sent |-> s.sent + 1]
  OBVIOUS
<1>16. t = DlgSent(r, {m})
  <2>1. PICK D : D = DlgPut(s.dialogs, end, u)
    OBVIOUS
  <2>2. D = [s.dialogs EXCEPT ![end] = [s.dialogs[end] EXCEPT !.lcseq = s.dialogs[end].lcseq + 1]]
    BY <1>4, <1>12, <2>1 DEF DlgPut
  <2>3. t = [s EXCEPT !.sent = s.sent + 1, !.dialogs = D,
                      !.address = [s.address EXCEPT ![end] = address],
                      !.wire = s.wire \cup {m}]
    BY <1>10, <2>2, Zenon
  <2>4. t = [chain |-> s.chain, dialogs |-> D,
             address |-> [s.address EXCEPT ![end] = address],
             answered |-> s.answered, replaced |-> s.replaced, wire |-> s.wire \cup {m},
             sent |-> s.sent + 1]
    BY <1>3, <2>3 DEF DlgShape
  <2>5. DlgSent(r, {m}) = [chain |-> s.chain, dialogs |-> D,
             address |-> [s.address EXCEPT ![end] = address],
             answered |-> s.answered, replaced |-> s.replaced, wire |-> s.wire \cup {m},
             sent |-> s.sent + 1]
    BY <1>15, <2>1 DEF DlgSent
  <2> QED
    BY <2>4, <2>5
<1>17. DlgShape(r)
  BY <1>3, <1>14, <1>15 DEF DlgShape, DlgPut
<1>18. /\ r.chain = s.chain /\ r.dialogs = DlgPut(s.dialogs, end, u) /\ r.wire = s.wire
       /\ r.answered = s.answered /\ r.replaced = s.replaced /\ r.dialogs[end] = u
       /\ DlgRecorded(r) = DlgRecorded(s)
  BY <1>3, <1>15 DEF DlgShape, DlgPut, DlgRecorded
<1>19. m.contact # <<>> /\ m.contact[1] = end
  BY <1>11, DlgContacts
<1>20. CASE end = "caller"
  <2>1. /\ d.local = "caller" /\ d.remote \in DlgForks /\ d.target[1] = d.remote
        /\ d.lcseq >= 20 /\ ~DlgUnknown(s, d.remote)
        /\ d.state = "CONFIRMED" => d.route = DlgReversed(DlgRecorded(s))
        /\ s.answered <=> d.state = "CONFIRMED"
    BY <1>3, <1>4, <1>5, <1>20 DEF DlgCallerFits
  <2>2. \A f \in DlgForks : r.dialogs[f] = s.dialogs[f]
    BY <1>3, <1>18, <1>20, DlgAssumption DEF DlgShape, DlgPut, DlgEnds
  <2>3. \A f : DlgWith(r, f) <=> DlgWith(s, f)
    BY <1>4, <1>13, <1>18, <1>20, SMTT(60) DEF DlgWith
  <2>4. ~DlgUnknown(r, d.remote)
    BY <1>18, <2>1, <2>2 DEF DlgUnknown, DlgBye
  <2>5. DlgCallerFits(r)
    BY <1>5, <1>13, <1>18, <1>20, <2>1, <2>4 DEF DlgCallerFits
  <2>6. ASSUME NEW f \in DlgForks, DlgWith(r, f), s.dialogs[f].state # "NONE"
        PROVE  u.rcseq <= s.dialogs[f].lcseq
    <3>1. DlgForkFits(s, f) /\ DlgWith(s, f)
      BY <1>3, <2>3, <2>6 DEF DlgInvOf
    <3> QED
      BY <1>4, <1>13, <1>20, <2>6, <3>1 DEF DlgForkFits
  <2>7. DlgInvOf(r)
    <3>1. /\ s.answered => r.answered
          /\ r.dialogs = DlgPut(s.dialogs, "caller", u)
          /\ ~r.replaced => /\ ~s.replaced
                            /\ \A f \in DlgForks : DlgWith(s, f) =>
                                 DlgWith(r, f) /\ s.dialogs["caller"].lcseq <= u.lcseq
      BY <1>4, <1>14, <1>18, <1>20, <2>3
    <3> QED
      BY <1>3, <1>17, <1>18, <2>5, <2>6, <3>1, DlgCallerChanges
  <2>8. DlgFromCallerFits(r, m)
    <3>1. m.from = "caller" /\ m.to \in DlgForks /\ DlgWith(r, m.to)
      BY <1>4, <1>5, <1>11, <1>20, <2>1, <2>3 DEF DlgWith
    <3>2. m.method = "INVITE" => r.answered /\ m.cseq > 20
      BY <1>5, <1>8, <1>11, <1>18, <2>1
    <3> QED
      BY <1>14, <1>18, <1>20, <3>1, <3>2 DEF DlgFromCallerFits
  <2>9. DlgFits(r, m)
    BY <1>11, <1>19, <1>20, <2>1, <2>8 DEF DlgFits
  <2> QED
    BY <1>2, <1>16, <2>7, <2>9, DlgPutOnWire DEF DlgInv
<1>21. CASE end \in DlgForks
  <2>1. DlgForkFits(s, end)
    BY <1>3, <1>21 DEF DlgInvOf
  <2>2. /\ d.local = end /\ d.remote = "caller" /\ d.route = DlgRecorded(s)
        /\ d.target[1] = "caller"
        /\ ~s.replaced => \/ d.rcseq <= 20
                          \/ DlgWith(s, end) /\ d.rcseq <= s.dialogs["caller"].lcseq
    BY <1>4, <1>5, <2>1 DEF DlgForkFits
  <2>3. /\ u.state = d.state /\ u.local = end /\ u.remote = "caller"
        /\ u.route = DlgRecorded(s) /\ u.target[1] = "caller" /\ u.rcseq = d.rcseq
    BY <1>13, <2>2
  <2>4. DlgInvOf(r)
    BY <1>3, <1>4, <1>5, <1>14, <1>17, <1>18, <1>21, <2>2, <2>3, DlgForkChanges
  <2>5. DlgFromForkFits(r, m)
    BY <1>5, <1>8, <1>11, <1>13, <1>14, <1>18, <1>21, <2>2
       DEF DlgFromForkFits, DlgUnknown
  <2>6. DlgFits(r, m)
    BY <1>11, <1>19, <2>2, <2>5 DEF DlgFits
  <2> QED
    BY <1>2, <1>16, <2>4, <2>6, DlgPutOnWire DEF DlgInv
<1> QED
  BY <1>20, <1>21 DEF DlgEnds

(* What a request makes of the dialog it belongs to. *)
LEMMA DlgRequestUpdates ==
  ASSUME NEW d, NEW m, NEW u, DlgIsDialog(d), m.cseq \in Int, m.contact # <<>>,
         u = IF m.method = "INVITE"
             THEN osip_dialog_update_route_set_as_uas([d EXCEPT !.rcseq = m.cseq], m)
             ELSE [d EXCEPT !.rcseq = m.cseq]
  PROVE  /\ DlgIsDialog(u) /\ u.state = d.state /\ u.local = d.local /\ u.remote = d.remote
         /\ u.lcseq = d.lcseq /\ u.route = d.route /\ u.rcseq = m.cseq
         /\ u.target = d.target \/ (m.method = "INVITE" /\ u.target = m.contact)
<1>1. PICK got : got = [d EXCEPT !.rcseq = m.cseq]
  OBVIOUS
<1>2. got = [state |-> d.state, local |-> d.local, remote |-> d.remote, lcseq |-> d.lcseq,
             rcseq |-> m.cseq, route |-> d.route, target |-> d.target]
  BY <1>1 DEF DlgIsDialog
<1>3. CASE m.method = "INVITE"
  <2>1. u = [got EXCEPT !.target = m.contact]
    BY <1>1, <1>3 DEF osip_dialog_update_route_set_as_uas
  <2>2. u = [state |-> d.state, local |-> d.local, remote |-> d.remote, lcseq |-> d.lcseq,
             rcseq |-> m.cseq, route |-> d.route, target |-> m.contact]
    BY <1>2, <2>1
  <2> QED
    BY <1>3, <2>2 DEF DlgIsDialog
<1>4. CASE m.method # "INVITE"
  <2>1. u = got
    BY <1>1, <1>4
  <2> QED
    BY <1>2, <2>1 DEF DlgIsDialog
<1> QED
  BY <1>3, <1>4

(* An end takes a request and answers an INVITE. *)
LEMMA DlgNewRequestKeeps ==
  ASSUME NEW end \in DlgEnds, DlgInv, _eXosip_process_newrequest(end)
  PROVE  DlgInv'
<1>1. PICK s : s = dlg
  OBVIOUS
<1>2. PICK t : t = dlg'
  OBVIOUS
<1>3. DlgInvOf(s) /\ DlgShape(s) /\ DlgCallerFits(s)
  BY <1>1 DEF DlgInv, DlgInvOf
<1>4. PICK m \in dlg.wire :
        /\ m.code = 0 /\ m.to = end /\ m.method \notin {"ACK"}
        /\ osip_dialog_match_as_uas(dlg.dialogs[end], m)
        /\ dlg' = [dlg EXCEPT
             !.dialogs[end] =
               IF m.method = "BYE" THEN DlgNone
               ELSE IF m.method = "INVITE"
               THEN osip_dialog_update_route_set_as_uas(
                      [dlg.dialogs[end] EXCEPT !.rcseq = m.cseq], m)
               ELSE [dlg.dialogs[end] EXCEPT !.rcseq = m.cseq],
             !.wire = IF m.method = "INVITE"
                      THEN @ \cup {DlgMessage("INVITE", 200, m.from, end, m.cseq, <<>>, <<>>,
                                              DlgAddress(end))} ELSE @]
  BY Zenon DEF _eXosip_process_newrequest
<1>5. PICK d : d = s.dialogs[end]
  OBVIOUS
<1>6. DlgIsDialog(d) /\ d.state # "NONE" /\ d.remote = m.from
  BY <1>1, <1>3, <1>4, <1>5 DEF DlgShape, osip_dialog_match_as_uas
<1>7. DlgFits(s, m) /\ m \in s.wire /\ m.to = end /\ m.code = 0 /\ m.method # "ACK"
  BY <1>1, <1>3, <1>4 DEF DlgInvOf
<1>8. /\ m.cseq \in Int /\ m.contact # <<>> /\ m.contact[1] = m.from
      /\ DlgFirstFits(s, m) \/ DlgFromCallerFits(s, m) \/ DlgFromForkFits(s, m)
  BY <1>7 DEF DlgFits
<1>9. PICK u : u = IF m.method = "BYE" THEN DlgNone
                   ELSE IF m.method = "INVITE"
                   THEN osip_dialog_update_route_set_as_uas([d EXCEPT !.rcseq = m.cseq], m)
                   ELSE [d EXCEPT !.rcseq = m.cseq]
  OBVIOUS
<1>10. PICK n : n = DlgMessage("INVITE", 200, m.from, end, m.cseq, <<>>, <<>>,
                               <<end, s.address[end]>>)
  OBVIOUS
<1>11. PICK M : M = IF m.method = "INVITE" THEN {n} ELSE {}
  OBVIOUS
<1>12. ASSUME m.method # "BYE"
       PROVE  /\ DlgIsDialog(u) /\ u.state = d.state /\ u.local = d.local
              /\ u.remote = d.remote /\ u.lcseq = d.lcseq /\ u.route = d.route
              /\ u.rcseq = m.cseq
              /\ u.target = d.target \/ (m.method = "INVITE" /\ u.target = m.contact)
  <2>1. u = IF m.method = "INVITE"
            THEN osip_dialog_update_route_set_as_uas([d EXCEPT !.rcseq = m.cseq], m)
            ELSE [d EXCEPT !.rcseq = m.cseq]
    BY <1>9, <1>12, Zenon
  <2> QED
    BY <1>6, <1>8, <2>1, DlgRequestUpdates
<1>13. m.method = "BYE" => DlgIsDialog(u) /\ u.state = "NONE"
  <2>1. m.method = "BYE" => u = DlgNone
    BY <1>9, Zenon
  <2>2. DlgIsDialog(DlgNone) /\ DlgNone.state = "NONE"
    BY DEF DlgIsDialog, DlgNone
  <2> QED
    BY <2>1, <2>2
<1>14. PICK r : r = [chain |-> s.chain, dialogs |-> DlgPut(s.dialogs, end, u),
                     address |-> s.address, answered |-> s.answered,
                     replaced |-> s.replaced, wire |-> s.wire, sent |-> s.sent]
  OBVIOUS
<1>15. t = DlgSent(r, M)
  <2>1. PICK D : D = DlgPut(s.dialogs, end, u)
    OBVIOUS
  <2>2. PICK W : W = IF m.method = "INVITE" THEN s.wire \cup {n} ELSE s.wire
    OBVIOUS
  <2>3. D = [s.dialogs EXCEPT ![end] = u]
    BY <2>1 DEF DlgPut
  <2>4. t = [s EXCEPT !.dialogs[end] = u, !.wire = W]
    BY <1>1, <1>2, <1>4, <1>5, <1>9, <1>10, <2>2, Zenon DEF DlgAddress
  <2>5. t = [s EXCEPT !.dialogs = D, !.wire = W]
    BY <2>3, <2>4, Zenon
  <2>6. t = [chain |-> s.chain, dialogs |-> D, address |-> s.address,
             answered |-> s.answered, replaced |-> s.replaced, wire |-> W, sent |-> s.sent]
    BY <1>3, <2>5 DEF DlgShape
  <2>7. r = [chain |-> s.chain, dialogs |-> D, address |-> s.address,
             answered |-> s.answered, replaced |-> s.replaced, wire |-> s.wire,
             sent |-> s.sent]
    BY <1>14, <2>1
  <2>8. W = r.wire \cup M
    BY <1>11, <2>2, <2>7
  <2>9. DlgSent(r, M) = [r EXCEPT !.wire = W]
    BY <2>8, Zenon DEF DlgSent
  <2>10. DlgSent(r, M) = [chain |-> s.chain, dialogs |-> D, address |-> s.address,
             answered |-> s.answered, replaced |-> s.replaced, wire |-> W, sent |-> s.sent]
    BY <2>7, <2>9
  <2> QED
    BY <2>6, <2>10
<1>16. DlgShape(r)
  BY <1>3, <1>12, <1>13, <1>14 DEF DlgShape, DlgPut
<1>17. /\ r.chain = s.chain /\ r.dialogs = DlgPut(s.dialogs, end, u) /\ r.wire = s.wire
       /\ r.answered = s.answered /\ r.replaced = s.replaced /\ r.dialogs[end] = u
       /\ DlgRecorded(r) = DlgRecorded(s)
  BY <1>3, <1>14 DEF DlgShape, DlgPut, DlgRecorded
<1>18. /\ n.method = "INVITE" /\ n.code = 200 /\ n.from = m.from /\ n.to = end
       /\ n.contact = <<end, s.address[end]>>
  BY <1>10 DEF DlgMessage
<1>19. n.cseq = m.cseq
  BY <1>10 DEF DlgMessage
<1>20. n.contact # <<>> /\ n.contact[1] = end
  BY <1>18, DlgContacts
<1>21. CASE end = "caller"
  <2>1. DlgFromForkFits(s, m) /\ m.method # "BYE" /\ m.from \in DlgForks
    BY <1>7, <1>8, <1>21, DlgAssumption DEF DlgFirstFits, DlgFromCallerFits, DlgFromForkFits
  <2>2. /\ DlgIsDialog(u) /\ u.state = d.state /\ u.local = d.local
        /\ u.remote = d.remote /\ u.lcseq = d.lcseq /\ u.route = d.route
        /\ u.rcseq = m.cseq
        /\ u.target = d.target \/ u.target = m.contact
    BY <1>12, <2>1
  <2>3. /\ d.local = "caller" /\ d.target[1] = d.remote /\ d.lcseq >= 20
        /\ ~DlgUnknown(s, d.remote)
        /\ d.state = "CONFIRMED" => d.route = DlgReversed(DlgRecorded(s))
        /\ s.answered <=> d.state = "CONFIRMED"
    BY <1>3, <1>5, <1>6, <1>21 DEF DlgCallerFits
  <2>4. \A f \in DlgForks : r.dialogs[f] = s.dialogs[f]
    BY <1>3, <1>17, <1>21, DlgAssumption DEF DlgShape, DlgPut, DlgEnds
  <2>5. \A f : DlgWith(r, f) <=> DlgWith(s, f)
    BY <1>5, <1>17, <1>21, <2>2 DEF DlgWith
  <2>6. ~DlgUnknown(r, m.from)
    BY <1>6, <1>17, <2>1, <2>3, <2>4 DEF DlgUnknown, DlgBye
  <2>7. u.target[1] = d.remote
    BY <1>6, <1>8, <2>2, <2>3
  <2>8. DlgCallerFits(r)
    BY <1>6, <1>17, <1>21, <2>1, <2>2, <2>3, <2>6, <2>7 DEF DlgCallerFits
  <2>9. ASSUME NEW f \in DlgForks, DlgWith(r, f), s.dialogs[f].state # "NONE"
        PROVE  u.rcseq <= s.dialogs[f].lcseq
    <3>1. f = m.from
      BY <1>5, <1>6, <1>21, <2>5, <2>9 DEF DlgWith
    <3> QED
      BY <2>1, <2>2, <2>9, <3>1 DEF DlgFromForkFits
  <2>10. DlgInvOf(r)
    <3>1. /\ s.answered => r.answered
          /\ r.dialogs = DlgPut(s.dialogs, "caller", u)
          /\ ~r.replaced => /\ ~s.replaced
                            /\ \A f \in DlgForks : DlgWith(s, f) =>
                                 DlgWith(r, f) /\ s.dialogs["caller"].lcseq <= u.lcseq
      BY <1>5, <1>17, <1>21, <2>2, <2>5 DEF DlgIsDialog
    <3> QED
      BY <1>3, <1>16, <1>17, <2>8, <2>9, <3>1, DlgCallerChanges
  <2>11. ASSUME m.method = "INVITE"  PROVE DlgFits(r, n)
    <3>1. r.dialogs[m.from].state # "EARLY"
      BY <2>1, <2>4, <2>11 DEF DlgFromForkFits
    <3>2. DlgAnswerOfCallerFits(r, n)
      BY <1>18, <1>21, <2>1, <2>6, <3>1 DEF DlgAnswerOfCallerFits
    <3>3. n.code # 0 /\ n.cseq \in Int
      BY <1>8, <1>18, <1>19
    <3> QED
      BY <1>18, <1>20, <3>2, <3>3 DEF DlgFits
  <2>12. \A k \in M : DlgFits(r, k)
    BY <1>11, <2>11
  <2> QED
    BY <1>2, <1>15, <2>10, <2>12, DlgPutOnWire DEF DlgInv
<1>22. CASE end \in DlgForks
  <2>1. DlgFromCallerFits(s, m) /\ m.from = "caller"
    BY <1>7, <1>8, <1>22, DlgAssumption DEF DlgFirstFits, DlgFromCallerFits, DlgFromForkFits
  <2>2. /\ d.local = end /\ d.remote = "caller" /\ d.route = DlgRecorded(s)
        /\ d.target[1] = "caller"
    BY <1>3, <1>5, <1>6, <1>22 DEF DlgInvOf, DlgForkFits
  <2>3. CASE m.method = "BYE"
    <3>1. DlgBye(s, end) /\ u.state = "NONE" /\ s.dialogs[end].state # "NONE"
      BY <1>5, <1>6, <1>7, <1>13, <2>3 DEF DlgBye
    <3>2. DlgInvOf(r)
      BY <1>3, <1>16, <1>17, <1>22, <3>1, DlgForkChanges
    <3>3. \A k \in M : DlgFits(r, k)
      BY <1>11, <2>3
    <3> QED
      BY <1>2, <1>15, <3>2, <3>3, DlgPutOnWire DEF DlgInv
  <2>4. CASE m.method # "BYE"
    <3>1. /\ DlgIsDialog(u) /\ u.state = d.state /\ u.local = d.local
          /\ u.remote = d.remote /\ u.lcseq = d.lcseq /\ u.route = d.route
          /\ u.rcseq = m.cseq
          /\ u.target = d.target \/ u.target = m.contact
      BY <1>12, <2>4
    <3>2. u.target[1] = "caller" /\ s.dialogs[end].lcseq <= u.lcseq
      BY <1>5, <1>8, <2>1, <2>2, <3>1 DEF DlgIsDialog
    <3>3. ~s.replaced => DlgWith(s, end) /\ u.rcseq <= s.dialogs["caller"].lcseq
      BY <1>7, <2>1, <2>4, <3>1 DEF DlgFromCallerFits
    <3>4. DlgInvOf(r)
      BY <1>3, <1>5, <1>6, <1>16, <1>17, <1>22, <2>2, <3>1, <3>2, <3>3, DlgForkChanges
    <3>5. ASSUME m.method = "INVITE"  PROVE DlgFits(r, n)
      <4>1. n.cseq # 20 /\ r.answered
        BY <1>8, <1>17, <1>19, <2>1, <3>5 DEF DlgFromCallerFits
      <4>2. ~DlgUnknown(r, end)
        BY <1>6, <1>17, <3>1 DEF DlgUnknown
      <4>3. DlgAnswerOfForkFits(r, n)
        BY <1>18, <1>22, <2>1, <4>1, <4>2 DEF DlgAnswerOfForkFits
      <4>4. n.code # 0 /\ n.cseq \in Int
        BY <1>8, <1>18, <1>19
      <4> QED
        BY <1>18, <1>20, <4>3, <4>4 DEF DlgFits
    <3>6. \A k \in M : DlgFits(r, k)
      BY <1>11, <3>5
    <3> QED
      BY <1>2, <1>15, <3>4, <3>6, DlgPutOnWire DEF DlgInv
  <2> QED
    BY <2>3, <2>4
<1> QED
  BY <1>21, <1>22 DEF DlgEnds

(* An end gets the answer to an INVITE within the dialog. *)
LEMMA DlgAnswerWithinKeeps ==
  ASSUME NEW end \in DlgEnds, DlgInv, DlgGetsAnswerWithin(end)
  PROVE  DlgInv'
<1>1. PICK s : s = dlg
  OBVIOUS
<1>2. PICK t : t = dlg'
  OBVIOUS
<1>3. DlgInvOf(s) /\ DlgShape(s) /\ DlgCallerFits(s)
  BY <1>1 DEF DlgInv, DlgInvOf
<1>4. PICK d : d = s.dialogs[end]
  OBVIOUS
<1>5. PICK m \in s.wire :
        /\ m.code = 200 /\ m.from = end /\ (end = "caller" => m.cseq # 20)
        /\ osip_dialog_match_as_uac(d, m)
        /\ t = [s EXCEPT !.dialogs[end] = osip_dialog_update_route_set_as_uac(d, m)]
  BY <1>1, <1>2, <1>4 DEF DlgGetsAnswerWithin
<1>6. DlgIsDialog(d) /\ d.state # "NONE" /\ d.local = end /\ d.remote = m.to
  BY <1>3, <1>4, <1>5 DEF DlgShape, osip_dialog_match_as_uac
<1>7. PICK u : u = osip_dialog_update_route_set_as_uac(d, m)
  OBVIOUS
<1>8. /\ m.contact # <<>> /\ m.contact[1] = m.to
      /\ DlgAnswerOfForkFits(s, m) \/ DlgAnswerOfCallerFits(s, m)
  <2>1. DlgFits(s, m) /\ m.code # 0
    BY <1>3, <1>5 DEF DlgInvOf
  <2> QED
    BY <2>1 DEF DlgFits
<1>9. /\ DlgIsDialog(u) /\ u.local = d.local /\ u.remote = d.remote
      /\ u.lcseq = d.lcseq /\ u.rcseq = d.rcseq /\ u.target = m.contact
      /\ u.state = "CONFIRMED" /\ (d.state # "EARLY" => u.route = d.route)
  BY <1>5, <1>6, <1>7, <1>8, DlgAnswerUpdates
<1>10. t = [chain |-> s.chain, dialogs |-> DlgPut(s.dialogs, end, u), address |-> s.address,
            answered |-> s.answered, replaced |-> s.replaced, wire |-> s.wire, sent |-> s.sent]
  BY <1>3, <1>5, <1>7 DEF DlgShape, DlgPut
<1>11. DlgShape(t)
  BY <1>3, <1>9, <1>10 DEF DlgShape, DlgPut
<1>12. /\ t.chain = s.chain /\ t.dialogs = DlgPut(s.dialogs, end, u) /\ t.wire = s.wire
       /\ t.answered = s.answered /\ t.replaced = s.replaced /\ t.dialogs[end] = u
       /\ DlgRecorded(t) = DlgRecorded(s)
  BY <1>3, <1>10 DEF DlgShape, DlgPut, DlgRecorded
<1>13. CASE end = "caller"
  <2>1. s.answered /\ m.to \in DlgForks
    <3>1. m.cseq # 20
      BY <1>5, <1>13, Zenon
    <3>2. m.from = "caller"
      BY <1>5, <1>13, Zenon
    <3>3. m.from \notin DlgForks
      BY <3>2, DlgAssumption
    <3>4. DlgAnswerOfForkFits(s, m)
      BY <1>8, <3>3 DEF DlgAnswerOfCallerFits
    <3> QED
      BY <3>1, <3>4 DEF DlgAnswerOfForkFits
  <2>2. /\ d.local = "caller" /\ d.lcseq >= 20 /\ ~DlgUnknown(s, d.remote)
        /\ d.state = "CONFIRMED" /\ d.route = DlgReversed(DlgRecorded(s))
    BY <1>3, <1>4, <1>6, <1>13, <2>1 DEF DlgCallerFits
  <2>3. \A f \in DlgForks : t.dialogs[f] = s.dialogs[f]
    BY <1>3, <1>12, <1>13, DlgAssumption DEF DlgShape, DlgPut, DlgEnds
  <2>4. \A f : DlgWith(t, f) <=> DlgWith(s, f)
    BY <1>4, <1>6, <1>9, <1>12, <1>13 DEF DlgWith
  <2>5. ~DlgUnknown(t, d.remote)
    BY <1>6, <1>12, <2>1, <2>2, <2>3 DEF DlgUnknown, DlgBye
  <2>6. DlgCallerFits(t)
    BY <1>6, <1>8, <1>9, <1>12, <1>13, <2>1, <2>2, <2>5 DEF DlgCallerFits
  <2>7. ASSUME NEW f \in DlgForks, DlgWith(t, f), s.dialogs[f].state # "NONE"
        PROVE  u.rcseq <= s.dialogs[f].lcseq
    <3>1. DlgForkFits(s, f) /\ DlgWith(s, f)
      BY <1>3, <2>4, <2>7 DEF DlgInvOf
    <3> QED
      BY <1>4, <1>9, <1>13, <2>7, <3>1 DEF DlgForkFits
  <2>8. /\ s.answered => t.answered
        /\ t.dialogs = DlgPut(s.dialogs, "caller", u)
        /\ ~t.replaced => /\ ~s.replaced
                          /\ \A f \in DlgForks : DlgWith(s, f) =>
                               DlgWith(t, f) /\ s.dialogs["caller"].lcseq <= u.lcseq
    BY <1>4, <1>6, <1>9, <1>12, <1>13, <2>4 DEF DlgIsDialog
  <2>9. DlgInvOf(t)
    BY <1>3, <1>11, <1>12, <2>6, <2>7, <2>8, DlgCallerChanges
  <2> QED
    BY <1>2, <2>9 DEF DlgInv
<1>14. CASE end \in DlgForks
  <2>1. d.state # "EARLY" /\ m.to = "caller"
    BY <1>4, <1>5, <1>8, <1>14, DlgAssumption DEF DlgAnswerOfForkFits, DlgAnswerOfCallerFits
  <2>2. /\ d.local = end /\ d.remote = "caller" /\ d.route = DlgRecorded(s)
        /\ ~s.replaced => \/ d.rcseq <= 20
                          \/ DlgWith(s, end) /\ d.rcseq <= s.dialogs["caller"].lcseq
    BY <1>3, <1>4, <1>6, <1>14 DEF DlgInvOf, DlgForkFits
  <2>3. /\ u.local = end /\ u.remote = "caller" /\ u.route = DlgRecorded(s)
        /\ u.target[1] = "caller" /\ s.dialogs[end].lcseq <= u.lcseq
        /\ u.state = "CONFIRMED" /\ u.rcseq = d.rcseq
    BY <1>4, <1>6, <1>8, <1>9, <2>1, <2>2 DEF DlgIsDialog
  <2>4. DlgInvOf(t)
    BY <1>3, <1>4, <1>6, <1>11, <1>12, <1>14, <2>2, <2>3, DlgForkChanges
  <2> QED
    BY <1>2, <2>4 DEF DlgInv
<1> QED
  BY <1>13, <1>14 DEF DlgEnds

-----------------------------------------------------------------------------
(* Every step keeps the invariant. *)
LEMMA DlgNextKeeps == DlgInv /\ [DlgNext]_dlg => DlgInv'
<1> SUFFICES ASSUME DlgInv, [DlgNext]_dlg
             PROVE  DlgInv'
  OBVIOUS
<1>1. CASE _eXosip_generating_request_out_of_dialog
  BY <1>1, DlgFirstRequestKeeps
<1>2. CASE \E f \in DlgForks : _eXosip_dialog_init_as_uas(f) \/ _eXosip_answer_invite_123456xx(f)
  BY <1>2, DlgAppearsKeeps, DlgAnswersKeeps
<1>3. CASE DlgGetsAnswer
  BY <1>3, DlgGetsAnswerKeeps
<1>4. CASE \E e \in DlgEnds :
             DlgSends(e) \/ _eXosip_process_newrequest(e) \/ DlgGetsAnswerWithin(e)
  BY <1>4, DlgSendsKeeps, DlgNewRequestKeeps, DlgAnswerWithinKeeps
<1>5. CASE UNCHANGED dlg
  BY <1>5 DEF DlgInv
<1> QED
  BY <1>1, <1>2, <1>3, <1>4, <1>5 DEF DlgNext

(* Two dialogs that name each other agree, whatever proxies are between    *)
(* their ends, however many ends the INVITE reaches, and in whatever order *)
(* answers and requests are lost, copied and late.                         *)
THEOREM DialogsAlwaysAgree == DlgSpec => []DialogsAgree
<1>1. DlgSpec => []DlgInv
  BY DlgInitInv, DlgNextKeeps, PTL DEF DlgSpec
<1> QED
  BY <1>1, DlgInvAgrees, PTL

-----------------------------------------------------------------------------
(* The lists of transactions.  Each was made with a number of its own; one *)
(* that the program or its timers made is its own client, and what was     *)
(* asked is found again by its branch and method; one that a request made  *)
(* is of the client that sent it.  The timers that are kept are those that *)
(* are armed.                                                              *)
TlTyped(o) ==
  /\ o = [uses |-> o.uses, transactions |-> o.transactions, id |-> o.id,
          requests |-> o.requests, late |-> o.late, ixt |-> o.ixt, dialogs |-> o.dialogs,
          acked |-> o.acked, started |-> o.started]
  /\ o.id \in Nat /\ o.late = FALSE

TlIsTimed(t) ==
  /\ t = [id |-> t.id, request |-> t.request, heard |-> t.heard, state |-> t.state,
          left |-> t.left, queued |-> t.queued, kind |-> t.kind]
  /\ t.left \in [TlArmed(t.kind, t.state) -> Nat]
TlServes(o, t) == o.uses = "messages" /\ t.kind \in {"IST", "NIST"}
TlAsOf(o, t) ==
  /\ t.id \in Nat /\ t.id < o.id /\ t.kind \in TlKinds /\ t.heard = {t.request.client}
  /\ TlServes(o, t) =>
       /\ t.request \in TlRequests /\ t.request.method # "ACK"
       /\ t.kind = "IST" <=> t.request.method = "INVITE"
  /\ ~TlServes(o, t) => t.request.client = t.id
  /\ t.kind \in {"ICT", "NICT"} => t.request \in o.requests
TlListed(o) ==
  /\ \A t \in o.transactions : TlIsTimed(t) /\ TlAsOf(o, t)
  /\ \A t, u \in o.transactions : t.id = u.id => t = u
  /\ \A t, u \in o.transactions :
       t.kind = u.kind /\ t.request.client = u.request.client => t.id = u.id
TlAsked(o) ==
  /\ \A r \in o.requests : r.branch \in Nat /\ r.branch < o.id
  /\ \A r, s \in o.requests : r.branch = s.branch /\ r.method = s.method => r = s

(* What is repeated for a dialog was started one after the other, and what *)
(* the ACK stopped was the last of them.                                   *)
TlRepetition(x) ==
  /\ x = [dialog |-> x.dialog, nth |-> x.nth, counter |-> x.counter, left |-> x.left]
  /\ x.nth \in Nat /\ x.nth >= 1 /\ x.counter \in 1..TlCounter /\ x.left \in Nat
TlRepeated(o) ==
  /\ o.started \in [TlDialogs -> Nat] /\ o.dialogs \subseteq TlDialogs
  /\ o.acked \subseteq TlDialogs /\ \A d \in o.acked : o.started[d] >= 1
  /\ \A x \in o.ixt : TlRepetition(x) /\ x.dialog \in o.dialogs /\ x.nth <= o.started[x.dialog]
  /\ \A x, y \in o.ixt : x.dialog = y.dialog /\ x.nth = y.nth => x = y
  /\ \A x \in o.ixt : o.started[x.dialog] = 1 => x.dialog \notin o.acked

TlInv(o) == TlTyped(o) /\ TlListed(o) /\ TlAsked(o) /\ TlRepeated(o)

(* It implies what is promised.                                            *)
LEMMA TlInvKeeps == TlInv(osip) => ListsKept
<1> SUFFICES ASSUME TlInv(osip)  PROVE ListsKept
  OBVIOUS
<1>1. TlOneOwner
  <2>1. \A t \in osip.transactions : t.heard = {t.request.client}
    BY DEF TlInv, TlListed, TlAsOf
  <2>2. \A k \in TlKinds : \A t, u \in TlList(k) :
          t.request.client = u.request.client => t.id = u.id
    BY Zenon DEF TlInv, TlListed, TlList
  <2> QED
    BY <2>1, <2>2 DEF TlOneOwner
<1>2. ~osip.late
  BY DEF TlInv, TlTyped
<1>3. TlRepeats
  BY DEF TlInv, TlRepeated, TlRepetition, TlRepeats
<1> QED
  BY <1>1, <1>2, <1>3 DEF ListsKept

(* Nothing is kept when the stack starts.                                  *)
LEMMA TlInitInv == TlInit => TlInv(osip)
<1> SUFFICES ASSUME TlInit  PROVE TlInv(osip)
  OBVIOUS
<1>1. PICK uses \in {"messages", "timers", "ixt"} :
        osip = [uses |-> uses, transactions |-> {}, id |-> 1, requests |-> {},
                late |-> FALSE, ixt |-> {}, dialogs |-> TlDialogs, acked |-> {},
                started |-> [d \in TlDialogs |-> 0]]
  BY Zenon DEF TlInit
<1>2. /\ osip.transactions = {} /\ osip.id = 1 /\ osip.requests = {} /\ osip.late = FALSE
      /\ osip.ixt = {} /\ osip.dialogs = TlDialogs /\ osip.acked = {}
      /\ osip.started = [d \in TlDialogs |-> 0]
  BY <1>1
<1>3. TlTyped(osip)
  <2>1. osip = [uses |-> osip.uses, transactions |-> osip.transactions, id |-> osip.id,
          requests |-> osip.requests, late |-> osip.late, ixt |-> osip.ixt,
          dialogs |-> osip.dialogs, acked |-> osip.acked, started |-> osip.started]
    BY <1>1
  <2> QED
    BY <1>2, <2>1 DEF TlTyped
<1>4. TlListed(osip)
  BY <1>2 DEF TlListed
<1>5. TlAsked(osip)
  BY <1>2 DEF TlAsked
<1>6. TlRepeated(osip)
  <2>1. osip.started \in [TlDialogs -> Nat]
    BY <1>2
  <2> QED
    BY <1>2, <2>1 DEF TlRepeated
<1> QED
  BY <1>3, <1>4, <1>5, <1>6 DEF TlInv

(* What changes the transactions leaves the rest as it is.                 *)
TlWith(o, T) == [o EXCEPT !.transactions = T]
LEMMA TlTransactionsChange ==
  ASSUME NEW o, NEW T, TlTyped(o), NEW p, p = TlWith(o, T)
  PROVE  /\ TlTyped(p) /\ p.transactions = T /\ p.uses = o.uses /\ p.id = o.id
         /\ p.requests = o.requests /\ p.ixt = o.ixt /\ p.dialogs = o.dialogs
         /\ p.acked = o.acked /\ p.started = o.started
<1>1. o = [uses |-> o.uses, transactions |-> o.transactions, id |-> o.id,
           requests |-> o.requests, late |-> o.late, ixt |-> o.ixt, dialogs |-> o.dialogs,
           acked |-> o.acked, started |-> o.started]
  BY DEF TlTyped
<1>2. p = [uses |-> o.uses, transactions |-> T, id |-> o.id,
           requests |-> o.requests, late |-> o.late, ixt |-> o.ixt, dialogs |-> o.dialogs,
           acked |-> o.acked, started |-> o.started]
  BY <1>1 DEF TlWith
<1>3. /\ p.transactions = T /\ p.uses = o.uses /\ p.id = o.id /\ p.late = o.late
      /\ p.requests = o.requests /\ p.ixt = o.ixt /\ p.dialogs = o.dialogs
      /\ p.acked = o.acked /\ p.started = o.started
  BY <1>2
<1>4. p = [uses |-> p.uses, transactions |-> p.transactions, id |-> p.id,
           requests |-> p.requests, late |-> p.late, ixt |-> p.ixt, dialogs |-> p.dialogs,
           acked |-> p.acked, started |-> p.started]
  BY <1>2
<1> QED
  BY <1>3, <1>4 DEF TlTyped

(* Taking one away, or putting one in its place that is timed and of the   *)
(* same client, disturbs no other.                                         *)
LEMMA TlReplaced ==
  ASSUME TlInv(osip), NEW t \in osip.transactions, NEW u, TlIsTimed(u),
         u.id = t.id, u.kind = t.kind, u.request = t.request, u.heard = t.heard,
         osip' = [osip EXCEPT !.transactions = TlWithout(t) \cup {u}]
  PROVE  TlInv(osip')
<1> DEFINE T == TlWithout(t) \cup {u}
<1>1. /\ TlTyped(osip') /\ osip'.transactions = T /\ osip'.uses = osip.uses
      /\ osip'.id = osip.id
      /\ osip'.requests = osip.requests /\ osip'.ixt = osip.ixt
      /\ osip'.dialogs = osip.dialogs
      /\ osip'.acked = osip.acked /\ osip'.started = osip.started
  <2>1. PICK S, o, p : S = T /\ o = osip /\ p = osip'
    OBVIOUS
  <2>2. TlTyped(o) /\ p = TlWith(o, S)
    BY <2>1, Zenon DEF TlInv, TlWith
  <2> HIDE DEF T
  <2>3. /\ TlTyped(p) /\ p.transactions = S /\ p.uses = o.uses /\ p.id = o.id
        /\ p.requests = o.requests /\ p.ixt = o.ixt /\ p.dialogs = o.dialogs
        /\ p.acked = o.acked /\ p.started = o.started
    BY <2>2, TlTransactionsChange
  <2> QED
    BY <2>1, <2>3, Zenon
<1>2. TlListed(osip')
  <2>1. ASSUME NEW w \in T  PROVE TlIsTimed(w) /\ TlAsOf(osip', w)
    <3>1. CASE w = u
      <4>1. TlAsOf(osip, t)
        BY DEF TlInv, TlListed
      <4> QED
        BY <1>1, <3>1, <4>1 DEF TlAsOf, TlServes
    <3>2. CASE w \in osip.transactions
      <4>1. TlIsTimed(w) /\ TlAsOf(osip, w)
        BY <3>2 DEF TlInv, TlListed
      <4> QED
        BY <1>1, <4>1 DEF TlAsOf, TlServes
    <3> QED
      BY <3>1, <3>2 DEF TlWithout
  <2>2. ASSUME NEW v \in T, NEW w \in T, v.id = w.id  PROVE v = w
    <3>1. \A x \in TlWithout(t) : x \in osip.transactions /\ x.id # t.id
      BY DEF TlInv, TlListed, TlWithout
    <3>2. \A x, y \in TlWithout(t) : x.id = y.id => x = y
      BY DEF TlInv, TlListed, TlWithout
    <3> QED
      BY <2>2, <3>1, <3>2
  <2>3. ASSUME NEW v \in T, NEW w \in T, v.kind = w.kind, v.request.client = w.request.client
        PROVE  v.id = w.id
    <3>1. \A x \in T : \E y \in osip.transactions :
            x.id = y.id /\ x.kind = y.kind /\ x.request = y.request
      BY DEF TlWithout
    <3>2. PICK x \in osip.transactions : v.id = x.id /\ v.kind = x.kind /\ v.request = x.request
      BY <3>1
    <3>3. PICK y \in osip.transactions : w.id = y.id /\ w.kind = y.kind /\ w.request = y.request
      BY <3>1
    <3>4. x.kind = y.kind /\ x.request.client = y.request.client
      BY <2>3, <3>2, <3>3
    <3>5. x.id = y.id
      BY <3>4 DEF TlInv, TlListed
    <3> QED
      BY <3>2, <3>3, <3>5
  <2> QED
    <3> HIDE DEF T
    <3>1. osip'.transactions = T
      BY <1>1
    <3>2. /\ \A w \in T : TlIsTimed(w) /\ TlAsOf(osip', w)
          /\ \A v, w \in T : v.id = w.id => v = w
          /\ \A v, w \in T :
               v.kind = w.kind /\ v.request.client = w.request.client => v.id = w.id
      BY <2>1, <2>2, <2>3, Zenon
    <3> QED
      BY <3>1, <3>2, Zenon DEF TlListed
<1>3. TlAsked(osip')
  BY <1>1 DEF TlInv, TlAsked
<1>4. TlRepeated(osip')
  BY <1>1 DEF TlInv, TlRepeated
<1> QED
  BY <1>1, <1>2, <1>3, <1>4 DEF TlInv

(* What ends is taken off its list.                                        *)
LEMMA TlRemoveKeeps == TlInv(osip) /\ osip_remove_transaction => TlInv(osip')
<1> SUFFICES ASSUME TlInv(osip), osip_remove_transaction  PROVE TlInv(osip')
  OBVIOUS
<1>1. PICK t \in osip.transactions : osip' = [osip EXCEPT !.transactions = TlWithout(t)]
  BY Zenon DEF osip_remove_transaction
<1>2. /\ TlTyped(osip') /\ osip'.transactions = TlWithout(t) /\ osip'.uses = osip.uses
      /\ osip'.id = osip.id
      /\ osip'.requests = osip.requests /\ osip'.ixt = osip.ixt
      /\ osip'.dialogs = osip.dialogs
      /\ osip'.acked = osip.acked /\ osip'.started = osip.started
  <2>1. PICK S, o, p : S = TlWithout(t) /\ o = osip /\ p = osip'
    OBVIOUS
  <2>2. TlTyped(o) /\ p = TlWith(o, S)
    BY <1>1, <2>1, Zenon DEF TlInv, TlWith
  <2>3. /\ TlTyped(p) /\ p.transactions = S /\ p.uses = o.uses /\ p.id = o.id
        /\ p.requests = o.requests /\ p.ixt = o.ixt /\ p.dialogs = o.dialogs
        /\ p.acked = o.acked /\ p.started = o.started
    BY <2>2, TlTransactionsChange
  <2> QED
    BY <2>1, <2>3, Zenon
<1>3. TlWithout(t) \subseteq osip.transactions
  BY DEF TlWithout
<1>4. TlListed(osip')
  <2>1. \A w \in osip'.transactions : TlIsTimed(w) /\ TlAsOf(osip', w)
    BY <1>2, <1>3 DEF TlInv, TlListed, TlAsOf, TlServes
  <2> QED
    BY <1>2, <1>3, <2>1 DEF TlInv, TlListed
<1>5. TlAsked(osip')
  BY <1>2 DEF TlInv, TlAsked
<1>6. TlRepeated(osip')
  BY <1>2 DEF TlInv, TlRepeated
<1> QED
  BY <1>2, <1>4, <1>5, <1>6 DEF TlInv

(* What is asked or received is put at the end of its list.                *)
TlMore(o, T, R) == [o EXCEPT !.id = @ + 1, !.transactions = T, !.requests = R]
LEMMA TlGrows ==
  ASSUME NEW o, NEW T, NEW R, TlTyped(o), NEW p, p = TlMore(o, T, R)
  PROVE  /\ TlTyped(p) /\ p.transactions = T /\ p.uses = o.uses /\ p.id = o.id + 1
         /\ p.requests = R /\ p.ixt = o.ixt /\ p.dialogs = o.dialogs
         /\ p.acked = o.acked /\ p.started = o.started
<1>1. o = [uses |-> o.uses, transactions |-> o.transactions, id |-> o.id,
           requests |-> o.requests, late |-> o.late, ixt |-> o.ixt, dialogs |-> o.dialogs,
           acked |-> o.acked, started |-> o.started]
  BY DEF TlTyped
<1>2. p = [uses |-> o.uses, transactions |-> T, id |-> o.id + 1,
           requests |-> R, late |-> o.late, ixt |-> o.ixt, dialogs |-> o.dialogs,
           acked |-> o.acked, started |-> o.started]
  BY <1>1 DEF TlMore
<1>3. /\ p.transactions = T /\ p.uses = o.uses /\ p.id = o.id + 1 /\ p.late = o.late
      /\ p.requests = R /\ p.ixt = o.ixt /\ p.dialogs = o.dialogs
      /\ p.acked = o.acked /\ p.started = o.started
  BY <1>2
<1>4. p = [uses |-> p.uses, transactions |-> p.transactions, id |-> p.id,
           requests |-> p.requests, late |-> p.late, ixt |-> p.ixt, dialogs |-> p.dialogs,
           acked |-> p.acked, started |-> p.started]
  BY <1>2
<1>5. p.id \in Nat
  BY <1>3 DEF TlTyped
<1> QED
  BY <1>3, <1>4, <1>5 DEF TlTyped

(* A transaction is made with no timer and the number that comes next.     *)
LEMMA TlMadeTimed ==
  ASSUME NEW kind, NEW request, NEW u, u = osip_transaction_init(kind, request)
  PROVE  /\ TlIsTimed(u) /\ u.id = osip.id /\ u.request = request /\ u.kind = kind
         /\ u.heard = {request.client}
<1>1. /\ u.id = osip.id /\ u.request = request /\ u.kind = kind
      /\ u.heard = {request.client} /\ u.state = "first" /\ u.left = [x \in {} |-> 0]
  BY DEF osip_transaction_init
<1>2. u = [id |-> u.id, request |-> u.request, heard |-> u.heard, state |-> u.state,
           left |-> u.left, queued |-> u.queued, kind |-> u.kind]
  BY DEF osip_transaction_init
<1>3. TlArmed(kind, "first") = {}
  BY DEF TlArmed
<1>4. u.left \in [TlArmed(u.kind, u.state) -> Nat]
  BY <1>1, <1>3
<1> QED
  BY <1>1, <1>2, <1>4 DEF TlIsTimed

(* It is added when it is of a client that has none in the list, or when   *)
(* it is its own client and nothing like it was asked before.              *)
LEMMA TlAddKeeps ==
  ASSUME TlInv(osip), NEW kind \in TlKinds, NEW request, TlAdd(kind, request),
         osip.uses = "messages" /\ kind \in {"IST", "NIST"} =>
           /\ request \in TlRequests /\ request.method # "ACK"
           /\ kind = "IST" <=> request.method = "INVITE"
           /\ \A t \in TlList(kind) : t.request.client # request.client,
         ~(osip.uses = "messages" /\ kind \in {"IST", "NIST"}) => request.client = osip.id,
         kind \in {"ICT", "NICT"} =>
           /\ request.branch \in Nat /\ request.branch <= osip.id
           /\ \A r \in osip.requests : r.branch # request.branch \/ r.method # request.method
  PROVE  TlInv(osip')
<1>1. PICK T, R, u : /\ u = osip_transaction_init(kind, request)
                     /\ T = osip.transactions \cup {u}
                     /\ R = IF kind \in {"ICT", "NICT"} THEN osip.requests \cup {request}
                            ELSE osip.requests
  OBVIOUS
<1>2. TlIsTimed(u) /\ u.id = osip.id /\ u.request = request /\ u.kind = kind
      /\ u.heard = {request.client}
  BY <1>1, TlMadeTimed
<1>3. /\ TlTyped(osip') /\ osip'.transactions = T /\ osip'.uses = osip.uses
      /\ osip'.id = osip.id + 1
      /\ osip'.requests = R /\ osip'.ixt = osip.ixt
      /\ osip'.dialogs = osip.dialogs
      /\ osip'.acked = osip.acked /\ osip'.started = osip.started
  <2>1. PICK o, p : o = osip /\ p = osip'
    OBVIOUS
  <2>2. TlTyped(o) /\ p = TlMore(o, T, R)
    BY <1>1, <2>1, Zenon DEF TlInv, TlAdd, TlMore
  <2>3. /\ TlTyped(p) /\ p.transactions = T /\ p.uses = o.uses /\ p.id = o.id + 1
        /\ p.requests = R /\ p.ixt = o.ixt /\ p.dialogs = o.dialogs
        /\ p.acked = o.acked /\ p.started = o.started
    BY <2>2, TlGrows
  <2> QED
    BY <2>1, <2>3, Zenon
<1>4. osip.id \in Nat
  BY DEF TlInv, TlTyped
<1>5. TlListed(osip')
  <2>1. ASSUME NEW w \in T  PROVE TlIsTimed(w) /\ TlAsOf(osip', w)
    <3>1. CASE w = u
      <4>1. u.request \in R \/ kind \notin {"ICT", "NICT"}
        BY <1>1, <1>2
      <4> QED
        BY <1>2, <1>3, <1>4, <3>1, <4>1 DEF TlAsOf, TlServes
    <3>2. CASE w \in osip.transactions
      <4>1. TlIsTimed(w) /\ TlAsOf(osip, w)
        BY <3>2 DEF TlInv, TlListed
      <4>2. osip.requests \subseteq osip'.requests
        BY <1>1, <1>3
      <4> QED
        BY <1>3, <1>4, <4>1, <4>2 DEF TlAsOf, TlServes
    <3> QED
      BY <1>1, <3>1, <3>2
  <2>2. \A w \in osip.transactions : w.id \in Nat /\ w.id < osip.id
    BY DEF TlInv, TlListed, TlAsOf
  <2>3. ASSUME NEW v \in T, NEW w \in T, v.id = w.id  PROVE v = w
    <3>1. v # u /\ w # u => v = w
      BY <1>1, <2>3 DEF TlInv, TlListed
    <3>2. v = u <=> w = u
      BY <1>1, <1>2, <1>4, <2>2, <2>3
    <3> QED
      BY <3>1, <3>2
  <2>4. ASSUME NEW w \in osip.transactions, w.kind = u.kind
        PROVE  w.request.client # u.request.client
    <3>1. CASE TlServes(osip, w)
      BY <1>2, <2>4, <3>1 DEF TlServes, TlList
    <3>2. CASE ~TlServes(osip, w)
      <4>1. w.request.client = w.id
        BY <3>2 DEF TlInv, TlListed, TlAsOf
      <4>2. u.request.client = osip.id
        BY <1>2, <2>4, <3>2 DEF TlServes
      <4> QED
        BY <1>4, <2>2, <4>1, <4>2
    <3> QED
      BY <3>1, <3>2
  <2>5. ASSUME NEW v \in T, NEW w \in T, v.kind = w.kind, v.request.client = w.request.client
        PROVE  v.id = w.id
    <3>1. v # u /\ w # u => v.id = w.id
      BY <1>1, <2>5 DEF TlInv, TlListed
    <3>2. v = u <=> w = u
      BY <1>1, <2>4, <2>5
    <3> QED
      BY <3>1, <3>2
  <2>6. /\ \A w \in T : TlIsTimed(w) /\ TlAsOf(osip', w)
        /\ \A v, w \in T : v.id = w.id => v = w
        /\ \A v, w \in T :
             v.kind = w.kind /\ v.request.client = w.request.client => v.id = w.id
    BY <2>1, <2>3, <2>5, Zenon
  <2> QED
    BY <1>3, <2>6, Zenon DEF TlListed
<1>6. TlAsked(osip')
  <2>1. \A r \in osip.requests : r.branch \in Nat /\ r.branch < osip.id
    BY DEF TlInv, TlAsked
  <2>2. \A r, s \in osip.requests : r.branch = s.branch /\ r.method = s.method => r = s
    BY DEF TlInv, TlAsked
  <2>3. CASE kind \in {"ICT", "NICT"}
    <3>1. R = osip.requests \cup {request}
      BY <1>1, <2>3
    <3>2. \A r \in R : r.branch \in Nat /\ r.branch < osip'.id
      BY <1>3, <1>4, <2>1, <2>3, <3>1
    <3>3. \A r, s \in R : r.branch = s.branch /\ r.method = s.method => r = s
      BY <2>2, <2>3, <3>1
    <3> QED
      BY <1>3, <3>2, <3>3 DEF TlAsked
  <2>4. CASE kind \notin {"ICT", "NICT"}
    <3>1. R = osip.requests
      BY <1>1, <2>4
    <3> QED
      BY <1>3, <1>4, <2>1, <2>2, <3>1 DEF TlAsked
  <2> QED
    BY <2>3, <2>4
<1>7. TlRepeated(osip')
  BY <1>3 DEF TlInv, TlRepeated
<1> QED
  BY <1>3, <1>5, <1>6, <1>7 DEF TlInv

(* What a transaction is told by its own client is nothing new of it.      *)
LEMMA TlHearsKeeps ==
  ASSUME TlInv(osip), NEW t \in osip.transactions, TlHears(t, t.request.client)
  PROVE  TlInv(osip')
<1>1. PICK u : u = [t EXCEPT !.heard = @ \cup {t.request.client}]
  OBVIOUS
<1>2. TlIsTimed(t) /\ t.heard = {t.request.client}
  BY DEF TlInv, TlListed, TlAsOf
<1>3. u = t
  BY <1>1, <1>2 DEF TlIsTimed
<1>4. osip' = [osip EXCEPT !.transactions = TlWithout(t) \cup {u}]
  BY <1>1, Zenon DEF TlHears
<1> QED
  BY <1>2, <1>3, <1>4, TlReplaced, Zenon

(* Two requests of a list match when one client sent both, and only then.  *)
LEMMA TlMatches ==
  ASSUME NEW r \in TlRequests, NEW m \in TlRequests, r.method # "ACK"
  PROVE  __osip_transaction_matching_request_osip_to_xist_17_2_3(r, m)
           <=> r.client = m.client
<1>1. r.client = m.client <=> TlSameTransaction(r, m)
  BY TlClients
<1>2. TlSameTransaction(r, m) /\ r.branch \notin TlCookies => TlSameText(r, m)
  BY TlClients
<1>3. CASE {r.branch, m.branch} \subseteq TlCookies
  BY <1>1, <1>3 DEF TlSameTransaction, TlSentBy,
     __osip_transaction_matching_request_osip_to_xist_17_2_3
<1>4. CASE ~({r.branch, m.branch} \subseteq TlCookies)
  <2>1. __osip_transaction_matching_request_osip_to_xist_17_2_3(r, m)
          <=> ((r.branch = "none" <=> m.branch = "none") /\ TlOldMatch(r, m))
    BY <1>4 DEF __osip_transaction_matching_request_osip_to_xist_17_2_3
  <2>2. ASSUME TlOldMatch(r, m)  PROVE TlSameTransaction(r, m)
    BY <2>2 DEF TlOldMatch, osip_cseq_match, TlSameTransaction, TlPort
  <2>3. ASSUME TlSameTransaction(r, m)
        PROVE  (r.branch = "none" <=> m.branch = "none") /\ TlOldMatch(r, m)
    <3>1. r.branch = m.branch /\ r.branch \notin TlCookies
      BY <1>4, <2>3 DEF TlSameTransaction
    <3> QED
      BY <1>2, <2>3, <3>1 DEF TlOldMatch, osip_cseq_match, TlSameTransaction, TlSameText
  <2> QED
    BY <1>1, <2>1, <2>2, <2>3
<1> QED
  BY <1>3, <1>4

(* A request of another end.                                               *)
LEMMA TlReceivesKeeps ==
  TlInv(osip) /\ osip.uses = "messages" /\ TlReceives => TlInv(osip')
<1> SUFFICES ASSUME TlInv(osip), osip.uses = "messages", TlReceives  PROVE TlInv(osip')
  OBVIOUS
<1>1. PICK m \in TlRequests, kind \in {"IST", "NIST"} :
        /\ kind = "IST" <=> m.method \in {"INVITE", "ACK"}
        /\ osip_find_transaction_and_add_event(kind, m) \/ osip_create_transaction(kind, m)
  BY Zenon DEF TlReceives
<1>2. ASSUME NEW t \in TlList(kind)
      PROVE  t \in osip_transaction_find(kind, m) <=> t.request.client = m.client
  <2>1. TlAsOf(osip, t) /\ t.kind = kind
    BY <1>2 DEF TlList, TlInv, TlListed
  <2>2. t.request \in TlRequests /\ t.request.method # "ACK"
    BY <2>1 DEF TlAsOf, TlServes
  <2>3. t \in osip_transaction_find(kind, m)
          <=> __osip_transaction_matching_request_osip_to_xist_17_2_3(t.request, m)
    BY <1>2 DEF osip_transaction_find
  <2> QED
    BY <2>2, <2>3, TlMatches
<1>3. CASE osip_find_transaction_and_add_event(kind, m)
  <2>1. PICK t \in osip.transactions :
          TlFirst(t, osip_transaction_find(kind, m)) /\ TlHears(t, m.client)
    BY <1>3, Zenon DEF osip_find_transaction_and_add_event
  <2>2. t \in TlList(kind) /\ t \in osip_transaction_find(kind, m)
    BY <2>1 DEF TlFirst, osip_transaction_find
  <2>3. t.request.client = m.client
    BY <1>2, <2>2
  <2> QED
    BY <2>1, <2>3, TlHearsKeeps
<1>4. CASE osip_create_transaction(kind, m)
  <2>1. osip_transaction_find(kind, m) = {} /\ m.method # "ACK" /\ TlAdd(kind, m)
    BY <1>4, Zenon DEF osip_create_transaction
  <2>2. \A t \in TlList(kind) : t.request.client # m.client
    BY <1>2, <2>1
  <2>3. kind = "IST" <=> m.method = "INVITE"
    BY <1>1, <2>1
  <2>4. kind \in TlKinds
    BY DEF TlKinds
  <2> QED
    BY <2>1, <2>2, <2>3, <2>4, TlAddKeeps
<1> QED
  BY <1>1, <1>3, <1>4

(* A request, or CANCEL, of the program.                                   *)
LEMMA TlAsksKeeps ==
  TlInv(osip) /\ (TlSends \/ TlCancels \/ (osip.uses # "messages" /\ TlBegins)) => TlInv(osip')
<1>1. TlInv(osip) => osip.id \in Nat /\ \A r \in osip.requests : r.branch \in Nat /\ r.branch < osip.id
  BY DEF TlInv, TlTyped, TlAsked
<1>2. ASSUME TlInv(osip), TlSends  PROVE TlInv(osip')
  <2>1. PICK method \in {"INVITE", "OPTIONS"}, kind \in {"ICT", "NICT"} :
          TlAdd(kind, [client |-> osip.id, method |-> method, branch |-> osip.id])
    BY <1>2, Zenon DEF TlSends
  <2>2. PICK r : r = [client |-> osip.id, method |-> method, branch |-> osip.id]
    OBVIOUS
  <2>3. r.client = osip.id /\ r.branch = osip.id
    BY <2>2
  <2>4. \A s \in osip.requests : s.branch # r.branch
    BY <1>1, <1>2, <2>3
  <2>5. kind \in TlKinds /\ kind \notin {"IST", "NIST"} /\ r.branch \in Nat /\ r.branch <= osip.id
    BY <1>1, <1>2, <2>3 DEF TlKinds
  <2>6. TlAdd(kind, r)
    BY <2>1, <2>2, Zenon
  <2> QED
    BY <1>2, <2>3, <2>4, <2>5, <2>6, TlAddKeeps
<1>3. ASSUME TlInv(osip), TlCancels  PROVE TlInv(osip')
  <2>1. PICK t \in TlList("ICT") :
          /\ \A m \in osip.requests : m.branch = t.request.branch => m.method = "INVITE"
          /\ TlAdd("NICT", [client |-> osip.id, method |-> "CANCEL",
                            branch |-> t.request.branch])
    BY <1>3, Zenon DEF TlCancels
  <2>2. PICK r : r = [client |-> osip.id, method |-> "CANCEL", branch |-> t.request.branch]
    OBVIOUS
  <2>3. r.client = osip.id /\ r.branch = t.request.branch /\ r.method = "CANCEL"
    BY <2>2
  <2>4. \A s \in osip.requests : s.branch # r.branch \/ s.method # r.method
    BY <2>1, <2>3
  <2>5. t.request \in osip.requests
    BY <1>3 DEF TlInv, TlListed, TlAsOf, TlList
  <2>6. r.branch \in Nat /\ r.branch <= osip.id
    BY <1>1, <1>3, <2>3, <2>5
  <2>7. TlAdd("NICT", r)
    BY <2>1, <2>2, Zenon
  <2>8. "NICT" \in TlKinds /\ "NICT" \notin {"IST", "NIST"}
    BY DEF TlKinds
  <2> QED
    BY <1>3, <2>3, <2>4, <2>6, <2>7, <2>8, TlAddKeeps
<1>4. ASSUME TlInv(osip), osip.uses # "messages", TlBegins  PROVE TlInv(osip')
  <2>1. PICK kind \in TlKinds :
          TlAdd(kind, [client |-> osip.id, method |-> "OPTIONS", branch |-> osip.id])
    BY <1>4, Zenon DEF TlBegins
  <2>2. PICK r : r = [client |-> osip.id, method |-> "OPTIONS", branch |-> osip.id]
    OBVIOUS
  <2>3. r.client = osip.id /\ r.branch = osip.id
    BY <2>2
  <2>4. \A s \in osip.requests : s.branch # r.branch
    BY <1>1, <1>4, <2>3
  <2>5. r.branch \in Nat /\ r.branch <= osip.id
    BY <1>1, <1>4, <2>3
  <2>6. TlAdd(kind, r)
    BY <2>1, <2>2, Zenon
  <2> QED
    BY <1>4, <2>3, <2>4, <2>5, <2>6, TlAddKeeps
<1> QED
  BY <1>2, <1>3, <1>4

(* A response goes to what was asked by its branch and method.             *)
LEMMA TlAnsweredKeeps == TlInv(osip) /\ TlAnswered => TlInv(osip')
<1> SUFFICES ASSUME TlInv(osip), TlAnswered  PROVE TlInv(osip')
  OBVIOUS
<1>1. PICK m \in osip.requests, kind \in {"ICT", "NICT"} :
        osip_find_transaction_and_add_event(kind, m)
  BY Zenon DEF TlAnswered
<1>2. PICK t \in osip.transactions :
        TlFirst(t, osip_transaction_find(kind, m)) /\ TlHears(t, m.client)
  BY <1>1, Zenon DEF osip_find_transaction_and_add_event
<1>3. t \in osip_transaction_find(kind, m)
  BY <1>2 DEF TlFirst
<1>4. t.kind = kind /\ t.request.branch = m.branch /\ t.request.method = m.method
  BY <1>3 DEF osip_transaction_find, TlList,
     __osip_transaction_matching_response_osip_to_xict_17_1_3
<1>5. t.request \in osip.requests
  BY <1>4 DEF TlInv, TlListed, TlAsOf
<1>6. t.request = m
  BY <1>4, <1>5 DEF TlInv, TlAsked
<1> QED
  BY <1>2, <1>6, TlHearsKeeps

(* A machine that moves arms the timers of its new state.                  *)
LEMMA TlMovesKeeps == TlInv(osip) /\ TlMoves => TlInv(osip')
<1> SUFFICES ASSUME TlInv(osip), TlMoves  PROVE TlInv(osip')
  OBVIOUS
<1>1. PICK t \in osip.transactions, state \in TlStates, queued \in BOOLEAN :
        \E left \in [TlArmed(t.kind, state) -> 0..TlTime] :
          osip' = [osip EXCEPT !.transactions = TlWithout(t) \cup
                     {[t EXCEPT !.state = state, !.left = left, !.queued = queued]}]
  BY Zenon DEF TlMoves
<1>2. PICK left \in [TlArmed(t.kind, state) -> 0..TlTime] :
        osip' = [osip EXCEPT !.transactions = TlWithout(t) \cup
                   {[t EXCEPT !.state = state, !.left = left, !.queued = queued]}]
  BY <1>1, Zenon
<1>3. PICK u : u = [t EXCEPT !.state = state, !.left = left, !.queued = queued]
  OBVIOUS
<1>4. TlIsTimed(t)
  BY DEF TlInv, TlListed
<1>5. u = [id |-> t.id, request |-> t.request, heard |-> t.heard, state |-> state,
           left |-> left, queued |-> queued, kind |-> t.kind]
  BY <1>3, <1>4 DEF TlIsTimed
<1>6. /\ u.id = t.id /\ u.kind = t.kind /\ u.request = t.request /\ u.heard = t.heard
      /\ u.state = state /\ u.left = left
  BY <1>5
<1>7. left \in [TlArmed(u.kind, u.state) -> Nat]
  BY <1>6
<1>8. u = [id |-> u.id, request |-> u.request, heard |-> u.heard, state |-> u.state,
           left |-> u.left, queued |-> u.queued, kind |-> u.kind]
  BY <1>5
<1>9. TlIsTimed(u)
  BY <1>6, <1>7, <1>8 DEF TlIsTimed
<1>10. osip' = [osip EXCEPT !.transactions = TlWithout(t) \cup {u}]
  BY <1>2, <1>3, Zenon
<1> QED
  BY <1>6, <1>9, <1>10, TlReplaced

-----------------------------------------------------------------------------
(* The timers that are looked at are those that are armed.                 *)
LEMMA TlLooksAtArmed == ASSUME NEW t  PROVE TlLooksAt(t) = TlArmed(t.kind, t.state)
  BY DEF TlLooksAt, TlArmed

(* What has slept is timed as before, when it slept no longer than each of *)
(* its timers.                                                             *)
LEMMA TlRested ==
  ASSUME NEW t, TlIsTimed(t), NEW slept \in Nat, NEW u, u = TlRests(t, slept),
         \A x \in TlArmed(t.kind, t.state) : slept <= t.left[x]
  PROVE  /\ TlIsTimed(u) /\ u.id = t.id /\ u.kind = t.kind /\ u.request = t.request
         /\ u.heard = t.heard
<1>1. PICK left : left = [x \in DOMAIN t.left |-> t.left[x] - slept]
  OBVIOUS
<1>2. u = [id |-> t.id, request |-> t.request, heard |-> t.heard, state |-> t.state,
           left |-> left, queued |-> t.queued, kind |-> t.kind]
  BY <1>1 DEF TlIsTimed, TlRests
<1>3. left \in [TlArmed(t.kind, t.state) -> Nat]
  <2>1. DOMAIN t.left = TlArmed(t.kind, t.state)
    BY DEF TlIsTimed
  <2>2. ASSUME NEW x \in TlArmed(t.kind, t.state)  PROVE t.left[x] - slept \in Nat
    <3>1. t.left[x] \in Nat /\ slept <= t.left[x]
      BY DEF TlIsTimed
    <3> QED
      BY <3>1
  <2> QED
    BY <1>1, <2>1, <2>2
<1>4. /\ u.id = t.id /\ u.kind = t.kind /\ u.request = t.request /\ u.heard = t.heard
      /\ u.state = t.state /\ u.left = left
  BY <1>2
<1>5. u = [id |-> u.id, request |-> u.request, heard |-> u.heard, state |-> u.state,
           left |-> u.left, queued |-> u.queued, kind |-> u.kind]
  BY <1>2
<1> QED
  BY <1>3, <1>4, <1>5 DEF TlIsTimed

(* The sleep is no longer than any timer, so nothing is late.              *)
TlSlept(o, T, X) == [o EXCEPT !.transactions = T, !.ixt = X, !.late = FALSE]
LEMMA TlSleepChanges ==
  ASSUME NEW o, NEW T, NEW X, TlTyped(o), NEW p, p = TlSlept(o, T, X)
  PROVE  /\ TlTyped(p) /\ p.transactions = T /\ p.uses = o.uses /\ p.id = o.id
         /\ p.requests = o.requests /\ p.ixt = X /\ p.dialogs = o.dialogs
         /\ p.acked = o.acked /\ p.started = o.started
<1>1. o = [uses |-> o.uses, transactions |-> o.transactions, id |-> o.id,
           requests |-> o.requests, late |-> o.late, ixt |-> o.ixt, dialogs |-> o.dialogs,
           acked |-> o.acked, started |-> o.started]
  BY DEF TlTyped
<1>2. p = [uses |-> o.uses, transactions |-> T, id |-> o.id,
           requests |-> o.requests, late |-> FALSE, ixt |-> X, dialogs |-> o.dialogs,
           acked |-> o.acked, started |-> o.started]
  BY <1>1 DEF TlSlept
<1>3. /\ p.transactions = T /\ p.uses = o.uses /\ p.id = o.id
      /\ p.requests = o.requests /\ p.ixt = X /\ p.dialogs = o.dialogs
      /\ p.acked = o.acked /\ p.started = o.started
  BY <1>2
<1>4. p.late = FALSE
  BY <1>2
<1>5. p = [uses |-> p.uses, transactions |-> p.transactions, id |-> p.id,
           requests |-> p.requests, late |-> p.late, ixt |-> p.ixt, dialogs |-> p.dialogs,
           acked |-> p.acked, started |-> p.started]
  BY <1>2
<1>6. p.id \in Nat
  BY <1>3 DEF TlTyped
<1> QED
  BY <1>3, <1>4, <1>5, <1>6 DEF TlTyped

(* What is repeated keeps its place while its time goes by.                *)
TlIxtRests(x, slept) == [x EXCEPT !.left = @ - slept]
LEMMA TlIxtRested ==
  ASSUME NEW x, TlRepetition(x), NEW slept \in Nat, slept <= x.left,
         NEW y, y = TlIxtRests(x, slept)
  PROVE  TlRepetition(y) /\ y.dialog = x.dialog /\ y.nth = x.nth
<1>1. y = [dialog |-> x.dialog, nth |-> x.nth, counter |-> x.counter, left |-> x.left - slept]
  BY DEF TlRepetition, TlIxtRests
<1>2. /\ y.dialog = x.dialog /\ y.nth = x.nth /\ y.counter = x.counter
      /\ y.left = x.left - slept
  BY <1>1
<1>3. y = [dialog |-> y.dialog, nth |-> y.nth, counter |-> y.counter, left |-> y.left]
  BY <1>1
<1>4. y.left \in Nat
  BY <1>2 DEF TlRepetition
<1> QED
  BY <1>2, <1>3, <1>4 DEF TlRepetition

(* A list in which each is replaced by one of the same name and client.    *)
LEMMA TlListedRests ==
  ASSUME NEW o, TlListed(o), NEW p, NEW slept \in Nat,
         p.uses = o.uses, p.id = o.id, p.requests = o.requests,
         p.transactions = {TlRests(t, slept) : t \in o.transactions},
         \A t \in o.transactions : \A x \in TlArmed(t.kind, t.state) : slept <= t.left[x]
  PROVE  TlListed(p)
<1>1. ASSUME NEW t \in o.transactions, NEW u, u = TlRests(t, slept)
      PROVE  /\ TlIsTimed(u) /\ u.id = t.id /\ u.kind = t.kind /\ u.request = t.request
             /\ u.heard = t.heard
  <2>1. TlIsTimed(t)
    BY DEF TlListed
  <2>2. \A x \in TlArmed(t.kind, t.state) : slept <= t.left[x]
    OBVIOUS
  <2> QED
    BY <1>1, <2>1, <2>2, TlRested
<1>2. ASSUME NEW u \in p.transactions
      PROVE  /\ TlIsTimed(u) /\ TlAsOf(p, u)
             /\ \E t \in o.transactions :
                  /\ u = TlRests(t, slept)
                  /\ u.id = t.id /\ u.kind = t.kind /\ u.request = t.request
  <2>1. PICK t \in o.transactions : u = TlRests(t, slept)
    OBVIOUS
  <2>2. /\ TlIsTimed(u) /\ u.id = t.id /\ u.kind = t.kind /\ u.request = t.request
        /\ u.heard = t.heard
    BY <1>1, <2>1
  <2>3. TlAsOf(o, t)
    BY DEF TlListed
  <2>4. TlAsOf(p, u)
    BY <2>2, <2>3 DEF TlAsOf, TlServes
  <2> QED
    BY <2>1, <2>2, <2>4
<1>3. ASSUME NEW u \in p.transactions, NEW v \in p.transactions, u.id = v.id  PROVE u = v
  <2>1. PICK t \in o.transactions : u = TlRests(t, slept) /\ u.id = t.id
    BY <1>2
  <2>2. PICK s \in o.transactions : v = TlRests(s, slept) /\ v.id = s.id
    BY <1>2
  <2>3. s = t
    BY <1>3, <2>1, <2>2 DEF TlListed
  <2> QED
    BY <2>1, <2>2, <2>3
<1>4. ASSUME NEW u \in p.transactions, NEW v \in p.transactions,
             u.kind = v.kind, u.request.client = v.request.client
      PROVE  u.id = v.id
  <2>1. PICK t \in o.transactions : u.id = t.id /\ u.kind = t.kind /\ u.request = t.request
    BY <1>2
  <2>2. PICK s \in o.transactions : v.id = s.id /\ v.kind = s.kind /\ v.request = s.request
    BY <1>2
  <2>3. t.kind = s.kind /\ t.request.client = s.request.client
    BY <1>4, <2>1, <2>2
  <2>4. t.id = s.id
    BY <2>3 DEF TlListed
  <2> QED
    BY <2>1, <2>2, <2>4
<1> QED
  BY <1>2, <1>3, <1>4, Zenon DEF TlListed

(* So is what is repeated.                                                 *)
LEMMA TlRepeatedRests ==
  ASSUME NEW o, TlRepeated(o), NEW p, NEW slept \in Nat,
         p.dialogs = o.dialogs, p.acked = o.acked, p.started = o.started,
         p.ixt = {TlIxtRests(x, slept) : x \in o.ixt},
         \A x \in o.ixt : slept <= x.left
  PROVE  TlRepeated(p)
<1>1. ASSUME NEW y \in p.ixt
      PROVE  /\ TlRepetition(y)
             /\ \E x \in o.ixt : /\ y = TlIxtRests(x, slept)
                                 /\ y.dialog = x.dialog /\ y.nth = x.nth
  <2>1. PICK x \in o.ixt : y = TlIxtRests(x, slept)
    OBVIOUS
  <2>2. TlRepetition(x)
    BY DEF TlRepeated
  <2>3. TlRepetition(y) /\ y.dialog = x.dialog /\ y.nth = x.nth
    BY <2>1, <2>2, TlIxtRested
  <2> QED
    BY <2>1, <2>3
<1>2. ASSUME NEW y \in p.ixt
      PROVE  /\ TlRepetition(y) /\ y.dialog \in p.dialogs /\ y.nth <= p.started[y.dialog]
             /\ p.started[y.dialog] = 1 => y.dialog \notin p.acked
  <2>1. PICK x \in o.ixt : y.dialog = x.dialog /\ y.nth = x.nth
    BY <1>1
  <2>2. /\ x.dialog \in o.dialogs /\ x.nth <= o.started[x.dialog]
        /\ o.started[x.dialog] = 1 => x.dialog \notin o.acked
    BY DEF TlRepeated
  <2> QED
    BY <1>1, <2>1, <2>2
<1>3. ASSUME NEW y \in p.ixt, NEW z \in p.ixt, y.dialog = z.dialog, y.nth = z.nth  PROVE y = z
  <2>1. PICK x \in o.ixt : y = TlIxtRests(x, slept) /\ y.dialog = x.dialog /\ y.nth = x.nth
    BY <1>1
  <2>2. PICK w \in o.ixt : z = TlIxtRests(w, slept) /\ z.dialog = w.dialog /\ z.nth = w.nth
    BY <1>1
  <2>3. x = w
    BY <1>3, <2>1, <2>2 DEF TlRepeated
  <2> QED
    BY <2>1, <2>2, <2>3
<1>4. /\ p.started \in [TlDialogs -> Nat] /\ p.dialogs \subseteq TlDialogs
      /\ p.acked \subseteq TlDialogs /\ \A d \in p.acked : p.started[d] >= 1
  BY DEF TlRepeated
<1> QED
  BY <1>2, <1>3, <1>4, Zenon DEF TlRepeated

(* The stack sleeps until the first timer.                                 *)
LEMMA TlSleepsKeeps == TlInv(osip) /\ TlSleeps => TlInv(osip')
<1> SUFFICES ASSUME TlInv(osip), TlSleeps  PROVE TlInv(osip')
  OBVIOUS
<1>1. PICK slept \in osip_timers_gettimeout :
        /\ slept > 0 /\ \A left \in osip_timers_gettimeout : slept <= left
        /\ osip' = [osip EXCEPT
             !.transactions = {TlRests(t, slept) : t \in @},
             !.ixt = {[x EXCEPT !.left = @ - slept] : x \in @},
             !.late = \/ \E t \in osip.transactions :
                           \E x \in TlArmed(t.kind, t.state) : t.left[x] < slept
                      \/ \E x \in osip.ixt : x.left < slept]
  BY Zenon DEF TlSleeps
<1> DEFINE A == UNION {{t.left[x] : x \in TlLooksAt(t)} : t \in osip.transactions}
           B == {x.left : x \in osip.ixt}
<1>2. osip_timers_gettimeout = A \cup B
  <2>1. CASE \E t \in TlList("ICT") : t.queued
    <3>1. osip_timers_gettimeout = {0}
      BY <2>1 DEF osip_timers_gettimeout
    <3> QED
      BY <1>1, <3>1
  <2>2. CASE ~ \E t \in TlList("ICT") : t.queued
    BY <2>2, Zenon DEF osip_timers_gettimeout
  <2> QED
    BY <2>1, <2>2, Zenon
<1>3. ASSUME NEW t \in osip.transactions, NEW x \in TlArmed(t.kind, t.state)
      PROVE  t.left[x] \in osip_timers_gettimeout /\ t.left[x] \in Nat
  <2>1. TlIsTimed(t)
    BY DEF TlInv, TlListed
  <2>2. t.left[x] \in Nat
    BY <1>3, <2>1 DEF TlIsTimed
  <2>3. x \in TlLooksAt(t)
    BY <1>3, TlLooksAtArmed
  <2>4. t.left[x] \in {t.left[y] : y \in TlLooksAt(t)}
    BY <2>3
  <2>5. t.left[x] \in A
    BY <2>4, Zenon
  <2> HIDE DEF A, B
  <2> QED
    BY <1>2, <2>2, <2>5
<1>4. \A x \in osip.ixt : x.left \in osip_timers_gettimeout /\ x.left \in Nat
  <2>1. \A x \in osip.ixt : x.left \in B
    OBVIOUS
  <2>2. \A x \in osip.ixt : x.left \in Nat
    BY DEF TlInv, TlRepeated, TlRepetition
  <2> HIDE DEF A, B
  <2> QED
    BY <1>2, <2>1, <2>2
<1>5. slept \in Nat
  <2>1. CASE slept \in B
    BY <1>4, <2>1
  <2>2. CASE slept \in A
    <3>1. PICK t \in osip.transactions : slept \in {t.left[x] : x \in TlLooksAt(t)}
      BY <2>2, Zenon
    <3>2. PICK x \in TlLooksAt(t) : slept = t.left[x]
      BY <3>1
    <3>3. x \in TlArmed(t.kind, t.state)
      BY TlLooksAtArmed
    <3> QED
      BY <1>3, <3>2, <3>3
  <2>3. slept \in osip_timers_gettimeout
    BY <1>1
  <2>4. slept \in A \/ slept \in B
    <3> HIDE DEF A, B
    <3> QED
      BY <1>2, <2>3
  <2> QED
    BY <2>1, <2>2, <2>4, Zenon
<1> HIDE DEF A, B
<1>6. \A t \in osip.transactions : \A x \in TlArmed(t.kind, t.state) :
        slept <= t.left[x] /\ t.left[x] \in Nat
  BY <1>1, <1>3
<1>7. \A x \in osip.ixt : slept <= x.left /\ x.left \in Nat
  BY <1>1, <1>4
<1>8. (\/ \E t \in osip.transactions : \E x \in TlArmed(t.kind, t.state) : t.left[x] < slept
       \/ \E x \in osip.ixt : x.left < slept) = FALSE
  BY <1>5, <1>6, <1>7
<1>9. PICK T, X : /\ T = {TlRests(t, slept) : t \in osip.transactions}
                  /\ X = {TlIxtRests(x, slept) : x \in osip.ixt}
  OBVIOUS
<1>10. osip' = TlSlept(osip, T, X)
  BY <1>1, <1>8, <1>9, Zenon DEF TlSlept, TlIxtRests
<1>11. /\ TlTyped(osip') /\ osip'.transactions = T /\ osip'.uses = osip.uses
       /\ osip'.id = osip.id
       /\ osip'.requests = osip.requests /\ osip'.ixt = X
       /\ osip'.dialogs = osip.dialogs
       /\ osip'.acked = osip.acked /\ osip'.started = osip.started
  <2>1. PICK o, p : o = osip /\ p = osip'
    OBVIOUS
  <2>2. TlTyped(o) /\ p = TlSlept(o, T, X)
    BY <1>10, <2>1, Zenon DEF TlInv
  <2>3. /\ TlTyped(p) /\ p.transactions = T /\ p.uses = o.uses /\ p.id = o.id
        /\ p.requests = o.requests /\ p.ixt = X /\ p.dialogs = o.dialogs
        /\ p.acked = o.acked /\ p.started = o.started
    BY <2>2, TlSleepChanges
  <2> QED
    BY <2>1, <2>3, Zenon
<1>12. PICK o, p : o = osip /\ p = osip'
  OBVIOUS
<1>13. TlListed(p)
  <2>1. TlListed(o)
    BY <1>12 DEF TlInv
  <2>2. /\ p.uses = o.uses /\ p.id = o.id /\ p.requests = o.requests
        /\ p.transactions = {TlRests(t, slept) : t \in o.transactions}
    BY <1>9, <1>11, <1>12
  <2>3. \A t \in o.transactions : \A x \in TlArmed(t.kind, t.state) : slept <= t.left[x]
    BY <1>6, <1>12
  <2> QED
    BY <1>5, <2>1, <2>2, <2>3, TlListedRests
<1>14. TlRepeated(p)
  <2>1. TlRepeated(o)
    BY <1>12 DEF TlInv
  <2>2. /\ p.dialogs = o.dialogs /\ p.acked = o.acked /\ p.started = o.started
        /\ p.ixt = {TlIxtRests(x, slept) : x \in o.ixt}
    BY <1>9, <1>11, <1>12
  <2>3. \A x \in o.ixt : slept <= x.left
    BY <1>7, <1>12
  <2> QED
    BY <1>5, <2>1, <2>2, <2>3, TlRepeatedRests
<1>15. TlAsked(osip')
  BY <1>11 DEF TlInv, TlAsked
<1> QED
  BY <1>11, <1>12, <1>13, <1>14, <1>15 DEF TlInv

-----------------------------------------------------------------------------
(* What is repeated changes, and what was acknowledged or started; the     *)
(* transactions stay.                                                      *)
LEMMA TlIxtChanges ==
  ASSUME TlInv(osip), NEW o, TlTyped(o), o.transactions = osip.transactions,
         o.uses = osip.uses, o.id = osip.id, o.requests = osip.requests, TlRepeated(o)
  PROVE  TlInv(o)
<1>1. TlListed(o)
  <2>1. \A t \in osip.transactions : TlAsOf(osip, t) => TlAsOf(o, t)
    BY DEF TlAsOf, TlServes
  <2>2. \A t \in osip.transactions : TlIsTimed(t) /\ TlAsOf(osip, t)
    BY DEF TlInv, TlListed
  <2>3. \A t \in o.transactions : TlIsTimed(t) /\ TlAsOf(o, t)
    BY <2>1, <2>2
  <2> QED
    BY <2>3 DEF TlInv, TlListed
<1>2. TlAsked(o)
  BY DEF TlInv, TlAsked
<1> QED
  BY <1>1, <1>2 DEF TlInv

(* The fields that the repetitions are made of.                            *)
TlIxtOf(o, X, D, A, S) ==
  [uses |-> o.uses, transactions |-> o.transactions, id |-> o.id, requests |-> o.requests,
   late |-> o.late, ixt |-> X, dialogs |-> D, acked |-> A, started |-> S]
LEMMA TlIxtFields ==
  ASSUME NEW o, TlTyped(o), NEW X, NEW D, NEW A, NEW S, NEW p, p = TlIxtOf(o, X, D, A, S)
  PROVE  /\ TlTyped(p) /\ p.transactions = o.transactions /\ p.uses = o.uses /\ p.id = o.id
         /\ p.requests = o.requests /\ p.ixt = X /\ p.dialogs = D
         /\ p.acked = A /\ p.started = S
<1>2. p = [uses |-> o.uses, transactions |-> o.transactions, id |-> o.id,
           requests |-> o.requests, late |-> o.late, ixt |-> X, dialogs |-> D,
           acked |-> A, started |-> S]
  BY DEF TlIxtOf
<1>3. /\ p.transactions = o.transactions /\ p.uses = o.uses /\ p.id = o.id
      /\ p.late = o.late /\ p.requests = o.requests /\ p.ixt = X /\ p.dialogs = D
      /\ p.acked = A /\ p.started = S
  BY <1>2
<1>4. p = [uses |-> p.uses, transactions |-> p.transactions, id |-> p.id,
           requests |-> p.requests, late |-> p.late, ixt |-> p.ixt, dialogs |-> p.dialogs,
           acked |-> p.acked, started |-> p.started]
  BY <1>2
<1> QED
  BY <1>3, <1>4 DEF TlTyped

(* A step of the repetitions, from what it makes of them.                  *)
LEMMA TlIxtSteps ==
  ASSUME TlInv(osip), NEW X, NEW D, NEW A, NEW S, osip' = TlIxtOf(osip, X, D, A, S),
         S \in [TlDialogs -> Nat], D \subseteq TlDialogs,
         A \subseteq TlDialogs, \A d \in A : S[d] >= 1,
         \A x \in X : TlRepetition(x) /\ x.dialog \in D /\ x.nth <= S[x.dialog],
         \A x, y \in X : x.dialog = y.dialog /\ x.nth = y.nth => x = y,
         \A x \in X : S[x.dialog] = 1 => x.dialog \notin A
  PROVE  TlInv(osip')
<1>1. PICK o, p : o = osip /\ p = osip'
  OBVIOUS
<1>2. TlTyped(o) /\ p = TlIxtOf(o, X, D, A, S)
  BY <1>1, Zenon DEF TlInv
<1>3. /\ TlTyped(p) /\ p.transactions = o.transactions /\ p.uses = o.uses /\ p.id = o.id
      /\ p.requests = o.requests /\ p.ixt = X /\ p.dialogs = D
      /\ p.acked = A /\ p.started = S
  BY <1>2, TlIxtFields
<1>4. TlRepeated(p)
  BY <1>3 DEF TlRepeated
<1>5. TlInv(p)
  BY <1>1, <1>3, <1>4, TlIxtChanges
<1> QED
  BY <1>1, <1>5

(* The next of a dialog is started; then it has more than one, so the ACK  *)
(* that came for another says nothing of it.                               *)
LEMMA TlStartsIxtKeeps == TlInv(osip) /\ TlStartsIxt => TlInv(osip')
<1> SUFFICES ASSUME TlInv(osip), TlStartsIxt  PROVE TlInv(osip')
  OBVIOUS
<1>0. /\ osip.started \in [TlDialogs -> Nat] /\ osip.dialogs \subseteq TlDialogs
      /\ osip.acked \subseteq TlDialogs /\ \A d \in osip.acked : osip.started[d] >= 1
      /\ \A x \in osip.ixt : TlRepetition(x) /\ x.dialog \in osip.dialogs
                             /\ x.nth <= osip.started[x.dialog]
      /\ \A x, y \in osip.ixt : x.dialog = y.dialog /\ x.nth = y.nth => x = y
      /\ \A x \in osip.ixt : osip.started[x.dialog] = 1 => x.dialog \notin osip.acked
  BY DEF TlInv, TlRepeated
<1>1. PICK d \in osip.dialogs :
        osip' = [osip EXCEPT !.ixt = @ \cup {ixt_init(d)}, !.started[d] = @ + 1]
  BY Zenon DEF TlStartsIxt
<1>2. PICK u, X, S : /\ u = ixt_init(d) /\ X = osip.ixt \cup {u}
                     /\ S = [osip.started EXCEPT ![d] = @ + 1]
  OBVIOUS
<1>3. osip' = TlIxtOf(osip, X, osip.dialogs, osip.acked, S)
  <2>1. osip = [uses |-> osip.uses, transactions |-> osip.transactions, id |-> osip.id,
          requests |-> osip.requests, late |-> osip.late, ixt |-> osip.ixt,
          dialogs |-> osip.dialogs, acked |-> osip.acked, started |-> osip.started]
    BY DEF TlInv, TlTyped
  <2>2. osip' = [uses |-> osip.uses, transactions |-> osip.transactions, id |-> osip.id,
          requests |-> osip.requests, late |-> osip.late, ixt |-> X,
          dialogs |-> osip.dialogs, acked |-> osip.acked, started |-> S]
    BY <1>1, <1>2, <2>1
  <2> QED
    BY <2>2 DEF TlIxtOf
<1>4. /\ u.dialog = d /\ u.nth = osip.started[d] + 1 /\ TlRepetition(u)
  <2>1. osip.started[d] \in Nat /\ TlCounter \in Nat \ {0}
    BY <1>0, TlAssumption
  <2> QED
    BY <1>2, <2>1 DEF ixt_init, TlRepetition
<1>5. /\ S \in [TlDialogs -> Nat] /\ S[d] = osip.started[d] + 1
      /\ \A e \in TlDialogs : e # d => S[e] = osip.started[e]
  BY <1>0, <1>2
<1>6. \A e \in TlDialogs : S[e] \in Nat /\ osip.started[e] \in Nat /\ S[e] >= osip.started[e]
  BY <1>0, <1>5
<1>7. \A x \in osip.ixt : x.dialog \in TlDialogs /\ x.nth \in Nat /\ x.nth >= 1
  BY <1>0 DEF TlRepetition
<1>8. \A x \in X : TlRepetition(x) /\ x.dialog \in osip.dialogs /\ x.nth <= S[x.dialog]
  <2>1. u.nth <= S[u.dialog]
    <3>1. d \in TlDialogs /\ osip.started[d] \in Nat
      BY <1>0
    <3> QED
      BY <1>4, <1>5, <3>1
  <2>2. \A x \in osip.ixt : x.nth <= S[x.dialog]
    BY <1>0, <1>6, <1>7
  <2> QED
    BY <1>0, <1>2, <1>4, <2>1, <2>2
<1>9. \A x, y \in X : x.dialog = y.dialog /\ x.nth = y.nth => x = y
  <2>1. \A x \in osip.ixt : x.dialog = d => x.nth # u.nth
    BY <1>0, <1>4, <1>6, <1>7
  <2> QED
    BY <1>0, <1>2, <1>4, <2>1
<1>10. \A e \in osip.acked : S[e] >= 1
  BY <1>0, <1>6
<1>11. \A x \in X : S[x.dialog] = 1 => x.dialog \notin osip.acked
  <2>1. d \in osip.acked => S[d] > 1
    BY <1>0, <1>5, <1>6
  <2>2. \A x \in osip.ixt : x.dialog # d /\ S[x.dialog] = 1 => x.dialog \notin osip.acked
    BY <1>0, <1>5, <1>7
  <2> QED
    BY <1>2, <1>4, <1>6, <2>1, <2>2
<1> QED
  BY <1>0, <1>3, <1>5, <1>8, <1>9, <1>10, <1>11, TlIxtSteps

(* The ACK stops the last that was started: the only one, if there was     *)
(* one.                                                                    *)
LEMMA TlStopKeeps == TlInv(osip) /\ osip_stop_200ok_retransmissions => TlInv(osip')
<1> SUFFICES ASSUME TlInv(osip), osip_stop_200ok_retransmissions  PROVE TlInv(osip')
  OBVIOUS
<1>0. /\ osip.started \in [TlDialogs -> Nat] /\ osip.dialogs \subseteq TlDialogs
      /\ osip.acked \subseteq TlDialogs /\ \A d \in osip.acked : osip.started[d] >= 1
      /\ \A x \in osip.ixt : TlRepetition(x) /\ x.dialog \in osip.dialogs
                             /\ x.nth <= osip.started[x.dialog]
      /\ \A x, y \in osip.ixt : x.dialog = y.dialog /\ x.nth = y.nth => x = y
      /\ \A x \in osip.ixt : osip.started[x.dialog] = 1 => x.dialog \notin osip.acked
  BY DEF TlInv, TlRepeated
<1>1. PICK u \in osip.ixt :
        /\ \A y \in osip.ixt : y.dialog = u.dialog => y.nth <= u.nth
        /\ osip' = [osip EXCEPT !.ixt = @ \ {u}, !.acked = @ \cup {u.dialog}]
  BY Zenon DEF osip_stop_200ok_retransmissions
<1>2. PICK X, A : X = osip.ixt \ {u} /\ A = osip.acked \cup {u.dialog}
  OBVIOUS
<1>3. osip' = TlIxtOf(osip, X, osip.dialogs, A, osip.started)
  <2>1. osip = [uses |-> osip.uses, transactions |-> osip.transactions, id |-> osip.id,
          requests |-> osip.requests, late |-> osip.late, ixt |-> osip.ixt,
          dialogs |-> osip.dialogs, acked |-> osip.acked, started |-> osip.started]
    BY DEF TlInv, TlTyped
  <2>2. osip' = [uses |-> osip.uses, transactions |-> osip.transactions, id |-> osip.id,
          requests |-> osip.requests, late |-> osip.late, ixt |-> X,
          dialogs |-> osip.dialogs, acked |-> A, started |-> osip.started]
    BY <1>1, <1>2, <2>1
  <2> QED
    BY <2>2 DEF TlIxtOf
<1>4. \A x \in osip.ixt : /\ x.dialog \in TlDialogs /\ x.nth \in Nat /\ x.nth >= 1
                          /\ osip.started[x.dialog] \in Nat
  BY <1>0 DEF TlRepetition
<1>5. \A d \in A : osip.started[d] >= 1
  BY <1>0, <1>1, <1>2, <1>4
<1>6. ASSUME NEW x \in X, osip.started[x.dialog] = 1  PROVE x.dialog \notin A
  <2>1. x \in osip.ixt /\ x # u /\ x.dialog \notin osip.acked
    BY <1>0, <1>2, <1>6
  <2>2. CASE x.dialog = u.dialog
    <3>1. x.nth = 1 /\ u.nth = 1
      BY <1>0, <1>4, <1>6, <2>1, <2>2
    <3> QED
      BY <1>0, <2>1, <2>2, <3>1
  <2> QED
    BY <1>2, <2>1, <2>2
<1>7. A \subseteq TlDialogs
  BY <1>0, <1>2, <1>4
<1>8. X \subseteq osip.ixt
  BY <1>2
<1> QED
  BY <1>0, <1>3, <1>5, <1>6, <1>7, <1>8, TlIxtSteps

(* The end of a dialog ends what is repeated for it.                       *)
LEMMA TlEndsKeeps == TlInv(osip) /\ osip_stop_retransmissions_from_dialog => TlInv(osip')
<1> SUFFICES ASSUME TlInv(osip), osip_stop_retransmissions_from_dialog  PROVE TlInv(osip')
  OBVIOUS
<1>0. /\ osip.started \in [TlDialogs -> Nat] /\ osip.dialogs \subseteq TlDialogs
      /\ osip.acked \subseteq TlDialogs /\ \A d \in osip.acked : osip.started[d] >= 1
      /\ \A x \in osip.ixt : TlRepetition(x) /\ x.dialog \in osip.dialogs
                             /\ x.nth <= osip.started[x.dialog]
      /\ \A x, y \in osip.ixt : x.dialog = y.dialog /\ x.nth = y.nth => x = y
      /\ \A x \in osip.ixt : osip.started[x.dialog] = 1 => x.dialog \notin osip.acked
  BY DEF TlInv, TlRepeated
<1>1. PICK d \in osip.dialogs :
        osip' = [osip EXCEPT !.ixt = {x \in @ : x.dialog # d}, !.dialogs = @ \ {d}]
  BY Zenon DEF osip_stop_retransmissions_from_dialog
<1>2. PICK X, D : X = {x \in osip.ixt : x.dialog # d} /\ D = osip.dialogs \ {d}
  OBVIOUS
<1>3. osip' = TlIxtOf(osip, X, D, osip.acked, osip.started)
  <2>1. osip = [uses |-> osip.uses, transactions |-> osip.transactions, id |-> osip.id,
          requests |-> osip.requests, late |-> osip.late, ixt |-> osip.ixt,
          dialogs |-> osip.dialogs, acked |-> osip.acked, started |-> osip.started]
    BY DEF TlInv, TlTyped
  <2>2. osip' = [uses |-> osip.uses, transactions |-> osip.transactions, id |-> osip.id,
          requests |-> osip.requests, late |-> osip.late, ixt |-> X,
          dialogs |-> D, acked |-> osip.acked, started |-> osip.started]
    BY <1>1, <1>2, <2>1
  <2> QED
    BY <2>2 DEF TlIxtOf
<1>4. \A x \in X : x \in osip.ixt /\ x.dialog \in D
  BY <1>0, <1>2
<1>5. D \subseteq TlDialogs
  BY <1>0, <1>2
<1> QED
  BY <1>0, <1>3, <1>4, <1>5, TlIxtSteps

(* What was sent again has a copy less, and goes with the last.            *)
LEMMA TlExecutesKeeps == TlInv(osip) /\ osip_retransmissions_execute => TlInv(osip')
<1> SUFFICES ASSUME TlInv(osip), osip_retransmissions_execute  PROVE TlInv(osip')
  OBVIOUS
<1>0. /\ osip.started \in [TlDialogs -> Nat] /\ osip.dialogs \subseteq TlDialogs
      /\ osip.acked \subseteq TlDialogs /\ \A d \in osip.acked : osip.started[d] >= 1
      /\ \A x \in osip.ixt : TlRepetition(x) /\ x.dialog \in osip.dialogs
                             /\ x.nth <= osip.started[x.dialog]
      /\ \A x, y \in osip.ixt : x.dialog = y.dialog /\ x.nth = y.nth => x = y
      /\ \A x \in osip.ixt : osip.started[x.dialog] = 1 => x.dialog \notin osip.acked
  BY DEF TlInv, TlRepeated
<1>1. PICK due \in SUBSET {x \in osip.ixt : x.left = 0} :
        osip' = [osip EXCEPT !.ixt =
          {x \in (@ \ due) \cup {ixt_retransmit(x) : x \in due} : x.counter # 0}]
  BY Zenon DEF osip_retransmissions_execute
<1>2. PICK X : X = {x \in (osip.ixt \ due) \cup {ixt_retransmit(x) : x \in due} : x.counter # 0}
  OBVIOUS
<1>3. osip' = TlIxtOf(osip, X, osip.dialogs, osip.acked, osip.started)
  <2>1. osip = [uses |-> osip.uses, transactions |-> osip.transactions, id |-> osip.id,
          requests |-> osip.requests, late |-> osip.late, ixt |-> osip.ixt,
          dialogs |-> osip.dialogs, acked |-> osip.acked, started |-> osip.started]
    BY DEF TlInv, TlTyped
  <2>2. osip' = [osip EXCEPT !.ixt = X]
    BY <1>1, <1>2, Zenon
  <2>3. osip' = [uses |-> osip.uses, transactions |-> osip.transactions, id |-> osip.id,
          requests |-> osip.requests, late |-> osip.late, ixt |-> X,
          dialogs |-> osip.dialogs, acked |-> osip.acked, started |-> osip.started]
    BY <2>1, <2>2
  <2> QED
    BY <2>3 DEF TlIxtOf
<1>4. ASSUME NEW x \in due, NEW y, y = ixt_retransmit(x)
      PROVE  /\ y.dialog = x.dialog /\ y.nth = x.nth
             /\ y.counter # 0 => TlRepetition(y)
  <2>1. TlRepetition(x)
    BY <1>0
  <2>2. y = [dialog |-> x.dialog, nth |-> x.nth, counter |-> x.counter - 1, left |-> TlTime]
    BY <1>4, <2>1 DEF TlRepetition, ixt_retransmit
  <2>3. y.dialog = x.dialog /\ y.nth = x.nth /\ y.counter = x.counter - 1 /\ y.left = TlTime
    BY <2>2
  <2>4. y = [dialog |-> y.dialog, nth |-> y.nth, counter |-> y.counter, left |-> y.left]
    BY <2>2
  <2>5. TlTime \in Nat /\ TlCounter \in Nat
    BY TlAssumption
  <2>6. y.counter # 0 => y.counter \in 1..TlCounter
    BY <2>1, <2>3, <2>5 DEF TlRepetition
  <2> QED
    BY <2>1, <2>3, <2>4, <2>5, <2>6 DEF TlRepetition
<1>5. ASSUME NEW y \in X
      PROVE  /\ TlRepetition(y)
             /\ \E x \in osip.ixt : /\ y.dialog = x.dialog /\ y.nth = x.nth
                                    /\ y = IF x \in due THEN ixt_retransmit(x) ELSE x
  <2>1. CASE y \in osip.ixt \ due
    BY <1>0, <2>1
  <2>2. CASE y \in {ixt_retransmit(x) : x \in due}
    <3>1. PICK x \in due : y = ixt_retransmit(x)
      BY <2>2
    <3>2. y.counter # 0 /\ x \in osip.ixt
      BY <1>2
    <3> QED
      BY <1>4, <3>1, <3>2
  <2> QED
    BY <1>2, <2>1, <2>2
<1>6. \A y \in X : TlRepetition(y) /\ y.dialog \in osip.dialogs /\ y.nth <= osip.started[y.dialog]
  BY <1>0, <1>5
<1>7. ASSUME NEW y \in X, NEW z \in X, y.dialog = z.dialog, y.nth = z.nth  PROVE y = z
  <2>1. PICK x \in osip.ixt : /\ y.dialog = x.dialog /\ y.nth = x.nth
                              /\ y = IF x \in due THEN ixt_retransmit(x) ELSE x
    BY <1>5
  <2>2. PICK w \in osip.ixt : /\ z.dialog = w.dialog /\ z.nth = w.nth
                              /\ z = IF w \in due THEN ixt_retransmit(w) ELSE w
    BY <1>5
  <2>3. x = w
    BY <1>0, <1>7, <2>1, <2>2
  <2> QED
    BY <2>1, <2>2, <2>3
<1>8. \A y \in X : osip.started[y.dialog] = 1 => y.dialog \notin osip.acked
  BY <1>0, <1>5
<1> QED
  BY <1>0, <1>3, <1>6, <1>7, <1>8, TlIxtSteps

(* Each step keeps the lists.                                              *)
LEMMA TlNextKeeps == TlInv(osip) /\ [TlNext]_osip => TlInv(osip')
<1> SUFFICES ASSUME TlInv(osip), [TlNext]_osip  PROVE TlInv(osip')
  OBVIOUS
<1>1. CASE osip.uses = "messages" /\ (TlReceives \/ TlSends \/ TlCancels \/ TlAnswered
                                      \/ osip_remove_transaction)
  BY <1>1, TlReceivesKeeps, TlAsksKeeps, TlAnsweredKeeps, TlRemoveKeeps, Zenon
<1>2. CASE osip.uses = "timers" /\ (TlBegins \/ TlMoves \/ TlSleeps)
  <2>1. osip.uses # "messages"
    BY <1>2
  <2> QED
    BY <1>2, <2>1, TlAsksKeeps, TlMovesKeeps, TlSleepsKeeps, Zenon
<1>3. CASE osip.uses = "ixt" /\ (TlStartsIxt \/ osip_stop_200ok_retransmissions \/ TlSleeps
             \/ osip_stop_retransmissions_from_dialog \/ osip_retransmissions_execute)
  BY <1>3, TlStartsIxtKeeps, TlStopKeeps, TlSleepsKeeps, TlEndsKeeps, TlExecutesKeeps, Zenon
<1>4. CASE UNCHANGED osip
  BY <1>4, Zenon
<1> QED
  BY <1>1, <1>2, <1>3, <1>4, Zenon DEF TlNext

(* Whatever is sent and received, whatever the machines do and whatever    *)
(* the program repeats: a message goes to the transaction of its client,   *)
(* the stack never sleeps past a timer, and what is repeated belongs to a  *)
(* dialog that lives and stops with the ACK.                               *)
THEOREM ListsAlwaysKept == TlSpec => []ListsKept
<1>1. TlInit => TlInv(osip)
  BY TlInitInv
<1>2. TlInv(osip) /\ [TlNext]_osip => TlInv(osip)'
  BY TlNextKeeps
<1>3. TlInv(osip) => ListsKept
  BY TlInvKeeps
<1> QED
  BY <1>1, <1>2, <1>3, PTL DEF TlSpec
=============================================================================
