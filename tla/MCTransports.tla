----------------------------- MODULE MCTransports ---------------------------
(* What takes the messages to the other end: one part moves, the others    *)
(* stay as they are initially.                                             *)
EXTENDS Tcp, Tls, Dtls, Reach, MCDialog, Servers, TransactionList, MCTexts

(* Answers of one to three servers, three being all the table holds. *)
NapUp      == [name |-> "up", priority |-> 1, kind |-> "up"]
NapSilent  == [name |-> "silent", priority |-> 0, kind |-> "silent"]
NapRefuses == [name |-> "refusing", priority |-> 2, kind |-> "refusing"]
NapUnknown == [name |-> "unknown", priority |-> 1, kind |-> "unknown"]

NapFour       == {NapUp, NapSilent, NapRefuses, NapUnknown}
NapFewAnswers == {<<NapUp, NapSilent>>, <<NapSilent, NapUnknown>>, <<NapRefuses>>,
                  <<NapRefuses, NapUp, NapSilent>>, <<NapSilent, NapRefuses>>}

(* Two compliant clients with the same branch, one behind each host, a     *)
(* copy of an INVITE without the port, its CANCEL and its ACK, and one of  *)
(* RFC 2543 without branches.                                              *)
TlRequest(client, method, branch, host, port, to) ==
  [client |-> client, method |-> method, branch |-> branch, host |-> host, port |-> port,
   call |-> "c", from |-> "f", to |-> to, cseq |-> 1]

TlSomeRequests ==
  {TlRequest("a", "INVITE", "z1", "alice", "5060", "none"),
   TlRequest("a", "INVITE", "z1", "alice", "none", "none"),
   TlRequest("a", "ACK", "z1", "alice", "5060", "tag"),
   TlRequest("a cancels", "CANCEL", "z1", "alice", "5060", "none"),
   TlRequest("b", "INVITE", "z1", "bob", "5060", "none"),
   TlRequest("b", "ACK", "z1", "bob", "5060", "tag"),
   TlRequest("b asks", "OPTIONS", "z2", "bob", "5060", "none"),
   TlRequest("c", "INVITE", "none", "carol", "none", "none"),
   TlRequest("c", "ACK", "none", "carol", "none", "tag"),
   [TlRequest("c again", "INVITE", "none", "carol", "none", "tag") EXCEPT !.cseq = 2],
   TlRequest("c cancels", "CANCEL", "none", "carol", "none", "none")}

(* A subdomain, whose name contains that of its domain. *)
RchPair    == {<<"b", "sub.b">>}
RchOneEach == {{"UDP"}, {"TCP"}, {"DTLS-UDP"}}

-----------------------------------------------------------------------------
VARIABLE part

transportsVars == <<part, tcp, tlsVars, dtls, rch, dlg, nap, osip, msg, adr, crd>>

TransportsInit ==
  /\ TcpInit /\ TlsInit /\ DtlsInit /\ RchInit /\ DlgInit /\ NapInit /\ TlInit /\ MsgInit
  /\ AdrInit /\ CrdInit
  /\ part \in {"tcp", "tls", "dtls", "reach", "dialog", "servers", "lists", "messages",
               "addresses", "credentials"}
  /\ part # "dialog" => Len(dlg.chain) = 1
  /\ part # "reach" => rch.uses = {} /\ ~rch.learn_port
  /\ part # "servers" => nap.resolver = "system"
  /\ part # "lists" => osip.uses = "messages"

TransportsNext ==
  \/ part = "tcp" /\ TcpNext
     /\ UNCHANGED <<part, tlsVars, dtls, rch, dlg, nap, osip, msg, adr, crd>>
  \/ part = "tls" /\ TlsNext
     /\ UNCHANGED <<part, tcp, dtls, rch, dlg, nap, osip, msg, adr, crd>>
  \/ part = "dtls" /\ DtlsNext
     /\ UNCHANGED <<part, tcp, tlsVars, rch, dlg, nap, osip, msg, adr, crd>>
  \/ part = "reach" /\ RchNext
     /\ UNCHANGED <<part, tcp, tlsVars, dtls, dlg, nap, osip, msg, adr, crd>>
  \/ part = "dialog" /\ DlgNext
     /\ UNCHANGED <<part, tcp, tlsVars, dtls, rch, nap, osip, msg, adr, crd>>
  \/ part = "servers" /\ NapNext
     /\ UNCHANGED <<part, tcp, tlsVars, dtls, rch, dlg, osip, msg, adr, crd>>
  \/ part = "lists" /\ TlNext
     /\ UNCHANGED <<part, tcp, tlsVars, dtls, rch, dlg, nap, msg, adr, crd>>
  \/ part = "messages" /\ MsgNext
     /\ UNCHANGED <<part, tcp, tlsVars, dtls, rch, dlg, nap, osip, adr, crd>>
  \/ part = "addresses" /\ AdrNext
     /\ UNCHANGED <<part, tcp, tlsVars, dtls, rch, dlg, nap, osip, msg, crd>>
  \/ part = "credentials" /\ CrdNext
     /\ UNCHANGED <<part, tcp, tlsVars, dtls, rch, dlg, nap, osip, msg, adr>>

TransportsSpec == TransportsInit /\ [][TransportsNext]_transportsVars

(* What is sent gets there: every server of a domain is tried in turn,     *)
(* what goes to the other names the address at which the sender was seen   *)
(* last, a request within a dialog meets the routers of its dialog and     *)
(* then the other end, and each message that a peer sends on a TCP         *)
(* connection is handed on once, whole and in order.                       *)
MessagesArrive == ServersTried /\ RchKept /\ DlgRouted /\ TcpStreamsKept

(* What osipparser2 writes is what it would read, at every level: a        *)
(* message keeps its text up to date and is read from it as it was, and    *)
(* each value of a header is read, written and read again without a        *)
(* change, so that a transaction or a dialog is found by the copy as by    *)
(* the original.                                                           *)
TextsKept == MessagesKept /\ AddressesKept /\ CredentialsKept
=============================================================================
